\* Two workers: a token changes the password twice.
CONSTANTS
    m1 = m1
    m2 = m2
    d1 = d1
    d2 = d2
    Workers = {w1, w2}
    Mailboxes = {m1}
    Domains = {d1}
    DomainOf <- OneMailbox
    MainHost = main
    Tokens = {t1, t2}
    TTL = 1
    None = None
SPECIFICATION Spec
INVARIANTS SingleUse
