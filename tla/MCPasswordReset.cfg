\* Two workers, two mailboxes: requests, confirms and removals interleaved.
CONSTANTS
    m1 = m1
    m2 = m2
    d1 = d1
    d2 = d2
    Workers = {w1, w2}
    Mailboxes = {m1, m2}
    Domains = {d1, d2}
    DomainOf <- TwoMailboxes
    MainHost = main
    Tokens = {t1, t2}
    TTL = 0
    None = None
SYMMETRY Symmetry
SPECIFICATION Spec
INVARIANTS TypeOK ChangesBounded OneLiveToken TokenKept RevokedWithRecovery
PROPERTIES PortalIsolation
