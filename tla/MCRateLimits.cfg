\* Logins and resets of one client address together: two workers.
CONSTANTS
    Workers = {w1, w2}
    Clients = {c1}
    Names = {alice, none}
    NoName = none
    Mailboxes = {m1}
    LoginWindow = 1
    LoginIpLimit = 2
    LoginUserLimit = 1
    ResetWindow = 2
    ResetIpLimit = 1
    MailboxLimit = 1
    ConfirmIpLimit = 1
    MaxAge = 3
SPECIFICATION Spec
INVARIANTS TypeOK FailureBound HitBound
PROPERTIES LockoutEnds
