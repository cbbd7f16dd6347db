\* One mailbox, both gauges: every cut-off, list and fetch failure.
CONSTANTS
    m1 = m1
    d1 = d1
    Mailboxes = {m1}
    DomainOf <- OneMailbox
    Meters = {"quota", "send"}
    Levels = {"none", "low", "cooling", "high"}
    MaxCutOffs = 1
SPECIFICATION UsageLiveSpec
INVARIANTS UsageTypeOK FlagMeansTold NoBareRepeat
PROPERTIES HighIsTold AlertsAreTransitions
