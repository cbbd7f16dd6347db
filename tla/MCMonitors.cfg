\* Two workers, one domain: kills and exceptions at every step of either scan.
CONSTANTS
    Workers = {w1, w2}
    d1 = d1
    m1 = m1
    Domains = {d1}
    Zones <- ThreeZones
    Answers <- OneSilent
    MaxKills = 1
    NoWorker = NoWorker
    Missing = Missing
    Mailboxes = {m1}
    DomainOf <- OneMailbox
    Meters = {}
    Levels = {"low", "high"}
    MaxCutOffs = 1
SPECIFICATION ThreadSpec
INVARIANTS TypeOK OneThread SavedMeansTold
