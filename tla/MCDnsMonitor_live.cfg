\* One domain that leaves the account and returns, one call of a check silent.
CONSTANTS
    Workers = {w1}
    Domains = {d1}
    Zones <- TwoZones
    Answers <- OneSilent
    MaxKills = 1
    NoWorker = NoWorker
    Missing = Missing
SPECIFICATION LiveSpec
INVARIANTS RecoveryTold
PROPERTIES RepeatsHaveCause BadIsTold GoodIsTold
