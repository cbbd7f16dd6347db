\* Two jobs on one zone: fixes and setups, a failure or an outside change.
CONSTANTS
    j1 = j1
    j2 = j2
    m1 = m1
    default = default
    reject = reject
    Jobs = {j1, j2}
    Types <- MostTypes
    MxHosts = {m1}
    Policies = {default, reject}
    Default = default
    FirstZones <- SomeZones
    Orders <- FixAllOrSpf
    Answers <- SomeSilent
    MaxJobs = 2
    MaxUpsets = 1
SPECIFICATION Spec
INVARIANTS TypeOK DoneIsPublished
PROPERTIES WritesKeepRight NoBlindDuplicates
SYMMETRY JobSymmetry
