SPECIFICATION Spec
CONSTANTS
    w1 = w1  w2 = w2  d1 = d1  d2 = d2  h1 = h1  h2 = h2  h3 = h3
    Workers = {w1, w2}
    Domains = {d1, d2}
    Hosts = {h1, h2, h3}
    DomainOf <- HostsDomains
    Caught = {d2}
    Backends <- EveryBackend
    Foreign = Foreign
    MaxRequests = 6
    None = None
SYMMETRY Symmetry
INVARIANTS TypeOK ServedAsSaved DeployedIsReachable ForeignKept
