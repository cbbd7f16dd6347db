\* Two pages and two workers: lists edited and saved over each other.
CONSTANTS
    a1 = a1
    a2 = a2
    w1 = w1
    w2 = w2
    u1 = u1
    u2 = u2
    alert = alert
    dns = dns
    Missing = Missing
    Admins = {a1, a2}
    Workers = {w1, w2}
    Labels = {"first", "second"}
    Urls = {u1, u2}
    Events = {alert}
    Monitors = {dns}
    EventsOf <- AlertOfDns
    FirstSettings <- TwoTargets
    MaxTargets = 2
    MaxActs = 4
SPECIFICATION Spec
INVARIANTS TypeOK UrlsWereTyped LeftAloneKeepsUrl
SYMMETRY Symmetric
