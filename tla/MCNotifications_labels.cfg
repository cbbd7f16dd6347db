\* One page and one worker, and two targets with one label.
CONSTANTS
    a1 = a1
    a2 = a2
    w1 = w1
    w2 = w2
    u1 = u1
    u2 = u2
    alert = alert
    dns = dns
    Missing = Missing
    Admins = {a1}
    Workers = {w1}
    Labels <- NameOrNone
    Urls = {u1, u2}
    Events = {alert}
    Monitors = {dns}
    EventsOf <- AlertOfDns
    FirstSettings = {}
    MaxTargets = 2
    MaxActs = 5
SPECIFICATION Spec
INVARIANTS PlaceholdersPreserved
