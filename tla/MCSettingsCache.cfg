\* Two threads in one worker, one in the other; each key is saved once.
CONSTANTS
    w1 = w1
    w2 = w2
    t1 = t1
    t2 = t2
    t3 = t3
    form = form
    health = health
    Workers = {w1, w2}
    Threads = {t1, t2, t3}
    WorkerOf <- TwoAndOne
    Requests = {t1, t3}
    Keys = {form, health}
    FormKeys = {form}
    Missing = Missing
    Default = Default
    MaxSaves = 1
SPECIFICATION Spec
INVARIANTS TypeOK SavedIsApplied
PROPERTIES StoreSpec
