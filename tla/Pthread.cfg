SPECIFICATION MCSpec
CONSTANTS
    Threads = {t1, t2, t3}
    FutexThreads = {t1, t2, t3}
    RwThreads = {t1, t2, t3}
    NoThread = none
    MAX_MUTEXES = 1
    MAX_CONDVARS = 1
    MaxMutexId = 2
    MaxCondvarId = 1
    MaxSignals = 2
    MaxWaits = 3
    MaxPolls = 2
    Addrs = {a1, a2}
    MAX_FUTEX_WAITERS = 2
    MaxLooks = 2
    MaxWakes = 2
    MAX_RWLOCKS = 1
    MaxRwlockId = 2
SYMMETRY ThreadSymmetry
INVARIANTS
    OwnerHolds
    NoLostSignal
    WaitersInOrder
    WriterAlone
PROPERTIES
    WakeIsSeen
