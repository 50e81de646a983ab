SPECIFICATION MCSpec
CONSTANTS
    Contenders = {t1, t2, t3}
    Wrap = 5
    SIGNAL_QUEUE_CAP = 2
    Sigs = {"KILL", "TERM", "USR1"}
    Machines = {1, 2}
    Epochs = {0}
    Timeout = 1
    MaxBoots = 3
    MaxNet = 1
INVARIANTS
    MutualExclusion
PROPERTIES
    FifoOrder
    
    ReadyRuns
    SleepersWake
    
    MembersMeet
    LeaderIsAlive
