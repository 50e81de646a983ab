SPECIFICATION MCSpec
CONSTANTS
    MAX_PROCESSES = 3
    MaxContexts = 3
    MaxPid = 4
    Calls = {"run", "isolated", "spawn", "kill", "exec", "fork", "fault", "nomem"}
    MAX_TASKS = 3
    MAX_TRACKED = 2
    SIGNAL_QUEUE_CAP = 1
    MaxTask = 2
    Sigs = {"KILL", "TERM", "STOP"}
    Wired = FALSE
INVARIANTS
    PidsUnique
    
    
    TrackedOnce

    
