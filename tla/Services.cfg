SPECIFICATION MCSpec
CONSTANTS
    MAX_RESTART_RETRIES = 2
    Macs = {m1, m2}
    Pool = {1, 2}
    Elsewhere = 0
    Reservable = {0, 2}
    lease_duration = 1
    MAX_LEASES = 2
    MAX_RESERVATIONS = 1
    MaxTick = 2
SYMMETRY ClientSymmetry
CHECK_DEADLOCK FALSE
INVARIANTS
    BootOrder
    BootStarts
    RunsWithPid
    
