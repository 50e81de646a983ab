SPECIFICATION Spec
CONSTANTS
    MAX_PROCESSES = 3
    MaxContexts = 3
    MaxPid = 4
    Calls = {"spawn"}
INVARIANTS
    CurrentIsRunning
