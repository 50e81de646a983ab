SPECIFICATION Spec
CONSTANTS
    MAX_TASKS = 3
    MaxPid = 3
    Commands = {"bg", "edit", "run"}
INVARIANTS
    OnlyCurrentRuns
    KernelSchedulable
