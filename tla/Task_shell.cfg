SPECIFICATION MCSpec
CONSTANTS
    MAX_TASKS = 4
    MaxPid = 4
    Commands = {"edit"}
    DemoChannels = 2
    DemoSlots = 5
    MaxDemos = 3
INVARIANTS
    SlotOwnsContext
    PidsUnique
PROPERTIES
    DeadThreadsStayOff
    DemosEnd
