SPECIFICATION MCSpec
CONSTANTS
    Names = {f, g}
    FatEntries = 4
    DataClusters = 3
    DirSlots = 2
    Zero = zero
    SlotsPerSector = 1
    MaxVersion = 3
    MaxCuts = 1
    Lengths = {1, 2}
    RamNames = {n1, n2, n3}
    MAX_FILES = 2
    MAX_FILE_DATA = 4
    RamLengths = {0, 1, 2, 5}
    MaxSaves = 4
    TreeNames = {a, b}
    Texts = {t1, t2}
    Big = big
    Deleted = deleted
    MAX_INODES = 5
    MAX_PATH_CACHE = 2
    SectorIds = {1, 2}
    Places = {p1, p2}
    IdxMod = 6
    Served = 4
    MaxRequests = 4
    Bits = {b1}
    StripeSectors = 1
    DiskSizes = {1, 2}
    Levels = {"Raid0", "Raid1", "Raid5"}
    MAX_DEVICES = 3
    MaxLba = 2
SYMMETRY NameSymmetry
CHECK_DEADLOCK FALSE
INVARIANTS
    
    RamReadBack
    OkMeansDone
    ReadsTrue
    StatusTrue
PROPERTIES
    OthersIntact
    ImplementsTree
    WrittenWhereAsked
