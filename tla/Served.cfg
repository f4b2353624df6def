\* A folder of at most one file that is paused or whose recursive switch is
\* turned, two exports sent one by one and two requests, everybody fair.
SPECIFICATION AllFairSpec
CONSTANTS
    Parts = {"folder", "batch", "mcp"}
    Workers = {w1, w2}
    Targets = {2}
    Files = {f}
    MaxDirs = 1
    InitialFiles = {{}, {f}}
    Disturbances = {"pause", "toggle"}
    MaxDisturbances = 2
    OneDir = 1
    TwoFiles = {f}
    AnyFiles = {{f}}
    Edits = {}
    MaxChanges = 0
    j1 = j1  j2 = j2  j3 = j3  n1 = n1  n2 = n2  n3 = n3
    Photos = {j1, j2}
    Names = {n1, n2, n3}
    Threads = {t}
    Gui = gui  None = None  Header = Header  Hole = Hole
    Batches <- Singles
    CrashBatches <- Singles
    Ticked = TRUE
    Overlap = {"edit"}
    Faults = {}
    CrashOverlap = {}
    CrashFaults = {}
    MaxEdits = 1  MaxPresses = 1  NoCrash = 0  MaxCrashes = 0
    Requests = {r1, r2}
CHECK_DEADLOCK FALSE
PROPERTIES
    FolderFinishes
    EveryJobLeaves
    EveryRequestAnswered
