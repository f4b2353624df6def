\* Two folders of one file, where the recursive switch is turned or the editor
\* pauses the loader; a folder of one or two files that changes or is paused;
\* three exports, two of them sent together, whose parameter files may fail; two
\* exports and two crashes; two requests.
SPECIFICATION AllSpec
CONSTANTS
    Parts = {"folder", "edited", "batch", "crash", "mcp"}
    Workers = {w1, w2}
    Targets = {2}
    Files = {f}
    MaxDirs = 2
    InitialFiles = {{f}}
    Disturbances = {"toggle", "pause"}
    MaxDisturbances = 1
    OneDir = 1
    TwoFiles = {f, g}
    AnyFiles = {{f}, {f, g}}
    Edits = {"edit", "pause"}
    MaxChanges = 1
    j1 = j1  j2 = j2  j3 = j3  n1 = n1  n2 = n2  n3 = n3
    Photos = {j1, j2, j3}
    Names = {n1, n2, n3}
    Threads = {t}
    Gui = gui  None = None  Header = Header  Hole = Hole
    Batches <- PairAndOne
    CrashBatches <- OnePair
    Ticked = TRUE
    Overlap = {"edit", "notify", "add"}
    Faults = {"params"}
    CrashOverlap = {"edit", "notify"}
    CrashFaults = {"name", "open"}
    MaxEdits = 1  MaxPresses = 1  NoCrash = 0  MaxCrashes = 2
    Requests = {r1, r2}
SYMMETRY Symmetric
CHECK_DEADLOCK FALSE
INVARIANTS
    OnlyThisFolder
    NoFileLost
    Durable
    DevelopedLeaves
    TimedOutDidNothing
