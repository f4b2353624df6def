\* Four threads with eight lock objects, fair; and a canvas with two detail
\* windows, an edit and a move.
SPECIFICATION LocksSpec
CONSTANTS
    outer = outer
    inner = inner
    peek = peek
    write = write
    edit = edit
    sweep = sweep
    scan = scan
    late = late
    ReaderLocks = {outer, inner, scan, late}
    WriterLocks = {write, edit}
    TryReaderLocks = {peek}
    TryWriterLocks = {sweep}
    ThreadOf <- MCThreadOf
    Canvas = canvas
    Windows = {w1, w2}
    Full = {w1, w2}
    Sidecar = TRUE
    Overlap = {"open", "close"}
    MaxEdits = 1
    MaxPans = 1
SYMMETRY WindowsAlike
CONSTRAINT NotCutShort
INVARIANTS
    NoLostWakeup
    NobodyWaitsForItself
    PassReachesAll
    WindowsAreCurrent
PROPERTIES
    ImplementsLock
    Served
