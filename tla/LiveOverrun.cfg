CONSTANTS
    Entries = {e1}
    RawEntries = {}
    Sizes = {grid}
    Workers = {w1}
    MaxRetries = 0
    Acts = {"editor"}
    Faults = FALSE
    MaxOps = 2
SPECIFICATION Spec
CHECK_DEADLOCK FALSE
SYMMETRY Symmetry
PROPERTIES
    LiveIsKept
