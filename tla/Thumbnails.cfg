\* The browser, the deleter and two other users of two names and two addresses;
\* one cell of two sizes and two workers; two photos in the batch queue.
SPECIFICATION AllSpec
CONSTANTS
    browser = browser
    deleter = deleter
    photo = photo
    small = small
    Browser = browser
    Deleter = deleter
    Users = {browser, deleter, u1, u2}
    Files = {f, g}
    Objects = {o1, o2}
    Cells = {c1}
    RawCells = {c1}
    Sizes = {small, large}
    Workers = {w1, w2}
    MaxRetries = 1
    Acts = {"edit", "editor", "hover", "scroll", "pause", "resize",
            "delete"}
    CrowdActs = {"edit", "hover", "resize", "scroll", "delete"}
    MaxOps = 3
    MaxCrowdOps = 1
    Photos = {photo, p2}
    Threads = {t1, t2}
    Overlap = {"ending", "rendering"}
    MaxResizes = 2
SYMMETRY Symmetric
CONSTRAINT NotDisturbed
INVARIANTS
    HeldIsAlive
    OnePerFile
    AskedIsAnswered
    
    HelperIsCounted
    OneThread
