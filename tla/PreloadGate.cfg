\* Three photos of which two are RAW: two clicks with delayed starts, one photo
\* that is too large and one that may fail, and fair threads; three clicks; two
\* photos in a scrub, with an edit and a load for a comparison.
SPECIFICATION AllSpec
CONSTANTS
    a = a  b = b  c = c  None = None
    Photos = {a, b, c}
    Raw = {a, b}
    Broken = {a}
    Oversize = {b}
    Plans <- OneHot
    Keeps = {TRUE}
    Delays = {TRUE, FALSE}
    MaxEntries = 1
    MaxClicks = 2
    MaxEdits = 0
    MaxAux = 0
    CrowdedPlans <- OtherHot
    MoreClicks = 3
    TwoPhotos = {a, b}
    BusyPlans <- OneScrub
    BusyBroken = {b}
    BusyEdits = 1
    BusyAux = 1
INVARIANTS
    GateAgrees
PROPERTIES
    AwaitedIsKept
    ClickEnds
CHECK_DEADLOCK FALSE
