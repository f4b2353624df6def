\* Two photos, three clicks, one photo may fail to decode; three photos and two
\* edits at the gate, late messages included.
SPECIFICATION BothSpec
CONSTANTS
    None = None
    Photos = {a, b}
    Broken = {b}
    Slots = {s1, s2, s3}
    Delays = {TRUE, FALSE}
    Cached = {TRUE, FALSE}
    Covers = {"shown", "busy", "late", "none"}
    MaxClicks = 3
    MaxRefs = 4
    Processors = {p1, p2, p3}
    Races = TRUE
    Failing = TRUE
    MaxLoads = 3
    MaxEdits = 2
INVARIANTS
    HeldWhileNeeded
    NoStrandedPause
PROPERTIES
    OldLoadNeverOpens
    AcceptedIsOpened
