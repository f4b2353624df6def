\* One photo, three user operations, edits from the source or the tone stage on,
\* no stage throws, fair threads.
SPECIFICATION FairSpec
CONSTANTS
    photo = photo
    before = before
    canvas = canvas
    beforeCanvas = beforeCanvas
    source = source
    tone = tone
    detail = detail
    void = void
    Coords = {photo}
    Crops = {canvas}
    CoordOf <- MCCoordOf
    RenderFlags = {source, tone}
    CanvasFlags = {tone}
    VoidFlags = {void}
    Actions <- MCToneActions
    MaxOps = 3
    Faults = FALSE
    RepairCancels = FALSE
INVARIANTS
    NoLostEdit
    NoLostWindow
PROPERTIES
    ImplementsCanvas
    ProgressEnds
    ClosedIsFreed
    ImplementsFairCanvas
