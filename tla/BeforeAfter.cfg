\* A photo and its before view, two user operations of every kind, any stage may
\* throw.
SPECIFICATION Spec
CONSTANTS
    photo = photo
    before = before
    canvas = canvas
    beforeCanvas = beforeCanvas
    source = source
    tone = tone
    detail = detail
    void = void
    Coords = {photo, before}
    Crops = {canvas, beforeCanvas}
    CoordOf <- MCCoordOf
    RenderFlags = {source, tone, detail}
    CanvasFlags = {tone}
    VoidFlags = {void}
    Actions <- MCActions
    MaxOps = 2
    Faults = TRUE
    RepairCancels = TRUE
INVARIANTS
    NoUseAfterFree
    SettledIsCurrent
