\* One photo, an edit and the Cancel button of the repairs.
SPECIFICATION Spec
CONSTANTS
    photo = photo
    before = before
    canvas = canvas
    beforeCanvas = beforeCanvas
    source = source
    tone = tone
    detail = detail
    void = void
    Coords = {photo}
    Crops = {canvas}
    CoordOf <- MCCoordOf
    RenderFlags = {source, tone, detail}
    CanvasFlags = {tone}
    VoidFlags = {void}
    Actions <- MCActions
    MaxOps = 2
    Faults = FALSE
    RepairCancels = TRUE
PROPERTIES
    AbandonedIsReplaced
