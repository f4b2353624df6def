\* A JPEG photo and one pool thread.
SPECIFICATION Spec
CONSTANTS
    Entries = {jpeg}
    JpegEntries = {jpeg}
    UpgradeEntries = {jpeg}
    Workers = {w1}
    BackgroundWorkers = 1
    PausedWorkers = 1
    MaxJpegJobs = 1
    MaxUpgradeJobs = 1
PROPERTIES
    AddedIsProcessed
