\* A JPEG photo with an upgrade, two pool threads, fair threads.
SPECIFICATION FairSpec
CONSTANTS
    Entries = {jpeg}
    JpegEntries = {jpeg}
    UpgradeEntries = {jpeg}
    Workers = {w1, w2}
    BackgroundWorkers = 1
    PausedWorkers = 1
    MaxJpegJobs = 1
    MaxUpgradeJobs = 1
INVARIANTS
    CountersAgree
    NoStaleCallback
    NoStrandedJob
    VisibleIsCounted
PROPERTIES
    QueueDrains
