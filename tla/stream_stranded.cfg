SPECIFICATION FairStreamSpec
CONSTANTS
    Submission = {s1}
    Client = {owner}
    Admin = {}
    TestCase = {1}
    Hidden = {}
    InitialTests = {1}
    Worker = {w1}
    NoWorker = NoWorker
    Attempts = 2
    MaxStalledCount = 1
    MaxRejects = 0
    MaxLostAcks = 0
    MaxCrashes = 0
    MaxLockLosses = 0
    MaxEdits = 0
    MaxRequestFaults = 0
PROPERTY NobodyStranded
CHECK_DEADLOCK FALSE
