SPECIFICATION FairStreamSpec
CONSTANTS
    Submission = {s1}
    Client = {owner, admin}
    Admin = {admin}
    TestCase = {1, 2}
    Hidden = {2}
    InitialTests = {1, 2}
    Worker = {w1}
    NoWorker = NoWorker
    Attempts = 2
    MaxStalledCount = 1
    MaxRejects = 1
    MaxLostAcks = 0
    MaxCrashes = 1
    MaxLockLosses = 0
    MaxEdits = 0
    MaxRequestFaults = 0
INVARIANTS StreamTypeOK FinalEventIsLast ResultsAddUp ToldWhatIsStored HiddenStaysHidden
PROPERTY WatcherIsTold
CHECK_DEADLOCK FALSE
