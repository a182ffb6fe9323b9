SPECIFICATION FairSpec
CONSTANTS
    Submission = {s1}
    TestCase = {1, 2, 3}
    Hidden = {2, 3}
    InitialTests = {1, 2}
    Worker = {w1}
    NoWorker = NoWorker
    Attempts = 3
    MaxStalledCount = 1
    MaxRejects = 3
    MaxLostAcks = 0
    MaxCrashes = 1
    MaxLockLosses = 0
    MaxEdits = 1
    MaxRequestFaults = 1
INVARIANTS RowsInOrder ErrorHasNoScore SettledIsFinal
PROPERTIES AnsweredIsJudged Contract
CHECK_DEADLOCK FALSE
