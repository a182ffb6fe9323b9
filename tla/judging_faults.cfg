SPECIFICATION Spec
CONSTANTS
    Submission = {s1}
    TestCase = {1, 2}
    Hidden = {2}
    InitialTests = {1, 2}
    Worker = {w1, w2}
    NoWorker = NoWorker
    Attempts = 3
    MaxStalledCount = 1
    MaxRejects = 2
    MaxLostAcks = 1
    MaxCrashes = 1
    MaxLockLosses = 1
    MaxEdits = 0
    MaxRequestFaults = 0
SYMMETRY Symmetry
INVARIANTS TypeOK VerdictEarned ExecutionsBounded
CHECK_DEADLOCK FALSE
