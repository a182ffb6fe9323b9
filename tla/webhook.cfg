SPECIFICATION FairSpec
CONSTANTS
    Delivery = {d1}
    MaxAttempts = 3
    JobAttempts = 3
    MaxStalledCount = 1
    MaxRejects = 2
    MaxCrashes = 1
INVARIANTS PostsBounded ChainEarned
PROPERTY Contract
CHECK_DEADLOCK FALSE
