SPECIFICATION FairSpec
CONSTANTS
    Submission = {s1, s2}
    Client = {c1, c2}
    MaxJoins = 1
    MaxErrors = 1
    MaxRejects = 1
    MaxCrashes = 1
INVARIANTS TypeOK NothingMissed
PROPERTY VerdictsAreShown
CHECK_DEADLOCK FALSE
