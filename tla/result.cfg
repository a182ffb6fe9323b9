SPECIFICATION ResultSpec
CONSTANTS
    Finisher = {}
    Sweeper = {w1}
    Updater = {u1}
    Remover = {}
    Restorer = {}
    Subscription = {h1}
    Global = {}
    MaxTime = 3
    MaxCrashes = 1
    MaxRejects = 1
    Entry = {e1, e2}
    Points = {0, 100}
SYMMETRY Symmetry
INVARIANTS ResultTypeOK AnnouncedStands
PROPERTY WinnerIsJudged
CHECK_DEADLOCK FALSE
