SPECIFICATION FairSpec
CONSTANTS
    Finisher = {f1}
    Sweeper = {w1, w2}
    Updater = {u1}
    Remover = {d1}
    Restorer = {r1}
    Subscription = {h1}
    Global = {}
    MaxTime = 2
    MaxCrashes = 1
    MaxRejects = 1
INVARIANTS ToldOfFinished FinishesAreBounded
PROPERTIES ExpiredIsFinished ScopedAreTold
CHECK_DEADLOCK FALSE
