SPECIFICATION Spec
CONSTANTS
    Finisher = {}
    Sweeper = {w1}
    Updater = {}
    Remover = {d1}
    Restorer = {}
    Subscription = {}
    Global = {}
    MaxTime = 2
    MaxCrashes = 0
    MaxRejects = 0
PROPERTY RemovedStaysRemoved
CHECK_DEADLOCK FALSE
