SPECIFICATION Spec
CONSTANTS
    User = {1, 2, 3}
    Problem = {p1, p2}
    Tests = 1
    MaxSubmissions = 3
    MaxJudgings = 3
    MaxTorn = 1
    MaxMinutes = 1
SYMMETRY Symmetry
INVARIANTS StandingIsIcpc RanksAreShared BoardsAgree
PROPERTY VerdictsCountTheirWay
CHECK_DEADLOCK FALSE
