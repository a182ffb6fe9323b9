SPECIFICATION FairSpec
CONSTANTS
    Row = {r1, r2, r3}
    Name = {superadmin, n1, n2}
    Superadmin = superadmin
    Request = {q1, q2}
    MaxCrashes = 2
PROPERTIES UpWithAdmin BootEnds
CHECK_DEADLOCK FALSE
