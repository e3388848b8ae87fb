SPECIFICATION FairSpec
CONSTANTS
    None = None
    Login = {l1, l2}
    MaxGen = 2
    MaxLink = 3
    MaxStart = 3
    MaxBreak = 1
    ReadBack = {TRUE, FALSE}
INVARIANTS TypeOK FailsOutsideSet EndsAgree NoDangling
PROPERTY EventuallyLinked
CHECK_DEADLOCK FALSE
