SPECIFICATION Spec
CONSTANTS
    Pools = {p1, p2}
    Strings = {a, b}
    Stores = {s1, s2, s3}
CHECK_DEADLOCK FALSE
INVARIANT
    EmptyPoolsIntern
