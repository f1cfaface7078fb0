SPECIFICATION Spec
CONSTANTS
    c1 = c1
    c2 = c2
    t1 = t1
    t2 = t2
    Null = Null
    Cells = {c1, c2}
    Threads = {t1, t2}
INVARIANTS
    ServoIsDriven
CHECK_DEADLOCK FALSE
