SPECIFICATION FairSpec
CONSTANTS
    c1 = c1
    c2 = c2
    c3 = c3
    c4 = c4
    t1 = t1
    t2 = t2
    Null = Null
    Cells = {c1, c2, c3, c4}
    Threads = {t1, t2}
INVARIANTS
    TypeOK
    NoUseAfterFree
    ListIsExact
    DrivenUntilClash
PROPERTIES
    ThreadsEnd
    PulsesEnd
    ImplementsMonitor
CHECK_DEADLOCK FALSE
