SPECIFICATION FairSpec
CONSTANTS
    t1 = t1
    t2 = t2
    t3 = t3
    t4 = t4
    Thread = {t1, t2, t3, t4}
    CPU = {0}
    Chan = {}
    MaxItems = 0
    Calls <- CallsFamily
    BootQueue <- BootConsole
    Idle = Idle
    NULL = NULL
INVARIANTS ReadyIsQueued
PROPERTIES DeadStaysDead CollectedByParentOnly ReadyRuns
