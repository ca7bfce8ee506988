SPECIFICATION Spec
CONSTANTS
    t1 = t1
    t2 = t2
    t3 = t3
    t4 = t4
    Thread = {t1, t2, t3}
    CPU = {0, 1}
    Chan = {"tty"}
    MaxItems = 1
    Calls <- CallsTty
    BootQueue <- BootTwoCores
    Idle = Idle
    NULL = NULL
INVARIANTS NoLostWakeup
CHECK_DEADLOCK FALSE
