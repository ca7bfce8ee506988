SPECIFICATION Spec
CONSTANTS
    a = a
    b = b
    tty0 = tty0
    Tty = {tty0, tty1}
    Prog = {a, b}
    MaxPair = 1
    Kbd = 3
    Queue = 3
    Cast <- MCCast
CHECK_DEADLOCK FALSE
INVARIANTS QueuesSafe Attended KeysInOrder Announced
