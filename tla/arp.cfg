\* Three neighbours and a cache of two, two senders and the receive thread.
CONSTANTS
    Sender = {s1, s2}
    Rx = rx
    h1 = h1
    h2 = h2
    h3 = h3
    m1 = m1
    m2 = m2
    m3 = m3
    Host <- Neighbours
    Mac <- Cards
    MacOf <- CardOf
    Bcast = bcast
    CacheSize = 2
    RxQueueSize = 3
    MaxPackets = 2
    MaxFrames = 1
    None = none
SPECIFICATION FairSpec
INVARIANTS OneEntryPerAddress SentRight BuffersOwned RetainedIsAwaited
PROPERTIES Leaves
CHECK_DEADLOCK FALSE
