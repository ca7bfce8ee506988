\* One program, one remote host at the other end of every connection.
SPECIFICATION Spec
CONSTANTS
    Server = {t}
    Client = {t}
    Caller = {p}
    Host = {p}
    MaxSock = 3
    Ring = 3
    Offer = 2
    Notice = 1
    MaxIn = 3
    MaxOut = 2
    MaxFault = 1
CONSTRAINT Few
CHECK_DEADLOCK FALSE
INVARIANTS Attended SocketsSafe StreamsIntact
