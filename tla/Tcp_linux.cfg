\* A descriptor above fdmax is not watched.
SPECIFICATION Spec
CONSTANTS
    None = None  Other = Other
    MaxClient = 2
    Clients = {c1, c2}
    MaxData = 1
    MaxFd = 5
    MaxOther = 1
    FdSetSize = 10
    Windows = FALSE
PROPERTY Served
CHECK_DEADLOCK FALSE
