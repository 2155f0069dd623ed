\* Both platforms: two slots, three connections and as many descriptors, and room for
\* one of them in an fd_set of Windows.
SPECIFICATION PlatformSpec
CONSTANTS
    c1 = c1  c2 = c2  c3 = c3
    None = None  Other = Other
    MaxClient = 2
    Clients = {c1, c2, c3}
    MaxData = 1
    MaxFd = 4
    MaxOther = 1
    FdSetSize = 2
    Windows = TRUE
INVARIANTS TableSound RecvNeverBlocks
PROPERTIES ConnectionTableSpec WindowsServesAll
\* All connections made and closed, or the server thread has ended.
CHECK_DEADLOCK FALSE
