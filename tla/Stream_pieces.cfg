\* Streams cut into pieces of any size; connections that break off; a reused slot.
SPECIFICATION Spec
CONSTANTS
    c1 = c1  c2 = c2
    None = None
    MaxClient = 1
    Clients = {c1, c2}
    MaxPackages = 2
    MaxRecv = 6
INVARIANT HandledWasSent
PROPERTY AllHandled
\* All connections made and closed, or the process died.
CHECK_DEADLOCK FALSE
