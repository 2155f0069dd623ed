\* A node that answers is removed.
SPECIFICATION Spec
CONSTANTS
    n1 = n1  n2 = n2
    Nodes = {n1, n2}
    Config <- MCConfig
    maxRetryTimes = 3
    MaxRequests = 1
    MaxRescans = 1
    MaxIps = 6
    MaxLate = 0
PROPERTY AnsweringNodesKept
CHECK_DEADLOCK FALSE
