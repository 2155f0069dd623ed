\* Two end nodes.  One rescan, a command at any time, one wait that is too short; or no
\* rescan, two commands, two waits that are too short.
SPECIFICATION SessionSpec
CONSTANTS
    n1 = n1  n2 = n2
    Nodes = {n1, n2}
    Config <- MCConfig
    maxRetryTimes = 2
    MaxRequests = 2
    MaxRescans = 1
    MaxIps = 6
    MaxLate = 2
INVARIANTS ListedNodesFound AnswersTrue
PROPERTIES DeadNodesGone ScanEnds
\* All commands given, or an exception ended the process.
CHECK_DEADLOCK FALSE
