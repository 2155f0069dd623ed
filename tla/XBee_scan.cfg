\* Two nodes, one rescan, any two of command, fault and departure.
SPECIFICATION Spec
CONSTANTS
    n1 = n1  n2 = n2
    Nodes = {n1, n2}
    maxFailTimes = 1
    maxReTryTimes = 2
    MaxEvents = 2
    MaxRescans = 1
    MaxIps = 4
INVARIANTS RightNode AsksBounded
PROPERTIES CommandsAnswered SoundNodesFound
\* All commands given, or the process ended.
CHECK_DEADLOCK FALSE
