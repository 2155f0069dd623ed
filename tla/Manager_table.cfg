\* Both threads: three devices behind two brokers, two slots; or two rules, two devices
\* behind two brokers.
SPECIFICATION SessionSpec
CONSTANTS
    a = a  b = b  d1 = d1  d2 = d2  d3 = d3  temp = temp
    None = None
    MaxClient = 2
    Brokers = {a, b}
    Devices = {d1, d2, d3}
    Host <- MCHost3
    IoTRules <- TwoRules
    Tick = 1
    MaxIps = 3
    MaxRules = 2
INVARIANTS UniqueEntries LiveEntries ServerDelivers
PROPERTIES OwnEntriesOnly RegistrySpec ReloadCleans RulesSurvive RulesExecuted
\* An uncaught exception ends the process.
CHECK_DEADLOCK FALSE
