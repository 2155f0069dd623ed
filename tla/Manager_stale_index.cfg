\* The ruler uses a device index after the server thread has moved the table.
SPECIFICATION Spec
CONSTANTS
    a = a  b = b  d1 = d1  d2 = d2  d3 = d3  temp = temp
    None = None
    MaxClient = 2
    Brokers = {a, b}
    Devices = {d1, d2}
    Host <- MCHost2
    IoTRules <- OneWay
    Tick = 1
    MaxIps = 2
    MaxRules = 1
INVARIANT ReadReachesAddressee
CHECK_DEADLOCK FALSE
