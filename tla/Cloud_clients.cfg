\* Windows: two sessions of the bridge end with "discon", Stop may come at any time.
\* The uploader: two devices, three subscriptions, one device registers again.
SPECIFICATION CloudSpec
CONSTANTS
    KillStops = TRUE
    MaxDiscons = 2
    MaxPackages = 2
    MaxCells = 2
    light = light  ths = ths
    lux = lux  humi = humi  tempe = tempe
    Devices = {light, ths}
    Components <- MCComponents
    Order <- MCOrder
    subscriptObjs <- MCSubscriptObjs
    Tick = 1
    MaxIps = 3
    MaxQueue = 2
    None = None
INVARIANTS ToCloudInOrder PatientSessionsSeparate StopStops RightLabel
PROPERTIES BridgeGoesOn KeepsUploading
\* Login may fail, Stop or a wild pointer end the bridge.
CHECK_DEADLOCK FALSE
