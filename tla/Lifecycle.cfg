\* A broker with two devices, a peer that installs a rule, and just the slots that
\* are enough.
SPECIFICATION Spec
CONSTANTS
    MaxClient = 4
    lora = lora
    node1 = node1  node2 = node2
    Brokers <- OneBroker
    LoRaDevices <- TwoDevices
    Peers = {p1}
    MaxRules = 1
    None = None
    Nobody = Nobody
INVARIANT FreedRulesUnused
PROPERTIES MainGoesOn BrokersRegister
\* The heap may be left locked.
CHECK_DEADLOCK FALSE
