----------------------------- MODULE MCLifecycle -----------------------------
(* One LoRa broker, as in main.cpp, which finds two devices.                 *)
EXTENDS Lifecycle

CONSTANTS lora, node1, node2

OneBroker == <<lora>>
TwoDevices == [b \in {lora} |-> <<node1, node2>>]
=============================================================================
