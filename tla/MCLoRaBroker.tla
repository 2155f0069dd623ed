---------------------------- MODULE MCLoRaBroker ----------------------------
(* Small instances of LoRaBroker for TLC: two end nodes.                   *)
EXTENDS LoRaBroker

CONSTANTS n1, n2

MCConfig == <<n1, n2>>

\* More commands and more that is late, or a rescan.
InSession == rescans = 0 \/ (requests <= 1 /\ late <= 1)

SessionSpec == Init /\ [][Next /\ InSession']_vars /\ Fairness
=============================================================================
