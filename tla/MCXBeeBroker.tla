---------------------------- MODULE MCXBeeBroker ----------------------------
(* Small instances of XBeeBroker for TLC: two nodes.                       *)
EXTENDS XBeeBroker

CONSTANTS n1, n2
=============================================================================
