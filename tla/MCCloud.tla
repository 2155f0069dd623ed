------------------------------ MODULE MCCloud -------------------------------
(* The two clients of the cloud on small instances.                        *)
(*                                                                         *)
(* The uploader's devices: one sensor of two components, one of one, and   *)
(* one component is subscribed to twice, as dl01.lux is in the code.       *)
EXTENDS CloudClients, TLC

CONSTANTS light, ths, lux, humi, tempe

MCComponents == light :> {lux} @@ ths :> {humi, tempe}
MCOrder == <<light, ths>>
MCSubscriptObjs == <<[dev |-> light, com |-> lux, freq |-> 1],
                     [dev |-> ths, com |-> humi, freq |-> 1],
                     [dev |-> light, com |-> lux, freq |-> 0]>>

ASSUME U!UploaderAssumption
=============================================================================
