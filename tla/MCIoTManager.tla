---------------------------- MODULE MCIoTManager ----------------------------
(* Small instances of IoTManager for TLC.                                  *)
EXTENDS IoTManager

CONSTANTS a, b, d1, d2, d3, temp

\* Three devices behind two brokers: a broker that hosts two devices loses both
\* when its connection is cut.
MCHost3 == d1 :> a @@ d2 :> a @@ d3 :> b
MCHost2 == d1 :> a @@ d2 :> b

Rule(from, id, to, freq) ==
    [readFrom |-> from, readId |-> id, writeTo |-> to, freq |-> freq]

\* A rule between the first two ips, and one that keeps to the second; this one is
\* due in every second scan only.
TwoRules == {Rule(0, temp, 1, 0), Rule(1, temp, 1, 1)}
OneWay == {Rule(0, temp, 1, 1)}

\* Rules, or a third device and a third ip.
InSession ==
    \/ nextRuleId = 0
    \/ ip_count <= 2 /\ \A g \in granted : g.dev # d2

SessionSpec == Init /\ [][Next /\ InSession']_vars /\ Fairness
=============================================================================
