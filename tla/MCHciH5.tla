------------------------------ MODULE MCHciH5 ------------------------------
(* Instances of HciH5 for TLC. *)
EXTENDS HciH5

OneWay2  == [n \in Node |-> IF n = 0 THEN 2 ELSE 0]
NineOne  == [n \in Node |-> IF n = 0 THEN 9 ELSE 1]

(* Bound of the traffic: node 0 makes up to nine packets while node 1      *)
(* makes none, or each makes one and no frame is lost, on the wire or in   *)
(* an overrun, or node 0 makes one and a node restarts.                    *)
Traffic ==
  \/ cb[1].made = 0 /\ restarts = 0
  \/ /\ cb[0].made <= 1 /\ lost = 0 /\ restarts = 0
     /\ ~overrun
  \/ cb[0].made <= 1 /\ lost = 0 /\ cb[1].made = 0
=============================================================================
