---------------------------- MODULE MCHciH5Link ----------------------------
(* Instance of HciH5Link for TLC: two packets one way, one the other. *)
EXTENDS HciH5Link

TwoOne == [n \in Node |-> IF n = 0 THEN 2 ELSE 1]
=============================================================================
