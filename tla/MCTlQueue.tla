----------------------------- MODULE MCTlQueue -----------------------------
(* Instance of TlQueue for TLC: two items of the same priority value and   *)
(* one of a smaller value.                                                 *)
EXTENDS TlQueue, TLC

CONSTANTS a, b, c

PriABC == a :> 1 @@ b :> 1 @@ c :> 0
=============================================================================
