---------------------------- MODULE MCCustomPair ----------------------------
(* Instances of CustomPair for TLC. *)
EXTENDS CustomPair

(* Programming a record may leave anything.                                *)
AnyTorn == [mark : Mark, adr : {NoAddr, Garbage}]
=============================================================================
