---------------------------- MODULE MCSoftTimer -----------------------------
(* Small instances of SoftTimer, with margins as the proofs want them *)
EXTENDS SoftTimer

ASSUME RoomyAssumption == Roomy
=============================================================================
