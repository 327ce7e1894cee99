----------------------------- MODULE MCMicPipe -----------------------------
(* Instance of MicPipe for TLC. *)
EXTENDS MicPipe
=============================================================================
