----------------------------- MODULE MCKeyboard -----------------------------
(* Instance of Keyboard for TLC: two rows and two columns, one modifier    *)
(* key, and an event with room for one code.                              *)
EXTENDS Keyboard

KindTwoByTwo == [k \in Key |-> IF k = <<1, 1>> THEN "ctrl" ELSE "plain"]

(* A call as the demos make it, one that leaves the ring unread, and one    *)
(* right after power-on while the lock state is not known.                  *)
ThreeCalls ==
  {[read |-> TRUE,  valid |-> TRUE,  poweron |-> FALSE],
   [read |-> FALSE, valid |-> TRUE,  poweron |-> FALSE],
   [read |-> TRUE,  valid |-> FALSE, poweron |-> TRUE]}
=============================================================================
