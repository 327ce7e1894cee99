----------------------------- MODULE LossyFifo -----------------------------
(***************************************************************************)
(* What the small rings of the application layer promise (the matrix       *)
(* buffer of keyboard.c, the report FIFO of usbkb.c, the packet buffer of  *)
(* tl_audio.c): values come out in the order they went in, and a value put *)
(* into a full ring drives out the oldest one.  One call of the code may   *)
(* put a value and take one.                                               *)
(***************************************************************************)
EXTENDS Naturals, Sequences

CONSTANTS
  Cap,       \* how many values the ring holds
  Value,     \* the values
  MayClear,  \* whether the ring may be emptied at once
  Nothing    \* no value taken yet

VARIABLES
  q,         \* the values held, oldest first
  taken      \* the value taken last

With(v) == IF Len(q) < Cap THEN Append(q, v) ELSE Append(Tail(q), v)

Put(v) == q' = With(v) /\ UNCHANGED taken

Take == q # <<>> /\ q' = Tail(q) /\ taken' = Head(q)

PutAndTake(v) == q' = Tail(With(v)) /\ taken' = Head(With(v))

Clear == MayClear /\ q' = <<>> /\ UNCHANGED taken

Init == q = <<>> /\ taken = Nothing

Next == Take \/ Clear \/ \E v \in Value : Put(v) \/ PutAndTake(v)

Spec == Init /\ [][Next]_<<q, taken>>
=============================================================================
