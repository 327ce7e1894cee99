------------------------------ MODULE AbsQueue ------------------------------
(***************************************************************************)
(* What common/tl_queue.h promises (Spec): a queue is a sequence of        *)
(* distinct items, and each call does one thing to it and answers          *)
(* accordingly.  TlQueue, the linked list, does that for queues without a  *)
(* priority callback; for the others it implements CodeSpec, which differs *)
(* from the promise in one call.                                           *)
(***************************************************************************)
EXTENDS Naturals, Sequences

CONSTANTS
  Item,       \* the items that may be queued
  Pri,        \* Pri[x]: what the priority callback answers for item x
  NULL

VARIABLES
  q,          \* the queue, head first
  usePri,     \* whether it was given a priority callback
  call        \* the last call: operation, item, previous item, answer

absVars == <<q, usePri, call>>

(* q with x behind its first k elements, and q without its k-th element *)
PutBehind(s, k, x) ==
  [i \in 1..Len(s) + 1 |-> IF i <= k THEN s[i] ELSE IF i = k + 1 THEN x ELSE s[i - 1]]
DropAt(s, k) == [i \in 1..Len(s) - 1 |-> IF i < k THEN s[i] ELSE s[i + 1]]

Queued(x)  == \E i \in 1..Len(q) : q[i] = x
IsAt(p, k) == p = IF k = 0 THEN NULL ELSE q[k]

(* A new item goes to the end; with priorities, behind the leading items   *)
(* whose value is not larger.                                              *)
EnqPlace(k, x) ==
  IF usePri
  THEN /\ \A i \in 1..k : Pri[q[i]] <= Pri[x]
       /\ k < Len(q) => Pri[x] < Pri[q[k + 1]]
  ELSE k = Len(q)

AnyEnq(x) == \E k \in 0..Len(q) : EnqPlace(k, x) /\ q' = PutBehind(q, k, x)

Enq(x) ==
  /\ ~Queued(x)
  /\ AnyEnq(x)
  /\ call' = [op |-> "enq", item |-> x, prev |-> NULL, ret |-> "SUCCESS"]

Deq ==
  /\ q' = IF q = <<>> THEN q ELSE DropAt(q, 1)
  /\ call' = [op |-> "deq", item |-> IF q = <<>> THEN NULL ELSE q[1],
              prev |-> NULL, ret |-> "SUCCESS"]

(* Directly behind p, or first when p is NULL *)
Insert(x, p) ==
  /\ ~Queued(x)
  /\ \E k \in 0..Len(q) : IsAt(p, k) /\ q' = PutBehind(q, k, x)
  /\ call' = [op |-> "insert", item |-> x, prev |-> p, ret |-> "SUCCESS"]

Remove(x, p) ==
  /\ \E k \in 1..Len(q) : q[k] = x /\ IsAt(p, k - 1) /\ q' = DropAt(q, k)
  /\ call' = [op |-> "remove", item |-> x, prev |-> p, ret |-> "SUCCESS"]

Delete(x) ==
  \/ /\ \E k \in 1..Len(q) : q[k] = x /\ q' = DropAt(q, k)
     /\ call' = [op |-> "delete", item |-> x, prev |-> NULL, ret |-> "SUCCESS"]
  \/ /\ ~Queued(x)
     /\ q' = q
     /\ call' = [op |-> "delete", item |-> x, prev |-> NULL,
                 ret |-> IF q = <<>> THEN "EMPTY" ELSE "NOT_FOUND"]

Init == q = <<>> /\ usePri \in BOOLEAN /\ call = NULL

Next ==
  /\ \/ Deq
     \/ \E x \in Item : Enq(x) \/ Delete(x)
     \/ \E x \in Item, p \in Item \cup {NULL} : Insert(x, p) \/ Remove(x, p)
  /\ UNCHANGED usePri

Spec == Init /\ [][Next]_absVars

(* Not in the header: an item to be inserted behind the last one of a      *)
(* queue with priorities is enqueued (tl_queue.c:189).                     *)
InsertByPriority(x, p) ==
  /\ usePri /\ q # <<>> /\ p = q[Len(q)]
  /\ ~Queued(x)
  /\ AnyEnq(x)
  /\ call' = [op |-> "insert", item |-> x, prev |-> p, ret |-> "SUCCESS"]

CodeNext == Next \/ \E x, p \in Item : InsertByPriority(x, p) /\ UNCHANGED usePri

CodeSpec == Init /\ [][CodeNext]_absVars
=============================================================================
