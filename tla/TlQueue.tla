------------------------------ MODULE TlQueue ------------------------------
(***************************************************************************)
(* common/tl_queue.c: a singly linked queue, FIFO or ordered by a priority *)
(* callback.  Every operation runs with interrupts off and is one step.    *)
(* The caller's part of the contract is in the guards of Next: an item is  *)
(* in the queue at most once, and the previous item that queue_insert and  *)
(* queue_remove are given is the one the header asks for.                  *)
(***************************************************************************)
EXTENDS Naturals, Sequences

CONSTANTS
  Item,       \* the items that may be queued
  Pri,        \* Pri[x]: what the priority callback answers for item x
  NULL

ASSUME NullAssumption == NULL \notin Item
ASSUME PriAssumption  == Pri \in [Item -> Nat]

VARIABLES
  head, tail, curNum,        \* queue_t
  usePri,                    \* queue_t: priCmpCb is not NULL
  next,                      \* the next field of every item
  call,                      \* the last call: operation, arguments and answer
  arrived,                   \* history: the queued items in order of arrival
  inserted                   \* history: queue_insert chose a place

vars == <<head, tail, curNum, usePri, next, call, arrived, inserted>>

-----------------------------------------------------------------------------
(* The items the next pointers lead through from head *)

IsChain(s) ==
  /\ \A i \in 1..Len(s) : s[i] \in Item
  /\ \A i, j \in 1..Len(s) : s[i] = s[j] => i = j
  /\ head = IF s = <<>> THEN NULL ELSE s[1]
  /\ \A i \in 1..Len(s) : next[s[i]] = IF i = Len(s) THEN NULL ELSE s[i + 1]

Chains == {s \in [1..curNum -> Item] : IsChain(s)}

Contents == CHOOSE s \in Chains : TRUE

Abs == INSTANCE AbsQueue WITH q <- Contents

Before(s, k) == IF k = 0 THEN NULL ELSE s[k]          \* previous
After(s, k)  == IF k = Len(s) THEN NULL ELSE s[k + 1] \* current

(* The history of arrivals without x *)
Place(x) == CHOOSE n \in 1..Len(arrived) : arrived[n] = x
Gone(x)  == [i \in 1..Len(arrived) - 1 |-> arrived[IF i < Place(x) THEN i ELSE i + 1]]

-----------------------------------------------------------------------------
(* queue_init *)
Init ==
  /\ head = NULL /\ tail = NULL /\ curNum = 0
  /\ usePri \in BOOLEAN
  /\ next \in [Item -> {NULL}]
  /\ call = NULL /\ arrived = <<>> /\ inserted = FALSE

(* Variant with a fault: a new item goes before items of its own priority *)
SearchNotStable(s, k, x) ==
  IF usePri
  THEN /\ \A i \in 1..k : Pri[s[i]] < Pri[x]
       /\ k < Len(s) => Pri[x] <= Pri[s[k + 1]]
  ELSE k = Len(s)

(* The place the loop of queue_enq stops at: behind the k-th item *)
Search(s, k, x) ==
  IF usePri
  THEN /\ \A i \in 1..k : Pri[s[i]] <= Pri[x]
       /\ k < Len(s) => Pri[x] < Pri[s[k + 1]]
  ELSE k = Len(s)

Answer(op, x, p, ret) == call' = [op |-> op, item |-> x, prev |-> p, ret |-> ret]

(* queue_enq *)
Enq(x) ==
  \E s \in Chains : \E k \in 0..Len(s) :
    /\ Search(s, k, x)
    /\ head' = IF k = 0 THEN x ELSE head
    /\ next' = [y \in Item |-> IF y = x THEN After(s, k)
                               ELSE IF y = Before(s, k) THEN x ELSE next[y]]
    /\ tail' = IF k = Len(s) THEN x ELSE tail
    /\ curNum' = curNum + 1
    /\ arrived' = Append(arrived, x)
    /\ UNCHANGED inserted

(* Variant with a fault: the tail is not reset when the queue runs empty *)
TailOnDeqKept == tail

(* The tail that queue_deq leaves *)
TailOnDeq == IF next[head] = NULL THEN NULL ELSE tail

(* queue_deq *)
Deq ==
  /\ IF head = NULL
     THEN UNCHANGED <<head, tail, curNum, arrived>>
     ELSE /\ head' = next[head]
          /\ tail' = TailOnDeq
          /\ curNum' = curNum - 1
          /\ arrived' = Gone(head)
  /\ Answer("deq", head, NULL, "SUCCESS")
  /\ UNCHANGED <<next, inserted>>

(* The next pointers with x behind p, or before the head when p is NULL *)
Linked(x, p) ==
  [y \in Item |-> IF y = x THEN IF p = NULL THEN head ELSE next[p]
                  ELSE IF y = p THEN x ELSE next[y]]

(* Variant with a fault: without a previous item the new one is enqueued *)
InsertNoFront(x, p) ==
  /\ IF head = NULL \/ p = tail \/ p = NULL
     THEN Enq(x)
     ELSE /\ next' = Linked(x, p)
          /\ curNum' = curNum + 1
          /\ arrived' = Append(arrived, x)
          /\ inserted' = TRUE
          /\ UNCHANGED <<head, tail>>
  /\ Answer("insert", x, p, "SUCCESS")

(* queue_insert *)
Insert(x, p) ==
  /\ IF head = NULL \/ p = tail
     THEN Enq(x)
     ELSE /\ next' = Linked(x, p)
          /\ head' = IF p = NULL THEN x ELSE head
          /\ curNum' = curNum + 1
          /\ arrived' = Append(arrived, x)
          /\ inserted' = TRUE
          /\ UNCHANGED tail
  /\ Answer("insert", x, p, "SUCCESS")

(* queue_remove, for an item of a queue that is not empty *)
Remove(x, p) ==
  /\ head' = IF head = x THEN next[x] ELSE head
  /\ next' = [y \in Item |-> IF head # x /\ y = p THEN next[x] ELSE next[y]]
  /\ tail' = IF tail = x THEN p ELSE tail
  /\ curNum' = curNum - 1
  /\ arrived' = Gone(x)
  /\ Answer("remove", x, p, "SUCCESS")
  /\ UNCHANGED inserted

(* queue_delete: the item is found behind the first k - 1 ... *)
DeleteFound(x) ==
  \E s \in Chains : \E k \in 1..Len(s) :
    /\ s[k] = x
    /\ head' = IF k = 1 THEN next[x] ELSE head
    /\ next' = [y \in Item |-> IF y = Before(s, k - 1) THEN next[x] ELSE next[y]]
    /\ tail' = IF tail = x THEN Before(s, k - 1) ELSE tail
    /\ curNum' = curNum - 1
    /\ arrived' = Gone(x)
    /\ Answer("delete", x, NULL, "SUCCESS")
    /\ UNCHANGED inserted

Queued(x) == \E s \in Chains : \E i \in 1..Len(s) : s[i] = x

(* ... or is not in the queue *)
DeleteMissed(x) ==
  /\ ~Queued(x)
  /\ Answer("delete", x, NULL, IF head = NULL THEN "EMPTY" ELSE "NOT_FOUND")
  /\ UNCHANGED <<head, next, tail, curNum, arrived, inserted>>

Next ==
  /\ \/ \E x \in Item : ~Queued(x) /\ Enq(x) /\ Answer("enq", x, NULL, "SUCCESS")
     \/ Deq
     \/ \E x \in Item, p \in Item \cup {NULL} :
          ~Queued(x) /\ (p # NULL => Queued(p)) /\ Insert(x, p)
     \/ \E s \in Chains : \E k \in 1..Len(s) : Remove(s[k], Before(s, k - 1))
     \/ \E x \in Item : DeleteFound(x) \/ DeleteMissed(x)
  /\ UNCHANGED usePri

Spec == Init /\ [][Next]_vars

-----------------------------------------------------------------------------
(* Type invariant: every pointer is NULL or names an item.                 *)
TypeOK ==
  /\ head \in Item \cup {NULL}
  /\ tail \in Item \cup {NULL}
  /\ next \in [Item -> Item \cup {NULL}]
  /\ curNum \in Nat
  /\ usePri \in BOOLEAN
  /\ inserted \in BOOLEAN

(* The list is intact: from head the next pointers lead through distinct   *)
(* items to tail, whose next pointer is NULL, and curNum counts them.  A   *)
(* list that loses its tail or its count in one operation (queue_deq of    *)
(* the last item, queue_remove of the tail) shows it only in a later one.  *)
ListIntact ==
  TypeOK /\ \E s \in Chains : tail = IF s = <<>> THEN NULL ELSE s[Len(s)]

(* As long as queue_insert has not chosen a place, queue_deq serves the    *)
(* items by priority value, the smallest first, and items of one value in  *)
(* the order of their arrival (queue_enq, "a small priority value has a    *)
(* higher priority"; without a callback, plain order of arrival).          *)
ServedInOrder ==
  ~inserted => \A s \in Chains :
    \A i, j \in 1..Len(s) : i < j =>
      \/ usePri /\ Pri[s[i]] < Pri[s[j]]
      \/ (usePri => Pri[s[i]] = Pri[s[j]]) /\ Place(s[i]) < Place(s[j])

(* The linked list implements the queue of AbsQueue: every call does to    *)
(* the sequence of linked items, and answers, what the header says, but    *)
(* for queue_insert behind the last item of a priority queue, which does   *)
(* what queue_enq does.                                                    *)
IsQueue == Abs!CodeSpec

(* The same without the exception: pPrev is "the element in the queue      *)
(* before the new element to be inserted" (tl_queue.h:98).                 *)
IsHeaderQueue == Abs!Spec
=============================================================================
