------------------------------ MODULE Keyboard ------------------------------
(***************************************************************************)
(* application/keyboard: the matrix scan kb_scan_key.  Keys move at any    *)
(* time; each call reads the matrix, removes the keys that may be ghosts,  *)
(* debounces, puts a changed matrix into a ring of four and takes the      *)
(* oldest one out as the event for the caller.  The keys do not move       *)
(* within the pin reads of one call.  Built as every configuration of the  *)
(* repository builds it: no repeat keys, no standard-keyboard FN layer.    *)
(***************************************************************************)
EXTENDS Integers, Sequences, FiniteSets

CONSTANTS
  Rows, Cols,        \* indices of drive_pins and of scan_pins
  Kind,              \* Kind[k]: what the key map has at k
  KB_RM_GHOST_KEY_EN,
  KB_RETURN_KEY_MAX,
  Calls,             \* arguments callers pass, [read, valid, poweron]
  MaxMove            \* bound: key movements in a run

Key    == Rows \X Cols
Matrix == SUBSET Key

ASSUME PinAssumption ==
  /\ Rows \subseteq Nat /\ IsFiniteSet(Rows)
  /\ Cols \subseteq Nat /\ IsFiniteSet(Cols)
ASSUME KindAssumption == Kind \in [Key -> {"plain", "ctrl", "zoom", "fn"}]
ASSUME CallAssumption ==
  Calls \subseteq [read : BOOLEAN, valid : BOOLEAN, poweron : BOOLEAN]
ASSUME BoundAssumption ==
  KB_RETURN_KEY_MAX \in Nat \ {0} /\ MaxMove \in Nat /\ KB_RM_GHOST_KEY_EN \in BOOLEAN

VARIABLES
  down,              \* the keys held down
  scan_pin_need,     \* scan pins that had a key: none, the scan stops
  release_cnt, ret_last,
  mtrx_pre, mtrx_last,
  matrix_buff, matrix_wptr, matrix_rptr,
  kb_event,          \* modifier keys and key codes of the event
  taken,             \* history: the matrix taken from the ring last
  moves              \* key movements so far

vars == <<down, scan_pin_need, release_cnt, ret_last, mtrx_pre, mtrx_last,
          matrix_buff, matrix_wptr, matrix_rptr, kb_event, taken, moves>>

NoEvent == [ctrl_key |-> {}, keycode |-> {}]

-----------------------------------------------------------------------------
(* The wires: a row reads every column it is connected to through keys     *)
(* that are down, which makes a ghost of the fourth corner of a rectangle. *)

(* R holds every row that shares a column with a row of R *)
Closed(m, R) == \A k, l \in m : k[2] = l[2] /\ k[1] \in R => l[1] \in R

Wired(m) ==
  {k \in Key : \A R \in SUBSET Rows :
     k[1] \in R /\ Closed(m, R) => \E r \in R : <<r, k[2]>> \in m}

(* Variant with a fault: only the first row of a pair is cleared *)
MixFinalOwnRow(m, i) ==
  LET Row(r) == {c \in Cols : <<r, c>> \in m}
      Pairs  == {p \in Rows \X Rows : p[1] = i /\ p[2] > p[1]}
  IN UNION {Row(p[1]) \cap Row(p[2]) : p \in
       {p \in Pairs : Cardinality(Row(p[1]) \cap Row(p[2])) > 1 \/ Row(p[1]) # Row(p[2])}}

(* mix_final when row i is cleared: the columns that two rows share, the   *)
(* first of them no later than i, unless both have that one key only.      *)
MixFinal(m, i) ==
  LET Row(r) == {c \in Cols : <<r, c>> \in m}
      Pairs  == {p \in Rows \X Rows : p[1] <= i /\ p[2] > p[1]}
  IN UNION {Row(p[1]) \cap Row(p[2]) : p \in
       {p \in Pairs : Cardinality(Row(p[1]) \cap Row(p[2])) > 1 \/ Row(p[1]) # Row(p[2])}}

kb_rmv_ghost_key(m) == {k \in m : k[2] \notin MixFinal(m, k[1])}

(* What kb_scan_row reads of the keys m in all rows, ghosts removed *)
ScanRows(m) ==
  IF KB_RM_GHOST_KEY_EN THEN kb_rmv_ghost_key(Wired(m)) ELSE Wired(m)

(* key_debounce_filter *)
Filter(m) == ((mtrx_pre \cap m) \ mtrx_last) \cup (mtrx_last \cap (mtrx_pre \cup m))

-----------------------------------------------------------------------------
(* kb_remap_key_code: the keys row by row, up to KB_RETURN_KEY_MAX codes *)

Before(k, l) == k[1] < l[1] \/ (k[1] = l[1] /\ k[2] < l[2])
Coded(k)     == Kind[k] \in {"plain", "zoom"}

(* Variant with a fault: the limit is tested before the key is stored *)
RemappedLate(m) ==
  {k \in m : Cardinality({l \in m : Before(l, k) /\ Coded(l)}) <= KB_RETURN_KEY_MAX}

(* The keys reached before the limit ends both loops *)
Remapped(m) ==
  {k \in m : Cardinality({l \in m : Before(l, k) /\ Coded(l)}) < KB_RETURN_KEY_MAX}

kb_remap_key_code(m) ==
  [ctrl_key |-> {k \in Remapped(m) : Kind[k] \in {"ctrl", "zoom"}},
   keycode  |-> {k \in Remapped(m) : Coded(k)}]

-----------------------------------------------------------------------------
Init ==
  /\ down = {} /\ scan_pin_need = {}
  /\ release_cnt = 0 /\ ret_last = {}
  /\ mtrx_pre = {} /\ mtrx_last = {}
  /\ matrix_buff = [i \in 0..3 |-> {}] /\ matrix_wptr = 0 /\ matrix_rptr = 0
  /\ kb_event = NoEvent /\ taken = {} /\ moves = 0

(* A finger: one key goes down or up *)
MoveKey(k) ==
  /\ moves < MaxMove
  /\ moves' = moves + 1
  /\ down' = IF k \in down THEN down \ {k} ELSE down \cup {k}
  /\ UNCHANGED <<scan_pin_need, release_cnt, ret_last, mtrx_pre, mtrx_last,
                 matrix_buff, matrix_wptr, matrix_rptr, kb_event, taken>>

(* Variant with a fault: the scan goes on for one call after the release *)
kb_key_pressedShort ==
  LET ret == {k[2] : k \in down}
  IN /\ ret_last' = IF ret # {} THEN ret ELSE ret_last
     /\ release_cnt' = IF ret # {} THEN 1 ELSE IF release_cnt > 0 THEN release_cnt - 1 ELSE 0
     /\ scan_pin_need' = IF ret = {} /\ release_cnt > 0 THEN ret_last ELSE ret

(* kb_key_pressed: after the last key is up the scan goes on for 5 calls *)
kb_key_pressed ==
  LET ret == {k[2] : k \in down}
  IN /\ ret_last' = IF ret # {} THEN ret ELSE ret_last
     /\ release_cnt' = IF ret # {} THEN 5 ELSE IF release_cnt > 0 THEN release_cnt - 1 ELSE 0
     /\ scan_pin_need' = IF ret = {} /\ release_cnt > 0 THEN ret_last ELSE ret

(* Variant with a fault: the read pointer is not moved off the slot that   *)
(* was overwritten.                                                        *)
RptrAfterKept(w) == matrix_rptr

(* The read pointer once the write pointer is w: older data overwritten *)
RptrAfter(w) == IF (w - matrix_rptr) % 8 > 4 THEN (w - 4) % 8 ELSE matrix_rptr

(* Variant with a fault: compared with the last raw matrix *)
PushIfNew(m) ==
  IF m # mtrx_pre
  THEN /\ matrix_buff' = [matrix_buff EXCEPT ![matrix_wptr % 4] = m]
       /\ matrix_wptr' = (matrix_wptr + 1) % 8
  ELSE UNCHANGED <<matrix_buff, matrix_wptr>>

(* A changed matrix goes into the ring *)
Push(m) ==
  IF m # mtrx_last
  THEN /\ matrix_buff' = [matrix_buff EXCEPT ![matrix_wptr % 4] = m]
       /\ matrix_wptr' = (matrix_wptr + 1) % 8
  ELSE UNCHANGED <<matrix_buff, matrix_wptr>>

(* Variant with a fault: the newest entry is never read *)
ReadsBehind(call, rptr) == call.valid /\ call.read /\ (matrix_wptr' - rptr) % 8 > 1

(* The returns that leave the ring unread *)
Reads(call, rptr) == call.valid /\ call.read /\ matrix_wptr' # rptr

(* kb_scan_key_value: debounce, put in what changed, take the oldest out *)
kb_scan_key_value(call) ==
  \E m \in {ScanRows({k \in down : k[2] \in scan_pin_need'})} :
  \E cur \in {IF call.poweron THEN m ELSE Filter(m)} :
    /\ mtrx_pre' = m
    /\ mtrx_last' = cur
    /\ Push(cur)
    /\ LET rptr == RptrAfter(matrix_wptr')
           read == Reads(call, rptr)
           pd   == matrix_buff'[rptr % 4]
       IN /\ matrix_rptr' = IF read THEN (rptr + 1) % 8 ELSE rptr
          /\ taken' = IF read THEN pd ELSE taken
          /\ kb_event' = IF read THEN kb_remap_key_code(taken') ELSE NoEvent

(* kb_scan_key *)
kb_scan_key(call) ==
  /\ kb_key_pressed
  /\ IF scan_pin_need' # {}
     THEN kb_scan_key_value(call)
     ELSE UNCHANGED <<mtrx_pre, mtrx_last, matrix_buff, matrix_wptr, matrix_rptr,
                      kb_event, taken>>
  /\ UNCHANGED <<down, moves>>

Next == (\E k \in Key : MoveKey(k)) \/ (\E call \in Calls : kb_scan_key(call))

(* The main loop keeps scanning, and keeps reading events *)
Fairness == WF_vars(\E call \in Calls : call.read /\ call.valid /\ kb_scan_key(call))

Spec == Init /\ [][Next]_vars /\ Fairness

-----------------------------------------------------------------------------
Ring == [i \in 1..(matrix_wptr - matrix_rptr) % 8 |-> matrix_buff[(matrix_rptr + i - 1) % 4]]

Fifo == INSTANCE LossyFifo WITH Cap <- 4, MayClear <- FALSE, Value <- Matrix, Nothing <- {}, q <- Ring

(* Type invariant; the event fits kb_data_t.keycode[KB_RETURN_KEY_MAX].    *)
TypeOK ==
  /\ down \in Matrix /\ mtrx_pre \in Matrix /\ mtrx_last \in Matrix /\ taken \in Matrix
  /\ scan_pin_need \subseteq Cols /\ ret_last \subseteq Cols
  /\ release_cnt \in 0..5
  /\ matrix_buff \in [0..3 -> Matrix] /\ matrix_wptr \in 0..7 /\ matrix_rptr \in 0..7
  /\ kb_event.ctrl_key \subseteq Key
  /\ kb_event.keycode \subseteq Key /\ Cardinality(kb_event.keycode) <= KB_RETURN_KEY_MAX
  /\ moves \in 0..MaxMove

(* The caller can always catch up: the newest matrix of the ring, or the   *)
(* last one taken when the ring is empty, is the debounced state of the    *)
(* keys, however many changes were pushed over unread ones                 *)
(* (kb_scan_key_value compares with mtrx_last, not with what was read).    *)
NewestIsCurrent ==
  mtrx_last = IF Ring = <<>> THEN taken ELSE Ring[Len(Ring)]

(* No key is left pressed: when kb_key_pressed ends the scan, the debounce *)
(* filter has already let every key go (its six-call count is long enough  *)
(* for the filter's two reads, whatever keys moved in between).            *)
StoppedReleased ==
  scan_pin_need = {} => mtrx_last = {} /\ mtrx_pre = {}

(* With kb_rmv_ghost_key no scan reports a key as newly pressed that is    *)
(* not down, whatever rectangle of keys is held.                           *)
NoGhostKey ==
  [][KB_RM_GHOST_KEY_EN => (mtrx_last' \ mtrx_last) \subseteq down]_vars

(* The four slots and the two pointers modulo 8 are a FIFO that drops its  *)
(* oldest entry when it is full.                                           *)
RingIsFifo == Fifo!Spec

(* Once the keys no longer move (MaxMove sees to that), the keys that are  *)
(* held are what the caller has taken from the ring and keeps seeing.      *)
SettledKeysReported == <>[](down # {} => taken = ScanRows(down))
=============================================================================
