----------------------------- MODULE SoftTimer ------------------------------
(***************************************************************************)
(* vendor/common/blt_soft_timer.c: a table of software timers, sorted by   *)
(* the tick they expire at, of which only the first is looked at before a  *)
(* main loop decides that nothing is due.                                  *)
(*                                                                         *)
(* Ticks are counted modulo W (2^32 in the code), and "later" is a         *)
(* difference below Quarter (BIT(30) in the code).  The clock runs while   *)
(* callbacks run; blt_soft_timer_process starts again at most MaxGap ticks *)
(* after it ended, and takes at most MaxRun ticks.  Callbacks return -1,   *)
(* 0 or a new interval and do not change the table themselves.             *)
(***************************************************************************)
EXTENDS Integers, Sequences

CONSTANTS
  W,         \* the clock wraps here (2^32)
  Quarter,   \* BIT(30)
  Pre,       \* BLT_TIMER_SAFE_MARGIN_PRE
  Post,      \* BLT_TIMER_SAFE_MARGIN_POST
  Horizon,   \* 3000 ms: later timers do not wake the chip
  DelHorizon,\* 5000 ms: the same after a delete
  MaxTimer,  \* MAX_TIMER_NUM
  Func,      \* callbacks
  Interval,  \* intervals callers ask for, in ticks
  MaxGap, MaxRun  \* bounds: see above

Params ==
  /\ W \in Nat /\ Quarter \in Nat /\ 0 < Quarter /\ 4 * Quarter <= W
  /\ Pre \in Nat /\ Post \in Nat /\ Pre < Post /\ Post <= Quarter
  /\ Interval \subseteq 1 .. Quarter - 1
  /\ MaxGap \in Nat /\ MaxRun \in Nat /\ MaxTimer \in Nat

ASSUME ParamsAssumption == Params

VARIABLES
  timer,   \* blt_timer.timer[0 .. currentNum - 1]
  wakeup,  \* what blc_pm_setAppWakeupLowPower was last told: a tick, or Off
  clock,   \* the system timer
  pc,      \* "idle", or "loop": in the loop of blt_soft_timer_process
  round, now, changed,  \* its local variables (round is i, from 1)
  since    \* ticks since blt_soft_timer_process ended or started

timerVars == <<timer, wakeup, clock, pc, round, now, changed, since>>

Tick == 0 .. W - 1
Off == -1
Event == [cb : Func, t : Tick, interval : Interval]

Plus(t, d) == (t + d) % W
Big(t1, t2) == (t1 - t2) % W < Quarter       \* TIME_COMPARE_BIG
Expired(t, n) == (n + Pre - t) % W < Post     \* blt_is_timer_expired
-----------------------------------------------------------------------------
(* Variant with a fault: the wrap of the clock is not considered *)
SwapNoWrap(s, j) == IF s[j].t >= s[j + 1].t
                    THEN [s EXCEPT ![j] = s[j + 1], ![j + 1] = s[j]] ELSE s

(* blt_soft_timer_sort: a bubble sort, which also swaps equal ticks *)
Swap(s, j) == IF Big(s[j].t, s[j + 1].t)
              THEN [s EXCEPT ![j] = s[j + 1], ![j + 1] = s[j]] ELSE s
Pass(s, n) == LET p[j \in 0..n] == IF j = 0 THEN s ELSE Swap(p[j - 1], j)
              IN p[n]
Sort(s) == LET q[k \in 0 .. Len(s) - 1] == IF k = 0 THEN s ELSE Pass(q[k - 1], Len(s) - k)
           IN q[Len(s) - 1]

TimerInit ==
  /\ timer = <<>> /\ wakeup = Off
  /\ clock = 0 /\ since = 0
  /\ pc = "idle" /\ round = 0 /\ now = 0 /\ changed = FALSE

(* blt_soft_timer_add; a full table is left alone *)
Add(f, d) ==
  /\ pc = "idle" /\ Len(timer) < MaxTimer
  /\ timer' = Sort(Append(timer, [cb |-> f, t |-> Plus(clock, d), interval |-> d]))
  /\ wakeup' = timer'[1].t
  /\ UNCHANGED <<clock, pc, round, now, changed, since>>

(* The wakeup for the first timer, unless it is too far away *)
Wakeup(s, n, horizon) ==
  IF s # <<>> /\ (s[1].t - n) % W < horizon THEN s[1].t ELSE Off

(* blt_soft_timer_delete_by_index: the timers behind move up *)
DeleteByIndex(s, j) == SubSeq(s, 1, j - 1) \o SubSeq(s, j + 1, Len(s))

(* Variant with a fault: the wakeup is not moved when the first timer goes *)
DeleteKeepsWakeup(f) ==
  LET at == {k \in 1..Len(timer) : timer[k].cb = f}
      k == CHOOSE x \in at : \A y \in at : x <= y
  IN /\ pc = "idle" /\ at # {}
     /\ timer' = DeleteByIndex(timer, k)
     /\ wakeup' = IF timer' = <<>> THEN Off ELSE wakeup
     /\ UNCHANGED <<clock, pc, round, now, changed, since>>

(* blt_soft_timer_delete: the first timer with this callback *)
Delete(f) ==
  LET at == {k \in 1..Len(timer) : timer[k].cb = f}
      k == CHOOSE x \in at : \A y \in at : x <= y
  IN /\ pc = "idle" /\ at # {}
     /\ timer' = DeleteByIndex(timer, k)
     /\ wakeup' = IF timer' = <<>> \/ k = 1 THEN Wakeup(timer', clock, DelHorizon) ELSE wakeup
     /\ UNCHANGED <<clock, pc, round, now, changed, since>>

(* blt_soft_timer_process up to its loop *)
Process ==
  /\ pc = "idle"
  /\ since' = 0
  /\ \/ /\ timer = <<>>
        /\ wakeup' = Off
        /\ UNCHANGED <<pc, round, now, changed>>
     \/ /\ timer # <<>> /\ ~Expired(timer[1].t, clock)
        /\ UNCHANGED <<wakeup, pc, round, now, changed>>
     \/ /\ timer # <<>> /\ Expired(timer[1].t, clock)
        /\ pc' = "loop" /\ round' = 1 /\ now' = clock /\ changed' = FALSE
        /\ UNCHANGED wakeup
  /\ UNCHANGED <<timer, clock>>

(* One round of the loop; r is the callback's result.  A deleted timer's   *)
(* place is taken by the next one, which this pass then does not look at.  *)
Round(r) ==
  /\ pc = "loop" /\ round <= Len(timer)
  /\ round' = round + 1
  /\ \/ /\ ~Expired(timer[round].t, now) /\ r = 0
        /\ UNCHANGED <<timer, changed>>
     \/ /\ Expired(timer[round].t, now) /\ r < 0
        /\ timer' = DeleteByIndex(timer, round)
        /\ UNCHANGED changed
     \/ /\ Expired(timer[round].t, now) /\ r >= 0
        /\ LET d == IF r = 0 THEN timer[round].interval ELSE r
           IN timer' = [timer EXCEPT ![round].interval = d, ![round].t = Plus(now, d)]
        /\ changed' = TRUE
  /\ UNCHANGED <<wakeup, clock, pc, now, since>>

(* Variant with a fault: the table is not sorted again *)
ProcessEndNoSort ==
  /\ pc = "loop" /\ round > Len(timer)
  /\ pc' = "idle" /\ since' = 0
  /\ wakeup' = Wakeup(timer, now, Horizon)
  /\ round' = 0 /\ now' = 0 /\ changed' = FALSE
  /\ UNCHANGED <<timer, clock>>

ProcessEnd ==
  /\ pc = "loop" /\ round > Len(timer)
  /\ pc' = "idle" /\ since' = 0
  /\ timer' = IF changed THEN Sort(timer) ELSE timer
  /\ wakeup' = Wakeup(timer', now, Horizon)
  /\ round' = 0 /\ now' = 0 /\ changed' = FALSE
  /\ UNCHANGED clock

(* The system timer; external *)
ClockTick ==
  /\ since < IF pc = "idle" THEN MaxGap ELSE MaxRun
  /\ since' = since + 1
  /\ clock' = Plus(clock, 1)
  /\ UNCHANGED <<timer, wakeup, pc, round, now, changed>>

TimerNext ==
  \/ \E f \in Func, d \in Interval : Add(f, d)
  \/ \E f \in Func : Delete(f)
  \/ Process
  \/ \E r \in Interval \cup {-1, 0} : Round(r)
  \/ ProcessEnd
  \/ ClockTick

TimerSpec == TimerInit /\ [][TimerNext]_timerVars
-----------------------------------------------------------------------------
(* The longest time from one start of blt_soft_timer_process to the next,  *)
(* and how late a timer can get: each process in which it is due serves it *)
(* or moves it one place to the front.                                     *)
Cycle == MaxGap + MaxRun
Lag == MaxTimer * Cycle + MaxRun

(* The margins leave room for a full table of late timers, in the window   *)
(* of blt_is_timer_expired and in the range of TIME_COMPARE_BIG.           *)
Roomy == Lag + Pre < Post /\ \A d \in Interval : d + Lag < Quarter

(* Shapes of the state: the table never outgrows MAX_TIMER_NUM. *)
TimerTypeOK ==
  /\ timer \in Seq(Event) /\ Len(timer) <= MaxTimer
  /\ wakeup \in Tick \cup {Off}
  /\ clock \in Tick /\ now \in Tick
  /\ pc \in {"idle", "loop"} /\ round \in 0 .. MaxTimer + 1
  /\ changed \in BOOLEAN
  /\ since \in Nat

(* blt_soft_timer.c:107: "Timer tasks are originally ordered ... the order *)
(* will not be destroyed": between two calls every timer expires no later  *)
(* than the ones behind it, across the wrap of the clock, in a table that  *)
(* keeps its shape.                                                        *)
Sorted ==
  /\ TimerTypeOK
  /\ pc = "idle" => \A j, k \in 1..Len(timer) : j < k => Big(timer[k].t, timer[j].t)

(* A timer is in the future or still counts as expired: none is so late    *)
(* that blt_is_timer_expired has given it up, after which it would never   *)
(* fire and, at the head of the table, keep all others from firing.        *)
NeverLost ==
  \A k \in 1..Len(timer) : (timer[k].t - clock) % W <= Quarter \/ Expired(timer[k].t, clock)

(* A wakeup that is armed is the one of the first timer, whatever was      *)
(* added, deleted or fired since it was set.                               *)
WakeupNotStale == pc = "idle" /\ wakeup # Off => timer # <<>> /\ wakeup = timer[1].t
=============================================================================
