------------------------------- MODULE UsbHid -------------------------------
(***************************************************************************)
(* application/app/usbkb.c, usbmouse.c and the polling part of             *)
(* application/usbstd/usb.c: how key events become USB input reports.  A   *)
(* report goes straight to its endpoint, or into a FIFO of four when the   *)
(* endpoint still holds one the host has not fetched.  The host fetches at *)
(* any time, also between the reports of one event, and may reset the bus. *)
(* Modifier keys are normal keys here; an event has one extended key at    *)
(* most.                                                                   *)
(***************************************************************************)
EXTENDS Integers, Sequences

CONSTANTS
  NormalKey, SysKey, MediaKey,
  MaxEvent,     \* bound: events
  MaxReset      \* bound: bus resets

Mask == {"NORMAL", "SYS", "MEDIA"}       \* usbkb_not_released
Edp  == {"KEYBOARD_IN", "MOUSE"}

EdpOf(mask) == IF mask = "NORMAL" THEN "KEYBOARD_IN" ELSE "MOUSE"

KeysOf(mask) ==
  CASE mask = "NORMAL" -> NormalKey [] mask = "SYS" -> SysKey [] mask = "MEDIA" -> MediaKey

(* A report says which keys of its kind are down; none: a release *)
Report == UNION {[mask : {mask}, keys : SUBSET KeysOf(mask)] : mask \in Mask}
Free   == [mask |-> "none", keys |-> {}]

Event == {d \in [normal : SUBSET NormalKey, ext : SUBSET (SysKey \cup MediaKey)] :
            \A x, y \in d.ext : x = y}
NoKeys == [normal |-> {}, ext |-> {}]

ASSUME BoundAssumption == MaxEvent \in Nat /\ MaxReset \in Nat

VARIABLES
  ep,           \* ep[e]: the report the endpoint holds, or Free
  edp_toggle,   \* the data toggle of the next report
  epToggle,     \* the data toggle of the report the endpoint holds
  usb_fifo, usb_ff_wptr, usb_ff_rptr,
                \* the pointers are used modulo 8 and modulo 4 only
  usbkb_not_released,
  last_data,
  todo,         \* reports of the event in work that are still to be made
  host,         \* the keys the host believes down, by kind
  hostToggle,   \* the toggle the host expects
  reset,        \* a bus reset the device has not handled yet
  current,      \* history: the normal keys of the last event
  clean,        \* history: no report queued, no reset, no consumer key
  taken,        \* history: the report taken from the FIFO last
  events, resets

fifo  == <<usb_fifo, usb_ff_wptr, usb_ff_rptr>>
sent  == <<ep, epToggle, edp_toggle>>
theHost == <<host, hostToggle>>
vars  == <<ep, edp_toggle, epToggle, usb_fifo, usb_ff_wptr, usb_ff_rptr,
           usbkb_not_released, last_data, todo, host, hostToggle, reset,
           current, clean, taken, events, resets>>

Ring == [i \in 1..(usb_ff_wptr - usb_ff_rptr) % 8 |-> usb_fifo[(usb_ff_rptr + i - 1) % 4]]

Busy(mask) == ep[EdpOf(mask)] # Free                   \* usbhw_is_ep_busy

AllSent == \A e \in Edp : ep[e] = Free
Quiet   == todo = <<>> /\ AllSent /\ usb_ff_wptr = usb_ff_rptr /\ ~reset

-----------------------------------------------------------------------------
Init ==
  /\ ep = [e \in Edp |-> Free]
  /\ edp_toggle = [e \in Edp |-> 0] /\ epToggle = [e \in Edp |-> 0]
  /\ usb_fifo = [i \in 0..3 |-> Free] /\ usb_ff_wptr = 0 /\ usb_ff_rptr = 0
  /\ usbkb_not_released = {} /\ last_data = NoKeys /\ todo = <<>>
  /\ host = [mask \in Mask |-> {}] /\ hostToggle = [e \in Edp |-> 0]
  /\ reset = FALSE
  /\ current = {} /\ clean = TRUE /\ taken = Free
  /\ events = 0 /\ resets = 0

(* The report goes into its free endpoint *)
WriteEdp(r, held, toggle) ==
  LET e == EdpOf(r.mask)
  IN /\ ep' = [held EXCEPT ![e] = r]
     /\ epToggle' = [epToggle EXCEPT ![e] = toggle[e]]
     /\ edp_toggle' = [toggle EXCEPT ![e] = 1 - @]

(* Variant with a fault: one report too many before the oldest is dropped *)
RptrAfterLate(w) == IF (w - usb_ff_rptr) % 8 > 5 THEN (usb_ff_rptr + 1) % 8 ELSE usb_ff_rptr

(* The read pointer after the write pointer moved to w: oldest overwritten *)
RptrAfter(w) == IF (w - usb_ff_rptr) % 8 > 4 THEN (usb_ff_rptr + 1) % 8 ELSE usb_ff_rptr

(* The endpoint is busy: the report goes into the FIFO *)
Enqueue(r) ==
  /\ usb_fifo' = [usb_fifo EXCEPT ![usb_ff_wptr % 4] = r]
  /\ usb_ff_wptr' = (usb_ff_wptr + 1) % 8
  /\ usb_ff_rptr' = RptrAfter(usb_ff_wptr')

(* usbkb_hid_report_normal and usbmouse_hid_report answer whether the      *)
(* report went out; only then is a press or a release remembered.          *)
Send(r, mask) ==
  IF Busy(r.mask)
  THEN Enqueue(r) /\ UNCHANGED <<sent, usbkb_not_released>>
  ELSE WriteEdp(r, ep, edp_toggle) /\ usbkb_not_released' = mask /\ UNCHANGED fifo

(* Variant with a fault: no release is sent *)
ReportKeysNoRelease(r) ==
  IF r.keys # {} THEN Send(r, usbkb_not_released \cup {r.mask})
  ELSE UNCHANGED <<sent, fifo, usbkb_not_released>>

(* usbkb_report_normal_key, _sys_key and _media_key and the three          *)
(* usbkb_release functions                                                 *)
ReportKeys(r) ==
  IF r.keys # {} THEN Send(r, usbkb_not_released \cup {r.mask})
  ELSE IF r.mask \in usbkb_not_released THEN Send(r, usbkb_not_released \ {r.mask})
  ELSE UNCHANGED <<sent, fifo, usbkb_not_released>>

-----------------------------------------------------------------------------
(* The next report of the event in work *)
NextReport ==
  /\ todo # <<>>
  /\ ReportKeys(Head(todo))
  /\ todo' = Tail(todo)
  /\ clean' = (clean /\ usb_ff_wptr' = usb_ff_wptr)
  /\ UNCHANGED <<last_data, theHost, reset, current, taken, events, resets>>

MayReport ==
  /\ todo = <<>>
  /\ events < MaxEvent

(* usbkb_hid_report: the keys that are down now, from the BLE peer *)
usbkb_hid_report(d) ==
  /\ MayReport
  /\ events' = events + 1
  /\ IF d # NoKeys /\ d = last_data /\ usbkb_not_released # {}
     THEN UNCHANGED <<todo, last_data>>
     ELSE /\ last_data' = IF d # NoKeys THEN d ELSE last_data
          /\ todo' = << [mask |-> "NORMAL", keys |-> d.normal],
                        [mask |-> "SYS",    keys |-> d.ext \cap SysKey],
                        [mask |-> "MEDIA",  keys |-> d.ext \cap MediaKey] >>
  /\ current' = d.normal
  /\ UNCHANGED <<sent, fifo, usbkb_not_released, theHost, reset, clean, taken, resets>>

(* usbkb_report_consumer_key *)
usbkb_report_consumer_key(k) ==
  /\ MayReport
  /\ events' = events + 1
  /\ todo' = << [mask |-> "MEDIA", keys |-> k] >>
  /\ clean' = FALSE
  /\ UNCHANGED <<sent, fifo, usbkb_not_released, last_data, theHost, reset,
                 current, taken, resets>>

(* Variant with a fault: the last report stays in the FIFO *)
FifoEmptyEarly == (usb_ff_wptr - usb_ff_rptr) % 8 <= 1

FifoEmpty == usb_ff_wptr = usb_ff_rptr

(* usb_hid_report_fifo_proc *)
FifoProc(held, toggle) ==
  LET r == usb_fifo[usb_ff_rptr % 4]
  IN IF FifoEmpty \/ held[EdpOf(r.mask)] # Free
     THEN /\ ep' = held /\ edp_toggle' = toggle
          /\ UNCHANGED <<epToggle, fifo, taken>>
     ELSE /\ WriteEdp(r, held, toggle)
          /\ usb_ff_rptr' = (usb_ff_rptr + 1) % 8
          /\ taken' = r
          /\ UNCHANGED <<usb_fifo, usb_ff_wptr>>

(* Variant with a fault: the toggles outlive the reset *)
ToggleAfterKept == edp_toggle

ToggleAfter == IF reset THEN [e \in Edp |-> 0] ELSE edp_toggle

(* usb_handle_irq, from the main loop: a bus reset empties the endpoints;  *)
(* unless the bus is suspended the FIFO moves on.                          *)
usb_handle_irq(suspended) ==
  LET held == IF reset THEN [e \in Edp |-> Free] ELSE ep
  IN /\ todo = <<>>
     /\ IF suspended
        THEN /\ ep' = held /\ edp_toggle' = ToggleAfter
             /\ UNCHANGED <<epToggle, fifo, taken>>
        ELSE FifoProc(held, ToggleAfter)
     /\ reset' = FALSE
     /\ UNCHANGED <<usbkb_not_released, last_data, todo, theHost, current,
                    clean, events, resets>>

-----------------------------------------------------------------------------
(* The host fetches the report of an endpoint, and drops it when it has    *)
(* the toggle of the one before.                                           *)
HostPoll(e) ==
  /\ ~reset
  /\ ep[e] # Free
  /\ ep' = [ep EXCEPT ![e] = Free]
  /\ IF epToggle[e] = hostToggle[e]
     THEN /\ host' = [host EXCEPT ![ep[e].mask] = ep[e].keys]
          /\ hostToggle' = [hostToggle EXCEPT ![e] = 1 - @]
     ELSE UNCHANGED theHost
  /\ UNCHANGED <<epToggle, edp_toggle, fifo, usbkb_not_released, last_data, todo, reset,
                 current, clean, taken, events, resets>>

(* The host resets the bus and forgets what it knew *)
HostReset ==
  /\ resets < MaxReset
  /\ resets' = resets + 1
  /\ reset' = TRUE
  /\ host' = [mask \in Mask |-> {}]
  /\ hostToggle' = [e \in Edp |-> 0]
  /\ clean' = FALSE
  /\ UNCHANGED <<sent, fifo, usbkb_not_released, last_data, todo, current, taken, events>>

Next ==
  \/ NextReport
  \/ \E d \in Event : usbkb_hid_report(d)
  \/ \E k \in SUBSET MediaKey : usbkb_report_consumer_key(k)
  \/ \E suspended \in BOOLEAN : usb_handle_irq(suspended)
  \/ \E e \in Edp : HostPoll(e)
  \/ HostReset

(* The main loop runs on, the bus does not stay suspended and the host     *)
(* keeps fetching.                                                         *)
Fairness ==
  /\ WF_vars(NextReport) /\ WF_vars(usb_handle_irq(FALSE))
  /\ \A e \in Edp : WF_vars(HostPoll(e))

Spec == Init /\ [][Next]_vars /\ Fairness

-----------------------------------------------------------------------------
Fifo == INSTANCE LossyFifo WITH Cap <- 4, MayClear <- FALSE, Value <- Report, Nothing <- Free, q <- Ring

(* Type invariant *)
TypeOK ==
  /\ ep \in [Edp -> Report \cup {Free}]
  /\ edp_toggle \in [Edp -> 0..1] /\ epToggle \in [Edp -> 0..1]
  /\ usb_fifo \in [0..3 -> Report \cup {Free}]
  /\ usb_ff_wptr \in 0..7 /\ usb_ff_rptr \in 0..7
  /\ usbkb_not_released \subseteq Mask /\ last_data \in Event
  /\ todo \in Seq(Report) /\ taken \in Report \cup {Free}
  /\ host \in [Mask -> SUBSET (NormalKey \cup SysKey \cup MediaKey)]
  /\ hostToggle \in [Edp -> 0..1]
  /\ reset \in BOOLEAN /\ clean \in BOOLEAN /\ current \subseteq NormalKey
  /\ events \in 0..MaxEvent /\ resets \in 0..MaxReset

(* The host never drops a report as a repetition: once a bus reset is      *)
(* handled, the toggle of the report an endpoint holds, or of the next one *)
(* it will hold, is the one the host expects (usb_handle_irq resets        *)
(* edp_toggle, the report functions flip it).  The state keeps its shape.  *)
ToggleAgrees ==
  /\ TypeOK
  /\ ~reset => \A e \in Edp :
       hostToggle[e] = IF ep[e] = Free THEN edp_toggle[e] ELSE epToggle[e]

(* The suppression of repeated events and the release mask fit together:   *)
(* as long as no report found its endpoint busy, no bus reset came and no  *)
(* consumer key was reported on the side, the host has, once it has        *)
(* fetched the reports, the normal keys of the last event.                 *)
HostFollows ==
  clean /\ todo = <<>> /\ ep["KEYBOARD_IN"] = Free => host["NORMAL"] = current

(* The shared FIFO delivers the reports of both endpoints in order and     *)
(* drops the oldest one when it is full.                                   *)
ReportFifo == Fifo!Spec

(* Every report that was queued goes out: when the events end, the FIFO    *)
(* and the endpoints run empty.                                            *)
Drained == <>[]Quiet
=============================================================================
