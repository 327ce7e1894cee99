---------------------------- MODULE UsbHidProofs ----------------------------
(***************************************************************************)
(* Proofs about UsbHid, for every set of keys and any number of events and *)
(* bus resets.                                                             *)
(***************************************************************************)
EXTENDS UsbHid, RingLemmas

Item == Report \cup {Free}

-----------------------------------------------------------------------------
(* A report names its kind and keys of that kind, and is not the mark of   *)
(* an empty endpoint.                                                      *)
LEMMA ReportParts ==
  /\ \A r \in Report : r.mask \in Mask /\ r.keys \subseteq KeysOf(r.mask) /\ r # Free
  /\ \A mask \in Mask : \A keys \in SUBSET KeysOf(mask) : [mask |-> mask, keys |-> keys] \in Report
  /\ Free \notin Report
<1>1. ASSUME NEW r \in Report PROVE r.mask \in Mask /\ r.keys \subseteq KeysOf(r.mask) /\ r # Free
  <2>1. PICK mask \in Mask : r \in [mask : {mask}, keys : SUBSET KeysOf(mask)]
    BY DEF Report
  <2>2. r.mask = mask /\ r.keys \subseteq KeysOf(mask)
    BY <2>1
  <2>3. r.mask # "none"
    BY <2>1, <2>2 DEF Mask
  <2> QED
    BY <2>2, <2>3 DEF Free
<1>2. ASSUME NEW mask \in Mask, NEW keys, keys \subseteq KeysOf(mask)
      PROVE  [mask |-> mask, keys |-> keys] \in Report
  BY <1>2 DEF Report
<1> QED
  BY <1>1, <1>2

(* The keys of a kind, and the endpoint of a kind.                         *)
LEMMA Kinds ==
  /\ KeysOf("NORMAL") = NormalKey /\ KeysOf("SYS") = SysKey /\ KeysOf("MEDIA") = MediaKey
  /\ "NORMAL" \in Mask /\ "SYS" \in Mask /\ "MEDIA" \in Mask
  /\ \A mask \in Mask : KeysOf(mask) \subseteq NormalKey \cup SysKey \cup MediaKey
  /\ \A mask : EdpOf(mask) \in Edp
  /\ \A mask : EdpOf(mask) = "KEYBOARD_IN" <=> mask = "NORMAL"
  BY DEF KeysOf, Mask, EdpOf, Edp

-----------------------------------------------------------------------------
(* The FIFO of four reports, as a ring of RingLemmas that is never overrun *)
(* and whose entries are reports.                                          *)
RingOK ==
  /\ usb_fifo \in Buf(4, Item)
  /\ usb_ff_wptr \in Ptr(4) /\ usb_ff_rptr \in Ptr(4)
  /\ Used(4, usb_ff_rptr, usb_ff_wptr) <= 4
  /\ Ring \in Seq(Report)

(* RptrAfter for a read pointer r *)
Moved(r, w) == IF (w - r) % 8 > 4 THEN (r + 1) % 8 ELSE r

(* The FIFO that LossyFifo makes of s when v is put in *)
With(s, v) == IF Len(s) < 4 THEN Append(s, v) ELSE Append(Tail(s), v)

(* The ring of the module is the ring of the lemmas.                       *)
LEMMA FourSlots ==
  /\ 4 \in Size
  /\ \A r, w : Used(4, r, w) = (w - r) % 8
  /\ \A p : Step(4, p) = (p + 1) % 8
<1>1. 2 * 4 = 8
  OBVIOUS
<1> QED
  BY <1>1 DEF Size, Used, Step

(* Ring is the sequence between the two pointers,                          *)
LEMMA RingIs == Ring = RingOf(usb_fifo, 4, usb_ff_rptr, usb_ff_wptr)
<1>1. Used(4, usb_ff_rptr, usb_ff_wptr) = (usb_ff_wptr - usb_ff_rptr) % 8
  BY FourSlots, Zenon
<1> QED
  BY <1>1, Zenon DEF Ring, RingOf

(* in the next state too.                                                  *)
LEMMA RingIsNext == Ring' = RingOf(usb_fifo', 4, usb_ff_rptr', usb_ff_wptr')
<1>1. Used(4, usb_ff_rptr', usb_ff_wptr') = (usb_ff_wptr' - usb_ff_rptr') % 8
  BY FourSlots, Zenon
<1> QED
  BY <1>1, Zenon DEF Ring, RingOf

(* Putting a report in.                                                    *)
LEMMA EnqueueRing ==
  ASSUME RingOK, NEW r \in Report, Enqueue(r)
  PROVE  RingOK' /\ Ring' = With(Ring, r) /\ usb_ff_wptr' # usb_ff_wptr
<1> DEFINE w  == usb_ff_wptr
           p  == usb_ff_rptr
           w1 == Step(4, w)
           u  == Used(4, p, w)
<1>0. /\ 4 \in Size /\ r \in Item
      /\ usb_fifo \in Buf(4, Item) /\ w \in Ptr(4) /\ p \in Ptr(4) /\ Used(4, p, w) <= 4
      /\ Ring \in Seq(Report)
  BY FourSlots DEF RingOK, Item
<1>1. /\ usb_ff_wptr' = w1 /\ usb_fifo' = [usb_fifo EXCEPT ![w % 4] = r]
      /\ usb_ff_rptr' = IF (w1 - p) % 8 > 4 THEN (p + 1) % 8 ELSE p
  BY FourSlots DEF Enqueue, RptrAfter
<1>2. w1 \in Ptr(4) /\ Step(4, p) \in Ptr(4)
  BY <1>0, ModStep, Zenon
<1>3. RingOf(usb_fifo, 4, p, w) \in Seq(Item) /\ Len(RingOf(usb_fifo, 4, p, w)) = u
  BY <1>0, RingLen, Zenon
<1>4. u = (w - p) % 8 /\ Used(4, p, w1) = (w1 - p) % 8 /\ Step(4, p) = (p + 1) % 8
      /\ w1 = (w + 1) % 8 /\ w \in 0..7 /\ p \in 0..7
  BY <1>0, FourSlots DEF Ptr
<1>5. Ring = RingOf(usb_fifo, 4, p, w) /\ Ring' = RingOf(usb_fifo', 4, usb_ff_rptr', usb_ff_wptr')
  BY RingIs, RingIsNext, Zenon
<1> HIDE DEF w1, u, w, p
<1>6. /\ Ring' = With(Ring, r) /\ usb_fifo' \in Buf(4, Item) /\ usb_ff_rptr' \in Ptr(4)
      /\ Used(4, usb_ff_rptr', usb_ff_wptr') <= 4
  <2>1. CASE u < 4
    <3>1. usb_ff_rptr' = p
      BY <1>1, <1>4, <2>1
    <3>2. /\ RingOf([usb_fifo EXCEPT ![w % 4] = r], 4, p, w1) = Append(RingOf(usb_fifo, 4, p, w), r)
          /\ Used(4, p, w1) = u + 1
          /\ [usb_fifo EXCEPT ![w % 4] = r] \in Buf(4, Item)
      BY <2>1, <1>0, RingPut, Zenon DEF u, w1
    <3>3. Used(4, p, w1) <= 4
      BY <3>2, <2>1, <1>4
    <3>4. With(Ring, r) = Append(RingOf(usb_fifo, 4, p, w), r)
      BY <2>1, <1>3, <1>5, Zenon DEF With
    <3> QED
      BY <3>1, <3>2, <3>3, <3>4, <1>0, <1>1, <1>5, Zenon
  <2>2. CASE u = 4
    <3>0. w = p + 4 \/ p = w + 4
      BY <1>4, <2>2
    <3>1. usb_ff_rptr' = Step(4, p)
      BY <3>0, <1>1, <1>4
    <3>2. /\ RingOf([usb_fifo EXCEPT ![w % 4] = r], 4, Step(4, p), w1)
               = Append(Tail(RingOf(usb_fifo, 4, p, w)), r)
          /\ Used(4, Step(4, p), w1) = 4
          /\ [usb_fifo EXCEPT ![w % 4] = r] \in Buf(4, Item)
      BY <2>2, <1>0, RingPutFull, Zenon DEF u, w1
    <3>3. Used(4, Step(4, p), w1) <= 4 /\ ~(4 < 4)
      BY <3>2
    <3>4. With(Ring, r) = Append(Tail(RingOf(usb_fifo, 4, p, w)), r)
      BY <3>3, <2>2, <1>3, <1>5, Zenon DEF With
    <3> QED
      BY <3>1, <3>2, <3>3, <3>4, <1>0, <1>1, <1>2, <1>5, Zenon
  <2>3. u < 4 \/ u = 4
    BY <1>0, <1>4 DEF u
  <2> QED
    BY <2>1, <2>2, <2>3
<1>7. With(Ring, r) \in Seq(Report)
  <2>1. CASE Len(Ring) < 4
    BY <2>1, <1>0 DEF With
  <2>2. CASE ~(Len(Ring) < 4)
    <3>1. Ring # <<>>
      BY <2>2
    <3>2. Tail(Ring) \in Seq(Report)
      BY <3>1, <1>0
    <3>3. Append(Tail(Ring), r) \in Seq(Report)
      BY <3>2
    <3> QED
      BY <3>3, <2>2, Zenon DEF With
  <2> QED
    BY <2>1, <2>2
<1>8. usb_ff_wptr' # usb_ff_wptr
  BY <1>1, <1>4 DEF w
<1> QED
  BY <1>1, <1>2, <1>6, <1>7, <1>8, Zenon DEF RingOK

(* Taking the oldest report out.                                           *)
LEMMA DequeueRing ==
  ASSUME RingOK, usb_ff_wptr # usb_ff_rptr,
         usb_fifo' = usb_fifo, usb_ff_wptr' = usb_ff_wptr, usb_ff_rptr' = (usb_ff_rptr + 1) % 8
  PROVE  /\ RingOK' /\ Ring # <<>> /\ Ring' = Tail(Ring)
         /\ usb_fifo[usb_ff_rptr % 4] = Head(Ring) /\ Head(Ring) \in Report
<1> DEFINE w  == usb_ff_wptr
           p  == usb_ff_rptr
           p1 == Step(4, p)
<1>0. /\ 4 \in Size /\ p # w
      /\ usb_fifo \in Buf(4, Item) /\ w \in Ptr(4) /\ p \in Ptr(4) /\ Used(4, p, w) <= 4
      /\ Ring \in Seq(Report)
  BY FourSlots DEF RingOK
<1>1. usb_ff_rptr' = p1
  BY FourSlots
<1>2. Ring = RingOf(usb_fifo, 4, p, w) /\ Ring' = RingOf(usb_fifo', 4, usb_ff_rptr', usb_ff_wptr')
  BY RingIs, RingIsNext, Zenon
<1>3. /\ RingOf(usb_fifo, 4, p, w) # <<>>
      /\ Head(RingOf(usb_fifo, 4, p, w)) = usb_fifo[p % 4]
      /\ RingOf(usb_fifo, 4, p1, w) = Tail(RingOf(usb_fifo, 4, p, w))
      /\ Used(4, p1, w) = Used(4, p, w) - 1
  BY <1>0, RingTake, Zenon
<1>4. p1 \in Ptr(4)
  BY <1>0, ModStep, Zenon
<1>5. Used(4, p, w) \in Ptr(4)
  BY <1>0, ModUsed, Zenon
<1>6. Used(4, p1, w) <= 4
  BY <1>0, <1>3, <1>5 DEF Ptr
<1>7. Ring # <<>> /\ Ring' = Tail(Ring) /\ usb_fifo[usb_ff_rptr % 4] = Head(Ring)
  BY <1>1, <1>2, <1>3, Zenon
<1>8. Tail(Ring) \in Seq(Report) /\ Head(Ring) \in Report
  BY <1>0, <1>7
<1> HIDE DEF p1
<1> QED
  BY <1>0, <1>1, <1>4, <1>6, <1>7, <1>8, Zenon DEF RingOK

-----------------------------------------------------------------------------
(* The toggles.  Agree: the host expects the toggle of the report an       *)
(* endpoint holds, or of the next one.  Alternate: the next report gets    *)
(* the other toggle, and a report is in the endpoint of its kind.          *)
Agree(held, toggle, inEp, expected) ==
  \A e \in Edp : expected[e] = IF held[e] = Free THEN toggle[e] ELSE inEp[e]
Alternate(held, toggle, inEp) ==
  \A e \in Edp : held[e] # Free => toggle[e] = 1 - inEp[e] /\ EdpOf(held[e].mask) = e

ToggleOK ==
  /\ ~reset => Agree(ep, edp_toggle, epToggle, hostToggle)
  /\ reset => \A e \in Edp : hostToggle[e] = 0
  /\ Alternate(ep, edp_toggle, epToggle)

(* The reports of an event are made in the order normal, system, media *)
TodoOK ==
  /\ Len(todo) \in 0..3
  /\ Len(todo) = 3 => todo[1].mask = "NORMAL" /\ todo[2].mask = "SYS" /\ todo[3].mask = "MEDIA"
  /\ Len(todo) = 2 => todo[1].mask = "SYS" /\ todo[2].mask = "MEDIA"
  /\ Len(todo) = 1 => todo[1].mask = "MEDIA"

(* The kinds of report still to be made when n are left *)
Pending(n) ==
  {mask \in Mask : \/ mask = "NORMAL" /\ n = 3
                   \/ mask = "SYS" /\ n >= 2
                   \/ mask = "MEDIA" /\ n >= 1}

(* The normal keys the host has, or will have when it next fetches *)
Told == IF ep["KEYBOARD_IN"] = Free THEN host["NORMAL"] ELSE ep["KEYBOARD_IN"].keys

(* What the host is told on a clean run.  The last event is the one        *)
(* last_data keeps, or it released every key and will have emptied         *)
(* usbkb_not_released once its reports are made: this is why suppressing a *)
(* repeated event loses nothing.                                           *)
FollowOK ==
  clean =>
    /\ ~reset /\ usb_ff_wptr = usb_ff_rptr
    /\ IF Len(todo) = 3 THEN todo[1].keys = current ELSE Told = current
    /\ "NORMAL" \notin usbkb_not_released => Told = {}
    /\ \/ current = last_data.normal
       \/ /\ \A i \in 1..Len(todo) : todo[i].keys = {}
          /\ usbkb_not_released \subseteq Pending(Len(todo))

(* The inductive invariant *)
Inv == TypeOK /\ RingOK /\ ToggleOK /\ TodoOK /\ FollowOK

(* A report written to a free endpoint.                                    *)
LEMMA WriteStep ==
  ASSUME NEW held \in [Edp -> Item], NEW toggle \in [Edp -> 0..1], epToggle \in [Edp -> 0..1],
         NEW r \in Report, held[EdpOf(r.mask)] = Free, Alternate(held, toggle, epToggle),
         WriteEdp(r, held, toggle)
  PROVE  /\ ep' \in [Edp -> Item] /\ edp_toggle' \in [Edp -> 0..1] /\ epToggle' \in [Edp -> 0..1]
         /\ Alternate(ep', edp_toggle', epToggle')
         /\ \A expected : Agree(held, toggle, epToggle, expected)
                            => Agree(ep', edp_toggle', epToggle', expected)
         /\ ep'[EdpOf(r.mask)] = r /\ \A f \in Edp \ {EdpOf(r.mask)} : ep'[f] = held[f]
<1> DEFINE e == EdpOf(r.mask)
<1>1. e \in Edp /\ r \in Item /\ r # Free
  BY Kinds, ReportParts DEF Item
<1>2. /\ ep' = [held EXCEPT ![e] = r]
      /\ epToggle' = [epToggle EXCEPT ![e] = toggle[e]]
      /\ edp_toggle' = [toggle EXCEPT ![e] = 1 - toggle[e]]
  BY DEF WriteEdp
<1>3. e = EdpOf(r.mask)
  OBVIOUS
<1> HIDE DEF e
<1>4. /\ ep'[e] = r /\ epToggle'[e] = toggle[e] /\ edp_toggle'[e] = 1 - toggle[e]
      /\ \A f \in Edp \ {e} : ep'[f] = held[f] /\ epToggle'[f] = epToggle[f] /\ edp_toggle'[f] = toggle[f]
  BY <1>1, <1>2
<1>5. toggle[e] \in 0..1 /\ 1 - toggle[e] \in 0..1
  BY <1>1
<1>6. ep' \in [Edp -> Item] /\ edp_toggle' \in [Edp -> 0..1] /\ epToggle' \in [Edp -> 0..1]
  BY <1>1, <1>2, <1>5
<1>7. Alternate(ep', edp_toggle', epToggle')
  <2> SUFFICES ASSUME NEW f \in Edp, ep'[f] # Free
               PROVE  edp_toggle'[f] = 1 - epToggle'[f] /\ EdpOf(ep'[f].mask) = f
    BY Zenon DEF Alternate
  <2>1. CASE f = e
    BY <2>1, <1>3, <1>4, Zenon
  <2>2. CASE f # e
    BY <2>2, <1>4, Zenon DEF Alternate
  <2> QED
    BY <2>1, <2>2
<1>8. ASSUME NEW expected, Agree(held, toggle, epToggle, expected)
      PROVE  Agree(ep', edp_toggle', epToggle', expected)
  <2> SUFFICES ASSUME NEW f \in Edp
               PROVE  expected[f] = IF ep'[f] = Free THEN edp_toggle'[f] ELSE epToggle'[f]
    BY Zenon DEF Agree
  <2>1. CASE f = e
    <3>1. expected[e] = toggle[e]
      BY <1>1, <1>3, <1>8, Zenon DEF Agree
    <3> QED
      BY <3>1, <2>1, <1>1, <1>4, Zenon
  <2>2. CASE f # e
    BY <2>2, <1>4, <1>8, Zenon DEF Agree
  <2> QED
    BY <2>1, <2>2
<1> QED
  BY <1>4, <1>6, <1>7, <1>8, <1>3, Zenon

(* The state of the endpoints, whatever sent them *)
SentOK ==
  /\ ep \in [Edp -> Item] /\ edp_toggle \in [Edp -> 0..1] /\ epToggle \in [Edp -> 0..1]
  /\ Alternate(ep, edp_toggle, epToggle)

(* One report of an event: it is queued, or written, or there is nothing   *)
(* to say.                                                                 *)
LEMMA ReportStep ==
  ASSUME SentOK, RingOK, usbkb_not_released \subseteq Mask, NEW r \in Report, ReportKeys(r)
  PROVE  \/ /\ UNCHANGED <<sent, usbkb_not_released>>
            /\ RingOK' /\ Ring' = With(Ring, r) /\ usb_ff_wptr' # usb_ff_wptr
         \/ /\ UNCHANGED fifo /\ SentOK'
            /\ \A expected : Agree(ep, edp_toggle, epToggle, expected)
                               => Agree(ep', edp_toggle', epToggle', expected)
            /\ ep[EdpOf(r.mask)] = Free /\ ep'[EdpOf(r.mask)] = r
            /\ \A f \in Edp \ {EdpOf(r.mask)} : ep'[f] = ep[f]
            /\ usbkb_not_released' = IF r.keys # {} THEN usbkb_not_released \cup {r.mask}
                                     ELSE usbkb_not_released \ {r.mask}
         \/ /\ UNCHANGED <<sent, fifo, usbkb_not_released>>
            /\ r.keys = {} /\ r.mask \notin usbkb_not_released
<1> DEFINE e    == EdpOf(r.mask)
           mask == IF r.keys # {} THEN usbkb_not_released \cup {r.mask}
                   ELSE usbkb_not_released \ {r.mask}
<1>1. CASE r.keys = {} /\ r.mask \notin usbkb_not_released
  <2>1. UNCHANGED <<sent, fifo, usbkb_not_released>>
    BY <1>1, Zenon DEF ReportKeys
  <2> QED
    BY <2>1, <1>1, Zenon
<1>2. CASE ~(r.keys = {} /\ r.mask \notin usbkb_not_released)
  <2>1. Send(r, mask)
    BY <1>2, Zenon DEF ReportKeys
  <2>2. CASE Busy(r.mask)
    <3>1. Enqueue(r) /\ UNCHANGED <<sent, usbkb_not_released>>
      BY <2>1, <2>2, Zenon DEF Send
    <3>2. RingOK' /\ Ring' = With(Ring, r) /\ usb_ff_wptr' # usb_ff_wptr
      BY <3>1, EnqueueRing, Zenon
    <3> QED
      BY <3>1, <3>2, Zenon
  <2>3. CASE ~Busy(r.mask)
    <3>1. WriteEdp(r, ep, edp_toggle) /\ usbkb_not_released' = mask /\ UNCHANGED fifo
      BY <2>1, <2>3, Zenon DEF Send
    <3>2. ep[e] = Free
      BY <2>3, Zenon DEF Busy
    <3>3. /\ ep \in [Edp -> Item] /\ edp_toggle \in [Edp -> 0..1] /\ epToggle \in [Edp -> 0..1]
          /\ Alternate(ep, edp_toggle, epToggle)
      BY Zenon DEF SentOK
    <3>4. /\ ep' \in [Edp -> Item] /\ edp_toggle' \in [Edp -> 0..1] /\ epToggle' \in [Edp -> 0..1]
          /\ Alternate(ep', edp_toggle', epToggle')
          /\ \A expected : Agree(ep, edp_toggle, epToggle, expected)
                             => Agree(ep', edp_toggle', epToggle', expected)
          /\ ep'[e] = r /\ \A f \in Edp \ {e} : ep'[f] = ep[f]
      BY <3>1, <3>2, <3>3, WriteStep
    <3>5. SentOK'
      BY <3>4, Zenon DEF SentOK
    <3> HIDE DEF mask
    <3> QED
      BY <3>1, <3>2, <3>4, <3>5, Zenon DEF mask
  <2> QED
    BY <2>2, <2>3
<1> QED
  BY <1>1, <1>2

-----------------------------------------------------------------------------
(* TypeOK in parts, those the lemmas need together *)
RestOK ==
  /\ usbkb_not_released \subseteq Mask /\ last_data \in Event
  /\ todo \in Seq(Report) /\ taken \in Item
  /\ host \in [Mask -> SUBSET (NormalKey \cup SysKey \cup MediaKey)]
  /\ hostToggle \in [Edp -> 0..1]
  /\ reset \in BOOLEAN /\ clean \in BOOLEAN /\ current \subseteq NormalKey
  /\ events \in 0..MaxEvent /\ resets \in 0..MaxReset

(* The parts make up the invariant.                                        *)
LEMMA InvParts ==
  Inv <=> /\ RestOK /\ RingOK /\ SentOK /\ TodoOK /\ FollowOK
          /\ ~reset => Agree(ep, edp_toggle, epToggle, hostToggle)
          /\ reset => \A e \in Edp : hostToggle[e] = 0
<1>1. RingOK => usb_fifo \in [0..3 -> Report \cup {Free}] /\ usb_ff_wptr \in 0..7 /\ usb_ff_rptr \in 0..7
  BY DEF RingOK, Buf, Slot, Ptr, Item
<1> QED
  BY <1>1, Zenon DEF Inv, TypeOK, RestOK, SentOK, ToggleOK, Item

(* The invariant over primed variables, conjunct by conjunct.              *)
LEMMA InvNext ==
  ASSUME RestOK', RingOK', SentOK', TodoOK', FollowOK',
         ~reset' => Agree(ep', edp_toggle', epToggle', hostToggle'),
         reset' => \A e \in Edp : hostToggle'[e] = 0
  PROVE  Inv'
<1>1. usb_fifo' \in [0..3 -> Report \cup {Free}] /\ usb_ff_wptr' \in 0..7 /\ usb_ff_rptr' \in 0..7
  BY DEF RingOK, Buf, Slot, Ptr, Item
<1>2. TypeOK'
  BY <1>1, Zenon DEF TypeOK, RestOK, SentOK, Item
<1>3. ToggleOK'
  BY Zenon DEF ToggleOK, SentOK
<1> QED
  BY <1>2, <1>3, Zenon DEF Inv

(* The initial state.                                                      *)
LEMMA InitInv == ASSUME Init PROVE Inv
<1>1. Used(4, 0, 0) = 0 /\ 0 \in Ptr(4)
  BY DEF Used, Ptr
<1>2. Ring = <<>>
  BY DEF Init, Ring
<1>3. RingOK
  BY <1>1, <1>2 DEF Init, RingOK, Buf, Slot, Item
<1>4. NoKeys \in Event
  BY DEF NoKeys, Event
<1>5. RestOK
  <2>1. /\ usbkb_not_released \subseteq Mask /\ last_data \in Event
        /\ todo \in Seq(Report) /\ taken \in Item /\ current \subseteq NormalKey
        /\ events \in 0..MaxEvent /\ resets \in 0..MaxReset
    BY <1>4, BoundAssumption DEF Init, Item
  <2>2. /\ host \in [Mask -> SUBSET (NormalKey \cup SysKey \cup MediaKey)]
        /\ hostToggle \in [Edp -> 0..1]
    BY DEF Init
  <2>3. reset \in BOOLEAN /\ clean \in BOOLEAN
    BY DEF Init
  <2> QED
    BY <2>1, <2>2, <2>3, Zenon DEF RestOK
<1>6. SentOK
  BY DEF Init, SentOK, Item, Alternate
<1>7. Agree(ep, edp_toggle, epToggle, hostToggle)
  BY DEF Init, Agree
<1>8. TodoOK /\ FollowOK
  BY DEF Init, TodoOK, FollowOK, Told, NoKeys, Mask, Edp
<1>9. ~reset
  BY DEF Init
<1> QED
  BY <1>3, <1>5, <1>6, <1>7, <1>8, <1>9, InvParts, Zenon

(* The next report of the event.                                           *)
LEMMA NextReportInv == ASSUME Inv, NextReport PROVE Inv'
<1> DEFINE r == Head(todo)
           n == Len(todo)
<1>1. /\ RestOK /\ RingOK /\ SentOK /\ TodoOK /\ FollowOK
      /\ ~reset => Agree(ep, edp_toggle, epToggle, hostToggle)
      /\ reset => \A e \in Edp : hostToggle[e] = 0
  BY InvParts, Zenon
<1>2. /\ todo # <<>> /\ ReportKeys(r) /\ todo' = Tail(todo)
      /\ clean' = (clean /\ usb_ff_wptr' = usb_ff_wptr)
      /\ UNCHANGED <<last_data, host, hostToggle, reset, current, taken, events, resets>>
  BY Zenon DEF NextReport, theHost
<1>3. todo \in Seq(Report) /\ usbkb_not_released \subseteq Mask
  BY <1>1 DEF RestOK
<1>4. /\ r \in Report /\ r = todo[1] /\ n \in 1..3
      /\ todo' \in Seq(Report) /\ Len(todo') = n - 1
      /\ \A i \in 1..n - 1 : todo'[i] = todo[i + 1]
  BY <1>1, <1>2, <1>3 DEF TodoOK
<1>5. TodoOK'
  BY <1>1, <1>4 DEF TodoOK
<1>6. r.mask \in Mask /\ r # Free
      /\ (n = 3 => r.mask = "NORMAL") /\ (n = 2 => r.mask = "SYS") /\ (n = 1 => r.mask = "MEDIA")
  BY <1>1, <1>4, ReportParts DEF TodoOK
<1>7. clean' \in BOOLEAN
  BY <1>2
<1> HIDE DEF r, n
<1>8. CASE /\ UNCHANGED <<sent, usbkb_not_released>>
           /\ RingOK' /\ usb_ff_wptr' # usb_ff_wptr
  <2>1. ~clean'
    BY <1>2, <1>8
  <2>2. FollowOK'
    BY <2>1 DEF FollowOK
  <2>3. RestOK'
    BY <1>1, <1>2, <1>4, <1>7, <1>8 DEF RestOK
  <2>4. SentOK' /\ ep' = ep /\ edp_toggle' = edp_toggle /\ epToggle' = epToggle
    BY <1>1, <1>8 DEF SentOK, sent
  <2>5. /\ ~reset' => Agree(ep', edp_toggle', epToggle', hostToggle')
        /\ reset' => \A e \in Edp : hostToggle'[e] = 0
    BY <2>4, <1>1, <1>2, Zenon
  <2> QED
    BY <1>5, <1>8, <2>2, <2>3, <2>4, <2>5, InvNext, Zenon
<1>9. CASE /\ UNCHANGED fifo /\ SentOK'
           /\ \A expected : Agree(ep, edp_toggle, epToggle, expected)
                               => Agree(ep', edp_toggle', epToggle', expected)
           /\ ep[EdpOf(r.mask)] = Free /\ ep'[EdpOf(r.mask)] = r
           /\ \A f \in Edp \ {EdpOf(r.mask)} : ep'[f] = ep[f]
           /\ usbkb_not_released' = IF r.keys # {} THEN usbkb_not_released \cup {r.mask}
                                     ELSE usbkb_not_released \ {r.mask}
  <2>1. RestOK'
    BY <1>1, <1>2, <1>4, <1>6, <1>7, <1>9 DEF RestOK
  <2>2. usb_fifo' = usb_fifo /\ usb_ff_wptr' = usb_ff_wptr /\ usb_ff_rptr' = usb_ff_rptr
    BY <1>9 DEF fifo
  <2>3. RingOK'
    <3>1. Ring' = Ring
      BY <2>2 DEF Ring
    <3> QED
      BY <3>1, <2>2, <1>1 DEF RingOK
  <2>4. /\ ~reset' => Agree(ep', edp_toggle', epToggle', hostToggle')
        /\ reset' => \A e \in Edp : hostToggle'[e] = 0
    BY <1>1, <1>2, <1>9, Zenon
  <2>5. FollowOK'
    <3> SUFFICES ASSUME clean' PROVE FollowOK'
      BY DEF FollowOK
    <3>1. clean
      BY <1>2
    <3>2. n = 3 => Told' = r.keys
      BY <1>6, <1>9, Kinds DEF Told
    <3>3. n # 3 => Told' = Told
      BY <1>2, <1>4, <1>6, <1>9, Kinds DEF Told, Edp, Mask
    <3>4. /\ ~reset /\ usb_ff_wptr = usb_ff_rptr
          /\ n = 3 => r.keys = current
          /\ n # 3 => Told = current
          /\ "NORMAL" \notin usbkb_not_released => Told = {}
      BY <3>1, <1>1, <1>4 DEF FollowOK, n
    <3>5. Told' = current'
      BY <3>2, <3>3, <3>4, <1>2
    <3>6. "NORMAL" \notin usbkb_not_released' => Told' = {}
      BY <3>2, <3>3, <3>4, <1>4, <1>6, <1>9
    <3>7. \/ current' = last_data'.normal
          \/ /\ \A i \in 1..Len(todo') : todo'[i].keys = {}
             /\ usbkb_not_released' \subseteq Pending(Len(todo'))
      <4>1. CASE current = last_data.normal
        BY <4>1, <1>2
      <4>2. CASE /\ \A i \in 1..n : todo[i].keys = {}
                 /\ usbkb_not_released \subseteq Pending(n)
        <5>1. r.keys = {} /\ \A i \in 1..Len(todo') : todo'[i].keys = {}
          BY <4>2, <1>4
        <5>2. usbkb_not_released' = usbkb_not_released \ {r.mask}
          BY <5>1, <1>9
        <5>3. Pending(n) \ {r.mask} \subseteq Pending(n - 1)
          BY <1>4, <1>6 DEF Pending, Mask
        <5> QED
          BY <5>1, <5>2, <5>3, <4>2, <1>4
      <4> QED
        BY <4>1, <4>2, <3>1, <1>1 DEF FollowOK, n
    <3>8. Len(todo') # 3
      BY <1>4
    <3> QED
      BY <3>4, <3>5, <3>6, <3>7, <3>8, <2>2, <1>2 DEF FollowOK
  <2> QED
    BY <1>5, <1>9, <2>1, <2>3, <2>4, <2>5, InvNext, Zenon
<1>10. CASE /\ UNCHANGED <<sent, fifo, usbkb_not_released>>
            /\ r.keys = {} /\ r.mask \notin usbkb_not_released
  <2>1. RestOK'
    BY <1>1, <1>2, <1>4, <1>7, <1>10 DEF RestOK
  <2>2. usb_fifo' = usb_fifo /\ usb_ff_wptr' = usb_ff_wptr /\ usb_ff_rptr' = usb_ff_rptr
        /\ ep' = ep /\ edp_toggle' = edp_toggle /\ epToggle' = epToggle
    BY <1>10 DEF fifo, sent
  <2>3. RingOK' /\ SentOK'
    <3>1. Ring' = Ring
      BY <2>2 DEF Ring
    <3> QED
      BY <3>1, <2>2, <1>1 DEF RingOK, SentOK
  <2>4. /\ ~reset' => Agree(ep', edp_toggle', epToggle', hostToggle')
        /\ reset' => \A e \in Edp : hostToggle'[e] = 0
    BY <1>1, <1>2, <2>2, Zenon
  <2>5. FollowOK'
    <3> SUFFICES ASSUME clean' PROVE FollowOK'
      BY DEF FollowOK
    <3>1. clean
      BY <1>2
    <3>2. Told' = Told
      BY <1>2, <2>2 DEF Told
    <3>3. /\ ~reset /\ usb_ff_wptr = usb_ff_rptr
          /\ n = 3 => r.keys = current
          /\ n # 3 => Told = current
          /\ "NORMAL" \notin usbkb_not_released => Told = {}
      BY <3>1, <1>1, <1>4 DEF FollowOK, n
    <3>4. Told' = current'
      BY <3>2, <3>3, <1>2, <1>6, <1>10
    <3>5. \/ current' = last_data'.normal
          \/ /\ \A i \in 1..Len(todo') : todo'[i].keys = {}
             /\ usbkb_not_released' \subseteq Pending(Len(todo'))
      <4>1. CASE current = last_data.normal
        BY <4>1, <1>2
      <4>2. CASE /\ \A i \in 1..n : todo[i].keys = {}
                 /\ usbkb_not_released \subseteq Pending(n)
        <5>1. \A i \in 1..Len(todo') : todo'[i].keys = {}
          BY <4>2, <1>4
        <5>3. Pending(n) \ {r.mask} \subseteq Pending(n - 1)
          BY <1>4, <1>6 DEF Pending, Mask
        <5> QED
          BY <5>1, <5>3, <4>2, <1>4, <1>10
      <4> QED
        BY <4>1, <4>2, <3>1, <1>1 DEF FollowOK, n
    <3>6. Len(todo') # 3
      BY <1>4
    <3> QED
      BY <3>2, <3>3, <3>4, <3>5, <3>6, <2>2, <1>2, <1>10 DEF FollowOK
  <2> QED
    BY <1>5, <2>1, <2>3, <2>4, <2>5, InvNext, Zenon
<1> QED
  <2>1. \/ /\ UNCHANGED <<sent, usbkb_not_released>>
           /\ RingOK' /\ Ring' = With(Ring, r) /\ usb_ff_wptr' # usb_ff_wptr
        \/ /\ UNCHANGED fifo /\ SentOK'
           /\ \A expected : Agree(ep, edp_toggle, epToggle, expected)
                               => Agree(ep', edp_toggle', epToggle', expected)
           /\ ep[EdpOf(r.mask)] = Free /\ ep'[EdpOf(r.mask)] = r
           /\ \A f \in Edp \ {EdpOf(r.mask)} : ep'[f] = ep[f]
           /\ usbkb_not_released' = IF r.keys # {} THEN usbkb_not_released \cup {r.mask}
                                     ELSE usbkb_not_released \ {r.mask}
        \/ /\ UNCHANGED <<sent, fifo, usbkb_not_released>>
           /\ r.keys = {} /\ r.mask \notin usbkb_not_released
    BY <1>1, <1>2, <1>3, <1>4, ReportStep
  <2> QED
    BY <2>1, <1>8, <1>9, <1>10, Zenon

(* What an action that leaves the endpoints and the FIFO alone keeps.      *)
LEMMA Untouched ==
  ASSUME RingOK, SentOK, UNCHANGED <<sent, fifo>>
  PROVE  /\ RingOK' /\ SentOK' /\ Ring' = Ring
         /\ ep' = ep /\ edp_toggle' = edp_toggle /\ epToggle' = epToggle
         /\ usb_ff_wptr' = usb_ff_wptr /\ usb_ff_rptr' = usb_ff_rptr
<1>1. /\ usb_fifo' = usb_fifo /\ usb_ff_wptr' = usb_ff_wptr /\ usb_ff_rptr' = usb_ff_rptr
      /\ ep' = ep /\ edp_toggle' = edp_toggle /\ epToggle' = epToggle
  BY DEF sent, fifo
<1>2. Ring' = Ring
  BY <1>1 DEF Ring
<1> QED
  BY <1>1, <1>2 DEF RingOK, SentOK

(* An event of the peer: suppressed, or turned into three reports.         *)
LEMMA EventInv == ASSUME Inv, NEW d \in Event, usbkb_hid_report(d) PROVE Inv'
<1>1. /\ RestOK /\ RingOK /\ SentOK /\ TodoOK /\ FollowOK
      /\ ~reset => Agree(ep, edp_toggle, epToggle, hostToggle)
      /\ reset => \A e \in Edp : hostToggle[e] = 0
  BY InvParts, Zenon
<1>2. /\ todo = <<>> /\ events < MaxEvent /\ events' = events + 1 /\ current' = d.normal
      /\ UNCHANGED <<sent, fifo>>
      /\ UNCHANGED <<usbkb_not_released, host, hostToggle, reset, clean, taken, resets>>
  BY Zenon DEF usbkb_hid_report, MayReport, theHost
<1>3. /\ RingOK' /\ SentOK' /\ ep' = ep /\ edp_toggle' = edp_toggle /\ epToggle' = epToggle
      /\ usb_ff_wptr' = usb_ff_wptr /\ usb_ff_rptr' = usb_ff_rptr
  BY <1>1, <1>2, Untouched, Zenon
<1>4. /\ ~reset' => Agree(ep', edp_toggle', epToggle', hostToggle')
      /\ reset' => \A e \in Edp : hostToggle'[e] = 0
  BY <1>1, <1>2, <1>3, Zenon
<1>5. d.normal \subseteq NormalKey /\ d \in [normal : SUBSET NormalKey, ext : SUBSET (SysKey \cup MediaKey)]
  BY DEF Event
<1>6. Told' = Told
  BY <1>2, <1>3 DEF Told
<1>7. clean => /\ ~reset /\ usb_ff_wptr = usb_ff_rptr /\ Told = current
               /\ "NORMAL" \notin usbkb_not_released => Told = {}
               /\ current = last_data.normal \/ usbkb_not_released \subseteq Pending(0)
  BY <1>1, <1>2 DEF FollowOK
<1>8. Pending(0) = {} /\ Pending(3) = Mask
  BY DEF Pending, Mask
<1>9. CASE d # NoKeys /\ d = last_data /\ usbkb_not_released # {}
  <2>1. todo' = todo /\ last_data' = last_data
    BY <1>9, Zenon DEF usbkb_hid_report
  <2>2. RestOK'
    BY <1>1, <1>2, <1>5, <2>1, BoundAssumption DEF RestOK
  <2>3. TodoOK'
    BY <1>1, <2>1 DEF TodoOK
  <2>4. FollowOK'
    BY <1>2, <1>3, <1>6, <1>7, <1>8, <1>9, <2>1 DEF FollowOK
  <2> QED
    BY <1>3, <1>4, <2>2, <2>3, <2>4, InvNext, Zenon
<1>10. CASE ~(d # NoKeys /\ d = last_data /\ usbkb_not_released # {})
  <2> DEFINE n == [mask |-> "NORMAL", keys |-> d.normal]
             s == [mask |-> "SYS",    keys |-> d.ext \cap SysKey]
             m == [mask |-> "MEDIA",  keys |-> d.ext \cap MediaKey]
  <2>1. todo' = <<n, s, m>> /\ last_data' = IF d # NoKeys THEN d ELSE last_data
    BY <1>10, Zenon DEF usbkb_hid_report
  <2>2. n \in Report /\ s \in Report /\ m \in Report
    <3>1. d.normal \subseteq KeysOf("NORMAL") /\ (d.ext \cap SysKey) \subseteq KeysOf("SYS")
          /\ (d.ext \cap MediaKey) \subseteq KeysOf("MEDIA")
      BY <1>5, Kinds
    <3> QED
      BY <3>1, Kinds, ReportParts, Zenon
  <2>3. n.mask = "NORMAL" /\ n.keys = d.normal /\ s.mask = "SYS" /\ m.mask = "MEDIA"
    OBVIOUS
  <2>4. d = NoKeys => n.keys = {} /\ s.keys = {} /\ m.keys = {}
    BY DEF NoKeys
  <2> HIDE DEF n, s, m
  <2>5. /\ todo' \in Seq(Report) /\ Len(todo') = 3
        /\ todo'[1] = n /\ todo'[2] = s /\ todo'[3] = m
    BY <2>1, <2>2
  <2>6. last_data' \in Event
    BY <1>1, <2>1 DEF RestOK
  <2>7. RestOK'
    BY <1>1, <1>2, <1>5, <2>5, <2>6, BoundAssumption DEF RestOK
  <2>8. TodoOK'
    BY <2>3, <2>5 DEF TodoOK
  <2>9. d = NoKeys => \A i \in 1..Len(todo') : todo'[i].keys = {}
    <3> SUFFICES ASSUME d = NoKeys, NEW i \in 1..3 PROVE todo'[i].keys = {}
      BY <2>5
    <3>1. i = 1 \/ i = 2 \/ i = 3
      OBVIOUS
    <3> QED
      BY <3>1, <2>4, <2>5
  <2>10. FollowOK'
    <3>1. usbkb_not_released' \subseteq Pending(Len(todo'))
      BY <1>1, <1>2, <1>8, <2>5 DEF RestOK
    <3>2. d # NoKeys => current' = last_data'.normal
      BY <1>2, <2>1
    <3> QED
      BY <1>2, <1>3, <1>6, <1>7, <2>3, <2>5, <2>9, <3>1, <3>2 DEF FollowOK
  <2> QED
    BY <1>3, <1>4, <2>7, <2>8, <2>10, InvNext, Zenon
<1> QED
  BY <1>9, <1>10

(* A consumer key.                                                         *)
LEMMA ConsumerInv ==
  ASSUME Inv, NEW k \in SUBSET MediaKey, usbkb_report_consumer_key(k) PROVE Inv'
<1>1. /\ RestOK /\ RingOK /\ SentOK
      /\ ~reset => Agree(ep, edp_toggle, epToggle, hostToggle)
      /\ reset => \A e \in Edp : hostToggle[e] = 0
  BY InvParts, Zenon
<1> DEFINE r == [mask |-> "MEDIA", keys |-> k]
<1>2. /\ events < MaxEvent /\ events' = events + 1 /\ todo' = <<r>> /\ clean' = FALSE
      /\ UNCHANGED <<sent, fifo>>
      /\ UNCHANGED <<usbkb_not_released, last_data, host, hostToggle, reset, current, taken, resets>>
  BY Zenon DEF usbkb_report_consumer_key, MayReport, theHost
<1>3. /\ RingOK' /\ SentOK' /\ ep' = ep /\ edp_toggle' = edp_toggle /\ epToggle' = epToggle
  BY <1>1, <1>2, Untouched, Zenon
<1>4. /\ ~reset' => Agree(ep', edp_toggle', epToggle', hostToggle')
      /\ reset' => \A e \in Edp : hostToggle'[e] = 0
  BY <1>1, <1>2, <1>3, Zenon
<1>5. r \in Report /\ r.mask = "MEDIA"
  BY Kinds, ReportParts
<1> HIDE DEF r
<1>6. todo' \in Seq(Report) /\ Len(todo') = 1 /\ todo'[1] = r
  BY <1>2, <1>5
<1>7. RestOK'
  <2>1. clean' \in BOOLEAN
    BY <1>2
  <2>2. events' \in 0..MaxEvent
    BY <1>1, <1>2, BoundAssumption DEF RestOK
  <2> QED
    BY <2>1, <2>2, <1>1, <1>2, <1>6, Zenon DEF RestOK
<1>8. TodoOK' /\ FollowOK'
  BY <1>2, <1>5, <1>6 DEF TodoOK, FollowOK
<1> QED
  BY <1>3, <1>4, <1>7, <1>8, InvNext, Zenon

(* The main loop: a bus reset is handled and the FIFO moves on.            *)
LEMMA IrqInv == ASSUME Inv, NEW suspended \in BOOLEAN, usb_handle_irq(suspended) PROVE Inv'
<1> DEFINE held == IF reset THEN [e \in Edp |-> Free] ELSE ep
           r    == usb_fifo[usb_ff_rptr % 4]
<1>1. /\ RestOK /\ RingOK /\ SentOK /\ TodoOK /\ FollowOK
      /\ ~reset => Agree(ep, edp_toggle, epToggle, hostToggle)
      /\ reset => \A e \in Edp : hostToggle[e] = 0
  BY InvParts, Zenon
<1>2. /\ reset' = FALSE
      /\ UNCHANGED <<usbkb_not_released, last_data, todo, host, hostToggle, current, clean, events, resets>>
  BY Zenon DEF usb_handle_irq, theHost
<1>3. /\ held \in [Edp -> Item] /\ ToggleAfter \in [Edp -> 0..1] /\ epToggle \in [Edp -> 0..1]
      /\ Alternate(held, ToggleAfter, epToggle)
      /\ Agree(held, ToggleAfter, epToggle, hostToggle)
  <2>1. CASE reset
    <3>1. held = [e \in Edp |-> Free] /\ ToggleAfter = [e \in Edp |-> 0]
      BY <2>1 DEF ToggleAfter
    <3> QED
      BY <3>1, <2>1, <1>1 DEF Agree, Alternate, SentOK, Item
  <2>2. CASE ~reset
    <3>1. held = ep /\ ToggleAfter = edp_toggle
      BY <2>2 DEF ToggleAfter
    <3> QED
      BY <3>1, <2>2, <1>1 DEF SentOK
  <2> QED
    BY <2>1, <2>2
<1>4. clean => held = ep /\ ~reset /\ usb_ff_wptr = usb_ff_rptr
  BY <1>1 DEF FollowOK
<1> HIDE DEF held
<1>5. CASE suspended \/ FifoEmpty \/ held[EdpOf(r.mask)] # Free
  <2>1. /\ ep' = held /\ edp_toggle' = ToggleAfter /\ epToggle' = epToggle
        /\ taken' = taken /\ UNCHANGED fifo
    BY <1>5, Zenon DEF usb_handle_irq, FifoProc, held
  <2>2. /\ usb_fifo' = usb_fifo /\ usb_ff_wptr' = usb_ff_wptr /\ usb_ff_rptr' = usb_ff_rptr
    BY <2>1 DEF fifo
  <2>3. RingOK'
    <3>1. Ring' = Ring
      BY <2>2 DEF Ring
    <3> QED
      BY <3>1, <2>2, <1>1 DEF RingOK
  <2>4. SentOK' /\ Agree(ep', edp_toggle', epToggle', hostToggle')
    BY <1>2, <1>3, <2>1 DEF SentOK
  <2>5. RestOK'
    BY <1>1, <1>2, <2>1 DEF RestOK
  <2>6. TodoOK'
    BY <1>1, <1>2 DEF TodoOK
  <2>7. FollowOK'
    <3> SUFFICES ASSUME clean' PROVE FollowOK'
      BY DEF FollowOK
    <3>1. clean /\ ep' = ep
      BY <1>2, <1>4, <2>1
    <3>2. Told' = Told
      BY <3>1, <1>2 DEF Told
    <3> QED
      BY <3>1, <3>2, <2>2, <1>1, <1>2 DEF FollowOK
  <2> QED
    BY <1>2, <2>3, <2>4, <2>5, <2>6, <2>7, InvNext, Zenon
<1>6. CASE ~(suspended \/ FifoEmpty \/ held[EdpOf(r.mask)] # Free)
  <2>1. /\ WriteEdp(r, held, ToggleAfter) /\ usb_ff_rptr' = (usb_ff_rptr + 1) % 8
        /\ taken' = r /\ usb_fifo' = usb_fifo /\ usb_ff_wptr' = usb_ff_wptr
    BY <1>6, Zenon DEF usb_handle_irq, FifoProc, held
  <2>2. usb_ff_wptr # usb_ff_rptr /\ held[EdpOf(r.mask)] = Free
    BY <1>6 DEF FifoEmpty
  <2>3. RingOK' /\ r \in Report
    BY <2>1, <2>2, <1>1, DequeueRing
  <2> HIDE DEF r
  <2>4. /\ ep' \in [Edp -> Item] /\ edp_toggle' \in [Edp -> 0..1] /\ epToggle' \in [Edp -> 0..1]
        /\ Alternate(ep', edp_toggle', epToggle')
        /\ \A expected : Agree(held, ToggleAfter, epToggle, expected)
                            => Agree(ep', edp_toggle', epToggle', expected)
    BY <2>1, <2>2, <2>3, <1>3, WriteStep
  <2>5. SentOK' /\ Agree(ep', edp_toggle', epToggle', hostToggle')
    <3>1. Agree(ep', edp_toggle', epToggle', hostToggle)
      BY <2>4, <1>3, Zenon
    <3> QED
      BY <3>1, <2>4, <1>2, Zenon DEF SentOK
  <2>6. r \in Item
    BY <2>3 DEF Item
  <2>7. RestOK'
    BY <1>1, <1>2, <2>1, <2>6 DEF RestOK
  <2>8. TodoOK'
    BY <1>1, <1>2 DEF TodoOK
  <2>9. FollowOK'
    BY <1>2, <1>4, <2>2 DEF FollowOK
  <2> QED
    BY <1>2, <2>3, <2>5, <2>7, <2>8, <2>9, InvNext, Zenon
<1> QED
  BY <1>5, <1>6

(* The host fetches a report.                                              *)
LEMMA PollInv == ASSUME Inv, NEW e \in Edp, HostPoll(e) PROVE Inv'
<1>1. /\ RestOK /\ RingOK /\ SentOK /\ TodoOK /\ FollowOK
      /\ ~reset => Agree(ep, edp_toggle, epToggle, hostToggle)
  BY InvParts, Zenon
<1>2. /\ ~reset /\ ep[e] # Free /\ ep' = [ep EXCEPT ![e] = Free]
      /\ UNCHANGED <<epToggle, edp_toggle, fifo, usbkb_not_released, last_data, todo, reset,
                     current, clean, taken, events, resets>>
  BY Zenon DEF HostPoll
<1>3. /\ ep \in [Edp -> Item] /\ edp_toggle \in [Edp -> 0..1] /\ epToggle \in [Edp -> 0..1]
      /\ hostToggle \in [Edp -> 0..1]
      /\ host \in [Mask -> SUBSET (NormalKey \cup SysKey \cup MediaKey)]
  BY <1>1 DEF SentOK, RestOK
<1>4. epToggle[e] = hostToggle[e] /\ edp_toggle[e] = 1 - epToggle[e] /\ EdpOf(ep[e].mask) = e
  BY <1>1, <1>2, Zenon DEF Agree, SentOK, Alternate
<1>5. ep[e] \in Report
  BY <1>2, <1>3 DEF Item
<1>6. /\ host' = [host EXCEPT ![ep[e].mask] = ep[e].keys]
      /\ hostToggle' = [hostToggle EXCEPT ![e] = 1 - hostToggle[e]]
  BY <1>4 DEF HostPoll
<1>7. ep[e].mask \in Mask /\ ep[e].keys \subseteq NormalKey \cup SysKey \cup MediaKey
  BY <1>5, ReportParts, Kinds
<1>8. host' \in [Mask -> SUBSET (NormalKey \cup SysKey \cup MediaKey)]
      /\ host'[ep[e].mask] = ep[e].keys /\ \A x \in Mask \ {ep[e].mask} : host'[x] = host[x]
  BY <1>3, <1>6, <1>7
<1>9. /\ hostToggle' \in [Edp -> 0..1] /\ hostToggle'[e] = edp_toggle[e]
      /\ \A f \in Edp \ {e} : hostToggle'[f] = hostToggle[f]
  <2>1. 1 - hostToggle[e] \in 0..1
    BY <1>3
  <2> QED
    BY <2>1, <1>3, <1>4, <1>6
<1>10. ep' \in [Edp -> Item] /\ ep'[e] = Free /\ \A f \in Edp \ {e} : ep'[f] = ep[f]
  BY <1>2, <1>3 DEF Item
<1>11. SentOK'
  <2>1. Alternate(ep', edp_toggle', epToggle')
    BY <1>1, <1>2, <1>10, Zenon DEF Alternate, SentOK
  <2> QED
    BY <2>1, <1>2, <1>3, <1>10 DEF SentOK
<1>12. Agree(ep', edp_toggle', epToggle', hostToggle')
  <2> SUFFICES ASSUME NEW f \in Edp
               PROVE  hostToggle'[f] = IF ep'[f] = Free THEN edp_toggle'[f] ELSE epToggle'[f]
    BY Zenon DEF Agree
  <2>1. CASE f = e
    BY <2>1, <1>2, <1>9, <1>10, Zenon
  <2>2. CASE f # e
    BY <2>2, <1>1, <1>2, <1>9, <1>10, Zenon DEF Agree
  <2> QED
    BY <2>1, <2>2
<1>13. RingOK' /\ usb_ff_wptr' = usb_ff_wptr /\ usb_ff_rptr' = usb_ff_rptr
  <2>1. /\ usb_fifo' = usb_fifo /\ usb_ff_wptr' = usb_ff_wptr /\ usb_ff_rptr' = usb_ff_rptr
    BY <1>2 DEF fifo
  <2>2. Ring' = Ring
    BY <2>1 DEF Ring
  <2> QED
    BY <2>1, <2>2, <1>1 DEF RingOK
<1>14. RestOK' /\ TodoOK'
  BY <1>1, <1>2, <1>8, <1>9 DEF RestOK, TodoOK
<1>15. Told' = Told
  <2>1. CASE e = "KEYBOARD_IN"
    <3>1. ep[e].mask = "NORMAL"
      BY <2>1, <1>4, Kinds
    <3> QED
      BY <3>1, <2>1, <1>2, <1>8, <1>10 DEF Told
  <2>2. CASE e # "KEYBOARD_IN"
    <3>1. ep[e].mask # "NORMAL"
      BY <2>2, <1>4, Kinds
    <3>2. host'["NORMAL"] = host["NORMAL"]
      BY <3>1, <1>8, Kinds
    <3>3. ep'["KEYBOARD_IN"] = ep["KEYBOARD_IN"]
      BY <2>2, <1>10 DEF Edp
    <3> QED
      BY <3>2, <3>3 DEF Told
  <2> QED
    BY <2>1, <2>2
<1>16. FollowOK'
  BY <1>1, <1>2, <1>13, <1>15 DEF FollowOK
<1> QED
  BY <1>2, <1>11, <1>12, <1>13, <1>14, <1>16, InvNext, Zenon

(* The host resets the bus.                                                *)
LEMMA ResetInv == ASSUME Inv, HostReset PROVE Inv'
<1>1. RestOK /\ RingOK /\ SentOK /\ TodoOK
  BY InvParts, Zenon
<1>2. /\ resets < MaxReset /\ resets' = resets + 1 /\ reset' = TRUE /\ clean' = FALSE
      /\ host' = [mask \in Mask |-> {}] /\ hostToggle' = [e \in Edp |-> 0]
      /\ UNCHANGED <<sent, fifo>>
      /\ UNCHANGED <<usbkb_not_released, last_data, todo, current, taken, events>>
  BY Zenon DEF HostReset
<1>3. RingOK' /\ SentOK'
  BY <1>1, <1>2, Untouched, Zenon
<1>4. RestOK'
  <2>1. reset' \in BOOLEAN /\ clean' \in BOOLEAN
    BY <1>2
  <2>2. /\ host' \in [Mask -> SUBSET (NormalKey \cup SysKey \cup MediaKey)]
        /\ hostToggle' \in [Edp -> 0..1]
    BY <1>2
  <2>3. resets' \in 0..MaxReset
    BY <1>1, <1>2, BoundAssumption DEF RestOK
  <2> QED
    BY <2>1, <2>2, <2>3, <1>1, <1>2, Zenon DEF RestOK
<1>5. TodoOK' /\ FollowOK'
  BY <1>1, <1>2 DEF TodoOK, FollowOK
<1>6. \A e \in Edp : hostToggle'[e] = 0
  BY <1>2
<1> QED
  BY <1>2, <1>3, <1>4, <1>5, <1>6, InvNext, Zenon

-----------------------------------------------------------------------------
(* The invariant holds throughout.                                         *)
LEMMA Invariant == Spec => []Inv
<1>1. Init => Inv
  BY InitInv
<1>2. Inv /\ [Next]_vars => Inv'
  <2> SUFFICES ASSUME Inv, [Next]_vars PROVE Inv'
    OBVIOUS
  <2>1. CASE NextReport
    BY <2>1, NextReportInv
  <2>2. ASSUME NEW d \in Event, usbkb_hid_report(d) PROVE Inv'
    BY <2>2, EventInv
  <2>3. ASSUME NEW k \in SUBSET MediaKey, usbkb_report_consumer_key(k) PROVE Inv'
    BY <2>3, ConsumerInv
  <2>4. ASSUME NEW suspended \in BOOLEAN, usb_handle_irq(suspended) PROVE Inv'
    BY <2>4, IrqInv
  <2>5. ASSUME NEW e \in Edp, HostPoll(e) PROVE Inv'
    BY <2>5, PollInv
  <2>6. CASE HostReset
    BY <2>6, ResetInv
  <2>7. CASE UNCHANGED vars
    <3>1. Ring' = Ring
      BY <2>7 DEF vars, Ring
    <3>2. RingOK' /\ TodoOK' /\ FollowOK' /\ ToggleOK'
      BY <3>1, <2>7 DEF vars, Inv, RingOK, TodoOK, FollowOK, Told, ToggleOK
    <3>3. TypeOK'
      BY <2>7 DEF vars, Inv, TypeOK
    <3> QED
      BY <3>2, <3>3 DEF Inv
  <2> QED
    BY <2>1, <2>2, <2>3, <2>4, <2>5, <2>6, <2>7 DEF Next
<1> QED
  BY <1>1, <1>2, PTL DEF Spec

(* The host never drops a report of usbkb_hid_report_normal or             *)
(* usbkb_report_consumer_key as a repetition, however often the bus is     *)
(* reset and in whatever order reports are written and fetched.            *)
THEOREM TogglesAgree == Spec => []ToggleAgrees
<1>1. Inv => ToggleAgrees
  BY Zenon DEF Inv, ToggleOK, Agree, ToggleAgrees
<1> QED
  BY <1>1, Invariant, PTL

(* As long as nothing was queued, reset or reported on the side, the host  *)
(* ends with the normal keys of the last event given to usbkb_hid_report,  *)
(* the events it suppresses as repetitions included.                       *)
THEOREM HostHasLastEvent == Spec => []HostFollows
<1>1. Inv => HostFollows
  <2> SUFFICES ASSUME Inv, clean, todo = <<>>, ep["KEYBOARD_IN"] = Free
               PROVE  host["NORMAL"] = current
    BY DEF HostFollows
  <2>1. Told = current
    BY DEF Inv, FollowOK
  <2> QED
    BY <2>1 DEF Told
<1> QED
  BY <1>1, Invariant, PTL

(* usb_fifo with usb_ff_wptr and usb_ff_rptr (usbkb_hid_report_normal and  *)
(* usb_hid_report_fifo_proc) is a FIFO that drops its oldest report.       *)
THEOREM ReportsImplementFifo == Spec => ReportFifo
<1>1. Init => Fifo!Init
  <2> SUFFICES ASSUME Init PROVE Fifo!Init
    OBVIOUS
  <2>1. Ring = <<>> /\ taken = Free
    BY DEF Init, Ring
  <2> QED
    BY <2>1 DEF Fifo!Init
<1>2. Inv /\ [Next]_vars => [Fifo!Next]_<<Ring, taken>>
  <2> SUFFICES ASSUME Inv, [Next]_vars PROVE Fifo!Next \/ UNCHANGED <<Ring, taken>>
    OBVIOUS
  <2>0. RestOK /\ RingOK /\ SentOK /\ TodoOK
    BY InvParts, Zenon
  <2>1. CASE NextReport
    <3> DEFINE r == Head(todo)
    <3>1. todo # <<>> /\ ReportKeys(r) /\ taken' = taken
      BY <2>1, Zenon DEF NextReport
    <3>2. r \in Report /\ usbkb_not_released \subseteq Mask
      BY <3>1, <2>0 DEF RestOK
    <3> HIDE DEF r
    <3>3. Ring' = With(Ring, r) \/ UNCHANGED fifo
      BY <3>1, <3>2, <2>0, ReportStep
    <3>4. CASE Ring' = With(Ring, r)
      <4>1. Fifo!Put(r)
        BY <3>1, <3>4, Zenon DEF Fifo!Put, Fifo!With, With
      <4> QED
        BY <4>1, <3>2, Zenon DEF Fifo!Next
    <3>5. CASE UNCHANGED fifo
      BY <3>1, <3>5 DEF fifo, Ring
    <3> QED
      BY <3>3, <3>4, <3>5
  <2>2. ASSUME NEW d \in Event, usbkb_hid_report(d) PROVE UNCHANGED <<Ring, taken>>
    BY <2>2 DEF usbkb_hid_report, fifo, Ring
  <2>3. ASSUME NEW k \in SUBSET MediaKey, usbkb_report_consumer_key(k)
        PROVE  UNCHANGED <<Ring, taken>>
    BY <2>3 DEF usbkb_report_consumer_key, fifo, Ring
  <2>4. ASSUME NEW suspended \in BOOLEAN, usb_handle_irq(suspended)
        PROVE  Fifo!Next \/ UNCHANGED <<Ring, taken>>
    <3> DEFINE held == IF reset THEN [e \in Edp |-> Free] ELSE ep
               r    == usb_fifo[usb_ff_rptr % 4]
    <3>1. CASE suspended \/ FifoEmpty \/ held[EdpOf(r.mask)] # Free
      <4>1. taken' = taken /\ UNCHANGED fifo
        BY <3>1, <2>4, Zenon DEF usb_handle_irq, FifoProc
      <4> QED
        BY <4>1 DEF fifo, Ring
    <3>2. CASE ~(suspended \/ FifoEmpty \/ held[EdpOf(r.mask)] # Free)
      <4>1. /\ usb_ff_rptr' = (usb_ff_rptr + 1) % 8
            /\ taken' = r /\ usb_fifo' = usb_fifo /\ usb_ff_wptr' = usb_ff_wptr
        BY <3>2, <2>4, Zenon DEF usb_handle_irq, FifoProc
      <4>2. usb_ff_wptr # usb_ff_rptr
        BY <3>2 DEF FifoEmpty
      <4>3. Ring # <<>> /\ Ring' = Tail(Ring) /\ r = Head(Ring)
        BY <4>1, <4>2, <2>0, DequeueRing
      <4>4. Fifo!Take
        BY <4>1, <4>3, Zenon DEF Fifo!Take
      <4> QED
        BY <4>4, Zenon DEF Fifo!Next
    <3> QED
      BY <3>1, <3>2
  <2>5. ASSUME NEW e \in Edp, HostPoll(e) PROVE UNCHANGED <<Ring, taken>>
    BY <2>5 DEF HostPoll, fifo, Ring
  <2>6. CASE HostReset
    BY <2>6 DEF HostReset, fifo, Ring
  <2>7. CASE UNCHANGED vars
    BY <2>7 DEF vars, Ring
  <2> QED
    BY <2>1, <2>2, <2>3, <2>4, <2>5, <2>6, <2>7 DEF Next
<1> QED
  BY <1>1, <1>2, Invariant, PTL DEF Spec, ReportFifo, Fifo!Spec
=============================================================================
