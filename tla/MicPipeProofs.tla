--------------------------- MODULE MicPipeProofs ---------------------------
(***************************************************************************)
(* Proofs about MicPipe, for every size of the sample buffer and of the    *)
(* packet ring and any number of passes.                                   *)
(***************************************************************************)
EXTENDS MicPipe, RingLemmas, SequenceTheorems

-----------------------------------------------------------------------------
(* A packet is before another one in the sound *)
Earlier(p, r) ==
  p.chunks[1] < r.chunks[1] \/ (p.chunks[1] = r.chunks[1] /\ p.half < r.half)

(* A packet of one pass of this session, or of an earlier session *)
Whole(p, f) ==
  \/ \A k \in 1..Half : p.chunks[k] >= f /\ p.chunks[k] = p.chunks[1]
  \/ p.half = Half /\ \A k \in 1..Half : p.chunks[k] < f

(* The sound of half h that was recorded in pass v lies behind: the        *)
(* hardware, now in pass p at place w, has left the half since it began.   *)
Past(h, v, p, w) ==
  /\ h = Half => v < p
  /\ h = 0 => v <= p /\ (v = p => w >= Half)

(* The FIFO that LossyFifo makes of s when v is put in *)
With(s, v) == IF Len(s) < N THEN Append(s, v) ELSE Append(Tail(s), v)

AllWhole(s, f) == \A i \in 1..Len(s) : Whole(s[i], f)
Ordered(s)     == \A i \in 1..Len(s) - 1 : Earlier(s[i], s[i + 1])
Last(s)        == s[Len(s)]

(* Taking the oldest packet out of a sequence keeps what it says.          *)
LEMMA TailKeeps ==
  ASSUME NEW s \in Seq(Packet), s # <<>>, NEW f, AllWhole(s, f), Ordered(s)
  PROVE  /\ Tail(s) \in Seq(Packet) /\ AllWhole(Tail(s), f) /\ Ordered(Tail(s))
         /\ Head(s) \in Packet /\ Len(Tail(s)) = Len(s) - 1
         /\ Tail(s) # <<>> => Last(Tail(s)) = Last(s)
<1> DEFINE t == Tail(s)
<1>1. /\ t \in Seq(Packet) /\ Len(t) = Len(s) - 1 /\ Len(s) \in Nat \ {0}
      /\ \A i \in 1..Len(t) : t[i] = s[i + 1]
      /\ Head(s) \in Packet
  OBVIOUS
<1>2. t = Tail(s)
  OBVIOUS
<1> HIDE DEF t
<1>3. t # <<>> => Len(t) # 0
  BY <1>1
<1>4. AllWhole(t, f)
  <2> SUFFICES ASSUME NEW i \in 1..Len(t) PROVE Whole(t[i], f)
    BY Zenon DEF AllWhole
  <2>1. i + 1 \in 1..Len(s)
    BY <1>1
  <2> QED
    BY <2>1, <1>1, Zenon DEF AllWhole
<1>5. Ordered(t)
  <2> SUFFICES ASSUME NEW i \in 1..Len(t) - 1 PROVE Earlier(t[i], t[i + 1])
    BY Zenon DEF Ordered
  <2>1. i + 1 \in 1..Len(s) - 1 /\ i \in 1..Len(t) /\ i + 1 \in 1..Len(t)
    BY <1>1
  <2>2. t[i] = s[i + 1] /\ t[i + 1] = s[(i + 1) + 1]
    BY <2>1, <1>1, Zenon
  <2> QED
    BY <2>1, <2>2, Zenon DEF Ordered
<1>6. t # <<>> => Last(t) = Last(s)
  <2> SUFFICES ASSUME t # <<>> PROVE t[Len(t)] = s[Len(s)]
    BY Zenon DEF Last
  <2>1. Len(t) \in 1..Len(t) /\ Len(t) + 1 = Len(s)
    BY <1>1, <1>3
  <2> QED
    BY <2>1, <1>1, Zenon
<1> QED
  BY <1>1, <1>2, <1>4, <1>5, <1>6, Zenon

(* Putting a later packet behind a sequence keeps what it says.            *)
LEMMA AppendKeeps ==
  ASSUME NEW s \in Seq(Packet), NEW f, AllWhole(s, f), Ordered(s),
         NEW p \in Packet, Whole(p, f), s # <<>> => Earlier(Last(s), p)
  PROVE  /\ Append(s, p) \in Seq(Packet) /\ AllWhole(Append(s, p), f) /\ Ordered(Append(s, p))
         /\ Append(s, p) # <<>> /\ Last(Append(s, p)) = p
<1> DEFINE t == Append(s, p)
<1>1. /\ t \in Seq(Packet) /\ Len(t) = Len(s) + 1 /\ Len(s) \in Nat
      /\ \A i \in 1..Len(s) : t[i] = s[i]
      /\ t[Len(s) + 1] = p /\ t # <<>>
  OBVIOUS
<1>2. t = Append(s, p)
  OBVIOUS
<1> HIDE DEF t
<1>3. s = <<>> <=> Len(s) = 0
  BY <1>1
<1>4. AllWhole(t, f)
  <2> SUFFICES ASSUME NEW i \in 1..Len(t) PROVE Whole(t[i], f)
    BY Zenon DEF AllWhole
  <2>1. i \in 1..Len(s) \/ i = Len(s) + 1
    BY <1>1
  <2> QED
    BY <2>1, <1>1, Zenon DEF AllWhole
<1>5. Ordered(t)
  <2> SUFFICES ASSUME NEW i \in 1..Len(t) - 1 PROVE Earlier(t[i], t[i + 1])
    BY Zenon DEF Ordered
  <2>1. CASE i = Len(s)
    <3>1. i \in 1..Len(s) /\ s # <<>>
      BY <2>1, <1>1, <1>3
    <3>2. t[i] = Last(s) /\ t[i + 1] = p
      BY <3>1, <2>1, <1>1, Zenon DEF Last
    <3> QED
      BY <3>1, <3>2, Zenon
  <2>2. CASE i # Len(s)
    <3>1. i \in 1..Len(s) - 1 /\ i \in 1..Len(s) /\ i + 1 \in 1..Len(s)
      BY <2>2, <1>1
    <3> QED
      BY <3>1, <1>1, Zenon DEF Ordered
  <2> QED
    BY <2>1, <2>2
<1>6. Last(t) = p
  BY <1>1, Zenon DEF Last
<1> QED
  BY <1>1, <1>2, <1>4, <1>5, <1>6, Zenon

(* The same when the ring is full and its oldest packet goes.              *)
LEMMA WithKeeps ==
  ASSUME NEW s \in Seq(Packet), NEW f, AllWhole(s, f), Ordered(s),
         NEW p \in Packet, Whole(p, f), s # <<>> => Earlier(Last(s), p)
  PROVE  /\ With(s, p) \in Seq(Packet) /\ AllWhole(With(s, p), f) /\ Ordered(With(s, p))
         /\ With(s, p) # <<>> /\ Last(With(s, p)) = p
<1>1. CASE Len(s) < N
  BY <1>1, AppendKeeps, Zenon DEF With
<1>2. CASE ~(Len(s) < N)
  <2> DEFINE t == Tail(s)
  <2>1. s # <<>>
    BY <1>2, RingAssumption DEF N
  <2>2. t \in Seq(Packet) /\ AllWhole(t, f) /\ Ordered(t) /\ (t # <<>> => Last(t) = Last(s))
    BY <2>1, TailKeeps, Zenon
  <2>3. With(s, p) = Append(t, p)
    BY <1>2, Zenon DEF With
  <2>4. t # <<>> => Earlier(Last(t), p)
    BY <2>1, <2>2, Zenon
  <2> HIDE DEF t
  <2>5. /\ Append(t, p) \in Seq(Packet) /\ AllWhole(Append(t, p), f) /\ Ordered(Append(t, p))
        /\ Append(t, p) # <<>> /\ Last(Append(t, p)) = p
    BY <2>2, <2>4, AppendKeeps, Zenon
  <2> QED
    BY <2>3, <2>5, Zenon
<1> QED
  BY <1>1, <1>2

-----------------------------------------------------------------------------
(* The ring of packets, as a ring of RingLemmas that is never overrun.     *)
RingOK ==
  /\ buffer_mic_enc \in Buf(N, Packet)
  /\ buffer_mic_pkt_wptr \in Ptr(N) /\ buffer_mic_pkt_rptr \in Ptr(N)
  /\ Used(N, buffer_mic_pkt_rptr, buffer_mic_pkt_wptr) <= N

(* The ring has at least two slots.                                        *)
LEMMA NSlots == N \in Size /\ N > 1
  BY RingAssumption DEF N, Size

(* Ring is the sequence between the two pointers,                          *)
LEMMA RingIs == Ring = RingOf(buffer_mic_enc, N, buffer_mic_pkt_rptr, buffer_mic_pkt_wptr)
  BY Zenon DEF Ring, RingOf, Used

(* in the next state too.                                                  *)
LEMMA RingIsNext ==
  Ring' = RingOf(buffer_mic_enc', N, buffer_mic_pkt_rptr', buffer_mic_pkt_wptr')
  BY Zenon DEF Ring, RingOf, Used

(* It is a sequence of packets.                                            *)
LEMMA RingSeq == ASSUME RingOK PROVE Ring \in Seq(Packet) /\ Len(Ring) <= N
<1>1. /\ buffer_mic_enc \in Buf(N, Packet)
      /\ buffer_mic_pkt_wptr \in Ptr(N) /\ buffer_mic_pkt_rptr \in Ptr(N)
      /\ Used(N, buffer_mic_pkt_rptr, buffer_mic_pkt_wptr) <= N
  BY DEF RingOK
<1>2. /\ RingOf(buffer_mic_enc, N, buffer_mic_pkt_rptr, buffer_mic_pkt_wptr) \in Seq(Packet)
      /\ Len(RingOf(buffer_mic_enc, N, buffer_mic_pkt_rptr, buffer_mic_pkt_wptr))
           = Used(N, buffer_mic_pkt_rptr, buffer_mic_pkt_wptr)
  BY <1>1, NSlots, RingLen, Zenon
<1> QED
  BY <1>1, <1>2, RingIs, Zenon

(* The encoder puts a packet in.                                           *)
LEMMA PutPacket ==
  ASSUME RingOK, NEW p \in Packet,
         buffer_mic_enc' = [buffer_mic_enc EXCEPT ![buffer_mic_pkt_wptr % N] = p],
         buffer_mic_pkt_wptr' = (buffer_mic_pkt_wptr + 1) % (2 * N),
         buffer_mic_pkt_rptr' = RptrAfter(buffer_mic_pkt_wptr')
  PROVE  RingOK' /\ Ring' = With(Ring, p)
<1> DEFINE w  == buffer_mic_pkt_wptr
           r  == buffer_mic_pkt_rptr
           b  == buffer_mic_enc
           w1 == Step(N, w)
           r1 == Step(N, r)
           u  == Used(N, r, w)
           u1 == Used(N, r, w1)
<1>0. b \in Buf(N, Packet) /\ w \in Ptr(N) /\ r \in Ptr(N) /\ u <= N
  BY DEF RingOK
<1>1. /\ buffer_mic_pkt_wptr' = w1 /\ buffer_mic_enc' = [b EXCEPT ![w % N] = p]
      /\ buffer_mic_pkt_rptr' = IF u1 > N THEN r1 ELSE r
  BY Zenon DEF RptrAfter, Step, Used
<1>2. /\ w1 \in Ptr(N) /\ r1 \in Ptr(N)
  BY <1>0, NSlots, ModStep, Zenon
<1>3. RingOf(b, N, r, w) \in Seq(Packet) /\ Len(RingOf(b, N, r, w)) = u
  BY <1>0, NSlots, RingLen, Zenon
<1>4. Ring = RingOf(b, N, r, w)
      /\ Ring' = RingOf(buffer_mic_enc', N, buffer_mic_pkt_rptr', buffer_mic_pkt_wptr')
  BY RingIs, RingIsNext, Zenon
<1>5. u \in Nat
  <2>1. u \in Ptr(N)
    BY <1>0, NSlots, ModUsed, Zenon
  <2> QED
    BY <2>1 DEF Ptr
<1>9. N \in Nat
  BY NSlots DEF Size
<1> HIDE DEF w, r, b, w1, r1, u, u1
<1>10. CASE u < N
  <2>1. /\ RingOf([b EXCEPT ![w % N] = p], N, r, w1) = Append(RingOf(b, N, r, w), p)
        /\ u1 = u + 1
        /\ [b EXCEPT ![w % N] = p] \in Buf(N, Packet)
    BY <1>0, <1>10, NSlots, RingPut, Zenon DEF u, w1, u1
  <2>2. u1 <= N /\ ~(u1 > N)
    BY <2>1, <1>5, <1>9, <1>10
  <2>3. buffer_mic_pkt_rptr' = r
    BY <1>1, <2>2, Zenon
  <2>4. With(Ring, p) = Append(RingOf(b, N, r, w), p)
    BY <1>3, <1>4, <1>10, Zenon DEF With
  <2>5. Ring' = With(Ring, p)
    BY <2>1, <2>3, <2>4, <1>1, <1>4, Zenon
  <2>6. RingOK'
    BY <2>1, <2>2, <2>3, <1>0, <1>1, <1>2, Zenon DEF RingOK, u1
  <2> QED
    BY <2>5, <2>6
<1>11. CASE u = N
  <2>1. /\ RingOf([b EXCEPT ![w % N] = p], N, r1, w1) = Append(Tail(RingOf(b, N, r, w)), p)
        /\ Used(N, r1, w1) = N
        /\ [b EXCEPT ![w % N] = p] \in Buf(N, Packet)
    BY <1>0, <1>11, NSlots, RingPutFull, Zenon DEF u, w1, r1
  <2>2. u1 > N
    BY <1>0, <1>11, NSlots, UsedPastFull, Zenon DEF u, u1, w1
  <2>3. buffer_mic_pkt_rptr' = r1
    BY <1>1, <2>2, Zenon
  <2>4. ~(N < N) /\ N <= N
    BY <1>9
  <2>5. With(Ring, p) = Append(Tail(RingOf(b, N, r, w)), p)
    BY <2>4, <1>3, <1>4, <1>11, Zenon DEF With
  <2>6. Ring' = With(Ring, p)
    BY <2>1, <2>3, <2>5, <1>1, <1>4, Zenon
  <2>7. Used(N, r1, w1) <= N
    BY <2>1, <2>4, Zenon
  <2>8. RingOK'
    BY <2>1, <2>7, <2>3, <1>1, <1>2, Zenon DEF RingOK
  <2> QED
    BY <2>6, <2>8
<1>12. u < N \/ u = N
  BY <1>0, <1>5, <1>9
<1> QED
  BY <1>10, <1>11, <1>12

(* The stack takes a packet.                                               *)
LEMMA TakePacket ==
  ASSUME RingOK, buffer_mic_pkt_rptr # buffer_mic_pkt_wptr,
         buffer_mic_enc' = buffer_mic_enc, buffer_mic_pkt_wptr' = buffer_mic_pkt_wptr,
         buffer_mic_pkt_rptr' = (buffer_mic_pkt_rptr + 1) % (2 * N)
  PROVE  /\ RingOK' /\ Ring # <<>> /\ Ring' = Tail(Ring)
         /\ buffer_mic_enc[buffer_mic_pkt_rptr % N] = Head(Ring)
<1> DEFINE w  == buffer_mic_pkt_wptr
           r  == buffer_mic_pkt_rptr
           b  == buffer_mic_enc
           r1 == Step(N, r)
<1>0. b \in Buf(N, Packet) /\ w \in Ptr(N) /\ r \in Ptr(N) /\ Used(N, r, w) <= N /\ r # w
  BY DEF RingOK
<1>1. buffer_mic_pkt_rptr' = r1
  BY Zenon DEF Step
<1>2. Ring = RingOf(b, N, r, w)
      /\ Ring' = RingOf(buffer_mic_enc', N, buffer_mic_pkt_rptr', buffer_mic_pkt_wptr')
  BY RingIs, RingIsNext, Zenon
<1>3. /\ RingOf(b, N, r, w) # <<>>
      /\ Head(RingOf(b, N, r, w)) = b[r % N]
      /\ RingOf(b, N, r1, w) = Tail(RingOf(b, N, r, w))
      /\ Used(N, r1, w) = Used(N, r, w) - 1
  BY <1>0, NSlots, RingTake, Zenon
<1>4. r1 \in Ptr(N) /\ Used(N, r, w) \in Ptr(N)
  BY <1>0, NSlots, ModStep, ModUsed, Zenon
<1>5. Used(N, r1, w) <= N
  BY <1>0, <1>3, <1>4, NSlots DEF Ptr, Size
<1>6. Ring # <<>> /\ Ring' = Tail(Ring) /\ b[r % N] = Head(Ring)
  BY <1>1, <1>2, <1>3, Zenon
<1> HIDE DEF r1
<1> QED
  BY <1>0, <1>1, <1>4, <1>5, <1>6, Zenon DEF RingOK
-----------------------------------------------------------------------------
(* The sample buffer: while the microphone is on, what lies before the     *)
(* hardware is of this pass and what lies behind it of the pass before,    *)
(* or of an earlier session.                                               *)
BufOK ==
  /\ first <= pass
  /\ \A i \in 0..2 * Half - 1 : buffer_mic[i] <= pass
  /\ ui_mic_enable =>
       /\ \A i \in 0..2 * Half - 1 : i < mic_wptr => buffer_mic[i] = pass
       /\ \A i \in 0..2 * Half - 1 : i >= mic_wptr =>
            IF pass > first THEN buffer_mic[i] = pass - 1 ELSE buffer_mic[i] < first

(* The packets: the last one is of the half that is not encoded next.      *)
PacketsOK ==
  /\ AllWhole(Ring, first) /\ Ordered(Ring)
  /\ ~ui_mic_enable => Ring = <<>> /\ pc = "idle"
  /\ Ring # <<>> => /\ Last(Ring) \in Encoding
                    /\ Last(Ring).half # buffer_mic_rptr
                    /\ Past(Last(Ring).half, Last(Ring).chunks[1], pass, mic_wptr)

(* The pass of the half that is being encoded *)
Cur == IF chunks = <<>> THEN buffer_mic[buffer_mic_rptr] ELSE chunks[1]

(* The hardware is not in the half, or behind the encoder.                 *)
Behind ==
  mic_wptr >= buffer_mic_rptr /\ mic_wptr < buffer_mic_rptr + Half =>
    IF caughtUp THEN mic_wptr - buffer_mic_rptr < Len(chunks)
                ELSE mic_wptr - buffer_mic_rptr <= Len(chunks)

(* What was encoded of the half and what is left of it are of one pass of  *)
(* this session, or all of earlier ones.                                   *)
OnePass ==
  \/ /\ Cur >= first
     /\ \A k \in 1..Len(chunks) : chunks[k] = Cur
     /\ \A i \in 0..2 * Half - 1 :
          i >= buffer_mic_rptr + Len(chunks) /\ i < buffer_mic_rptr + Half
            => buffer_mic[i] = Cur
  \/ /\ buffer_mic_rptr = Half
     /\ \A k \in 1..Len(chunks) : chunks[k] < first
     /\ \A i \in 0..2 * Half - 1 :
          i >= buffer_mic_rptr + Len(chunks) /\ i < buffer_mic_rptr + Half
            => buffer_mic[i] < first

(* The half being encoded comes after the last packet *)
Later ==
  LET p == Last(Ring) IN
    Ring # <<>> => p.chunks[1] < Cur \/ (p.chunks[1] = Cur /\ p.half < buffer_mic_rptr)

EncOK == pc = "encode" => Behind /\ OnePass /\ Past(buffer_mic_rptr, Cur, pass, mic_wptr) /\ Later

Inv == TypeOK /\ RingOK /\ BufOK /\ PacketsOK /\ EncOK
-----------------------------------------------------------------------------
(* A step that leaves the ring alone.                                      *)
LEMMA RingSame ==
  ASSUME RingOK, UNCHANGED ring
  PROVE  RingOK' /\ Ring' = Ring
  BY Zenon DEF RingOK, Ring, ring

(* The place of the hardware without division.                             *)
LEMMA NextPlace ==
  ASSUME NEW w \in 0..2 * Half - 1
  PROVE  /\ (w + 1) % (2 * Half) = IF w = 2 * Half - 1 THEN 0 ELSE w + 1
         /\ (w + 1) % (2 * Half) \in 0..2 * Half - 1
<1>1. Half \in Size /\ w \in Ptr(Half)
  BY HalfAssumption DEF Size, Ptr
<1>2. Step(Half, w) = (IF w = 2 * Half - 1 THEN 0 ELSE w + 1) /\ Step(Half, w) \in Ptr(Half)
  BY <1>1, ModStep, Zenon
<1> QED
  BY <1>2, Zenon DEF Step, Ptr

(* What lies behind the hardware stays behind it.                          *)
LEMMA PastKept ==
  ASSUME NEW w \in 0..2 * Half - 1, NEW p \in 0..MaxPass, NEW h \in {0, Half},
         NEW v \in 0..MaxPass, Past(h, v, p, w), NEW w1, NEW p1,
         w1 = (IF w = 2 * Half - 1 THEN 0 ELSE w + 1),
         p1 = (IF w1 = 0 THEN p + 1 ELSE p)
  PROVE  Past(h, v, p1, w1)
  BY HalfAssumption, PassAssumption DEF Past

(* The first chunk of the last packet.                                     *)
LEMMA OfLast ==
  ASSUME NEW p \in Encoding
  PROVE  p.half \in {0, Half} /\ p.chunks[1] \in 0..MaxPass
<1>1. p.half \in {0, Half} /\ p.chunks \in [1..Half -> 0..MaxPass] /\ 1 \in 1..Half
  BY HalfAssumption DEF Encoding
<1> QED
  BY <1>1

(* The hardware records.                                                   *)
LEMMA RecordStep == ASSUME Inv, Record PROVE Inv'
<1>0. TypeOK /\ RingOK /\ BufOK /\ PacketsOK /\ EncOK
  BY DEF Inv
<1>1. /\ ui_mic_enable /\ (pc = "encode" => caughtUp)
      /\ buffer_mic' = [buffer_mic EXCEPT ![mic_wptr] = pass]
      /\ pass' = (IF mic_wptr' = 0 THEN pass + 1 ELSE pass) /\ pass' <= MaxPass
      /\ caughtUp' = FALSE
      /\ ui_mic_enable' = ui_mic_enable /\ first' = first
      /\ buffer_mic_rptr' = buffer_mic_rptr /\ pc' = pc /\ chunks' = chunks
      /\ ring' = ring /\ taken' = taken
      /\ mic_wptr' = (mic_wptr + 1) % (2 * Half)
  BY DEF Record
<1>2. /\ mic_wptr \in 0..2 * Half - 1 /\ buffer_mic \in [0..2 * Half - 1 -> 0..MaxPass]
      /\ pass \in 0..MaxPass /\ first \in 0..MaxPass /\ buffer_mic_rptr \in {0, Half}
      /\ Half \in Nat \ {0} /\ MaxPass \in Nat
      /\ chunks \in Seq(0..MaxPass) /\ Len(chunks) <= Half
  BY <1>0, HalfAssumption, PassAssumption DEF TypeOK
<1>3. /\ mic_wptr' = IF mic_wptr = 2 * Half - 1 THEN 0 ELSE mic_wptr + 1
      /\ mic_wptr' \in 0..2 * Half - 1
  BY <1>1, <1>2, NextPlace, Zenon
<1>4. /\ buffer_mic' \in [0..2 * Half - 1 -> 0..MaxPass]
      /\ \A i \in 0..2 * Half - 1 : buffer_mic'[i] = IF i = mic_wptr THEN pass ELSE buffer_mic[i]
  BY <1>1, <1>2
<1>5. pass' \in 0..MaxPass
  BY <1>1, <1>2
<1>6. RingOK' /\ Ring' = Ring
  BY <1>0, <1>1, RingSame
<1>7. TypeOK'
  <2>1. /\ buffer_mic_enc' \in [0..N - 1 -> Packet]
        /\ buffer_mic_pkt_wptr' \in 0..2 * N - 1 /\ buffer_mic_pkt_rptr' \in 0..2 * N - 1
    BY <1>6, Zenon DEF RingOK, Buf, Slot, Ptr
  <2>2. FALSE \in BOOLEAN
    OBVIOUS
  <2>3. ui_mic_enable \in BOOLEAN /\ pc \in {"idle", "encode", "notify"} /\ taken \in Packet
    BY <1>0 DEF TypeOK
  <2> QED
    BY <2>1, <2>2, <2>3, <1>1, <1>2, <1>3, <1>4, <1>5, Zenon DEF TypeOK
<1>8. BufOK'
  <2>1. /\ first <= pass /\ \A i \in 0..2 * Half - 1 : buffer_mic[i] <= pass
        /\ \A i \in 0..2 * Half - 1 : i < mic_wptr => buffer_mic[i] = pass
        /\ \A i \in 0..2 * Half - 1 : i >= mic_wptr =>
             IF pass > first THEN buffer_mic[i] = pass - 1 ELSE buffer_mic[i] < first
    BY <1>0, <1>1 DEF BufOK
  <2>2. first' <= pass'
    BY <2>1, <1>1, <1>2
  <2> SUFFICES ASSUME NEW i \in 0..2 * Half - 1
               PROVE  /\ buffer_mic'[i] <= pass'
                      /\ i < mic_wptr' => buffer_mic'[i] = pass'
                      /\ i >= mic_wptr' =>
                           IF pass' > first' THEN buffer_mic'[i] = pass' - 1
                                             ELSE buffer_mic'[i] < first'
    BY <2>2, Zenon DEF BufOK
  <2>3. /\ i < mic_wptr => buffer_mic[i] = pass
        /\ i >= mic_wptr => IF pass > first THEN buffer_mic[i] = pass - 1 ELSE buffer_mic[i] < first
        /\ buffer_mic[i] <= pass /\ buffer_mic[i] \in 0..MaxPass
        /\ buffer_mic'[i] = IF i = mic_wptr THEN pass ELSE buffer_mic[i]
    BY <2>1, <1>2, <1>4
  <2> QED
    BY <2>1, <2>3, <1>1, <1>2, <1>3, SMTT(30)
<1>9. PacketsOK'
  <2>1. /\ AllWhole(Ring, first) /\ Ordered(Ring)
        /\ Ring # <<>> => /\ Last(Ring) \in Encoding
                          /\ Last(Ring).half # buffer_mic_rptr
                          /\ Past(Last(Ring).half, Last(Ring).chunks[1], pass, mic_wptr)
    BY <1>0 DEF PacketsOK
  <2>2. ASSUME Ring # <<>>
        PROVE  Past(Last(Ring).half, Last(Ring).chunks[1], pass', mic_wptr')
    <3>1. Last(Ring).half \in {0, Half} /\ Last(Ring).chunks[1] \in 0..MaxPass
      BY <2>1, <2>2, OfLast, Zenon
    <3> QED
      BY <3>1, <2>1, <2>2, <1>1, <1>2, <1>3, PastKept, Zenon
  <2> SUFFICES /\ AllWhole(Ring', first') /\ Ordered(Ring')
               /\ Ring' # <<>> => /\ Last(Ring') \in Encoding
                                  /\ Last(Ring').half # buffer_mic_rptr'
                                  /\ Past(Last(Ring').half, Last(Ring').chunks[1], pass', mic_wptr')
    BY <1>1, Zenon DEF PacketsOK, AllWhole, Ordered, Whole, Earlier, Last, Past, Encoding
  <2> QED
    BY <2>1, <2>2, <1>1, <1>6, Zenon
<1>10. EncOK'
  <2> SUFFICES ASSUME pc = "encode"
               PROVE  (Behind /\ OnePass /\ Past(buffer_mic_rptr, Cur, pass, mic_wptr) /\ Later)'
    BY <1>1 DEF EncOK
  <2>1. Behind /\ OnePass /\ Past(buffer_mic_rptr, Cur, pass, mic_wptr) /\ Later /\ caughtUp
    BY <1>0, <1>1 DEF EncOK
  <2> DEFINE h == buffer_mic_rptr
             n == Len(chunks)
  <2>2. n \in Nat /\ n <= Half /\ (chunks = <<>> <=> n = 0) /\ h \in {0, Half}
    BY <1>2
  <2>3. mic_wptr >= h /\ mic_wptr < h + Half => mic_wptr - h < n
    BY <2>1 DEF Behind
  <2>4. n' = n /\ h' = h
    BY <1>1
  <2> HIDE DEF h, n
  <2>5. h \in 0..2 * Half - 1
    BY <1>2, <2>2
  <2>6. Cur' = Cur
    <3>1. chunks = <<>> => buffer_mic'[h] = buffer_mic[h]
      BY <2>2, <2>3, <2>5, <1>2, <1>4
    <3> QED
      BY <3>1, <1>1, Zenon DEF Cur, h
  <2>7. Behind'
    <3>1. mic_wptr' >= h /\ mic_wptr' < h + Half => mic_wptr' - h <= n
      BY <2>2, <2>3, <1>2, <1>3
    <3> QED
      BY <3>1, <1>1 DEF Behind, h, n
  <2>8. OnePass'
    <3>1. \A i \in 0..2 * Half - 1 : i >= h + n /\ i < h + Half => buffer_mic'[i] = buffer_mic[i]
      BY <2>2, <2>3, <1>2, <1>4, SMTT(30)
    <3> QED
      BY <3>1, <2>1, <2>6, <1>1, Zenon DEF OnePass, h, n
  <2>9. Cur \in 0..MaxPass
    <3>1. n > 0 => chunks[1] \in 0..MaxPass
      BY <1>2, <2>2 DEF n
    <3> QED
      BY <3>1, <2>2, <2>5, <1>2 DEF Cur, h
  <2>10. Past(buffer_mic_rptr', Cur', pass', mic_wptr')
    <3>1. Past(buffer_mic_rptr, Cur, pass', mic_wptr')
      BY <2>1, <2>9, <1>1, <1>2, <1>3, PastKept, Zenon
    <3> QED
      BY <3>1, <2>6, <1>1, Zenon
  <2>11. Later'
    BY <2>1, <2>6, <1>1, <1>6, Zenon DEF Later, Last
  <2> QED
    BY <2>7, <2>8, <2>10, <2>11, Zenon DEF Past
<1> QED
  BY <1>6, <1>7, <1>8, <1>9, <1>10 DEF Inv

(* PacketsOK after a step, its parts taken apart.                          *)
LEMMA PacketsNext ==
  ASSUME AllWhole(Ring', first'), Ordered(Ring'),
         ~ui_mic_enable' => Ring' = <<>> /\ pc' = "idle",
         Ring' # <<>> => /\ Last(Ring') \in Encoding
                         /\ Last(Ring').half # buffer_mic_rptr'
                         /\ Past(Last(Ring').half, Last(Ring').chunks[1], pass', mic_wptr')
  PROVE  PacketsOK'
  BY Zenon DEF PacketsOK, AllWhole, Ordered, Whole, Earlier, Last, Past, Encoding

(* An empty ring is in order.                                              *)
LEMMA EmptyOK ==
  ASSUME NEW f PROVE AllWhole(<<>>, f) /\ Ordered(<<>>)
  BY DEF AllWhole, Ordered

(* A ring whose pointers are equal is empty.                               *)
LEMMA RingEmpty ==
  ASSUME buffer_mic_pkt_wptr' = 0, buffer_mic_pkt_rptr' = 0, buffer_mic_enc' = buffer_mic_enc,
         RingOK
  PROVE  RingOK' /\ Ring' = <<>>
<1>1. 0 \in Ptr(N) /\ Used(N, 0, 0) = 0 /\ 0 <= N
  <2>1. 0 \in Ptr(N) /\ N \in Nat
    BY NSlots DEF Ptr, Size
  <2>2. Used(N, 0, 0) = IF 0 >= 0 THEN 0 - 0 ELSE 0 - 0 + 2 * N
    BY <2>1, NSlots, ModUsed, Zenon
  <2> QED
    BY <2>1, <2>2
<1>2. buffer_mic_enc \in Buf(N, Packet)
  BY DEF RingOK
<1>3. RingOK'
  BY <1>1, <1>2, Zenon DEF RingOK
<1>4. RingOf(buffer_mic_enc, N, 0, 0) \in Seq(Packet) /\ Len(RingOf(buffer_mic_enc, N, 0, 0)) = 0
  BY <1>1, <1>2, NSlots, RingLen, Zenon
<1>5. RingOf(buffer_mic_enc, N, 0, 0) = <<>>
  BY <1>4
<1> QED
  BY <1>3, <1>5, RingIsNext, Zenon

(* The types of the ring are part of RingOK.                               *)
LEMMA RingTypes ==
  ASSUME RingOK'
  PROVE  /\ buffer_mic_enc' \in [0..N - 1 -> Packet]
         /\ buffer_mic_pkt_wptr' \in 0..2 * N - 1 /\ buffer_mic_pkt_rptr' \in 0..2 * N - 1
  BY Zenon DEF RingOK, Buf, Slot, Ptr

(* The initial states satisfy the invariant,                               *)
LEMMA InvInit == ASSUME Init PROVE Inv
<1>0. /\ ui_mic_enable = FALSE /\ mic_wptr = 0 /\ buffer_mic = [i \in 0..2 * Half - 1 |-> 0]
      /\ pass = 0 /\ first = 0 /\ buffer_mic_rptr = 0 /\ pc = "idle" /\ chunks = <<>>
      /\ caughtUp = TRUE /\ buffer_mic_enc = [i \in 0..N - 1 |-> NoPacket]
      /\ buffer_mic_pkt_wptr = 0 /\ buffer_mic_pkt_rptr = 0 /\ taken = NoPacket
  BY DEF Init
<1>1. Half \in Nat \ {0} /\ MaxPass \in Nat
  BY HalfAssumption, PassAssumption
<1>2. NoPacket \in Packet
  BY <1>1 DEF NoPacket, Packet
<1>3. 0 \in Ptr(N) /\ Used(N, 0, 0) = 0 /\ 0 <= N
  <2>1. 0 \in Ptr(N) /\ N \in Nat
    BY NSlots DEF Ptr, Size
  <2>2. Used(N, 0, 0) = IF 0 >= 0 THEN 0 - 0 ELSE 0 - 0 + 2 * N
    BY <2>1, NSlots, ModUsed, Zenon
  <2> QED
    BY <2>1, <2>2
<1>4. buffer_mic_enc \in Buf(N, Packet)
  BY <1>0, <1>2 DEF Buf, Slot
<1>5. RingOK
  BY <1>0, <1>3, <1>4, Zenon DEF RingOK
<1>6. Ring = <<>>
  <2>1. RingOf(buffer_mic_enc, N, 0, 0) \in Seq(Packet) /\ Len(RingOf(buffer_mic_enc, N, 0, 0)) = 0
    BY <1>3, <1>4, NSlots, RingLen, Zenon
  <2>2. RingOf(buffer_mic_enc, N, 0, 0) = <<>>
    BY <2>1
  <2> QED
    BY <2>2, <1>0, RingIs, Zenon
<1>7. TypeOK
  <2>1. 0 \in 0..2 * Half - 1 /\ 0 \in 0..MaxPass /\ 0 \in {0, Half} /\ Len(<<>>) <= Half
    BY <1>1
  <2>2. buffer_mic \in [0..2 * Half - 1 -> 0..MaxPass] /\ <<>> \in Seq(0..MaxPass)
    BY <1>0, <2>1
  <2>3. /\ buffer_mic_enc \in [0..N - 1 -> Packet]
        /\ buffer_mic_pkt_wptr \in 0..2 * N - 1 /\ buffer_mic_pkt_rptr \in 0..2 * N - 1
    BY <1>5, Zenon DEF RingOK, Buf, Slot, Ptr
  <2> QED
    BY <2>1, <2>2, <2>3, <1>0, <1>2, Zenon DEF TypeOK
<1>8. BufOK
  BY <1>0 DEF BufOK
<1>9. PacketsOK
  BY <1>0, <1>6, EmptyOK, Zenon DEF PacketsOK
<1>10. EncOK
  BY <1>0 DEF EncOK
<1> QED
  BY <1>5, <1>7, <1>8, <1>9, <1>10 DEF Inv

(* The microphone is switched.                                             *)
LEMMA EnableStep == ASSUME Inv, NEW en \in BOOLEAN, ui_enable_mic(en) PROVE Inv'
<1>0. TypeOK /\ RingOK /\ BufOK /\ PacketsOK
  BY DEF Inv
<1>1. /\ pc = "idle" /\ pass < MaxPass /\ ui_mic_enable' = en
      /\ mic_wptr' = (IF en THEN 0 ELSE mic_wptr) /\ pass' = (IF en THEN pass + 1 ELSE pass)
      /\ first' = pass' /\ buffer_mic_pkt_wptr' = 0 /\ buffer_mic_pkt_rptr' = 0
      /\ buffer_mic' = buffer_mic /\ buffer_mic_rptr' = buffer_mic_rptr /\ pc' = pc
      /\ chunks' = chunks /\ caughtUp' = caughtUp /\ buffer_mic_enc' = buffer_mic_enc
      /\ taken' = taken
  BY DEF ui_enable_mic
<1>2. /\ mic_wptr \in 0..2 * Half - 1 /\ buffer_mic \in [0..2 * Half - 1 -> 0..MaxPass]
      /\ pass \in 0..MaxPass /\ first \in 0..MaxPass
      /\ Half \in Nat \ {0} /\ MaxPass \in Nat
  BY <1>0, HalfAssumption, PassAssumption DEF TypeOK
<1>3. RingOK' /\ Ring' = <<>>
  BY <1>0, <1>1, RingEmpty
<1>4. mic_wptr' \in 0..2 * Half - 1 /\ pass' \in 0..MaxPass
  BY <1>1, <1>2
<1>5. TypeOK'
  <2>1. /\ pc \in {"idle", "encode", "notify"} /\ taken \in Packet /\ caughtUp \in BOOLEAN
        /\ buffer_mic_rptr \in {0, Half} /\ chunks \in Seq(0..MaxPass) /\ Len(chunks) <= Half
    BY <1>0 DEF TypeOK
  <2> QED
    BY <2>1, <1>1, <1>2, <1>3, <1>4, RingTypes, Zenon DEF TypeOK
<1>6. BufOK'
  <2>1. \A i \in 0..2 * Half - 1 : buffer_mic[i] <= pass
    BY <1>0 DEF BufOK
  <2>2. ~en => pass' = pass /\ ~ui_mic_enable'
    BY <1>1
  <2>3. en => pass' = pass + 1 /\ mic_wptr' = 0
    BY <1>1
  <2> SUFFICES ASSUME NEW i \in 0..2 * Half - 1
               PROVE  /\ buffer_mic[i] <= pass'
                      /\ en => /\ ~(i < mic_wptr') /\ ~(pass' > pass')
                               /\ buffer_mic[i] < pass'
    <3>1. pass' <= pass'
      BY <1>4, <1>2
    <3> QED
      BY <3>1, <1>1, Zenon DEF BufOK
  <2>4. buffer_mic[i] <= pass /\ buffer_mic[i] \in 0..MaxPass
    BY <2>1, <1>2
  <2> QED
    BY <2>2, <2>3, <2>4, <1>2
<1>7. PacketsOK'
  <2>1. AllWhole(Ring', first') /\ Ordered(Ring')
    BY <1>3, EmptyOK, Zenon
  <2> QED
    BY <2>1, <1>1, <1>3, PacketsNext, Zenon
<1>8. EncOK'
  BY <1>1 DEF EncOK
<1> QED
  BY <1>3, <1>5, <1>6, <1>7, <1>8 DEF Inv

(* A step that leaves the sample buffer alone.                             *)
LEMMA BufSame == ASSUME BufOK, UNCHANGED mic PROVE BufOK'
  BY Zenon DEF BufOK, mic

(* proc_mic_encoder begins.                                                *)
LEMMA TaskStep == ASSUME Inv, TaskAudio PROVE Inv'
<1>0. TypeOK /\ RingOK /\ BufOK /\ PacketsOK
  BY DEF Inv
<1>1. /\ pc = "idle" /\ ui_mic_enable /\ pc' = (IF HalfReady THEN "encode" ELSE "notify")
      /\ chunks' = <<>> /\ caughtUp' = TRUE /\ mic' = mic
      /\ buffer_mic_rptr' = buffer_mic_rptr /\ ring' = ring /\ taken' = taken
  BY DEF TaskAudio
<1>2. /\ ui_mic_enable' = ui_mic_enable /\ mic_wptr' = mic_wptr /\ buffer_mic' = buffer_mic
      /\ pass' = pass /\ first' = first
  BY <1>1 DEF mic
<1>3. /\ mic_wptr \in 0..2 * Half - 1 /\ buffer_mic \in [0..2 * Half - 1 -> 0..MaxPass]
      /\ pass \in 0..MaxPass /\ first \in 0..MaxPass /\ buffer_mic_rptr \in {0, Half}
      /\ Half \in Nat \ {0} /\ MaxPass \in Nat
  BY <1>0, HalfAssumption, PassAssumption DEF TypeOK
<1>4. RingOK' /\ Ring' = Ring
  BY <1>0, <1>1, RingSame
<1>5. TypeOK'
  <2>1. <<>> \in Seq(0..MaxPass) /\ Len(<<>>) <= Half /\ TRUE \in BOOLEAN
    BY <1>3
  <2>2. ui_mic_enable \in BOOLEAN /\ taken \in Packet
    BY <1>0 DEF TypeOK
  <2>3. pc' \in {"idle", "encode", "notify"}
    BY <1>1
  <2> QED
    BY <2>1, <2>2, <2>3, <1>1, <1>2, <1>3, <1>4, RingTypes, Zenon DEF TypeOK
<1>6. BufOK'
  BY <1>0, <1>1, BufSame
<1>7. PacketsOK'
  <2>1. /\ AllWhole(Ring, first) /\ Ordered(Ring)
        /\ Ring # <<>> => /\ Last(Ring) \in Encoding
                          /\ Last(Ring).half # buffer_mic_rptr
                          /\ Past(Last(Ring).half, Last(Ring).chunks[1], pass, mic_wptr)
    BY <1>0 DEF PacketsOK
  <2> QED
    BY <2>1, <1>1, <1>2, <1>4, PacketsNext, Zenon
<1>8. EncOK'
  <2> SUFFICES ASSUME HalfReady
               PROVE  (Behind /\ OnePass /\ Past(buffer_mic_rptr, Cur, pass, mic_wptr) /\ Later)'
    BY <1>1 DEF EncOK
  <2> DEFINE h == buffer_mic_rptr
             w == mic_wptr
             c == buffer_mic[h]
  <2>1. (h = 0 /\ w >= Half) \/ (h = Half /\ w < Half)
    BY <1>3 DEF HalfReady
  <2>2. Cur' = c
    BY <1>1, <1>2, Zenon DEF Cur
  <2>3. h \in 0..2 * Half - 1 /\ Len(<<>>) = 0 /\ h \in {0, Half}
    BY <1>3
  <2>4. /\ first <= pass
        /\ \A i \in 0..2 * Half - 1 : i < w => buffer_mic[i] = pass
        /\ \A i \in 0..2 * Half - 1 : i >= w =>
             IF pass > first THEN buffer_mic[i] = pass - 1 ELSE buffer_mic[i] < first
    BY <1>0, <1>1 DEF BufOK
  <2> HIDE DEF h, w, c
  <2>5. w \in 0..2 * Half - 1 /\ c \in 0..MaxPass /\ c = buffer_mic[h]
    BY <1>3, <2>3 DEF w, c
  <2>6. h = 0 => c = pass /\ \A i \in 0..2 * Half - 1 : i >= h + 0 /\ i < h + Half => buffer_mic[i] = c
    BY <2>1, <2>3, <2>4, <2>5, <1>3
  <2>7. h = Half /\ pass > first
          => c = pass - 1 /\ \A i \in 0..2 * Half - 1 : i >= h + 0 /\ i < h + Half => buffer_mic[i] = c
    BY <2>1, <2>3, <2>4, <2>5, <1>3
  <2>8. h = Half /\ ~(pass > first)
          => c < first /\ pass = first
             /\ \A i \in 0..2 * Half - 1 : i >= h + 0 /\ i < h + Half => buffer_mic[i] < first
    BY <2>1, <2>3, <2>4, <2>5, <1>3
  <2>9. Behind'
    <3>1. ~(w >= h /\ w < h + Half)
      BY <2>1, <2>5, <1>3
    <3> QED
      BY <3>1, <1>1, <1>2, Zenon DEF Behind, h, w
  <2>10. OnePass'
    <3>1. \A k \in 1..0 : FALSE
      OBVIOUS
    <3>2. h = 0 \/ (h = Half /\ pass > first) => c >= first
      BY <2>4, <2>6, <2>7, <1>3
    <3>3. \/ c >= first /\ \A i \in 0..2 * Half - 1 : i >= h + 0 /\ i < h + Half => buffer_mic[i] = c
          \/ h = Half /\ \A i \in 0..2 * Half - 1 : i >= h + 0 /\ i < h + Half => buffer_mic[i] < first
      BY <3>2, <2>3, <2>6, <2>7, <2>8, Zenon
    <3> QED
      BY <3>1, <3>3, <2>2, <2>3, <1>1, <1>2, Zenon DEF OnePass, h
  <2>11. Past(h, c, pass, w)
    BY <2>1, <2>4, <2>5, <2>6, <2>7, <2>8, <1>3 DEF Past
  <2>12. Past(buffer_mic_rptr', Cur', pass', mic_wptr')
    BY <2>2, <2>11, <1>1, <1>2, Zenon DEF h, w
  <2>13. ASSUME Ring # <<>>
         PROVE  Last(Ring).chunks[1] < c \/ (Last(Ring).chunks[1] = c /\ Last(Ring).half < h)
    <3> DEFINE g == Last(Ring).half
               v == Last(Ring).chunks[1]
    <3>1. Last(Ring) \in Encoding /\ g # h /\ Past(g, v, pass, w) /\ AllWhole(Ring, first)
      BY <2>13, <1>0 DEF PacketsOK, h, w
    <3>2. g \in {0, Half} /\ v \in 0..MaxPass
      BY <3>1, OfLast, Zenon
    <3>3. g = 0 => v >= first
      <4>1. Len(Ring) \in 1..Len(Ring)
        BY <2>13, <1>0, RingSeq
      <4>2. Whole(Last(Ring), first)
        BY <4>1, <3>1, Zenon DEF AllWhole, Last
      <4>3. 1 \in 1..Half /\ Half # 0
        BY <1>3
      <4> QED
        BY <4>2, <4>3, Zenon DEF Whole
    <3> HIDE DEF g, v
    <3>4. v < c \/ (v = c /\ g < h)
      BY <3>1, <3>2, <3>3, <2>1, <2>3, <2>5, <2>6, <2>7, <2>8, <2>4, <1>3 DEF Past
    <3> QED
      BY <3>4 DEF g, v
  <2>14. Later'
    BY <2>13, <2>2, <1>1, <1>4, Zenon DEF Later, Last, h
  <2> QED
    BY <2>9, <2>10, <2>12, <2>14, Zenon DEF Past
<1> QED
  BY <1>4, <1>5, <1>6, <1>7, <1>8 DEF Inv

(* A chunk is encoded.                                                     *)
LEMMA ChunkStep == ASSUME Inv, EncodeChunk PROVE Inv'
<1>0. TypeOK /\ RingOK /\ BufOK /\ PacketsOK /\ EncOK
  BY DEF Inv
<1>1. /\ pc = "encode" /\ Len(chunks) < Half
      /\ chunks' = Append(chunks, buffer_mic[buffer_mic_rptr + Len(chunks)])
      /\ caughtUp' = TRUE /\ mic' = mic /\ pc' = pc
      /\ buffer_mic_rptr' = buffer_mic_rptr /\ ring' = ring /\ taken' = taken
  BY DEF EncodeChunk
<1>2. /\ ui_mic_enable' = ui_mic_enable /\ mic_wptr' = mic_wptr /\ buffer_mic' = buffer_mic
      /\ pass' = pass /\ first' = first
  BY <1>1 DEF mic
<1>3. /\ mic_wptr \in 0..2 * Half - 1 /\ buffer_mic \in [0..2 * Half - 1 -> 0..MaxPass]
      /\ pass \in 0..MaxPass /\ first \in 0..MaxPass /\ buffer_mic_rptr \in {0, Half}
      /\ Half \in Nat \ {0} /\ MaxPass \in Nat
      /\ chunks \in Seq(0..MaxPass) /\ Len(chunks) <= Half
  BY <1>0, HalfAssumption, PassAssumption DEF TypeOK
<1>4. RingOK' /\ Ring' = Ring
  BY <1>0, <1>1, RingSame
<1> DEFINE h == buffer_mic_rptr
           n == Len(chunks)
           c == buffer_mic[h + n]
<1>5. n \in Nat /\ n < Half /\ (chunks = <<>> <=> n = 0) /\ h + n \in 0..2 * Half - 1
  BY <1>1, <1>3
<1>6. c \in 0..MaxPass /\ chunks' = Append(chunks, c)
  BY <1>1, <1>3, <1>5
<1> HIDE DEF c
<1>7. /\ chunks' \in Seq(0..MaxPass) /\ Len(chunks') = n + 1 /\ chunks' # <<>>
      /\ \A k \in 1..n : chunks'[k] = chunks[k]
      /\ chunks'[n + 1] = c
  <2>1. chunks \in Seq(0..MaxPass)
    BY <1>3
  <2>2. /\ Append(chunks, c) \in Seq(0..MaxPass) /\ Append(chunks, c) # <<>>
        /\ Len(Append(chunks, c)) = n + 1
        /\ \A k \in 1..n : Append(chunks, c)[k] = chunks[k]
        /\ Append(chunks, c)[n + 1] = c
    BY <2>1, <1>6, AppendProperties
  <2> QED
    BY <2>2, <1>6, Zenon
<1>8. TypeOK'
  <2>1. ui_mic_enable \in BOOLEAN /\ taken \in Packet /\ TRUE \in BOOLEAN
        /\ pc \in {"idle", "encode", "notify"}
    BY <1>0 DEF TypeOK
  <2>2. Len(chunks') <= Half
    BY <1>3, <1>5, <1>7
  <2> QED
    BY <2>1, <2>2, <1>1, <1>2, <1>3, <1>4, <1>7, RingTypes, Zenon DEF TypeOK
<1>9. BufOK'
  BY <1>0, <1>1, BufSame
<1>10. PacketsOK'
  <2>1. /\ AllWhole(Ring, first) /\ Ordered(Ring)
        /\ ~ui_mic_enable => Ring = <<>> /\ pc = "idle"
        /\ Ring # <<>> => /\ Last(Ring) \in Encoding
                          /\ Last(Ring).half # buffer_mic_rptr
                          /\ Past(Last(Ring).half, Last(Ring).chunks[1], pass, mic_wptr)
    BY <1>0 DEF PacketsOK
  <2> QED
    BY <2>1, <1>1, <1>2, <1>4, PacketsNext, Zenon
<1>11. EncOK'
  <2> SUFFICES (Behind /\ OnePass /\ Past(buffer_mic_rptr, Cur, pass, mic_wptr) /\ Later)'
    BY Zenon DEF EncOK
  <2>1. Behind /\ OnePass /\ Past(buffer_mic_rptr, Cur, pass, mic_wptr) /\ Later
    BY <1>0, <1>1 DEF EncOK
  <2>2. h \in {0, Half} /\ h' = h
    BY <1>1, <1>3
  <2> HIDE DEF h, n
  <2>3. Cur' = Cur
    <3>1. CASE n = 0
      <4>1. h + n = h /\ n + 1 = 1
        BY <3>1, <2>2, <1>3
      <4>2. Cur = buffer_mic[h]
        BY <3>1, <1>5, Zenon DEF Cur, h
      <4>3. Cur' = chunks'[1]
        BY <1>7, Zenon DEF Cur
      <4> QED
        BY <4>1, <4>2, <4>3, <1>7, Zenon DEF c
    <3>2. CASE n # 0
      <4>1. 1 \in 1..n
        BY <3>2, <1>5
      <4> QED
        BY <4>1, <3>2, <1>5, <1>7, Zenon DEF Cur
    <3> QED
      BY <3>1, <3>2
  <2>4. Behind'
    <3>1. mic_wptr >= h /\ mic_wptr < h + Half => mic_wptr - h <= n
      <4>1. mic_wptr >= h /\ mic_wptr < h + Half =>
              IF caughtUp THEN mic_wptr - h < n ELSE mic_wptr - h <= n
        BY <2>1, Zenon DEF Behind, h, n
      <4> QED
        BY <4>1, <1>3, <1>5, <2>2
    <3>2. mic_wptr >= h /\ mic_wptr < h + Half => mic_wptr - h < n + 1
      BY <3>1, <1>3, <1>5, <2>2
    <3> QED
      BY <3>2, <1>1, <1>2, <1>7, Zenon DEF Behind, h
  <2>5. OnePass'
    <3>1. \A i \in 0..2 * Half - 1 :
            i >= h + (n + 1) /\ i < h + Half => i >= h + n /\ i < h + Half
      BY <1>3, <1>5, <2>2
    <3>2. h + n >= h + n /\ h + n < h + Half
      BY <1>3, <1>5, <2>2
    <3>3. \A k \in 1..n + 1 : k \in 1..n \/ k = n + 1
      BY <1>5
    <3>4. CASE /\ Cur >= first /\ \A k \in 1..n : chunks[k] = Cur
               /\ \A i \in 0..2 * Half - 1 : i >= h + n /\ i < h + Half => buffer_mic[i] = Cur
      <4>1. \A k \in 1..n + 1 : chunks'[k] = Cur
        BY <3>2, <3>3, <3>4, <1>5, <1>7, Zenon DEF c
      <4>2. \A i \in 0..2 * Half - 1 : i >= h + (n + 1) /\ i < h + Half => buffer_mic[i] = Cur
        BY <3>1, <3>4, Zenon
      <4> QED
        BY <4>1, <4>2, <3>4, <2>3, <1>1, <1>2, <1>7, Zenon DEF OnePass, h
    <3>5. CASE /\ h = Half /\ \A k \in 1..n : chunks[k] < first
               /\ \A i \in 0..2 * Half - 1 : i >= h + n /\ i < h + Half => buffer_mic[i] < first
      <4>1. \A k \in 1..n + 1 : chunks'[k] < first
        BY <3>2, <3>3, <3>5, <1>5, <1>7, Zenon DEF c
      <4>2. \A i \in 0..2 * Half - 1 : i >= h + (n + 1) /\ i < h + Half => buffer_mic[i] < first
        BY <3>1, <3>5, Zenon
      <4> QED
        BY <4>1, <4>2, <3>5, <2>3, <1>1, <1>2, <1>7, Zenon DEF OnePass, h
    <3> QED
      BY <3>4, <3>5, <2>1, Zenon DEF OnePass, h, n
  <2>6. Past(buffer_mic_rptr', Cur', pass', mic_wptr')
    BY <2>1, <2>3, <1>1, <1>2, Zenon
  <2>7. Later'
    BY <2>1, <2>3, <1>1, <1>4, Zenon DEF Later, Last
  <2> QED
    BY <2>4, <2>5, <2>6, <2>7, Zenon DEF Past
<1> QED
  BY <1>4, <1>8, <1>9, <1>10, <1>11 DEF Inv

(* The packet that the encoder completes, and what it does to the ring.    *)
LEMMA Completed ==
  ASSUME Inv, EncodeDone
  PROVE  LET p == [half |-> buffer_mic_rptr, chunks |-> chunks] IN
           /\ p \in Packet /\ p \in Encoding /\ Whole(p, first)
           /\ Past(p.half, p.chunks[1], pass, mic_wptr)
           /\ Ring # <<>> => Earlier(Last(Ring), p)
           /\ RingOK' /\ Ring' = With(Ring, p)
<1> DEFINE p == [half |-> buffer_mic_rptr, chunks |-> chunks]
<1>0. TypeOK /\ RingOK /\ EncOK
  BY DEF Inv
<1>1. /\ pc = "encode" /\ Len(chunks) = Half
      /\ buffer_mic_enc' = [buffer_mic_enc EXCEPT ![buffer_mic_pkt_wptr % N] = p]
      /\ buffer_mic_pkt_wptr' = (buffer_mic_pkt_wptr + 1) % (2 * N)
      /\ buffer_mic_pkt_rptr' = RptrAfter(buffer_mic_pkt_wptr')
  BY DEF EncodeDone
<1>2. /\ buffer_mic_rptr \in {0, Half} /\ Half \in Nat \ {0} /\ chunks \in Seq(0..MaxPass)
  BY <1>0, HalfAssumption DEF TypeOK
<1>3. chunks \in [1..Half -> 0..MaxPass] /\ chunks # <<>>
  <2>1. chunks \in [1..Len(chunks) -> 0..MaxPass]
    BY <1>2, LenProperties, Zenon
  <2>2. chunks # <<>>
    <3>1. Len(chunks) # 0 /\ Len(<<>>) = 0
      BY <1>1, <1>2
    <3> QED
      BY <3>1
  <2> QED
    BY <2>1, <2>2, <1>1, Zenon
<1>4. p \in Packet /\ p \in Encoding
  BY <1>2, <1>3 DEF Packet, Encoding
<1>5. p.half = buffer_mic_rptr /\ p.chunks = chunks
  OBVIOUS
<1> HIDE DEF p
<1>6. RingOK' /\ Ring' = With(Ring, p)
  BY <1>0, <1>1, <1>4, PutPacket, Zenon
<1>7. OnePass /\ Past(buffer_mic_rptr, Cur, pass, mic_wptr) /\ Later
  BY <1>0, <1>1 DEF EncOK
<1>8. Cur = chunks[1]
  BY <1>3, Zenon DEF Cur
<1>9. Whole(p, first)
  BY <1>1, <1>5, <1>7, <1>8, Zenon DEF Whole, OnePass
<1>10. Past(p.half, p.chunks[1], pass, mic_wptr)
  BY <1>5, <1>7, <1>8, Zenon
<1>11. Ring # <<>> => Earlier(Last(Ring), p)
  BY <1>5, <1>7, <1>8, Zenon DEF Earlier, Later
<1> QED
  BY <1>4, <1>6, <1>9, <1>10, <1>11, Zenon DEF p

(* The encoder is done with a half.                                        *)
LEMMA DoneStep == ASSUME Inv, EncodeDone PROVE Inv'
<1> DEFINE p == [half |-> buffer_mic_rptr, chunks |-> chunks]
<1>0. TypeOK /\ RingOK /\ BufOK /\ PacketsOK
  BY DEF Inv
<1>1. /\ pc = "encode" /\ buffer_mic_rptr' = OtherHalf /\ pc' = "notify" /\ chunks' = <<>>
      /\ mic' = mic /\ caughtUp' = caughtUp /\ taken' = taken
  BY DEF EncodeDone
<1>2. /\ ui_mic_enable' = ui_mic_enable /\ mic_wptr' = mic_wptr /\ buffer_mic' = buffer_mic
      /\ pass' = pass /\ first' = first
  BY <1>1 DEF mic
<1>3. /\ p \in Packet /\ p \in Encoding /\ Whole(p, first)
      /\ Past(p.half, p.chunks[1], pass, mic_wptr)
      /\ Ring # <<>> => Earlier(Last(Ring), p)
      /\ RingOK' /\ Ring' = With(Ring, p)
  BY Completed, Zenon
<1>4. OtherHalf \in {0, Half} /\ p.half # OtherHalf
  BY <1>0, HalfAssumption DEF TypeOK, OtherHalf
<1> HIDE DEF p
<1>5. TypeOK'
  <2>1. ui_mic_enable \in BOOLEAN /\ taken \in Packet /\ caughtUp \in BOOLEAN
        /\ mic_wptr \in 0..2 * Half - 1 /\ buffer_mic \in [0..2 * Half - 1 -> 0..MaxPass]
        /\ pass \in 0..MaxPass /\ first \in 0..MaxPass
    BY <1>0 DEF TypeOK
  <2>2. <<>> \in Seq(0..MaxPass) /\ Len(<<>>) <= Half /\ "notify" \in {"idle", "encode", "notify"}
    BY HalfAssumption
  <2> QED
    BY <2>1, <2>2, <1>1, <1>2, <1>3, <1>4, RingTypes, Zenon DEF TypeOK
<1>6. BufOK'
  BY <1>0, <1>1, BufSame
<1>7. PacketsOK'
  <2>1. AllWhole(Ring, first) /\ Ordered(Ring) /\ (~ui_mic_enable => pc = "idle")
    BY <1>0 DEF PacketsOK
  <2>2. Ring \in Seq(Packet)
    BY <1>0, RingSeq
  <2>3. /\ AllWhole(With(Ring, p), first) /\ Ordered(With(Ring, p))
        /\ With(Ring, p) # <<>> /\ Last(With(Ring, p)) = p
    BY <2>1, <2>2, <1>3, WithKeeps, Zenon
  <2>4. ui_mic_enable'
    BY <2>1, <1>1, <1>2
  <2> QED
    BY <2>3, <2>4, <1>1, <1>2, <1>3, <1>4, PacketsNext, Zenon
<1>8. EncOK'
  BY <1>1 DEF EncOK
<1> QED
  BY <1>3, <1>5, <1>6, <1>7, <1>8 DEF Inv

(* The stack takes the oldest packet, or none.                             *)
LEMMA NotifyStep == ASSUME Inv, NEW accepted \in BOOLEAN, Notify(accepted) PROVE Inv'
<1>0. TypeOK /\ RingOK /\ BufOK /\ PacketsOK
  BY DEF Inv
<1>1. /\ pc = "notify" /\ pc' = "idle" /\ mic' = mic /\ buffer_mic_rptr' = buffer_mic_rptr
      /\ chunks' = chunks /\ caughtUp' = caughtUp /\ buffer_mic_enc' = buffer_mic_enc
      /\ buffer_mic_pkt_wptr' = buffer_mic_pkt_wptr
  BY DEF Notify
<1>2. /\ ui_mic_enable' = ui_mic_enable /\ mic_wptr' = mic_wptr /\ buffer_mic' = buffer_mic
      /\ pass' = pass /\ first' = first
  BY <1>1 DEF mic
<1>3. /\ AllWhole(Ring, first) /\ Ordered(Ring) /\ ui_mic_enable
      /\ Ring # <<>> => /\ Last(Ring) \in Encoding
                        /\ Last(Ring).half # buffer_mic_rptr
                        /\ Past(Last(Ring).half, Last(Ring).chunks[1], pass, mic_wptr)
  BY <1>0, <1>1 DEF PacketsOK
<1>4. Ring \in Seq(Packet)
  BY <1>0, RingSeq
<1> SUFFICES RingOK' /\ AllWhole(Ring', first) /\ Ordered(Ring') /\ taken' \in Packet
             /\ (Ring' # <<>> => Ring # <<>> /\ Last(Ring') = Last(Ring))
  <2>1. TypeOK'
    <3>1. ui_mic_enable \in BOOLEAN /\ caughtUp \in BOOLEAN
          /\ mic_wptr \in 0..2 * Half - 1 /\ buffer_mic \in [0..2 * Half - 1 -> 0..MaxPass]
          /\ pass \in 0..MaxPass /\ first \in 0..MaxPass /\ buffer_mic_rptr \in {0, Half}
          /\ chunks \in Seq(0..MaxPass) /\ Len(chunks) <= Half
          /\ "idle" \in {"idle", "encode", "notify"}
      BY <1>0 DEF TypeOK
    <3> QED
      BY <3>1, <1>1, <1>2, RingTypes, Zenon DEF TypeOK
  <2>2. BufOK'
    BY <1>0, <1>1, BufSame
  <2>3. PacketsOK'
    BY <1>1, <1>2, <1>3, PacketsNext, Zenon
  <2>4. EncOK'
    BY <1>1 DEF EncOK
  <2> QED
    BY <2>1, <2>2, <2>3, <2>4 DEF Inv
<1>5. CASE accepted /\ buffer_mic_pkt_rptr # buffer_mic_pkt_wptr
  <2>1. /\ taken' = buffer_mic_enc[buffer_mic_pkt_rptr % N]
        /\ buffer_mic_pkt_rptr' = (buffer_mic_pkt_rptr + 1) % (2 * N)
    BY <1>5 DEF Notify
  <2>2. RingOK' /\ Ring # <<>> /\ Ring' = Tail(Ring) /\ taken' = Head(Ring)
    BY <2>1, <1>0, <1>1, <1>5, TakePacket, Zenon
  <2>3. /\ AllWhole(Tail(Ring), first) /\ Ordered(Tail(Ring)) /\ Head(Ring) \in Packet
        /\ Tail(Ring) # <<>> => Last(Tail(Ring)) = Last(Ring)
    BY <2>2, <1>3, <1>4, TailKeeps, Zenon
  <2> QED
    BY <2>2, <2>3, Zenon
<1>6. CASE ~(accepted /\ buffer_mic_pkt_rptr # buffer_mic_pkt_wptr)
  <2>1. taken' = taken /\ buffer_mic_pkt_rptr' = buffer_mic_pkt_rptr
    BY <1>6 DEF Notify
  <2>2. ring' = ring /\ taken \in Packet
    BY <2>1, <1>0, <1>1 DEF ring, TypeOK
  <2>3. RingOK' /\ Ring' = Ring
    BY <2>2, <1>0, RingSame
  <2> QED
    BY <2>1, <2>2, <2>3, <1>3, Zenon
<1> QED
  BY <1>5, <1>6

-----------------------------------------------------------------------------
(* Nothing happens.                                                        *)
LEMMA StutterStep == ASSUME Inv, UNCHANGED vars PROVE Inv'
  BY Zenon DEF Inv, vars, mic, ring, TypeOK, RingOK, BufOK, PacketsOK, EncOK, Ring, Behind,
       OnePass, Cur, Later, Packet

(* every step keeps it, one action after the other,                        *)
LEMMA InvStep == ASSUME Inv, [Next]_vars PROVE Inv'
<1>1. CASE UNCHANGED vars
  BY <1>1, StutterStep
<1>2. CASE Next
  BY <1>2, RecordStep, EnableStep, TaskStep, ChunkStep, DoneStep, NotifyStep DEF Next
<1> QED
  BY <1>1, <1>2

(* and it always holds.                                                    *)
LEMMA Invariance == Spec => []Inv
<1>1. Init => Inv
  BY InvInit
<1>2. Inv /\ [Next]_vars => Inv'
  BY InvStep
<1> QED
  BY <1>1, <1>2, PTL DEF Spec

(* No packet is put together from two passes of the hardware over the      *)
(* buffer, whatever the number of chunks in a half and however late        *)
(* proc_mic_encoder is called.                                             *)
THEOREM PacketsWhole == Spec => []WholeHalf
<1>1. Inv => WholeHalf
  <2> SUFFICES ASSUME Inv PROVE WholeHalf
    OBVIOUS
  <2>1. TypeOK /\ AllWhole(Ring, first)
    BY DEF Inv, PacketsOK
  <2> QED
    BY <2>1, Zenon DEF WholeHalf, AllWhole, Whole
<1> QED
  BY <1>1, Invariance, PTL

(* Every packet in the ring of proc_mic_encoder is later in the sound than *)
(* the one before it.                                                      *)
THEOREM PacketsInOrder == Spec => []InOrder
<1>1. Inv => InOrder
  <2> SUFFICES ASSUME Inv PROVE InOrder
    OBVIOUS
  <2>1. Ordered(Ring)
    BY DEF Inv, PacketsOK
  <2> QED
    BY <2>1, Zenon DEF InOrder, Ordered, Earlier
<1> QED
  BY <1>1, Invariance, PTL

-----------------------------------------------------------------------------
(* The ring starts as an empty FIFO.                                       *)
LEMMA FifoInit == ASSUME Init PROVE Fifo!Init
<1>1. Inv /\ buffer_mic_pkt_wptr = 0 /\ buffer_mic_pkt_rptr = 0 /\ taken = NoPacket
  BY InvInit DEF Init
<1>2. PacketsOK /\ ui_mic_enable = FALSE
  BY <1>1 DEF Inv, Init
<1> QED
  BY <1>1, <1>2, Zenon DEF PacketsOK, Fifo!Init

(* Each action puts a packet, takes one, empties the FIFO or leaves it.    *)
LEMMA FifoStep == ASSUME Inv, [Next]_vars PROVE [Fifo!Next]_<<Ring, taken>>
<1>0. RingOK
  BY DEF Inv
<1>1. ASSUME UNCHANGED ring, UNCHANGED taken PROVE UNCHANGED <<Ring, taken>>
  BY <1>1, <1>0, RingSame
<1>2. CASE UNCHANGED vars
  BY <1>1, <1>2 DEF vars
<1>3. CASE Record
  BY <1>1, <1>3 DEF Record
<1>4. CASE TaskAudio
  BY <1>1, <1>4 DEF TaskAudio
<1>5. CASE EncodeChunk
  BY <1>1, <1>5 DEF EncodeChunk
<1>6. CASE EncodeDone
  <2> DEFINE p == [half |-> buffer_mic_rptr, chunks |-> chunks]
  <2>1. p \in Encoding /\ Ring' = With(Ring, p)
    BY <1>6, Completed, Zenon
  <2>2. taken' = taken
    BY <1>6 DEF EncodeDone
  <2> HIDE DEF p
  <2>3. Fifo!Put(p)
    BY <2>1, <2>2, Zenon DEF Fifo!Put, Fifo!With, With
  <2> QED
    BY <2>1, <2>3, Zenon DEF Fifo!Next
<1>7. ASSUME NEW en \in BOOLEAN, ui_enable_mic(en)
      PROVE  [Fifo!Next]_<<Ring, taken>>
  <2>1. /\ buffer_mic_pkt_wptr' = 0 /\ buffer_mic_pkt_rptr' = 0
        /\ buffer_mic_enc' = buffer_mic_enc /\ taken' = taken
    BY <1>7 DEF ui_enable_mic
  <2>2. Ring' = <<>>
    BY <2>1, <1>0, RingEmpty
  <2> QED
    BY <2>1, <2>2, Zenon DEF Fifo!Next, Fifo!Clear
<1>8. ASSUME NEW accepted \in BOOLEAN, Notify(accepted)
      PROVE  [Fifo!Next]_<<Ring, taken>>
  <2>1. CASE accepted /\ buffer_mic_pkt_rptr # buffer_mic_pkt_wptr
    <3>1. /\ taken' = buffer_mic_enc[buffer_mic_pkt_rptr % N]
          /\ buffer_mic_pkt_rptr' = (buffer_mic_pkt_rptr + 1) % (2 * N)
          /\ buffer_mic_enc' = buffer_mic_enc /\ buffer_mic_pkt_wptr' = buffer_mic_pkt_wptr
      BY <1>8, <2>1 DEF Notify
    <3>2. Ring # <<>> /\ Ring' = Tail(Ring) /\ taken' = Head(Ring)
      BY <3>1, <1>0, <2>1, TakePacket, Zenon
    <3> QED
      BY <3>2, Zenon DEF Fifo!Next, Fifo!Take
  <2>2. CASE ~(accepted /\ buffer_mic_pkt_rptr # buffer_mic_pkt_wptr)
    BY <1>1, <1>8, <2>2 DEF Notify, ring
  <2> QED
    BY <2>1, <2>2
<1> QED
  BY <1>2, <1>3, <1>4, <1>5, <1>6, <1>7, <1>8 DEF Next

(* The packet buffer of tl_audio.c is a FIFO of any size: packets leave in *)
(* the order in which they were encoded, a packet put into a full buffer   *)
(* drives out the oldest one and nothing else.                             *)
THEOREM PacketsImplementFifo == Spec => PacketFifo
<1>1. Init => Fifo!Init
  BY FifoInit
<1>2. Inv /\ [Next]_vars => [Fifo!Next]_<<Ring, taken>>
  BY FifoStep
<1> QED
  BY <1>1, <1>2, Invariance, PTL DEF Spec, PacketFifo, Fifo!Spec
=============================================================================
