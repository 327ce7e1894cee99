---------------------------- MODULE HciH5Proofs ----------------------------
(***************************************************************************)
(* Theorems about HciH5 for every window, buffer count, packet type set    *)
(* and bound.  TypeOK is not inductive alone: HCI_H5_SendData reads the tx *)
(* FIFO at the window and the acknowledgement handlers move rptr over it,  *)
(* so the window has to lie inside the FIFO.                               *)
(* The second half proves the data protocol with the shipped window of one *)
(* as a stop-and-wait protocol: Flow relates the numbers of the two nodes, *)
(* the frames under way between them, the tx FIFO of the sender and what   *)
(* the receiver has handed over.                                           *)
(***************************************************************************)
EXTENDS HciH5, SequenceTheorems, TLAPS

USE DEF Node, Peer

(* A control block whose window lies inside the negotiated window and      *)
(* inside the tx FIFO.                                                     *)
WindowOK(s) == s.txSlidWinSize <= SlidWinSize /\ s.txSlidWinSize <= Len(s.txFifo)
GoodCb == {s \in ControlBlock : WindowOK(s)}

IInv == TypeOK /\ WindowInFifo

(* t comes from s without touching the link state or sending a link        *)
(* control message.                                                        *)
KeepsLink(s, t) ==
  /\ t.linkState = s.linkState
  /\ t.uartTx = s.uartTx \/ t.uartTx.msg = "none"

(* The mark of an idle transmitter is a frame.                             *)
LEMMA NoFrameType == NoFrame \in Frame
  BY DEF NoFrame, Frame, SeqNum, LinkMsg, DataType, ReliableType

(* HCI_H5_Init leaves a good control block.                                *)
LEMMA InitCbGood == InitCb \in GoodCb
  BY NoFrameType, SlidWinAssumption
     DEF InitCb, GoodCb, ControlBlock, WindowOK, SeqNum, LinkState

(* HCI_H5_Reset empties the FIFO and the window together. *)
LEMMA QueuedType == ASSUME NEW s \in ControlBlock PROVE Queued(s) \subseteq Nat
<1>1. s.txFifo \in Seq(Pkt)
  BY DEF ControlBlock
<1>2. \A i \in 1..Len(s.txFifo) : s.txFifo[i] \in Pkt
  BY <1>1
<1>3. \A p \in Pkt : p.id \in Nat
  BY DEF Pkt
<1> QED
  BY <1>2, <1>3 DEF Queued

(* HCI_H5_Reset keeps the control block good.                              *)
LEMMA ResetGood == ASSUME NEW s \in ControlBlock PROVE Reset(s) \in GoodCb
<1>1. s.drop \cup Queued(s) \in SUBSET Nat
  BY QueuedType DEF ControlBlock
<1>2. <<>> \in Seq(Pkt) /\ <<>> \in Seq(Nat) /\ Len(<<>>) = 0
  OBVIOUS
<1>3. 0 \in SeqNum /\ 0 \in 0..7 /\ 0 \in Nat /\ FALSE \in BOOLEAN
  BY DEF SeqNum
<1>5. Reset(s) \in ControlBlock
  BY <1>1, <1>2, <1>3, ZenonT(60) DEF Reset, ControlBlock
<1>4. WindowOK(Reset(s))
  BY <1>2, SlidWinAssumption DEF Reset, ControlBlock, WindowOK
<1> QED
  BY <1>4, <1>5 DEF GoodCb

(* HCI_H5_Send *)
LEMMA SendGood ==
  ASSUME NEW s \in GoodCb, NEW type \in DataType \cup {"ACK", "LINK_CTRL"},
         NEW msg \in LinkMsg \cup {"none"}, NEW id \in Nat
  PROVE  /\ Send(s, type, msg, id) \in GoodCb
         /\ Send(s, type, msg, id).txFifo = s.txFifo
         /\ Send(s, type, msg, id).txSlidWinSize = s.txSlidWinSize
         /\ Send(s, type, msg, id).linkState = s.linkState
         /\ \/ Send(s, type, msg, id).uartTx = s.uartTx
            \/ Send(s, type, msg, id).uartTx.msg = msg /\ isUartTxDone(s)
<1> DEFINE f == [type |-> type, seq |-> IF type \in ReliableType THEN s.txSeq ELSE 0,
                 ack |-> s.txAck, msg |-> msg, id |-> id]
<1>1. f \in Frame
  BY DEF Frame, GoodCb, ControlBlock, SeqNum
<1>2. (s.txSeq + 1) % 8 \in SeqNum
  BY DEF GoodCb, ControlBlock, SeqNum
<1>3. Send(s, type, msg, id) =
        [s EXCEPT !.txSeq = IF type \in ReliableType THEN (s.txSeq + 1) % 8 ELSE s.txSeq,
                  !.uartTx = IF isUartTxDone(s) THEN f ELSE s.uartTx]
  BY DEF Send, GoodCb, ControlBlock
<1>4. f.msg = msg
  OBVIOUS
<1> HIDE DEF f
<1> QED
  BY <1>1, <1>2, <1>3, <1>4, ZenonT(30) DEF GoodCb, ControlBlock, WindowOK

(* HCI_H5_SendLinkPdu keeps it good,                                       *)
LEMMA SendLinkGood ==
  ASSUME NEW s \in GoodCb, NEW msg \in LinkMsg
  PROVE  /\ SendLink(s, msg) \in GoodCb
         /\ SendLink(s, msg).linkState = s.linkState
         /\ \/ SendLink(s, msg).uartTx = s.uartTx
            \/ SendLink(s, msg).uartTx.msg = msg /\ isUartTxDone(s)
<1>1. "LINK_CTRL" \in DataType \cup {"ACK", "LINK_CTRL"} /\ msg \in LinkMsg \cup {"none"}
  OBVIOUS
<1>2. 0 \in Nat
  OBVIOUS
<1> QED
  BY <1>1, <1>2, SendGood, Zenon DEF SendLink

(* so does HCI_H5_SendPureAck,                                             *)
LEMMA SendPureAckGood ==
  ASSUME NEW s \in GoodCb
  PROVE  SendPureAck(s) \in GoodCb /\ KeepsLink(s, SendPureAck(s))
<1>1. "ACK" \in DataType \cup {"ACK", "LINK_CTRL"} /\ "none" \in LinkMsg \cup {"none"}
  OBVIOUS
<1>2. 0 \in Nat
  OBVIOUS
<1> QED
  BY <1>1, <1>2, SendGood, Zenon DEF SendPureAck, KeepsLink

(* HCI_H5_SendData *)
LEMMA SendDataGood ==
  ASSUME NEW s \in GoodCb
  PROVE  SendData(s) \in GoodCb /\ KeepsLink(s, SendData(s))
<1>1. CASE s.txSlidWinSize >= SlidWinSize \/ Len(s.txFifo) = s.txSlidWinSize
  BY <1>1 DEF SendData, KeepsLink
<1>2. CASE ~(s.txSlidWinSize >= SlidWinSize \/ Len(s.txFifo) = s.txSlidWinSize)
  <2> DEFINE p == s.txFifo[s.txSlidWinSize + 1]
             t == Send(s, p.type, "none", p.id)
  <2>1. p \in Pkt
    BY <1>2, SlidWinAssumption DEF GoodCb, ControlBlock, WindowOK
  <2>2. p.type \in DataType /\ p.id \in Nat
    BY <2>1 DEF Pkt
  <2>3. /\ t \in GoodCb
        /\ t.txFifo = s.txFifo
        /\ t.txSlidWinSize = s.txSlidWinSize
        /\ KeepsLink(s, t)
    <3>1. p.type \in DataType \cup {"ACK", "LINK_CTRL"} /\ "none" \in LinkMsg \cup {"none"}
      BY <2>2
    <3> QED
      BY <2>2, <3>1, SendGood, ZenonT(30) DEF KeepsLink
  <2>4. SendData(s) = IF isUartTxDone(s)
          THEN [t EXCEPT !.txSlidWinSize = t.txSlidWinSize + 1, !.rxSlidWinSize = 0,
                         !.txTick = TRUE, !.rxTick = FALSE]
          ELSE [t EXCEPT !.txSeq = (t.txSeq + 7) % 8, !.txTick = FALSE]
    BY <1>2, <2>3 DEF SendData, GoodCb, ControlBlock
  <2> HIDE DEF t
  <2>5. /\ t.txSlidWinSize + 1 \in 0..7
        /\ t.txSlidWinSize + 1 <= SlidWinSize
        /\ t.txSlidWinSize + 1 <= Len(t.txFifo)
        /\ (t.txSeq + 7) % 8 \in SeqNum
        /\ 0 \in Nat /\ TRUE \in BOOLEAN /\ FALSE \in BOOLEAN
    <3>1. /\ s.txSlidWinSize \in 0..7
          /\ Len(s.txFifo) \in Nat
          /\ s.txSlidWinSize <= SlidWinSize
          /\ s.txSlidWinSize <= Len(s.txFifo)
      BY DEF GoodCb, ControlBlock, WindowOK
    <3>2. t.txSeq \in 0..7
      BY <2>3 DEF GoodCb, ControlBlock, SeqNum
    <3> QED
      BY <1>2, <2>3, <3>1, <3>2, SlidWinAssumption DEF SeqNum
  <2>6. CASE isUartTxDone(s)
    <3> DEFINE u == [t EXCEPT !.txSlidWinSize = t.txSlidWinSize + 1, !.rxSlidWinSize = 0,
                              !.txTick = TRUE, !.rxTick = FALSE]
    <3>1. u \in ControlBlock
      BY <2>3, <2>5, ZenonT(60) DEF GoodCb, ControlBlock
    <3>2. /\ u.txSlidWinSize = t.txSlidWinSize + 1
          /\ u.txFifo = t.txFifo
          /\ u.linkState = t.linkState
          /\ u.uartTx = t.uartTx
      BY <2>3 DEF GoodCb, ControlBlock
    <3>3. SendData(s) = u
      BY <2>4, <2>6
    <3> HIDE DEF u
    <3> QED
      BY <2>3, <2>5, <3>1, <3>2, <3>3 DEF GoodCb, WindowOK, KeepsLink
  <2>7. CASE ~isUartTxDone(s)
    <3> DEFINE u == [t EXCEPT !.txSeq = (t.txSeq + 7) % 8, !.txTick = FALSE]
    <3>1. u \in ControlBlock
      BY <2>3, <2>5, ZenonT(60) DEF GoodCb, ControlBlock
    <3>2. /\ u.txSlidWinSize = t.txSlidWinSize
          /\ u.txFifo = t.txFifo
          /\ u.linkState = t.linkState
          /\ u.uartTx = t.uartTx
      BY <2>3 DEF GoodCb, ControlBlock
    <3>3. SendData(s) = u
      BY <2>4, <2>7
    <3> HIDE DEF u
    <3> QED
      BY <2>3, <3>1, <3>2, <3>3 DEF GoodCb, WindowOK, KeepsLink
  <2> QED
    BY <2>6, <2>7
<1> QED
  BY <1>1, <1>2

(* HCI_H5_ResendStart *)
LEMMA ResendStartGood ==
  ASSUME NEW s \in GoodCb
  PROVE  ResendStart(s) \in GoodCb /\ KeepsLink(s, ResendStart(s))
<1> DEFINE u == [s EXCEPT !.txSeq = s.rxAck, !.txSlidWinSize = 0]
<1>1. 0 \in 0..7 /\ s.rxAck \in SeqNum /\ Len(s.txFifo) \in Nat
  BY DEF GoodCb, ControlBlock
<1>2. u \in ControlBlock
  BY <1>1, ZenonT(60) DEF GoodCb, ControlBlock
<1>3. /\ u.txSlidWinSize = 0
      /\ u.txFifo = s.txFifo
      /\ u.linkState = s.linkState
      /\ u.uartTx = s.uartTx
  BY DEF GoodCb, ControlBlock
<1>4. ResendStart(s) = SendData(u)
  BY DEF ResendStart
<1> HIDE DEF u
<1>5. u \in GoodCb
  BY <1>1, <1>2, <1>3, SlidWinAssumption DEF GoodCb, WindowOK
<1> QED
  BY <1>3, <1>4, <1>5, SendDataGood, Zenon DEF KeepsLink

(* The acknowledged window is dropped from the tx FIFO. *)
LEMMA ReleaseGood ==
  ASSUME NEW s \in GoodCb
  PROVE  Release(s) \in GoodCb /\ KeepsLink(s, Release(s))
<1> DEFINE ids  == {s.txFifo[i].id : i \in 1..s.txSlidWinSize}
           rest == SubSeq(s.txFifo, s.txSlidWinSize + 1, Len(s.txFifo))
<1>1. /\ s.txFifo \in Seq(Pkt)
      /\ s.txSlidWinSize \in 0..7
      /\ s.txSlidWinSize <= Len(s.txFifo)
  BY DEF GoodCb, ControlBlock, WindowOK
<1>2. \A i \in 1..s.txSlidWinSize : s.txFifo[i] \in Pkt
  BY <1>1
<1>3. \A q \in Pkt : q.id \in Nat
  BY DEF Pkt
<1>4. ids \subseteq Nat
  BY <1>2, <1>3
<1>5. s.rel \cup ids \in SUBSET Nat
  BY <1>4 DEF GoodCb, ControlBlock
<1>6. rest \in Seq(Pkt) /\ Len(rest) \in Nat
  <2>1. /\ s.txSlidWinSize + 1 \in Nat \ {0}
        /\ Len(s.txFifo) \in Nat
    BY <1>1
  <2>2. \A i \in (s.txSlidWinSize + 1)..Len(s.txFifo) : s.txFifo[i] \in Pkt
    BY <1>1
  <2>3. rest \in Seq(Pkt)
    BY <1>1, <2>1, <2>2
  <2> QED
    BY <2>3
<1>7. 0 \in 0..7 /\ FALSE \in BOOLEAN
  OBVIOUS
<1>8. Release(s) = [s EXCEPT !.rel = s.rel \cup ids, !.txFifo = rest,
                             !.txSlidWinSize = 0, !.txTick = FALSE, !.resendTick = FALSE]
  BY DEF Release, GoodCb, ControlBlock
<1> HIDE DEF ids, rest
<1>9. Release(s) \in ControlBlock
  BY <1>5, <1>6, <1>7, <1>8, ZenonT(60) DEF GoodCb, ControlBlock
<1>10. /\ Release(s).txSlidWinSize = 0
       /\ Release(s).txFifo = rest
       /\ Release(s).linkState = s.linkState
       /\ Release(s).uartTx = s.uartTx
  BY <1>8 DEF GoodCb, ControlBlock
<1> QED
  BY <1>6, <1>9, <1>10, SlidWinAssumption DEF GoodCb, WindowOK, KeepsLink

(* A field update that leaves the window, the FIFO, the link state and the *)
(* transmitter alone.                                                      *)
LEMMA SetRxAckGood ==
  ASSUME NEW s \in GoodCb, NEW ack \in SeqNum
  PROVE  /\ [s EXCEPT !.rxAck = ack] \in GoodCb
         /\ KeepsLink(s, [s EXCEPT !.rxAck = ack])
         /\ [s EXCEPT !.rxAck = ack].txSeq = s.txSeq
  BY DEF GoodCb, ControlBlock, WindowOK, KeepsLink

(* and so does starting the resend timer.                                  *)
LEMMA ArmResendGood ==
  ASSUME NEW s \in GoodCb
  PROVE  /\ [s EXCEPT !.resendTick = TRUE] \in GoodCb
         /\ KeepsLink(s, [s EXCEPT !.resendTick = TRUE])
         /\ [s EXCEPT !.txTick = FALSE, !.resendTick = TRUE] \in GoodCb
         /\ KeepsLink(s, [s EXCEPT !.txTick = FALSE, !.resendTick = TRUE])
  BY DEF GoodCb, ControlBlock, WindowOK, KeepsLink

(* Keeping the link state is transitive: a handler that is a chain of      *)
(* functions keeps it when each of them does.                              *)
LEMMA KeepsLinkTrans ==
  ASSUME NEW s, NEW t, NEW u, KeepsLink(s, t), KeepsLink(t, u)
  PROVE  KeepsLink(s, u)
  BY Zenon DEF KeepsLink

(* HCI_H5_ReSendCheck *)
LEMMA RxPureAckGood ==
  ASSUME NEW s \in GoodCb, NEW ack \in SeqNum
  PROVE  RxPureAck(s, ack) \in GoodCb /\ KeepsLink(s, RxPureAck(s, ack))
<1> DEFINE t == [s EXCEPT !.rxAck = ack]
<1>1. t \in GoodCb /\ KeepsLink(s, t)
  BY SetRxAckGood
<1>2. RxPureAck(s, ack) = IF ack = s.txSeq THEN Release(t)
                          ELSE [t EXCEPT !.txTick = FALSE, !.resendTick = TRUE]
  BY DEF RxPureAck
<1> HIDE DEF t
<1>3. CASE ack = s.txSeq
  <2>1. Release(t) \in GoodCb /\ KeepsLink(t, Release(t))
    BY <1>1, ReleaseGood, Zenon
  <2>2. KeepsLink(s, Release(t))
    BY <1>1, <2>1, KeepsLinkTrans, Zenon
  <2> QED
    BY <1>2, <1>3, <2>1, <2>2
<1>4. CASE ack # s.txSeq
  <2> DEFINE u == [t EXCEPT !.txTick = FALSE, !.resendTick = TRUE]
  <2>1. u \in GoodCb /\ KeepsLink(t, u)
    BY <1>1, ArmResendGood, Zenon
  <2>2. RxPureAck(s, ack) = u
    BY <1>2, <1>4
  <2> HIDE DEF u
  <2>3. KeepsLink(s, u)
    BY <1>1, <2>1, KeepsLinkTrans, Zenon
  <2> QED
    BY <2>1, <2>2, <2>3
<1> QED
  BY <1>3, <1>4

(* HCI_H5_PackHciPdu *)
LEMMA PackHciPduGood ==
  ASSUME NEW s \in GoodCb, NEW id \in Nat
  PROVE  PackHciPdu(s, id) \in GoodCb /\ KeepsLink(s, PackHciPdu(s, id))
<1>1. Append(s.hciRx, id) \in Seq(Nat)
  BY DEF GoodCb, ControlBlock
<1>2. s.got \cup {id} \in SUBSET Nat /\ (s.dup \/ id \in s.got) \in BOOLEAN
  BY DEF GoodCb, ControlBlock
<1> DEFINE a == Append(s.hciRx, id)
           g == s.got \cup {id}
           d == s.dup \/ id \in s.got
<1>3. PackHciPdu(s, id) = [s EXCEPT !.hciRx = a, !.last = id, !.got = g, !.dup = d]
  BY DEF PackHciPdu, GoodCb, ControlBlock
<1>a. a \in Seq(Nat) /\ g \in SUBSET Nat /\ d \in BOOLEAN
  BY <1>1, <1>2
<1> HIDE DEF a, g, d
<1>4. PackHciPdu(s, id) \in ControlBlock
  BY <1>a, <1>3, ZenonT(60) DEF GoodCb, ControlBlock
<1>5. /\ PackHciPdu(s, id).txSlidWinSize = s.txSlidWinSize
      /\ PackHciPdu(s, id).txFifo = s.txFifo
      /\ PackHciPdu(s, id).linkState = s.linkState
      /\ PackHciPdu(s, id).uartTx = s.uartTx
  BY <1>3 DEF GoodCb, ControlBlock
<1> QED
  BY <1>4, <1>5 DEF GoodCb, WindowOK, KeepsLink

(* The accepting branch of HCI_H5_DecodeDataPdu *)
LEMMA AcceptDataGood ==
  ASSUME NEW s \in GoodCb, NEW id \in Nat
  PROVE  AcceptData(s, id) \in GoodCb /\ KeepsLink(s, AcceptData(s, id))
<1> DEFINE t == [s EXCEPT !.txAck = (s.txAck + 1) % 8, !.rxSlidWinSize = s.rxSlidWinSize + 1,
                          !.rxTick = TRUE]
           u == IF SlidWinSize > 1 /\ t.rxSlidWinSize >= SlidWinSize
                THEN [SendPureAck(t) EXCEPT !.rxSlidWinSize = 0]
                ELSE t
<1>1. AcceptData(s, id) = PackHciPdu(u, id)
  BY DEF AcceptData, GoodCb, ControlBlock
<1>2. /\ (s.txAck + 1) % 8 \in SeqNum
      /\ s.rxSlidWinSize + 1 \in Nat
      /\ TRUE \in BOOLEAN
  BY DEF GoodCb, ControlBlock, SeqNum
<1>3. t \in GoodCb /\ KeepsLink(s, t)
  <2>1. t \in ControlBlock
    BY <1>2, ZenonT(60) DEF GoodCb, ControlBlock
  <2>2. /\ t.txSlidWinSize = s.txSlidWinSize
        /\ t.txFifo = s.txFifo
        /\ t.linkState = s.linkState
        /\ t.uartTx = s.uartTx
    BY DEF GoodCb, ControlBlock
  <2> HIDE DEF t
  <2> QED
    BY <2>1, <2>2 DEF GoodCb, WindowOK, KeepsLink
<1> HIDE DEF t
<1>4. u \in GoodCb /\ KeepsLink(s, u)
  <2> DEFINE a == SendPureAck(t)
             v == [a EXCEPT !.rxSlidWinSize = 0]
  <2>1. a \in GoodCb /\ KeepsLink(t, a)
    BY <1>3, SendPureAckGood, Zenon
  <2>2. KeepsLink(s, a)
    BY <1>3, <2>1, KeepsLinkTrans, Zenon
  <2> HIDE DEF a
  <2>3. v \in GoodCb /\ KeepsLink(s, v)
    BY <2>1, <2>2 DEF GoodCb, ControlBlock, WindowOK, KeepsLink
  <2> QED
    BY <1>3, <2>3 DEF a
<1> HIDE DEF u
<1>5. PackHciPdu(u, id) \in GoodCb /\ KeepsLink(u, PackHciPdu(u, id))
  BY <1>4, PackHciPduGood, Zenon
<1> QED
  BY <1>1, <1>4, <1>5, KeepsLinkTrans, Zenon

(* HCI_H5_DecodeDataPdu *)
LEMMA DecodeDataPduGood ==
  ASSUME NEW s \in GoodCb, NEW f \in Frame
  PROVE  DecodeDataPdu(s, f) \in GoodCb /\ KeepsLink(s, DecodeDataPdu(s, f))
<1>1. f.ack \in SeqNum /\ f.id \in Nat
  BY DEF Frame
<1>2. CASE f.type \in ReliableType
  <2> DEFINE t == IF f.seq = s.txAck THEN AcceptData(s, f.id) ELSE s
             u == [t EXCEPT !.rxAck = f.ack]
             v == [t EXCEPT !.resendTick = TRUE]
  <2>1. t \in GoodCb /\ KeepsLink(s, t)
    <3>1. KeepsLink(s, s)
      BY DEF KeepsLink
    <3>2. AcceptData(s, f.id) \in GoodCb /\ KeepsLink(s, AcceptData(s, f.id))
      BY <1>1, AcceptDataGood, Zenon
    <3> QED
      BY <3>1, <3>2
  <2>2. DecodeDataPdu(s, f) = IF f.ack = t.txSeq THEN Release(u) ELSE v
    BY <1>2 DEF DecodeDataPdu
  <2> HIDE DEF t
  <2>3. u \in GoodCb /\ KeepsLink(t, u)
    BY <1>1, <2>1, SetRxAckGood, Zenon
  <2>4. v \in GoodCb /\ KeepsLink(t, v)
    BY <2>1, ArmResendGood, Zenon
  <2> HIDE DEF u, v
  <2>5. Release(u) \in GoodCb /\ KeepsLink(u, Release(u))
    BY <2>3, ReleaseGood, Zenon
  <2>6. KeepsLink(s, u) /\ KeepsLink(s, v)
    BY <2>1, <2>3, <2>4, KeepsLinkTrans, Zenon
  <2>7. KeepsLink(s, Release(u))
    BY <2>5, <2>6, KeepsLinkTrans, Zenon
  <2> QED
    BY <2>2, <2>4, <2>5, <2>6, <2>7
<1>3. CASE f.type \notin ReliableType
  <2> DEFINE t == [s EXCEPT !.txAck = (s.txAck + 1) % 8]
  <2>1. t \in GoodCb /\ KeepsLink(s, t)
    <3>1. (s.txAck + 1) % 8 \in SeqNum
      BY DEF GoodCb, ControlBlock, SeqNum
    <3> QED
      BY <3>1 DEF GoodCb, ControlBlock, WindowOK, KeepsLink
  <2>2. DecodeDataPdu(s, f) = PackHciPdu(t, f.id)
    BY <1>3 DEF DecodeDataPdu
  <2> HIDE DEF t
  <2>3. PackHciPdu(t, f.id) \in GoodCb /\ KeepsLink(t, PackHciPdu(t, f.id))
    BY <1>1, <2>1, PackHciPduGood, Zenon
  <2> QED
    BY <2>1, <2>2, <2>3, KeepsLinkTrans, Zenon
<1> QED
  BY <1>2, <1>3

(* What one handler may do to the link, given the link control message it  *)
(* handles: how linkState moves, and when SYNC and CONFIG_RSP are sent.    *)
LinkEffect(s, t, msg) ==
  /\ s.linkState = "IDLE" => t.linkState \in {"IDLE", "INIT"}
  /\ s.linkState = "ACTIVE" => t.linkState \in {"IDLE", "ACTIVE"}
  /\ t.linkState = "IDLE" => s.linkState = "IDLE" \/ (s.linkState = "ACTIVE" /\ msg = "SYNC")
  /\ t.linkState = "ACTIVE" => s.linkState = "ACTIVE" \/ (s.linkState = "INIT" /\ msg = "CONFIG_RSP")
  /\ t.uartTx.msg = "SYNC" => t.uartTx = s.uartTx \/ (s.linkState = "IDLE" /\ t.linkState = "IDLE")
  /\ t.uartTx.msg = "CONFIG_RSP" => t.uartTx = s.uartTx \/ (s.linkState # "IDLE" /\ t.linkState # "IDLE")

(* What a function that keeps the link state may do to the link frames.    *)
LEMMA KeepsLinkEffect ==
  ASSUME NEW s \in GoodCb, NEW t \in GoodCb, KeepsLink(s, t), NEW msg
  PROVE  LinkEffect(s, t, msg)
<1>1. t.linkState = s.linkState /\ s.linkState \in {"IDLE", "INIT", "ACTIVE"}
  BY DEF KeepsLink, GoodCb, ControlBlock, LinkState
<1>2. t.uartTx = s.uartTx \/ t.uartTx.msg = "none"
  BY DEF KeepsLink
<1> QED
  BY <1>1, <1>2 DEF LinkEffect

(* HCI_H5_SetLinkState keeps the control block good.                       *)
LEMMA SetLinkStateGood ==
  ASSUME NEW s \in GoodCb, NEW ls \in LinkState
  PROVE  /\ [s EXCEPT !.linkState = ls] \in GoodCb
         /\ [s EXCEPT !.linkState = ls].linkState = ls
         /\ [s EXCEPT !.linkState = ls].uartTx = s.uartTx
  BY DEF GoodCb, ControlBlock, WindowOK

(* HCI_H5_Reset leaves the link state and the transmitter alone. *)
LEMMA ResetKeepsLink ==
  ASSUME NEW s \in GoodCb
  PROVE  Reset(s).linkState = s.linkState /\ Reset(s).uartTx = s.uartTx
  BY DEF Reset, GoodCb, ControlBlock

(* HCI_H5_DecodeLinkPdu *)
LEMMA DecodeLinkPduGood ==
  ASSUME NEW s \in GoodCb, NEW msg \in LinkMsg \cup {"none"}
  PROVE  DecodeLinkPdu(s, msg) \in GoodCb /\ LinkEffect(s, DecodeLinkPdu(s, msg), msg)
<1>0. SUFFICES ASSUME NEW t, t = DecodeLinkPdu(s, msg)
               PROVE  t \in GoodCb /\ LinkEffect(s, t, msg)
  OBVIOUS
<1>1. s.linkState \in {"IDLE", "INIT", "ACTIVE"}
  BY DEF GoodCb, ControlBlock, LinkState
<1>2. /\ "SYNC" \in LinkMsg /\ "SYNC_RSP" \in LinkMsg
      /\ "CONFIG" \in LinkMsg /\ "CONFIG_RSP" \in LinkMsg
      /\ "IDLE" \in LinkState /\ "INIT" \in LinkState /\ "ACTIVE" \in LinkState
  BY DEF LinkMsg, LinkState
<1>3. ASSUME NEW m \in LinkMsg, t = SendLink(s, m),
             m = "SYNC" => s.linkState = "IDLE",
             m = "CONFIG_RSP" => s.linkState # "IDLE"
      PROVE  t \in GoodCb /\ LinkEffect(s, t, msg)
  <2>1. /\ t \in GoodCb
        /\ t.linkState = s.linkState
        /\ t.uartTx = s.uartTx \/ t.uartTx.msg = m
    BY <1>3, SendLinkGood, Zenon
  <2> QED
    BY <1>1, <1>3, <2>1 DEF LinkEffect
<1>4. CASE s.linkState = "IDLE" /\ msg = "SYNC_RSP"
  <2> DEFINE u == [s EXCEPT !.linkState = "INIT"]
  <2>1. t = SendLink(u, "CONFIG")
    BY <1>0, <1>4 DEF DecodeLinkPdu
  <2>2. u \in GoodCb /\ u.linkState = "INIT" /\ u.uartTx = s.uartTx
    BY <1>2, SetLinkStateGood, Zenon
  <2> HIDE DEF u
  <2>3. /\ SendLink(u, "CONFIG") \in GoodCb
        /\ SendLink(u, "CONFIG").linkState = u.linkState
        /\ SendLink(u, "CONFIG").uartTx = u.uartTx \/ SendLink(u, "CONFIG").uartTx.msg = "CONFIG"
    BY <1>2, <2>2, SendLinkGood, Zenon
  <2>4. /\ t \in GoodCb
        /\ t.linkState = "INIT"
        /\ t.uartTx = s.uartTx \/ t.uartTx.msg = "CONFIG"
    BY <2>1, <2>2, <2>3
  <2> QED
    BY <1>4, <2>4 DEF LinkEffect
<1>5. CASE s.linkState = "INIT" /\ msg = "CONFIG_RSP"
  <2> DEFINE u == [s EXCEPT !.linkState = "ACTIVE"]
  <2>1. t = Reset(u)
    BY <1>0, <1>5 DEF DecodeLinkPdu
  <2>2. u \in GoodCb /\ u.linkState = "ACTIVE" /\ u.uartTx = s.uartTx
    BY <1>2, SetLinkStateGood, Zenon
  <2> HIDE DEF u
  <2>3. u \in ControlBlock
    BY <2>2 DEF GoodCb
  <2>4. t \in GoodCb /\ t.linkState = "ACTIVE" /\ t.uartTx = s.uartTx
    BY <2>1, <2>2, <2>3, ResetGood, ResetKeepsLink, Zenon
  <2> QED
    BY <1>5, <2>4 DEF LinkEffect
<1>6. CASE s.linkState = "ACTIVE" /\ msg = "SYNC"
  <2> DEFINE u == [s EXCEPT !.linkState = "IDLE"]
             v == Reset(u)
  <2>1. t = SendLink(v, "SYNC_RSP")
    BY <1>0, <1>6 DEF DecodeLinkPdu
  <2>2. u \in GoodCb /\ u.linkState = "IDLE" /\ u.uartTx = s.uartTx
    BY <1>2, SetLinkStateGood, Zenon
  <2> HIDE DEF u
  <2>3. u \in ControlBlock
    BY <2>2 DEF GoodCb
  <2>4. v \in GoodCb /\ v.linkState = "IDLE" /\ v.uartTx = s.uartTx
    BY <2>2, <2>3, ResetGood, ResetKeepsLink, Zenon
  <2> HIDE DEF v
  <2>5. /\ SendLink(v, "SYNC_RSP") \in GoodCb
        /\ SendLink(v, "SYNC_RSP").linkState = v.linkState
        /\ \/ SendLink(v, "SYNC_RSP").uartTx = v.uartTx
           \/ SendLink(v, "SYNC_RSP").uartTx.msg = "SYNC_RSP"
    BY <1>2, <2>4, SendLinkGood, Zenon
  <2>6. /\ t \in GoodCb
        /\ t.linkState = "IDLE"
        /\ t.uartTx = s.uartTx \/ t.uartTx.msg = "SYNC_RSP"
    BY <2>1, <2>4, <2>5
  <2> QED
    BY <1>6, <2>6 DEF LinkEffect
<1>7. CASE s.linkState \in {"IDLE", "INIT"} /\ msg = "SYNC"
  <2>1. t = SendLink(s, "SYNC_RSP")
    BY <1>0, <1>7 DEF DecodeLinkPdu
  <2> QED
    BY <1>2, <1>3, <2>1
<1>8. CASE s.linkState = "IDLE" /\ msg \in {"CONFIG", "CONFIG_RSP"}
  <2>1. t = SendLink(s, "SYNC")
    BY <1>0, <1>8 DEF DecodeLinkPdu
  <2> QED
    BY <1>2, <1>3, <1>8, <2>1
<1>9. CASE s.linkState \in {"INIT", "ACTIVE"} /\ msg = "CONFIG"
  <2>1. t = SendLink(s, "CONFIG_RSP")
    BY <1>0, <1>9 DEF DecodeLinkPdu
  <2> QED
    BY <1>2, <1>3, <1>9, <2>1
<1>10. CASE \/ s.linkState \in {"INIT", "ACTIVE"} /\ msg = "SYNC_RSP"
            \/ s.linkState = "ACTIVE" /\ msg = "CONFIG_RSP"
            \/ msg = "none"
  <2>1. t = s
    BY <1>0, <1>10 DEF DecodeLinkPdu
  <2> QED
    BY <1>1, <2>1 DEF LinkEffect
<1> QED
  BY <1>1, <1>4, <1>5, <1>6, <1>7, <1>8, <1>9, <1>10 DEF LinkMsg

(* HCI_H5_PakcetHandler *)
LEMMA PacketHandlerGood ==
  ASSUME NEW s \in GoodCb, NEW f \in Frame
  PROVE  PacketHandler(s, f) \in GoodCb /\ LinkEffect(s, PacketHandler(s, f), f.msg)
<1>1. f.msg \in LinkMsg \cup {"none"} /\ f.ack \in SeqNum
  BY DEF Frame
<1>2. CASE f.type = "LINK_CTRL"
  <2>1. PacketHandler(s, f) = DecodeLinkPdu(s, f.msg)
    BY <1>2 DEF PacketHandler, DataType, ReliableType
  <2> QED
    BY <1>1, <2>1, DecodeLinkPduGood, Zenon
<1>3. CASE f.type = "ACK" /\ s.linkState = "ACTIVE"
  <2>1. PacketHandler(s, f) = RxPureAck(s, f.ack)
    BY <1>3 DEF PacketHandler, DataType, ReliableType
  <2>2. RxPureAck(s, f.ack) \in GoodCb /\ KeepsLink(s, RxPureAck(s, f.ack))
    BY <1>1, RxPureAckGood, Zenon
  <2> QED
    BY <2>1, <2>2, KeepsLinkEffect, Zenon
<1>4. CASE f.type \in DataType /\ s.linkState = "ACTIVE"
  <2>1. PacketHandler(s, f) = DecodeDataPdu(s, f)
    BY <1>4 DEF PacketHandler, DataType, ReliableType
  <2>2. DecodeDataPdu(s, f) \in GoodCb /\ KeepsLink(s, DecodeDataPdu(s, f))
    BY DecodeDataPduGood, Zenon
  <2> QED
    BY <2>1, <2>2, KeepsLinkEffect, Zenon
<1>5. CASE f.type # "LINK_CTRL" /\ (f.type \notin DataType \cup {"ACK"} \/ s.linkState # "ACTIVE")
  <2>1. PacketHandler(s, f) = s
    BY <1>5 DEF PacketHandler
  <2>2. KeepsLink(s, s)
    BY DEF KeepsLink
  <2> QED
    BY <2>1, <2>2, KeepsLinkEffect, Zenon
<1> QED
  BY <1>2, <1>3, <1>4, <1>5

(* HCI_H5_Poll: the transmit part *)
LEMMA PollLinkGood ==
  ASSUME NEW s \in GoodCb, NEW timeout \in BOOLEAN
  PROVE  PollLink(s, timeout) \in GoodCb /\ LinkEffect(s, PollLink(s, timeout), "none")
<1>0. SUFFICES ASSUME NEW t, t = PollLink(s, timeout)
               PROVE  t \in GoodCb /\ LinkEffect(s, t, "none")
  OBVIOUS
<1>1. s.linkState \in {"IDLE", "INIT", "ACTIVE"}
  BY DEF GoodCb, ControlBlock, LinkState
<1>2. "SYNC" \in LinkMsg /\ "CONFIG" \in LinkMsg
  BY DEF LinkMsg
<1>3. CASE s.linkState = "IDLE" /\ timeout
  <2>1. t = SendLink(s, "SYNC")
    BY <1>0, <1>3 DEF PollLink
  <2>2. /\ t \in GoodCb
        /\ t.linkState = s.linkState
        /\ t.uartTx = s.uartTx \/ t.uartTx.msg = "SYNC"
    BY <1>2, <2>1, SendLinkGood, Zenon
  <2> QED
    BY <1>3, <2>2 DEF LinkEffect
<1>4. CASE s.linkState = "INIT" /\ timeout
  <2>1. t = SendLink(s, "CONFIG")
    BY <1>0, <1>4 DEF PollLink
  <2>2. /\ t \in GoodCb
        /\ t.linkState = s.linkState
        /\ t.uartTx = s.uartTx \/ t.uartTx.msg = "CONFIG"
    BY <1>2, <2>1, SendLinkGood, Zenon
  <2> QED
    BY <1>4, <2>2 DEF LinkEffect
<1>5. ASSUME NEW u \in GoodCb, KeepsLink(s, u), t = ResendStart(u)
      PROVE  t \in GoodCb /\ LinkEffect(s, t, "none")
  <2>1. ResendStart(u) \in GoodCb /\ KeepsLink(u, ResendStart(u))
    BY ResendStartGood, Zenon
  <2>2. t \in GoodCb /\ KeepsLink(s, t)
    BY <1>5, <2>1, KeepsLinkTrans, Zenon
  <2> QED
    BY <2>2, KeepsLinkEffect, Zenon
<1>6. CASE s.linkState = "ACTIVE" /\ s.resendTick /\ timeout
  <2> DEFINE u == [s EXCEPT !.resendTick = FALSE]
  <2>1. u \in GoodCb /\ KeepsLink(s, u)
    BY DEF GoodCb, ControlBlock, WindowOK, KeepsLink
  <2>2. t = ResendStart(u)
    BY <1>0, <1>6 DEF PollLink
  <2> HIDE DEF u
  <2> QED
    BY <1>5, <2>1, <2>2, Zenon
<1>7. CASE s.linkState = "ACTIVE" /\ ~s.resendTick /\ s.txSlidWinSize >= SlidWinSize /\ s.txTick /\ timeout
  <2> DEFINE u == [s EXCEPT !.txTick = FALSE]
  <2>1. u \in GoodCb /\ KeepsLink(s, u)
    BY DEF GoodCb, ControlBlock, WindowOK, KeepsLink
  <2>2. t = ResendStart(u)
    <3>1. ~(s.txSlidWinSize < SlidWinSize)
      BY <1>7, SlidWinAssumption DEF GoodCb, ControlBlock
    <3> QED
      BY <1>0, <1>7, <3>1 DEF PollLink
  <2> HIDE DEF u
  <2> QED
    BY <1>5, <2>1, <2>2, Zenon
<1>8. CASE s.linkState = "ACTIVE" /\ ~s.resendTick /\ s.txSlidWinSize < SlidWinSize
  <2>1. t = SendData(s)
    <3>1. ~(s.txSlidWinSize >= SlidWinSize)
      BY <1>8, SlidWinAssumption DEF GoodCb, ControlBlock
    <3> QED
      BY <1>0, <1>8, <3>1 DEF PollLink
  <2>2. SendData(s) \in GoodCb /\ KeepsLink(s, SendData(s))
    BY SendDataGood, Zenon
  <2> QED
    BY <2>1, <2>2, KeepsLinkEffect, Zenon
<1>9. ASSUME t = s PROVE t \in GoodCb /\ LinkEffect(s, t, "none")
  <2>1. KeepsLink(s, s)
    BY DEF KeepsLink
  <2> QED
    BY <1>9, <2>1, KeepsLinkEffect, Zenon
<1>10. CASE ~timeout /\ ~(s.linkState = "ACTIVE" /\ ~s.resendTick /\ s.txSlidWinSize < SlidWinSize)
  BY <1>0, <1>1, <1>9, <1>10 DEF PollLink
<1>11. CASE s.linkState = "ACTIVE" /\ ~s.resendTick /\ s.txSlidWinSize >= SlidWinSize /\ ~s.txTick
  <2>1. ~(s.txSlidWinSize < SlidWinSize)
    BY <1>11, SlidWinAssumption DEF GoodCb, ControlBlock
  <2> QED
    BY <1>0, <1>9, <1>11, <2>1 DEF PollLink
<1>12. s.txSlidWinSize < SlidWinSize \/ s.txSlidWinSize >= SlidWinSize
  BY SlidWinAssumption DEF GoodCb, ControlBlock
<1> QED
  BY <1>1, <1>3, <1>4, <1>6, <1>7, <1>8, <1>10, <1>11, <1>12

(* HCI_H5_Poll: the pure-ack handler *)
LEMMA PollPureAckGood ==
  ASSUME NEW s \in GoodCb
  PROVE  PollPureAck(s) \in GoodCb /\ KeepsLink(s, PollPureAck(s))
<1> DEFINE u == [s EXCEPT !.rxTick = FALSE, !.rxSlidWinSize = 0]
<1>1. u \in GoodCb /\ KeepsLink(s, u)
  BY DEF GoodCb, ControlBlock, WindowOK, KeepsLink
<1>2. PollPureAck(s) = SendPureAck(u)
  BY DEF PollPureAck
<1> HIDE DEF u
<1>3. SendPureAck(u) \in GoodCb /\ KeepsLink(u, SendPureAck(u))
  BY <1>1, SendPureAckGood, Zenon
<1> QED
  BY <1>1, <1>2, <1>3, KeepsLinkTrans, Zenon

(* HCI_RxHandler *)
LEMMA HciHandlerGood ==
  ASSUME NEW s \in GoodCb
  PROVE  /\ HciHandler(s) \in GoodCb
         /\ HciHandler(s).linkState = s.linkState
         /\ HciHandler(s).uartTx = s.uartTx
<1>1. CASE s.hciRx = <<>>
  BY <1>1 DEF HciHandler
<1>2. CASE s.hciRx # <<>>
  <2> DEFINE q == Tail(s.hciRx)
  <2>1. q \in Seq(Nat)
    BY <1>2 DEF GoodCb, ControlBlock
  <2>2. HciHandler(s) = [s EXCEPT !.hciRx = q]
    BY <1>2 DEF HciHandler, GoodCb, ControlBlock
  <2> HIDE DEF q
  <2> QED
    BY <2>1, <2>2 DEF GoodCb, ControlBlock, WindowOK
<1> QED
  BY <1>1, <1>2

-----------------------------------------------------------------------------
(* The type invariant and the window *)

(* What IInv says of the variables one by one.                             *)
LEMMA IInvGood ==
  IInv <=> /\ cb \in [Node -> GoodCb]
           /\ rxFifo \in [Node -> Seq(Frame)]
           /\ \A n \in Node : Len(rxFifo[n]) <= RxBufNum
           /\ pc \in [Node -> {"main", "ack"}]
           /\ lost \in 0..MaxLoss
           /\ restarts \in 0..MaxRestart
           /\ overrun \in BOOLEAN
  BY DEF IInv, TypeOK, WindowInFifo, GoodCb, WindowOK

(* The DMA never fills more receive buffers than there are. *)
LEMMA ReceiveType ==
  ASSUME NEW q \in Seq(Frame), Len(q) <= RxBufNum, NEW f \in Frame
  PROVE  Receive(q, f) \in Seq(Frame) /\ Len(Receive(q, f)) <= RxBufNum
<1>1. CASE Len(q) < RxBufNum
  BY <1>1, RxBufAssumption DEF Receive
<1>2. CASE ~(Len(q) < RxBufNum)
  <2>1. q # <<>> /\ Len(q) \in Nat \ {0}
    BY <1>2, RxBufAssumption
  <2>2. Tail(q) \in Seq(Frame) /\ Len(Tail(q)) = Len(q) - 1
    BY <2>1
  <2>3. <<f>> \in Seq(Frame) /\ Len(<<f>>) = 1
    OBVIOUS
  <2> DEFINE r == Tail(q)
             g == <<f>>
  <2>4. Receive(q, f) = g \o r
    BY <1>2 DEF Receive
  <2> HIDE DEF r, g
  <2>5. g \o r \in Seq(Frame) /\ Len(g \o r) = Len(g) + Len(r)
    BY <2>2, <2>3 DEF r, g
  <2> QED
    BY <2>1, <2>2, <2>3, <2>4, <2>5 DEF r, g
<1> QED
  BY <1>1, <1>2

(* The control block of a node after a restart *)
RestartCb(s) == [InitCb EXCEPT !.made = s.made, !.last = s.last, !.got = s.got,
                               !.dup = s.dup, !.rel = s.rel, !.drop = s.drop \cup Queued(s)]

(* A node that starts again is good.                                       *)
LEMMA RestartCbGood == ASSUME NEW s \in GoodCb PROVE RestartCb(s) \in GoodCb
<1>1. InitCb \in ControlBlock /\ WindowOK(InitCb)
  BY InitCbGood DEF GoodCb
<1>2. s.drop \cup Queued(s) \in SUBSET Nat
  BY QueuedType DEF GoodCb, ControlBlock
<1>3. /\ s.made \in Nat /\ s.last \in Nat /\ s.got \in SUBSET Nat
      /\ s.dup \in BOOLEAN /\ s.rel \in SUBSET Nat
  BY DEF GoodCb, ControlBlock
<1>4. RestartCb(s) \in ControlBlock
  BY <1>1, <1>2, <1>3, ZenonT(60) DEF RestartCb, ControlBlock
<1>5. /\ RestartCb(s).txSlidWinSize = InitCb.txSlidWinSize
      /\ RestartCb(s).txFifo = InitCb.txFifo
  BY DEF RestartCb, InitCb
<1> QED
  BY <1>1, <1>4, <1>5 DEF GoodCb, WindowOK

(* A sequence that is not empty is its head before its tail.               *)
LEMMA HeadTail ==
  ASSUME NEW S, NEW q \in Seq(S), q # <<>>
  PROVE  /\ Head(q) \in S /\ Tail(q) \in Seq(S) /\ Len(Tail(q)) = Len(q) - 1
         /\ Head(q) = q[1] /\ Len(q) \in Nat \ {0}
         /\ \A i \in 1..Len(Tail(q)) : Tail(q)[i] = q[i + 1]
  OBVIOUS

(* Every step keeps the invariant,                                         *)
LEMMA IInvNext == IInv /\ [Next]_vars => IInv'
<1> DEFINE Typed == /\ cb \in [Node -> GoodCb]
                    /\ rxFifo \in [Node -> Seq(Frame)]
                    /\ \A n \in Node : Len(rxFifo[n]) <= RxBufNum
                    /\ pc \in [Node -> {"main", "ack"}]
                    /\ lost \in 0..MaxLoss
                    /\ restarts \in 0..MaxRestart
                    /\ overrun \in BOOLEAN
<1>1. IInv <=> Typed
  BY IInvGood
<1>2. IInv' <=> Typed'
  BY <1>1, PTL
<1>3. SUFFICES ASSUME Typed, [Next]_vars PROVE Typed'
  BY <1>1, <1>2
<1>4. CASE UNCHANGED vars
  BY <1>3, <1>4 DEF vars
<1>5. ASSUME NEW n \in Node, RxFrame(n) PROVE Typed'
  <2>1. Head(rxFifo[n]) \in Frame /\ Tail(rxFifo[n]) \in Seq(Frame)
        /\ Len(Tail(rxFifo[n])) <= RxBufNum
    BY <1>3, <1>5, HeadTail, RxBufAssumption DEF RxFrame
  <2>2. PacketHandler(cb[n], Head(rxFifo[n])) \in GoodCb
    BY <1>3, <2>1, PacketHandlerGood
  <2> QED
    BY <1>3, <1>5, <2>1, <2>2 DEF RxFrame
<1>6. ASSUME NEW n \in Node, HciEvent(n) PROVE Typed'
  <2>1. PICK t \in PktType :
          cb' = [cb EXCEPT ![n].txFifo = Append(@, [type |-> t, id |-> cb[n].made + 1]),
                           ![n].made = @ + 1]
    BY <1>6 DEF HciEvent
  <2> DEFINE s == cb[n]
             p == [type |-> t, id |-> s.made + 1]
             q == Append(s.txFifo, p)
             u == [s EXCEPT !.txFifo = q, !.made = s.made + 1]
  <2>2. cb' = [cb EXCEPT ![n] = u]
    BY <1>3, <2>1
  <2>3. s \in GoodCb
    BY <1>3
  <2> HIDE DEF s
  <2>4. s.made + 1 \in Nat /\ s.txFifo \in Seq(Pkt)
    BY <2>3 DEF GoodCb, ControlBlock
  <2>5. p \in Pkt
    BY <2>4, PktTypeAssumption DEF Pkt
  <2> HIDE DEF p
  <2>6. q \in Seq(Pkt) /\ Len(q) = Len(s.txFifo) + 1 /\ Len(s.txFifo) \in Nat
    BY <2>4, <2>5
  <2> HIDE DEF q
  <2>7. u \in ControlBlock
    BY <2>3, <2>4, <2>6, ZenonT(60) DEF GoodCb, ControlBlock
  <2>8. u.txFifo = q /\ u.txSlidWinSize = s.txSlidWinSize
    BY <2>3 DEF GoodCb, ControlBlock
  <2>9. s.txSlidWinSize \in 0..7 /\ WindowOK(s)
    BY <2>3 DEF GoodCb, ControlBlock
  <2> HIDE DEF u
  <2>10. u \in GoodCb
    BY <2>6, <2>7, <2>8, <2>9, SlidWinAssumption DEF GoodCb, WindowOK
  <2> QED
    BY <1>3, <1>6, <2>2, <2>10 DEF HciEvent
<1>7. ASSUME NEW n \in Node, NEW timeout \in BOOLEAN, Poll(n, timeout) PROVE Typed'
  <2> DEFINE s == PollLink(cb[n], timeout)
  <2>1. s \in GoodCb
    BY <1>3, PollLinkGood
  <2>2. HciHandler(s) \in GoodCb
    BY <2>1, HciHandlerGood
  <2>3. /\ \/ cb' = [cb EXCEPT ![n] = s] /\ pc' = [pc EXCEPT ![n] = "ack"]
           \/ cb' = [cb EXCEPT ![n] = HciHandler(s)] /\ pc' = pc
        /\ UNCHANGED <<rxFifo, lost, restarts, overrun>>
    BY <1>7 DEF Poll
  <2> HIDE DEF s
  <2> QED
    BY <1>3, <2>1, <2>2, <2>3
<1>8. ASSUME NEW n \in Node, NEW timeout \in BOOLEAN, PollAck(n, timeout) PROVE Typed'
  <2> DEFINE s == IF timeout THEN PollPureAck(cb[n]) ELSE cb[n]
  <2>1. s \in GoodCb
    BY <1>3, PollPureAckGood
  <2>2. HciHandler(s) \in GoodCb
    BY <2>1, HciHandlerGood
  <2> QED
    BY <1>3, <1>8, <2>2 DEF PollAck
<1>9. ASSUME NEW s \in GoodCb PROVE [s EXCEPT !.uartTx = NoFrame] \in GoodCb
  BY NoFrameType DEF GoodCb, ControlBlock, WindowOK
<1>10. ASSUME NEW n \in Node, UartTxDone(n) PROVE Typed'
  <2>1. cb[n].uartTx \in Frame /\ Peer(n) \in Node
    BY <1>3, SMTT(30) DEF GoodCb, ControlBlock
  <2>2. /\ Receive(rxFifo[Peer(n)], cb[n].uartTx) \in Seq(Frame)
        /\ Len(Receive(rxFifo[Peer(n)], cb[n].uartTx)) <= RxBufNum
    BY <1>3, <2>1, ReceiveType
  <2>3. cb' = [cb EXCEPT ![n] = [cb[n] EXCEPT !.uartTx = NoFrame]]
    BY <1>3, <1>10 DEF UartTxDone
  <2>4. [cb[n] EXCEPT !.uartTx = NoFrame] \in GoodCb
    BY <1>3, <1>9
  <2>5. cb' \in [Node -> GoodCb]
    BY <1>3, <2>3, <2>4
  <2>6. rxFifo' \in [Node -> Seq(Frame)] /\ \A m \in Node : Len(rxFifo'[m]) <= RxBufNum
    BY <1>3, <1>10, <2>1, <2>2 DEF UartTxDone
  <2>7. overrun' \in BOOLEAN
    BY <1>10 DEF UartTxDone
  <2> QED
    BY <1>3, <1>10, <2>5, <2>6, <2>7 DEF UartTxDone
<1>11. ASSUME NEW n \in Node, Lose(n) PROVE Typed'
  <2>1. cb' = [cb EXCEPT ![n] = [cb[n] EXCEPT !.uartTx = NoFrame]]
    BY <1>3, <1>11 DEF Lose
  <2>2. [cb[n] EXCEPT !.uartTx = NoFrame] \in GoodCb
    BY <1>3, <1>9
  <2>3. cb' \in [Node -> GoodCb]
    BY <1>3, <2>1, <2>2
  <2>4. lost' \in 0..MaxLoss
    BY <1>3, <1>11, BoundAssumption DEF Lose
  <2> QED
    BY <1>3, <1>11, <2>3, <2>4 DEF Lose
<1>12. ASSUME NEW n \in Node, Restart(n) PROVE Typed'
  <2>1. cb' = [cb EXCEPT ![n] = RestartCb(cb[n])]
    BY <1>12 DEF Restart, RestartCb
  <2>2. RestartCb(cb[n]) \in GoodCb
    BY <1>3, RestartCbGood
  <2>3. cb' \in [Node -> GoodCb]
    BY <1>3, <2>1, <2>2
  <2>4. restarts' \in 0..MaxRestart
    BY <1>3, <1>12, BoundAssumption DEF Restart
  <2>5. rxFifo' \in [Node -> Seq(Frame)] /\ \A m \in Node : Len(rxFifo'[m]) <= RxBufNum
    BY <1>3, <1>12, RxBufAssumption DEF Restart
  <2> QED
    BY <1>3, <1>12, <2>3, <2>4, <2>5 DEF Restart
<1> HIDE DEF Typed
<1> QED
  BY <1>3, <1>4, <1>5, <1>6, <1>7, <1>8, <1>10, <1>11, <1>12 DEF Next

(* the initial states satisfy it,                                          *)
LEMMA IInvInit == Init => IInv
<1>1. SUFFICES ASSUME Init PROVE IInv
  OBVIOUS
<1>2. cb \in [Node -> GoodCb]
  BY <1>1, InitCbGood DEF Init
<1>3. rxFifo \in [Node -> Seq(Frame)] /\ \A n \in Node : Len(rxFifo[n]) <= RxBufNum
  BY <1>1, RxBufAssumption DEF Init
<1>4. lost \in 0..MaxLoss /\ restarts \in 0..MaxRestart
  BY <1>1, BoundAssumption DEF Init
<1> QED
  BY <1>1, <1>2, <1>3, <1>4, IInvGood DEF Init

(* and it always holds.                                                    *)
LEMMA IInvAlways == Spec => []IInv
  BY IInvInit, IInvNext, PTL DEF Spec

(* Type correctness: the control blocks, the receive buffers and the       *)
(* counters keep their shape, and no more receive buffers are used than    *)
(* HCI_H5_TR_RX_BUF_NUM, for every window, buffer count and bound.         *)
THEOREM TypeCorrect == Spec => []TypeOK
  BY IInvAlways, PTL DEF IInv

(* The window of HCI_H5_SendData never leaves the tx FIFO: rptr is only    *)
(* ever moved over packets that exist.                                     *)
THEOREM WindowSafe == Spec => []WindowInFifo
  BY IInvAlways, PTL DEF IInv

-----------------------------------------------------------------------------
(* The link stays up *)

(* What links the state ls of a node, the state lp of its peer, and the    *)
(* frames from the node to the peer: q in the peer's buffers, then u in    *)
(* the transmitter.  A SYNC is never behind a CONFIG_RSP.                  *)
LinkOK(ls, lp, q, u) ==
  /\ ls = "IDLE" => /\ lp # "ACTIVE"
                    /\ u.msg # "CONFIG_RSP"
                    /\ \A i \in 1..Len(q) : q[i].msg # "CONFIG_RSP"
  /\ lp = "ACTIVE" => /\ u.msg # "SYNC"
                      /\ \A i \in 1..Len(q) : q[i].msg # "SYNC"
  /\ u.msg = "SYNC" => \A i \in 1..Len(q) : q[i].msg # "CONFIG_RSP"
  /\ \A i, j \in 1..Len(q) : i < j /\ q[i].msg = "CONFIG_RSP" => q[j].msg # "SYNC"

LinkInv == (restarts = 0 /\ ~overrun) =>
  \A n \in Node : LinkOK(cb[n].linkState, cb[Peer(n)].linkState, rxFifo[Peer(n)], cb[n].uartTx)

(* A handler's effect on the outgoing direction *)
LEMMA LinkOut ==
  ASSUME NEW s, NEW t, NEW msg, NEW lp, NEW q,
         LinkEffect(s, t, msg), LinkOK(s.linkState, lp, q, s.uartTx),
         ~(s.linkState = "ACTIVE" /\ msg = "SYNC")
  PROVE  LinkOK(t.linkState, lp, q, t.uartTx)
  BY Zenon DEF LinkEffect, LinkOK

(* A handler's effect on the incoming direction *)
LEMMA LinkIn ==
  ASSUME NEW s, NEW t, NEW ls, NEW q, NEW u,
         LinkEffect(s, t, "none"), LinkOK(ls, s.linkState, q, u)
  PROVE  LinkOK(ls, t.linkState, q, u)
  BY DEF LinkEffect, LinkOK

(* A node takes the oldest frame out of its receive buffers: the link      *)
(* invariant of its direction survives.                                    *)
LEMMA LinkInRx ==
  ASSUME NEW s, NEW t, NEW ls, NEW q \in Seq(Frame), NEW u, q # <<>>,
         LinkEffect(s, t, Head(q).msg), LinkOK(ls, s.linkState, q, u)
  PROVE  LinkOK(ls, t.linkState, Tail(q), u)
<1> DEFINE r == Tail(q)
<1>1. /\ Head(q) = q[1] /\ Len(q) \in Nat \ {0} /\ Len(r) = Len(q) - 1
      /\ \A i \in 1..Len(r) : r[i] = q[i + 1] /\ i + 1 \in 1..Len(q)
  BY HeadTail
<1> HIDE DEF r
<1>2. 1 \in 1..Len(q) /\ Len(r) \in Nat
  BY <1>1
<1>3. t.linkState = "ACTIVE" => s.linkState = "ACTIVE" \/ q[1].msg = "CONFIG_RSP"
  BY <1>1 DEF LinkEffect
<1>4. ls = "IDLE" => /\ t.linkState # "ACTIVE"
                     /\ u.msg # "CONFIG_RSP"
                     /\ \A i \in 1..Len(r) : r[i].msg # "CONFIG_RSP"
  BY <1>1, <1>2, <1>3 DEF LinkOK
<1>5. t.linkState = "ACTIVE" => /\ u.msg # "SYNC"
                                /\ \A i \in 1..Len(r) : r[i].msg # "SYNC"
  <2>1. ASSUME q[1].msg = "CONFIG_RSP", NEW i \in 1..Len(r) PROVE r[i].msg # "SYNC"
    <3>1. 1 < i + 1 /\ i + 1 \in 1..Len(q) /\ r[i] = q[i + 1]
      BY <1>1, <1>2
    <3> QED
      BY <1>2, <2>1, <3>1 DEF LinkOK
  <2>2. q[1].msg = "CONFIG_RSP" => u.msg # "SYNC"
    BY <1>2 DEF LinkOK
  <2>3. s.linkState = "ACTIVE" => /\ u.msg # "SYNC"
                                  /\ \A i \in 1..Len(r) : r[i].msg # "SYNC"
    BY <1>1 DEF LinkOK
  <2> QED
    BY <1>3, <2>1, <2>2, <2>3
<1>6. u.msg = "SYNC" => \A i \in 1..Len(r) : r[i].msg # "CONFIG_RSP"
  BY <1>1 DEF LinkOK
<1>7. ASSUME NEW i \in 1..Len(r), NEW j \in 1..Len(r), i < j, r[i].msg = "CONFIG_RSP"
      PROVE  r[j].msg # "SYNC"
  <2>1. i + 1 < j + 1
    BY <1>2, <1>7
  <2> QED
    BY <1>1, <1>7, <2>1 DEF LinkOK
<1> QED
  BY <1>4, <1>5, <1>6, <1>7, Zenon DEF LinkOK, r

(* A frame moves from the transmitter to the end of the receive buffers *)
LEMMA LinkDeliver ==
  ASSUME NEW ls, NEW lp, NEW q \in Seq(Frame), NEW u \in Frame, LinkOK(ls, lp, q, u)
  PROVE  LinkOK(ls, lp, Append(q, u), NoFrame)
<1> DEFINE r == Append(q, u)
<1>1. /\ Len(q) \in Nat /\ Len(r) = Len(q) + 1
      /\ \A i \in 1..Len(q) : r[i] = q[i]
      /\ r[Len(q) + 1] = u
  OBVIOUS
<1>2. NoFrame.msg = "none"
  BY DEF NoFrame
<1> HIDE DEF r
<1>3. \A i \in 1..Len(r) : i \in 1..Len(q) \/ i = Len(q) + 1
  BY <1>1
<1>4. ASSUME NEW i \in 1..Len(r), NEW j \in 1..Len(r), i < j, r[i].msg = "CONFIG_RSP"
      PROVE  r[j].msg # "SYNC"
  <2>1. i \in 1..Len(q)
    BY <1>1, <1>4
  <2>2. CASE j \in 1..Len(q)
    BY <1>1, <1>4, <2>1, <2>2 DEF LinkOK
  <2>3. CASE j = Len(q) + 1
    BY <1>1, <1>4, <2>1, <2>3 DEF LinkOK
  <2> QED
    BY <1>3, <2>2, <2>3
<1>5. ls = "IDLE" => lp # "ACTIVE" /\ \A i \in 1..Len(r) : r[i].msg # "CONFIG_RSP"
  BY <1>1, <1>3 DEF LinkOK
<1>6. lp = "ACTIVE" => \A i \in 1..Len(r) : r[i].msg # "SYNC"
  BY <1>1, <1>3 DEF LinkOK
<1> QED
  BY <1>2, <1>4, <1>5, <1>6 DEF LinkOK, r

(* Taking a frame out of the line keeps the link invariant.                *)
LEMMA LinkDrop ==
  ASSUME NEW ls, NEW lp, NEW q, NEW u, LinkOK(ls, lp, q, u)
  PROVE  LinkOK(ls, lp, q, NoFrame)
<1>1. NoFrame.msg = "none"
  BY DEF NoFrame
<1> QED
  BY <1>1 DEF LinkOK

(* The action property of LinkStaysUp, as one step *)
StaysUp == \A n \in Node :
  (cb[n].linkState = "ACTIVE" /\ restarts' = 0 /\ ~overrun) => cb'[n].linkState = "ACTIVE"

Direction(n) == LinkOK(cb[n].linkState, cb[Peer(n)].linkState, rxFifo[Peer(n)], cb[n].uartTx)

(* A step that brings no SYNC to an active node leaves it active.          *)
LEMMA StaysActive ==
  ASSUME NEW s, NEW t, NEW msg, LinkEffect(s, t, msg),
         ~(s.linkState = "ACTIVE" /\ msg = "SYNC")
  PROVE  s.linkState = "ACTIVE" => t.linkState = "ACTIVE"
  BY DEF LinkEffect

(* A step in which the control block of node n becomes t without a receive *)
LEMMA LinkStep ==
  ASSUME IInv, LinkInv, NEW n \in Node, NEW t, LinkEffect(cb[n], t, "none"),
         cb' = [cb EXCEPT ![n] = t], UNCHANGED <<rxFifo, restarts, overrun>>
  PROVE  LinkInv' /\ StaysUp
<1> DEFINE m == Peer(n)
<1>1. m \in Node /\ m # n /\ Peer(m) = n /\ \A k \in Node : k = n \/ k = m
  OBVIOUS
<1> HIDE DEF m
<1>2. cb'[n] = t /\ cb'[m] = cb[m]
  BY <1>1, IInvGood
<1>3. cb[n].linkState = "ACTIVE" => t.linkState = "ACTIVE"
  BY StaysActive
<1>4. StaysUp
  BY <1>1, <1>2, <1>3 DEF StaysUp
<1>5. ASSUME restarts = 0, ~overrun
      PROVE  /\ LinkOK(t.linkState, cb[m].linkState, rxFifo[m], t.uartTx)
             /\ LinkOK(cb[m].linkState, t.linkState, rxFifo[n], cb[m].uartTx)
  <2>1. /\ LinkOK(cb[n].linkState, cb[m].linkState, rxFifo[m], cb[n].uartTx)
        /\ LinkOK(cb[m].linkState, cb[n].linkState, rxFifo[n], cb[m].uartTx)
    BY <1>1, <1>5 DEF LinkInv, m
  <2>2. ~(cb[n].linkState = "ACTIVE" /\ "none" = "SYNC")
    OBVIOUS
  <2> QED
    BY <2>1, <2>2, LinkOut, LinkIn, Zenon
<1>6. LinkInv'
  BY <1>1, <1>2, <1>5 DEF LinkInv, m
<1> QED
  BY <1>4, <1>6

(* A step in which node n takes a frame from its receive buffers *)
LEMMA LinkRxStep ==
  ASSUME IInv, LinkInv, NEW n \in Node, RxFrame(n)
  PROVE  LinkInv' /\ StaysUp
<1> DEFINE m == Peer(n)
           q == rxFifo[n]
           t == PacketHandler(cb[n], Head(q))
<1>1. m \in Node /\ m # n /\ Peer(m) = n /\ \A k \in Node : k = n \/ k = m
  OBVIOUS
<1>2. q \in Seq(Frame) /\ q # <<>> /\ cb[n] \in GoodCb
  BY IInvGood DEF RxFrame
<1>3. Head(q) \in Frame /\ Head(q) = q[1] /\ 1 \in 1..Len(q)
  <2>1. Head(q) \in Frame /\ Head(q) = q[1] /\ Len(q) \in Nat \ {0}
    BY <1>2, HeadTail
  <2> QED
    BY <2>1
<1>4. LinkEffect(cb[n], t, Head(q).msg)
  BY <1>2, <1>3, PacketHandlerGood, Zenon
<1>5. /\ cb' = [cb EXCEPT ![n] = t]
      /\ rxFifo' = [rxFifo EXCEPT ![n] = Tail(q)]
      /\ UNCHANGED <<restarts, overrun>>
  BY DEF RxFrame
<1> HIDE DEF m, q, t
<1>6. cb'[n] = t /\ cb'[m] = cb[m] /\ rxFifo'[n] = Tail(q) /\ rxFifo'[m] = rxFifo[m]
  BY <1>1, <1>5, IInvGood
<1>7. ASSUME restarts = 0, ~overrun
      PROVE  /\ LinkOK(t.linkState, cb[m].linkState, rxFifo[m], t.uartTx)
             /\ LinkOK(cb[m].linkState, t.linkState, Tail(q), cb[m].uartTx)
             /\ cb[n].linkState = "ACTIVE" => t.linkState = "ACTIVE"
  <2>1. /\ LinkOK(cb[n].linkState, cb[m].linkState, rxFifo[m], cb[n].uartTx)
        /\ LinkOK(cb[m].linkState, cb[n].linkState, q, cb[m].uartTx)
    BY <1>1, <1>7 DEF LinkInv, m, q
  <2>2. ~(cb[n].linkState = "ACTIVE" /\ Head(q).msg = "SYNC")
    BY <1>3, <2>1 DEF LinkOK
  <2>3. cb[n].linkState = "ACTIVE" => t.linkState = "ACTIVE"
    BY <1>4, <2>2, StaysActive, Zenon
  <2>4. LinkOK(t.linkState, cb[m].linkState, rxFifo[m], t.uartTx)
    BY <1>4, <2>1, <2>2, LinkOut, Zenon
  <2>5. LinkOK(cb[m].linkState, t.linkState, Tail(q), cb[m].uartTx)
    BY <1>2, <1>4, <2>1, LinkInRx, Zenon
  <2> QED
    BY <2>3, <2>4, <2>5
<1>8. StaysUp
  BY <1>1, <1>5, <1>6, <1>7 DEF StaysUp
<1>9. LinkInv'
  BY <1>1, <1>5, <1>6, <1>7 DEF LinkInv, m
<1> QED
  BY <1>8, <1>9

(* A step in which node n's transmitter is emptied *)
LEMMA LinkTxStep ==
  ASSUME IInv, LinkInv, NEW n \in Node, UartTxDone(n) \/ Lose(n)
  PROVE  LinkInv' /\ StaysUp
<1> DEFINE m == Peer(n)
           q == rxFifo[m]
           u == cb[n].uartTx
<1>1. m \in Node /\ m # n /\ Peer(m) = n /\ \A k \in Node : k = n \/ k = m
  OBVIOUS
<1>2. q \in Seq(Frame) /\ u \in Frame /\ Len(q) <= RxBufNum
  BY <1>1, IInvGood DEF GoodCb, ControlBlock
<1>3. cb' = [cb EXCEPT ![n].uartTx = NoFrame] /\ restarts' = restarts
  BY DEF UartTxDone, Lose
<1>4. /\ cb'[n].linkState = cb[n].linkState
      /\ cb'[n].uartTx = NoFrame
      /\ cb'[m] = cb[m]
  BY <1>1, <1>3, IInvGood DEF GoodCb, ControlBlock
<1>5. StaysUp
  BY <1>1, <1>4 DEF StaysUp
<1>6. rxFifo'[n] = rxFifo[n] /\ (overrun => overrun')
  BY <1>1, IInvGood DEF UartTxDone, Lose
<1>7. rxFifo'[m] = q \/ (rxFifo'[m] = Append(q, u) \/ overrun')
  <2>1. CASE Lose(n)
    BY <2>1 DEF Lose
  <2>2. CASE UartTxDone(n)
    <3>1. CASE Len(q) = RxBufNum
      BY <2>2, <3>1 DEF UartTxDone
    <3>2. CASE Len(q) < RxBufNum
      <4>1. Receive(q, u) = Append(q, u)
        BY <3>2 DEF Receive
      <4> QED
        BY <1>1, <2>2, <4>1, IInvGood DEF UartTxDone
    <3> QED
      BY <1>2, <3>1, <3>2, RxBufAssumption
  <2> QED
    BY <2>1, <2>2
<1> HIDE DEF m, q, u
<1>8. ASSUME restarts = 0, ~overrun, ~overrun'
      PROVE  /\ LinkOK(cb[n].linkState, cb[m].linkState, rxFifo'[m], NoFrame)
             /\ LinkOK(cb[m].linkState, cb[n].linkState, rxFifo[n], cb[m].uartTx)
  <2>1. /\ LinkOK(cb[n].linkState, cb[m].linkState, q, u)
        /\ LinkOK(cb[m].linkState, cb[n].linkState, rxFifo[n], cb[m].uartTx)
    BY <1>1, <1>8 DEF LinkInv, m, q, u
  <2>2. LinkOK(cb[n].linkState, cb[m].linkState, q, NoFrame)
    BY <2>1, LinkDrop, Zenon
  <2>3. LinkOK(cb[n].linkState, cb[m].linkState, Append(q, u), NoFrame)
    BY <1>2, <2>1, LinkDeliver, Zenon
  <2> QED
    BY <1>7, <1>8, <2>1, <2>2, <2>3
<1>9. LinkInv'
  <2>1. SUFFICES ASSUME restarts' = 0, ~overrun' PROVE (\A k \in Node : Direction(k))'
    BY DEF LinkInv, Direction
  <2>2. restarts = 0 /\ ~overrun
    BY <1>3, <1>6, <2>1
  <2> QED
    BY <1>1, <1>4, <1>6, <1>8, <2>1, <2>2 DEF Direction, m
<1> QED
  BY <1>5, <1>9

(* Every step keeps the link invariant,                                    *)
LEMMA LinkNext == IInv /\ LinkInv /\ [Next]_vars => LinkInv' /\ StaysUp
<1>1. SUFFICES ASSUME IInv, LinkInv, [Next]_vars PROVE LinkInv' /\ StaysUp
  OBVIOUS
<1>2. cb \in [Node -> GoodCb]
  BY <1>1, IInvGood
<1>3. CASE UNCHANGED vars
  BY <1>1, <1>3 DEF vars, LinkInv, StaysUp
<1>4. ASSUME NEW n \in Node, RxFrame(n) PROVE LinkInv' /\ StaysUp
  BY <1>1, <1>4, LinkRxStep
<1>5. ASSUME NEW n \in Node, HciEvent(n) PROVE LinkInv' /\ StaysUp
  <2>1. PICK t \in PktType :
          cb' = [cb EXCEPT ![n].txFifo = Append(@, [type |-> t, id |-> cb[n].made + 1]),
                           ![n].made = @ + 1]
    BY <1>5 DEF HciEvent
  <2>2. \A k \in Node : cb'[k].linkState = cb[k].linkState /\ cb'[k].uartTx = cb[k].uartTx
    BY <1>2, <2>1 DEF GoodCb, ControlBlock
  <2>3. UNCHANGED <<rxFifo, restarts, overrun>>
    BY <1>5 DEF HciEvent
  <2> QED
    BY <1>1, <2>2, <2>3 DEF LinkInv, StaysUp
<1>6. ASSUME NEW n \in Node, NEW timeout \in BOOLEAN, Poll(n, timeout) PROVE LinkInv' /\ StaysUp
  <2> DEFINE s == PollLink(cb[n], timeout)
  <2>1. s \in GoodCb /\ LinkEffect(cb[n], s, "none")
    BY <1>2, PollLinkGood
  <2>2. PICK t \in {s, HciHandler(s)} : cb' = [cb EXCEPT ![n] = t]
    BY <1>6 DEF Poll
  <2> HIDE DEF s
  <2>3. LinkEffect(cb[n], t, "none")
    BY <2>1, <2>2, HciHandlerGood DEF LinkEffect
  <2>4. UNCHANGED <<rxFifo, restarts, overrun>>
    BY <1>6 DEF Poll
  <2> QED
    BY <1>1, <2>2, <2>3, <2>4, LinkStep
<1>7. ASSUME NEW n \in Node, NEW timeout \in BOOLEAN, PollAck(n, timeout) PROVE LinkInv' /\ StaysUp
  <2> DEFINE s == IF timeout THEN PollPureAck(cb[n]) ELSE cb[n]
  <2>1. cb[n] \in GoodCb
    BY <1>2
  <2>2. s \in GoodCb /\ KeepsLink(cb[n], s)
    <3>1. KeepsLink(cb[n], cb[n])
      BY DEF KeepsLink
    <3> QED
      BY <2>1, <3>1, PollPureAckGood
  <2>3. cb' = [cb EXCEPT ![n] = HciHandler(s)]
    BY <1>2, <1>7 DEF PollAck
  <2> HIDE DEF s
  <2>4. LinkEffect(cb[n], s, "none")
    BY <2>1, <2>2, KeepsLinkEffect, Zenon
  <2>5. LinkEffect(cb[n], HciHandler(s), "none")
    BY <2>2, <2>4, HciHandlerGood DEF LinkEffect
  <2>6. UNCHANGED <<rxFifo, restarts, overrun>>
    BY <1>7 DEF PollAck
  <2> QED
    BY <1>1, <2>3, <2>5, <2>6, LinkStep
<1>8. ASSUME NEW n \in Node, UartTxDone(n) \/ Lose(n) PROVE LinkInv' /\ StaysUp
  BY <1>1, <1>8, LinkTxStep
<1>9. ASSUME NEW n \in Node, Restart(n) PROVE LinkInv' /\ StaysUp
  <2>1. restarts' # 0
    BY <1>1, <1>9, IInvGood, BoundAssumption DEF Restart
  <2> QED
    BY <2>1 DEF LinkInv, StaysUp
<1> QED
  BY <1>1, <1>3, <1>4, <1>5, <1>6, <1>7, <1>8, <1>9 DEF Next

(* which the initial states satisfy.                                       *)
LEMMA LinkInit == Init => LinkInv
<1>1. InitCb.linkState = "IDLE" /\ InitCb.uartTx.msg = "none"
  BY DEF InitCb, NoFrame
<1> QED
  BY <1>1 DEF Init, LinkInv, LinkOK

(* A link that is up stays up: without restarts and with no receive        *)
(* overrun no SYNC can reach an active node in HCI_H5_DecodeLinkPdu,       *)
(* whatever frames are lost, delayed or crossed during establishment.      *)
THEOREM ActiveLinkStaysUp == Spec => LinkStaysUp
<1>1. IInv /\ LinkInv /\ [Next]_vars => [StaysUp]_vars
  BY LinkNext
<1>2. Spec => []LinkInv
  BY IInvAlways, LinkInit, LinkNext, PTL DEF Spec
<1>3. Spec => [][StaysUp]_vars
  BY <1>1, <1>2, IInvAlways, PTL DEF Spec
<1> QED
  BY <1>3 DEF LinkStaysUp, StaysUp

-----------------------------------------------------------------------------
(* The data protocol *)

(* No restart and no receive overrun so far *)
Calm == restarts = 0 /\ ~overrun

(* The next and the previous 3-bit number *)
Nxt(x) == (x + 1) % 8
Prv(x) == (x + 7) % 8

(* Frames with a sequence number, and frames with an acknowledgement       *)
IsData(f) == f.type \in ReliableType
IsAck(f)  == f.type \in ReliableType \cup {"ACK"}

(* The frames on their way: q in the receive buffers, u in the transmitter *)
Chan(q, u) == IF u = NoFrame THEN q ELSE Append(q, u)
Wire(n)    == Chan(rxFifo[Peer(n)], cb[n].uartTx)

(* One direction: a sender, whose rxAck is x, and a receiver, whose txAck  *)
(* is a, with the frames c to the receiver and d to the sender.            *)

(* The receiver is in step with the sender, or one packet ahead of what    *)
(* the sender knows; acknowledgements under way say one or the other, the  *)
(* newer ones last.                                                        *)
Acks(x, a, d) ==
  /\ a = x \/ a = Nxt(x)
  /\ \A i \in 1..Len(d) : IsAck(d[i]) => d[i].ack = x \/ d[i].ack = a
  /\ \A i, j \in 1..Len(d) :
       i < j /\ IsAck(d[i]) /\ IsAck(d[j]) /\ d[i].ack = a => d[j].ack = a

(* Packets under way have the number x, and are then the oldest one of the *)
(* FIFO q, or the number before, and then come first.  If the receiver is  *)
(* ahead it has that packet and the former ones have passed.               *)
Data(x, a, c, q, got) ==
  /\ \A i \in 1..Len(c) : IsData(c[i]) => c[i].seq = x \/ c[i].seq = Prv(x)
  /\ \A i, j \in 1..Len(c) :
       i < j /\ IsData(c[i]) /\ IsData(c[j]) /\ c[i].seq = x => c[j].seq = x
  /\ \A i \in 1..Len(c) : IsData(c[i]) /\ c[i].seq = x => q # <<>> /\ c[i].id = q[1].id
  /\ a # x => /\ q # <<>> /\ q[1].id \in got
              /\ \A i \in 1..Len(c) : IsData(c[i]) => c[i].seq = x

(* The sender's txSeq t and window w.  The last case is a window that was  *)
(* emptied by HCI_H5_ResendStart on a busy transmitter and acknowledged    *)
(* afterwards: the packet will be sent again, under the new number.        *)
Win(x, a, t, w, late, c) ==
  \/ w = 1 /\ t = Nxt(x)
  \/ w = 0 /\ t = x
  \/ /\ w = 0 /\ t = Prv(x) /\ late /\ a = x
     /\ \A i \in 1..Len(c) : IsData(c[i]) => c[i].seq # x

(* A packet in the receiver's HCI rx FIFO h was not acknowledged yet.      *)
Unread(h, x, a, d) ==
  h # <<>> => /\ Len(h) = 1 /\ a # x
              /\ \A i \in 1..Len(d) : IsAck(d[i]) => d[i].ack # a

(* The FIFO holds the last of the packets made, in their order; all before *)
(* were handed over or dropped by a reset.                                 *)
Ids(q, made, rel, drop, got, last) ==
  /\ Len(q) <= made
  /\ \A i \in 1..Len(q) : q[i].id = made - Len(q) + i /\ q[i].type \in ReliableType
  /\ \A k \in 1..made - Len(q) : k \in got \/ k \in drop
  /\ rel \subseteq got
  /\ \/ last <= made - Len(q)
     \/ q # <<>> /\ last = made - Len(q) + 1 /\ last \in got

Dir(s, r, c, d) ==
  /\ Acks(s.rxAck, r.txAck, d)
  /\ Data(s.rxAck, r.txAck, c, s.txFifo, r.got)
  /\ Win(s.rxAck, r.txAck, s.txSeq, s.txSlidWinSize, s.resendTick, c)
  /\ Unread(r.hciRx, s.rxAck, r.txAck, d)
  /\ Ids(s.txFifo, s.made, s.rel, s.drop, r.got, r.last)
  /\ \A i \in 1..Len(c) : c[i].type # "SCO"

(* Before it is active a node s has numbered nothing, and its peer r has   *)
(* seen no number of it.                                                   *)
Down(s, r, c) ==
  s.linkState # "ACTIVE" =>
    /\ s.txSeq = 0 /\ s.txAck = 0 /\ s.rxAck = 0
    /\ s.txSlidWinSize = 0 /\ ~s.resendTick /\ s.hciRx = <<>>
    /\ r.txAck = 0 /\ r.rxAck = 0
    /\ \A i \in 1..Len(c) : ~IsAck(c[i])

FlowAt(n) ==
  /\ Dir(cb[n], cb[Peer(n)], Wire(n), Wire(Peer(n)))
  /\ Down(cb[n], cb[Peer(n)], Wire(n))
  /\ pc[n] = "ack" => cb[n].linkState = "ACTIVE"

Flow == Calm => \A n \in Node : FlowAt(n)

-----------------------------------------------------------------------------
(* The 3-bit numbers around x are different.                               *)
LEMMA Around ==
  ASSUME NEW x \in SeqNum
  PROVE  /\ Nxt(x) \in SeqNum /\ Prv(x) \in SeqNum
         /\ Nxt(x) # x /\ Prv(x) # x /\ Nxt(x) # Prv(x)
         /\ Prv(Nxt(x)) = x /\ Nxt(Prv(x)) = x
  BY DEF Nxt, Prv, SeqNum

(* e is c without its first frame (k = 1) or without its last one (k = 0), *)
(* or c with one more.                                                     *)
Thin(e, c, k) == /\ e \in Seq(Frame) /\ c \in Seq(Frame) /\ Len(e) = Len(c) - 1
                 /\ \A i \in 1..Len(e) : e[i] = c[i + k]
More(e, c, f) == /\ e \in Seq(Frame) /\ c \in Seq(Frame) /\ Len(e) = Len(c) + 1
                 /\ \A i \in 1..Len(c) : e[i] = c[i]
                 /\ e[Len(c) + 1] = f

(* A frame of the thinner channel was in the channel, in the same order.   *)
LEMMA ThinIn ==
  ASSUME NEW e, NEW c, NEW k \in {0, 1}, Thin(e, c, k)
  PROVE  /\ \A i \in 1..Len(e) : i + k \in 1..Len(c) /\ e[i] = c[i + k]
         /\ \A i, j \in 1..Len(e) : i < j => i + k < j + k
  BY DEF Thin

(* A frame of the channel with one more was there before or is the new one *)
(* at its end.                                                             *)
LEMMA MoreIn ==
  ASSUME NEW e, NEW c, NEW f, More(e, c, f)
  PROVE  /\ \A i \in 1..Len(e) : \/ i \in 1..Len(c) /\ e[i] = c[i]
                                 \/ i = Len(c) + 1 /\ e[i] = f
         /\ \A i, j \in 1..Len(e) : i < j => i \in 1..Len(c)
  BY DEF More

(* A frame to the receiver is taken or lost.                               *)
LEMMA DirThinC ==
  ASSUME NEW s, NEW r, NEW c, NEW d, NEW e, NEW k \in {0, 1}, Dir(s, r, c, d), Thin(e, c, k)
  PROVE  Dir(s, r, e, d)
<1>1. /\ \A i \in 1..Len(e) : i + k \in 1..Len(c) /\ e[i] = c[i + k]
      /\ \A i, j \in 1..Len(e) : i < j => i + k < j + k
  BY ThinIn
<1>2. Data(s.rxAck, r.txAck, e, s.txFifo, r.got)
  <2> DEFINE x == s.rxAck
             q == s.txFifo
  <2>1. Data(x, r.txAck, c, q, r.got)
    BY Zenon DEF Dir
  <2> HIDE DEF x, q
  <2>2. \A i \in 1..Len(e) : IsData(e[i]) => e[i].seq = x \/ e[i].seq = Prv(x)
    BY <1>1, <2>1 DEF Data
  <2>3. \A i, j \in 1..Len(e) :
          i < j /\ IsData(e[i]) /\ IsData(e[j]) /\ e[i].seq = x => e[j].seq = x
    <3> SUFFICES ASSUME NEW i \in 1..Len(e), NEW j \in 1..Len(e), i < j,
                        IsData(e[i]), IsData(e[j]), e[i].seq = x
                 PROVE  e[j].seq = x
      OBVIOUS
    <3>1. /\ i + k \in 1..Len(c) /\ j + k \in 1..Len(c) /\ i + k < j + k
          /\ e[i] = c[i + k] /\ e[j] = c[j + k]
      BY <1>1
    <3> QED
      BY <2>1, <3>1, Zenon DEF Data
  <2>4. \A i \in 1..Len(e) : IsData(e[i]) /\ e[i].seq = x => q # <<>> /\ e[i].id = q[1].id
    BY <1>1, <2>1 DEF Data
  <2>5. r.txAck # x => /\ q # <<>> /\ q[1].id \in r.got
                       /\ \A i \in 1..Len(e) : IsData(e[i]) => e[i].seq = x
    BY <1>1, <2>1 DEF Data
  <2>6. Data(x, r.txAck, e, q, r.got)
    BY <2>2, <2>3, <2>4, <2>5, Zenon DEF Data
  <2> QED
    BY <2>6 DEF x, q
<1>3. Win(s.rxAck, r.txAck, s.txSeq, s.txSlidWinSize, s.resendTick, e)
  BY <1>1 DEF Dir, Win
<1>4. \A i \in 1..Len(e) : e[i].type # "SCO"
  BY <1>1 DEF Dir
<1> QED
  BY <1>2, <1>3, <1>4 DEF Dir

(* A frame to the sender is taken or lost.                                 *)
LEMMA DirThinD ==
  ASSUME NEW s, NEW r, NEW c, NEW d, NEW e, NEW k \in {0, 1}, Dir(s, r, c, d), Thin(e, d, k)
  PROVE  Dir(s, r, c, e)
<1>1. /\ \A i \in 1..Len(e) : i + k \in 1..Len(d) /\ e[i] = d[i + k]
      /\ \A i, j \in 1..Len(e) : i < j => i + k < j + k
  BY ThinIn
<1>2. Acks(s.rxAck, r.txAck, e)
  <2> DEFINE x == s.rxAck
             y == r.txAck
  <2>1. Acks(x, y, d)
    BY Zenon DEF Dir
  <2> HIDE DEF x, y
  <2>2. y = x \/ y = Nxt(x)
    BY <2>1 DEF Acks
  <2>3. \A i \in 1..Len(e) : IsAck(e[i]) => e[i].ack = x \/ e[i].ack = y
    BY <1>1, <2>1 DEF Acks
  <2>4. ASSUME NEW i \in 1..Len(e), NEW j \in 1..Len(e), i < j,
               IsAck(e[i]), IsAck(e[j]), e[i].ack = y
        PROVE  e[j].ack = y
    <3>1. /\ i + k \in 1..Len(d) /\ j + k \in 1..Len(d) /\ i + k < j + k
          /\ e[i] = d[i + k] /\ e[j] = d[j + k]
      BY <1>1, <2>4
    <3> QED
      BY <2>1, <2>4, <3>1, Zenon DEF Acks
  <2>5. Acks(x, y, e)
    BY <2>2, <2>3, <2>4, Zenon DEF Acks
  <2> QED
    BY <2>5 DEF x, y
<1>3. Unread(r.hciRx, s.rxAck, r.txAck, e)
  BY <1>1 DEF Dir, Unread
<1> QED
  BY <1>2, <1>3 DEF Dir

(* A frame without a sequence number is sent to the receiver.              *)
LEMMA DirMoreC ==
  ASSUME NEW s, NEW r, NEW c, NEW d, NEW e, NEW f, Dir(s, r, c, d), More(e, c, f),
         ~IsData(f), f.type # "SCO"
  PROVE  Dir(s, r, e, d)
<1>1. /\ \A i \in 1..Len(e) : \/ i \in 1..Len(c) /\ e[i] = c[i]
                              \/ i = Len(c) + 1 /\ e[i] = f
      /\ \A i, j \in 1..Len(e) : i < j => i \in 1..Len(c)
  BY MoreIn, Zenon
<1>2. \A i \in 1..Len(e) : IsData(e[i]) => i \in 1..Len(c) /\ e[i] = c[i]
  BY <1>1
<1>3. Data(s.rxAck, r.txAck, e, s.txFifo, r.got)
  BY <1>2 DEF Dir, Data
<1>4. Win(s.rxAck, r.txAck, s.txSeq, s.txSlidWinSize, s.resendTick, e)
  BY <1>2 DEF Dir, Win
<1>5. \A i \in 1..Len(e) : e[i].type # "SCO"
  BY <1>1 DEF Dir
<1> QED
  BY <1>3, <1>4, <1>5 DEF Dir

(* A link message is sent to the sender,                                   *)
LEMMA DirMoreD ==
  ASSUME NEW s, NEW r, NEW c, NEW d, NEW e, NEW f, Dir(s, r, c, d), More(e, d, f), ~IsAck(f)
  PROVE  Dir(s, r, c, e)
<1>1. \A i \in 1..Len(e) : IsAck(e[i]) => i \in 1..Len(d) /\ e[i] = d[i]
  BY MoreIn
<1>2. Acks(s.rxAck, r.txAck, e)
  BY <1>1 DEF Dir, Acks
<1>3. Unread(r.hciRx, s.rxAck, r.txAck, e)
  BY <1>1 DEF Dir, Unread
<1> QED
  BY <1>2, <1>3 DEF Dir

(* or a frame that acknowledges what the receiver has and has read.        *)
LEMMA DirMoreAck ==
  ASSUME NEW s, NEW r, NEW c, NEW d, NEW e, NEW f, Dir(s, r, c, d), More(e, d, f),
         f.ack = r.txAck, r.hciRx = <<>>
  PROVE  Dir(s, r, c, e)
<1>1. /\ \A i \in 1..Len(e) : \/ i \in 1..Len(d) /\ e[i] = d[i]
                              \/ i = Len(d) + 1 /\ e[i] = f
      /\ \A i, j \in 1..Len(e) : i < j => i \in 1..Len(d)
  BY MoreIn, Zenon
<1>2. Acks(s.rxAck, r.txAck, e)
  <2>1. \A i \in 1..Len(e) : IsAck(e[i]) => e[i].ack = s.rxAck \/ e[i].ack = r.txAck
    BY <1>1 DEF Dir, Acks
  <2>2. \A i, j \in 1..Len(e) :
          i < j /\ IsAck(e[i]) /\ IsAck(e[j]) /\ e[i].ack = r.txAck => e[j].ack = r.txAck
    BY <1>1 DEF Dir, Acks, More
  <2> QED
    BY <2>1, <2>2 DEF Dir, Acks
<1>3. Unread(r.hciRx, s.rxAck, r.txAck, e)
  BY DEF Unread
<1> QED
  BY <1>2, <1>3 DEF Dir
-----------------------------------------------------------------------------
(* What a node keeps as a sender, and as a receiver.                       *)
SameSnd(s, t) ==
  /\ t.rxAck = s.rxAck /\ t.txSeq = s.txSeq /\ t.txSlidWinSize = s.txSlidWinSize
  /\ t.resendTick = s.resendTick /\ t.txFifo = s.txFifo
  /\ t.made = s.made /\ t.rel = s.rel /\ t.drop = s.drop
SameRcv(r, t) ==
  t.txAck = r.txAck /\ t.hciRx = r.hciRx /\ t.got = r.got /\ t.last = r.last /\ t.dup = r.dup

(* Nothing of it changes.                                                  *)
LEMMA DirSame ==
  ASSUME NEW s, NEW r, NEW t, NEW v, NEW c, NEW d, Dir(s, r, c, d),
         SameSnd(s, t), SameRcv(r, v)
  PROVE  Dir(t, v, c, d)
  BY DEF Dir, SameSnd, SameRcv

(* HCI_RxHandler empties the receiver's HCI rx FIFO.                       *)
LEMMA DirRead ==
  ASSUME NEW s, NEW r, NEW t, NEW c, NEW d, Dir(s, r, c, d),
         t.txAck = r.txAck, t.hciRx = <<>>, t.got = r.got, t.last = r.last
  PROVE  Dir(s, t, c, d)
  BY DEF Dir, Unread

(* The sender arms its resend timer.                                       *)
Armed(s, t) ==
  /\ t.rxAck = s.rxAck /\ t.txSeq = s.txSeq /\ t.txSlidWinSize = s.txSlidWinSize
  /\ t.resendTick = TRUE
  /\ t.txFifo = s.txFifo /\ t.made = s.made /\ t.rel = s.rel /\ t.drop = s.drop

(* A direction survives the arming of the resend timer                     *)
(* (HCI_H5_DecodeDataPdu on an acknowledgement that does not match).       *)
LEMMA DirArm ==
  ASSUME NEW s, NEW r, NEW t, NEW c, NEW d, Dir(s, r, c, d), Armed(s, t)
  PROVE  Dir(t, r, c, d)
  BY DEF Dir, Win, Armed

(* HCI_H5_ResendStart rewinds the window.                                  *)
Rewound(s, t) ==
  /\ t.rxAck = s.rxAck /\ t.txSeq = s.rxAck /\ t.txSlidWinSize = 0
  /\ t.txFifo = s.txFifo /\ t.made = s.made /\ t.rel = s.rel /\ t.drop = s.drop

(* A direction survives HCI_H5_ResendStart: rewinding txSeq to rxAck is    *)
(* always one of the cases of Win.                                         *)
LEMMA DirRewind ==
  ASSUME NEW s, NEW r, NEW t, NEW c, NEW d, Dir(s, r, c, d), Rewound(s, t)
  PROVE  Dir(t, r, c, d)
  BY DEF Dir, Win, Rewound

(* HCI_H5_SendData sends the oldest packet.                                *)
Sent(s, t) ==
  /\ t.rxAck = s.rxAck /\ t.txSeq = Nxt(s.rxAck) /\ t.txSlidWinSize = 1
  /\ t.txFifo = s.txFifo /\ t.made = s.made /\ t.rel = s.rel /\ t.drop = s.drop

(* A direction survives HCI_H5_SendData: the packet sent is the oldest of  *)
(* the FIFO, under the number rxAck.                                       *)
LEMMA DirSend ==
  ASSUME NEW s, NEW r, NEW t, NEW c, NEW d, NEW e, NEW f, Dir(s, r, c, d), Sent(s, t),
         More(e, c, f), IsData(f), f.seq = s.rxAck, s.txFifo # <<>>, f.id = s.txFifo[1].id
  PROVE  Dir(t, r, e, d)
<1>1. /\ \A i \in 1..Len(e) : \/ i \in 1..Len(c) /\ e[i] = c[i]
                              \/ i = Len(c) + 1 /\ e[i] = f
      /\ \A i, j \in 1..Len(e) : i < j => i \in 1..Len(c)
  BY MoreIn, Zenon
<1>2. Data(s.rxAck, r.txAck, e, s.txFifo, r.got)
  <2>1. \A i \in 1..Len(e) : IsData(e[i]) => e[i].seq = s.rxAck \/ e[i].seq = Prv(s.rxAck)
    BY <1>1 DEF Dir, Data
  <2>2. \A i, j \in 1..Len(e) :
          i < j /\ IsData(e[i]) /\ IsData(e[j]) /\ e[i].seq = s.rxAck => e[j].seq = s.rxAck
    BY <1>1 DEF Dir, Data, More
  <2>3. \A i \in 1..Len(e) :
          IsData(e[i]) /\ e[i].seq = s.rxAck => s.txFifo # <<>> /\ e[i].id = s.txFifo[1].id
    BY <1>1 DEF Dir, Data
  <2>4. r.txAck # s.rxAck => /\ s.txFifo[1].id \in r.got
                             /\ \A i \in 1..Len(e) : IsData(e[i]) => e[i].seq = s.rxAck
    BY <1>1 DEF Dir, Data
  <2> QED
    BY <2>1, <2>2, <2>3, <2>4, Zenon DEF Data
<1>3. Win(t.rxAck, r.txAck, t.txSeq, t.txSlidWinSize, t.resendTick, e)
  BY DEF Win, Sent
<1>4. \A i \in 1..Len(e) : e[i].type # "SCO"
  BY <1>1 DEF Dir, IsData, ReliableType
<1> QED
  BY <1>2, <1>3, <1>4 DEF Dir, Sent

(* The stack queues a packet.                                              *)
LEMMA DirEvent ==
  ASSUME NEW s \in GoodCb, NEW r \in GoodCb, NEW t, NEW c, NEW d, NEW ty, Dir(s, r, c, d),
         ty \in ReliableType,
         t.rxAck = s.rxAck, t.txSeq = s.txSeq, t.txSlidWinSize = s.txSlidWinSize,
         t.resendTick = s.resendTick, t.rel = s.rel, t.drop = s.drop,
         t.txFifo = Append(s.txFifo, [type |-> ty, id |-> s.made + 1]), t.made = s.made + 1
  PROVE  Dir(t, r, c, d)
<1>1. s.txFifo \in Seq(Pkt) /\ s.made \in Nat /\ r.last \in Nat
  BY DEF GoodCb, ControlBlock
<1>2. PICK p : p = [type |-> ty, id |-> s.made + 1]
  OBVIOUS
<1>3. p \in Pkt /\ p.type \in ReliableType /\ p.id = s.made + 1
  BY <1>1, <1>2 DEF Pkt, DataType
<1>4. t.txFifo = Append(s.txFifo, p)
  BY <1>2
<1>5. /\ Len(t.txFifo) = Len(s.txFifo) + 1 /\ Len(s.txFifo) \in Nat
      /\ t.txFifo[Len(s.txFifo) + 1] = p
      /\ \A i \in 1..Len(s.txFifo) : t.txFifo[i] = s.txFifo[i]
      /\ s.txFifo # <<>> => t.txFifo # <<>> /\ t.txFifo[1] = s.txFifo[1]
      /\ t.txFifo # <<>>
  BY <1>1, <1>3, <1>4
<1>6. Data(s.rxAck, r.txAck, c, t.txFifo, r.got)
  BY <1>5 DEF Dir, Data
<1>7. Ids(t.txFifo, t.made, t.rel, t.drop, r.got, r.last)
  <2>1. PICK l, k, b, q, l1 : /\ l = Len(s.txFifo) /\ l1 = Len(t.txFifo)
                              /\ k = s.made /\ b = k - l /\ q = t.txFifo
    OBVIOUS
  <2>2. l \in Nat /\ k \in Nat /\ l1 = l + 1 /\ q # <<>>
    BY <1>1, <1>5, <2>1
  <2>3. /\ l <= k /\ \A i \in 1..l : q[i].id = b + i /\ q[i].type \in ReliableType
        /\ q[l + 1].id = k + 1 /\ q[l + 1].type \in ReliableType
        /\ \A j \in 1..b : j \in r.got \/ j \in s.drop
        /\ s.rel \subseteq r.got
        /\ r.last <= b \/ (r.last = b + 1 /\ r.last \in r.got)
    BY <1>3, <1>5, <2>1 DEF Dir, Ids
  <2>4. Ids(q, k + 1, s.rel, s.drop, r.got, r.last)
    <3>1. k + 1 - l1 = b /\ l1 <= k + 1
      BY <2>1, <2>2, <2>3
    <3>2. Len(q) = l1
      BY <2>1
    <3>3. ASSUME NEW i \in 1..l1 PROVE q[i].id = b + i /\ q[i].type \in ReliableType
      <4>1. i \in 1..l \/ i = l + 1
        BY <2>2
      <4>2. b + (l + 1) = k + 1
        BY <2>1, <2>2
      <4> QED
        BY <2>3, <4>1, <4>2
    <3> QED
      BY <2>2, <2>3, <3>1, <3>2, <3>3 DEF Ids
  <2> QED
    BY <2>1, <2>4
<1> QED
  BY <1>6, <1>7 DEF Dir

(* HCI_H5_PackHciPdu: the receiver takes a packet with the number it       *)
(* expects, which is the oldest one of the sender.                         *)
Accepted(r, t, id) ==
  /\ t.txAck = Nxt(r.txAck) /\ t.hciRx = Append(r.hciRx, id)
  /\ t.got = r.got \cup {id} /\ t.last = id /\ t.dup = (r.dup \/ id \in r.got)

(* A direction survives the acceptance of a packet: from then on the       *)
(* receiver is one ahead.                                                  *)
LEMMA DirAccept ==
  ASSUME NEW s \in GoodCb, NEW r \in GoodCb, NEW t, NEW c, NEW d, NEW e, Dir(s, r, c, d),
         Thin(e, c, 1), Len(c) > 0, IsData(c[1]), c[1].seq = r.txAck, Accepted(r, t, c[1].id)
  PROVE  Dir(s, t, e, d)
<1> DEFINE x == s.rxAck
           q == s.txFifo
<1>1. x \in SeqNum /\ r.hciRx \in Seq(Nat) /\ q \in Seq(Pkt) /\ s.made \in Nat
  BY DEF GoodCb, ControlBlock
<1>2. /\ Nxt(x) # x /\ Prv(x) # x /\ Nxt(x) # Prv(x)
  BY <1>1, Around
<1>3. /\ \A i \in 1..Len(e) : i + 1 \in 1..Len(c) /\ e[i] = c[i + 1]
      /\ \A i, j \in 1..Len(e) : i < j => i + 1 < j + 1
      /\ 1 \in 1..Len(c) /\ \A i \in 1..Len(e) : 1 < i + 1
  <2>1. c \in Seq(Frame) /\ Len(c) \in Nat /\ Len(e) = Len(c) - 1
    BY DEF Thin
  <2>2. 1 \in 1..Len(c) /\ \A i \in 1..Len(e) : 1 < i + 1
    BY <2>1
  <2> QED
    BY <2>2, ThinIn
<1>4. r.txAck = x /\ c[1].seq = x
  BY <1>2, <1>3 DEF Dir, Acks, Data
<1>5. q # <<>> /\ c[1].id = q[1].id
  BY <1>3, <1>4 DEF Dir, Data
<1>6. \A i \in 1..Len(e) : IsData(e[i]) => e[i].seq = x
  BY <1>3, <1>4 DEF Dir, Data
<1>7. r.hciRx = <<>>
  BY <1>4 DEF Dir, Unread
<1>8. \A i \in 1..Len(d) : IsAck(d[i]) => d[i].ack = x
  BY <1>4 DEF Dir, Acks
<1> DEFINE a == t.txAck
<1>9. a = Nxt(x) /\ t.got = r.got \cup {q[1].id} /\ t.last = q[1].id
  BY <1>4, <1>5 DEF Accepted
<1>10. Acks(x, a, d)
  BY <1>2, <1>8, <1>9 DEF Acks
<1>11. Data(x, a, e, q, t.got)
  <2>1. \A i \in 1..Len(e) : IsData(e[i]) /\ e[i].seq = x => q # <<>> /\ e[i].id = q[1].id
    BY <1>3 DEF Dir, Data
  <2> QED
    BY <1>5, <1>6, <1>9, <2>1 DEF Data
<1>12. Win(x, a, s.txSeq, s.txSlidWinSize, s.resendTick, e)
  BY <1>3, <1>4 DEF Dir, Win
<1>13. Unread(t.hciRx, x, a, d)
  <2>1. t.hciRx = Append(<<>>, c[1].id)
    BY <1>7 DEF Accepted
  <2>2. Len(t.hciRx) = 1
    BY <2>1
  <2> QED
    BY <1>2, <1>8, <1>9, <2>2 DEF Unread
<1>14. Ids(q, s.made, s.rel, s.drop, t.got, t.last)
  <2>1. Ids(q, s.made, s.rel, s.drop, r.got, r.last) /\ 1 \in 1..Len(q)
    BY <1>1, <1>5 DEF Dir
  <2>2. q[1].id = s.made - Len(q) + 1
    BY <2>1 DEF Ids
  <2> QED
    BY <1>5, <1>9, <2>1, <2>2 DEF Ids
<1>15. \A i \in 1..Len(e) : e[i].type # "SCO"
  BY <1>3 DEF Dir
<1> QED
  BY <1>10, <1>11, <1>12, <1>13, <1>14, <1>15 DEF Dir

(* The sender takes the number of an acknowledgement that does not match   *)
(* its own, HCI_H5_ReSendCheck.                                            *)
Late(s, t, ack) ==
  /\ t.rxAck = ack /\ t.txSeq = s.txSeq /\ t.txSlidWinSize = s.txSlidWinSize
  /\ t.resendTick = TRUE
  /\ t.txFifo = s.txFifo /\ t.made = s.made /\ t.rel = s.rel /\ t.drop = s.drop

(* A direction survives a late acknowledgement: if it is news, the sender  *)
(* catches up with the receiver and keeps the packet, to send it again.    *)
LEMMA DirLate ==
  ASSUME NEW s \in GoodCb, NEW r \in GoodCb, NEW t, NEW c, NEW d, NEW e, Dir(s, r, c, d),
         Thin(e, d, 1), Len(d) > 0, IsAck(d[1]), d[1].ack # s.txSeq, Late(s, t, d[1].ack)
  PROVE  Dir(t, r, c, e)
<1>0. Dir(s, r, c, e)
  BY DirThinD
<1>1. s.rxAck \in SeqNum
  BY DEF GoodCb, ControlBlock
<1>2. 1 \in 1..Len(d)
  BY DEF Thin
<1>3. CASE d[1].ack = s.rxAck
  <2>1. Win(t.rxAck, r.txAck, t.txSeq, t.txSlidWinSize, t.resendTick, c)
    BY <1>3 DEF Dir, Win, Late
  <2> QED
    BY <1>0, <1>3, <2>1 DEF Dir, Late
<1>4. CASE d[1].ack # s.rxAck
  <2> DEFINE x == s.rxAck
             a == r.txAck
  <2>1. d[1].ack = a /\ a = Nxt(x) /\ a # x
    BY <1>2, <1>4 DEF Dir, Acks
  <2>2. Prv(a) = x /\ Prv(a) # a /\ Nxt(a) # a /\ t.rxAck = a
    BY <1>1, <2>1, Around DEF Late
  <2>3. s.txSlidWinSize = 0 /\ s.txSeq = x
    BY <2>1 DEF Dir, Win
  <2>4. \A i \in 1..Len(e) : IsAck(e[i]) => e[i].ack = a
    <3>1. \A i \in 1..Len(e) : i + 1 \in 1..Len(d) /\ e[i] = d[i + 1] /\ 1 < i + 1
      BY ThinIn DEF Thin
    <3> QED
      BY <1>2, <2>1, <3>1 DEF Dir, Acks
  <2>5. \A i \in 1..Len(c) : IsData(c[i]) => c[i].seq = x
    BY <2>1 DEF Dir, Data
  <2>6. Acks(a, a, e)
    BY <2>4 DEF Acks
  <2>7. Data(a, a, c, s.txFifo, r.got)
    BY <2>2, <2>5 DEF Data
  <2>8. Win(a, a, t.txSeq, t.txSlidWinSize, t.resendTick, c)
    BY <2>2, <2>3, <2>5 DEF Win, Late
  <2>9. Unread(r.hciRx, a, a, e)
    BY <1>2, <2>1 DEF Dir, Unread
  <2> QED
    BY <1>0, <2>2, <2>6, <2>7, <2>8, <2>9 DEF Dir, Late
<1> QED
  BY <1>3, <1>4

(* The sender's window is acknowledged and dropped from its FIFO.          *)
Released(s, t) ==
  /\ t.rxAck = s.txSeq /\ t.txSeq = s.txSeq /\ t.txSlidWinSize = 0
  /\ t.txFifo = SubSeq(s.txFifo, s.txSlidWinSize + 1, Len(s.txFifo))
  /\ t.rel = s.rel \cup {s.txFifo[i].id : i \in 1..s.txSlidWinSize}
  /\ t.made = s.made /\ t.drop = s.drop

(* A window of no or one packet at the head of a FIFO.                     *)
LEMMA DropNone ==
  ASSUME NEW q \in Seq(Pkt)
  PROVE  SubSeq(q, 0 + 1, Len(q)) = q
<1>1. 0 + 1 = 1
  OBVIOUS
<1> QED
  BY <1>1, SubSeqFull, Zenon

(* With a window of one the oldest packet goes.                            *)
LEMMA DropOne ==
  ASSUME NEW q \in Seq(Pkt), q # <<>>, NEW p, p = SubSeq(q, 1 + 1, Len(q))
  PROVE  /\ p \in Seq(Pkt) /\ Len(p) = Len(q) - 1 /\ Len(q) \in Nat \ {0}
         /\ \A i \in 1..Len(p) : p[i] = q[i + 1]
<1>1. 1 + 1 = 2
  OBVIOUS
<1>2. p = Tail(q)
  BY <1>1, TailIsSubSeq, Zenon
<1> QED
  BY <1>2, HeadTail

(* A direction survives the release of the window: the receiver has the    *)
(* packet, and no older acknowledgement is under way behind this one.      *)
LEMMA DirRelease ==
  ASSUME NEW s \in GoodCb, NEW r \in GoodCb, NEW t, NEW c, NEW d, NEW e, Dir(s, r, c, d),
         Thin(e, d, 1), Len(d) > 0, IsAck(d[1]), d[1].ack = s.txSeq, Released(s, t)
  PROVE  Dir(t, r, c, e)
<1> DEFINE x == s.rxAck
           a == r.txAck
           q == s.txFifo
           p == t.txFifo
<1>0. Dir(s, r, c, e)
  BY DirThinD
<1>1. /\ x \in SeqNum /\ q \in Seq(Pkt) /\ s.made \in Nat /\ r.last \in Nat
      /\ s.txSlidWinSize <= Len(q)
  BY DEF GoodCb, ControlBlock, WindowOK
<1>2. 1 \in 1..Len(d)
  BY DEF Thin
<1>3. /\ Nxt(x) # x /\ Prv(x) # x /\ Nxt(x) # Prv(x) /\ Prv(Nxt(x)) = x
  BY <1>1, Around
<1>4. d[1].ack = x \/ d[1].ack = a
  BY <1>2 DEF Dir, Acks
<1>5. CASE s.txSlidWinSize = 0
  <2>1. s.txSeq = x
    BY <1>3, <1>4, <1>5 DEF Dir, Win
  <2>2. p = q
    BY <1>1, <1>5, DropNone DEF Released
  <2>3. t.rel = s.rel
    BY <1>5 DEF Released
  <2>4. Win(x, a, t.txSeq, t.txSlidWinSize, t.resendTick, c)
    BY <2>1 DEF Win, Released
  <2> QED
    BY <1>0, <2>1, <2>2, <2>3, <2>4 DEF Dir, Released
<1>6. CASE s.txSlidWinSize = 1
  <2>1. s.txSeq = Nxt(x) /\ a = Nxt(x) /\ a # x /\ t.rxAck = a /\ Prv(a) = x
    BY <1>3, <1>4, <1>6 DEF Dir, Win, Acks, Released
  <2>2. q # <<>> /\ q[1].id \in r.got
    BY <2>1 DEF Dir, Data
  <2>3. /\ p \in Seq(Pkt) /\ Len(p) = Len(q) - 1 /\ Len(q) \in Nat \ {0}
        /\ \A i \in 1..Len(p) : p[i] = q[i + 1]
    BY <1>1, <1>6, <2>2, DropOne DEF Released
  <2>4. t.rel = s.rel \cup {q[1].id}
    <3>1. {q[i].id : i \in 1..1} = {q[1].id}
      OBVIOUS
    <3> QED
      BY <1>6, <3>1 DEF Released
  <2>5. \A i \in 1..Len(e) : IsAck(e[i]) => e[i].ack = a
    <3>1. \A i \in 1..Len(e) : i + 1 \in 1..Len(d) /\ e[i] = d[i + 1] /\ 1 < i + 1
      BY ThinIn DEF Thin
    <3> QED
      BY <1>2, <2>1, <3>1 DEF Dir, Acks
  <2>6. \A i \in 1..Len(c) : IsData(c[i]) => c[i].seq = x
    BY <2>1 DEF Dir, Data
  <2>7. Acks(a, a, e)
    BY <2>5 DEF Acks
  <2>8. Data(a, a, c, p, r.got)
    BY <2>1, <2>6 DEF Data
  <2>9. Win(a, a, t.txSeq, t.txSlidWinSize, t.resendTick, c)
    BY <2>1 DEF Win, Released
  <2>10. Unread(r.hciRx, a, a, e)
    BY <1>2, <2>1 DEF Dir, Unread
  <2>11. Ids(p, s.made, t.rel, s.drop, r.got, r.last)
    <3>1. PICK l, b, k : l = Len(q) /\ k = s.made /\ b = k - l
      OBVIOUS
    <3>2. /\ l <= k /\ \A i \in 1..l : q[i].id = b + i /\ q[i].type \in ReliableType
          /\ \A j \in 1..b : j \in r.got \/ j \in s.drop
          /\ s.rel \subseteq r.got
          /\ r.last <= b \/ (r.last = b + 1 /\ r.last \in r.got)
      BY <3>1 DEF Dir, Ids
    <3>3. l \in Nat \ {0} /\ k \in Nat /\ b \in Nat /\ Len(p) = l - 1 /\ k - Len(p) = b + 1
      BY <1>1, <2>3, <3>1, <3>2
    <3>4. ASSUME NEW i \in 1..Len(p) PROVE p[i].id = b + 1 + i /\ p[i].type \in ReliableType
      <4>1. i + 1 \in 1..l /\ b + (i + 1) = b + 1 + i
        BY <3>3
      <4> QED
        BY <2>3, <3>2, <4>1
    <3>5. \A j \in 1..b + 1 : j \in r.got \/ j \in s.drop
      <4>1. q[1].id = b + 1
        BY <3>2, <3>3
      <4> QED
        BY <2>2, <3>2, <3>3, <4>1
    <3>6. t.rel \subseteq r.got /\ r.last <= b + 1 /\ Len(p) <= k
      BY <1>1, <2>2, <2>4, <3>2, <3>3
    <3> QED
      BY <3>1, <3>3, <3>4, <3>5, <3>6 DEF Ids
  <2> QED
    BY <1>0, <2>1, <2>7, <2>8, <2>9, <2>10, <2>11 DEF Dir, Released
<1> QED
  BY <1>5, <1>6 DEF Dir, Win

(* A node becomes active: HCI_H5_Reset throws away what was queued.        *)
LEMMA DirReset ==
  ASSUME NEW s \in GoodCb, NEW r \in GoodCb, NEW t, NEW c, NEW d, Dir(s, r, c, d),
         Down(s, r, c), s.linkState # "ACTIVE",
         t.rxAck = 0, t.txSeq = 0, t.txSlidWinSize = 0, t.txFifo = <<>>,
         t.made = s.made, t.rel = s.rel, t.drop = s.drop \cup Queued(s)
  PROVE  Dir(t, r, c, d)
<1> DEFINE q == s.txFifo
<1>1. q \in Seq(Pkt) /\ s.made \in Nat /\ r.last \in Nat
  BY DEF GoodCb, ControlBlock
<1>2. s.rxAck = 0 /\ r.txAck = 0 /\ \A i \in 1..Len(c) : ~IsData(c[i])
  BY DEF Down, IsAck, IsData
<1>3. Data(0, 0, c, <<>>, r.got)
  BY <1>2 DEF Data
<1>4. Win(0, 0, 0, 0, t.resendTick, c)
  BY DEF Win
<1>5. Ids(<<>>, s.made, s.rel, t.drop, r.got, r.last)
  <2>1. PICK l, b, k : l = Len(q) /\ k = s.made /\ b = k - l
    OBVIOUS
  <2>2. /\ l <= k /\ \A i \in 1..l : q[i].id = b + i
        /\ \A j \in 1..b : j \in r.got \/ j \in s.drop
        /\ s.rel \subseteq r.got
        /\ r.last <= b \/ (q # <<>> /\ r.last = b + 1 /\ r.last \in r.got)
    BY <2>1 DEF Dir, Ids
  <2>3. l \in Nat /\ k \in Nat /\ b \in Nat /\ k = b + l /\ (q # <<>> => l > 0)
    BY <1>1, <2>1, <2>2
  <2>4. \A j \in 1..k : j \in r.got \/ j \in t.drop
    <3> SUFFICES ASSUME NEW j \in 1..k PROVE j \in r.got \/ j \in t.drop
      OBVIOUS
    <3>1. CASE j <= b
      BY <2>2, <2>3, <3>1
    <3>2. CASE j > b
      <4>1. j - b \in 1..l /\ b + (j - b) = j
        BY <2>3, <3>2
      <4>2. q[j - b].id = j
        BY <2>2, <4>1
      <4>3. j \in Queued(s)
        BY <2>1, <4>1, <4>2 DEF Queued
      <4> QED
        BY <4>3
    <3> QED
      BY <2>3, <3>1, <3>2
  <2>5. r.last <= k
    BY <1>1, <2>2, <2>3
  <2>6. Len(<<>>) = 0 /\ k - 0 = k
    BY <2>3
  <2> QED
    BY <2>1, <2>2, <2>3, <2>4, <2>5, <2>6 DEF Ids
<1> QED
  BY <1>2, <1>3, <1>4, <1>5 DEF Dir

-----------------------------------------------------------------------------
(* The frames on their way.                                                *)
LEMMA ChanType ==
  ASSUME NEW q \in Seq(Frame), NEW u \in Frame
  PROVE  Chan(q, u) \in Seq(Frame)
  BY DEF Chan

(* A node takes the oldest one.                                            *)
LEMMA ChanTake ==
  ASSUME NEW q \in Seq(Frame), NEW u \in Frame, q # <<>>
  PROVE  /\ Thin(Chan(Tail(q), u), Chan(q, u), 1)
         /\ Chan(q, u)[1] = Head(q) /\ Len(Chan(q, u)) > 0
<1>1. /\ Tail(q) \in Seq(Frame) /\ Len(Tail(q)) = Len(q) - 1
      /\ Head(q) = q[1] /\ Len(q) \in Nat \ {0}
      /\ \A i \in 1..Len(Tail(q)) : Tail(q)[i] = q[i + 1]
  BY HeadTail
<1>2. CASE u = NoFrame
  BY <1>1, <1>2 DEF Chan, Thin
<1>3. CASE u # NoFrame
  <2>1. PICK p, a, b, l : p = Tail(q) /\ a = Append(p, u) /\ b = Append(q, u) /\ l = Len(q)
    OBVIOUS
  <2>2. l \in Nat \ {0} /\ p \in Seq(Frame) /\ Len(p) = l - 1 /\ \A i \in 1..l - 1 : p[i] = q[i + 1]
    BY <1>1, <2>1
  <2>3. a \in Seq(Frame) /\ Len(a) = l /\ (\A i \in 1..l - 1 : a[i] = p[i]) /\ a[l] = u
    BY <2>1, <2>2
  <2>4. b \in Seq(Frame) /\ Len(b) = l + 1 /\ (\A i \in 1..l : b[i] = q[i]) /\ b[l + 1] = u
    BY <2>1, <2>2
  <2>5. ASSUME NEW i \in 1..l PROVE a[i] = b[i + 1]
    <3>1. CASE i = l
      BY <2>3, <2>4, <3>1
    <3>2. CASE i # l
      <4>1. i \in 1..l - 1 /\ i + 1 \in 1..l
        BY <2>2, <3>2
      <4> QED
        BY <2>2, <2>3, <2>4, <4>1
    <3> QED
      BY <3>1, <3>2
  <2>6. Thin(a, b, 1) /\ b[1] = q[1] /\ Len(b) > 0
    BY <2>2, <2>3, <2>4, <2>5 DEF Thin
  <2>7. Chan(Tail(q), u) = a /\ Chan(q, u) = b
    BY <1>3, <2>1 DEF Chan
  <2> QED
    BY <1>1, <2>6, <2>7
<1> QED
  BY <1>2, <1>3

(* An idle transmitter takes a frame.                                      *)
LEMMA ChanSend ==
  ASSUME NEW q \in Seq(Frame), NEW f \in Frame, f # NoFrame
  PROVE  More(Chan(q, f), Chan(q, NoFrame), f)
  BY DEF Chan, More

(* The wire loses the youngest one.                                        *)
LEMMA ChanLose ==
  ASSUME NEW q \in Seq(Frame), NEW u \in Frame, u # NoFrame
  PROVE  Thin(Chan(q, NoFrame), Chan(q, u), 0)
  BY DEF Chan, Thin

(* It arrives in the receive buffers.                                      *)
LEMMA ChanDone ==
  ASSUME NEW q, NEW u, u # NoFrame
  PROVE  Chan(Append(q, u), NoFrame) = Chan(q, u)
  BY DEF Chan

-----------------------------------------------------------------------------
(* A node before it is active.                                             *)
LEMMA DownThin ==
  ASSUME NEW s, NEW r, NEW c, NEW e, NEW k \in {0, 1}, Down(s, r, c), Thin(e, c, k)
  PROVE  Down(s, r, e)
<1>1. \A i \in 1..Len(e) : i + k \in 1..Len(c) /\ e[i] = c[i + k]
  BY ThinIn
<1> QED
  BY <1>1 DEF Down

(* It sends link messages only.                                            *)
LEMMA DownMore ==
  ASSUME NEW s, NEW r, NEW c, NEW e, NEW f, Down(s, r, c), More(e, c, f),
         s.linkState = "ACTIVE" \/ ~IsAck(f)
  PROVE  Down(s, r, e)
<1>1. \A i \in 1..Len(e) : (i \in 1..Len(c) /\ e[i] = c[i]) \/ e[i] = f
  BY MoreIn
<1> QED
  BY <1>1 DEF Down

(* Of its peer only the two acknowledgement numbers matter.                *)
LEMMA DownPeer ==
  ASSUME NEW s, NEW r, NEW v, NEW c, Down(s, r, c), v.txAck = r.txAck, v.rxAck = r.rxAck
  PROVE  Down(s, v, c)
  BY DEF Down

(* It stays as it is, or becomes active.                                   *)
LEMMA DownSame ==
  ASSUME NEW s, NEW t, NEW r, NEW c, Down(s, r, c),
         s.linkState = "ACTIVE" => t.linkState = "ACTIVE",
         \/ t.linkState = "ACTIVE"
         \/ /\ t.txSeq = s.txSeq /\ t.txAck = s.txAck /\ t.rxAck = s.rxAck
            /\ t.txSlidWinSize = s.txSlidWinSize /\ t.resendTick = s.resendTick
            /\ t.hciRx = s.hciRx
  PROVE  Down(t, r, c)
  BY DEF Down

-----------------------------------------------------------------------------
(* What the functions of hci_h5.c do to the fields that count.             *)

(* The frame HCI_H5_Send makes *)
Made(s, type, msg, id) ==
  [type |-> type, seq |-> IF type \in ReliableType THEN s.txSeq ELSE 0,
   ack |-> s.txAck, msg |-> msg, id |-> id]

(* HCI_H5_Send changes the sequence number and the transmitter.            *)
LEMMA SendFx ==
  ASSUME NEW s \in ControlBlock, NEW type, NEW msg, NEW id, NEW t, t = Send(s, type, msg, id)
  PROVE  /\ SameRcv(s, t) /\ t.linkState = s.linkState /\ t.rxTick = s.rxTick
         /\ t.rxAck = s.rxAck /\ t.txSlidWinSize = s.txSlidWinSize
         /\ t.resendTick = s.resendTick /\ t.txFifo = s.txFifo
         /\ t.made = s.made /\ t.rel = s.rel /\ t.drop = s.drop
         /\ t.txSeq = IF type \in ReliableType THEN Nxt(s.txSeq) ELSE s.txSeq
         /\ t.uartTx = IF s.uartTx = NoFrame THEN Made(s, type, msg, id) ELSE s.uartTx
<1>1. t = [s EXCEPT !.txSeq = IF type \in ReliableType THEN Nxt(s.txSeq) ELSE s.txSeq,
                    !.uartTx = IF s.uartTx = NoFrame THEN Made(s, type, msg, id) ELSE s.uartTx]
  BY DEF Send, Made, Nxt, isUartTxDone, ControlBlock
<1>2. PICK a, b : /\ a = IF type \in ReliableType THEN Nxt(s.txSeq) ELSE s.txSeq
                  /\ b = IF s.uartTx = NoFrame THEN Made(s, type, msg, id) ELSE s.uartTx
  OBVIOUS
<1>3. t = [s EXCEPT !.txSeq = a, !.uartTx = b]
  BY <1>1, <1>2
<1>4. t.txSeq = a /\ t.uartTx = b
  BY <1>3 DEF ControlBlock
<1>5. /\ SameRcv(s, t) /\ t.linkState = s.linkState /\ t.rxTick = s.rxTick
      /\ t.rxAck = s.rxAck /\ t.txSlidWinSize = s.txSlidWinSize
      /\ t.resendTick = s.resendTick /\ t.txFifo = s.txFifo
      /\ t.made = s.made /\ t.rel = s.rel /\ t.drop = s.drop
  BY <1>3 DEF ControlBlock, SameRcv
<1> QED
  BY <1>2, <1>4, <1>5

(* A link message, or nothing, is sent and nothing else happens.           *)
Linked(s, t) ==
  /\ SameSnd(s, t) /\ SameRcv(s, t)
  /\ \/ t.uartTx = s.uartTx
     \/ s.uartTx = NoFrame /\ t.uartTx.type = "LINK_CTRL"

(* HCI_H5_SendLinkPdu sends a link message or, on a busy transmitter,      *)
(* nothing.                                                                *)
LEMMA SendLinkFx ==
  ASSUME NEW s \in ControlBlock, NEW msg
  PROVE  Linked(s, SendLink(s, msg)) /\ SendLink(s, msg).linkState = s.linkState
<1>1. PICK t : t = Send(s, "LINK_CTRL", msg, 0)
  OBVIOUS
<1>2. "LINK_CTRL" \notin ReliableType
  BY DEF ReliableType
<1>3. Made(s, "LINK_CTRL", msg, 0).type = "LINK_CTRL"
  BY DEF Made
<1>4. Linked(s, t) /\ t.linkState = s.linkState
  BY <1>1, <1>2, <1>3, SendFx DEF Linked, SameSnd
<1> QED
  BY <1>1, <1>4 DEF SendLink

(* HCI_H5_SendPureAck sends the number the node expects, or nothing.       *)
LEMMA PureAckFx ==
  ASSUME NEW s \in ControlBlock, NEW t, t = SendPureAck(s)
  PROVE  /\ SameSnd(s, t) /\ SameRcv(s, t) /\ t.linkState = s.linkState
         /\ \/ t.uartTx = s.uartTx
            \/ s.uartTx = NoFrame /\ t.uartTx.type = "ACK" /\ t.uartTx.ack = s.txAck
<1>2. "ACK" \notin ReliableType
  BY DEF ReliableType
<1>3. Made(s, "ACK", "none", 0).type = "ACK" /\ Made(s, "ACK", "none", 0).ack = s.txAck
  BY DEF Made
<1>4. t = Send(s, "ACK", "none", 0)
  BY DEF SendPureAck
<1> QED
  BY <1>2, <1>3, <1>4, SendFx DEF SameSnd

(* HCI_H5_Reset as a node becomes active.                                  *)
Cleared(s, t) ==
  /\ t.rxAck = 0 /\ t.txSeq = 0 /\ t.txSlidWinSize = 0 /\ t.txFifo = <<>>
  /\ t.made = s.made /\ t.rel = s.rel /\ t.drop = s.drop \cup Queued(s)
  /\ t.txAck = 0 /\ t.hciRx = <<>> /\ t.got = s.got /\ t.last = s.last /\ t.dup = s.dup
  /\ t.uartTx = s.uartTx /\ t.linkState = "ACTIVE"

(* A link message comes in, and no SYNC to an active node.                 *)
LEMMA LinkPduFx ==
  ASSUME NEW s \in GoodCb, NEW msg, NEW t, t = DecodeLinkPdu(s, msg),
         ~(s.linkState = "ACTIVE" /\ msg = "SYNC")
  PROVE  \/ Linked(s, t) /\ (t.linkState = "ACTIVE" <=> s.linkState = "ACTIVE")
         \/ s.linkState # "ACTIVE" /\ Cleared(s, t)
<1>1. s \in ControlBlock
  BY DEF GoodCb
<1>2. Linked(s, s)
  BY DEF Linked, SameSnd, SameRcv
<1>3. CASE s.linkState = "IDLE" /\ msg = "SYNC_RSP"
  <2>1. PICK v : v = [s EXCEPT !.linkState = "INIT"]
    OBVIOUS
  <2>2. v \in ControlBlock /\ v.linkState = "INIT" /\ SameSnd(s, v) /\ SameRcv(s, v) /\ v.uartTx = s.uartTx
    BY <1>1, <2>1 DEF ControlBlock, LinkState, SameSnd, SameRcv
  <2>3. t = SendLink(v, "CONFIG")
    BY <1>3, <2>1 DEF DecodeLinkPdu
  <2>4. Linked(v, t) /\ t.linkState = "INIT"
    BY <2>2, <2>3, SendLinkFx
  <2>5. Linked(s, t)
    BY <2>2, <2>4 DEF Linked, SameSnd, SameRcv
  <2> QED
    BY <1>3, <2>4, <2>5
<1>4. CASE s.linkState = "INIT" /\ msg = "CONFIG_RSP"
  <2>1. PICK v : v = [s EXCEPT !.linkState = "ACTIVE"]
    OBVIOUS
  <2>2. /\ v \in ControlBlock /\ v.linkState = "ACTIVE" /\ v.uartTx = s.uartTx
        /\ v.made = s.made /\ v.rel = s.rel /\ v.drop = s.drop /\ v.txFifo = s.txFifo
        /\ v.got = s.got /\ v.last = s.last /\ v.dup = s.dup
    BY <1>1, <2>1 DEF ControlBlock, LinkState
  <2>3. t = Reset(v) /\ Queued(v) = Queued(s)
    BY <1>4, <2>1, <2>2 DEF DecodeLinkPdu, Queued
  <2>4. PICK k : k = v.drop \cup Queued(v)
    OBVIOUS
  <2>5. t = [v EXCEPT !.txSeq = 0, !.txAck = 0, !.rxAck = 0,
            !.txSlidWinSize = 0, !.rxSlidWinSize = 0,
            !.txTick = FALSE, !.rxTick = FALSE, !.resendTick = FALSE,
            !.drop = k, !.txFifo = <<>>, !.hciRx = <<>>]
    BY <2>2, <2>3, <2>4 DEF Reset, ControlBlock
  <2>6. /\ t.rxAck = 0 /\ t.txSeq = 0 /\ t.txSlidWinSize = 0 /\ t.txFifo = <<>>
        /\ t.made = v.made /\ t.rel = v.rel /\ t.drop = k
        /\ t.txAck = 0 /\ t.hciRx = <<>> /\ t.got = v.got /\ t.last = v.last /\ t.dup = v.dup
        /\ t.uartTx = v.uartTx /\ t.linkState = v.linkState
    BY <2>2, <2>5 DEF ControlBlock
  <2> QED
    BY <1>4, <2>2, <2>3, <2>4, <2>6 DEF Cleared
<1>5. CASE ~(s.linkState = "IDLE" /\ msg = "SYNC_RSP") /\ ~(s.linkState = "INIT" /\ msg = "CONFIG_RSP")
  <2>1. t = s \/ \E m : t = SendLink(s, m)
    <3>1. s.linkState \in {"IDLE", "INIT", "ACTIVE"}
      BY <1>1 DEF ControlBlock, LinkState
    <3> QED
      BY <1>5, <3>1 DEF DecodeLinkPdu
  <2> QED
    BY <1>1, <1>2, <2>1, SendLinkFx
<1> QED
  BY <1>3, <1>4, <1>5

(* The oldest packet goes out with the number and the acknowledgement of   *)
(* the node, and the ack timer is disarmed.                                *)
SentOut(s, t) ==
  /\ Sent(s, t) /\ s.txFifo # <<>> /\ s.uartTx = NoFrame /\ ~t.rxTick
  /\ IsData(t.uartTx) /\ t.uartTx.seq = s.rxAck /\ t.uartTx.ack = s.txAck
  /\ t.uartTx.id = s.txFifo[1].id

Reliable(s) == \A i \in 1..Len(s.txFifo) : s.txFifo[i].type \in ReliableType

(* HCI_H5_SendData with an empty window of one.                            *)
LEMMA SendDataFx ==
  ASSUME SlidWinSize = 1, NEW s \in GoodCb, s.txSlidWinSize = 0, s.txSeq = s.rxAck, Reliable(s),
         NEW t, t = SendData(s)
  PROVE  /\ SameRcv(s, t) /\ t.linkState = s.linkState
         /\ (Rewound(s, t) /\ t.uartTx = s.uartTx) \/ SentOut(s, t)
<1>1. s \in ControlBlock /\ s.txFifo \in Seq(Pkt) /\ s.rxAck \in SeqNum
  BY DEF GoodCb, ControlBlock
<1>2. CASE s.txFifo = <<>>
  <2>1. t = s
    BY <1>2 DEF SendData
  <2> QED
    BY <2>1 DEF Rewound, SameRcv
<1>3. CASE s.txFifo # <<>>
  <2>1. PICK p, v : p = s.txFifo[1] /\ v = Send(s, p.type, "none", p.id)
    OBVIOUS
  <2>2. 1 \in 1..Len(s.txFifo) /\ Len(s.txFifo) # 0
    BY <1>1, <1>3
  <2>3. p \in Pkt /\ p.type \in ReliableType
    BY <1>1, <2>1, <2>2 DEF Reliable
  <2>4. p.type \in DataType \cup {"ACK", "LINK_CTRL"} /\ "none" \in LinkMsg \cup {"none"} /\ p.id \in Nat
    BY <2>3 DEF Pkt
  <2>5. v \in GoodCb
    BY <2>1, <2>4, SendGood, Zenon
  <2>6. v \in ControlBlock
    BY <2>5 DEF GoodCb
  <2>7. /\ SameRcv(s, v) /\ v.linkState = s.linkState
        /\ v.rxAck = s.rxAck /\ v.txSlidWinSize = 0 /\ v.txFifo = s.txFifo
        /\ v.made = s.made /\ v.rel = s.rel /\ v.drop = s.drop
        /\ v.txSeq = Nxt(s.rxAck)
        /\ v.uartTx = IF s.uartTx = NoFrame THEN Made(s, p.type, "none", p.id) ELSE s.uartTx
    BY <1>1, <2>1, <2>3, SendFx
  <2>8. t = IF isUartTxDone(s)
            THEN [v EXCEPT !.txSlidWinSize = 1, !.rxSlidWinSize = 0, !.txTick = TRUE, !.rxTick = FALSE]
            ELSE [v EXCEPT !.txSeq = Prv(v.txSeq), !.txTick = FALSE]
    <3>1. ~(s.txSlidWinSize >= SlidWinSize \/ Len(s.txFifo) = s.txSlidWinSize)
      BY <2>2
    <3>2. s.txFifo[s.txSlidWinSize + 1] = p
      BY <2>1
    <3>3. v.txSlidWinSize + 1 = 1
      BY <2>7
    <3> QED
      BY <2>1, <2>6, <3>1, <3>2, <3>3, ZenonT(30) DEF SendData, Prv, ControlBlock
  <2>9. CASE s.uartTx = NoFrame
    <3>1. t = [v EXCEPT !.txSlidWinSize = 1, !.rxSlidWinSize = 0, !.txTick = TRUE, !.rxTick = FALSE]
      BY <2>8, <2>9 DEF isUartTxDone
    <3>2. /\ SameRcv(v, t) /\ t.linkState = v.linkState /\ t.uartTx = v.uartTx /\ ~t.rxTick
          /\ t.rxAck = v.rxAck /\ t.txSlidWinSize = 1 /\ t.txFifo = v.txFifo
          /\ t.made = v.made /\ t.rel = v.rel /\ t.drop = v.drop /\ t.txSeq = v.txSeq
      BY <2>6, <3>1 DEF ControlBlock, SameRcv
    <3>3. v.uartTx = Made(s, p.type, "none", p.id)
      BY <2>7, <2>9
    <3>4. /\ Made(s, p.type, "none", p.id).type = p.type
          /\ Made(s, p.type, "none", p.id).seq = s.rxAck
          /\ Made(s, p.type, "none", p.id).ack = s.txAck
          /\ Made(s, p.type, "none", p.id).id = p.id
      BY <2>3 DEF Made
    <3>5. Sent(s, t)
      BY <2>7, <3>2 DEF Sent
    <3>6. SameRcv(s, t)
      BY <2>7, <3>2 DEF SameRcv
    <3> QED
      BY <1>3, <2>1, <2>3, <2>7, <2>9, <3>2, <3>3, <3>4, <3>5, <3>6, SMTT(30) DEF SentOut, IsData
  <2>10. CASE s.uartTx # NoFrame
    <3>1. PICK k : k = Prv(v.txSeq)
      OBVIOUS
    <3>2. k = s.rxAck
      BY <1>1, <2>7, <3>1, Around
    <3>3. t = [v EXCEPT !.txSeq = k, !.txTick = FALSE]
      BY <2>8, <2>10, <3>1 DEF isUartTxDone
    <3>4. /\ SameRcv(v, t) /\ t.linkState = v.linkState /\ t.uartTx = v.uartTx
          /\ t.rxAck = v.rxAck /\ t.txSlidWinSize = v.txSlidWinSize /\ t.txFifo = v.txFifo
          /\ t.made = v.made /\ t.rel = v.rel /\ t.drop = v.drop /\ t.txSeq = k
      BY <2>6, <3>3 DEF ControlBlock, SameRcv
    <3>5. Rewound(s, t) /\ SameRcv(s, t)
      BY <2>7, <3>2, <3>4 DEF Rewound, SameRcv
    <3> QED
      BY <2>7, <2>10, <3>4, <3>5
  <2> QED
    BY <2>9, <2>10
<1> QED
  BY <1>2, <1>3

(* HCI_H5_ResendStart, with one of the timers disarmed before.             *)
LEMMA ResendFx ==
  ASSUME SlidWinSize = 1, NEW s \in GoodCb, Reliable(s), NEW v, NEW t, t = ResendStart(v),
         v = [s EXCEPT !.resendTick = FALSE] \/ v = [s EXCEPT !.txTick = FALSE]
  PROVE  /\ SameRcv(s, t) /\ t.linkState = s.linkState
         /\ (Rewound(s, t) /\ t.uartTx = s.uartTx) \/ SentOut(s, t)
<1>1. PICK u : u = [v EXCEPT !.txSeq = v.rxAck, !.txSlidWinSize = 0]
  OBVIOUS
<1>2. v \in ControlBlock
  BY ZenonT(30) DEF GoodCb, ControlBlock
<1>3. /\ v.rxAck = s.rxAck /\ v.txFifo = s.txFifo /\ v.made = s.made /\ v.rel = s.rel
      /\ v.drop = s.drop /\ v.linkState = s.linkState /\ v.uartTx = s.uartTx /\ SameRcv(s, v)
  BY DEF GoodCb, ControlBlock, SameRcv
<1>4. v.rxAck \in SeqNum /\ 0 \in 0..7
  BY <1>2 DEF ControlBlock
<1>5. /\ u.rxAck = v.rxAck /\ u.txFifo = v.txFifo /\ u.made = v.made /\ u.rel = v.rel
      /\ u.drop = v.drop /\ u.linkState = v.linkState /\ u.uartTx = v.uartTx /\ SameRcv(v, u)
      /\ u.txSlidWinSize = 0 /\ u.txSeq = v.rxAck
  BY <1>1, <1>2 DEF ControlBlock, SameRcv
<1>6. u \in ControlBlock
  BY <1>1, <1>2, <1>4, ZenonT(60) DEF ControlBlock
<1>7. u \in GoodCb
  <2>1. Len(u.txFifo) \in Nat
    BY <1>6 DEF ControlBlock
  <2> QED
    BY <1>5, <1>6, <2>1, SlidWinAssumption DEF GoodCb, WindowOK
<1>8. t = SendData(u)
  BY <1>1 DEF ResendStart
<1>9. u.txSeq = u.rxAck /\ Reliable(u)
  BY <1>3, <1>5 DEF Reliable
<1>10. /\ SameRcv(u, t) /\ t.linkState = u.linkState
       /\ (Rewound(u, t) /\ t.uartTx = u.uartTx) \/ SentOut(u, t)
  BY <1>5, <1>7, <1>8, <1>9, SendDataFx
<1>11. u.rxAck = s.rxAck /\ u.txFifo = s.txFifo /\ u.made = s.made /\ u.rel = s.rel
       /\ u.drop = s.drop /\ u.linkState = s.linkState /\ u.uartTx = s.uartTx
       /\ SameRcv(s, u)
  BY <1>3, <1>5 DEF SameRcv
<1>12. SameRcv(s, t)
  BY <1>10, <1>11 DEF SameRcv
<1> QED
  BY <1>10, <1>11, <1>12 DEF Rewound, SentOut, Sent, SameRcv

(* The transmit part of HCI_H5_Poll on an active link ...                  *)
Polled(s, t) ==
  /\ SameRcv(s, t) /\ t.linkState = s.linkState
  /\ \/ (SameSnd(s, t) \/ Rewound(s, t)) /\ t.uartTx = s.uartTx
     \/ SentOut(s, t)

(* HCI_H5_Poll on an active link sends the oldest packet, rewinds the      *)
(* window, or does nothing.                                                *)
LEMMA PollActiveFx ==
  ASSUME SlidWinSize = 1, NEW s \in GoodCb, NEW timeout, NEW t, t = PollLink(s, timeout),
         s.linkState = "ACTIVE", Reliable(s),
         s.txSlidWinSize = 0 /\ ~s.resendTick => s.txSeq = s.rxAck
  PROVE  Polled(s, t)
<1>1. s.txSlidWinSize \in 0..7 /\ s.resendTick \in BOOLEAN
  BY DEF GoodCb, ControlBlock
<1>2. CASE s.resendTick /\ timeout
  <2>1. PICK v : v = [s EXCEPT !.resendTick = FALSE]
    OBVIOUS
  <2>2. t = ResendStart(v)
    BY <1>2, <2>1 DEF PollLink
  <2> QED
    BY <2>1, <2>2, ResendFx DEF Polled
<1>3. CASE ~s.resendTick /\ s.txSlidWinSize >= SlidWinSize /\ s.txTick /\ timeout
  <2>1. PICK v : v = [s EXCEPT !.txTick = FALSE]
    OBVIOUS
  <2>2. t = ResendStart(v)
    BY <1>1, <1>3, <2>1 DEF PollLink
  <2> QED
    BY <2>1, <2>2, ResendFx DEF Polled
<1>4. CASE ~s.resendTick /\ s.txSlidWinSize < SlidWinSize
  <2>1. t = SendData(s) /\ s.txSlidWinSize = 0
    BY <1>1, <1>4 DEF PollLink
  <2> QED
    BY <1>4, <2>1, SendDataFx DEF Polled
<1>5. CASE /\ ~(s.resendTick /\ timeout)
           /\ ~(~s.resendTick /\ s.txSlidWinSize >= SlidWinSize /\ s.txTick /\ timeout)
           /\ ~(~s.resendTick /\ s.txSlidWinSize < SlidWinSize)
  <2>1. t = s
    BY <1>5 DEF PollLink
  <2> QED
    BY <2>1 DEF Polled, SameSnd, SameRcv
<1> QED
  BY <1>2, <1>3, <1>4, <1>5

(* ... and before.                                                         *)
LEMMA PollDownFx ==
  ASSUME NEW s \in GoodCb, NEW timeout, NEW t, t = PollLink(s, timeout), s.linkState # "ACTIVE"
  PROVE  Linked(s, t) /\ t.linkState = s.linkState
<1>1. s \in ControlBlock
  BY DEF GoodCb
<1>2. t = s \/ t = SendLink(s, "SYNC") \/ t = SendLink(s, "CONFIG")
  BY <1>1 DEF PollLink, ControlBlock, LinkState
<1>3. Linked(s, s)
  BY DEF Linked, SameSnd, SameRcv
<1> QED
  BY <1>1, <1>2, <1>3, SendLinkFx

(* HCI_RxHandler takes the one packet there may be.                        *)
Reads(s, t) ==
  /\ SameSnd(s, t) /\ t.txAck = s.txAck /\ t.hciRx = <<>> /\ t.got = s.got /\ t.last = s.last
  /\ t.dup = s.dup /\ t.uartTx = s.uartTx /\ t.linkState = s.linkState

(* HCI_RxHandler leaves the HCI rx FIFO empty.                             *)
LEMMA ReadFx ==
  ASSUME NEW s \in GoodCb, s.hciRx = <<>> \/ Len(s.hciRx) = 1, NEW t, t = HciHandler(s)
  PROVE  Reads(s, t)
<1>1. CASE s.hciRx = <<>>
  BY <1>1 DEF HciHandler, Reads, SameSnd
<1>2. CASE s.hciRx # <<>>
  <2>1. s.hciRx \in Seq(Nat) /\ s \in ControlBlock
    BY DEF GoodCb, ControlBlock
  <2>2. PICK q : q = Tail(s.hciRx)
    OBVIOUS
  <2>3. q = <<>>
    <3>1. q \in Seq(Nat) /\ Len(q) = 0
      BY <1>2, <2>1, <2>2
    <3> QED
      BY <3>1
  <2>4. t = [s EXCEPT !.hciRx = q]
    BY <1>2, <2>1, <2>2 DEF HciHandler, ControlBlock
  <2> QED
    BY <2>1, <2>3, <2>4 DEF Reads, SameSnd, ControlBlock
<1> QED
  BY <1>1, <1>2

(* The pure-ack handler at the end of HCI_H5_Poll.                         *)
LEMMA PollPureAckFx ==
  ASSUME NEW s \in GoodCb, NEW t, t = PollPureAck(s)
  PROVE  /\ SameSnd(s, t) /\ SameRcv(s, t) /\ t.linkState = s.linkState
         /\ \/ t.uartTx = s.uartTx
            \/ s.uartTx = NoFrame /\ t.uartTx.type = "ACK" /\ t.uartTx.ack = s.txAck
<1>1. PICK v : v = [s EXCEPT !.rxTick = FALSE, !.rxSlidWinSize = 0]
  OBVIOUS
<1>2. /\ v \in ControlBlock /\ SameSnd(s, v) /\ SameRcv(s, v) /\ v.linkState = s.linkState
      /\ v.uartTx = s.uartTx
  BY <1>1 DEF GoodCb, ControlBlock, SameSnd, SameRcv
<1>3. t = SendPureAck(v)
  BY <1>1 DEF PollPureAck
<1>4. /\ SameSnd(v, t) /\ SameRcv(v, t) /\ t.linkState = v.linkState
      /\ \/ t.uartTx = v.uartTx
         \/ v.uartTx = NoFrame /\ t.uartTx.type = "ACK" /\ t.uartTx.ack = v.txAck
  BY <1>2, <1>3, PureAckFx
<1> QED
  BY <1>2, <1>4 DEF SameSnd, SameRcv

(* The window is released.                                                 *)
LEMMA ReleaseFx ==
  ASSUME NEW s \in GoodCb, NEW v, NEW t, v = [s EXCEPT !.rxAck = s.txSeq], t = Release(v)
  PROVE  Released(s, t) /\ SameRcv(s, t) /\ t.uartTx = s.uartTx /\ t.linkState = s.linkState
<1>1. /\ v \in ControlBlock /\ v.rxAck = s.txSeq /\ v.txSeq = s.txSeq /\ v.txFifo = s.txFifo
      /\ v.txSlidWinSize = s.txSlidWinSize /\ v.rel = s.rel /\ v.made = s.made /\ v.drop = s.drop
      /\ v.uartTx = s.uartTx /\ v.linkState = s.linkState /\ SameRcv(s, v)
  BY DEF GoodCb, ControlBlock, SameRcv
<1>2. PICK a, b : /\ a = v.rel \cup {v.txFifo[i].id : i \in 1..v.txSlidWinSize}
                  /\ b = SubSeq(v.txFifo, v.txSlidWinSize + 1, Len(v.txFifo))
  OBVIOUS
<1>3. t = [v EXCEPT !.rel = a, !.txFifo = b, !.txSlidWinSize = 0, !.txTick = FALSE, !.resendTick = FALSE]
  BY <1>1, <1>2 DEF Release, ControlBlock
<1>4. /\ t.rxAck = v.rxAck /\ t.txSeq = v.txSeq /\ t.txSlidWinSize = 0 /\ t.txFifo = b /\ t.rel = a
      /\ t.made = v.made /\ t.drop = v.drop /\ t.uartTx = v.uartTx /\ t.linkState = v.linkState
      /\ SameRcv(v, t)
  BY <1>1, <1>3, ZenonT(30) DEF ControlBlock, SameRcv
<1>5. SameRcv(s, t)
  BY <1>1, <1>4 DEF SameRcv
<1>6. Released(s, t)
  BY <1>1, <1>2, <1>4 DEF Released
<1> QED
  BY <1>1, <1>4, <1>5, <1>6

(* A pure acknowledgement comes in.                                        *)
LEMMA RxPureAckFx ==
  ASSUME NEW s \in GoodCb, NEW ack, NEW t, t = RxPureAck(s, ack)
  PROVE  /\ SameRcv(s, t) /\ t.uartTx = s.uartTx /\ t.linkState = s.linkState
         /\ ack = s.txSeq => Released(s, t)
         /\ ack # s.txSeq => Late(s, t, ack)
<1>1. PICK v : v = [s EXCEPT !.rxAck = ack]
  OBVIOUS
<1>2. CASE ack = s.txSeq
  <2>1. t = Release(v)
    BY <1>1, <1>2 DEF RxPureAck
  <2> QED
    BY <1>1, <1>2, <2>1, ReleaseFx
<1>3. CASE ack # s.txSeq
  <2>1. t = [v EXCEPT !.txTick = FALSE, !.resendTick = TRUE]
    BY <1>1, <1>3 DEF RxPureAck
  <2>2. t = [s EXCEPT !.rxAck = ack, !.txTick = FALSE, !.resendTick = TRUE]
    BY <1>1, <2>1 DEF GoodCb, ControlBlock
  <2> QED
    BY <1>3, <2>2 DEF GoodCb, ControlBlock, SameRcv, Late
<1> QED
  BY <1>2, <1>3

(* A packet with the expected number is handed over.                       *)
LEMMA AcceptFx ==
  ASSUME SlidWinSize = 1, NEW s \in GoodCb, NEW id \in Nat, NEW t, t = AcceptData(s, id)
  PROVE  SameSnd(s, t) /\ Accepted(s, t, id) /\ t.uartTx = s.uartTx /\ t.linkState = s.linkState
<1>1. PICK a, b : a = Nxt(s.txAck) /\ b = s.rxSlidWinSize + 1
  OBVIOUS
<1>2. PICK v : v = [s EXCEPT !.txAck = a, !.rxSlidWinSize = b, !.rxTick = TRUE]
  OBVIOUS
<1>3. t = PackHciPdu(v, id)
  BY <1>1, <1>2 DEF AcceptData, Nxt, GoodCb, ControlBlock
<1>4. a \in SeqNum /\ b \in Nat
  BY <1>1, Around DEF GoodCb, ControlBlock
<1>5. /\ v \in ControlBlock /\ SameSnd(s, v) /\ v.txAck = a /\ v.hciRx = s.hciRx
      /\ v.got = s.got /\ v.last = s.last /\ v.dup = s.dup
      /\ v.uartTx = s.uartTx /\ v.linkState = s.linkState
  BY <1>2, <1>4 DEF GoodCb, ControlBlock, SameSnd
<1>6. PICK h, g, k : /\ h = Append(v.hciRx, id) /\ g = v.got \cup {id}
                     /\ k = (v.dup \/ id \in v.got)
  OBVIOUS
<1>7. t = [v EXCEPT !.hciRx = h, !.last = id, !.got = g, !.dup = k]
  BY <1>3, <1>5, <1>6 DEF PackHciPdu, ControlBlock
<1>8. /\ SameSnd(v, t) /\ t.txAck = v.txAck /\ t.hciRx = h /\ t.got = g /\ t.last = id
      /\ t.dup = k /\ t.uartTx = v.uartTx /\ t.linkState = v.linkState
  BY <1>5, <1>7 DEF ControlBlock, SameSnd
<1>9. SameSnd(s, t)
  BY <1>5, <1>8 DEF SameSnd
<1>10. Accepted(s, t, id)
  BY <1>1, <1>5, <1>6, <1>8 DEF Accepted
<1> QED
  BY <1>5, <1>8, <1>9, <1>10

(* HCI_H5_DecodeDataPdu: the packet, then the acknowledgement it carries.  *)
LEMMA DataFx ==
  ASSUME SlidWinSize = 1, NEW s \in GoodCb, NEW f \in Frame, IsData(f), NEW t, t = DecodeDataPdu(s, f)
  PROVE  /\ f.seq = s.txAck => Accepted(s, t, f.id)
         /\ f.seq # s.txAck => SameRcv(s, t)
         /\ f.ack = s.txSeq => Released(s, t)
         /\ f.ack # s.txSeq => Armed(s, t)
         /\ t.uartTx = s.uartTx /\ t.linkState = s.linkState
<1>1. PICK v : v = IF f.seq = s.txAck THEN AcceptData(s, f.id) ELSE s
  OBVIOUS
<1>2. f.id \in Nat /\ f.ack \in SeqNum
  BY DEF Frame
<1>3. /\ v \in GoodCb /\ SameSnd(s, v) /\ v.uartTx = s.uartTx /\ v.linkState = s.linkState
      /\ f.seq = s.txAck => Accepted(s, v, f.id)
      /\ f.seq # s.txAck => SameRcv(s, v)
  <2>1. CASE f.seq = s.txAck
    BY <1>1, <1>2, <2>1, AcceptFx, AcceptDataGood
  <2>2. CASE f.seq # s.txAck
    BY <1>1, <2>2 DEF SameSnd, SameRcv
  <2> QED
    BY <2>1, <2>2
<1>4. t = IF f.ack = v.txSeq THEN Release([v EXCEPT !.rxAck = f.ack]) ELSE [v EXCEPT !.resendTick = TRUE]
  BY <1>1 DEF DecodeDataPdu, IsData
<1>5. v.txSeq = s.txSeq
  BY <1>3 DEF SameSnd
<1>6. /\ SameRcv(v, t) /\ t.uartTx = v.uartTx /\ t.linkState = v.linkState
      /\ f.ack = v.txSeq => Released(v, t)
      /\ f.ack # v.txSeq => Armed(v, t)
  <2>1. CASE f.ack = v.txSeq
    <3>1. PICK w : w = [v EXCEPT !.rxAck = v.txSeq]
      OBVIOUS
    <3>2. t = Release(w)
      BY <1>4, <2>1, <3>1
    <3> QED
      BY <1>3, <2>1, <3>1, <3>2, ReleaseFx
  <2>2. CASE f.ack # v.txSeq
    <3>1. t = [v EXCEPT !.resendTick = TRUE]
      BY <1>4, <2>2
    <3> QED
      BY <1>3, <2>2, <3>1 DEF GoodCb, ControlBlock, Armed, SameRcv
  <2> QED
    BY <2>1, <2>2
<1>7. f.seq = s.txAck => Accepted(s, t, f.id)
  BY <1>3, <1>6 DEF Accepted, SameRcv
<1>8. f.seq # s.txAck => SameRcv(s, t)
  BY <1>3, <1>6 DEF SameRcv
<1>9. f.ack = s.txSeq => Released(s, t)
  BY <1>3, <1>5, <1>6 DEF Released, SameSnd
<1>10. f.ack # s.txSeq => Armed(s, t)
  BY <1>3, <1>5, <1>6 DEF Armed, SameSnd
<1> QED
  BY <1>3, <1>6, <1>7, <1>8, <1>9, <1>10

-----------------------------------------------------------------------------
(* Both directions of a node s and its peer r, with the frames c from s to *)
(* r and d from r to s.                                                    *)
Pair(s, r, c, d) ==
  /\ Dir(s, r, c, d) /\ Dir(r, s, d, c)
  /\ Down(s, r, c) /\ Down(r, s, d)

(* It is the same seen from the peer.                                      *)
LEMMA PairSwap ==
  ASSUME NEW s, NEW r, NEW c, NEW d, Pair(s, r, c, d)
  PROVE  Pair(r, s, d, c)
  BY Zenon DEF Pair

(* A frame to s is taken without effect, or lost.                          *)
LEMMA PairThin ==
  ASSUME NEW s, NEW r, NEW c, NEW d, NEW e, NEW k \in {0, 1}, Pair(s, r, c, d), Thin(e, d, k)
  PROVE  Pair(s, r, c, e)
  BY DirThinC, DirThinD, DownThin, Zenon DEF Pair

(* s sends a link message or nothing.                                      *)
LEMMA PairLink ==
  ASSUME NEW s, NEW r, NEW p \in Seq(Frame), NEW d, NEW t, t.uartTx \in Frame,
         Pair(s, r, Chan(p, s.uartTx), d), Linked(s, t),
         t.linkState = "ACTIVE" <=> s.linkState = "ACTIVE"
  PROVE  Pair(t, r, Chan(p, t.uartTx), d)
<1> DEFINE c == Chan(p, s.uartTx)
           e == Chan(p, t.uartTx)
<1>1. SameSnd(s, t) /\ SameRcv(s, t) /\ SameSnd(r, r) /\ SameRcv(r, r)
  BY DEF Linked, SameSnd, SameRcv
<1>2. Dir(t, r, c, d) /\ Dir(r, t, d, c)
  BY <1>1, DirSame, Zenon DEF Pair
<1>3. Down(t, r, c)
  <2>1. /\ t.txSeq = s.txSeq /\ t.txAck = s.txAck /\ t.rxAck = s.rxAck
        /\ t.txSlidWinSize = s.txSlidWinSize /\ t.resendTick = s.resendTick
        /\ t.hciRx = s.hciRx
    BY <1>1, Zenon DEF SameSnd, SameRcv
  <2> QED
    BY <2>1, DownSame, Zenon DEF Pair
<1>4. Down(r, t, d)
  <2>1. t.txAck = s.txAck /\ t.rxAck = s.rxAck
    BY <1>1, Zenon DEF SameSnd, SameRcv
  <2> QED
    BY <2>1, DownPeer, Zenon DEF Pair
<1>5. CASE t.uartTx = s.uartTx
  BY <1>2, <1>3, <1>4, <1>5, Zenon DEF Pair
<1>6. CASE s.uartTx = NoFrame /\ t.uartTx.type = "LINK_CTRL"
  <2>1. t.uartTx # NoFrame
    BY <1>6 DEF NoFrame
  <2>2. ~IsData(t.uartTx) /\ ~IsAck(t.uartTx) /\ t.uartTx.type # "SCO"
    BY <1>6 DEF IsData, IsAck, ReliableType
  <2>3. More(e, c, t.uartTx)
    BY <1>6, <2>1, ChanSend
  <2> HIDE DEF c, e
  <2>4. Dir(t, r, e, d)
    BY <1>2, <2>2, <2>3, DirMoreC, Zenon
  <2>5. Dir(r, t, d, e)
    BY <1>2, <2>2, <2>3, DirMoreD, Zenon
  <2>6. Down(t, r, e)
    BY <1>3, <2>2, <2>3, DownMore, Zenon
  <2> QED
    BY <1>4, <2>4, <2>5, <2>6, Zenon DEF Pair, e
<1> QED
  BY <1>5, <1>6, Zenon DEF Linked

(* s becomes active.                                                       *)
LEMMA PairClear ==
  ASSUME NEW s \in GoodCb, NEW r \in GoodCb, NEW c, NEW d, NEW t, Pair(s, r, c, d),
         s.linkState # "ACTIVE", Cleared(s, t)
  PROVE  Pair(t, r, c, d)
<1>1. Dir(t, r, c, d)
  BY DirReset DEF Pair, Cleared
<1>2. s.txAck = 0 /\ s.rxAck = 0
  BY DEF Pair, Down
<1>3. Dir(r, t, d, c)
  BY <1>2, DirRead DEF Pair, Cleared
<1>4. Down(r, t, d)
  BY <1>2, DownPeer DEF Pair, Cleared
<1>5. Down(t, r, c)
  BY DEF Down, Cleared
<1> QED
  BY <1>1, <1>3, <1>4, <1>5, Zenon DEF Pair

(* A pure acknowledgement reaches s.                                       *)
LEMMA PairAck ==
  ASSUME SlidWinSize = 1, NEW s \in GoodCb, NEW r \in GoodCb, NEW c, NEW d, NEW e, NEW t,
         Pair(s, r, c, d), Thin(e, d, 1), Len(d) > 0, s.linkState = "ACTIVE",
         d[1].type = "ACK", t = RxPureAck(s, d[1].ack)
  PROVE  Pair(t, r, c, e) /\ t.uartTx = s.uartTx
<1>1. IsAck(d[1])
  BY DEF IsAck
<1>2. /\ SameRcv(s, t) /\ t.uartTx = s.uartTx /\ t.linkState = s.linkState
      /\ d[1].ack = s.txSeq => Released(s, t)
      /\ d[1].ack # s.txSeq => Late(s, t, d[1].ack)
  BY RxPureAckFx
<1>3. Dir(s, r, c, d) /\ Dir(r, s, d, c)
  BY Zenon DEF Pair
<1>4. Dir(t, r, c, e)
  <2>1. CASE d[1].ack = s.txSeq
    BY <1>1, <1>2, <1>3, <2>1, DirRelease
  <2>2. CASE d[1].ack # s.txSeq
    BY <1>1, <1>2, <1>3, <2>2, DirLate
  <2> QED
    BY <2>1, <2>2
<1>5. Dir(r, t, e, c)
  <2>1. Dir(r, s, e, c)
    BY <1>3, DirThinC
  <2>2. SameSnd(r, r)
    BY DEF SameSnd
  <2> QED
    BY <1>2, <2>1, <2>2, DirSame, Zenon
<1>6. Down(t, r, c)
  BY <1>2 DEF Down
<1>7. Down(r, t, e)
  <2>1. 1 \in 1..Len(d)
    BY DEF Thin
  <2> QED
    BY <1>1, <2>1 DEF Pair, Down
<1> QED
  BY <1>2, <1>4, <1>5, <1>6, <1>7, Zenon DEF Pair

(* A packet reaches s: HCI_H5_DecodeDataPdu takes it or not, then looks at *)
(* its acknowledgement.                                                    *)
LEMMA PairData ==
  ASSUME SlidWinSize = 1, NEW s \in GoodCb, NEW r \in GoodCb, NEW c, NEW d, NEW e, NEW t,
         Pair(s, r, c, d), Thin(e, d, 1), Len(d) > 0, s.linkState = "ACTIVE",
         d[1] \in Frame, IsData(d[1]), t = DecodeDataPdu(s, d[1])
  PROVE  Pair(t, r, c, e) /\ t.uartTx = s.uartTx
<1>1. IsAck(d[1])
  BY DEF IsAck, IsData
<1>2. /\ d[1].seq = s.txAck => Accepted(s, t, d[1].id)
      /\ d[1].seq # s.txAck => SameRcv(s, t)
      /\ d[1].ack = s.txSeq => Released(s, t)
      /\ d[1].ack # s.txSeq => Armed(s, t)
      /\ t.uartTx = s.uartTx /\ t.linkState = s.linkState
  BY DataFx
<1>3. Dir(s, r, c, d) /\ Dir(r, s, d, c)
  BY Zenon DEF Pair
<1>4. Dir(t, r, c, e)
  <2>1. CASE d[1].ack = s.txSeq
    BY <1>1, <1>2, <1>3, <2>1, DirRelease
  <2>2. CASE d[1].ack # s.txSeq
    <3>1. Dir(s, r, c, e)
      BY <1>3, DirThinD
    <3> QED
      BY <1>2, <2>2, <3>1, DirArm, Zenon
  <2> QED
    BY <2>1, <2>2
<1>5. Dir(r, t, e, c)
  <2>1. CASE d[1].seq = s.txAck
    BY <1>2, <1>3, <2>1, DirAccept
  <2>2. CASE d[1].seq # s.txAck
    <3>1. Dir(r, s, e, c)
      BY <1>3, DirThinC
    <3>2. SameSnd(r, r)
      BY DEF SameSnd
    <3> QED
      BY <1>2, <2>2, <3>1, <3>2, DirSame, Zenon
  <2> QED
    BY <2>1, <2>2
<1>6. Down(t, r, c)
  BY <1>2 DEF Down
<1>7. Down(r, t, e)
  <2>1. 1 \in 1..Len(d)
    BY DEF Thin
  <2> QED
    BY <1>1, <2>1 DEF Pair, Down
<1> QED
  BY <1>2, <1>4, <1>5, <1>6, <1>7, Zenon DEF Pair

(* HCI_H5_PakcetHandler                                                    *)
LEMMA PairRx ==
  ASSUME SlidWinSize = 1, NEW s \in GoodCb, NEW r \in GoodCb, NEW p \in Seq(Frame),
         NEW q \in Seq(Frame), q # <<>>, NEW t \in GoodCb, t = PacketHandler(s, Head(q)),
         ~(s.linkState = "ACTIVE" /\ Head(q).msg = "SYNC"),
         Pair(s, r, Chan(p, s.uartTx), Chan(q, r.uartTx))
  PROVE  Pair(t, r, Chan(p, t.uartTx), Chan(Tail(q), r.uartTx))
<1>1. PICK f, c, d, e : /\ f = Head(q) /\ c = Chan(p, s.uartTx)
                        /\ d = Chan(q, r.uartTx) /\ e = Chan(Tail(q), r.uartTx)
  OBVIOUS
<1>2. r.uartTx \in Frame /\ t.uartTx \in Frame
  BY DEF GoodCb, ControlBlock
<1>3. Thin(e, d, 1) /\ d[1] = f /\ Len(d) > 0
  BY <1>1, <1>2, ChanTake
<1>4. f \in Frame
  BY <1>1
<1>5. Pair(s, r, c, d) /\ Pair(s, r, c, e)
  <2>1. Pair(s, r, c, d) /\ 1 \in {0, 1}
    BY <1>1
  <2> QED
    BY <1>3, <2>1, PairThin, Zenon
<1>6. CASE f.type = "LINK_CTRL"
  <2>1. t = DecodeLinkPdu(s, f.msg)
    BY <1>1, <1>6 DEF PacketHandler, DataType, ReliableType
  <2>2. \/ Linked(s, t) /\ (t.linkState = "ACTIVE" <=> s.linkState = "ACTIVE")
        \/ s.linkState # "ACTIVE" /\ Cleared(s, t)
    BY <1>1, <2>1, LinkPduFx
  <2>3. CASE Linked(s, t) /\ (t.linkState = "ACTIVE" <=> s.linkState = "ACTIVE")
    BY <1>1, <1>2, <1>5, <2>3, PairLink, Zenon
  <2>4. CASE s.linkState # "ACTIVE" /\ Cleared(s, t)
    <3>1. Pair(t, r, c, e)
      BY <1>5, <2>4, PairClear, Zenon
    <3> QED
      BY <1>1, <2>4, <3>1 DEF Cleared
  <2> QED
    BY <2>2, <2>3, <2>4
<1>7. CASE f.type = "ACK" /\ s.linkState = "ACTIVE"
  <2>1. t = RxPureAck(s, f.ack)
    BY <1>1, <1>7 DEF PacketHandler, DataType, ReliableType
  <2>2. Pair(t, r, c, e) /\ t.uartTx = s.uartTx
    BY <1>3, <1>5, <1>7, <2>1, PairAck
  <2> QED
    BY <1>1, <2>2
<1>8. CASE IsData(f) /\ s.linkState = "ACTIVE"
  <2>1. t = DecodeDataPdu(s, f)
    BY <1>1, <1>8 DEF PacketHandler, IsData, DataType, ReliableType
  <2>2. Pair(t, r, c, e) /\ t.uartTx = s.uartTx
    BY <1>3, <1>4, <1>5, <1>8, <2>1, PairData
  <2> QED
    BY <1>1, <2>2
<1>9. CASE /\ f.type # "LINK_CTRL"
           /\ s.linkState = "ACTIVE" => f.type # "ACK" /\ ~IsData(f)
  <2>1. f.type # "SCO"
    <3>1. 1 \in 1..Len(d)
      BY <1>3 DEF Thin
    <3> QED
      BY <1>3, <1>5, <3>1 DEF Pair, Dir
  <2>2. t = s
    BY <1>1, <1>9, <2>1 DEF PacketHandler, IsData, DataType
  <2> QED
    BY <1>1, <1>5, <2>2
<1> QED
  BY <1>6, <1>7, <1>8, <1>9

(* HCI_RxHandler                                                           *)
LEMMA PairRead ==
  ASSUME NEW s, NEW r, NEW c, NEW d, NEW t, Pair(s, r, c, d), Reads(s, t)
  PROVE  Pair(t, r, c, d)
<1>1. SameSnd(s, t) /\ SameRcv(r, r) /\ t.linkState = s.linkState
  BY DEF Reads, SameRcv
<1>2. Dir(t, r, c, d)
  BY <1>1, DirSame, Zenon DEF Pair
<1>3. Dir(r, t, d, c)
  BY DirRead, Zenon DEF Pair, Reads
<1>4. Down(r, t, d)
  BY <1>1, DownPeer, Zenon DEF Pair, Reads, SameSnd
<1>5. Down(t, r, c)
  BY DEF Pair, Down, Reads, SameSnd
<1> QED
  BY <1>2, <1>3, <1>4, <1>5, Zenon DEF Pair

(* The window is rewound and nothing is sent.                              *)
LEMMA PairRewind ==
  ASSUME NEW s, NEW r, NEW c, NEW d, NEW t, Pair(s, r, c, d), SameRcv(s, t),
         SameSnd(s, t) \/ Rewound(s, t), s.linkState = "ACTIVE", t.linkState = "ACTIVE"
  PROVE  Pair(t, r, c, d)
<1>1. SameRcv(r, r) /\ SameSnd(r, r)
  BY DEF SameRcv, SameSnd
<1>2. Dir(t, r, c, d)
  BY <1>1, DirSame, DirRewind, Zenon DEF Pair
<1>3. Dir(r, t, d, c)
  BY <1>1, DirSame, Zenon DEF Pair
<1>4. Down(r, t, d)
  BY DownPeer, Zenon DEF Pair, SameRcv, SameSnd, Rewound
<1>5. Down(t, r, c)
  BY DEF Down
<1> QED
  BY <1>2, <1>3, <1>4, <1>5, Zenon DEF Pair

(* The oldest packet is sent, and what was received is read.               *)
LEMMA PairSend ==
  ASSUME NEW s, NEW r, NEW p \in Seq(Frame), NEW d, NEW v, NEW t, v.uartTx \in Frame,
         Pair(s, r, Chan(p, s.uartTx), d), SameRcv(s, v), SentOut(s, v), Reads(v, t),
         s.linkState = "ACTIVE", v.linkState = s.linkState
  PROVE  Pair(t, r, Chan(p, t.uartTx), d)
<1>1. PICK c, e, f : c = Chan(p, s.uartTx) /\ e = Chan(p, t.uartTx) /\ f = t.uartTx
  OBVIOUS
<1>2. f = v.uartTx /\ f \in Frame /\ s.uartTx = NoFrame
  BY <1>1 DEF Reads, SentOut
<1>3. /\ IsData(f) /\ f.seq = s.rxAck /\ f.ack = s.txAck /\ s.txFifo # <<>>
      /\ f.id = s.txFifo[1].id
  BY <1>2 DEF SentOut
<1>4. f # NoFrame
  BY <1>3 DEF IsData, ReliableType, NoFrame
<1>5. More(e, c, f)
  BY <1>1, <1>2, <1>4, ChanSend
<1>6. Sent(s, t)
  BY DEF SentOut, Sent, Reads, SameSnd
<1>7. Pair(s, r, c, d)
  BY <1>1
<1>8. Dir(t, r, e, d)
  BY <1>3, <1>5, <1>6, <1>7, DirSend, Zenon DEF Pair
<1>9. t.txAck = s.txAck /\ t.hciRx = <<>> /\ t.got = s.got /\ t.last = s.last
  BY DEF SameRcv, Reads
<1>10. Dir(r, t, d, c)
  BY <1>7, <1>9, DirRead, Zenon DEF Pair
<1>11. Dir(r, t, d, e)
  <2>1. f.ack = t.txAck
    BY <1>3, <1>9
  <2> QED
    BY <1>5, <1>9, <1>10, <2>1, DirMoreAck, Zenon
<1>12. Down(r, t, d)
  BY <1>6, <1>7, <1>9, DownPeer, Zenon DEF Pair, Sent
<1>13. Down(t, r, e)
  BY DEF Down, Reads
<1> QED
  BY <1>1, <1>8, <1>11, <1>12, <1>13, Zenon DEF Pair

(* A pure acknowledgement is sent, or not, and what was received is read.  *)
LEMMA PairPureAck ==
  ASSUME NEW s, NEW r, NEW p \in Seq(Frame), NEW d, NEW v, NEW t, v.uartTx \in Frame,
         Pair(s, r, Chan(p, s.uartTx), d), SameSnd(s, v), SameRcv(s, v), Reads(v, t),
         s.linkState = "ACTIVE", v.linkState = s.linkState,
         \/ v.uartTx = s.uartTx
         \/ s.uartTx = NoFrame /\ v.uartTx.type = "ACK" /\ v.uartTx.ack = s.txAck
  PROVE  Pair(t, r, Chan(p, t.uartTx), d)
<1>1. PICK c, e, f : c = Chan(p, s.uartTx) /\ e = Chan(p, t.uartTx) /\ f = t.uartTx
  OBVIOUS
<1>2. f = v.uartTx /\ f \in Frame /\ t.linkState = "ACTIVE"
  BY <1>1 DEF Reads
<1>3. Pair(v, r, c, d)
  BY <1>1, PairRewind
<1>4. Pair(t, r, c, d)
  BY <1>3, PairRead, Zenon
<1>5. CASE v.uartTx = s.uartTx
  BY <1>1, <1>2, <1>4, <1>5
<1>6. CASE s.uartTx = NoFrame /\ v.uartTx.type = "ACK" /\ v.uartTx.ack = s.txAck
  <2>1. f # NoFrame /\ ~IsData(f) /\ f.type # "SCO"
    BY <1>2, <1>6 DEF NoFrame, IsData, ReliableType
  <2>2. More(e, c, f)
    BY <1>1, <1>2, <1>6, <2>1, ChanSend
  <2>3. f.ack = t.txAck /\ t.hciRx = <<>>
    BY <1>2, <1>6 DEF Reads, SameRcv
  <2>4. Dir(t, r, e, d)
    BY <1>4, <2>1, <2>2, DirMoreC, Zenon DEF Pair
  <2>5. Dir(r, t, d, e)
    BY <1>4, <2>2, <2>3, DirMoreAck, Zenon DEF Pair
  <2>6. Down(t, r, e) /\ Down(r, t, d)
    BY <1>2, <1>4 DEF Down, Pair
  <2> QED
    BY <1>1, <2>4, <2>5, <2>6, Zenon DEF Pair
<1> QED
  BY <1>5, <1>6

(* What the two directions say of the node that polls.                     *)
LEMMA PairPolls ==
  ASSUME NEW s \in GoodCb, NEW r, NEW c, NEW d, Pair(s, r, c, d)
  PROVE  /\ Reliable(s) /\ (s.hciRx = <<>> \/ Len(s.hciRx) = 1)
         /\ s.txSlidWinSize = 0 /\ ~s.resendTick => s.txSeq = s.rxAck
         /\ s.linkState # "ACTIVE" => s.hciRx = <<>>
<1>1. s.resendTick \in BOOLEAN
  BY DEF GoodCb, ControlBlock
<1>2. Reliable(s)
  BY DEF Pair, Dir, Ids, Reliable
<1>3. s.hciRx = <<>> \/ Len(s.hciRx) = 1
  BY DEF Pair, Dir, Unread
<1>4. s.txSlidWinSize = 0 /\ ~s.resendTick => s.txSeq = s.rxAck
  BY <1>1 DEF Pair, Dir, Win
<1>5. s.linkState # "ACTIVE" => s.hciRx = <<>>
  BY DEF Pair, Down
<1> QED
  BY <1>2, <1>3, <1>4, <1>5

(* HCI_TransportPoll, up to the pure-ack handler if an acknowledgement is  *)
(* due and to its end otherwise.                                           *)
LEMMA PairPoll ==
  ASSUME SlidWinSize = 1, NEW s \in GoodCb, NEW r, NEW p \in Seq(Frame), NEW d,
         NEW timeout, NEW v \in GoodCb, v = PollLink(s, timeout), NEW t,
         t = IF PureAckDue(v) THEN v ELSE HciHandler(v),
         Pair(s, r, Chan(p, s.uartTx), d)
  PROVE  Pair(t, r, Chan(p, t.uartTx), d)
<1>1. PICK c : c = Chan(p, s.uartTx)
  OBVIOUS
<1>2. /\ Reliable(s) /\ (s.hciRx = <<>> \/ Len(s.hciRx) = 1)
      /\ s.txSlidWinSize = 0 /\ ~s.resendTick => s.txSeq = s.rxAck
      /\ s.linkState # "ACTIVE" => s.hciRx = <<>>
  BY PairPolls
<1>3. v.uartTx \in Frame
  BY DEF GoodCb, ControlBlock
<1>4. CASE s.linkState = "ACTIVE"
  <2>1. Polled(s, v)
    BY <1>2, <1>4, PollActiveFx
  <2>2. v.hciRx = s.hciRx
    BY <2>1 DEF Polled, SameRcv
  <2>3. t = v \/ (t = HciHandler(v) /\ Reads(v, t))
    BY <1>2, <2>2, ReadFx
  <2>4. CASE (SameSnd(s, v) \/ Rewound(s, v)) /\ v.uartTx = s.uartTx
    <3>1. Pair(v, r, c, d)
      BY <1>1, <1>4, <2>1, <2>4, PairRewind DEF Polled
    <3>2. Pair(t, r, c, d)
      BY <2>3, <3>1, PairRead
    <3>3. t.uartTx = s.uartTx
      BY <2>3, <2>4 DEF Reads
    <3> QED
      BY <1>1, <3>2, <3>3
  <2>5. CASE SentOut(s, v)
    <3>1. ~PureAckDue(v)
      BY <2>5 DEF SentOut, PureAckDue
    <3>2. Reads(v, t)
      BY <1>2, <2>2, <3>1, ReadFx
    <3> QED
      BY <1>3, <1>4, <2>1, <2>5, <3>2, PairSend DEF Polled
  <2> QED
    BY <2>1, <2>4, <2>5 DEF Polled
<1>5. CASE s.linkState # "ACTIVE"
  <2>1. Linked(s, v) /\ v.linkState = s.linkState
    BY <1>5, PollDownFx
  <2>2. t = HciHandler(v)
    BY <1>5, <2>1 DEF PureAckDue
  <2>3. v.hciRx = <<>>
    BY <1>2, <1>5, <2>1 DEF Linked, SameRcv
  <2>4. t = v
    BY <2>2, <2>3 DEF HciHandler
  <2> QED
    BY <1>3, <2>1, <2>4, PairLink
<1> QED
  BY <1>4, <1>5

(* The rest of it.                                                         *)
LEMMA PairPollAck ==
  ASSUME NEW s \in GoodCb, NEW r, NEW p \in Seq(Frame), NEW d, NEW timeout, NEW t,
         t = HciHandler(IF timeout THEN PollPureAck(s) ELSE s),
         Pair(s, r, Chan(p, s.uartTx), d), s.linkState = "ACTIVE"
  PROVE  Pair(t, r, Chan(p, t.uartTx), d)
<1>1. s.hciRx = <<>> \/ Len(s.hciRx) = 1
  BY PairPolls
<1>2. PICK v : v = IF timeout THEN PollPureAck(s) ELSE s
  OBVIOUS
<1>3. /\ v \in GoodCb /\ SameSnd(s, v) /\ SameRcv(s, v) /\ v.linkState = s.linkState
      /\ \/ v.uartTx = s.uartTx
         \/ s.uartTx = NoFrame /\ v.uartTx.type = "ACK" /\ v.uartTx.ack = s.txAck
  <2>1. CASE timeout
    BY <1>2, <2>1, PollPureAckFx, PollPureAckGood
  <2>2. CASE ~timeout
    BY <1>2, <2>2 DEF SameSnd, SameRcv
  <2> QED
    BY <2>1, <2>2
<1>4. v.uartTx \in Frame /\ v.hciRx = s.hciRx
  BY <1>3 DEF GoodCb, ControlBlock, SameRcv
<1>5. Reads(v, t)
  BY <1>1, <1>2, <1>3, <1>4, ReadFx
<1> QED
  BY <1>3, <1>4, <1>5, PairPureAck

(* The stack queues a packet.                                              *)
Queues(s, t, ty) ==
  /\ t.rxAck = s.rxAck /\ t.txSeq = s.txSeq /\ t.txSlidWinSize = s.txSlidWinSize
  /\ t.resendTick = s.resendTick /\ t.rel = s.rel /\ t.drop = s.drop
  /\ t.txFifo = Append(s.txFifo, [type |-> ty, id |-> s.made + 1]) /\ t.made = s.made + 1
  /\ SameRcv(s, t) /\ t.uartTx = s.uartTx /\ t.linkState = s.linkState

(* Queueing a packet keeps both directions.                                *)
LEMMA PairEvent ==
  ASSUME NEW s \in GoodCb, NEW r \in GoodCb, NEW c, NEW d, NEW ty \in ReliableType, NEW t,
         Pair(s, r, c, d), Queues(s, t, ty)
  PROVE  Pair(t, r, c, d)
<1>1. Dir(t, r, c, d)
  <2>1. Dir(s, r, c, d)
    BY Zenon DEF Pair
  <2> QED
    BY <2>1, DirEvent, Zenon DEF Queues
<1>2. Dir(r, t, d, c)
  <2>1. SameSnd(r, r)
    BY DEF SameSnd
  <2> QED
    BY <2>1, DirSame, Zenon DEF Pair, Queues
<1>3. Down(t, r, c) /\ Down(r, t, d)
  BY Zenon DEF Pair, Down, SameRcv, Queues
<1> QED
  BY <1>1, <1>2, <1>3, Zenon DEF Pair

-----------------------------------------------------------------------------
(* Both directions seen from node n.                                       *)
Joint(n) == Pair(cb[n], cb[Peer(n)], Wire(n), Wire(Peer(n)))

(* FlowAt of both nodes is Pair seen from one of them.                     *)
LEMMA FlowIsJoint ==
  ASSUME NEW n \in Node
  PROVE  /\ (\A k \in Node : FlowAt(k)) =>
              Joint(n) /\ \A k \in Node : pc[k] = "ack" => cb[k].linkState = "ACTIVE"
         /\ Joint(n) /\ (\A k \in Node : pc[k] = "ack" => cb[k].linkState = "ACTIVE") =>
              \A k \in Node : FlowAt(k)
<1>0. PICK m : m = Peer(n)
  OBVIOUS
<1>1. m \in Node /\ m = Peer(n) /\ m # n /\ Peer(m) = n /\ \A k \in Node : k = n \/ k = m
  BY <1>0
<1>2. Joint(n) <=> Pair(cb[n], cb[m], Wire(n), Wire(m))
  BY <1>1 DEF Joint
<1>3. /\ FlowAt(n) <=> /\ Dir(cb[n], cb[m], Wire(n), Wire(m))
                       /\ Down(cb[n], cb[m], Wire(n))
                       /\ pc[n] = "ack" => cb[n].linkState = "ACTIVE"
      /\ FlowAt(m) <=> /\ Dir(cb[m], cb[n], Wire(m), Wire(n))
                       /\ Down(cb[m], cb[n], Wire(m))
                       /\ pc[m] = "ack" => cb[m].linkState = "ACTIVE"
  BY <1>1 DEF FlowAt
<1> QED
  BY <1>1, <1>2, <1>3, Zenon DEF Pair

(* A step of node n: its control block becomes t, its receive buffers rn   *)
(* and those of its peer rm.                                               *)
LEMMA FlowStep ==
  ASSUME IInv, NEW n \in Node, NEW t, NEW rn, NEW rm, \A k \in Node : FlowAt(k),
         cb' = [cb EXCEPT ![n] = t], rxFifo' = [rxFifo EXCEPT ![n] = rn, ![Peer(n)] = rm],
         Pair(t, cb[Peer(n)], Chan(rm, t.uartTx), Chan(rn, cb[Peer(n)].uartTx)),
         pc'[n] = "ack" => t.linkState = "ACTIVE", pc'[Peer(n)] = pc[Peer(n)]
  PROVE  \A k \in Node : FlowAt(k)'
<1>0. PICK m : m = Peer(n)
  OBVIOUS
<1>1. m \in Node /\ m = Peer(n) /\ m # n /\ Peer(m) = n /\ \A k \in Node : k = n \/ k = m
  BY <1>0
<1>2. cb'[n] = t /\ cb'[m] = cb[m] /\ rxFifo'[n] = rn /\ rxFifo'[m] = rm
  BY <1>1, IInvGood
<1>3. Wire(n)' = Chan(rm, t.uartTx) /\ Wire(m)' = Chan(rn, cb[m].uartTx)
  BY <1>1, <1>2 DEF Wire
<1>4. Joint(n)'
  BY <1>1, <1>2, <1>3 DEF Joint
<1>5. \A k \in Node : pc'[k] = "ack" => cb'[k].linkState = "ACTIVE"
  BY <1>1, <1>2 DEF FlowAt
<1>6. Joint(n)' /\ (\A k \in Node : pc[k] = "ack" => cb[k].linkState = "ACTIVE")' =>
        (\A k \in Node : FlowAt(k))'
  BY FlowIsJoint, PTL
<1> QED
  BY <1>4, <1>5, <1>6

(* Node n takes a frame.                                                   *)
LEMMA FlowRx ==
  ASSUME SlidWinSize = 1, IInv, LinkInv, Calm, \A k \in Node : FlowAt(k), NEW n \in Node, RxFrame(n)
  PROVE  \A k \in Node : FlowAt(k)'
<1>0. PICK m, s, r, p, q, t : /\ m = Peer(n) /\ s = cb[n] /\ r = cb[m] /\ p = rxFifo[m]
                              /\ q = rxFifo[n] /\ t = PacketHandler(s, Head(q))
  OBVIOUS
<1>1. m \in Node /\ m # n /\ Peer(m) = n
  BY <1>0
<1>2. s \in GoodCb /\ r \in GoodCb /\ p \in Seq(Frame) /\ q \in Seq(Frame) /\ q # <<>>
  BY <1>0, <1>1, IInvGood DEF RxFrame
<1>3. Head(q) \in Frame /\ Head(q) = q[1] /\ 1 \in 1..Len(q)
  <2>1. Head(q) \in Frame /\ Head(q) = q[1] /\ Len(q) \in Nat \ {0}
    BY <1>2, HeadTail
  <2> QED
    BY <2>1
<1>4. t \in GoodCb /\ LinkEffect(s, t, Head(q).msg)
  BY <1>0, <1>2, <1>3, PacketHandlerGood, Zenon
<1>5. ~(s.linkState = "ACTIVE" /\ Head(q).msg = "SYNC")
  <2>1. LinkOK(r.linkState, s.linkState, q, r.uartTx)
    BY <1>0, <1>1 DEF LinkInv, Calm
  <2> QED
    BY <1>3, <2>1 DEF LinkOK
<1>6. Pair(s, r, Chan(p, s.uartTx), Chan(q, r.uartTx))
  BY <1>0, <1>1, FlowIsJoint DEF Joint, Wire
<1>7. Pair(t, r, Chan(p, t.uartTx), Chan(Tail(q), r.uartTx))
  BY <1>0, <1>2, <1>4, <1>5, <1>6, PairRx
<1>8. cb' = [cb EXCEPT ![n] = t] /\ rxFifo' = [rxFifo EXCEPT ![n] = Tail(q)] /\ pc' = pc
  BY <1>0 DEF RxFrame
<1>9. rxFifo' = [rxFifo EXCEPT ![n] = Tail(q), ![Peer(n)] = p]
  BY <1>0, <1>1, <1>8, IInvGood
<1>10. (pc'[n] = "ack" => t.linkState = "ACTIVE") /\ pc'[Peer(n)] = pc[Peer(n)]
  BY <1>8 DEF RxFrame
<1>11. PICK e : e = Tail(q)
  OBVIOUS
<1>12. Pair(t, cb[Peer(n)], Chan(p, t.uartTx), Chan(e, cb[Peer(n)].uartTx))
  BY <1>0, <1>7, <1>11
<1>13. rxFifo' = [rxFifo EXCEPT ![n] = e, ![Peer(n)] = p]
  BY <1>9, <1>11
<1>14. cb' = [cb EXCEPT ![n] = t]
  BY <1>8
<1> QED
  BY <1>10, <1>12, <1>13, <1>14, FlowStep

(* Node n runs its main loop.                                              *)
LEMMA FlowPoll ==
  ASSUME SlidWinSize = 1, IInv, \A k \in Node : FlowAt(k), NEW n \in Node,
         NEW timeout \in BOOLEAN, Poll(n, timeout) \/ PollAck(n, timeout)
  PROVE  \A k \in Node : FlowAt(k)'
<1>0. PICK m, s, r, p, q : /\ m = Peer(n) /\ s = cb[n] /\ r = cb[m] /\ p = rxFifo[m]
                           /\ q = rxFifo[n]
  OBVIOUS
<1>1. m \in Node /\ m # n /\ Peer(m) = n
  BY <1>0
<1>2. s \in GoodCb /\ r \in GoodCb /\ p \in Seq(Frame) /\ q \in Seq(Frame)
  BY <1>0, <1>1, IInvGood
<1>3. Pair(s, r, Chan(p, s.uartTx), Chan(q, r.uartTx))
  BY <1>0, <1>1, FlowIsJoint DEF Joint, Wire
<1>4. rxFifo' = [rxFifo EXCEPT ![n] = q, ![Peer(n)] = p]
  <2>1. rxFifo' = rxFifo
    BY DEF Poll, PollAck
  <2> QED
    BY <1>0, <1>1, <2>1, IInvGood
<1>5. CASE Poll(n, timeout)
  <2>1. PICK v : v = PollLink(s, timeout)
    OBVIOUS
  <2>2. PICK t : t = IF PureAckDue(v) THEN v ELSE HciHandler(v)
    OBVIOUS
  <2>3. v \in GoodCb
    BY <1>2, <2>1, PollLinkGood
  <2>4. Pair(t, r, Chan(p, t.uartTx), Chan(q, r.uartTx))
    BY <1>2, <1>3, <2>1, <2>2, <2>3, PairPoll
  <2>5. cb' = [cb EXCEPT ![n] = t] /\ pc' = IF PureAckDue(v) THEN [pc EXCEPT ![n] = "ack"] ELSE pc
    BY <1>0, <1>5, <2>1, <2>2 DEF Poll
  <2>6. (pc'[n] = "ack" => t.linkState = "ACTIVE") /\ pc'[Peer(n)] = pc[Peer(n)]
    <3>1. CASE PureAckDue(v)
      BY <1>0, <1>1, <2>2, <2>5, <3>1, IInvGood DEF PureAckDue
    <3>2. CASE ~PureAckDue(v)
      BY <1>5, <2>5, <3>2 DEF Poll
    <3> QED
      BY <3>1, <3>2
  <2> QED
    BY <1>0, <1>4, <2>4, <2>5, <2>6, FlowStep
<1>6. CASE PollAck(n, timeout)
  <2>1. PICK t : t = HciHandler(IF timeout THEN PollPureAck(s) ELSE s)
    OBVIOUS
  <2>2. s.linkState = "ACTIVE"
    BY <1>0, <1>6, FlowIsJoint DEF PollAck
  <2>3. Pair(t, r, Chan(p, t.uartTx), Chan(q, r.uartTx))
    BY <1>2, <1>3, <2>1, <2>2, PairPollAck
  <2>4. cb' = [cb EXCEPT ![n] = t] /\ pc' = [pc EXCEPT ![n] = "main"]
    BY <1>0, <1>6, <2>1, IInvGood DEF PollAck
  <2>5. pc'[n] # "ack" /\ pc'[Peer(n)] = pc[Peer(n)]
    BY <1>0, <1>1, <2>4, IInvGood
  <2> QED
    BY <1>0, <1>4, <2>3, <2>4, <2>5, FlowStep
<1> QED
  BY <1>5, <1>6

(* The stack of node n queues a packet.                                    *)
LEMMA FlowEvent ==
  ASSUME PktType \subseteq ReliableType, IInv, \A k \in Node : FlowAt(k), NEW n \in Node, HciEvent(n)
  PROVE  \A k \in Node : FlowAt(k)'
<1>0. PICK m, s, r, p, q : /\ m = Peer(n) /\ s = cb[n] /\ r = cb[m] /\ p = rxFifo[m]
                           /\ q = rxFifo[n]
  OBVIOUS
<1>1. m \in Node /\ m # n /\ Peer(m) = n
  BY <1>0
<1>2. s \in GoodCb /\ r \in GoodCb
  BY <1>0, <1>1, IInvGood
<1>3. Pair(s, r, Chan(p, s.uartTx), Chan(q, r.uartTx))
  BY <1>0, <1>1, FlowIsJoint DEF Joint, Wire
<1>4. PICK ty \in PktType :
        cb' = [cb EXCEPT ![n].txFifo = Append(@, [type |-> ty, id |-> cb[n].made + 1]),
                         ![n].made = @ + 1]
  BY DEF HciEvent
<1>5. PICK a, b : a = Append(s.txFifo, [type |-> ty, id |-> s.made + 1]) /\ b = s.made + 1
  OBVIOUS
<1>a. PICK t : t = [s EXCEPT !.txFifo = a, !.made = b]
  OBVIOUS
<1>6. ty \in ReliableType
  OBVIOUS
<1>7. Pair(t, r, Chan(p, s.uartTx), Chan(q, r.uartTx)) /\ t.uartTx = s.uartTx /\ t.linkState = s.linkState
  <2>1. /\ t.rxAck = s.rxAck /\ t.txSeq = s.txSeq /\ t.txSlidWinSize = s.txSlidWinSize
        /\ t.resendTick = s.resendTick /\ t.rel = s.rel /\ t.drop = s.drop
        /\ t.txFifo = a /\ t.made = b
        /\ SameRcv(s, t) /\ t.uartTx = s.uartTx /\ t.linkState = s.linkState
    BY <1>2, <1>a DEF GoodCb, ControlBlock, SameRcv
  <2>2. Queues(s, t, ty)
    BY <1>5, <2>1 DEF Queues
  <2> QED
    BY <1>2, <1>3, <1>6, <2>1, <2>2, PairEvent, Zenon
<1>8. cb' = [cb EXCEPT ![n] = t]
  BY <1>0, <1>4, <1>5, <1>a, IInvGood DEF GoodCb, ControlBlock
<1>9. rxFifo' = [rxFifo EXCEPT ![n] = q, ![Peer(n)] = p] /\ pc' = pc
  BY <1>0, <1>1, IInvGood DEF HciEvent
<1>10. pc'[n] = "ack" => t.linkState = "ACTIVE"
  BY <1>0, <1>7, <1>9, FlowIsJoint
<1> QED
  BY <1>0, <1>7, <1>8, <1>9, <1>10, FlowStep

(* The frame node n is sending arrives, or is lost.                        *)
LEMMA FlowTx ==
  ASSUME IInv, \A k \in Node : FlowAt(k), NEW n \in Node, UartTxDone(n) \/ Lose(n), ~overrun'
  PROVE  \A k \in Node : FlowAt(k)'
<1>0. PICK m, s, r, p, q, u : /\ m = Peer(n) /\ s = cb[n] /\ r = cb[m] /\ p = rxFifo[m]
                              /\ q = rxFifo[n] /\ u = s.uartTx
  OBVIOUS
<1>1. m \in Node /\ m # n /\ Peer(m) = n
  BY <1>0
<1>2. s \in GoodCb /\ r \in GoodCb /\ p \in Seq(Frame) /\ u \in Frame /\ Len(p) <= RxBufNum
  BY <1>0, <1>1, IInvGood, ZenonT(30) DEF GoodCb, ControlBlock
<1>3. Pair(s, r, Chan(p, u), Chan(q, r.uartTx))
  BY <1>0, <1>1, FlowIsJoint DEF Joint, Wire
<1>4. u # NoFrame
  BY <1>0 DEF UartTxDone, Lose, isUartTxDone
<1>5. PICK t : t = [s EXCEPT !.uartTx = NoFrame]
  OBVIOUS
<1>6. /\ SameSnd(s, t) /\ SameRcv(s, t) /\ t.uartTx = NoFrame /\ t.linkState = s.linkState
  BY <1>2, <1>5 DEF GoodCb, ControlBlock, SameSnd, SameRcv
<1>7. cb' = [cb EXCEPT ![n] = t] /\ pc' = pc
  BY <1>0, <1>5, IInvGood DEF UartTxDone, Lose, GoodCb, ControlBlock
<1>8. ASSUME NEW c, Pair(s, r, c, Chan(q, r.uartTx))
      PROVE  Pair(t, r, c, Chan(q, r.uartTx))
  <2>1. SameSnd(r, r) /\ SameRcv(r, r)
    BY DEF SameSnd, SameRcv
  <2>2. PICK d : d = Chan(q, r.uartTx)
    OBVIOUS
  <2>3. Dir(t, r, c, d) /\ Dir(r, t, d, c)
    BY <1>6, <1>8, <2>1, <2>2, DirSame DEF Pair
  <2>4. Down(t, r, c) /\ Down(r, t, d)
    BY <1>6, <1>8, <2>2 DEF Pair, Down, SameSnd, SameRcv
  <2> QED
    BY <2>2, <2>3, <2>4 DEF Pair
<1>9. pc'[n] = "ack" => t.linkState = "ACTIVE"
  BY <1>0, <1>6, <1>7, FlowIsJoint
<1>10. CASE UartTxDone(n)
  <2>1. Len(p) < RxBufNum
    <3>1. Len(p) # RxBufNum
      BY <1>0, <1>10, Zenon DEF UartTxDone
    <3> QED
      BY <1>2, <3>1, RxBufAssumption
  <2>2. Receive(p, u) = Append(p, u)
    BY <2>1 DEF Receive
  <2>3. rxFifo' = [rxFifo EXCEPT ![n] = q, ![Peer(n)] = Append(p, u)]
    BY <1>0, <1>1, <1>10, <2>2, IInvGood DEF UartTxDone
  <2>4. Chan(Append(p, u), t.uartTx) = Chan(p, u)
    BY <1>4, <1>6, ChanDone
  <2>5. Pair(t, r, Chan(Append(p, u), t.uartTx), Chan(q, r.uartTx))
    BY <1>3, <1>8, <2>4
  <2> QED
    BY <1>0, <1>7, <1>9, <2>3, <2>5, FlowStep
<1>11. CASE Lose(n)
  <2>1. rxFifo' = [rxFifo EXCEPT ![n] = q, ![Peer(n)] = p]
    BY <1>0, <1>1, <1>11, IInvGood DEF Lose
  <2>2. Thin(Chan(p, t.uartTx), Chan(p, u), 0)
    BY <1>2, <1>4, <1>6, ChanLose
  <2>3. Pair(s, r, Chan(p, t.uartTx), Chan(q, r.uartTx))
    <3>1. PICK c, d, e : c = Chan(p, u) /\ d = Chan(q, r.uartTx) /\ e = Chan(p, t.uartTx)
      OBVIOUS
    <3>2. Pair(r, s, d, c)
      BY <1>3, <3>1, PairSwap
    <3>3. Pair(r, s, d, e)
      BY <2>2, <3>1, <3>2, PairThin
    <3>4. Pair(s, r, e, d)
      BY <3>3, PairSwap, Zenon
    <3> QED
      BY <3>1, <3>4
  <2>4. Pair(t, r, Chan(p, t.uartTx), Chan(q, r.uartTx))
    BY <1>8, <2>3
  <2> QED
    BY <1>0, <1>7, <1>9, <2>1, <2>4, FlowStep
<1> QED
  BY <1>10, <1>11

(* Every step keeps the flow invariant,                                    *)
LEMMA FlowNext ==
  ASSUME SlidWinSize = 1, PktType \subseteq ReliableType
  PROVE  IInv /\ LinkInv /\ Flow /\ [Next]_vars => Flow'
<1>1. SUFFICES ASSUME IInv, LinkInv, Flow, [Next]_vars, Calm' PROVE \A k \in Node : FlowAt(k)'
  BY DEF Flow
<1>2. restarts \in Nat /\ restarts' = 0 /\ ~overrun'
  BY <1>1, IInvGood, BoundAssumption DEF Calm
<1>3. Calm
  <2>1. \/ restarts' = restarts /\ (overrun => overrun')
        \/ restarts' = restarts + 1
    <3>1. CASE UNCHANGED vars
      BY <3>1 DEF vars
    <3>2. CASE Next
      BY <3>2, Zenon DEF Next, RxFrame, HciEvent, Poll, PollAck, UartTxDone, Lose, Restart
    <3> QED
      BY <1>1, <3>1, <3>2
  <2>2. restarts + 1 # 0
    BY <1>2
  <2> QED
    BY <1>2, <2>1, <2>2 DEF Calm
<1>4. \A k \in Node : FlowAt(k)
  BY <1>1, <1>3 DEF Flow
<1>5. CASE UNCHANGED vars
  BY <1>4, <1>5 DEF vars, FlowAt, Wire
<1>6. ASSUME NEW n \in Node, RxFrame(n) PROVE \A k \in Node : FlowAt(k)'
  BY <1>1, <1>3, <1>4, <1>6, FlowRx, Zenon
<1>7. ASSUME NEW n \in Node, HciEvent(n) PROVE \A k \in Node : FlowAt(k)'
  BY <1>1, <1>4, <1>7, FlowEvent, Zenon
<1>8. ASSUME NEW n \in Node, NEW timeout \in BOOLEAN, Poll(n, timeout) \/ PollAck(n, timeout)
      PROVE  \A k \in Node : FlowAt(k)'
  BY <1>1, <1>4, <1>8, FlowPoll, Zenon
<1>9. ASSUME NEW n \in Node, UartTxDone(n) \/ Lose(n) PROVE \A k \in Node : FlowAt(k)'
  BY <1>1, <1>2, <1>4, <1>9, FlowTx, Zenon
<1>10. ASSUME NEW n \in Node, Restart(n) PROVE FALSE
  BY <1>2, <1>10 DEF Restart
<1> QED
  BY <1>1, <1>5, <1>6, <1>7, <1>8, <1>9, <1>10 DEF Next

(* which the initial states satisfy,                                       *)
LEMMA FlowInit == Init => Flow
<1>1. PICK s : s = InitCb
  OBVIOUS
<1>2. /\ s.txSeq = 0 /\ s.txAck = 0 /\ s.rxAck = 0 /\ s.txSlidWinSize = 0
      /\ s.resendTick = FALSE /\ s.txFifo = <<>> /\ s.hciRx = <<>> /\ s.uartTx = NoFrame
      /\ s.made = 0 /\ s.last = 0 /\ s.got = {} /\ s.rel = {} /\ s.drop = {}
  BY <1>1 DEF InitCb
<1>3. Dir(s, s, <<>>, <<>>)
  BY <1>2 DEF Dir, Acks, Data, Win, Unread, Ids
<1>4. Down(s, s, <<>>)
  BY <1>2 DEF Down
<1>5. Chan(<<>>, s.uartTx) = <<>>
  BY <1>2 DEF Chan
<1> QED
  BY <1>1, <1>3, <1>4, <1>5 DEF Init, Flow, FlowAt, Wire

(* and so it always holds.                                                 *)
LEMMA FlowAlways ==
  ASSUME SlidWinSize = 1, PktType \subseteq ReliableType
  PROVE  Spec => []Flow
<1>1. Spec => []LinkInv
  BY IInvAlways, LinkInit, LinkNext, PTL DEF Spec
<1>2. IInv /\ LinkInv /\ Flow /\ [Next]_vars => Flow'
  BY FlowNext
<1> QED
  BY <1>1, <1>2, IInvAlways, FlowInit, PTL DEF Spec

(* No loss: without restarts and overruns, and with the window of one that *)
(* the code ships with, a packet leaves the tx FIFO of a node on an        *)
(* acknowledgement (HCI_H5_ReSendCheck, HCI_H5_DecodeDataPdu) only after   *)
(* the peer's HCI_H5_PackHciPdu has handed it over, whatever frames and    *)
(* acknowledgements are lost, late or sent again.                          *)
THEOREM ReliableNoLoss ==
  ASSUME SlidWinSize = 1, PktType \subseteq ReliableType
  PROVE  Spec => [](Calm => NoLoss)
<1>1. Flow => (Calm => NoLoss)
  BY DEF Flow, FlowAt, Dir, Ids, NoLoss
<1> QED
  BY <1>1, FlowAlways, PTL

(* No gap: under the same conditions the packets a node hands to its HCI   *)
(* leave none out, but for those a reset of the sender threw away.         *)
THEOREM ReliableNoGap ==
  ASSUME SlidWinSize = 1, PktType \subseteq ReliableType
  PROVE  Spec => [](Calm => NoGap)
<1>1. IInv /\ Flow => (Calm => NoGap)
  <2> SUFFICES ASSUME IInv, Flow, Calm, NEW n \in Node, NEW k \in 1..cb[n].last
               PROVE  k \in cb[n].got \cup cb[Peer(n)].drop
    BY DEF NoGap
  <2>1. PICK m, s, r, b : m = Peer(n) /\ s = cb[m] /\ r = cb[n] /\ b = s.made - Len(s.txFifo)
    OBVIOUS
  <2>2. m \in Node /\ Peer(m) = n
    BY <2>1
  <2>3. r.last \in Nat /\ s.made \in Nat /\ s.txFifo \in Seq(Pkt)
    BY <2>1, <2>2, IInvGood DEF GoodCb, ControlBlock
  <2>4. Ids(s.txFifo, s.made, s.rel, s.drop, r.got, r.last)
    BY <2>1, <2>2 DEF Flow, FlowAt, Dir
  <2>5. /\ \A j \in 1..b : j \in r.got \/ j \in s.drop
        /\ r.last <= b \/ (r.last = b + 1 /\ r.last \in r.got)
    BY <2>1, <2>4 DEF Ids
  <2>6. b \in Int /\ k \in 1..r.last
    BY <2>1, <2>3
  <2>7. k \in 1..b \/ (k = r.last /\ r.last \in r.got)
    BY <2>3, <2>5, <2>6
  <2> QED
    BY <2>1, <2>5, <2>7
<1> QED
  BY <1>1, FlowAlways, IInvAlways, PTL

(* The HCI rx FIFO, which HCI_H5_PackHciPdu fills without a look at its    *)
(* state, never holds more than the window: the sender does not send on    *)
(* before an acknowledgement, and none is sent before the packet is read.  *)
THEOREM ReliableRxBounded ==
  ASSUME SlidWinSize = 1, PktType \subseteq ReliableType
  PROVE  Spec => [](Calm => HciRxBounded)
<1>1. Flow => (Calm => HciRxBounded)
  <2> SUFFICES ASSUME Flow, Calm, NEW n \in Node PROVE Len(cb[n].hciRx) <= SlidWinSize
    BY DEF HciRxBounded
  <2>1. PICK m : m = Peer(n)
    OBVIOUS
  <2>2. m \in Node /\ Peer(m) = n
    BY <2>1
  <2>3. Unread(cb[n].hciRx, cb[m].rxAck, cb[n].txAck, Wire(n))
    BY <2>1, <2>2 DEF Flow, FlowAt, Dir
  <2>4. cb[n].hciRx = <<>> \/ Len(cb[n].hciRx) = 1
    BY <2>3 DEF Unread
  <2>5. CASE cb[n].hciRx = <<>>
    BY <2>5
  <2>6. CASE Len(cb[n].hciRx) = 1
    BY <2>6
  <2> QED
    BY <2>4, <2>5, <2>6
<1> QED
  BY <1>1, FlowAlways, PTL

-----------------------------------------------------------------------------
(* Order *)

(* The packet a receiver takes is the oldest one of the sender, and so not *)
(* before the last one taken.                                              *)
LEMMA DirOrder ==
  ASSUME NEW s \in GoodCb, NEW r \in GoodCb, NEW c \in Seq(Frame), NEW d, Dir(s, r, c, d),
         Len(c) > 0, IsData(c[1]), c[1].seq = r.txAck
  PROVE  c[1].id >= r.last
<1> DEFINE x == s.rxAck
           q == s.txFifo
<1>1. x \in SeqNum /\ q \in Seq(Pkt) /\ s.made \in Nat /\ r.last \in Nat /\ 1 \in 1..Len(c)
  BY DEF GoodCb, ControlBlock
<1>2. Nxt(x) # x /\ Prv(x) # x /\ Nxt(x) # Prv(x)
  BY <1>1, Around
<1>3. c[1].seq = x
  BY <1>1, <1>2 DEF Dir, Acks, Data
<1>4. q # <<>> /\ c[1].id = q[1].id
  BY <1>1, <1>3 DEF Dir, Data
<1>5. PICK b, l : l = Len(q) /\ b = s.made - l
  OBVIOUS
<1>6. 1 \in 1..l /\ b \in Int
  BY <1>1, <1>4, <1>5
<1>7. q[1].id = b + 1 /\ (r.last <= b \/ r.last = b + 1)
  BY <1>5, <1>6 DEF Dir, Ids
<1> QED
  BY <1>1, <1>4, <1>6, <1>7

(* HCI_H5_PakcetHandler hands over nothing older than before.              *)
LEMMA OrderRx ==
  ASSUME SlidWinSize = 1, NEW s \in GoodCb, NEW r \in GoodCb, NEW p \in Seq(Frame),
         NEW q \in Seq(Frame), q # <<>>, NEW t \in GoodCb, t = PacketHandler(s, Head(q)),
         ~(s.linkState = "ACTIVE" /\ Head(q).msg = "SYNC"),
         Pair(s, r, Chan(p, s.uartTx), Chan(q, r.uartTx))
  PROVE  t.last >= s.last
<1>1. PICK f, c, d : f = Head(q) /\ c = Chan(p, s.uartTx) /\ d = Chan(q, r.uartTx)
  OBVIOUS
<1>2. r.uartTx \in Frame /\ s.last \in Nat
  BY DEF GoodCb, ControlBlock
<1>3. d[1] = f /\ Len(d) > 0 /\ d \in Seq(Frame) /\ f \in Frame
  <2>1. d[1] = f /\ Len(d) > 0
    BY <1>1, <1>2, ChanTake
  <2>2. d \in Seq(Frame)
    BY <1>1, <1>2, ChanType
  <2> QED
    BY <1>1, <2>1, <2>2
<1>4. SUFFICES t.last = s.last \/ t.last >= s.last
  BY <1>2
<1>5. CASE f.type = "LINK_CTRL"
  <2>1. t = DecodeLinkPdu(s, f.msg)
    BY <1>1, <1>5 DEF PacketHandler, DataType, ReliableType
  <2>2. \/ Linked(s, t) /\ (t.linkState = "ACTIVE" <=> s.linkState = "ACTIVE")
        \/ s.linkState # "ACTIVE" /\ Cleared(s, t)
    BY <1>1, <2>1, LinkPduFx
  <2> QED
    BY <2>2, Zenon DEF Linked, SameRcv, Cleared
<1>6. CASE f.type = "ACK" /\ s.linkState = "ACTIVE"
  <2>1. t = RxPureAck(s, f.ack)
    BY <1>1, <1>6 DEF PacketHandler, DataType, ReliableType
  <2>2. SameRcv(s, t)
    BY <2>1, RxPureAckFx
  <2> QED
    BY <2>2, Zenon DEF SameRcv
<1>7. CASE IsData(f) /\ s.linkState = "ACTIVE"
  <2>1. t = DecodeDataPdu(s, f)
    BY <1>1, <1>7 DEF PacketHandler, IsData, DataType, ReliableType
  <2>2. (f.seq = s.txAck => Accepted(s, t, f.id)) /\ (f.seq # s.txAck => SameRcv(s, t))
    BY <1>3, <1>7, <2>1, DataFx
  <2>3. CASE f.seq = s.txAck
    <3>1. Dir(r, s, d, c)
      BY <1>1, Zenon DEF Pair
    <3>2. f.id >= s.last
      BY <1>3, <1>7, <2>3, <3>1, DirOrder
    <3> QED
      BY <2>2, <2>3, <3>2 DEF Accepted
  <2>4. CASE f.seq # s.txAck
    BY <2>2, <2>4, Zenon DEF SameRcv
  <2> QED
    BY <2>3, <2>4
<1>8. CASE /\ f.type # "LINK_CTRL"
           /\ s.linkState = "ACTIVE" => f.type # "ACK" /\ ~IsData(f)
  <2>1. f.type # "SCO"
    <3>1. 1 \in 1..Len(d)
      BY <1>3
    <3> QED
      BY <1>1, <1>3, <3>1 DEF Pair, Dir
  <2>2. t = s
    BY <1>1, <1>8, <2>1 DEF PacketHandler, IsData, DataType
  <2> QED
    BY <2>2
<1> QED
  BY <1>5, <1>6, <1>7, <1>8

(* The main loop does not touch it.                                        *)
LEMMA OrderRead ==
  ASSUME NEW s \in GoodCb
  PROVE  HciHandler(s).last = s.last
  BY DEF HciHandler, GoodCb, ControlBlock

(* Neither HCI_H5_Poll nor its pure-ack handler hands over a packet.       *)
LEMMA OrderPoll ==
  ASSUME SlidWinSize = 1, NEW s \in GoodCb, NEW r, NEW c, NEW d, Pair(s, r, c, d), NEW timeout
  PROVE  PollLink(s, timeout).last = s.last /\ PollPureAck(s).last = s.last
<1>1. PICK v, w : v = PollLink(s, timeout) /\ w = PollPureAck(s)
  OBVIOUS
<1>2. Reliable(s) /\ (s.txSlidWinSize = 0 /\ ~s.resendTick => s.txSeq = s.rxAck)
  BY PairPolls
<1>3. SameRcv(s, v)
  <2>1. CASE s.linkState = "ACTIVE"
    BY <1>1, <1>2, <2>1, PollActiveFx DEF Polled
  <2>2. CASE s.linkState # "ACTIVE"
    BY <1>1, <2>2, PollDownFx DEF Linked
  <2> QED
    BY <2>1, <2>2
<1>4. SameRcv(s, w)
  BY <1>1, PollPureAckFx
<1> QED
  BY <1>1, <1>3, <1>4 DEF SameRcv

(* The packets a node hands over never go back.                            *)
InOrder == \A n \in Node : cb'[n].last >= cb[n].last

(* Every step keeps the order.                                             *)
LEMMA OrderNext ==
  ASSUME SlidWinSize = 1, PktType \subseteq ReliableType
  PROVE  IInv /\ LinkInv /\ Flow /\ [Next]_vars => (Calm => InOrder)
<1>1. SUFFICES ASSUME IInv, LinkInv, Flow, [Next]_vars, Calm PROVE InOrder
  OBVIOUS
<1>2. cb \in [Node -> GoodCb] /\ \A k \in Node : cb[k].last \in Nat
  BY <1>1, IInvGood DEF GoodCb, ControlBlock
<1>3. \A k \in Node : FlowAt(k)
  BY <1>1 DEF Flow
<1>4. ASSUME NEW n \in Node, NEW t, cb' = [cb EXCEPT ![n] = t],
             t.last = cb[n].last \/ t.last >= cb[n].last
      PROVE  InOrder
  BY <1>2, <1>4 DEF InOrder
<1>5. ASSUME NEW n \in Node
      PROVE  Pair(cb[n], cb[Peer(n)], Chan(rxFifo[Peer(n)], cb[n].uartTx),
                  Chan(rxFifo[n], cb[Peer(n)].uartTx))
  BY <1>3, <1>5, FlowIsJoint DEF Joint, Wire
<1>6. CASE UNCHANGED vars
  BY <1>2, <1>6 DEF vars, InOrder
<1>7. ASSUME NEW n \in Node, RxFrame(n) PROVE InOrder
  <2>0. PICK m, s, r, p, q, t : /\ m = Peer(n) /\ s = cb[n] /\ r = cb[m] /\ p = rxFifo[m]
                                /\ q = rxFifo[n] /\ t = PacketHandler(s, Head(q))
    OBVIOUS
  <2>1. m \in Node /\ m # n /\ Peer(m) = n
    BY <2>0
  <2>2. s \in GoodCb /\ r \in GoodCb /\ p \in Seq(Frame) /\ q \in Seq(Frame) /\ q # <<>>
    BY <1>1, <1>7, <2>0, <2>1, IInvGood DEF RxFrame
  <2>3. Head(q) \in Frame /\ Head(q) = q[1] /\ 1 \in 1..Len(q)
    <3>1. Head(q) \in Frame /\ Head(q) = q[1] /\ Len(q) \in Nat \ {0}
      BY <2>2, HeadTail
    <3> QED
      BY <3>1
  <2>4. t \in GoodCb
    BY <2>0, <2>2, <2>3, PacketHandlerGood, Zenon
  <2>5. ~(s.linkState = "ACTIVE" /\ Head(q).msg = "SYNC")
    <3>1. LinkOK(r.linkState, s.linkState, q, r.uartTx)
      BY <1>1, <2>0, <2>1 DEF LinkInv, Calm
    <3> QED
      BY <2>3, <3>1 DEF LinkOK
  <2>6. Pair(s, r, Chan(p, s.uartTx), Chan(q, r.uartTx))
    BY <1>5, <2>0
  <2>7. t.last >= s.last
    BY <2>0, <2>2, <2>4, <2>5, <2>6, OrderRx
  <2>8. cb' = [cb EXCEPT ![n] = t]
    BY <1>7, <2>0 DEF RxFrame
  <2> QED
    BY <1>4, <2>0, <2>7, <2>8
<1>8. ASSUME NEW n \in Node, NEW timeout \in BOOLEAN, Poll(n, timeout) \/ PollAck(n, timeout)
      PROVE  InOrder
  <2>1. PICK s, v, w : s = cb[n] /\ v = PollLink(s, timeout) /\ w = PollPureAck(s)
    OBVIOUS
  <2>2. s \in GoodCb /\ v \in GoodCb /\ w \in GoodCb
    BY <1>2, <2>1, PollLinkGood, PollPureAckGood
  <2>3. v.last = s.last /\ w.last = s.last
    BY <1>5, <2>1, <2>2, OrderPoll
  <2>4. \A u \in GoodCb : HciHandler(u).last = u.last
    BY OrderRead
  <2>5. PICK t : cb' = [cb EXCEPT ![n] = t] /\ t \in {v, HciHandler(v), HciHandler(w), HciHandler(s)}
    BY <1>2, <1>8, <2>1 DEF Poll, PollAck
  <2>6. t.last = s.last
    BY <2>2, <2>3, <2>4, <2>5
  <2> QED
    BY <1>4, <2>1, <2>5, <2>6
<1>9. ASSUME NEW n \in Node, HciEvent(n) \/ UartTxDone(n) \/ Lose(n) \/ Restart(n) PROVE InOrder
  <2>1. \A k \in Node : cb'[k].last = cb[k].last
    <3>1. CASE HciEvent(n)
      BY <1>2, <3>1, SMTT(30) DEF HciEvent, GoodCb, ControlBlock
    <3>2. CASE UartTxDone(n) \/ Lose(n)
      BY <1>2, <3>2 DEF UartTxDone, Lose, GoodCb, ControlBlock
    <3>3. CASE Restart(n)
      BY <1>2, <3>3 DEF Restart, InitCb
    <3> QED
      BY <1>9, <3>1, <3>2, <3>3
  <2> QED
    BY <1>2, <2>1 DEF InOrder
<1> QED
  BY <1>1, <1>6, <1>7, <1>8, <1>9 DEF Next

(* Order: under the same conditions, and up to and including the step of   *)
(* a first restart or overrun, the packets HCI_H5_PackHciPdu hands over    *)
(* never go back.  One may come twice: HCI_H5_ResendStart on a busy        *)
(* transmitter followed by a late acknowledgement sends it again under a   *)
(* new number.                                                             *)
THEOREM ReliableOrder ==
  ASSUME SlidWinSize = 1, PktType \subseteq ReliableType
  PROVE  Spec => [][Calm => \A n \in Node : cb'[n].last >= cb[n].last]_vars
<1>1. Spec => []LinkInv
  BY IInvAlways, LinkInit, LinkNext, PTL DEF Spec
<1>2. IInv /\ LinkInv /\ Flow /\ [Next]_vars => [Calm => InOrder]_vars
  BY OrderNext
<1>3. Spec => [][Calm => InOrder]_vars
  BY <1>1, <1>2, IInvAlways, FlowAlways, PTL DEF Spec
<1> QED
  BY <1>3 DEF InOrder

(* The property of the runs, for behaviours without a restart and without  *)
(* a receive overrun: what HCI_H5_PackHciPdu hands over never goes back,   *)
(* whatever frames are lost and whenever timers run out.                   *)
THEOREM ReliableNeverBackwards ==
  ASSUME SlidWinSize = 1, PktType \subseteq ReliableType
  PROVE  Spec /\ []Calm => NeverBackwards
<1>1. Calm /\ [Calm => InOrder]_vars => [InOrder]_vars
  OBVIOUS
<1>2. Spec => [][Calm => InOrder]_vars
  BY ReliableOrder DEF InOrder
<1>3. Spec /\ []Calm => [][InOrder]_vars
  BY <1>1, <1>2, PTL
<1> QED
  BY <1>3 DEF InOrder, NeverBackwards

-----------------------------------------------------------------------------

(* No packet with the number x is under way.                               *)
Clean(c, x) == \A i \in 1..Len(c) : IsData(c[i]) => c[i].seq # x

(* A window is empty only when its packet was acknowledged, so that sender *)
(* and receiver agree; the receiver has no packet newer than the ones the  *)
(* sender let go and the one it is ahead with, and none twice.             *)
Tight(s, r, c) ==
  /\ s.txSlidWinSize = 0 => s.txSeq = s.rxAck /\ r.txAck = s.rxAck /\ Clean(c, s.rxAck)
  /\ \A g \in r.got : \/ g <= s.made - Len(s.txFifo)
                      \/ r.txAck # s.rxAck /\ g = s.made - Len(s.txFifo) + 1
  /\ ~r.dup

(* Taking or losing a frame adds none.                                     *)
LEMMA CleanThin ==
  ASSUME NEW c, NEW e, NEW x, NEW k \in {0, 1}, Thin(e, c, k), Clean(c, x)
  PROVE  Clean(e, x)
<1>1. \A i \in 1..Len(e) : i + k \in 1..Len(c) /\ e[i] = c[i + k]
  BY ThinIn
<1> QED
  BY <1>1 DEF Clean

(* Nor does a frame without a packet.                                      *)
LEMMA CleanMore ==
  ASSUME NEW c, NEW e, NEW x, NEW f, More(e, c, f), ~IsData(f), Clean(c, x)
  PROVE  Clean(e, x)
<1>1. \A i \in 1..Len(e) : (i \in 1..Len(c) /\ e[i] = c[i]) \/ e[i] = f
  BY MoreIn
<1> QED
  BY <1>1 DEF Clean

(* A step that is none of the sender and hands nothing over.               *)
LEMMA TightSame ==
  ASSUME NEW s, NEW r, NEW t, NEW v, NEW c, NEW e, Tight(s, r, c), SameSnd(s, t),
         v.txAck = r.txAck, v.got = r.got, v.dup = r.dup,
         \A x : Clean(c, x) => Clean(e, x)
  PROVE  Tight(t, v, e)
  BY DEF Tight, SameSnd

(* The sender arms its resend timer.                                       *)
LEMMA TightArm ==
  ASSUME NEW s, NEW r, NEW t, NEW c, Tight(s, r, c), Armed(s, t)
  PROVE  Tight(t, r, c)
  BY DEF Tight, Armed

(* HCI_H5_SendData sends a packet.                                         *)
LEMMA TightSend ==
  ASSUME NEW s, NEW r, NEW t, NEW c, NEW e, Tight(s, r, c), Sent(s, t)
  PROVE  Tight(t, r, e)
  BY DEF Tight, Sent

(* HCI_H5_SendData finds a busy transmitter or an empty FIFO.              *)
LEMMA TightRewind ==
  ASSUME NEW s, NEW r, NEW t, NEW c, Tight(s, r, c), Rewound(s, t), s.txSlidWinSize = 0
  PROVE  Tight(t, r, c)
  BY DEF Tight, Rewound

(* A late acknowledgement is no news.                                      *)
LEMMA TightLate ==
  ASSUME NEW s \in GoodCb, NEW r, NEW t, NEW c, NEW d, Tight(s, r, c), Dir(s, r, c, d),
         1 \in 1..Len(d), IsAck(d[1]), d[1].ack # s.txSeq, Late(s, t, d[1].ack)
  PROVE  Tight(t, r, c)
<1>1. d[1].ack = s.rxAck \/ (d[1].ack = r.txAck /\ r.txAck = Nxt(s.rxAck))
  BY DEF Dir, Acks
<1>2. s.txSlidWinSize = 0 \/ s.txSeq = Nxt(s.rxAck)
  BY DEF Dir, Win
<1>3. s.txSlidWinSize = 0 => r.txAck = s.rxAck
  BY DEF Tight
<1>4. d[1].ack = s.rxAck
  BY <1>1, <1>2, <1>3
<1> QED
  BY <1>4 DEF Tight, Late

(* The window is released: the receiver is no longer ahead.                *)
LEMMA TightRelease ==
  ASSUME NEW s \in GoodCb, NEW r \in GoodCb, NEW t, NEW c, NEW d, Tight(s, r, c), Dir(s, r, c, d),
         1 \in 1..Len(d), IsAck(d[1]), d[1].ack = s.txSeq, Released(s, t)
  PROVE  Tight(t, r, c)
<1> DEFINE x == s.rxAck
           q == s.txFifo
           p == t.txFifo
<1>1. x \in SeqNum /\ q \in Seq(Pkt) /\ s.made \in Nat
  BY DEF GoodCb, ControlBlock
<1>2. Nxt(x) # x
  BY <1>1, Around
<1>3. d[1].ack = x \/ (d[1].ack = r.txAck /\ r.txAck = Nxt(x))
  BY DEF Dir, Acks
<1>4. CASE s.txSlidWinSize = 0
  <2>1. s.txSeq = x /\ r.txAck = x /\ Clean(c, x)
    BY <1>4 DEF Tight
  <2>2. p = q
    BY <1>1, <1>4, DropNone DEF Released
  <2> QED
    BY <2>1, <2>2 DEF Tight, Released
<1>5. CASE s.txSlidWinSize # 0
  <2>1. s.txSlidWinSize = 1 /\ s.txSeq = Nxt(x)
    BY <1>5 DEF Dir, Win
  <2>2. r.txAck = Nxt(x) /\ t.rxAck = Nxt(x) /\ t.txSeq = Nxt(x) /\ t.made = s.made
    BY <1>2, <1>3, <2>1 DEF Released
  <2>3. q # <<>> /\ \A i \in 1..Len(c) : IsData(c[i]) => c[i].seq = x
    BY <1>2, <2>2 DEF Dir, Data
  <2>4. Len(p) = Len(q) - 1 /\ Len(q) \in Nat
    <3>1. p = SubSeq(q, 1 + 1, Len(q))
      BY <2>1 DEF Released
    <3> QED
      BY <1>1, <2>3, <3>1, DropOne
  <2>5. Clean(c, Nxt(x))
    BY <1>2, <2>3 DEF Clean
  <2>6. PICK b, l, k : b = s.made - l /\ l = Len(q) /\ k = Len(p)
    OBVIOUS
  <2>7. b + 1 = s.made - k /\ b \in Int
    BY <1>1, <2>4, <2>6, SMTT(60)
  <2>8. \A g \in r.got : g <= b \/ g = b + 1
    BY <2>6 DEF Tight
  <2>9. \A g \in r.got : g \in Nat
    BY DEF GoodCb, ControlBlock
  <2> QED
    BY <2>2, <2>5, <2>6, <2>7, <2>8, <2>9 DEF Tight
<1> QED
  BY <1>4, <1>5

(* The receiver takes a packet with the number it expects: it is the one   *)
(* in the window, which it does not have yet.                              *)
LEMMA TightAccept ==
  ASSUME SlidWinSize = 1, NEW s \in GoodCb, NEW r \in GoodCb, NEW t, NEW c, NEW d, NEW e,
         Tight(s, r, c), Dir(s, r, c, d),
         1 \in 1..Len(c), IsData(c[1]), c[1].seq = r.txAck, Accepted(r, t, c[1].id)
  PROVE  Tight(s, t, e)
<1> DEFINE x == s.rxAck
           q == s.txFifo
<1>1. x \in SeqNum /\ q \in Seq(Pkt) /\ s.made \in Nat /\ \A g \in r.got : g \in Nat
  BY DEF GoodCb, ControlBlock
<1>2. Nxt(x) # x /\ Prv(x) # x /\ Nxt(x) # Prv(x)
  BY <1>1, Around
<1>3. c[1].seq = x /\ r.txAck = x
  BY <1>2 DEF Dir, Acks, Data
<1>4. q # <<>> /\ c[1].id = q[1].id
  BY <1>3 DEF Dir, Data
<1>5. s.txSlidWinSize # 0
  BY <1>3 DEF Tight, Clean
<1>6. PICK b, l : l = Len(q) /\ b = s.made - l
  OBVIOUS
<1>7. 1 \in 1..l /\ b \in Int
  BY <1>1, <1>4, <1>6
<1>8. c[1].id = b + 1
  BY <1>4, <1>6, <1>7 DEF Dir, Ids
<1>9. \A g \in r.got : g <= b
  BY <1>3, <1>6 DEF Tight
<1>10. c[1].id \notin r.got
  BY <1>7, <1>8, <1>9
<1>11. t.txAck = Nxt(x) /\ t.got = r.got \cup {b + 1} /\ ~t.dup
  BY <1>3, <1>8, <1>10 DEF Accepted, Tight
<1>12. \A g \in t.got : g <= b \/ (t.txAck # x /\ g = b + 1)
  BY <1>2, <1>9, <1>11
<1> QED
  BY <1>5, <1>6, <1>11, <1>12 DEF Tight

(* The sender becomes active and throws away what is in its FIFO.          *)
LEMMA TightReset ==
  ASSUME NEW s \in GoodCb, NEW r \in GoodCb, NEW t, NEW c, Tight(s, r, c), Down(s, r, c),
         s.linkState # "ACTIVE", Cleared(s, t)
  PROVE  Tight(t, r, c)
<1>1. /\ s.txFifo \in Seq(Pkt) /\ s.made \in Nat /\ \A g \in r.got : g \in Nat
  BY DEF GoodCb, ControlBlock
<1>2. r.txAck = 0 /\ s.rxAck = 0 /\ \A i \in 1..Len(c) : ~IsAck(c[i])
  BY DEF Down
<1>3. Clean(c, 0)
  BY <1>2 DEF Clean, IsAck, IsData
<1>4. PICK l : l = Len(s.txFifo)
  OBVIOUS
<1>5. l \in Nat /\ \A g \in r.got : g <= s.made - l
  BY <1>1, <1>2, <1>4 DEF Tight
<1>6. \A g \in r.got : g <= s.made - 0
  BY <1>1, <1>5
<1>7. Len(t.txFifo) = 0 /\ t.made = s.made /\ t.rxAck = 0 /\ t.txSeq = 0
  BY DEF Cleared
<1> QED
  BY <1>2, <1>3, <1>6, <1>7 DEF Tight

(* The stack of the sender queues a packet.                                *)
LEMMA TightEvent ==
  ASSUME NEW s \in GoodCb, NEW r, NEW t, NEW c, NEW ty, Tight(s, r, c), Queues(s, t, ty)
  PROVE  Tight(t, r, c)
<1>1. s.txFifo \in Seq(Pkt) /\ s.made \in Nat
  BY DEF GoodCb, ControlBlock
<1>2. t.made - Len(t.txFifo) = s.made - Len(s.txFifo)
  BY <1>1, SMTT(40) DEF Queues
<1> QED
  BY <1>2 DEF Tight, Queues

(* A timer that runs out finds an idle transmitter, so that a window that  *)
(* is not empty is sent again at once.                                     *)
LEMMA PromptPollFx ==
  ASSUME SlidWinSize = 1, NEW s \in GoodCb, NEW timeout \in BOOLEAN, NEW t,
         t = PollLink(s, timeout), s.linkState = "ACTIVE",
         timeout => s.uartTx = NoFrame, t.txSlidWinSize = 0
  PROVE  s.txSlidWinSize = 0
<1>1. s \in ControlBlock /\ WindowOK(s) /\ s.txSlidWinSize \in 0..7
  BY DEF GoodCb, ControlBlock
<1>2. SUFFICES ASSUME s.txSlidWinSize = 1 PROVE FALSE
  BY <1>1 DEF WindowOK
<1>3. s.txFifo \in Seq(Pkt) /\ Len(s.txFifo) # 0
  BY <1>1, <1>2 DEF WindowOK, ControlBlock
<1>4. ASSUME NEW v, v = [s EXCEPT !.resendTick = FALSE] \/ v = [s EXCEPT !.txTick = FALSE],
             s.uartTx = NoFrame
      PROVE  ResendStart(v).txSlidWinSize = 1
  <2>1. PICK u : u = [v EXCEPT !.txSeq = v.rxAck, !.txSlidWinSize = 0]
    OBVIOUS
  <2>2. v \in ControlBlock
    BY <1>1, <1>4, ZenonT(90) DEF ControlBlock
  <2>3. v.txFifo = s.txFifo /\ v.uartTx = s.uartTx
    BY <1>1, <1>4 DEF ControlBlock
  <2>4. v.rxAck \in SeqNum /\ 0 \in 0..7
    BY <2>2 DEF ControlBlock
  <2>5. u \in ControlBlock
    BY <2>1, <2>2, <2>4, ZenonT(60) DEF ControlBlock
  <2>6. u.txSlidWinSize = 0 /\ u.txFifo = s.txFifo /\ u.uartTx = NoFrame
    BY <1>4, <2>1, <2>2, <2>3 DEF ControlBlock
  <2>7. PICK p, w : p = u.txFifo[u.txSlidWinSize + 1] /\ w = Send(u, p.type, "none", p.id)
    OBVIOUS
  <2>8. ~(u.txSlidWinSize >= SlidWinSize \/ Len(u.txFifo) = u.txSlidWinSize)
    BY <1>3, <2>6
  <2>9. SendData(u) = [w EXCEPT !.txSlidWinSize = @ + 1, !.rxSlidWinSize = 0,
                                !.txTick = TRUE, !.rxTick = FALSE]
    BY <2>6, <2>7, <2>8 DEF SendData, isUartTxDone
  <2>10. w.txSlidWinSize = 0 /\ "txSlidWinSize" \in DOMAIN w
    BY <2>5, <2>6, <2>7 DEF Send, ControlBlock
  <2>11. SendData(u).txSlidWinSize = 1
    BY <2>9, <2>10
  <2> QED
    BY <2>1, <2>11 DEF ResendStart
<1>5. CASE s.resendTick /\ timeout
  BY <1>4, <1>5 DEF PollLink
<1>6. CASE ~s.resendTick /\ s.txTick /\ timeout
  BY <1>2, <1>4, <1>6 DEF PollLink
<1>7. CASE ~(s.resendTick /\ timeout) /\ ~(~s.resendTick /\ s.txTick /\ timeout)
  <2>1. t = s
    BY <1>2, <1>7 DEF PollLink
  <2> QED
    BY <1>2, <2>1
<1> QED
  BY <1>5, <1>6, <1>7

(* Both directions, as in Pair                                             *)
Both(s, r, c, d) == Tight(s, r, c) /\ Tight(r, s, d)

(* A node does nothing but send a frame without a packet, or nothing, and  *)
(* perhaps read its HCI rx FIFO.                                           *)
LEMMA BothSend ==
  ASSUME NEW s, NEW r, NEW t, NEW p \in Seq(Frame), NEW d, t.uartTx \in Frame,
         Both(s, r, Chan(p, s.uartTx), d), SameSnd(s, t),
         t.txAck = s.txAck, t.got = s.got, t.dup = s.dup,
         \/ t.uartTx = s.uartTx
         \/ s.uartTx = NoFrame /\ t.uartTx.type \in {"ACK", "LINK_CTRL"}
  PROVE  Both(t, r, Chan(p, t.uartTx), d)
<1>1. PICK c, e : c = Chan(p, s.uartTx) /\ e = Chan(p, t.uartTx)
  OBVIOUS
<1>2. \A x : Clean(c, x) => Clean(e, x)
  <2>1. CASE t.uartTx = s.uartTx
    BY <1>1, <2>1
  <2>2. CASE s.uartTx = NoFrame /\ t.uartTx.type \in {"ACK", "LINK_CTRL"}
    <3>1. t.uartTx # NoFrame /\ ~IsData(t.uartTx)
      BY <2>2 DEF NoFrame, IsData, ReliableType
    <3>2. More(e, c, t.uartTx)
      BY <1>1, <2>2, <3>1, ChanSend
    <3> QED
      BY <3>1, <3>2, CleanMore, Zenon
  <2> QED
    BY <2>1, <2>2
<1>3. Tight(s, r, c) /\ Tight(r, s, d)
  BY <1>1 DEF Both
<1>4. Tight(t, r, e)
  BY <1>2, <1>3, TightSame, Zenon
<1>5. Tight(r, t, d)
  <2>1. SameSnd(r, r) /\ \A x : Clean(d, x) => Clean(d, x)
    BY DEF SameSnd
  <2> QED
    BY <1>3, <2>1, TightSame, Zenon
<1> QED
  BY <1>1, <1>4, <1>5 DEF Both

(* A frame is taken without effect, or lost.                               *)
LEMMA BothThin ==
  ASSUME NEW s, NEW r, NEW c, NEW d, NEW e, NEW k \in {0, 1}, Both(s, r, c, d), Thin(e, d, k)
  PROVE  Both(s, r, c, e)
<1>1. \A x : Clean(d, x) => Clean(e, x)
  BY CleanThin, Zenon
<1>2. SameSnd(r, r)
  BY DEF SameSnd
<1> QED
  BY <1>1, <1>2, TightSame, Zenon DEF Both

(* A pure acknowledgement or a packet reaches s.                           *)
LEMMA BothAck ==
  ASSUME SlidWinSize = 1, NEW s \in GoodCb, NEW r \in GoodCb, NEW c, NEW d, NEW e, NEW t,
         Pair(s, r, c, d), Both(s, r, c, d), Thin(e, d, 1), Len(d) > 0, s.linkState = "ACTIVE",
         d[1] \in Frame,
         \/ d[1].type = "ACK" /\ t = RxPureAck(s, d[1].ack)
         \/ IsData(d[1]) /\ t = DecodeDataPdu(s, d[1])
  PROVE  Both(t, r, c, e) /\ t.uartTx = s.uartTx
<1>1. 1 \in 1..Len(d) /\ IsAck(d[1]) /\ 1 \in {0, 1}
  BY DEF IsAck, IsData, Thin
<1>2. Dir(s, r, c, d) /\ Dir(r, s, d, c) /\ Tight(s, r, c) /\ Tight(r, s, d)
  BY Zenon DEF Pair, Both
<1>3. Tight(r, s, e)
  BY <1>1, BothThin, Zenon DEF Both
<1>4. ASSUME SameRcv(s, t) PROVE Tight(r, t, e)
  <2>1. SameSnd(r, r) /\ \A x : Clean(e, x) => Clean(e, x)
    BY DEF SameSnd
  <2> QED
    BY <1>3, <1>4, <2>1, TightSame, Zenon DEF SameRcv
<1>5. CASE d[1].type = "ACK" /\ t = RxPureAck(s, d[1].ack)
  <2>1. /\ SameRcv(s, t) /\ t.uartTx = s.uartTx
        /\ d[1].ack = s.txSeq => Released(s, t)
        /\ d[1].ack # s.txSeq => Late(s, t, d[1].ack)
    BY <1>5, RxPureAckFx
  <2>2. Tight(t, r, c)
    <3>1. CASE d[1].ack = s.txSeq
      BY <1>1, <1>2, <2>1, <3>1, TightRelease
    <3>2. CASE d[1].ack # s.txSeq
      BY <1>1, <1>2, <2>1, <3>2, TightLate
    <3> QED
      BY <3>1, <3>2
  <2> QED
    BY <1>4, <2>1, <2>2 DEF Both
<1>6. CASE IsData(d[1]) /\ t = DecodeDataPdu(s, d[1])
  <2>1. /\ d[1].seq = s.txAck => Accepted(s, t, d[1].id)
        /\ d[1].seq # s.txAck => SameRcv(s, t)
        /\ d[1].ack = s.txSeq => Released(s, t)
        /\ d[1].ack # s.txSeq => Armed(s, t)
        /\ t.uartTx = s.uartTx
    BY <1>6, DataFx
  <2>2. Tight(t, r, c)
    <3>1. CASE d[1].ack = s.txSeq
      BY <1>1, <1>2, <2>1, <3>1, TightRelease
    <3>2. CASE d[1].ack # s.txSeq
      BY <1>2, <2>1, <3>2, TightArm
    <3> QED
      BY <3>1, <3>2
  <2>3. Tight(r, t, e)
    <3>1. CASE d[1].seq = s.txAck
      BY <1>1, <1>2, <1>6, <2>1, <3>1, TightAccept
    <3>2. CASE d[1].seq # s.txAck
      BY <1>4, <2>1, <3>2
    <3> QED
      BY <3>1, <3>2
  <2> QED
    BY <2>1, <2>2, <2>3 DEF Both
<1> QED
  BY <1>5, <1>6

(* HCI_H5_PakcetHandler                                                    *)
LEMMA BothRx ==
  ASSUME SlidWinSize = 1, NEW s \in GoodCb, NEW r \in GoodCb, NEW p \in Seq(Frame),
         NEW q \in Seq(Frame), q # <<>>, NEW t \in GoodCb, t = PacketHandler(s, Head(q)),
         ~(s.linkState = "ACTIVE" /\ Head(q).msg = "SYNC"),
         Pair(s, r, Chan(p, s.uartTx), Chan(q, r.uartTx)),
         Both(s, r, Chan(p, s.uartTx), Chan(q, r.uartTx))
  PROVE  Both(t, r, Chan(p, t.uartTx), Chan(Tail(q), r.uartTx))
<1>1. PICK f, c, d, e : /\ f = Head(q) /\ c = Chan(p, s.uartTx)
                        /\ d = Chan(q, r.uartTx) /\ e = Chan(Tail(q), r.uartTx)
  OBVIOUS
<1>2. r.uartTx \in Frame /\ t.uartTx \in Frame
  BY DEF GoodCb, ControlBlock
<1>3. Thin(e, d, 1) /\ d[1] = f /\ Len(d) > 0
  BY <1>1, <1>2, ChanTake
<1>4. f \in Frame
  BY <1>1
<1>5. Pair(s, r, c, d) /\ Both(s, r, c, d) /\ Both(s, r, c, e)
  <2>1. Pair(s, r, c, d) /\ Both(s, r, c, d) /\ 1 \in {0, 1}
    BY <1>1
  <2> QED
    BY <1>3, <2>1, BothThin, Zenon
<1>6. CASE f.type = "LINK_CTRL"
  <2>1. t = DecodeLinkPdu(s, f.msg)
    BY <1>1, <1>6 DEF PacketHandler, DataType, ReliableType
  <2>2. \/ Linked(s, t) /\ (t.linkState = "ACTIVE" <=> s.linkState = "ACTIVE")
        \/ s.linkState # "ACTIVE" /\ Cleared(s, t)
    BY <1>1, <2>1, LinkPduFx
  <2>3. CASE Linked(s, t)
    <3>1. /\ SameSnd(s, t) /\ t.txAck = s.txAck /\ t.got = s.got /\ t.dup = s.dup
          /\ \/ t.uartTx = s.uartTx
             \/ s.uartTx = NoFrame /\ t.uartTx.type \in {"ACK", "LINK_CTRL"}
      BY <2>3 DEF Linked, SameRcv
    <3>2. Both(t, r, Chan(p, t.uartTx), e)
      BY <1>1, <1>2, <1>5, <3>1, BothSend, Zenon
    <3> QED
      BY <1>1, <3>2
  <2>4. CASE s.linkState # "ACTIVE" /\ Cleared(s, t)
    <3>1. Tight(s, r, c) /\ Tight(r, s, e) /\ Down(s, r, c)
      BY <1>5, Zenon DEF Both, Pair
    <3>2. Tight(t, r, c)
      BY <2>4, <3>1, TightReset, Zenon
    <3>3. t.txAck = s.txAck /\ t.got = s.got /\ t.dup = s.dup /\ t.uartTx = s.uartTx
      BY <2>4, <3>1 DEF Cleared, Down
    <3>4. SameSnd(r, r) /\ \A x : Clean(e, x) => Clean(e, x)
      BY DEF SameSnd
    <3>5. Tight(r, t, e)
      BY <3>1, <3>3, <3>4, TightSame, Zenon
    <3> QED
      BY <1>1, <3>2, <3>3, <3>5 DEF Both
  <2> QED
    BY <2>2, <2>3, <2>4
<1>7. CASE (f.type = "ACK" \/ IsData(f)) /\ s.linkState = "ACTIVE"
  <2>1. \/ d[1].type = "ACK" /\ t = RxPureAck(s, d[1].ack)
        \/ IsData(d[1]) /\ t = DecodeDataPdu(s, d[1])
    BY <1>1, <1>3, <1>7 DEF PacketHandler, IsData, DataType, ReliableType
  <2>2. Both(t, r, c, e) /\ t.uartTx = s.uartTx
    <3>1. d[1] \in Frame
      BY <1>3, <1>4
    <3>2. Thin(e, d, 1) /\ Len(d) > 0
      BY <1>3
    <3>3. Pair(s, r, c, d) /\ Both(s, r, c, d)
      BY <1>5
    <3>4. s.linkState = "ACTIVE"
      BY <1>7
    <3> QED
      BY <3>1, <3>2, <3>3, <3>4, <2>1, BothAck, ZenonT(60)
  <2> QED
    BY <1>1, <2>2
<1>8. CASE /\ f.type # "LINK_CTRL"
           /\ s.linkState = "ACTIVE" => f.type # "ACK" /\ ~IsData(f)
  <2>1. f.type # "SCO"
    <3>1. 1 \in 1..Len(d)
      BY <1>3 DEF Thin
    <3> QED
      BY <1>3, <1>5, <3>1 DEF Pair, Dir
  <2>2. t = s
    BY <1>1, <1>8, <2>1 DEF PacketHandler, IsData, DataType
  <2> QED
    BY <1>1, <1>5, <2>2
<1> QED
  BY <1>6, <1>7, <1>8

(* HCI_TransportPoll up to the pure-ack handler, in a prompt system: a     *)
(* timer runs out only when the transmitter is idle.                       *)
LEMMA BothPoll ==
  ASSUME SlidWinSize = 1, NEW s \in GoodCb, NEW r, NEW p \in Seq(Frame), NEW d,
         NEW timeout \in BOOLEAN, NEW v \in GoodCb, v = PollLink(s, timeout), NEW t,
         t = IF PureAckDue(v) THEN v ELSE HciHandler(v), timeout => s.uartTx = NoFrame,
         Pair(s, r, Chan(p, s.uartTx), d), Both(s, r, Chan(p, s.uartTx), d)
  PROVE  Both(t, r, Chan(p, t.uartTx), d)
<1>1. PICK c, e : c = Chan(p, s.uartTx) /\ e = Chan(p, v.uartTx)
  OBVIOUS
<1>2. /\ Reliable(s) /\ (s.hciRx = <<>> \/ Len(s.hciRx) = 1)
      /\ s.txSlidWinSize = 0 /\ ~s.resendTick => s.txSeq = s.rxAck
  BY PairPolls
<1>3. v.uartTx \in Frame
  BY DEF GoodCb, ControlBlock
<1>4. Tight(s, r, c) /\ Tight(r, s, d)
  BY <1>1, Zenon DEF Both
<1>5. SameRcv(s, v) /\ Both(v, r, e, d)
  <2>1. CASE s.linkState = "ACTIVE"
    <3>1. Polled(s, v)
      BY <1>2, <2>1, PollActiveFx
    <3>2. SameSnd(r, r) /\ \A x : Clean(d, x) => Clean(d, x)
      BY DEF SameSnd
    <3>3. Tight(r, v, d)
      BY <1>4, <3>1, <3>2, TightSame, Zenon DEF Polled, SameRcv
    <3>4. CASE SameSnd(s, v) /\ v.uartTx = s.uartTx
      <4>1. SameRcv(r, r) /\ r.txAck = r.txAck /\ r.got = r.got /\ r.dup = r.dup
            /\ \A x : Clean(c, x) => Clean(c, x)
        BY DEF SameRcv
      <4>2. Tight(v, r, c)
        BY <1>4, <3>4, <4>1, TightSame, Zenon
      <4> QED
        BY <1>1, <3>1, <3>3, <3>4, <4>2 DEF Both, Polled
    <3>5. CASE Rewound(s, v) /\ v.uartTx = s.uartTx
      <4>1. v.txSlidWinSize = 0
        BY <3>5 DEF Rewound
      <4>2. s.txSlidWinSize = 0
        BY <2>1, <4>1, PromptPollFx
      <4>3. Tight(v, r, c)
        BY <1>4, <3>5, <4>2, TightRewind
      <4> QED
        BY <1>1, <3>1, <3>3, <3>5, <4>3 DEF Both, Polled
    <3>6. CASE SentOut(s, v)
      <4>1. Tight(v, r, e)
        BY <1>4, <3>6, TightSend DEF SentOut
      <4> QED
        BY <3>1, <3>3, <4>1 DEF Both, Polled
    <3> QED
      BY <3>1, <3>4, <3>5, <3>6 DEF Polled
  <2>2. CASE s.linkState # "ACTIVE"
    <3>1. Linked(s, v)
      BY <2>2, PollDownFx
    <3>2. /\ SameSnd(s, v) /\ v.txAck = s.txAck /\ v.got = s.got /\ v.dup = s.dup
          /\ \/ v.uartTx = s.uartTx
             \/ s.uartTx = NoFrame /\ v.uartTx.type \in {"ACK", "LINK_CTRL"}
      BY <3>1 DEF Linked, SameRcv
    <3>3. Both(v, r, Chan(p, v.uartTx), d)
      BY <1>3, <3>2, BothSend, Zenon
    <3> QED
      BY <1>1, <3>1, <3>3 DEF Linked
  <2> QED
    BY <2>1, <2>2
<1>6. CASE t = v
  BY <1>1, <1>5, <1>6
<1>7. CASE t = HciHandler(v)
  <2>1. v.hciRx = s.hciRx
    BY <1>5 DEF SameRcv
  <2>2. Reads(v, t)
    BY <1>2, <1>7, <2>1, ReadFx
  <2>3. /\ SameSnd(v, t) /\ t.txAck = v.txAck /\ t.got = v.got /\ t.dup = v.dup
        /\ t.uartTx = v.uartTx /\ t.uartTx \in Frame
    BY <1>3, <2>2 DEF Reads
  <2>4. Both(v, r, Chan(p, v.uartTx), d)
    BY <1>1, <1>5
  <2> QED
    BY <2>3, <2>4, BothSend, Zenon
<1> QED
  BY <1>6, <1>7

(* The rest of it.                                                         *)
LEMMA BothPollAck ==
  ASSUME NEW s \in GoodCb, NEW r, NEW p \in Seq(Frame), NEW d, NEW timeout, NEW t,
         t = HciHandler(IF timeout THEN PollPureAck(s) ELSE s),
         Pair(s, r, Chan(p, s.uartTx), d), Both(s, r, Chan(p, s.uartTx), d)
  PROVE  Both(t, r, Chan(p, t.uartTx), d)
<1>1. s.hciRx = <<>> \/ Len(s.hciRx) = 1
  BY PairPolls
<1>2. PICK v : v = IF timeout THEN PollPureAck(s) ELSE s
  OBVIOUS
<1>3. /\ v \in GoodCb /\ SameSnd(s, v) /\ SameRcv(s, v)
      /\ \/ v.uartTx = s.uartTx
         \/ s.uartTx = NoFrame /\ v.uartTx.type = "ACK"
  <2>1. CASE timeout
    BY <1>2, <2>1, PollPureAckFx, PollPureAckGood
  <2>2. CASE ~timeout
    BY <1>2, <2>2 DEF SameSnd, SameRcv
  <2> QED
    BY <2>1, <2>2
<1>4. v.uartTx \in Frame /\ v.hciRx = s.hciRx
  BY <1>3 DEF GoodCb, ControlBlock, SameRcv
<1>5. Reads(v, t)
  BY <1>1, <1>2, <1>3, <1>4, ReadFx
<1>6. /\ SameSnd(s, t) /\ t.txAck = s.txAck /\ t.got = s.got /\ t.dup = s.dup
      /\ t.uartTx = v.uartTx
  BY <1>3, <1>5 DEF Reads, SameSnd, SameRcv
<1>7. \/ t.uartTx = s.uartTx
      \/ s.uartTx = NoFrame /\ t.uartTx.type \in {"ACK", "LINK_CTRL"}
  BY <1>3, <1>6
<1>8. t.uartTx \in Frame
  BY <1>4, <1>6
<1> QED
  BY <1>6, <1>7, <1>8, BothSend, Zenon

-----------------------------------------------------------------------------
(* The invariant at node n, and at both while no side started again.       *)
TightAt(n) == Tight(cb[n], cb[Peer(n)], Wire(n))
TightInv   == Calm => \A n \in Node : TightAt(n)

(* TightAt of both nodes is Both seen from one of them.                    *)
LEMMA TightIsBoth ==
  ASSUME NEW n \in Node
  PROVE  (\A k \in Node : TightAt(k)) <=> Both(cb[n], cb[Peer(n)], Wire(n), Wire(Peer(n)))
<1>0. PICK m : m = Peer(n)
  OBVIOUS
<1>1. m \in Node /\ m = Peer(n) /\ m # n /\ Peer(m) = n /\ \A k \in Node : k = n \/ k = m
  BY <1>0
<1>2. /\ TightAt(n) <=> Tight(cb[n], cb[m], Wire(n))
      /\ TightAt(m) <=> Tight(cb[m], cb[n], Wire(m))
  BY <1>1 DEF TightAt
<1> QED
  BY <1>1, <1>2, Zenon DEF Both

(* A step of node n: its control block becomes t, its receive buffers rn   *)
(* and those of its peer rm.                                               *)
LEMMA TightStep ==
  ASSUME IInv, NEW n \in Node, NEW t, NEW rn, NEW rm,
         cb' = [cb EXCEPT ![n] = t], rxFifo' = [rxFifo EXCEPT ![n] = rn, ![Peer(n)] = rm],
         Both(t, cb[Peer(n)], Chan(rm, t.uartTx), Chan(rn, cb[Peer(n)].uartTx))
  PROVE  \A k \in Node : TightAt(k)'
<1>0. PICK m : m = Peer(n)
  OBVIOUS
<1>1. m \in Node /\ m = Peer(n) /\ m # n /\ Peer(m) = n /\ \A k \in Node : k = n \/ k = m
  BY <1>0
<1>2. cb'[n] = t /\ cb'[m] = cb[m] /\ rxFifo'[n] = rn /\ rxFifo'[m] = rm
  BY <1>1, IInvGood
<1>3. Wire(n)' = Chan(rm, t.uartTx) /\ Wire(m)' = Chan(rn, cb[m].uartTx)
  BY <1>1, <1>2 DEF Wire
<1>4. Both(cb[n], cb[Peer(n)], Wire(n), Wire(Peer(n)))'
  BY <1>1, <1>2, <1>3
<1>5. (\A k \in Node : TightAt(k))' <=> Both(cb[n], cb[Peer(n)], Wire(n), Wire(Peer(n)))'
  BY TightIsBoth, PTL
<1> QED
  BY <1>4, <1>5

(* What the steps below start from: both nodes and the frames between them *)
LEMMA TightStart ==
  ASSUME IInv, \A k \in Node : FlowAt(k), \A k \in Node : TightAt(k), NEW n \in Node,
         NEW m, NEW s, NEW r, NEW p, NEW q, m = Peer(n), s = cb[n], r = cb[m],
         p = rxFifo[m], q = rxFifo[n]
  PROVE  /\ m \in Node /\ m # n /\ Peer(m) = n
         /\ s \in GoodCb /\ r \in GoodCb /\ p \in Seq(Frame) /\ q \in Seq(Frame)
         /\ Pair(s, r, Chan(p, s.uartTx), Chan(q, r.uartTx))
         /\ Both(s, r, Chan(p, s.uartTx), Chan(q, r.uartTx))
<1>1. m \in Node /\ m # n /\ Peer(m) = n
  OBVIOUS
<1>2. s \in GoodCb /\ r \in GoodCb /\ p \in Seq(Frame) /\ q \in Seq(Frame)
  BY <1>1, IInvGood
<1>3. Wire(n) = Chan(p, s.uartTx) /\ Wire(m) = Chan(q, r.uartTx)
  BY <1>1 DEF Wire
<1>4. Pair(s, r, Wire(n), Wire(m))
  BY FlowIsJoint DEF Joint
<1>5. Both(s, r, Wire(n), Wire(m))
  BY TightIsBoth
<1> QED
  BY <1>1, <1>2, <1>3, <1>4, <1>5

(* Node n takes a frame.                                                   *)
LEMMA TightRx ==
  ASSUME SlidWinSize = 1, IInv, LinkInv, Calm, \A k \in Node : FlowAt(k),
         \A k \in Node : TightAt(k), NEW n \in Node, RxFrame(n)
  PROVE  \A k \in Node : TightAt(k)'
<1>0. PICK m, s, r, p, q, t, e : /\ m = Peer(n) /\ s = cb[n] /\ r = cb[m] /\ p = rxFifo[m]
                                 /\ q = rxFifo[n] /\ t = PacketHandler(s, Head(q)) /\ e = Tail(q)
  OBVIOUS
<1>1. /\ m \in Node /\ m # n /\ Peer(m) = n
      /\ s \in GoodCb /\ r \in GoodCb /\ p \in Seq(Frame) /\ q \in Seq(Frame)
      /\ Pair(s, r, Chan(p, s.uartTx), Chan(q, r.uartTx))
      /\ Both(s, r, Chan(p, s.uartTx), Chan(q, r.uartTx))
  BY <1>0, TightStart, Zenon
<1>2. q # <<>>
  BY <1>0 DEF RxFrame
<1>3. Head(q) \in Frame /\ Head(q) = q[1] /\ 1 \in 1..Len(q)
  <2>1. Head(q) \in Frame /\ Head(q) = q[1] /\ Len(q) \in Nat \ {0}
    BY <1>1, <1>2, HeadTail
  <2> QED
    BY <2>1
<1>4. t \in GoodCb
  BY <1>0, <1>1, <1>3, PacketHandlerGood, Zenon
<1>5. ~(s.linkState = "ACTIVE" /\ Head(q).msg = "SYNC")
  <2>1. LinkOK(r.linkState, s.linkState, q, r.uartTx)
    BY <1>0, <1>1 DEF LinkInv, Calm
  <2> QED
    BY <1>3, <2>1 DEF LinkOK
<1>6. Both(t, r, Chan(p, t.uartTx), Chan(Tail(q), r.uartTx))
  BY <1>0, <1>1, <1>2, <1>4, <1>5, BothRx, Zenon
<1>7. Both(t, cb[Peer(n)], Chan(p, t.uartTx), Chan(e, cb[Peer(n)].uartTx))
  BY <1>0, <1>6
<1>8. cb' = [cb EXCEPT ![n] = t]
  BY <1>0 DEF RxFrame
<1>9. rxFifo' = [rxFifo EXCEPT ![n] = e, ![Peer(n)] = p]
  <2>1. rxFifo' = [rxFifo EXCEPT ![n] = e]
    BY <1>0 DEF RxFrame
  <2> QED
    BY <1>0, <1>1, <2>1, IInvGood
<1> QED
  BY <1>7, <1>8, <1>9, TightStep

(* Node n runs its main loop.                                              *)
LEMMA TightPoll ==
  ASSUME SlidWinSize = 1, IInv, \A k \in Node : FlowAt(k), \A k \in Node : TightAt(k),
         NEW n \in Node, NEW timeout \in BOOLEAN, timeout => Quiet,
         Poll(n, timeout) \/ PollAck(n, timeout)
  PROVE  \A k \in Node : TightAt(k)'
<1>0. PICK m, s, r, p, q : /\ m = Peer(n) /\ s = cb[n] /\ r = cb[m] /\ p = rxFifo[m]
                           /\ q = rxFifo[n]
  OBVIOUS
<1>1. /\ m \in Node /\ m # n /\ Peer(m) = n
      /\ s \in GoodCb /\ r \in GoodCb /\ p \in Seq(Frame) /\ q \in Seq(Frame)
      /\ Pair(s, r, Chan(p, s.uartTx), Chan(q, r.uartTx))
      /\ Both(s, r, Chan(p, s.uartTx), Chan(q, r.uartTx))
  BY <1>0, TightStart, Zenon
<1>2. timeout => s.uartTx = NoFrame
  BY <1>0 DEF Quiet, isUartTxDone
<1>3. rxFifo' = [rxFifo EXCEPT ![n] = q, ![Peer(n)] = p]
  <2>1. rxFifo' = rxFifo
    BY DEF Poll, PollAck
  <2> QED
    BY <1>0, <1>1, <2>1, IInvGood
<1>4. CASE Poll(n, timeout)
  <2>1. PICK v : v = PollLink(s, timeout)
    OBVIOUS
  <2>2. PICK t : t = IF PureAckDue(v) THEN v ELSE HciHandler(v)
    OBVIOUS
  <2>3. v \in GoodCb
    BY <1>1, <2>1, PollLinkGood
  <2>4. Both(t, r, Chan(p, t.uartTx), Chan(q, r.uartTx))
    BY <1>1, <1>2, <2>1, <2>2, <2>3, BothPoll
  <2>5. cb' = [cb EXCEPT ![n] = t]
    BY <1>0, <1>4, <2>1, <2>2 DEF Poll
  <2> QED
    BY <1>0, <1>3, <2>4, <2>5, TightStep
<1>5. CASE PollAck(n, timeout)
  <2>1. PICK t : t = HciHandler(IF timeout THEN PollPureAck(s) ELSE s)
    OBVIOUS
  <2>2. Both(t, r, Chan(p, t.uartTx), Chan(q, r.uartTx))
    BY <1>1, <2>1, BothPollAck
  <2>3. cb' = [cb EXCEPT ![n] = t]
    BY <1>0, <1>5, <2>1, IInvGood DEF PollAck
  <2> QED
    BY <1>0, <1>3, <2>2, <2>3, TightStep
<1> QED
  BY <1>4, <1>5

(* The stack of node n queues a packet.                                    *)
LEMMA TightQueue ==
  ASSUME IInv, \A k \in Node : FlowAt(k), \A k \in Node : TightAt(k), NEW n \in Node, HciEvent(n)
  PROVE  \A k \in Node : TightAt(k)'
<1>0. PICK m, s, r, p, q : /\ m = Peer(n) /\ s = cb[n] /\ r = cb[m] /\ p = rxFifo[m]
                           /\ q = rxFifo[n]
  OBVIOUS
<1>1. /\ m \in Node /\ m # n /\ Peer(m) = n /\ s \in GoodCb
      /\ Both(s, r, Chan(p, s.uartTx), Chan(q, r.uartTx))
  BY <1>0, TightStart, Zenon
<1>2. PICK ty \in PktType :
        cb' = [cb EXCEPT ![n].txFifo = Append(@, [type |-> ty, id |-> cb[n].made + 1]),
                         ![n].made = @ + 1]
  BY DEF HciEvent
<1>3. PICK a, b : a = Append(s.txFifo, [type |-> ty, id |-> s.made + 1]) /\ b = s.made + 1
  OBVIOUS
<1>4. PICK t : t = [s EXCEPT !.txFifo = a, !.made = b]
  OBVIOUS
<1>5. /\ t.rxAck = s.rxAck /\ t.txSeq = s.txSeq /\ t.txSlidWinSize = s.txSlidWinSize
      /\ t.resendTick = s.resendTick /\ t.rel = s.rel /\ t.drop = s.drop
      /\ t.txFifo = a /\ t.made = b
      /\ SameRcv(s, t) /\ t.uartTx = s.uartTx /\ t.linkState = s.linkState
  BY <1>1, <1>4 DEF GoodCb, ControlBlock, SameRcv
<1>6. Queues(s, t, ty)
  BY <1>3, <1>5 DEF Queues
<1>7. Tight(t, r, Chan(p, s.uartTx))
  BY <1>1, <1>6, TightEvent, Zenon DEF Both
<1>8. Tight(r, t, Chan(q, r.uartTx))
  <2>1. PICK d : d = Chan(q, r.uartTx)
    OBVIOUS
  <2>2. SameSnd(r, r) /\ \A x : Clean(d, x) => Clean(d, x)
    BY DEF SameSnd
  <2>3. t.txAck = s.txAck /\ t.got = s.got /\ t.dup = s.dup
    BY <1>5 DEF SameRcv
  <2>4. Tight(r, s, d)
    BY <1>1, <2>1 DEF Both
  <2>5. Tight(r, t, d)
    BY <2>2, <2>3, <2>4, TightSame, Zenon
  <2> QED
    BY <2>1, <2>5
<1>9. Both(t, r, Chan(p, t.uartTx), Chan(q, r.uartTx))
  BY <1>5, <1>7, <1>8 DEF Both
<1>10. cb' = [cb EXCEPT ![n] = t]
  BY <1>0, <1>2, <1>3, <1>4, IInvGood DEF GoodCb, ControlBlock
<1>11. rxFifo' = [rxFifo EXCEPT ![n] = q, ![Peer(n)] = p]
  BY <1>0, <1>1, IInvGood DEF HciEvent
<1> QED
  BY <1>0, <1>9, <1>10, <1>11, TightStep

(* The frame node n is sending arrives, or is lost.                        *)
LEMMA TightTx ==
  ASSUME IInv, \A k \in Node : FlowAt(k), \A k \in Node : TightAt(k), NEW n \in Node,
         UartTxDone(n) \/ Lose(n), ~overrun'
  PROVE  \A k \in Node : TightAt(k)'
<1>0. PICK m, s, r, p, q, u : /\ m = Peer(n) /\ s = cb[n] /\ r = cb[m] /\ p = rxFifo[m]
                              /\ q = rxFifo[n] /\ u = s.uartTx
  OBVIOUS
<1>1. /\ m \in Node /\ m # n /\ Peer(m) = n /\ s \in GoodCb /\ p \in Seq(Frame)
      /\ Both(s, r, Chan(p, u), Chan(q, r.uartTx))
  BY <1>0, TightStart, Zenon
<1>2. u \in Frame /\ Len(p) <= RxBufNum
  BY <1>0, <1>1, IInvGood, ZenonT(30) DEF GoodCb, ControlBlock
<1>3. u # NoFrame
  BY <1>0 DEF UartTxDone, Lose, isUartTxDone
<1>4. PICK t : t = [s EXCEPT !.uartTx = NoFrame]
  OBVIOUS
<1>5. SameSnd(s, t) /\ SameRcv(s, t) /\ t.uartTx = NoFrame
  BY <1>1, <1>4 DEF GoodCb, ControlBlock, SameSnd, SameRcv
<1>6. cb' = [cb EXCEPT ![n] = t]
  BY <1>0, <1>4, IInvGood DEF UartTxDone, Lose, GoodCb, ControlBlock
<1>7. ASSUME NEW c, Tight(s, r, c) PROVE Both(t, r, c, Chan(q, r.uartTx))
  <2>1. PICK d : d = Chan(q, r.uartTx)
    OBVIOUS
  <2>2. SameSnd(r, r) /\ SameRcv(r, r) /\ \A x : Clean(d, x) => Clean(d, x)
    BY DEF SameSnd, SameRcv
  <2>3. \A x : Clean(c, x) => Clean(c, x)
    OBVIOUS
  <2>4. Tight(r, t, d)
    <3>1. Tight(r, s, d)
      BY <1>1, <2>1 DEF Both
    <3>2. t.txAck = s.txAck /\ t.got = s.got /\ t.dup = s.dup
      BY <1>5 DEF SameRcv
    <3> QED
      BY <2>2, <3>1, <3>2, TightSame, Zenon
  <2>5. Tight(t, r, c)
    BY <1>5, <1>7, <2>2, <2>3, TightSame, Zenon DEF SameRcv
  <2> QED
    BY <2>1, <2>4, <2>5 DEF Both
<1>8. Tight(s, r, Chan(p, u))
  BY <1>1 DEF Both
<1>9. CASE UartTxDone(n)
  <2>1. Len(p) < RxBufNum
    <3>1. Len(p) # RxBufNum
      BY <1>0, <1>9, Zenon DEF UartTxDone
    <3> QED
      BY <1>1, <1>2, <3>1, RxBufAssumption
  <2>2. Receive(p, u) = Append(p, u)
    BY <2>1 DEF Receive
  <2>3. rxFifo' = [rxFifo EXCEPT ![n] = q, ![Peer(n)] = Append(p, u)]
    BY <1>0, <1>1, <1>9, <2>2, IInvGood DEF UartTxDone
  <2>4. Chan(Append(p, u), t.uartTx) = Chan(p, u)
    BY <1>3, <1>5, ChanDone
  <2>5. Both(t, r, Chan(Append(p, u), t.uartTx), Chan(q, r.uartTx))
    BY <1>7, <1>8, <2>4
  <2> QED
    BY <1>0, <1>6, <2>3, <2>5, TightStep
<1>10. CASE Lose(n)
  <2>1. rxFifo' = [rxFifo EXCEPT ![n] = q, ![Peer(n)] = p]
    BY <1>0, <1>1, <1>10, IInvGood DEF Lose
  <2>2. PICK c, e : c = Chan(p, u) /\ e = Chan(p, t.uartTx)
    OBVIOUS
  <2>3. Thin(e, c, 0) /\ 0 \in {0, 1}
    BY <1>1, <1>2, <1>3, <1>5, <2>2, ChanLose
  <2>4. \A x : Clean(c, x) => Clean(e, x)
    BY <2>3, CleanThin, Zenon
  <2>5. Tight(s, r, e)
    <3>1. Tight(s, r, c) /\ SameSnd(s, s)
      BY <1>8, <2>2 DEF SameSnd
    <3>2. r.txAck = r.txAck /\ r.got = r.got /\ r.dup = r.dup
      OBVIOUS
    <3> QED
      BY <2>4, <3>1, <3>2, TightSame, Zenon
  <2>6. Both(t, r, Chan(p, t.uartTx), Chan(q, r.uartTx))
    BY <1>7, <2>2, <2>5
  <2> QED
    BY <1>0, <1>6, <2>1, <2>6, TightStep
<1> QED
  BY <1>9, <1>10

(* Every step of a prompt system keeps the invariant,                      *)
LEMMA TightNext ==
  ASSUME SlidWinSize = 1
  PROVE  IInv /\ LinkInv /\ Flow /\ TightInv /\ [PromptNext]_vars => TightInv'
<1>1. SUFFICES ASSUME IInv, LinkInv, Flow, TightInv, [PromptNext]_vars, Calm'
               PROVE  \A k \in Node : TightAt(k)'
  BY DEF TightInv
<1>2. restarts \in Nat /\ restarts' = 0 /\ ~overrun'
  BY <1>1, IInvGood, BoundAssumption DEF Calm
<1>3. Calm
  <2>1. \/ restarts' = restarts /\ (overrun => overrun')
        \/ restarts' = restarts + 1
    <3>1. CASE UNCHANGED vars
      BY <3>1 DEF vars
    <3>2. CASE PromptNext
      BY <3>2, Zenon DEF PromptNext, RxFrame, HciEvent, Poll, PollAck, UartTxDone, Lose, Restart
    <3> QED
      BY <1>1, <3>1, <3>2
  <2>2. restarts + 1 # 0
    BY <1>2
  <2> QED
    BY <1>2, <2>1, <2>2 DEF Calm
<1>4. (\A k \in Node : FlowAt(k)) /\ (\A k \in Node : TightAt(k))
  BY <1>1, <1>3 DEF Flow, TightInv
<1>5. CASE UNCHANGED vars
  BY <1>4, <1>5 DEF vars, TightAt, Wire
<1>6. ASSUME NEW n \in Node, RxFrame(n) PROVE \A k \in Node : TightAt(k)'
  BY <1>1, <1>3, <1>4, <1>6, TightRx, Zenon
<1>7. ASSUME NEW n \in Node, HciEvent(n) PROVE \A k \in Node : TightAt(k)'
  BY <1>1, <1>4, <1>7, TightQueue, Zenon
<1>8. ASSUME NEW n \in Node, NEW timeout \in BOOLEAN, timeout => Quiet,
             Poll(n, timeout) \/ PollAck(n, timeout)
      PROVE  \A k \in Node : TightAt(k)'
  BY <1>1, <1>4, <1>8, TightPoll, Zenon
<1>9. ASSUME NEW n \in Node, UartTxDone(n) \/ Lose(n) PROVE \A k \in Node : TightAt(k)'
  BY <1>1, <1>2, <1>4, <1>9, TightTx, Zenon
<1>10. ASSUME NEW n \in Node, Restart(n) PROVE FALSE
  BY <1>2, <1>10 DEF Restart
<1> QED
  BY <1>1, <1>5, <1>6, <1>7, <1>8, <1>9, <1>10 DEF PromptNext

(* which the initial states satisfy;                                       *)
LEMMA TightInit == Init => TightInv
<1>1. PICK s : s = InitCb
  OBVIOUS
<1>2. /\ s.txSeq = 0 /\ s.txAck = 0 /\ s.rxAck = 0 /\ s.txSlidWinSize = 0
      /\ s.uartTx = NoFrame /\ s.got = {} /\ s.dup = FALSE
  BY <1>1 DEF InitCb
<1>3. Tight(s, s, <<>>)
  BY <1>2 DEF Tight, Clean
<1>4. Chan(<<>>, s.uartTx) = <<>>
  BY <1>2 DEF Chan
<1> QED
  BY <1>1, <1>3, <1>4 DEF Init, TightInv, TightAt, Wire

(* and a prompt system is one of the systems the proofs above are about.   *)
LEMMA PromptIsSpec == PromptSpec => Spec
<1>1. [PromptNext]_vars => [Next]_vars
  <2>1. PromptNext => Next
    BY Zenon DEF PromptNext, Next
  <2> QED
    BY <2>1
<1> QED
  BY <1>1, PTL DEF PromptSpec, Spec

(* So it always holds.                                                     *)
LEMMA TightAlways ==
  ASSUME SlidWinSize = 1, PktType \subseteq ReliableType
  PROVE  PromptSpec => []TightInv
<1>1. PromptSpec => []IInv /\ []LinkInv /\ []Flow
  <2>1. Spec => []LinkInv
    BY IInvAlways, LinkInit, LinkNext, PTL DEF Spec
  <2> QED
    BY <2>1, PromptIsSpec, IInvAlways, FlowAlways, PTL
<1>2. IInv /\ LinkInv /\ Flow /\ TightInv /\ [PromptNext]_vars => TightInv'
  BY TightNext
<1> QED
  BY <1>1, <1>2, TightInit, PTL DEF PromptSpec

(* Agreement: in a prompt system, where a timer of HCI_H5_Poll runs out    *)
(* only when nothing is under way, and without restarts and overruns, the  *)
(* number HCI_H5_SendData will give the next packet is the one the peer's  *)
(* HCI_H5_DecodeDataPdu expects, whatever was lost and sent again before.  *)
THEOREM PromptSeqAgree ==
  ASSUME SlidWinSize = 1, PktType \subseteq ReliableType
  PROVE  PromptSpec => [](Calm => SeqAgree)
<1>1. TightInv => (Calm => SeqAgree)
  BY DEF TightInv, TightAt, Tight, SeqAgree
<1> QED
  BY <1>1, TightAlways, PTL

(* No duplicate: under the same conditions HCI_H5_PackHciPdu hands no      *)
(* packet over twice.  The promptness is needed: a timer that runs out on  *)
(* a busy transmitter makes HCI_H5_ResendStart empty the window, and the   *)
(* acknowledgement that comes then has the packet sent again as a new one. *)
THEOREM PromptNoDuplicate ==
  ASSUME SlidWinSize = 1, PktType \subseteq ReliableType
  PROVE  PromptSpec => [](Calm => NoDuplicate)
<1>1. TightInv => (Calm => NoDuplicate)
  <2> SUFFICES ASSUME TightInv, Calm, NEW n \in Node PROVE ~cb[n].dup
    BY DEF NoDuplicate
  <2>1. PICK m : m = Peer(n)
    OBVIOUS
  <2>2. m \in Node /\ Peer(m) = n
    BY <2>1
  <2> QED
    BY <2>2 DEF TightInv, TightAt, Tight
<1> QED
  BY <1>1, TightAlways, PTL
=============================================================================
