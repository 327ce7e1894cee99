------------------------------- MODULE HciH5 -------------------------------
(***************************************************************************)
(* The three-wire UART transport (HCI H5) of vendor/common/hci_transport:  *)
(* link establishment, the sliding-window data protocol with its resend    *)
(* and pure-acknowledgement timers, and the UART underneath.  Two nodes    *)
(* run the same code, one at each end of the wire.                         *)
(*                                                                         *)
(* The control block hciH5Cb of a node is a record; every C function that  *)
(* changes it is an operator from the old record to the new one, and the   *)
(* actions are the contexts that call them: the main loop                  *)
(* (HCI_TransportPoll) and the UART interrupts.                            *)
(*                                                                         *)
(* Abstractions.                                                           *)
(*  - A tick field is the BOOLEAN "the timer is armed"; whether an armed   *)
(*    timer has run out when the code looks at it is chosen by the action. *)
(*  - The HCI FIFOs are sequences.  This drops the 8-bit cursors, whose    *)
(*    wrap-around matters in HCI_H5_SendData only for windows above 1.     *)
(*  - Both ends advertise the same sliding window, so the negotiated       *)
(*    minimum is SlidWinSize.  Data integrity check is off, as shipped.    *)
(*  - One UART receive buffer holds one frame, undamaged or lost.          *)
(***************************************************************************)
EXTENDS Integers, Sequences, FiniteSets

CONSTANTS
  SlidWinSize,  \* hciH5Config.slidWinSize (shipped: 1)
  RxBufNum,     \* HCI_H5_TR_RX_BUF_NUM, UART receive buffers
  TxFifoNum,    \* capacity of the HCI tx FIFO
  PktType,      \* packet types the upper layer puts into the tx FIFO
  MaxPkt,       \* MaxPkt[n]: bound on packets node n's upper layer makes
  LossType,     \* what the wire may lose (LossKinds)
  MaxLoss,      \* bound on frames lost on the wire
  MaxRestart    \* bound on restarts

Node == {0, 1}
Peer(n) == 1 - n

ReliableType == {"CMD", "ACL", "EVT"}
DataType     == ReliableType \cup {"SCO"}

ASSUME SlidWinAssumption == SlidWinSize \in 1..7
ASSUME RxBufAssumption   == RxBufNum \in Nat \ {0}
ASSUME TxFifoAssumption  == TxFifoNum \in Nat \ {0}
ASSUME PktTypeAssumption == PktType \subseteq DataType
ASSUME LossTypeAssumption == LossType \subseteq DataType \cup {"ACK", "LINK_CTRL"}
ASSUME BoundAssumption   ==
  /\ MaxPkt \in [Node -> Nat]
  /\ MaxLoss \in Nat
  /\ MaxRestart \in Nat

VARIABLES
  cb,       \* cb[n]: control block, HCI FIFOs and UART transmitter of node n
  rxFifo,   \* rxFifo[n]: frames in node n's UART receive buffers
  pc,       \* pc[n]: where node n's main loop is
  lost,     \* number of frames lost so far
  restarts, \* number of restarts so far
  overrun   \* history: some frame arrived when every receive buffer was used

vars == <<cb, rxFifo, pc, lost, restarts, overrun>>

-----------------------------------------------------------------------------
(* Frames and control blocks *)

LinkMsg   == {"SYNC", "SYNC_RSP", "CONFIG", "CONFIG_RSP"}
LinkState == {"IDLE", "INIT", "ACTIVE"}
SeqNum    == 0..7
Pkt       == [type : DataType, id : Nat]

Frame == [type : DataType \cup {"ACK", "LINK_CTRL", "none"},
          seq  : SeqNum,
          ack  : SeqNum,
          msg  : LinkMsg \cup {"none"},
          id   : Nat]

NoFrame == [type |-> "none", seq |-> 0, ack |-> 0, msg |-> "none", id |-> 0]

(* made, last, got, dup, rel and drop are history: packets made; the last  *)
(* packet and the set of packets this node handed to its HCI, and whether  *)
(* one was handed over twice; packets this node took out of its tx FIFO on *)
(* an acknowledgement, and packets it threw away in a reset.               *)
ControlBlock ==
  [linkState : LinkState,
   txSeq : SeqNum, txAck : SeqNum, rxAck : SeqNum,
   txSlidWinSize : 0..7, rxSlidWinSize : Nat,
   txTick : BOOLEAN, rxTick : BOOLEAN, resendTick : BOOLEAN,
   txFifo : Seq(Pkt), hciRx : Seq(Nat), uartTx : Frame,
   made : Nat, last : Nat, got : SUBSET Nat, dup : BOOLEAN,
   rel : SUBSET Nat, drop : SUBSET Nat]

(* HCI_H5_Init on zeroed memory, with an idle transmitter. *)
InitCb ==
  [linkState |-> "IDLE",
   txSeq |-> 0, txAck |-> 0, rxAck |-> 0,
   txSlidWinSize |-> 0, rxSlidWinSize |-> 0,
   txTick |-> FALSE, rxTick |-> FALSE, resendTick |-> FALSE,
   txFifo |-> <<>>, hciRx |-> <<>>, uartTx |-> NoFrame,
   made |-> 0, last |-> 0, got |-> {}, dup |-> FALSE, rel |-> {},
   drop |-> {}]

Queued(s) == {s.txFifo[i].id : i \in 1..Len(s.txFifo)}

(* HCI_H5_Reset *)
Reset(s) ==
  [s EXCEPT !.txSeq = 0, !.txAck = 0, !.rxAck = 0,
            !.txSlidWinSize = 0, !.rxSlidWinSize = 0,
            !.txTick = FALSE, !.rxTick = FALSE, !.resendTick = FALSE,
            !.drop = @ \cup Queued(s),
            !.txFifo = <<>>, !.hciRx = <<>>]

-----------------------------------------------------------------------------
(* Sending *)

isUartTxDone(s) == s.uartTx = NoFrame

(* HCI_H5_Send with HCI_Slip_Send: the sequence number of a reliable       *)
(* packet is used up even when the transmitter is busy and nothing is sent *)
Send(s, type, msg, id) ==
  LET reliable == type \in ReliableType
      frame == [type |-> type, seq |-> IF reliable THEN s.txSeq ELSE 0,
                ack |-> s.txAck, msg |-> msg, id |-> id]
  IN [s EXCEPT !.txSeq  = IF reliable THEN (@ + 1) % 8 ELSE @,
               !.uartTx = IF isUartTxDone(s) THEN frame ELSE @]

SendLink(s, msg) == Send(s, "LINK_CTRL", msg, 0)
SendPureAck(s)   == Send(s, "ACK", "none", 0)

(* Variant with a fault: txSeq is not taken back when the UART is busy *)
SendDataNoRollback(s) ==
  IF \/ s.txSlidWinSize >= SlidWinSize
     \/ Len(s.txFifo) = s.txSlidWinSize
  THEN s
  ELSE LET p == s.txFifo[s.txSlidWinSize + 1]
           t == Send(s, p.type, "none", p.id)
       IN IF isUartTxDone(s)
          THEN [t EXCEPT !.txSlidWinSize = @ + 1, !.rxSlidWinSize = 0,
                         !.txTick = TRUE, !.rxTick = FALSE]
          ELSE [t EXCEPT !.txTick = FALSE]

(* HCI_H5_SendData: the next packet of the tx FIFO inside the window *)
SendData(s) ==
  IF \/ s.txSlidWinSize >= SlidWinSize
     \/ Len(s.txFifo) = s.txSlidWinSize
  THEN s
  ELSE LET p == s.txFifo[s.txSlidWinSize + 1]
           t == Send(s, p.type, "none", p.id)
       IN IF isUartTxDone(s)
          THEN [t EXCEPT !.txSlidWinSize = @ + 1, !.rxSlidWinSize = 0,
                         !.txTick = TRUE, !.rxTick = FALSE]
          ELSE [t EXCEPT !.txSeq = (@ + 7) % 8, !.txTick = FALSE]

(* HCI_H5_ResendStart: go back to the last acknowledged packet *)
ResendStart(s) == SendData([s EXCEPT !.txSeq = s.rxAck, !.txSlidWinSize = 0])

-----------------------------------------------------------------------------
(* Receiving *)

(* Variants with a fault: CONFIG is answered before SYNC is done; an       *)
(* active node takes no notice of SYNC.                                    *)
DecodeLinkPduEagerConfig(s, msg) ==
  CASE msg = "SYNC" /\ s.linkState # "ACTIVE" -> SendLink(s, "SYNC_RSP")
    [] msg = "SYNC" -> SendLink(Reset([s EXCEPT !.linkState = "IDLE"]), "SYNC_RSP")
    [] msg = "CONFIG" -> SendLink(s, "CONFIG_RSP")
    [] s.linkState = "IDLE" /\ msg = "SYNC_RSP" ->
         SendLink([s EXCEPT !.linkState = "INIT"], "CONFIG")
    [] s.linkState = "INIT" /\ msg = "CONFIG_RSP" ->
         Reset([s EXCEPT !.linkState = "ACTIVE"])
    [] OTHER -> s
DecodeLinkPduNoReset(s, msg) ==
  CASE msg = "SYNC" /\ s.linkState # "ACTIVE" -> SendLink(s, "SYNC_RSP")
    [] s.linkState = "IDLE" /\ msg = "SYNC_RSP" ->
         SendLink([s EXCEPT !.linkState = "INIT"], "CONFIG")
    [] s.linkState = "IDLE" /\ msg = "CONFIG" -> SendLink(s, "SYNC")
    [] s.linkState # "IDLE" /\ msg = "CONFIG" -> SendLink(s, "CONFIG_RSP")
    [] s.linkState = "INIT" /\ msg = "CONFIG_RSP" ->
         Reset([s EXCEPT !.linkState = "ACTIVE"])
    [] OTHER -> s

(* HCI_H5_DecodeLinkPdu *)
DecodeLinkPdu(s, msg) ==
  CASE s.linkState = "IDLE" /\ msg = "SYNC" -> SendLink(s, "SYNC_RSP")
    [] s.linkState = "IDLE" /\ msg = "SYNC_RSP" ->
         SendLink([s EXCEPT !.linkState = "INIT"], "CONFIG")
    [] s.linkState = "IDLE" /\ msg \in {"CONFIG", "CONFIG_RSP"} ->
         SendLink(s, "SYNC")
    [] s.linkState = "INIT" /\ msg = "SYNC" -> SendLink(s, "SYNC_RSP")
    [] s.linkState = "INIT" /\ msg = "CONFIG_RSP" ->
         Reset([s EXCEPT !.linkState = "ACTIVE"])
    [] s.linkState # "IDLE" /\ msg = "CONFIG" -> SendLink(s, "CONFIG_RSP")
    [] s.linkState = "ACTIVE" /\ msg = "SYNC" ->
         SendLink(Reset([s EXCEPT !.linkState = "IDLE"]), "SYNC_RSP")
    [] OTHER -> s

(* Variants with a fault: rptr moves one packet too far; the window keeps  *)
(* its size.                                                               *)
ReleaseTooMany(s) ==
  [s EXCEPT !.rel = @ \cup {s.txFifo[i].id : i \in 1..s.txSlidWinSize},
            !.txFifo = SubSeq(@, s.txSlidWinSize + 2, Len(@)),
            !.txSlidWinSize = 0,
            !.txTick = FALSE, !.resendTick = FALSE]
ReleaseNoReset(s) ==
  [s EXCEPT !.rel = @ \cup {s.txFifo[i].id : i \in 1..s.txSlidWinSize},
            !.txFifo = SubSeq(@, s.txSlidWinSize + 1, Len(@)),
            !.txTick = FALSE, !.resendTick = FALSE]

(* The window is acknowledged: drop it from the tx FIFO (rptr += window) *)
Release(s) ==
  [s EXCEPT !.rel = @ \cup {s.txFifo[i].id : i \in 1..s.txSlidWinSize},
            !.txFifo = SubSeq(@, s.txSlidWinSize + 1, Len(@)),
            !.txSlidWinSize = 0,
            !.txTick = FALSE, !.resendTick = FALSE]

(* A pure ACK in HCI_H5_PakcetHandler, then HCI_H5_ReSendCheck *)
RxPureAck(s, ack) ==
  LET t == [s EXCEPT !.rxAck = ack]
  IN IF ack = s.txSeq
     THEN Release(t)
     ELSE [t EXCEPT !.txTick = FALSE, !.resendTick = TRUE]

(* HCI_H5_PackHciPdu: hand a packet to the HCI rx FIFO *)
PackHciPdu(s, id) ==
  [s EXCEPT !.hciRx = Append(@, id),
            !.last = id, !.got = @ \cup {id}, !.dup = @ \/ id \in s.got]

(* The sequence number of a reliable packet is the expected one *)
AcceptData(s, id) ==
  LET t == [s EXCEPT !.txAck = (@ + 1) % 8, !.rxSlidWinSize = @ + 1,
                     !.rxTick = TRUE]
      u == IF SlidWinSize > 1 /\ t.rxSlidWinSize >= SlidWinSize
           THEN [SendPureAck(t) EXCEPT !.rxSlidWinSize = 0]
           ELSE t
  IN PackHciPdu(u, id)

(* Variants with a fault: the sequence number is not looked at; any        *)
(* acknowledgement number releases the window.                             *)
DecodeDataPduNoSeq(s, f) ==
  LET t == AcceptData(s, f.id)
  IN IF f.ack = t.txSeq
     THEN Release([t EXCEPT !.rxAck = f.ack])
     ELSE [t EXCEPT !.resendTick = TRUE]
DecodeDataPduNoAck(s, f) ==
  LET t == IF f.seq = s.txAck THEN AcceptData(s, f.id) ELSE s
  IN Release([t EXCEPT !.rxAck = f.ack])

(* HCI_H5_DecodeDataPdu *)
DecodeDataPdu(s, f) ==
  IF f.type \in ReliableType
  THEN LET t == IF f.seq = s.txAck THEN AcceptData(s, f.id) ELSE s
       IN IF f.ack = t.txSeq
          THEN Release([t EXCEPT !.rxAck = f.ack])
          ELSE [t EXCEPT !.resendTick = TRUE]
  ELSE PackHciPdu([s EXCEPT !.txAck = (@ + 1) % 8], f.id)

(* HCI_H5_PakcetHandler on a frame whose header is intact *)
PacketHandler(s, f) ==
  CASE f.type = "LINK_CTRL" -> DecodeLinkPdu(s, f.msg)
    [] f.type = "ACK" /\ s.linkState = "ACTIVE" -> RxPureAck(s, f.ack)
    [] f.type \in DataType /\ s.linkState = "ACTIVE" -> DecodeDataPdu(s, f)
    [] OTHER -> s

-----------------------------------------------------------------------------
(* Variant with a fault: no resend when the peer does not answer *)
PollLinkNoResend(s, timeout) ==
  CASE s.linkState = "IDLE" /\ timeout -> SendLink(s, "SYNC")
    [] s.linkState = "INIT" /\ timeout -> SendLink(s, "CONFIG")
    [] s.linkState = "ACTIVE" /\ s.resendTick /\ timeout ->
         ResendStart([s EXCEPT !.resendTick = FALSE])
    [] s.linkState = "ACTIVE" /\ ~s.resendTick -> SendData(s)
    [] OTHER -> s

(* HCI_H5_Poll up to the pure-ack handler; timeout says whether the armed  *)
(* timer it looks at has run out.                                          *)
PollLink(s, timeout) ==
  CASE s.linkState = "IDLE" /\ timeout -> SendLink(s, "SYNC")
    [] s.linkState = "INIT" /\ timeout -> SendLink(s, "CONFIG")
    [] s.linkState = "ACTIVE" /\ s.resendTick /\ timeout ->
         ResendStart([s EXCEPT !.resendTick = FALSE])
    [] s.linkState = "ACTIVE" /\ ~s.resendTick
         /\ s.txSlidWinSize >= SlidWinSize /\ s.txTick /\ timeout ->
         ResendStart([s EXCEPT !.txTick = FALSE])
    [] s.linkState = "ACTIVE" /\ ~s.resendTick
         /\ s.txSlidWinSize < SlidWinSize -> SendData(s)
    [] OTHER -> s

(* The pure-ack handler at the end of HCI_H5_Poll.  The timer is disarmed  *)
(* whether or not the transmitter takes the acknowledgement.               *)
PollPureAck(s) ==
  SendPureAck([s EXCEPT !.rxTick = FALSE, !.rxSlidWinSize = 0])

(* HCI_RxHandler: the stack consumes one packet of the HCI rx FIFO *)
HciHandler(s) ==
  IF s.hciRx = <<>> THEN s ELSE [s EXCEPT !.hciRx = Tail(@)]

-----------------------------------------------------------------------------
Init ==
  /\ cb = [n \in Node |-> InitCb]
  /\ rxFifo = [n \in Node |-> <<>>]
  /\ pc = [n \in Node |-> "main"]
  /\ lost = 0
  /\ restarts = 0
  /\ overrun = FALSE

(* One turn of the loop of HCI_Tr_H5RxHandler: the oldest frame is handled *)
RxFrame(n) ==
  /\ pc[n] = "main"
  /\ rxFifo[n] # <<>>
  /\ cb' = [cb EXCEPT ![n] = PacketHandler(@, Head(rxFifo[n]))]
  /\ rxFifo' = [rxFifo EXCEPT ![n] = Tail(@)]
  /\ UNCHANGED <<pc, lost, restarts, overrun>>

PureAckDue(s) == s.linkState = "ACTIVE" /\ SlidWinSize = 1 /\ s.rxTick

(* HCI_TransportPoll after the receive loop has drained the buffers: the   *)
(* transmit part of HCI_H5_Poll, and HCI_Handler unless the pure-ack       *)
(* handler, where an interrupt may have come in between, is still to run.  *)
Poll(n, timeout) ==
  /\ pc[n] = "main"
  /\ rxFifo[n] = <<>>
  /\ LET s == PollLink(cb[n], timeout)
     IN IF PureAckDue(s)
        THEN /\ cb' = [cb EXCEPT ![n] = s]
             /\ pc' = [pc EXCEPT ![n] = "ack"]
        ELSE /\ cb' = [cb EXCEPT ![n] = HciHandler(s)]
             /\ pc' = pc
  /\ UNCHANGED <<rxFifo, lost, restarts, overrun>>

PollAck(n, timeout) ==
  /\ pc[n] = "ack"
  /\ cb' = [cb EXCEPT ![n] = HciHandler(IF timeout THEN PollPureAck(@) ELSE @)]
  /\ pc' = [pc EXCEPT ![n] = "main"]
  /\ UNCHANGED <<rxFifo, lost, restarts, overrun>>

(* The stack queues a packet for the peer *)
HciEvent(n) ==
  /\ cb[n].made < MaxPkt[n]
  /\ Len(cb[n].txFifo) < TxFifoNum
  /\ \E t \in PktType :
       cb' = [cb EXCEPT ![n].txFifo = Append(@, [type |-> t, id |-> cb[n].made + 1]),
                        ![n].made = @ + 1]
  /\ UNCHANGED <<rxFifo, pc, lost, restarts, overrun>>

(* Variant with a fault: one buffer too many *)
ReceiveOneMore(q, f) == IF Len(q) <= RxBufNum THEN Append(q, f) ELSE <<f>> \o Tail(q)

(* HCI_Tr_H5IRQHandler, receive part.  The DMA always writes the buffer at *)
(* wptr; with every buffer in use that is the oldest unread one.           *)
Receive(q, f) == IF Len(q) < RxBufNum THEN Append(q, f) ELSE <<f>> \o Tail(q)

(* HCI_Tr_H5IRQHandler: the frame has left this node and is in the peer's  *)
(* receive buffers.                                                        *)
UartTxDone(n) ==
  /\ ~isUartTxDone(cb[n])
  /\ rxFifo' = [rxFifo EXCEPT ![Peer(n)] = Receive(@, cb[n].uartTx)]
  /\ overrun' = (overrun \/ Len(rxFifo[Peer(n)]) = RxBufNum)
  /\ cb' = [cb EXCEPT ![n].uartTx = NoFrame]
  /\ UNCHANGED <<pc, lost, restarts>>

(* What is lost with the frame node n is sending: a frame of its type and, *)
(* when the peer does not know its acknowledgement number yet, an "ACK".   *)
LossKinds(n) ==
  LET f == cb[n].uartTx
  IN {f.type} \cup (IF f.type = "LINK_CTRL" \/ f.ack = cb[Peer(n)].rxAck
                    THEN {} ELSE {"ACK"})

(* The frame is lost or arrives damaged and is discarded *)
Lose(n) ==
  /\ ~isUartTxDone(cb[n])
  /\ LossKinds(n) \subseteq LossType
  /\ lost < MaxLoss
  /\ lost' = lost + 1
  /\ cb' = [cb EXCEPT ![n].uartTx = NoFrame]
  /\ UNCHANGED <<rxFifo, pc, restarts, overrun>>

(* The node resets: HCI_TransportInit on fresh memory.  History survives. *)
Restart(n) ==
  /\ restarts < MaxRestart
  /\ restarts' = restarts + 1
  /\ cb' = [cb EXCEPT ![n] = [InitCb EXCEPT !.made = cb[n].made,
               !.last = cb[n].last, !.got = cb[n].got, !.dup = cb[n].dup,
               !.rel = cb[n].rel, !.drop = cb[n].drop \cup Queued(cb[n])]]
  /\ rxFifo' = [rxFifo EXCEPT ![n] = <<>>]
  /\ pc' = [pc EXCEPT ![n] = "main"]
  /\ UNCHANGED <<lost, overrun>>

Next == \E n \in Node :
  \/ RxFrame(n) \/ HciEvent(n)
  \/ \E timeout \in BOOLEAN : Poll(n, timeout) \/ PollAck(n, timeout)
  \/ UartTxDone(n) \/ Lose(n) \/ Restart(n)

Spec == Init /\ [][Next]_vars

(* Liveness is checked for a prompt system: at the shipped 1 Mbit/s a      *)
(* frame of 250 bytes takes less than 3 ms and is handled in the next turn *)
(* of the main loop, while the timers are 10, 50 and 250 ms long, so a     *)
(* timer runs out only when nothing is under way.                          *)
(* The main loop runs for ever, every frame gets through the transmitter,  *)
(* and an armed timer runs out.                                            *)
Quiet == \A n \in Node : isUartTxDone(cb[n]) /\ rxFifo[n] = <<>>

PromptNext == \E n \in Node :
  \/ RxFrame(n) \/ HciEvent(n) \/ UartTxDone(n) \/ Lose(n) \/ Restart(n)
  \/ \E timeout \in BOOLEAN :
       (timeout => Quiet) /\ (Poll(n, timeout) \/ PollAck(n, timeout))

Fairness == \A n \in Node :
  /\ WF_vars(UartTxDone(n))
  /\ WF_vars(RxFrame(n))
  /\ WF_vars(Poll(n, FALSE))
  /\ WF_vars(PollAck(n, FALSE))
  /\ SF_vars(Quiet /\ Poll(n, TRUE))
  /\ SF_vars(Quiet /\ PollAck(n, TRUE))

PromptSpec == Init /\ [][PromptNext]_vars /\ Fairness

-----------------------------------------------------------------------------
(* Type invariant: the shape of the control blocks, receive buffers and   *)
(* counters; in particular the receive buffers never exceed their number.  *)
TypeOK ==
  /\ cb \in [Node -> ControlBlock]
  /\ rxFifo \in [Node -> Seq(Frame)]
  /\ \A n \in Node : Len(rxFifo[n]) <= RxBufNum
  /\ pc \in [Node -> {"main", "ack"}]
  /\ lost \in 0..MaxLoss
  /\ restarts \in 0..MaxRestart
  /\ overrun \in BOOLEAN

(* No loss: a packet is dropped from the tx FIFO of a node on an           *)
(* acknowledgement (rptr += txSlidWinSize) only when the peer has handed   *)
(* it to its HCI, as long as no node restarts.                             *)
NoLoss == restarts = 0 => \A n \in Node : cb[n].rel \subseteq cb[Peer(n)].got

(* The HCI rx FIFO, which HCI_H5_PackHciPdu fills without asking whether   *)
(* it is full, never holds more packets than the sliding window.           *)
HciRxBounded == \A n \in Node : Len(cb[n].hciRx) <= SlidWinSize

(* The packets in the window are in the tx FIFO, so that releasing them    *)
(* moves rptr over packets that exist (txSlidWinSize against wptr - rptr). *)
WindowInFifo == \A n \in Node :
  cb[n].txSlidWinSize <= SlidWinSize /\ cb[n].txSlidWinSize <= Len(cb[n].txFifo)

(* Order: the packets a node hands to its HCI never go back, whatever is   *)
(* lost, resent or restarted.                                              *)
NeverBackwards == [][\A n \in Node : cb'[n].last >= cb[n].last]_vars

(* No gap: when a packet is handed to the HCI, every earlier packet of the *)
(* same sender was handed over too, or was thrown away by a reset of the   *)
(* sender; an acknowledgement never skips one.                             *)
NoGap == \A n \in Node : \A k \in 1..cb[n].last :
           k \in cb[n].got \cup cb[Peer(n)].drop

(* A link that is up stays up: neither a late SYNC nor a repeated          *)
(* CONFIG_RSP resets an active node, as long as no node restarts and the   *)
(* receive buffers do not overrun.                                         *)
LinkStaysUp == [][\A n \in Node :
                    (cb[n].linkState = "ACTIVE" /\ restarts' = 0 /\ ~overrun)
                       => cb'[n].linkState = "ACTIVE"]_vars

(* The link comes up: after the last restart and the last lost frame both  *)
(* nodes become active and stay so.                                        *)
LinkUp == <>[](\A n \in Node : cb[n].linkState = "ACTIVE")

(* Every packet the stack queues on a link that is up is, sooner or later, *)
(* acknowledged and released, or thrown away by a reset of the node        *)
(* (HCI_H5_Poll: "local must re-send until peer response").                *)
EveryPacketAnswered == \A n \in Node : \A k \in 1..MaxPkt[n] :
  k \in Queued(cb[n]) ~> k \in cb[n].rel \cup cb[n].drop

(* txSeq is the "peer expect packet SN" and txAck the "local expect packet *)
(* SN" (HciH5Cb_t): with nothing under way and nothing unacknowledged, the *)
(* number a node will give its next packet is the one its peer expects.    *)
SeqAgree ==
  Quiet /\ (\A n \in Node : cb[n].linkState = "ACTIVE") =>
    \A n \in Node : cb[n].txSlidWinSize = 0 => cb[n].txSeq = cb[Peer(n)].txAck

(* Every packet is handed to the peer's HCI at most once: what is resent   *)
(* is recognised by its sequence number, also after a restart.             *)
NoDuplicate == \A n \in Node : ~cb[n].dup
=============================================================================
