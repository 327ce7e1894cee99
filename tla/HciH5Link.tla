----------------------------- MODULE HciH5Link -----------------------------
(***************************************************************************)
(* Link establishment of HciH5 with link timers that run free: the 250 ms  *)
(* timers of the two nodes (hciH5Cb.tick in HCI_H5_Poll) are not related,  *)
(* so either may run out while frames of the peer, or of the node itself,  *)
(* are in flight.  SYNC and CONFIG of the two nodes cross, and an answer   *)
(* is thrown away when the UART is busy with the node's own frame.         *)
(*                                                                         *)
(* A frame takes less than 3 ms, and after a few answers the wire is quiet *)
(* again, so one timer does not run out twice in one such exchange.        *)
(***************************************************************************)
EXTENDS HciH5

VARIABLE expired  \* nodes whose link timer does not run out (again) in the
                  \* exchange under way

linkVars == <<cb, rxFifo, pc, lost, restarts, overrun, expired>>

LinkInit == Init /\ expired = {}

(* HCI_H5_Poll with the link timer run out: SYNC or CONFIG once more *)
LinkExpiry(n) ==
  /\ cb[n].linkState # "ACTIVE"
  /\ n \notin expired
  /\ Poll(n, TRUE)

(* The timer runs out with frames of any node under way, or before the     *)
(* peer's timer, which may follow in the same exchange.                    *)
CrossedExpiry(n) == LinkExpiry(n) /\ expired' = expired \cup {n}

(* The timer runs out on a quiet wire and the peer's does not follow *)
AloneExpiry(n) == Quiet /\ LinkExpiry(n) /\ expired' = Node

(* The 50 ms resend timers of an active node, and its 10 ms pure-ack timer *)
ResendExpiry(n) == Quiet /\ cb[n].linkState = "ACTIVE" /\ Poll(n, TRUE)
AckExpiry(n) == Quiet /\ PollAck(n, TRUE)

(* The exchange is over when the wire is quiet *)
EndExchange == expired' = IF Quiet' THEN {} ELSE expired

(* The main loop takes its next step, no timer having run out *)
MainLoop(n) == RxFrame(n) \/ Poll(n, FALSE) \/ PollAck(n, FALSE)

LinkNext == \E n \in Node :
  \/ CrossedExpiry(n) \/ AloneExpiry(n)
  \/ /\ \/ MainLoop(n) \/ ResendExpiry(n) \/ AckExpiry(n)
        \/ HciEvent(n) \/ UartTxDone(n) \/ Lose(n) \/ Restart(n)
     /\ EndExchange

(* As Fairness of HciH5 (a node is at exactly one of the three steps of    *)
(* MainLoop), and the link timers do not cross for ever: again and         *)
(* again a timer runs out alone.  The two nodes have a clock and a main    *)
(* loop of their own, and an exchange fills a few of the 250 ms.           *)
LinkFairness == \A n \in Node :
  /\ WF_linkVars(UartTxDone(n) /\ EndExchange)
  /\ WF_linkVars(MainLoop(n) /\ EndExchange)
  /\ SF_linkVars(ResendExpiry(n) /\ EndExchange)
  /\ SF_linkVars(AckExpiry(n) /\ EndExchange)
  /\ SF_linkVars(AloneExpiry(n))

LinkSpec == LinkInit /\ [][LinkNext]_linkVars /\ LinkFairness
=============================================================================
