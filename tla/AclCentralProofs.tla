-------------------------- MODULE AclCentralProofs --------------------------
(***************************************************************************)
(* Theorems about AclCentral for every number of connections, handles,     *)
(* peers and flash records, and any number of power failures.              *)
(*                                                                         *)
(* TypeOK is not inductive alone: Finish stores cur_sdp_device and the     *)
(* response buffer, so while a discovery is pending or under way the       *)
(* former has to name a peer, and a response that is there comes from one. *)
(* No response to a discovery is copied into a dead buffer because a       *)
(* connection whose discovery is pending but not running owes none.        *)
(*                                                                         *)
(* The second half carries the invariant Full over the first one: MInv,    *)
(* that conn_dev_list mirrors the controller's connections (stated on      *)
(* values, so that insert, delete and add are lemmas about operators), and *)
(* FInv with DInv, that what a discovery gathers is of the peer it will be *)
(* filed under, or that the discovery can only run into its timeout, or    *)
(* that the peer sends Error Responses to the requests of others.          *)
(***************************************************************************)
EXTENDS AclCentral, WellFoundedInduction, FiniteSetTheorems, TLAPS

(* What stands for a peer or a handle is one when it is used. *)
Peers ==
  /\ sdp.waiting => sdp.handle # NoHandle
  /\ app.sdp # NoHandle \/ sdp.waiting => curSdp.peer \in Peer
  /\ sdp.waiting /\ sdp.busy = NoHandle => sdp.rsp \in Peer
  /\ creating # NotCreating => creating.peer \in Peer

(* A discovery that is pending but not running has no request out. *)
NoLateRsp == ~sdp.waiting /\ app.sdp # NoHandle => links[app.sdp].owed = 0

IInv == TypeOK /\ Peers /\ PendingIsLink /\ NoLateRsp
-----------------------------------------------------------------------------
(* The first of some slots or records is one of them. *)
LEMMA FirstIn == ASSUME NEW S, S \subseteq Nat, S # {} PROVE First(S) \in S
<1>1. PICK x \in S : \A y \in S : ~(<<y, x>> \in OpToRel(<, Nat))
  BY NatLessThanWellFounded, WFMin
<1>2. \A y \in S : ~(y < x)
  BY <1>1 DEF OpToRel
<1>3. \A y \in S : x <= y
  BY <1>2
<1> QED
  BY <1>3 DEF First

(* A blank slot is a device. *)
LEMMA NoDevType == NoDev \in DevInfo
  BY DEF NoDev, DevInfo, Role

(* Counting keeps a list a list and leaves its devices alone. *)
LEMMA CountType ==
  ASSUME NEW l \in DevList, NEW r, NEW n \in Int
  PROVE  Count(l, r, n) \in DevList /\ Count(l, r, n).dev = l.dev
<1>1. l.central + n \in Int /\ l.periphr + n \in Int
  BY DEF DevList
<1> QED
  BY <1>1 DEF Count, DevList

(* Every slot holds a device. *)
LEMMA DevType ==
  ASSUME NEW l \in DevList, NEW i \in AllSlots PROVE l.dev[i] \in DevInfo
  BY DEF DevList

(* The slots of a role are slots, and slots are numbers. *)
LEMMA SlotsType == AllSlots \subseteq Nat /\ \A r : Slots(r) \subseteq AllSlots
  BY MaxNumAssumption DEF AllSlots, Slots

(* Replacing one device keeps the list a list. *)
LEMMA PutType ==
  ASSUME NEW l \in DevList, NEW i, NEW d \in DevInfo
  PROVE  [l EXCEPT !.dev[i] = d] \in DevList
  BY DEF DevList

(* dev_char_info_insert_by_conn_event *)
LEMMA InsertType ==
  ASSUME NEW l \in DevList, NEW h \in Handle, NEW r \in Role, NEW p \in Peer
  PROVE  Insert(l, h, r, p) \in DevList
<1> DEFINE d == [NoDev EXCEPT !.conn_state = TRUE, !.conn_handle = h, !.role = r, !.peer = p]
<1>1. d \in DevInfo
  BY NoDevType DEF DevInfo
<1>2. Count(l, r, 1) \in DevList
  BY CountType
<1> HIDE DEF d
<1>3. \A i : [Count(l, r, 1) EXCEPT !.dev[i] = d] \in DevList
  BY <1>1, <1>2, PutType
<1> QED
  BY <1>3 DEF Insert, d

(* dev_char_info_delete_by_connhandle *)
LEMMA DeleteType ==
  ASSUME NEW l \in DevList, NEW h PROVE Delete(l, h) \in DevList
<1>1. \A r : Count(l, r, -1) \in DevList
  BY CountType
<1>2. \A r, i : [Count(l, r, -1) EXCEPT !.dev[i] = NoDev] \in DevList
  BY <1>1, NoDevType, PutType
<1> QED
  BY <1>2 DEF Delete

(* dev_char_info_add_peer_att_handle *)
LEMMA AddPeerType ==
  ASSUME NEW l \in DevList, NEW h, NEW c \in SUBSET Peer
  PROVE  AddPeerAttHandle(l, h, c) \in DevList
<1>1. ASSUME NEW i PROVE [l EXCEPT !.dev[i].chars = c, !.dev[i].valid = TRUE] \in DevList
  <2>1. CASE i \in AllSlots
    <3>1. l.dev[i] \in DevInfo
      BY <2>1, DevType
    <3>2. [[l.dev[i] EXCEPT !.chars = c] EXCEPT !.valid = TRUE] \in DevInfo
      BY <3>1 DEF DevInfo
    <3> QED
      BY <2>1, <3>1, <3>2 DEF DevList
  <2>2. CASE i \notin AllSlots
    BY <2>2 DEF DevList
  <2> QED
    BY <2>1, <2>2
<1> QED
  BY <1>1 DEF AddPeerAttHandle
-----------------------------------------------------------------------------
(* The storage *)

(* Records are named by their places. *)
LEMMA LiveType == ASSUME NEW p PROVE Live(flash, p) \subseteq Nat \cap 1..Len(flash)
  BY DEF Live

(* What is loaded for a peer are attribute handles. *)
LEMMA LoadedType ==
  ASSUME TypeOK, NEW p, Found(p) PROVE Loaded(p) \in SUBSET Peer
<1>1. First(Live(flash, p)) \in 1..Len(flash)
  BY FirstIn, LiveType DEF Found
<1>2. \A k \in 1..Len(flash) : flash[k] \in AttRecord
  BY DEF TypeOK
<1>3. \A r \in AttRecord : r.chars \in SUBSET Peer
  BY DEF AttRecord
<1> QED
  BY <1>1, <1>2, <1>3 DEF Loaded

(* dev_char_info_store_peer_att_handle keeps the storage within its size. *)
LEMMA StoreType ==
  ASSUME TypeOK, NEW p \in Peer, NEW c \in SUBSET Peer, StoreAttHandle(p, c)
  PROVE  /\ flash' \in Seq(AttRecord) /\ Len(flash') <= FlashNum
         /\ dirty' \in Peer \cup {NoPeer, Garbage}
<1> DEFINE r == [live |-> TRUE, peer |-> StoredPeer(p), chars |-> c]
<1>1. r \in AttRecord
  BY DEF AttRecord, StoredPeer
<1> HIDE DEF r
<1>2. CASE Len(flash) < FlashNum
  <2>1. flash' = Append(flash, r) /\ dirty' = NoPeer
    BY <1>2 DEF StoreAttHandle, r
  <2> QED
    BY <1>1, <1>2, <2>1, FlashNumAssumption DEF TypeOK
<1>3. CASE ~(Len(flash) < FlashNum)
  BY <1>3 DEF StoreAttHandle, flashVars, TypeOK
<1> QED
  BY <1>2, <1>3

(* Striking a record out keeps the storage one. *)
LEMMA DeleteAttType ==
  ASSUME TypeOK, NEW p, DeleteAttHandle(p)
  PROVE  flash' \in Seq(AttRecord) /\ Len(flash') <= FlashNum
<1>1. CASE ~Found(p)
  BY <1>1 DEF DeleteAttHandle, TypeOK
<1>2. CASE Found(p)
  <2> DEFINE k == First(Live(flash, p))
  <2>1. k \in 1..Len(flash)
    BY <1>2, FirstIn, LiveType DEF Found
  <2>2. flash' = [flash EXCEPT ![k].live = FALSE]
    BY <1>2 DEF DeleteAttHandle
  <2> HIDE DEF k
  <2>3. flash[k] \in AttRecord
    BY <2>1 DEF TypeOK
  <2>4. [flash[k] EXCEPT !.live = FALSE] \in AttRecord
    BY <2>3 DEF AttRecord
  <2>5. flash' = [flash EXCEPT ![k] = [flash[k] EXCEPT !.live = FALSE]]
    BY <2>2
  <2> QED
    BY <2>1, <2>4, <2>5 DEF TypeOK
<1> QED
  BY <1>1, <1>2

-----------------------------------------------------------------------------
(* The controller's links *)

(* A connection that is in use is one. *)
LEMMA LinkType ==
  ASSUME TypeOK, NEW h \in Used
  PROVE  h \in Handle /\ links[h] \in Link
  BY DEF Used, TypeOK

(* A handle that is not in use is neither up nor owed a response. *)
LEMMA NoLinkFields == NoLink.up = FALSE /\ NoLink.owed = 0 /\ NoLink.role = "central"
  BY DEF NoLink

(* A link with one field changed is still a link, and keeps its role. *)
LEMMA TouchLink ==
  ASSUME TypeOK, NEW h \in Used, NEW d \in Link, d.role = links[h].role,
         links' = [links EXCEPT ![h] = d]
  PROVE  /\ links' \in [Handle -> Link \cup {NoLink}]
         /\ Used' = Used /\ UsedAs("central")' = UsedAs("central")
<1>1. links' \in [Handle -> Link \cup {NoLink}]
  BY DEF TypeOK
<1>2. h \in Handle /\ links[h] # NoLink /\ d # NoLink
  <2>1. NoLink \notin Link
    BY PeerAssumption DEF NoLink, Link
  <2> QED
    BY <2>1 DEF Used
<1>3. \A g \in Handle : (links'[g] # NoLink <=> links[g] # NoLink) /\ links'[g].role = links[g].role
  BY <1>2 DEF TypeOK
<1> QED
  BY <1>1, <1>3 DEF Used, UsedAs

(* No connection has the handle that stands for none. *)
LEMMA HandleNotZero == NoHandle \notin Handle
  BY HandleAssumption DEF NoHandle

(* What the power leaves behind has its shape. *)
LEMMA IdleTypes ==
  /\ EmptyList \in DevList /\ IdleApp \in App /\ IdleSdp \in Sdp
  /\ NotCreating \in [peer : Peer \cup {NoPeer}, sent : BOOLEAN]
<1>1. EmptyList \in DevList
  BY NoDevType DEF EmptyList, DevList
<1>2. IdleApp \in App /\ IdleSdp \in Sdp
  BY DEF IdleApp, App, IdleSdp, Sdp, AnyHandle
<1> QED
  BY <1>1, <1>2 DEF NotCreating
-----------------------------------------------------------------------------
(* The invariant holds after start-up. *)
LEMMA InitIInv == Init => IInv
<1> SUFFICES ASSUME Init PROVE IInv
  OBVIOUS
<1>1. TypeOK
  BY IdleTypes, FlashNumAssumption, MaxCutsAssumption DEF Init, TypeOK, AnyHandle
<1>2. Peers /\ PendingIsLink /\ NoLateRsp
  BY DEF Init, Peers, PendingIsLink, NoLateRsp, IdleApp, IdleSdp
<1> QED
  BY <1>1, <1>2 DEF IInv

(* app_le_adv_report_event_handle *)
LEMMA AdvReportStep ==
  ASSUME IInv, NEW p \in Peer, AdvReport(p) PROVE IInv'
<1>1. UNCHANGED <<list, app, curSdp, sdp, at, flash, dirty, bonded, links, cuts>>
  BY DEF AdvReport, hostVars, flashVars
<1>2. creating' = [peer |-> p, sent |-> FALSE]
  BY DEF AdvReport
<1>3. TypeOK'
  BY <1>1, <1>2 DEF IInv, TypeOK
<1> QED
  BY <1>1, <1>2, <1>3 DEF IInv, Peers, PendingIsLink, NoLateRsp, Used, UsedAs

(* app_le_connection_complete_event_handle, central role *)
LEMMA ConnCompleteStep ==
  ASSUME IInv, NEW h \in Handle, ConnComplete(h) PROVE IInv'
<1> DEFINE p == creating.peer
           inserted == Insert(list, h, "central", p)
<1>0. TypeOK
  BY DEF IInv
<1>1. p \in Peer
  <2>1. creating.sent
    BY DEF ConnComplete
  <2>2. creating # NotCreating
    BY <2>1 DEF NotCreating
  <2> QED
    BY <2>2 DEF IInv, Peers
<1>2. /\ links' = [links EXCEPT ![h] = NewLink(p, "central")]
      /\ links[h] = NoLink
      /\ curSdp' = [handle |-> h, peer |-> p]
      /\ creating' = NotCreating
      /\ UNCHANGED <<sdp, at, flash, dirty, bonded, cuts>>
  BY DEF ConnComplete, flashVars, Used
<1>3. \/ Found(p) /\ list' = AddPeerAttHandle(inserted, h, Loaded(p))
         /\ app' = [app EXCEPT !.smp = h]
      \/ list' = inserted /\ app' = [app EXCEPT !.smp = h, !.sdp = h]
  BY DEF ConnComplete
<1>4. inserted \in DevList
  BY <1>0, <1>1, InsertType DEF TypeOK, Role
<1> HIDE DEF p, inserted
<1>5. list' \in DevList
  BY <1>0, <1>3, <1>4, AddPeerType, LoadedType
<1>6. app' \in App
  BY <1>0, <1>3 DEF TypeOK, App, AnyHandle
<1>7. NewLink(p, "central") \in Link
  BY <1>1 DEF NewLink, Link, Role
<1>8. links' \in [Handle -> Link \cup {NoLink}]
  BY <1>0, <1>2, <1>7 DEF TypeOK
<1>9. TypeOK'
  <2>1. curSdp' \in [handle : AnyHandle, peer : Peer \cup {NoPeer}]
    BY <1>1, <1>2 DEF AnyHandle
  <2>2. creating' \in [peer : Peer \cup {NoPeer}, sent : BOOLEAN]
    BY <1>2, IdleTypes
  <2> QED
    BY <1>0, <1>2, <1>5, <1>6, <1>8, <2>1, <2>2 DEF TypeOK
<1>10. Peers'
  BY <1>1, <1>2 DEF IInv, Peers
<1>11. /\ links'[h] # NoLink /\ links'[h].role = "central" /\ links'[h].owed = 0
       /\ \A g \in Handle : g # h => links'[g] = links[g]
  <2>1. NoLink \notin Link
    BY PeerAssumption DEF NoLink, Link
  <2>2. links'[h] = NewLink(p, "central")
    BY <1>0, <1>2 DEF TypeOK
  <2> QED
    BY <1>0, <1>2, <1>7, <2>1, <2>2 DEF NewLink, TypeOK
<1>12. /\ app'.smp = h
       /\ app'.sdp = h \/ app'.sdp = app.sdp
       /\ app'.disc = app.disc
  BY <1>0, <1>3 DEF TypeOK, App
<1>13. PendingIsLink'
  BY <1>0, <1>11, <1>12 DEF IInv, PendingIsLink, Used, UsedAs
<1>14. NoLateRsp'
  <2>1. app.sdp # NoHandle => app.sdp \in Handle
    BY <1>0 DEF TypeOK, App, AnyHandle
  <2> QED
    BY <1>2, <1>11, <1>12, <2>1 DEF IInv, NoLateRsp
<1> QED
  BY <1>9, <1>10, <1>13, <1>14 DEF IInv

(* app_le_connection_complete_event_handle, peripheral role *)
LEMMA PeriphrConnCompleteStep ==
  ASSUME IInv, NEW h \in Handle, NEW p \in Peer, PeriphrConnComplete(h, p) PROVE IInv'
<1>0. TypeOK
  BY DEF IInv
<1>1. /\ links' = [links EXCEPT ![h] = NewLink(p, "periphr")]
      /\ links[h] = NoLink
      /\ list' = Insert(list, h, "periphr", p)
      /\ UNCHANGED <<app, curSdp, sdp, at, flash, dirty, bonded, creating, cuts>>
  BY DEF PeriphrConnComplete, flashVars, Used
<1>2. list' \in DevList
  BY <1>0, <1>1, InsertType DEF TypeOK, Role
<1>3. NewLink(p, "periphr") \in Link
  BY DEF NewLink, Link, Role
<1>4. TypeOK'
  BY <1>0, <1>1, <1>2, <1>3 DEF TypeOK
<1>5. \A g \in Handle : links[g] # NoLink => links'[g] = links[g]
  BY <1>0, <1>1 DEF TypeOK
<1>6. PendingIsLink'
  BY <1>0, <1>1, <1>5 DEF IInv, PendingIsLink, Used, UsedAs
<1>7. NoLateRsp'
  BY <1>1, <1>5 DEF IInv, NoLateRsp, PendingIsLink, Used, UsedAs
<1> QED
  BY <1>1, <1>4, <1>6, <1>7 DEF IInv, Peers

(* GAP_EVT_SMP_SECURITY_PROCESS_DONE and GAP_EVT_SMP_PAIRING_FAIL *)
LEMMA SmpStep ==
  ASSUME IInv, NEW h \in Handle, SmpDone(h) \/ SmpFail(h) PROVE IInv'
<1>0. TypeOK
  BY DEF IInv
<1>1. /\ h \in Used
      /\ links' = [links EXCEPT ![h].smp = TRUE]
      /\ UNCHANGED <<list, curSdp, at, flash, dirty, creating, cuts>>
  BY DEF SmpDone, SmpFail, flashVars
<1>2. app' = app \/ app' = [app EXCEPT !.smp = NoHandle]
  BY DEF SmpDone, SmpFail
<1>3. sdp' = sdp \/ sdp' = [sdp EXCEPT !.main = TRUE]
  BY DEF SmpDone, SmpFail
<1>4. links[h] \in Link
  BY <1>0, <1>1, LinkType
<1>5. bonded' \subseteq Peer
  BY <1>0, <1>4 DEF SmpDone, SmpFail, TypeOK, Link
<1> DEFINE d == [links[h] EXCEPT !.smp = TRUE]
<1>6. d \in Link /\ d.role = links[h].role /\ d.owed = links[h].owed
  BY <1>4 DEF Link
<1>7. links' = [links EXCEPT ![h] = d]
  BY <1>1
<1> HIDE DEF d
<1>8. /\ links' \in [Handle -> Link \cup {NoLink}]
      /\ Used' = Used /\ UsedAs("central")' = UsedAs("central")
  BY <1>0, <1>1, <1>6, <1>7, TouchLink
<1>9. app' \in App /\ sdp' \in Sdp
  <2>1. NoHandle \in AnyHandle
    BY DEF AnyHandle
  <2>2. app \in App /\ sdp \in Sdp
    BY <1>0 DEF TypeOK
  <2>3. [app EXCEPT !.smp = NoHandle] \in App
    BY <2>1, <2>2 DEF App
  <2>4. [sdp EXCEPT !.main = TRUE] \in Sdp
    BY <2>2 DEF Sdp
  <2> QED
    BY <1>2, <1>3, <2>2, <2>3, <2>4
<1>10. TypeOK'
  BY <1>0, <1>1, <1>5, <1>8, <1>9 DEF TypeOK
<1>11. /\ app'.smp \in {app.smp, NoHandle} /\ app'.sdp = app.sdp /\ app'.disc = app.disc
       /\ sdp'.waiting = sdp.waiting /\ sdp'.busy = sdp.busy /\ sdp'.rsp = sdp.rsp
       /\ sdp'.handle = sdp.handle
  BY <1>0, <1>2, <1>3 DEF TypeOK, App, Sdp
<1>12. \A g \in Handle : links'[g].owed = links[g].owed
  BY <1>0, <1>6, <1>7 DEF TypeOK
<1>13. Peers' /\ PendingIsLink'
  BY <1>1, <1>8, <1>11 DEF IInv, Peers, PendingIsLink
<1>14. NoLateRsp'
  BY <1>11, <1>12 DEF IInv, NoLateRsp, PendingIsLink, UsedAs, Used
<1> QED
  BY <1>10, <1>13, <1>14 DEF IInv

(* host_att_client_handler keeps what stands for a peer one. *)
LEMMA GattDataType ==
  ASSUME TypeOK, NEW h \in Used, NEW kind, GattData(h, kind)
  PROVE  /\ sdp' \in Sdp
         /\ sdp'.waiting = sdp.waiting /\ sdp'.handle = sdp.handle /\ sdp'.db = sdp.db
         /\ \/ sdp' = sdp
            \/ /\ app.sdp = h
               /\ sdp'.rsp = links[h].peer /\ sdp'.rsp \in Peer /\ sdp'.busy = NoHandle
<1>1. NoHandle \in AnyHandle /\ sdp \in Sdp
  BY DEF AnyHandle, TypeOK
<1>2. links[h].peer \in Peer
  <2>1. links[h] \in Link
    BY LinkType
  <2> QED
    BY <2>1 DEF Link
<1>3. CASE sdp' = sdp
  BY <1>1, <1>3
<1>4. CASE app.sdp = h /\ sdp' = [sdp EXCEPT !.rsp = links[h].peer, !.busy = NoHandle]
  BY <1>1, <1>2, <1>4 DEF Sdp
<1> QED
  BY <1>3, <1>4 DEF GattData, ClientHandler

(* app_gatt_data_handler: a response *)
LEMMA AttRspStep ==
  ASSUME IInv, NEW h \in Handle, NEW kind, AttRsp(h, kind) PROVE IInv'
<1>0. TypeOK
  BY DEF IInv
<1>1. /\ h \in Used /\ links[h].owed > 0
      /\ links' = [links EXCEPT ![h].owed = @ - 1]
      /\ GattData(h, kind)
      /\ UNCHANGED <<list, app, curSdp, at, flash, dirty, bonded, creating, cuts>>
  BY DEF AttRsp, flashVars
<1>3. links[h] \in Link
  BY <1>0, <1>1, LinkType
<1> DEFINE d == [links[h] EXCEPT !.owed = @ - 1]
<1>4. d \in Link /\ d.role = links[h].role /\ d.owed = links[h].owed - 1
  BY <1>1, <1>3 DEF Link
<1>5. links' = [links EXCEPT ![h] = d]
  BY <1>1
<1> HIDE DEF d
<1>6. /\ links' \in [Handle -> Link \cup {NoLink}]
      /\ Used' = Used /\ UsedAs("central")' = UsedAs("central")
  BY <1>0, <1>1, <1>4, <1>5, TouchLink
<1>7. /\ sdp' \in Sdp /\ sdp'.waiting = sdp.waiting /\ sdp'.handle = sdp.handle
      /\ sdp' = sdp \/ sdp'.rsp \in Peer
  BY <1>0, <1>1, GattDataType
<1>8. TypeOK'
  BY <1>0, <1>1, <1>6, <1>7 DEF TypeOK
<1>10. Peers' /\ PendingIsLink'
  BY <1>1, <1>6, <1>7 DEF IInv, Peers, PendingIsLink
<1>11. \A g \in Handle : links[g].owed = 0 => links'[g].owed = 0
  BY <1>0, <1>1, <1>4, <1>5 DEF TypeOK
<1>12. NoLateRsp'
  BY <1>1, <1>7, <1>11 DEF IInv, NoLateRsp, PendingIsLink, UsedAs, Used
<1> QED
  BY <1>8, <1>10, <1>12 DEF IInv

(* app_gatt_data_handler: an Error Response to another's request *)
LEMMA AttRefusedStep ==
  ASSUME IInv, NEW h \in Handle, AttRefused(h) PROVE IInv'
<1>0. TypeOK
  BY DEF IInv
<1>1. /\ h \in Used /\ GattData(h, "error")
      /\ UNCHANGED <<list, app, curSdp, at, flash, dirty, bonded, links, creating, cuts>>
  BY DEF AttRefused, flashVars, ctlVars
<1>2. /\ sdp' \in Sdp /\ sdp'.waiting = sdp.waiting /\ sdp'.handle = sdp.handle
      /\ sdp' = sdp \/ sdp'.rsp \in Peer
  BY <1>0, <1>1, GattDataType
<1>3. TypeOK'
  BY <1>0, <1>1, <1>2 DEF TypeOK
<1> QED
  BY <1>1, <1>2, <1>3 DEF IInv, Peers, PendingIsLink, NoLateRsp, Used, UsedAs

(* A link is lost. *)
LEMMA LinkLostStep ==
  ASSUME IInv, NEW h \in Handle, LinkLost(h) PROVE IInv'
<1>0. TypeOK
  BY DEF IInv
<1>1. /\ h \in Used
      /\ links' = [links EXCEPT ![h].up = FALSE]
      /\ UNCHANGED <<list, app, curSdp, sdp, at, flash, dirty, bonded, creating, cuts>>
  BY DEF LinkLost, hostVars, flashVars
<1>2. links[h] \in Link
  BY <1>0, <1>1, LinkType
<1> DEFINE d == [links[h] EXCEPT !.up = FALSE]
<1>3. d \in Link /\ d.role = links[h].role /\ d.owed = links[h].owed
  BY <1>2 DEF Link
<1>4. links' = [links EXCEPT ![h] = d]
  BY <1>1
<1> HIDE DEF d
<1>5. /\ links' \in [Handle -> Link \cup {NoLink}]
      /\ Used' = Used /\ UsedAs("central")' = UsedAs("central")
  BY <1>0, <1>1, <1>3, <1>4, TouchLink
<1>6. TypeOK'
  BY <1>0, <1>1, <1>5 DEF TypeOK
<1>7. Peers' /\ PendingIsLink'
  BY <1>1, <1>5 DEF IInv, Peers, PendingIsLink
<1>8. \A g \in Handle : links'[g].owed = links[g].owed
  BY <1>0, <1>3, <1>4 DEF TypeOK
<1>9. NoLateRsp'
  BY <1>1, <1>8 DEF IInv, NoLateRsp, PendingIsLink, UsedAs, Used
<1> QED
  BY <1>6, <1>7, <1>9 DEF IInv

(* app_disconnect_event_handle *)
LEMMA DisconnectStep ==
  ASSUME IInv, NEW h \in Handle, Disconnect(h) PROVE IInv'
<1>0. TypeOK
  BY DEF IInv
<1> DEFINE Off(g) == IF g = h THEN NoHandle ELSE g
<1>1. /\ links' = [links EXCEPT ![h] = NoLink]
      /\ app' = [app EXCEPT !.smp = Off(@), !.sdp = Off(@), !.disc = Off(@)]
      /\ list' = Delete(list, h)
      /\ UNCHANGED <<curSdp, sdp, at, flash, dirty, bonded, creating, cuts>>
  BY DEF Disconnect, flashVars
<1>2. \A g \in AnyHandle : Off(g) \in AnyHandle
  BY DEF AnyHandle
<1>3. app'.smp = Off(app.smp) /\ app'.sdp = Off(app.sdp) /\ app'.disc = Off(app.disc)
  BY <1>0, <1>1 DEF TypeOK, App
<1>4. app' \in App
  <2>1. app \in App /\ app.smp \in AnyHandle /\ app.sdp \in AnyHandle /\ app.disc \in AnyHandle
    BY <1>0 DEF TypeOK, App
  <2>2. Off(app.smp) \in AnyHandle /\ Off(app.sdp) \in AnyHandle /\ Off(app.disc) \in AnyHandle
    BY <1>2, <2>1
  <2> HIDE DEF Off
  <2> QED
    BY <1>1, <2>1, <2>2 DEF App
<1>5. list' \in DevList
  BY <1>0, <1>1, DeleteType DEF TypeOK
<1>6. links' \in [Handle -> Link \cup {NoLink}]
  BY <1>0, <1>1 DEF TypeOK
<1>7. TypeOK'
  BY <1>0, <1>1, <1>4, <1>5, <1>6 DEF TypeOK
<1>8. \A g \in Handle : g # h => links'[g] = links[g]
  BY <1>0, <1>1 DEF TypeOK
<1>9. Peers'
  BY <1>1, <1>3 DEF IInv, Peers
<1>10. PendingIsLink'
  BY <1>3, <1>8 DEF IInv, PendingIsLink, Used, UsedAs
<1>11. NoLateRsp'
  BY <1>1, <1>3, <1>8 DEF IInv, NoLateRsp, PendingIsLink, Used, UsedAs
<1> QED
  BY <1>7, <1>9, <1>10, <1>11 DEF IInv

(* key_change_proc *)
LEMMA AfterKeyType ==
  ASSUME TypeOK, NEW k \in Key
  PROVE  /\ AfterKey(k) \in App
         /\ AfterKey(k).smp = app.smp /\ AfterKey(k).sdp = app.sdp /\ AfterKey(k).disc = app.disc
<1>0. app \in App /\ NoHandle \in AnyHandle
  BY DEF TypeOK, AnyHandle
<1> DEFINE h == list.dev[First(CentralDevs)].conn_handle
<1>1. ASSUME CentralDevs # {} PROVE h \in AnyHandle
  <2>1. CentralDevs \subseteq AllSlots /\ CentralDevs \subseteq Nat
    BY SlotsType DEF CentralDevs
  <2>2. First(CentralDevs) \in AllSlots
    BY <1>1, <2>1, FirstIn
  <2>3. list.dev[First(CentralDevs)] \in DevInfo
    BY <2>2, DevType DEF TypeOK
  <2> QED
    BY <2>3 DEF DevInfo, AnyHandle
<1> HIDE DEF h
<1>2. \/ AfterKey(k) = app
      \/ AfterKey(k) = [app EXCEPT !.pairing = TRUE]
      \/ h \in AnyHandle /\ AfterKey(k) = [app EXCEPT !.unpair = h]
      \/ AfterKey(k) = [app EXCEPT !.pairing = FALSE, !.unpair = NoHandle]
  BY <1>1 DEF AfterKey, Key, h
<1> QED
  BY <1>0, <1>2 DEF App

(* proc_keyboard and proc_master_role_unpair *)
LEMMA UiLoopStep ==
  ASSUME IInv, NEW k \in Key, UiLoop(k) PROVE IInv'
<1>0. TypeOK
  BY DEF IInv
<1>1. PICK a : a = AfterKey(k)
  OBVIOUS
<1>2. a \in App /\ a.smp = app.smp /\ a.sdp = app.sdp /\ a.disc = app.disc
  BY <1>0, <1>1, AfterKeyType
<1>3. Unpair(a)
  BY <1>1 DEF UiLoop
<1>4. /\ at' = "caller"
      /\ UNCHANGED <<list, curSdp, sdp, dirty, links, cuts>>
      /\ creating' = creating \/ (creating # NotCreating /\ creating' = [creating EXCEPT !.sent = TRUE])
  BY DEF UiLoop
<1>5. creating' \in [peer : Peer \cup {NoPeer}, sent : BOOLEAN]
  BY <1>0, <1>4 DEF TypeOK
<1>6. /\ flash' \in Seq(AttRecord) /\ Len(flash') <= FlashNum
      /\ bonded' \subseteq Peer
  <2>1. (flash' = flash /\ bonded' = bonded)
        \/ \E p : DeleteAttHandle(p) /\ bonded' = bonded \ {p}
    BY <1>3 DEF Unpair
  <2> QED
    BY <1>0, <2>1, DeleteAttType DEF TypeOK
<1>7. \/ app' = a
      \/ app' = [a EXCEPT !.unpair = NoHandle]
      \/ /\ a.unpair # NoHandle /\ links[a.unpair].up
         /\ app' = [a EXCEPT !.disc = a.unpair, !.unpair = NoHandle]
  BY <1>3 DEF Unpair
<1>8. a.unpair \in AnyHandle /\ NoHandle \in AnyHandle
  BY <1>2 DEF App, AnyHandle
<1>9. app' \in App
  BY <1>2, <1>7, <1>8 DEF App
<1>10. TypeOK'
  BY <1>0, <1>4, <1>5, <1>6, <1>9 DEF TypeOK
<1>11. /\ app'.smp = app.smp /\ app'.sdp = app.sdp
       /\ \/ app'.disc = app.disc
          \/ app'.disc \in Handle /\ links[app'.disc].up
  BY <1>2, <1>7, <1>8 DEF App, AnyHandle
<1>12. Peers'
  BY <1>0, <1>4, <1>11 DEF IInv, Peers, TypeOK
<1>13. PendingIsLink'
  <2>1. \A g \in Handle : links[g].up => g \in Used
    BY NoLinkFields DEF Used
  <2> QED
    BY <1>4, <1>11, <2>1 DEF IInv, PendingIsLink, Used, UsedAs
<1>14. NoLateRsp'
  BY <1>4, <1>11 DEF IInv, NoLateRsp
<1> QED
  BY <1>10, <1>12, <1>13, <1>14 DEF IInv

(* Pushing a request keeps the links as they are but for what is owed. *)
LEMMA RequestType ==
  ASSUME TypeOK, NEW s \in Sdp, NEW h \in AnyHandle, Request(s, h)
  PROVE  /\ sdp' \in Sdp /\ sdp'.waiting /\ sdp'.busy = h /\ sdp'.handle = h
         /\ links' \in [Handle -> Link \cup {NoLink}]
         /\ Used' = Used /\ UsedAs("central")' = UsedAs("central")
<1>1. sdp' = [s EXCEPT !.waiting = TRUE, !.handle = h, !.busy = h, !.buffer = TRUE]
  BY DEF Request
<1>2. sdp' \in Sdp /\ sdp'.waiting /\ sdp'.busy = h /\ sdp'.handle = h
  BY <1>1 DEF Sdp
<1>3. CASE links' = links
  BY <1>2, <1>3 DEF TypeOK, Used, UsedAs
<1>4. CASE h \in Used /\ links' = [links EXCEPT ![h].owed = @ + 1]
  <2>1. links[h] \in Link
    BY <1>4, LinkType
  <2> DEFINE d == [links[h] EXCEPT !.owed = @ + 1]
  <2>2. d \in Link /\ d.role = links[h].role
    BY <2>1 DEF Link
  <2>3. links' = [links EXCEPT ![h] = d]
    BY <1>4
  <2> HIDE DEF d
  <2> QED
    BY <1>2, <1>4, <2>2, <2>3, TouchLink
<1> QED
  BY <1>3, <1>4 DEF Request

(* simple_sdp_loop *)
LEMMA SdpLoopStep == ASSUME IInv, SdpLoop PROVE IInv'
<1>0. TypeOK
  BY DEF IInv
<1>1. /\ ~sdp.waiting /\ at' = "ble"
      /\ UNCHANGED <<list, app, curSdp, flash, dirty, bonded, creating, cuts>>
  BY DEF SdpLoop, flashVars
<1>2. CASE app.sdp # NoHandle /\ Request([sdp EXCEPT !.db = {}, !.rsp = NoPeer], app.sdp)
  <2>1. [sdp EXCEPT !.db = {}, !.rsp = NoPeer] \in Sdp /\ app.sdp \in AnyHandle
    BY <1>0 DEF TypeOK, Sdp, App
  <2>2. /\ sdp' \in Sdp /\ sdp'.waiting /\ sdp'.busy = app.sdp /\ sdp'.handle = app.sdp
        /\ links' \in [Handle -> Link \cup {NoLink}]
        /\ Used' = Used /\ UsedAs("central")' = UsedAs("central")
    BY <1>0, <1>2, <2>1, RequestType
  <2>3. TypeOK'
    BY <1>0, <1>1, <2>2 DEF TypeOK
  <2> QED
    BY <1>1, <1>2, <2>2, <2>3 DEF IInv, Peers, PendingIsLink, NoLateRsp
<1>3. CASE sdp' = [sdp EXCEPT !.main = FALSE] /\ UNCHANGED links
  <2>1. sdp' \in Sdp /\ sdp'.waiting = sdp.waiting
    BY <1>0, <1>3 DEF TypeOK, Sdp
  <2>2. TypeOK'
    BY <1>0, <1>1, <1>3, <2>1 DEF TypeOK
  <2> QED
    BY <1>1, <1>3, <2>1, <2>2 DEF IInv, Peers, PendingIsLink, NoLateRsp, Used, UsedAs
<1> QED
  BY <1>2, <1>3 DEF SdpLoop

(* The discovery asks on. *)
LEMMA NextRequestStep == ASSUME IInv, NextRequest PROVE IInv'
<1>0. TypeOK
  BY DEF IInv
<1> DEFINE s == [sdp EXCEPT !.db = @ \cup {sdp.rsp}, !.rsp = NoPeer]
<1>1. /\ sdp.waiting /\ sdp.busy = NoHandle /\ at' = "ble"
      /\ Request(s, sdp.handle)
      /\ UNCHANGED <<list, app, curSdp, flash, dirty, bonded, creating, cuts>>
  BY DEF NextRequest, flashVars
<1>2. sdp.rsp \in Peer
  BY <1>1 DEF IInv, Peers
<1>3. s \in Sdp /\ sdp.handle \in AnyHandle
  BY <1>0, <1>2 DEF TypeOK, Sdp
<1> HIDE DEF s
<1>4. /\ sdp' \in Sdp /\ sdp'.waiting /\ sdp'.busy = sdp.handle /\ sdp'.handle = sdp.handle
      /\ links' \in [Handle -> Link \cup {NoLink}]
      /\ Used' = Used /\ UsedAs("central")' = UsedAs("central")
  BY <1>0, <1>1, <1>3, RequestType
<1>5. TypeOK'
  BY <1>0, <1>1, <1>4 DEF TypeOK
<1> QED
  BY <1>1, <1>4, <1>5 DEF IInv, Peers, PendingIsLink, NoLateRsp

(* The end of a discovery *)
LEMMA ReturnFacts ==
  ASSUME TypeOK, Return
  PROVE  /\ app' \in App /\ sdp' \in Sdp
         /\ app'.sdp = NoHandle /\ app'.smp = app.smp /\ app'.disc = app.disc
         /\ ~sdp'.waiting
<1>1. app \in App /\ sdp \in Sdp /\ NoHandle \in AnyHandle
  BY DEF TypeOK, AnyHandle
<1>2. app' = [app EXCEPT !.sdp = NoHandle]
  BY DEF Return
<1>3. sdp' = [sdp EXCEPT !.main = FALSE, !.waiting = FALSE, !.handle = NoHandle,
                         !.rsp = NoPeer, !.db = {}]
  BY DEF Return, Ended
<1>4. app' \in App /\ app'.sdp = NoHandle /\ app'.smp = app.smp /\ app'.disc = app.disc
  BY <1>1, <1>2 DEF App
<1>5. sdp' \in Sdp /\ ~sdp'.waiting
  BY <1>1, <1>3 DEF Sdp
<1> QED
  BY <1>4, <1>5

(* The discovery gives up. *)
LEMMA TimeoutStep == ASSUME IInv, Timeout PROVE IInv'
<1>0. TypeOK
  BY DEF IInv
<1>1. at' = "ble" /\ UNCHANGED <<list, curSdp, flash, dirty, bonded, links, creating, cuts>>
  BY DEF Timeout, flashVars, ctlVars
<1>2. /\ app' \in App /\ sdp' \in Sdp
      /\ app'.sdp = NoHandle /\ app'.smp = app.smp /\ app'.disc = app.disc
      /\ ~sdp'.waiting
  BY <1>0, ReturnFacts DEF Timeout
<1>3. TypeOK'
  BY <1>0, <1>1, <1>2 DEF TypeOK
<1> QED
  BY <1>1, <1>2, <1>3 DEF IInv, Peers, PendingIsLink, NoLateRsp, Used, UsedAs

(* The discovery stores what it found. *)
LEMMA FinishStep == ASSUME IInv, Finish PROVE IInv'
<1>0. TypeOK
  BY DEF IInv
<1> DEFINE chars == sdp.db \cup {sdp.rsp}
<1>1. /\ sdp.waiting /\ sdp.busy = NoHandle /\ at' = "ble"
      /\ list' = AddPeerAttHandle(list, curSdp.handle, chars)
      /\ StoreAttHandle(curSdp.peer, chars)
      /\ UNCHANGED <<curSdp, bonded, links, creating, cuts>>
  BY DEF Finish, ctlVars
<1>2. curSdp.peer \in Peer /\ sdp.rsp \in Peer
  BY <1>1 DEF IInv, Peers
<1>3. chars \in SUBSET Peer
  BY <1>0, <1>2 DEF TypeOK, Sdp
<1> HIDE DEF chars
<1>4. list' \in DevList
  BY <1>0, <1>1, <1>3, AddPeerType DEF TypeOK
<1>5. /\ flash' \in Seq(AttRecord) /\ Len(flash') <= FlashNum
      /\ dirty' \in Peer \cup {NoPeer, Garbage}
  BY <1>0, <1>1, <1>2, <1>3, StoreType
<1>6. /\ app' \in App /\ sdp' \in Sdp
      /\ app'.sdp = NoHandle /\ app'.smp = app.smp /\ app'.disc = app.disc
      /\ ~sdp'.waiting
  BY <1>0, ReturnFacts DEF Finish
<1>7. TypeOK'
  BY <1>0, <1>1, <1>4, <1>5, <1>6 DEF TypeOK
<1> QED
  BY <1>1, <1>6, <1>7 DEF IInv, Peers, PendingIsLink, NoLateRsp, Used, UsedAs

(* The power fails, also in the middle of a store. *)
LEMMA PowerFailStep == ASSUME IInv, PowerFail \/ PowerFailInStore PROVE IInv'
<1>0. TypeOK
  BY DEF IInv
<1>1. /\ list' = EmptyList /\ app' = IdleApp /\ sdp' = IdleSdp /\ at' = "ble"
      /\ curSdp' = [handle |-> NoHandle, peer |-> NoPeer]
      /\ links' = [h \in Handle |-> NoLink] /\ creating' = NotCreating
      /\ UNCHANGED <<flash, bonded>>
      /\ cuts < MaxCuts /\ cuts' = cuts + 1
  BY DEF PowerFail, PowerFailInStore, PowerOn, flashVars
<1>2. dirty' \in Peer \cup {NoPeer, Garbage}
  <2>1. CASE PowerFail
    BY <1>0, <2>1 DEF PowerFail, flashVars, TypeOK
  <2>2. CASE PowerFailInStore
    <3>1. curSdp.peer \in Peer
      BY <2>2 DEF PowerFailInStore, IInv, Peers
    <3> QED
      BY <2>2, <3>1 DEF PowerFailInStore, StoredPeer
  <2> QED
    BY <2>1, <2>2
<1>3. curSdp' \in [handle : AnyHandle, peer : Peer \cup {NoPeer}]
  BY <1>1 DEF AnyHandle
<1>4. cuts' \in 0..MaxCuts
  BY <1>0, <1>1, MaxCutsAssumption DEF TypeOK
<1>5. TypeOK'
  BY <1>0, <1>1, <1>2, <1>3, <1>4, IdleTypes DEF TypeOK
<1> QED
  BY <1>1, <1>5 DEF IInv, Peers, PendingIsLink, NoLateRsp, IdleApp, IdleSdp
-----------------------------------------------------------------------------
(* Every step keeps the first half of the invariant. *)
LEMMA StepIInv == IInv /\ [Next]_vars => IInv'
<1> SUFFICES ASSUME IInv, [Next]_vars PROVE IInv'
  OBVIOUS
<1>1. CASE UNCHANGED vars
  BY <1>1 DEF vars, hostVars, flashVars, ctlVars, IInv, TypeOK, Peers, PendingIsLink,
              NoLateRsp, Used, UsedAs
<1>2. CASE KeepWaiting
  <2>1. /\ at' = "ble"
        /\ UNCHANGED <<list, app, curSdp, sdp, flash, dirty, bonded, links, creating, cuts>>
    BY <1>2 DEF KeepWaiting, flashVars, ctlVars
  <2> QED
    BY <2>1 DEF IInv, TypeOK, Peers, PendingIsLink, NoLateRsp, Used, UsedAs
<1>3. CASE \E p \in Peer : AdvReport(p)
  BY <1>3, AdvReportStep
<1>4. CASE \E h \in Handle : ConnComplete(h)
  BY <1>4, ConnCompleteStep
<1>5. CASE \E h \in Handle : SmpDone(h) \/ SmpFail(h)
  BY <1>5, SmpStep
<1>6. CASE (\E h \in Handle, kind \in Packet : AttRsp(h, kind)) \/ (\E h \in Handle : AttRefused(h))
  BY <1>6, AttRspStep, AttRefusedStep
<1>7. CASE \E h \in Handle : LinkLost(h)
  BY <1>7, LinkLostStep
<1>8. CASE \E h \in Handle : Disconnect(h)
  BY <1>8, DisconnectStep
<1>9. CASE \E h \in Handle, p \in Peer : PeriphrConnComplete(h, p)
  BY <1>9, PeriphrConnCompleteStep
<1>10. CASE \E k \in Key : UiLoop(k)
  BY <1>10, UiLoopStep
<1>11. CASE SdpLoop \/ Timeout \/ NextRequest \/ Finish
  BY <1>11, SdpLoopStep, TimeoutStep, NextRequestStep, FinishStep
<1>12. CASE PowerFail \/ PowerFailInStore
  BY <1>12, PowerFailStep
<1> QED
  BY <1>1, <1>2, <1>3, <1>4, <1>5, <1>6, <1>7, <1>8, <1>9, <1>10, <1>11, <1>12 DEF Next

(* It always holds. *)
LEMMA Invariance == Spec => []IInv
<1> QED
  BY InitIInv, StepIInv, PTL DEF Spec

(* The state keeps its shape: conn_dev_list and the flags hold handles and *)
(* peers, and the storage of attribute handles is never outgrown.          *)
THEOREM TypeCorrect == Spec => []TypeOK
<1>1. IInv => TypeOK
  BY DEF IInv
<1> QED
  BY <1>1, Invariance, PTL

(* No flag that holds up new connections outlives its connection           *)
(* (app_disconnect_event_handle), however often handles are used again and *)
(* whatever runs inside a discovery.                                       *)
THEOREM PendingNamesLink == Spec => []PendingIsLink
<1>1. IInv => PendingIsLink
  BY DEF IInv
<1> QED
  BY <1>1, Invariance, PTL

(* host_att_client_handler never writes the response to a discovery's      *)
(* request to the buffer of a discovery that has returned: a late response *)
(* finds central_sdp_pending cleared, or set for a connection on which     *)
(* nothing was asked.                                                      *)
THEOREM NoLateCopy == Spec => LateAnswerDropped
<1> DEFINE Answered == \E h \in Handle : links'[h].owed < links[h].owed
           A == Answered /\ sdp'.rsp # sdp.rsp => sdp.waiting \/ sdp'.rsp = NoPeer
<1>1. ASSUME IInv, [Next]_vars PROVE [A]_vars
  <2> SUFFICES ASSUME ~sdp.waiting, Next, Answered PROVE sdp'.rsp \in {sdp.rsp, NoPeer}
    BY <1>1
  <2>0. sdp \in Sdp
    BY <1>1 DEF IInv, TypeOK
  <2>1. CASE sdp' = sdp
    BY <2>1
  <2>2. CASE \E h \in Handle, kind \in Packet : AttRsp(h, kind)
    <3>1. PICK h \in Handle, kind \in Packet : AttRsp(h, kind)
      BY <2>2
    <3>2. links[h].owed > 0
      BY <3>1 DEF AttRsp
    <3>3. app.sdp # h
      BY <1>1, <3>2, HandleNotZero DEF IInv, NoLateRsp
    <3> QED
      BY <3>1, <3>3 DEF AttRsp, GattData
  <2>3. CASE \E h \in Handle : AttRefused(h)
    <3>1. links' = links /\ \A h \in Handle : links[h].owed \in Nat
      BY <1>1, <2>3 DEF AttRefused, ctlVars, IInv, TypeOK, Link, NoLink
    <3> QED
      BY <3>1
  <2>4. CASE SdpLoop
    <3>1. \/ sdp' = [[sdp EXCEPT !.db = {}, !.rsp = NoPeer]
                       EXCEPT !.waiting = TRUE, !.handle = app.sdp, !.busy = app.sdp, !.buffer = TRUE]
          \/ sdp' = [sdp EXCEPT !.main = FALSE]
      BY <2>4 DEF SdpLoop, Request
    <3> QED
      BY <2>0, <3>1 DEF Sdp
  <2>5. CASE PowerFail \/ PowerFailInStore
    BY <2>5 DEF PowerFail, PowerFailInStore, PowerOn, IdleSdp
  <2>6. CASE (\E p \in Peer : AdvReport(p)) \/ (\E k \in Key : UiLoop(k))
    BY <2>6 DEF AdvReport, UiLoop, hostVars
  <2>7. CASE sdp' = [sdp EXCEPT !.main = TRUE]
    BY <2>0, <2>7 DEF Sdp
  <2>8. CASE \E h \in Handle : ConnComplete(h) \/ SmpDone(h) \/ SmpFail(h) \/ LinkLost(h) \/ Disconnect(h)
    BY <2>1, <2>7, <2>8 DEF ConnComplete, SmpDone, SmpFail, LinkLost, Disconnect, hostVars
  <2>9. CASE \E h \in Handle, p \in Peer : PeriphrConnComplete(h, p)
    BY <2>9 DEF PeriphrConnComplete
  <2>10. CASE KeepWaiting \/ Timeout \/ NextRequest \/ Finish
    BY <2>10 DEF KeepWaiting, Timeout, NextRequest, Finish
  <2> QED
    BY <2>2, <2>3, <2>4, <2>5, <2>6, <2>8, <2>9, <2>10 DEF Next
<1> QED
  BY <1>1, Invariance, PTL DEF Spec, LateAnswerDropped
-----------------------------------------------------------------------------
(* Which device of the list l stands for which connection of ls *)
In(ls) == {h \in Handle : ls[h] # NoLink}
InAs(ls, r) == {h \in In(ls) : ls[h].role = r}
Links == [Handle -> Link \cup {NoLink}]

Sits(d, k, h) == d.conn_state /\ d.conn_handle = h /\ d.role = k.role /\ d.peer = k.peer
Seated(l, ls) == \A h \in In(ls) : \E i \in Slots(ls[h].role) : Sits(l.dev[i], ls[h], h)
NoStranger(l, ls) == \A i \in AllSlots : l.dev[i].conn_state => l.dev[i].conn_handle \in In(ls)
OneSeat(l) == \A i, j \in AllSlots :
  l.dev[i].conn_state /\ l.dev[j].conn_state /\ l.dev[i].conn_handle = l.dev[j].conn_handle => i = j
FreeIsBlank(l) == \A i \in AllSlots : ~l.dev[i].conn_state => l.dev[i] = NoDev
Counted(l, ls) ==
  /\ IsFiniteSet(InAs(ls, "central")) /\ l.central = Cardinality(InAs(ls, "central"))
  /\ IsFiniteSet(InAs(ls, "periphr")) /\ l.periphr = Cardinality(InAs(ls, "periphr"))
Mirrors(l, ls) ==
  Seated(l, ls) /\ NoStranger(l, ls) /\ OneSeat(l) /\ FreeIsBlank(l) /\ Counted(l, ls)

RoomFor(r) == IF r = "central" THEN CentralMax ELSE PeriphrMax

(* Either role has as many slots as it may have connections, and its own. *)
LEMMA SlotsOf ==
  /\ \A r \in Role : /\ IsFiniteSet(Slots(r)) /\ Cardinality(Slots(r)) = RoomFor(r)
                     /\ Slots(r) \subseteq AllSlots
  /\ Slots("central") \cap Slots("periphr") = {}
<1>1. IsFiniteSet(Slots("central")) /\ Cardinality(Slots("central")) = CentralMax
  <2>1. IsFiniteSet(0 .. CentralMax - 1)
        /\ Cardinality(0 .. CentralMax - 1) = IF 0 > CentralMax - 1 THEN 0 ELSE CentralMax - 1 - 0 + 1
    BY FS_Interval, MaxNumAssumption
  <2> QED
    BY <2>1, MaxNumAssumption DEF Slots
<1>2. IsFiniteSet(Slots("periphr")) /\ Cardinality(Slots("periphr")) = PeriphrMax
  <2> DEFINE a == CentralMax
             b == CentralMax + PeriphrMax - 1
  <2>1. a \in Int /\ b \in Int
    BY MaxNumAssumption
  <2>2. IsFiniteSet(a .. b) /\ Cardinality(a .. b) = IF a > b THEN 0 ELSE b - a + 1
    <3> HIDE DEF a, b
    <3> QED
      BY <2>1, FS_Interval
  <2> QED
    BY <2>2, MaxNumAssumption DEF Slots
<1>3. Slots("central") \cap Slots("periphr") = {}
  BY MaxNumAssumption DEF Slots
<1> QED
  BY <1>1, <1>2, <1>3, SlotsType DEF RoomFor, Role

(* No connection looks like none. *)
LEMMA NoLinkOut == NoLink \notin Link
  BY PeerAssumption DEF NoLink, Link

(* A connection that only owes, answers, pairs or is lost keeps its slot. *)
LEMMA MirrorTouch ==
  ASSUME NEW l, NEW ls \in Links, NEW h \in In(ls), NEW d \in Link,
         d.role = ls[h].role, d.peer = ls[h].peer, Mirrors(l, ls)
  PROVE  Mirrors(l, [ls EXCEPT ![h] = d])
<1> DEFINE ms == [ls EXCEPT ![h] = d]
<1>1. \A g \in Handle : /\ ms[g] # NoLink <=> ls[g] # NoLink
                        /\ ms[g].role = ls[g].role /\ ms[g].peer = ls[g].peer
  BY NoLinkOut DEF Links, In
<1> HIDE DEF ms
<1>2. In(ms) = In(ls) /\ (\A r : InAs(ms, r) = InAs(ls, r))
  BY <1>1 DEF In, InAs
<1>3. Seated(l, ms)
  BY <1>1, <1>2 DEF Mirrors, Seated, Sits, In
<1> QED
  BY <1>2, <1>3 DEF Mirrors, NoStranger, Counted, ms

(* dev_char_info_insert_by_conn_event finds a slot as long as the          *)
(* controller has fewer connections in that role than there are slots.     *)
LEMMA FreeSlot ==
  ASSUME NEW l, NEW ls \in Links, NEW r \in Role, Mirrors(l, ls),
         Cardinality(InAs(ls, r)) < RoomFor(r)
  PROVE  \E i \in Slots(r) : ~l.dev[i].conn_state
<1> SUFFICES ASSUME \A i \in Slots(r) : l.dev[i].conn_state PROVE FALSE
  OBVIOUS
<1> DEFINE f == [i \in Slots(r) |-> l.dev[i].conn_handle]
<1>1. ASSUME NEW i \in Slots(r) PROVE f[i] \in InAs(ls, r)
  <2>1. i \in AllSlots /\ l.dev[i].conn_state
    BY SlotsOf
  <2>2. f[i] \in In(ls)
    BY <2>1 DEF Mirrors, NoStranger
  <2>3. PICK j \in Slots(ls[f[i]].role) : Sits(l.dev[j], ls[f[i]], f[i])
    BY <2>2 DEF Mirrors, Seated
  <2>4. ls[f[i]].role \in Role /\ j \in AllSlots
    <3>1. Slots(ls[f[i]].role) \subseteq AllSlots
      BY SlotsType
    <3>2. ls[f[i]] \in Link
      BY <2>2 DEF In, Links
    <3> QED
      BY <2>3, <3>1, <3>2 DEF Link
  <2>5. i = j
    BY <2>1, <2>3, <2>4 DEF Mirrors, OneSeat, Sits
  <2>6. ls[f[i]].role = r
    BY <2>3, <2>5, SlotsOf, <2>4 DEF Role
  <2> QED
    BY <2>2, <2>6 DEF InAs
<1>2. ASSUME NEW i \in Slots(r), NEW j \in Slots(r), f[i] = f[j] PROVE i = j
  BY <1>2, SlotsOf DEF Mirrors, OneSeat
<1>3. f \in [Slots(r) -> InAs(ls, r)]
  BY <1>1
<1> HIDE DEF f
<1>4. f \in Injection(Slots(r), InAs(ls, r))
  BY <1>2, <1>3 DEF Injection, IsInjective
<1>5. IsFiniteSet(InAs(ls, r))
  BY DEF Mirrors, Counted, Role
<1>6. Cardinality(Slots(r)) <= Cardinality(InAs(ls, r))
  BY <1>4, <1>5, FS_Injection
<1>7. Cardinality(InAs(ls, r)) \in Nat
  BY <1>5, FS_CardinalityType
<1> QED
  BY <1>6, <1>7, SlotsOf, MaxNumAssumption DEF RoomFor

(* A device that is entered *)
Seat(h, r, p) == [NoDev EXCEPT !.conn_state = TRUE, !.conn_handle = h, !.role = r, !.peer = p]

(* dev_char_info_insert_by_conn_event fills a free slot and counts it. *)
LEMMA InsertPut ==
  ASSUME NEW l \in DevList, NEW h, NEW r \in Role, NEW p,
         \E i \in Slots(r) : ~l.dev[i].conn_state
  PROVE  \E i \in Slots(r) :
           /\ i \in AllSlots /\ ~l.dev[i].conn_state
           /\ Insert(l, h, r, p).dev = [l.dev EXCEPT ![i] = Seat(h, r, p)]
           /\ Insert(l, h, r, p).central = l.central + (IF r = "central" THEN 1 ELSE 0)
           /\ Insert(l, h, r, p).periphr = l.periphr + (IF r = "central" THEN 0 ELSE 1)
<1> DEFINE free == {i \in Slots(r) : ~l.dev[i].conn_state}
<1>1. First(free) \in free
  BY FirstIn, SlotsType
<1>2. PICK i : i = First(free)
  OBVIOUS
<1>3. Insert(l, h, r, p) = [Count(l, r, 1) EXCEPT !.dev[i] = Seat(h, r, p)]
  BY <1>2 DEF Insert, Seat
<1>4. i \in Slots(r) /\ i \in AllSlots /\ ~l.dev[i].conn_state
  BY <1>1, <1>2, SlotsType
<1> HIDE DEF free
<1>5. /\ Count(l, r, 1) \in DevList /\ Count(l, r, 1).dev = l.dev
      /\ Count(l, r, 1).central = l.central + (IF r = "central" THEN 1 ELSE 0)
      /\ Count(l, r, 1).periphr = l.periphr + (IF r = "central" THEN 0 ELSE 1)
  <2>1. l.central \in Int /\ l.periphr \in Int
    BY DEF DevList
  <2> QED
    BY <2>1, CountType DEF Count, DevList
<1>6. PICK m \in DevList : m = Count(l, r, 1)
  BY <1>5
<1>7. /\ [m EXCEPT !.dev[i] = Seat(h, r, p)].dev = [m.dev EXCEPT ![i] = Seat(h, r, p)]
      /\ [m EXCEPT !.dev[i] = Seat(h, r, p)].central = m.central
      /\ [m EXCEPT !.dev[i] = Seat(h, r, p)].periphr = m.periphr
  BY DEF DevList
<1> QED
  BY <1>3, <1>4, <1>5, <1>6, <1>7

(* The central counter counts central connections only. *)
LEMMA InsertCount ==
  ASSUME NEW l \in DevList, NEW h, NEW r \in Role, NEW p,
         \E i \in Slots(r) : ~l.dev[i].conn_state
  PROVE  Insert(l, h, r, p).central = IF r = "central" THEN l.central + 1 ELSE l.central
<1>1. PICK i \in Slots(r) :
           /\ i \in AllSlots /\ ~l.dev[i].conn_state
           /\ Insert(l, h, r, p).dev = [l.dev EXCEPT ![i] = Seat(h, r, p)]
           /\ Insert(l, h, r, p).central = l.central + (IF r = "central" THEN 1 ELSE 0)
           /\ Insert(l, h, r, p).periphr = l.periphr + (IF r = "central" THEN 0 ELSE 1)
  BY InsertPut
<1> QED
  BY <1>1 DEF DevList

(* What a device that was entered holds. *)
LEMMA SeatFields ==
  ASSUME NEW h, NEW r, NEW p
  PROVE  /\ Seat(h, r, p).conn_state /\ Seat(h, r, p).conn_handle = h
         /\ Seat(h, r, p).role = r /\ Seat(h, r, p).peer = p /\ Seat(h, r, p).chars = {}
  BY DEF Seat, NoDev

(* A new connection is one more in its role. *)
LEMMA AddLink ==
  ASSUME NEW ls \in Links, NEW h \in Handle \ In(ls), NEW k \in Link, NEW r
  PROVE  /\ In([ls EXCEPT ![h] = k]) = In(ls) \cup {h}
         /\ InAs([ls EXCEPT ![h] = k], r) = IF r = k.role THEN InAs(ls, r) \cup {h} ELSE InAs(ls, r)
         /\ h \notin InAs(ls, r)
<1> DEFINE ms == [ls EXCEPT ![h] = k]
<1>1. ms[h] = k /\ k # NoLink /\ \A g \in Handle \ {h} : ms[g] = ls[g]
  BY NoLinkOut DEF Links
<1> HIDE DEF ms
<1>2. In(ms) = In(ls) \cup {h}
  BY <1>1 DEF In
<1>3. InAs(ms, r) = IF r = k.role THEN InAs(ls, r) \cup {h} ELSE InAs(ls, r)
  BY <1>1, <1>2 DEF InAs, In
<1> QED
  BY <1>2, <1>3 DEF ms, InAs

(* Entering a new connection keeps the list in step. *)
LEMMA MirrorInsert ==
  ASSUME NEW l \in DevList, NEW ls \in Links, NEW h \in Handle \ In(ls), NEW k \in Link,
         Mirrors(l, ls), Cardinality(InAs(ls, k.role)) < RoomFor(k.role)
  PROVE  Mirrors(Insert(l, h, k.role, k.peer), [ls EXCEPT ![h] = k])
<1> DEFINE ms == [ls EXCEPT ![h] = k]
           m == Insert(l, h, k.role, k.peer)
           s == Seat(h, k.role, k.peer)
<1>0. k.role \in Role
  BY DEF Link
<1>1. PICK i \in Slots(k.role) :
           /\ i \in AllSlots /\ ~l.dev[i].conn_state
           /\ m.dev = [l.dev EXCEPT ![i] = s]
           /\ m.central = l.central + (IF k.role = "central" THEN 1 ELSE 0)
           /\ m.periphr = l.periphr + (IF k.role = "central" THEN 0 ELSE 1)
  BY <1>0, FreeSlot, InsertPut
<1>2. m.dev[i] = s /\ \A j \in AllSlots \ {i} : m.dev[j] = l.dev[j]
  BY <1>1 DEF DevList
<1>3. ms[h] = k /\ \A g \in Handle \ {h} : ms[g] = ls[g]
  BY DEF Links
<1>4. /\ In(ms) = In(ls) \cup {h}
      /\ \A r : h \notin InAs(ls, r)
      /\ \A r : InAs(ms, r) = IF r = k.role THEN InAs(ls, r) \cup {h} ELSE InAs(ls, r)
  <2> SUFFICES ASSUME NEW r
               PROVE  /\ In(ms) = In(ls) \cup {h}
                      /\ InAs(ms, r) = IF r = k.role THEN InAs(ls, r) \cup {h} ELSE InAs(ls, r)
                      /\ h \notin InAs(ls, r)
    BY Zenon
  <2> QED
    BY AddLink, Zenon
<1>5. s.conn_state /\ s.conn_handle = h /\ s.role = k.role /\ s.peer = k.peer
  BY SeatFields
<1> HIDE DEF ms, m, s
<1>6. Seated(m, ms)
  <2> SUFFICES ASSUME NEW g \in In(ms) PROVE \E j \in Slots(ms[g].role) : Sits(m.dev[j], ms[g], g)
    BY DEF Seated
  <2>1. CASE g = h
    BY <2>1, <1>1, <1>2, <1>3, <1>5 DEF Sits
  <2>2. CASE g # h
    <3>1. g \in In(ls) /\ ms[g] = ls[g]
      BY <2>2, <1>3, <1>4 DEF In
    <3>2. PICK j \in Slots(ls[g].role) : Sits(l.dev[j], ls[g], g)
      BY <3>1 DEF Mirrors, Seated
    <3>3. j \in AllSlots /\ j # i
      BY <3>2, <1>1, SlotsType DEF Sits
    <3> QED
      BY <3>1, <3>2, <3>3, <1>2
  <2> QED
    BY <2>1, <2>2
<1>7. NoStranger(m, ms)
  BY <1>2, <1>4, <1>5 DEF Mirrors, NoStranger
<1>8. OneSeat(m)
  <2>1. \A j \in AllSlots \ {i} : m.dev[j].conn_state => m.dev[j].conn_handle \in In(ls)
    BY <1>2 DEF Mirrors, NoStranger
  <2>2. \A j \in AllSlots \ {i} : m.dev[j].conn_state => m.dev[j].conn_handle # h
    BY <2>1
  <2> QED
    BY <1>2, <1>5, <2>2 DEF Mirrors, OneSeat
<1>9. FreeIsBlank(m)
  BY <1>2, <1>5 DEF Mirrors, FreeIsBlank
<1>10. Counted(m, ms)
  <2>1. /\ IsFiniteSet(InAs(ls, "central")) /\ l.central = Cardinality(InAs(ls, "central"))
        /\ IsFiniteSet(InAs(ls, "periphr")) /\ l.periphr = Cardinality(InAs(ls, "periphr"))
    BY DEF Mirrors, Counted
  <2>2. \A S : IsFiniteSet(S) /\ h \notin S =>
           IsFiniteSet(S \cup {h}) /\ Cardinality(S \cup {h}) = Cardinality(S) + 1
    BY FS_AddElement
  <2>3. l.central \in Int /\ l.periphr \in Int
    BY DEF DevList
  <2>4. CASE k.role = "central"
    <3>1. InAs(ms, "central") = InAs(ls, "central") \cup {h} /\ InAs(ms, "periphr") = InAs(ls, "periphr")
      BY <1>4, <2>4
    <3>2. m.central = l.central + 1 /\ m.periphr = l.periphr
      BY <1>1, <2>3, <2>4
    <3> QED
      BY <1>4, <2>1, <2>2, <3>1, <3>2 DEF Counted
  <2>5. CASE k.role = "periphr"
    <3>1. InAs(ms, "periphr") = InAs(ls, "periphr") \cup {h} /\ InAs(ms, "central") = InAs(ls, "central")
      BY <1>4, <2>5
    <3>2. m.periphr = l.periphr + 1 /\ m.central = l.central
      BY <1>1, <2>3, <2>5
    <3> QED
      BY <1>4, <2>1, <2>2, <3>1, <3>2 DEF Counted
  <2> QED
    BY <1>0, <2>4, <2>5 DEF Role
<1> QED
  BY <1>6, <1>7, <1>8, <1>9, <1>10 DEF Mirrors, m, ms

(* A connection that ends is one less in its role. *)
LEMMA DropLink ==
  ASSUME NEW ls \in Links, NEW h \in In(ls), NEW r
  PROVE  /\ In([ls EXCEPT ![h] = NoLink]) = In(ls) \ {h}
         /\ InAs([ls EXCEPT ![h] = NoLink], r) = InAs(ls, r) \ {h}
         /\ h \in InAs(ls, r) <=> ls[h].role = r
<1> DEFINE ms == [ls EXCEPT ![h] = NoLink]
<1>1. h \in Handle /\ ms[h] = NoLink /\ \A g \in Handle \ {h} : ms[g] = ls[g]
  BY DEF Links, In
<1> HIDE DEF ms
<1>2. In(ms) = In(ls) \ {h}
  BY <1>1 DEF In
<1>3. InAs(ms, r) = InAs(ls, r) \ {h}
  BY <1>1, <1>2 DEF InAs, In
<1> QED
  BY <1>2, <1>3 DEF ms, InAs

(* A connection has one slot, the one a search by its handle stops at. *)
LEMMA SeatOf ==
  ASSUME NEW l, NEW ls \in Links, NEW h \in In(ls), Mirrors(l, ls)
  PROVE  \E i \in Slots(ls[h].role) :
           i \in AllSlots /\ Sits(l.dev[i], ls[h], h) /\ Matches(l, h) = {i} /\ First(Matches(l, h)) = i
<1>1. PICK i \in Slots(ls[h].role) : Sits(l.dev[i], ls[h], h)
  BY DEF Mirrors, Seated
<1>2. i \in AllSlots
  BY <1>1, SlotsType
<1>3. Matches(l, h) = {i}
  BY <1>1, <1>2 DEF Matches, Mirrors, OneSeat, Sits
<1>4. First(Matches(l, h)) = i
  BY <1>2, <1>3, FirstIn, SlotsType
<1> QED
  BY <1>1, <1>2, <1>3, <1>4

(* dev_char_info_delete_by_connhandle blanks the slot and counts it off. *)
LEMMA DeletePut ==
  ASSUME NEW l \in DevList, NEW h, NEW i \in AllSlots, NEW r \in Role,
         Matches(l, h) = {i}, First(Matches(l, h)) = i, l.dev[i].role = r
  PROVE  /\ Delete(l, h).dev = [l.dev EXCEPT ![i] = NoDev]
         /\ Delete(l, h).central = l.central - (IF r = "central" THEN 1 ELSE 0)
         /\ Delete(l, h).periphr = l.periphr - (IF r = "central" THEN 0 ELSE 1)
<1>1. Delete(l, h) = [Count(l, r, -1) EXCEPT !.dev[i] = NoDev]
  BY DEF Delete, IsConnected, DevOf
<1>2. /\ Count(l, r, -1) \in DevList /\ Count(l, r, -1).dev = l.dev
      /\ Count(l, r, -1).central = l.central - (IF r = "central" THEN 1 ELSE 0)
      /\ Count(l, r, -1).periphr = l.periphr - (IF r = "central" THEN 0 ELSE 1)
  <2>1. l.central \in Int /\ l.periphr \in Int
    BY DEF DevList
  <2> QED
    BY <2>1, CountType DEF Count, DevList
<1>3. PICK m \in DevList : m = Count(l, r, -1)
  BY <1>2
<1>4. /\ [m EXCEPT !.dev[i] = NoDev].dev = [m.dev EXCEPT ![i] = NoDev]
      /\ [m EXCEPT !.dev[i] = NoDev].central = m.central
      /\ [m EXCEPT !.dev[i] = NoDev].periphr = m.periphr
  BY DEF DevList
<1> QED
  BY <1>1, <1>2, <1>3, <1>4

(* dev_char_info_delete_by_connhandle *)
LEMMA MirrorDelete ==
  ASSUME NEW l \in DevList, NEW ls \in Links, NEW h \in In(ls), Mirrors(l, ls)
  PROVE  Mirrors(Delete(l, h), [ls EXCEPT ![h] = NoLink])
<1> DEFINE ms == [ls EXCEPT ![h] = NoLink]
           m == Delete(l, h)
<1>0. ls[h] \in Link /\ ls[h].role \in Role /\ h \in Handle
  BY DEF Links, In, Link
<1>1. PICK i \in Slots(ls[h].role) :
        i \in AllSlots /\ Sits(l.dev[i], ls[h], h) /\ Matches(l, h) = {i} /\ First(Matches(l, h)) = i
  BY SeatOf
<1>2. l.dev[i].conn_state /\ l.dev[i].conn_handle = h /\ l.dev[i].role = ls[h].role
  BY <1>1 DEF Sits
<1>3. /\ m.dev = [l.dev EXCEPT ![i] = NoDev]
      /\ m.central = l.central - (IF ls[h].role = "central" THEN 1 ELSE 0)
      /\ m.periphr = l.periphr - (IF ls[h].role = "central" THEN 0 ELSE 1)
  BY <1>0, <1>1, <1>2, DeletePut
<1>4. m.dev[i] = NoDev /\ \A j \in AllSlots \ {i} : m.dev[j] = l.dev[j]
  BY <1>1, <1>3 DEF DevList
<1>5. \A g \in Handle \ {h} : ms[g] = ls[g]
  BY DEF Links
<1>6. /\ In(ms) = In(ls) \ {h}
      /\ \A r : InAs(ms, r) = InAs(ls, r) \ {h}
      /\ \A r : h \in InAs(ls, r) <=> ls[h].role = r
  <2> SUFFICES ASSUME NEW r
               PROVE  /\ In(ms) = In(ls) \ {h}
                      /\ InAs(ms, r) = InAs(ls, r) \ {h}
                      /\ h \in InAs(ls, r) <=> ls[h].role = r
    BY Zenon
  <2> QED
    BY DropLink, Zenon
<1>7. ~NoDev.conn_state
  BY DEF NoDev
<1> HIDE DEF ms, m
<1>8. \A j \in AllSlots : l.dev[j].conn_state /\ l.dev[j].conn_handle = h => j = i
  BY <1>1, <1>2 DEF Mirrors, OneSeat
<1>9. Seated(m, ms)
  <2> SUFFICES ASSUME NEW g \in In(ms) PROVE \E j \in Slots(ms[g].role) : Sits(m.dev[j], ms[g], g)
    BY DEF Seated
  <2>1. g \in In(ls) /\ ms[g] = ls[g] /\ g # h
    BY <1>5, <1>6 DEF In
  <2>2. PICK j \in Slots(ls[g].role) : Sits(l.dev[j], ls[g], g)
    BY <2>1 DEF Mirrors, Seated
  <2>3. j \in AllSlots /\ j # i
    BY <2>1, <2>2, <1>2, SlotsType DEF Sits
  <2> QED
    BY <2>1, <2>2, <2>3, <1>4
<1>10. NoStranger(m, ms)
  BY <1>4, <1>6, <1>7, <1>8 DEF Mirrors, NoStranger
<1>11. OneSeat(m)
  BY <1>4, <1>7 DEF Mirrors, OneSeat
<1>12. FreeIsBlank(m)
  BY <1>4 DEF Mirrors, FreeIsBlank
<1>13. Counted(m, ms)
  <2>1. /\ IsFiniteSet(InAs(ls, "central")) /\ l.central = Cardinality(InAs(ls, "central"))
        /\ IsFiniteSet(InAs(ls, "periphr")) /\ l.periphr = Cardinality(InAs(ls, "periphr"))
    BY DEF Mirrors, Counted
  <2>2. \A S : IsFiniteSet(S) =>
           /\ IsFiniteSet(S \ {h})
           /\ Cardinality(S \ {h}) = IF h \in S THEN Cardinality(S) - 1 ELSE Cardinality(S)
    BY FS_RemoveElement
  <2>3. l.central \in Int /\ l.periphr \in Int
    BY DEF DevList
  <2>4. CASE ls[h].role = "central"
    <3>1. h \in InAs(ls, "central") /\ h \notin InAs(ls, "periphr")
      BY <1>6, <2>4
    <3>2. m.central = l.central - 1 /\ m.periphr = l.periphr
      BY <1>3, <2>3, <2>4
    <3> QED
      BY <1>6, <2>1, <2>2, <3>1, <3>2 DEF Counted
  <2>5. CASE ls[h].role = "periphr"
    <3>1. h \in InAs(ls, "periphr") /\ h \notin InAs(ls, "central")
      BY <1>6, <2>5
    <3>2. m.periphr = l.periphr - 1 /\ m.central = l.central
      BY <1>3, <2>3, <2>5
    <3> QED
      BY <1>6, <2>1, <2>2, <3>1, <3>2 DEF Counted
  <2> QED
    BY <1>0, <2>4, <2>5 DEF Role
<1> QED
  BY <1>9, <1>10, <1>11, <1>12, <1>13 DEF Mirrors, m, ms

(* The attribute handles c may be filed under p. *)
Rightly(c, p) == p \notin Refusers => c \subseteq {p}

(* The attribute handles in the list are the ones of the connected peers. *)
ListRight(l) == \A i \in AllSlots : Rightly(l.dev[i].chars, l.dev[i].peer)

(* Slot i is the one of the central connection h, and gets the handles c. *)
Fills(l, ls, h, c, i) ==
  /\ h \in InAs(ls, "central") /\ Sits(l.dev[i], ls[h], h)
  /\ AddPeerAttHandle(l, h, c) = [l EXCEPT !.dev[i].chars = c, !.dev[i].valid = TRUE]

(* dev_char_info_add_peer_att_handle touches the slot of the connection it *)
(* is called for, or none.                                                 *)
LEMMA AddPeerPut ==
  ASSUME NEW l \in DevList, NEW ls \in Links, NEW h \in Handle, NEW c,
         Mirrors(l, ls), l.central <= CentralMax
  PROVE  \/ AddPeerAttHandle(l, h, c) = l
         \/ \E i \in AllSlots : Fills(l, ls, h, c, i)
<1> DEFINE seats == {i \in 0 .. l.central - 1 : l.dev[i].conn_handle = h}
<1>1. CASE seats = {}
  BY <1>1 DEF AddPeerAttHandle
<1>2. CASE seats # {}
  <2>1. seats \subseteq Nat
    BY DEF DevList
  <2>2. First(seats) \in seats
    BY <1>2, <2>1, FirstIn
  <2>3. PICK i : i = First(seats)
    OBVIOUS
  <2>4. AddPeerAttHandle(l, h, c) = [l EXCEPT !.dev[i].chars = c, !.dev[i].valid = TRUE]
    BY <1>2, <2>3 DEF AddPeerAttHandle
  <2>5. i \in Slots("central") /\ l.dev[i].conn_handle = h
    BY <2>2, <2>3, MaxNumAssumption DEF Slots, DevList
  <2> HIDE DEF seats
  <2>6. i \in AllSlots
    BY <2>5, SlotsType
  <2>7. l.dev[i].conn_state
    BY <2>5, <2>6, HandleNotZero DEF Mirrors, FreeIsBlank, NoDev
  <2>8. h \in In(ls)
    BY <2>5, <2>6, <2>7 DEF Mirrors, NoStranger
  <2>9. PICK j \in Slots(ls[h].role) :
          j \in AllSlots /\ Sits(l.dev[j], ls[h], h) /\ Matches(l, h) = {j} /\ First(Matches(l, h)) = j
    BY <2>8, SeatOf
  <2>10. i = j
    BY <2>5, <2>6, <2>7, <2>9 DEF Matches
  <2>11. ls[h].role \in Role
    BY <2>8 DEF In, Links, Link
  <2>12. ls[h].role = "central"
    BY <2>5, <2>9, <2>10, <2>11, SlotsOf DEF Role
  <2> QED
    BY <2>4, <2>6, <2>8, <2>9, <2>10, <2>12 DEF InAs, Fills
<1> QED
  BY <1>1, <1>2

(* It keeps the list in step, and right when the handles are the peer's. *)
LEMMA MirrorAddPeer ==
  ASSUME NEW l \in DevList, NEW ls \in Links, NEW h \in Handle, NEW c,
         Mirrors(l, ls), l.central <= CentralMax
  PROVE  /\ Mirrors(AddPeerAttHandle(l, h, c), ls)
         /\ ListRight(l) /\ (h \in InAs(ls, "central") => Rightly(c, ls[h].peer))
              => ListRight(AddPeerAttHandle(l, h, c))
<1>1. CASE AddPeerAttHandle(l, h, c) = l
  BY <1>1
<1>2. CASE AddPeerAttHandle(l, h, c) # l
  <2>1. PICK i \in AllSlots : Fills(l, ls, h, c, i)
    BY <1>2, AddPeerPut
  <2>2. PICK m : m = AddPeerAttHandle(l, h, c)
    OBVIOUS
  <2>0. /\ h \in InAs(ls, "central") /\ Sits(l.dev[i], ls[h], h)
        /\ m = [l EXCEPT !.dev[i].chars = c, !.dev[i].valid = TRUE]
    BY <2>1, <2>2 DEF Fills
  <2>3. /\ m.central = l.central /\ m.periphr = l.periphr
        /\ m.dev[i] = [[l.dev[i] EXCEPT !.chars = c] EXCEPT !.valid = TRUE]
        /\ \A j \in AllSlots \ {i} : m.dev[j] = l.dev[j]
    BY <2>0 DEF DevList
  <2>4. l.dev[i] \in DevInfo
    BY DevType
  <2>5. /\ m.dev[i].conn_state = l.dev[i].conn_state /\ m.dev[i].conn_handle = l.dev[i].conn_handle
        /\ m.dev[i].role = l.dev[i].role /\ m.dev[i].peer = l.dev[i].peer /\ m.dev[i].chars = c
    BY <2>3, <2>4 DEF DevInfo
  <2>6. \A j \in AllSlots :
          /\ m.dev[j].conn_state = l.dev[j].conn_state /\ m.dev[j].conn_handle = l.dev[j].conn_handle
          /\ m.dev[j].role = l.dev[j].role /\ m.dev[j].peer = l.dev[j].peer
    BY <2>3, <2>5
  <2>7. l.dev[i].conn_state /\ l.dev[i].peer = ls[h].peer
    BY <2>0 DEF Sits
  <2>8. Seated(m, ls)
    <3> SUFFICES ASSUME NEW g \in In(ls) PROVE \E j \in Slots(ls[g].role) : Sits(m.dev[j], ls[g], g)
      BY DEF Seated
    <3>1. PICK j \in Slots(ls[g].role) : Sits(l.dev[j], ls[g], g)
      BY DEF Mirrors, Seated
    <3>2. j \in AllSlots
      BY SlotsType
    <3> QED
      BY <3>1, <3>2, <2>6 DEF Sits
  <2>9. NoStranger(m, ls) /\ OneSeat(m) /\ Counted(m, ls)
    BY <2>3, <2>6 DEF Mirrors, NoStranger, OneSeat, Counted
  <2>10. FreeIsBlank(m)
    BY <2>3, <2>5, <2>7 DEF Mirrors, FreeIsBlank
  <2>11. ListRight(l) /\ (h \in InAs(ls, "central") => Rightly(c, ls[h].peer)) => ListRight(m)
    BY <2>0, <2>3, <2>5, <2>7 DEF ListRight, Rightly
  <2> QED
    BY <2>2, <2>8, <2>9, <2>10, <2>11 DEF Mirrors
<1> QED
  BY <1>1, <1>2

(* A device that is entered, and one that is struck out, has no handles. *)
LEMMA RightInsert ==
  ASSUME NEW l \in DevList, NEW h, NEW r \in Role, NEW p, ListRight(l)
  PROVE  ListRight(Insert(l, h, r, p))
<1>1. CASE {i \in Slots(r) : ~l.dev[i].conn_state} = {}
  BY <1>1 DEF Insert
<1>2. CASE \E i \in Slots(r) : ~l.dev[i].conn_state
  <2>1. PICK m : m = Insert(l, h, r, p)
    OBVIOUS
  <2>2. PICK i \in AllSlots : m.dev = [l.dev EXCEPT ![i] = Seat(h, r, p)]
    BY <1>2, <2>1, InsertPut
  <2>3. m.dev[i] = Seat(h, r, p) /\ \A j \in AllSlots \ {i} : m.dev[j] = l.dev[j]
    BY <2>2 DEF DevList
  <2> QED
    BY <2>1, <2>3, SeatFields DEF ListRight, Rightly
<1> QED
  BY <1>1, <1>2

(* The slot of a connection that ends is blanked, handles included. *)
LEMMA RightDelete ==
  ASSUME NEW l \in DevList, NEW ls \in Links, NEW h \in In(ls), Mirrors(l, ls), ListRight(l)
  PROVE  ListRight(Delete(l, h))
<1>1. PICK i \in Slots(ls[h].role) :
        i \in AllSlots /\ Sits(l.dev[i], ls[h], h) /\ Matches(l, h) = {i} /\ First(Matches(l, h)) = i
  BY SeatOf
<1>2. PICK m : m = Delete(l, h)
  OBVIOUS
<1>3. l.dev[i].role \in Role
  BY <1>1, DevType DEF DevInfo
<1>4. m.dev = [l.dev EXCEPT ![i] = NoDev]
  BY <1>1, <1>2, <1>3, DeletePut
<1>5. m.dev[i] = NoDev /\ \A j \in AllSlots \ {i} : m.dev[j] = l.dev[j]
  BY <1>1, <1>4 DEF DevList
<1> QED
  BY <1>2, <1>5 DEF ListRight, Rightly, NoDev
-----------------------------------------------------------------------------
(* The list mirrors the controller's connections, of which it has room for *)
(* the one that is being created too.                                      *)
MInv ==
  /\ Mirrors(list, links) /\ ListRight(list)
  /\ list.central <= CentralMax
  /\ creating # NotCreating => list.central < CentralMax

(* The storage: a record is filed under the peer its handles belong to,    *)
(* and a peer has one.                                                     *)
FInv ==
  /\ \A k \in 1..Len(flash) :
       flash[k].live /\ flash[k].peer # Garbage => Rightly(flash[k].chars, flash[k].peer)
  /\ \A p \in Peer : \A j, k \in Live(flash, p) : j = k

(* What a discovery has gathered is of the peer it will be filed under ... *)
Good ==
  /\ Rightly(sdp.db, curSdp.peer)
  /\ sdp.busy = NoHandle => Rightly({sdp.rsp}, curSdp.peer)
  /\ ~Found(curSdp.peer)
(* ... or it waits for an answer that nobody owes it.                      *)
Stale == sdp.busy # NoHandle /\ (app.sdp # NoHandle => links[app.sdp].owed = 0)

DInv ==
  /\ creating # NotCreating => app.sdp = NoHandle
  /\ app.sdp # NoHandle =>
       curSdp.handle = app.sdp /\ links[app.sdp].peer = curSdp.peer /\ ~Found(curSdp.peer)
  /\ curSdp.handle \in UsedAs("central") => links[curSdp.handle].peer = curSdp.peer
  /\ sdp.waiting => curSdp.handle # NoHandle /\ (Good \/ Stale)
  /\ sdp.waiting /\ sdp.busy = NoHandle /\ at = "ble" => ~creating.sent

Full == IInv /\ MInv /\ FInv /\ DInv

(* The state's connections, as the operators above see them. *)
LEMMA UsedIn == Used = In(links) /\ \A r : UsedAs(r) = InAs(links, r)
  BY DEF Used, UsedAs, In, InAs

(* The shapes the steps below need. *)
LEMMA FullTypes ==
  ASSUME Full
  PROVE  /\ list \in DevList /\ links \in Links /\ app \in App /\ sdp \in Sdp
         /\ curSdp.handle \in AnyHandle
         /\ TypeOK
  BY DEF Full, IInv, TypeOK, Links

(* A step that leaves list and connections alone keeps them in step. *)
LEMMA MInvSame ==
  ASSUME MInv, UNCHANGED <<list, links>>, creating' = creating \/ creating' = NotCreating
  PROVE  MInv'
  BY DEF MInv

(* So does one that only changes the progress of a connection. *)
LEMMA MInvTouch ==
  ASSUME Full, NEW h \in Used, NEW d \in Link, d.role = links[h].role, d.peer = links[h].peer,
         links' = [links EXCEPT ![h] = d], list' = list, creating' = creating
  PROVE  MInv'
<1>1. list \in DevList /\ links \in Links /\ h \in In(links) /\ Mirrors(list, links)
  BY FullTypes, UsedIn DEF Full, MInv
<1>2. Mirrors(list, [links EXCEPT ![h] = d])
  BY <1>1, MirrorTouch
<1>3. Mirrors(list', links')
  BY <1>2
<1> QED
  BY <1>3 DEF Full, MInv

(* The storage is not touched. *)
LEMMA FInvSame == ASSUME FInv, flash' = flash PROVE FInv'
  BY DEF FInv, Live

(* Whether cur_sdp_device has a record does not change by itself. *)
LEMMA CurFound ==
  ASSUME UNCHANGED <<flash, curSdp>> PROVE Found(curSdp.peer)' <=> Found(curSdp.peer)
  BY DEF Found, Live

(* What keeps the discovery, its connection and the storage as they are    *)
(* keeps what is known of them; a request may be answered.                 *)
LEMMA DInvQuiet ==
  ASSUME Full, UNCHANGED <<curSdp, flash, creating>>,
         sdp.waiting /\ sdp.busy = NoHandle => at' = at,
         app'.sdp = app.sdp, sdp'.waiting = sdp.waiting, sdp'.busy = sdp.busy,
         sdp'.rsp = sdp.rsp, sdp'.db = sdp.db,
         UsedAs("central")' = UsedAs("central"),
         \A g \in Handle : links'[g].peer = links[g].peer,
         \A g \in Handle : links[g].owed = 0 => links'[g].owed = 0
  PROVE  DInv'
<1>1. app.sdp \in AnyHandle /\ sdp.busy \in AnyHandle /\ curSdp.handle \in AnyHandle
  BY FullTypes DEF App, Sdp
<1>2. DInv
  BY DEF Full
<1>3. Found(curSdp.peer)' <=> Found(curSdp.peer)
  BY CurFound
<1>4. /\ creating' # NotCreating => app'.sdp = NoHandle
      /\ app'.sdp # NoHandle =>
           curSdp'.handle = app'.sdp /\ links'[app'.sdp].peer = curSdp'.peer /\ ~Found(curSdp.peer)'
  BY <1>1, <1>2, <1>3 DEF DInv, AnyHandle
<1>5. curSdp'.handle \in UsedAs("central")' => links'[curSdp'.handle].peer = curSdp'.peer
  BY <1>2 DEF DInv, UsedAs, Used
<1>6. Good => Good'
  BY <1>3 DEF Good
<1>7. Stale => Stale'
  BY <1>1 DEF Stale, AnyHandle
<1>8. sdp'.waiting => curSdp'.handle # NoHandle /\ (Good' \/ Stale')
  BY <1>2, <1>6, <1>7 DEF DInv
<1>9. sdp'.waiting /\ sdp'.busy = NoHandle /\ at' = "ble" => ~creating'.sent
  BY <1>2 DEF DInv
<1> QED
  BY <1>4, <1>5, <1>8, <1>9 DEF DInv

(* app_le_adv_report_event_handle: no discovery is pending, and there is room. *)
LEMMA AdvReportFull ==
  ASSUME Full, NEW p \in Peer, AdvReport(p) PROVE MInv' /\ FInv' /\ DInv'
<1>1. /\ UNCHANGED <<list, app, curSdp, sdp, at, flash, dirty, bonded, links, cuts>>
      /\ creating' = [peer |-> p, sent |-> FALSE]
      /\ app.sdp = NoHandle /\ Cardinality(UsedAs("central")) < CentralMax
  BY DEF AdvReport, hostVars, flashVars
<1>2. list.central = Cardinality(UsedAs("central"))
  BY UsedIn DEF Full, MInv, Mirrors, Counted
<1>3. MInv'
  BY <1>1, <1>2 DEF Full, MInv
<1>4. FInv'
  BY <1>1, FInvSame DEF Full
<1>5. Found(curSdp.peer)' <=> Found(curSdp.peer)
  BY <1>1, CurFound
<1>6. DInv'
  <2>1. UsedAs("central")' = UsedAs("central")
    BY <1>1 DEF UsedAs, Used
  <2>2. (Good => Good') /\ (Stale => Stale')
    BY <1>1, <1>5 DEF Good, Stale
  <2> QED
    BY <1>1, <2>1, <2>2 DEF Full, DInv
<1> QED
  BY <1>3, <1>4, <1>6

(* What is loaded for a peer is of that peer. *)
LEMMA LoadedRight ==
  ASSUME FInv, TypeOK, NEW p \in Peer, Found(p) PROVE Rightly(Loaded(p), p)
<1>1. First(Live(flash, p)) \in Live(flash, p)
  BY FirstIn, LiveType DEF Found
<1> QED
  <2>1. PICK k \in 1..Len(flash) : k = First(Live(flash, p)) /\ flash[k].live /\ flash[k].peer = p
    BY <1>1 DEF Live
  <2>2. p # Garbage
    BY GarbageAssumption
  <2> QED
    BY <2>1, <2>2 DEF Loaded, FInv

(* A connection that completes while a discovery waits leaves it to its timeout. *)
LEMMA ConnCompleteFull ==
  ASSUME Full, NEW h \in Handle, ConnComplete(h) PROVE MInv' /\ FInv' /\ DInv'
<1> DEFINE p == creating.peer
           k == NewLink(p, "central")
           inserted == Insert(list, h, "central", p)
<1>0. list \in DevList /\ links \in Links /\ app \in App /\ sdp \in Sdp /\ TypeOK
  BY FullTypes
<1>1. creating # NotCreating /\ creating.sent /\ at = "ble"
  BY DEF ConnComplete, NotCreating
<1>2. p \in Peer
  BY <1>1 DEF Full, IInv, Peers
<1>3. /\ links' = [links EXCEPT ![h] = k]
      /\ links[h] = NoLink /\ h \in Handle \ In(links)
      /\ curSdp' = [handle |-> h, peer |-> p]
      /\ creating' = NotCreating
      /\ UNCHANGED <<sdp, at, flash, dirty, bonded, cuts>>
  BY DEF ConnComplete, flashVars, Used, In
<1>4. \/ Found(p) /\ list' = AddPeerAttHandle(inserted, h, Loaded(p))
         /\ app' = [app EXCEPT !.smp = h]
      \/ ~Found(p) /\ list' = inserted /\ app' = [app EXCEPT !.smp = h, !.sdp = h]
  BY DEF ConnComplete
<1>5. k \in Link /\ k.role = "central" /\ k.peer = p /\ k.owed = 0
  BY <1>2 DEF NewLink, Link, Role
<1>6. list.central < CentralMax /\ Mirrors(list, links) /\ ListRight(list)
  BY <1>1 DEF Full, MInv
<1>7. Cardinality(InAs(links, "central")) < RoomFor("central")
  BY <1>6 DEF Mirrors, Counted, RoomFor
<1>8. inserted \in DevList
  BY <1>0, <1>2, InsertType DEF Role
<1>9. Mirrors(inserted, links')
  <2>1. Mirrors(Insert(list, h, k.role, k.peer), [links EXCEPT ![h] = k])
    <3> HIDE DEF k, p, inserted
    <3> QED
      BY <1>0, <1>3, <1>5, <1>6, <1>7, MirrorInsert
  <2> QED
    BY <1>3, <1>5, <2>1
<1>10. ListRight(inserted)
  BY <1>0, <1>6, RightInsert DEF Role
<1>11. inserted.central <= CentralMax
  <2>1. \E i \in Slots("central") : ~list.dev[i].conn_state
    BY <1>0, <1>6, <1>7, FreeSlot DEF Role
  <2>2. inserted.central = list.central + 1
    <3>1. "central" \in Role
      BY DEF Role
    <3> QED
      BY <1>0, <2>1, <3>1, InsertCount
  <2>3. list.central \in Int
    BY <1>0 DEF DevList
  <2> QED
    BY <1>6, <2>2, <2>3, MaxNumAssumption
<1> HIDE DEF p, k, inserted
<1>12. links' \in Links /\ links'[h] = k /\ \A g \in Handle \ {h} : links'[g] = links[g]
  BY <1>0, <1>3, <1>5 DEF Links
<1>13. Mirrors(list', links') /\ ListRight(list') /\ list'.central <= CentralMax
  <2>1. CASE list' = inserted
    BY <2>1, <1>9, <1>10, <1>11
  <2>2. CASE Found(p) /\ list' = AddPeerAttHandle(inserted, h, Loaded(p))
    <3>1. Rightly(Loaded(p), p) /\ links'[h].peer = p
      BY <1>0, <1>2, <1>5, <1>12, <2>2, LoadedRight DEF Full
    <3>2. Mirrors(list', links') /\ ListRight(list')
      BY <1>8, <1>9, <1>10, <1>11, <1>12, <2>2, <3>1, MirrorAddPeer
    <3>3. list'.central = inserted.central
      BY <1>8, <2>2 DEF AddPeerAttHandle, DevList
    <3> QED
      BY <1>11, <3>2, <3>3
  <2> QED
    BY <1>4, <2>1, <2>2
<1>14. MInv'
  BY <1>3, <1>13 DEF MInv
<1>15. FInv'
  BY <1>3, FInvSame DEF Full
<1>16. app.sdp = NoHandle
  BY <1>1 DEF Full, DInv
<1>17. (app'.sdp = h /\ ~Found(p)) \/ app'.sdp = NoHandle
  BY <1>0, <1>4, <1>16 DEF App
<1>18. Found(curSdp.peer)' <=> Found(p)
  BY <1>3 DEF Found, Live
<1>19. sdp.waiting => sdp.busy # NoHandle
  BY <1>1 DEF Full, DInv
<1>20. sdp.waiting => Stale'
  BY <1>3, <1>5, <1>12, <1>17, <1>19 DEF Stale
<1>21. creating'.sent = FALSE
  BY <1>3 DEF NotCreating
<1>22. h # NoHandle
  BY HandleNotZero
<1>23. DInv'
  BY <1>3, <1>5, <1>12, <1>17, <1>18, <1>20, <1>21, <1>22 DEF DInv
<1> QED
  BY <1>14, <1>15, <1>23

(* A peripheral connection is none of the discovery's business. *)
LEMMA PeriphrConnCompleteFull ==
  ASSUME Full, NEW h \in Handle, NEW p \in Peer, PeriphrConnComplete(h, p)
  PROVE  MInv' /\ FInv' /\ DInv'
<1> DEFINE k == NewLink(p, "periphr")
<1>0. list \in DevList /\ links \in Links /\ app \in App /\ sdp \in Sdp /\ TypeOK
      /\ curSdp.handle \in AnyHandle
  BY FullTypes
<1>1. /\ links' = [links EXCEPT ![h] = k]
      /\ links[h] = NoLink /\ h \in Handle \ In(links)
      /\ list' = Insert(list, h, "periphr", p)
      /\ Cardinality(UsedAs("periphr")) < PeriphrMax
      /\ UNCHANGED <<app, curSdp, sdp, at, flash, dirty, bonded, creating, cuts>>
  BY DEF PeriphrConnComplete, flashVars, Used, In
<1>2. k \in Link /\ k.role = "periphr" /\ k.peer = p /\ k.owed = 0
  BY DEF NewLink, Link, Role
<1>3. Mirrors(list, links) /\ ListRight(list)
  BY DEF Full, MInv
<1>4. Cardinality(InAs(links, "periphr")) < RoomFor("periphr")
  BY <1>1, UsedIn DEF RoomFor
<1>5. Mirrors(list', links')
  <2>1. Mirrors(Insert(list, h, k.role, k.peer), [links EXCEPT ![h] = k])
    <3> HIDE DEF k
    <3> QED
      BY <1>0, <1>1, <1>2, <1>3, <1>4, MirrorInsert
  <2> QED
    BY <1>1, <1>2, <2>1
<1>6. ListRight(list')
  BY <1>0, <1>1, <1>3, RightInsert DEF Role
<1>7. list'.central = list.central
  <2>1. \E i \in Slots("periphr") : ~list.dev[i].conn_state
    BY <1>0, <1>3, <1>4, FreeSlot DEF Role
  <2>2. "periphr" \in Role
    BY DEF Role
  <2> QED
    BY <1>0, <1>1, <2>1, <2>2, InsertCount
<1>8. MInv'
  BY <1>1, <1>5, <1>6, <1>7 DEF MInv, Full
<1>9. FInv'
  BY <1>1, FInvSame DEF Full
<1> HIDE DEF k
<1>10. links'[h] = k /\ \A g \in Handle \ {h} : links'[g] = links[g]
  BY <1>0, <1>1 DEF Links
<1>11. UsedAs("central")' = UsedAs("central")
  BY <1>1, <1>2, <1>10, NoLinkOut DEF UsedAs, Used
<1>12. app.sdp # NoHandle => app.sdp \in Handle \ {h}
  BY <1>1 DEF Full, IInv, PendingIsLink, UsedAs, Used
<1>13. curSdp.handle \in UsedAs("central") => curSdp.handle \in Handle \ {h}
  BY <1>1 DEF UsedAs, Used
<1>14. Found(curSdp.peer)' <=> Found(curSdp.peer)
  BY <1>1, CurFound
<1>15. Good => Good'
  BY <1>1, <1>14 DEF Good
<1>16. Stale => Stale'
  <2>1. sdp.busy \in AnyHandle
    BY <1>0 DEF Sdp
  <2> QED
    BY <1>1, <1>2, <1>10, <2>1 DEF Stale, AnyHandle
<1>17. DInv'
  BY <1>1, <1>10, <1>11, <1>12, <1>13, <1>14, <1>15, <1>16 DEF Full, DInv
<1> QED
  BY <1>8, <1>9, <1>17

(* Pairing ends, well or not. *)
LEMMA SmpFull ==
  ASSUME Full, NEW h \in Handle, SmpDone(h) \/ SmpFail(h) PROVE MInv' /\ FInv' /\ DInv'
<1>0. links \in Links /\ app \in App /\ sdp \in Sdp /\ TypeOK
  BY FullTypes
<1>1. /\ h \in Used
      /\ links' = [links EXCEPT ![h].smp = TRUE]
      /\ UNCHANGED <<list, curSdp, at, flash, dirty, creating, cuts>>
  BY DEF SmpDone, SmpFail, flashVars
<1>2. app' = app \/ app' = [app EXCEPT !.smp = NoHandle]
  BY DEF SmpDone, SmpFail
<1>3. sdp' = sdp \/ sdp' = [sdp EXCEPT !.main = TRUE]
  BY DEF SmpDone, SmpFail
<1> DEFINE d == [links[h] EXCEPT !.smp = TRUE]
<1>4. links[h] \in Link
  BY <1>0, <1>1, LinkType
<1>5. d \in Link /\ d.role = links[h].role /\ d.peer = links[h].peer /\ d.owed = links[h].owed
  BY <1>4 DEF Link
<1>6. links' = [links EXCEPT ![h] = d]
  BY <1>1
<1> HIDE DEF d
<1>7. MInv'
  BY <1>1, <1>5, <1>6, MInvTouch
<1>8. UsedAs("central")' = UsedAs("central")
  BY <1>0, <1>1, <1>5, <1>6, TouchLink
<1>9. \A g \in Handle : links'[g].peer = links[g].peer /\ links'[g].owed = links[g].owed
  BY <1>0, <1>5, <1>6 DEF Links
<1>10. /\ app'.sdp = app.sdp /\ sdp'.waiting = sdp.waiting /\ sdp'.busy = sdp.busy
       /\ sdp'.rsp = sdp.rsp /\ sdp'.db = sdp.db
  BY <1>0, <1>2, <1>3 DEF App, Sdp
<1>11. DInv'
  BY <1>1, <1>8, <1>9, <1>10, DInvQuiet
<1>12. FInv'
  BY <1>1, FInvSame DEF Full
<1> QED
  BY <1>7, <1>11, <1>12

(* A link is lost. *)
LEMMA LinkLostFull ==
  ASSUME Full, NEW h \in Handle, LinkLost(h) PROVE MInv' /\ FInv' /\ DInv'
<1>0. links \in Links /\ TypeOK
  BY FullTypes
<1>1. /\ h \in Used
      /\ links' = [links EXCEPT ![h].up = FALSE]
      /\ UNCHANGED <<list, app, sdp, curSdp, at, flash, dirty, creating, cuts>>
  BY DEF LinkLost, flashVars, hostVars
<1> DEFINE d == [links[h] EXCEPT !.up = FALSE]
<1>4. links[h] \in Link
  BY <1>0, <1>1, LinkType
<1>5. d \in Link /\ d.role = links[h].role /\ d.peer = links[h].peer /\ d.owed = links[h].owed
  BY <1>4 DEF Link
<1>6. links' = [links EXCEPT ![h] = d]
  BY <1>1
<1> HIDE DEF d
<1>7. MInv'
  BY <1>1, <1>5, <1>6, MInvTouch
<1>8. UsedAs("central")' = UsedAs("central")
  BY <1>0, <1>1, <1>5, <1>6, TouchLink
<1>9. \A g \in Handle : links'[g].peer = links[g].peer /\ links'[g].owed = links[g].owed
  BY <1>0, <1>5, <1>6 DEF Links
<1>10. DInv'
  BY <1>1, <1>8, <1>9, DInvQuiet
<1>11. FInv'
  BY <1>1, FInvSame DEF Full
<1> QED
  BY <1>7, <1>10, <1>11

(* A packet that is taken is of cur_sdp_device, whose discovery is pending, *)
(* and answers it or is an Error Response to another's request.            *)
LEMMA GattDataFull ==
  ASSUME Full, NEW h \in Used, NEW kind, GattData(h, kind),
         links[h].owed > 0 \/ links[h].peer \in Refusers,
         UNCHANGED <<app, curSdp, at, flash, creating>>,
         UsedAs("central")' = UsedAs("central"),
         \A g \in Handle : links'[g].peer = links[g].peer,
         \A g \in Handle : links[g].owed = 0 => links'[g].owed = 0
  PROVE  DInv'
<1>0. TypeOK /\ DInv /\ h \in Handle /\ h # NoHandle
  BY FullTypes, HandleNotZero DEF Full, Used
<1>1. sdp'.waiting = sdp.waiting /\ sdp'.db = sdp.db
  BY <1>0, GattDataType
<1>2. CASE sdp' = sdp
  BY <1>2, DInvQuiet
<1>3. CASE app.sdp = h /\ sdp'.rsp = links[h].peer /\ sdp'.busy = NoHandle
  <2>1. curSdp.handle = h /\ links[h].peer = curSdp.peer /\ ~Found(curSdp.peer)
    BY <1>0, <1>3 DEF DInv
  <2>2. Found(curSdp.peer)' <=> Found(curSdp.peer)
    BY CurFound
  <2>3. sdp.waiting /\ curSdp.peer \notin Refusers => Good
    BY <1>0, <1>3, <2>1 DEF DInv, Stale, Full, IInv, TypeOK, Link
  <2>4. sdp.waiting => Good'
    BY <1>1, <1>3, <2>1, <2>2, <2>3 DEF Good, Rightly
  <2>5. creating = NotCreating /\ ~creating.sent
    BY <1>0, <1>3 DEF DInv, NotCreating
  <2> QED
    BY <1>0, <1>1, <1>3, <2>1, <2>2, <2>4, <2>5 DEF DInv
<1> QED
  BY <1>0, <1>2, <1>3, GattDataType

(* A response to a discovery's request *)
LEMMA AttRspFull ==
  ASSUME Full, NEW h \in Handle, NEW kind, AttRsp(h, kind) PROVE MInv' /\ FInv' /\ DInv'
<1>0. links \in Links /\ TypeOK
  BY FullTypes
<1>1. /\ h \in Used /\ links[h].owed > 0
      /\ links' = [links EXCEPT ![h].owed = @ - 1]
      /\ GattData(h, kind)
      /\ UNCHANGED <<list, app, curSdp, at, flash, dirty, bonded, creating, cuts>>
  BY DEF AttRsp, flashVars
<1> DEFINE d == [links[h] EXCEPT !.owed = @ - 1]
<1>3. links[h] \in Link
  BY <1>0, <1>1, LinkType
<1>4. d \in Link /\ d.role = links[h].role /\ d.peer = links[h].peer
  BY <1>1, <1>3 DEF Link
<1>5. links' = [links EXCEPT ![h] = d]
  BY <1>1
<1> HIDE DEF d
<1>6. MInv'
  BY <1>1, <1>4, <1>5, MInvTouch
<1>7. FInv'
  BY <1>1, FInvSame DEF Full
<1>8. UsedAs("central")' = UsedAs("central")
  BY <1>0, <1>1, <1>4, <1>5, TouchLink
<1>9. \A g \in Handle : /\ links'[g].peer = links[g].peer
                        /\ links[g].owed = 0 => links'[g].owed = 0
  BY <1>0, <1>1, <1>4, <1>5 DEF Links
<1>10. DInv'
  BY <1>1, <1>8, <1>9, GattDataFull
<1> QED
  BY <1>6, <1>7, <1>10

(* An Error Response to another's request *)
LEMMA AttRefusedFull ==
  ASSUME Full, NEW h \in Handle, AttRefused(h) PROVE MInv' /\ FInv' /\ DInv'
<1>1. /\ h \in Used /\ links[h].peer \in Refusers /\ GattData(h, "error")
      /\ UNCHANGED <<list, app, curSdp, at, flash, links, creating>>
  BY DEF AttRefused, flashVars, ctlVars
<1>2. UsedAs("central")' = UsedAs("central")
  BY <1>1 DEF UsedAs, Used
<1>3. DInv'
  BY <1>1, <1>2, GattDataFull
<1> QED
  BY <1>1, <1>3, MInvSame, FInvSame DEF Full

(* app_disconnect_event_handle calls off what is pending on the connection. *)
LEMMA DisconnectFull ==
  ASSUME Full, NEW h \in Handle, Disconnect(h) PROVE MInv' /\ FInv' /\ DInv'
<1>0. list \in DevList /\ links \in Links /\ app \in App /\ sdp \in Sdp /\ TypeOK
      /\ curSdp.handle \in AnyHandle
  BY FullTypes
<1>1. /\ h \in In(links)
      /\ links' = [links EXCEPT ![h] = NoLink]
      /\ list' = Delete(list, h)
      /\ UNCHANGED <<curSdp, sdp, at, flash, dirty, bonded, creating, cuts>>
  BY UsedIn DEF Disconnect, flashVars
<1>2. app'.sdp = IF app.sdp = h THEN NoHandle ELSE app.sdp
  BY <1>0 DEF Disconnect, App
<1>3. Mirrors(list, links) /\ ListRight(list)
  BY DEF Full, MInv
<1>4. Mirrors(list', links') /\ ListRight(list')
  BY <1>0, <1>1, <1>3, MirrorDelete, RightDelete
<1>5. list'.central <= list.central
  <2>1. PICK i \in Slots(links[h].role) :
          i \in AllSlots /\ Sits(list.dev[i], links[h], h)
          /\ Matches(list, h) = {i} /\ First(Matches(list, h)) = i
    BY <1>0, <1>1, <1>3, SeatOf
  <2>2. list.dev[i].role \in Role
    BY <1>0, <2>1, DevType DEF DevInfo
  <2>3. list'.central = list.central - (IF list.dev[i].role = "central" THEN 1 ELSE 0)
    BY <1>0, <1>1, <2>1, <2>2, DeletePut
  <2>4. list.central \in Int
    BY <1>0 DEF DevList
  <2> QED
    BY <2>3, <2>4
<1>6. list.central \in Int /\ list'.central \in Int
  BY <1>0, <1>1, DeleteType DEF DevList
<1>7. MInv'
  BY <1>1, <1>4, <1>5, <1>6, MaxNumAssumption DEF Full, MInv
<1>8. FInv'
  BY <1>1, FInvSame DEF Full
<1>9. links'[h] = NoLink /\ \A g \in Handle \ {h} : links'[g] = links[g]
  BY <1>0, <1>1 DEF Links
<1>10. \A g \in UsedAs("central")' : g \in UsedAs("central") /\ g # h /\ links'[g] = links[g]
  BY <1>9 DEF UsedAs, Used
<1>11. app.sdp \in AnyHandle /\ sdp.busy \in AnyHandle
  BY <1>0 DEF App, Sdp
<1>12. Found(curSdp.peer)' <=> Found(curSdp.peer)
  BY <1>1, CurFound
<1>13. Good => Good'
  BY <1>1, <1>12 DEF Good
<1>14. Stale => Stale'
  BY <1>1, <1>2, <1>9, <1>11 DEF Stale, AnyHandle
<1>15. /\ creating' # NotCreating => app'.sdp = NoHandle
       /\ app'.sdp # NoHandle =>
            curSdp'.handle = app'.sdp /\ links'[app'.sdp].peer = curSdp'.peer /\ ~Found(curSdp.peer)'
  BY <1>1, <1>2, <1>9, <1>11, <1>12 DEF Full, DInv, AnyHandle
<1>16. curSdp'.handle \in UsedAs("central")' => links'[curSdp'.handle].peer = curSdp'.peer
  BY <1>1, <1>10 DEF Full, DInv
<1>17. DInv'
  BY <1>1, <1>13, <1>14, <1>15, <1>16 DEF Full, DInv
<1> QED
  BY <1>7, <1>8, <1>17

(* Striking out a record leaves the others alone. *)
LEMMA StrikeOut ==
  ASSUME TypeOK, FInv, NEW q, DeleteAttHandle(q)
  PROVE  FInv' /\ \A p : Live(flash', p) \subseteq Live(flash, p)
<1>1. CASE ~Found(q)
  <2>1. flash' = flash
    BY <1>1 DEF DeleteAttHandle
  <2> QED
    BY <2>1, FInvSame
<1>2. CASE Found(q)
  <2> DEFINE n == First(Live(flash, q))
  <2>1. n \in 1..Len(flash)
    BY <1>2, FirstIn, LiveType DEF Found
  <2>2. flash' = [flash EXCEPT ![n].live = FALSE]
    BY <1>2 DEF DeleteAttHandle
  <2> HIDE DEF n
  <2>3. flash \in Seq(AttRecord) /\ flash[n] \in AttRecord
    BY <2>1 DEF TypeOK
  <2>4. Len(flash') = Len(flash) /\ (\A k \in 1..Len(flash) \ {n} : flash'[k] = flash[k])
        /\ flash'[n] = [flash[n] EXCEPT !.live = FALSE]
    <3>1. PICK r : r = [flash[n] EXCEPT !.live = FALSE]
      OBVIOUS
    <3>2. flash' = [flash EXCEPT ![n] = r]
      BY <2>2, <3>1
    <3>3. Len(flash') = Len(flash) /\ flash'[n] = r
          /\ (\A k \in 1..Len(flash) \ {n} : flash'[k] = flash[k])
      BY <2>1, <2>3, <3>2
    <3> QED
      BY <3>1, <3>3
  <2>5. ~flash'[n].live
    BY <2>3, <2>4 DEF AttRecord
  <2>6. \A p : Live(flash', p) \subseteq Live(flash, p)
    BY <2>4, <2>5 DEF Live
  <2>7. \A k \in 1..Len(flash') :
          flash'[k].live /\ flash'[k].peer # Garbage => Rightly(flash'[k].chars, flash'[k].peer)
    BY <2>4, <2>5 DEF FInv
  <2>8. \A p \in Peer : \A j, k \in Live(flash', p) : j = k
    BY <2>6 DEF FInv
  <2> QED
    BY <2>6, <2>7, <2>8 DEF FInv
<1> QED
  BY <1>1, <1>2

(* Un-pairing only strikes records out. *)
LEMMA UiLoopFull ==
  ASSUME Full, NEW k \in Key, UiLoop(k) PROVE MInv' /\ FInv' /\ DInv'
<1>0. TypeOK /\ FInv /\ DInv
  BY FullTypes DEF Full
<1>1. PICK a : a = AfterKey(k)
  OBVIOUS
<1>2. a \in App /\ a.sdp = app.sdp
  BY <1>0, <1>1, AfterKeyType
<1>3. Unpair(a)
  BY <1>1 DEF UiLoop
<1>4. /\ at' = "caller"
      /\ UNCHANGED <<list, curSdp, sdp, dirty, links, cuts>>
      /\ creating' # NotCreating => creating # NotCreating
  BY DEF UiLoop
<1>5. app'.sdp = app.sdp
  BY <1>2, <1>3 DEF Unpair, App
<1>6. FInv' /\ \A p : Live(flash', p) \subseteq Live(flash, p)
  <2>1. flash' = flash \/ \E p : DeleteAttHandle(p)
    BY <1>3 DEF Unpair
  <2>2. CASE flash' = flash
    BY <1>0, <2>2, FInvSame
  <2>3. CASE \E p : DeleteAttHandle(p)
    BY <1>0, <2>3, StrikeOut
  <2> QED
    BY <2>1, <2>2, <2>3
<1>7. MInv'
  BY <1>4 DEF Full, MInv
<1>8. ~Found(curSdp.peer) => ~Found(curSdp.peer)'
  BY <1>4, <1>6 DEF Found
<1>9. (Good => Good') /\ (Stale => Stale')
  BY <1>4, <1>5, <1>8 DEF Good, Stale
<1>10. UsedAs("central")' = UsedAs("central")
  BY <1>4 DEF UsedAs, Used
<1>11. DInv'
  BY <1>0, <1>4, <1>5, <1>8, <1>9, <1>10 DEF DInv
<1> QED
  BY <1>6, <1>7, <1>11

(* Pushing a request leaves the list's mirror alone. *)
LEMMA RequestFull ==
  ASSUME Full, NEW s \in Sdp, NEW h \in AnyHandle, Request(s, h), list' = list, creating' = creating
  PROVE  /\ MInv' /\ sdp'.waiting /\ sdp'.busy = h /\ sdp'.db = s.db
         /\ \A g \in Handle : links'[g].peer = links[g].peer
         /\ UsedAs("central")' = UsedAs("central")
<1>0. TypeOK /\ links \in Links
  BY FullTypes
<1>1. sdp'.waiting /\ sdp'.busy = h /\ UsedAs("central")' = UsedAs("central")
  BY <1>0, RequestType
<1>2. sdp'.db = s.db
  BY DEF Request, Sdp
<1>3. CASE links' = links
  BY <1>1, <1>2, <1>3, MInvSame DEF Full
<1>4. CASE h \in Used /\ links' = [links EXCEPT ![h].owed = @ + 1]
  <2>1. links[h] \in Link
    BY <1>0, <1>4, LinkType
  <2> DEFINE d == [links[h] EXCEPT !.owed = @ + 1]
  <2>2. d \in Link /\ d.role = links[h].role /\ d.peer = links[h].peer
    BY <2>1 DEF Link
  <2>3. links' = [links EXCEPT ![h] = d]
    BY <1>4
  <2> HIDE DEF d
  <2>4. MInv'
    BY <1>4, <2>2, <2>3, MInvTouch
  <2>5. \A g \in Handle : links'[g].peer = links[g].peer
    BY <1>0, <2>2, <2>3 DEF Links
  <2> QED
    BY <1>1, <1>2, <2>4, <2>5
<1> QED
  BY <1>3, <1>4 DEF Request

(* A discovery starts for a peer that has no record. *)
LEMMA SdpLoopFull == ASSUME Full, SdpLoop PROVE MInv' /\ FInv' /\ DInv'
<1>0. TypeOK /\ FInv /\ DInv /\ app.sdp \in AnyHandle /\ sdp \in Sdp /\ links \in Links
      /\ curSdp.handle \in AnyHandle
  BY FullTypes DEF Full, App
<1>1. /\ ~sdp.waiting /\ at' = "ble"
      /\ UNCHANGED <<list, app, curSdp, flash, dirty, bonded, creating, cuts>>
  BY DEF SdpLoop, flashVars
<1>2. FInv' /\ (Found(curSdp.peer)' <=> Found(curSdp.peer))
  BY <1>0, <1>1, FInvSame, CurFound
<1>3. CASE app.sdp # NoHandle /\ Request([sdp EXCEPT !.db = {}, !.rsp = NoPeer], app.sdp)
  <2>1. /\ [sdp EXCEPT !.db = {}, !.rsp = NoPeer] \in Sdp
        /\ [sdp EXCEPT !.db = {}, !.rsp = NoPeer].db = {}
    BY <1>0 DEF Sdp
  <2>2. /\ MInv' /\ sdp'.waiting /\ sdp'.busy = app.sdp /\ sdp'.db = {}
        /\ \A g \in Handle : links'[g].peer = links[g].peer
        /\ UsedAs("central")' = UsedAs("central")
    BY <1>0, <1>1, <1>3, <2>1, RequestFull
  <2>3. curSdp.handle = app.sdp /\ links[app.sdp].peer = curSdp.peer /\ ~Found(curSdp.peer)
    BY <1>0, <1>3 DEF DInv
  <2>4. Good'
    BY <1>1, <1>2, <1>3, <2>2, <2>3 DEF Good, Rightly
  <2>5. app.sdp \in Handle
    BY <1>0, <1>3 DEF AnyHandle
  <2>6. DInv'
    BY <1>0, <1>1, <1>2, <1>3, <2>2, <2>3, <2>4, <2>5 DEF DInv
  <2> QED
    BY <1>2, <2>2, <2>6
<1>4. CASE sdp' = [sdp EXCEPT !.main = FALSE] /\ UNCHANGED links
  <2>1. /\ sdp'.waiting = sdp.waiting /\ sdp'.busy = sdp.busy
        /\ sdp'.rsp = sdp.rsp /\ sdp'.db = sdp.db
    BY <1>0, <1>4 DEF Sdp
  <2>2. MInv'
    BY <1>1, <1>4, MInvSame DEF Full
  <2>3. UsedAs("central")' = UsedAs("central")
    BY <1>4 DEF UsedAs, Used
  <2>4. DInv'
    BY <1>1, <1>4, <2>1, <2>3, DInvQuiet
  <2> QED
    BY <1>2, <2>2, <2>4
<1> QED
  BY <1>3, <1>4 DEF SdpLoop

(* The discovery waits on. *)
LEMMA KeepWaitingFull == ASSUME Full, KeepWaiting PROVE MInv' /\ FInv' /\ DInv'
<1>1. /\ sdp.busy # NoHandle
      /\ UNCHANGED <<list, app, curSdp, sdp, flash, dirty, bonded, links, creating, cuts>>
  BY DEF KeepWaiting, flashVars, ctlVars
<1>2. UsedAs("central")' = UsedAs("central")
  BY <1>1 DEF UsedAs, Used
<1> QED
  BY <1>1, <1>2, DInvQuiet, MInvSame, FInvSame DEF Full

(* The discovery files the response with what it has. *)
LEMMA NextRequestFull == ASSUME Full, NextRequest PROVE MInv' /\ FInv' /\ DInv'
<1>0. TypeOK /\ FInv /\ DInv /\ sdp \in Sdp /\ sdp.handle \in AnyHandle /\ app.sdp \in AnyHandle
      /\ curSdp.handle \in AnyHandle
  BY FullTypes DEF Full, App, Sdp
<1> DEFINE s == [sdp EXCEPT !.db = @ \cup {sdp.rsp}, !.rsp = NoPeer]
<1>1. /\ sdp.waiting /\ sdp.busy = NoHandle /\ at' = "ble"
      /\ Request(s, sdp.handle)
      /\ UNCHANGED <<list, app, curSdp, flash, dirty, bonded, creating, cuts>>
  BY DEF NextRequest, flashVars
<1>2. sdp.rsp \in Peer /\ sdp.handle # NoHandle
  BY <1>1 DEF Full, IInv, Peers
<1>3. s \in Sdp /\ s.db = sdp.db \cup {sdp.rsp}
  BY <1>0, <1>2 DEF Sdp
<1> HIDE DEF s
<1>4. /\ MInv' /\ sdp'.waiting /\ sdp'.busy = sdp.handle /\ sdp'.db = sdp.db \cup {sdp.rsp}
      /\ \A g \in Handle : links'[g].peer = links[g].peer
      /\ UsedAs("central")' = UsedAs("central")
  BY <1>0, <1>1, <1>3, RequestFull
<1>5. FInv' /\ (Found(curSdp.peer)' <=> Found(curSdp.peer))
  BY <1>0, <1>1, FInvSame, CurFound
<1>6. Good
  BY <1>0, <1>1 DEF DInv, Stale
<1>7. Good'
  BY <1>1, <1>2, <1>4, <1>5, <1>6 DEF Good, Rightly
<1>8. DInv'
  BY <1>0, <1>1, <1>2, <1>4, <1>5, <1>7 DEF DInv, AnyHandle
<1> QED
  BY <1>4, <1>5, <1>8

(* A discovery that is over leaves nothing to hold. *)
LEMMA ReturnFull ==
  ASSUME Full, Return, UNCHANGED <<curSdp, links, creating>> PROVE DInv'
<1>1. app'.sdp = NoHandle /\ ~sdp'.waiting
  BY FullTypes, ReturnFacts
<1>2. UsedAs("central")' = UsedAs("central")
  BY DEF UsedAs, Used
<1> QED
  BY <1>1, <1>2 DEF Full, DInv

(* The discovery gives up. *)
LEMMA TimeoutFull == ASSUME Full, Timeout PROVE MInv' /\ FInv' /\ DInv'
<1>1. Return /\ UNCHANGED <<list, curSdp, flash, links, creating>>
  BY DEF Timeout, flashVars, ctlVars
<1> QED
  BY <1>1, ReturnFull, MInvSame, FInvSame DEF Full

(* A record is only stored for a peer that has none. *)
LEMMA StoreFull ==
  ASSUME TypeOK, FInv, NEW p \in Peer, NEW c, Rightly(c, p), ~Found(p), StoreAttHandle(p, c)
  PROVE  FInv'
<1>1. CASE ~(Len(flash) < FlashNum)
  BY <1>1, FInvSame DEF StoreAttHandle, flashVars
<1>2. CASE Len(flash) < FlashNum
  <2> DEFINE q == StoredPeer(p)
             r == [live |-> TRUE, peer |-> q, chars |-> c]
             n == Len(flash) + 1
  <2>1. flash' = Append(flash, r)
    BY <1>2 DEF StoreAttHandle
  <2>2. r.live /\ r.peer = q /\ r.chars = c /\ q \in {p, Garbage}
    BY DEF StoredPeer
  <2> HIDE DEF r, q
  <2>3. flash \in Seq(AttRecord) /\ Len(flash) \in Nat
    BY DEF TypeOK
  <2>4. Len(flash') = n /\ flash'[n] = r /\ \A k \in 1..Len(flash) : flash'[k] = flash[k]
    BY <2>1, <2>3
  <2>5. \A k \in 1..Len(flash') : k = n \/ k \in 1..Len(flash)
    BY <2>3, <2>4
  <2> HIDE DEF n
  <2>6. \A k \in 1..Len(flash') :
          flash'[k].live /\ flash'[k].peer # Garbage => Rightly(flash'[k].chars, flash'[k].peer)
    BY <2>2, <2>4, <2>5 DEF FInv
  <2>7. ASSUME NEW t \in Peer, NEW j \in Live(flash', t), NEW k \in Live(flash', t) PROVE j = k
    <3>1. t # Garbage
      BY GarbageAssumption
    <3>2. \A i \in Live(flash', t) : (i = n /\ t = q) \/ i \in Live(flash, t)
      BY <2>2, <2>4, <2>5 DEF Live
    <3>3. CASE t = p
      <4>1. Live(flash, t) = {}
        BY <3>3 DEF Found
      <4> QED
        BY <3>2, <4>1
    <3>4. CASE t # p
      <4>1. t # q
        BY <2>2, <3>1, <3>4
      <4> QED
        BY <3>2, <4>1 DEF FInv
    <3> QED
      BY <3>3, <3>4
  <2> QED
    BY <2>6, <2>7 DEF FInv
<1> QED
  BY <1>1, <1>2

(* The discovery stores for the peer it gathered from. *)
LEMMA FinishFull == ASSUME Full, Finish PROVE MInv' /\ FInv' /\ DInv'
<1>0. TypeOK /\ FInv /\ DInv /\ sdp \in Sdp /\ curSdp.handle \in AnyHandle
      /\ list \in DevList /\ links \in Links
  BY FullTypes DEF Full
<1> DEFINE chars == sdp.db \cup {sdp.rsp}
<1>1. /\ sdp.waiting /\ sdp.busy = NoHandle
      /\ list' = AddPeerAttHandle(list, curSdp.handle, chars)
      /\ StoreAttHandle(curSdp.peer, chars)
      /\ Return
      /\ UNCHANGED <<curSdp, bonded, links, creating, cuts>>
  BY DEF Finish, ctlVars
<1>2. Good /\ curSdp.handle # NoHandle
  BY <1>0, <1>1 DEF DInv, Stale
<1>3. Rightly(chars, curSdp.peer) /\ curSdp.peer \in Peer /\ ~Found(curSdp.peer)
  BY <1>1, <1>2 DEF Good, Rightly, Full, IInv, Peers
<1>4. curSdp.handle \in Handle
  BY <1>0, <1>2 DEF AnyHandle
<1> HIDE DEF chars
<1>5. FInv'
  BY <1>0, <1>1, <1>3, StoreFull
<1>6. DInv'
  BY <1>1, ReturnFull
<1>7. curSdp.handle \in InAs(links, "central") => Rightly(chars, links[curSdp.handle].peer)
  BY <1>0, <1>3, UsedIn DEF DInv
<1>8. Mirrors(list, links) /\ ListRight(list) /\ list.central <= CentralMax
  BY DEF Full, MInv
<1>9. Mirrors(list', links') /\ ListRight(list')
  BY <1>0, <1>1, <1>4, <1>7, <1>8, MirrorAddPeer
<1>10. list'.central = list.central
  BY <1>0, <1>1 DEF AddPeerAttHandle, DevList
<1>11. MInv'
  BY <1>1, <1>9, <1>10 DEF Full, MInv
<1> QED
  BY <1>5, <1>6, <1>11

(* Nobody is connected, and nothing is under way. *)
LEMMA BlankFull ==
  /\ Mirrors(EmptyList, [h \in Handle |-> NoLink]) /\ ListRight(EmptyList)
  /\ EmptyList.central = 0
<1> DEFINE ls == [h \in Handle |-> NoLink]
<1>1. In(ls) = {} /\ \A r : InAs(ls, r) = {}
  BY DEF In, InAs
<1> HIDE DEF ls
<1>2. EmptyList.central = 0 /\ EmptyList.periphr = 0 /\ \A i \in AllSlots : EmptyList.dev[i] = NoDev
  BY DEF EmptyList
<1>3. ~NoDev.conn_state /\ NoDev.chars = {}
  BY DEF NoDev
<1>4. Counted(EmptyList, ls)
  BY <1>1, <1>2, FS_EmptySet DEF Counted
<1>5. ListRight(EmptyList)
  BY <1>2, <1>3 DEF ListRight, Rightly
<1>6. Seated(EmptyList, ls) /\ NoStranger(EmptyList, ls) /\ OneSeat(EmptyList) /\ FreeIsBlank(EmptyList)
  BY <1>1, <1>2, <1>3 DEF Seated, NoStranger, OneSeat, FreeIsBlank
<1> QED
  BY <1>2, <1>4, <1>5, <1>6 DEF Mirrors, ls

(* The power fails: nothing but the storage is left. *)
LEMMA PowerFailFull ==
  ASSUME Full, PowerFail \/ PowerFailInStore PROVE MInv' /\ FInv' /\ DInv'
<1>1. /\ list' = EmptyList /\ app' = IdleApp /\ sdp' = IdleSdp
      /\ curSdp' = [handle |-> NoHandle, peer |-> NoPeer]
      /\ links' = [h \in Handle |-> NoLink] /\ creating' = NotCreating
      /\ flash' = flash
  BY DEF PowerFail, PowerFailInStore, PowerOn, flashVars
<1>2. MInv'
  BY <1>1, BlankFull, MaxNumAssumption DEF MInv
<1>3. UsedAs("central")' = {}
  BY <1>1 DEF UsedAs, Used
<1>4. DInv'
  BY <1>1, <1>3 DEF DInv, IdleApp, IdleSdp
<1> QED
  BY <1>1, <1>2, <1>4, FInvSame DEF Full

(* The whole invariant holds after start-up, *)
LEMMA FullInit == Init => Full
<1> SUFFICES ASSUME Init PROVE MInv /\ FInv /\ DInv
  BY InitIInv DEF Full
<1>1. /\ list = EmptyList /\ app = IdleApp /\ sdp = IdleSdp
      /\ curSdp = [handle |-> NoHandle, peer |-> NoPeer]
      /\ links = [h \in Handle |-> NoLink] /\ creating = NotCreating
      /\ flash = <<>>
  BY DEF Init
<1>2. MInv
  BY <1>1, BlankFull, MaxNumAssumption DEF MInv
<1>3. UsedAs("central") = {}
  BY <1>1 DEF UsedAs, Used
<1>4. DInv
  BY <1>1, <1>3 DEF DInv, IdleApp, IdleSdp
<1>5. FInv
  BY <1>1 DEF FInv, Live
<1> QED
  BY <1>2, <1>4, <1>5

(* every step keeps it, *)
LEMMA FullStep == Full /\ [Next]_vars => Full'
<1> SUFFICES ASSUME Full, [Next]_vars PROVE MInv' /\ FInv' /\ DInv'
  BY StepIInv DEF Full
<1>1. CASE UNCHANGED vars
  <2>1. UNCHANGED <<list, app, curSdp, sdp, at, flash, links, creating>>
    BY <1>1 DEF vars, hostVars, flashVars, ctlVars
  <2>2. UsedAs("central")' = UsedAs("central")
    BY <2>1 DEF UsedAs, Used
  <2> QED
    BY <2>1, <2>2, DInvQuiet, MInvSame, FInvSame DEF Full
<1>2. CASE \E p \in Peer : AdvReport(p)
  BY <1>2, AdvReportFull
<1>3. CASE \E h \in Handle : ConnComplete(h)
  BY <1>3, ConnCompleteFull
<1>4. CASE \E h \in Handle : SmpDone(h) \/ SmpFail(h)
  BY <1>4, SmpFull
<1>5. CASE (\E h \in Handle, kind \in Packet : AttRsp(h, kind)) \/ (\E h \in Handle : AttRefused(h))
  BY <1>5, AttRspFull, AttRefusedFull
<1>6. CASE \E h \in Handle : LinkLost(h)
  BY <1>6, LinkLostFull
<1>7. CASE \E h \in Handle : Disconnect(h)
  BY <1>7, DisconnectFull
<1>8. CASE \E h \in Handle, p \in Peer : PeriphrConnComplete(h, p)
  BY <1>8, PeriphrConnCompleteFull
<1>9. CASE \E k \in Key : UiLoop(k)
  BY <1>9, UiLoopFull
<1>10. CASE SdpLoop \/ KeepWaiting \/ Timeout \/ NextRequest \/ Finish
  BY <1>10, SdpLoopFull, KeepWaitingFull, TimeoutFull, NextRequestFull, FinishFull
<1>11. CASE PowerFail \/ PowerFailInStore
  BY <1>11, PowerFailFull
<1> QED
  BY <1>1, <1>2, <1>3, <1>4, <1>5, <1>6, <1>7, <1>8, <1>9, <1>10, <1>11 DEF Next

(* and it always holds. *)
LEMMA FullAlways == Spec => []Full
<1> QED
  BY FullInit, FullStep, PTL DEF Spec

(* dev_char_info_insert_by_conn_event and                                  *)
(* dev_char_info_delete_by_connhandle keep conn_dev_list in step with the  *)
(* controller: every connection has one slot, of its role, every occupied  *)
(* slot has a connection, and the counters count them, for any number of   *)
(* slots, handles and peers.                                               *)
THEOREM ListInStep == Spec => []ListMirrorsLinks
<1>1. ASSUME Full PROVE ListMirrorsLinks
  <2>1. links \in Links /\ Mirrors(list, links)
    BY <1>1, FullTypes DEF Full, MInv
  <2>2. ASSUME NEW h \in Used
        PROVE \E i \in Slots(links[h].role) :
                /\ Matches(list, h) = {i}
                /\ list.dev[i].role = links[h].role /\ list.dev[i].peer = links[h].peer
    <3>1. PICK i \in Slots(links[h].role) :
            i \in AllSlots /\ Sits(list.dev[i], links[h], h)
            /\ Matches(list, h) = {i} /\ First(Matches(list, h)) = i
      BY <2>1, UsedIn, SeatOf
    <3> QED
      BY <3>1 DEF Sits
  <2>3. \A i \in AllSlots : list.dev[i].conn_state => list.dev[i].conn_handle \in Used
    BY <2>1, UsedIn DEF Mirrors, NoStranger
  <2>4. list.central = Cardinality(UsedAs("central")) /\ list.periphr = Cardinality(UsedAs("periphr"))
    BY <2>1, UsedIn DEF Mirrors, Counted
  <2> QED
    BY <2>2, <2>3, <2>4 DEF ListMirrorsLinks
<1> QED
  BY <1>1, FullAlways, PTL

(* Neither dev_char_info_add_peer_att_handle nor                           *)
(* dev_char_info_store_peer_att_handle files attribute handles under       *)
(* another peer, although every handler may run inside                     *)
(* app_service_discovery and handles are used again; but for peers that    *)
(* send Error Responses to the requests of others.                         *)
THEOREM HandlesOfThePeer == Spec => []RightHandles
<1>1. Full => RightHandles
  BY DEF Full, MInv, ListRight, FInv, Rightly, RightHandles
<1> QED
  BY <1>1, FullAlways, PTL

(* dev_char_info_store_peer_att_handle never gives a peer a second live    *)
(* record, however often and wherever the power failed before.             *)
THEOREM OneRecord == Spec => []OneRecordPerPeer
<1>1. ASSUME Full PROVE OneRecordPerPeer
  <2> SUFFICES ASSUME NEW p \in Peer PROVE Cardinality(Live(flash, p)) <= 1
    BY DEF OneRecordPerPeer
  <2>1. \A j, k \in Live(flash, p) : j = k
    BY <1>1 DEF Full, FInv
  <2>2. CASE Live(flash, p) = {}
    BY <2>2, FS_EmptySet
  <2>3. CASE Live(flash, p) # {}
    <3>1. PICK j : Live(flash, p) = {j}
      BY <2>1, <2>3
    <3>2. Cardinality({j}) = 1
      BY FS_Singleton
    <3> QED
      BY <3>1, <3>2
  <2> QED
    BY <2>2, <2>3
<1> QED
  BY <1>1, FullAlways, PTL
=============================================================================
