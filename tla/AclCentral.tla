----------------------------- MODULE AclCentral -----------------------------
(***************************************************************************)
(* The central role of the ACL connection demo: which connections are      *)
(* created, paired, searched for services and un-paired.  It composes      *)
(*   vendor/acl_connection_demo/app.c     the event handlers,              *)
(*   vendor/acl_connection_demo/app_ui.c  the keys and un-pairing,         *)
(*   vendor/common/simple_sdp.c           service discovery and its flash, *)
(*   vendor/common/device_manage.c        the list (module DeviceManage)   *)
(* with the BLE controller and the peers they talk to.                     *)
(*                                                                         *)
(* Service discovery is a loop that waits for every response by running    *)
(* main_idle_loop inside, so every event handler and the keys may run in   *)
(* the middle of a discovery.  One main_idle_loop is: any number of events *)
(* (at = "ble"), then the keys and un-pairing (action UiLoop); then        *)
(* whoever called it goes on (at = "caller").                              *)
(*                                                                         *)
(* Attribute handles are represented by the peer they belong to.  Flash    *)
(* records are only appended and struck out; dirty is what a store that    *)
(* was cut short left in the first free record.                            *)
(***************************************************************************)
EXTENDS DeviceManage, Sequences

CONSTANTS
  FlashNum,  \* FLASH_SDP_ATT_MAX_SIZE / sizeof(dev_att_t)
  Garbage,   \* address bytes that are no peer's
  Refusers,  \* peers that send Error Responses to requests of others than the
             \* discovery, such as the MTU exchange of the stack
  MaxOwed,   \* bound: no such Error Response while a connection owes so many answers
  MaxCuts    \* bound: how often the power fails

ASSUME FlashNumAssumption == FlashNum \in Nat
ASSUME GarbageAssumption == Garbage \notin Peer \cup {NoPeer}
ASSUME RefusersAssumption == Refusers \subseteq Peer
ASSUME MaxOwedAssumption == MaxOwed \in Nat
ASSUME MaxCutsAssumption == MaxCuts \in Nat

VARIABLES
  list,      \* conn_dev_list and its counters
  app,       \* the flags of app.c and app_ui.c
  curSdp,    \* cur_sdp_device
  sdp,       \* main_service, the pending request, and the discovery's frame
  at,        \* where the main loop is
  flash,     \* dev_att_t records
  dirty,     \* remains of a torn record behind them, or NoPeer
  bonded,    \* external: peers in the SMP storage
  links,     \* external: the controller's connections
  creating,  \* external: the connection that is being created
  cuts       \* power failures so far

hostVars == <<list, app, curSdp, sdp, at>>
flashVars == <<flash, dirty>>
ctlVars == <<bonded, links, creating>>
vars == <<hostVars, flashVars, ctlVars, cuts>>

AnyHandle == Handle \cup {NoHandle}
App == [smp : AnyHandle,      \* central_smp_pending
        sdp : AnyHandle,      \* central_sdp_pending
        disc : AnyHandle,     \* central_disconnect_connhandle
        unpair : AnyHandle,   \* central_unpair_enable
        pairing : BOOLEAN]    \* central_pairing_enable

Sdp == [main : BOOLEAN,       \* main_service is app_service_discovery
        waiting : BOOLEAN,    \* in host_att_service_wait_event
        handle : AnyHandle,   \* the discovery's handle argument
        busy : AnyHandle,     \* host_att_req_busy
        buffer : BOOLEAN,     \* p_att_response is not NULL: the frame of the
                              \* discovery that waits, or of the last that did
        rsp : Peer \cup {NoPeer},  \* who filled that buffer
        db : SUBSET Peer]     \* who filled db16 and db128

AttRecord == [live : BOOLEAN, peer : Peer \cup {Garbage}, chars : SUBSET Peer]

(* A connection of the controller.  owed: how many discovery requests that *)
(* were sent on it are still to be answered.                               *)
Link == [peer : Peer, role : Role, up : BOOLEAN, smp : BOOLEAN, owed : Nat]
NoLink == [peer |-> NoPeer, role |-> "central", up |-> FALSE, smp |-> FALSE, owed |-> 0]

Used == {h \in Handle : links[h] # NoLink}
UsedAs(r) == {h \in Used : links[h].role = r}
Connected(p) == \E h \in Used : links[h].peer = p

IdleApp == [smp |-> NoHandle, sdp |-> NoHandle, disc |-> NoHandle,
            unpair |-> NoHandle, pairing |-> FALSE]
IdleSdp == [main |-> FALSE, waiting |-> FALSE, handle |-> NoHandle,
            busy |-> NoHandle, buffer |-> FALSE, rsp |-> NoPeer, db |-> {}]
NotCreating == [peer |-> NoPeer, sent |-> FALSE]

PowerOn ==
  /\ list' = EmptyList
  /\ app' = IdleApp
  /\ curSdp' = [handle |-> NoHandle, peer |-> NoPeer]
  /\ sdp' = IdleSdp
  /\ at' = "ble"
  /\ links' = [h \in Handle |-> NoLink]
  /\ creating' = NotCreating

Init ==
  /\ list = EmptyList
  /\ app = IdleApp
  /\ curSdp = [handle |-> NoHandle, peer |-> NoPeer]
  /\ sdp = IdleSdp
  /\ at = "ble"
  /\ flash = <<>>
  /\ dirty = NoPeer
  /\ bonded = {}
  /\ links = [h \in Handle |-> NoLink]
  /\ creating = NotCreating
  /\ cuts = 0

-----------------------------------------------------------------------------
(* The attribute handle storage *)

Live(f, p) == {k \in 1..Len(f) : f[k].live /\ f[k].peer = p}

(* dev_char_info_search_peer_att_handle_by_peer_mac *)
Found(p) == Live(flash, p) # {}
Loaded(p) == flash[First(Live(flash, p))].chars

(* Variant with a fault: the end of the storage is not checked *)
StoreAttHandleNoEnd(p, c) ==
  /\ flash' = Append(flash, [live |-> TRUE, peer |-> p, chars |-> c])
  /\ dirty' = NoPeer

(* dev_char_info_store_peer_att_handle: the bytes of a torn record cannot  *)
(* be set again, so an address over another one is no address.             *)
StoredPeer(p) == IF dirty \in {NoPeer, p} THEN p ELSE Garbage
StoreAttHandle(p, c) ==
  IF Len(flash) < FlashNum
  THEN /\ flash' = Append(flash, [live |-> TRUE, peer |-> StoredPeer(p), chars |-> c])
       /\ dirty' = NoPeer
  ELSE UNCHANGED flashVars

(* dev_char_info_delete_peer_att_handle_by_peer_mac *)
DeleteAttHandle(p) ==
  flash' = IF Found(p) THEN [flash EXCEPT ![First(Live(flash, p))].live = FALSE] ELSE flash
-----------------------------------------------------------------------------
(* Events from the stack, while main_idle_loop runs blc_sdk_main_loop *)

(* Variant with a fault: a pending service discovery does not hold up new connections *)
AdvReportNoSdp(p) ==
  /\ at = "ble"
  /\ app.smp = NoHandle /\ app.disc = NoHandle
  /\ p \in bonded \/ app.pairing
  /\ creating = NotCreating /\ ~Connected(p)
  /\ Cardinality(UsedAs("central")) < CentralMax
  /\ creating' = [peer |-> p, sent |-> FALSE]
  /\ UNCHANGED <<hostVars, flashVars, bonded, links, cuts>>

(* app_le_adv_report_event_handle.  The command succeeds when the          *)
(* controller has a connection left and is not creating one.               *)
AdvReport(p) ==
  /\ at = "ble"
  /\ app.smp = NoHandle /\ app.sdp = NoHandle /\ app.disc = NoHandle
  /\ p \in bonded \/ app.pairing
  /\ creating = NotCreating /\ ~Connected(p)
  /\ Cardinality(UsedAs("central")) < CentralMax
  /\ creating' = [peer |-> p, sent |-> FALSE]
  /\ UNCHANGED <<hostVars, flashVars, bonded, links, cuts>>

NewLink(p, r) == [peer |-> p, role |-> r, up |-> TRUE, smp |-> FALSE, owed |-> 0]

(* Variant with a fault: SDP is wanted although the handles were found in flash *)
ConnCompleteAlwaysSdp(h) ==
  LET p == creating.peer
      inserted == Insert(list, h, "central", p)
  IN /\ at = "ble"
     /\ creating.sent /\ h \notin Used
     /\ creating' = NotCreating
     /\ links' = [links EXCEPT ![h] = NewLink(p, "central")]
     /\ curSdp' = [handle |-> h, peer |-> p]
     /\ list' = IF Found(p) THEN AddPeerAttHandle(inserted, h, Loaded(p)) ELSE inserted
     /\ app' = [app EXCEPT !.smp = h, !.sdp = h]
     /\ UNCHANGED <<sdp, at, flashVars, bonded, cuts>>

(* app_le_connection_complete_event_handle in the central role.  Creating  *)
(* a connection takes longer than the main_idle_loop that asked for it.    *)
ConnComplete(h) ==
  LET p == creating.peer
      inserted == Insert(list, h, "central", p)
  IN /\ at = "ble"
     /\ creating.sent /\ h \notin Used
     /\ creating' = NotCreating
     /\ links' = [links EXCEPT ![h] = NewLink(p, "central")]
     /\ curSdp' = [handle |-> h, peer |-> p]
     /\ IF Found(p)
        THEN /\ list' = AddPeerAttHandle(inserted, h, Loaded(p))
             /\ app' = [app EXCEPT !.smp = h]
        ELSE /\ list' = inserted
             /\ app' = [app EXCEPT !.smp = h, !.sdp = h]
     /\ UNCHANGED <<sdp, at, flashVars, bonded, cuts>>

(* The same event in the peripheral role *)
PeriphrConnComplete(h, p) ==
  /\ at = "ble"
  /\ h \notin Used /\ ~Connected(p) /\ creating.peer # p
  /\ Cardinality(UsedAs("periphr")) < PeriphrMax
  /\ links' = [links EXCEPT ![h] = NewLink(p, "periphr")]
  /\ list' = Insert(list, h, "periphr", p)
  /\ UNCHANGED <<app, curSdp, sdp, at, flashVars, bonded, creating, cuts>>

(* GAP_EVT_SMP_SECURITY_PROCESS_DONE *)
SmpDone(h) ==
  /\ at = "ble"
  /\ h \in Used /\ ~links[h].smp
  /\ links' = [links EXCEPT ![h].smp = TRUE]
  /\ bonded' = IF links[h].role = "central" THEN bonded \cup {links[h].peer} ELSE bonded
  /\ IF IsCentral(list, h)
     THEN /\ app' = IF app.smp = h THEN [app EXCEPT !.smp = NoHandle] ELSE app
          /\ sdp' = IF app.sdp = h THEN [sdp EXCEPT !.main = TRUE] ELSE sdp
     ELSE UNCHANGED <<app, sdp>>
  /\ UNCHANGED <<list, curSdp, at, flashVars, creating, cuts>>

(* GAP_EVT_SMP_PAIRING_FAIL *)
SmpFail(h) ==
  /\ at = "ble"
  /\ h \in Used /\ ~links[h].smp
  /\ links' = [links EXCEPT ![h].smp = TRUE]
  /\ app' = IF IsCentral(list, h) /\ app.smp = h THEN [app EXCEPT !.smp = NoHandle] ELSE app
  /\ UNCHANGED <<list, curSdp, sdp, at, flashVars, bonded, creating, cuts>>

(* host_att_client_handler.  A packet is an Error Response, a response     *)
(* with the opcode that host_att_req_busy asks for, or another one.  The   *)
(* handles are compared by their low bits, of which NoHandle has zeros.    *)
Packet == {"error", "asked", "other"}
Fits(h, kind) ==
  /\ sdp.buffer
  /\ h % 8 = sdp.busy % 8
  /\ kind = "error" \/ (kind = "asked" /\ sdp.busy # NoHandle)
ClientHandler(h, kind) ==
  IF Fits(h, kind) THEN [sdp EXCEPT !.rsp = links[h].peer, !.busy = NoHandle] ELSE sdp

(* Variant with a fault: any ATT data goes to the discovery's handler *)
GattDataAnyTime(h, kind) ==
  sdp' = IF IsCentral(list, h) THEN ClientHandler(h, kind) ELSE sdp

(* app_gatt_data_handler: what comes on h goes to the discovery's handler  *)
(* while a discovery of h is pending, running or not.                      *)
GattData(h, kind) ==
  sdp' = IF IsCentral(list, h) /\ app.sdp = h THEN ClientHandler(h, kind) ELSE sdp

(* The response to a discovery's request.  It has another opcode than the  *)
(* request that is waited for when it answers an older one.                *)
AttRsp(h, kind) ==
  /\ at = "ble"
  /\ h \in Used /\ links[h].owed > 0
  /\ kind = "other" => links[h].owed > 1
  /\ links' = [links EXCEPT ![h].owed = @ - 1]
  /\ GattData(h, kind)
  /\ UNCHANGED <<list, app, curSdp, at, flashVars, bonded, creating, cuts>>

(* An Error Response to another request than a discovery's *)
AttRefused(h) ==
  /\ at = "ble"
  /\ h \in Used /\ links[h].peer \in Refusers
  /\ \A g \in Used : links[g].owed < MaxOwed
  /\ GattData(h, "error")
  /\ UNCHANGED <<list, app, curSdp, at, flashVars, ctlVars, cuts>>

(* The link is lost or terminated; the event is still to come. *)
LinkLost(h) ==
  /\ h \in Used /\ links[h].up
  /\ links' = [links EXCEPT ![h].up = FALSE]
  /\ UNCHANGED <<hostVars, flashVars, bonded, creating, cuts>>

(* Variant with a fault: the pending service discovery is not called off *)
DisconnectKeepsSdp(h) ==
  /\ at = "ble"
  /\ h \in Used /\ ~links[h].up
  /\ links' = [links EXCEPT ![h] = NoLink]
  /\ app' = [app EXCEPT !.smp = IF @ = h THEN NoHandle ELSE @,
                        !.disc = IF @ = h THEN NoHandle ELSE @]
  /\ list' = Delete(list, h)
  /\ UNCHANGED <<curSdp, sdp, at, flashVars, bonded, creating, cuts>>

(* app_disconnect_event_handle *)
Disconnect(h) ==
  /\ at = "ble"
  /\ h \in Used /\ ~links[h].up
  /\ links' = [links EXCEPT ![h] = NoLink]
  /\ app' = [app EXCEPT !.smp = IF @ = h THEN NoHandle ELSE @,
                        !.sdp = IF @ = h THEN NoHandle ELSE @,
                        !.disc = IF @ = h THEN NoHandle ELSE @]
  /\ list' = Delete(list, h)
  /\ UNCHANGED <<curSdp, sdp, at, flashVars, bonded, creating, cuts>>
-----------------------------------------------------------------------------
(* The end of main_idle_loop: proc_keyboard, then proc_master_role_unpair *)

Key == {"none", "pair", "unpair", "release"}

CentralDevs == {i \in Slots("central") : list.dev[i].conn_state}

(* key_change_proc *)
AfterKey(k) ==
  CASE k = "pair" -> [app EXCEPT !.pairing = TRUE]
    [] k = "unpair" /\ list.central # 0 /\ app.disc = NoHandle /\ CentralDevs # {} ->
         [app EXCEPT !.unpair = list.dev[First(CentralDevs)].conn_handle]
    [] k = "release" -> [app EXCEPT !.pairing = FALSE, !.unpair = NoHandle]
    [] OTHER -> app

(* proc_master_role_unpair.  A command on a link that is already lost      *)
(* fails, and is tried again in the next loop.                             *)
Unpair(a) ==
  LET h == a.unpair
  IN \/ /\ h = NoHandle
        /\ app' = a
        /\ UNCHANGED <<flash, bonded>>
     \/ /\ h # NoHandle /\ ~IsConnected(list, h)
        /\ app' = [a EXCEPT !.unpair = NoHandle]
        /\ UNCHANGED <<flash, bonded>>
     \/ /\ h # NoHandle /\ IsConnected(list, h) /\ ~links[h].up
        /\ app' = a
        /\ UNCHANGED <<flash, bonded>>
     \/ /\ h # NoHandle /\ IsConnected(list, h) /\ links[h].up
        /\ app' = [a EXCEPT !.disc = h, !.unpair = NoHandle]
        /\ DeleteAttHandle(DevOf(list, h).peer)
        /\ bonded' = bonded \ {DevOf(list, h).peer}

UiLoop(k) ==
  /\ at = "ble"
  /\ at' = "caller"
  /\ Unpair(AfterKey(k))
  /\ creating' = IF creating = NotCreating THEN creating ELSE [creating EXCEPT !.sent = TRUE]
  /\ UNCHANGED <<list, curSdp, sdp, dirty, links, cuts>>
-----------------------------------------------------------------------------
(* Service discovery, between two runs of main_idle_loop *)

(* blc_gatt_push...Request and the start of host_att_service_wait_event *)
Request(s, h) ==
  /\ sdp' = [s EXCEPT !.waiting = TRUE, !.handle = h, !.busy = h, !.buffer = TRUE]
  /\ links' = IF h \in Used /\ links[h].up THEN [links EXCEPT ![h].owed = @ + 1] ELSE links

(* simple_sdp_loop: main_service is cleared when it returns. *)
SdpLoop ==
  /\ at = "caller" /\ ~sdp.waiting
  /\ at' = "ble"
  /\ IF sdp.main /\ app.sdp # NoHandle
     THEN Request([sdp EXCEPT !.db = {}, !.rsp = NoPeer], app.sdp)
     ELSE sdp' = [sdp EXCEPT !.main = FALSE] /\ UNCHANGED links
  /\ UNCHANGED <<list, app, curSdp, flashVars, bonded, creating, cuts>>

(* The end of app_service_discovery and of simple_sdp_loop *)
Ended == [sdp EXCEPT !.main = FALSE, !.waiting = FALSE, !.handle = NoHandle,
                     !.rsp = NoPeer, !.db = {}]
Return ==
  /\ app' = [app EXCEPT !.sdp = NoHandle]
  /\ sdp' = Ended

(* host_att_service_wait_event goes round: no response, time left *)
KeepWaiting ==
  /\ at = "caller" /\ sdp.waiting /\ sdp.busy # NoHandle
  /\ at' = "ble"
  /\ UNCHANGED <<list, app, curSdp, sdp, flashVars, ctlVars, cuts>>

(* A second has passed, response or not. *)
Timeout ==
  /\ at = "caller" /\ sdp.waiting
  /\ at' = "ble"
  /\ Return
  /\ UNCHANGED <<list, curSdp, flashVars, ctlVars, cuts>>

(* A response is there, and the attributes in it ask for another request. *)
NextRequest ==
  /\ at = "caller" /\ sdp.waiting /\ sdp.busy = NoHandle
  /\ at' = "ble"
  /\ Request([sdp EXCEPT !.db = @ \cup {sdp.rsp}, !.rsp = NoPeer], sdp.handle)
  /\ UNCHANGED <<list, app, curSdp, flashVars, bonded, creating, cuts>>

(* The last response is there: the handles go to the list and to flash. *)
Finish ==
  LET chars == sdp.db \cup {sdp.rsp}
  IN /\ at = "caller" /\ sdp.waiting /\ sdp.busy = NoHandle
     /\ at' = "ble"
     /\ list' = AddPeerAttHandle(list, curSdp.handle, chars)
     /\ StoreAttHandle(curSdp.peer, chars)
     /\ Return
     /\ UNCHANGED <<curSdp, ctlVars, cuts>>
-----------------------------------------------------------------------------
(* The power fails, or it fails while Finish writes its record, of which   *)
(* at least a part of the address is left.                                 *)
PowerFail ==
  /\ cuts < MaxCuts
  /\ cuts' = cuts + 1
  /\ PowerOn
  /\ UNCHANGED <<flashVars, bonded>>

PowerFailInStore ==
  /\ cuts < MaxCuts
  /\ at = "caller" /\ sdp.waiting /\ sdp.busy = NoHandle /\ Len(flash) < FlashNum
  /\ cuts' = cuts + 1
  /\ dirty' \in {StoredPeer(curSdp.peer), Garbage}
  /\ PowerOn
  /\ UNCHANGED <<flash, bonded>>

Next ==
  \/ \E p \in Peer : AdvReport(p)
  \/ \E h \in Handle : \/ ConnComplete(h) \/ SmpDone(h) \/ SmpFail(h)
                       \/ AttRefused(h) \/ LinkLost(h) \/ Disconnect(h)
  \/ \E h \in Handle, kind \in Packet : AttRsp(h, kind)
  \/ \E h \in Handle, p \in Peer : PeriphrConnComplete(h, p)
  \/ \E k \in Key : UiLoop(k)
  \/ SdpLoop \/ KeepWaiting \/ Timeout \/ NextRequest \/ Finish
  \/ PowerFail \/ PowerFailInStore

Spec == Init /\ [][Next]_vars
-----------------------------------------------------------------------------
(* Shapes of the state; the storage of attribute handles is not outgrown. *)
TypeOK ==
  /\ list \in DevList
  /\ app \in App
  /\ curSdp \in [handle : AnyHandle, peer : Peer \cup {NoPeer}]
  /\ sdp \in Sdp
  /\ at \in {"ble", "caller"}
  /\ flash \in Seq(AttRecord) /\ Len(flash) <= FlashNum
  /\ dirty \in Peer \cup {NoPeer, Garbage}
  /\ bonded \subseteq Peer
  /\ links \in [Handle -> Link \cup {NoLink}]
  /\ creating \in [peer : Peer \cup {NoPeer}, sent : BOOLEAN]
  /\ cuts \in 0..MaxCuts

(* Every connection of the controller has exactly one slot, in the half of *)
(* its role and with its peer, no other slot is in use, and the counters   *)
(* count them: insert and delete keep conn_dev_list in step.               *)
ListMirrorsLinks ==
  /\ \A h \in Used : \E i \in Slots(links[h].role) :
       /\ Matches(list, h) = {i}
       /\ list.dev[i].role = links[h].role /\ list.dev[i].peer = links[h].peer
  /\ \A i \in AllSlots : list.dev[i].conn_state => list.dev[i].conn_handle \in Used
  /\ list.central = Cardinality(UsedAs("central"))
  /\ list.periphr = Cardinality(UsedAs("periphr"))

(* The flags that keep app_le_adv_report_event_handle from connecting name *)
(* a connection that exists (smp and sdp: a central one): none outlives    *)
(* its connection, after which no device could be connected any more.      *)
PendingIsLink ==
  /\ app.smp # NoHandle => app.smp \in UsedAs("central")
  /\ app.sdp # NoHandle => app.sdp \in UsedAs("central")
  /\ app.disc # NoHandle => app.disc \in Used

(* The response to a discovery's request is copied only while a discovery  *)
(* is waiting in host_att_service_wait_event, to which the buffer belongs, *)
(* however late it comes.                                                  *)
LateAnswerDropped ==
  [][(\E h \in Handle : links'[h].owed < links[h].owed) /\ sdp'.rsp # sdp.rsp
       => sdp.waiting \/ sdp'.rsp = NoPeer]_vars

(* The same of every packet that host_att_client_handler copies (app.c:456 *)
(* "ATT service discovery is ongoing on this conn_handle").                *)
CopyOnlyWhileWaiting == [][sdp'.rsp # sdp.rsp /\ sdp'.rsp # NoPeer => sdp.waiting]_vars

(* Attribute handles in the list and in flash are the ones of the peer     *)
(* they are kept for, although cur_sdp_device and the connection handle    *)
(* may belong to another peer by the time a discovery goes on.  The        *)
(* exceptions are peers whose Error Response can end a discovery that was  *)
(* begun with the peer before them.                                        *)
RightHandles ==
  /\ \A i \in AllSlots :
       list.dev[i].peer \notin Refusers => list.dev[i].chars \subseteq {list.dev[i].peer}
  /\ \A k \in 1..Len(flash) :
       flash[k].live /\ flash[k].peer \notin Refusers \cup {Garbage}
         => flash[k].chars \subseteq {flash[k].peer}

(* No peer has two live records, of which dev_char_info_delete_peer_att_   *)
(* handle_by_peer_mac would leave one behind.                              *)
OneRecordPerPeer == \A p \in Peer : Cardinality(Live(flash, p)) <= 1
=============================================================================
