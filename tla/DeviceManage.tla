---------------------------- MODULE DeviceManage ----------------------------
(***************************************************************************)
(* vendor/common/device_manage.c: conn_dev_list, the list of connected     *)
(* devices, and its two counters, as operators on a record                 *)
(*   [dev |-> conn_dev_list, central |-> acl_conn_central_num,             *)
(*    periphr |-> acl_conn_periphr_num].                                   *)
(* Slots 0 .. CentralMax - 1 are for connections in the central role, the  *)
(* others for the peripheral role.                                         *)
(***************************************************************************)
EXTENDS Integers, FiniteSets

CONSTANTS
  CentralMax,  \* ACL_CENTRAL_MAX_NUM
  PeriphrMax,  \* ACL_PERIPHR_MAX_NUM
  Handle,      \* connection handles the controller gives out
  Peer,        \* peer addresses
  NoPeer       \* six zero bytes

ASSUME MaxNumAssumption == CentralMax \in Nat /\ PeriphrMax \in Nat
ASSUME HandleAssumption == Handle \subseteq Nat \ {0}
ASSUME PeerAssumption == NoPeer \notin Peer

NoHandle == 0
Role == {"central", "periphr"}

Slots(role) == IF role = "central" THEN 0 .. CentralMax - 1
               ELSE CentralMax .. CentralMax + PeriphrMax - 1
AllSlots == 0 .. CentralMax + PeriphrMax - 1

(* dev_char_info_t.  chars stands for char_handle[]: the peers whose       *)
(* attribute handles it holds.                                             *)
DevInfo == [conn_state : BOOLEAN, conn_handle : Handle \cup {NoHandle}, role : Role,
            peer : Peer \cup {NoPeer}, chars : SUBSET Peer, valid : BOOLEAN]
NoDev == [conn_state |-> FALSE, conn_handle |-> NoHandle, role |-> "central",
          peer |-> NoPeer, chars |-> {}, valid |-> FALSE]

DevList == [dev : [AllSlots -> DevInfo], central : Int, periphr : Int]
EmptyList == [dev |-> [i \in AllSlots |-> NoDev], central |-> 0, periphr |-> 0]

Count(l, role, n) == IF role = "central" THEN [l EXCEPT !.central = @ + n]
                                         ELSE [l EXCEPT !.periphr = @ + n]

First(S) == CHOOSE i \in S : \A j \in S : i <= j

(* dev_char_info_insert_by_conn_event: a full half leaves the list alone *)
Insert(l, h, r, p) ==
  LET free == {i \in Slots(r) : ~l.dev[i].conn_state}
  IN IF free = {} THEN l
     ELSE [Count(l, r, 1) EXCEPT !.dev[First(free)] =
             [NoDev EXCEPT !.conn_state = TRUE, !.conn_handle = h, !.role = r, !.peer = p]]

(* The slots a search by connection handle stops at: the first one *)
Matches(l, h) == {i \in AllSlots : l.dev[i].conn_handle = h /\ l.dev[i].conn_state}

(* dev_char_info_is_connection_state_by_conn_handle *)
IsConnected(l, h) == Matches(l, h) # {}

(* dev_char_info_search_by_connhandle, where there is one *)
DevOf(l, h) == l.dev[First(Matches(l, h))]

(* dev_char_get_conn_role_by_connhandle(h) == ACL_ROLE_CENTRAL *)
IsCentral(l, h) == IsConnected(l, h) /\ DevOf(l, h).role = "central"

(* Variant with a fault: the counter is not decremented *)
DeleteNoCount(l, h) == IF ~IsConnected(l, h) THEN l
                       ELSE [l EXCEPT !.dev[First(Matches(l, h))] = NoDev]

(* dev_char_info_delete_by_connhandle *)
Delete(l, h) == IF ~IsConnected(l, h) THEN l
                ELSE [Count(l, DevOf(l, h).role, -1) EXCEPT !.dev[First(Matches(l, h))] = NoDev]

(* dev_char_info_add_peer_att_handle of simple_sdp.c: it looks at as many   *)
(* slots as there are central connections and does not ask for conn_state. *)
AddPeerAttHandle(l, h, c) ==
  LET at == {i \in 0 .. l.central - 1 : l.dev[i].conn_handle = h}
  IN IF at = {} THEN l
     ELSE [l EXCEPT !.dev[First(at)].chars = c, !.dev[First(at)].valid = TRUE]
=============================================================================
