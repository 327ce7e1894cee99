---------------------------- MODULE MCAclCentral ----------------------------
(* Small instances of AclCentral *)
EXTENDS AclCentral, TLC
Perms == Permutations(Peer)
=============================================================================
