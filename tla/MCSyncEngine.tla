---------------------------- MODULE MCSyncEngine ----------------------------
(***************************************************************************)
(* Instances of SyncEngine: the service alone, with its three goroutines,  *)
(* and the service with an "inventory" command running beside it.          *)
(***************************************************************************)
EXTENDS SyncEngine

CONSTANTS svc, cli, hb, inv, sw, cmd

OneProc == [t \in {hb, inv, sw} |-> svc]
TwoProcs == [t \in {hb, cmd} |-> IF t = hb THEN svc ELSE cli]
=============================================================================
