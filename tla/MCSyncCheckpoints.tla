------------------------- MODULE MCSyncCheckpoints --------------------------
(* SyncCheckpoints with one server context and two checkpoints. *)
EXTENDS SyncCheckpoints
=============================================================================
