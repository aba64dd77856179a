----------------------------- MODULE MCClientCCB -----------------------------
(* ClientCCB on rings of 8 units that may grow to 16. *)
EXTENDS ClientCCB
=============================================================================
