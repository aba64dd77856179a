----------------------------- MODULE MCTLNodes ------------------------------
(* TLNodes with two writers that share a descriptor. *)
EXTENDS TLNodes, TLC
=============================================================================
