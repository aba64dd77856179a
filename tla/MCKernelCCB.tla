----------------------------- MODULE MCKernelCCB -----------------------------
(* KernelCCB with rings of two and of four entries. *)
EXTENDS KernelCCB
=============================================================================
