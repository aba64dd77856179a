---------------------------- MODULE MCMMUCleanup ----------------------------
(* MMUCleanup with two tables, which are alike, one client and sync values *)
(* that wrap.                                                              *)
EXTENDS MMUCleanup, TLC

Alike == Permutations(Tables)
=============================================================================
