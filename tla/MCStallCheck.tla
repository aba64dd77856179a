----------------------------- MODULE MCStallCheck -----------------------------
(* StallCheck on a ring of 4 units that may grow to 8. *)
EXTENDS StallCheck
=============================================================================
