----------------------------- MODULE MCTLStream -----------------------------
(* Instances of TLStream for TLC: how readers open the streams. *)
EXTENDS TLStream, TLC

(* With a reset where packets may be lost anyway, with a limit where the   *)
(* oldest are kept.                                                        *)
PlainOpens == Modes \X {FALSE} \X {FALSE}
ResetOpens == PlainOpens \cup ({"dropNewer", "dropOldest"} \X {FALSE} \X {TRUE})
SafeOpens == ResetOpens \cup ({"dropNewer", "block"} \X {TRUE} \X {FALSE})

Alike == Permutations(Writers)
=============================================================================
