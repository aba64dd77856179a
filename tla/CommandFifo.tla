----------------------------- MODULE CommandFifo -----------------------------
(***************************************************************************)
(* What the kernel CCB promises to the callers of                          *)
(* RGXSendCommandAndGetKCCBSlot: a command accepted with PVRSRV_OK is      *)
(* executed by the firmware once, after every command accepted before it,  *)
(* whether it went into the ring or onto the deferred list.                *)
(***************************************************************************)
EXTENDS Sequences

CONSTANT Commands   \* the identities a command can carry

VARIABLES
  queue,    \* commands accepted and not executed, oldest first
  out       \* the command executed last

Init == queue = <<>> /\ out \in Commands

Accept(c) == queue' = Append(queue, c) /\ UNCHANGED out

Execute ==
  /\ queue # <<>>
  /\ out' = Head(queue)
  /\ queue' = Tail(queue)

Next == Execute \/ \E c \in Commands : Accept(c)

Spec == Init /\ [][Next]_<<queue, out>>
=============================================================================
