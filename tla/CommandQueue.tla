---------------------------- MODULE CommandQueue ----------------------------
(***************************************************************************)
(* What a client command circular buffer (cCCB) promises to the context     *)
(* that owns it, with nothing said of offsets, wrapping or growing:         *)
(* commands released by the host are executed by the firmware once each,    *)
(* in the order they were released, and never before a kick handed them     *)
(* over.  ClientCCB implements this specification.                          *)
(***************************************************************************)
EXTENDS Naturals, Sequences

CONSTANT Commands   \* the identities a command can carry

VARIABLES
  queue,    \* commands released and not executed, oldest first
  handed,   \* how many of them, from the oldest, a kick has handed over
  out       \* the command executed last

vars == <<queue, handed, out>>

Init ==
  /\ queue = <<>>
  /\ handed = 0
  /\ out \in Commands

(* The host makes a command part of the buffer's contents. *)
Submit(c) ==
  /\ queue' = Append(queue, c)
  /\ UNCHANGED <<handed, out>>

(* A kick covers every command released so far. *)
HandOver ==
  /\ handed' = Len(queue)
  /\ UNCHANGED <<queue, out>>

(* The firmware executes the oldest command, which a kick has covered. *)
Execute ==
  /\ handed > 0
  /\ out' = Head(queue)
  /\ queue' = Tail(queue)
  /\ handed' = handed - 1

Next ==
  \/ \E c \in Commands : Submit(c)
  \/ HandOver
  \/ Execute

Spec == Init /\ [][Next]_vars
=============================================================================
