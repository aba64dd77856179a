---------------------------- MODULE PacketStream ----------------------------
(***************************************************************************)
(* What a stream of the transport layer promises to its writers and its    *)
(* one reader: committed packets are read in the order they were           *)
(* committed, each at most once; the reader may hold a run of the oldest   *)
(* ones; a stream that drops the oldest never drops what is held.          *)
(***************************************************************************)
EXTENDS Naturals, Sequences

CONSTANT Packets   \* the identities a packet can carry

VARIABLES
  mode,    \* what happens when there is no room
  queue,   \* packets committed and not yet released or dropped, oldest first
  held     \* how many of the oldest the reader holds

Init == queue = <<>> /\ held = 0 /\ mode \in {"dropNewer", "dropOldest", "block"}

From(n) == SubSeq(queue, n + 1, Len(queue))

Commit(p) == queue' = Append(queue, p) /\ UNCHANGED held

Acquire == held' \in 0 .. Len(queue) /\ UNCHANGED queue

Release == \E n \in 0 .. held : queue' = From(n) /\ held' = 0

Drop ==
  /\ mode = "dropOldest" /\ held = 0
  /\ \E n \in 0 .. Len(queue) : queue' = From(n)
  /\ UNCHANGED held

(* A reader that opens the stream may ask for an empty one. *)
Reset == held = 0 /\ queue' = <<>> /\ UNCHANGED held

Next ==
  /\ Acquire \/ Release \/ Drop \/ Reset \/ \E p \in Packets : Commit(p)
  /\ UNCHANGED mode

Spec == Init /\ [][Next]_<<mode, queue, held>>
=============================================================================
