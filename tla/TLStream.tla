------------------------------ MODULE TLStream ------------------------------
(***************************************************************************)
(* A stream of the transport layer (server/common/tlstream.c): a circular  *)
(* buffer of packets that writers in the driver fill and one reader        *)
(* empties, which sees the buffer itself.  A writer reserves, writes in    *)
(* place and commits; the stream lock is held for the first and the last   *)
(* statements of a reserve only.  A reader acquires a run of packets and   *)
(* releases all or some of it.  When there is no room the stream refuses   *)
(* the packet, waits, or drops the oldest packets, which moves the         *)
(* reader's own offset.  Offsets and sizes are in units of 8 bytes, the    *)
(* size of a packet header and the alignment of packets.                   *)
(***************************************************************************)
EXTENDS Integers, Sequences

CONSTANTS
  Writers,     \* threads that write to the stream
  None,        \* no thread: the read lock is free
  Size,        \* ui32Size
  DataSizes,   \* data sizes of packets; those above MaxPacketSize are refused
  NumIds,      \* packet identities are given out modulo NumIds
  Modes,       \* the modes a stream may be created with
  NoWrap,      \* TL_FLAG_PERMANENT_NO_WRAP
  Opens        \* how readers open a stream of each mode: <<mode, READ_LIMIT,
               \* RESET_ON_OPEN>>

ASSUME StreamAssumption ==
  /\ None \notin Writers
  /\ Size \in Nat /\ Size >= 15
  /\ DataSizes \subseteq Nat
  /\ NumIds \in Nat \ {0}
  /\ Modes \subseteq {"dropNewer", "dropOldest", "block"}
  /\ NoWrap \in BOOLEAN /\ (NoWrap => "block" \notin Modes)
  /\ Opens \subseteq Modes \X BOOLEAN \X BOOLEAN

VARIABLES
  \* TL_STREAM
  eOpMode, ui32Read, ui32Write, ui32Pending, buffer, hReadLock, bReadPending,
  \* a writer: where it is, and ui32LRead, ui32LWrite and the size it asked for
  wpc, loc,
  \* the reader: where it is, the run of packets it holds, ui32ReadLimit
  rpc, offset, len, limit,
  nextId

stream == <<eOpMode, ui32Read, ui32Write, ui32Pending, buffer, hReadLock, bReadPending>>
writer == <<wpc, loc>>
reader == <<rpc, offset, len, limit>>
vars == <<stream, writer, reader, nextId>>

Offsets == 0 .. Size - 1
Ids == 0 .. NumIds - 1

NothingPending == -1   \* NOTHING_PENDING
NoLimit == -1

Unit == 8
Reserved == 2          \* BUFFER_RESERVED_SPACE

(* GET_TL_MAX_PACKET_SIZE; the mutant takes half of the buffer. *)
MaxPacketSize_Half == Size \div 2
MaxPacketSize == (2 * Size + 4) \div 5

(* A unit of the buffer: a packet header, data of a packet, or whatever    *)
(* was there before.                                                       *)
Header(kind, n, id) == [kind |-> kind, len |-> n, dropped |-> FALSE, id |-> id]
Data(id)  == [kind |-> "data", len |-> 0, dropped |-> FALSE, id |-> id]
Garbage   == [kind |-> "garbage", len |-> 0, dropped |-> FALSE, id |-> 0]
HeaderKinds == {"packet", "padding", "writeFailed"}
IsHeader(c) == c.kind \in HeaderKinds

NoLocal == [read |-> 0, write |-> 0, size |-> 0]

Init ==
  /\ eOpMode \in Modes
  /\ ui32Read = 0 /\ ui32Write = 0
  /\ ui32Pending = NothingPending
  /\ buffer = [o \in Offsets |-> Garbage]
  /\ hReadLock = None /\ bReadPending = FALSE
  /\ wpc = [w \in Writers |-> "idle"]
  /\ loc = [w \in Writers |-> NoLocal]
  /\ rpc = "closed" /\ offset = 0 /\ len = 0 /\ limit = NoLimit
  /\ nextId = 0

-----------------------------------------------------------------------------
(* Room in the buffer. *)

(* circbufSpaceLeft keeps back Reserved; the mutant does not.              *)
CircSpaceLeft_All(r, w) == IF r > w THEN r - w ELSE Size - (w - r)
CircSpaceLeft(r, w) == (IF r > w THEN r - w ELSE Size - (w - r)) - Reserved

(* ... bufSpaceLeft for a stream that does not wrap. *)
SpaceLeft(r, w) == IF NoWrap THEN Size - w ELSE CircSpaceLeft(r, w)

(* What is left of the buffer becomes padding when the packet does not fit *)
(* before its end.                                                         *)
Pad(w, n) == IF Size < w + n + 1 THEN Size - w ELSE 0
Actual(w, n) == n + 1 + Pad(w, n)

Short(l) == SpaceLeft(l.read, l.write) < Actual(l.write, l.size)

(* The offset of the packet after the one at r. *)
NextPacket(r) == LET e == r + 1 + buffer[r].len IN IF e >= Size THEN 0 ELSE e

(* DROP_OLDEST: packets are dropped from the oldest until there is room    *)
(* for the new one and for a twentieth of the buffer.  The space is        *)
(* compared as an unsigned number: a negative one is enough.  Nothing is   *)
(* left to drop at the write offset, where the buffer is empty.            *)
EnoughSpace(l, r) ==
  LET space == Unit * CircSpaceLeft(r, l.write) IN
  \/ space < 0
  \/ /\ space >= Unit * Actual(l.write, l.size)
     /\ space >= 5 * ((Unit * Size) \div 100)

ReadAfterDrop(l) ==
  LET walk[r \in Offsets] == IF r = l.write \/ EnoughSpace(l, r) THEN r
                                                                  ELSE walk[NextPacket(r)]
  IN  walk[l.read]

-----------------------------------------------------------------------------
(* Writers: DoTLStreamReserve, the copy of the data, TLStreamCommit. *)

At(w, stage) == wpc' = [wpc EXCEPT ![w] = stage]
Leave(w) == At(w, "idle") /\ loc' = [loc EXCEPT ![w] = NoLocal]

(* Where a reserve goes from its first look at the offsets. *)
Path(l) ==
  IF ~Short(l) THEN "write"
  ELSE CASE eOpMode = "block"      -> "block"
         [] eOpMode = "dropOldest" -> "lock"
         [] eOpMode = "dropNewer"  -> "refuse"

(* Under the stream lock: a reserve that finds another one pending returns *)
(* NOT_READY, else it marks its own.  The mutant marks it at the end only. *)
Mark_Late == ui32Pending
Mark == 0
Reserve(w, n) ==
  /\ wpc[w] = "idle"
  /\ ui32Pending = NothingPending
  /\ n <= MaxPacketSize
  /\ ui32Pending' = Mark
  /\ LET l == [read |-> ui32Read, write |-> ui32Write, size |-> n]
     IN  loc' = [loc EXCEPT ![w] = l] /\ At(w, Path(l))
  /\ UNCHANGED <<eOpMode, ui32Read, ui32Write, buffer, hReadLock, bReadPending, reader,
                 nextId>>

(* TL_OPMODE_BLOCK: woken or timed out, look again. *)
LookAgain(w) ==
  LET l == [loc[w] EXCEPT !.read = ui32Read, !.write = ui32Write] IN
  /\ wpc[w] = "block"
  /\ ~Short(l)
  /\ loc' = [loc EXCEPT ![w] = l]
  /\ At(w, "write")
  /\ UNCHANGED <<stream, reader, nextId>>

(* TL_OPMODE_DROP_OLDEST: the read lock, once no read is pending; the      *)
(* mutant takes it anyway.                                                 *)
MayDrop_Pending == hReadLock = None
MayDrop == hReadLock = None /\ ~bReadPending
LockRead(w) ==
  /\ wpc[w] = "lock"
  /\ MayDrop
  /\ hReadLock' = w
  /\ loc' = [loc EXCEPT ![w].read = ui32Read]
  /\ At(w, "drop")
  /\ UNCHANGED <<eOpMode, ui32Read, ui32Write, ui32Pending, buffer, bReadPending, reader,
                 nextId>>

(* The oldest packets go, if the reader has not made room meanwhile, and   *)
(* what is now the oldest is flagged with PACKETS_DROPPED.                 *)
DropOldest(w) ==
  LET l == loc[w]
      r == ReadAfterDrop(l)
  IN
  /\ wpc[w] = "drop"
  /\ IF CircSpaceLeft(l.read, l.write) < Actual(l.write, l.size)
     THEN /\ ui32Read' = r
          /\ buffer' = [buffer EXCEPT ![r].dropped = TRUE]
          /\ loc' = [loc EXCEPT ![w].read = r]
     ELSE UNCHANGED <<ui32Read, buffer, loc>>
  /\ hReadLock' = None
  /\ At(w, "write")
  /\ UNCHANGED <<eOpMode, ui32Write, ui32Pending, bReadPending, reader, nextId>>

(* The padding packet and the header are written, then the write offset    *)
(* and the pending size; PVRSRV_ERROR_STREAM_ERROR if there is no room.    *)
WriteHeader(w) ==
  LET l == loc[w]
      pad == Pad(l.write, l.size)
      at == IF pad > 0 THEN 0 ELSE l.write
      padded == IF pad > 0 THEN [buffer EXCEPT ![l.write] = Header("padding", pad - 1, 0)]
                           ELSE buffer
  IN
  /\ wpc[w] = "write"
  /\ IF Short(l)
     THEN ui32Pending' = NothingPending /\ Leave(w) /\ UNCHANGED <<ui32Write, buffer>>
     ELSE /\ buffer' = [padded EXCEPT ![at] = Header("packet", l.size, nextId)]
          /\ ui32Write' = at
          /\ ui32Pending' = l.size + 1
          /\ At(w, "fill") /\ UNCHANGED loc
  /\ UNCHANGED <<eOpMode, ui32Read, hReadLock, bReadPending, reader, nextId>>

(* TL_OPMODE_DROP_NEWER: a WRITE_FAILED packet in the space kept back,     *)
(* unless what lies before the write offset already looks like one, which  *)
(* data may, or the caller wants none.                                     *)
Last(w) == IF w > 0 THEN w - 1 ELSE Size - 1

Refuse(w) ==
  LET at == loc[w].write
      last == buffer[Last(at)]
  IN
  /\ wpc[w] = "refuse"
  /\ \/ /\ last.kind # "writeFailed"
        /\ buffer' = [buffer EXCEPT ![at] = Header("writeFailed", 0, 0)]
        /\ ui32Write' = (at + 1) % Size
     \/ UNCHANGED <<buffer, ui32Write>>
  /\ ui32Pending' = NothingPending
  /\ Leave(w)
  /\ UNCHANGED <<eOpMode, ui32Read, hReadLock, bReadPending, reader, nextId>>

(* The data are written in place. *)
Fill(w) ==
  /\ wpc[w] = "fill"
  /\ buffer' = [o \in Offsets |-> IF o \in ui32Write + 1 .. ui32Write + loc[w].size
                                  THEN Data(nextId) ELSE buffer[o]]
  /\ At(w, "commit")
  /\ UNCHANGED <<eOpMode, ui32Read, ui32Write, ui32Pending, hReadLock, bReadPending, loc,
                 reader, nextId>>

(* TLStreamCommit of what was reserved; the mutant does not wrap.          *)
AfterPacket_NoWrap(n) == ui32Write + n + 1
AfterPacket(n) == (ui32Write + n + 1) % Size
TLStreamCommit(w) ==
  /\ wpc[w] = "commit"
  /\ ui32Write' = AfterPacket(loc[w].size)
  /\ ui32Pending' = NothingPending
  /\ nextId' = (nextId + 1) % NumIds
  /\ Leave(w)
  /\ UNCHANGED <<eOpMode, ui32Read, buffer, hReadLock, bReadPending, reader>>

-----------------------------------------------------------------------------
(* The reader. *)

(* TLServerOpenStreamKM for reading. *)
OpenStream(limited, reset) ==
  /\ rpc = "closed"
  /\ <<eOpMode, limited, reset>> \in Opens
  /\ rpc' = IF reset THEN "reset" ELSE "idle"
  /\ limit' = IF limited THEN ui32Write ELSE NoLimit
  /\ UNCHANGED <<stream, writer, offset, len, nextId>>

(* TLStreamReset, which waits for a pending reserve. *)
TLStreamReset ==
  /\ rpc = "reset"
  /\ ui32Pending = NothingPending
  /\ ui32Read' = 0 /\ ui32Write' = 0
  /\ rpc' = "idle"
  /\ UNCHANGED <<eOpMode, ui32Pending, buffer, hReadLock, bReadPending, writer, offset,
                 len, limit, nextId>>

(* TLServerCloseStreamKM: a client that holds data has released them.      *)
CloseStream ==
  /\ rpc = "idle"
  /\ rpc' = "closed"
  /\ limit' = NoLimit
  /\ ui32Read' = IF NoWrap THEN 0 ELSE ui32Read
  /\ UNCHANGED <<eOpMode, ui32Write, ui32Pending, buffer, hReadLock, bReadPending, writer,
                 offset, len, nextId>>

(* TLStreamAcquireReadPos in TLServerAcquireDataKM.  A reader that does    *)
(* not get the read lock finds no data.                                    *)
TryReadLock == eOpMode = "dropOldest" => hReadLock = None
MarkRead == bReadPending' = (bReadPending \/ eOpMode = "dropOldest")
ClearRead == bReadPending' = (bReadPending /\ eOpMode # "dropOldest")

Available == IF ui32Read > ui32Write THEN Size - ui32Read ELSE ui32Write - ui32Read

AtLimit == limit # NoLimit /\ ui32Read >= limit

AcquireData ==
  /\ rpc = "idle" /\ TryReadLock
  /\ ui32Read # ui32Write /\ ~AtLimit
  /\ MarkRead
  /\ offset' = ui32Read
  /\ len' = IF limit # NoLimit /\ ui32Read + Available >= limit THEN limit - ui32Read
                                                                ELSE Available
  /\ rpc' = "holding"
  /\ UNCHANGED <<eOpMode, ui32Read, ui32Write, ui32Pending, buffer, hReadLock, writer,
                 limit, nextId>>

(* PVRSRV_ERROR_STREAM_READLIMIT_REACHED *)
AcquireLimited ==
  /\ rpc = "idle" /\ TryReadLock
  /\ ui32Read # ui32Write /\ AtLimit
  /\ MarkRead
  /\ UNCHANGED <<eOpMode, ui32Read, ui32Write, ui32Pending, buffer, hReadLock, writer,
                 reader, nextId>>

(* No data: in TL_OPMODE_DROP_OLDEST the read was pending for a moment.    *)
AcquireNothing ==
  /\ rpc = "idle" /\ TryReadLock
  /\ ui32Read = ui32Write /\ eOpMode = "dropOldest"
  /\ MarkRead
  /\ rpc' = "empty"
  /\ UNCHANGED <<eOpMode, ui32Read, ui32Write, ui32Pending, buffer, hReadLock, writer,
                 offset, len, limit, nextId>>

FindNothing ==
  /\ rpc = "empty"
  /\ ClearRead
  /\ rpc' = "idle"
  /\ UNCHANGED <<eOpMode, ui32Read, ui32Write, ui32Pending, buffer, hReadLock, writer,
                 offset, len, limit, nextId>>

(* What a client may release: some of the packets it got, from the oldest. *)
Parts ==
  LET ends[o \in 0 .. Size] ==
        IF o >= offset + len THEN {len} ELSE {o - offset} \cup ends[o + 1 + buffer[o].len]
  IN  ends[offset]

(* TLServerReleaseDataKM: TLStreamAdvanceReadPos, which refuses a part that *)
(* does not end at a packet.                                                *)
Aligned(n, pos) == n = len \/ IsHeader(buffer[pos])
ReleaseData(n) ==
  LET pos == (ui32Read + n) % Size IN
  /\ rpc = "holding"
  /\ n \in Parts
  /\ IF Aligned(n, pos) THEN ui32Read' = pos /\ ClearRead
                        ELSE UNCHANGED <<ui32Read, bReadPending>>
  /\ rpc' = "idle" /\ offset' = 0 /\ len' = 0
  /\ UNCHANGED <<eOpMode, ui32Write, ui32Pending, buffer, hReadLock, writer, limit, nextId>>

-----------------------------------------------------------------------------
WriterStep(w) ==
  \/ LookAgain(w) \/ LockRead(w) \/ DropOldest(w) \/ WriteHeader(w)
  \/ Refuse(w) \/ Fill(w) \/ TLStreamCommit(w)

Next ==
  \/ \E w \in Writers : WriterStep(w) \/ \E n \in DataSizes : Reserve(w, n)
  \/ \E limited, reset \in BOOLEAN : OpenStream(limited, reset)
  \/ TLStreamReset \/ CloseStream
  \/ AcquireData \/ AcquireLimited \/ AcquireNothing \/ FindNothing
  \/ \E n \in Offsets : ReleaseData(n)

Spec == Init /\ [][Next]_vars

-----------------------------------------------------------------------------
(* Properties. *)

Local == [read : Offsets, write : Offsets, size : DataSizes \cup {0}]
Cell == [kind : HeaderKinds \cup {"data", "garbage"}, len : 0 .. Size, dropped : BOOLEAN,
         id : Ids]

(* Every variable keeps to its range: in particular the offsets wrap.      *)
TypeOK ==
  /\ eOpMode \in Modes
  /\ ui32Read \in Offsets /\ ui32Write \in Offsets
  /\ ui32Pending \in Nat \cup {NothingPending}
  /\ buffer \in [Offsets -> Cell]
  /\ hReadLock \in Writers \cup {None} /\ bReadPending \in BOOLEAN
  /\ wpc \in [Writers -> {"idle", "write", "block", "lock", "drop", "refuse", "fill", "commit"}]
  /\ loc \in [Writers -> Local]
  /\ rpc \in {"closed", "reset", "idle", "empty", "holding"}
  /\ offset \in Offsets /\ len \in Nat /\ limit \in Offsets \cup {NoLimit}
  /\ nextId \in Ids

(* A packet at r is whole when its data lie before the end and are its own.*)
Whole(r) ==
  /\ IsHeader(buffer[r])
  /\ r + buffer[r].len < Size
  /\ buffer[r].kind = "packet" =>
       \A o \in r + 1 .. r + buffer[r].len : buffer[o] = Data(buffer[r].id)

(* The identities of the packets a reader meets from offset a to offset b, *)
(* and Broken where none is whole.                                         *)
Broken == -1
Found(r) == IF buffer[r].kind = "packet" THEN <<buffer[r].id>> ELSE <<>>
Run(a, b) ==
  LET from[most \in 0 .. Size] == [r \in Offsets |->
        IF r = b THEN <<>>
        ELSE IF most = 0 \/ ~Whole(r) THEN <<Broken>>
        ELSE Found(r) \o from[most - 1][NextPacket(r)]]
  IN  from[Size][a]
Unread == Run(ui32Read, ui32Write)

(* What can be read is a run of whole packets that ends exactly at the     *)
(* write offset, whatever was refused, dropped, padded or released in part.*)
UnreadWhole == \A i \in DOMAIN Unread : Unread[i] # Broken

(* While the reader holds packets nobody moves the read offset, although   *)
(* it holds no lock ("'bReadPending' is sufficient to keep Read index      *)
(* safe"), so that its release ends where it means.                        *)
HeldOffsetStays ==
  [][rpc = "holding" => offset = ui32Read /\ (rpc' = "holding" => ui32Read' = ui32Read)]_vars

(* ... nor are the units it reads written to, whatever is reserved, padded *)
(* or refused meanwhile.                                                   *)
HeldUntouched ==
  [][rpc = "holding" /\ rpc' = "holding" =>
       \A o \in offset .. offset + len - 1 : buffer'[o] = buffer[o]]_vars

Held == IF rpc = "holding" THEN Len(Run(offset, (offset + len) % Size)) ELSE 0

(* Packets are read in the order of their commits; only TL_OPMODE_DROP_OLDEST *)
(* and a reset lose any, and never one that is held.                        *)
Promise == INSTANCE PacketStream WITH
  Packets <- Ids, mode <- eOpMode, queue <- Unread, held <- Held
Delivery == Promise!Spec

(* A stream that does not wrap keeps what was written: "it never wraps     *)
(* around and overwrites existing data" (TL_FLAG_PERMANENT_NO_WRAP).       *)
WrittenStays ==
  [][NoWrap => \A o \in 0 .. ui32Write - 1 :
       o < ui32Write' /\ buffer'[o] = buffer[o]]_vars

(* A writer in a call goes on; it is not shut out of the read lock for     *)
(* ever by a reader that comes and goes.  Again and again a client opens   *)
(* the stream with no flags, acquires, and releases all it got; one that   *)
(* has come to its limit closes.                                           *)
Fairness ==
  /\ \A w \in Writers : WF_vars(WriterStep(w)) /\ SF_vars(LockRead(w))
  /\ SF_vars(OpenStream(FALSE, FALSE))
  /\ WF_vars(TLStreamReset)
  /\ WF_vars(AtLimit /\ CloseStream)
  /\ SF_vars(AcquireData)
  /\ WF_vars(FindNothing)
  /\ SF_vars(ReleaseData(len))
FairSpec == Spec /\ Fairness

(* A reserve comes back: the stream takes the packet, refuses it, or finds *)
(* room for it in the end.                                                 *)
ReserveReturns == \A w \in Writers : wpc[w] # "idle" ~> wpc[w] = "idle"
=============================================================================
