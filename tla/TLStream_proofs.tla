--------------------------- MODULE TLStream_proofs ---------------------------
(***************************************************************************)
(* Proofs about TLStream: first a writer that drops packets beside the     *)
(* reader, then the packets in the buffer.  They form a chain from the     *)
(* read to the write offset, which is what the functions that walk over    *)
(* the headers (Run, Parts, ReadAfterDrop) find, and which every step      *)
(* keeps, extends at its end or shortens at its beginning.                 *)
(***************************************************************************)
EXTENDS TLStream, SequenceTheorems, WellFoundedInduction, TLAPS

(* What the two need to know of the types.                                 *)
Typed ==
  /\ eOpMode \in Modes
  /\ hReadLock \in Writers \cup {None}
  /\ bReadPending \in BOOLEAN
  /\ wpc \in [Writers -> {"idle", "write", "block", "lock", "drop", "refuse", "fill", "commit"}]

(* Writers come to the read lock in TL_OPMODE_DROP_OLDEST only, and one    *)
(* that drops packets holds it while no read is pending.                   *)
DropperHasLock ==
  \A w \in Writers :
    /\ wpc[w] \in {"lock", "drop"} => eOpMode = "dropOldest"
    /\ wpc[w] = "drop" => hReadLock = w /\ ~bReadPending

(* A reader at work is pending for such writers, and where it began.       *)
ReaderIsPending ==
  /\ rpc \in {"holding", "empty"} /\ eOpMode = "dropOldest" => bReadPending
  /\ rpc = "holding" => offset = ui32Read

IInv == Typed /\ DropperHasLock /\ ReaderIsPending

(* Nothing is being dropped while the reader holds packets or is about to  *)
(* find none.                                                              *)
LEMMA NoDropBesideReader ==
  ASSUME IInv, NEW w \in Writers, wpc[w] = "drop"
  PROVE  rpc \notin {"holding", "empty"}
BY DEF IInv, DropperHasLock, ReaderIsPending

(* TryReadLock succeeds only when nothing is being dropped.                *)
LEMMA NoDropBesideAcquire ==
  ASSUME IInv, TryReadLock, NEW w \in Writers
  PROVE  wpc[w] # "drop"
BY StreamAssumption DEF IInv, DropperHasLock, TryReadLock

(* No writer has reserved and no reader is open at first.                 *)
LEMMA InitIInv == Init => IInv
BY DEF Init, IInv, Typed, DropperHasLock, ReaderIsPending

(* Where a reserve goes first.                                             *)
LEMMA PathStage ==
  ASSUME eOpMode \in Modes, NEW l
  PROVE  /\ Path(l) \in {"write", "block", "lock", "refuse"}
         /\ Path(l) = "lock" => eOpMode = "dropOldest"
BY StreamAssumption DEF Path

(* Every step of a writer preserves the invariant.                         *)
LEMMA WriterKeeps ==
  ASSUME IInv, NEW w \in Writers,
         WriterStep(w) \/ \E n \in DataSizes : Reserve(w, n)
  PROVE  IInv'
<1> USE StreamAssumption DEF IInv, Typed, DropperHasLock, ReaderIsPending, stream, reader, At, Leave
<1>1. CASE \E n \in DataSizes : Reserve(w, n)
  <2> PICK n \in DataSizes : Reserve(w, n)
    BY <1>1
  <2> DEFINE l == [read |-> ui32Read, write |-> ui32Write, size |-> n]
  <2>1. wpc' = [wpc EXCEPT ![w] = Path(l)]
    BY DEF Reserve
  <2>2. /\ Path(l) \in {"write", "block", "lock", "refuse"}
        /\ Path(l) = "lock" => eOpMode = "dropOldest"
    BY PathStage
  <2>3. UNCHANGED <<eOpMode, ui32Read, hReadLock, bReadPending, rpc, offset>>
    BY DEF Reserve
  <2> HIDE DEF l
  <2> QED
    BY <2>1, <2>2, <2>3
<1>2. CASE LookAgain(w)
  BY <1>2 DEF LookAgain
<1>3. CASE LockRead(w)
  BY <1>3 DEF LockRead, MayDrop
<1>4. CASE DropOldest(w)
  <2>1. wpc[w] = "drop" /\ hReadLock = w /\ ~bReadPending /\ eOpMode = "dropOldest"
    BY <1>4 DEF DropOldest
  <2>2. rpc \notin {"holding", "empty"}
    BY <2>1
  <2>3. \A v \in Writers : v # w => wpc[v] # "drop"
    BY <2>1
  <2> QED
    BY <1>4, <2>1, <2>2, <2>3 DEF DropOldest
<1>5. CASE WriteHeader(w)
  BY <1>5 DEF WriteHeader
<1>6. CASE Refuse(w)
  BY <1>6 DEF Refuse
<1>7. CASE Fill(w)
  BY <1>7 DEF Fill
<1>8. CASE TLStreamCommit(w)
  BY <1>8 DEF TLStreamCommit
<1> QED
  BY <1>1, <1>2, <1>3, <1>4, <1>5, <1>6, <1>7, <1>8 DEF WriterStep

(* Every step of the reader preserves the invariant.                       *)
LEMMA ReaderKeeps ==
  ASSUME IInv,
         \/ \E limited, reset \in BOOLEAN : OpenStream(limited, reset)
         \/ TLStreamReset \/ CloseStream
         \/ AcquireData \/ AcquireLimited \/ AcquireNothing \/ FindNothing
         \/ \E n \in Offsets : ReleaseData(n)
  PROVE  IInv'
<1> USE DEF IInv, Typed, DropperHasLock, ReaderIsPending, stream, writer
<1>1. CASE \E limited, reset \in BOOLEAN : OpenStream(limited, reset)
  BY <1>1 DEF OpenStream
<1>2. CASE TLStreamReset
  BY <1>2 DEF TLStreamReset
<1>3. CASE CloseStream
  BY <1>3 DEF CloseStream
<1>4. CASE AcquireData
  BY <1>4, NoDropBesideAcquire DEF AcquireData, MarkRead
<1>5. CASE AcquireLimited
  BY <1>5, NoDropBesideAcquire DEF AcquireLimited, MarkRead, reader
<1>6. CASE AcquireNothing
  BY <1>6, NoDropBesideAcquire DEF AcquireNothing, MarkRead
<1>7. CASE FindNothing
  BY <1>7 DEF FindNothing, ClearRead
<1>8. CASE \E n \in Offsets : ReleaseData(n)
  BY <1>8 DEF ReleaseData, ClearRead
<1> QED
  BY <1>1, <1>2, <1>3, <1>4, <1>5, <1>6, <1>7, <1>8

(* Every step preserves the invariant.                                     *)
LEMMA StepIInv == IInv /\ [Next]_vars => IInv'
<1> SUFFICES ASSUME IInv, [Next]_vars PROVE IInv'
  OBVIOUS
<1>1. CASE Next
  BY <1>1, WriterKeeps, ReaderKeeps DEF Next
<1>2. CASE UNCHANGED vars
  BY <1>2 DEF vars, stream, writer, reader, IInv, Typed, DropperHasLock, ReaderIsPending
<1> QED
  BY <1>1, <1>2

(* Only a dropping writer and the reader's own calls outside an acquire    *)
(* move the read offset.                                                   *)
LEMMA OffsetStays ==
  ASSUME IInv, Next, rpc = "holding", rpc' = "holding"
  PROVE  ui32Read' = ui32Read
<1>1. ASSUME NEW w \in Writers, DropOldest(w) PROVE FALSE
  BY <1>1, NoDropBesideReader DEF DropOldest
<1>2. ASSUME NEW w \in Writers, WriterStep(w) PROVE ui32Read' = ui32Read
  BY <1>1, <1>2 DEF WriterStep, LookAgain, LockRead, WriteHeader, Refuse, Fill, TLStreamCommit,
     stream
<1>3. ASSUME NEW w \in Writers, NEW n \in DataSizes, Reserve(w, n) PROVE ui32Read' = ui32Read
  BY <1>3 DEF Reserve
<1>4. ASSUME \/ \E limited, reset \in BOOLEAN : OpenStream(limited, reset)
             \/ TLStreamReset \/ CloseStream
             \/ AcquireData \/ AcquireLimited \/ AcquireNothing \/ FindNothing
             \/ \E n \in Offsets : ReleaseData(n)
      PROVE  FALSE
  BY <1>4 DEF OpenStream, TLStreamReset, CloseStream, AcquireData, AcquireLimited,
     AcquireNothing, FindNothing, ReleaseData
<1> QED
  BY <1>2, <1>3, <1>4 DEF Next

(* The comment of TLStreamAdvanceReadPos is right: with bReadPending alone *)
(* nobody moves the read offset under a reader that holds packets, in any  *)
(* mode, for any number of writers and any size, with every open flag.     *)
THEOREM HeldOffset == Spec => HeldOffsetStays
<1> DEFINE Stays == rpc = "holding" => offset = ui32Read /\ (rpc' = "holding" => ui32Read' = ui32Read)
<1>1. Init => IInv
  BY InitIInv
<1>2. IInv /\ [Next]_vars => IInv'
  BY StepIInv
<1>3. IInv /\ [Next]_vars => [Stays]_vars
  BY OffsetStays DEF IInv, ReaderIsPending
<1> QED
  BY <1>1, <1>2, <1>3, PTL DEF Spec, HeldOffsetStays

-----------------------------------------------------------------------------
(* The packets in the buffer.                                              *)

(* Offsets in the order in which a reader at read comes to them, and what  *)
(* is free beyond write.                                                   *)
Lap(read, o) == IF o < read THEN o + Size ELSE o
Free(read, write) == IF read > write THEN read - write ELSE Size - (write - read)

(* A whole packet in a buffer, and the next one.                           *)
Sound(b, r) ==
  /\ IsHeader(b[r])
  /\ r + b[r].len < Size
  /\ b[r].kind = "packet" => \A o \in r + 1 .. r + b[r].len : b[o] = Data(b[r].id)
After(b, r) == IF r + 1 + b[r].len >= Size THEN 0 ELSE r + 1 + b[r].len

(* S are the offsets of the unread packets, and the write offset: whole    *)
(* packets, one after the other, from the read offset on.                  *)
Chain(S, read, write, b) ==
  /\ S \subseteq Offsets /\ read \in S /\ write \in S
  /\ write < read => 0 \in S
  /\ \A r \in S : Lap(read, r) <= Lap(read, write)
  /\ \A r \in S \ {write} :
       /\ Sound(b, r) /\ After(b, r) \in S
       /\ Lap(read, After(b, r)) = Lap(read, r) + 1 + b[r].len
       /\ \A s \in S : Lap(read, s) <= Lap(read, r) \/ Lap(read, s) >= Lap(read, After(b, r))

(* A unit is left between what is unread and the read offset, and a second *)
(* one unless a packet was refused there.                                  *)
Spare ==
  \/ Free(ui32Read, ui32Write) >= Reserved
  \/ Free(ui32Read, ui32Write) = 1 /\ buffer[Last(ui32Write)].kind = "writeFailed"

(* What a reader holds, and where it has to stop, are packets.             *)
Wrapped(o) == IF o = Size THEN 0 ELSE o
Stops(S) ==
  /\ limit # NoLimit /\ ui32Read < limit => limit \in S
  /\ rpc = "holding" =>
       /\ offset + len <= Size /\ Wrapped(offset + len) \in S
       /\ offset + len <= Lap(ui32Read, ui32Write)
       /\ limit # NoLimit => ui32Read < limit /\ offset + len <= limit

ReaderShape ==
  /\ limit # NoLimit => eOpMode # "dropOldest"
  /\ rpc = "reset" => limit = NoLimit

(* One writer at a time is past its reserve; until it moves the write      *)
(* offset, what it knows of the read offset is no further than it is.      *)
WriterShape ==
  \A w \in Writers :
    /\ wpc[w] # "idle" =>
         /\ ui32Pending # NothingPending
         /\ \A v \in Writers : wpc[v] # "idle" => v = w
    /\ wpc[w] \in {"write", "block", "lock", "drop", "refuse"} =>
         /\ loc[w].write = ui32Write
         /\ Free(loc[w].read, ui32Write) <= Free(ui32Read, ui32Write)
    /\ wpc[w] = "drop" => loc[w].read = ui32Read

(* ... from then on its packet fits where it is put, with its header there,*)
(* and then its data.                                                      *)
NewPacket ==
  \A w \in Writers : wpc[w] \in {"fill", "commit"} =>
    /\ ui32Write + loc[w].size + 1 <= Size
    /\ loc[w].size + 1 + Reserved <= Free(ui32Read, ui32Write)
    /\ buffer[ui32Write] = Header("packet", loc[w].size, nextId)
    /\ wpc[w] = "commit" => Sound(buffer, ui32Write)

(* No unit of the buffer claims more than is left of it.                   *)
CellsFit == \A o \in Offsets : o + buffer[o].len < Size

(* Offsets are numbers.                                                    *)
LEMMA Sizes ==
  /\ Size \in Nat /\ Size >= 15 /\ 0 \in Offsets
  /\ \A o \in Offsets : o \in Nat /\ o < Size
  /\ \A o \in Nat : o < Size => o \in Offsets
BY StreamAssumption DEF Offsets

(* ... and so are places on the lap of a reader,                           *)
LEMMA LapNumbers ==
  ASSUME NEW read \in Offsets, NEW o \in Offsets
  PROVE  /\ Lap(read, o) \in Nat /\ read <= Lap(read, o) /\ Lap(read, o) < read + Size
         /\ Lap(read, read) = read
         /\ o < read => Lap(read, o) = o + Size
         /\ o >= read => Lap(read, o) = o
BY Sizes DEF Lap

(* ... and what is free.                                                   *)
LEMMA FreeNumbers ==
  ASSUME NEW read \in Offsets, NEW write \in Offsets
  PROVE  /\ Free(read, write) \in Nat /\ Free(read, write) > 0
         /\ Lap(read, write) = read + Size - Free(read, write)
BY Sizes DEF Lap, Free

(* The numbers of a chain.                                                 *)
LEMMA ChainNumbers ==
  ASSUME NEW S, NEW read, NEW write, NEW b \in [Offsets -> Cell], Chain(S, read, write, b)
  PROVE  /\ read \in Offsets /\ write \in Offsets
         /\ \A s \in S : s \in Offsets /\ Lap(read, s) \in Nat /\ read <= Lap(read, s)
         /\ \A o \in Offsets : b[o].len \in Nat
<1>1. S \subseteq Offsets /\ read \in S /\ write \in S
  BY DEF Chain
<1>2. \A o \in Offsets : b[o].len \in Nat
  BY Sizes DEF Cell
<1> QED
  BY <1>1, <1>2, LapNumbers

(* An empty buffer.                                                        *)
LEMMA ChainEmpty ==
  ASSUME NEW read \in Offsets, NEW b
  PROVE  Chain({read}, read, read, b)
BY Sizes DEF Chain, Lap

(* The units of a packet lie together, before the write offset, and but    *)
(* for its header no packet begins there.                                  *)
LEMMA PacketUnits ==
  ASSUME NEW S, NEW read, NEW write, NEW b \in [Offsets -> Cell], Chain(S, read, write, b),
         NEW r \in S, r # write, NEW o \in r .. r + b[r].len
  PROVE  /\ o \in Offsets /\ Lap(read, o) < Lap(read, write)
         /\ o # r => o \notin S
<1>1. /\ read \in Offsets /\ write \in Offsets /\ r \in Offsets /\ b[r].len \in Nat
      /\ After(b, r) \in S /\ After(b, r) \in Offsets
  BY ChainNumbers DEF Chain
<1>2. /\ r + b[r].len < Size
      /\ Lap(read, After(b, r)) = Lap(read, r) + 1 + b[r].len
      /\ Lap(read, After(b, r)) <= Lap(read, write)
      /\ Lap(read, r) <= Lap(read, write)
  BY DEF Chain, Sound
<1>3. PICK n \in Nat : n = b[r].len
  BY <1>1
<1>4. /\ o \in Nat /\ r <= o /\ o <= r + n /\ o < Size /\ o \in Offsets
      /\ read \in Nat /\ read < Size /\ write \in Nat /\ write < Size /\ r \in Nat /\ r < Size
  BY <1>1, <1>2, <1>3, Sizes
<1>5. Lap(read, r) + 1 + n <= Lap(read, write)
  BY <1>2, <1>3
<1>6. Lap(read, o) = Lap(read, r) + (o - r)
  <2>1. CASE r >= read
    BY <1>1, <1>4, <2>1, LapNumbers
  <2>2. CASE r < read
    <3>1. Lap(read, r) = r + Size /\ write < read
      <4>1. Lap(read, r) = r + Size
        BY <1>1, <2>2, LapNumbers
      <4>2. CASE write >= read
        <5>1. Lap(read, write) = write
          BY <1>1, <4>2, LapNumbers
        <5> QED
          BY <1>4, <1>5, <4>1, <5>1, Sizes
      <4> QED
        BY <1>4, <4>1, <4>2
    <3>2. Lap(read, write) = write + Size
      BY <1>1, <3>1, LapNumbers
    <3>3. o < read
      BY <1>4, <1>5, <3>1, <3>2, Sizes
    <3> QED
      BY <1>1, <1>4, <3>1, <3>3, LapNumbers, Sizes
  <2> QED
    BY <1>4, <2>1, <2>2
<1>7. Lap(read, r) \in Nat /\ Lap(read, write) \in Nat
  BY <1>1, LapNumbers
<1>8. ASSUME o # r, o \in S PROVE FALSE
  <2>1. Lap(read, o) <= Lap(read, r) \/ Lap(read, o) >= Lap(read, After(b, r))
    BY <1>8 DEF Chain
  <2> QED
    BY <1>2, <1>3, <1>4, <1>6, <1>7, <1>8, <2>1
<1> QED
  BY <1>4, <1>5, <1>6, <1>7, <1>8

(* A write to what is free, or a flag in a header, changes no packet.      *)
LEMMA ChainBuffer ==
  ASSUME NEW S, NEW read, NEW write, NEW b \in [Offsets -> Cell], NEW c \in [Offsets -> Cell],
         Chain(S, read, write, b),
         \A o \in Offsets : Lap(read, o) < Lap(read, write) =>
           c[o] = b[o] \/ (o \in S /\ c[o] = [b[o] EXCEPT !.dropped = TRUE])
  PROVE  Chain(S, read, write, c)
<1>1. ASSUME NEW r \in S, r # write
      PROVE  Sound(c, r) /\ c[r].len = b[r].len
  <2>1. \A o \in r .. r + b[r].len : o \in Offsets /\ Lap(read, o) < Lap(read, write) /\ (o # r => o \notin S)
    BY <1>1, PacketUnits
  <2>2. r \in r .. r + b[r].len /\ r \in Nat /\ b[r].len \in Nat
    BY <1>1, ChainNumbers, Sizes
  <2>3. c[r] = b[r] \/ c[r] = [b[r] EXCEPT !.dropped = TRUE]
    BY <2>1, <2>2
  <2>4. c[r].kind = b[r].kind /\ c[r].len = b[r].len /\ c[r].id = b[r].id
    <3>1. b[r] \in Cell
      BY <2>1, <2>2
    <3> QED
      BY <2>3, <3>1 DEF Cell
  <2>5. \A o \in r + 1 .. r + b[r].len : c[o] = b[o]
    BY <2>1, <2>2
  <2>6. Sound(b, r)
    BY <1>1 DEF Chain
  <2> QED
    BY <2>4, <2>5, <2>6 DEF Sound, IsHeader
<1>2. ASSUME NEW r \in S, r # write
      PROVE  After(c, r) = After(b, r)
  BY <1>1, <1>2 DEF After
<1> QED
  BY <1>1, <1>2 DEF Chain

(* The packets from one of them on.                                        *)
Rest(S, read, q) == {s \in S : Lap(read, s) >= Lap(read, q)}

(* ... lie in the same order for a reader that comes to it.                *)
LEMMA LapRest ==
  ASSUME NEW S, NEW read, NEW write, NEW b \in [Offsets -> Cell], Chain(S, read, write, b),
         NEW q \in S
  PROVE  \E d \in {0, Size} : \A s \in Rest(S, read, q) : Lap(q, s) = Lap(read, s) - d
<1>1. /\ read \in Offsets /\ q \in Offsets
      /\ \A s \in Rest(S, read, q) : s \in Offsets /\ Lap(read, s) >= Lap(read, q)
  BY ChainNumbers DEF Rest
<1>2. CASE q >= read
  <2>1. ASSUME NEW s \in Rest(S, read, q) PROVE Lap(q, s) = Lap(read, s) - 0
    BY <1>1, <1>2, Sizes DEF Lap
  <2> QED
    BY <2>1
<1>3. CASE q < read
  <2>1. ASSUME NEW s \in Rest(S, read, q) PROVE Lap(q, s) = Lap(read, s) - Size
    BY <1>1, <1>3, Sizes DEF Lap
  <2> QED
    BY <2>1
<1> QED
  BY <1>1, <1>2, <1>3, Sizes

(* A reader that releases packets, or a writer that drops them.            *)
LEMMA ChainAdvance ==
  ASSUME NEW S, NEW read, NEW write, NEW b \in [Offsets -> Cell], Chain(S, read, write, b),
         NEW q \in S
  PROVE  Chain(Rest(S, read, q), q, write, b) /\ Free(read, write) <= Free(q, write)
<1> DEFINE T == Rest(S, read, q)
<1>1. PICK d \in {0, Size} : \A s \in T : Lap(q, s) = Lap(read, s) - d
  BY LapRest
<1>2. /\ read \in Offsets /\ write \in Offsets /\ q \in Offsets /\ d \in Nat
      /\ \A s \in S : s \in Offsets /\ Lap(read, s) \in Nat /\ read <= Lap(read, s)
      /\ \A o \in Offsets : b[o].len \in Nat
  BY ChainNumbers, Sizes
<1>3. T \subseteq S /\ q \in T /\ write \in T
  <2>1. write \in S /\ \A r \in S : Lap(read, r) <= Lap(read, write)
    BY DEF Chain
  <2> QED
    BY <1>2, <2>1 DEF Rest
<1>4. write < q => 0 \in T
  <2>1. ASSUME write < q PROVE 0 \in S /\ Lap(read, 0) >= Lap(read, q)
    <3>1. Lap(read, q) <= Lap(read, write)
      BY DEF Chain
    <3>2. write < read /\ q >= read
      BY <1>2, <2>1, <3>1, Sizes DEF Lap
    <3> QED
      BY <1>2, <3>2, Sizes DEF Chain, Lap
  <2> QED
    BY <2>1 DEF Rest
<1>5. \A r \in T : Lap(q, r) <= Lap(q, write)
  <2>1. \A r \in T : Lap(read, r) <= Lap(read, write) /\ Lap(read, r) \in Int
    BY <1>2, <1>3 DEF Chain
  <2> QED
    BY <1>1, <1>2, <1>3, <2>1
<1>6. ASSUME NEW r \in T, r # write
      PROVE  /\ Sound(b, r) /\ After(b, r) \in T
             /\ Lap(q, After(b, r)) = Lap(q, r) + 1 + b[r].len
             /\ \A s \in T : Lap(q, s) <= Lap(q, r) \/ Lap(q, s) >= Lap(q, After(b, r))
  <2>1. /\ Sound(b, r) /\ After(b, r) \in S
        /\ Lap(read, After(b, r)) = Lap(read, r) + 1 + b[r].len
        /\ \A s \in S : Lap(read, s) <= Lap(read, r) \/ Lap(read, s) >= Lap(read, After(b, r))
    BY <1>3, <1>6 DEF Chain
  <2>2. r \in Offsets /\ b[r].len \in Nat /\ Lap(read, r) \in Nat /\ Lap(read, r) >= Lap(read, q)
    BY <1>2, <1>3 DEF Rest
  <2>3. After(b, r) \in T
    BY <1>2, <2>1, <2>2 DEF Rest
  <2>4. Lap(q, After(b, r)) = Lap(read, After(b, r)) - d /\ Lap(q, r) = Lap(read, r) - d
    BY <1>1, <2>3
  <2>5. ASSUME NEW s \in T PROVE Lap(q, s) <= Lap(q, r) \/ Lap(q, s) >= Lap(q, After(b, r))
    <3>1. Lap(q, s) = Lap(read, s) - d /\ Lap(read, s) \in Nat /\ s \in S
      BY <1>1, <1>2, <1>3
    <3>2. Lap(read, After(b, r)) \in Nat
      BY <1>2, <2>1
    <3> QED
      BY <1>2, <2>1, <2>2, <2>4, <3>1, <3>2
  <2> QED
    BY <1>2, <2>1, <2>2, <2>3, <2>4, <2>5
<1>7. Chain(T, q, write, b)
  <2>1. T \subseteq Offsets
    BY <1>2, <1>3
  <2> HIDE DEF T
  <2> QED
    BY <1>3, <1>4, <1>5, <1>6, <2>1 DEF Chain
<1>8. Free(read, write) <= Free(q, write)
  <2>1. Lap(q, write) = Lap(read, write) - d /\ Lap(q, q) = Lap(read, q) - d
    BY <1>1, <1>3
  <2>2. Lap(q, q) = q /\ read <= Lap(read, q) /\ Lap(read, q) \in Nat
    BY <1>2, LapNumbers
  <2>3. /\ Lap(read, write) = read + Size - Free(read, write) /\ Free(read, write) \in Nat
        /\ Lap(q, write) = q + Size - Free(q, write) /\ Free(q, write) \in Nat
    BY <1>2, FreeNumbers
  <2> QED
    BY <1>2, <2>1, <2>2, <2>3, Sizes
<1> QED
  BY <1>7, <1>8

(* A writer that makes the packet at the write offset readable.            *)
LEMMA ChainAppend ==
  ASSUME NEW S, NEW read, NEW write, NEW b \in [Offsets -> Cell], Chain(S, read, write, b),
         NEW v \in Offsets, Sound(b, write), After(b, write) = v,
         Lap(read, v) = Lap(read, write) + 1 + b[write].len
  PROVE  Chain(S \cup {v}, read, v, b)
<1> DEFINE T == S \cup {v}
<1>1. /\ read \in Offsets /\ write \in Offsets /\ b[write].len \in Nat
      /\ \A s \in S : s \in Offsets /\ Lap(read, s) \in Nat
      /\ Lap(read, v) \in Nat /\ Lap(read, write) \in Nat
  BY ChainNumbers, LapNumbers
<1>2. /\ S \subseteq Offsets /\ read \in S /\ write \in S
      /\ \A r \in S : Lap(read, r) <= Lap(read, write)
  BY DEF Chain
<1>3. v < read => 0 \in T
  <2>1. CASE write < read
    BY <2>1 DEF Chain
  <2>2. CASE write >= read
    <3>1. v = 0 \/ v = write + 1 + b[write].len
      BY DEF After
    <3> QED
      BY <1>1, <2>2, <3>1, Sizes
  <2> QED
    BY <1>1, <2>1, <2>2, Sizes
<1>4. \A r \in T : Lap(read, r) <= Lap(read, v)
  <2>1. \A r \in S : Lap(read, r) <= Lap(read, v)
    BY <1>1, <1>2
  <2> QED
    BY <1>1, <2>1
<1>5. v \notin S
  BY <1>1, <1>2
<1>6. ASSUME NEW r \in S
      PROVE  /\ Sound(b, r) /\ After(b, r) \in T
             /\ Lap(read, After(b, r)) = Lap(read, r) + 1 + b[r].len
             /\ \A s \in T : Lap(read, s) <= Lap(read, r) \/ Lap(read, s) >= Lap(read, After(b, r))
  <2>1. CASE r = write
    BY <1>1, <1>2, <2>1
  <2>2. CASE r # write
    <3>1. /\ Sound(b, r) /\ After(b, r) \in S
          /\ Lap(read, After(b, r)) = Lap(read, r) + 1 + b[r].len
          /\ \A s \in S : Lap(read, s) <= Lap(read, r) \/ Lap(read, s) >= Lap(read, After(b, r))
      BY <2>2 DEF Chain
    <3>2. Lap(read, v) >= Lap(read, After(b, r))
      BY <1>4, <3>1
    <3> QED
      BY <3>1, <3>2
  <2> QED
    BY <2>1, <2>2
<1> HIDE DEF T
<1>7. T \subseteq Offsets /\ read \in T /\ v \in T /\ T \ {v} \subseteq S
  BY <1>2 DEF T
<1> QED
  <2>1. Chain(T, read, v, b)
    BY <1>3, <1>4, <1>6, <1>7 DEF Chain
  <2> QED
    BY <2>1 DEF T

-----------------------------------------------------------------------------
(* What a walk over the headers finds.                                     *)

(* A set of numbers has a least one.                                       *)
LEMMA Least ==
  ASSUME NEW T \in SUBSET Nat, T # {}
  PROVE  \E x \in T : \A y \in T : x <= y
<1>1. PICK x \in T : \A y \in T : ~ (<<y, x>> \in OpToRel(<, Nat))
  BY NatLessThanWellFounded, WFMin
<1>2. \A a, b \in Nat : a < b => <<a, b>> \in OpToRel(<, Nat)
  BY DEF OpToRel
<1>3. \A y \in T : x \in Nat /\ y \in Nat /\ ~(y < x)
  BY <1>1, <1>2
<1>4. \A y \in T : x <= y
  <2> TAKE y \in T
  <2>1. x \in Nat /\ y \in Nat /\ ~(y < x)
    BY <1>3
  <2> QED
    BY <2>1
<1> QED
  BY <1>4

(* What holds of one packet, and of a packet when it holds of the next one,*)
(* holds of all before the first.                                          *)
LEMMA ChainInduction ==
  ASSUME NEW S, NEW read, NEW write, NEW b \in [Offsets -> Cell], Chain(S, read, write, b),
         NEW e \in S, NEW P, e \in P,
         \A r \in S : /\ r # write /\ r # e /\ Lap(read, r) < Lap(read, e)
                      /\ Lap(read, After(b, r)) <= Lap(read, e)
                      /\ After(b, r) \in P
                      => r \in P,
         NEW a \in S, Lap(read, a) <= Lap(read, e)
  PROVE  a \in P
<1> DEFINE Dist(r) == Lap(read, e) - Lap(read, r)
           Bad == {r \in S : r \notin P /\ Lap(read, r) <= Lap(read, e)}
           T == {Dist(r) : r \in Bad}
<1>1. \A s \in S : s \in Offsets /\ Lap(read, s) \in Nat
  BY ChainNumbers
<1>2. SUFFICES ASSUME a \notin P PROVE FALSE
  OBVIOUS
<1>3. T \in SUBSET Nat /\ T # {}
  BY <1>1, <1>2
<1>4. PICK r \in Bad : \A s \in Bad : Dist(r) <= Dist(s)
  <2>1. PICK x \in T : \A y \in T : x <= y
    BY <1>3, Least
  <2> QED
    BY <2>1
<1>5. /\ r \in S /\ r \notin P /\ r # e /\ Lap(read, r) <= Lap(read, e)
  OBVIOUS
<1>6. Lap(read, r) # Lap(read, e)
  BY <1>1, <1>5, Sizes, ChainNumbers DEF Lap
<1>7. Lap(read, r) < Lap(read, e)
  BY <1>1, <1>5, <1>6
<1>8. r # write
  BY <1>1, <1>5, <1>7 DEF Chain
<1>9. /\ After(b, r) \in S
      /\ Lap(read, After(b, r)) = Lap(read, r) + 1 + b[r].len
      /\ Lap(read, After(b, r)) <= Lap(read, e)
      /\ b[r].len \in Nat
  <2>1. /\ After(b, r) \in S
        /\ Lap(read, After(b, r)) = Lap(read, r) + 1 + b[r].len
        /\ Lap(read, e) <= Lap(read, r) \/ Lap(read, e) >= Lap(read, After(b, r))
    BY <1>5, <1>8 DEF Chain
  <2>2. b[r].len \in Nat
    BY <1>1, <1>5, ChainNumbers
  <2> QED
    BY <1>1, <1>5, <1>7, <2>1, <2>2
<1>10. After(b, r) \in P
  <2>1. SUFFICES ASSUME After(b, r) \notin P PROVE FALSE
    OBVIOUS
  <2>2. Dist(r) <= Dist(After(b, r))
    BY <1>4, <1>9, <2>1
  <2> HIDE DEF Bad, T
  <2> QED
    BY <1>1, <1>5, <1>9, <2>2
<1> QED
  BY <1>5, <1>7, <1>8, <1>9, <1>10

(* The packets a reader meets in a buffer b.                               *)
FoundIn(b, r) == IF b[r].kind = "packet" THEN <<b[r].id>> ELSE <<>>
IsWalk(f, b, e, n) ==
  f = [most \in 0 .. n |-> [r \in Offsets |->
         IF r = e THEN <<>>
         ELSE IF most = 0 \/ ~Sound(b, r) THEN <<Broken>>
         ELSE FoundIn(b, r) \o f[most - 1][After(b, r)]]]
WalkTo(b, e) == CHOOSE f : IsWalk(f, b, e, Size)
RunIn(b, a, e) == WalkTo(b, e)[Size][a]

(* Run is a walk in the buffer as it is; so what is unread and held now    *)
(* and after a step can be told in the same words.                         *)
LEMMA RunIsRunIn == \A a, e : Run(a, e) = RunIn(buffer, a, e)
BY DEF Run, RunIn, WalkTo, IsWalk, Whole, Sound, Found, FoundIn, NextPacket, After

(* What is unread is the walk from the read to the write offset,           *)
LEMMA UnreadIs == Unread = RunIn(buffer, ui32Read, ui32Write)
BY RunIsRunIn DEF Unread

(* ... and what is held is the walk over what was acquired.                *)
LEMMA HeldIs ==
  Held = IF rpc = "holding" THEN Len(RunIn(buffer, offset, (offset + len) % Size)) ELSE 0
BY RunIsRunIn DEF Held

(* The same after a step.                                                  *)
LEMMA HeldIsNext ==
  Held' = IF rpc' = "holding" THEN Len(RunIn(buffer', offset', (offset' + len') % Size))
                               ELSE 0
<1>1. (Held = IF rpc = "holding" THEN Len(RunIn(buffer, offset, (offset + len) % Size)) ELSE 0)'
  BY HeldIs, PTL
<1> QED
  BY <1>1

(* The same after a step.                                                  *)
LEMMA UnreadIsNext == Unread' = RunIn(buffer', ui32Read', ui32Write')
<1>1. (Unread = RunIn(buffer, ui32Read, ui32Write))'
  BY UnreadIs, PTL
<1> QED
  BY <1>1

(* The next packet is in the buffer.                                       *)
LEMMA AfterOffset ==
  ASSUME NEW b \in [Offsets -> Cell], NEW r \in Offsets
  PROVE  After(b, r) \in Offsets
<1>1. b[r].len \in Nat /\ r \in Nat
  BY Sizes DEF Cell
<1> QED
  BY <1>1, Sizes DEF After

(* There is such a function, for every length of a walk: else take the     *)
(* shortest length for which there is none.                                *)
LEMMA WalkExists ==
  ASSUME NEW b \in [Offsets -> Cell], NEW e
  PROVE  IsWalk(WalkTo(b, e), b, e, Size)
<1> DEFINE Bad == {n \in 0 .. Size : ~ \E f : IsWalk(f, b, e, n)}
           Body(f, r, most) ==
             IF r = e THEN <<>>
             ELSE IF most = 0 \/ ~Sound(b, r) THEN <<Broken>>
             ELSE FoundIn(b, r) \o f[most - 1][After(b, r)]
<1>1. SUFFICES ASSUME Bad # {} PROVE FALSE
  <2>1. Bad = {} => \E f : IsWalk(f, b, e, Size)
    BY Sizes
  <2> HIDE DEF Bad
  <2> QED
    BY <2>1 DEF WalkTo
<1>2. PICK n \in Bad : \A m \in Bad : n <= m
  <2>1. Bad \in SUBSET Nat
    OBVIOUS
  <2> HIDE DEF Bad
  <2> QED
    BY <1>1, <2>1, Least
<1>3. n \in 0 .. Size /\ n \in Nat
  BY Sizes
<1>4. n # 0
  <2> SUFFICES ASSUME n = 0 PROVE FALSE
    OBVIOUS
  <2> DEFINE g == [most \in 0 .. 0 |-> [r \in Offsets |-> IF r = e THEN <<>> ELSE <<Broken>>]]
  <2>1. IsWalk(g, b, e, 0)
    BY DEF IsWalk
  <2> QED
    BY <2>1
<1>5. PICK f : IsWalk(f, b, e, n - 1)
  <2>1. n - 1 \in 0 .. Size /\ n - 1 \notin Bad
    <3>1. n - 1 \in 0 .. Size /\ ~(n <= n - 1)
      BY <1>3, <1>4, Sizes
    <3> HIDE DEF Bad
    <3> QED
      BY <1>2, <3>1
  <2> QED
    BY <2>1
<1> DEFINE g == [most \in 0 .. n |-> [r \in Offsets |-> Body(f, r, most)]]
<1>6. ASSUME NEW r \in Offsets, NEW most \in 0 .. n - 1
      PROVE  g[most][r] = f[most][r]
  <2>1. most \in 0 .. n
    BY <1>3
  <2>2. f[most][r] = Body(f, r, most)
    <3> DEFINE h == [k \in 0 .. n - 1 |-> [s \in Offsets |-> Body(f, s, k)]]
    <3>1. f = h
      BY <1>5 DEF IsWalk
    <3>2. h[most][r] = Body(f, r, most)
      OBVIOUS
    <3> QED
      BY <3>1, <3>2
  <2> QED
    BY <2>1, <2>2
<1>7. ASSUME NEW r \in Offsets, NEW most \in 0 .. n
      PROVE  Body(f, r, most) = Body(g, r, most)
  <2>1. CASE most = 0
    BY <2>1
  <2>2. CASE most # 0
    <3>1. most - 1 \in 0 .. n - 1 /\ After(b, r) \in Offsets
      BY <1>3, <2>2, AfterOffset
    <3>2. g[most - 1][After(b, r)] = f[most - 1][After(b, r)]
      BY <1>6, <3>1
    <3> HIDE DEF g
    <3> QED
      BY <3>2
  <2> QED
    BY <2>1, <2>2
<1>8. g = [most \in 0 .. n |-> [r \in Offsets |-> Body(g, r, most)]]
  <2> DEFINE h == [most \in 0 .. n |-> [r \in Offsets |-> Body(g, r, most)]]
  <2>1. \A r \in Offsets, most \in 0 .. n : g[most][r] = h[most][r]
    BY <1>7
  <2> QED
    BY <1>7
<1>9. IsWalk(g, b, e, n)
  <2> HIDE DEF g
  <2> QED
    BY <1>8 DEF IsWalk
<1> QED
  BY <1>9

(* So the walk of Run goes from packet to packet.                          *)
LEMMA WalkStep ==
  ASSUME NEW b \in [Offsets -> Cell], NEW e, NEW r \in Offsets, NEW most \in 0 .. Size
  PROVE  WalkTo(b, e)[most][r] =
           IF r = e THEN <<>>
           ELSE IF most = 0 \/ ~Sound(b, r) THEN <<Broken>>
           ELSE FoundIn(b, r) \o WalkTo(b, e)[most - 1][After(b, r)]
<1> DEFINE f == WalkTo(b, e)
           Body(k, s) ==
             IF s = e THEN <<>>
             ELSE IF k = 0 \/ ~Sound(b, s) THEN <<Broken>>
             ELSE FoundIn(b, s) \o f[k - 1][After(b, s)]
           h == [k \in 0 .. Size |-> [s \in Offsets |-> Body(k, s)]]
<1>1. IsWalk(f, b, e, Size)
  BY WalkExists
<1> HIDE DEF f
<1>2. f = h
  BY <1>1 DEF IsWalk
<1>3. h[most][r] = Body(most, r)
  OBVIOUS
<1>4. f[most][r] = Body(most, r)
  BY <1>2, <1>3
<1> QED
  BY <1>4 DEF f

(* The number of steps a walk may take does not matter, if there are enough.*)
LEMMA WalkLength ==
  ASSUME NEW S, NEW read, NEW write, NEW b \in [Offsets -> Cell], Chain(S, read, write, b),
         NEW e \in S, NEW r \in S, Lap(read, r) <= Lap(read, e),
         NEW most \in 0 .. Size, most >= Lap(read, e) - Lap(read, r)
  PROVE  WalkTo(b, e)[most][r] = RunIn(b, r, e)
<1> DEFINE W == WalkTo(b, e)
           Enough(s, k) == k >= Lap(read, e) - Lap(read, s)
           P == {s \in S : \A k \in 0 .. Size : Enough(s, k) => W[k][s] = W[Size][s]}
<1>1. /\ read \in Offsets
      /\ \A s \in S : s \in Offsets /\ Lap(read, s) \in Nat /\ read <= Lap(read, s)
      /\ \A o \in Offsets : b[o].len \in Nat
  BY ChainNumbers
<1>2. ASSUME NEW s \in S, NEW k \in 0 .. Size
      PROVE  W[k][s] = IF s = e THEN <<>>
                       ELSE IF k = 0 \/ ~Sound(b, s) THEN <<Broken>>
                       ELSE FoundIn(b, s) \o W[k - 1][After(b, s)]
  BY <1>1, WalkStep
<1> HIDE DEF W
<1>3. e \in P
  BY <1>2, Sizes
<1>4. ASSUME NEW s \in S, s # write, s # e, Lap(read, s) < Lap(read, e),
             Lap(read, After(b, s)) <= Lap(read, e), After(b, s) \in P
      PROVE  s \in P
  <2>1. /\ Sound(b, s) /\ After(b, s) \in S
        /\ Lap(read, After(b, s)) = Lap(read, s) + 1 + b[s].len
    BY <1>4 DEF Chain
  <2>2. ASSUME NEW k \in 0 .. Size, Enough(s, k)
        PROVE  k - 1 \in 0 .. Size /\ Enough(After(b, s), k - 1) /\ k # 0
    BY <1>1, <1>4, <2>1, <2>2, Sizes
  <2>3. Lap(read, e) < read + Size
    BY <1>1, LapNumbers
  <2>4. Size \in 0 .. Size /\ Enough(s, Size)
    BY <1>1, <2>3, Sizes
  <2>5. ASSUME NEW k \in 0 .. Size, Enough(s, k)
        PROVE  W[k][s] = FoundIn(b, s) \o W[Size][After(b, s)]
    <3>1. W[k][s] = FoundIn(b, s) \o W[k - 1][After(b, s)]
      BY <1>2, <1>4, <2>1, <2>2, <2>5
    <3>2. W[k - 1][After(b, s)] = W[Size][After(b, s)]
      BY <1>4, <2>2, <2>5
    <3> QED
      BY <3>1, <3>2
  <2> HIDE DEF Enough
  <2>6. \A k \in 0 .. Size : Enough(s, k) => W[k][s] = W[Size][s]
    BY <2>4, <2>5
  <2> QED
    BY <2>6
<1> HIDE DEF P
<1>5. r \in P
  BY <1>3, <1>4, ChainInduction
<1> QED
  BY <1>5 DEF P, RunIn, W

(* Nothing is met at the end, a packet and then the next ones before.      *)
LEMMA RunSelf ==
  ASSUME NEW b \in [Offsets -> Cell], NEW e \in Offsets
  PROVE  RunIn(b, e, e) = <<>>
BY WalkStep, Sizes DEF RunIn

(* ... and a packet that lies before the end is met first.                 *)
LEMMA RunNext ==
  ASSUME NEW S, NEW read, NEW write, NEW b \in [Offsets -> Cell], Chain(S, read, write, b),
         NEW e \in S, NEW r \in S, r # write, Lap(read, r) < Lap(read, e)
  PROVE  /\ Lap(read, After(b, r)) <= Lap(read, e)
         /\ RunIn(b, r, e) = FoundIn(b, r) \o RunIn(b, After(b, r), e)
<1>1. /\ read \in Offsets /\ r \in Offsets /\ b[r].len \in Nat
      /\ \A s \in S : s \in Offsets /\ Lap(read, s) \in Nat /\ read <= Lap(read, s)
  BY ChainNumbers
<1>2. /\ Sound(b, r) /\ After(b, r) \in S
      /\ Lap(read, After(b, r)) = Lap(read, r) + 1 + b[r].len
      /\ Lap(read, e) <= Lap(read, r) \/ Lap(read, e) >= Lap(read, After(b, r))
  BY DEF Chain
<1>3. Lap(read, After(b, r)) <= Lap(read, e)
  BY <1>1, <1>2
<1>4. Lap(read, e) < read + Size
  BY <1>1, LapNumbers
<1>5. Size - 1 \in 0 .. Size /\ Size - 1 >= Lap(read, e) - Lap(read, After(b, r))
  BY <1>1, <1>2, <1>4, Sizes
<1>6. WalkTo(b, e)[Size - 1][After(b, r)] = RunIn(b, After(b, r), e)
  BY <1>2, <1>3, <1>5, WalkLength
<1>7. WalkTo(b, e)[Size][r] =
           IF r = e THEN <<>>
           ELSE IF Size = 0 \/ ~Sound(b, r) THEN <<Broken>>
           ELSE FoundIn(b, r) \o WalkTo(b, e)[Size - 1][After(b, r)]
  <2>1. Size \in 0 .. Size
    BY Sizes
  <2> QED
    BY <1>1, <2>1, WalkStep
<1>8. r # e /\ Size # 0
  BY <1>1, Sizes
<1>9. RunIn(b, r, e) = WalkTo(b, e)[Size][r]
  BY DEF RunIn
<1> QED
  BY <1>2, <1>3, <1>6, <1>7, <1>8, <1>9

(* Packets are met, and nothing broken.                                    *)
LEMMA FoundIds ==
  ASSUME NEW b \in [Offsets -> Cell], NEW r \in Offsets
  PROVE  FoundIn(b, r) \in Seq(Ids)
BY DEF FoundIn, Cell

(* ... in the whole of a run.                                              *)
LEMMA RunIds ==
  ASSUME NEW S, NEW read, NEW write, NEW b \in [Offsets -> Cell], Chain(S, read, write, b),
         NEW e \in S, NEW r \in S, Lap(read, r) <= Lap(read, e)
  PROVE  RunIn(b, r, e) \in Seq(Ids)
<1> DEFINE P == {s \in S : RunIn(b, s, e) \in Seq(Ids)}
<1>1. \A s \in S : s \in Offsets
  BY ChainNumbers
<1>2. e \in P
  BY <1>1, RunSelf, EmptySeq
<1>3. ASSUME NEW s \in S, s # write, Lap(read, s) < Lap(read, e), After(b, s) \in P
      PROVE  s \in P
  <2>1. RunIn(b, s, e) = FoundIn(b, s) \o RunIn(b, After(b, s), e)
    BY <1>3, RunNext
  <2>2. FoundIn(b, s) \in Seq(Ids) /\ RunIn(b, After(b, s), e) \in Seq(Ids)
    BY <1>1, <1>3, FoundIds
  <2>3. \A x, y \in Seq(Ids) : x \o y \in Seq(Ids)
    BY ConcatProperties
  <2> QED
    BY <2>1, <2>2, <2>3
<1> HIDE DEF P
<1>4. r \in P
  BY <1>2, <1>3, ChainInduction
<1> QED
  BY <1>4 DEF P

(* A run in two parts.                                                     *)
LEMMA RunJoin ==
  ASSUME NEW S, NEW read, NEW write, NEW b \in [Offsets -> Cell], Chain(S, read, write, b),
         NEW e \in S, NEW m \in S, NEW r \in S,
         Lap(read, r) <= Lap(read, m), Lap(read, m) <= Lap(read, e)
  PROVE  RunIn(b, r, e) = RunIn(b, r, m) \o RunIn(b, m, e)
<1> DEFINE P == {s \in S : RunIn(b, s, e) = RunIn(b, s, m) \o RunIn(b, m, e)}
<1>1. /\ \A s \in S : s \in Offsets /\ Lap(read, s) \in Nat
      /\ RunIn(b, m, e) \in Seq(Ids)
  BY ChainNumbers, RunIds
<1>2. m \in P
  BY <1>1, RunSelf
<1>3. ASSUME NEW s \in S, s # write, Lap(read, s) < Lap(read, m),
             Lap(read, After(b, s)) <= Lap(read, m), After(b, s) \in P
      PROVE  s \in P
  <2>1. Lap(read, s) < Lap(read, e)
    BY <1>1, <1>3
  <2>2. RunIn(b, s, e) = FoundIn(b, s) \o RunIn(b, After(b, s), e)
    BY <1>3, <2>1, RunNext
  <2>3. RunIn(b, s, m) = FoundIn(b, s) \o RunIn(b, After(b, s), m)
    BY <1>3, RunNext
  <2>4. FoundIn(b, s) \in Seq(Ids) /\ RunIn(b, After(b, s), m) \in Seq(Ids)
    BY <1>1, <1>3, FoundIds, RunIds
  <2>5. RunIn(b, After(b, s), e) = RunIn(b, After(b, s), m) \o RunIn(b, m, e)
    BY <1>3
  <2>6. \A x, y, z \in Seq(Ids) : x \o (y \o z) = (x \o y) \o z
    BY ConcatAssociative
  <2>7. FoundIn(b, s) \o (RunIn(b, After(b, s), m) \o RunIn(b, m, e))
          = (FoundIn(b, s) \o RunIn(b, After(b, s), m)) \o RunIn(b, m, e)
    BY <1>1, <2>4, <2>6, Zenon
  <2>8. RunIn(b, s, e) = RunIn(b, s, m) \o RunIn(b, m, e)
    BY <2>2, <2>3, <2>5, <2>7, Zenon
  <2> QED
    BY <2>8
<1> HIDE DEF P
<1>4. r \in P
  BY <1>2, <1>3, ChainInduction
<1> QED
  BY <1>4 DEF P

(* Buffers that agree on the packets.                                      *)
LEMMA RunBuffer ==
  ASSUME NEW S, NEW read, NEW write, NEW b \in [Offsets -> Cell], Chain(S, read, write, b),
         NEW c \in [Offsets -> Cell], Chain(S, read, write, c),
         \A o \in Offsets : Lap(read, o) < Lap(read, write) =>
           c[o].kind = b[o].kind /\ c[o].len = b[o].len /\ c[o].id = b[o].id,
         NEW e \in S, NEW r \in S, Lap(read, r) <= Lap(read, e)
  PROVE  RunIn(c, r, e) = RunIn(b, r, e)
<1> DEFINE P == {s \in S : RunIn(c, s, e) = RunIn(b, s, e)}
<1>1. /\ \A s \in S : s \in Offsets /\ Lap(read, s) \in Nat
      /\ write \in S /\ Lap(read, e) <= Lap(read, write)
  BY ChainNumbers DEF Chain
<1> DEFINE Step(d, s) == RunIn(d, s, e) = FoundIn(d, s) \o RunIn(d, After(d, s), e)
<1>2. ASSUME NEW d \in [Offsets -> Cell], Chain(S, read, write, d),
             NEW s \in S, s # write, Lap(read, s) < Lap(read, e)
      PROVE  Step(d, s)
  BY <1>2, RunNext
<1>3. ASSUME NEW s \in S, s # write, Lap(read, s) < Lap(read, e)
      PROVE  Step(b, s) /\ Step(c, s)
  <2> HIDE DEF Step
  <2> QED
    BY <1>2, <1>3
<1>4. e \in P
  BY <1>1, RunSelf
<1>5. ASSUME NEW s \in S, s # write, Lap(read, s) < Lap(read, e), After(b, s) \in P
      PROVE  s \in P
  <2>1. Lap(read, s) < Lap(read, write)
    BY <1>1, <1>5
  <2>2. After(c, s) = After(b, s) /\ FoundIn(c, s) = FoundIn(b, s)
    BY <1>1, <2>1 DEF After, FoundIn
  <2>3. RunIn(b, s, e) = FoundIn(b, s) \o RunIn(b, After(b, s), e)
    BY <1>5, <1>3
  <2>4. RunIn(c, s, e) = FoundIn(c, s) \o RunIn(c, After(c, s), e)
    BY <1>5, <1>3
  <2> QED
    BY <1>5, <2>2, <2>3, <2>4
<1> HIDE DEF P
<1>6. r \in P
  BY <1>4, <1>5, ChainInduction
<1> QED
  BY <1>6 DEF P

(* What is left of a sequence without its first part.                      *)
LEMMA SecondPart ==
  ASSUME NEW T, NEW x \in Seq(T), NEW y \in Seq(T)
  PROVE  SubSeq(x \o y, Len(x) + 1, Len(x \o y)) = y
<1> DEFINE z == x \o y
           u == SubSeq(z, Len(x) + 1, Len(z))
<1>1. /\ z \in Seq(T) /\ Len(z) = Len(x) + Len(y)
      /\ Len(x) \in Nat /\ Len(y) \in Nat
      /\ \A i \in 1 .. Len(x) + Len(y) : z[i] = IF i <= Len(x) THEN x[i] ELSE y[i - Len(x)]
  BY ConcatProperties, LenProperties
<1> HIDE DEF z
<1>2. /\ u \in Seq(T) /\ Len(u) = Len(y)
      /\ \A i \in 1 .. Len(y) : u[i] = z[Len(x) + i]
  <2>1. \A i \in Len(x) + 1 .. Len(z) : z[i] \in T
    BY <1>1, ElementOfSeq
  <2>2. /\ SubSeq(z, Len(x) + 1, Len(z)) \in Seq(T)
        /\ Len(SubSeq(z, Len(x) + 1, Len(z))) = IF Len(x) + 1 <= Len(z) THEN Len(z) - (Len(x) + 1) + 1 ELSE 0
        /\ \A i \in 1 .. Len(z) - (Len(x) + 1) + 1 :
             SubSeq(z, Len(x) + 1, Len(z))[i] = z[(Len(x) + 1) + i - 1]
    BY <1>1, <2>1, SubSeqProperties
  <2>3. \A i \in 1 .. Len(y) : (Len(x) + 1) + i - 1 = Len(x) + i
    BY <1>1
  <2>4. Len(z) - (Len(x) + 1) + 1 = Len(y)
    BY <1>1
  <2> QED
    BY <1>1, <2>2, <2>3, <2>4
<1> HIDE DEF u
<1>3. \A i \in 1 .. Len(u) : u[i] = y[i]
  <2> TAKE i \in 1 .. Len(u)
  <2>1. i \in 1 .. Len(y) /\ Len(x) + i \in 1 .. Len(x) + Len(y) /\ ~(Len(x) + i <= Len(x))
        /\ (Len(x) + i) - Len(x) = i
    BY <1>1, <1>2
  <2>2. u[i] = z[Len(x) + i]
    BY <1>2, <2>1
  <2>3. z[Len(x) + i] = y[(Len(x) + i) - Len(x)]
    BY <1>1, <2>1
  <2> QED
    BY <2>1, <2>2, <2>3
<1>4. u = y
  BY <1>2, <1>3, SeqEqual
<1> QED
  BY <1>4 DEF u, z

(* What is left to read when the packets before one of them are gone; a    *)
(* later packet e tells how many at most.                                  *)
LEMMA RunRest ==
  ASSUME NEW S, NEW read, NEW write, NEW b \in [Offsets -> Cell], Chain(S, read, write, b),
         NEW e \in S, NEW q \in S, Lap(read, q) <= Lap(read, e)
  PROVE  \E n \in 0 .. Len(RunIn(b, read, e)) :
           /\ Len(RunIn(b, read, e)) <= Len(RunIn(b, read, write))
           /\ RunIn(b, q, write) = SubSeq(RunIn(b, read, write), n + 1, Len(RunIn(b, read, write)))
<1>1. /\ read \in Offsets /\ read \in S /\ write \in S /\ Lap(read, read) = read
      /\ Lap(read, e) <= Lap(read, write) /\ Lap(read, q) <= Lap(read, write)
      /\ \A s \in S : Lap(read, read) <= Lap(read, s)
  BY ChainNumbers, LapNumbers DEF Chain
<1> DEFINE A == RunIn(b, read, q)
           B == RunIn(b, q, e)
           C == RunIn(b, read, e)
           D == RunIn(b, q, write)
           E == RunIn(b, e, write)
           F == RunIn(b, read, write)
<1>2. A \in Seq(Ids) /\ B \in Seq(Ids) /\ C \in Seq(Ids) /\ D \in Seq(Ids) /\ E \in Seq(Ids)
  BY <1>1, RunIds
<1>3. C = A \o B
  BY <1>1, RunJoin
<1>4. F = A \o D
  BY <1>1, RunJoin
<1>5. F = C \o E
  BY <1>1, RunJoin
<1> HIDE DEF A, B, C, D, E, F
<1>6. Len(C) = Len(A) + Len(B) /\ Len(F) = Len(C) + Len(E)
  BY <1>2, <1>3, <1>5, ConcatProperties
<1>7. Len(A) \in Nat /\ Len(B) \in Nat /\ Len(E) \in Nat
  BY <1>2, LenProperties
<1>8. D = SubSeq(F, Len(A) + 1, Len(F))
  BY <1>2, <1>4, SecondPart
<1>9. Len(A) \in 0 .. Len(C) /\ Len(C) <= Len(F)
  BY <1>6, <1>7
<1>10. \E n \in 0 .. Len(C) : Len(C) <= Len(F) /\ D = SubSeq(F, n + 1, Len(F))
  <2>1. PICK n : n = Len(A)
    OBVIOUS
  <2>2. n \in 0 .. Len(C) /\ Len(C) <= Len(F) /\ D = SubSeq(F, n + 1, Len(F))
    BY <1>8, <1>9, <2>1, Zenon
  <2> QED
    BY <2>2, Zenon
<1> QED
  BY <1>10, Zenon DEF C, D, F

(* What is to be read when the packet at the write offset is there too.    *)
LEMMA RunAppend ==
  ASSUME NEW S, NEW read, NEW write, NEW b \in [Offsets -> Cell], Chain(S, read, write, b),
         NEW v \in Offsets, Sound(b, write), After(b, write) = v,
         Lap(read, v) = Lap(read, write) + 1 + b[write].len
  PROVE  RunIn(b, read, v) = RunIn(b, read, write) \o FoundIn(b, write)
<1> DEFINE T == S \cup {v}
<1>1. Chain(T, read, v, b)
  BY ChainAppend
<1>2. /\ read \in Offsets /\ write \in Offsets /\ read \in S /\ write \in S
      /\ b[write].len \in Nat
      /\ Lap(read, write) \in Nat /\ Lap(read, read) = read /\ read <= Lap(read, write)
  BY ChainNumbers, LapNumbers DEF Chain
<1>3. read \in T /\ write \in T /\ v \in T
  BY <1>2
<1> HIDE DEF T
<1>4. Lap(read, write) < Lap(read, v) /\ write # v
  BY <1>2
<1>5. RunIn(b, read, v) = RunIn(b, read, write) \o RunIn(b, write, v)
  <2>1. Lap(read, read) <= Lap(read, write) /\ Lap(read, write) <= Lap(read, v)
    BY <1>2, <1>4
  <2> QED
    BY <1>1, <1>3, <2>1, RunJoin
<1>6. RunIn(b, write, v) = FoundIn(b, write) \o RunIn(b, After(b, write), v)
  <2>1. ASSUME NEW r \in T, r # v, Lap(read, r) < Lap(read, v)
        PROVE  RunIn(b, r, v) = FoundIn(b, r) \o RunIn(b, After(b, r), v)
    BY <1>1, <1>3, <2>1, RunNext
  <2> QED
    BY <1>2, <1>3, <1>4, <2>1
<1>7. RunIn(b, v, v) = <<>> /\ FoundIn(b, write) \in Seq(Ids)
  BY <1>2, RunSelf, FoundIds
<1>8. FoundIn(b, write) \o <<>> = FoundIn(b, write)
  BY <1>7, ConcatEmptySeq
<1> QED
  <2>1. After(b, write) = v
    OBVIOUS
  <2> QED
    BY <1>5, <1>6, <1>7, <1>8, <2>1

-----------------------------------------------------------------------------
(* Where dropping and releasing packets ends.                              *)

(* The offsets a walk by N from r comes to until it is in T.               *)
Closed(N, T, C) == \A x \in C : x \notin T => N[x] \in C
Reach(N, T, r) ==
  {x \in DOMAIN N : \A C \in SUBSET DOMAIN N : r \in C /\ Closed(N, T, C) => x \in C}

(* They are r itself and what is reached from the offset after it.         *)
LEMMA ReachStep ==
  ASSUME NEW D, NEW N \in [D -> D], NEW T, NEW r \in D
  PROVE  Reach(N, T, r) = IF r \in T THEN {r} ELSE {r} \cup Reach(N, T, N[r])
<1>1. DOMAIN N = D /\ N[r] \in D
  OBVIOUS
<1>2. r \in Reach(N, T, r)
  BY <1>1 DEF Reach
<1>3. CASE r \in T
  <2>1. {r} \in SUBSET D /\ Closed(N, T, {r})
    BY <1>3 DEF Closed
  <2>2. \A x \in Reach(N, T, r) : x \in {r}
    BY <1>1, <2>1 DEF Reach
  <2>3. Reach(N, T, r) = {r}
    BY <1>2, <2>2
  <2> QED
    BY <1>3, <2>3
<1>4. CASE r \notin T
  <2>1. Reach(N, T, N[r]) \subseteq Reach(N, T, r)
    <3> SUFFICES ASSUME NEW x \in Reach(N, T, N[r]), NEW C \in SUBSET D, r \in C, Closed(N, T, C)
                 PROVE  x \in C
      BY <1>1 DEF Reach
    <3>1. N[r] \in C
      BY <1>4 DEF Closed
    <3> QED
      BY <1>1, <3>1 DEF Reach
  <2>2. Reach(N, T, r) \subseteq {r} \cup Reach(N, T, N[r])
    <3> DEFINE C == {r} \cup Reach(N, T, N[r])
    <3>1. C \in SUBSET D /\ r \in C
      BY <1>1 DEF Reach
    <3>2. ASSUME NEW x \in C, x \notin T PROVE N[x] \in C
      <4>1. CASE x = r
        BY <1>1, <4>1 DEF Reach
      <4>2. CASE x \in Reach(N, T, N[r])
        <5> SUFFICES ASSUME NEW B \in SUBSET D, N[r] \in B, Closed(N, T, B) PROVE N[x] \in B
          BY <1>1, <4>2 DEF Reach
        <5>1. x \in B
          BY <1>1, <4>2 DEF Reach
        <5> QED
          BY <3>2, <5>1 DEF Closed
      <4> QED
        BY <4>1, <4>2
    <3>3. Closed(N, T, C)
      <4> HIDE DEF C
      <4> QED
        BY <3>2 DEF Closed
    <3> HIDE DEF C
    <3>4. Reach(N, T, r) \subseteq C
      BY <1>1, <3>1, <3>3 DEF Reach
    <3> QED
      BY <3>4 DEF C
  <2> QED
    BY <1>2, <1>4, <2>1, <2>2
<1> QED
  BY <1>3, <1>4

Chosen(C) == CHOOSE x : x \in C

(* The choice from a set with one element.                                 *)
LEMMA ChosenOne == \A x : Chosen({x}) = x
<1> TAKE x
<1>1. Chosen({x}) \in {x}
  BY DEF Chosen
<1> QED
  BY <1>1

(* DROP_OLDEST ends at a packet, or at the write offset.                   *)
LEMMA DropToPacket ==
  ASSUME buffer \in [Offsets -> Cell], NEW S, NEW l, Chain(S, l.read, l.write, buffer)
  PROVE  ReadAfterDrop(l) \in S
<1> DEFINE Stop(r) == r = l.write \/ EnoughSpace(l, r)
           IsDrop(f) == f = [r \in Offsets |-> IF Stop(r) THEN r ELSE f[NextPacket(r)]]
           N == [r \in Offsets |-> NextPacket(r)]
           T == {r \in Offsets : Stop(r)}
           g == [r \in Offsets |-> Chosen(Reach(N, T, r) \cap T)]
           walk == CHOOSE f : IsDrop(f)
<1>1. ReadAfterDrop(l) = walk[l.read]
  BY DEF ReadAfterDrop
<1>2. \A r \in Offsets : NextPacket(r) = After(buffer, r) /\ NextPacket(r) \in Offsets
  BY AfterOffset DEF NextPacket, After
<1> HIDE DEF Stop
<1>3. IsDrop(g)
  <2>1. ASSUME NEW r \in Offsets
        PROVE  g[r] = IF Stop(r) THEN r ELSE g[NextPacket(r)]
    <3>1. N \in [Offsets -> Offsets] /\ N[r] = NextPacket(r)
      BY <1>2
    <3>2. Reach(N, T, r) = IF r \in T THEN {r} ELSE {r} \cup Reach(N, T, N[r])
      <4> HIDE DEF N, T
      <4> QED
        BY <3>1, ReachStep
    <3>3. CASE Stop(r)
      <4>1. Reach(N, T, r) \cap T = {r}
        BY <3>2, <3>3
      <4> QED
        BY <3>3, <4>1, ChosenOne
    <3>4. CASE ~Stop(r)
      <4>1. Reach(N, T, r) \cap T = Reach(N, T, NextPacket(r)) \cap T
        BY <3>1, <3>2, <3>4
      <4> HIDE DEF N, T
      <4>2. g[r] = g[NextPacket(r)]
        BY <1>2, <4>1
      <4> QED
        BY <3>4, <4>2
    <3> QED
      BY <3>3, <3>4
  <2> DEFINE h == [r \in Offsets |-> IF Stop(r) THEN r ELSE g[NextPacket(r)]]
  <2>2. g = h
    <3>1. \A r \in Offsets : g[r] = h[r]
      BY <2>1
    <3> HIDE DEF N, T
    <3> QED
      BY <3>1
  <2> QED
    BY <2>2
<1>4. IsDrop(walk)
  <2> HIDE DEF g
  <2> QED
    BY <1>3
<1> HIDE DEF walk
<1>5. ASSUME NEW r \in Offsets
      PROVE  walk[r] = IF Stop(r) THEN r ELSE walk[NextPacket(r)]
  BY <1>4
<1> DEFINE P == {s \in S : walk[s] \in S}
<1>6. \A s \in S : s \in Offsets
  BY ChainNumbers
<1>7. l.read \in S /\ l.write \in S /\ Lap(l.read, l.read) <= Lap(l.read, l.write)
  BY DEF Chain
<1>8. l.write \in P
  BY <1>5, <1>6, <1>7 DEF Stop
<1>9. ASSUME NEW s \in S, After(buffer, s) \in P PROVE s \in P
  BY <1>2, <1>5, <1>6, <1>9
<1> HIDE DEF P
<1>10. l.read \in P
  BY <1>7, <1>8, <1>9, ChainInduction
<1> QED
  BY <1>1, <1>10 DEF P

(* A part of what is held ends at a packet.                                *)
LEMMA PartsAtPackets ==
  ASSUME buffer \in [Offsets -> Cell], CellsFit, ui32Read \in Offsets, len \in Nat,
         NEW S, Chain(S, ui32Read, ui32Write, buffer), Stops(S),
         rpc = "holding", offset = ui32Read, NEW n \in Parts
  PROVE  n \in 0 .. len /\ Wrapped(offset + n) \in S
<1> DEFINE stop == offset + len
           Body(f, o) == IF o >= stop THEN {len} ELSE {o - offset} \cup f[o + 1 + buffer[o].len]
           IsEnds(f) == f = [o \in 0 .. Size |-> Body(f, o)]
           ends == CHOOSE f : IsEnds(f)
           N == [o \in 0 .. Size |-> IF o >= stop THEN o ELSE o + 1 + buffer[o].len]
           T == {o \in 0 .. Size : o >= stop}
           g == [o \in 0 .. Size |-> {x - offset : x \in Reach(N, T, o) \ T} \cup {len}]
<1>1. Parts = ends[offset]
  BY DEF Parts
<1>2. /\ ui32Read \in Offsets /\ ui32Write \in Offsets /\ offset \in Nat /\ stop \in Nat
      /\ stop <= Size /\ Wrapped(stop) \in S /\ stop <= Lap(ui32Read, ui32Write)
      /\ \A s \in S : s \in Offsets /\ Lap(ui32Read, s) \in Nat /\ ui32Read <= Lap(ui32Read, s)
  BY ChainNumbers, Sizes DEF Stops
<1>3. ASSUME NEW o \in 0 .. Size, ~(o >= stop)
      PROVE  o \in Offsets /\ buffer[o].len \in Nat /\ o + 1 + buffer[o].len \in 0 .. Size
  <2>1. o \in Offsets
    BY <1>2, <1>3, Sizes
  <2>2. buffer[o].len \in Nat /\ o + buffer[o].len < Size
    BY <2>1 DEF Cell, CellsFit
  <2> QED
    BY <2>1, <2>2, Sizes
<1> HIDE DEF stop
<1>4. IsEnds(g)
  <2>0. \A o \in 0 .. Size : Reach(N, T, o) = IF o \in T THEN {o} ELSE {o} \cup Reach(N, T, N[o])
    <3> DEFINE D == 0 .. Size
    <3>1. N \in [D -> D]
      BY <1>3
    <3> HIDE DEF D, N, T
    <3>2. \A o \in D : Reach(N, T, o) = IF o \in T THEN {o} ELSE {o} \cup Reach(N, T, N[o])
      BY <3>1, ReachStep
    <3> QED
      BY <3>2 DEF D
  <2>1. ASSUME NEW o \in 0 .. Size PROVE g[o] = Body(g, o)
    <3>2. Reach(N, T, o) = IF o \in T THEN {o} ELSE {o} \cup Reach(N, T, N[o])
      BY <2>0
    <3>3. CASE o >= stop
      <4>1. Reach(N, T, o) \ T = {}
        BY <3>2, <3>3
      <4> HIDE DEF N, T
      <4>2. g[o] = {len}
        BY <4>1
      <4> QED
        BY <3>3, <4>2
    <3>4. CASE ~(o >= stop)
      <4>1. o \notin T /\ N[o] = o + 1 + buffer[o].len /\ N[o] \in 0 .. Size
        BY <1>3, <3>4
      <4>2. Reach(N, T, o) \ T = {o} \cup (Reach(N, T, N[o]) \ T)
        BY <3>2, <4>1
      <4> HIDE DEF N, T
      <4>3. g[o] = {x - offset : x \in {o} \cup (Reach(N, T, N[o]) \ T)} \cup {len}
        BY <4>2
      <4>4. g[N[o]] = {x - offset : x \in Reach(N, T, N[o]) \ T} \cup {len}
        BY <4>1
      <4>5. g[o] = {o - offset} \cup g[N[o]]
        BY <4>3, <4>4
      <4> HIDE DEF g
      <4> QED
        BY <3>4, <4>1, <4>5
    <3> QED
      BY <3>3, <3>4
  <2> DEFINE h == [o \in 0 .. Size |-> Body(g, o)]
  <2>2. g = h
    <3>1. \A o \in 0 .. Size : g[o] = h[o]
      BY <2>1
    <3> HIDE DEF N, T
    <3> QED
      BY <3>1
  <2> HIDE DEF g
  <2> QED
    BY <2>2
<1>5. IsEnds(ends)
  <2> HIDE DEF g
  <2> QED
    BY <1>4
<1> HIDE DEF ends
<1>6. ASSUME NEW o \in 0 .. Size
      PROVE  ends[o] = Body(ends, o)
  <2> DEFINE h == [k \in 0 .. Size |-> Body(ends, k)]
  <2>1. ends = h
    BY <1>5
  <2>2. h[o] = Body(ends, o)
    OBVIOUS
  <2> HIDE DEF h
  <2> QED
    BY <2>1, <2>2
<1> DEFINE e == Wrapped(stop)
           Good(k) == k \in 0 .. len /\ Wrapped(offset + k) \in S
           P == {s \in S : \A k \in ends[Lap(ui32Read, s)] : Good(k)}
<1>7. Lap(ui32Read, e) = stop
  <2>1. CASE stop = Size
    <3>1. ui32Read # 0
      BY <1>2, <2>1, LapNumbers, Sizes
    <3> QED
      BY <1>2, <2>1, <3>1, Sizes DEF Wrapped, Lap
  <2>2. CASE stop # Size
    BY <1>2, <2>2, Sizes DEF Wrapped, Lap, stop
  <2> QED
    BY <2>1, <2>2
<1>8. e \in P
  <2>1. ends[stop] = {len}
    <3>1. stop \in 0 .. Size /\ stop >= stop
      BY <1>2
    <3>2. ends[stop] = Body(ends, stop)
      BY <1>6, <3>1
    <3> QED
      BY <3>1, <3>2
  <2>2. Good(len)
    BY <1>2 DEF stop
  <2> QED
    BY <1>2, <1>7, <2>1, <2>2
<1>9. ASSUME NEW s \in S, s # ui32Write, Lap(ui32Read, s) < Lap(ui32Read, e),
             Lap(ui32Read, After(buffer, s)) <= Lap(ui32Read, e), After(buffer, s) \in P
      PROVE  s \in P
  <2>1. /\ s \in Nat /\ s < stop /\ s >= offset /\ Lap(ui32Read, s) = s /\ s \in 0 .. Size /\ s \in Offsets
    <3>1. s \in Offsets /\ s \in Nat /\ s < Size /\ ui32Read \in Nat /\ Lap(ui32Read, s) < stop
      BY <1>2, <1>7, <1>9, Sizes
    <3>2. s >= ui32Read
      BY <1>2, <3>1, Sizes DEF Lap
    <3>3. Lap(ui32Read, s) = s
      BY <3>1, <3>2 DEF Lap
    <3> QED
      BY <3>1, <3>2, <3>3, Sizes
  <2>2. Lap(ui32Read, After(buffer, s)) = s + 1 + buffer[s].len
    BY <1>9, <2>1 DEF Chain
  <2>3. ends[s] = {s - offset} \cup ends[s + 1 + buffer[s].len]
    <3>1. ends[s] = Body(ends, s)
      BY <1>6, <2>1
    <3>2. ~(s >= stop)
      BY <1>2, <2>1
    <3> QED
      BY <3>1, <3>2
  <2>4. Good(s - offset)
    <3>1. s - offset \in 0 .. len /\ offset + (s - offset) = s /\ s # Size
      BY <1>2, <2>1, Sizes DEF stop
    <3> QED
      BY <3>1 DEF Wrapped
  <2> HIDE DEF Good
  <2>5. \A k \in ends[s + 1 + buffer[s].len] : Good(k)
    BY <1>9, <2>2
  <2> QED
    BY <2>1, <2>3, <2>4, <2>5
<1> HIDE DEF Good, e
<1>10. ui32Read \in P
  <2>1. ui32Read \in S /\ e \in S /\ Lap(ui32Read, ui32Read) <= Lap(ui32Read, e)
    <3>1. ui32Read \in S /\ Lap(ui32Read, ui32Read) = ui32Read
      BY <1>2, LapNumbers DEF Chain
    <3>2. e \in S
      BY <1>2 DEF e
    <3> QED
      BY <1>2, <3>1, <3>2
  <2> HIDE DEF P
  <2> QED
    BY <1>8, <1>9, <2>1, ChainInduction
<1>11. Lap(ui32Read, ui32Read) = offset
  BY <1>2, LapNumbers
<1> QED
  BY <1>1, <1>10, <1>11 DEF Good

(* The offset a few units further on, when they are free.                  *)
LEMMA FreeStep ==
  ASSUME NEW read \in Offsets, NEW write \in Offsets, NEW k \in Nat,
         k < Free(read, write), write + k <= Size
  PROVE  /\ (write + k) % Size \in Offsets
         /\ (write + k) % Size = IF write + k >= Size THEN 0 ELSE write + k
         /\ Lap(read, (write + k) % Size) = Lap(read, write) + k
         /\ Free(read, (write + k) % Size) = Free(read, write) - k
<1>1. /\ read \in Nat /\ read < Size /\ write \in Nat /\ write < Size /\ Size \in Nat /\ Size >= 15
  BY Sizes
<1>2. CASE write + k < Size
  <2>1. (write + k) % Size = write + k
    BY <1>1, <1>2
  <2>2. write + k \in Offsets
    BY <1>1, <1>2, Sizes
  <2>3. write < read => write + k < read
    BY <1>1, <1>2 DEF Free
  <2>4. Lap(read, write + k) = Lap(read, write) + k
    BY <1>1, <2>3 DEF Lap
  <2>5. Free(read, write + k) = Free(read, write) - k
    BY <1>1, <2>3 DEF Free
  <2> QED
    BY <1>1, <1>2, <2>1, <2>2, <2>4, <2>5
<1>3. CASE write + k = Size
  <2>1. (write + k) % Size = 0
    BY <1>1, <1>3
  <2>2. write >= read /\ read > 0
    BY <1>1, <1>3 DEF Free
  <2>3. Lap(read, 0) = Lap(read, write) + k
    BY <1>1, <1>3, <2>2 DEF Lap
  <2>4. Free(read, 0) = Free(read, write) - k
    BY <1>1, <1>3, <2>2 DEF Free
  <2> QED
    BY <1>1, <1>3, <2>1, <2>3, <2>4, Sizes
<1> QED
  BY <1>1, <1>2, <1>3

(* Where what a reader holds may end.                                      *)
LEMMA WrappedNumbers ==
  ASSUME NEW read \in Offsets, NEW o \in Nat, read <= o, o <= Size, o < read + Size
  PROVE  /\ Wrapped(o) \in Offsets /\ Wrapped(o) = o % Size
         /\ Lap(read, Wrapped(o)) = o
<1>1. read \in Nat /\ read < Size /\ Size \in Nat /\ Size >= 15
  BY Sizes
<1>2. CASE o = Size
  <2>1. o % Size = 0 /\ Wrapped(o) = 0 /\ read > 0
    BY <1>1, <1>2 DEF Wrapped
  <2>2. Lap(read, 0) = Size
    BY <1>1, <2>1 DEF Lap
  <2> QED
    BY <1>2, <2>1, <2>2, Sizes
<1>3. CASE o < Size
  <2>1. o % Size = o /\ Wrapped(o) = o
    BY <1>1, <1>3 DEF Wrapped
  <2>2. Lap(read, o) = o
    BY <1>1 DEF Lap
  <2> QED
    BY <1>3, <2>1, <2>2, Sizes
<1> QED
  BY <1>1, <1>2, <1>3

(* ~Short: the packet and its padding fit with two units to spare.         *)
LEMMA NotShort ==
  ASSUME NEW l \in [read : Offsets, write : Offsets, size : Nat], ~NoWrap, ~Short(l),
         NEW read \in Offsets, Free(l.read, l.write) <= Free(read, l.write)
  PROVE  /\ l.size + 1 + Pad(l.write, l.size) + Reserved <= Free(read, l.write)
         /\ Pad(l.write, l.size) \in Nat
         /\ Pad(l.write, l.size) > 0 =>
              /\ Pad(l.write, l.size) = Size - l.write
              /\ read <= l.write /\ read >= 3
         /\ Pad(l.write, l.size) = 0 => l.write + l.size + 1 <= Size
<1>1. PICK w \in Offsets : w = l.write
  OBVIOUS
<1>2. PICK n \in Nat : n = l.size
  OBVIOUS
<1>3. PICK r \in Offsets : r = l.read
  OBVIOUS
<1>4. Free(r, w) \in Nat /\ Free(read, w) \in Nat
  BY FreeNumbers
<1>5. ~(Free(r, w) - Reserved < n + 1 + Pad(w, n))
  BY <1>1, <1>2, <1>3 DEF Short, SpaceLeft, CircSpaceLeft, Actual, Free
<1>6. /\ w \in Nat /\ w < Size /\ read \in Nat /\ read < Size /\ Size \in Nat
  BY Sizes
<1>7. /\ Pad(w, n) \in Nat
      /\ Pad(w, n) > 0 => Pad(w, n) = Size - w
      /\ Pad(w, n) = 0 => w + n + 1 <= Size
  BY <1>6 DEF Pad
<1>8. n + 1 + Pad(w, n) + Reserved <= Free(read, w)
  BY <1>1, <1>3, <1>4, <1>5, <1>7 DEF Reserved
<1>9. Pad(w, n) > 0 => read <= w /\ read >= 3
  BY <1>6, <1>7, <1>8 DEF Free, Reserved
<1> QED
  BY <1>1, <1>2, <1>7, <1>8, <1>9

-----------------------------------------------------------------------------
(* Types.                                                                  *)

(* A stream that wraps, and readers with flags whose promises the code     *)
(* keeps: no limit on a stream that drops the oldest packets, none together*)
(* with a reset.                                                           *)
WellOpened ==
  /\ ~NoWrap
  /\ \A m \in Modes : <<m, TRUE, TRUE>> \notin Opens
  /\ \A reset \in BOOLEAN : <<"dropOldest", TRUE, reset>> \notin Opens

Packets(S) == Chain(S, ui32Read, ui32Write, buffer) /\ Stops(S)
PacketsInv ==
  /\ TypeOK /\ IInv /\ ReaderShape /\ WriterShape /\ Spare /\ NewPacket /\ CellsFit
  /\ \E S : Packets(S)

(* What is unread stays in the buffer.                                     *)
UnreadUnits == {o \in Offsets : Lap(ui32Read, o) < Lap(ui32Read, ui32Write)}
KeepsUnread == \A o \in UnreadUnits : buffer'[o] = buffer[o]

(* What is written to the buffer is a unit of it.                          *)
LEMMA HeaderCell ==
  ASSUME NEW kind \in HeaderKinds, NEW n \in 0 .. Size, NEW id \in Ids
  PROVE  Header(kind, n, id) \in Cell
BY DEF Header, Cell

(* There is an identity for padding.                                       *)
LEMMA IdZero == 0 \in Ids
BY StreamAssumption DEF Ids

(* A writer at w with what it knows.                                       *)
LEMMA LocalType ==
  ASSUME TypeOK, NEW w \in Writers
  PROVE  /\ loc[w] \in Local /\ loc[w] \in [read : Offsets, write : Offsets, size : Nat]
         /\ loc[w].read \in Offsets /\ loc[w].write \in Offsets /\ loc[w].size \in Nat
<1>1. loc[w] \in Local
  BY DEF TypeOK
<1>2. DataSizes \cup {0} \subseteq Nat
  BY StreamAssumption
<1> QED
  BY <1>1, <1>2 DEF Local

(* A reserve keeps every variable to its range.                            *)
LEMMA ReserveTypes ==
  ASSUME TypeOK, NEW w \in Writers, NEW n \in DataSizes, Reserve(w, n)
  PROVE  TypeOK'
<1> DEFINE l == [read |-> ui32Read, write |-> ui32Write, size |-> n]
<1>1. l \in Local
  BY DEF TypeOK, Local
<1>2. Path(l) \in {"write", "block", "lock", "refuse"}
  BY PathStage DEF TypeOK
<1>3. /\ wpc' = [wpc EXCEPT ![w] = Path(l)] /\ loc' = [loc EXCEPT ![w] = l] /\ ui32Pending' = 0
      /\ UNCHANGED <<eOpMode, ui32Read, ui32Write, buffer, hReadLock, bReadPending, reader, nextId>>
  BY DEF Reserve, At, Mark
<1> HIDE DEF l
<1>4. wpc' \in [Writers -> {"idle", "write", "block", "lock", "drop", "refuse", "fill", "commit"}]
  BY <1>2, <1>3 DEF TypeOK
<1>5. loc' \in [Writers -> Local]
  BY <1>1, <1>3 DEF TypeOK
<1> QED
  BY <1>3, <1>4, <1>5 DEF TypeOK, reader

(* So does looking again,                                                  *)
LEMMA LookAgainTypes ==
  ASSUME TypeOK, NEW w \in Writers, LookAgain(w)
  PROVE  TypeOK'
<1> DEFINE l == [loc[w] EXCEPT !.read = ui32Read, !.write = ui32Write]
<1>1. l \in Local
  BY DEF TypeOK, Local
<1>2. /\ wpc' = [wpc EXCEPT ![w] = "write"] /\ loc' = [loc EXCEPT ![w] = l]
      /\ UNCHANGED <<stream, reader, nextId>>
  BY DEF LookAgain, At
<1> HIDE DEF l
<1>3. wpc' \in [Writers -> {"idle", "write", "block", "lock", "drop", "refuse", "fill", "commit"}]
      /\ loc' \in [Writers -> Local]
  BY <1>1, <1>2 DEF TypeOK
<1> QED
  BY <1>2, <1>3 DEF TypeOK, reader, stream

(* ... taking the read lock,                                               *)
LEMMA LockReadTypes ==
  ASSUME TypeOK, NEW w \in Writers, LockRead(w)
  PROVE  TypeOK'
<1> DEFINE l == [loc[w] EXCEPT !.read = ui32Read]
<1>1. l \in Local
  BY DEF TypeOK, Local
<1>2. /\ wpc' = [wpc EXCEPT ![w] = "drop"] /\ loc' = [loc EXCEPT ![w] = l] /\ hReadLock' = w
      /\ UNCHANGED <<eOpMode, ui32Read, ui32Write, ui32Pending, buffer, bReadPending, reader,
                 nextId>>
  BY DEF LockRead, At
<1> HIDE DEF l
<1>3. wpc' \in [Writers -> {"idle", "write", "block", "lock", "drop", "refuse", "fill", "commit"}]
      /\ loc' \in [Writers -> Local]
  BY <1>1, <1>2 DEF TypeOK
<1> QED
  BY <1>2, <1>3 DEF TypeOK, reader

(* ... dropping, when it ends in the buffer,                               *)
LEMMA DropOldestTypes ==
  ASSUME TypeOK, NEW w \in Writers, DropOldest(w), ReadAfterDrop(loc[w]) \in Offsets
  PROVE  TypeOK'
<1> DEFINE r == ReadAfterDrop(loc[w])
           l == [loc[w] EXCEPT !.read = r]
           c == [buffer EXCEPT ![r].dropped = TRUE]
<1>1. l \in Local
  BY DEF TypeOK, Local
<1>2. c \in [Offsets -> Cell]
  <2>1. [buffer[r] EXCEPT !.dropped = TRUE] \in Cell
    BY DEF TypeOK, Cell
  <2> QED
    BY <2>1 DEF TypeOK
<1>3. /\ wpc' = [wpc EXCEPT ![w] = "write"] /\ hReadLock' = None
      /\ \/ ui32Read' = r /\ buffer' = c /\ loc' = [loc EXCEPT ![w] = l]
         \/ UNCHANGED <<ui32Read, buffer, loc>>
      /\ UNCHANGED <<eOpMode, ui32Write, ui32Pending, bReadPending, reader, nextId>>
  BY DEF DropOldest, At
<1> HIDE DEF l, c
<1>4. loc' \in [Writers -> Local] /\ buffer' \in [Offsets -> Cell] /\ ui32Read' \in Offsets
  BY <1>1, <1>2, <1>3 DEF TypeOK
<1>5. wpc' \in [Writers -> {"idle", "write", "block", "lock", "drop", "refuse", "fill", "commit"}]
  BY <1>3 DEF TypeOK
<1> QED
  BY <1>3, <1>4, <1>5 DEF TypeOK, reader

(* A writer that leaves.                                                   *)
LEMMA LeaveTypes ==
  ASSUME TypeOK, NEW w \in Writers, Leave(w)
  PROVE  /\ wpc' \in [Writers -> {"idle", "write", "block", "lock", "drop", "refuse", "fill", "commit"}]
         /\ loc' \in [Writers -> Local]
<1>1. NoLocal \in Local
  BY Sizes DEF NoLocal, Local
<1> QED
  BY <1>1 DEF TypeOK, Leave, At

(* ... writing the headers of a packet that fits,                          *)
LEMMA WriteHeaderTypes ==
  ASSUME TypeOK, ~NoWrap, NEW w \in Writers, WriteHeader(w)
  PROVE  TypeOK'
<1> DEFINE l == loc[w]
           pad == Pad(l.write, l.size)
           at == IF pad > 0 THEN 0 ELSE l.write
           padded == IF pad > 0 THEN [buffer EXCEPT ![l.write] = Header("padding", pad - 1, 0)]
                     ELSE buffer
<1>1. CASE Short(l)
  <2>1. /\ Leave(w) /\ ui32Pending' = NothingPending
        /\ UNCHANGED <<ui32Write, buffer, eOpMode, ui32Read, hReadLock, bReadPending, reader, nextId>>
    BY <1>1 DEF WriteHeader
  <2> QED
    BY <2>1, LeaveTypes DEF TypeOK, reader
<1>2. CASE ~Short(l)
  <2>1. /\ buffer' = [padded EXCEPT ![at] = Header("packet", l.size, nextId)]
        /\ ui32Write' = at /\ ui32Pending' = l.size + 1 /\ wpc' = [wpc EXCEPT ![w] = "fill"]
        /\ UNCHANGED <<loc, eOpMode, ui32Read, hReadLock, bReadPending, reader, nextId>>
    BY <1>2 DEF WriteHeader, At
  <2>2. l \in [read : Offsets, write : Offsets, size : Nat] /\ l.write \in Offsets /\ l.size \in Nat
        /\ l.read \in Offsets
    BY LocalType
  <2>3. /\ l.size + 1 + pad + Reserved <= Free(l.read, l.write)
        /\ pad \in Nat /\ Free(l.read, l.write) <= Size
        /\ Free(l.read, l.write) \in Nat
    <3>1. Free(l.read, l.write) \in Nat /\ Free(l.read, l.write) <= Size
      <4> PICK r \in Offsets, o \in Offsets : r = l.read /\ o = l.write
        BY <2>2
      <4>1. Free(r, o) \in Nat /\ Free(r, o) <= Size
        BY FreeNumbers, Sizes DEF Free
      <4> QED
        BY <4>1
    <3>2. Free(l.read, l.write) <= Free(l.read, l.write)
      BY <3>1
    <3> HIDE DEF l
    <3>3. l.size + 1 + Pad(l.write, l.size) + Reserved <= Free(l.read, l.write)
          /\ Pad(l.write, l.size) \in Nat
      BY <1>2, <2>2, <3>2, NotShort
    <3> QED
      BY <3>1, <3>3
  <2>4. l.size \in 0 .. Size /\ at \in Offsets /\ (pad > 0 => pad - 1 \in 0 .. Size)
    BY <2>2, <2>3, Sizes DEF Reserved
  <2>5. padded \in [Offsets -> Cell]
    <3>1. pad > 0 => Header("padding", pad - 1, 0) \in Cell
      BY <2>4, HeaderCell, IdZero DEF HeaderKinds
    <3> QED
      BY <3>1 DEF TypeOK
  <2>6. Header("packet", l.size, nextId) \in Cell
    BY <2>4, HeaderCell DEF HeaderKinds, TypeOK
  <2> HIDE DEF padded, at, pad, l
  <2>7. buffer' \in [Offsets -> Cell]
    BY <2>1, <2>5, <2>6
  <2>8. ui32Pending' \in Nat
    BY <2>1, <2>2
  <2>9. wpc' \in [Writers -> {"idle", "write", "block", "lock", "drop", "refuse", "fill", "commit"}]
    BY <2>1 DEF TypeOK
  <2> QED
    BY <2>1, <2>4, <2>7, <2>8, <2>9 DEF TypeOK, reader
<1> QED
  BY <1>1, <1>2

(* ... refusing one,                                                       *)
LEMMA RefuseTypes ==
  ASSUME TypeOK, NEW w \in Writers, Refuse(w)
  PROVE  TypeOK'
<1>1. loc[w].write \in Offsets
  BY LocalType
<1>2. Header("writeFailed", 0, 0) \in Cell
  BY HeaderCell, IdZero, Sizes DEF HeaderKinds
<1>3. /\ Leave(w) /\ ui32Pending' = NothingPending
      /\ \/ buffer' = [buffer EXCEPT ![loc[w].write] = Header("writeFailed", 0, 0)]
            /\ ui32Write' = (loc[w].write + 1) % Size
         \/ UNCHANGED <<buffer, ui32Write>>
      /\ UNCHANGED <<eOpMode, ui32Read, hReadLock, bReadPending, reader, nextId>>
  BY DEF Refuse
<1>4. buffer' \in [Offsets -> Cell]
  BY <1>1, <1>2, <1>3 DEF TypeOK
<1>5. (loc[w].write + 1) % Size \in Offsets
  BY <1>1, Sizes DEF Offsets
<1> QED
  BY <1>3, <1>4, <1>5, LeaveTypes DEF TypeOK, reader

(* ... writing its data,                                                   *)
LEMMA FillTypes ==
  ASSUME TypeOK, NEW w \in Writers, Fill(w)
  PROVE  TypeOK'
<1>1. Data(nextId) \in Cell
  BY Sizes DEF Data, Cell, TypeOK
<1>2. /\ buffer' = [o \in Offsets |-> IF o \in ui32Write + 1 .. ui32Write + loc[w].size
                                      THEN Data(nextId) ELSE buffer[o]]
      /\ wpc' = [wpc EXCEPT ![w] = "commit"]
      /\ UNCHANGED <<eOpMode, ui32Read, ui32Write, ui32Pending, hReadLock, bReadPending, loc, reader,
                     nextId>>
  BY DEF Fill, At
<1>3. buffer' \in [Offsets -> Cell]
  BY <1>1, <1>2 DEF TypeOK
<1> QED
  BY <1>2, <1>3 DEF TypeOK, reader

(* ... and the commit.                                                     *)
LEMMA CommitTypes ==
  ASSUME TypeOK, NEW w \in Writers, TLStreamCommit(w)
  PROVE  TypeOK'
<1>1. loc[w].size \in Nat
  BY LocalType
<1>2. AfterPacket(loc[w].size) \in Offsets
  <2>1. ui32Write \in Nat
    BY Sizes DEF TypeOK
  <2> QED
    BY <1>1, <2>1, Sizes DEF AfterPacket, Offsets
<1>3. (nextId + 1) % NumIds \in Ids
  BY StreamAssumption DEF TypeOK, Ids
<1>4. /\ Leave(w) /\ ui32Pending' = NothingPending /\ ui32Write' = AfterPacket(loc[w].size)
      /\ nextId' = (nextId + 1) % NumIds
      /\ UNCHANGED <<eOpMode, ui32Read, buffer, hReadLock, bReadPending, reader>>
  BY DEF TLStreamCommit
<1> QED
  BY <1>2, <1>3, <1>4, LeaveTypes DEF TypeOK, reader

(* The steps of the reader.                                                *)
LEMMA ReaderTypes ==
  ASSUME TypeOK,
         \/ \E limited, reset \in BOOLEAN : OpenStream(limited, reset)
         \/ TLStreamReset \/ CloseStream
         \/ AcquireData \/ AcquireLimited \/ AcquireNothing \/ FindNothing
         \/ \E n \in Offsets : ReleaseData(n)
  PROVE  TypeOK'
<1> USE DEF TypeOK, stream, writer, reader
<1>1. CASE \E limited, reset \in BOOLEAN : OpenStream(limited, reset)
  BY <1>1 DEF OpenStream
<1>2. CASE TLStreamReset
  BY <1>2, Sizes DEF TLStreamReset
<1>3. CASE CloseStream
  BY <1>3, Sizes DEF CloseStream
<1>4. CASE AcquireData
  <2>1. len' \in Nat
    <3>1. ui32Read \in Nat /\ ui32Read < Size /\ ui32Write \in Nat /\ limit \in Int /\ Size \in Nat
      BY Sizes DEF NoLimit
    <3>2. Available \in Nat
      BY <3>1 DEF Available
    <3> QED
      BY <1>4, <3>1, <3>2 DEF AcquireData, AtLimit
  <2> QED
    BY <1>4, <2>1 DEF AcquireData, MarkRead
<1>5. CASE AcquireLimited
  BY <1>5 DEF AcquireLimited, MarkRead
<1>6. CASE AcquireNothing
  BY <1>6 DEF AcquireNothing, MarkRead
<1>7. CASE FindNothing
  BY <1>7 DEF FindNothing, ClearRead
<1>8. CASE \E n \in Offsets : ReleaseData(n)
  <2>1. PICK n \in Offsets : ReleaseData(n)
    BY <1>8
  <2>2. (ui32Read + n) % Size \in Offsets
    BY Sizes DEF Offsets
  <2>3. 0 \in Offsets
    BY Sizes
  <2> QED
    BY <2>1, <2>2, <2>3 DEF ReleaseData, ClearRead
<1> QED
  BY <1>1, <1>2, <1>3, <1>4, <1>5, <1>6, <1>7, <1>8

-----------------------------------------------------------------------------
(* What a writer knows.                                                    *)

(* One writer at a time.                                                   *)
LEMMA OthersIdle ==
  ASSUME WriterShape, NEW w \in Writers, wpc[w] # "idle"
  PROVE  /\ \A v \in Writers : v # w => wpc[v] = "idle"
         /\ ui32Pending # NothingPending
BY DEF WriterShape

(* None is at work when nothing is pending,                                *)
LEMMA AllIdle ==
  ASSUME WriterShape, ui32Pending = NothingPending
  PROVE  \A v \in Writers : wpc[v] = "idle"
BY DEF WriterShape

(* ... so a step of it has to be right for itself only.                    *)
LEMMA ShapeOfOne ==
  ASSUME TypeOK, NEW w \in Writers, NEW s,
         \A v \in Writers : v # w => wpc[v] = "idle",
         wpc' = [wpc EXCEPT ![w] = s],
         s # "idle" => ui32Pending' # NothingPending,
         s \in {"write", "block", "lock", "drop", "refuse"} =>
           /\ loc'[w].write = ui32Write'
           /\ Free(loc'[w].read, ui32Write') <= Free(ui32Read', ui32Write'),
         s = "drop" => loc'[w].read = ui32Read'
  PROVE  WriterShape'
<1>1. wpc'[w] = s /\ \A v \in Writers : v # w => wpc'[v] = "idle"
  BY DEF TypeOK
<1> QED
  BY <1>1 DEF WriterShape

(* The same for the packet it writes.                                      *)
LEMMA NewPacketOfOne ==
  ASSUME TypeOK, NEW w \in Writers, NEW s,
         \A v \in Writers : v # w => wpc[v] = "idle",
         wpc' = [wpc EXCEPT ![w] = s],
         s \in {"fill", "commit"} =>
           /\ ui32Write' + loc'[w].size + 1 <= Size
           /\ loc'[w].size + 1 + Reserved <= Free(ui32Read', ui32Write')
           /\ buffer'[ui32Write'] = Header("packet", loc'[w].size, nextId')
           /\ s = "commit" => Sound(buffer', ui32Write')
  PROVE  NewPacket'
<1>1. wpc'[w] = s /\ \A v \in Writers : v # w => wpc'[v] = "idle"
  BY DEF TypeOK
<1> QED
  BY <1>1 DEF NewPacket

(* What an offset leaves free is a number.                                 *)
LEMMA FreeTypes ==
  ASSUME TypeOK
  PROVE  Free(ui32Read, ui32Write) \in Nat /\ Free(ui32Read, ui32Write) <= Free(ui32Read, ui32Write)
<1>1. Free(ui32Read, ui32Write) \in Nat
  BY FreeNumbers DEF TypeOK
<1> QED
  BY <1>1

(* The steps of a reserve that change neither the buffer nor its offsets.  *)
LEMMA QuietShape ==
  ASSUME TypeOK, WriterShape, NEW w \in Writers,
         \/ \E n \in DataSizes : Reserve(w, n)
         \/ LookAgain(w) \/ LockRead(w)
  PROVE  WriterShape' /\ NewPacket'
<1>1. CASE \E n \in DataSizes : Reserve(w, n)
  <2>1. PICK n \in DataSizes : Reserve(w, n)
    BY <1>1
  <2> DEFINE l == [read |-> ui32Read, write |-> ui32Write, size |-> n]
             s == Path(l)
  <2>2. s \in {"write", "block", "lock", "refuse"}
    BY PathStage DEF TypeOK
  <2>3. /\ ui32Pending = NothingPending /\ ui32Pending' = 0
        /\ wpc' = [wpc EXCEPT ![w] = s] /\ loc' = [loc EXCEPT ![w] = l]
        /\ UNCHANGED <<ui32Read, ui32Write>>
    BY <2>1 DEF Reserve, At, Mark
  <2>4. \A v \in Writers : wpc[v] = "idle"
    BY <2>3, AllIdle
  <2>5. loc'[w] = l /\ l.write = ui32Write /\ l.read = ui32Read
    BY <2>3 DEF TypeOK
  <2>6. ui32Pending' # NothingPending
    BY <2>3 DEF NothingPending
  <2> HIDE DEF l, s
  <2>7. Free(loc'[w].read, ui32Write') <= Free(ui32Read', ui32Write')
    BY <2>3, <2>5, FreeTypes
  <2>8. s \notin {"drop", "fill", "commit"}
    BY <2>2
  <2>9. WriterShape'
    BY <2>3, <2>4, <2>5, <2>6, <2>7, <2>8, ShapeOfOne
  <2>10. NewPacket'
    BY <2>3, <2>4, <2>8, NewPacketOfOne
  <2> QED
    BY <2>9, <2>10
<1>2. CASE LookAgain(w)
  <2> DEFINE l == [loc[w] EXCEPT !.read = ui32Read, !.write = ui32Write]
  <2>1. /\ wpc[w] # "idle" /\ wpc' = [wpc EXCEPT ![w] = "write"] /\ loc' = [loc EXCEPT ![w] = l]
        /\ UNCHANGED <<ui32Read, ui32Write, ui32Pending>>
    BY <1>2 DEF LookAgain, At, stream
  <2>2. loc'[w] = l /\ l.write = ui32Write /\ l.read = ui32Read
    BY <2>1, LocalType DEF TypeOK, Local
  <2> HIDE DEF l
  <2>3. Free(loc'[w].read, ui32Write') <= Free(ui32Read', ui32Write')
    BY <2>1, <2>2, FreeTypes
  <2>4. WriterShape'
    BY <2>1, <2>2, <2>3, OthersIdle, ShapeOfOne
  <2>5. NewPacket'
    BY <2>1, OthersIdle, NewPacketOfOne
  <2> QED
    BY <2>4, <2>5
<1>3. CASE LockRead(w)
  <2> DEFINE l == [loc[w] EXCEPT !.read = ui32Read]
  <2>1. /\ wpc[w] = "lock" /\ wpc' = [wpc EXCEPT ![w] = "drop"] /\ loc' = [loc EXCEPT ![w] = l]
        /\ UNCHANGED <<ui32Read, ui32Write, ui32Pending>>
    BY <1>3 DEF LockRead, At
  <2>2. loc[w].write = ui32Write
    BY <2>1 DEF WriterShape
  <2>3. loc'[w] = l /\ l.write = ui32Write /\ l.read = ui32Read
    BY <2>1, <2>2, LocalType DEF TypeOK, Local
  <2> HIDE DEF l
  <2>4. Free(loc'[w].read, ui32Write') <= Free(ui32Read', ui32Write')
    BY <2>1, <2>3, FreeTypes
  <2>5. WriterShape'
    BY <2>1, <2>3, <2>4, OthersIdle, ShapeOfOne
  <2>6. NewPacket'
    BY <2>1, OthersIdle, NewPacketOfOne
  <2> QED
    BY <2>5, <2>6
<1> QED
  BY <1>1, <1>2, <1>3

(* A writer that leaves without a packet, or with one.                     *)
LEMMA LeaveShape ==
  ASSUME TypeOK, WriterShape, NEW w \in Writers, wpc[w] # "idle", Leave(w)
  PROVE  WriterShape' /\ NewPacket'
<1>1. wpc' = [wpc EXCEPT ![w] = "idle"]
  BY DEF Leave, At
<1>2. WriterShape'
  BY <1>1, OthersIdle, ShapeOfOne
<1>3. NewPacket'
  BY <1>1, OthersIdle, NewPacketOfOne
<1> QED
  BY <1>2, <1>3

-----------------------------------------------------------------------------
(* What every step does to the packets.                                    *)

(* What is shown of the packets after a step.                              *)
Follows(T) == Packets(T)' /\ Spare' /\ CellsFit'

(* A step that moves no offset and writes nothing.                         *)
LEMMA QuietPackets ==
  ASSUME NEW S, Packets(S), Spare, CellsFit, UNCHANGED <<ui32Read, ui32Write, buffer>>, Stops(S)'
  PROVE  Follows(S)
BY DEF Follows, Packets, Spare, CellsFit, Free

(* ... or only more packets are there.                                     *)
LEMMA StopsStay ==
  ASSUME TypeOK, NEW S, Stops(S), NEW T, S \subseteq T, UNCHANGED <<ui32Read, reader>>,
         Lap(ui32Read, ui32Write) <= Lap(ui32Read, ui32Write'), ui32Write' \in Offsets
  PROVE  Stops(T)'
<1>1. Lap(ui32Read, ui32Write) \in Nat /\ Lap(ui32Read, ui32Write') \in Nat
  BY LapNumbers DEF TypeOK
<1>2. UNCHANGED <<rpc, offset, len, limit, ui32Read>>
  BY DEF reader
<1>3. limit # NoLimit /\ ui32Read < limit => limit \in T
  BY DEF Stops
<1>4. rpc = "holding" =>
       /\ offset + len <= Size /\ Wrapped(offset + len) \in T
       /\ offset + len <= Lap(ui32Read, ui32Write')
       /\ limit # NoLimit => ui32Read < limit /\ offset + len <= limit
  <2>1. offset \in Nat /\ len \in Nat
    BY Sizes DEF TypeOK
  <2>2. CASE rpc = "holding"
    <3>1. /\ offset + len <= Size /\ Wrapped(offset + len) \in S
          /\ offset + len <= Lap(ui32Read, ui32Write)
          /\ limit # NoLimit => ui32Read < limit /\ offset + len <= limit
      BY <2>2 DEF Stops
    <3> QED
      BY <1>1, <2>1, <3>1
  <2> QED
    BY <2>2
<1> QED
  BY <1>2, <1>3, <1>4 DEF Stops

(* What the reader holds ends at a packet.                                 *)
LEMMA HeldEnd ==
  ASSUME TypeOK, IInv, NEW S, Packets(S), rpc = "holding"
  PROVE  /\ offset = ui32Read /\ offset \in Nat
         /\ (offset + len) % Size \in S
         /\ Lap(ui32Read, (offset + len) % Size) = offset + len
         /\ Lap(ui32Read, ui32Read) <= offset + len
         /\ offset + len <= Lap(ui32Read, ui32Write)
<1>1. offset = ui32Read
  BY DEF IInv, ReaderIsPending
<1>2. /\ offset + len <= Size /\ Wrapped(offset + len) \in S
      /\ offset + len <= Lap(ui32Read, ui32Write)
  BY DEF Packets, Stops
<1>3. ui32Read \in Offsets /\ ui32Write \in Offsets /\ ui32Read \in Nat /\ len \in Nat
  BY Sizes DEF TypeOK
<1>4. /\ Lap(ui32Read, ui32Write) < ui32Read + Size /\ Lap(ui32Read, ui32Read) = ui32Read
      /\ Lap(ui32Read, ui32Write) \in Nat
  BY <1>3, LapNumbers
<1>5. /\ offset + len \in Nat /\ ui32Read <= offset + len /\ offset + len < ui32Read + Size
  BY <1>1, <1>2, <1>3, <1>4, Sizes
<1>6. /\ Wrapped(offset + len) = (offset + len) % Size
      /\ Lap(ui32Read, Wrapped(offset + len)) = offset + len
  BY <1>2, <1>3, <1>5, WrappedNumbers
<1> QED
  BY <1>1, <1>2, <1>3, <1>4, <1>5, <1>6

(* A writer that leaves what is unread alone changes nothing for a reader. *)
LEMMA WriterRuns ==
  ASSUME TypeOK, TypeOK', IInv, NEW S, Packets(S), UNCHANGED <<ui32Read, reader>>,
         Chain(S, ui32Read, ui32Write, buffer'), KeepsUnread
  PROVE  Held' = Held /\ RunIn(buffer', ui32Read, ui32Write) = Unread
<1> DEFINE c == buffer'
<1>1. /\ buffer \in [Offsets -> Cell] /\ c \in [Offsets -> Cell]
      /\ Chain(S, ui32Read, ui32Write, buffer) /\ Chain(S, ui32Read, ui32Write, c)
  BY DEF TypeOK, Packets
<1> HIDE DEF c
<1>2. \A o \in Offsets : Lap(ui32Read, o) < Lap(ui32Read, ui32Write) =>
        c[o].kind = buffer[o].kind /\ c[o].len = buffer[o].len /\ c[o].id = buffer[o].id
  BY DEF c, KeepsUnread, UnreadUnits
<1>3. ASSUME NEW e \in S, Lap(ui32Read, ui32Read) <= Lap(ui32Read, e)
      PROVE  RunIn(c, ui32Read, e) = RunIn(buffer, ui32Read, e)
  <2>1. ui32Read \in S
    BY <1>1 DEF Chain
  <2> QED
    BY <1>1, <1>2, <1>3, <2>1, RunBuffer
<1>4. RunIn(c, ui32Read, ui32Write) = RunIn(buffer, ui32Read, ui32Write)
  <2>1. ui32Write \in S /\ Lap(ui32Read, ui32Read) <= Lap(ui32Read, ui32Write)
    BY <1>1 DEF Chain
  <2> QED
    BY <1>3, <2>1
<1>5. CASE rpc = "holding"
  <2>1. /\ (offset + len) % Size \in S /\ offset = ui32Read
        /\ Lap(ui32Read, ui32Read) <= Lap(ui32Read, (offset + len) % Size)
    BY <1>5, HeldEnd
  <2>2. RunIn(c, offset, (offset + len) % Size) = RunIn(buffer, offset, (offset + len) % Size)
    BY <1>3, <2>1
  <2>4. UNCHANGED <<rpc, offset, len>>
    BY DEF reader
  <2>5. Held' = Len(RunIn(c, offset, (offset + len) % Size))
    BY <1>5, <2>4, HeldIsNext DEF c
  <2> QED
    BY <1>4, <1>5, <2>2, <2>5, HeldIs, UnreadIs DEF c
<1>6. CASE rpc # "holding"
  <2>1. Held' = 0 /\ Held = 0
    BY <1>6 DEF Held, reader
  <2> QED
    BY <1>4, <2>1, UnreadIs DEF c
<1> QED
  BY <1>5, <1>6

(* A reserve with room: the padding packet is there to be read, the new    *)
(* one not yet, and to a reader nothing has changed.                       *)
LEMMA WriteHeaderPackets ==
  ASSUME PacketsInv, ~NoWrap, NEW w \in Writers, WriteHeader(w)
  PROVE  /\ \E T : Follows(T)
         /\ KeepsUnread /\ UNCHANGED <<Unread, Held>>
         /\ WriterShape' /\ NewPacket'
<1> PICK S : Packets(S)
  BY DEF PacketsInv
<1> DEFINE l == loc[w]
           n == l.size
           write == ui32Write
           pad == Pad(l.write, n)
<1>1. /\ TypeOK /\ IInv /\ WriterShape /\ Spare /\ NewPacket /\ CellsFit
      /\ wpc[w] = "write" /\ UNCHANGED <<ui32Read, reader>> /\ TypeOK'
  BY WriteHeaderTypes DEF PacketsInv, WriteHeader
<1>2. /\ l \in [read : Offsets, write : Offsets, size : Nat] /\ n \in Nat
      /\ l.write = write /\ Free(l.read, write) <= Free(ui32Read, write)
      /\ write \in Offsets /\ ui32Read \in Offsets
      /\ \A v \in Writers : v # w => wpc[v] = "idle"
  BY <1>1, LocalType, OthersIdle DEF WriterShape, TypeOK
<1>3. /\ Chain(S, ui32Read, write, buffer) /\ Stops(S)
      /\ buffer \in [Offsets -> Cell] /\ buffer' \in [Offsets -> Cell]
  BY <1>1 DEF Packets, TypeOK
<1>4. CASE Short(l)
  <2>1. Leave(w) /\ UNCHANGED <<ui32Write, buffer>>
    BY <1>4 DEF WriteHeader
  <2>2. Follows(S)
    <3>1. Stops(S)'
      BY <1>1, <1>3, <2>1 DEF Stops, reader, Lap
    <3> QED
      BY <1>1, <2>1, <3>1, QuietPackets
  <2>3. KeepsUnread
    BY <2>1 DEF KeepsUnread
  <2>4. UNCHANGED <<Unread, Held>>
    BY <1>1, <1>3, <2>1, <2>3, WriterRuns, UnreadIs, UnreadIsNext
  <2>5. WriterShape' /\ NewPacket'
    BY <1>1, <2>1, LeaveShape
  <2> QED
    BY <2>2, <2>3, <2>4, <2>5
<1>5. CASE ~Short(l)
  <2>1. /\ n + 1 + pad + Reserved <= Free(ui32Read, write)
        /\ pad \in Nat
        /\ pad > 0 => pad = Size - write /\ ui32Read <= write /\ ui32Read >= 3
        /\ pad = 0 => write + n + 1 <= Size
    BY <1>2, <1>5, NotShort
  <2> DEFINE at == IF pad > 0 THEN 0 ELSE write
             head == Header("packet", n, nextId)
             fill == Header("padding", pad - 1, 0)
  <2>2. /\ buffer' = [(IF pad > 0 THEN [buffer EXCEPT ![write] = fill] ELSE buffer) EXCEPT ![at] = head]
        /\ ui32Write' = at /\ ui32Pending' = n + 1
        /\ wpc' = [wpc EXCEPT ![w] = "fill"] /\ UNCHANGED <<loc, nextId>>
    BY <1>2, <1>5 DEF WriteHeader, At
  <2>3. head.len = n /\ fill.len = pad - 1 /\ fill.kind = "padding" /\ head.kind = "packet"
    BY DEF Header
  <2>4. write \in Nat /\ write < Size /\ ui32Read \in Nat /\ Size \in Nat /\ 0 \in Offsets
        /\ Free(ui32Read, write) \in Nat /\ Free(ui32Read, write) <= Size /\ Lap(ui32Read, write) \in Nat
        /\ CellsFit /\ \A o \in Offsets : o \in Nat /\ buffer[o].len \in Nat
        /\ Size >= 15
    <3>1. Free(ui32Read, write) \in Nat /\ Free(ui32Read, write) <= Size
      <4>1. ui32Read \in Nat /\ ui32Read < Size /\ write \in Nat /\ write < Size /\ Size \in Nat
        BY <1>2, Sizes
      <4> QED
        BY <4>1 DEF Free
    <3>2. Lap(ui32Read, write) \in Nat
      BY <1>2, LapNumbers
    <3>3. \A o \in Offsets : o \in Nat /\ buffer[o].len \in Nat
      BY <1>3, Sizes, ChainNumbers
    <3>4. /\ write \in Nat /\ write < Size /\ ui32Read \in Nat /\ Size \in Nat /\ 0 \in Offsets
          /\ CellsFit /\ Size >= 15
      BY <1>1, <1>2, Sizes
    <3> QED
      BY <3>1, <3>2, <3>3, <3>4
  <2>5. pad > 0 => Lap(ui32Read, 0) = Lap(ui32Read, write) + pad /\ Lap(ui32Read, write) = write
    BY <2>1, <2>4 DEF Lap
  <2>6. ASSUME NEW o \in Offsets, o # write, pad > 0 => o # 0
        PROVE  buffer'[o] = buffer[o]
    BY <1>3, <2>2, <2>6
  <2>7. buffer'[at] = head /\ (pad > 0 => buffer'[write] = fill)
    <3> HIDE DEF head, fill
    <3> QED
      BY <1>2, <1>3, <2>1, <2>2, <2>4
  <2> HIDE DEF head, fill, pad
  <2>8. KeepsUnread
    <3> SUFFICES ASSUME NEW o \in Offsets, Lap(ui32Read, o) < Lap(ui32Read, write)
                 PROVE  buffer'[o] = buffer[o]
      BY DEF KeepsUnread, UnreadUnits
    <3>1. o # write
      BY <2>4
    <3>2. pad > 0 => o # 0
      BY <2>1, <2>4, <2>5
    <3> QED
      BY <2>6, <3>1, <3>2
  <2>9. Chain(S, ui32Read, write, buffer')
    BY <1>3, <2>8, ChainBuffer DEF KeepsUnread, UnreadUnits
  <2>10. CellsFit'
    <3> SUFFICES ASSUME NEW o \in Offsets PROVE o + buffer'[o].len < Size
      BY DEF CellsFit
    <3>1. CASE o = at
      <4>1. buffer'[o].len = n
        BY <2>3, <2>7, <3>1
      <4>2. at + n < Size
        BY <1>2, <2>1, <2>4 DEF Reserved
      <4> QED
        BY <3>1, <4>1, <4>2
    <3>2. CASE o = write /\ pad > 0
      BY <2>1, <2>3, <2>4, <2>7, <3>2
    <3>3. CASE o # write /\ (pad > 0 => o # 0)
      BY <2>4, <2>6, <3>3 DEF CellsFit
    <3> QED
      BY <3>1, <3>2, <3>3
  <2>11. /\ Free(ui32Read, at) >= n + 1 + Reserved /\ at + n + 1 <= Size
         /\ Free(ui32Read, at) \in Nat /\ at \in Offsets
    <3>1. CASE pad > 0
      <4>1. Free(ui32Read, 0) = ui32Read
        BY <2>1, <2>4, <3>1 DEF Free
      <4>2. Free(ui32Read, write) = Size - write + ui32Read
        BY <2>1, <2>4, <3>1 DEF Free
      <4> QED
        BY <1>2, <2>1, <2>4, <3>1, <4>1, <4>2 DEF Reserved
    <3>2. CASE ~(pad > 0)
      BY <1>2, <2>1, <2>4, <3>2 DEF Reserved
    <3> QED
      BY <3>1, <3>2
  <2>12. Spare'
    BY <1>1, <1>2, <2>2, <2>11 DEF Spare, Reserved
  <2>13. WriterShape' /\ NewPacket'
    <3>1. ui32Pending' # NothingPending
      BY <1>2, <2>2 DEF NothingPending
    <3>2. WriterShape'
      BY <1>1, <1>2, <2>2, <3>1, ShapeOfOne
    <3>3. buffer'[ui32Write'] = Header("packet", loc'[w].size, nextId')
      BY <2>2, <2>7 DEF head
    <3>4. ui32Write' + loc'[w].size + 1 <= Size /\ loc'[w].size + 1 + Reserved <= Free(ui32Read', ui32Write')
      BY <1>1, <1>2, <2>2, <2>4, <2>11 DEF Reserved
    <3> QED
      BY <1>1, <1>2, <2>2, <3>2, <3>3, <3>4, NewPacketOfOne
  <2>14. Held' = Held /\ RunIn(buffer', ui32Read, write) = Unread
    BY <1>1, <2>8, <2>9, WriterRuns
  <2>15. CASE ~(pad > 0)
    <3>1. UNCHANGED ui32Write
      BY <2>2, <2>15
    <3>2. Stops(S)'
      BY <1>1, <1>3, <3>1 DEF Stops, reader, Lap
    <3>3. Follows(S)
      BY <1>1, <2>9, <2>10, <2>12, <3>1, <3>2 DEF Follows, Packets
    <3>4. Unread' = Unread
      BY <1>1, <2>14, <3>1, UnreadIsNext
    <3> QED
      BY <2>8, <2>13, <2>14, <3>3, <3>4
  <2>16. CASE pad > 0
    <3>1. at = 0 /\ ui32Write' = 0 /\ write # 0
      BY <2>1, <2>2, <2>4, <2>16
    <3>2. Sound(buffer', write) /\ After(buffer', write) = 0 /\ buffer'[write].len = pad - 1
      BY <2>1, <2>3, <2>4, <2>7, <2>16 DEF Sound, After, IsHeader, HeaderKinds
    <3>3. Lap(ui32Read, 0) = Lap(ui32Read, write) + 1 + buffer'[write].len
      BY <2>1, <2>4, <2>5, <2>16, <3>2
    <3>4. Chain(S \cup {0}, ui32Read, 0, buffer')
      BY <1>3, <2>4, <2>9, <3>2, <3>3, ChainAppend
    <3>5. Stops(S \cup {0})'
      BY <1>1, <1>3, <2>1, <2>4, <2>5, <2>16, <3>1, StopsStay
    <3>6. Follows(S \cup {0})
      BY <1>1, <2>10, <2>12, <3>1, <3>4, <3>5 DEF Follows, Packets
    <3>7. RunIn(buffer', ui32Read, 0) = RunIn(buffer', ui32Read, write) \o FoundIn(buffer', write)
      <4>1. PICK b, v : b = buffer' /\ v = 0
        OBVIOUS
      <4>2. /\ b \in [Offsets -> Cell] /\ Chain(S, ui32Read, write, b) /\ v \in Offsets
            /\ Sound(b, write) /\ After(b, write) = v
            /\ Lap(ui32Read, v) = Lap(ui32Read, write) + 1 + b[write].len
        BY <1>3, <2>4, <2>9, <3>2, <3>3, <4>1
      <4>3. RunIn(b, ui32Read, v) = RunIn(b, ui32Read, write) \o FoundIn(b, write)
        BY <4>2, RunAppend
      <4> QED
        BY <4>1, <4>3
    <3>8. FoundIn(buffer', write) = <<>>
      BY <2>3, <2>7, <2>16 DEF FoundIn
    <3>9. RunIn(buffer', ui32Read, write) \in Seq(Ids)
      <4>1. ui32Read \in S /\ write \in S /\ Lap(ui32Read, ui32Read) <= Lap(ui32Read, write)
        BY <2>9 DEF Chain
      <4> QED
        BY <1>3, <2>9, <4>1, RunIds
    <3>10. Unread' = Unread
      BY <1>1, <2>14, <3>1, <3>7, <3>8, <3>9, ConcatEmptySeq, UnreadIsNext
    <3> QED
      BY <2>8, <2>13, <2>14, <3>6, <3>10
  <2> QED
    BY <2>15, <2>16
<1> QED
  BY <1>4, <1>5

(* A packet at the write offset becomes readable.                          *)
LEMMA AppendPackets ==
  ASSUME TypeOK, TypeOK', IInv, NEW S, Packets(S), UNCHANGED <<ui32Read, reader>>, KeepsUnread,
         Chain(S, ui32Read, ui32Write, buffer'), CellsFit', Spare',
         NEW k \in Nat, k < Free(ui32Read, ui32Write), ui32Write + k <= Size,
         ui32Write' = (ui32Write + k) % Size,
         Sound(buffer', ui32Write), buffer'[ui32Write].len + 1 = k
  PROVE  /\ \E T : Follows(T)
         /\ Held' = Held /\ Unread' = Unread \o FoundIn(buffer', ui32Write)
<1> PICK v : v = ui32Write'
  OBVIOUS
<1>1. /\ ui32Read \in Offsets /\ ui32Write \in Offsets /\ buffer' \in [Offsets -> Cell]
      /\ buffer'[ui32Write].len \in Nat /\ ui32Write \in Nat
      /\ Lap(ui32Read, ui32Write) \in Nat
  BY Sizes, LapNumbers DEF TypeOK, Cell
<1>2. /\ v \in Offsets /\ v = IF ui32Write + k >= Size THEN 0 ELSE ui32Write + k
      /\ Lap(ui32Read, v) = Lap(ui32Read, ui32Write) + k
  BY <1>1, FreeStep
<1>3. /\ After(buffer', ui32Write) = v
      /\ Lap(ui32Read, v) = Lap(ui32Read, ui32Write) + 1 + buffer'[ui32Write].len
  <2>1. ui32Write + 1 + buffer'[ui32Write].len = ui32Write + k
    BY <1>1
  <2> QED
    BY <1>1, <1>2, <2>1 DEF After
<1>4. Chain(S \cup {v}, ui32Read, v, buffer')
  BY <1>1, <1>2, <1>3, ChainAppend
<1>5. Stops(S \cup {v})'
  BY <1>1, <1>2, StopsStay DEF Packets
<1>6. Follows(S \cup {v})
  BY <1>4, <1>5 DEF Follows, Packets
<1>7. Held' = Held /\ RunIn(buffer', ui32Read, ui32Write) = Unread
  BY WriterRuns
<1>8. RunIn(buffer', ui32Read, v) = RunIn(buffer', ui32Read, ui32Write) \o FoundIn(buffer', ui32Write)
  BY <1>1, <1>2, <1>3, RunAppend
<1> QED
  BY <1>6, <1>7, <1>8, UnreadIsNext

(* What is unread, without a packet that is none.                          *)
LEMMA UnreadIds ==
  ASSUME TypeOK, NEW S, Packets(S)
  PROVE  Unread \in Seq(Ids)
<1>1. /\ buffer \in [Offsets -> Cell] /\ Chain(S, ui32Read, ui32Write, buffer)
      /\ ui32Read \in S /\ ui32Write \in S
      /\ Lap(ui32Read, ui32Read) <= Lap(ui32Read, ui32Write)
  BY DEF TypeOK, Packets, Chain
<1> QED
  BY <1>1, RunIds, UnreadIs

(* A refused packet takes a unit that was kept back, or leaves no trace;   *)
(* to a reader nothing has changed.                                        *)
LEMMA RefusePackets ==
  ASSUME PacketsInv, NEW w \in Writers, Refuse(w)
  PROVE  /\ \E T : Follows(T)
         /\ KeepsUnread /\ UNCHANGED <<Unread, Held>>
         /\ WriterShape' /\ NewPacket'
<1> PICK S : Packets(S)
  BY DEF PacketsInv
<1> DEFINE head == Header("writeFailed", 0, 0)
<1>1. /\ TypeOK /\ IInv /\ WriterShape /\ Spare /\ NewPacket /\ CellsFit
      /\ wpc[w] = "refuse" /\ UNCHANGED <<ui32Read, reader>> /\ Leave(w) /\ TypeOK'
  BY RefuseTypes DEF PacketsInv, Refuse
<1>2. /\ loc[w].write = ui32Write /\ ui32Write \in Offsets /\ ui32Read \in Offsets
      /\ buffer \in [Offsets -> Cell] /\ buffer' \in [Offsets -> Cell]
      /\ Chain(S, ui32Read, ui32Write, buffer) /\ Stops(S)
  BY <1>1 DEF WriterShape, TypeOK, Packets
<1>3. WriterShape' /\ NewPacket'
  BY <1>1, LeaveShape
<1>4. CASE UNCHANGED <<buffer, ui32Write>>
  <2>1. Stops(S)'
    BY <1>1, <1>2, <1>4 DEF Stops, reader, Lap
  <2>2. Follows(S)
    BY <1>1, <1>4, <2>1, QuietPackets
  <2>3. KeepsUnread
    BY <1>4 DEF KeepsUnread
  <2>4. UNCHANGED <<Unread, Held>>
    BY <1>1, <1>2, <1>4, <2>3, WriterRuns, UnreadIs, UnreadIsNext
  <2> QED
    BY <1>3, <2>2, <2>3, <2>4
<1>5. CASE /\ buffer[Last(ui32Write)].kind # "writeFailed"
           /\ buffer' = [buffer EXCEPT ![ui32Write] = head]
           /\ ui32Write' = (ui32Write + 1) % Size
  <2>1. /\ Free(ui32Read, ui32Write) \in Nat /\ Free(ui32Read, ui32Write) >= 2
        /\ ui32Write \in Nat /\ ui32Write + 1 <= Size /\ Lap(ui32Read, ui32Write) \in Nat
        /\ Size \in Nat
    <3>1. /\ Free(ui32Read, ui32Write) \in Nat /\ Lap(ui32Read, ui32Write) \in Nat
          /\ ui32Write \in Nat /\ ui32Write < Size /\ Size \in Nat
      BY <1>2, FreeNumbers, LapNumbers, Sizes
    <3>2. Free(ui32Read, ui32Write) >= 2
      BY <1>1, <1>5 DEF Spare, Reserved
    <3> QED
      BY <3>1, <3>2
  <2>2. /\ (ui32Write + 1) % Size = IF ui32Write + 1 >= Size THEN 0 ELSE ui32Write + 1
        /\ Free(ui32Read, (ui32Write + 1) % Size) = Free(ui32Read, ui32Write) - 1
    BY <1>2, <2>1, FreeStep
  <2>3. buffer'[ui32Write] = head /\ head.kind = "writeFailed" /\ head.len = 0
    BY <1>2, <1>5 DEF Header
  <2> HIDE DEF head
  <2>4. KeepsUnread
    BY <1>2, <1>5, <2>1 DEF KeepsUnread, UnreadUnits
  <2>5. Chain(S, ui32Read, ui32Write, buffer')
    BY <1>2, <2>4, ChainBuffer DEF KeepsUnread, UnreadUnits
  <2>6. CellsFit'
    <3> SUFFICES ASSUME NEW o \in Offsets PROVE o + buffer'[o].len < Size
      BY DEF CellsFit
    <3>1. CASE o = ui32Write
      BY <2>1, <2>3, <3>1
    <3>2. CASE o # ui32Write
      BY <1>1, <1>2, <1>5, <3>2 DEF CellsFit
    <3> QED
      BY <3>1, <3>2
  <2>7. Spare'
    <3>1. Last(ui32Write') = ui32Write
      BY <1>5, <2>1, <2>2 DEF Last
    <3>2. buffer'[Last(ui32Write')].kind = "writeFailed"
      BY <2>3, <3>1
    <3>3. Free(ui32Read', ui32Write') = Free(ui32Read, ui32Write) - 1
      BY <1>1, <1>5, <2>2
    <3> QED
      BY <2>1, <3>2, <3>3 DEF Spare, Reserved
  <2>8. Sound(buffer', ui32Write) /\ FoundIn(buffer', ui32Write) = <<>>
    BY <1>2, <2>1, <2>3 DEF Sound, FoundIn, IsHeader, HeaderKinds
  <2>9. /\ \E T : Follows(T)
        /\ Held' = Held /\ Unread' = Unread \o FoundIn(buffer', ui32Write)
    <3>1. 1 \in Nat /\ 1 < Free(ui32Read, ui32Write) /\ buffer'[ui32Write].len + 1 = 1
      BY <2>1, <2>3
    <3> QED
      BY <1>1, <1>5, <2>1, <2>4, <2>5, <2>6, <2>7, <2>8, <3>1, AppendPackets
  <2>10. Unread' = Unread
    BY <1>1, <2>8, <2>9, UnreadIds, ConcatEmptySeq
  <2> QED
    BY <1>3, <2>4, <2>9, <2>10
<1> QED
  BY <1>2, <1>4, <1>5 DEF Refuse

(* The data go to units that are free; then the new packet is whole.       *)
LEMMA FillPackets ==
  ASSUME PacketsInv, NEW w \in Writers, Fill(w)
  PROVE  /\ \E T : Follows(T)
         /\ KeepsUnread /\ UNCHANGED <<Unread, Held>>
         /\ WriterShape' /\ NewPacket'
<1> PICK S : Packets(S)
  BY DEF PacketsInv
<1> DEFINE n == loc[w].size
<1>1. /\ TypeOK /\ IInv /\ WriterShape /\ Spare /\ NewPacket /\ CellsFit
      /\ wpc[w] = "fill" /\ UNCHANGED <<ui32Read, ui32Write, ui32Pending, reader, loc, nextId>> /\ TypeOK'
      /\ wpc' = [wpc EXCEPT ![w] = "commit"]
      /\ buffer' = [o \in Offsets |-> IF o \in ui32Write + 1 .. ui32Write + n
                                      THEN Data(nextId) ELSE buffer[o]]
  BY FillTypes DEF PacketsInv, Fill, At
<1>2. /\ ui32Write \in Offsets /\ ui32Read \in Offsets /\ n \in Nat
      /\ buffer \in [Offsets -> Cell] /\ buffer' \in [Offsets -> Cell]
      /\ Chain(S, ui32Read, ui32Write, buffer) /\ Stops(S)
      /\ ui32Write + n + 1 <= Size /\ n + 1 + Reserved <= Free(ui32Read, ui32Write)
      /\ buffer[ui32Write] = Header("packet", n, nextId)
  BY <1>1, LocalType DEF NewPacket, TypeOK, Packets
<1>3. /\ Free(ui32Read, ui32Write) \in Nat /\ ui32Write \in Nat /\ Size \in Nat
      /\ Lap(ui32Read, ui32Write) \in Nat
  BY <1>2, FreeNumbers, LapNumbers, Sizes
<1>4. KeepsUnread
  <2> SUFFICES ASSUME NEW o \in Offsets, Lap(ui32Read, o) < Lap(ui32Read, ui32Write),
                      o \in ui32Write + 1 .. ui32Write + n
               PROVE  FALSE
    BY <1>1 DEF KeepsUnread, UnreadUnits
  <2> DEFINE k == o - ui32Write
  <2>1. /\ o \in Nat /\ o < Size /\ k \in Nat /\ k < Free(ui32Read, ui32Write) /\ ui32Write + k <= Size
        /\ ui32Write + k = o /\ k > 0
    BY <1>2, <1>3, Sizes DEF Reserved
  <2> HIDE DEF k
  <2>2. /\ (ui32Write + k) % Size = o
        /\ Lap(ui32Read, (ui32Write + k) % Size) = Lap(ui32Read, ui32Write) + k
    <3>1. /\ (ui32Write + k) % Size = IF ui32Write + k >= Size THEN 0 ELSE ui32Write + k
          /\ Lap(ui32Read, (ui32Write + k) % Size) = Lap(ui32Read, ui32Write) + k
      BY <1>2, <2>1, FreeStep
    <3>2. ~(ui32Write + k >= Size)
      BY <1>3, <2>1
    <3> QED
      BY <2>1, <3>1, <3>2
  <2> QED
    BY <1>3, <2>1, <2>2
<1>5. Chain(S, ui32Read, ui32Write, buffer')
  BY <1>2, <1>4, ChainBuffer DEF KeepsUnread, UnreadUnits
<1>6. CellsFit'
  <2> SUFFICES ASSUME NEW o \in Offsets PROVE o + buffer'[o].len < Size
    BY DEF CellsFit
  <2>1. buffer'[o] = Data(nextId) \/ buffer'[o] = buffer[o]
    BY <1>1
  <2>2. o \in Nat /\ o < Size /\ Data(nextId).len = 0
    BY Sizes DEF Data
  <2> QED
    BY <1>1, <2>1, <2>2 DEF CellsFit
<1>7. buffer'[ui32Write] = Header("packet", n, nextId)
  BY <1>1, <1>2, <1>3
<1>8. Sound(buffer', ui32Write)
  <2>1. /\ buffer'[ui32Write].kind = "packet" /\ buffer'[ui32Write].len = n
        /\ buffer'[ui32Write].id = nextId
    BY <1>7 DEF Header
  <2>2. \A o \in ui32Write + 1 .. ui32Write + n : o \in Offsets
    BY <1>2, <1>3, Sizes
  <2>3. \A o \in ui32Write + 1 .. ui32Write + n : buffer'[o] = Data(nextId)
    BY <1>1, <2>2
  <2> QED
    BY <1>2, <1>3, <2>1, <2>3 DEF Sound, IsHeader, HeaderKinds
<1>9. Spare'
  BY <1>1, <1>2, <1>3 DEF Spare, Reserved
<1>10. Follows(S)
  <2>1. Stops(S)'
    BY <1>1, <1>2 DEF Stops, reader, Lap
  <2> QED
    BY <1>1, <1>5, <1>6, <1>9, <2>1 DEF Follows, Packets
<1>11. UNCHANGED <<Unread, Held>>
  BY <1>1, <1>4, <1>5, WriterRuns, UnreadIsNext
<1>12. WriterShape' /\ NewPacket'
  <2>1. \A v \in Writers : v # w => wpc[v] = "idle"
    BY <1>1, OthersIdle
  <2>2. ui32Pending' # NothingPending
    BY <1>1, OthersIdle
  <2>3. WriterShape'
    BY <1>1, <2>1, <2>2, ShapeOfOne
  <2>4. NewPacket'
    BY <1>1, <1>2, <1>7, <1>8, <2>1, NewPacketOfOne
  <2> QED
    BY <2>3, <2>4
<1> QED
  BY <1>4, <1>10, <1>11, <1>12

(* A commit makes the packet the last one that is unread.                  *)
LEMMA CommitPackets ==
  ASSUME PacketsInv, NEW w \in Writers, TLStreamCommit(w)
  PROVE  /\ \E T : Follows(T)
         /\ KeepsUnread /\ Held' = Held /\ Unread' = Append(Unread, nextId)
         /\ WriterShape' /\ NewPacket'
<1> PICK S : Packets(S)
  BY DEF PacketsInv
<1> DEFINE n == loc[w].size
<1>1. /\ TypeOK /\ IInv /\ WriterShape /\ Spare /\ NewPacket /\ CellsFit
      /\ wpc[w] = "commit" /\ UNCHANGED <<ui32Read, buffer, reader>> /\ TypeOK' /\ Leave(w)
      /\ ui32Write' = (ui32Write + n + 1) % Size
  BY CommitTypes DEF PacketsInv, TLStreamCommit, AfterPacket
<1>2. /\ ui32Write \in Offsets /\ ui32Read \in Offsets /\ n \in Nat
      /\ Chain(S, ui32Read, ui32Write, buffer)
      /\ ui32Write + n + 1 <= Size /\ n + 1 + Reserved <= Free(ui32Read, ui32Write)
      /\ buffer[ui32Write] = Header("packet", n, nextId) /\ Sound(buffer, ui32Write)
  BY <1>1, LocalType DEF NewPacket, TypeOK, Packets
<1>3. /\ Free(ui32Read, ui32Write) \in Nat /\ ui32Write \in Nat
      /\ n + 1 \in Nat /\ n + 1 < Free(ui32Read, ui32Write) /\ ui32Write + (n + 1) <= Size
      /\ ui32Write + n + 1 = ui32Write + (n + 1)
  <2>1. Free(ui32Read, ui32Write) \in Nat /\ ui32Write \in Nat
    BY <1>2, FreeNumbers, Sizes
  <2>2. n + 1 + 2 <= Free(ui32Read, ui32Write) /\ ui32Write + n + 1 <= Size /\ n \in Nat
    BY <1>2 DEF Reserved
  <2> HIDE DEF n
  <2> QED
    BY <2>1, <2>2, Sizes
<1>4. KeepsUnread
  BY <1>1 DEF KeepsUnread
<1>5. /\ buffer[ui32Write].kind = "packet" /\ buffer[ui32Write].len = n
      /\ buffer[ui32Write].id = nextId
  BY <1>2 DEF Header
<1>6. CellsFit'
  BY <1>1 DEF CellsFit
<1>7. Spare'
  <2> DEFINE k == n + 1
  <2>1. Free(ui32Read, (ui32Write + k) % Size) = Free(ui32Read, ui32Write) - k
    BY <1>2, <1>3, FreeStep
  <2>2. Free(ui32Read', ui32Write') = Free(ui32Read, ui32Write) - k
    BY <1>1, <1>3, <2>1
  <2> QED
    BY <1>2, <1>3, <2>2 DEF Spare, Reserved
<1>8. /\ \E T : Follows(T)
      /\ Held' = Held /\ Unread' = Unread \o FoundIn(buffer', ui32Write)
  <2> DEFINE k == n + 1
  <2>1. /\ k \in Nat /\ k < Free(ui32Read, ui32Write) /\ ui32Write + k <= Size
        /\ ui32Write' = (ui32Write + k) % Size /\ buffer'[ui32Write].len + 1 = k
    BY <1>1, <1>3, <1>5
  <2>2. Sound(buffer', ui32Write) /\ Chain(S, ui32Read, ui32Write, buffer')
    BY <1>1, <1>2
  <2> HIDE DEF k, n
  <2> QED
    BY <1>1, <1>4, <1>6, <1>7, <2>1, <2>2, AppendPackets
<1>9. Unread' = Append(Unread, nextId)
  <2>1. FoundIn(buffer', ui32Write) = <<nextId>>
    BY <1>1, <1>5 DEF FoundIn
  <2>2. Unread \in Seq(Ids) /\ nextId \in Ids
    BY <1>1, UnreadIds DEF TypeOK
  <2>3. Append(Unread, nextId) = Unread \o <<nextId>>
    BY <2>2, AppendIsConcat
  <2> QED
    BY <1>8, <2>1, <2>3
<1>10. WriterShape' /\ NewPacket'
  BY <1>1, LeaveShape
<1> QED
  BY <1>4, <1>8, <1>9, <1>10

(* What a writer does before it has a place for its packet.                *)
LEMMA QuietWriter ==
  ASSUME PacketsInv, NEW w \in Writers,
         \/ \E n \in DataSizes : Reserve(w, n)
         \/ LookAgain(w) \/ LockRead(w)
  PROVE  /\ TypeOK' /\ \E T : Follows(T)
         /\ KeepsUnread /\ UNCHANGED <<Unread, Held>>
         /\ WriterShape' /\ NewPacket'
<1> PICK S : Packets(S)
  BY DEF PacketsInv
<1>1. /\ TypeOK /\ IInv /\ WriterShape /\ Spare /\ CellsFit
  BY DEF PacketsInv
<1>2. TypeOK'
  BY <1>1, ReserveTypes, LookAgainTypes, LockReadTypes
<1>3. UNCHANGED <<ui32Read, ui32Write, buffer, reader>>
  BY DEF Reserve, LookAgain, LockRead, stream
<1>4. Stops(S) /\ Chain(S, ui32Read, ui32Write, buffer)
  BY DEF Packets
<1>5. Stops(S)'
  BY <1>3, <1>4 DEF Stops, reader, Lap
<1>6. Follows(S)
  BY <1>1, <1>3, <1>5, QuietPackets
<1>7. KeepsUnread
  BY <1>3 DEF KeepsUnread
<1>8. UNCHANGED <<Unread, Held>>
  BY <1>1, <1>2, <1>3, <1>4, <1>7, WriterRuns, UnreadIs, UnreadIsNext
<1>9. WriterShape' /\ NewPacket'
  BY <1>1, QuietShape
<1> QED
  BY <1>2, <1>6, <1>7, <1>8, <1>9

(* The oldest packets are dropped: what is left begins at a packet.        *)
LEMMA DropPackets ==
  ASSUME PacketsInv, NEW w \in Writers, DropOldest(w)
  PROVE  /\ TypeOK' /\ \E T : Follows(T)
         /\ eOpMode = "dropOldest" /\ rpc # "holding" /\ UNCHANGED reader
         /\ \E n \in 0 .. Len(Unread) : Unread' = SubSeq(Unread, n + 1, Len(Unread))
         /\ WriterShape' /\ NewPacket'
<1> PICK S : Packets(S)
  BY DEF PacketsInv
<1> DEFINE r == ReadAfterDrop(loc[w])
<1>1. /\ TypeOK /\ IInv /\ WriterShape /\ Spare /\ NewPacket /\ CellsFit /\ ReaderShape
      /\ wpc[w] = "drop" /\ UNCHANGED <<ui32Write, ui32Pending, reader>>
      /\ wpc' = [wpc EXCEPT ![w] = "write"]
  BY DEF PacketsInv, DropOldest, At
<1>2. /\ loc[w].write = ui32Write /\ loc[w].read = ui32Read
      /\ ui32Write \in Offsets /\ ui32Read \in Offsets /\ buffer \in [Offsets -> Cell]
      /\ Chain(S, ui32Read, ui32Write, buffer) /\ Stops(S)
      /\ \A v \in Writers : v # w => wpc[v] = "idle"
      /\ ui32Pending # NothingPending
  BY <1>1, OthersIdle DEF WriterShape, TypeOK, Packets
<1>3. r \in S /\ r \in Offsets
  BY <1>2, DropToPacket, ChainNumbers
<1>4. TypeOK'
  BY <1>1, <1>3, DropOldestTypes
<1>5. eOpMode = "dropOldest" /\ rpc # "holding"
  BY <1>1, NoDropBesideReader DEF IInv, DropperHasLock
<1>6. /\ Free(ui32Read, ui32Write) \in Nat
      /\ Free(ui32Read, ui32Write) <= Free(ui32Read, ui32Write)
  BY <1>1, FreeTypes
<1>7. Unread \in Seq(Ids) /\ Len(Unread) \in Nat
  BY <1>1, UnreadIds, LenProperties
<1>8. CASE UNCHANGED <<ui32Read, buffer, loc>>
  <2>1. Stops(S)'
    BY <1>1, <1>2, <1>8 DEF Stops, reader, Lap
  <2>2. Follows(S)
    BY <1>1, <1>8, <2>1, QuietPackets
  <2>3. Unread' = Unread
    BY <1>1, <1>8, UnreadIs, UnreadIsNext
  <2>4. Unread = SubSeq(Unread, 0 + 1, Len(Unread))
    BY <1>7, SubSeqFull
  <2>5. 0 \in 0 .. Len(Unread)
    BY <1>7
  <2>6. WriterShape'
    BY <1>1, <1>2, <1>6, <1>8, ShapeOfOne
  <2>7. NewPacket'
    BY <1>1, <1>2, NewPacketOfOne
  <2> QED
    BY <1>1, <1>4, <1>5, <2>2, <2>3, <2>4, <2>5, <2>6, <2>7
<1>9. CASE /\ ui32Read' = r
           /\ buffer' = [buffer EXCEPT ![r].dropped = TRUE]
           /\ loc' = [loc EXCEPT ![w].read = r]
  <2> PICK q : q = r
    OBVIOUS
  <2> PICK c : c = buffer'
    OBVIOUS
  <2> PICK read : read = ui32Read
    OBVIOUS
  <2> DEFINE T == Rest(S, read, q)
  <2> HIDE DEF r
  <2>1. /\ q \in S /\ q \in Offsets /\ c \in [Offsets -> Cell]
        /\ c = [buffer EXCEPT ![q] = [buffer[q] EXCEPT !.dropped = TRUE]]
    BY <1>2, <1>3, <1>4, <1>9 DEF TypeOK
  <2>2. Chain(T, q, ui32Write, buffer) /\ Free(read, ui32Write) <= Free(q, ui32Write)
    BY <1>2, <2>1, ChainAdvance
  <2>3. \A o \in Offsets : c[o] = buffer[o] \/ (o = q /\ c[o] = [buffer[o] EXCEPT !.dropped = TRUE])
    BY <1>2, <2>1
  <2>4. q \in T
    BY <2>2 DEF Chain
  <2>5. \A o \in Offsets : c[o].kind = buffer[o].kind /\ c[o].len = buffer[o].len /\ c[o].id = buffer[o].id
    <3>1. \A o \in Offsets : buffer[o] \in Cell
      BY <1>2
    <3> QED
      BY <2>3, <3>1 DEF Cell
  <2> HIDE DEF T
  <2>6. Chain(T, q, ui32Write, c)
    <3>1. \A o \in Offsets : Lap(q, o) < Lap(q, ui32Write) =>
            c[o] = buffer[o] \/ (o \in T /\ c[o] = [buffer[o] EXCEPT !.dropped = TRUE])
      BY <2>3, <2>4
    <3> QED
      BY <1>2, <2>1, <2>2, <3>1, ChainBuffer
  <2>7. Free(q, ui32Write) \in Nat
    BY <1>2, <2>1, FreeNumbers
  <2>8. Spare'
    <3>1. Last(ui32Write) \in Offsets
      BY <1>2, Sizes DEF Last
    <3>2. c[Last(ui32Write)].kind = buffer[Last(ui32Write)].kind
      BY <2>5, <3>1
    <3>3. \/ Free(q, ui32Write) >= Reserved
          \/ Free(q, ui32Write) = 1 /\ c[Last(ui32Write)].kind = "writeFailed"
      <4>1. CASE Free(read, ui32Write) >= Reserved
        BY <1>6, <2>2, <2>7, <4>1 DEF Reserved
      <4>2. CASE ~(Free(read, ui32Write) >= Reserved)
        <5>1. Free(read, ui32Write) = 1 /\ buffer[Last(ui32Write)].kind = "writeFailed"
          BY <1>1, <4>2 DEF Spare
        <5> QED
          BY <2>2, <2>7, <3>2, <5>1 DEF Reserved
      <4> QED
        BY <4>1, <4>2
    <3> QED
      BY <1>1, <1>9, <3>3 DEF Spare
  <2>9. CellsFit'
    BY <1>1, <2>5 DEF CellsFit
  <2>10. Stops(T)'
    <3>1. limit = NoLimit
      BY <1>1, <1>5 DEF ReaderShape
    <3> QED
      BY <1>1, <1>5, <3>1 DEF Stops, reader
  <2>11. Follows(T)
    BY <1>1, <1>9, <2>6, <2>8, <2>9, <2>10 DEF Follows, Packets
  <2>12. \E n \in 0 .. Len(Unread) : Unread' = SubSeq(Unread, n + 1, Len(Unread))
    <3>1. ui32Write \in S /\ Lap(read, q) <= Lap(read, ui32Write)
      BY <1>2, <2>1 DEF Chain
    <3>2. \E n \in 0 .. Len(RunIn(buffer, read, ui32Write)) :
            RunIn(buffer, q, ui32Write) = SubSeq(RunIn(buffer, read, ui32Write), n + 1,
                                                 Len(RunIn(buffer, read, ui32Write)))
      BY <1>2, <2>1, <3>1, RunRest
    <3>3. RunIn(c, q, ui32Write) = RunIn(buffer, q, ui32Write)
      <4>1. ui32Write \in T /\ Lap(q, q) <= Lap(q, ui32Write)
        BY <2>2, <2>4 DEF Chain
      <4>2. \A o \in Offsets : Lap(q, o) < Lap(q, ui32Write) =>
              c[o].kind = buffer[o].kind /\ c[o].len = buffer[o].len /\ c[o].id = buffer[o].id
        BY <2>5
      <4>3. buffer \in [Offsets -> Cell] /\ c \in [Offsets -> Cell]
        BY <1>2, <2>1
      <4> QED
        BY <2>2, <2>4, <2>6, <4>1, <4>2, <4>3, RunBuffer
    <3>4. Unread' = RunIn(c, q, ui32Write)
      BY <1>1, <1>9, UnreadIsNext
    <3> QED
      BY <3>2, <3>3, <3>4, UnreadIs
  <2>13. loc'[w].read = ui32Read' /\ loc'[w].write = ui32Write'
    <3>1. loc \in [Writers -> Local]
      BY <1>1 DEF TypeOK
    <3> QED
      BY <1>1, <1>2, <1>9, <3>1 DEF Local
  <2>14. WriterShape'
    <3>1. Free(loc'[w].read, ui32Write') <= Free(ui32Read', ui32Write')
      BY <1>1, <1>9, <2>7, <2>13
    <3> QED
      BY <1>1, <1>2, <2>13, <3>1, ShapeOfOne
  <2>15. NewPacket'
    BY <1>1, <1>2, NewPacketOfOne
  <2> QED
    BY <1>1, <1>4, <1>5, <2>11, <2>12, <2>14, <2>15
<1> QED
  BY <1>8, <1>9 DEF DropOldest

(* No step of the reader changes what a writer knows.                      *)
LEMMA WritersBeside ==
  ASSUME WriterShape, NewPacket, UNCHANGED <<ui32Read, ui32Write, ui32Pending, buffer, wpc, loc, nextId>>
  PROVE  WriterShape' /\ NewPacket'
BY DEF WriterShape, NewPacket, Free, Sound, IsHeader

(* The reader's steps that move no offset and give it no data.             *)
LEMMA QuietReader ==
  ASSUME PacketsInv, WellOpened,
         \/ \E limited, reset \in BOOLEAN : OpenStream(limited, reset)
         \/ CloseStream \/ AcquireLimited \/ AcquireNothing \/ FindNothing
  PROVE  /\ \E T : Follows(T)
         /\ UNCHANGED <<Unread, Held>>
         /\ WriterShape' /\ NewPacket' /\ ReaderShape'
<1> PICK S : Packets(S)
  BY DEF PacketsInv
<1>1. /\ TypeOK /\ IInv /\ WriterShape /\ Spare /\ NewPacket /\ CellsFit /\ ReaderShape
      /\ Chain(S, ui32Read, ui32Write, buffer) /\ Stops(S)
  BY DEF PacketsInv, Packets
<1>2. /\ UNCHANGED <<eOpMode, ui32Read, ui32Write, ui32Pending, buffer, wpc, loc, nextId>>
      /\ rpc # "holding" /\ rpc' # "holding"
  <2>1. CASE \E limited, reset \in BOOLEAN : OpenStream(limited, reset)
    BY <2>1 DEF OpenStream, stream, writer
  <2>2. CASE CloseStream
    BY <2>2 DEF CloseStream, WellOpened, writer
  <2>3. CASE AcquireLimited
    BY <2>3 DEF AcquireLimited, writer, reader
  <2>4. CASE AcquireNothing
    BY <2>4 DEF AcquireNothing, writer
  <2>5. CASE FindNothing
    BY <2>5 DEF FindNothing, writer
  <2> QED
    BY <2>1, <2>2, <2>3, <2>4, <2>5
<1>3. /\ ReaderShape'
      /\ limit' \in {limit, NoLimit, ui32Write}
  <2>1. CASE \E limited, reset \in BOOLEAN : OpenStream(limited, reset)
    <3> PICK limited \in BOOLEAN, reset \in BOOLEAN : OpenStream(limited, reset)
      BY <2>1
    <3>1. /\ <<eOpMode, limited, reset>> \in Opens /\ eOpMode \in Modes
          /\ limit' = IF limited THEN ui32Write ELSE NoLimit
          /\ rpc' = IF reset THEN "reset" ELSE "idle"
      BY <1>1 DEF OpenStream, TypeOK
    <3>2. limited => eOpMode # "dropOldest" /\ ~reset
      BY <3>1 DEF WellOpened
    <3> QED
      BY <1>2, <3>1, <3>2 DEF ReaderShape
  <2>2. CASE CloseStream
    BY <1>2, <2>2 DEF CloseStream, ReaderShape
  <2>3. CASE AcquireLimited \/ AcquireNothing \/ FindNothing
    <3>1. UNCHANGED limit /\ rpc' # "reset"
      BY <2>3 DEF AcquireLimited, AcquireNothing, FindNothing, reader
    <3> QED
      BY <1>1, <1>2, <3>1 DEF ReaderShape
  <2> QED
    BY <2>1, <2>2, <2>3
<1>4. Stops(S)'
  <2>1. ui32Write \in S
    BY <1>1 DEF Chain
  <2> QED
    BY <1>1, <1>2, <1>3, <2>1 DEF Stops
<1>5. Follows(S)
  BY <1>1, <1>2, <1>4, QuietPackets
<1>6. UNCHANGED <<Unread, Held>>
  <2>1. Unread' = Unread
    BY <1>2, UnreadIs, UnreadIsNext
  <2>2. Held' = 0 /\ Held = 0
    BY <1>2 DEF Held
  <2> QED
    BY <2>1, <2>2
<1>7. WriterShape' /\ NewPacket'
  BY <1>1, <1>2, WritersBeside
<1> QED
  BY <1>3, <1>5, <1>6, <1>7

(* A reset leaves an empty stream.                                         *)
LEMMA ResetPackets ==
  ASSUME PacketsInv, TLStreamReset
  PROVE  /\ \E T : Follows(T)
         /\ Unread' = <<>> /\ Held' = 0 /\ Held = 0
         /\ WriterShape' /\ NewPacket' /\ ReaderShape'
<1>1. /\ TypeOK /\ WriterShape /\ CellsFit /\ ReaderShape
      /\ ui32Read' = 0 /\ ui32Write' = 0 /\ rpc = "reset" /\ rpc' = "idle"
      /\ ui32Pending = NothingPending
      /\ UNCHANGED <<eOpMode, ui32Pending, buffer, limit, wpc>>
  BY DEF PacketsInv, TLStreamReset, writer
<1>2. limit = NoLimit
  BY <1>1 DEF ReaderShape
<1>3. \A w \in Writers : wpc[w] = "idle"
  BY <1>1, AllIdle
<1>4. Chain({0}, 0, 0, buffer') /\ RunIn(buffer', 0, 0) = <<>>
  <2>1. 0 \in Offsets /\ buffer' \in [Offsets -> Cell]
    BY <1>1, Sizes DEF TypeOK
  <2> QED
    BY <2>1, ChainEmpty, RunSelf
<1>5. Follows({0})
  <2>1. Stops({0})'
    BY <1>1, <1>2 DEF Stops
  <2>2. Spare'
    BY <1>1, Sizes DEF Spare, Free, Reserved
  <2>3. CellsFit'
    BY <1>1 DEF CellsFit
  <2> QED
    BY <1>1, <1>4, <2>1, <2>2, <2>3 DEF Follows, Packets
<1>6. Unread' = <<>> /\ Held' = 0 /\ Held = 0
  <2>1. Unread' = <<>>
    BY <1>1, <1>4, UnreadIsNext
  <2>2. Held' = 0 /\ Held = 0
    BY <1>1 DEF Held
  <2> QED
    BY <2>1, <2>2
<1>7. WriterShape' /\ NewPacket' /\ ReaderShape'
  BY <1>1, <1>2, <1>3 DEF WriterShape, NewPacket, ReaderShape
<1> QED
  BY <1>5, <1>6, <1>7

(* What is acquired ends at a packet, and before the limit.                *)
LEMMA AcquirePackets ==
  ASSUME PacketsInv, TypeOK', IInv', AcquireData
  PROVE  /\ \E T : Follows(T)
         /\ Unread' = Unread /\ Held' \in 0 .. Len(Unread)
         /\ WriterShape' /\ NewPacket' /\ ReaderShape'
<1> PICK S : Packets(S)
  BY DEF PacketsInv
<1>1. /\ TypeOK /\ IInv /\ WriterShape /\ Spare /\ NewPacket /\ CellsFit /\ ReaderShape
      /\ Chain(S, ui32Read, ui32Write, buffer) /\ Stops(S)
      /\ ui32Read # ui32Write /\ ~AtLimit
      /\ offset' = ui32Read /\ rpc' = "holding"
      /\ len' = IF limit # NoLimit /\ ui32Read + Available >= limit THEN limit - ui32Read
                                                                    ELSE Available
      /\ UNCHANGED <<eOpMode, ui32Read, ui32Write, ui32Pending, buffer, limit, wpc, loc, nextId>>
  BY DEF PacketsInv, Packets, AcquireData, writer
<1>2. /\ ui32Read \in Nat /\ ui32Read < Size /\ ui32Write \in Nat /\ ui32Write < Size /\ Size \in Nat
      /\ limit # NoLimit => limit \in Nat /\ limit < Size /\ limit \in Offsets /\ ui32Read < limit
      /\ ui32Read \in Offsets /\ ui32Write \in Offsets /\ buffer \in [Offsets -> Cell]
      /\ Lap(ui32Read, ui32Write) \in Nat /\ Lap(ui32Read, ui32Write) < ui32Read + Size
      /\ Lap(ui32Read, ui32Read) = ui32Read
      /\ ui32Write \in S /\ ui32Read \in S /\ (ui32Write < ui32Read => 0 \in S)
      /\ \A s \in S : Lap(ui32Read, s) <= Lap(ui32Read, ui32Write)
  BY <1>1, Sizes, LapNumbers DEF TypeOK, AtLimit, Chain
<1> DEFINE end == ui32Read + Available
           stop == ui32Read + len'
<1>3. /\ Available \in Nat /\ end = IF ui32Read > ui32Write THEN Size ELSE ui32Write
      /\ Wrapped(end) \in S /\ end <= Lap(ui32Read, ui32Write) /\ end <= Size
  BY <1>2 DEF Available, Wrapped, Lap
<1>4. /\ Wrapped(stop) \in S /\ stop <= Lap(ui32Read, ui32Write) /\ stop <= Size
      /\ limit # NoLimit => ui32Read < limit /\ stop <= limit
  <2>1. CASE limit # NoLimit /\ end >= limit
    <3>1. stop = limit /\ limit \in S /\ limit # Size
      BY <1>1, <1>2, <2>1 DEF Stops
    <3>2. Lap(ui32Read, limit) = limit /\ Lap(ui32Read, limit) <= Lap(ui32Read, ui32Write)
      BY <1>2, <2>1, <3>1 DEF Lap
    <3> QED
      BY <1>2, <2>1, <3>1, <3>2 DEF Wrapped
  <2>2. CASE ~(limit # NoLimit /\ end >= limit)
    <3>1. stop = end
      BY <1>1, <2>2
    <3> QED
      BY <1>2, <1>3, <2>2, <3>1
  <2> QED
    BY <2>1, <2>2
<1>5. Stops(S)'
  <2>1. limit # NoLimit /\ ui32Read < limit => limit \in S
    BY <1>1 DEF Stops
  <2>2. offset' + len' = stop
    BY <1>1
  <2> HIDE DEF stop
  <2> QED
    BY <1>1, <1>4, <2>1, <2>2 DEF Stops, Lap
<1>6. Follows(S)
  BY <1>1, <1>5, QuietPackets
<1>7. Unread' = Unread
  BY <1>1, UnreadIs, UnreadIsNext
<1>8. Held' \in 0 .. Len(Unread)
  <2>1. len' \in Nat /\ stop \in Nat /\ ui32Read <= stop
    <3>1. len' \in Nat
      BY DEF TypeOK
    <3>2. ui32Read \in Nat
      BY <1>2
    <3>3. PICK n : n = len'
      OBVIOUS
    <3>4. n \in Nat
      BY <3>1, <3>3
    <3>5. stop = ui32Read + n
      BY <3>3
    <3> HIDE DEF stop
    <3>6. stop \in Nat /\ ui32Read <= stop
      BY <3>2, <3>4, <3>5
    <3> QED
      BY <3>1, <3>6
  <2> PICK e : e = (offset' + len') % Size
    OBVIOUS
  <2>2. e \in S /\ Lap(ui32Read, ui32Read) <= Lap(ui32Read, e)
    <3>1. Packets(S)' /\ (rpc = "holding")'
      BY <1>1, <1>6 DEF Follows
    <3>2. Wrapped(stop) = stop % Size /\ Lap(ui32Read, Wrapped(stop)) = stop
      <4>1. stop \in Nat /\ ui32Read <= stop /\ Lap(ui32Read, ui32Write) < ui32Read + Size
        BY <1>2, <2>1
      <4> HIDE DEF stop
      <4> QED
        BY <1>2, <1>4, <4>1, WrappedNumbers
    <3>3. stop \in Nat /\ ui32Read <= stop /\ Lap(ui32Read, ui32Read) = ui32Read
      BY <1>2, <2>1
    <3>4. e = stop % Size
      BY <1>1
    <3> HIDE DEF stop
    <3> QED
      BY <1>4, <3>2, <3>3, <3>4
  <2>3. Len(RunIn(buffer, ui32Read, e)) <= Len(RunIn(buffer, ui32Read, ui32Write))
    <3>1. ASSUME NEW q \in S, Lap(ui32Read, q) <= Lap(ui32Read, e)
          PROVE  Len(RunIn(buffer, ui32Read, e)) <= Len(RunIn(buffer, ui32Read, ui32Write))
      <4>1. Chain(S, ui32Read, ui32Write, buffer) /\ buffer \in [Offsets -> Cell] /\ e \in S
        BY <1>1, <1>2, <2>2
      <4> QED
        BY <3>1, <4>1, RunRest
    <3> QED
      BY <1>2, <2>2, <3>1
  <2>4. RunIn(buffer, ui32Read, e) \in Seq(Ids)
    BY <1>1, <1>2, <2>2, RunIds
  <2>6. Held' = Len(RunIn(buffer, ui32Read, e))
    BY <1>1, HeldIsNext
  <2>7. Len(RunIn(buffer, ui32Read, e)) \in Nat /\ Len(Unread) \in Nat
    BY <1>1, <2>4, UnreadIds, LenProperties DEF Packets
  <2> QED
    BY <2>3, <2>6, <2>7, UnreadIs
<1>9. ReaderShape'
  BY <1>1 DEF ReaderShape
<1> QED
  BY <1>1, <1>6, <1>7, <1>8, <1>9, WritersBeside

(* A part is released: what is left begins at a packet, and no more goes   *)
(* than was held.                                                          *)
LEMMA ReleasePackets ==
  ASSUME PacketsInv, NEW n \in Offsets, ReleaseData(n)
  PROVE  /\ \E T : Follows(T)
         /\ \E k \in 0 .. Held : Unread' = SubSeq(Unread, k + 1, Len(Unread))
         /\ Held' = 0
         /\ WriterShape' /\ NewPacket' /\ ReaderShape'
<1> PICK S : Packets(S)
  BY DEF PacketsInv
<1> DEFINE pos == (ui32Read + n) % Size
<1>1. /\ TypeOK /\ IInv /\ WriterShape /\ Spare /\ NewPacket /\ CellsFit /\ ReaderShape
      /\ Chain(S, ui32Read, ui32Write, buffer) /\ Stops(S)
      /\ rpc = "holding" /\ rpc' = "idle" /\ n \in Parts
      /\ UNCHANGED <<eOpMode, ui32Write, ui32Pending, buffer, limit, wpc, loc, nextId>>
  BY DEF PacketsInv, Packets, ReleaseData, writer
<1>2. /\ ui32Read \in Nat /\ ui32Read < Size /\ ui32Write \in Offsets /\ ui32Read \in Offsets
      /\ Size \in Nat /\ len \in Nat /\ buffer \in [Offsets -> Cell]
      /\ limit # NoLimit => limit \in Nat /\ limit < Size /\ limit \in Offsets
  BY <1>1, Sizes DEF TypeOK
<1> PICK e : e = (offset + len) % Size
  OBVIOUS
<1>3. /\ offset = ui32Read /\ e \in S /\ Lap(ui32Read, e) = offset + len
      /\ offset + len <= Lap(ui32Read, ui32Write)
  BY <1>1, HeldEnd
<1>4. n \in 0 .. len /\ Wrapped(ui32Read + n) \in S
  BY <1>1, <1>2, <1>3, PartsAtPackets
<1>5. /\ offset + len <= Size
      /\ limit # NoLimit => ui32Read < limit /\ ui32Read + len <= limit /\ limit \in S
  BY <1>1, <1>3 DEF Stops
<1>6. Lap(ui32Read, ui32Write) < ui32Read + Size /\ Lap(ui32Read, ui32Write) \in Nat
  BY <1>2, LapNumbers
<1>7. pos \in S /\ Lap(ui32Read, pos) = ui32Read + n /\ Lap(ui32Read, pos) <= Lap(ui32Read, e)
  <2>1. /\ ui32Read + n \in Nat /\ ui32Read <= ui32Read + n /\ ui32Read + n <= Size
        /\ ui32Read + n < ui32Read + Size /\ ui32Read + n <= offset + len
    BY <1>2, <1>3, <1>4, <1>5, <1>6
  <2>2. Wrapped(ui32Read + n) = pos /\ Lap(ui32Read, Wrapped(ui32Read + n)) = ui32Read + n
    BY <1>2, <2>1, WrappedNumbers
  <2> QED
    BY <1>3, <1>4, <2>1, <2>2
<1>8. ReaderShape'
  BY <1>1 DEF ReaderShape
<1>9. Held' = 0 /\ Held = Len(RunIn(buffer, ui32Read, e))
  <2>1. Held' = 0
    BY <1>1 DEF Held
  <2>2. Held = Len(RunIn(buffer, offset, (offset + len) % Size))
    BY <1>1, HeldIs
  <2> QED
    BY <1>3, <2>1, <2>2
<1>10. Unread \in Seq(Ids) /\ Len(Unread) \in Nat /\ Held \in Nat
  <2>1. Lap(ui32Read, ui32Read) <= Lap(ui32Read, e) /\ ui32Read \in S
    BY <1>1, <1>2, <1>3, LapNumbers DEF Chain
  <2>2. RunIn(buffer, ui32Read, e) \in Seq(Ids)
    BY <1>1, <1>2, <1>3, <2>1, RunIds
  <2> QED
    BY <1>1, <1>9, <2>2, UnreadIds, LenProperties DEF Packets
<1>11. CASE UNCHANGED ui32Read
  <2>1. Stops(S)'
    BY <1>1, <1>11 DEF Stops
  <2>2. Follows(S)
    BY <1>1, <1>11, <2>1, QuietPackets DEF Packets
  <2>3. Unread' = Unread
    BY <1>1, <1>11, UnreadIs, UnreadIsNext
  <2>4. Unread = SubSeq(Unread, 0 + 1, Len(Unread)) /\ 0 \in 0 .. Held
    BY <1>10, SubSeqFull
  <2>5. WriterShape' /\ NewPacket'
    BY <1>1, <1>11, WritersBeside
  <2> QED
    BY <1>8, <1>9, <2>2, <2>3, <2>4, <2>5
<1>12. CASE ui32Read' = pos
  <2> PICK q : q = pos
    OBVIOUS
  <2> PICK read : read = ui32Read
    OBVIOUS
  <2> DEFINE T == Rest(S, read, q)
  <2> HIDE DEF pos
  <2>1. Chain(T, q, ui32Write, buffer) /\ Free(read, ui32Write) <= Free(q, ui32Write)
    BY <1>1, <1>2, <1>7, ChainAdvance
  <2>2. Free(read, ui32Write) \in Nat /\ Free(q, ui32Write) \in Nat /\ q \in Offsets
    BY <1>1, <1>2, <1>7, FreeNumbers, ChainNumbers
  <2>3. Stops(T)'
    <3>1. ASSUME limit # NoLimit, q < limit PROVE limit \in T
      <4>1. Lap(read, limit) = limit
        BY <1>2, <1>5, <3>1 DEF Lap
      <4>2. Lap(read, q) <= limit
        BY <1>2, <1>3, <1>4, <1>5, <1>7, <3>1
      <4> QED
        BY <1>5, <3>1, <4>1, <4>2 DEF Rest
    <3> HIDE DEF T
    <3> QED
      BY <1>1, <1>12, <3>1 DEF Stops
  <2> HIDE DEF T
  <2>4. Spare'
    <3>1. \/ Free(q, ui32Write) >= Reserved
          \/ Free(q, ui32Write) = 1 /\ buffer[Last(ui32Write)].kind = "writeFailed"
      BY <1>1, <2>1, <2>2 DEF Spare, Reserved
    <3> QED
      BY <1>1, <1>12, <3>1 DEF Spare
  <2>5. Follows(T)
    BY <1>1, <1>12, <2>1, <2>3, <2>4 DEF Follows, Packets, CellsFit
  <2>6. WriterShape' /\ NewPacket'
    <3>1. \A w \in Writers : wpc[w] # "drop"
      BY <1>1, NoDropBesideReader
    <3>2. \A w \in Writers : /\ loc[w].read \in Offsets /\ loc[w].write \in Offsets /\ loc[w].size \in Nat
                             /\ Free(loc[w].read, ui32Write) \in Nat
      BY <1>1, <1>2, LocalType, FreeNumbers
    <3>3. ASSUME NEW w \in Writers, wpc[w] \in {"write", "block", "lock", "drop", "refuse"}
          PROVE  loc[w].write = ui32Write /\ Free(loc[w].read, ui32Write) <= Free(q, ui32Write)
      <4>1. loc[w].write = ui32Write /\ Free(loc[w].read, ui32Write) <= Free(read, ui32Write)
        BY <1>1, <3>3 DEF WriterShape
      <4> QED
        BY <2>1, <2>2, <3>2, <4>1
    <3>4. WriterShape'
      BY <1>1, <1>12, <3>1, <3>3 DEF WriterShape
    <3>5. ASSUME NEW w \in Writers, wpc[w] \in {"fill", "commit"}
          PROVE  /\ loc[w].size + 1 + Reserved <= Free(q, ui32Write)
                 /\ ui32Write + loc[w].size + 1 <= Size
                 /\ buffer[ui32Write] = Header("packet", loc[w].size, nextId)
                 /\ wpc[w] = "commit" => Sound(buffer, ui32Write)
      <4>1. /\ loc[w].size + 1 + Reserved <= Free(read, ui32Write)
            /\ ui32Write + loc[w].size + 1 <= Size
            /\ buffer[ui32Write] = Header("packet", loc[w].size, nextId)
            /\ wpc[w] = "commit" => Sound(buffer, ui32Write)
        BY <1>1, <3>5 DEF NewPacket
      <4> QED
        BY <2>1, <2>2, <3>2, <4>1 DEF Reserved
    <3>6. NewPacket'
      BY <1>1, <1>12, <3>5 DEF NewPacket
    <3> QED
      BY <3>4, <3>6
  <2>7. \E k \in 0 .. Held : Unread' = SubSeq(Unread, k + 1, Len(Unread))
    <3>1. \E k \in 0 .. Len(RunIn(buffer, read, e)) :
            /\ Len(RunIn(buffer, read, e)) <= Len(RunIn(buffer, read, ui32Write))
            /\ RunIn(buffer, q, ui32Write) = SubSeq(RunIn(buffer, read, ui32Write), k + 1,
                                                    Len(RunIn(buffer, read, ui32Write)))
      <4>1. /\ Chain(S, read, ui32Write, buffer) /\ buffer \in [Offsets -> Cell]
            /\ e \in S /\ q \in S /\ Lap(read, q) <= Lap(read, e)
        BY <1>1, <1>2, <1>3, <1>7
      <4> QED
        BY <4>1, RunRest
    <3>2. Unread' = RunIn(buffer, q, ui32Write)
      BY <1>1, <1>12, UnreadIsNext
    <3> QED
      BY <1>9, <3>1, <3>2, UnreadIs
  <2> QED
    BY <1>8, <1>9, <2>5, <2>6, <2>7
<1>13. UNCHANGED ui32Read \/ ui32Read' = pos
  BY DEF ReleaseData
<1> QED
  BY <1>11, <1>12, <1>13

-----------------------------------------------------------------------------
(* Every step of a writer.                                                 *)
LEMMA WriterPackets ==
  ASSUME PacketsInv, ~NoWrap, NEW w \in Writers,
         WriterStep(w) \/ \E n \in DataSizes : Reserve(w, n)
  PROVE  /\ TypeOK' /\ \E T : Follows(T)
         /\ WriterShape' /\ NewPacket' /\ ReaderShape'
<1>1. /\ TypeOK' /\ \E T : Follows(T)
      /\ WriterShape' /\ NewPacket'
  <2>1. CASE \/ \E n \in DataSizes : Reserve(w, n)
             \/ LookAgain(w) \/ LockRead(w)
    BY <2>1, QuietWriter
  <2>2. CASE DropOldest(w)
    BY <2>2, DropPackets
  <2>3. CASE WriteHeader(w)
    BY <2>3, WriteHeaderPackets, WriteHeaderTypes DEF PacketsInv
  <2>4. CASE Refuse(w)
    BY <2>4, RefusePackets, RefuseTypes DEF PacketsInv
  <2>5. CASE Fill(w)
    BY <2>5, FillPackets, FillTypes DEF PacketsInv
  <2>6. CASE TLStreamCommit(w)
    BY <2>6, CommitPackets, CommitTypes DEF PacketsInv
  <2> QED
    BY <2>1, <2>2, <2>3, <2>4, <2>5, <2>6 DEF WriterStep
<1>2. UNCHANGED <<eOpMode, rpc, limit>>
  BY DEF WriterStep, Reserve, LookAgain, LockRead, DropOldest, WriteHeader, Refuse, Fill,
     TLStreamCommit, stream, reader
<1>3. ReaderShape'
  BY <1>2 DEF PacketsInv, ReaderShape
<1> QED
  BY <1>1, <1>3

(* The invariant: at first the stream is empty, and every step keeps it.   *)
LEMMA InitPackets == Init => PacketsInv
<1> SUFFICES ASSUME Init PROVE PacketsInv
  OBVIOUS
<1>1. TypeOK
  <2>1. Garbage \in Cell
    BY Sizes, IdZero DEF Garbage, Cell
  <2>2. NoLocal \in Local
    BY Sizes DEF NoLocal, Local
  <2> QED
    BY <2>1, <2>2, Sizes, IdZero DEF Init, TypeOK
<1>2. IInv
  BY InitIInv
<1>3. Chain({0}, 0, 0, buffer)
  BY Sizes, ChainEmpty
<1>4. Packets({0})
  BY <1>3 DEF Init, Packets, Stops
<1>5. CellsFit
  BY Sizes DEF Init, CellsFit, Garbage
<1>6. Spare
  BY Sizes DEF Init, Spare, Free, Reserved
<1> QED
  BY <1>1, <1>2, <1>4, <1>5, <1>6 DEF PacketsInv, Init, ReaderShape, WriterShape, NewPacket

(* Every step keeps it.                                                    *)
LEMMA StepPackets ==
  ASSUME WellOpened, PacketsInv, [Next]_vars
  PROVE  PacketsInv'
<1>1. IInv'
  BY StepIInv DEF PacketsInv
<1>2. SUFFICES /\ TypeOK' /\ \E T : Follows(T)
               /\ WriterShape' /\ NewPacket' /\ ReaderShape'
  BY <1>1 DEF PacketsInv, Follows
<1>3. CASE \E w \in Writers : WriterStep(w) \/ \E n \in DataSizes : Reserve(w, n)
  BY <1>3, WriterPackets DEF WellOpened
<1>4. CASE \/ \E limited, reset \in BOOLEAN : OpenStream(limited, reset)
           \/ TLStreamReset \/ CloseStream
           \/ AcquireData \/ AcquireLimited \/ AcquireNothing \/ FindNothing
           \/ \E n \in Offsets : ReleaseData(n)
  <2>1. TypeOK'
    BY <1>4, ReaderTypes DEF PacketsInv
  <2>2. CASE \/ \E limited, reset \in BOOLEAN : OpenStream(limited, reset)
             \/ CloseStream \/ AcquireLimited \/ AcquireNothing \/ FindNothing
    BY <2>1, <2>2, QuietReader
  <2>3. CASE TLStreamReset
    BY <2>1, <2>3, ResetPackets
  <2>4. CASE AcquireData
    BY <1>1, <2>1, <2>4, AcquirePackets
  <2>5. CASE \E n \in Offsets : ReleaseData(n)
    BY <2>1, <2>5, ReleasePackets
  <2> QED
    BY <1>4, <2>2, <2>3, <2>4, <2>5
<1>5. CASE UNCHANGED vars
  <2>1. TypeOK'
    BY <1>5 DEF PacketsInv, TypeOK, vars, stream, writer, reader
  <2>2. UNCHANGED <<ui32Read, ui32Write, ui32Pending, buffer, wpc, loc, nextId, eOpMode, rpc, offset,
                   len, limit>>
    BY <1>5 DEF vars, stream, writer, reader
  <2>3. PICK S : Packets(S)
    BY DEF PacketsInv
  <2>4. Stops(S)'
    BY <2>2, <2>3 DEF Packets, Stops, Lap
  <2>5. Follows(S)
    BY <2>2, <2>3, <2>4, QuietPackets DEF PacketsInv
  <2>6. WriterShape' /\ NewPacket' /\ ReaderShape'
    BY <2>2, WritersBeside DEF PacketsInv, ReaderShape
  <2> QED
    BY <2>1, <2>5, <2>6
<1> QED
  BY <1>3, <1>4, <1>5 DEF Next

(* So it holds always.                                                     *)
LEMMA AlwaysPackets ==
  ASSUME WellOpened
  PROVE  Spec => []PacketsInv
<1>1. PacketsInv /\ [Next]_vars => PacketsInv'
  BY StepPackets
<1> QED
  BY <1>1, InitPackets, PTL DEF Spec

(* TypeOK: every variable keeps to its range, for any size of the buffer   *)
(* and any packets; in particular the offsets wrap, and dropping ends.     *)
THEOREM TypeCorrect ==
  ASSUME WellOpened
  PROVE  Spec => []TypeOK
BY AlwaysPackets, PTL DEF PacketsInv

(* UnreadWhole: what can be read is a run of whole packets that ends       *)
(* exactly at the write offset.                                            *)
THEOREM OnlyWholePackets ==
  ASSUME WellOpened
  PROVE  Spec => []UnreadWhole
<1>1. PacketsInv => UnreadWhole
  <2> SUFFICES ASSUME PacketsInv PROVE UnreadWhole
    OBVIOUS
  <2>1. Unread \in Seq(Ids)
    BY UnreadIds DEF PacketsInv
  <2>2. Broken \notin Ids
    BY DEF Broken, Ids
  <2>3. \A i \in DOMAIN Unread : Unread[i] \in Ids
    BY <2>1, LenProperties, ElementOfSeq
  <2> QED
    BY <2>2, <2>3 DEF UnreadWhole
<1> QED
  BY <1>1, AlwaysPackets, PTL

(* A writer leaves alone what the reader holds.                            *)
LEMMA HeldKept ==
  ASSUME WellOpened, PacketsInv, Next, rpc = "holding", rpc' = "holding"
  PROVE  \A o \in offset .. offset + len - 1 : buffer'[o] = buffer[o]
<1> PICK S : Packets(S)
  BY DEF PacketsInv
<1>1. /\ TypeOK /\ IInv /\ offset + len <= Size /\ offset = ui32Read
      /\ offset + len <= Lap(ui32Read, ui32Write)
      /\ ui32Read \in Offsets /\ ui32Write \in Offsets /\ offset \in Nat /\ len \in Nat
      /\ Lap(ui32Read, ui32Write) \in Nat
  BY HeldEnd, LapNumbers, Sizes DEF PacketsInv, Packets, Stops, TypeOK
<1>2. KeepsUnread
  <2>1. PICK w \in Writers : WriterStep(w) \/ \E n \in DataSizes : Reserve(w, n)
    BY DEF Next, OpenStream, TLStreamReset, CloseStream, AcquireData, AcquireLimited,
       AcquireNothing, FindNothing, ReleaseData
  <2>2. ~DropOldest(w)
    BY <1>1, NoDropBesideReader DEF DropOldest
  <2> QED
    BY <2>1, <2>2, QuietWriter, WriteHeaderPackets, RefusePackets, FillPackets, CommitPackets
       DEF WriterStep, WellOpened
<1>3. ASSUME NEW o \in offset .. offset + len - 1 PROVE buffer'[o] = buffer[o]
  <2>1. o \in Offsets /\ o \in Nat /\ ui32Read <= o /\ o < offset + len
    BY <1>1, Sizes
  <2>2. Lap(ui32Read, o) = o
    BY <1>1, <2>1, LapNumbers
  <2>3. o \in UnreadUnits
    BY <1>1, <2>1, <2>2 DEF UnreadUnits
  <2> QED
    BY <1>2, <2>3 DEF KeepsUnread
<1> QED
  BY <1>3

(* HeldUntouched: between an acquire and its release a client reads the    *)
(* stream's own buffer without a lock, and no reserve, padding, refusal or *)
(* data of any writer touches a unit it was given.                         *)
THEOREM HeldIsSafe ==
  ASSUME WellOpened
  PROVE  Spec => HeldUntouched
<1> DEFINE Safe == rpc = "holding" /\ rpc' = "holding" =>
                     \A o \in offset .. offset + len - 1 : buffer'[o] = buffer[o]
<1>1. PacketsInv /\ [Next]_vars => [Safe]_vars
  BY HeldKept
<1> QED
  BY <1>1, AlwaysPackets, PTL DEF Spec, HeldUntouched

(* The promise to writers and the reader: at first nothing is queued.      *)
LEMMA PromiseInit == Init => Promise!Init
<1> SUFFICES ASSUME Init PROVE Promise!Init
  OBVIOUS
<1>1. Unread = <<>>
  <2>1. 0 \in Offsets /\ buffer \in [Offsets -> Cell] /\ ui32Read = 0 /\ ui32Write = 0
    BY InitPackets, Sizes DEF PacketsInv, TypeOK, Init
  <2> QED
    BY <2>1, RunSelf, UnreadIs
<1>2. Held = 0 /\ eOpMode \in Modes
  BY DEF Init, Held
<1> QED
  BY <1>1, <1>2, StreamAssumption DEF Promise!Init

(* Every step is a step of the promise, or changes nothing in it.          *)
LEMMA PromiseStep ==
  ASSUME WellOpened, PacketsInv, TypeOK', IInv', [Next]_vars
  PROVE  [Promise!Next]_<<eOpMode, Unread, Held>>
<1> USE DEF Promise!Next, Promise!From
<1>1. UNCHANGED eOpMode
  BY DEF Next, WriterStep, Reserve, LookAgain, LockRead, DropOldest, WriteHeader, Refuse, Fill,
     TLStreamCommit, OpenStream, TLStreamReset, CloseStream, AcquireData, AcquireLimited,
     AcquireNothing, FindNothing, ReleaseData, stream, vars
<1>2. ASSUME NEW w \in Writers, WriterStep(w) \/ \E n \in DataSizes : Reserve(w, n)
      PROVE  [Promise!Next]_<<eOpMode, Unread, Held>>
  <2>1. CASE \/ \E n \in DataSizes : Reserve(w, n)
             \/ LookAgain(w) \/ LockRead(w)
    BY <1>1, <2>1, QuietWriter
  <2>2. CASE DropOldest(w)
    <3>1. /\ eOpMode = "dropOldest" /\ rpc # "holding" /\ UNCHANGED reader
          /\ \E n \in 0 .. Len(Unread) : Unread' = SubSeq(Unread, n + 1, Len(Unread))
      BY <2>2, DropPackets
    <3>2. Held = 0 /\ Held' = 0
      BY <3>1 DEF Held, reader
    <3>3. Promise!Drop
      BY <3>1, <3>2 DEF Promise!Drop
    <3> QED
      BY <1>1, <3>3
  <2>3. CASE WriteHeader(w) \/ Refuse(w) \/ Fill(w)
    BY <1>1, <2>3, WriteHeaderPackets, RefusePackets, FillPackets DEF WellOpened
  <2>4. CASE TLStreamCommit(w)
    <3>1. Held' = Held /\ Unread' = Append(Unread, nextId) /\ nextId \in Ids
      BY <2>4, CommitPackets DEF PacketsInv, TypeOK
    <3>2. Promise!Commit(nextId)
      BY <3>1 DEF Promise!Commit
    <3> QED
      BY <1>1, <3>1, <3>2
  <2> QED
    BY <1>2, <2>1, <2>2, <2>3, <2>4 DEF WriterStep
<1>3. CASE \/ \E limited, reset \in BOOLEAN : OpenStream(limited, reset)
           \/ CloseStream \/ AcquireLimited \/ AcquireNothing \/ FindNothing
  BY <1>1, <1>3, QuietReader
<1>4. CASE TLStreamReset
  <2>1. Unread' = <<>> /\ Held' = 0 /\ Held = 0
    BY <1>4, ResetPackets
  <2>2. Promise!Reset
    BY <2>1 DEF Promise!Reset
  <2> QED
    BY <1>1, <2>2
<1>5. CASE AcquireData
  <2>1. Unread' = Unread /\ Held' \in 0 .. Len(Unread)
    BY <1>5, AcquirePackets
  <2>2. Promise!Acquire
    BY <2>1 DEF Promise!Acquire
  <2> QED
    BY <1>1, <2>2
<1>6. CASE \E n \in Offsets : ReleaseData(n)
  <2>1. Held' = 0 /\ \E k \in 0 .. Held : Unread' = SubSeq(Unread, k + 1, Len(Unread))
    BY <1>6, ReleasePackets
  <2>2. Promise!Release
    BY <2>1 DEF Promise!Release
  <2> QED
    BY <1>1, <2>2
<1>7. CASE UNCHANGED vars
  <2>1. UNCHANGED <<Unread, Held>>
    BY <1>7, UnreadIs, UnreadIsNext, HeldIs, HeldIsNext DEF vars, stream, reader
  <2> QED
    BY <1>1, <2>1
<1> QED
  BY <1>2, <1>3, <1>4, <1>5, <1>6, <1>7 DEF Next

(* Delivery: whatever is padded, refused, dropped, reset, acquired in runs *)
(* and released in part, the packets a client reads are those committed,   *)
(* in the order of the commits, each at most once, and none that is held   *)
(* is dropped: the stream implements PacketStream.                         *)
THEOREM ImplementsStream ==
  ASSUME WellOpened
  PROVE  Spec => Delivery
<1>1. PacketsInv /\ PacketsInv' /\ [Next]_vars => [Promise!Next]_<<eOpMode, Unread, Held>>
  BY PromiseStep DEF PacketsInv
<1> QED
  BY <1>1, PromiseInit, AlwaysPackets, PTL DEF Spec, Delivery, Promise!Spec
=============================================================================
