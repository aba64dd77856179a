------------------------------ MODULE ClientCCB ------------------------------
(***************************************************************************)
(* The client command circular buffer of one firmware context              *)
(* (server/devices/rgxccb.c, built with PVRSRV_ENABLE_CCCB_GROW): a ring   *)
(* of variable-length commands that the host writes and the firmware       *)
(* reads.  The host moves the write offset, the firmware moves the read    *)
(* offset at any time, and the host reads it afresh at every use.  A       *)
(* command never straddles the end of the ring: a PADDING command fills    *)
(* the rest and the command goes to offset 0.  A ring that is full too     *)
(* often doubles its size while it is in use.                              *)
(*                                                                         *)
(* Offsets and sizes are counted in the smallest unit a command is         *)
(* aligned to.  Contents: the first unit of a command is its header, the   *)
(* others carry the identity of the command they belong to.  Units the     *)
(* firmware has consumed are set to Stale, so that reading one again is    *)
(* visible; the code leaves the old bytes there and nobody reads them.     *)
(***************************************************************************)
EXTENDS Integers, Sequences

CONSTANTS
  Sizes,             \* sizes the ring can take: powers of two
  InitSize,          \* ui32AllocSize: its size at creation
  VirtualAllocSize,  \* ui32VirtualAllocSize: 0 if the ring cannot grow
  Pad,               \* PADDING_COMMAND_SIZE: a command header
  CmdSizes,          \* sizes callers ask for
  NumIds,            \* identities are given out modulo NumIds
  ByteCountMod,      \* 2^32: ui32ByteCount wraps
  MaxKicks           \* kicks the kernel CCB holds for this context

(* The ring sizes are powers of two, so that "& (Size - 1)" is "% Size";   *)
(* doubling a ring below its virtual size stays within that size.          *)
ASSUME SizesAssumption ==
  /\ InitSize \in Sizes
  /\ VirtualAllocSize \in Nat
  /\ \A s \in Sizes : /\ s \in Nat
                      /\ s > Pad
                      /\ \E k \in 1 .. 18 : s = 2 ^ k
                      /\ s < VirtualAllocSize => s + s \in Sizes

ASSUME CommandsAssumption ==
  /\ Pad \in Nat \ {0}
  /\ CmdSizes \subseteq Nat
  /\ \A n \in CmdSizes : n >= Pad    \* a command has at least a header
  /\ NumIds \in Nat \ {0}
  /\ ByteCountMod \in Nat \ {0}
  /\ MaxKicks \in Nat \ {0}

VARIABLES
  \* RGX_CLIENT_CCB, host memory
  HostWriteOffset, Size, ByteCount, growLock,
  \* RGXFWIF_CCCB_CTL and the ring itself, shared with the firmware
  ReadOffset, mem,
  \* the kicks on their way to the firmware, and what it learnt from them
  kicks, fwWriteOffset, fwWrapMask,
  \* the thread that submits: its place in the code and its locals
  pc, cmdSize, retryCount, buf, checksSpace, cmdOffset,
  \* history: commands released and not executed, how many of them a kick
  \* has handed over, the next identity, the command executed last
  pending, handed, nextId, out

hostVars == <<HostWriteOffset, Size, ByteCount>>
fwVars   == <<ReadOffset, kicks, fwWriteOffset, fwWrapMask>>
callVars == <<cmdSize, retryCount, buf, checksSpace>>
history  == <<pending, handed, nextId, out>>
vars == <<HostWriteOffset, Size, ByteCount, growLock, ReadOffset, mem, kicks,
          fwWriteOffset, fwWrapMask, pc, cmdSize, retryCount, buf, checksSpace,
          cmdOffset, pending, handed, nextId, out>>

Ids == 0 .. NumIds - 1
Offsets == UNION {0 .. s - 1 : s \in Sizes}
Cell == [kind : {"stale", "command", "padding", "body"},
         id   : Ids, size : Nat]

Stale         == [kind |-> "stale", id |-> 0, size |-> 0]
Header(id, n) == [kind |-> "command", id |-> id, size |-> n]
Body(id)      == [kind |-> "body", id |-> id, size |-> 0]
Padding(n)    == [kind |-> "padding", id |-> 0, size |-> n]

(* GET_CCB_SPACE: one unit less than the ring, so full differs from empty. *)
CCBSpace(woff, roff, size) == ((roff - woff) + (size - 1)) % size

(* UPDATE_CCB_OFFSET; the mutant forgets the mask. *)
CCBOffset_Unmasked(off, n, size) == off + n
CCBOffset(off, n, size) == (off + n) % size

(* The command ends, with room for a PADDING header, before the ring does; *)
(* the mutant forgets the header.                                          *)
Fits_NoHeader == HostWriteOffset + cmdSize <= Size
Fits == HostWriteOffset + cmdSize + Pad <= Size
Remain == Size - HostWriteOffset
FreeSpace == CCBSpace(HostWriteOffset, ReadOffset, Size)
Growable == VirtualAllocSize > 0

(* "Don't allow all the space to be used" *)
Enough(n) == FreeSpace > n

(* What RGXCheckSpaceCCB asks for: the command, and the rest of the ring   *)
(* when that has to be padded; the mutant always counts it.                *)
Needed_Padded == Remain + cmdSize
Needed == IF Fits THEN cmdSize ELSE Remain + cmdSize

(* The test that lets a command follow a PADDING command to offset 0: a    *)
(* ring that can still grow only wraps while it is more than half empty.   *)
(* The mutant counts the command but not the units it pads.                *)
CanWrap_CommandOnly ==
  /\ Growable => FreeSpace > Size \div 2 \/ Size = VirtualAllocSize
  /\ Enough(cmdSize)
CanWrap ==
  /\ Growable => FreeSpace > Size \div 2 \/ Size = VirtualAllocSize
  /\ Enough(Remain + cmdSize)

(* The ring may only grow while every unread command lies before the write *)
(* offset; the mutant grows regardless.                                    *)
NothingBeyond_Unchecked == TRUE
NothingBeyond == HostWriteOffset >= ReadOffset

(* Turns of the loop in RGXAcquireCCB; the mutant allows no second one.    *)
Retries_One == 1
Retries == 2

(* Where PVRSRVRGXKickTA3DKM places its command, from the write offset     *)
(* before and after the release; the mutant does not look for a wrap.      *)
CommandStart_NoWrap(before, after) == before
CommandStart(before, after) == IF before < after THEN before ELSE 0

(* What a kick tells the firmware; the mutant keeps the mask of creation.  *)
KickData_OldMask == [CWoffUpdate |-> HostWriteOffset, CWrapMaskUpdate |-> InitSize - 1]
KickData == [CWoffUpdate |-> HostWriteOffset, CWrapMaskUpdate |-> Size - 1]

-----------------------------------------------------------------------------
Init ==
  /\ HostWriteOffset = 0
  /\ Size = InitSize
  /\ ByteCount = 0
  /\ growLock = "free"
  /\ ReadOffset = 0
  /\ mem = [o \in Offsets |-> Stale]
  /\ kicks = <<>>
  /\ fwWriteOffset = 0
  /\ fwWrapMask = InitSize - 1
  /\ pc = "idle"
  /\ cmdSize = 0
  /\ retryCount = 0
  /\ buf = 0
  /\ checksSpace = FALSE
  /\ cmdOffset = 0
  /\ pending = <<>>
  /\ handed = 0
  /\ nextId = 0
  /\ out = 0

(* RGXCheckSpaceCCB and RGXAcquireCCB refuse it with CMD_TOO_BIG. *)
TooBig(n) == n + Pad + 1 > Size

(* The call returns to the caller and its locals are gone. *)
Return ==
  /\ pc' = "idle"
  /\ cmdSize' = 0
  /\ retryCount' = 0
  /\ buf' = 0
  /\ checksSpace' = FALSE
  /\ cmdOffset' = 0

(* The kick of a render context looks for space with RGXCheckSpaceCCB      *)
(* first; every other caller, and the priority command of a render context *)
(* too, begins with RGXAcquireCCB.                                         *)
Enter(checks) ==
  /\ pc' = IF checks THEN "space" ELSE "check"
  /\ retryCount' = IF checks THEN 0 ELSE Retries

(* A call with a command of n units; one too big changes nothing. *)
AcquireCCB(n) ==
  /\ pc = "idle"
  /\ ~TooBig(n)
  /\ cmdSize' = n
  /\ buf' = 0
  /\ \E checks \in BOOLEAN :
       /\ checksSpace' = checks
       /\ Enter(checks)
  /\ UNCHANGED <<hostVars, growLock, mem, fwVars, cmdOffset, history>>

(* RGXCheckSpaceCCB gives RETRY without trying to grow the ring; with      *)
(* enough space the kick goes on to RGXAcquireCCB, which looks again.      *)
CheckSpace ==
  /\ pc = "space"
  /\ \/ /\ Enough(Needed)
        /\ Enter(FALSE)
     \/ /\ ~Enough(Needed)
        /\ pc' = "retry"
        /\ UNCHANGED retryCount
  /\ UNCHANGED <<hostVars, growLock, mem, fwVars, cmdSize, buf, checksSpace,
                 cmdOffset, history>>

(* One turn of the loop, the command fitting before the end of the ring.   *)
TryContiguous ==
  /\ pc = "check"
  /\ Fits
  /\ retryCount' = retryCount - 1
  /\ \/ /\ Enough(cmdSize)
        /\ buf' = HostWriteOffset
        /\ pc' = "acquired"
     \/ /\ ~Enough(cmdSize)
        /\ pc' = "retry"
        /\ UNCHANGED buf
  /\ UNCHANGED <<hostVars, growLock, mem, fwVars, cmdSize, checksSpace, cmdOffset,
                 history>>

(* One turn of the loop at the end of the ring: the PADDING command is     *)
(* written now, but the write offset only moves at release.                *)
TryWrap ==
  /\ pc = "check"
  /\ ~Fits
  /\ retryCount' = retryCount - 1
  /\ \/ /\ CanWrap
        /\ mem' = [mem EXCEPT ![HostWriteOffset] = Padding(Remain - Pad)]
        /\ buf' = 0
        /\ pc' = "acquired"
     \/ /\ ~CanWrap
        /\ pc' = IF Growable /\ Size < VirtualAllocSize
                   THEN "growTest" ELSE "retry"
        /\ UNCHANGED <<mem, buf>>
  /\ UNCHANGED <<hostVars, growLock, fwVars, cmdSize, checksSpace, cmdOffset, history>>

(* The read offset is read a second time: the ring only grows while no     *)
(* unread command lies beyond the write offset.                            *)
GrowTest ==
  /\ pc = "growTest"
  /\ pc' = IF NothingBeyond THEN "lockGrow" ELSE "retry"
  /\ UNCHANGED <<hostVars, growLock, mem, fwVars, callVars, cmdOffset, history>>

LockGrow ==
  /\ pc = "lockGrow"
  /\ growLock = "free"
  /\ growLock' = "host"
  /\ pc' = "grow"
  /\ UNCHANGED <<hostVars, mem, fwVars, callVars, cmdOffset, history>>

(* The sparse allocation is extended and the size doubled, or the          *)
(* extension fails; after a grow the loop takes its next turn, if any.     *)
Grow ==
  /\ pc = "grow"
  /\ growLock' = "free"
  /\ \/ /\ Size' = Size + Size
        /\ pc' = IF retryCount = 0 THEN "retry" ELSE "check"
     \/ /\ pc' = "retry"
        /\ UNCHANGED Size
  /\ UNCHANGED <<HostWriteOffset, ByteCount, mem, fwVars, callVars, cmdOffset,
                 history>>

(* The caller got RETRY: it calls again with the same command, from the    *)
(* start of the kick, or drops it.                                         *)
CallAgain ==
  /\ pc = "retry"
  /\ Enter(checksSpace)
  /\ UNCHANGED <<hostVars, growLock, mem, fwVars, cmdSize, buf, checksSpace,
                 cmdOffset, history>>

GiveUp ==
  /\ pc = "retry"
  /\ Return
  /\ UNCHANGED <<hostVars, growLock, mem, fwVars, history>>

(* The acquired space is filled with the caller's commands. *)
WriteCommand ==
  /\ pc = "acquired"
  /\ mem' = [o \in Offsets |->
               IF o = buf THEN Header(nextId, cmdSize)
               ELSE IF o \in buf + 1 .. buf + cmdSize - 1 THEN Body(nextId)
               ELSE mem[o]]
  /\ pc' = "written"
  /\ UNCHANGED <<hostVars, growLock, fwVars, callVars, cmdOffset, history>>

(* A later step of the caller fails (the 3D ring had no space, the power   *)
(* lock could not be taken): the space is never released.                  *)
Abandon ==
  /\ pc = "written"
  /\ Return
  /\ UNCHANGED <<hostVars, growLock, mem, fwVars, history>>

(* RGXReleaseCCB, between the two readings of the write offset from which  *)
(* PVRSRVRGXKickTA3DKM works out where its command went.                   *)
ReleaseCCB ==
  LET wrap  == ~Fits
      start == IF wrap THEN CCBOffset(HostWriteOffset, Remain, Size)
                       ELSE HostWriteOffset
      end   == CCBOffset(start, cmdSize, Size)
  IN
  /\ pc = "written"
  /\ growLock = "free"
  /\ HostWriteOffset' = end
  /\ ByteCount' = (ByteCount + (IF wrap THEN Remain ELSE 0) + cmdSize) % ByteCountMod
  /\ cmdOffset' = CommandStart(HostWriteOffset, end)
  /\ pending' = Append(pending, [id |-> nextId, off |-> start, size |-> cmdSize])
  /\ nextId' = (nextId + 1) % NumIds
  /\ pc' = "released"
  /\ UNCHANGED <<Size, growLock, mem, fwVars, callVars, handed, out>>

(* The kick carries the write offset and the wrap mask of this moment.     *)
Kick ==
  /\ pc = "released"
  /\ Len(kicks) < MaxKicks
  /\ kicks' = Append(kicks, KickData)
  /\ handed' = Len(pending)
  /\ Return
  /\ UNCHANGED <<hostVars, growLock, ReadOffset, mem, fwWriteOffset, fwWrapMask,
                 pending, nextId, out>>

(* The kernel CCB stayed full: the command is released and not kicked.     *)
KickFail ==
  /\ pc = "released"
  /\ Return
  /\ UNCHANGED <<hostVars, growLock, mem, fwVars, history>>

-----------------------------------------------------------------------------
(* The firmware, as the driver relies on it: it takes kicks in order and   *)
(* reads commands up to the write offset of the last one it took.          *)
FwTakeKick ==
  /\ kicks # <<>>
  /\ fwWriteOffset' = Head(kicks).CWoffUpdate
  /\ fwWrapMask' = Head(kicks).CWrapMaskUpdate
  /\ kicks' = Tail(kicks)
  /\ UNCHANGED <<hostVars, growLock, ReadOffset, mem, pc, callVars, cmdOffset, history>>

FwNext(n) == CCBOffset(ReadOffset, n, fwWrapMask + 1)

Consume(n) ==
  /\ mem' = [o \in Offsets |->
               IF o \in ReadOffset .. ReadOffset + n - 1 THEN Stale ELSE mem[o]]
  /\ ReadOffset' = FwNext(n)

FwExecute ==
  LET cell == mem[ReadOffset] IN
  /\ ReadOffset # fwWriteOffset
  /\ cell.kind = "command"
  /\ Consume(cell.size)
  /\ out' = cell.id
  /\ pending' = SubSeq(pending, 2, Len(pending))
  /\ handed' = handed - 1
  /\ UNCHANGED <<hostVars, growLock, kicks, fwWriteOffset, fwWrapMask, pc, callVars,
                 cmdOffset, nextId>>

FwSkipPadding ==
  LET cell == mem[ReadOffset] IN
  /\ ReadOffset # fwWriteOffset
  /\ cell.kind = "padding"
  /\ Consume(Pad + cell.size)
  /\ UNCHANGED <<hostVars, growLock, kicks, fwWriteOffset, fwWrapMask, pc, callVars,
                 cmdOffset, history>>

HostStep ==
  \/ \E n \in CmdSizes : AcquireCCB(n)
  \/ CheckSpace
  \/ TryContiguous
  \/ TryWrap
  \/ GrowTest
  \/ LockGrow
  \/ Grow
  \/ CallAgain
  \/ GiveUp
  \/ WriteCommand
  \/ Abandon
  \/ ReleaseCCB
  \/ Kick
  \/ KickFail

FwStep ==
  \/ FwTakeKick
  \/ FwExecute
  \/ FwSkipPadding

Next == HostStep \/ FwStep

Spec == Init /\ [][Next]_vars

(* The submitting thread goes on with what it has begun and calls again    *)
(* when it gets RETRY, and the firmware keeps running.  Nothing obliges a  *)
(* caller to submit, to give up or to abandon, or a kick to fail.          *)
Submitting ==
  \/ CheckSpace
  \/ TryContiguous
  \/ TryWrap
  \/ GrowTest
  \/ LockGrow
  \/ Grow
  \/ CallAgain
  \/ WriteCommand
  \/ ReleaseCCB
  \/ Kick

Fairness == WF_vars(Submitting) /\ WF_vars(FwStep)

FairSpec == Spec /\ Fairness

-----------------------------------------------------------------------------
(* Every variable stays in its range. *)
TypeOK ==
  /\ HostWriteOffset \in 0 .. Size - 1
  /\ Size \in Sizes
  /\ ByteCount \in 0 .. ByteCountMod - 1
  /\ growLock \in {"free", "host", "watchdog"}
  /\ ReadOffset \in Offsets
  /\ mem \in [Offsets -> Cell]
  /\ kicks \in Seq([CWoffUpdate : Offsets, CWrapMaskUpdate : {s - 1 : s \in Sizes}])
  /\ fwWriteOffset \in Offsets
  /\ fwWrapMask \in {s - 1 : s \in Sizes}
  /\ pc \in {"idle", "space", "check", "growTest", "lockGrow", "grow", "retry",
             "acquired", "written", "released"}
  /\ cmdSize \in CmdSizes \cup {0}
  /\ retryCount \in 0 .. 2
  /\ buf \in Offsets
  /\ checksSpace \in BOOLEAN
  /\ cmdOffset \in Offsets
  /\ pending \in Seq([id : Ids, off : Offsets, size : CmdSizes])
  /\ handed \in Int
  /\ nextId \in Ids
  /\ out \in Ids

(* There is always room for a PADDING header between the write offset and  *)
(* the end of the ring (RGXAcquireCCB writes one there without a check),   *)
(* and never so little that its size field would go below zero.            *)
RoomForPadding == HostWriteOffset + Pad <= Size

(* PVR_ASSERT(ui32RetryCount != 0), "Something went wrong if we are here a *)
(* second time": one call of RGXAcquireCCB grows the ring at most once.    *)
GrowsOnce == pc \in {"lockGrow", "grow"} => retryCount # 0

(* The PADDING command at o reaches the end of the ring. *)
PaddedAt(o) == /\ mem[o].kind = "padding"
               /\ o + Pad + mem[o].size = Size

(* A command follows the unit o: directly, or at 0 after a PADDING command. *)
Follows(off, o) == off = o \/ (off = 0 /\ PaddedAt(o))

(* Unread commands are intact and in a chain: from the read offset every   *)
(* command leads to the next and the last to the write offset; nothing the *)
(* host acquires, pads, grows or abandons overwrites one of them.          *)
UnreadIntact ==
  LET end(i) == pending[i].off + pending[i].size IN
  /\ \A i \in 1 .. Len(pending) :
       /\ mem[pending[i].off] = Header(pending[i].id, pending[i].size)
       /\ \A o \in pending[i].off + 1 .. end(i) - 1 : mem[o] = Body(pending[i].id)
       /\ Follows(pending[i].off, IF i = 1 THEN ReadOffset ELSE end(i - 1))
  /\ HostWriteOffset = IF pending = <<>> THEN ReadOffset ELSE end(Len(pending))

(* The offset PVRSRVRGXKickTA3DKM passes to the firmware for workload      *)
(* estimation, from the write offset before and after the release, is      *)
(* where its command lies, wrapped or not.                                 *)
CmdOffsetRight ==
  pc = "released" /\ pending # <<>> => cmdOffset = pending[Len(pending)].off

Delivery == INSTANCE CommandQueue WITH
  Commands <- Ids,
  queue    <- [i \in 1 .. Len(pending) |-> pending[i].id]

(* Every released command is executed once, in order, and only when kicked *)
(* (CommandQueue), through wraps, grows, abandoned acquires, failed kicks. *)
DeliveredInOrder == Delivery!Spec

Unkicked == pc # "released" /\ handed < Len(pending)

(* The firmware works off whatever a kick has handed over, so a growing or *)
(* wrapping ring never leaves it at an offset it cannot read on from: time *)
(* and again nothing handed over is left, or it executes one more command. *)
(* They go in order (DeliveredInOrder), so none of them waits for ever.    *)
KickedCommandsExecuted == []<>(handed = 0) \/ []<><<FwExecute>>_vars

(* A caller that keeps calling while it gets RETRY is served, unless a     *)
(* failed kick left commands behind that the firmware was not told about.  *)
(* RGXCheckSpaceCCB never grows the ring and RGXAcquireCCB may fail to, so *)
(* the command must fit in the ring as it is when that is empty: at worst  *)
(* n + Pad - 1 units are padded, and one unit always stays free.  A larger *)
(* one may be refused for ever (rgxccb.c:1024, 1188).                      *)
RetryServed ==
  pc \in {"space", "check"} /\ 2 * cmdSize + Pad < Size
    ~> pc \in {"acquired", "idle"} \/ Unkicked
=============================================================================
