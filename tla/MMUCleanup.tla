----------------------------- MODULE MMUCleanup -----------------------------
(***************************************************************************)
(* Page tables are freed behind the back of the GPU (mmu_common.c,         *)
(* rgxmem.c): MMU_Free takes a table out of the tree, leaves a flag that   *)
(* the MMU caches need an invalidate, and queues the table for the cleanup *)
(* thread.  Whoever sends to the kernel CCB next takes the flags and sends *)
(* an invalidate first; the cleanup thread sends one itself, remembers the *)
(* value the firmware will write to a sync primitive, and frees the table  *)
(* when the sync has got there.  The kernel CCB is the abstract one of     *)
(* CommandFifo, which KernelCCB implements.  A table is used once here.    *)
(***************************************************************************)
EXTENDS Integers, Sequences

CONSTANTS
  Tables,        \* what one call of MMU_Free frees
  Clients,       \* threads that send kicks
  None,
  Modulus,       \* 2^32: sync values wrap
  Far,           \* 0xF0000000: more apart than that, one of two has wrapped
  FirstUpdate,   \* 0xFFFFFFF7: ui32NextMMUInvalidateUpdate at the start
  MaxQueue,      \* bound on commands sent and not executed
  SendFails,     \* the ring and the deferred list refuse, or power-up fails
  GivesUp        \* allocations fail, invalidates time out, contexts go

Cleaner == "cleaner"
Unmapper == "unmapper"
Senders == Clients \cup {Cleaner}
Values == 0 .. Modulus - 1

ASSUME MMUAssumption ==
  /\ Cleaner \notin Clients /\ Unmapper \notin Clients /\ None \notin Senders \cup {Unmapper}
  /\ Modulus \in Nat /\ Far \in Nat
  /\ FirstUpdate \in Far + 2 .. Modulus - 1
  /\ MaxQueue \in Nat \ {0}
  /\ SendFails \in BOOLEAN /\ GivesUp \in BOOLEAN

(* The commands in flight are few, measured by how far apart two values    *)
(* have to be for one of them to have wrapped: 2^32 - 0xF0000000.          *)
ASSUME QueueIsShort == MaxQueue <= Far /\ Far + MaxQueue < Modulus

VARIABLES
  \* the tables; bMMUContextExists; sCacheFlags, as "any set"
  table, contextExists, cacheFlags,
  \* ui32NextMMUInvalidateUpdate and psMMUCacheSyncPrim
  nextUpdate, syncPrim,
  powerLock, cleanupLock,
  \* the kernel CCB: commands accepted and not executed, the last executed
  kccb, out,
  \* the cleanup thread's list, and the item it works on
  workList, item, wpc,
  \* MMU_Free: the table it frees
  freeing, upc,
  \* the sender that holds the power lock: flags it took, tables out of the
  \* tree when it took the lock
  spc, taken, need,
  \* the MMU caches; history: tables freed without waiting, on purpose
  cached, forced

locks  == <<powerLock, cleanupLock>>
sync   == <<nextUpdate, syncPrim>>
mmu    == <<table, contextExists, cached, forced>>
fifo   == <<kccb, out>>
sender == <<spc, taken, need>>
worker == <<workList, item, wpc>>
unmap  == <<freeing, upc>>
vars == <<mmu, cacheFlags, sync, locks, fifo, worker, unmap, sender>>

NoItem == [table |-> None, hasSync |-> FALSE, required |-> 0, given |-> FALSE]
Command == [kind : {"none", "mmu", "kick"}, value : Values, need : SUBSET Tables]

Init ==
  /\ table = [t \in Tables |-> "linked"]
  /\ contextExists = TRUE
  /\ cacheFlags = FALSE
  /\ nextUpdate = FirstUpdate /\ syncPrim = FirstUpdate - 1
  /\ powerLock = None /\ cleanupLock = None
  /\ kccb = <<>> /\ out = [kind |-> "none", value |-> 0, need |-> {}]
  /\ workList = <<>> /\ item = NoItem /\ wpc = "idle"
  /\ freeing = None /\ upc = "idle"
  /\ spc = "none" /\ taken = FALSE /\ need = {}
  /\ cached = {} /\ forced = {}

-----------------------------------------------------------------------------
(* MMU_Free, under the cleanup lock.  The page table entry is written      *)
(* first and the flag is set after it.                                     *)

Unlink(t) ==
  /\ upc = "idle" /\ contextExists
  /\ cleanupLock = None
  /\ table[t] = "linked"
  /\ cleanupLock' = Unmapper
  /\ freeing' = t
  /\ upc' = "unlinked"
  /\ table' = [table EXCEPT ![t] = "unlinked"]
  /\ UNCHANGED <<contextExists, cached, forced, cacheFlags, sync, powerLock, fifo,
                 worker, sender>>

MMUCacheInvalidate ==
  /\ upc = "unlinked"
  /\ upc' = "flagged"
  /\ cacheFlags' = TRUE
  /\ table' = [table EXCEPT ![freeing] = "flagged"]
  /\ UNCHANGED <<contextExists, cached, forced, sync, locks, fifo, worker, freeing,
                 sender>>

(* _SetupCleanup_FreeMMUMapping: the table waits for the cleanup thread,   *)
(* or is freed at once when no cleanup item can be allocated.              *)
SetupCleanup ==
  /\ upc = "flagged"
  /\ \/ /\ workList' = Append(workList, [NoItem EXCEPT !.table = freeing])
        /\ UNCHANGED <<table, forced>>
     \/ /\ GivesUp
        /\ table' = [table EXCEPT ![freeing] = "freed"]
        /\ forced' = forced \cup {freeing}
        /\ UNCHANGED workList
  /\ upc' = "idle" /\ freeing' = None
  /\ cleanupLock' = None
  /\ UNCHANGED <<contextExists, cached, cacheFlags, sync, powerLock, fifo, item, wpc,
                 sender>>

(* Pages are mapped, or unmapped with their table left in place. *)
OtherChange ==
  /\ contextExists
  /\ cacheFlags' = TRUE
  /\ UNCHANGED <<mmu, sync, locks, fifo, worker, unmap, sender>>

(* MMU_ContextDestroy frees every table, those of waiting items included.  *)
ContextDestroy ==
  /\ GivesUp
  /\ contextExists /\ cleanupLock = None
  /\ contextExists' = FALSE
  /\ table' = [t \in Tables |-> "freed"]
  /\ forced' = Tables
  /\ UNCHANGED <<cached, cacheFlags, sync, locks, fifo, worker, unmap, sender>>

-----------------------------------------------------------------------------
(* Sending under the power lock: RGXPreKickCacheCommand for a client,      *)
(* RGXMMUCacheInvalidateKick for the cleanup thread.                       *)

Fifo == INSTANCE CommandFifo WITH Commands <- Command, queue <- kccb

OutOfTree == {t \in Tables : table[t] \notin {"linked", "unlinked"}}

LockPower(s) ==
  /\ powerLock = None
  /\ s = Cleaner => wpc = "kick"
  /\ powerLock' = s
  /\ spc' = "locked"
  /\ need' = OutOfTree
  /\ wpc' = IF s = Cleaner THEN "sending" ELSE wpc
  /\ UNCHANGED <<mmu, cacheFlags, sync, cleanupLock, fifo, workList, item, unmap, taken>>

(* MMU_GetAndResetCacheFlags: all flags of the context, at once.           *)
TakeFlags ==
  /\ spc = "locked"
  /\ taken' = cacheFlags
  /\ cacheFlags' = FALSE
  /\ spc' = "taken"
  /\ UNCHANGED <<mmu, sync, locks, fifo, worker, unmap, need>>

(* The value the firmware writes when it has executed the invalidate.  The *)
(* mutant forgets that a 32-bit counter wraps.                             *)
NextUpdate_Unwrapped == nextUpdate + 1
NextUpdate == (nextUpdate + 1) % Modulus

(* The caller is given the value before the command is sent.               *)
Given == IF powerLock = Cleaner
           THEN [item EXCEPT !.required = nextUpdate, !.given = TRUE] ELSE item

(* _PrepareAndSubmitCacheCommand: the invalidate gets the next value.      *)
SendInvalidate ==
  /\ spc = "taken" /\ taken
  /\ Len(kccb) < MaxQueue
  /\ Fifo!Accept([kind |-> "mmu", value |-> nextUpdate, need |-> {}])
  /\ nextUpdate' = NextUpdate
  /\ taken' = FALSE
  /\ spc' = "sent"
  /\ item' = Given
  /\ UNCHANGED <<mmu, cacheFlags, syncPrim, locks, workList, wpc, unmap, need>>

(* It was refused, or the device did not power up: the flags go back, and  *)
(* the call fails.  The value of a refused one goes to the next invalidate *)
(* that is sent, but the caller keeps it.  The mutant forgets the flags.   *)
FlagsBack_Lost == cacheFlags
FlagsBack == TRUE
InvalidateFails ==
  /\ SendFails
  /\ spc = "taken" /\ taken
  /\ cacheFlags' = FlagsBack
  /\ taken' = FALSE
  /\ spc' = "none" /\ need' = {}
  /\ powerLock' = None
  /\ wpc' = IF powerLock = Cleaner THEN "retry" ELSE wpc
  /\ item' \in {item, Given}
  /\ UNCHANGED <<mmu, sync, cleanupLock, fifo, workList, unmap>>

(* The client's kick follows the invalidate.  The mutant does not wait     *)
(* until the flags were taken.                                             *)
MayKick_Unflushed == spc \in {"locked", "sent"} \/ (spc = "taken" /\ ~taken)
MayKick == spc = "sent" \/ (spc = "taken" /\ ~taken)
SendKick ==
  /\ MayKick /\ powerLock \in Clients
  /\ \/ /\ Len(kccb) < MaxQueue
        /\ Fifo!Accept([kind |-> "kick", value |-> 0, need |-> need])
     \/ SendFails /\ UNCHANGED fifo
  /\ spc' = "none" /\ need' = {}
  /\ powerLock' = None
  /\ UNCHANGED <<mmu, cacheFlags, sync, cleanupLock, worker, unmap, taken>>

(* The cleanup thread sends nothing else; with no flags to be found it     *)
(* sent nothing at all, and was given no value: it keeps what it had, at   *)
(* first 0.                                                                *)
KickDone ==
  /\ MayKick /\ powerLock = Cleaner
  /\ item' = [item EXCEPT !.hasSync = TRUE]
  /\ spc' = "none" /\ need' = {}
  /\ powerLock' = None
  /\ wpc' = "test"
  /\ UNCHANGED <<mmu, cacheFlags, sync, cleanupLock, fifo, workList, unmap, taken>>

-----------------------------------------------------------------------------
(* The cleanup thread. *)

Pop ==
  /\ wpc = "idle" /\ workList # <<>>
  /\ item' = Head(workList)
  /\ workList' = Tail(workList)
  /\ wpc' = "lock"
  /\ UNCHANGED <<mmu, cacheFlags, sync, locks, fifo, unmap, sender>>

(* An item of a context that is gone has nothing left to free. *)
LockCleanup ==
  /\ wpc = "lock" /\ cleanupLock = None
  /\ IF contextExists
       THEN /\ cleanupLock' = Cleaner
            /\ wpc' = IF item.hasSync THEN "test" ELSE "kick"
            /\ UNCHANGED item
       ELSE /\ wpc' = "idle"
            /\ item' = NoItem
            /\ UNCHANGED cleanupLock
  /\ UNCHANGED <<mmu, cacheFlags, sync, powerLock, fifo, workList, unmap, sender>>

(* MMU_HasSyncAdvanced; the mutant compares without regard to a wrap.      *)
HasSyncAdvanced_NoWrap(cur, req) == cur >= req
HasSyncAdvanced(cur, req) ==
  IF cur >= req THEN cur - req <= Far ELSE req - cur > Far

FreeMMUMapping ==
  /\ wpc = "test"
  /\ \/ /\ HasSyncAdvanced(syncPrim, item.required)
        /\ UNCHANGED forced
     \/ /\ ~HasSyncAdvanced(syncPrim, item.required)
        /\ GivesUp
        /\ forced' = forced \cup {item.table}
  /\ table' = [table EXCEPT ![item.table] = "freed"]
  /\ item' = NoItem
  /\ wpc' = "idle"
  /\ cleanupLock' = None
  /\ UNCHANGED <<contextExists, cached, cacheFlags, sync, powerLock, fifo, workList,
                 unmap, sender>>

Retry ==
  /\ \/ wpc = "retry"
     \/ wpc = "test" /\ ~HasSyncAdvanced(syncPrim, item.required)
  /\ workList' = Append(workList, item)
  /\ item' = NoItem
  /\ wpc' = "idle"
  /\ cleanupLock' = None
  /\ UNCHANGED <<mmu, cacheFlags, sync, powerLock, fifo, unmap, sender>>

-----------------------------------------------------------------------------
(* The GPU walks tables that are in the tree and keeps what it finds; the  *)
(* firmware drops it all with an invalidate and then writes the sync.      *)

Walk(t) ==
  /\ table[t] = "linked"
  /\ cached' = cached \cup {t}
  /\ UNCHANGED <<table, contextExists, forced, cacheFlags, sync, locks, fifo, worker,
                 unmap, sender>>

Execute ==
  /\ Fifo!Execute
  /\ IF out'.kind = "mmu"
       THEN /\ cached' = {t \in cached : table[t] = "linked"}
            /\ syncPrim' = out'.value
       ELSE UNCHANGED <<cached, syncPrim>>
  /\ UNCHANGED <<table, contextExists, forced, cacheFlags, nextUpdate, locks, worker,
                 unmap, sender>>

Next ==
  \/ \E t \in Tables : Unlink(t) \/ Walk(t)
  \/ MMUCacheInvalidate \/ SetupCleanup \/ OtherChange \/ ContextDestroy
  \/ \E s \in Senders : LockPower(s)
  \/ TakeFlags \/ SendInvalidate \/ InvalidateFails \/ SendKick \/ KickDone
  \/ Pop \/ LockCleanup \/ FreeMMUMapping \/ Retry
  \/ Execute

Spec == Init /\ [][Next]_vars

-----------------------------------------------------------------------------
(* Every variable stays in its range. *)
TypeOK ==
  LET Item == [table : Tables \cup {None}, hasSync : BOOLEAN, required : Values,
               given : BOOLEAN] IN
  /\ table \in [Tables -> {"linked", "unlinked", "flagged", "freed"}]
  /\ contextExists \in BOOLEAN /\ cacheFlags \in BOOLEAN /\ taken \in BOOLEAN
  /\ nextUpdate \in Values /\ syncPrim \in Values
  /\ powerLock \in Senders \cup {None}
  /\ cleanupLock \in {Cleaner, Unmapper, None}
  /\ kccb \in Seq(Command) /\ out \in Command
  /\ workList \in Seq(Item) /\ item \in Item
  /\ wpc \in {"idle", "lock", "kick", "sending", "retry", "test"}
  /\ freeing \in Tables \cup {None} /\ upc \in {"idle", "unlinked", "flagged"}
  /\ spc \in {"none", "locked", "taken", "sent"}
  /\ need \subseteq Tables /\ cached \subseteq Tables /\ forced \subseteq Tables

InvalidateComing == cacheFlags \/ taken \/ \E i \in 1 .. Len(kccb) : kccb[i].kind = "mmu"

(* What the MMU caches may still hold of a table that has left the tree    *)
(* is covered: the flag is set, a sender has it in hand, or an invalidate  *)
(* is on its way, whatever fails in between.                               *)
StaleIsCovered == contextExists /\ cached \cap OutOfTree # {} => InvalidateComing

(* A kick accepted after a table left the tree does not run on what the    *)
(* MMU caches held of it: the invalidate was sent before it.               *)
KickSeesNoStale ==
  kccb # <<>> /\ Head(kccb).kind = "kick" /\ contextExists
    => Head(kccb).need \cap cached = {}

(* Once the cleanup thread was given a value to wait for, by an invalidate *)
(* of its own or by one that was refused, a sync that has got there means  *)
(* that the table is in no cache: whoever sent the invalidate that carried *)
(* the value, and also when the value wraps.                               *)
GivenValueExecuted ==
  wpc = "test" /\ item.given /\ contextExists /\ HasSyncAdvanced(syncPrim, item.required)
    => item.table \notin cached

(* "retry to free the MMU_MEMORY_MAPPINGs until the invalidate has been    *)
(* executed": no table is freed while a cache may hold it, but for those   *)
(* that are freed without waiting because memory, time or the context ran  *)
(* out.                                                                    *)
FreedNotCached == {t \in cached : table[t] = "freed"} \subseteq forced
=============================================================================
