--------------------------- MODULE SyncCheckpoints ---------------------------
(***************************************************************************)
(* Sync checkpoints (server/common/sync_checkpoint.c): words of memory the *)
(* firmware and the host signal, and the commands in client CCBs wait for. *)
(* A checkpoint is referenced by its fence and by kicks in progress        *)
(* (hRefCount), and by commands: hEnqueuedCCBCount counts the times it was *)
(* put into one and ui32FwRefCount the times the firmware is done with it. *)
(* Kicks (rgxkicksync.c, sync_server.c) take these references and undo     *)
(* them when they fail; unused checkpoints go to a pool, and the context   *)
(* that owns them goes with its last user.                                 *)
(***************************************************************************)
EXTENDS Integers, FiniteSets, Sequences

CONSTANTS
  Checkpoints,   \* places in the context's block of checkpoints
  Kickers,       \* server contexts, each with a client CCB; hLock orders its kicks
  Misr,          \* the thread that releases fences once they have signalled
  Unbind,        \* the thread that unregisters the device
  None,
  PoolSize,      \* ui32SyncCheckpointPoolSize
  MaxCmds,       \* commands a CCB has room for
  MaxEnqueued,   \* bound: commands a checkpoint has been put into
  MaxLate        \* bound: kicks the kernel CCB refuses after the commit

ASSUME CheckpointsAssumption ==
  /\ Misr \notin Kickers /\ Unbind \notin Kickers \cup {Misr}
  /\ None \notin Checkpoints
  /\ IsFiniteSet(Checkpoints) /\ IsFiniteSet(Kickers)
  /\ PoolSize \in Nat \ {0} /\ MaxCmds \in Nat \ {0}
  /\ MaxEnqueued \in Nat \ {0} /\ MaxLate \in Nat

Threads == Kickers \cup {Misr, Unbind}

VARIABLES
  chk,        \* SYNC_CHECKPOINT and SYNC_CHECKPOINT_FW_OBJ
  allocated,  \* the suballocations psSubAllocRA has given out
  ctx,        \* _SYNC_CHECKPOINT_CONTEXT: its counts; whether it and its block exist
  pool,       \* the ring of unused checkpoints
  deferred,   \* sDeferredCleanupListHead
  fence,      \* who has the reference a checkpoint was created with
  th,         \* a thread: where it is, the checkpoints it is to release, and
              \* where it goes on after that
  kick,       \* a kick: its input checkpoints and its output checkpoint
  ccb,        \* the client CCBs, and how many of its commands the firmware knows of
  late,       \* history: kicks that failed after their commands were committed
  quiet       \* history: nothing was in use when the device was unregistered

mem == <<chk, allocated, ctx, pool, deferred>>
vars == <<mem, fence, th, kick, ccb, late, quiet>>

NoKick == [in |-> {}, out |-> None]
Unused == [hRefCount |-> 0, hEnqueuedCCBCount |-> 0, ui32FwRefCount |-> 0,
           ui32State |-> "UNDEF", listed |-> FALSE]

Init ==
  /\ chk = [c \in Checkpoints |-> Unused]
  /\ allocated = {} /\ deferred = {}
  /\ ctx = [live |-> TRUE, block |-> FALSE, hRefCount |-> 1, hCheckpointCount |-> 0]
  /\ pool = [slot |-> [i \in 0..(PoolSize - 1) |-> None],
             Rp |-> 0, Wp |-> 0, count |-> 0, full |-> FALSE]
  /\ fence = [c \in Checkpoints |-> "none"]
  /\ th = [t \in Threads |-> [pc |-> "idle", work |-> {}, after |-> "leave"]]
  /\ kick = [k \in Kickers |-> NoKick]
  /\ ccb = [k \in Kickers |-> [cmds |-> <<>>, known |-> 0]]
  /\ late = 0 /\ quiet = FALSE

At(t, stage) == th[t].pc = stage
Goto(t, stage) == th' = [th EXCEPT ![t].pc = stage]

-----------------------------------------------------------------------------
(* The context's reference count and the pool. *)

ContextRef(x) == IF x.hRefCount = 0 THEN x ELSE [x EXCEPT !.hRefCount = @ + 1]

(* The last reference frees the context, its pool and its arenas. *)
ContextUnref(x) ==
  IF x.hRefCount = 0 THEN x
  ELSE [x EXCEPT !.hRefCount = @ - 1, !.live = @ /\ x.hRefCount # 1]

PoolNext(i) == (i + 1) % PoolSize

TakeFromPool ==
  pool' = [pool EXCEPT !.slot[pool.Rp] = None, !.Rp = PoolNext(@), !.count = @ - 1,
                       !.full = FALSE]

\* Mutant of PutInPool: a pool that fills up is not marked as full.
PutInPool_NeverFull(c) ==
  pool' = [pool EXCEPT !.slot[pool.Wp] = c, !.Wp = PoolNext(@), !.count = @ + 1]

PutInPool(c) ==
  pool' = [pool EXCEPT !.slot[pool.Wp] = c, !.Wp = PoolNext(@), !.count = @ + 1,
                       !.full = @ \/ PoolNext(pool.Wp) = pool.Rp]

(* What _CleanCheckpointPool reads while the count is above zero.  (Slots  *)
(* that are not in use are None here; the code leaves what they held.)     *)
Pooled == {pool.slot[(pool.Rp + i) % PoolSize] : i \in 0..(pool.count - 1)}

(* SyncCheckpointAlloc of c: one from the pool, or a new one, the first of *)
(* which imports the block.                                                *)
Alloc(c, refs) ==
  /\ \/ /\ pool.count > 0 /\ c = pool.slot[pool.Rp]
        /\ TakeFromPool
        /\ UNCHANGED <<allocated, ctx>>
     \/ /\ pool.count = 0 /\ c \notin allocated
        /\ allocated' = allocated \cup {c}
        /\ ctx' = [(IF ctx.block THEN ctx ELSE ContextRef(ctx))
                   EXCEPT !.block = TRUE, !.hCheckpointCount = @ + 1]
        /\ UNCHANGED pool
  /\ chk' = [chk EXCEPT ![c] = [hRefCount |-> refs, hEnqueuedCCBCount |-> 0,
                                ui32FwRefCount |-> 0, ui32State |-> "ACTIVE",
                                listed |-> TRUE]]
  /\ UNCHANGED deferred

-----------------------------------------------------------------------------
(* SyncCheckpointUnref. *)

\* Mutant of Serviced: the last reference of the host decides alone.
Serviced_HostOnly(c) == TRUE

Serviced(c) == chk[c].ui32FwRefCount = chk[c].hEnqueuedCCBCount

(* Thread t goes through its list of checkpoints to release, then on. *)
Release(t, list, after) ==
  [th[t] EXCEPT !.pc = IF list = {} THEN after ELSE "reclaim",
                !.work = list, !.after = after]

\* Mutant of Unref: the context is not referenced during the call.
Unref_NoContextRef(t, c) ==
  /\ chk' = [chk EXCEPT ![c].hRefCount = IF @ = 0 THEN 0 ELSE @ - 1]
  /\ th' = [th EXCEPT ![t] =
       CASE chk[c].hRefCount # 1 -> Release(t, {}, "check")
         [] chk[c].hRefCount = 1 /\ Serviced(c) -> Release(t, {c}, "check")
         [] OTHER -> [Release(t, {c}, "check") EXCEPT !.pc = "defer"]]
  /\ UNCHANGED <<ctx, allocated, pool, deferred>>

(* It takes a reference to the context, drops the one to the checkpoint    *)
(* and looks whether the firmware has serviced every command.              *)
Unref(t, c) ==
  /\ ctx' = ContextRef(ctx)
  /\ chk' = [chk EXCEPT ![c].hRefCount = IF @ = 0 THEN 0 ELSE @ - 1]
  /\ th' = [th EXCEPT ![t] =
       CASE chk[c].hRefCount # 1 -> Release(t, {}, "check")
         [] chk[c].hRefCount = 1 /\ Serviced(c) -> Release(t, {c}, "check")
         [] OTHER -> [Release(t, {c}, "check") EXCEPT !.pc = "defer"]]
  /\ UNCHANGED <<allocated, pool, deferred>>

Defer(t) ==
  /\ At(t, "defer")
  /\ deferred' = deferred \cup th[t].work
  /\ th' = [th EXCEPT ![t].pc = "check", ![t].work = {}]
  /\ UNCHANGED <<chk, allocated, ctx, pool, fence, kick, ccb, late, quiet>>

(* One checkpoint leaves the device's list for the pool.  A full pool has  *)
(* it freed: the suballocation first, and the block with the last one.     *)
Reclaim(t, c) ==
  /\ At(t, "reclaim") /\ c \in th[t].work
  /\ \/ /\ ~pool.full
        /\ PutInPool(c)
        /\ chk' = [chk EXCEPT ![c].listed = FALSE, ![c].ui32State = "UNDEF"]
        /\ th' = [th EXCEPT ![t] = Release(t, th[t].work \ {c}, th[t].after)]
        /\ UNCHANGED <<allocated, ctx>>
     \/ /\ pool.full
        /\ chk' = [chk EXCEPT ![c].listed = FALSE]
        /\ allocated' = allocated \ {c}
        /\ ctx' = IF allocated' = {} THEN [ContextUnref(ctx) EXCEPT !.block = FALSE] ELSE ctx
        /\ th' = [th EXCEPT ![t].pc = "count", ![t].work = @ \ {c}]
        /\ UNCHANGED pool
  /\ UNCHANGED <<deferred, fence, kick, ccb, late, quiet>>

(* The end of _FreeSyncCheckpoint. *)
CountFreed(t) ==
  /\ At(t, "count")
  /\ ctx' = [ctx EXCEPT !.hCheckpointCount = @ - 1]
  /\ Goto(t, IF th[t].work = {} THEN th[t].after
             ELSE IF th[t].after = "read" THEN "clean" ELSE "reclaim")
  /\ UNCHANGED <<chk, allocated, pool, deferred, fence, kick, ccb, late, quiet>>

\* Mutant of CheckDeferred: what it releases stays on the list meanwhile.
CheckDeferred_LeavesThem(t) ==
  LET ready == {c \in deferred : Serviced(c)} IN
  /\ At(t, "check")
  /\ th' = [th EXCEPT ![t] = Release(t, ready, IF t = Unbind THEN "pool" ELSE "leave")]
  /\ UNCHANGED <<mem, fence, kick, ccb, late, quiet>>

(* _CheckDeferredCleanupList moves what it can release to a list of its    *)
(* own, under the lock.                                                    *)
CheckDeferred(t) ==
  LET ready == {c \in deferred : Serviced(c)} IN
  /\ At(t, "check")
  /\ deferred' = deferred \ ready
  /\ th' = [th EXCEPT ![t] = Release(t, ready, IF t = Unbind THEN "pool" ELSE "leave")]
  /\ UNCHANGED <<chk, allocated, ctx, pool, fence, kick, ccb, late, quiet>>

LeaveUnref(t) ==
  /\ At(t, "leave")
  /\ ctx' = ContextUnref(ctx)
  /\ Goto(t, IF t = Misr THEN "idle" ELSE "deref")
  /\ UNCHANGED <<chk, allocated, pool, deferred, fence, kick, ccb, late, quiet>>

-----------------------------------------------------------------------------
(* A kick, from the resolution of its input fence to its return. *)

Bound == th[Unbind].pc = "idle"

(* The inputs are checkpoints of this driver's fences, or one that is made *)
(* for a fence of another driver and that its callback will signal.        *)
ResolveFence(k) ==
  /\ At(k, "idle") /\ Bound
  /\ \/ \E inputs \in SUBSET {c \in Checkpoints : fence[c] = "fence"} :
          /\ \A c \in inputs : chk[c].hEnqueuedCCBCount < MaxEnqueued
          /\ chk' = [c \in Checkpoints |->
               IF c \in inputs THEN [chk[c] EXCEPT !.hRefCount = @ + 1] ELSE chk[c]]
          /\ kick' = [kick EXCEPT ![k].in = inputs]
          /\ UNCHANGED <<allocated, ctx, pool, deferred, fence>>
     \/ \E c \in Checkpoints :
          /\ Alloc(c, 2)
          /\ fence' = [fence EXCEPT ![c] = "foreign"]
          /\ kick' = [kick EXCEPT ![k].in = {c}]
  /\ Goto(k, "create")
  /\ UNCHANGED <<ccb, late, quiet>>

(* SyncCheckpointCreateFence, when an output is asked for; without memory  *)
(* for its checkpoint the kick fails.  After it the kick cannot fail for   *)
(* want of memory for its update values (rgxkicksync.c:391): these are for *)
(* a timeline with a sync primitive, and pvr_sync_file.c:382 never has     *)
(* one.  (A kick that uses no checkpoint is left out.)                     *)
CreateFence(k) ==
  /\ At(k, "create")
  /\ \/ \E c \in Checkpoints :
          /\ Alloc(c, 1)
          /\ kick' = [kick EXCEPT ![k].out = c]
          /\ Goto(k, "append")
     \/ /\ kick[k].in # {}
        /\ Goto(k, "append")
        /\ UNCHANGED <<mem, kick>>
     \/ /\ pool.count = 0 /\ allocated = Checkpoints
        /\ Goto(k, "deref")
        /\ UNCHANGED <<mem, kick>>
  /\ UNCHANGED <<fence, ccb, late, quiet>>

Used(k) == kick[k].in \cup ({kick[k].out} \ {None})

(* _AppendCheckpoints counts the references before there is a command;     *)
(* RGXCmdHelperAcquireCmdCCB and RGXCmdHelperReleaseCmdCCB make it.        *)
CommitCommands(k) ==
  /\ At(k, "append")
  /\ chk' = [c \in Checkpoints |->
       IF c \in Used(k) THEN [chk[c] EXCEPT !.hEnqueuedCCBCount = @ + 1] ELSE chk[c]]
  /\ IF Len(ccb[k].cmds) < MaxCmds
     THEN /\ ccb' = [ccb EXCEPT ![k].cmds = Append(@,
                       [fence |-> kick[k].in, update |-> kick[k].out, stage |-> "wait"])]
          /\ Goto(k, "schedule")
     ELSE Goto(k, "rollback") /\ UNCHANGED ccb
  /\ UNCHANGED <<allocated, ctx, pool, deferred, fence, kick, late, quiet>>

(* RGXScheduleCommand tells the firmware the write offset, or times out. *)
ScheduleCommand(k) ==
  /\ At(k, "schedule")
  /\ \/ /\ ccb' = [ccb EXCEPT ![k].known = Len(ccb[k].cmds)]
        /\ Goto(k, "deref")
        /\ UNCHANGED late
     \/ /\ late < MaxLate
        /\ late' = late + 1
        /\ Goto(k, "rollback")
        /\ UNCHANGED ccb
  /\ UNCHANGED <<mem, fence, kick, quiet>>

(* SyncAddrListRollbackCheckpoints for both lists: each checkpoint is      *)
(* found in the device's list by its address; then the output fence goes.  *)
RollbackCheckpoints(k) ==
  /\ At(k, "rollback")
  /\ chk' = [c \in Checkpoints |->
       IF c \in Used(k) /\ chk[c].listed
       THEN [chk[c] EXCEPT !.hEnqueuedCCBCount = @ - 1] ELSE chk[c]]
  /\ fence' = [c \in Checkpoints |-> IF c = kick[k].out THEN "dropped" ELSE fence[c]]
  /\ kick' = [kick EXCEPT ![k].out = None]
  /\ Goto(k, "deref")
  /\ UNCHANGED <<allocated, ctx, pool, deferred, ccb, late, quiet>>

(* SyncAddrListDeRefCheckpoints, one input after the other. *)
DeRefCheckpoint(k) ==
  \E c \in kick[k].in :
    /\ At(k, "deref")
    /\ Unref(k, c)
    /\ kick' = [kick EXCEPT ![k].in = @ \ {c}]
    /\ UNCHANGED <<fence, ccb, late, quiet>>

(* SyncCheckpointFinaliseFence gives the output fence to the client. *)
FinaliseFence(k) ==
  /\ At(k, "deref") /\ kick[k].in = {}
  /\ fence' = [c \in Checkpoints |-> IF c = kick[k].out THEN "fence" ELSE fence[c]]
  /\ kick' = [kick EXCEPT ![k] = NoKick]
  /\ Goto(k, "idle")
  /\ UNCHANGED <<mem, ccb, late, quiet>>

-----------------------------------------------------------------------------
(* Fences, the firmware, and the end of the context. *)

(* pvr_fence_foreign_signal_sync. *)
ForeignSignal(c) ==
  /\ fence[c] = "foreign"
  /\ chk' = [chk EXCEPT ![c].ui32State = IF @ = "ACTIVE" THEN "SIGNALLED" ELSE @]
  /\ fence' = [fence EXCEPT ![c] = "dropped"]
  /\ UNCHANGED <<allocated, ctx, pool, deferred, th, kick, ccb, late, quiet>>

(* A fence that was closed and has signalled, or was rolled back, is       *)
(* released: pvr_fence_context_free_deferred calls SyncCheckpointFree.     *)
FreeFence(c) ==
  /\ At(Misr, "idle")
  /\ fence[c] = "fence" => chk[c].ui32State # "ACTIVE"
  /\ fence[c] \in {"fence", "dropped"}
  /\ fence' = [fence EXCEPT ![c] = "none"]
  /\ Unref(Misr, c)
  /\ UNCHANGED <<kick, ccb, late, quiet>>

(* The firmware runs the commands of a CCB in order: it waits for the      *)
(* fences, then signals the update, and counts what it is done with.       *)
Firmware(k) ==
  /\ ccb[k].known > 0
  /\ LET cmd == Head(ccb[k].cmds) IN
     \/ /\ cmd.stage = "wait"
        /\ \A c \in cmd.fence : chk[c].ui32State # "ACTIVE"
        /\ chk' = [c \in Checkpoints |->
             IF c \in cmd.fence THEN [chk[c] EXCEPT !.ui32FwRefCount = @ + 1] ELSE chk[c]]
        /\ ccb' = [ccb EXCEPT ![k].cmds[1].stage = "run"]
     \/ /\ cmd.stage = "run" /\ cmd.update # None
        /\ chk' = [chk EXCEPT ![cmd.update].ui32State = "SIGNALLED"]
        /\ ccb' = [ccb EXCEPT ![k].cmds[1].stage = "signalled"]
     \/ /\ cmd.stage = IF cmd.update = None THEN "run" ELSE "signalled"
        /\ chk' = [c \in Checkpoints |->
             IF c = cmd.update THEN [chk[c] EXCEPT !.ui32FwRefCount = @ + 1] ELSE chk[c]]
        /\ ccb' = [ccb EXCEPT ![k].cmds = Tail(@), ![k].known = @ - 1]
  /\ UNCHANGED <<allocated, ctx, pool, deferred, fence, th, kick, late, quiet>>

\* Mutant of ContextDestroy: the deferred list is not looked at.
ContextDestroy_NoDeferred ==
  /\ At(Unbind, "idle") /\ \A k \in Kickers : At(k, "idle")
  /\ quiet' = (/\ late = 0 /\ \A t \in Threads : At(t, "idle")
               /\ \A c \in Checkpoints : chk[c].hRefCount = 0 /\ (c \in deferred => Serviced(c)))
  /\ Goto(Unbind, "pool")
  /\ UNCHANGED <<mem, fence, kick, ccb, late>>

(* PVRSRVCommonDeviceDestroy, when no kick is left: SyncCheckpointContextDestroy. *)
ContextDestroy ==
  /\ At(Unbind, "idle") /\ \A k \in Kickers : At(k, "idle")
  /\ quiet' = (/\ late = 0 /\ \A t \in Threads : At(t, "idle")
               /\ \A c \in Checkpoints : chk[c].hRefCount = 0 /\ (c \in deferred => Serviced(c)))
  /\ Goto(Unbind, "check")
  /\ UNCHANGED <<mem, fence, kick, ccb, late>>

(* _CleanCheckpointPool: the pool's checkpoints go to a list under the     *)
(* lock and are then freed.                                                *)
CleanPool ==
  /\ At(Unbind, "pool")
  /\ th' = [th EXCEPT ![Unbind] = [@ EXCEPT !.pc = IF Pooled = {} THEN "read" ELSE "clean",
                                            !.work = Pooled, !.after = "read"]]
  /\ pool' = [pool EXCEPT !.Rp = (@ + pool.count) % PoolSize, !.count = 0,
                          !.full = @ /\ pool.count = 0]
  /\ UNCHANGED <<chk, allocated, ctx, deferred, fence, kick, ccb, late, quiet>>

CleanOne(c) ==
  /\ At(Unbind, "clean") /\ c \in th[Unbind].work
  /\ allocated' = allocated \ {c}
  /\ ctx' = IF allocated' = {} THEN [ContextUnref(ctx) EXCEPT !.block = FALSE] ELSE ctx
  /\ th' = [th EXCEPT ![Unbind].pc = "count", ![Unbind].work = @ \ {c}]
  /\ UNCHANGED <<chk, pool, deferred, fence, kick, ccb, late, quiet>>

(* With checkpoints left the call fails, and its caller forgets the        *)
(* context: nobody calls again.                                            *)
ReadCount ==
  /\ At(Unbind, "read")
  /\ ctx' = IF ctx.hCheckpointCount = 0 THEN ContextUnref(ctx) ELSE ctx
  /\ Goto(Unbind, "end")
  /\ UNCHANGED <<chk, allocated, pool, deferred, fence, kick, ccb, late, quiet>>

-----------------------------------------------------------------------------
ThreadStep(t) ==
  \/ Defer(t) \/ CountFreed(t) \/ CheckDeferred(t) \/ LeaveUnref(t)
  \/ \E c \in Checkpoints : Reclaim(t, c)

KickStep(k) ==
  \/ CreateFence(k) \/ CommitCommands(k) \/ ScheduleCommand(k)
  \/ RollbackCheckpoints(k) \/ DeRefCheckpoint(k) \/ FinaliseFence(k)

DestroyStep == CleanPool \/ ReadCount \/ \E c \in Checkpoints : CleanOne(c)

Next ==
  \/ \E t \in Threads : ThreadStep(t)
  \/ \E k \in Kickers : ResolveFence(k) \/ KickStep(k) \/ Firmware(k)
  \/ \E c \in Checkpoints : ForeignSignal(c) \/ FreeFence(c)
  \/ ContextDestroy \/ DestroyStep

Spec == Init /\ [][Next]_vars

(* Threads run on and the firmware works. *)
FairSpec ==
  /\ Spec
  /\ \A t \in Threads : WF_vars(ThreadStep(t))
  /\ \A k \in Kickers : WF_vars(KickStep(k)) /\ WF_vars(Firmware(k))
  /\ WF_vars(DestroyStep)

-----------------------------------------------------------------------------
Stages == {"idle", "create", "append", "schedule", "rollback", "deref",
           "defer", "reclaim", "count", "check", "leave", "pool", "clean", "read", "end"}

Command == [fence : SUBSET Checkpoints, update : Checkpoints \cup {None},
            stage : {"wait", "run", "signalled"}]

(* Type invariant; counts stay in their ranges. *)
TypeOK ==
  /\ chk \in [Checkpoints -> [hRefCount : 0..(Cardinality(Kickers) + 1),
                              hEnqueuedCCBCount : 0..(MaxEnqueued + Cardinality(Kickers)),
                              ui32FwRefCount : Nat,
                              ui32State : {"UNDEF", "ACTIVE", "SIGNALLED"},
                              listed : BOOLEAN]]
  /\ allocated \subseteq Checkpoints /\ deferred \subseteq Checkpoints
  /\ ctx \in [live : BOOLEAN, block : BOOLEAN, hRefCount : 0..(Cardinality(Threads) + 2),
              hCheckpointCount : 0..(Cardinality(Checkpoints) + Cardinality(Threads))]
  /\ pool \in [slot : [0..(PoolSize - 1) -> Checkpoints \cup {None}], Rp : 0..(PoolSize - 1),
               Wp : 0..(PoolSize - 1), count : 0..PoolSize, full : BOOLEAN]
  /\ fence \in [Checkpoints -> {"none", "foreign", "fence", "dropped"}]
  /\ th \in [Threads -> [pc : Stages, work : SUBSET Checkpoints, after : Stages]]
  /\ kick \in [Kickers -> [in : SUBSET Checkpoints, out : Checkpoints \cup {None}]]
  /\ ccb \in [Kickers -> [cmds : Seq(Command), known : Nat]]
  /\ \A k \in Kickers : ccb[k].known \in 0..Len(ccb[k].cmds) /\ Len(ccb[k].cmds) <= MaxCmds
  /\ late \in 0..MaxLate /\ quiet \in BOOLEAN

(* What the firmware has yet to do with a command. *)
StillUsed(cmd) == (IF cmd.stage = "wait" THEN cmd.fence ELSE {}) \cup ({cmd.update} \ {None})

InUse(c) == c \in allocated /\ chk[c].listed

(* While a command the firmware has yet to finish has the address of a     *)
(* checkpoint, the checkpoint is in use: it is not in the pool, freed, or  *)
(* made into another one.                                                  *)
CommandsKeepCheckpoints ==
  \A k \in Kickers : \A i \in DOMAIN ccb[k].cmds :
    \A c \in StillUsed(ccb[k].cmds[i]) : InUse(c)

(* The same for commands and for kicks in progress: hEnqueuedCCBCount goes *)
(* up before there is a command, and the last reference is compared with   *)
(* ui32FwRefCount.  It does not hold once a kick has been rolled back      *)
(* whose commands were already committed: `late' excepts these.            *)
HeldInUse ==
  late = 0 => CommandsKeepCheckpoints /\ \A k \in Kickers : \A c \in Used(k) : InUse(c)

Releasing(t) == IF At(t, "reclaim") \/ At(t, "count") \/ At(t, "clean") \/ At(t, "defer")
                THEN th[t].work ELSE {}

(* A checkpoint without a reference is in one place: waiting for the       *)
(* firmware, on the list of one thread that releases it, or in the pool,   *)
(* once; so no two threads release it, and hCheckpointCount counts it      *)
(* until it is freed.                                                      *)
OnePlace ==
  /\ Cardinality(Pooled) = pool.count
  /\ pool.full <=> pool.count = PoolSize
  /\ Pooled \cap deferred = {}
  /\ \A t \in Threads :
       /\ Releasing(t) \cap (Pooled \cup deferred) = {}
       /\ \A u \in Threads \ {t} : Releasing(t) \cap Releasing(u) = {}
  /\ \A c \in Pooled \cup deferred \cup UNION {Releasing(t) : t \in Threads} :
       c \in allocated /\ chk[c].hRefCount = 0
  /\ ctx.hCheckpointCount =
       Cardinality(allocated) + Cardinality({t \in Threads : At(t, "count")})

(* The context outlives every call that works on it, also one that runs    *)
(* while the device is unregistered: SyncCheckpointUnref takes a reference *)
(* for the list it checks last, and a block of checkpoints holds one.      *)
ContextOutlives ==
  ~ctx.live =>
    /\ allocated = {} /\ pool.count = 0 /\ deferred = {}
    /\ \A t \in Threads : th[t].pc \in {"idle", "end"}

(* When nothing was in use as the device was unregistered, the context and *)
(* what is in its pool and on its deferred list are freed: no caller will  *)
(* try again.                                                              *)
QuietContextFreed == quiet ~> ~ctx.live

=============================================================================
