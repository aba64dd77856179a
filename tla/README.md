# A TLA+ model of the IMG Rogue kernel driver

The repository is the Linux kernel driver (`services/`) of Imagination's
Rogue GPUs. The driver talks to a firmware on the GPU through rings in shared
memory, under a handful of locks, and most of what is hard about it is that the
firmware reads those rings, answers, interrupts and turns idle at any time.
This directory models that traffic: the modules are translated from the C
sources, checked with TLC on small instances, and the results that matter most
for every instance are proved with TLAPS.

## 1. The system

| Component | State it keeps | Operations | Interacts through |
|---|---|---|---|
| Client CCB (`devices/rgxccb.c`) | ring, host write offset, size, byte count, grow lock | acquire, release, grow, stall test | ring and control structure shared with the firmware; kicks |
| Kicks (`rgxta3d.c`, `rgxcompute.c`, `rgxkicksync.c`, ...) | one context's commands | acquire both rings, release, kick | client CCB, power lock, kernel CCB |
| Kernel CCB (`devices/rogue/rgxfwutils.c`) | ring, return slots, deferred list | send, defer, flush, wait for an answer | power lock; firmware; MISR |
| Power management (`rgxpower.c`, `rgxinit.c`, `power.c`) | device power state, power lock | active power request, power up/down, MISR | kernel CCB, firmware state |
| MMU (`mmu_common.c`, `rgxmem.c`) | page tables, cache flags, next sync value | map, unmap, invalidate, free later | kernel CCB, cleanup thread, GPU walks |
| Cleanup thread (`pvrsrv.c`, `env/linux/event.c`) | work list per device, counts, event object | add, signal, pass, retry, drop, wait for a device | callbacks of MMU, connections and others |
| PMRs (`pmr.c`, `devicemem_server.c`, `physmem_dmabuf.c`) | reference and lock counts, zombie lists | create, ref, unref, revive | cleanup thread, MMU flags |
| Stalled contexts (`rgxccb.c`, `rgxfwutils.c`) | earliest stalled CCB, its ordinal | check, recover a fence | watchdog, client CCBs, sync checkpoints |
| Transport layer streams (`tlstream.c`, `tlserver.c`) | ring of packets, read/write/pending offsets | reserve, commit, acquire, release data | writers, one reader, event objects |
| Handles (`handle.c`), connections | handle table, parents, reference counts | alloc, lookup, release, destroy | every bridge call |
| Sync checkpoints, fences (`sync_checkpoint.c`, `env/linux/pvr_*`) | checkpoint state and counts, pool | create, signal, error, free | firmware, kernel fences |
| Resource arenas, hash tables, heaps | sequential data structures | alloc, free, insert | their callers' locks |

The full list, with the parts that are not modelled and why, is `components` in
`PROJECT.json`.

What is hard here:

- two sides of a ring in shared memory with no common lock; a ring that doubles
  its size while the other side reads it;
- offsets and sync values that wrap;
- a lock that is dropped between sending a request and reading its answer;
- lists that are looked at before the lock that protects their use is taken;
- steps that fail after others took effect (a kick after a release, an
  invalidate after the flags were taken), and requests that time out and are
  answered later;
- memory that is freed on the other side of the GPU's caches.

`hazards` in `PROJECT.json` lists each at its line with the properties that
cover it.

## 2. Modules

| Module | Models | Abstract specification |
|---|---|---|
| `ClientCCB` | one client CCB with its submitting thread and the firmware | `CommandQueue` (as the property `DeliveredInOrder`) |
| `StallCheck` | the watchdog's stall test beside all of `ClientCCB` | |
| `KernelCCB` | the kernel CCB with clients, MISR, power management and firmware | `CommandFifo` (as the property `AcceptedInOrder`) |
| `MMUCleanup` | freeing page tables behind the MMU caches; sends through `CommandFifo` | |
| `TLStream` | a transport layer stream with its writers and its reader | `PacketStream` (as the property `Delivery`) |
| `TLNodes` | the life of a stream, its node and its descriptors, and the notification stream | |
| `SyncCheckpoints` | sync checkpoints between fences, kicks, the firmware, the pool and their context | |
| `Handles` | handle bases, the bridge calls that use them, and what a closed connection leaves | |
| `CleanupThread` | the cleanup thread, its lists, and devices and the driver going away | |
| `MC*` | instances for TLC | |
| `*_proofs` | theorems about each module above (`StallCheck` in `ClientCCB_proofs`), see section 4 | |

`MMUCleanup` does not repeat the ring: it uses the abstract `CommandFifo`, which
`KernelCCB` is proved to implement (`ImplementsFifo`). In the same way the cleanup thread is a
fairness assumption of `Handles` (an item that answers RETRY is tried again), and
`CleanupThread` shows where that holds.

### ClientCCB

`HostWriteOffset`, `Size`, `ByteCount`, `growLock` are the fields of
`RGX_CLIENT_CCB`; `ReadOffset` and `mem` are the memory shared with the
firmware; `kicks` are the KICK commands on their way and `fwWriteOffset`,
`fwWrapMask` what the firmware learnt from the last one. `pc` is the place of
the submitting thread: a context has one submitter at a time (the context lock
of the kick functions). One call of `RGXAcquireCCB` is `AcquireCCB`, then one
`TryContiguous` or `TryWrap` per turn of its loop, with `GrowTest`, `LockGrow`
and `Grow` between the two turns, because the read offset is read again for the
grow test. `WriteCommand`, `ReleaseCCB` and `Kick` follow, and `Abandon`,
`KickFail`, `CallAgain`, `GiveUp` are the ways a kick function or its caller goes
on after a failure. `checksSpace` says whether the call is the kick of a render context,
which first asks `RGXCheckSpaceCCB` (`CheckSpace`: RETRY, without growing, or on to
`RGXAcquireCCB`); its priority commands and the kicks of the other contexts do not.
Units of memory are the alignment of commands. A command's
first unit is its header; the others carry its identity, so that a command
overwritten in the middle is noticed. The firmware is external: it takes kicks
in order, reads commands up to the write offset of the last kick, skips PADDING
commands and writes the read offset.

`StallCheck` adds the watchdog, which samples mask and offsets under the grow
lock and reads byte count and size after it. The dependency offset it samples too is
the firmware's alone; it may be anywhere from the read offset to the last write offset the
firmware was given (`DepOffsets`, external). `LastWOff` starts with two
possible values because `RGXCreateCCB` never sets it.

### KernelCCB

Whoever sends holds the power lock, so there is one `stage`, `local` list and
`req` for all of them. `Schedule` is the entry of
`_RGXScheduleCommandAndGetKCCBSlot`; `MoveList`, `SendDeferred`, `Flushed`,
`PutBack` are `RGXSendCommandsFromDeferredList`; `SendOwn`, `FindFull`,
`DeferOwn`, `FailOwn` are the rest of `RGXSendCommandAndGetKCCBSlot`. A cleanup
command waits for its slot without the lock (`WaitForKCCBSlotUpdate`,
`WaitTimesOut`) and reads it again (`ReadAnswer`). Two histories tell whose the answer
in a slot is: `answer[t]` is what the firmware answered to the last command of `t`, and
`reused[t]` says that the ring entry of that command, and with it its slot, was given to a
later command before `t` has read it. The MISR is
`RGX_MISRHandler_CheckFWActivePowerState`, or, without active power
management, the end of `RGX_MISRHandler_Main`; `TryPowerLock` to
`PowerOffTimesOut` are `RGXActivePowerRequest` and `RGXPrePowerState`. The
firmware answers every command in its slot, grants a power-off request when no
command follows it, and may deny it.

### MMUCleanup

A table is linked, unlinked (entry cleared), flagged (`sCacheFlags` set) and
freed. Senders take the flags under the power lock and send an invalidate with
the next sync value; a client sends its kick after it. The cleanup thread asks
for an invalidate of its own, waits for the value it was given and frees the
table. The GPU may walk every linked table at any time and keeps what it finds
until the firmware executes an invalidate. `cached` is what it keeps, `need` the
tables that were out of the tree when a kick's sender took the power lock,
`forced` the tables freed without waiting, on purpose (no memory for a cleanup
item, the time-out, the context destroyed).

### TLStream

The variables are the fields of `TL_STREAM`; offsets and sizes are in units of 8
bytes, the size of a header. `loc` holds the local copies of a writer:
`DoTLStreamReserve` takes them under the stream lock in `Reserve` and works on
them without it. From there a writer goes to `WriteHeader`, or, without room, to
`LookAgain` (blocking), `LockRead` and `DropOldest`, or `Refuse` (a WRITE_FAILED
packet), by the mode of the stream. `Fill` is the copy of the data and
`TLStreamCommit` the commit. The reader opens, which may reset the stream or
limit what it reads, and acquires and releases runs of packets
(`TLServerAcquireDataKM`, `TLServerReleaseDataKM`); between the two it reads the
buffer itself. `AcquireNothing` and `FindNothing` are the two halves of an acquire
that finds the stream empty, because a drop-oldest writer sees the read as pending
in between. The buffer keeps every header and whose data each unit holds, so a
packet overwritten in part is noticed. `Opens` says with which flags a stream of
each mode is opened. The assumption `Size >= 15`
is what a reserve that waited needs to find its room: in streams below 120 bytes
the largest packet can find no place in an empty buffer.

### TLNodes

`psHead` is the node the list of streams has for the stream's name, `node` the
`TL_SNODE`s and what is left of their streams, `desc` the descriptors of clients;
several clients that only write share one descriptor. What a client does under
`hTLGDLock` in one go is one step. The lock is a variable because the OPEN and
CLOSE packets of the notification stream are written under it (`markOpen`,
`markClose`): `MarkReserve` may have to wait for that stream's reader (`CtrlAcquire`
to `CtrlDie`), which is why `LockReturned` is not obvious. `GetNode` and
`TLReturnStreamNode` are the find-and-get and the give-back around every use of a
stream by its descriptor; `Unref` is `TLUnrefDescAndTryFreeStreamNode`, after which
the one who removed the node destroys the stream without the lock.

### SyncCheckpoints

`chk` holds the counts and the state of `SYNC_CHECKPOINT` and its firmware object,
`ctx` the counts of the context and of its block of memory, `pool` the ring of
unused checkpoints with its indices and `full` flag, `deferred` the deferred list.
`fence` says who has the reference a checkpoint was created with. A kick goes
through `ResolveFence`, `CreateFence`, `CommitCommands` and `ScheduleCommand`, or
back through `RollbackCheckpoints`, and drops its input references one by one
(`DeRefCheckpoint`). A call of `SyncCheckpointUnref` is `Unref`, then `Defer` or
`Reclaim`, `CountFreed`, `CheckDeferred` and `LeaveUnref`, because each takes another
lock. The firmware is external: it counts `ui32FwRefCount` up when it is done with
a fence or an update. The destruction of the context (`ContextDestroy` to
`ReadCount`) follows the last kick but runs beside the release of fences. A place of
`Checkpoints` is a suballocation, which is used again; the block goes with the last.

### Handles

`slot`, `bCanLookup` and `iLookupCount` are of `HANDLE_DATA`; `made`, `releases` and
`busy` are of the resource behind a handle. A bridge call is `Lookup`, `Use` or
`Create`, `AllocHandle` and `ReleaseHandle`; a destroy call is `Mark` (under the
lock), `ReleaseData` (without it) and `FreeDestroy` or, after RETRY, `KeepAlive`; after
another error (`ReleaseError`) the handle stays marked. The
cleanup thread destroys a connection's data: it drops its reference to the process
base, frees that base with the last one, then the connection's own, type by type in
the order of `g_aeOrderedFreeList`, and begins again after an error of any kind. The instance has
a dataset that uses a free list, a sync block with a sub-handle, and a local import
in the process base that a second connection can reach.

### CleanupThread

`list` are the work lists of the devices and of the host memory device. A caller
adds an item in three steps (`AddWork`, `AddToTail`, `Signal`), between which the
thread may do anything. The thread's local variables have their names in the code: a
pass (`StartPass`) fixes `psNodeLast`, pops items one at a time (`WorkListPop`, round
robin over the lists) and runs them without a lock (`Freed`, `NotFreed` and
`PutBack`, `Drop`), until `psNodeLast`. `Wait` is the event object's: a signal that
came since the last wait ends it at once. `DeviceDestroy`, `WaitForDevice`,
`RemoveDevice`, `Unload`, `StopThread` are the end of a device and of the driver. The
variables of a pass are reset at its end because they go out of scope.

## 3. Runs

| Run | Shows | Bounds |
|---|---|---|
| `client_ccb` | the safety of one ring, that it implements `CommandQueue`, that kicked commands are executed and a caller who retries is served | sizes 8 and 16, commands of 2 and 5 units, header of 2, identities modulo 6, 2 kicks in flight |
| `stall_check` | the sample is consistent; a stuck ring is found | sizes 4 and 8, commands of 2 units, header of 1, byte count modulo 16 |
| `kernel_ccb` | FIFO; a caller goes on with the answer to its own command | 2 clients, ring of 2 (1 usable entry), 1 deferred command, identities modulo 4 |
| `kernel_ccb_apm` | powered off only when drained; deferred commands are sent in the end, with power management and without | 1 client, which without power management keeps pinging, ring of 4, 1 deferred command, the power-off poll does not time out |
| `mmu_cleanup` | stale entries are covered; a given value means executed | 2 tables, 1 client, sync values modulo 8, 2 commands in flight |
| `tl_stream` | whole packets in order, what is held is not touched | 2 writers, buffer of 15 units, packets of 5 and 6 units (7 is refused), identities modulo 3, all modes; readers reset streams that lose packets and limit those that keep the oldest |
| `tl_stream_live` | every reserve returns | as above with packets of 6 units |
| `tl_nodes` | an open stream stays, nothing is left, the lock comes back | 2 writers, 1 reader, the creator, 1 packet in the notification stream |
| `sync_checkpoints` | checkpoints in use stay, free ones are in one place, the context goes last and goes | 1 kicking context, the releasing thread, the unbinding thread, 2 checkpoints, a pool of 1, 2 commands in the ring, each checkpoint in up to 2 of them at once, so that the output of one kick is an input of the next, 1 late failure |
| `handles` | what a call holds stays, what another resource uses goes after it, what is left behind is released | 2 connections, 3 threads, 5 handles, the dataset may be busy in the firmware and its release may fail once with an error other than RETRY |
| `cleanup_thread` | items are in one place and handled | 3 items on one list (of a device or of the host), at most 1 retry, 1 of them depends on the hardware, the wait for a device may time out, one more round on unload |
| `cleanup_wait_for_device` | expects a violation: a device is freed under a callback | as above, on a device's list, the wait does not time out |

The exact constants are in the `.cfg` files. A ring of 8 units that doubles to 16
with commands of several sizes reaches every branch of `RGXAcquireCCB`: it wraps
before and after the grow, is padded by one unit and by several, fills up, and
grows with commands unread. `RetryServed` speaks of commands that fit wherever the write
offset is: those of 2 units in the ring of 8, all in the ring of 16. A kernel ring with one usable entry is full after
one command, so deferring, putting back and waiting happen all the time, and
identities modulo 4 tell apart the at most three commands outstanding. Sync
values modulo 8 wrap several times with two invalidates in flight, and the
constants keep the order of the real ones (the start value lies just below the
wrap and further from 0 than `Far`).

A stream of 15 units is the smallest that takes its largest packet at any offset.
It holds two packets; padded and refused packets move the offsets to every unit, so
a packet ends at, just before and past the end of the buffer.

Two writers are enough for a shared descriptor to be closed by one while the other
opens it, and one packet makes the notification stream full at once. A pool of one
checkpoint is empty and full in turn, so checkpoints come from and go to both the
pool and the block. Three items let one be added, one be popped and one be last in a
pass at the same time; one retry is enough to be put back and to be dropped.

Every property of a passing run has a mutant in `PROJECT.json`: a definition
`X_Something` before `X`, as a plausible mistake in the code would make it, under
which the run finds the property violated.

### Where the code differs from what is said of it

One run expects a violation, `cleanup_wait_for_device`: the wait for a device's items
"to be cleaned" looks at the device's list only, and an item whose callback is
running is on no list (`findings` quotes the lines).

The others were met while modelling. Their properties are in the modules, and each
can be seen by giving TLC the property with the constants named here:

- `ClientCCB`: a command may pass the test for CMD_TOO_BIG (`rgxccb.c:1088`) and still
  fit nowhere, even in an empty ring that cannot grow; the caller is told to retry
  for ever. So is the caller of a render-context kick whose command needs a larger ring:
  `RGXCheckSpaceCCB` refuses it (`rgxta3d.c:3740`) before `RGXAcquireCCB` could grow the
  ring. `RetryServed` excepts such commands; without the exception it fails in the run,
  and for the first reason with `Sizes = {8}`, `VirtualAllocSize = 0`.
- `KernelCCB`, `FreedOnlyAsAnswered`: whoever waits for a cleanup command has given the
  power lock back, and reads its slot twice (`rgxfwutils.c:5390-5395`). Once the firmware
  has read the command, its ring entry may go to a later one, whose answer the caller then
  takes for its own, although the slot is reset so that one "doesn't get to see stale/false
  value in allotted slot" (`rgxfwutils.c:3948`). A caller told BUSY may so free what the
  firmware works on. `FreedAsAnswered` excepts these callers (`reused`).
- `KernelCCB`, `PowerOffDrained` with `PollTimesOut = TRUE`: a power-off request that
  the firmware grants after its time-out races with the commands that follow
  (`rgxpower.c:330`), which "are detected by the FW" according to line 1497.
- `MMUCleanup`, `FreedNotCached`: `RGXMMUCacheInvalidateKick` gives no value to wait for
  when another sender took the cache flags (`rgxmem.c:253`), so the cleanup thread may
  free a table before the invalidate was executed, although it retries "until the
  invalidate has been executed" (`mmu_common.c:353`).
- `TLStream`, `WrittenStays` with `NoWrap = TRUE`, `Modes = {"dropNewer"}` and
  `Opens <- PlainOpens`: a permanent stream filled to its last byte wraps and is overwritten (`tlstream.c:1017`), which `tlstream.h:147` excludes.
  The capture streams of `pdump_server.c` are such streams.
- `TLNodes`, `DescFreedOnce`: the last of two writers that share a descriptor frees it
  "if ref count reaches 0", but the count is read after the lock was dropped
  (`tlserver.c:331`), so both may. And a client that dies holding data of the
  notification stream leaves `bReadPending` set (`tlserver.c:265`): the next writer that
  has to drop a packet waits for ever under the global lock, unless the stream was open
  for reading again. `LockReturned` excepts this (`Orphaned`).
- `SyncCheckpoints`, `CommandsKeepCheckpoints`: after "we can't fail" (`rgxkicksync.c:621`)
  `RGXScheduleCommand` may (line 671), and the roll-back takes back the references of
  commands that stay in the client CCB; the same in `rgxcompute.c:1144`. `late` excepts
  these kicks from `HeldInUse`.
- `Handles`: a destroy whose release function fails with an error other than RETRY leaves
  the handle marked (`handle.c:1572`), so that no later destroy finds it, and the purge
  frees it without its resource. If that resource keeps another one in use, the other's
  release answers RETRY for ever, and the handles of later types in the base are not
  released either: `ClosedReleased` without its last conjunct (`Stranded`) fails. Before
  the purge frees the handle it asserts that it is not marked (`handle.c:1869`).
  And a handle whose sub-handle is looked up is marked by the destroy that
  fails; "the user space should retry freeing this handle" (`handle.c:1416`), but every
  retry finds no handle, and the resource is not released when the base is freed.
  With `Kicked = {import}` a RETRY from the process base takes the reference count of
  that base below zero (`connection_server.c:96` expects RETRY there), so `TypeOK` fails.
- `CleanupThread` with `Placements <- MCTwoLists`, `EverythingHandled`: once the round
  robin is at the host's list it skips all devices while the host has items, contrary
  to "We prevent starvation" (`pvrsrv.c:435`); and a pass ends at its last item with
  items of other lists left, whose signals it has taken, contrary to line 337.
  `i32NumCleanupItemsNotCompleted`, the "number of items dropped" (`pvrsrv.h:144`), is
  counted down.

Flags of a stream's reader that the passing runs leave out, because the code does
not keep its promises with them: a read limit on a drop-oldest stream (the reader
that reaches it returns with `bReadPending` set, and the limit, an offset of the
time of opening, need not lie on a packet once packets were dropped), a reset
together with a limit (the limit is not reset), and a reset of a blocking stream
(`TLStreamReset` waits for a reserve that waits for the reader). `hazards` has
their lines.

### Fairness

Safety runs assume none. `ClientCCB!Fairness` says that the submitting thread,
once in a call, goes on (the code has no blocking step but the grow lock, which
is held for a few statements; `CheckSpace` has none), that a caller told to retry calls again (the
bridge returns to user space, which does), and that the firmware keeps taking
kicks and reading commands. Nothing forces a caller to submit, give up or
abandon, and nothing prevents failures. `KernelCCB!Fairness` assumes the same of
whoever holds the power lock and of the firmware, strong fairness of the MISR
taking the power lock (a kernel mutex is handed to a waiter), and, only without
active power management, that the watchdog keeps sending its health-check
command, as its thread does periodically. `TLStream!Fairness` lets writers in a
call and the reader go on, with a client that opens the stream again and again
without flags and one that has come to its limit closing; a drop-oldest writer
gets the read lock in the end because a reader that found the stream empty sleeps
(168 ms at a time) with no read pending.

`TLNodes!Fairness` lets a thread in a call go on and the reader of the notification
stream release what it acquired, no more: it need not acquire, and nobody need close.
In `SyncCheckpoints` threads in a call run on and the firmware works; nobody need kick
or close a fence, and foreign fences need never signal. In `Handles` the firmware
finishes its work, and the cleanup thread takes every closing connection again and
again, whatever error it met (`SF(PurgeStart)`; `pvrsrv.c:556`), which is what `EverythingHandled` shows of its list, as long
as the retries (they last minutes) are not used up. In `CleanupThread` the thread runs
and a caller that counted an item goes on to list it and to signal.

## 4. Proofs

Each theorem below holds for every value of the constants that meets the assumptions
its module names (`SizesAssumption`, `HandlesAssumption`, ...), which TLC evaluates in the
runs. Those assumptions say what the code fixes at compile time or what every instance
of the driver is like: rings are powers of two, a command has at least a header, the
sets of threads and objects that are counted are finite. Three groups of theorems have a
hypothesis besides, where the code does not keep a promise otherwise (section 3):
`~PollTimesOut` for `PoweredOffDrained`, `ProcessNeverRetries` for `Handles`, and
`WellOpened` for the packets of `TLStream`. Every proof has the same
shape: an inductive invariant `IInv`, a lemma for the initial states, one lemma per
action (or per conjunct, in `MMUCleanup_proofs`), and temporal steps at the end.

| Module | Theorem | Property |
|---|---|---|
| `ClientCCB_proofs` | `TypeCorrect`, `PaddingHasRoom`, `GrowsAtMostOnce`, `CommandOffset`, `UnreadStays` | `TypeOK`, `RoomForPadding`, `GrowsOnce`, `CmdOffsetRight`, `UnreadIntact` |
| | `ImplementsQueue` | `DeliveredInOrder`: `ClientCCB` implements `CommandQueue` |
| | `SampledInRing`, `StuckRingIsFound` | `SampledOffsetsValid`, `StuckIsFound` of `StallCheck` |
| `KernelCCB_proofs` | `TypeCorrect`, `FreedAsTold`, `PoweredOffDrained` | `TypeOK`, `FreedAsAnswered`, `PowerOffDrained` |
| | `ImplementsFifo` | `AcceptedInOrder`: `KernelCCB` implements `CommandFifo` |
| `MMUCleanup_proofs` | `TypeCorrect`, `Covered`, `KicksAreFlushed`, `GivenValueHolds` | `TypeOK`, `StaleIsCovered`, `KickSeesNoStale`, `GivenValueExecuted` |
| `TLStream_proofs` | `TypeCorrect`, `OnlyWholePackets`, `HeldIsSafe`, `HeldOffset` | `TypeOK`, `UnreadWhole`, `HeldUntouched`, `HeldOffsetStays` |
| | `ImplementsStream` | `Delivery`: `TLStream` implements `PacketStream` |
| `TLNodes_proofs` | `TypeCorrect`, `NodeLives`, `NothingRemains` | `TypeOK`, `OpenNodeLives`, `NothingLeft` |
| `SyncCheckpoints_proofs` | `TypeCorrect`, `ReleasedOnce`, `ContextLives`, `UsersHold` | `TypeOK`, `OnePlace`, `ContextOutlives`, `HeldInUse` |
| `Handles_proofs` | `TypeCorrect`, `HeldResources`, `PinnedResources` | `TypeOK`, `HeldLives`, `UsedOutlives` |
| `CleanupThread_proofs` | `TypeCorrect` | `TypeOK`, which says that an item is in one place and is counted |

### The client CCB

None of the properties is inductive. `CallInv` adds what the submitting thread knows at
each place of a call: the command's size passed the test for the ring (`CallSized`),
how many turns are left at which place (`TurnsLeft`), that the grow branch is reached
only with a command that does not fit (`GrowPath`), that on the second turn the ring
has doubled and the command therefore fits before its end (`SecondTurnFits`), and that
a command that wraps ends before the place it left (`WrapEndsBefore`), because the
space test leaves one unit free.

The contents of the ring need `ContentsInv`. `Layout` says where the unread commands lie:
apart from one another, each after the one before it, with at most one lap from the
read to the write offset; `SpaceReserved` that what a call was given holds nothing unread;
`CommandWritten` that what was written there is whole when it is released;
`GrowsStraight` that the ring grows only while no unread command lies beyond the
write offset, which is why doubling it moves none; and `HandedOver` that each kick on its way
carries an offset and a wrap mask under which a prefix of the unread commands is what
the firmware reads, although the ring may have grown since. From these,
`UnreadIntact` is kept by every step, and `ImplementsQueue` maps each step: a release
appends to the queue, a kick hands over all that was released, executing a command
removes the first, everything else (padding, growing, failing, retrying) stutters.

`StallCheck` leaves the ring as it is, so both invariants hold there too, and
`WatchdogInv` adds the watchdog's side: who has the grow lock (`GrowHoldsLock`,
`SampleHoldsLock`), that a sampled read offset is the ring's until the firmware reads
(`SampledIsNow`), and `StillThere`: while the firmware has read nothing, the bytes
counted since the last test, modulo the range of the counter, are at most those that
lie unread in the ring. A release adds the same to both, a grow moves neither
because nothing lies beyond the write offset, and what is unread is less than the ring.
That a dependency offset lies in the ring of the sampled mask (`DepInRing`) follows from
the same: what the firmware was told of lies in the ring as it is.

### The kernel CCB and the MMU

`LockOwner` says who holds the power lock and where that thread is then, `ListsTaken`
that a sender has emptied the deferred list before it sends its own command, and
`AnswersComing` that the command of a client that waits is unread in the ring or has been
answered, and that, while its entry has not gone to a later command, its slot shows
exactly that answer or, before it, nothing (`ReusedMarked` places the marks of `reused`). This carries
`FreedAsTold`, and `ImplementsFifo` over the concatenation of
ring, taken list and deferred list. `PoweredOffDrained` assumes `~PollTimesOut`: with a
time-out the property is false (section 3). Under it there is one power-off request at
most, the last in the ring, awaited by the MISR (`OneRequest`), no request is ever
deferred (`NotInTheLists`), and the firmware that granted one finds nothing (`Drained`).

In `MMUCleanup` what the GPU keeps of a table out of the tree is covered by the flags, by
what a sender took, or by an invalidate in the queue (`StaleIsCovered`, inductive with
`Phases` and `OutsideTree`). `KicksFlushed` places an invalidate before each kick that
needs one. For the values, `SyncRuns` says that the invalidates in the queue carry
consecutive values from the one the firmware wrote last, and `GivenCovered` that a value
given to the cleanup thread is among them or was passed; the comparison of values that
wrap is right because the queue is short against the range (`QueueIsShort`).

### Streams, handles, checkpoints, cleanup

`HeldOffset` relates the two sides of the hand-shake: a writer that drops packets has the
read lock and no read is pending (`DropperHasLock`); a reader at work on a drop-oldest
stream is pending, and where it began (`ReaderIsPending`). It needs no more of the ring,
so it holds for streams without wrapping and readers with limits as well.

The other theorems of `TLStream` are about the packets in the buffer, for every size of
buffer and packet and any number of writers. Their hypothesis `WellOpened` leaves out what
section 3 says does not work: streams that do not wrap, a limit on a stream that drops the
oldest packets, a limit together with a reset. `PacketsInv` is the invariant. There is a set
of offsets, a `Chain`: from the read offset each unread packet is whole and ends where the
next begins, the last at the write offset, within one lap; where the reader has to stop is
one of them (`Stops`). `Spare` says that two units stay free between the write and the read offset, or one
after a packet marked as refused; `WriterShape` that one
writer is at work, and that what it knows of the read offset is old but safe, since the read
offset only moves on; `NewPacket` that its packet fits where it is put and has its header
before it is committed; `CellsFit` that no header, old or new, claims more than is left of
the buffer. Each action keeps the chain, adds a packet at its end (a commit, padding) or
takes packets from its beginning (advance, drop, reset).

The functions that follow headers (`Run`, `Parts`, `ReadAfterDrop`) are related to chains in
two ways. `RunIn` is `Run` with the buffer as a parameter; over a chain it does not depend on
how many steps it is allowed, is unchanged by whatever leaves the chain's units alone
(a writer only writes outside), and splits at each packet of the chain (`RunJoin`, `RunRest`,
`RunAppend`). `Reach` is the smallest set that contains an offset and with each packet the next, which
is what dropping and acquiring walk over. Where an induction is needed it is made by taking the
least number for which the claim fails, as the theorems on induction take an operator as
parameter. `ImplementsStream` maps a commit to an append of its packet, drops and resets to the
loss of the oldest packets, an acquire and a release to the client's, and the rest to stutters;
`HeldIsSafe` follows because what a writer writes lies on the part of the buffer that is free.

`TLNodes` counts: whoever has a stream open points to the listed node (`InsidersPoint`),
whose count is its creator plus its writers plus the uses in progress, and whose
descriptors count theirs (`HeadCounts`); a node off the list is held by the thread that
is about to destroy it, or free (`UnlistedNodes`), and so is a descriptor that is no
longer the node's (`Descriptors`).

`Handles` says what a lookup count means: it is the number of calls that hold the handle
(`LookupsCounted`); a handle is made or destroyed by one call at a time (`OneAtATime`), which nobody
else can look up meanwhile (`MakersAlone`, `MarkedAlone`); what can be looked up has its
resource (`FoundLives`), what a resource uses is there (`PinsHeld`), and the process base
counts its connections (`BaseCounted`). `HeldResources` and
`PinnedResources` need no assumption on failures. `TypeCorrect` assumes
`ProcessNeverRetries`: releasing a handle of the process base (imports and exports of
PMRs, the info page, timelines and fences) does not fail, with RETRY or otherwise, as is so
today, although `connection_server.c:96` is prepared for it; with a failure the count of the
base goes below zero (section 3).

`SyncCheckpoints` counts as well: `hRefCount` is the number of kicks that use the
checkpoint as an input plus the reference it was made with (`RefsCounted`), the
context counts the allocated checkpoints plus those a thread has given back and not
counted yet, and is referred to by its owner, by its block of memory and by every call
in progress (`ContextCounts`), `hEnqueuedCCBCount` is bounded by what kicks can enqueue
(`EnqueuedBounds`), and, unless a kick failed late, it is the firmware's count plus the
commands in the ring and the kicks being rolled back (`CommandsCounted`). `PoolShape` relates the ring of unused checkpoints, its two indices
and the `full` flag, and `Places` says that a checkpoint without a reference is in one of
pool, deferred list and the hands of one thread. `UsersHold` needs nearly all of it.

`CleanupThread`: `OneHome` says that an item that is not done with is with its caller, at
one place of one list, or with the thread, and an item that is done with nowhere;
`Counts` that the first counter is the number of items not done with, and that the second
lies below 0 by at most the number of dropped ones. The round robin picks the next list
that has items, for which the proof first shows that a nonempty set of numbers has a
least and, if bounded, a greatest element.

### What the proofs showed

The bound of `hCheckpointCount` that was first stated (twice the number of
checkpoints) holds for one kicking context only and is wrong for more, and
`TypeOK` now states the right one. `Handles!TypeOK` and `PowerOffDrained`, which
the runs check under fixed constants, turned out to depend on them; the theorems name the
conditions. `MMUCleanup` needs that fewer invalidates are in the queue than sync values
lie between two that compare as ordered, which the instances had and no assumption said.

### Only model-checked

Liveness (`KickedCommandsExecuted`, `RetryServed`, `DeferredSent`, `ReserveReturns`,
`LockReturned`, `QuietContextFreed`, `ClosedReleased`, `EverythingHandled`), because fairness
and `ENABLED` are out of the prover's reach. `cleanup_wait_for_device` shows a violation,
so there is nothing to prove. Every other property of the runs has its theorem.

## 5. Not modelled

Command contents and what the firmware does with them; PDUMP, NO_HARDWARE and
validation builds; system suspend, forced idle and de-initialisation; guest
drivers; the register level. The firmware is not in the repository: its actions
say only what the driver's code relies on. In `KernelCCB` the command that
`RGXPreKickCacheCommand` may send before a kick is left out (it is the subject of
`MMUCleanup`). `TLStream` leaves out producer callbacks, the signal
that wakes a reader (it looks again every 168 ms anyway) and a writer that resets
a stream it opens. In `MMUCleanup` a table is used once, and a command in the queue
is never lost, which is what `KernelCCB` shows of the ring. `TLNodes` has one stream of
one name, and of a stream's content nothing. Left out there because no stream of the driver
gets to it: the wait of `TLStreamClose` for an empty stream (`tlstream.c:581`), which takes
`TL_FLAG_FORCE_FLUSH`, and the end of a failed open after its descriptor is linked
(`tlserver.c:246`), which takes a buffer that is a suballocation (`devicemem.c:2338`; a
stream's never is). The unlocked look at the list in `TLServerCloseStreamKM` is one step
with the locked part, since the node of an open descriptor stays (`OpenNodeLives`).
`SyncCheckpoints` leaves out the values of
sync primitives, timelines, the state ERRORED and the fences that user space holds
several times; a kick that runs out of memory for its update values after its output fence
was made (`rgxkicksync.c:391`) is left out because the back end that is modelled gives no
timeline sync (`pvr_sync_file.c:382`; `pvr_sync2.c` would, and its fence is then not rolled
back); `MaxEnqueued` bounds how often a checkpoint is waited for. `Handles`
allocates every handle once, gives a handle at most one sub-handle (as the bridges do)
and leaves out numbers, batches and the kernel's base. `CleanupThread` leaves the time a
retry may take as a number of tries, and the driver in a bad state out.

The registers' headers, the tables of the hardware, the generated bridges and the
display drivers under `kernel/` are most of the repository and hold no protocol; the
volcanic files repeat the rogue ones for another family.

## 6. Plan

1. `StalledContexts`: the choice of the earliest stalled fence over several CCBs,
   its ordinals that wrap, and the recovery beside a context that is freed.
2. `PMR`: reference and lock counts, zombies that are revived; over the cleanup
   thread and the invalidate values of `MMUCleanup`.
3. `Power`: forced idle, suspend and the power lock over `KernelCCB`.
4. Changing the mode of a `TLStream`; fence contexts and timelines over
   `SyncCheckpoints`.
