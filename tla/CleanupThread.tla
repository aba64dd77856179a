--------------------------- MODULE CleanupThread ---------------------------
(***************************************************************************)
(* The driver's cleanup thread (server/common/pvrsrv.c): the lists of work *)
(* that every device, and the host memory device, keeps for it, the        *)
(* threads that add work and signal it, its passes over the lists, and the *)
(* destruction of a device, which waits for its list to be empty.          *)
(*                                                                         *)
(* What a callback does is left open: it succeeds, or answers that it must *)
(* be tried again.  A retry count and a retry time are both a number of    *)
(* tries here, chosen when the item is added.  The thread sleeps without a *)
(* limit when it has nothing to retry (8 hours, or                         *)
(* PVRSRV_SERVER_THREADS_INDEFINITE_SLEEP).                                *)
(***************************************************************************)
EXTENDS Integers, Sequences, SequencesExt, FiniteSets

CONSTANTS
  Items,             \* PVRSRV_CLEANUP_THREAD_WORK; an item freed may be added again
  None,
  DeviceList,        \* psDeviceNodeList
  Host,              \* psHostMemDeviceNode
  Placements,        \* choices of the device of every item
  HwItems,           \* items with bDependsOnHW
  MaxRetries,        \* bounds the tries of an item
  UnloadRetry,       \* CLEANUP_THREAD_UNLOAD_RETRY
  FlushTimesOut      \* the wait for a device's items may run out of time

Devices == Range(DeviceList)

ASSUME CleanupAssumption ==
  /\ IsFiniteSet(Items) /\ None \notin Items
  /\ DeviceList \in Seq(Devices)
  /\ Placements \subseteq [Items -> Devices \cup {Host}]
  /\ MaxRetries \in Nat /\ UnloadRetry \in Nat

VARIABLES
  devOf,             \* the placement, chosen at the start
  list,              \* sCleanupThreadWorkList of each device
  status,            \* of an item: "out", "queued" (until it is done with) or "dropped"
  adder,             \* the thread in AddWork with it: "no", "counted", "listed"
  ui32RetryCount,
  i32NumCleanupItemsQueued,
  i32NumCleanupItemsNotCompleted,
  signalled,         \* hCleanupEventObject was signalled since the last wait
  device,            \* "up", "waiting" (for its items), "leaving", "gone"
  bUnload,
  pc,                \* the cleanup thread, with its variables:
  bRetryWorkList, bUseGlobalEO, uiUnloadRetry,
  psNodeLast, psDeviceNode, psNodeIter, bNeedRetry

work   == <<list, status, ui32RetryCount>>
counts == <<i32NumCleanupItemsQueued, i32NumCleanupItemsNotCompleted>>
loop   == <<bRetryWorkList, bUseGlobalEO, uiUnloadRetry>>
pass   == <<psNodeLast, psDeviceNode, psNodeIter, bNeedRetry>>
env    == <<devOf, device, bUnload>>
vars   == <<work, adder, counts, signalled, env, pc, loop, pass>>

Init ==
  /\ devOf \in Placements
  /\ list = [d \in Devices \cup {Host} |-> <<>>]
  /\ status = [i \in Items |-> "out"]
  /\ adder = [i \in Items |-> "no"]
  /\ ui32RetryCount = [i \in Items |-> 0]
  /\ i32NumCleanupItemsQueued = 0
  /\ i32NumCleanupItemsNotCompleted = 0
  /\ signalled = FALSE
  /\ device = [d \in Devices |-> "up"]
  /\ bUnload = FALSE
  /\ pc = "loop"
  /\ bRetryWorkList = FALSE
  /\ bUseGlobalEO = FALSE
  /\ uiUnloadRetry = 0
  /\ psNodeLast = None
  /\ psDeviceNode = None
  /\ psNodeIter = None
  /\ bNeedRetry = FALSE

(***************************************************************************)
(* Adding work: count the item, put it on the list, signal the thread.     *)
(***************************************************************************)
Running(d) == psNodeIter # None /\ devOf[psNodeIter] = d

\* Once a device is being destroyed only a callback of its own items adds
\* to its list.
MayAdd(d) ==
  d # Host => device[d] = "up" \/ (device[d] = "waiting" /\ Running(d))

AddWork(i, tries) ==
  /\ ~bUnload
  /\ adder[i] = "no" /\ status[i] = "out" /\ MayAdd(devOf[i])
  /\ adder' = [adder EXCEPT ![i] = "counted"]
  /\ status' = [status EXCEPT ![i] = "queued"]
  /\ ui32RetryCount' = [ui32RetryCount EXCEPT ![i] = tries]
  /\ i32NumCleanupItemsQueued' = i32NumCleanupItemsQueued + 1
  /\ UNCHANGED <<list, i32NumCleanupItemsNotCompleted, signalled, env, pc, loop, pass>>

\* The thread may have quit: the callback is run at once, and only once.
FreeAtOnce(i) ==
  /\ bUnload
  /\ adder[i] = "no" /\ status[i] = "out" /\ MayAdd(devOf[i])
  /\ status' = [status EXCEPT ![i] = "dropped"]
  /\ UNCHANGED <<list, ui32RetryCount, adder, counts, signalled, env, pc, loop, pass>>

AddToTail(i) ==
  /\ adder[i] = "counted"
  /\ list' = [list EXCEPT ![devOf[i]] = Append(@, i)]
  /\ adder' = [adder EXCEPT ![i] = "listed"]
  /\ UNCHANGED <<status, ui32RetryCount, counts, signalled, env, pc, loop, pass>>

Signal(i) ==
  /\ adder[i] = "listed"
  /\ signalled' = TRUE
  /\ adder' = [adder EXCEPT ![i] = "no"]
  /\ UNCHANGED <<work, counts, env, pc, loop, pass>>

(***************************************************************************)
(* The thread's loop.                                                      *)
(***************************************************************************)
LoopTop ==
  /\ pc = "loop"
  /\ IF bUnload /\ (list[Host] = <<>> \/ uiUnloadRetry > UnloadRetry)
     THEN pc' = "ended" /\ UNCHANGED uiUnloadRetry
     ELSE /\ pc' = "wait"
          /\ uiUnloadRetry' = IF bUnload THEN uiUnloadRetry + 1 ELSE uiUnloadRetry
  /\ UNCHANGED <<work, adder, counts, signalled, env, bRetryWorkList, bUseGlobalEO, pass>>

\* With something to retry the wait is a short one; for items that depend on
\* the hardware it is on the global event object, and a signal stays pending.
Wait ==
  /\ pc = "wait"
  /\ signalled \/ bRetryWorkList
  /\ signalled' = (signalled /\ bRetryWorkList /\ bUseGlobalEO)
  /\ pc' = "start"
  /\ UNCHANGED <<work, adder, counts, env, loop, pass>>

Busy(ds) == {d \in ds : device[d] # "gone" /\ list[d] # <<>>}
Place(d) == IF d \in Devices THEN CHOOSE n \in DOMAIN DeviceList : DeviceList[n] = d ELSE 0

\* Mutant: the first item of the list ends the pass.
WorkListLast_Head ==
  LET busy == Busy(Devices) IN
  IF list[Host] # <<>> THEN Head(list[Host])
  ELSE IF busy = {} THEN None
  ELSE Head(list[CHOOSE d \in busy : \A e \in busy : Place(e) <= Place(d)])
\* The last item of the last list that is not empty; the host's comes last.
WorkListLast ==
  LET busy == Busy(Devices) IN
  IF list[Host] # <<>> THEN Last(list[Host])
  ELSE IF busy = {} THEN None
  ELSE Last(list[CHOOSE d \in busy : \A e \in busy : Place(e) <= Place(d)])

StartPass ==
  /\ pc = "start"
  /\ psNodeLast' = WorkListLast
  /\ psDeviceNode' = None
  /\ bNeedRetry' = FALSE
  /\ IF WorkListLast = None
     THEN bRetryWorkList' = FALSE /\ pc' = "loop"
     ELSE pc' = "pop" /\ UNCHANGED bRetryWorkList
  /\ UNCHANGED <<work, adder, counts, signalled, env, bUseGlobalEO, uiUnloadRetry,
                 psNodeIter>>

\* The devices after the one the last item was popped from.  After the host,
\* or a device that has gone meanwhile, there is none.
Later(d) ==
  IF d = None THEN Devices
  ELSE IF d = Host \/ device[d] = "gone" THEN {}
  ELSE {e \in Devices : Place(e) > Place(d)}

FirstOf(ds) == CHOOSE d \in ds : \A e \in ds : Place(d) <= Place(e)

\* Round robin: a later device, then the host, then from the first again.
PopFrom ==
  IF Busy(Later(psDeviceNode)) # {} THEN FirstOf(Busy(Later(psDeviceNode)))
  ELSE IF list[Host] # <<>> THEN Host
  ELSE IF Busy(Devices) # {} THEN FirstOf(Busy(Devices))
  ELSE None

\* The end of a pass: the variables of the pass are no longer read.
EndPass ==
  /\ pc' = "loop"
  /\ psNodeLast' = None
  /\ psDeviceNode' = None
  /\ bNeedRetry' = FALSE

WorkListPop ==
  /\ pc = "pop"
  /\ IF PopFrom = None
     THEN /\ bRetryWorkList' = FALSE
          /\ EndPass
          /\ UNCHANGED <<list, psNodeIter, bUseGlobalEO>>
     ELSE /\ psNodeIter' = Head(list[PopFrom])
          /\ psDeviceNode' = PopFrom
          /\ list' = [list EXCEPT ![PopFrom] = Tail(@)]
          /\ bUseGlobalEO' = (Head(list[PopFrom]) \in HwItems)
          /\ pc' = "free"
          /\ UNCHANGED <<bRetryWorkList, psNodeLast, bNeedRetry>>
  /\ UNCHANGED <<status, ui32RetryCount, adder, counts, signalled, env, uiUnloadRetry>>

\* The end of an iteration; the pass ends with the item that was last.
GoOn(needRetry) ==
  /\ psNodeIter' = None
  /\ IF psNodeIter = psNodeLast
     THEN EndPass /\ bRetryWorkList' = needRetry
     ELSE /\ pc' = "pop"
          /\ bNeedRetry' = needRetry
          /\ UNCHANGED <<bRetryWorkList, psNodeLast, psDeviceNode>>
  /\ UNCHANGED <<bUseGlobalEO, uiUnloadRetry>>

\* Mutant: a dropped item stays in the count.
Decremented_Kept(n) == n
Decremented(n) == n - 1

\* The callback returns; what it has added itself is on the list by then.
CallbackReturns ==
  /\ pc = "free"
  /\ \A i \in Items : devOf[i] # Host /\ device[devOf[i]] # "up" => adder[i] = "no"

Freed ==
  /\ CallbackReturns
  /\ status' = [status EXCEPT ![psNodeIter] = "out"]
  /\ ui32RetryCount' = [ui32RetryCount EXCEPT ![psNodeIter] = 0]
  /\ i32NumCleanupItemsQueued' = Decremented(i32NumCleanupItemsQueued)
  /\ GoOn(bNeedRetry)
  /\ UNCHANGED <<list, adder, i32NumCleanupItemsNotCompleted, signalled, env>>

NotFreed ==
  /\ CallbackReturns
  /\ ui32RetryCount[psNodeIter] > 0
  /\ ui32RetryCount' = [ui32RetryCount EXCEPT ![psNodeIter] = @ - 1]
  /\ pc' = "again"
  /\ UNCHANGED <<list, status, adder, counts, signalled, env, loop, pass>>

PutBack ==
  /\ pc = "again"
  /\ list' = [list EXCEPT ![psDeviceNode] = Append(@, psNodeIter)]
  /\ GoOn(TRUE)
  /\ UNCHANGED <<status, ui32RetryCount, adder, counts, signalled, env>>

\* The count of the items dropped goes down.
Drop ==
  /\ CallbackReturns
  /\ ui32RetryCount[psNodeIter] = 0
  /\ status' = [status EXCEPT ![psNodeIter] = "dropped"]
  /\ i32NumCleanupItemsNotCompleted' = i32NumCleanupItemsNotCompleted - 1
  /\ i32NumCleanupItemsQueued' = Decremented(i32NumCleanupItemsQueued)
  /\ GoOn(bNeedRetry)
  /\ UNCHANGED <<list, ui32RetryCount, adder, signalled, env>>

Thread ==
  \/ LoopTop \/ Wait \/ StartPass \/ WorkListPop
  \/ Freed \/ NotFreed \/ PutBack \/ Drop

(***************************************************************************)
(* A device is destroyed, and in the end the driver unloaded.              *)
(***************************************************************************)
DeviceDestroy(d) ==
  /\ device[d] = "up"
  /\ \A i \in Items : devOf[i] = d => adder[i] = "no"
  /\ device' = [device EXCEPT ![d] = "waiting"]
  /\ UNCHANGED <<work, adder, counts, signalled, devOf, bUnload, pc, loop, pass>>

\* The thread is signalled and the list looked at, again and again.
WaitForDevice(d) ==
  /\ device[d] = "waiting"
  /\ signalled' = TRUE
  /\ IF list[d] = <<>> \/ FlushTimesOut
     THEN device' = [device EXCEPT ![d] = "leaving"]
     ELSE UNCHANGED device
  /\ UNCHANGED <<work, adder, counts, devOf, bUnload, pc, loop, pass>>

RemoveDevice(d) ==
  /\ device[d] = "leaving"
  /\ device' = [device EXCEPT ![d] = "gone"]
  /\ UNCHANGED <<work, adder, counts, signalled, devOf, bUnload, pc, loop, pass>>

Unload ==
  /\ ~bUnload /\ \A d \in Devices : device[d] = "gone"
  /\ bUnload' = TRUE
  /\ UNCHANGED <<work, adder, counts, signalled, devOf, device, pc, loop, pass>>

StopThread ==
  /\ bUnload /\ pc # "ended" /\ ~signalled
  /\ signalled' = TRUE
  /\ UNCHANGED <<work, adder, counts, env, pc, loop, pass>>

Next ==
  \/ \E i \in Items : \/ \E tries \in 0 .. MaxRetries : AddWork(i, tries)
                      \/ FreeAtOnce(i)
                      \/ AddToTail(i)
                      \/ Signal(i)
  \/ Thread
  \/ \E d \in Devices : DeviceDestroy(d) \/ WaitForDevice(d) \/ RemoveDevice(d)
  \/ Unload
  \/ StopThread

Spec == Init /\ [][Next]_vars

\* The thread runs, and a call that has begun to add work goes on.  Nobody
\* need add work, destroy a device or unload the driver.
FairSpec ==
  /\ Spec
  /\ WF_vars(Thread)
  /\ \A i \in Items : WF_vars(AddToTail(i)) /\ WF_vars(Signal(i))

(***************************************************************************)
(* Properties.                                                             *)
(***************************************************************************)
InLists(i) ==
  {p \in UNION {{d} \X DOMAIN list[d] : d \in Devices \cup {Host}} : list[p[1]][p[2]] = i}

\* Types, and where an item is: one that is not done with is in one place
\* only (with the caller that adds it, on one list, or with the thread), and
\* one that is done with is nowhere, so that no callback runs twice for it;
\* i32NumCleanupItemsQueued counts the former (pvrsrv.c:324, 245).
TypeOK ==
  /\ list \in [Devices \cup {Host} -> Seq(Items)]
  /\ status \in [Items -> {"out", "queued", "dropped"}]
  /\ adder \in [Items -> {"no", "counted", "listed"}]
  /\ \A i \in Items :
       Cardinality(InLists(i)) + (IF adder[i] = "counted" THEN 1 ELSE 0)
         + (IF psNodeIter = i THEN 1 ELSE 0)
       = IF status[i] = "queued" THEN 1 ELSE 0
  /\ ui32RetryCount \in [Items -> 0 .. MaxRetries]
  /\ i32NumCleanupItemsQueued = Cardinality({i \in Items : status[i] = "queued"})
  /\ i32NumCleanupItemsNotCompleted \in -Cardinality(Items) .. 0
  /\ pc \in {"loop", "wait", "start", "pop", "free", "again", "ended"}
  /\ uiUnloadRetry \in 0 .. UnloadRetry + 1
  /\ psNodeLast \in Items \cup {None}
  /\ psNodeIter \in Items \cup {None}
  /\ psDeviceNode \in Devices \cup {Host, None}
  /\ device \in [Devices -> {"up", "waiting", "leaving", "gone"}]

\* Every item that is added is freed or, after its tries, dropped: a signal
\* that falls into a pass is not lost, and a pass does not end for the long
\* sleep with an item on a list that nobody will signal any more.  (An item
\* may be left behind when its device has gone or the driver is unloaded.)
Abandoned(i) == bUnload \/ (devOf[i] # Host /\ device[devOf[i]] = "gone")
EverythingHandled ==
  \A i \in Items : status[i] = "queued" ~> (status[i] # "queued" \/ Abandoned(i))

\* "Blocking wait for all of the device's items to be cleaned"
\* (pvrsrv_cleanup.h:218): when PVRSRVCleanupThreadWaitForDevice has returned
\* and the device is freed, none of its items is on a list or at work.
DeviceItemsCleaned ==
  \A i \in Items : status[i] = "queued" /\ devOf[i] # Host => device[devOf[i]] # "gone"
=============================================================================
