------------------------------ MODULE Handles ------------------------------
(***************************************************************************)
(* The handle bases of a client process (services/server/common/handle.c), *)
(* used by its bridge calls and emptied by the cleanup thread when a       *)
(* connection goes away (connection_server.c).                             *)
(*                                                                         *)
(* A handle names a server resource.  A bridge call looks a handle up      *)
(* (which counts it), works without the base's lock, and puts it back.  A  *)
(* destroy call marks the handle and its sub-handle under the lock,        *)
(* releases the resource WITHOUT the lock, and takes the lock again to     *)
(* remove the handle, or to make it visible again when the resource was    *)
(* busy.  Everything between LockHandle and UnlockHandle is one step here. *)
(*                                                                         *)
(* Handles of a connection live in its own base, those a process shares    *)
(* (local imports) in the process base, which the connections of the       *)
(* process count.                                                          *)
(*                                                                         *)
(* The bridges give a handle at most one sub-handle, allocated with it,    *)
(* which has no release function and no destroy call of its own, so the    *)
(* recursion of the code over children is one level deep.                  *)
(***************************************************************************)
EXTENDS Integers, FiniteSets

CONSTANTS
  Conns,      \* connections of one process to the device
  First,      \* the connection that exists at the start
  Threads,    \* client threads
  ConnOf,     \* the connection a thread makes its calls on
  Handles,    \* every handle is allocated at most once (a bound)
  None,
  Process,    \* the process handle base
  Base,       \* the base of a handle: a connection or Process
  SubOf,      \* the sub-handle of a handle, or None
  Needs,      \* the handle that is looked up to create the resource, or None
  Pins,       \* the handle whose resource this resource keeps in use, or None
  Kicked,     \* handles whose resource the firmware may be working on
  Failing,    \* handles whose release may answer an error other than RETRY
  MaxErrors,  \* how often it does (a bound)
  Rank        \* the place of a handle's type in g_aeOrderedFreeList

\* What the bridges' handles are like (see above): a sub-handle has none of
\* its own and belongs to one handle of the same base, and a resource that is
\* kept in use is the one its user was created with.
ASSUME HandlesAssumption ==
  /\ IsFiniteSet(Conns) /\ IsFiniteSet(Threads)
  /\ First \in Conns /\ ConnOf \in [Threads -> Conns]
  /\ None \notin Handles \cup Conns \cup {Process} /\ Process \notin Conns
  /\ Base \in [Handles -> Conns \cup {Process}] /\ MaxErrors \in Nat
  /\ {SubOf, Needs, Pins} \subseteq [Handles -> Handles \cup {None}]
  /\ \A h \in Handles : SubOf[h] # None =>
       /\ SubOf[SubOf[h]] = None /\ Base[SubOf[h]] = Base[h]
       /\ \A g \in Handles : SubOf[g] = SubOf[h] => g = h
  /\ \A h \in Handles : Pins[h] # None =>
       Pins[h] = Needs[h] /\ \A g \in Handles : SubOf[g] # Pins[h]

VARIABLES
  slot,       \* HANDLE_DATA: "unused", "live" or "gone"
  bCanLookup,
  iLookupCount,
  made,       \* the resource has been created
  releases,   \* how often the resource has been released
  busy,       \* the firmware works on the resource
  errors,     \* how many releases have answered another error than RETRY
  thread,     \* what a client thread is doing
  conn,       \* "none", "open", "closing" (handed to the cleanup thread), "closed"
  procRef,    \* psProcessHandleBase of the connection is not NULL
  iRefCount,  \* of the process handle base
  inHash,     \* the process handle base is in g_psProcessHandleBaseTable
  purge       \* the cleanup thread: the connection and the base it is freeing

data == <<slot, bCanLookup, iLookupCount>>
res  == <<made, releases, busy, errors>>
base == <<procRef, iRefCount, inHash>>
vars == <<data, res, thread, conn, base, purge>>

Family(h) == {h, SubOf[h]} \ {None}
Subs      == {SubOf[h] : h \in Handles} \ {None}
Owner(h)  == CHOOSE p \in Handles \ Subs : h \in Family(p)
Live(h)   == made[h] /\ releases[h] = 0
InUse(h)  == \E g \in Handles : Live(g) /\ Pins[g] = h

Idle == [op |-> "idle", h |-> None, held |-> None]
Resting == [conn |-> None, stage |-> None]

Init ==
  /\ slot = [h \in Handles |-> "unused"]
  /\ bCanLookup = [h \in Handles |-> FALSE]
  /\ iLookupCount = [h \in Handles |-> 0]
  /\ made = [h \in Handles |-> FALSE]
  /\ releases = [h \in Handles |-> 0]
  /\ busy = [h \in Handles |-> FALSE]
  /\ errors = 0
  /\ thread = [t \in Threads |-> Idle]
  /\ conn = [k \in Conns |-> IF k = First THEN "open" ELSE "none"]
  /\ procRef = [k \in Conns |-> k = First]
  /\ iRefCount = 1
  /\ inHash = TRUE
  /\ purge = Resting

(***************************************************************************)
(* Bridge calls.                                                           *)
(***************************************************************************)
Reaches(t, h) == conn[ConnOf[t]] = "open" /\ Base[h] \in {ConnOf[t], Process}

Go(t, op, h, held) == thread' = [thread EXCEPT ![t] = [op |-> op, h |-> h, held |-> held]]

\* Mutant: the lookup takes no reference (bRef is FALSE).
Counted_NoRef(n) == n
\* HandleGet: what a successful lookup does to the count
Counted(n) == n + 1

\* A call looks x up, to use its resource (h = None) or to create h with it.
Lookup(t, x, h) ==
  /\ thread[t] = Idle
  /\ Reaches(t, x)
  /\ h # None => Reaches(t, h) /\ Needs[h] = x /\ ~made[h]
  /\ slot[x] = "live" /\ bCanLookup[x]
  /\ iLookupCount' = [iLookupCount EXCEPT ![x] = Counted(@)]
  /\ Go(t, "found", h, x)
  /\ UNCHANGED <<slot, bCanLookup, res, conn, base, purge>>

\* The call works with the resource, without any lock.
Use(t) ==
  /\ thread[t].op = "found" /\ thread[t].h = None
  /\ \/ UNCHANGED busy
     \/ thread[t].held \in Kicked /\ busy' = [busy EXCEPT ![thread[t].held] = TRUE]
  /\ Go(t, "leaving", None, thread[t].held)
  /\ UNCHANGED <<data, made, releases, errors, conn, base, purge>>

Create(t, h) ==
  /\ \/ thread[t] = Idle /\ Needs[h] = None /\ Reaches(t, h)
     \/ thread[t].op = "found" /\ thread[t].h = h
  /\ h \notin Subs /\ ~made[h]
  /\ made' = [made EXCEPT ![h] = TRUE]
  /\ Go(t, "made", h, thread[t].held)
  /\ UNCHANGED <<data, releases, busy, errors, conn, base, purge>>

CreateFails(t) ==
  /\ thread[t].op = "found" /\ thread[t].h # None
  /\ Go(t, "leaving", None, thread[t].held)
  /\ UNCHANGED <<data, res, conn, base, purge>>

\* The handle and its sub-handle are allocated in one hold of the lock.
AllocHandle(t) ==
  LET new == Family(thread[t].h) IN
  /\ thread[t].op = "made"
  /\ slot' = [h \in Handles |-> IF h \in new THEN "live" ELSE slot[h]]
  /\ bCanLookup' = [h \in Handles |-> bCanLookup[h] \/ h \in new]
  /\ Go(t, "leaving", None, thread[t].held)
  /\ UNCHANGED <<iLookupCount, res, conn, base, purge>>

\* No handle for it: the call puts its lookup back and then undoes what it
\* has created.
AllocFails(t) ==
  /\ thread[t].op = "made"
  /\ Go(t, "leaving", thread[t].h, thread[t].held)
  /\ UNCHANGED <<data, res, conn, base, purge>>

ReleaseHandle(t) ==
  /\ thread[t].op = "leaving"
  /\ iLookupCount' = [h \in Handles |->
       IF h = thread[t].held THEN iLookupCount[h] - 1 ELSE iLookupCount[h]]
  /\ IF thread[t].h = None
     THEN thread' = [thread EXCEPT ![t] = Idle]
     ELSE Go(t, "undo", thread[t].h, None)
  /\ UNCHANGED <<slot, bCanLookup, res, conn, base, purge>>

Undo(t) ==
  /\ thread[t].op = "undo"
  /\ releases' = [releases EXCEPT ![thread[t].h] = @ + 1]
  /\ thread' = [thread EXCEPT ![t] = Idle]
  /\ UNCHANGED <<data, made, busy, errors, conn, base, purge>>

(***************************************************************************)
(* Destroying a handle (DestroyHandle with bReleaseLock).                  *)
(***************************************************************************)
\* Mutant: a handle may be destroyed twice.
MayMark_Again(h) == iLookupCount[h] = 0
\* Not destroyed yet, and not held by any lookup.
MayMark(h) == bCanLookup[h] /\ iLookupCount[h] = 0

\* Mutant: the references of the sub-handle are not looked at.
Marked_ParentOnly(h) == IF MayMark(h) THEN Family(h) ELSE {}
\* The handle first, then its sub-handle: when that one is looked up the
\* call fails with the handle itself already marked.
Marked(h) ==
  IF ~MayMark(h) THEN {}
  ELSE {h} \cup {s \in Family(h) \ {h} : MayMark(s)}

Mark(t, h) ==
  /\ thread[t] = Idle
  /\ Reaches(t, h) /\ h \notin Subs /\ slot[h] = "live"
  /\ bCanLookup' = [g \in Handles |-> bCanLookup[g] /\ g \notin Marked(h)]
  /\ IF Marked(h) = Family(h) THEN Go(t, "marked", h, None) ELSE UNCHANGED thread
  /\ UNCHANGED <<slot, iLookupCount, res, conn, base, purge>>

\* pfnReleaseData answers RETRY: another resource needs this one, or the
\* firmware has not finished with it.
Retry(h) == InUse(h) \/ busy[h]

ReleaseData(t) ==
  LET h == thread[t].h IN
  /\ thread[t].op = "marked"
  /\ IF Retry(h)
     THEN Go(t, "retry", h, None) /\ UNCHANGED releases
     ELSE Go(t, "released", h, None) /\ releases' = [releases EXCEPT ![h] = @ + 1]
  /\ UNCHANGED <<data, made, busy, errors, conn, base, purge>>

\* Any other error, whether or not it would have been RETRY.
MayFail(h) == h \in Failing /\ errors < MaxErrors

\* The destroy call returns it and leaves the handle as it is: marked, with
\* its resource.
ReleaseError(t) ==
  /\ thread[t].op = "marked" /\ MayFail(thread[t].h)
  /\ errors' = errors + 1
  /\ thread' = [thread EXCEPT ![t] = Idle]
  /\ UNCHANGED <<data, made, releases, busy, conn, base, purge>>

\* The handles that can be looked up again after a RETRY: the one destroyed.
Restored(h) == {h}

KeepAlive(t) ==
  /\ thread[t].op = "retry"
  /\ bCanLookup' = [h \in Handles |-> bCanLookup[h] \/ h \in Restored(thread[t].h)]
  /\ thread' = [thread EXCEPT ![t] = Idle]
  /\ UNCHANGED <<slot, iLookupCount, res, conn, base, purge>>

FreeDestroy(t) ==
  /\ thread[t].op = "released"
  /\ slot' = [h \in Handles |-> IF h \in Family(thread[t].h) THEN "gone" ELSE slot[h]]
  /\ thread' = [thread EXCEPT ![t] = Idle]
  /\ UNCHANGED <<bCanLookup, iLookupCount, res, conn, base, purge>>

FirmwareDone(h) ==
  /\ busy[h]
  /\ busy' = [busy EXCEPT ![h] = FALSE]
  /\ UNCHANGED <<data, made, releases, errors, thread, conn, base, purge>>

(***************************************************************************)
(* Connections.                                                            *)
(***************************************************************************)
\* Once the process base has left the table a new connection gets another
\* one, which is not modelled.
Connect(k) ==
  /\ conn[k] = "none" /\ inHash
  /\ conn' = [conn EXCEPT ![k] = "open"]
  /\ iRefCount' = iRefCount + 1
  /\ procRef' = [procRef EXCEPT ![k] = TRUE]
  /\ UNCHANGED <<data, res, thread, inHash, purge>>

\* The file is released when none of its calls is running any more.
Disconnect(k) ==
  /\ conn[k] = "open"
  /\ \A t \in Threads : ConnOf[t] = k => thread[t] = Idle
  /\ conn' = [conn EXCEPT ![k] = "closing"]
  /\ UNCHANGED <<data, res, thread, base, purge>>

(***************************************************************************)
(* The cleanup thread: ConnectionDataDestroy, again after every RETRY.     *)
(***************************************************************************)
\* The process base is freed with its last reference.
LastReference == iRefCount = 1

PurgeStart(k) ==
  /\ purge = Resting /\ conn[k] = "closing"
  /\ IF procRef[k]
     THEN /\ iRefCount' = iRefCount - 1
          /\ IF LastReference
             THEN /\ inHash' = FALSE
                  /\ purge' = [conn |-> k, stage |-> Process]
                  /\ UNCHANGED procRef
             ELSE /\ procRef' = [procRef EXCEPT ![k] = FALSE]
                  /\ purge' = [conn |-> k, stage |-> k]
                  /\ UNCHANGED inHash
     ELSE /\ purge' = [conn |-> k, stage |-> k]
          /\ UNCHANGED base
  /\ UNCHANGED <<data, res, thread, conn>>

Left(b) == {h \in Handles : Base[h] = b /\ slot[h] = "live"}

\* Mutant: the types are freed in another order.
IsNext_Reversed(h, b) == h \in Left(b) /\ \A g \in Left(b) : Rank[h] >= Rank[g]
\* The handles of one type after those of another.  Every attempt begins
\* with the first type again and finds the handles already freed gone.
IsNext(h, b) == h \in Left(b) /\ \A g \in Left(b) : Rank[h] <= Rank[g]

\* FreeHandleDataWrapper.  A handle that a destroy call has marked is
\* freed without releasing its resource.  An error of any kind ends the
\* attempt; the cleanup thread takes the connection again after each.
FreeHandleData(h) ==
  /\ purge # Resting /\ IsNext(h, purge.stage)
  /\ LET releasing == bCanLookup[h] /\ h \notin Subs IN
     \/ /\ releasing
        /\ \/ Retry(h) /\ UNCHANGED errors
           \/ MayFail(h) /\ errors' = errors + 1
        /\ purge' = Resting
        /\ UNCHANGED <<data, releases>>
     \/ /\ ~(releasing /\ Retry(h))
        /\ slot' = [slot EXCEPT ![h] = "gone"]
        /\ bCanLookup' = [bCanLookup EXCEPT ![h] = FALSE]
        /\ releases' = [releases EXCEPT ![h] = IF releasing THEN @ + 1 ELSE @]
        /\ UNCHANGED <<iLookupCount, errors, purge>>
  /\ UNCHANGED <<made, busy, thread, conn, base>>

\* Every type has been gone through: the base itself is destroyed.
BaseFreed ==
  /\ purge # Resting /\ Left(purge.stage) = {}
  /\ IF purge.stage = Process
     THEN /\ procRef' = [procRef EXCEPT ![purge.conn] = FALSE]
          /\ purge' = [purge EXCEPT !.stage = purge.conn]
          /\ UNCHANGED conn
     ELSE /\ conn' = [conn EXCEPT ![purge.conn] = "closed"]
          /\ purge' = Resting
          /\ UNCHANGED procRef
  /\ UNCHANGED <<data, res, thread, iRefCount, inHash>>

Purge ==
  \/ \E k \in Conns : PurgeStart(k)
  \/ \E h \in Handles : FreeHandleData(h)
  \/ BaseFreed

Call(t) ==
  \/ \E x \in Handles, h \in Handles \cup {None} : Lookup(t, x, h)
  \/ Use(t)
  \/ \E h \in Handles : Create(t, h)
  \/ CreateFails(t)
  \/ AllocHandle(t)
  \/ AllocFails(t)
  \/ ReleaseHandle(t)
  \/ Undo(t)
  \/ \E h \in Handles : Mark(t, h)
  \/ ReleaseData(t)
  \/ ReleaseError(t)
  \/ KeepAlive(t)
  \/ FreeDestroy(t)

Next ==
  \/ \E t \in Threads : Call(t)
  \/ \E h \in Handles : FirmwareDone(h)
  \/ \E k \in Conns : Connect(k) \/ Disconnect(k)
  \/ Purge

Spec == Init /\ [][Next]_vars

\* The cleanup thread goes on with what it has begun and takes every item of
\* its list again (the retries are not used up here), and the firmware
\* finishes what it works on; no client needs to do anything.
FairSpec ==
  /\ Spec
  /\ WF_vars(Purge)
  /\ \A k \in Conns : SF_vars(PurgeStart(k))
  /\ \A h \in Handles : WF_vars(FirmwareDone(h))

(***************************************************************************)
(* Properties.                                                             *)
(***************************************************************************)
Holders(h) == {t \in Threads : thread[t].held = h}

\* Types, and two things a counter can get wrong: a resource is released at
\* most once, whoever destroys its handle, and the lookup count of a handle
\* is the number of calls that hold it (handle.c:1195-1362).
TypeOK ==
  /\ slot \in [Handles -> {"unused", "live", "gone"}]
  /\ bCanLookup \in [Handles -> BOOLEAN]
  /\ made \in [Handles -> BOOLEAN]
  /\ busy \in [Handles -> BOOLEAN]
  /\ releases \in [Handles -> 0..1]
  /\ errors \in 0..MaxErrors
  /\ \A h \in Handles : iLookupCount[h] = Cardinality(Holders(h))
  /\ conn \in [Conns -> {"none", "open", "closing", "closed"}]
  /\ procRef \in [Conns -> BOOLEAN]
  /\ iRefCount \in 0..Cardinality(Conns)
  /\ inHash \in BOOLEAN
  /\ purge \in [conn : Conns \cup {None}, stage : Conns \cup {Process, None}]
  /\ thread \in [Threads ->
       [op : {"idle", "found", "made", "leaving", "undo",
              "marked", "released", "retry"},
        h : Handles \cup {None}, held : Handles \cup {None}]]

\* A call that works with a resource without the lock still has it: neither a
\* destroy of the handle, nor one of the handle it is a sub-handle of, nor the
\* cleanup of another connection of the process releases the resource or
\* frees the HANDLE_DATA the call will put its reference to.
HeldLives ==
  \A t \in Threads : thread[t].held # None =>
    slot[thread[t].held] = "live" /\ Live(Owner(thread[t].held))

\* A resource that another one keeps in use (a free list of a render target
\* dataset) is not released before it, although the count of the users is
\* read before the release and a new user may be on its way: its creator
\* holds the handle it was looked up by.
UsedOutlives ==
  \A h \in Handles : Live(h) /\ Pins[h] # None => Live(Pins[h])

\* When the connections a base belongs to are gone, every resource whose
\* handle can be looked up is released in the end, in spite of RETRY and other
\* errors (handle.c:1875-1888).  A handle that a failed destroy has left marked
\* is excepted: it is freed without its resource.  If such a stranded resource
\* keeps another one in use, that one answers RETRY for ever and the handles of
\* later types are not reached.
Abandoned(h) ==
  \A k \in Conns : Base[h] \in {k, Process} => conn[k] \in {"closing", "closed"}
Stranded(g) == Live(g) /\ ~bCanLookup[g]
ClosedReleased ==
  \A h \in Handles \ Subs :
    /\ slot[h] = "live" /\ bCanLookup[h] /\ Abandoned(h)
    /\ \A g \in Handles : Stranded(g) => Pins[g] = None
    ~> releases[h] = 1
=============================================================================
