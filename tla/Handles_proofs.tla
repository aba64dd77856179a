--------------------------- MODULE Handles_proofs ---------------------------
(* What a handle's count and marks protect: proofs about Handles.          *)
EXTENDS Handles, FiniteSetTheorems, TLAPS

(* A call that has created the resource of its handle, which has no        *)
(* HANDLE_DATA yet, and one that is destroying its handle.                 *)
Making(t) ==
  thread[t].op \in {"made", "undo"} \/ (thread[t].op = "leaving" /\ thread[t].h # None)
Destroying(t) == thread[t].op \in {"marked", "retry", "released"}
Busy(t) == Making(t) \/ Destroying(t)

(* The bases that are not being freed and have not been.                   *)
Intact(b) ==
  \/ b = Process /\ inHash
  \/ b \in Conns /\ conn[b] \in {"none", "open"}

Near(t, h) == Base[h] \in {ConnOf[t], Process}
Referrers == {k \in Conns : procRef[k]}

Typed ==
  /\ slot \in [Handles -> {"unused", "live", "gone"}]
  /\ bCanLookup \in [Handles -> BOOLEAN]
  /\ iLookupCount \in [Handles -> Nat]
  /\ made \in [Handles -> BOOLEAN]
  /\ busy \in [Handles -> BOOLEAN]
  /\ releases \in [Handles -> 0..1]
  /\ conn \in [Conns -> {"none", "open", "closing", "closed"}]
  /\ procRef \in [Conns -> BOOLEAN]
  /\ iRefCount \in Int
  /\ inHash \in BOOLEAN
  /\ purge \in [conn : Conns \cup {None}, stage : Conns \cup {Process, None}]
  /\ thread \in [Threads ->
       [op : {"idle", "found", "made", "leaving", "undo",
              "marked", "released", "retry"},
        h : Handles \cup {None}, held : Handles \cup {None}]]

LookupsCounted == \A h \in Handles : iLookupCount[h] = Cardinality(Holders(h))

(* A call runs on an open connection and uses handles within its reach.    *)
CallsAttached ==
  \A t \in Threads :
    /\ thread[t] # Idle => conn[ConnOf[t]] = "open"
    /\ thread[t].h # None => Near(t, thread[t].h)
    /\ thread[t].held # None => Near(t, thread[t].held)

(* What a call has in hand at which stage.                                 *)
CallShape ==
  \A t \in Threads :
    /\ thread[t].op = "idle" => thread[t] = Idle
    /\ thread[t].op = "found" =>
         /\ thread[t].held # None
         /\ thread[t].h # None => thread[t].held = Needs[thread[t].h]
    /\ thread[t].op \in {"undo", "marked", "retry", "released"} => thread[t].held = None
    /\ Busy(t) => thread[t].h \in Handles \ Subs

(* A resource under construction is known to its creator only.             *)
MakersAlone ==
  \A t \in Threads : Making(t) =>
    /\ Live(thread[t].h)
    /\ \A g \in Family(thread[t].h) : slot[g] = "unused"

(* Once a destroy has marked a handle and its sub-handle, nobody holds     *)
(* either and nobody can look either up; the resource is still there until *)
(* the destroy itself has released it.                                     *)
MarkedAlone ==
  \A t \in Threads : Destroying(t) =>
    /\ slot[thread[t].h] = "live"
    /\ \A g \in Family(thread[t].h) : ~bCanLookup[g] /\ Holders(g) = {}
    /\ thread[t].op # "released" => Live(thread[t].h)

OneAtATime ==
  \A t, u \in Threads : Busy(t) /\ Busy(u) /\ thread[t].h = thread[u].h => t = u

(* What can be looked up has its resource.  A sub-handle may outlive its   *)
(* handle while its base is being freed, when no call can come any more.   *)
FoundLives ==
  \A h \in Handles :
    /\ slot[h] = "live" /\ bCanLookup[h]
    /\ h \notin Subs \/ Intact(Base[h])
    => Live(Owner(h))

(* Nothing is known of a resource that has not been created.               *)
NotMade ==
  \A h \in Handles \ Subs : ~made[h] =>
    releases[h] = 0 /\ \A g \in Family(h) : slot[g] = "unused"

(* What a resource keeps in use is there, and has had a handle.            *)
PinsHeld ==
  \A h \in Handles : Live(h) /\ Pins[h] # None =>
    Live(Pins[h]) /\ slot[Pins[h]] # "unused"

(* The references of the process base, until it has been taken out of the  *)
(* table; then no connection is open.                                      *)
BaseCounted ==
  /\ inHash => iRefCount = Cardinality(Referrers)
  /\ ~inHash => iRefCount <= 0
  /\ \A k \in Conns :
       /\ conn[k] = "open" => procRef[k] /\ inHash
       /\ conn[k] = "none" => ~procRef[k]
  /\ purge # Resting =>
       /\ purge.conn \in Conns /\ conn[purge.conn] = "closing"
       /\ purge.stage = purge.conn \/ (purge.stage = Process /\ ~inHash)

IInv ==
  /\ Typed /\ LookupsCounted /\ CallsAttached /\ CallShape
  /\ HeldLives /\ MakersAlone /\ MarkedAlone /\ OneAtATime
  /\ FoundLives /\ NotMade /\ PinsHeld /\ BaseCounted

(* The owner of a handle is the one handle, not a sub-handle, in whose     *)
(* family it is.                                                           *)
LEMMA OwnerOf ==
  ASSUME NEW h \in Handles
  PROVE  /\ Owner(h) \in Handles \ Subs /\ h \in Family(Owner(h))
         /\ \A p \in Handles \ Subs : h \in Family(p) => Owner(h) = p
<1>1. \E p \in Handles \ Subs : h \in Family(p)
  BY HandlesAssumption DEF Family, Subs
<1>2. \A p, q \in Handles \ Subs : h \in Family(p) /\ h \in Family(q) => p = q
  BY HandlesAssumption DEF Family, Subs
<1> QED
  BY <1>1, <1>2 DEF Owner

(* A family lives in one base.                                             *)
LEMMA FamilyBase ==
  ASSUME NEW h \in Handles
  PROVE  /\ h \in Family(h) /\ Family(h) \subseteq Handles
         /\ \A g \in Family(h) : Base[g] = Base[h]
BY HandlesAssumption DEF Family

(* A base that a call uses is not being freed.                             *)
LEMMA CallersIntact ==
  ASSUME CallsAttached, BaseCounted, Typed, NEW t \in Threads, thread[t] # Idle,
         NEW h \in Handles, Near(t, h)
  PROVE  Intact(Base[h])
BY HandlesAssumption DEF CallsAttached, BaseCounted, Typed, Near, Intact

(* Nor is one that a call may look a handle up in.                         *)
LEMMA ReachedIntact ==
  ASSUME BaseCounted, Typed, NEW t \in Threads, NEW h \in Handles, Reaches(t, h)
  PROVE  Intact(Base[h])
BY HandlesAssumption DEF BaseCounted, Typed, Reaches, Intact

(* The base that the cleanup thread is freeing is not intact.              *)
LEMMA PurgedNotIntact ==
  ASSUME BaseCounted, purge # Resting
  PROVE  ~Intact(purge.stage)
BY HandlesAssumption DEF BaseCounted, Intact

(* The number of holders when one comes or goes.                           *)
LEMMA HoldersCount ==
  ASSUME NEW h \in Handles, NEW t \in Threads
  PROVE  /\ IsFiniteSet(Holders(h)) /\ Cardinality(Holders(h)) \in Nat
         /\ Cardinality(Holders(h)) = 0 <=> Holders(h) = {}
         /\ t \notin Holders(h) =>
              Cardinality(Holders(h) \cup {t}) = Cardinality(Holders(h)) + 1
         /\ t \in Holders(h) =>
              Cardinality(Holders(h) \ {t}) = Cardinality(Holders(h)) - 1
<1>1. IsFiniteSet(Holders(h))
  BY HandlesAssumption, FS_Subset DEF Holders
<1> QED
  BY <1>1, FS_CardinalityType, FS_AddElement, FS_RemoveElement, FS_EmptySet

(* A step of a thread that holds the same before and after.                *)
LEMMA HoldersKept ==
  ASSUME Typed, LookupsCounted, NEW t \in Threads,
         \A u \in Threads : thread'[u].held = thread[u].held, UNCHANGED iLookupCount
  PROVE  (\A h \in Handles : Holders(h)' = Holders(h)) /\ LookupsCounted'
<1>1. \A h \in Handles : Holders(h)' = Holders(h)
  BY DEF Holders
<1> QED
  BY <1>1 DEF LookupsCounted

(* What a step leaves true of connections and of handles when it does not  *)
(* touch them.                                                             *)
LEMMA BaseKept ==
  ASSUME BaseCounted, UNCHANGED <<conn, base, purge>>
  PROVE  BaseCounted'
<1>1. Referrers' = Referrers
  BY DEF Referrers, base
<1> QED
  BY <1>1 DEF BaseCounted, base

(* The same of handles.                                                    *)
LEMMA HandlesKept ==
  ASSUME FoundLives, NotMade, PinsHeld,
         UNCHANGED <<slot, bCanLookup, made, releases, conn, inHash>>
  PROVE  FoundLives' /\ NotMade' /\ PinsHeld'
BY DEF FoundLives, NotMade, PinsHeld, Live, Intact

(* Nothing is held and nothing has been created at first.                  *)
LEMMA InitIInv == Init => IInv
<1> SUFFICES ASSUME Init PROVE IInv
  OBVIOUS
<1> USE HandlesAssumption DEF Init, Idle, Resting
<1>1. Typed
  BY DEF Typed
<1>2. LookupsCounted
  <2>1. \A h \in Handles : Holders(h) = {}
    BY DEF Holders
  <2> QED
    BY <2>1, FS_EmptySet DEF LookupsCounted
<1>3. Referrers = {First}
  BY DEF Referrers
<1>4. BaseCounted
  BY <1>3, FS_Singleton DEF BaseCounted
<1>5. CallsAttached /\ CallShape /\ HeldLives /\ MakersAlone /\ MarkedAlone /\ OneAtATime
  BY DEF CallsAttached, CallShape, HeldLives, MakersAlone, MarkedAlone, OneAtATime,
         Busy, Making, Destroying
<1>6. FoundLives /\ NotMade /\ PinsHeld
  <2>1. \A h \in Handles \ Subs : Family(h) \subseteq Handles
    BY FamilyBase
  <2> QED
    BY <2>1 DEF FoundLives, NotMade, PinsHeld, Live
<1> QED
  BY <1>1, <1>2, <1>4, <1>5, <1>6 DEF IInv

(* A lookup finds what lives, and counts itself.                           *)
LEMMA LookupKeeps ==
  ASSUME IInv, NEW t \in Threads, NEW x \in Handles, NEW h \in Handles \cup {None},
         Lookup(t, x, h)
  PROVE  IInv'
<1> DEFINE c == [op |-> "found", h |-> h, held |-> x]
<1> USE HandlesAssumption DEF IInv
<1>1. /\ thread[t] = Idle /\ Reaches(t, x) /\ slot[x] = "live" /\ bCanLookup[x]
      /\ h # None => Reaches(t, h) /\ Needs[h] = x /\ ~made[h]
      /\ iLookupCount' = [iLookupCount EXCEPT ![x] = @ + 1]
      /\ thread' = [thread EXCEPT ![t] = c]
      /\ UNCHANGED <<slot, bCanLookup, res, conn, base, purge>>
  BY DEF Lookup, Go, Counted
<1>2. t \notin Holders(x) /\ x # None /\ \A g \in Handles : t \notin Holders(g)
  BY <1>1 DEF Holders, Idle
<1>3. \A g \in Handles : Holders(g)' = IF g = x THEN Holders(g) \cup {t} ELSE Holders(g)
  BY <1>1, <1>2 DEF Holders, Typed
<1>4. Typed'
  BY <1>1 DEF Typed, res, base, Reaches
<1>5. LookupsCounted'
  <2> SUFFICES ASSUME NEW g \in Handles
               PROVE  iLookupCount'[g] = Cardinality(Holders(g)')
    BY DEF LookupsCounted, Holders
  <2>1. iLookupCount'[g] = IF g = x THEN Cardinality(Holders(g)) + 1 ELSE Cardinality(Holders(g))
    BY <1>1 DEF LookupsCounted, Typed
  <2> QED
    BY <1>2, <1>3, <2>1, HoldersCount
<1>6. CallsAttached'
  BY <1>1 DEF CallsAttached, Typed, Reaches, Near
<1>7. CallShape'
  BY <1>1 DEF CallShape, Typed, Busy, Making, Destroying
<1>8. HeldLives'
  <2>1. Live(Owner(x))
    BY <1>1, ReachedIntact DEF FoundLives
  <2> QED
    BY <1>1, <2>1 DEF HeldLives, Typed, Live, res
<1>9. MakersAlone'
  BY <1>1 DEF MakersAlone, Typed, Making, Live, res
<1>10. MarkedAlone'
  <2> SUFFICES ASSUME NEW u \in Threads, Destroying(u)'
               PROVE  /\ slot[thread[u].h] = "live"
                      /\ \A g \in Family(thread[u].h) : ~bCanLookup[g] /\ Holders(g)' = {}
                      /\ thread[u].op # "released" => Live(thread[u].h)
    BY <1>1 DEF MarkedAlone, Typed, Destroying, Live, res, Holders
  <2>1. u # t /\ Destroying(u) /\ thread[u].h \in Handles
    BY <1>1 DEF Destroying, Typed, CallShape, Busy
  <2> QED
    BY <1>1, <1>3, <2>1, FamilyBase DEF MarkedAlone
<1>11. OneAtATime'
  BY <1>1 DEF OneAtATime, Typed, Busy, Making, Destroying
<1>12. FoundLives' /\ NotMade' /\ PinsHeld'
  BY <1>1, HandlesKept DEF res, base
<1>13. BaseCounted'
  BY <1>1, BaseKept
<1> QED
  BY <1>4, <1>5, <1>6, <1>7, <1>8, <1>9, <1>10, <1>11, <1>12, <1>13

(* The steps of a call that only move it on, with what it holds.           *)
LEMMA MovesOnKeep ==
  ASSUME IInv, NEW t \in Threads, Use(t) \/ CreateFails(t) \/ AllocFails(t)
  PROVE  IInv'
<1> DEFINE c == thread'[t]
<1> USE HandlesAssumption DEF IInv
<1>1. /\ c.held = thread[t].held
      /\ thread' = [thread EXCEPT ![t] = c]
      /\ c.op = "leaving" /\ c.h \in {None, thread[t].h}
      /\ c = [op |-> c.op, h |-> c.h, held |-> c.held]
      /\ thread[t].op # "idle" /\ (c.h # None => Making(t))
      /\ busy' \in [Handles -> BOOLEAN]
      /\ UNCHANGED <<data, made, releases, conn, base, purge>>
  <2>1. CASE Use(t)
    <3>1. /\ thread[t].op = "found"
          /\ thread' = [thread EXCEPT ![t] = [op |-> "leaving", h |-> None, held |-> thread[t].held]]
          /\ UNCHANGED <<data, made, releases, conn, base, purge>>
      BY <2>1 DEF Use, Go
    <3>2. busy' \in [Handles -> BOOLEAN]
      BY <2>1 DEF Use, Typed
    <3>3. c = [op |-> "leaving", h |-> None, held |-> thread[t].held]
      BY <3>1 DEF Typed
    <3>4. thread' = [thread EXCEPT ![t] = c]
      BY <3>1, <3>3
    <3> HIDE DEF c
    <3>5. c.op = "leaving" /\ c.h = None /\ c.held = thread[t].held
      BY <3>3
    <3> QED
      BY <3>1, <3>2, <3>3, <3>4, <3>5
  <2>2. CASE CreateFails(t)
    BY <2>2 DEF CreateFails, Go, Typed, res
  <2>3. CASE AllocFails(t)
    BY <2>3 DEF AllocFails, Go, Typed, Making, res
  <2> QED
    BY <2>1, <2>2, <2>3
<1> HIDE DEF c
<1>2. (\A h \in Handles : Holders(h)' = Holders(h)) /\ LookupsCounted'
  BY <1>1, HoldersKept DEF Typed, data
<1>3. Typed'
  BY <1>1 DEF Typed, data, base
<1>4. CallsAttached' /\ CallShape'
  BY <1>1 DEF CallsAttached, CallShape, Typed, Near, Busy, Making, Destroying, Idle
<1>5. HeldLives' /\ MakersAlone' /\ OneAtATime'
  BY <1>1 DEF HeldLives, MakersAlone, OneAtATime, Typed, Live, data, Busy, Making, Destroying
<1>6. MarkedAlone'
  BY <1>1, <1>2, FamilyBase DEF MarkedAlone, CallShape, Typed, Busy, Destroying, Live, data
<1>7. FoundLives' /\ NotMade' /\ PinsHeld'
  BY <1>1, HandlesKept DEF data, base
<1>8. BaseCounted'
  BY <1>1, BaseKept
<1> QED
  BY <1>2, <1>3, <1>4, <1>5, <1>6, <1>7, <1>8

(* The creator of a resource holds the handle it was looked up by.         *)
LEMMA CreateKeeps ==
  ASSUME IInv, NEW t \in Threads, NEW h \in Handles, Create(t, h)
  PROVE  IInv'
<1> DEFINE c == [op |-> "made", h |-> h, held |-> thread[t].held]
<1> USE HandlesAssumption DEF IInv
<1>1. /\ \/ thread[t] = Idle /\ Needs[h] = None /\ Reaches(t, h)
         \/ thread[t].op = "found" /\ thread[t].h = h
      /\ h \notin Subs /\ ~made[h] /\ made' = [made EXCEPT ![h] = TRUE]
      /\ thread' = [thread EXCEPT ![t] = c]
      /\ UNCHANGED <<data, releases, busy, conn, base, purge>>
  BY DEF Create, Go
<1>2. (\A g \in Handles : Holders(g)' = Holders(g)) /\ LookupsCounted'
  BY <1>1, HoldersKept DEF Typed, data
<1>3. Typed'
  BY <1>1 DEF Typed, data, base
<1>4. CallsAttached' /\ CallShape'
  BY <1>1 DEF CallsAttached, CallShape, Typed, Near, Reaches, Busy, Making, Destroying, Idle
<1>5. \A g \in Handles : Live(g) => Live(g)'
  BY <1>1 DEF Live, Typed
<1>6. releases[h] = 0 /\ Live(h)' /\ \A g \in Family(h) : slot[g] = "unused"
  BY <1>1 DEF NotMade, Live, Typed
<1>7. HeldLives'
  BY <1>1, <1>5, OwnerOf DEF HeldLives, Typed, data, Idle
<1>8. MakersAlone'
  BY <1>1, <1>5, <1>6 DEF MakersAlone, CallShape, Typed, data, Busy, Making
<1>9. OneAtATime'
  <2>1. \A u \in Threads : u # t /\ Busy(u) => thread[u].h # h
    BY <1>1, <1>6, FamilyBase DEF Busy, MakersAlone, MarkedAlone, Live
  <2> QED
    BY <1>1, <2>1 DEF OneAtATime, Typed, Busy, Making, Destroying
<1>10. MarkedAlone'
  BY <1>1, <1>2, <1>5, FamilyBase DEF MarkedAlone, CallShape, Typed, Busy, Destroying, data
<1>11. FoundLives'
  BY <1>1, <1>5, OwnerOf DEF FoundLives, data, base, Intact
<1>12. NotMade'
  BY <1>1 DEF NotMade, data, Typed
<1>13. PinsHeld'
  <2>1. Pins[h] # None => Live(Pins[h]) /\ slot[Pins[h]] = "live"
    <3>1. SUFFICES ASSUME Pins[h] # None PROVE Live(Pins[h]) /\ slot[Pins[h]] = "live"
      OBVIOUS
    <3>2. thread[t].held = Pins[h] /\ Pins[h] \in Handles \ Subs
      BY <1>1, <3>1 DEF CallShape, Subs, Typed
    <3>3. Owner(Pins[h]) = Pins[h]
      BY <3>2, OwnerOf, FamilyBase
    <3> QED
      BY <3>1, <3>2, <3>3 DEF HeldLives
  <2> QED
    BY <1>1, <1>5, <2>1 DEF PinsHeld, Live, Typed, data
<1>14. BaseCounted'
  BY <1>1, BaseKept
<1> QED
  BY <1>2, <1>3, <1>4, <1>7, <1>8, <1>9, <1>10, <1>11, <1>12, <1>13, <1>14

(* A new handle can be looked up, and its resource is there.               *)
LEMMA AllocHandleKeeps ==
  ASSUME IInv, NEW t \in Threads, AllocHandle(t)
  PROVE  IInv'
<1> DEFINE p == thread[t].h
           c == [op |-> "leaving", h |-> None, held |-> thread[t].held]
<1> USE HandlesAssumption DEF IInv
<1>1. /\ thread[t].op = "made" /\ thread' = [thread EXCEPT ![t] = c]
      /\ slot' = [h \in Handles |-> IF h \in Family(p) THEN "live" ELSE slot[h]]
      /\ bCanLookup' = [h \in Handles |-> bCanLookup[h] \/ h \in Family(p)]
      /\ UNCHANGED <<iLookupCount, res, conn, base, purge>>
  BY DEF AllocHandle, Go
<1>2. p \in Handles \ Subs /\ Live(p) /\ \A g \in Family(p) : slot[g] = "unused"
  BY <1>1 DEF CallShape, MakersAlone, Busy, Making
<1>3. \A g \in Handles : g \in Family(p) <=> Owner(g) = p
  BY <1>2, OwnerOf
<1> HIDE DEF p
<1>4. (\A g \in Handles : Holders(g)' = Holders(g)) /\ LookupsCounted'
  BY <1>1, HoldersKept DEF Typed
<1>5. Typed'
  BY <1>1 DEF Typed, res, base
<1>6. CallsAttached' /\ CallShape' /\ OneAtATime'
  BY <1>1 DEF CallsAttached, CallShape, OneAtATime, Typed, Near, Busy, Making, Destroying, Idle
<1>7. HeldLives'
  BY <1>1, <1>3 DEF HeldLives, Typed, Live, res
<1>8. MakersAlone' /\ MarkedAlone'
  <2>1. \A u \in Threads : u # t /\ Busy(u) => thread[u].h # p
    BY <1>1 DEF OneAtATime, Busy, Making, p
  <2>2. \A u \in Threads : Busy(u)' => u # t /\ Busy(u) /\ thread'[u] = thread[u]
    BY <1>1 DEF Busy, Making, Destroying, Typed
  <2>3. \A u \in Threads, g \in Handles : u # t /\ Busy(u) /\ g \in Family(thread[u].h) =>
          g \notin Family(p)
    BY <1>2, <1>3, <2>1, OwnerOf DEF CallShape
  <2>4. \A u \in Threads : Busy(u) => Family(thread[u].h) \subseteq Handles
    BY FamilyBase DEF CallShape
  <2>5. MakersAlone'
    <3>1. \A u \in Threads : Making(u)' => u # t /\ Making(u) /\ thread'[u] = thread[u]
      BY <1>1 DEF Making, Typed
    <3> QED
      BY <1>1, <2>3, <2>4, <3>1 DEF MakersAlone, Busy, Live, res
  <2>6. MarkedAlone'
    <3>1. \A u \in Threads : Destroying(u)' => u # t /\ Destroying(u) /\ thread'[u] = thread[u]
      BY <1>1 DEF Destroying, Typed
    <3>2. \A g \in Handles : slot[g] = "live" /\ g \notin Family(p) => slot'[g] = "live"
      BY <1>1
    <3>3. \A u \in Threads : u # t /\ Destroying(u) =>
            /\ thread[u].h \in Family(thread[u].h) /\ Family(thread[u].h) \subseteq Handles
            /\ \A g \in Family(thread[u].h) : g \notin Family(p)
      BY <2>3, <2>4, FamilyBase DEF CallShape, Busy
    <3>4. \A g \in Handles : bCanLookup'[g] => bCanLookup[g] \/ g \in Family(p)
      BY <1>1
    <3> QED
      BY <1>1, <1>4, <3>1, <3>2, <3>3, <3>4 DEF MarkedAlone, Live, res
  <2> QED
    BY <2>5, <2>6
<1>9. FoundLives'
  <2>1. \A g \in Handles : bCanLookup'[g] => bCanLookup[g] \/ g \in Family(p)
    BY <1>1
  <2>2. \A g \in Handles : slot'[g] = "live" => slot[g] = "live" \/ g \in Family(p)
    BY <1>1
  <2>3. \A g \in Handles : Live(g)' = Live(g)
    BY <1>1 DEF Live, res
  <2>4. \A b : Intact(b)' = Intact(b)
    BY <1>1 DEF Intact, base
  <2>5. \A g \in Handles : g \in Family(p) => Live(Owner(g))
    BY <1>2, <1>3
  <2> QED
    BY <1>2, <2>1, <2>2, <2>3, <2>4, <2>5, OwnerOf DEF FoundLives
<1>10. NotMade'
  <2>1. made[p] /\ \A h \in Handles \ Subs : h # p => \A g \in Family(h) : g \notin Family(p)
    BY <1>2, <1>3, OwnerOf, FamilyBase DEF Live
  <2> QED
    BY <1>1, <2>1, FamilyBase DEF NotMade, res
<1>11. PinsHeld'
  BY <1>1 DEF PinsHeld, Live, res, Typed
<1>12. BaseCounted'
  BY <1>1, BaseKept
<1> QED
  BY <1>4, <1>5, <1>6, <1>7, <1>8, <1>9, <1>10, <1>11, <1>12

(* A call puts back what it has looked up.                                 *)
LEMMA ReleaseHandleKeeps ==
  ASSUME IInv, NEW t \in Threads, ReleaseHandle(t)
  PROVE  IInv'
<1> DEFINE x == thread[t].held
           c == thread'[t]
<1> USE HandlesAssumption DEF IInv
<1>1. /\ thread[t].op = "leaving" /\ thread' = [thread EXCEPT ![t] = c]
      /\ c = IF thread[t].h = None THEN Idle
             ELSE [op |-> "undo", h |-> thread[t].h, held |-> None]
      /\ iLookupCount' = [h \in Handles |-> IF h = x THEN iLookupCount[h] - 1
                                            ELSE iLookupCount[h]]
      /\ UNCHANGED <<slot, bCanLookup, res, conn, base, purge>>
  BY DEF ReleaseHandle, Go, Typed
<1>2. \A g \in Handles : /\ Holders(g)' = IF g = x THEN Holders(g) \ {t} ELSE Holders(g)
                         /\ g = x => t \in Holders(g)
  BY <1>1 DEF Holders, Typed, Idle
<1>3. LookupsCounted' /\ iLookupCount' \in [Handles -> Nat]
  <2> SUFFICES ASSUME NEW g \in Handles
               PROVE  /\ iLookupCount'[g] = Cardinality(Holders(g)')
                      /\ iLookupCount'[g] \in Nat
    BY <1>1 DEF LookupsCounted
  <2>1. iLookupCount'[g] = IF g = x THEN Cardinality(Holders(g)) - 1 ELSE Cardinality(Holders(g))
    BY <1>1 DEF LookupsCounted
  <2>2. IsFiniteSet(Holders(g)')
    BY <1>2, HoldersCount, FS_Subset
  <2>3. Cardinality(Holders(g)') \in Nat
    BY <2>2, FS_CardinalityType
  <2> QED
    BY <1>2, <2>1, <2>3, HoldersCount
<1> HIDE DEF x, c
<1>4. Typed'
  BY <1>1, <1>3 DEF Typed, res, base, Idle
<1>5. CallsAttached' /\ CallShape' /\ OneAtATime'
  BY <1>1 DEF CallsAttached, CallShape, OneAtATime, Typed, Near, Busy, Making, Destroying, Idle
<1>6. HeldLives' /\ MakersAlone'
  BY <1>1 DEF HeldLives, MakersAlone, Typed, Live, res, Making, Idle
<1>7. MarkedAlone'
  <2>1. \A u \in Threads : Destroying(u)' => u # t /\ Destroying(u) /\ thread'[u] = thread[u]
    BY <1>1 DEF Destroying, Typed, Idle
  <2>2. \A u \in Threads : Destroying(u) => Family(thread[u].h) \subseteq Handles
    BY FamilyBase DEF CallShape, Busy
  <2> QED
    BY <1>1, <1>2, <2>1, <2>2 DEF MarkedAlone, Live, res
<1>8. FoundLives' /\ NotMade' /\ PinsHeld'
  BY <1>1, HandlesKept DEF res, base
<1>9. BaseCounted'
  BY <1>1, BaseKept
<1> QED
  BY <1>3, <1>4, <1>5, <1>6, <1>7, <1>8, <1>9

(* What is undone has never had a handle.                                  *)
LEMMA UndoKeeps ==
  ASSUME IInv, NEW t \in Threads, Undo(t)
  PROVE  IInv'
<1> DEFINE p == thread[t].h
<1> USE HandlesAssumption DEF IInv
<1>1. /\ thread[t].op = "undo" /\ thread' = [thread EXCEPT ![t] = Idle]
      /\ releases' = [releases EXCEPT ![p] = @ + 1]
      /\ UNCHANGED <<data, made, busy, conn, base, purge>>
  BY DEF Undo
<1>2. /\ p \in Handles \ Subs /\ Live(p) /\ thread[t].held = None
      /\ \A g \in Family(p) : slot[g] = "unused"
  BY <1>1 DEF CallShape, MakersAlone, Busy, Making
<1>3. /\ \A g \in Handles : Owner(g) = p => slot[g] = "unused"
      /\ slot[p] = "unused"
  BY <1>2, OwnerOf, FamilyBase
<1> HIDE DEF p
<1>4. (\A g \in Handles : Holders(g)' = Holders(g)) /\ LookupsCounted'
  BY <1>1, <1>2, HoldersKept DEF Typed, data, Idle
<1>5. Typed'
  BY <1>1, <1>2 DEF Typed, data, base, Idle, Live
<1>6. CallsAttached' /\ CallShape' /\ OneAtATime'
  BY <1>1 DEF CallsAttached, CallShape, OneAtATime, Typed, Near, Busy, Making, Destroying, Idle
<1>7. \A g \in Handles : g # p /\ Live(g) => Live(g)'
  BY <1>1 DEF Live, Typed
<1>8. HeldLives'
  BY <1>1, <1>3, <1>7, OwnerOf DEF HeldLives, Typed, data, Idle
<1>9. MakersAlone' /\ MarkedAlone'
  <2>1. \A u \in Threads : u # t /\ Busy(u) => thread[u].h # p /\ thread[u].h \in Handles
    BY <1>1 DEF OneAtATime, CallShape, Busy, Making, p
  <2>2. \A u \in Threads : Busy(u)' => u # t /\ Busy(u) /\ thread'[u] = thread[u]
    BY <1>1 DEF Busy, Making, Destroying, Typed, Idle
  <2>3. MakersAlone'
    BY <1>1, <1>7, <2>1, <2>2 DEF MakersAlone, Busy, Making, data
  <2>4. MarkedAlone'
    BY <1>1, <1>4, <1>7, <2>1, <2>2, FamilyBase DEF MarkedAlone, Busy, Destroying, data
  <2> QED
    BY <2>3, <2>4
<1>10. FoundLives'
  BY <1>1, <1>3, <1>7, OwnerOf DEF FoundLives, data, base, Intact
<1>11. NotMade'
  BY <1>1, <1>2 DEF NotMade, Live, data, Typed
<1>12. PinsHeld'
  BY <1>1, <1>3, <1>7 DEF PinsHeld, Live, data, Typed
<1>13. BaseCounted'
  BY <1>1, BaseKept
<1> QED
  BY <1>4, <1>5, <1>6, <1>8, <1>9, <1>10, <1>11, <1>12, <1>13

(* A destroy marks what nobody holds, or only its own handle.              *)
LEMMA MarkKeeps ==
  ASSUME IInv, NEW t \in Threads, NEW h \in Handles, Mark(t, h)
  PROVE  IInv'
<1> DEFINE c == [op |-> "marked", h |-> h, held |-> None]
<1> USE HandlesAssumption DEF IInv
<1>1. /\ thread[t] = Idle /\ Reaches(t, h) /\ h \notin Subs /\ slot[h] = "live"
      /\ bCanLookup' = [g \in Handles |-> bCanLookup[g] /\ g \notin Marked(h)]
      /\ UNCHANGED <<slot, iLookupCount, res, conn, base, purge>>
  BY DEF Mark
<1>2. h # None /\ Family(h) \subseteq Handles /\ h \in Family(h) /\ Owner(h) = h
  BY <1>1, FamilyBase, OwnerOf
<1>3. thread' = [thread EXCEPT ![t] = c] \/ UNCHANGED thread
  BY DEF Mark, Go
<1>4. thread'[t].op = "marked" =>
        Live(h) /\ \A g \in Family(h) : bCanLookup[g] /\ ~bCanLookup'[g] /\ Holders(g) = {}
  <2> SUFFICES ASSUME thread'[t].op = "marked"
               PROVE  Live(h) /\ \A g \in Family(h) : bCanLookup[g] /\ ~bCanLookup'[g] /\ Holders(g) = {}
    OBVIOUS
  <2>1. Marked(h) = Family(h)
    BY <1>1 DEF Mark, Idle
  <2>2. MayMark(h) /\ \A g \in Family(h) : MayMark(g)
    BY <2>1, <1>2 DEF Marked
  <2>3. Live(h)
    BY <1>1, <1>2, <2>2 DEF MayMark, FoundLives
  <2>4. ASSUME NEW g \in Family(h) PROVE Holders(g) = {}
    <3>1. g \in Handles /\ Cardinality(Holders(g)) = 0
      BY <1>2, <2>2 DEF MayMark, LookupsCounted
    <3> QED
      BY <3>1, HoldersCount
  <2> QED
    BY <1>1, <1>2, <2>1, <2>2, <2>3, <2>4 DEF MayMark
<1>5. \A u \in Threads : thread'[u] # thread[u] =>
        u = t /\ thread'[u] = c /\ thread'[t].op = "marked"
  BY <1>3 DEF Typed
<1>6. (\A g \in Handles : Holders(g)' = Holders(g)) /\ LookupsCounted'
  BY <1>1, <1>5, HoldersKept DEF Idle
<1>7. Typed'
  BY <1>1, <1>3 DEF Typed, res, base
<1>8. CallsAttached' /\ CallShape'
  BY <1>1, <1>2, <1>5 DEF CallsAttached, CallShape, Reaches, Near, Busy, Making, Destroying, Idle
<1>9. HeldLives' /\ MakersAlone'
  BY <1>1, <1>5 DEF HeldLives, MakersAlone, Making, Live, res
<1>10. MarkedAlone'
  <2>1. \A u \in Threads : Destroying(u) => Family(thread[u].h) \subseteq Handles
    BY FamilyBase DEF CallShape, Busy
  <2>2. \A u \in Threads : Destroying(u)' =>
          \/ u = t /\ thread'[u] = c /\ thread'[t].op = "marked"
          \/ Destroying(u) /\ thread'[u] = thread[u]
    BY <1>5 DEF Destroying
  <2>3. \A g \in Handles : bCanLookup'[g] => bCanLookup[g]
    BY <1>1
  <2> SUFFICES ASSUME NEW u \in Threads, Destroying(u)'
               PROVE  /\ slot[thread'[u].h] = "live"
                      /\ \A g \in Family(thread'[u].h) : ~bCanLookup'[g] /\ Holders(g)' = {}
                      /\ thread'[u].op # "released" => Live(thread'[u].h)
    BY <1>1 DEF MarkedAlone, Live, res
  <2>4. CASE u = t /\ thread'[u] = c /\ thread'[t].op = "marked"
    <3>1. thread'[u].h = h /\ thread'[u].op = "marked"
      BY <2>4
    <3>2. Live(h) /\ \A g \in Family(h) : ~bCanLookup'[g] /\ Holders(g) = {}
      BY <1>4, <2>4 DEF Live
    <3>3. \A g \in Family(h) : Holders(g)' = {}
      BY <1>2, <1>6, <3>2
    <3> QED
      BY <1>1, <3>1, <3>2, <3>3
  <2>5. CASE Destroying(u) /\ thread'[u] = thread[u]
    BY <1>6, <2>1, <2>3, <2>5 DEF MarkedAlone
  <2> QED
    BY <2>2, <2>4, <2>5
<1>11. OneAtATime'
  <2>1. thread'[t].op = "marked" => \A u \in Threads : Busy(u) => thread[u].h # h
    BY <1>1, <1>2, <1>4 DEF Busy, MakersAlone, MarkedAlone
  <2> QED
    BY <1>1, <1>5, <2>1 DEF OneAtATime, Busy, Making, Destroying, Idle
<1>12. FoundLives'
  BY <1>1 DEF FoundLives, Live, res, base, Intact
<1>13. NotMade' /\ PinsHeld'
  BY <1>1 DEF NotMade, PinsHeld, Live, res
<1>14. BaseCounted'
  BY <1>1, BaseKept
<1> QED
  BY <1>6, <1>7, <1>8, <1>9, <1>10, <1>11, <1>12, <1>13, <1>14

(* A resource is released when nobody uses it, by the one that marked it.  *)
LEMMA ReleaseDataKeeps ==
  ASSUME IInv, NEW t \in Threads, ReleaseData(t)
  PROVE  IInv'
<1> DEFINE h == thread[t].h
           c == thread'[t]
<1> USE HandlesAssumption DEF IInv
<1>1. /\ thread[t].op = "marked" /\ thread' = [thread EXCEPT ![t] = c]
      /\ c = [op |-> c.op, h |-> h, held |-> None]
      /\ \/ c.op = "retry" /\ UNCHANGED releases
         \/ c.op = "released" /\ ~InUse(h) /\ releases' = [releases EXCEPT ![h] = @ + 1]
      /\ UNCHANGED <<data, made, busy, conn, base, purge>>
  BY DEF ReleaseData, Go, Typed, Retry
<1>2. /\ h \in Handles \ Subs /\ Live(h) /\ thread[t].held = None /\ slot[h] = "live"
      /\ \A g \in Family(h) : ~bCanLookup[g] /\ Holders(g) = {}
  BY <1>1 DEF CallShape, MarkedAlone, Busy, Destroying
<1>3. \A g \in Handles : Owner(g) = h => g \in Family(h) /\ ~bCanLookup[g] /\ Holders(g) = {}
  BY <1>2, OwnerOf
<1> HIDE DEF h, c
<1>4. (\A g \in Handles : Holders(g)' = Holders(g)) /\ LookupsCounted'
  BY <1>1, <1>2, HoldersKept DEF Typed, data
<1>5. Typed'
  BY <1>1, <1>2 DEF Typed, data, base, Live
<1>6. CallsAttached' /\ CallShape' /\ OneAtATime'
  BY <1>1, <1>2 DEF CallsAttached, CallShape, OneAtATime, Typed, Near, Busy, Making, Destroying, Idle, h
<1>7. /\ \A g \in Handles : Live(g) => Live(g)' \/ (g = h /\ ~InUse(h))
      /\ c.op # "released" => made'[h] /\ releases'[h] = 0
  <2>1. CASE c.op = "retry" /\ UNCHANGED releases
    BY <1>1, <1>2, <2>1 DEF Live
  <2>2. CASE c.op = "released" /\ ~InUse(h) /\ releases' = [releases EXCEPT ![h] = @ + 1]
    BY <1>1, <1>2, <2>2 DEF Live, Typed
  <2> QED
    BY <1>1, <2>1, <2>2
<1>8. HeldLives'
  <2>1. \A u \in Threads : thread'[u].held # None =>
          thread'[u].held = thread[u].held /\ Owner(thread[u].held) # h /\ u # t
    BY <1>1, <1>3 DEF Typed, Holders
  <2> QED
    BY <1>1, <1>7, <2>1, OwnerOf DEF HeldLives, Typed, data
<1>9. MakersAlone' /\ MarkedAlone'
  <2>1. \A u \in Threads : u # t /\ Busy(u) => thread[u].h # h /\ thread[u].h \in Handles
    BY <1>1 DEF OneAtATime, CallShape, Busy, Destroying, h
  <2>2. \A u \in Threads : u # t => thread'[u] = thread[u]
    BY <1>1 DEF Typed
  <2>3. MakersAlone'
    BY <1>1, <1>7, <2>1, <2>2 DEF MakersAlone, Busy, Making, data
  <2>4. MarkedAlone'
    <3> SUFFICES ASSUME NEW u \in Threads, Destroying(u)'
                 PROVE  /\ slot[thread'[u].h] = "live"
                        /\ \A g \in Family(thread'[u].h) : ~bCanLookup[g] /\ Holders(g)' = {}
                        /\ thread'[u].op # "released" =>
                             made'[thread'[u].h] /\ releases'[thread'[u].h] = 0
      BY <1>1 DEF MarkedAlone, data, Live
    <3>1. CASE u = t
      BY <1>1, <1>2, <1>4, <1>7, <3>1, FamilyBase DEF Typed
    <3>2. CASE u # t
      BY <1>4, <1>7, <2>1, <2>2, <3>2, FamilyBase DEF MarkedAlone, Busy, Destroying, Live
    <3> QED
      BY <3>1, <3>2
  <2> QED
    BY <2>3, <2>4
<1>10. FoundLives'
  BY <1>1, <1>3, <1>7, OwnerOf DEF FoundLives, data, base, Intact
<1>11. NotMade'
  BY <1>1, <1>2 DEF NotMade, Live, data, Typed
<1>12. PinsHeld'
  BY <1>1, <1>7 DEF PinsHeld, Live, InUse, data, Typed
<1>13. BaseCounted'
  BY <1>1, BaseKept
<1> QED
  BY <1>4, <1>5, <1>6, <1>8, <1>9, <1>10, <1>11, <1>12, <1>13

(* After another error the handle stays as the destroy has marked it.      *)
LEMMA ReleaseErrorKeeps ==
  ASSUME IInv, NEW t \in Threads, ReleaseError(t)
  PROVE  IInv'
<1> USE HandlesAssumption DEF IInv
<1>1. /\ thread[t].op = "marked" /\ thread' = [thread EXCEPT ![t] = Idle]
      /\ UNCHANGED <<data, made, releases, busy, conn, base, purge>>
  BY DEF ReleaseError
<1>2. thread[t].held = None
  BY <1>1 DEF CallShape
<1>3. (\A g \in Handles : Holders(g)' = Holders(g)) /\ LookupsCounted'
  BY <1>1, <1>2, HoldersKept DEF Typed, Idle, data
<1>4. Typed'
  BY <1>1 DEF Typed, data, base, Idle
<1>5. CallsAttached' /\ CallShape' /\ OneAtATime'
  BY <1>1 DEF CallsAttached, CallShape, OneAtATime, Typed, Near, Busy, Making, Destroying, Idle
<1>6. HeldLives' /\ MakersAlone'
  BY <1>1 DEF HeldLives, MakersAlone, Typed, Live, data, Making, Idle
<1>7. MarkedAlone'
  <2>1. \A u \in Threads : Destroying(u)' => Destroying(u) /\ thread'[u] = thread[u]
    BY <1>1 DEF Destroying, Typed, Idle
  <2>2. \A u \in Threads : Destroying(u) => Family(thread[u].h) \subseteq Handles
    BY FamilyBase DEF CallShape, Busy
  <2> QED
    BY <1>1, <1>3, <2>1, <2>2 DEF MarkedAlone, Live, data
<1>8. FoundLives' /\ NotMade' /\ PinsHeld'
  BY <1>1, HandlesKept DEF data, base
<1>9. BaseCounted'
  BY <1>1, BaseKept
<1> QED
  BY <1>3, <1>4, <1>5, <1>6, <1>7, <1>8, <1>9

(* After RETRY the handle can be looked up again: its resource is there.   *)
LEMMA KeepAliveKeeps ==
  ASSUME IInv, NEW t \in Threads, KeepAlive(t)
  PROVE  IInv'
<1> DEFINE h == thread[t].h
<1> USE HandlesAssumption DEF IInv
<1>1. /\ thread[t].op = "retry" /\ thread' = [thread EXCEPT ![t] = Idle]
      /\ bCanLookup' = [g \in Handles |-> bCanLookup[g] \/ g = h]
      /\ UNCHANGED <<slot, iLookupCount, res, conn, base, purge>>
  BY DEF KeepAlive, Restored
<1>2. h \in Handles \ Subs /\ Live(h) /\ thread[t].held = None /\ Owner(h) = h
  BY <1>1, OwnerOf, FamilyBase DEF CallShape, MarkedAlone, Busy, Destroying
<1> HIDE DEF h
<1>3. (\A g \in Handles : Holders(g)' = Holders(g)) /\ LookupsCounted'
  BY <1>1, <1>2, HoldersKept DEF Typed, Idle
<1>4. Typed'
  BY <1>1 DEF Typed, res, base, Idle
<1>5. CallsAttached' /\ CallShape' /\ OneAtATime'
  BY <1>1 DEF CallsAttached, CallShape, OneAtATime, Typed, Near, Busy, Making, Destroying, Idle
<1>6. HeldLives' /\ MakersAlone'
  BY <1>1 DEF HeldLives, MakersAlone, Typed, Live, res, Making, Idle
<1>7. MarkedAlone'
  <2>1. \A u \in Threads : Destroying(u)' => u # t /\ Destroying(u) /\ thread'[u] = thread[u]
    BY <1>1 DEF Destroying, Typed, Idle
  <2>2. \A u \in Threads : u # t /\ Destroying(u) =>
          h \notin Family(thread[u].h) /\ Family(thread[u].h) \subseteq Handles
    BY <1>1, <1>2, OwnerOf, FamilyBase DEF OneAtATime, CallShape, Busy, Destroying, h
  <2>3. \A g \in Handles : bCanLookup'[g] => bCanLookup[g] \/ g = h
    BY <1>1
  <2> QED
    BY <1>1, <1>3, <2>1, <2>2, <2>3 DEF MarkedAlone, Live, res
<1>8. FoundLives' /\ NotMade' /\ PinsHeld'
  <2>1. FoundLives'
    <3>1. \A g \in Handles : bCanLookup'[g] => bCanLookup[g] \/ g = h
      BY <1>1
    <3> QED
      BY <1>1, <1>2, <3>1 DEF FoundLives, Live, res, base, Intact
  <2>2. NotMade' /\ PinsHeld'
    BY <1>1 DEF NotMade, PinsHeld, Live, res
  <2> QED
    BY <2>1, <2>2
<1>9. BaseCounted'
  BY <1>1, BaseKept
<1> QED
  BY <1>3, <1>4, <1>5, <1>6, <1>7, <1>8, <1>9

(* A handle whose resource has been released goes with its sub-handle.     *)
LEMMA FreeDestroyKeeps ==
  ASSUME IInv, NEW t \in Threads, FreeDestroy(t)
  PROVE  IInv'
<1> DEFINE h == thread[t].h
<1> USE HandlesAssumption DEF IInv
<1>1. /\ thread[t].op = "released" /\ thread' = [thread EXCEPT ![t] = Idle]
      /\ slot' = [g \in Handles |-> IF g \in Family(h) THEN "gone" ELSE slot[g]]
      /\ UNCHANGED <<bCanLookup, iLookupCount, res, conn, base, purge>>
  BY DEF FreeDestroy
<1>2. /\ h \in Handles \ Subs /\ thread[t].held = None /\ slot[h] = "live"
      /\ \A g \in Family(h) : Holders(g) = {}
  BY <1>1 DEF CallShape, MarkedAlone, Busy, Destroying
<1>3. \A p \in Handles \ Subs : p # h => \A g \in Family(p) : g \in Handles /\ g \notin Family(h)
  BY <1>2, OwnerOf, FamilyBase
<1>4. h \in Family(h) /\ made[h]
  BY <1>2, FamilyBase DEF NotMade, Typed
<1> HIDE DEF h
<1>5. (\A g \in Handles : Holders(g)' = Holders(g)) /\ LookupsCounted'
  BY <1>1, <1>2, HoldersKept DEF Typed, Idle
<1>6. Typed'
  BY <1>1 DEF Typed, res, base, Idle
<1>7. CallsAttached' /\ CallShape' /\ OneAtATime'
  BY <1>1 DEF CallsAttached, CallShape, OneAtATime, Typed, Near, Busy, Making, Destroying, Idle
<1>8. HeldLives'
  BY <1>1, <1>2 DEF HeldLives, Typed, Live, res, Holders, Idle
<1>9. MakersAlone' /\ MarkedAlone'
  <2>1. \A u \in Threads : u # t /\ Busy(u) => thread[u].h # h /\ thread[u].h \in Handles \ Subs
    BY <1>1 DEF OneAtATime, CallShape, Busy, Destroying, h
  <2>2. \A u \in Threads : Busy(u)' => u # t /\ Busy(u) /\ thread'[u] = thread[u]
    BY <1>1 DEF Busy, Making, Destroying, Typed, Idle
  <2>3. MakersAlone'
    BY <1>1, <1>3, <2>1, <2>2 DEF MakersAlone, Busy, Making, Live, res
  <2>4. MarkedAlone'
    BY <1>1, <1>3, <1>5, <2>1, <2>2, FamilyBase DEF MarkedAlone, Busy, Destroying, Live, res
  <2> QED
    BY <2>3, <2>4
<1>10. FoundLives' /\ PinsHeld'
  BY <1>1 DEF FoundLives, PinsHeld, Live, res, base, Intact
<1>11. NotMade'
  BY <1>1, <1>3, <1>4 DEF NotMade, res
<1>12. BaseCounted'
  BY <1>1, BaseKept
<1> QED
  BY <1>5, <1>6, <1>7, <1>8, <1>9, <1>10, <1>11, <1>12

(* The firmware touches no handle.                                         *)
LEMMA FirmwareKeeps ==
  ASSUME IInv, NEW h \in Handles, FirmwareDone(h)
  PROVE  IInv'
<1> USE DEF IInv
<1>1. /\ UNCHANGED <<data, made, releases, thread, conn, base, purge>>
      /\ busy' \in [Handles -> BOOLEAN]
  BY DEF FirmwareDone, Typed
<1>2. \A g \in Handles : Holders(g)' = Holders(g)
  BY <1>1 DEF Holders
<1>3. Typed' /\ LookupsCounted'
  BY <1>1, <1>2 DEF Typed, LookupsCounted, data, base
<1>4. CallsAttached' /\ CallShape' /\ HeldLives' /\ MakersAlone' /\ OneAtATime'
  BY <1>1 DEF CallsAttached, CallShape, HeldLives, MakersAlone, OneAtATime,
              Busy, Making, Destroying, Live, data
<1>5. MarkedAlone'
  BY <1>1, <1>2, FamilyBase DEF MarkedAlone, CallShape, Busy, Destroying, Live, data
<1>6. FoundLives' /\ NotMade' /\ PinsHeld'
  BY <1>1, HandlesKept DEF data, base
<1>7. BaseCounted'
  BY <1>1, BaseKept
<1> QED
  BY <1>3, <1>4, <1>5, <1>6, <1>7

(* What connections coming and going leave true of calls: the conditions   *)
(* are that no call loses its connection and that no base becomes intact.  *)
LEMMA ConnectionsKeep ==
  ASSUME IInv, UNCHANGED <<data, made, releases, busy, thread>>,
         \A t \in Threads : thread[t] # Idle => conn'[ConnOf[t]] = "open",
         \A h \in Handles : Intact(Base[h])' => Intact(Base[h])
  PROVE  /\ LookupsCounted' /\ CallsAttached' /\ CallShape' /\ HeldLives' /\ MakersAlone'
         /\ MarkedAlone' /\ OneAtATime' /\ FoundLives' /\ NotMade' /\ PinsHeld'
<1> USE DEF IInv
<1>1. \A g \in Handles : Holders(g)' = Holders(g)
  BY DEF Holders
<1>2. LookupsCounted'
  BY <1>1 DEF LookupsCounted, data
<1>3. CallsAttached' /\ CallShape' /\ HeldLives' /\ MakersAlone' /\ OneAtATime'
  BY DEF CallsAttached, CallShape, HeldLives, MakersAlone, OneAtATime,
         Busy, Making, Destroying, Live, data
<1>4. MarkedAlone'
  BY <1>1, FamilyBase DEF MarkedAlone, CallShape, Busy, Destroying, Live, data
<1>5. FoundLives' /\ NotMade' /\ PinsHeld'
  BY DEF FoundLives, NotMade, PinsHeld, Live, data
<1> QED
  BY <1>2, <1>3, <1>4, <1>5

(* A connection counts in the process base.                                *)
LEMMA ConnectKeeps ==
  ASSUME IInv, NEW k \in Conns, Connect(k)
  PROVE  IInv'
<1> USE HandlesAssumption DEF IInv
<1>1. /\ conn[k] = "none" /\ inHash /\ conn' = [conn EXCEPT ![k] = "open"]
      /\ iRefCount' = iRefCount + 1 /\ procRef' = [procRef EXCEPT ![k] = TRUE]
      /\ UNCHANGED <<data, res, thread, inHash, purge>>
  BY DEF Connect
<1>2. Typed'
  BY <1>1 DEF Typed, data, res
<1>3. \A b : Intact(b)' => Intact(b)
  BY <1>1 DEF Intact, Typed
<1>4. \A t \in Threads : thread[t] # Idle => conn'[ConnOf[t]] = "open"
  BY <1>1 DEF CallsAttached, Typed
<1>5. BaseCounted'
  <2>1. Referrers' = Referrers \cup {k} /\ k \notin Referrers
    BY <1>1 DEF Referrers, BaseCounted, Typed
  <2>2. IsFiniteSet(Referrers)
    BY FS_Subset DEF Referrers
  <2>3. Cardinality(Referrers') = Cardinality(Referrers) + 1
    BY <2>1, <2>2, FS_AddElement
  <2> QED
    BY <1>1, <2>3 DEF BaseCounted, Typed
<1> QED
  BY <1>1, <1>2, <1>3, <1>4, <1>5, ConnectionsKeep DEF res

(* A connection is closed when none of its calls is running.               *)
LEMMA DisconnectKeeps ==
  ASSUME IInv, NEW k \in Conns, Disconnect(k)
  PROVE  IInv'
<1> USE HandlesAssumption DEF IInv
<1>1. /\ conn[k] = "open" /\ \A t \in Threads : ConnOf[t] = k => thread[t] = Idle
      /\ conn' = [conn EXCEPT ![k] = "closing"]
      /\ UNCHANGED <<data, res, thread, base, purge>>
  BY DEF Disconnect
<1>2. Typed'
  BY <1>1 DEF Typed, data, res, base
<1>3. \A b : Intact(b)' => Intact(b)
  BY <1>1 DEF Intact, Typed, base
<1>4. \A t \in Threads : thread[t] # Idle => conn'[ConnOf[t]] = "open"
  BY <1>1 DEF CallsAttached, Typed
<1>5. BaseCounted'
  <2>1. Referrers' = Referrers
    BY <1>1 DEF Referrers, base
  <2> QED
    BY <1>1, <2>1 DEF BaseCounted, Typed, base
<1> QED
  BY <1>1, <1>2, <1>3, <1>4, <1>5, ConnectionsKeep DEF res

(* The last reference takes the process base out of the table, and then no *)
(* connection is open.                                                     *)
LEMMA PurgeStartKeeps ==
  ASSUME IInv, NEW k \in Conns, PurgeStart(k)
  PROVE  IInv'
<1> USE HandlesAssumption DEF IInv
<1>1. /\ purge = Resting /\ conn[k] = "closing"
      /\ UNCHANGED <<data, res, thread, conn>>
  BY DEF PurgeStart
<1>2. ASSUME /\ iRefCount' \in Int /\ inHash' \in BOOLEAN /\ procRef' \in [Conns -> BOOLEAN]
             /\ purge' \in [conn : Conns \cup {None}, stage : Conns \cup {Process, None}]
      PROVE  Typed'
  BY <1>1, <1>2 DEF Typed, data, res
<1>3. IsFiniteSet(Referrers) /\ Cardinality(Referrers) \in Nat
  BY FS_Subset, FS_CardinalityType DEF Referrers
<1>4. CASE procRef[k] /\ iRefCount = 1
  <2>1. /\ iRefCount' = 0 /\ inHash' = FALSE /\ UNCHANGED procRef
        /\ purge' = [conn |-> k, stage |-> Process]
    BY <1>4 DEF PurgeStart, LastReference
  <2>2. Referrers = {k}
    <3>1. inHash /\ Cardinality(Referrers) = 1 /\ k \in Referrers
      BY <1>4 DEF BaseCounted, Typed, Referrers
    <3> QED
      BY <1>3, <3>1, FS_Singleton
  <2>3. \A j \in Conns : conn[j] # "open"
    BY <1>1, <2>2 DEF BaseCounted, Referrers
  <2>4. BaseCounted'
    BY <1>1, <2>1, <2>3 DEF BaseCounted
  <2>5. \A b : Intact(b)' => Intact(b)
    BY <1>1, <2>1 DEF Intact
  <2>6. Typed'
    <3>1. inHash' \in BOOLEAN
      BY <2>1, Zenon
    <3>2. procRef' \in [Conns -> BOOLEAN]
      BY <2>1 DEF Typed
    <3>3. purge' \in [conn : Conns \cup {None}, stage : Conns \cup {Process, None}]
      BY <2>1
    <3> QED
      BY <1>2, <2>1, <3>1, <3>2, <3>3
  <2> QED
    BY <1>1, <2>4, <2>5, <2>6, ConnectionsKeep DEF CallsAttached, res
<1>5. CASE procRef[k] /\ iRefCount # 1
  <2>1. /\ iRefCount' = iRefCount - 1 /\ UNCHANGED inHash
        /\ procRef' = [procRef EXCEPT ![k] = FALSE]
        /\ purge' = [conn |-> k, stage |-> k]
    BY <1>5 DEF PurgeStart, LastReference
  <2>2. Referrers' = Referrers \ {k} /\ k \in Referrers
    BY <1>5, <2>1 DEF Referrers, Typed
  <2>3. Cardinality(Referrers') = Cardinality(Referrers) - 1
    BY <1>3, <2>2, FS_RemoveElement
  <2>4. BaseCounted'
    BY <1>1, <1>3, <2>1, <2>3 DEF BaseCounted, Typed, Resting
  <2>5. \A b : Intact(b)' => Intact(b)
    BY <1>1, <2>1 DEF Intact
  <2>6. Typed'
    <3>1. iRefCount \in Int /\ inHash \in BOOLEAN /\ procRef \in [Conns -> BOOLEAN]
      BY DEF Typed
    <3> QED
      BY <1>2, <2>1, <3>1
  <2> QED
    BY <1>1, <2>4, <2>5, <2>6, ConnectionsKeep DEF CallsAttached, res
<1>6. CASE ~procRef[k]
  <2>1. UNCHANGED base /\ purge' = [conn |-> k, stage |-> k]
    BY <1>6 DEF PurgeStart
  <2>2. Referrers' = Referrers
    BY <2>1 DEF Referrers, base
  <2>3. BaseCounted'
    BY <1>1, <2>1, <2>2 DEF BaseCounted, base
  <2>4. \A b : Intact(b)' => Intact(b)
    BY <1>1, <2>1 DEF Intact, base
  <2>5. Typed'
    BY <1>2, <2>1 DEF Typed, base
  <2> QED
    BY <1>1, <2>3, <2>4, <2>5, ConnectionsKeep DEF CallsAttached, res
<1> QED
  BY <1>4, <1>5, <1>6

(* The cleanup thread touches only handles that no call can have, and      *)
(* releases no resource in use.                                            *)
LEMMA FreeHandleDataKeeps ==
  ASSUME IInv, NEW h \in Handles, FreeHandleData(h)
  PROVE  IInv'
<1> DEFINE releasing == bCanLookup[h] /\ h \notin Subs
<1> USE HandlesAssumption DEF IInv
<1>1. /\ purge # Resting /\ Base[h] = purge.stage /\ slot[h] = "live"
      /\ UNCHANGED <<made, busy, thread, conn, base>>
  BY DEF FreeHandleData, IsNext, Left
<1>2. CASE purge' = Resting /\ UNCHANGED <<data, releases>>
  <2>1. purge' = Resting /\ UNCHANGED <<data, releases>>
    BY <1>2
  <2>2. Typed'
    BY <1>1, <2>1 DEF Typed, data, base, Resting
  <2>3. Referrers' = Referrers
    BY <1>1 DEF Referrers, base
  <2>4. BaseCounted'
    BY <1>1, <2>1, <2>3 DEF BaseCounted, base
  <2>5. \A b : Intact(b)' => Intact(b)
    BY <1>1 DEF Intact, base
  <2> QED
    BY <1>1, <2>1, <2>2, <2>4, <2>5, ConnectionsKeep DEF CallsAttached, res
<1>3. CASE /\ ~(releasing /\ Retry(h))
           /\ slot' = [slot EXCEPT ![h] = "gone"]
           /\ bCanLookup' = [bCanLookup EXCEPT ![h] = FALSE]
           /\ releases' = [releases EXCEPT ![h] = IF releasing THEN @ + 1 ELSE @]
           /\ UNCHANGED <<iLookupCount, purge>>
  <2>1. /\ slot' = [slot EXCEPT ![h] = "gone"]
        /\ bCanLookup' = [bCanLookup EXCEPT ![h] = FALSE]
        /\ releases' = [releases EXCEPT ![h] = IF releasing THEN @ + 1 ELSE @]
        /\ UNCHANGED <<iLookupCount, purge>>
    BY <1>3
  <2>2. releasing => Live(h) /\ ~InUse(h)
    <3>1. h \notin Subs => Owner(h) = h
      BY OwnerOf, FamilyBase
    <3> QED
      BY <1>1, <1>3, <3>1 DEF FoundLives, Retry
  <2>3. ~Intact(Base[h])
    BY <1>1, PurgedNotIntact
  <2>4. made[h] \/ h \in Subs
    BY <1>1, FamilyBase DEF NotMade, Typed
  <2> HIDE DEF releasing
  <2>5. \A t \in Threads, g \in Handles : thread[t] # Idle /\ Near(t, g) =>
          g # h /\ \A f \in Family(g) : f # h
    BY <2>3, CallersIntact, FamilyBase
  <2>6. \A t \in Threads : Busy(t) => /\ thread[t] # Idle /\ Near(t, thread[t].h)
                                      /\ thread[t].h \in Handles /\ thread[t].h # None
    BY DEF Busy, Making, Destroying, CallShape, CallsAttached, Idle
  <2>7. Typed'
    BY <1>1, <2>1, <2>2 DEF Typed, base, Live
  <2>8. \A g \in Handles : Holders(g)' = Holders(g)
    BY <1>1 DEF Holders
  <2>9. LookupsCounted' /\ CallsAttached' /\ CallShape' /\ OneAtATime'
    BY <1>1, <2>1, <2>8 DEF LookupsCounted, CallsAttached, CallShape, OneAtATime,
       Busy, Making, Destroying
  <2>10. \A g \in Handles : g # h =>
           (Live(g)' <=> Live(g)) /\ slot'[g] = slot[g] /\ bCanLookup'[g] = bCanLookup[g]
    BY <1>1, <2>1 DEF Live, Typed
  <2>11. HeldLives'
    <3>1. \A t \in Threads : thread[t].held # None =>
            /\ thread[t].held \in Handles /\ thread[t].held # h
            /\ Owner(thread[t].held) \in Handles /\ Owner(thread[t].held) # h
      <4> SUFFICES ASSUME NEW t \in Threads, thread[t].held # None
                   PROVE  /\ thread[t].held \in Handles /\ thread[t].held # h
                          /\ Owner(thread[t].held) \in Handles /\ Owner(thread[t].held) # h
        OBVIOUS
      <4>1. thread[t] # Idle /\ thread[t].held \in Handles /\ Near(t, thread[t].held)
        BY DEF CallsAttached, Typed, Idle
      <4>2. Near(t, Owner(thread[t].held)) /\ Owner(thread[t].held) \in Handles
        BY <4>1, OwnerOf, FamilyBase DEF Near
      <4> QED
        BY <4>1, <4>2, <2>5
    <3> QED
      BY <1>1, <2>10, <3>1 DEF HeldLives
  <2>12. MakersAlone' /\ MarkedAlone'
    <3>1. \A t \in Threads : Busy(t) =>
            /\ thread[t].h \in Handles /\ thread[t].h # h
            /\ \A f \in Family(thread[t].h) : f \in Handles /\ f # h
      BY <2>5, <2>6, FamilyBase
    <3>2. MakersAlone'
      BY <1>1, <2>10, <3>1 DEF MakersAlone, Busy, Making
    <3>3. MarkedAlone'
      BY <1>1, <2>8, <2>10, <3>1 DEF MarkedAlone, Busy, Destroying
    <3> QED
      BY <3>2, <3>3
  <2>13. FoundLives'
    <3> SUFFICES ASSUME NEW g \in Handles, g # h, slot[g] = "live", bCanLookup[g],
                        g \notin Subs \/ Intact(Base[g])
                 PROVE  Live(Owner(g))'
      BY <1>1, <2>1, <2>10 DEF FoundLives, Intact, base, Typed
    <3>1. Live(Owner(g)) /\ Owner(g) \in Handles
      BY OwnerOf DEF FoundLives
    <3>2. Owner(g) # h
      BY <2>3, OwnerOf, FamilyBase
    <3> QED
      BY <2>10, <3>1, <3>2
  <2>14. NotMade'
    <3>1. \A p \in Handles \ Subs : ~made[p] => p # h /\ \A f \in Family(p) : f \in Handles /\ f # h
      BY <1>1, <2>4, FamilyBase DEF NotMade
    <3> QED
      BY <1>1, <2>1, <3>1 DEF NotMade, Typed
  <2>15. PinsHeld'
    <3>1. \A g \in Handles : Live(g)' => Live(g) 
      BY <1>1, <2>1, <2>2 DEF Live, Typed
    <3>2. \A g \in Handles : Live(g) /\ Pins[g] = h => Live(h)'
      <4>1. SUFFICES ASSUME NEW g \in Handles, Live(g), Pins[g] = h PROVE Live(h)'
        OBVIOUS
      <4>2. Live(h) /\ ~releasing
        BY <2>2, <4>1 DEF PinsHeld, InUse
      <4> QED
        BY <1>1, <2>1, <4>2 DEF Live, Typed
    <3> QED
      BY <1>1, <2>1, <2>10, <3>1, <3>2 DEF PinsHeld, Typed
  <2>16. BaseCounted'
    BY <1>1, <2>1, BaseKept
  <2> QED
    BY <2>7, <2>9, <2>11, <2>12, <2>13, <2>14, <2>15, <2>16
<1> QED
  BY <1>2, <1>3 DEF FreeHandleData

(* After the process base comes the connection's own.                      *)
LEMMA BaseFreedKeeps ==
  ASSUME IInv, BaseFreed
  PROVE  IInv'
<1> USE HandlesAssumption DEF IInv
<1>1. purge # Resting /\ UNCHANGED <<data, res, thread, iRefCount, inHash>>
  BY DEF BaseFreed
<1>2. CASE purge.stage = Process
  <2>1. /\ procRef' = [procRef EXCEPT ![purge.conn] = FALSE] /\ UNCHANGED conn
        /\ purge' = [purge EXCEPT !.stage = purge.conn]
    BY <1>2 DEF BaseFreed
  <2>2. ~inHash /\ purge.conn \in Conns /\ conn[purge.conn] = "closing"
    BY <1>1, <1>2 DEF BaseCounted
  <2>3. Typed'
    BY <1>1, <2>1, <2>2 DEF Typed, data, res
  <2>4. BaseCounted'
    BY <1>1, <2>1, <2>2 DEF BaseCounted, Typed
  <2>5. \A b : Intact(b)' => Intact(b)
    BY <1>1, <2>1 DEF Intact
  <2> QED
    BY <1>1, <2>1, <2>3, <2>4, <2>5, ConnectionsKeep DEF CallsAttached, res
<1>3. CASE purge.stage # Process
  <2>1. /\ conn' = [conn EXCEPT ![purge.conn] = "closed"]
        /\ purge' = Resting /\ UNCHANGED procRef
    BY <1>3 DEF BaseFreed
  <2>2. purge.conn \in Conns /\ conn[purge.conn] = "closing"
    BY <1>1 DEF BaseCounted
  <2>3. Typed'
    BY <1>1, <2>1, <2>2 DEF Typed, data, res, Resting
  <2>4. Referrers' = Referrers
    BY <2>1 DEF Referrers
  <2>5. BaseCounted'
    BY <1>1, <2>1, <2>2, <2>4 DEF BaseCounted, Typed
  <2>6. \A b : Intact(b)' => Intact(b)
    BY <1>1, <2>1, <2>2 DEF Intact, Typed
  <2>7. \A t \in Threads : thread[t] # Idle => conn'[ConnOf[t]] = "open"
    BY <2>1, <2>2 DEF CallsAttached, Typed
  <2> QED
    BY <1>1, <2>3, <2>5, <2>6, <2>7, ConnectionsKeep DEF res
<1> QED
  BY <1>2, <1>3

(* Every step preserves the invariant.                                     *)
LEMMA StepIInv == IInv /\ [Next]_vars => IInv'
<1> SUFFICES ASSUME IInv, [Next]_vars PROVE IInv'
  OBVIOUS
<1>1. ASSUME NEW t \in Threads, Call(t) PROVE IInv'
  BY <1>1, LookupKeeps, MovesOnKeep, CreateKeeps, AllocHandleKeeps, ReleaseHandleKeeps,
     UndoKeeps, MarkKeeps, ReleaseDataKeeps, ReleaseErrorKeeps, KeepAliveKeeps,
     FreeDestroyKeeps DEF Call
<1>2. ASSUME NEW k \in Conns, Connect(k) \/ Disconnect(k) PROVE IInv'
  BY <1>2, ConnectKeeps, DisconnectKeeps
<1>3. CASE Purge
  BY <1>3, PurgeStartKeeps, FreeHandleDataKeeps, BaseFreedKeeps DEF Purge
<1>4. CASE UNCHANGED vars
  <2>1. UNCHANGED <<data, res, thread, conn, base, purge>>
    BY <1>4 DEF vars
  <2>2. Typed'
    BY <2>1 DEF IInv, Typed, data, res, base
  <2>3. \A b : Intact(b)' => Intact(b)
    BY <2>1 DEF Intact, base
  <2> QED
    BY <2>1, <2>2, <2>3, ConnectionsKeep, BaseKept DEF IInv, CallsAttached, res
<1> QED
  BY <1>1, <1>2, <1>3, <1>4, FirmwareKeeps DEF Next

(* The invariant holds.                                                    *)
THEOREM Invariant == Spec => []IInv
BY InitIInv, StepIInv, PTL DEF Spec

(* No call ever works with a resource that has been released, nor puts its *)
(* reference back to HANDLE_DATA that has been freed (HeldLives): for any  *)
(* number of connections, threads and handles, with RETRY answers from     *)
(* every base.                                                             *)
THEOREM HeldResources == Spec => []HeldLives
BY Invariant, PTL DEF IInv

(* No resource is released before those that keep it in use (UsedOutlives),*)
(* although a destroy reads the number of users without a lock.            *)
THEOREM PinnedResources == Spec => []UsedOutlives
<1>1. IInv => UsedOutlives
  BY DEF IInv, PinsHeld, UsedOutlives
<1> QED
  BY <1>1, Invariant, PTL

(* The types and the two counters need one thing more: that no release of  *)
(* a handle of the process base fails, with RETRY or another error, or the *)
(* reference count of that base is decremented again                       *)
(* (connection_server.c:101).  The process  *)
(* base holds imports and exports of PMRs, the page of information and,    *)
(* where fences fall back on the driver's own, timelines and fences; their *)
(* release functions never answer RETRY today, although the comment at     *)
(* connection_server.c:96 expects that handles of this base may.           *)
ProcessNeverRetries ==
  \A h \in Handles : Base[h] = Process =>
    h \notin Kicked \cup Failing /\ \A g \in Handles : Pins[g] # h

(* The process base that is out of the table is being freed, in the name   *)
(* of the connection that still has a pointer to it.                       *)
ProcessFreedOnce ==
  /\ \A h \in Handles : busy[h] => h \in Kicked
  /\ ~inHash => /\ iRefCount = 0
                /\ \A k \in Conns : procRef[k] => purge = [conn |-> k, stage |-> Process]

(* Every step preserves this as well.                                      *)
LEMMA ProcessFreedOnceKeeps ==
  ASSUME ProcessNeverRetries, IInv, ProcessFreedOnce, [Next]_vars
  PROVE  ProcessFreedOnce'
<1> USE HandlesAssumption DEF IInv, ProcessFreedOnce
<1>1. ASSUME NEW t \in Threads, Call(t) PROVE ProcessFreedOnce'
  <2>1. UNCHANGED <<base, purge>>
    BY <1>1 DEF Call, Lookup, Use, Create, CreateFails, AllocHandle, AllocFails,
       ReleaseHandle, Undo, Mark, ReleaseData, ReleaseError, KeepAlive, FreeDestroy
  <2>2. \A h \in Handles : busy'[h] => busy[h] \/ h \in Kicked
    <3>1. CASE Use(t)
      BY <3>1 DEF Use, Typed
    <3>2. CASE ~Use(t)
      BY <1>1, <3>2 DEF Call, Lookup, Create, CreateFails, AllocHandle, AllocFails,
         ReleaseHandle, Undo, Mark, ReleaseData, ReleaseError, KeepAlive, FreeDestroy, res
    <3> QED
      BY <3>1, <3>2
  <2> QED
    BY <2>1, <2>2 DEF base
<1>2. ASSUME NEW h \in Handles, FirmwareDone(h) PROVE ProcessFreedOnce'
  BY <1>2 DEF FirmwareDone, base, Typed
<1>3. ASSUME NEW k \in Conns, Connect(k) \/ Disconnect(k) PROVE ProcessFreedOnce'
  BY <1>3 DEF Connect, Disconnect, base, res
<1>4. ASSUME NEW k \in Conns, PurgeStart(k) PROVE ProcessFreedOnce'
  <2>1. purge = Resting /\ UNCHANGED busy
    BY <1>4 DEF PurgeStart, res
  <2>2. CASE inHash /\ iRefCount = 1 /\ procRef[k]
    <3>1. iRefCount' = 0 /\ purge' = [conn |-> k, stage |-> Process] /\ UNCHANGED procRef
      BY <1>4, <2>2 DEF PurgeStart, LastReference
    <3>2. Referrers = {k}
      <4>1. IsFiniteSet(Referrers) /\ Cardinality(Referrers) = 1 /\ k \in Referrers
        BY <2>2, FS_Subset DEF BaseCounted, Referrers
      <4> QED
        BY <4>1, FS_Singleton
    <3> QED
      BY <2>1, <3>1, <3>2 DEF Referrers
  <2>3. CASE inHash /\ ~(iRefCount = 1 /\ procRef[k])
    BY <1>4, <2>1, <2>3 DEF PurgeStart, LastReference, base
  <2>4. CASE ~inHash
    <3>1. \A j \in Conns : [conn |-> j, stage |-> Process].conn # Resting.conn
      BY DEF Resting
    <3>2. \A j \in Conns : ~procRef[j]
      BY <2>1, <2>4, <3>1
    <3>3. UNCHANGED base
      BY <1>4, <3>2 DEF PurgeStart
    <3> QED
      BY <2>1, <2>4, <3>2, <3>3 DEF base
  <2> QED
    BY <2>2, <2>3, <2>4
<1>5. ASSUME NEW h \in Handles, FreeHandleData(h) PROVE ProcessFreedOnce'
  <2>1. purge # Resting /\ Base[h] = purge.stage /\ UNCHANGED <<busy, base>>
    BY <1>5 DEF FreeHandleData, IsNext, Left
  <2>2. CASE purge.stage = Process
    <3>1. ~Retry(h) /\ ~MayFail(h)
      BY <2>1, <2>2 DEF ProcessNeverRetries, Retry, InUse, MayFail
    <3> QED
      BY <1>5, <2>1, <3>1 DEF FreeHandleData, base
  <2>3. CASE purge.stage # Process
    BY <2>1, <2>3 DEF base
  <2> QED
    BY <2>2, <2>3
<1>6. CASE BaseFreed
  <2>1. UNCHANGED <<busy, iRefCount, inHash>> /\ purge # Resting
    BY <1>6 DEF BaseFreed, res
  <2>2. \A k \in Conns : procRef'[k] => procRef[k]
    BY <1>6 DEF BaseFreed, Typed
  <2>3. \A k \in Conns : procRef'[k] => purge # [conn |-> k, stage |-> Process]
    BY <1>6, <2>1 DEF BaseFreed, Typed
  <2> QED
    BY <2>1, <2>2, <2>3
<1>7. CASE UNCHANGED vars
  BY <1>7 DEF vars, res, base
<1> QED
  BY <1>1, <1>2, <1>3, <1>4, <1>5, <1>6, <1>7 DEF Next, Purge

(* The bound on errors is one.                                             *)
LEMMA ErrorsBounded == Spec => [](errors \in 0..MaxErrors)
<1> USE HandlesAssumption
<1>1. Init => errors \in 0..MaxErrors
  BY DEF Init
<1>2. errors \in 0..MaxErrors /\ [Next]_vars => (errors \in 0..MaxErrors)'
  <2> SUFFICES ASSUME errors \in 0..MaxErrors, [Next]_vars PROVE errors' \in 0..MaxErrors
    OBVIOUS
  <2>1. \/ UNCHANGED errors
        \/ errors < MaxErrors /\ errors' = errors + 1
    <3>1. ASSUME NEW t \in Threads, Call(t)
          PROVE  UNCHANGED errors \/ (errors < MaxErrors /\ errors' = errors + 1)
      <4>1. CASE ReleaseError(t)
        BY <4>1 DEF ReleaseError, MayFail
      <4>2. CASE ~ReleaseError(t)
        BY <3>1, <4>2 DEF Call, Lookup, Use, Create, CreateFails, AllocHandle, AllocFails,
           ReleaseHandle, Undo, Mark, ReleaseData, KeepAlive, FreeDestroy, res
      <4> QED
        BY <4>1, <4>2
    <3>2. ASSUME NEW h \in Handles, FreeHandleData(h)
          PROVE  UNCHANGED errors \/ (errors < MaxErrors /\ errors' = errors + 1)
      BY <3>2 DEF FreeHandleData, MayFail
    <3>3. CASE UNCHANGED errors
      BY <3>3
    <3> QED
      BY <3>1, <3>2, <3>3 DEF Next, Purge, FirmwareDone, Connect, Disconnect, PurgeStart,
         BaseFreed, vars, res
  <2> QED
    BY <2>1
<1> QED
  BY <1>1, <1>2, PTL DEF Spec

(* The types, that a resource is released at most once and that a lookup   *)
(* count is the number of calls that hold the handle (TypeOK).             *)
THEOREM TypeCorrect == ASSUME ProcessNeverRetries PROVE Spec => []TypeOK
<1>1. Init => ProcessFreedOnce
  BY DEF Init, ProcessFreedOnce
<1>2. IInv /\ ProcessFreedOnce /\ errors \in 0..MaxErrors => TypeOK
  <2> SUFFICES ASSUME IInv, ProcessFreedOnce, errors \in 0..MaxErrors PROVE TypeOK
    OBVIOUS
  <2>1. iRefCount \in 0..Cardinality(Conns)
    <3>1. /\ Cardinality(Conns) \in Nat /\ Cardinality(Referrers) \in Nat
          /\ Cardinality(Referrers) <= Cardinality(Conns)
      BY HandlesAssumption, FS_Subset, FS_CardinalityType DEF Referrers
    <3> QED
      BY <3>1 DEF IInv, BaseCounted, ProcessFreedOnce
  <2> QED
    BY <2>1 DEF IInv, Typed, LookupsCounted, TypeOK
<1> QED
  BY <1>1, <1>2, Invariant, ErrorsBounded, ProcessFreedOnceKeeps, PTL DEF Spec
=============================================================================
