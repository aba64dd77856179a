------------------------ MODULE CleanupThread_proofs ------------------------
(***************************************************************************)
(* Proofs about CleanupThread: every item of work is in one place, is run  *)
(* by the thread only while nobody else has it, and is counted once, for   *)
(* any number of items, devices and tries.                                 *)
(***************************************************************************)
EXTENDS CleanupThread, FiniteSetTheorems, SequenceTheorems, WellFoundedInduction, TLAPS

(* A nonempty set of natural numbers has a least element ...               *)
LEMMA Least ==
  ASSUME NEW T \in SUBSET Nat, T # {}
  PROVE  \E x \in T : \A y \in T : x <= y
<1>1. IsWellFoundedOn(OpToRel(<,Nat), Nat)
  BY NatLessThanWellFounded
<1>2. PICK x \in T : \A y \in T : ~ (<<y, x>> \in OpToRel(<, Nat))
  BY <1>1, WFMin
<1>3. \A a, b \in Nat : a < b => <<a, b>> \in OpToRel(<, Nat)
  BY DEF OpToRel
<1>4. \A y \in T : x \in Nat /\ y \in Nat /\ ~(y < x)
  BY <1>2, <1>3
<1>5. \A y \in T : x <= y
  <2> TAKE y \in T
  <2>1. x \in Nat /\ y \in Nat /\ ~(y < x)
    BY <1>4
  <2> QED
    BY <2>1
<1> QED
  BY <1>5

(* ... and, if bounded, a greatest.                                        *)
LEMMA Greatest ==
  ASSUME NEW T, T # {}, NEW N \in Nat, T \subseteq 0 .. N
  PROVE  \E x \in T : \A y \in T : y <= x
<1> DEFINE U == {N - x : x \in T}
<1>1. U \in SUBSET Nat /\ U # {}
  <2>1. \A x \in T : x \in 0 .. N
    OBVIOUS
  <2>2. \A x \in T : N - x \in Nat
    BY <2>1
  <2> QED
    BY <2>2
<1>2. PICK u \in U : \A v \in U : u <= v
  BY <1>1, Least
<1>3. PICK x \in T : u = N - x
  OBVIOUS
<1>4. \A y \in T : N - x <= N - y
  BY <1>2, <1>3
<1> QED
  BY <1>4

-----------------------------------------------------------------------------
(* The lists.                                                              *)
Lists == Devices \cup {Host}

(* An item is on a list; no two places of the lists hold the same.         *)
Listed(i) == \E d \in Lists : \E n \in 1 .. Len(list[d]) : list[d][n] = i
Distinct ==
  \A d, e \in Lists : \A n \in 1 .. Len(list[d]), m \in 1 .. Len(list[e]) :
    list[d][n] = list[e][m] => d = e /\ n = m

(* Types, without the places and the counts.                               *)
Typed ==
  /\ devOf \in [Items -> Lists]
  /\ list \in [Lists -> Seq(Items)]
  /\ status \in [Items -> {"out", "queued", "dropped"}]
  /\ adder \in [Items -> {"no", "counted", "listed"}]
  /\ ui32RetryCount \in [Items -> 0 .. MaxRetries]
  /\ pc \in {"loop", "wait", "start", "pop", "free", "again", "ended"}
  /\ uiUnloadRetry \in 0 .. UnloadRetry + 1
  /\ psNodeLast \in Items \cup {None}
  /\ psNodeIter \in Items \cup {None}
  /\ psDeviceNode \in Lists \cup {None}
  /\ device \in [Devices -> {"up", "waiting", "leaving", "gone"}]

(* The thread has an item, and knows its list, while it is at work on it.  *)
AtWork ==
  /\ psNodeIter # None <=> pc \in {"free", "again"}
  /\ pc \in {"free", "again"} => psDeviceNode \in Lists

(* An item that is not done with is in one of three places.                *)
OneHome ==
  /\ Distinct
  /\ \A i \in Items :
       /\ Listed(i) => adder[i] # "counted" /\ psNodeIter # i
       /\ adder[i] = "counted" => psNodeIter # i
       /\ status[i] = "queued" <=> (adder[i] = "counted" \/ psNodeIter = i \/ Listed(i))

(* The counts; every item dropped took one from the second.                *)
With(s) == {i \in Items : status[i] = s}
Counts ==
  /\ i32NumCleanupItemsQueued = Cardinality(With("queued"))
  /\ i32NumCleanupItemsNotCompleted \in -Cardinality(With("dropped")) .. 0

IInv == Typed /\ AtWork /\ OneHome /\ Counts

-----------------------------------------------------------------------------
(* The places of a device's list in the round robin.                       *)
LEMMA DevicePlaces ==
  \A d \in Devices : Place(d) \in 1 .. Len(DeviceList)
<1> SUFFICES ASSUME NEW d \in Devices PROVE Place(d) \in 1 .. Len(DeviceList)
  OBVIOUS
<1>1. DOMAIN DeviceList = 1 .. Len(DeviceList)
  BY CleanupAssumption
<1>2. \E n \in DOMAIN DeviceList : DeviceList[n] = d
  BY DEF Devices, Range
<1> QED
  BY <1>1, <1>2 DEF Place

(* Of some devices one is the first, and one the last.                     *)
LEMMA FirstAndLast ==
  ASSUME NEW ds \in SUBSET Devices, ds # {}
  PROVE  /\ \E d \in ds : \A e \in ds : Place(d) <= Place(e)
         /\ \E d \in ds : \A e \in ds : Place(e) <= Place(d)
<1> DEFINE T == {Place(d) : d \in ds}
<1>0. Len(DeviceList) \in Nat
  BY CleanupAssumption
<1>1. T # {} /\ T \subseteq 0 .. Len(DeviceList) /\ T \in SUBSET Nat
  BY <1>0, DevicePlaces
<1>2. \E x \in T : \A y \in T : x <= y
  BY <1>1, Least
<1>3. \E x \in T : \A y \in T : y <= x
  BY <1>0, <1>1, Greatest
<1> QED
  BY <1>2, <1>3

(* What the thread may pop from has something to pop.                      *)
LEMMA PopFromBusy ==
  ASSUME PopFrom # None
  PROVE  PopFrom \in Lists /\ list[PopFrom] # <<>>
<1>1. ASSUME NEW ds \in SUBSET Devices, Busy(ds) # {}
      PROVE  FirstOf(Busy(ds)) \in Busy(ds)
  <2>1. Busy(ds) \in SUBSET Devices
    BY DEF Busy
  <2>2. \E d \in Busy(ds) : \A e \in Busy(ds) : Place(d) <= Place(e)
    BY <1>1, <2>1, FirstAndLast
  <2> QED
    BY <2>2 DEF FirstOf
<1>2. Later(psDeviceNode) \in SUBSET Devices
  BY DEF Later
<1>3. \A ds \in SUBSET Devices : \A d \in Busy(ds) : d \in Lists /\ list[d] # <<>>
  BY DEF Busy, Lists
<1>4. CASE Busy(Later(psDeviceNode)) # {}
  BY <1>1, <1>2, <1>3, <1>4 DEF PopFrom
<1>5. CASE Busy(Later(psDeviceNode)) = {} /\ list[Host] # <<>>
  BY <1>5 DEF PopFrom, Lists
<1>6. CASE Busy(Later(psDeviceNode)) = {} /\ list[Host] = <<>> /\ Busy(Devices) # {}
  BY <1>1, <1>3, <1>6 DEF PopFrom
<1> QED
  BY <1>4, <1>5, <1>6 DEF PopFrom

(* The last item is an item.                                               *)
LEMMA LastIsItem ==
  ASSUME Typed
  PROVE  WorkListLast \in Items \cup {None}
<1>1. ASSUME NEW d \in Lists, list[d] # <<>> PROVE Last(list[d]) \in Items
  <2>1. list[d] \in Seq(Items)
    BY DEF Typed
  <2>2. Len(list[d]) \in 1 .. Len(list[d])
    BY <1>1, <2>1
  <2> QED
    BY <2>1, <2>2 DEF Last
<1> DEFINE busy == Busy(Devices)
<1>2. busy \in SUBSET Devices /\ \A d \in busy : d \in Lists /\ list[d] # <<>>
  BY DEF Busy, Lists
<1>3. CASE list[Host] # <<>>
  BY <1>1, <1>3 DEF WorkListLast, Lists
<1>4. CASE list[Host] = <<>> /\ busy = {}
  BY <1>4 DEF WorkListLast
<1>5. CASE list[Host] = <<>> /\ busy # {}
  <2>1. \E d \in busy : \A e \in busy : Place(e) <= Place(d)
    BY <1>2, <1>5, FirstAndLast
  <2> DEFINE last == CHOOSE d \in busy : \A e \in busy : Place(e) <= Place(d)
  <2>2. last \in busy
    BY <2>1
  <2>3. WorkListLast = Last(list[last])
    BY <1>5 DEF WorkListLast
  <2> HIDE DEF last, busy
  <2> QED
    BY <1>1, <1>2, <2>2, <2>3
<1> QED
  BY <1>3, <1>4, <1>5

(* An item that is on no list goes to the end of one.                      *)
LEMMA AddKeeps ==
  ASSUME NEW d \in Lists, NEW i \in Items, list \in [Lists -> Seq(Items)], Distinct, ~Listed(i),
         list' = [list EXCEPT ![d] = Append(list[d], i)]
  PROVE  /\ list' \in [Lists -> Seq(Items)] /\ Distinct'
         /\ \A j \in Items : Listed(j)' <=> Listed(j) \/ j = i
<1>1. list' \in [Lists -> Seq(Items)]
  OBVIOUS
<1>2. /\ \A e \in Lists : e # d => list'[e] = list[e]
      /\ Len(list'[d]) = Len(list[d]) + 1 /\ Len(list[d]) \in Nat
      /\ \A n \in 1 .. Len(list[d]) : list'[d][n] = list[d][n]
      /\ list'[d][Len(list[d]) + 1] = i
  OBVIOUS
<1>3. ASSUME NEW e \in Lists, NEW n \in 1 .. Len(list'[e])
      PROVE  \/ n \in 1 .. Len(list[e]) /\ list'[e][n] = list[e][n]
             \/ e = d /\ n = Len(list[d]) + 1 /\ list'[e][n] = i
  BY <1>2
<1>4. ASSUME NEW e \in Lists, NEW n \in 1 .. Len(list[e])
      PROVE  n \in 1 .. Len(list'[e]) /\ list'[e][n] = list[e][n] /\ list[e][n] # i
  BY <1>2 DEF Listed
<1>5. Distinct'
  BY <1>3, <1>4 DEF Distinct
<1>6. ASSUME NEW j \in Items PROVE Listed(j)' <=> Listed(j) \/ j = i
  <2>1. Listed(j) => Listed(j)'
    BY <1>4 DEF Listed
  <2>2. j = i => Listed(j)'
    <3>1. Len(list[d]) + 1 \in 1 .. Len(list'[d])
      BY <1>2
    <3> QED
      BY <1>2, <3>1 DEF Listed
  <2>3. Listed(j)' => Listed(j) \/ j = i
    BY <1>3 DEF Listed
  <2> QED
    BY <2>1, <2>2, <2>3
<1> QED
  BY <1>1, <1>5, <1>6

(* The first item of a list is taken.                                      *)
LEMMA PopKeeps ==
  ASSUME NEW d \in Lists, list \in [Lists -> Seq(Items)], Distinct, list[d] # <<>>,
         list' = [list EXCEPT ![d] = Tail(list[d])]
  PROVE  /\ list' \in [Lists -> Seq(Items)] /\ Distinct'
         /\ Head(list[d]) \in Items /\ Listed(Head(list[d]))
         /\ \A j \in Items : Listed(j)' <=> Listed(j) /\ j # Head(list[d])
<1>0. list[d] \in Seq(Items)
  OBVIOUS
<1>1. /\ Head(list[d]) \in Items /\ Head(list[d]) = list[d][1]
      /\ Tail(list[d]) \in Seq(Items) /\ Len(Tail(list[d])) = Len(list[d]) - 1
      /\ Len(list[d]) \in Nat /\ Len(list[d]) >= 1
      /\ \A n \in 1 .. Len(list[d]) - 1 : Tail(list[d])[n] = list[d][n + 1]
  BY <1>0, HeadTailProperties
<1>2. /\ \A e \in Lists : e # d => list'[e] = list[e]
      /\ list'[d] = Tail(list[d])
  OBVIOUS
<1>3. list' \in [Lists -> Seq(Items)]
  BY <1>1
<1>4. ASSUME NEW e \in Lists, NEW n \in 1 .. Len(list'[e])
      PROVE  \/ e # d /\ n \in 1 .. Len(list[e]) /\ list'[e][n] = list[e][n]
             \/ e = d /\ n + 1 \in 1 .. Len(list[e]) /\ list'[e][n] = list[e][n + 1]
                /\ n \in Nat /\ n + 1 # 1
  BY <1>1, <1>2
<1>5. Distinct'
  BY <1>4 DEF Distinct
<1>6. 1 \in 1 .. Len(list[d])
  BY <1>1
<1>7. Listed(Head(list[d]))
  BY <1>1, <1>6 DEF Listed
<1>8. ASSUME NEW j \in Items PROVE Listed(j)' <=> Listed(j) /\ j # Head(list[d])
  <2>1. ASSUME Listed(j)' PROVE Listed(j) /\ j # Head(list[d])
    <3> PICK e \in Lists : \E n \in 1 .. Len(list'[e]) : list'[e][n] = j
      BY <2>1 DEF Listed
    <3> PICK n \in 1 .. Len(list'[e]) : list'[e][n] = j
      OBVIOUS
    <3> QED
      BY <1>1, <1>4, <1>6 DEF Listed, Distinct
  <2>2. ASSUME Listed(j), j # Head(list[d]) PROVE Listed(j)'
    <3> PICK e \in Lists : \E n \in 1 .. Len(list[e]) : list[e][n] = j
      BY <2>2 DEF Listed
    <3> PICK n \in 1 .. Len(list[e]) : list[e][n] = j
      OBVIOUS
    <3>1. CASE e # d
      BY <1>2, <3>1 DEF Listed
    <3>2. CASE e = d
      <4>1. n # 1
        BY <1>1, <2>2, <3>2
      <4>2. n - 1 \in 1 .. Len(list'[d]) /\ list'[d][n - 1] = j
        BY <1>1, <1>2, <3>2, <4>1
      <4> QED
        BY <4>2 DEF Listed
    <3> QED
      BY <3>1, <3>2
  <2> QED
    BY <2>1, <2>2
<1> QED
  BY <1>1, <1>3, <1>5, <1>7, <1>8

(* The lists are left alone.                                               *)
LEMMA ListsSame ==
  ASSUME UNCHANGED list
  PROVE  (Distinct' <=> Distinct) /\ \A j \in Items : Listed(j)' <=> Listed(j)
BY DEF Distinct, Listed

(* The counts when one item changes from one status to another.            *)
LEMMA Recount ==
  ASSUME status \in [Items -> {"out", "queued", "dropped"}], NEW i \in Items,
         NEW s \in {"out", "queued", "dropped"}, s # status[i],
         status' = [status EXCEPT ![i] = s]
  PROVE  /\ \A t \in {"out", "queued", "dropped"} :
              /\ Cardinality(With(t)) \in Nat
              /\ t # s /\ t # status[i] => Cardinality(With(t))' = Cardinality(With(t))
         /\ Cardinality(With(s))' = Cardinality(With(s)) + 1
         /\ \A o : o = status[i] => Cardinality(With(o))' = Cardinality(With(o)) - 1
<1>1. \A t : IsFiniteSet(With(t)) /\ Cardinality(With(t)) \in Nat
  BY CleanupAssumption, FS_Subset, FS_CardinalityType DEF With
<1>2. With(s)' = With(s) \cup {i} /\ i \notin With(s)
  BY DEF With
<1> PICK o \in {"out", "queued", "dropped"} : o = status[i]
  OBVIOUS
<1>3. With(o)' = With(o) \ {i} /\ i \in With(o)
  BY DEF With
<1>4. \A t \in {"out", "queued", "dropped"} : t # s /\ t # o => With(t)' = With(t)
  BY DEF With
<1>5. Cardinality(With(s))' = Cardinality(With(s)) + 1
  BY <1>1, <1>2, FS_AddElement
<1>6. Cardinality(With(o))' = Cardinality(With(o)) - 1
  BY <1>1, <1>3, FS_RemoveElement
<1> QED
  BY <1>1, <1>4, <1>5, <1>6

-----------------------------------------------------------------------------
LEMMA InitIInv == Init => IInv
<1> SUFFICES ASSUME Init PROVE IInv
  OBVIOUS
<1>1. Typed
  BY CleanupAssumption DEF Init, Typed, Lists
<1>2. AtWork
  BY DEF Init, AtWork
<1>3. \A i \in Items : ~Listed(i)
  BY DEF Init, Listed, Lists
<1>4. Distinct
  BY DEF Init, Distinct, Lists
<1>5. OneHome
  BY <1>3, <1>4, CleanupAssumption DEF Init, OneHome
<1>6. With("queued") = {} /\ With("dropped") = {}
  BY DEF Init, With
<1>7. Counts
  <2>1. Cardinality(With("queued")) = 0 /\ Cardinality(With("dropped")) = 0
    BY <1>6, FS_EmptySet
  <2> QED
    BY <2>1 DEF Init, Counts
<1> QED
  BY <1>1, <1>2, <1>5, <1>7 DEF IInv

(* Adding work.                                                            *)
LEMMA AddingKeeps ==
  ASSUME IInv, NEW i \in Items,
         \/ \E tries \in 0 .. MaxRetries : AddWork(i, tries)
         \/ FreeAtOnce(i) \/ AddToTail(i) \/ Signal(i)
  PROVE  IInv'
<1> USE DEF env, loop, pass, work, counts
<1>0. Typed /\ AtWork /\ OneHome /\ Counts /\ status \in [Items -> {"out", "queued", "dropped"}]
  BY DEF IInv, Typed
<1>1. ASSUME NEW tries \in 0 .. MaxRetries, AddWork(i, tries) PROVE IInv'
  <2>1. Typed' /\ AtWork'
    BY <1>0, <1>1 DEF AddWork, Typed, AtWork
  <2>2. (Distinct' <=> Distinct) /\ \A j \in Items : Listed(j)' <=> Listed(j)
    BY <1>1, ListsSame DEF AddWork
  <2>3. OneHome'
    BY <1>0, <1>1, <2>2 DEF AddWork, OneHome, Typed
  <2>4. /\ Cardinality(With("queued"))' = Cardinality(With("queued")) + 1
        /\ Cardinality(With("dropped"))' = Cardinality(With("dropped"))
    BY <1>0, <1>1, Recount DEF AddWork
  <2>5. Counts'
    BY <1>0, <1>1, <2>4 DEF AddWork, Counts
  <2> QED
    BY <2>1, <2>3, <2>5 DEF IInv
<1>2. CASE FreeAtOnce(i)
  <2>1. Typed' /\ AtWork'
    BY <1>0, <1>2 DEF FreeAtOnce, Typed, AtWork
  <2>2. (Distinct' <=> Distinct) /\ \A j \in Items : Listed(j)' <=> Listed(j)
    BY <1>2, ListsSame DEF FreeAtOnce
  <2>3. OneHome'
    BY <1>0, <1>2, <2>2 DEF FreeAtOnce, OneHome, Typed
  <2>4. /\ Cardinality(With("queued"))' = Cardinality(With("queued"))
        /\ Cardinality(With("dropped"))' = Cardinality(With("dropped")) + 1
        /\ Cardinality(With("dropped")) \in Nat
    BY <1>0, <1>2, Recount DEF FreeAtOnce
  <2>5. Counts'
    BY <1>0, <1>2, <2>4 DEF FreeAtOnce, Counts
  <2> QED
    BY <2>1, <2>3, <2>5 DEF IInv
<1>3. CASE AddToTail(i)
  <2>1. devOf[i] \in Lists /\ list \in [Lists -> Seq(Items)] /\ Distinct
        /\ adder[i] = "counted" /\ ~Listed(i)
    BY <1>0, <1>3 DEF AddToTail, Typed, OneHome
  <2>2. list' = [list EXCEPT ![devOf[i]] = Append(list[devOf[i]], i)]
    BY <1>3 DEF AddToTail
  <2>3. /\ list' \in [Lists -> Seq(Items)] /\ Distinct'
        /\ \A j \in Items : Listed(j)' <=> Listed(j) \/ j = i
    BY <2>1, <2>2, AddKeeps
  <2>4. Typed' /\ AtWork'
    BY <1>0, <1>3, <2>3 DEF AddToTail, Typed, AtWork
  <2>5. OneHome'
    BY <1>0, <1>3, <2>3 DEF AddToTail, OneHome, Typed
  <2>6. Counts'
    BY <1>0, <1>3 DEF AddToTail, Counts, With
  <2> QED
    BY <2>4, <2>5, <2>6 DEF IInv
<1>4. CASE Signal(i)
  <2>1. Typed' /\ AtWork'
    BY <1>0, <1>4 DEF Signal, Typed, AtWork
  <2>2. (Distinct' <=> Distinct) /\ \A j \in Items : Listed(j)' <=> Listed(j)
    BY <1>4, ListsSame DEF Signal
  <2>3. OneHome'
    BY <1>0, <1>4, <2>2 DEF Signal, OneHome, Typed
  <2>4. Counts'
    BY <1>0, <1>4 DEF Signal, Counts, With
  <2> QED
    BY <2>1, <2>3, <2>4 DEF IInv
<1> QED
  BY <1>1, <1>2, <1>3, <1>4

(* The end of an iteration.                                                *)
LEMMA GoOnTyped ==
  ASSUME NEW again, GoOn(again), Typed
  PROVE  /\ psNodeIter' = None /\ pc' \in {"loop", "pop"}
         /\ psNodeLast' \in Items \cup {None} /\ psDeviceNode' \in Lists \cup {None}
         /\ uiUnloadRetry' \in 0 .. UnloadRetry + 1
BY DEF GoOn, EndPass, Typed

(* The thread.                                                             *)
LEMMA ThreadKeeps == ASSUME IInv, Thread PROVE IInv'
<1> USE DEF env, loop, pass, work, counts
<1>0. Typed /\ AtWork /\ OneHome /\ Counts /\ status \in [Items -> {"out", "queued", "dropped"}]
  BY DEF IInv, Typed
<1>1. CASE LoopTop \/ Wait \/ StartPass
  <2>1. UNCHANGED <<devOf, list, status, adder, ui32RetryCount, psNodeIter, device,
                    i32NumCleanupItemsQueued, i32NumCleanupItemsNotCompleted>>
        /\ pc \notin {"free", "again"} /\ pc' \notin {"free", "again"}
    BY <1>1 DEF LoopTop, Wait, StartPass
  <2>2. /\ psNodeLast' \in Items \cup {None} /\ psDeviceNode' \in Lists \cup {None}
        /\ uiUnloadRetry' \in 0 .. UnloadRetry + 1
        /\ pc' \in {"loop", "wait", "start", "pop", "free", "again", "ended"}
    <3>1. CASE LoopTop
      BY <1>0, <3>1, CleanupAssumption DEF LoopTop, Typed
    <3>2. CASE Wait
      BY <1>0, <3>2 DEF Wait, Typed
    <3>3. CASE StartPass
      BY <1>0, <3>3, LastIsItem DEF StartPass, Typed
    <3> QED
      BY <1>1, <3>1, <3>2, <3>3
  <2>3. Typed' /\ AtWork'
    BY <1>0, <2>1, <2>2 DEF Typed, AtWork
  <2>4. (Distinct' <=> Distinct) /\ \A j \in Items : Listed(j)' <=> Listed(j)
    BY <2>1, ListsSame
  <2>5. OneHome'
    BY <1>0, <2>1, <2>4 DEF OneHome
  <2>6. Counts'
    BY <1>0, <2>1 DEF Counts, With
  <2> QED
    BY <2>3, <2>5, <2>6 DEF IInv
<1>2. CASE WorkListPop /\ PopFrom = None
  <2>1. /\ UNCHANGED <<devOf, list, status, adder, ui32RetryCount, psNodeIter, device, uiUnloadRetry,
                       i32NumCleanupItemsQueued, i32NumCleanupItemsNotCompleted>>
        /\ pc = "pop" /\ pc' = "loop" /\ psNodeLast' = None /\ psDeviceNode' = None
    BY <1>2 DEF WorkListPop, EndPass
  <2>2. Typed' /\ AtWork'
    BY <1>0, <2>1 DEF Typed, AtWork
  <2>3. (Distinct' <=> Distinct) /\ \A j \in Items : Listed(j)' <=> Listed(j)
    BY <2>1, ListsSame
  <2>4. OneHome'
    BY <1>0, <2>1, <2>3 DEF OneHome
  <2>5. Counts'
    BY <1>0, <2>1 DEF Counts, With
  <2> QED
    BY <2>2, <2>4, <2>5 DEF IInv
<1>3. CASE WorkListPop /\ PopFrom # None
  <2> PICK d \in Lists : d = PopFrom /\ list[d] # <<>>
    BY <1>3, PopFromBusy
  <2>1. /\ UNCHANGED <<devOf, status, adder, ui32RetryCount, device, uiUnloadRetry, psNodeLast,
                       i32NumCleanupItemsQueued, i32NumCleanupItemsNotCompleted>>
        /\ pc = "pop" /\ pc' = "free" /\ psNodeIter' = Head(list[d]) /\ psDeviceNode' = d
        /\ list' = [list EXCEPT ![d] = Tail(list[d])]
    BY <1>3 DEF WorkListPop
  <2>2. /\ list' \in [Lists -> Seq(Items)] /\ Distinct'
        /\ Head(list[d]) \in Items /\ Listed(Head(list[d]))
        /\ \A j \in Items : Listed(j)' <=> Listed(j) /\ j # Head(list[d])
    BY <1>0, <2>1, PopKeeps DEF OneHome, Typed
  <2>3. Typed' /\ AtWork'
    BY <1>0, <2>1, <2>2, CleanupAssumption DEF Typed, AtWork
  <2>4. psNodeIter = None
    BY <1>0, <2>1 DEF AtWork
  <2>5. OneHome'
    BY <1>0, <2>1, <2>2, <2>4, CleanupAssumption DEF OneHome, Typed
  <2>6. Counts'
    BY <1>0, <2>1 DEF Counts, With
  <2> QED
    BY <2>3, <2>5, <2>6 DEF IInv
<1>4. CASE Freed
  <2> PICK i \in Items : i = psNodeIter
    BY <1>0, <1>4 DEF Freed, CallbackReturns, AtWork, Typed
  <2>1. /\ UNCHANGED <<devOf, list, adder, device, i32NumCleanupItemsNotCompleted>>
        /\ status' = [status EXCEPT ![i] = "out"]
        /\ ui32RetryCount' = [ui32RetryCount EXCEPT ![i] = 0]
        /\ i32NumCleanupItemsQueued' = i32NumCleanupItemsQueued - 1
        /\ GoOn(bNeedRetry)
    BY <1>4 DEF Freed, Decremented
  <2>2. /\ psNodeIter' = None /\ pc' \in {"loop", "pop"}
        /\ psNodeLast' \in Items \cup {None} /\ psDeviceNode' \in Lists \cup {None}
        /\ uiUnloadRetry' \in 0 .. UnloadRetry + 1
    BY <1>0, <2>1, GoOnTyped
  <2>3. ui32RetryCount' \in [Items -> 0 .. MaxRetries]
    BY <1>0, <2>1, CleanupAssumption DEF Typed
  <2>4. Typed' /\ AtWork'
    BY <1>0, <2>1, <2>2, <2>3 DEF Typed, AtWork
  <2>5. (Distinct' <=> Distinct) /\ \A j \in Items : Listed(j)' <=> Listed(j)
    BY <2>1, ListsSame
  <2>6. /\ status[i] = "queued" /\ adder[i] # "counted" /\ ~Listed(i)
    BY <1>0 DEF OneHome
  <2>7. OneHome'
    BY <1>0, <2>1, <2>2, <2>5, <2>6, CleanupAssumption DEF OneHome
  <2>8. /\ Cardinality(With("queued"))' = Cardinality(With("queued")) - 1
        /\ Cardinality(With("dropped"))' = Cardinality(With("dropped"))
    BY <1>0, <2>1, <2>6, Recount
  <2>9. Counts'
    BY <1>0, <2>1, <2>8 DEF Counts
  <2> QED
    BY <2>4, <2>7, <2>9 DEF IInv
<1>5. CASE NotFreed
  <2> PICK i \in Items : i = psNodeIter
    BY <1>0, <1>5 DEF NotFreed, CallbackReturns, AtWork, Typed
  <2>1. /\ UNCHANGED <<devOf, list, status, adder, device, psNodeIter, psNodeLast, psDeviceNode,
                       uiUnloadRetry, i32NumCleanupItemsQueued, i32NumCleanupItemsNotCompleted>>
        /\ ui32RetryCount[i] > 0
        /\ ui32RetryCount' = [ui32RetryCount EXCEPT ![i] = ui32RetryCount[i] - 1]
        /\ pc = "free" /\ pc' = "again"
    BY <1>5 DEF NotFreed, CallbackReturns
  <2>2. ui32RetryCount' \in [Items -> 0 .. MaxRetries]
    <3>1. ui32RetryCount[i] \in 0 .. MaxRetries
      BY <1>0 DEF Typed
    <3>2. ui32RetryCount[i] - 1 \in 0 .. MaxRetries
      BY <2>1, <3>1, CleanupAssumption
    <3> QED
      BY <1>0, <2>1, <3>2 DEF Typed
  <2>3. psDeviceNode \in Lists
    BY <1>0, <2>1 DEF AtWork
  <2>4. Typed' /\ AtWork'
    BY <1>0, <2>1, <2>2, <2>3 DEF Typed, AtWork
  <2>5. (Distinct' <=> Distinct) /\ \A j \in Items : Listed(j)' <=> Listed(j)
    BY <2>1, ListsSame
  <2>6. OneHome'
    BY <1>0, <2>1, <2>5 DEF OneHome
  <2>7. Counts'
    BY <1>0, <2>1 DEF Counts, With
  <2> QED
    BY <2>4, <2>6, <2>7 DEF IInv
<1>6. CASE PutBack
  <2> PICK i \in Items : i = psNodeIter
    BY <1>0, <1>6 DEF PutBack, AtWork, Typed
  <2> PICK d \in Lists : d = psDeviceNode
    BY <1>0, <1>6 DEF PutBack, AtWork
  <2>1. /\ UNCHANGED <<devOf, status, ui32RetryCount, adder, device, i32NumCleanupItemsQueued,
                       i32NumCleanupItemsNotCompleted>>
        /\ list' = [list EXCEPT ![d] = Append(list[d], i)]
        /\ GoOn(TRUE)
    BY <1>6 DEF PutBack
  <2>2. /\ psNodeIter' = None /\ pc' \in {"loop", "pop"}
        /\ psNodeLast' \in Items \cup {None} /\ psDeviceNode' \in Lists \cup {None}
        /\ uiUnloadRetry' \in 0 .. UnloadRetry + 1
    BY <1>0, <2>1, GoOnTyped
  <2>3. /\ status[i] = "queued" /\ adder[i] # "counted" /\ ~Listed(i)
    BY <1>0 DEF OneHome
  <2>4. /\ list' \in [Lists -> Seq(Items)] /\ Distinct'
        /\ \A j \in Items : Listed(j)' <=> Listed(j) \/ j = i
    BY <1>0, <2>1, <2>3, AddKeeps DEF OneHome, Typed
  <2>5. Typed' /\ AtWork'
    BY <1>0, <2>1, <2>2, <2>4 DEF Typed, AtWork
  <2>6. OneHome'
    BY <1>0, <2>1, <2>2, <2>3, <2>4, CleanupAssumption DEF OneHome
  <2>7. Counts'
    BY <1>0, <2>1 DEF Counts, With
  <2> QED
    BY <2>5, <2>6, <2>7 DEF IInv
<1>7. CASE Drop
  <2> PICK i \in Items : i = psNodeIter
    BY <1>0, <1>7 DEF Drop, CallbackReturns, AtWork, Typed
  <2>1. /\ UNCHANGED <<devOf, list, ui32RetryCount, adder, device>>
        /\ status' = [status EXCEPT ![i] = "dropped"]
        /\ i32NumCleanupItemsNotCompleted' = i32NumCleanupItemsNotCompleted - 1
        /\ i32NumCleanupItemsQueued' = i32NumCleanupItemsQueued - 1
        /\ GoOn(bNeedRetry)
    BY <1>7 DEF Drop, Decremented
  <2>2. /\ psNodeIter' = None /\ pc' \in {"loop", "pop"}
        /\ psNodeLast' \in Items \cup {None} /\ psDeviceNode' \in Lists \cup {None}
        /\ uiUnloadRetry' \in 0 .. UnloadRetry + 1
    BY <1>0, <2>1, GoOnTyped
  <2>3. Typed' /\ AtWork'
    BY <1>0, <2>1, <2>2 DEF Typed, AtWork
  <2>4. (Distinct' <=> Distinct) /\ \A j \in Items : Listed(j)' <=> Listed(j)
    BY <2>1, ListsSame
  <2>5. /\ status[i] = "queued" /\ adder[i] # "counted" /\ ~Listed(i)
    BY <1>0 DEF OneHome
  <2>6. OneHome'
    BY <1>0, <2>1, <2>2, <2>4, <2>5, CleanupAssumption DEF OneHome
  <2>7. /\ Cardinality(With("queued"))' = Cardinality(With("queued")) - 1
        /\ Cardinality(With("dropped"))' = Cardinality(With("dropped")) + 1
        /\ Cardinality(With("dropped")) \in Nat
    BY <1>0, <2>1, <2>5, Recount
  <2>8. Counts'
    BY <1>0, <2>1, <2>7 DEF Counts
  <2> QED
    BY <2>3, <2>6, <2>8 DEF IInv
<1> QED
  BY <1>1, <1>2, <1>3, <1>4, <1>5, <1>6, <1>7 DEF Thread

(* The end of a device and of the driver.                                  *)
LEMMA OthersKeep ==
  ASSUME IInv,
         \/ \E d \in Devices : DeviceDestroy(d) \/ WaitForDevice(d) \/ RemoveDevice(d)
         \/ Unload \/ StopThread \/ UNCHANGED vars
  PROVE  IInv'
<1> USE DEF env, loop, pass, work, counts
<1>1. /\ UNCHANGED <<devOf, list, status, adder, ui32RetryCount, pc, uiUnloadRetry, psNodeLast,
                     psNodeIter, psDeviceNode, i32NumCleanupItemsQueued,
                     i32NumCleanupItemsNotCompleted>>
      /\ device \in [Devices -> {"up", "waiting", "leaving", "gone"}]
           => device' \in [Devices -> {"up", "waiting", "leaving", "gone"}]
  BY DEF DeviceDestroy, WaitForDevice, RemoveDevice, Unload, StopThread, vars
<1>2. (Distinct' <=> Distinct) /\ \A j \in Items : Listed(j)' <=> Listed(j)
  BY <1>1, ListsSame
<1>3. Typed' /\ AtWork'
  BY <1>1 DEF IInv, Typed, AtWork
<1>4. OneHome'
  BY <1>1, <1>2 DEF IInv, OneHome
<1>5. Counts'
  BY <1>1 DEF IInv, Counts, With
<1> QED
  BY <1>3, <1>4, <1>5 DEF IInv

LEMMA Invariant == Spec => []IInv
<1>1. Init => IInv
  BY InitIInv
<1>2. ASSUME IInv, [Next]_vars PROVE IInv'
  BY <1>2, AddingKeeps, ThreadKeeps, OthersKeep DEF Next
<1> QED
  BY <1>1, <1>2, PTL DEF Spec

(* An item is in as many places of the lists as there are pairs of them.   *)
LEMMA PlacesCounted ==
  ASSUME IInv, NEW i \in Items
  PROVE  Cardinality(InLists(i)) = IF Listed(i) THEN 1 ELSE 0
<1>1. \A d \in Lists : DOMAIN list[d] = 1 .. Len(list[d])
  BY DEF IInv, Typed
<1>2. \A p : p \in InLists(i) <=>
         \E d \in Lists : \E n \in 1 .. Len(list[d]) : p = <<d, n>> /\ list[d][n] = i
  <2> TAKE p
  <2>1. p \in InLists(i) <=>
          \E d \in Lists : p \in {d} \X (1 .. Len(list[d])) /\ list[p[1]][p[2]] = i
    BY <1>1 DEF InLists, Lists
  <2> QED
    BY <2>1
<1>3. CASE ~Listed(i)
  <2>1. InLists(i) = {}
    BY <1>2, <1>3 DEF Listed
  <2> QED
    BY <1>3, <2>1, FS_EmptySet
<1>4. CASE Listed(i)
  <2> PICK d \in Lists : \E n \in 1 .. Len(list[d]) : list[d][n] = i
    BY <1>4 DEF Listed
  <2> PICK n \in 1 .. Len(list[d]) : list[d][n] = i
    OBVIOUS
  <2>1. InLists(i) = {<<d, n>>}
    BY <1>2 DEF IInv, OneHome, Distinct
  <2> QED
    BY <1>4, <2>1, FS_Singleton
<1> QED
  BY <1>3, <1>4

(* Every item that is not done with is in one place only, one that is done *)
(* with is nowhere, so no callback runs twice for one AddWork, and         *)
(* i32NumCleanupItemsQueued counts them.                                   *)
THEOREM TypeCorrect == Spec => []TypeOK
<1>1. ASSUME IInv PROVE TypeOK
  <2>1. ASSUME NEW i \in Items
        PROVE  Cardinality(InLists(i)) + (IF adder[i] = "counted" THEN 1 ELSE 0)
                 + (IF psNodeIter = i THEN 1 ELSE 0)
               = IF status[i] = "queued" THEN 1 ELSE 0
    <3>1. Cardinality(InLists(i)) = IF Listed(i) THEN 1 ELSE 0
      BY <1>1, PlacesCounted
    <3>2. /\ Listed(i) => adder[i] # "counted" /\ psNodeIter # i
          /\ adder[i] = "counted" => psNodeIter # i
          /\ status[i] = "queued" <=> (adder[i] = "counted" \/ psNodeIter = i \/ Listed(i))
      BY <1>1 DEF IInv, OneHome
    <3> QED
      BY <3>1, <3>2
  <2>2. i32NumCleanupItemsNotCompleted \in -Cardinality(Items) .. 0
    <3>1. /\ Cardinality(With("dropped")) \in Nat /\ Cardinality(Items) \in Nat
          /\ Cardinality(With("dropped")) <= Cardinality(Items)
      BY CleanupAssumption, FS_Subset, FS_CardinalityType DEF With
    <3> QED
      BY <1>1, <3>1 DEF IInv, Counts
  <2> QED
    BY <1>1, <2>1, <2>2 DEF IInv, Typed, Counts, With, TypeOK, Lists
<1> QED
  BY <1>1, Invariant, PTL
=============================================================================
