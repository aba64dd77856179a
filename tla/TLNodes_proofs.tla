--------------------------- MODULE TLNodes_proofs ---------------------------
(* The counts of a stream's node and descriptors: proofs about TLNodes.    *)
EXTENDS TLNodes, FiniteSetTheorems, TLAPS

TL_SNODE == [live : BOOLEAN, stream : BOOLEAN, notif : BOOLEAN, uiWRefCount : Nat,
             psRDesc : Descs \cup {None}, psWDesc : Descs \cup {None}]

(* Where a client has the stream open, and what a writer's place adds to   *)
(* the counts: one for having it open, one more while it uses the stream.  *)
Open == {"opened", "markOpen", "in", "using", "markClose", "unref"}
Weight(place) == IF place = "using" THEN 2 ELSE IF place \in Open THEN 1 ELSE 0

OpenWriters == {w \in Writers : pc[w] \in Open}
UsingWriters == {w \in Writers : pc[w] = "using"}
WriterRefs == Cardinality(OpenWriters) + Cardinality(UsingWriters)
CreatorRef == IF pc[Creator] \in {"created", "in"} THEN 1 ELSE 0

(* A client that has left takes its descriptor along until FreeDesc.       *)
Leaving(t) == t \in Clients /\ pc[t] \in {"destroy", "freeDesc"}

PlacesOK ==
  /\ pc[Creator] \in {"out", "created", "in", "markClose", "destroy"}
  /\ \A r \in Readers : pc[r] \in {"out", "in", "destroy", "freeDesc"}
  /\ \A w \in Writers : pc[w] # "created"
  /\ \A t \in Threads : Leaving(t) => myDesc[t] \in Descs

(* Whoever has the stream open points to the listed node, and to its       *)
(* descriptor there; there is one reader at most.                          *)
InsidersPoint ==
  /\ pc[Creator] \in {"created", "in"} => psHead # None /\ myNode[Creator] = psHead
  /\ \A t \in Clients : pc[t] \in Open => psHead # None /\ myNode[t] = psHead
  /\ \A w \in Writers : pc[w] \in Open => myDesc[w] = node[psHead].psWDesc
  /\ \A r \in Readers : pc[r] = "in" =>
       myDesc[r] = node[psHead].psRDesc /\ node[psHead].psRDesc # None
  /\ \A r, q \in Readers : pc[r] = "in" /\ pc[q] = "in" => r = q

(* The listed node counts its creator and its writers, their descriptor    *)
(* the writers, and somebody still needs the node.                         *)
HeadCounts ==
  psHead # None =>
    /\ node[psHead].live /\ node[psHead].stream
    /\ node[psHead].uiWRefCount = CreatorRef + WriterRefs
    /\ ~MayRemove(node[psHead])
    /\ node[psHead].psWDesc = None => WriterRefs = 0
    /\ node[psHead].psWDesc # None =>
         /\ desc[node[psHead].psWDesc] = [live |-> TRUE, uiRefCount |-> WriterRefs]
         /\ WriterRefs > 0 /\ node[psHead].psWDesc # node[psHead].psRDesc
    /\ node[psHead].psRDesc # None =>
         /\ desc[node[psHead].psRDesc] = [live |-> TRUE, uiRefCount |-> 1]
         /\ \E r \in Readers : pc[r] = "in"

(* A node that is not listed is about to be freed, by a thread that points *)
(* to it, or it is free.                                                   *)
UnlistedNodes ==
  /\ \A n \in Nodes : n # psHead =>
       node[n] = NoNode \/ \E t \in Threads : pc[t] = "destroy" /\ myNode[t] = n
  /\ \A t \in Threads : pc[t] = "destroy" => myNode[t] \in Nodes /\ myNode[t] # psHead

(* A descriptor is at the listed node, or counted down to 0 and held by a  *)
(* client that is about to free it, or free.                               *)
Descriptors ==
  \A d \in Descs :
    /\ desc[d].live =>
         \/ psHead # None /\ d \in {node[psHead].psRDesc, node[psHead].psWDesc}
         \/ desc[d].uiRefCount = 0 /\ \E t \in Threads : Leaving(t) /\ myDesc[t] = d
    /\ ~desc[d].live => desc[d] = NoDesc

IInv == TypeOK /\ PlacesOK /\ InsidersPoint /\ HeadCounts /\ UnlistedNodes /\ Descriptors

(* The size of a finite set that an element joins or leaves.               *)
LEMMA SizeChange ==
  ASSUME NEW S, IsFiniteSet(S), NEW x
  PROVE  /\ Cardinality(S) \in Nat
         /\ Cardinality(S \cup {x}) = Cardinality(S) + (IF x \in S THEN 0 ELSE 1)
         /\ Cardinality(S \ {x}) = Cardinality(S) - (IF x \in S THEN 1 ELSE 0)
<1>1. Cardinality(S) \in Nat
  BY FS_CardinalityType
<1>2. x \in S => S \cup {x} = S
  OBVIOUS
<1>3. x \notin S => S \ {x} = S
  OBVIOUS
<1> QED
  BY <1>1, <1>2, <1>3, FS_AddElement, FS_RemoveElement

(* The writers' references are none when nobody writes, and are at least   *)
(* those of each writer.                                                   *)
LEMMA WriterRefsFacts ==
  /\ IsFiniteSet(OpenWriters) /\ IsFiniteSet(UsingWriters) /\ WriterRefs \in Nat
  /\ WriterRefs = 0 <=> \A w \in Writers : pc[w] \notin Open
  /\ \A w \in Writers : Weight(pc[w]) \in 0..2 /\ Weight(pc[w]) <= WriterRefs
<1>1. IsFiniteSet(OpenWriters) /\ IsFiniteSet(UsingWriters)
  BY NodesAssumption, FS_Subset DEF OpenWriters, UsingWriters
<1>2. Cardinality(OpenWriters) \in Nat /\ Cardinality(UsingWriters) \in Nat
  BY <1>1, FS_CardinalityType
<1>3. /\ Cardinality(OpenWriters) = 0 <=> OpenWriters = {}
      /\ Cardinality(UsingWriters) = 0 <=> UsingWriters = {}
  BY <1>1, FS_EmptySet
<1>4. UsingWriters \subseteq OpenWriters
  BY DEF OpenWriters, UsingWriters, Open
<1>5. WriterRefs \in Nat /\ (WriterRefs = 0 <=> OpenWriters = {})
  BY <1>2, <1>3, <1>4 DEF WriterRefs
<1>6. ASSUME NEW w \in Writers
      PROVE  Weight(pc[w]) \in 0..2 /\ Weight(pc[w]) <= WriterRefs
  <2>1. CASE pc[w] = "using"
    <3>1. w \in OpenWriters /\ w \in UsingWriters
      BY <2>1 DEF OpenWriters, UsingWriters, Open
    <3>2. Cardinality(OpenWriters) >= 1 /\ Cardinality(UsingWriters) >= 1
      BY <1>2, <1>3, <3>1
    <3> QED
      BY <1>2, <2>1, <3>2 DEF Weight, WriterRefs
  <2>2. CASE pc[w] # "using" /\ pc[w] \in Open
    <3>1. w \in OpenWriters
      BY <2>2 DEF OpenWriters
    <3> QED
      BY <1>5, <2>2, <3>1 DEF Weight
  <2>3. CASE pc[w] \notin Open
    BY <1>5, <2>3 DEF Weight, Open
  <2> QED
    BY <2>1, <2>2, <2>3
<1>7. OpenWriters = {} <=> \A w \in Writers : pc[w] \notin Open
  BY DEF OpenWriters
<1> QED
  BY <1>1, <1>5, <1>6, <1>7

(* How the writers' references change when one of them goes somewhere.     *)
LEMMA WriterMoves ==
  ASSUME NEW w \in Writers, NEW place, TypeOK,
         pc' = [pc EXCEPT ![w] = place]
  PROVE  WriterRefs' = WriterRefs - Weight(pc[w]) + Weight(place)
<1>1. /\ OpenWriters' = IF place \in Open THEN OpenWriters \cup {w} ELSE OpenWriters \ {w}
      /\ UsingWriters' = IF place = "using" THEN UsingWriters \cup {w} ELSE UsingWriters \ {w}
  BY DEF OpenWriters, UsingWriters, TypeOK, Threads, Clients
<1>2. /\ w \in OpenWriters <=> pc[w] \in Open
      /\ w \in UsingWriters <=> pc[w] = "using"
  BY DEF OpenWriters, UsingWriters
<1>3. /\ Cardinality(OpenWriters') = Cardinality(OpenWriters)
           + (IF place \in Open THEN 1 ELSE 0) - (IF pc[w] \in Open THEN 1 ELSE 0)
      /\ Cardinality(OpenWriters) \in Nat
  <2>1. IsFiniteSet(OpenWriters)
    BY WriterRefsFacts
  <2>2. /\ Cardinality(OpenWriters) \in Nat
        /\ Cardinality(OpenWriters \cup {w}) = Cardinality(OpenWriters) + (IF w \in OpenWriters THEN 0 ELSE 1)
        /\ Cardinality(OpenWriters \ {w}) = Cardinality(OpenWriters) - (IF w \in OpenWriters THEN 1 ELSE 0)
    BY <2>1, SizeChange
  <2> QED
    BY <1>1, <1>2, <2>2
<1>4. /\ Cardinality(UsingWriters') = Cardinality(UsingWriters)
           + (IF place = "using" THEN 1 ELSE 0) - (IF pc[w] = "using" THEN 1 ELSE 0)
      /\ Cardinality(UsingWriters) \in Nat
  <2>1. IsFiniteSet(UsingWriters)
    BY WriterRefsFacts
  <2>2. /\ Cardinality(UsingWriters) \in Nat
        /\ Cardinality(UsingWriters \cup {w}) = Cardinality(UsingWriters) + (IF w \in UsingWriters THEN 0 ELSE 1)
        /\ Cardinality(UsingWriters \ {w}) = Cardinality(UsingWriters) - (IF w \in UsingWriters THEN 1 ELSE 0)
    BY <2>1, SizeChange
  <2> QED
    BY <1>1, <1>2, <2>2
<1> QED
  BY <1>3, <1>4 DEF WriterRefs, Weight, Open

(* The others do not change them.                                          *)
LEMMA OthersMove ==
  ASSUME NEW t \in Threads \ Writers, NEW place, TypeOK,
         pc' = [pc EXCEPT ![t] = place]
  PROVE  WriterRefs' = WriterRefs
<1>1. OpenWriters' = OpenWriters /\ UsingWriters' = UsingWriters
  BY DEF OpenWriters, UsingWriters, TypeOK, Threads, Clients
<1> QED
  BY <1>1 DEF WriterRefs

(* The stream does not exist at first.                                     *)
LEMMA InitIInv == Init => IInv
<1> SUFFICES ASSUME Init PROVE IInv
  OBVIOUS
<1> USE NodesAssumption DEF Init, NoNode, NoDesc
<1>1. TypeOK
  <2>1. node \in [Nodes -> [live : BOOLEAN, stream : BOOLEAN, notif : BOOLEAN,
                           uiWRefCount : Nat, psRDesc : Descs \cup {None},
                           psWDesc : Descs \cup {None}]]
    OBVIOUS
  <2>2. desc \in [Descs -> [live : BOOLEAN, uiRefCount : Nat]]
    OBVIOUS
  <2>3. ctrlCount \in 0 .. CtrlRoom
    OBVIOUS
  <2> QED
    BY <2>1, <2>2, <2>3 DEF TypeOK
<1>2. PlacesOK /\ InsidersPoint /\ HeadCounts
  BY DEF PlacesOK, InsidersPoint, HeadCounts, Leaving, Open, Threads, Clients
<1>3. UnlistedNodes /\ Descriptors
  BY DEF UnlistedNodes, Descriptors
<1> QED
  BY <1>1, <1>2, <1>3 DEF IInv

(* A connection creates a stream when there is none of its name.           *)
LEMMA CreateKeeps ==
  ASSUME IInv, TLStreamCreate
  PROVE  IInv'
<1> USE NodesAssumption DEF IInv
<1>1. NewNode \in NewNodes
  BY DEF TLStreamCreate, NewNode
<1> DEFINE n == NewNode
<1>2. n \in Nodes /\ n # None /\ \A t \in Threads : myNode[t] # n
  BY <1>1 DEF NewNodes
<1>3. /\ pc[Creator] = "out" /\ psHead = None /\ psHead' = n
      /\ node' = [node EXCEPT ![n] = [NoNode EXCEPT !.live = TRUE, !.stream = TRUE, !.uiWRefCount = 1]]
      /\ myNode' = [myNode EXCEPT ![Creator] = n]
      /\ pc' = [pc EXCEPT ![Creator] = "created"]
      /\ UNCHANGED <<hTLGDLock, desc, freedTwice, myDesc, ctrl>>
  BY DEF TLStreamCreate, Goto
<1> HIDE DEF n
<1>4. node'[n] = [live |-> TRUE, stream |-> TRUE, notif |-> FALSE, uiWRefCount |-> 1,
                  psRDesc |-> None, psWDesc |-> None]
  BY <1>2, <1>3 DEF TypeOK, NoNode
<1>5. TypeOK'
  BY <1>2, <1>3, <1>4 DEF TypeOK, ctrl, Threads, NoNode
<1>6. \A t \in Clients : pc[t] \notin Open
  BY <1>3 DEF InsidersPoint
<1>7. WriterRefs' = 0
  <2>1. Creator \in Threads \ Writers
    BY DEF Threads, Clients
  <2>2. WriterRefs' = WriterRefs
    BY <1>3, <2>1, OthersMove
  <2> QED
    BY <1>6, <2>2, WriterRefsFacts DEF Clients
<1>8. PlacesOK' /\ InsidersPoint'
  BY <1>2, <1>3, <1>6 DEF PlacesOK, InsidersPoint, TypeOK, Threads, Clients, Open, Leaving
<1>9. HeadCounts'
  <2>1. CreatorRef' = 1
    BY <1>3 DEF CreatorRef, TypeOK, Threads
  <2>2. node'[psHead'] = node'[n]
    BY <1>3
  <2>3. ~MayRemove(node'[n])
    BY <1>4 DEF MayRemove
  <2>4. /\ node'[n].live /\ node'[n].stream
        /\ node'[n].uiWRefCount = CreatorRef' + WriterRefs'
        /\ node'[n].psRDesc = None /\ node'[n].psWDesc = None
    BY <1>4, <1>7, <2>1
  <2> QED
    BY <1>7, <2>2, <2>3, <2>4 DEF HeadCounts, MayRemove
<1>10. UnlistedNodes'
  BY <1>2, <1>3 DEF UnlistedNodes, TypeOK, Threads
<1>11. Descriptors'
  BY <1>3 DEF Descriptors, Leaving, TypeOK, Threads, Clients
<1> QED
  BY <1>5, <1>8, <1>9, <1>10, <1>11

(* The new stream gets its notification stream.                            *)
LEMMA SetNotifKeeps ==
  ASSUME IInv, TLStreamSetNotifStream
  PROVE  IInv'
<1> USE NodesAssumption DEF IInv
<1>1. /\ pc[Creator] = "created" /\ myNode[Creator] = psHead /\ psHead \in Nodes
      /\ node' = [node EXCEPT ![psHead].notif = TRUE]
      /\ pc' = [pc EXCEPT ![Creator] = "in"]
      /\ UNCHANGED <<hTLGDLock, psHead, desc, freedTwice, myNode, myDesc, ctrl>>
  BY DEF TLStreamSetNotifStream, Goto, InsidersPoint, TypeOK
<1>2. WriterRefs' = WriterRefs /\ CreatorRef' = CreatorRef
  <2>1. Creator \in Threads \ Writers
    BY DEF Threads, Clients
  <2>2. WriterRefs' = WriterRefs
    BY <1>1, <2>1, OthersMove
  <2> QED
    BY <1>1, <2>2 DEF CreatorRef, TypeOK, Threads
<1>3. TypeOK'
  <2>1. node[psHead] \in TL_SNODE
    BY <1>1 DEF TypeOK, TL_SNODE
  <2>2. node' \in [Nodes -> TL_SNODE]
    BY <1>1, <2>1 DEF TypeOK, TL_SNODE
  <2> QED
    BY <1>1, <2>2 DEF TypeOK, TL_SNODE, ctrl, Threads
<1>4. PlacesOK' /\ InsidersPoint'
  BY <1>1 DEF PlacesOK, InsidersPoint, TypeOK, Threads, Clients, Open, Leaving
<1>5. HeadCounts'
  <2>1. /\ node'[psHead] = [node[psHead] EXCEPT !.notif = TRUE]
        /\ MayRemove(node'[psHead]) <=> MayRemove(node[psHead])
    BY <1>1 DEF TypeOK, MayRemove
  <2>2. \A r \in Readers : pc'[r] = pc[r]
    BY <1>1 DEF TypeOK, Threads, Clients
  <2> QED
    BY <1>1, <1>2, <2>1, <2>2 DEF HeadCounts, TypeOK
<1>6. UnlistedNodes'
  BY <1>1 DEF UnlistedNodes, TypeOK, Threads
<1>7. Descriptors'
  BY <1>1 DEF Descriptors, Leaving, TypeOK, Threads, Clients
<1> QED
  BY <1>3, <1>4, <1>5, <1>6, <1>7

(* A writer comes: to the shared descriptor or to a new one.               *)
LEMMA OpenForWritingKeeps ==
  ASSUME IInv, NEW w \in Writers, OpenForWriting(w)
  PROVE  IInv'
<1> DEFINE shared == node[psHead].psWDesc
           mine == IF shared = None THEN NewDesc ELSE shared
<1> USE NodesAssumption DEF IInv
<1>1. /\ pc[w] = "out" /\ psHead \in Nodes /\ (shared # None \/ NewDescs # {})
      /\ desc' = [desc EXCEPT ![mine] = [live |-> TRUE, uiRefCount |-> @.uiRefCount + 1]]
      /\ node' = [node EXCEPT ![psHead].psWDesc = mine, ![psHead].uiWRefCount = @ + 1]
      /\ myNode' = [myNode EXCEPT ![w] = psHead] /\ myDesc' = [myDesc EXCEPT ![w] = mine]
      /\ pc' = [pc EXCEPT ![w] = "opened"]
      /\ UNCHANGED <<hTLGDLock, psHead, freedTwice, ctrl>>
  BY DEF OpenForWriting, Goto, TypeOK
<1>2. mine \in Descs /\ desc[mine].uiRefCount = WriterRefs /\ mine # node[psHead].psRDesc
      /\ mine # None
  <2>1. CASE shared = None
    <3>1. NewDesc \in NewDescs
      BY <1>1, <2>1 DEF NewDesc
    <3>2. NewDesc \in Descs /\ desc[NewDesc] = NoDesc
      BY <3>1 DEF NewDescs, Descriptors
    <3> QED
      BY <1>1, <2>1, <3>2 DEF HeadCounts, NoDesc
  <2>2. CASE shared # None
    BY <1>1, <2>2 DEF HeadCounts, TypeOK
  <2> QED
    BY <2>1, <2>2
<1>3. \A t \in Threads : Leaving(t) /\ myDesc[t] = mine => shared # None
  <2>1. SUFFICES ASSUME shared = None, NEW t \in Threads, Leaving(t) PROVE myDesc[t] # mine
    OBVIOUS
  <2>2. NewDesc \in NewDescs
    BY <1>1, <2>1 DEF NewDesc
  <2> QED
    BY <2>1, <2>2 DEF NewDescs
<1>4. \A v \in Writers : pc[v] \in Open => myDesc[v] = mine
  BY <1>1, WriterRefsFacts DEF InsidersPoint, HeadCounts
<1> HIDE DEF mine, shared
<1>5. WriterRefs' = WriterRefs + 1 /\ CreatorRef' = CreatorRef
      /\ WriterRefs \in Nat /\ CreatorRef \in Nat
  <2>1. WriterRefs' = WriterRefs - Weight(pc[w]) + Weight("opened")
    BY <1>1, WriterMoves
  <2>2. CreatorRef' = CreatorRef
    BY <1>1 DEF CreatorRef, TypeOK, Threads, Clients
  <2> QED
    BY <1>1, <2>1, <2>2, WriterRefsFacts DEF Weight, Open, CreatorRef
<1>6. /\ node'[psHead] = [node[psHead] EXCEPT !.psWDesc = mine, !.uiWRefCount = @ + 1]
      /\ desc'[mine] = [live |-> TRUE, uiRefCount |-> WriterRefs + 1]
  BY <1>1, <1>2 DEF TypeOK
<1>7. TypeOK'
  BY <1>1, <1>2 DEF TypeOK, ctrl, Threads, Clients
<1>8. PlacesOK'
  BY <1>1 DEF PlacesOK, TypeOK, Threads, Clients, Leaving
<1>9. InsidersPoint'
  BY <1>1, <1>4, <1>6 DEF InsidersPoint, PlacesOK, TypeOK, Threads, Clients, Open
<1>10. HeadCounts'
  <2>1. \A r \in Readers : pc'[r] = pc[r]
    BY <1>1 DEF TypeOK, Threads, Clients
  <2>2. node[psHead].psRDesc # None => desc'[node[psHead].psRDesc] = desc[node[psHead].psRDesc]
    BY <1>1, <1>2 DEF TypeOK
  <2>3. /\ node'[psHead].live = node[psHead].live /\ node'[psHead].stream = node[psHead].stream
        /\ node'[psHead].uiWRefCount = node[psHead].uiWRefCount + 1
        /\ node'[psHead].psRDesc = node[psHead].psRDesc /\ node'[psHead].psWDesc = mine
    BY <1>1, <1>6 DEF TypeOK
  <2>4. psHead # None /\ psHead' = psHead
    BY <1>1
  <2>5. ~MayRemove(node'[psHead])
    BY <1>2, <2>3 DEF MayRemove
  <2>6. /\ node[psHead].live /\ node[psHead].stream
        /\ node[psHead].uiWRefCount = CreatorRef + WriterRefs
        /\ desc'[mine].uiRefCount = WriterRefs'
    BY <1>5, <1>6, <2>4 DEF HeadCounts
  <2>7. node[psHead].psRDesc # None =>
          /\ desc'[node[psHead].psRDesc] = [live |-> TRUE, uiRefCount |-> 1]
          /\ \E r \in Readers : pc'[r] = "in"
    BY <2>1, <2>2, <2>4 DEF HeadCounts
  <2>8. WriterRefs' > 0 /\ node'[psHead].uiWRefCount = CreatorRef' + WriterRefs'
    BY <1>5, <2>3, <2>6
  <2>9. desc'[mine] = [live |-> TRUE, uiRefCount |-> WriterRefs']
    BY <1>5, <1>6
  <2> QED
    BY <1>2, <2>3, <2>4, <2>5, <2>6, <2>7, <2>8, <2>9 DEF HeadCounts
<1>11. UnlistedNodes'
  BY <1>1 DEF UnlistedNodes, TypeOK, Threads, Clients
<1>12. Descriptors'
  <2>1. \A t \in Threads : Leaving(t)' <=> Leaving(t)
    BY <1>1 DEF Leaving, TypeOK, Threads, Clients
  <2>2. \A t \in Threads : Leaving(t) => myDesc'[t] = myDesc[t]
    BY <1>1 DEF Leaving, TypeOK, Threads, Clients
  <2> QED
    BY <1>1, <1>2, <1>6, <2>1, <2>2 DEF Descriptors, TypeOK, shared, mine
<1> QED
  BY <1>7, <1>8, <1>9, <1>10, <1>11, <1>12

(* A thread that only goes on, to a place of the same weight, touches      *)
(* neither node nor descriptor.                                            *)
LEMMA GoingOnKeeps ==
  ASSUME IInv, NEW t \in Threads, NEW place,
         \/ t \in Writers /\ pc[t] \in Open \ {"using"} /\ place \in Open \ {"using"}
            /\ UNCHANGED myNode
         \/ t = Creator /\ pc[t] = "markClose" /\ place = "out"
            /\ myNode' = [myNode EXCEPT ![t] = None],
         pc' = [pc EXCEPT ![t] = place],
         UNCHANGED <<psHead, node, desc, myDesc>>, TypeOK'
  PROVE  IInv'
<1> USE NodesAssumption DEF IInv
<1>1. WriterRefs' = WriterRefs /\ CreatorRef' = CreatorRef
  <2>1. CASE t \in Writers
    <3>1. WriterRefs' = WriterRefs - Weight(pc[t]) + Weight(place)
      BY <2>1, WriterMoves
    <3>2. Weight(pc[t]) = 1 /\ Weight(place) = 1
      BY <2>1 DEF Weight
    <3> QED
      BY <2>1, <3>1, <3>2, WriterRefsFacts DEF CreatorRef, TypeOK, Threads, Clients
  <2>2. CASE t = Creator
    BY <2>2, OthersMove DEF CreatorRef, TypeOK, Threads, Clients
  <2> QED
    BY <2>1, <2>2
<1>2. PlacesOK' /\ InsidersPoint'
  BY DEF PlacesOK, InsidersPoint, TypeOK, Threads, Clients, Open, Leaving
<1>3. HeadCounts'
  <2>1. \A r \in Readers : pc'[r] = pc[r]
    BY DEF TypeOK, Threads, Clients
  <2> QED
    BY <1>1, <2>1 DEF HeadCounts, MayRemove
<1>4. UnlistedNodes' /\ Descriptors'
  <2>1. \A u \in Threads : (pc'[u] = "destroy" <=> pc[u] = "destroy") /\ (Leaving(u)' <=> Leaving(u))
    BY DEF TypeOK, Open, Leaving, Threads, Clients
  <2>2. \A u \in Threads : pc[u] = "destroy" => myNode'[u] = myNode[u]
    BY DEF TypeOK, Open
  <2> QED
    BY <2>1, <2>2 DEF UnlistedNodes, Descriptors
<1> QED
  BY <1>2, <1>3, <1>4

(* Nobody goes anywhere.                                                   *)
LEMMA StayingKeeps ==
  ASSUME IInv, UNCHANGED <<psHead, node, desc, local>>, TypeOK'
  PROVE  IInv'
<1> USE DEF IInv, local
<1>1. WriterRefs' = WriterRefs /\ CreatorRef' = CreatorRef
  BY DEF WriterRefs, OpenWriters, UsingWriters, CreatorRef
<1>2. PlacesOK' /\ InsidersPoint'
  BY DEF PlacesOK, InsidersPoint, Leaving
<1>3. HeadCounts' /\ UnlistedNodes' /\ Descriptors'
  BY <1>1 DEF HeadCounts, MayRemove, UnlistedNodes, Descriptors, Leaving
<1> QED
  BY <1>2, <1>3

(* First writers, last writers and the packets they send.                  *)
LEMMA MarkersKeep ==
  ASSUME IInv, NEW t \in Threads,
         \/ FirstWriter(t) \/ MarkLost(t) \/ MarkReserve(t) \/ MarkCommit(t)
         \/ LastWriterClose(t)
  PROVE  IInv'
<1> USE NodesAssumption DEF IInv
<1>1. CASE FirstWriter(t)
  <2>1. t \in Writers /\ pc[t] = "opened"
    BY <1>1 DEF FirstWriter, PlacesOK, Threads, Clients
  <2> DEFINE place == IF node[myNode[t]].notif /\ node[myNode[t]].uiWRefCount = 2
                      THEN "markOpen" ELSE "in"
  <2>2. pc' = [pc EXCEPT ![t] = place] /\ UNCHANGED <<tl, myNode, myDesc, ctrl>>
    BY <1>1 DEF FirstWriter, Goto
  <2>3. place \in {"markOpen", "in"}
    OBVIOUS
  <2> HIDE DEF place
  <2>4. TypeOK'
    BY <2>1, <2>2, <2>3 DEF TypeOK, tl, ctrl
  <2> QED
    BY <2>1, <2>2, <2>3, <2>4, GoingOnKeeps DEF tl, Open
<1>2. CASE LastWriterClose(t)
  <2>1. /\ t \in Writers /\ pc[t] = "in" /\ pc' = [pc EXCEPT ![t] = "markClose"] /\ hTLGDLock' = t
        /\ UNCHANGED <<psHead, node, desc, freedTwice, myNode, myDesc, ctrl>>
    BY <1>2 DEF LastWriterClose, Goto
  <2>2. TypeOK'
    BY <2>1 DEF TypeOK, ctrl
  <2> QED
    BY <2>1, <2>2, GoingOnKeeps DEF Open
<1>3. CASE MarkReserve(t)
  <2>1. UNCHANGED <<psHead, node, desc, local>> /\ TypeOK'
    BY <1>3 DEF MarkReserve, TypeOK, tl, local
  <2> QED
    BY <2>1, StayingKeeps
<1>4. CASE MarkLost(t) \/ MarkCommit(t)
  <2>1. /\ pc[t] \in Marking /\ Marked(t)
        /\ hTLGDLock' = Unlocked(t) /\ myNode' = Forgotten(t)
        /\ UNCHANGED <<psHead, node, desc, freedTwice, myDesc, ctrlReadPending, ctrlReader>>
        /\ ctrlCount' \in 0 .. CtrlRoom /\ ctrlPending' \in Threads \cup {None}
    <3>1. CASE MarkLost(t)
      BY <3>1 DEF MarkLost, ctrl, TypeOK
    <3>2. CASE MarkCommit(t)
      BY <3>2 DEF MarkCommit, TypeOK
    <3> QED
      BY <1>4, <3>1, <3>2
  <2>2. PICK place \in {"in", "out", "unref"} :
          /\ pc' = [pc EXCEPT ![t] = place]
          /\ pc[t] = "markOpen" => place = "in"
          /\ pc[t] = "markClose" => place = IF t = Creator THEN "out" ELSE "unref"
    BY <2>1 DEF Marked, Marking, Goto
  <2>3. CASE t = Creator
    <3>1. pc[t] = "markClose" /\ place = "out" /\ myNode' = [myNode EXCEPT ![t] = None]
          /\ hTLGDLock' = None
      BY <2>1, <2>2, <2>3 DEF Marking, PlacesOK, Unlocked, Forgotten
    <3>2. TypeOK'
      BY <2>1, <2>2, <3>1 DEF TypeOK
    <3> QED
      BY <2>1, <2>2, <2>3, <3>1, <3>2, GoingOnKeeps
  <2>4. CASE t # Creator
    <3>1. t \in Writers /\ pc[t] \in Open \ {"using"} /\ place \in Open \ {"using"}
          /\ UNCHANGED <<myNode, hTLGDLock>>
      BY <2>1, <2>2, <2>4 DEF Marking, PlacesOK, Unlocked, Forgotten, Threads, Clients, Open
    <3>2. TypeOK'
      BY <2>1, <2>2, <3>1 DEF TypeOK
    <3> QED
      BY <2>1, <2>2, <3>1, <3>2, GoingOnKeeps
  <2> QED
    BY <2>3, <2>4
<1> QED
  BY <1>1, <1>2, <1>3, <1>4

(* The reader of tlctrl.                                                   *)
LEMMA CtrlKeeps ==
  ASSUME IInv, CtrlOpen \/ CtrlAcquire \/ CtrlDie \/ \E n \in 1 .. CtrlRoom : CtrlRelease(n)
  PROVE  IInv'
<1>1. UNCHANGED <<psHead, node, desc, local>>
  BY DEF CtrlOpen, CtrlAcquire, CtrlDie, CtrlRelease, tl
<1>2. /\ ctrlCount' \in 0 .. CtrlRoom /\ ctrlReadPending' \in BOOLEAN
      /\ ctrlReader' \in {"closed", "open", "holding"} /\ UNCHANGED ctrlPending
      /\ UNCHANGED <<tl, local>>
  <2>1. CASE CtrlOpen \/ CtrlDie
    BY <2>1 DEF IInv, TypeOK, CtrlOpen, CtrlDie
  <2>2. CASE CtrlAcquire
    BY <2>2 DEF IInv, TypeOK, CtrlAcquire
  <2>3. ASSUME NEW n \in 1 .. CtrlRoom, CtrlRelease(n)
        PROVE  /\ ctrlCount' \in 0 .. CtrlRoom /\ ctrlReadPending' = FALSE /\ ctrlReader' = "open"
               /\ UNCHANGED ctrlPending /\ UNCHANGED <<tl, local>>
    BY <2>3, NodesAssumption DEF IInv, TypeOK, CtrlRelease
  <2> QED
    BY <2>1, <2>2, <2>3, Zenon
<1>3. TypeOK'
  BY <1>2 DEF IInv, TypeOK, tl, local
<1> QED
  BY <1>1, <1>3, StayingKeeps

(* The one reader comes.                                                   *)
LEMMA OpenForReadingKeeps ==
  ASSUME IInv, NEW r \in Readers, OpenForReading(r)
  PROVE  IInv'
<1> DEFINE d == NewDesc
<1> USE NodesAssumption DEF IInv
<1>1. /\ pc[r] = "out" /\ psHead \in Nodes /\ node[psHead].psRDesc = None
      /\ desc' = [desc EXCEPT ![d] = [live |-> TRUE, uiRefCount |-> 1]]
      /\ node' = [node EXCEPT ![psHead].psRDesc = d]
      /\ myNode' = [myNode EXCEPT ![r] = psHead] /\ myDesc' = [myDesc EXCEPT ![r] = d]
      /\ pc' = [pc EXCEPT ![r] = "in"]
      /\ UNCHANGED <<hTLGDLock, psHead, freedTwice, ctrl>>
  BY DEF OpenForReading, Goto, TypeOK
<1>2. d \in Descs /\ d # None /\ ~desc[d].live /\ \A t \in Threads : myDesc[t] # d
  <2>1. NewDesc \in NewDescs
    BY DEF OpenForReading, NewDesc
  <2> QED
    BY <2>1 DEF NewDescs
<1> HIDE DEF d
<1>3. r \in Threads \ Writers /\ r # Creator
  BY DEF Threads, Clients
<1>4. WriterRefs' = WriterRefs /\ CreatorRef' = CreatorRef
  <2>1. WriterRefs' = WriterRefs
    BY <1>1, <1>3, OthersMove
  <2> QED
    BY <1>1, <1>3, <2>1 DEF CreatorRef, TypeOK
<1>5. node'[psHead] = [node[psHead] EXCEPT !.psRDesc = d] /\ node'[psHead] \in TL_SNODE
  BY <1>1, <1>2 DEF TypeOK, TL_SNODE
<1>6. TypeOK'
  <2>1. node' \in [Nodes -> TL_SNODE]
    BY <1>1, <1>5 DEF TypeOK, TL_SNODE
  <2> QED
    BY <1>1, <1>2, <2>1 DEF TypeOK, TL_SNODE, ctrl
<1>7. PlacesOK'
  BY <1>1, <1>2, <1>3 DEF PlacesOK, TypeOK, Threads, Clients, Leaving
<1>8. \A q \in Readers : pc[q] # "in"
  BY <1>1 DEF InsidersPoint
<1>9. InsidersPoint'
  BY <1>1, <1>2, <1>3, <1>5, <1>8 DEF InsidersPoint, PlacesOK, TypeOK, Threads, Clients, Open
<1>10. HeadCounts'
  <2>1. /\ node'[psHead].live = node[psHead].live /\ node'[psHead].stream = node[psHead].stream
        /\ node'[psHead].uiWRefCount = node[psHead].uiWRefCount
        /\ node'[psHead].psRDesc = d /\ node'[psHead].psWDesc = node[psHead].psWDesc
    BY <1>1, <1>5 DEF TypeOK
  <2>2. psHead # None /\ psHead' = psHead /\ pc'[r] = "in"
    BY <1>1, <1>3 DEF TypeOK
  <2>3. ~MayRemove(node'[psHead])
    BY <1>2, <2>1 DEF MayRemove
  <2>4. desc'[d] = [live |-> TRUE, uiRefCount |-> 1]
    BY <1>1, <1>2 DEF TypeOK
  <2>5. node[psHead].psWDesc # None => /\ node[psHead].psWDesc # d
                                       /\ desc'[node[psHead].psWDesc] = desc[node[psHead].psWDesc]
    BY <1>1, <1>2, <2>2 DEF HeadCounts, TypeOK
  <2> QED
    BY <1>4, <2>1, <2>2, <2>3, <2>4, <2>5 DEF HeadCounts
<1>11. UnlistedNodes'
  BY <1>1, <1>3 DEF UnlistedNodes, TypeOK
<1>12. Descriptors'
  <2>1. \A t \in Threads : (Leaving(t)' <=> Leaving(t)) /\ (Leaving(t) => myDesc'[t] = myDesc[t])
    BY <1>1, <1>3 DEF Leaving, TypeOK
  <2> QED
    BY <1>1, <1>2, <1>5, <2>1 DEF Descriptors, TypeOK
<1> QED
  BY <1>6, <1>7, <1>9, <1>10, <1>11, <1>12

(* A writer takes or returns a reference to node and descriptor.           *)
LEMMA UsingKeeps ==
  ASSUME IInv, NEW w \in Writers, GetNode(w) \/ TLReturnStreamNode(w)
  PROVE  IInv'
<1> DEFINE h == psHead
           d == node[psHead].psWDesc
           place == pc'[w]
           n == WriterRefs - Weight(pc[w]) + Weight(place)
<1> USE NodesAssumption DEF IInv
<1>1. /\ pc[w] \in {"in", "using"} /\ place \in {"in", "using"}
      /\ pc' = [pc EXCEPT ![w] = place]
      /\ myNode[w] = h /\ myDesc[w] = d
      /\ UNCHANGED <<hTLGDLock, psHead, freedTwice, myNode, myDesc, ctrl>>
  BY DEF GetNode, TLReturnStreamNode, Goto, TypeOK, InsidersPoint, Open, Threads, Clients
<1>2. /\ h \in Nodes /\ h # None /\ d \in Descs /\ d # None /\ d # node[h].psRDesc
      /\ desc[d] = [live |-> TRUE, uiRefCount |-> WriterRefs]
      /\ node[h].uiWRefCount = CreatorRef + WriterRefs /\ CreatorRef \in Nat
  BY <1>1, WriterRefsFacts DEF InsidersPoint, HeadCounts, TypeOK, Clients, Open, CreatorRef
<1>3. n \in Nat \ {0} /\ WriterRefs \in Nat /\ WriterRefs' = n /\ CreatorRef' = CreatorRef
  <2>1. WriterRefs' = n
    BY <1>1, WriterMoves
  <2>2. WriterRefs \in Nat /\ Weight(pc[w]) <= WriterRefs /\ Weight(pc[w]) \in 1..2
        /\ Weight(place) \in 1..2
    BY <1>1, WriterRefsFacts DEF Weight, Open
  <2>3. CreatorRef' = CreatorRef
    BY <1>1 DEF CreatorRef, TypeOK, Threads, Clients
  <2> QED
    BY <2>1, <2>2, <2>3
<1>4. /\ node' = [node EXCEPT ![h].uiWRefCount = CreatorRef + n]
      /\ desc' = [desc EXCEPT ![d].uiRefCount = n]
  <2>1. CASE GetNode(w)
    <3>1. Weight(pc[w]) = 1 /\ Weight(place) = 2
      BY <1>1, <2>1 DEF GetNode, Goto, Weight, Open, TypeOK, Threads, Clients
    <3>2. node[h].uiWRefCount + 1 = CreatorRef + n /\ desc[d].uiRefCount + 1 = n
      BY <1>2, <1>3, <3>1
    <3>3. /\ node' = [node EXCEPT ![h].uiWRefCount = node[h].uiWRefCount + 1]
          /\ desc' = [desc EXCEPT ![d].uiRefCount = desc[d].uiRefCount + 1]
      BY <1>1, <2>1 DEF GetNode, Got
    <3> QED
      BY <3>2, <3>3
  <2>2. CASE TLReturnStreamNode(w)
    <3>1. Weight(pc[w]) = 2 /\ Weight(place) = 1
      BY <1>1, <2>2 DEF TLReturnStreamNode, Goto, Weight, Open, TypeOK, Threads, Clients
    <3>2. node[h].uiWRefCount - 1 = CreatorRef + n /\ desc[d].uiRefCount - 1 = n
      BY <1>2, <1>3, <3>1
    <3>3. /\ node' = [node EXCEPT ![h].uiWRefCount = node[h].uiWRefCount - 1]
          /\ desc' = [desc EXCEPT ![d].uiRefCount = desc[d].uiRefCount - 1]
      BY <1>1, <2>2 DEF TLReturnStreamNode
    <3> QED
      BY <3>2, <3>3
  <2> QED
    BY <2>1, <2>2
<1> HIDE DEF h, d, place, n
<1>5. /\ node'[h] = [node[h] EXCEPT !.uiWRefCount = CreatorRef + n] /\ node'[h] \in TL_SNODE
      /\ desc'[d] = [live |-> TRUE, uiRefCount |-> n]
  <2>1. node[h] \in TL_SNODE /\ CreatorRef + n \in Nat
    BY <1>2, <1>3 DEF TypeOK, TL_SNODE
  <2>2. node'[h] = [node[h] EXCEPT !.uiWRefCount = CreatorRef + n]
    BY <1>2, <1>4 DEF TypeOK
  <2>3. node'[h] \in TL_SNODE
    BY <2>1, <2>2 DEF TL_SNODE
  <2>4. desc'[d] = [live |-> TRUE, uiRefCount |-> n]
    <3>1. desc'[d] = [desc[d] EXCEPT !.uiRefCount = n]
      BY <1>2, <1>4 DEF TypeOK
    <3>2. desc[d] \in [live : BOOLEAN, uiRefCount : Nat] /\ desc[d].live = TRUE
      BY <1>2 DEF TypeOK
    <3> QED
      BY <3>1, <3>2
  <2> QED
    BY <2>2, <2>3, <2>4
<1>6. TypeOK'
  <2>1. node' \in [Nodes -> TL_SNODE]
    BY <1>2, <1>4, <1>5 DEF TypeOK, TL_SNODE
  <2>2. desc' \in [Descs -> [live : BOOLEAN, uiRefCount : Nat]]
    BY <1>2, <1>3, <1>4, <1>5 DEF TypeOK
  <2> QED
    BY <1>1, <2>1, <2>2 DEF TypeOK, TL_SNODE, ctrl, Threads, Clients
<1>7. PlacesOK' /\ InsidersPoint'
  BY <1>1, <1>2, <1>4, <1>5 DEF PlacesOK, InsidersPoint, TypeOK, Threads, Clients, Open, Leaving, h
<1>8. HeadCounts'
  <2>1. /\ node'[h].live = node[h].live /\ node'[h].stream = node[h].stream
        /\ node'[h].uiWRefCount = CreatorRef' + WriterRefs'
        /\ node'[h].psRDesc = node[h].psRDesc /\ node'[h].psWDesc = d
    BY <1>2, <1>3, <1>5 DEF TypeOK, h, d
  <2>2. psHead = h /\ psHead' = h
    BY <1>1 DEF h
  <2>3. ~MayRemove(node'[h])
    BY <1>2, <2>1 DEF MayRemove
  <2>4. desc'[d] = [live |-> TRUE, uiRefCount |-> WriterRefs'] /\ WriterRefs' > 0
    BY <1>3, <1>5
  <2>5. node[h].psRDesc # None => /\ desc'[node[h].psRDesc] = desc[node[h].psRDesc]
                                  /\ \E r \in Readers : pc'[r] = "in"
    BY <1>1, <1>2, <1>4, <2>2 DEF HeadCounts, TypeOK, Threads, Clients
  <2> QED
    BY <1>2, <2>1, <2>2, <2>3, <2>4, <2>5 DEF HeadCounts
<1>9. UnlistedNodes'
  BY <1>1, <1>2, <1>4 DEF UnlistedNodes, TypeOK, Threads, Clients, h
<1>10. Descriptors'
  <2>1. \A t \in Threads : (Leaving(t)' <=> Leaving(t))
    BY <1>1 DEF Leaving, TypeOK, Threads, Clients
  <2>2. \A e \in Descs : e # d => desc'[e] = desc[e]
    BY <1>4 DEF TypeOK
  <2>3. psHead' = h /\ node'[h].psWDesc = d /\ node'[h].psRDesc = node[h].psRDesc /\ desc'[d].live
    BY <1>1, <1>2, <1>5 DEF TypeOK, h, d
  <2>4. node[h].psWDesc = d /\ psHead = h /\ h # None
    BY <1>2 DEF h, d
  <2> QED
    BY <1>1, <2>1, <2>2, <2>3, <2>4 DEF Descriptors
<1> QED
  BY <1>6, <1>7, <1>8, <1>9, <1>10

(* The connection closes the stream: others go on with it, or the stream   *)
(* is taken off the list.                                                  *)
LEMMA CloseKeeps ==
  ASSUME IInv, TLStreamClose
  PROVE  IInv'
<1> DEFINE n == psHead
           nd == [node[n] EXCEPT !.uiWRefCount = @ - 1]
           place == pc'[Creator]
<1> USE NodesAssumption DEF IInv
<1>1. /\ pc[Creator] = "in" /\ myNode[Creator] = n /\ n \in Nodes /\ n # None
      /\ pc' = [pc EXCEPT ![Creator] = place] /\ place \in {"markClose", "destroy", "out"}
      /\ UNCHANGED <<desc, freedTwice, myDesc, ctrl>>
  BY DEF TLStreamClose, Goto, InsidersPoint, TypeOK, Threads
<1>2. WriterRefs' = WriterRefs /\ CreatorRef' = 0 /\ WriterRefs \in Nat
  <2>1. Creator \in Threads \ Writers
    BY DEF Threads, Clients
  <2>2. WriterRefs' = WriterRefs
    BY <1>1, <2>1, OthersMove
  <2> QED
    BY <1>1, <2>1, <2>2, WriterRefsFacts DEF CreatorRef
<1>3. /\ nd.uiWRefCount = WriterRefs /\ nd.live /\ nd.stream
      /\ nd.psRDesc = node[n].psRDesc /\ nd.psWDesc = node[n].psWDesc
      /\ nd \in TL_SNODE
  BY <1>1, <1>2 DEF HeadCounts, CreatorRef, TypeOK, TL_SNODE
<1>4. \A t \in Clients : t \in Threads /\ pc'[t] = pc[t] /\ t # Creator
  BY <1>1 DEF TypeOK, Threads, Clients
<1> HIDE DEF n, nd, place
<1>5. \/ /\ ~MayRemove(nd) /\ node' = [node EXCEPT ![n] = nd] /\ psHead' = psHead
         /\ \/ place = "markClose" /\ hTLGDLock' = Creator /\ UNCHANGED myNode
            \/ place = "out" /\ UNCHANGED hTLGDLock /\ myNode' = [myNode EXCEPT ![Creator] = None]
      \/ /\ MayRemove(nd) /\ node' = [node EXCEPT ![n] = Removed(nd)] /\ psHead' = None
         /\ place = "destroy" /\ UNCHANGED <<hTLGDLock, myNode>>
  <2>1. ~(nd.uiWRefCount = 1 /\ MayRemove(nd))
    BY DEF MayRemove
  <2> QED
    BY <1>1, <2>1 DEF TLStreamClose, Goto, n, nd, place, TypeOK, Threads
<1>6. PlacesOK'
  BY <1>1, <1>4 DEF PlacesOK, Threads, Clients, Leaving, TypeOK
<1>7. CASE ~MayRemove(nd)
  <2>1. /\ node' = [node EXCEPT ![n] = nd] /\ psHead' = n /\ psHead = n
        /\ place \in {"markClose", "out"} /\ node'[n] = nd
        /\ myNode' \in [Threads -> Nodes \cup {None}]
        /\ \A t \in Clients : myNode'[t] = myNode[t]
    BY <1>1, <1>4, <1>5, <1>7 DEF TypeOK, n, Threads
  <2>2. TypeOK'
    <3>1. node' \in [Nodes -> TL_SNODE]
      BY <1>3, <2>1 DEF TypeOK, TL_SNODE
    <3> QED
      BY <1>1, <1>5, <1>7, <2>1, <3>1 DEF TypeOK, TL_SNODE, ctrl, Threads
  <2>3. InsidersPoint'
    BY <1>1, <1>3, <1>4, <2>1 DEF InsidersPoint, Clients, TypeOK, Threads
  <2>4. HeadCounts'
    <3>1. nd.uiWRefCount = CreatorRef' + WriterRefs'
      BY <1>2, <1>3
    <3>2. \A r \in Readers : pc'[r] = pc[r]
      BY <1>4 DEF Clients
    <3> QED
      BY <1>1, <1>2, <1>3, <1>7, <2>1, <3>1, <3>2 DEF HeadCounts
  <2>5. UnlistedNodes'
    <3>1. \A t \in Threads : /\ pc'[t] = "destroy" <=> pc[t] = "destroy"
                             /\ pc[t] = "destroy" => myNode'[t] = myNode[t]
      BY <1>1, <1>4, <2>1 DEF Threads, TypeOK
    <3>2. \A m \in Nodes : m # n => node'[m] = node[m]
      BY <2>1 DEF TypeOK
    <3> QED
      BY <2>1, <3>1, <3>2 DEF UnlistedNodes
  <2>6. Descriptors'
    BY <1>1, <1>3, <1>4, <2>1 DEF Descriptors, Leaving
  <2> QED
    BY <1>6, <2>2, <2>3, <2>4, <2>5, <2>6
<1>8. CASE MayRemove(nd)
  <2>1. /\ node' = [node EXCEPT ![n] = Removed(nd)] /\ psHead' = None
        /\ place = "destroy" /\ UNCHANGED <<hTLGDLock, myNode>>
    BY <1>5, <1>8
  <2>2. TypeOK'
    <3>1. Removed(nd) \in TL_SNODE
      BY <1>3 DEF Removed, TL_SNODE
    <3>2. node' \in [Nodes -> TL_SNODE]
      BY <2>1, <3>1 DEF TypeOK, TL_SNODE
    <3> QED
      BY <1>1, <2>1, <3>2 DEF TypeOK, TL_SNODE, ctrl, Threads
  <2>3. node[n].psRDesc = None /\ node[n].psWDesc = None /\ WriterRefs = 0
    BY <1>3, <1>8 DEF MayRemove
  <2>4. \A t \in Clients : pc[t] \notin Open
    BY <2>3, WriterRefsFacts DEF InsidersPoint, PlacesOK, Clients, Open, n
  <2>5. InsidersPoint'
    BY <1>1, <1>4, <2>1, <2>4 DEF InsidersPoint, Clients, Open, TypeOK, Threads
  <2>6. HeadCounts'
    BY <2>1 DEF HeadCounts
  <2>7. UnlistedNodes'
    <3>1. Creator \in Threads /\ pc'[Creator] = "destroy" /\ myNode'[Creator] = n
      BY <1>1, <2>1 DEF Threads, TypeOK
    <3>2. \A t \in Threads : t # Creator => pc'[t] = pc[t]
      BY <1>1 DEF TypeOK
    <3>3. \A m \in Nodes : m # n => node'[m] = node[m]
      BY <2>1 DEF TypeOK
    <3>4. pc[Creator] # "destroy" /\ psHead = n
      BY <1>1 DEF n
    <3> QED
      BY <1>1, <2>1, <3>1, <3>2, <3>3, <3>4 DEF UnlistedNodes
  <2>8. Descriptors'
    BY <1>1, <1>4, <2>1, <2>3 DEF Descriptors, Leaving, n
  <2> QED
    BY <1>6, <2>2, <2>5, <2>6, <2>7, <2>8
<1> QED
  BY <1>7, <1>8

(* Outside the stream a thread's place has no weight.                      *)
LEMMA OutsideMoves ==
  ASSUME NEW t \in Threads, NEW place, TypeOK, pc[t] \in {"destroy", "freeDesc"},
         place \in {"freeDesc", "out"}, pc' = [pc EXCEPT ![t] = place]
  PROVE  /\ WriterRefs' = WriterRefs /\ CreatorRef' = CreatorRef
         /\ \A u \in Threads : pc[u] \in Open \cup {"created"} \/ pc'[u] \in Open \cup {"created"}
              => u # t /\ pc'[u] = pc[u]
<1>1. WriterRefs' = WriterRefs
  <2>1. CASE t \in Writers
    <3>1. WriterRefs' = WriterRefs - Weight(pc[t]) + Weight(place)
      BY <2>1, WriterMoves
    <3> QED
      BY <3>1, WriterRefsFacts DEF Weight, Open
  <2>2. CASE t \notin Writers
    BY <2>2, OthersMove
  <2> QED
    BY <2>1, <2>2
<1>2. CreatorRef' = CreatorRef
  BY DEF CreatorRef, TypeOK, Threads
<1>3. \A u \in Threads : pc[u] \in Open \cup {"created"} \/ pc'[u] \in Open \cup {"created"}
              => u # t /\ pc'[u] = pc[u]
  BY DEF TypeOK, Open
<1> QED
  BY <1>1, <1>2, <1>3

(* A removed stream is freed by the one thread that removed it.            *)
LEMMA DestroyKeeps ==
  ASSUME IInv, NEW t \in Threads, TLStreamDestroy(t)
  PROVE  IInv'
<1> DEFINE n == myNode[t]
           place == IF t = Creator THEN "out" ELSE "freeDesc"
<1> USE NodesAssumption DEF IInv
<1>1. /\ pc[t] = "destroy" /\ n \in Nodes /\ n # psHead
      /\ node' = [node EXCEPT ![n] = NoNode] /\ myNode' = [myNode EXCEPT ![t] = None]
      /\ pc' = [pc EXCEPT ![t] = place]
      /\ UNCHANGED <<hTLGDLock, psHead, desc, freedTwice, myDesc, ctrl>>
  BY DEF TLStreamDestroy, Goto, UnlistedNodes
<1>2. place \in {"out", "freeDesc"} /\ (t # Creator => place = "freeDesc") /\ (t = Creator => place = "out")
  OBVIOUS
<1> HIDE DEF n, place
<1>3. /\ WriterRefs' = WriterRefs /\ CreatorRef' = CreatorRef
      /\ \A u \in Threads : pc[u] \in Open \cup {"created"} \/ pc'[u] \in Open \cup {"created"}
           => u # t /\ pc'[u] = pc[u]
  <2>1. TypeOK /\ pc[t] \in {"destroy", "freeDesc"} /\ place \in {"freeDesc", "out"}
    BY <1>1, <1>2
  <2>2. pc' = [pc EXCEPT ![t] = place]
    BY <1>1
  <2> QED
    BY <2>1, <2>2, OutsideMoves
<1>4. TypeOK'
  <2>1. NoNode \in TL_SNODE
    BY DEF NoNode, TL_SNODE
  <2>2. node' \in [Nodes -> TL_SNODE]
    BY <1>1, <2>1 DEF TypeOK, TL_SNODE
  <2> QED
    BY <1>1, <1>2, <2>2 DEF TypeOK, TL_SNODE, ctrl
<1>5. PlacesOK'
  BY <1>1, <1>2 DEF PlacesOK, Leaving, TypeOK, Threads, Clients
<1>6. psHead # None => node'[psHead] = node[psHead]
  BY <1>1 DEF TypeOK
<1>7. InsidersPoint'
  <2>1. \A u \in Threads : u # t => myNode'[u] = myNode[u]
    BY <1>1 DEF TypeOK
  <2>2. Creator \in Threads /\ Clients \subseteq Threads /\ Writers \subseteq Clients /\ Readers \subseteq Clients
    BY DEF Threads, Clients
  <2> QED
    BY <1>1, <1>3, <1>6, <2>1, <2>2 DEF InsidersPoint, Open
<1>8. HeadCounts'
  <2>1. \A r \in Readers : pc[r] = "in" => pc'[r] = "in"
    BY <1>3 DEF Open, Threads, Clients
  <2> QED
    BY <1>1, <1>3, <1>6, <2>1 DEF HeadCounts
<1>9. UnlistedNodes'
  <2>1. node'[n] = NoNode /\ \A m \in Nodes : m # n => node'[m] = node[m]
    BY <1>1 DEF TypeOK
  <2>2. /\ pc'[t] # "destroy" /\ myNode[t] = n
        /\ \A u \in Threads : u # t => pc'[u] = pc[u] /\ myNode'[u] = myNode[u]
    BY <1>1, <1>2 DEF TypeOK, n
  <2> QED
    BY <1>1, <2>1, <2>2 DEF UnlistedNodes
<1>10. Descriptors'
  <2>1. \A u \in Threads : Leaving(u) => Leaving(u)'
    BY <1>1, <1>2 DEF Leaving, TypeOK, Clients
  <2> QED
    BY <1>1, <1>6, <2>1 DEF Descriptors
<1> QED
  BY <1>4, <1>5, <1>7, <1>8, <1>9, <1>10

(* A descriptor is freed only when nobody has the stream open with it.     *)
LEMMA FreeDescKeeps ==
  ASSUME IInv, NEW t \in Threads, FreeDesc(t)
  PROVE  IInv'
<1> DEFINE d == myDesc[t]
<1> USE NodesAssumption DEF IInv
<1>1. /\ pc[t] = "freeDesc" /\ d \in Descs /\ t \in Clients
      /\ myNode' = [myNode EXCEPT ![t] = None] /\ myDesc' = [myDesc EXCEPT ![t] = None]
      /\ pc' = [pc EXCEPT ![t] = "out"]
      /\ UNCHANGED <<hTLGDLock, psHead, node, ctrl>>
  BY DEF FreeDesc, Goto, PlacesOK, Leaving, Threads
<1>2. \/ desc[d].live /\ desc[d].uiRefCount = 0 /\ desc' = [desc EXCEPT ![d] = NoDesc]
      \/ ~(desc[d].live /\ desc[d].uiRefCount = 0) /\ UNCHANGED desc
  BY DEF FreeDesc
<1>3. freedTwice' \in BOOLEAN
  BY DEF FreeDesc, TypeOK
<1> HIDE DEF d
<1>4. /\ WriterRefs' = WriterRefs /\ CreatorRef' = CreatorRef
      /\ \A u \in Threads : pc[u] \in Open \cup {"created"} \/ pc'[u] \in Open \cup {"created"}
           => u # t /\ pc'[u] = pc[u]
  <2>1. TypeOK /\ pc[t] \in {"destroy", "freeDesc"} /\ "out" \in {"freeDesc", "out"}
    BY <1>1
  <2>2. pc' = [pc EXCEPT ![t] = "out"]
    BY <1>1
  <2> QED
    BY <2>1, <2>2, OutsideMoves
<1>5. TypeOK'
  <2>1. NoDesc \in [live : BOOLEAN, uiRefCount : Nat]
    BY DEF NoDesc
  <2>2. desc' \in [Descs -> [live : BOOLEAN, uiRefCount : Nat]]
    BY <1>1, <1>2, <2>1 DEF TypeOK
  <2> QED
    BY <1>1, <1>3, <2>2 DEF TypeOK, ctrl
<1>6. PlacesOK'
  BY <1>1 DEF PlacesOK, Leaving, TypeOK, Threads, Clients
<1>7. InsidersPoint'
  <2>1. \A u \in Threads : u # t => myNode'[u] = myNode[u] /\ myDesc'[u] = myDesc[u]
    BY <1>1 DEF TypeOK
  <2>2. Creator \in Threads /\ Clients \subseteq Threads /\ Writers \subseteq Clients /\ Readers \subseteq Clients
    BY DEF Threads, Clients
  <2> QED
    BY <1>1, <1>4, <2>1, <2>2 DEF InsidersPoint, Open
<1>8. HeadCounts'
  <2>1. \A r \in Readers : pc[r] = "in" => pc'[r] = "in"
    BY <1>4 DEF Open, Threads, Clients
  <2>2. \A e \in Descs : desc[e].uiRefCount # 0 => desc'[e] = desc[e]
    BY <1>1, <1>2 DEF TypeOK
  <2>3. psHead # None => {node[psHead].psRDesc, node[psHead].psWDesc} \subseteq Descs \cup {None}
    BY DEF TypeOK
  <2> QED
    BY <1>1, <1>4, <2>1, <2>2, <2>3 DEF HeadCounts
<1>9. UnlistedNodes'
  BY <1>1 DEF UnlistedNodes, TypeOK
<1>10. Descriptors'
  <2>1. \A u \in Threads : u # t /\ Leaving(u) => Leaving(u)' /\ myDesc'[u] = myDesc[u]
    BY <1>1 DEF Leaving, TypeOK
  <2>2. \A e \in Descs : e # d => desc'[e] = desc[e]
    BY <1>2 DEF TypeOK
  <2>3. \/ desc'[d] = NoDesc
        \/ desc'[d] = desc[d] /\ ~(desc[d].live /\ desc[d].uiRefCount = 0)
    BY <1>1, <1>2 DEF TypeOK
  <2> QED
    BY <1>1, <2>1, <2>2, <2>3 DEF Descriptors, NoDesc, d
<1> QED
  BY <1>5, <1>6, <1>7, <1>8, <1>9, <1>10

(* What of WriterRefsFacts holds after a step, too.                        *)
LEMMA WriterRefsFactsNext ==
  (WriterRefs \in Nat /\ (WriterRefs = 0 <=> \A w \in Writers : pc[w] \notin Open))'
BY WriterRefsFacts, PTL

(* A client closes: it takes its reference away and, when nobody needs the *)
(* node any longer, takes the node off the list.                           *)
LEMMA UnrefKeeps ==
  ASSUME IInv, NEW t \in Threads, CloseStream(t) \/ UnrefMarked(t)
  PROVE  IInv'
<1> DEFINE n == psHead
           d == myDesc[t]
           left == desc[d].uiRefCount - 1
           nd == IF t \in Readers THEN WithoutReader(node[n]) ELSE WithoutWriter(node[n], left)
           place == IF MayRemove(nd) THEN "destroy" ELSE "freeDesc"
<1> USE NodesAssumption DEF IInv
<1>1. /\ t \in Clients /\ pc[t] \in {"in", "unref"} /\ (t \in Readers => pc[t] = "in")
      /\ myNode[t] = n /\ n \in Nodes /\ n # None
      /\ Unref(t) /\ hTLGDLock' \in Threads \cup {None}
  BY DEF CloseStream, UnrefMarked, PlacesOK, InsidersPoint, TypeOK, Threads, Clients, Open
<1>2. /\ desc' = [desc EXCEPT ![d].uiRefCount = left]
      /\ pc' = [pc EXCEPT ![t] = place]
      /\ IF MayRemove(nd) THEN node' = [node EXCEPT ![n] = Removed(nd)] /\ psHead' = None
                          ELSE node' = [node EXCEPT ![n] = nd] /\ psHead' = n
      /\ UNCHANGED <<freedTwice, myNode, myDesc, ctrl>>
  BY <1>1 DEF Unref, Goto
<1>3. /\ place \in {"destroy", "freeDesc"} /\ (MayRemove(nd) <=> place = "destroy")
  OBVIOUS
<1>4. /\ t \in Readers => nd = [node[n] EXCEPT !.psRDesc = None]
      /\ t \notin Readers => nd = [node[n] EXCEPT !.uiWRefCount = @ - 1,
                                                  !.psWDesc = IF left = 0 THEN None ELSE @]
      /\ left = desc[d].uiRefCount - 1
  BY DEF WithoutReader, WithoutWriter
<1>5. \A u \in Threads : u # t => pc'[u] = pc[u]
  BY <1>2 DEF TypeOK
<1>6. pc'[t] = place
  BY <1>2 DEF TypeOK
<1> HIDE DEF n, d, left, nd, place
<1>7. CreatorRef' = CreatorRef /\ CreatorRef \in 0..1 /\ node[n] \in TL_SNODE
  BY <1>1, <1>5 DEF CreatorRef, Threads, Clients, TypeOK, TL_SNODE
<1>8. /\ d \in Descs /\ desc[d].live = TRUE /\ left \in Nat
      /\ nd.live /\ nd.stream /\ nd \in TL_SNODE
      /\ nd.uiWRefCount = CreatorRef + WriterRefs'
      /\ nd.psRDesc \in {None, node[n].psRDesc} /\ nd.psWDesc \in {None, node[n].psWDesc}
      /\ nd.psWDesc = None => WriterRefs' = 0
      /\ nd.psWDesc # None => WriterRefs' > 0 /\ desc'[nd.psWDesc] = [live |-> TRUE, uiRefCount |-> WriterRefs']
      /\ nd.psRDesc # None => /\ desc'[nd.psRDesc] = [live |-> TRUE, uiRefCount |-> 1]
                              /\ \E r \in Readers : pc'[r] = "in"
      /\ left = 0 \/ d \in {nd.psRDesc, nd.psWDesc}
      /\ \A e \in {node[n].psRDesc, node[n].psWDesc} : e = d \/ e \in {nd.psRDesc, nd.psWDesc}
      /\ \A r \in Readers : pc'[r] = "in" => myDesc[r] = nd.psRDesc /\ nd.psRDesc # None
  <2>1. CASE t \in Readers
    <3>1. /\ d = node[n].psRDesc /\ d \in Descs /\ d # None
          /\ desc[d] = [live |-> TRUE, uiRefCount |-> 1]
      BY <1>1, <2>1 DEF InsidersPoint, HeadCounts, TypeOK, n, d
    <3>2. WriterRefs' = WriterRefs /\ WriterRefs \in Nat
      <4>1. t \in Threads \ Writers
        BY <2>1
      <4>2. TypeOK /\ pc' = [pc EXCEPT ![t] = place]
        BY <1>2
      <4> QED
        BY <4>1, <4>2, OthersMove, WriterRefsFacts
    <3>3. /\ nd.live = node[n].live /\ nd.stream = node[n].stream
          /\ nd.uiWRefCount = node[n].uiWRefCount
          /\ nd.psRDesc = None /\ nd.psWDesc = node[n].psWDesc /\ nd \in TL_SNODE
      BY <1>4, <1>7, <2>1 DEF TL_SNODE
    <3>4. left = 0
      BY <1>4, <3>1
    <3>5. /\ node[n].live /\ node[n].stream /\ node[n].uiWRefCount = CreatorRef + WriterRefs
          /\ node[n].psWDesc = None => WriterRefs = 0
          /\ node[n].psWDesc # None =>
               /\ WriterRefs > 0 /\ node[n].psWDesc # d
               /\ desc[node[n].psWDesc] = [live |-> TRUE, uiRefCount |-> WriterRefs]
      BY <1>1, <3>1 DEF HeadCounts, n
    <3>6. \A e \in Descs : e # d => desc'[e] = desc[e]
      BY <1>2 DEF TypeOK
    <3>7. \A r \in Readers : pc'[r] # "in"
      BY <1>1, <1>3, <1>5, <1>6, <2>1 DEF InsidersPoint, Threads, Clients
    <3>8. node[n].psWDesc \in Descs \cup {None}
      BY <1>7 DEF TL_SNODE
    <3> QED
      BY <3>1, <3>2, <3>3, <3>4, <3>5, <3>6, <3>7, <3>8
  <2>2. CASE t \notin Readers
    <3>1. t \in Writers
      BY <1>1, <2>2 DEF Clients
    <3>2. WriterRefs' = WriterRefs - 1 /\ WriterRefs \in Nat \ {0}
      <4>1. WriterRefs' = WriterRefs - Weight(pc[t]) + Weight(place)
        <5>1. TypeOK /\ pc' = [pc EXCEPT ![t] = place]
          BY <1>2
        <5> QED
          BY <3>1, <5>1, WriterMoves
      <4>2. Weight(pc[t]) = 1 /\ Weight(place) = 0 /\ Weight(pc[t]) <= WriterRefs
        BY <1>1, <1>3, <3>1, WriterRefsFacts DEF Weight, Open
      <4> QED
        BY <4>1, <4>2, WriterRefsFacts
    <3>3. /\ node[n].live /\ node[n].stream /\ node[n].uiWRefCount = CreatorRef + WriterRefs
          /\ d = node[n].psWDesc /\ d # None /\ node[n].psWDesc # node[n].psRDesc
          /\ desc[d] = [live |-> TRUE, uiRefCount |-> WriterRefs]
      BY <1>1, <3>1, <3>2 DEF HeadCounts, InsidersPoint, Open, n, d
    <3>4. d \in Descs /\ node[n].psRDesc \in Descs \cup {None}
      BY <1>7, <3>3 DEF TL_SNODE
    <3>5. left = WriterRefs - 1
      BY <1>4, <3>3
    <3>6. /\ nd.live = node[n].live /\ nd.stream = node[n].stream
          /\ nd.uiWRefCount = node[n].uiWRefCount - 1
          /\ nd.psRDesc = node[n].psRDesc /\ nd.psWDesc = IF left = 0 THEN None ELSE node[n].psWDesc
      BY <1>4, <1>7, <2>2 DEF TL_SNODE
    <3>7. nd \in TL_SNODE
      <4>1. node[n].uiWRefCount - 1 \in Nat
        BY <1>7, <3>2, <3>3
      <4> QED
        BY <1>4, <1>7, <2>2, <4>1 DEF TL_SNODE
    <3>8. desc'[d] = [live |-> TRUE, uiRefCount |-> WriterRefs']
      <4>1. desc[d] \in [live : BOOLEAN, uiRefCount : Nat] /\ desc[d].live = TRUE
        BY <3>3, <3>4 DEF TypeOK
      <4>2. desc'[d] = [desc[d] EXCEPT !.uiRefCount = left]
        BY <1>2, <3>4 DEF TypeOK
      <4> QED
        BY <3>2, <3>5, <4>1, <4>2
    <3>9. \A e \in Descs : e # d => desc'[e] = desc[e]
      BY <1>2 DEF TypeOK
    <3>10. node[n].psRDesc # None => /\ desc'[node[n].psRDesc] = [live |-> TRUE, uiRefCount |-> 1]
                                     /\ \E r \in Readers : pc'[r] = "in"
      <4>1. \A r \in Readers : pc'[r] = pc[r]
        BY <1>5, <2>2 DEF Threads, Clients
      <4> QED
        BY <1>1, <3>3, <3>4, <3>9, <4>1 DEF HeadCounts, n
    <3>11. \A r \in Readers : pc'[r] = "in" => myDesc[r] = node[n].psRDesc /\ node[n].psRDesc # None
      BY <1>5, <2>2 DEF InsidersPoint, Threads, Clients, n
    <3>12. nd.uiWRefCount = CreatorRef + WriterRefs' /\ left \in Nat /\ left = WriterRefs'
      BY <1>7, <3>2, <3>3, <3>5, <3>6
    <3> QED
      BY <3>2, <3>3, <3>4, <3>6, <3>7, <3>8, <3>10, <3>11, <3>12
  <2> QED
    BY <2>1, <2>2
<1>9. \A v \in Writers : pc'[v] \in Open => myDesc[v] = nd.psWDesc
  <2>1. SUFFICES ASSUME NEW v \in Writers, pc'[v] \in Open PROVE myDesc[v] = nd.psWDesc
    OBVIOUS
  <2>2. pc[v] \in Open
    BY <1>1, <1>3, <1>5, <1>6, <2>1 DEF Threads, Clients, Open
  <2>3. nd.psWDesc # None
    BY <1>8, <2>1, WriterRefsFactsNext
  <2> QED
    BY <1>8, <2>2, <2>3 DEF InsidersPoint, n
<1>10. desc'[d].live /\ desc'[d].uiRefCount = left /\ \A e \in Descs : e # d => desc'[e] = desc[e]
  BY <1>2, <1>8 DEF TypeOK
<1>11. desc' \in [Descs -> [live : BOOLEAN, uiRefCount : Nat]]
  BY <1>2, <1>8 DEF TypeOK
<1>12. PlacesOK'
  BY <1>1, <1>2, <1>3, <1>5, <1>6, <1>8 DEF PlacesOK, Threads, Clients, Leaving, d
<1>13. \A u \in Threads : Leaving(u) => u # t /\ Leaving(u)'
  BY <1>1, <1>5 DEF Leaving
<1>14. Leaving(t)' /\ myDesc'[t] = d
  BY <1>1, <1>2, <1>3, <1>6 DEF Leaving, d
<1>15. CASE ~MayRemove(nd)
  <2>1. node' = [node EXCEPT ![n] = nd] /\ psHead' = n /\ place = "freeDesc" /\ psHead = n
    BY <1>2, <1>3, <1>15 DEF n
  <2>2. node'[n] = nd /\ \A m \in Nodes : m # n => node'[m] = node[m]
    BY <1>1, <2>1 DEF TypeOK
  <2>3. TypeOK'
    <3>1. node' \in [Nodes -> TL_SNODE]
      BY <1>8, <2>1 DEF TypeOK, TL_SNODE
    <3> QED
      BY <1>1, <1>2, <1>3, <1>11, <2>1, <3>1 DEF TypeOK, TL_SNODE, ctrl
  <2>4. InsidersPoint'
    BY <1>1, <1>2, <1>3, <1>5, <1>6, <1>8, <1>9, <2>1, <2>2 DEF InsidersPoint, Threads, Clients, Open
  <2>5. HeadCounts'
    BY <1>7, <1>8, <1>15, <2>1, <2>2 DEF HeadCounts
  <2>6. UnlistedNodes'
    BY <1>1, <1>2, <1>5, <1>6, <2>1, <2>2 DEF UnlistedNodes
  <2>7. Descriptors'
    BY <1>2, <1>8, <1>10, <1>13, <1>14, <2>1, <2>2, <1>1 DEF Descriptors
  <2> QED
    BY <1>12, <2>3, <2>4, <2>5, <2>6, <2>7
<1>16. CASE MayRemove(nd)
  <2>1. node' = [node EXCEPT ![n] = Removed(nd)] /\ psHead' = None /\ place = "destroy" /\ psHead = n
    BY <1>2, <1>3, <1>16 DEF n
  <2>2. \A m \in Nodes : m # n => node'[m] = node[m]
    BY <1>1, <2>1 DEF TypeOK
  <2>3. TypeOK'
    <3>1. Removed(nd) \in TL_SNODE
      BY <1>8 DEF Removed, TL_SNODE
    <3>2. node' \in [Nodes -> TL_SNODE]
      BY <2>1, <3>1 DEF TypeOK, TL_SNODE
    <3> QED
      BY <1>1, <1>2, <1>3, <1>11, <2>1, <3>2 DEF TypeOK, TL_SNODE, ctrl
  <2>4. CreatorRef = 0 /\ WriterRefs' = 0 /\ nd.psRDesc = None /\ nd.psWDesc = None
    BY <1>7, <1>8, <1>16, WriterRefsFactsNext DEF MayRemove
  <2>5. \A u \in Clients : pc'[u] \notin Open
    <3>1. \A w \in Writers : pc'[w] \notin Open
      BY <2>4, WriterRefsFactsNext
    <3>2. \A r \in Readers : pc'[r] # "in"
      BY <1>8, <2>4
    <3> QED
      BY <1>12, <3>1, <3>2 DEF PlacesOK, Clients, Open
  <2>6. pc'[Creator] \notin {"created", "in"}
    BY <1>7, <2>4 DEF CreatorRef
  <2>7. InsidersPoint'
    BY <2>5, <2>6 DEF InsidersPoint, Clients, Open
  <2>8. HeadCounts'
    BY <2>1 DEF HeadCounts
  <2>9. UnlistedNodes'
    BY <1>1, <1>2, <1>5, <1>6, <2>1, <2>2 DEF UnlistedNodes
  <2>10. Descriptors'
    BY <1>1, <1>2, <1>8, <1>10, <1>13, <1>14, <2>1, <2>4 DEF Descriptors
  <2> QED
    BY <1>12, <2>3, <2>7, <2>8, <2>9, <2>10
<1> QED
  BY <1>15, <1>16

(* Every step of every thread keeps the counts.                            *)
LEMMA StepIInv == IInv /\ [Next]_vars => IInv'
<1> SUFFICES ASSUME IInv, [Next]_vars PROVE IInv'
  OBVIOUS
<1>1. Writers \subseteq Threads /\ Clients \subseteq Threads
  BY DEF Threads, Clients
<1>2. CASE TLStreamCreate
  BY <1>2, CreateKeeps
<1>3. CASE TLStreamSetNotifStream
  BY <1>3, SetNotifKeeps
<1>4. CASE TLStreamClose
  BY <1>4, CloseKeeps
<1>5. ASSUME NEW w \in Writers, OpenForWriting(w) \/ GetNode(w) \/ LastWriterClose(w)
      PROVE  IInv'
  BY <1>1, <1>5, OpenForWritingKeeps, UsingKeeps, MarkersKeep
<1>6. ASSUME NEW r \in Readers, OpenForReading(r)
      PROVE  IInv'
  BY <1>6, OpenForReadingKeeps
<1>7. ASSUME NEW t \in Clients, CloseStream(t)
      PROVE  IInv'
  BY <1>1, <1>7, UnrefKeeps
<1>8. ASSUME NEW t \in Threads, Proceed(t)
      PROVE  IInv'
  <2>1. CASE FirstWriter(t) \/ MarkLost(t) \/ MarkReserve(t) \/ MarkCommit(t)
    BY <2>1, MarkersKeep
  <2>2. CASE TLReturnStreamNode(t)
    <3>1. t \in Writers
      BY <2>2 DEF TLReturnStreamNode, IInv, PlacesOK, Threads, Clients
    <3> QED
      BY <2>2, <3>1, UsingKeeps
  <2>3. CASE UnrefMarked(t)
    BY <2>3, UnrefKeeps
  <2>4. CASE TLStreamDestroy(t)
    BY <2>4, DestroyKeeps
  <2>5. CASE FreeDesc(t)
    BY <2>5, FreeDescKeeps
  <2> QED
    BY <1>8, <2>1, <2>2, <2>3, <2>4, <2>5 DEF Proceed
<1>9. CASE CtrlOpen \/ CtrlAcquire \/ CtrlDie \/ \E n \in 1 .. CtrlRoom : CtrlRelease(n)
  BY <1>9, CtrlKeeps
<1>10. CASE UNCHANGED vars
  <2>1. UNCHANGED <<psHead, node, desc, local>> /\ TypeOK'
    BY <1>10 DEF IInv, TypeOK, vars, tl, local, ctrl
  <2> QED
    BY <2>1, StayingKeeps
<1> QED
  BY <1>2, <1>3, <1>4, <1>5, <1>6, <1>7, <1>8, <1>9, <1>10 DEF Next

(* The counts are right in every state a run reaches.                      *)
THEOREM Invariant == Spec => []IInv
BY InitIInv, StepIInv, PTL DEF Spec

(* Every variable keeps its type.                                          *)
THEOREM TypeCorrect == Spec => []TypeOK
<1>1. IInv => TypeOK
  BY DEF IInv
<1> QED
  BY <1>1, Invariant, PTL

(* Whoever has the stream open finds it, whatever the others do:           *)
(* TLServerCloseStreamKM and TLStreamClose count each other.               *)
THEOREM NodeLives == Spec => []OpenNodeLives
<1>1. IInv => OpenNodeLives
  <2> SUFFICES ASSUME IInv, NEW t \in Threads, pc[t] \in Inside
               PROVE  /\ myNode[t] = psHead /\ node[psHead].live /\ node[psHead].stream
                      /\ t # Creator => desc[myDesc[t]].live /\ desc[myDesc[t]].uiRefCount > 0
    BY DEF OpenNodeLives
  <2>1. CASE t = Creator
    BY <2>1 DEF IInv, PlacesOK, InsidersPoint, HeadCounts, Inside
  <2>2. CASE t \in Writers
    <3>1. pc[t] \in Open
      BY <2>2 DEF IInv, PlacesOK, Inside, Open
    <3>2. WriterRefs # 0 /\ WriterRefs \in Nat
      BY <2>2, <3>1, WriterRefsFacts
    <3> QED
      BY <2>2, <3>1, <3>2, NodesAssumption DEF IInv, InsidersPoint, HeadCounts, Clients
  <2>3. CASE t \in Readers
    <3>1. pc[t] = "in"
      BY <2>3 DEF IInv, PlacesOK, Inside
    <3> QED
      BY <2>3, <3>1, NodesAssumption DEF IInv, InsidersPoint, HeadCounts, Clients, Open
  <2> QED
    BY <2>1, <2>2, <2>3 DEF Threads, Clients
<1> QED
  BY <1>1, Invariant, PTL

(* When everybody has left, the node, the stream and the descriptors are   *)
(* freed: no order of closing leaves one behind.                           *)
THEOREM NothingRemains == Spec => []NothingLeft
<1>1. IInv => NothingLeft
  <2> SUFFICES ASSUME IInv, \A t \in Threads : pc[t] = "out"
               PROVE  psHead = None /\ (\A n \in Nodes : node[n] = NoNode) /\ \A d \in Descs : ~desc[d].live
    BY DEF NothingLeft
  <2>1. CreatorRef = 0 /\ WriterRefs = 0
    BY WriterRefsFacts DEF CreatorRef, Open, Threads, Clients
  <2>2. psHead = None
    <3>1. SUFFICES ASSUME psHead # None PROVE FALSE
      OBVIOUS
    <3>2. node[psHead].uiWRefCount = 0 /\ node[psHead].psWDesc = None
      BY <2>1, <3>1 DEF IInv, HeadCounts
    <3>3. node[psHead].psRDesc = None
      BY <3>1 DEF IInv, HeadCounts, Threads, Clients
    <3> QED
      BY <3>1, <3>2, <3>3 DEF IInv, HeadCounts, MayRemove
  <2>3. \A n \in Nodes : n # psHead
    BY <2>2, NodesAssumption
  <2> QED
    BY <2>2, <2>3 DEF IInv, UnlistedNodes, Descriptors, Leaving
<1> QED
  BY <1>1, Invariant, PTL
=============================================================================
