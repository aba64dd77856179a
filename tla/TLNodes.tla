------------------------------ MODULE TLNodes -------------------------------
(***************************************************************************)
(* The life of a stream of the transport layer (server/common/tlserver.c,  *)
(* tlintern.c and the ends of tlstream.c): it is created by a connection,  *)
(* opened and closed by clients that write to it and by one that reads it, *)
(* and removed by whoever goes last.  The node in the list of streams, the *)
(* stream and the descriptors of clients are separate allocations.  When   *)
(* its first writer comes and its last one goes the stream's notification  *)
(* stream, "tlctrl", gets a packet, part of the time under the global      *)
(* lock; tlctrl drops its oldest packets, and waits for its own reader     *)
(* before it does.                                                         *)
(***************************************************************************)
EXTENDS Integers, FiniteSets

CONSTANTS
  Writers,     \* clients that open the stream with OPEN_WO
  Readers,     \* clients that open it for reading
  Creator,     \* the connection that creates it
  None,        \* no thread, no node, no descriptor
  Nodes,       \* places for a node and its stream
  Descs,       \* places for descriptors
  CtrlRoom     \* packets tlctrl holds

ASSUME NodesAssumption ==
  /\ IsFiniteSet(Writers)
  /\ Writers \cap Readers = {} /\ Creator \notin Writers \cup Readers
  /\ None \notin Writers \cup Readers \cup {Creator} \cup Nodes \cup Descs
  /\ CtrlRoom \in Nat \ {0}

Clients == Writers \cup Readers
Threads == Clients \cup {Creator}

VARIABLES
  hTLGDLock,      \* the holder of TL_GLOBAL_DATA.hTLGDLock
  psHead,         \* the node the list has for the stream's name, if any
  node,           \* TL_SNODE and the TL_STREAM it points to
  desc,           \* TL_STREAM_DESC
  pc, myNode, myDesc,   \* a thread: where it is, and the pointers it holds
  freedTwice,     \* history: a descriptor was freed a second time
  \* the stream tlctrl: its packets, ui32Pending and bReadPending, and what
  \* its reader is doing
  ctrlCount, ctrlPending, ctrlReadPending, ctrlReader

tl == <<hTLGDLock, psHead, node, desc, freedTwice>>
local == <<pc, myNode, myDesc>>
ctrl == <<ctrlCount, ctrlPending, ctrlReadPending, ctrlReader>>
vars == <<tl, local, ctrl>>

NoNode == [live |-> FALSE, stream |-> FALSE, notif |-> FALSE, uiWRefCount |-> 0,
           psRDesc |-> None, psWDesc |-> None]
NoDesc == [live |-> FALSE, uiRefCount |-> 0]

Init ==
  /\ hTLGDLock = None /\ psHead = None
  /\ node = [n \in Nodes |-> NoNode]
  /\ desc = [d \in Descs |-> NoDesc]
  /\ pc = [t \in Threads |-> "out"]
  /\ myNode = [t \in Threads |-> None]
  /\ myDesc = [t \in Threads |-> None]
  /\ freedTwice = FALSE
  /\ ctrlCount = 0 /\ ctrlPending = None /\ ctrlReadPending = FALSE /\ ctrlReader = "closed"

Free == hTLGDLock = None
Goto(t, stage) == pc' = [pc EXCEPT ![t] = stage]

(* Memory is given out again only when no thread has a pointer to it left; *)
(* which of the free places is taken makes no difference.                  *)
NewNodes == {n \in Nodes : node[n] = NoNode /\ \A t \in Threads : myNode[t] # n}
NewDescs == {d \in Descs : ~desc[d].live /\ \A t \in Threads : myDesc[t] # d}
NewNode == CHOOSE n \in NewNodes : TRUE
NewDesc == CHOOSE d \in NewDescs : TRUE

-----------------------------------------------------------------------------
(* The connection: TLStreamCreate and TLStreamSetNotifStream after it. *)

TLStreamCreate ==
  /\ pc[Creator] = "out" /\ Free
  /\ psHead = None
  /\ NewNodes # {}
  /\ psHead' = NewNode
  /\ node' = [node EXCEPT ![NewNode] = [NoNode EXCEPT !.live = TRUE, !.stream = TRUE,
                                                      !.uiWRefCount = 1]]
  /\ myNode' = [myNode EXCEPT ![Creator] = NewNode]
  /\ Goto(Creator, "created")
  /\ UNCHANGED <<hTLGDLock, desc, freedTwice, myDesc, ctrl>>

TLStreamSetNotifStream ==
  /\ pc[Creator] = "created"
  /\ node' = [node EXCEPT ![myNode[Creator]].notif = TRUE]
  /\ Goto(Creator, "in")
  /\ UNCHANGED <<hTLGDLock, psHead, desc, freedTwice, myNode, myDesc, ctrl>>

(* RemoveAndFreeStreamNode; the stream itself is freed after the lock is   *)
(* dropped, by the thread that removed the node.                           *)
Removed(nd) == [nd EXCEPT !.live = FALSE, !.notif = FALSE]

(* TLStreamClose takes its reference away.  The last one removes the       *)
(* stream unless a client has it open; with one reference left all writers *)
(* are thought to be gone.  The mutant does not look at the clients.  (The *)
(* wait for an empty stream is for TL_FLAG_FORCE_FLUSH, which no stream of *)
(* the driver is created with.)                                            *)
MayRemove_Anyway(nd) == nd.uiWRefCount = 0
MayRemove(nd) == nd.uiWRefCount = 0 /\ nd.psRDesc = None /\ nd.psWDesc = None

TLStreamClose ==
  /\ pc[Creator] = "in" /\ Free
  /\ LET n  == myNode[Creator]
         nd == [node[n] EXCEPT !.uiWRefCount = @ - 1]
     IN  \/ /\ nd.uiWRefCount = 1 /\ nd.notif
            /\ node' = [node EXCEPT ![n] = nd]
            /\ hTLGDLock' = Creator
            /\ Goto(Creator, "markClose")
            /\ UNCHANGED <<psHead, myNode>>
         \/ /\ MayRemove(nd)
            /\ node' = [node EXCEPT ![n] = Removed(nd)]
            /\ psHead' = None
            /\ Goto(Creator, "destroy")
            /\ UNCHANGED <<hTLGDLock, myNode>>
         \/ /\ ~MayRemove(nd) /\ ~(nd.uiWRefCount = 1 /\ nd.notif)
            /\ node' = [node EXCEPT ![n] = nd]
            /\ myNode' = [myNode EXCEPT ![Creator] = None]
            /\ Goto(Creator, "out")
            /\ UNCHANGED <<hTLGDLock, psHead>>
  /\ UNCHANGED <<desc, freedTwice, myDesc, ctrl>>

-----------------------------------------------------------------------------
(* Clients open the stream: TLServerOpenStreamKM.  It cannot fail once it  *)
(* has linked the descriptor: the import handle it asks for then is denied *)
(* for suballocated memory only (devicemem.c:2338), and a stream's buffer  *)
(* is from DevmemAllocateExportable (tlstream.c:179).                      *)

OpenForWriting(w) ==
  /\ pc[w] = "out" /\ Free /\ psHead # None
  /\ LET n == psHead
         shared == node[n].psWDesc
         mine == IF shared = None THEN NewDesc ELSE shared
     IN  /\ shared # None \/ NewDescs # {}
         /\ desc' = [desc EXCEPT ![mine] = [live |-> TRUE, uiRefCount |-> @.uiRefCount + 1]]
         /\ node' = [node EXCEPT ![n].psWDesc = mine, ![n].uiWRefCount = @ + 1]
         /\ myNode' = [myNode EXCEPT ![w] = n]
         /\ myDesc' = [myDesc EXCEPT ![w] = mine]
  /\ Goto(w, "opened")
  /\ UNCHANGED <<hTLGDLock, psHead, freedTwice, ctrl>>

(* The lock is gone when the writer looks whether it is the first.         *)
FirstWriter(w) ==
  /\ pc[w] = "opened"
  /\ Goto(w, IF node[myNode[w]].notif /\ node[myNode[w]].uiWRefCount = 2
               THEN "markOpen" ELSE "in")
  /\ UNCHANGED <<tl, myNode, myDesc, ctrl>>

(* One reader at a time: another gets ALREADY_OPEN. *)
OpenForReading(r) ==
  /\ pc[r] = "out" /\ Free /\ psHead # None
  /\ node[psHead].psRDesc = None
  /\ NewDescs # {}
  /\ desc' = [desc EXCEPT ![NewDesc] = [live |-> TRUE, uiRefCount |-> 1]]
  /\ node' = [node EXCEPT ![psHead].psRDesc = NewDesc]
  /\ myNode' = [myNode EXCEPT ![r] = psHead]
  /\ myDesc' = [myDesc EXCEPT ![r] = NewDesc]
  /\ Goto(r, "in")
  /\ UNCHANGED <<hTLGDLock, psHead, freedTwice, ctrl>>

(* TLServerReserveStreamKM, TLServerCommitStreamKM and TLServerWriteDataKM *)
(* use the stream between TLFindAndGetStreamNodeByDesc and                 *)
(* TLReturnStreamNode.  The mutant takes the reference of the descriptor   *)
(* only.                                                                   *)
Got_DescOnly(nd) == nd
Got(nd) == [nd EXCEPT !.uiWRefCount = @ + 1]
GetNode(w) ==
  /\ pc[w] = "in" /\ w \in Writers /\ Free
  /\ node' = [node EXCEPT ![myNode[w]] = Got(@)]
  /\ desc' = [desc EXCEPT ![myDesc[w]].uiRefCount = @ + 1]
  /\ Goto(w, "using")
  /\ UNCHANGED <<hTLGDLock, psHead, freedTwice, myNode, myDesc, ctrl>>

TLReturnStreamNode(w) ==
  /\ pc[w] = "using" /\ Free
  /\ node' = [node EXCEPT ![myNode[w]].uiWRefCount = @ - 1]
  /\ desc' = [desc EXCEPT ![myDesc[w]].uiRefCount = @ - 1]
  /\ Goto(w, "in")
  /\ UNCHANGED <<hTLGDLock, psHead, freedTwice, myNode, myDesc, ctrl>>

-----------------------------------------------------------------------------
(* Clients close it: TLServerCloseStreamKM. *)

(* The last writer beside the creator marks the stream closed, and then    *)
(* goes on with the lock held.                                             *)
LastWriterClose(w) ==
  /\ w \in Writers /\ pc[w] = "in" /\ Free
  /\ node[myNode[w]].uiWRefCount = 2 /\ node[myNode[w]].notif
  /\ hTLGDLock' = w
  /\ Goto(w, "markClose")
  /\ UNCHANGED <<psHead, node, desc, freedTwice, myNode, myDesc, ctrl>>

(* What a client that closes takes away from the node; left is what its    *)
(* descriptor's count becomes.  The mutant keeps a writer's reference.     *)
WithoutReader(nd) == [nd EXCEPT !.psRDesc = None]
WithoutWriter_Counted(nd, left) == [nd EXCEPT !.psWDesc = IF left = 0 THEN None ELSE @]
WithoutWriter(nd, left) ==
  [nd EXCEPT !.uiWRefCount = @ - 1, !.psWDesc = IF left = 0 THEN None ELSE @]

(* TLUnrefDescAndTryFreeStreamNode. *)
Unref(t) ==
  LET n == myNode[t]
      d == myDesc[t]
      left == desc[d].uiRefCount - 1
      nd == IF t \in Readers THEN WithoutReader(node[n]) ELSE WithoutWriter(node[n], left)
  IN
  /\ desc' = [desc EXCEPT ![d].uiRefCount = left]
  /\ \/ /\ MayRemove(nd)
        /\ node' = [node EXCEPT ![n] = Removed(nd)]
        /\ psHead' = None
        /\ Goto(t, "destroy")
     \/ /\ ~MayRemove(nd)
        /\ node' = [node EXCEPT ![n] = nd]
        /\ Goto(t, "freeDesc")
        /\ UNCHANGED psHead
  /\ UNCHANGED <<freedTwice, myNode, myDesc, ctrl>>

(* That the descriptor's node is in the list is looked up before the lock  *)
(* is taken, and is still so then: the node of an open descriptor stays    *)
(* (OpenNodeLives).                                                        *)
CloseStream(t) ==
  /\ t \in Clients /\ pc[t] = "in" /\ Free
  /\ ~(t \in Writers /\ node[myNode[t]].uiWRefCount = 2 /\ node[myNode[t]].notif)
  /\ Unref(t)
  /\ UNCHANGED hTLGDLock

UnrefMarked(w) ==
  /\ pc[w] = "unref"
  /\ Unref(w)
  /\ hTLGDLock' = None

(* TLStreamDestroy, by the thread that removed the node. *)
TLStreamDestroy(t) ==
  /\ pc[t] = "destroy"
  /\ node' = [node EXCEPT ![myNode[t]] = NoNode]
  /\ myNode' = [myNode EXCEPT ![t] = None]
  /\ Goto(t, IF t = Creator THEN "out" ELSE "freeDesc")
  /\ UNCHANGED <<hTLGDLock, psHead, desc, freedTwice, myDesc, ctrl>>

(* Without the lock: whoever finds the count at 0 frees the descriptor.    *)
(* What a freed one holds is anybody's guess.                              *)
FreeDesc(t) ==
  /\ pc[t] = "freeDesc"
  /\ LET d == myDesc[t] IN
     \/ /\ desc[d].live /\ desc[d].uiRefCount = 0
        /\ desc' = [desc EXCEPT ![d] = NoDesc]
        /\ UNCHANGED freedTwice
     \/ /\ desc[d].live /\ desc[d].uiRefCount # 0
        /\ UNCHANGED <<desc, freedTwice>>
     \/ /\ ~desc[d].live
        /\ freedTwice' \in {freedTwice, TRUE}
        /\ UNCHANGED desc
  /\ myNode' = [myNode EXCEPT ![t] = None]
  /\ myDesc' = [myDesc EXCEPT ![t] = None]
  /\ Goto(t, "out")
  /\ UNCHANGED <<hTLGDLock, psHead, node, ctrl>>

-----------------------------------------------------------------------------
(* The packets for tlctrl: _TLStreamMarkOC. *)

Marking == {"markOpen", "markClose"}
Marked(t) ==
  CASE pc[t] = "markOpen"  -> Goto(t, "in")
    [] pc[t] = "markClose" -> Goto(t, IF t = Creator THEN "out" ELSE "unref")

(* After its mark TLStreamClose drops the lock and is done. *)
Unlocked(t) == IF t = Creator THEN None ELSE hTLGDLock
Forgotten(t) == IF t = Creator THEN [myNode EXCEPT ![t] = None] ELSE myNode

(* Another packet is reserved at the moment: NOT_READY, which the caller   *)
(* ignores.                                                                *)
MarkLost(t) ==
  /\ pc[t] \in Marking
  /\ ctrlPending \notin {None, t}
  /\ Marked(t)
  /\ hTLGDLock' = Unlocked(t) /\ myNode' = Forgotten(t)
  /\ UNCHANGED <<psHead, node, desc, freedTwice, myDesc, ctrl>>

MarkReserve(t) ==
  /\ pc[t] \in Marking
  /\ ctrlPending = None
  /\ ctrlPending' = t
  /\ UNCHANGED <<tl, local, ctrlCount, ctrlReadPending, ctrlReader>>

(* There is room, or the oldest packet is dropped, which waits for the     *)
(* reader of tlctrl to release what it holds.  The mutant waits for it to  *)
(* close tlctrl.                                                           *)
MayDrop_NoReader == ctrlReader = "closed"
MayDrop == ~ctrlReadPending
MarkCommit(t) ==
  /\ pc[t] \in Marking
  /\ ctrlPending = t
  /\ \/ ctrlCount < CtrlRoom /\ ctrlCount' = ctrlCount + 1
     \/ ctrlCount = CtrlRoom /\ MayDrop /\ UNCHANGED ctrlCount
  /\ ctrlPending' = None
  /\ Marked(t)
  /\ hTLGDLock' = Unlocked(t) /\ myNode' = Forgotten(t)
  /\ UNCHANGED <<psHead, node, desc, freedTwice, myDesc, ctrlReadPending, ctrlReader>>

(* The reader of tlctrl acquires and releases without the global lock, and *)
(* needs it to open tlctrl (again).  One that closes with nothing held     *)
(* changes nothing here.                                                   *)
CtrlOpen ==
  /\ ctrlReader = "closed" /\ Free
  /\ ctrlReader' = "open"
  /\ UNCHANGED <<tl, local, ctrlCount, ctrlPending, ctrlReadPending>>

CtrlAcquire ==
  /\ ctrlReader = "open" /\ ctrlCount > 0
  /\ ctrlReader' = "holding" /\ ctrlReadPending' = TRUE
  /\ UNCHANGED <<tl, local, ctrlCount, ctrlPending>>

CtrlRelease(n) ==
  /\ ctrlReader = "holding"
  /\ n \in 1 .. ctrlCount
  /\ ctrlCount' = ctrlCount - n
  /\ ctrlReader' = "open" /\ ctrlReadPending' = FALSE
  /\ UNCHANGED <<tl, local, ctrlPending>>

(* The process ends with packets acquired: its descriptor is closed, and   *)
(* nobody takes bReadPending back.                                         *)
CtrlDie ==
  /\ ctrlReader = "holding" /\ Free
  /\ ctrlReader' = "closed"
  /\ UNCHANGED <<tl, local, ctrlCount, ctrlPending, ctrlReadPending>>

-----------------------------------------------------------------------------
Proceed(t) ==
  \/ FirstWriter(t) \/ TLReturnStreamNode(t) \/ UnrefMarked(t)
  \/ TLStreamDestroy(t) \/ FreeDesc(t)
  \/ MarkLost(t) \/ MarkReserve(t) \/ MarkCommit(t)

Next ==
  \/ TLStreamCreate
  \/ TLStreamSetNotifStream \/ TLStreamClose
  \/ \E w \in Writers : \/ OpenForWriting(w) \/ GetNode(w) \/ LastWriterClose(w)
  \/ \E r \in Readers : OpenForReading(r)
  \/ \E t \in Clients : CloseStream(t)
  \/ \E t \in Threads : Proceed(t)
  \/ CtrlOpen \/ CtrlAcquire \/ CtrlDie
  \/ \E n \in 1 .. CtrlRoom : CtrlRelease(n)

Spec == Init /\ [][Next]_vars

-----------------------------------------------------------------------------
(* Properties. *)

TypeOK ==
  /\ hTLGDLock \in Threads \cup {None} /\ psHead \in Nodes \cup {None}
  /\ node \in [Nodes -> [live : BOOLEAN, stream : BOOLEAN, notif : BOOLEAN,
                         uiWRefCount : Nat, psRDesc : Descs \cup {None},
                         psWDesc : Descs \cup {None}]]
  /\ desc \in [Descs -> [live : BOOLEAN, uiRefCount : Nat]]
  /\ pc \in [Threads -> {"out", "created", "in", "opened", "markOpen", "using",
                         "markClose", "unref", "destroy", "freeDesc"}]
  /\ myNode \in [Threads -> Nodes \cup {None}]
  /\ myDesc \in [Threads -> Descs \cup {None}]
  /\ freedTwice \in BOOLEAN
  /\ ctrlCount \in 0 .. CtrlRoom /\ ctrlPending \in Threads \cup {None}
  /\ ctrlReadPending \in BOOLEAN /\ ctrlReader \in {"closed", "open", "holding"}

(* Threads that go on to use their node, stream and descriptor. *)
Inside == {"created", "in", "opened", "markOpen", "using", "unref"}

(* "Since the descriptor is valid, the stream should not have been made    *)
(* NULL" (TLServerCloseStreamKM): whoever has the stream open finds its    *)
(* node, listed, its stream and its descriptor, whoever closes meanwhile.  *)
OpenNodeLives ==
  \A t \in Threads :
    pc[t] \in Inside =>
      /\ myNode[t] = psHead /\ node[psHead].live /\ node[psHead].stream
      /\ t # Creator => desc[myDesc[t]].live /\ desc[myDesc[t]].uiRefCount > 0

(* When everybody has left, nothing is left: whoever came last removed the *)
(* node, the stream and the descriptors.                                   *)
NothingLeft ==
  (\A t \in Threads : pc[t] = "out") =>
    /\ psHead = None
    /\ \A n \in Nodes : node[n] = NoNode
    /\ \A d \in Descs : ~desc[d].live

(* "Free the descriptor if ref count reaches 0": once. *)
DescFreedOnce == ~freedTwice

(* The threads are scheduled; the reader of tlctrl releases what it        *)
(* acquired.                                                               *)
Fairness ==
  /\ \A t \in Threads : WF_vars(Proceed(t))
  /\ WF_vars(\E n \in 1 .. CtrlRoom : CtrlRelease(n))
FairSpec == Spec /\ Fairness

(* A read of tlctrl is pending that nobody holds packets of.               *)
Orphaned == ctrlReadPending /\ ctrlReader # "holding"

(* The global lock is always given back, so that streams can be created,   *)
(* opened and closed, whatever the reader of tlctrl is doing.  It is not   *)
(* when the reader died while it held packets: a writer that has to drop   *)
(* some waits for it under the lock, which another reader needs to open.   *)
LockReturned == hTLGDLock # None ~> hTLGDLock = None \/ Orphaned
=============================================================================
