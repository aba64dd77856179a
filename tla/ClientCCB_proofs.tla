--------------------------- MODULE ClientCCB_proofs ---------------------------
(***************************************************************************)
(* Proofs about ClientCCB for rings of any size that grow any number of    *)
(* times: type correctness, room for a PADDING header at the write offset, *)
(* at most one grow per call, the command offset handed to the firmware    *)
(* for workload estimation; then the contents of the ring: unread commands *)
(* stay intact and in a chain, and the ring implements CommandQueue; last, *)
(* over these invariants, the watchdog's stall test of StallCheck.         *)
(***************************************************************************)
EXTENDS StallCheck, SequenceTheorems, TLAPS

(* The remainder lies in the ring. *)
LEMMA ModBounds ==
  ASSUME NEW s \in Nat, s > 0, NEW a \in Int
  PROVE  a % s \in 0 .. s - 1
  OBVIOUS

(* An offset inside the ring is its own remainder. *)
LEMMA ModSmall ==
  ASSUME NEW s \in Nat, s > 0, NEW a \in Int, 0 <= a, a < s
  PROVE  a % s = a
  OBVIOUS

(* A lap more changes nothing.                                             *)
LEMMA ModShift ==
  ASSUME NEW s \in Nat, s > 0, NEW a \in Int, 0 <= a, a < s
  PROVE  (a + s) % s = a
  OBVIOUS

(* Offsets and sizes are natural numbers, and no ring is empty. *)
LEMMA OffsetFacts ==
  /\ Offsets \subseteq Nat /\ 0 \in Offsets
  /\ \A s \in Sizes : /\ s \in Nat /\ s > Pad /\ s > 1
                      /\ 0 .. s - 1 \subseteq Offsets
                      /\ s < VirtualAllocSize => s + s \in Sizes
  /\ Pad \in Nat /\ Pad > 0
  /\ \A n \in CmdSizes : n \in Nat /\ n >= Pad
  BY SizesAssumption, CommandsAssumption DEF Offsets

(* One step of GET_CCB_SPACE: the free space is less than the ring. *)
LEMMA SpaceBound ==
  ASSUME NEW w \in Int, NEW r \in Int, NEW s \in Nat, s > 0
  PROVE  CCBSpace(w, r, s) \in 0 .. s - 1
  BY ModBounds DEF CCBSpace

-----------------------------------------------------------------------------
(* What is known of a call of RGXAcquireCCB at each of its places. *)

(* A call under way is for a command the ring can hold. *)
CallSized == pc # "idle" => cmdSize \in CmdSizes /\ cmdSize + Pad + 1 <= Size

(* The loop is entered at most twice. *)
TurnsLeft == pc = "check" => retryCount \in 1 .. 2

(* Only the first turn of the loop gets to the grow. *)
GrowPath ==
  pc \in {"growTest", "lockGrow", "grow"} =>
    Growable /\ Size < VirtualAllocSize /\ ~Fits /\ retryCount = 1

(* The second turn finds the ring grown, and the command fits. *)
SecondTurnFits == pc = "check" /\ retryCount = 1 => Fits

(* A command that goes to offset 0 ends before the write offset it leaves. *)
WrapEndsBefore ==
  pc \in {"acquired", "written"} /\ ~Fits => cmdSize < HostWriteOffset

CallInv ==
  /\ CallSized
  /\ TurnsLeft
  /\ GrowPath
  /\ SecondTurnFits
  /\ WrapEndsBefore
  /\ RoomForPadding

IInv == TypeOK /\ CallInv

-----------------------------------------------------------------------------
(* The invariant holds at creation. *)
LEMMA InitIInv == Init => IInv
  <1> SUFFICES ASSUME Init PROVE IInv
    OBVIOUS
  <1>1. InitSize \in Sizes /\ InitSize \in Nat /\ InitSize > Pad /\ 0 \in Offsets
        /\ InitSize - 1 \in {s - 1 : s \in Sizes}
    BY SizesAssumption, OffsetFacts
  <1>2. 0 \in Ids /\ Stale \in Cell /\ 0 \in 0 .. ByteCountMod - 1
    BY CommandsAssumption DEF Ids, Stale, Cell
  <1>3. TypeOK
    <2>1. checksSpace \in BOOLEAN
      BY Zenon DEF Init
    <2> QED
      BY <1>1, <1>2, <2>1, OffsetFacts DEF Init, TypeOK
  <1>4. CallInv
    BY <1>1, OffsetFacts DEF Init, CallInv, CallSized, TurnsLeft, GrowPath,
      SecondTurnFits, WrapEndsBefore, RoomForPadding
  <1> QED
    BY <1>3, <1>4 DEF IInv

(* The local facts about the values the actions write. *)
LEMMA CellFacts ==
  ASSUME TypeOK
  PROVE  /\ Stale \in Cell
         /\ \A n \in Nat : Header(nextId, n) \in Cell /\ Padding(n) \in Cell
         /\ Body(nextId) \in Cell
         /\ (nextId + 1) % NumIds \in Ids
         /\ \A o \in Offsets : mem[o] \in Cell
  BY ModBounds, CommandsAssumption DEF TypeOK, Cell, Ids, Stale, Header, Body, Padding

(* Where a release puts its command and the write offset. *)
LEMMA ReleasePlace ==
  ASSUME IInv, pc = "written"
  PROVE  LET start == IF ~Fits THEN CCBOffset(HostWriteOffset, Remain, Size)
                               ELSE HostWriteOffset
             end == CCBOffset(start, cmdSize, Size)
         IN /\ start = (IF Fits THEN HostWriteOffset ELSE 0)
            /\ end = start + cmdSize
            /\ end + Pad <= Size
            /\ start \in Offsets /\ end \in 0 .. Size - 1
  <1>1. /\ Size \in Nat /\ Size > 0 /\ HostWriteOffset \in 0 .. Size - 1
        /\ cmdSize \in Nat /\ cmdSize + Pad + 1 <= Size /\ Pad \in Nat /\ Pad > 0
        /\ 0 .. Size - 1 \subseteq Offsets
    BY OffsetFacts DEF IInv, TypeOK, CallInv, CallSized
  <1>2. Size % Size = 0
    BY <1>1
  <1>3. CCBOffset(HostWriteOffset, Remain, Size) = 0
    BY <1>1, <1>2 DEF CCBOffset, Remain
  <1>4. CASE Fits
    <2>1. (HostWriteOffset + cmdSize) % Size = HostWriteOffset + cmdSize
      BY <1>1, <1>4, ModSmall DEF Fits
    <2> QED
      BY <1>1, <1>4, <2>1 DEF CCBOffset, Fits
  <1>5. CASE ~Fits
    <2>1. (0 + cmdSize) % Size = cmdSize
      BY <1>1, ModSmall
    <2> QED
      BY <1>1, <1>3, <1>5, <2>1 DEF CCBOffset
  <1> QED
    BY <1>4, <1>5

(* TypeOK by owner: the ring on the host, what the firmware shares and     *)
(* learns, the call under way, the history.                                *)
RingType ==
  /\ HostWriteOffset \in 0 .. Size - 1
  /\ Size \in Sizes
  /\ ByteCount \in 0 .. ByteCountMod - 1
  /\ growLock \in {"free", "host", "watchdog"}
FwType ==
  /\ ReadOffset \in Offsets
  /\ kicks \in Seq([CWoffUpdate : Offsets, CWrapMaskUpdate : {s - 1 : s \in Sizes}])
  /\ fwWriteOffset \in Offsets
  /\ fwWrapMask \in {s - 1 : s \in Sizes}
MemType == mem \in [Offsets -> Cell]
CallType ==
  /\ pc \in {"idle", "space", "check", "growTest", "lockGrow", "grow", "retry",
             "acquired", "written", "released"}
  /\ cmdSize \in CmdSizes \cup {0}
  /\ retryCount \in 0 .. 2
  /\ buf \in Offsets
  /\ checksSpace \in BOOLEAN
  /\ cmdOffset \in Offsets
HistoryType ==
  /\ pending \in Seq([id : Ids, off : Offsets, size : CmdSizes])
  /\ handed \in Int
  /\ nextId \in Ids
  /\ out \in Ids

LEMMA TypeSplit ==
  /\ TypeOK <=> RingType /\ FwType /\ MemType /\ CallType /\ HistoryType
  /\ TypeOK' <=> RingType' /\ FwType' /\ MemType' /\ CallType' /\ HistoryType'
  BY DEF TypeOK, RingType, FwType, MemType, CallType, HistoryType

(* Variables a step leaves alone stay in their ranges. *)
LEMMA TypeUnchanged ==
  ASSUME TypeOK
  PROVE  /\ UNCHANGED <<hostVars, growLock>> => RingType'
         /\ UNCHANGED fwVars => FwType'
         /\ UNCHANGED mem => MemType'
         /\ UNCHANGED <<pc, callVars, cmdOffset>> => CallType'
         /\ UNCHANGED history => HistoryType'
  BY TypeSplit DEF RingType, FwType, MemType, CallType, HistoryType,
    hostVars, fwVars, callVars, history

(* What the firmware reads at its read offset is a cell of the ring. *)
LEMMA CellNat ==
  ASSUME TypeOK
  PROVE  mem[ReadOffset].size \in Nat /\ mem[ReadOffset].id \in Ids
  BY DEF TypeOK, Cell

(* Wherever the firmware reads on, it stays in the ring it knows of. *)
LEMMA FwNextOffset ==
  ASSUME TypeOK, NEW n \in Nat
  PROVE  FwNext(n) \in Offsets
  <1>1. PICK s \in Sizes : fwWrapMask = s - 1
    BY DEF TypeOK
  <1>2. ReadOffset + n \in Int
    BY OffsetFacts DEF TypeOK
  <1>3. FwNext(n) = (ReadOffset + n) % s
    BY <1>1, OffsetFacts DEF FwNext, CCBOffset
  <1> QED
    BY <1>2, <1>3, ModBounds, OffsetFacts

(* A sequence without its first element. *)
LEMMA SubSeqType ==
  ASSUME NEW S, NEW q \in Seq(S)
  PROVE  SubSeq(q, 2, Len(q)) \in Seq(S)
  OBVIOUS

(* The first element of a sequence and the sequence after it. *)
LEMMA HeadTailType ==
  ASSUME NEW S, NEW q \in Seq(S), q # <<>>
  PROVE  Head(q) \in S /\ Tail(q) \in Seq(S)
  OBVIOUS

(* The values a release assigns. *)
LEMMA ReleaseValues ==
  ASSUME IInv, ReleaseCCB
  PROVE  LET start == IF Fits THEN HostWriteOffset ELSE 0
             end == start + cmdSize
         IN /\ start \in Offsets /\ end \in 0 .. Size - 1 /\ end + Pad <= Size
            /\ HostWriteOffset' = end
            /\ ByteCount' \in 0 .. ByteCountMod - 1
            /\ growLock' = growLock /\ Size' = Size /\ pc' = "released"
            /\ cmdOffset' = IF HostWriteOffset < end THEN HostWriteOffset ELSE 0
            /\ cmdOffset' \in Offsets
            /\ UNCHANGED <<callVars, handed, out>>
            /\ nextId' \in Ids
            /\ pending' = Append(pending, [id |-> nextId, off |-> start, size |-> cmdSize])
            /\ pending' \in Seq([id : Ids, off : Offsets, size : CmdSizes])
  <1>1. pc = "written" /\ TypeOK /\ CallInv
    BY DEF ReleaseCCB, IInv
  <1>2. cmdSize \in CmdSizes /\ cmdSize \in Nat /\ HostWriteOffset \in Offsets
    BY <1>1, OffsetFacts DEF CallInv, CallSized, TypeOK
  <1> DEFINE start == IF Fits THEN HostWriteOffset ELSE 0
             end == start + cmdSize
             n == ByteCount + (IF ~Fits THEN Remain ELSE 0) + cmdSize
  <1>3. /\ start = IF ~Fits THEN CCBOffset(HostWriteOffset, Remain, Size)
                            ELSE HostWriteOffset
        /\ end = CCBOffset(start, cmdSize, Size)
        /\ end + Pad <= Size /\ start \in Offsets /\ end \in 0 .. Size - 1
    BY <1>1, ReleasePlace
  <1>4. HostWriteOffset' = end
    BY <1>3 DEF ReleaseCCB
  <1>5. n % ByteCountMod \in 0 .. ByteCountMod - 1
    <2>1. n \in Int
      BY <1>1, <1>2, OffsetFacts DEF TypeOK, Remain
    <2> QED
      BY <2>1, ModBounds, CommandsAssumption
  <1>6. ByteCount' = n % ByteCountMod
    BY DEF ReleaseCCB
  <1>7. /\ cmdOffset' = IF HostWriteOffset < end THEN HostWriteOffset ELSE 0
        /\ cmdOffset' \in Offsets
    BY <1>2, <1>3, OffsetFacts DEF ReleaseCCB, CommandStart
  <1>8. /\ growLock' = growLock /\ Size' = Size /\ pc' = "released"
        /\ UNCHANGED <<callVars, handed, out>>
    BY DEF ReleaseCCB, callVars
  <1>9. nextId' \in Ids
    BY <1>1, CellFacts DEF ReleaseCCB
  <1>10. pending' = Append(pending, [id |-> nextId, off |-> start, size |-> cmdSize])
    BY <1>3 DEF ReleaseCCB
  <1>11. pending' \in Seq([id : Ids, off : Offsets, size : CmdSizes])
    BY <1>1, <1>2, <1>3, <1>10 DEF TypeOK
  <1> HIDE DEF start, end, n
  <1> QED
    BY <1>3, <1>4, <1>5, <1>6, <1>7, <1>8, <1>9, <1>10, <1>11 DEF start, end

(* A call that returns leaves its locals in their ranges. *)
LEMMA ReturnType == Return => CallType'
  <1>1. Return => checksSpace' \in BOOLEAN
    BY Zenon DEF Return
  <1> QED
    BY <1>1, OffsetFacts DEF Return, CallType

(* Every step keeps every variable in its range. *)
LEMMA TypeStep == IInv /\ [Next]_vars => TypeOK'
  <1> SUFFICES ASSUME IInv, [Next]_vars
               PROVE  RingType' /\ FwType' /\ MemType' /\ CallType' /\ HistoryType'
    BY TypeSplit
  <1>0. /\ TypeOK /\ CallInv
        /\ RingType /\ FwType /\ MemType /\ CallType /\ HistoryType
    BY TypeSplit DEF IInv
  <1>1. ASSUME NEW n \in CmdSizes, AcquireCCB(n)
        PROVE  RingType' /\ FwType' /\ MemType' /\ CallType' /\ HistoryType'
    <2>1. /\ UNCHANGED <<hostVars, growLock>>
          /\ UNCHANGED fwVars
          /\ UNCHANGED mem
          /\ UNCHANGED history
      BY <1>1 DEF AcquireCCB, fwVars, hostVars, callVars, history
    <2>2. RingType' /\ FwType' /\ MemType' /\ HistoryType'
      BY <1>0, <2>1, TypeUnchanged
    <2>3. CallType'
      BY <1>0, <1>1, OffsetFacts DEF AcquireCCB, Enter, Retries, CallType, callVars
    <2> QED
      BY <2>2, <2>3
  <1>2a. CASE CheckSpace
    <2>1. /\ UNCHANGED <<hostVars, growLock>>
          /\ UNCHANGED fwVars
          /\ UNCHANGED mem
          /\ UNCHANGED history
      BY <1>2a DEF CheckSpace, Enter, fwVars, hostVars, callVars, history
    <2>2. RingType' /\ FwType' /\ MemType' /\ HistoryType'
      BY <1>0, <2>1, TypeUnchanged
    <2>3. CallType'
      BY <1>0, <1>2a DEF CheckSpace, Enter, Retries, CallType, callVars
    <2> QED
      BY <2>2, <2>3
  <1>2. CASE TryContiguous
    <2>1. /\ UNCHANGED <<hostVars, growLock>>
          /\ UNCHANGED fwVars
          /\ UNCHANGED mem
          /\ UNCHANGED history
      BY <1>2 DEF TryContiguous, fwVars, hostVars, callVars, history
    <2>2. RingType' /\ FwType' /\ MemType' /\ HistoryType'
      BY <1>0, <2>1, TypeUnchanged
    <2>3. CallType'
      BY <1>0, <1>2, OffsetFacts
        DEF TryContiguous, CallInv, TurnsLeft, CallType, RingType, callVars
    <2> QED
      BY <2>2, <2>3
  <1>3. CASE TryWrap
    <2>1. /\ UNCHANGED <<hostVars, growLock>>
          /\ UNCHANGED fwVars
          /\ UNCHANGED history
      BY <1>3 DEF TryWrap, fwVars, hostVars, callVars, history
    <2>2. RingType' /\ FwType' /\ HistoryType'
      BY <1>0, <2>1, TypeUnchanged
    <2>3. MemType'
      <3>1. Remain - Pad \in Nat
        BY <1>0, OffsetFacts DEF CallInv, RoomForPadding, Remain, RingType
      <3>2. Padding(Remain - Pad) \in Cell
        BY <1>0, <3>1, CellFacts
      <3> QED
        BY <1>0, <1>3, <3>2 DEF TryWrap, MemType
    <2>4. CallType'
      BY <1>0, <1>3, OffsetFacts DEF TryWrap, CallInv, TurnsLeft, CallType, callVars
    <2> QED
      BY <2>2, <2>3, <2>4
  <1>4. CASE GrowTest
    <2>1. /\ UNCHANGED <<hostVars, growLock>>
          /\ UNCHANGED fwVars
          /\ UNCHANGED mem
          /\ UNCHANGED history
      BY <1>4 DEF GrowTest, fwVars, hostVars, callVars, history
    <2>2. RingType' /\ FwType' /\ MemType' /\ HistoryType'
      BY <1>0, <2>1, TypeUnchanged
    <2>3. CallType'
      BY <1>0, <1>4, OffsetFacts DEF GrowTest, CallType, callVars
    <2> QED
      BY <2>2, <2>3
  <1>5. CASE LockGrow
    <2>1. /\ UNCHANGED fwVars
          /\ UNCHANGED mem
          /\ UNCHANGED history
      BY <1>5 DEF LockGrow, fwVars, hostVars, callVars, history
    <2>2. FwType' /\ MemType' /\ HistoryType'
      BY <1>0, <2>1, TypeUnchanged
    <2>3. RingType'
      BY <1>0, <1>5, OffsetFacts DEF LockGrow, RingType, hostVars
    <2>4. CallType'
      BY <1>0, <1>5, OffsetFacts DEF LockGrow, CallType, callVars
    <2> QED
      BY <2>2, <2>3, <2>4
  <1>6. CASE Grow
    <2>1. /\ UNCHANGED fwVars
          /\ UNCHANGED mem
          /\ UNCHANGED history
      BY <1>6 DEF Grow, fwVars, hostVars, callVars, history
    <2>2. FwType' /\ MemType' /\ HistoryType'
      BY <1>0, <2>1, TypeUnchanged
    <2>3. RingType'
      BY <1>0, <1>6, OffsetFacts DEF Grow, CallInv, GrowPath, RingType, hostVars
    <2>4. CallType'
      BY <1>0, <1>6, OffsetFacts DEF Grow, CallType, callVars
    <2> QED
      BY <2>2, <2>3, <2>4
  <1>7. CASE CallAgain
    <2>1. /\ UNCHANGED <<hostVars, growLock>>
          /\ UNCHANGED fwVars
          /\ UNCHANGED mem
          /\ UNCHANGED history
      BY <1>7 DEF CallAgain, fwVars, hostVars, callVars, history
    <2>2. RingType' /\ FwType' /\ MemType' /\ HistoryType'
      BY <1>0, <2>1, TypeUnchanged
    <2>3. CallType'
      BY <1>0, <1>7 DEF CallAgain, Enter, Retries, CallType, callVars
    <2> QED
      BY <2>2, <2>3
  <1>8. CASE GiveUp
    <2>1. /\ UNCHANGED <<hostVars, growLock>>
          /\ UNCHANGED fwVars
          /\ UNCHANGED mem
          /\ UNCHANGED history
      BY <1>8 DEF GiveUp, Return, fwVars, hostVars, callVars, history
    <2>2. RingType' /\ FwType' /\ MemType' /\ HistoryType'
      BY <1>0, <2>1, TypeUnchanged
    <2>3. CallType'
      BY <1>8, ReturnType DEF GiveUp
    <2> QED
      BY <2>2, <2>3
  <1>9. CASE WriteCommand
    <2>1. /\ UNCHANGED <<hostVars, growLock>>
          /\ UNCHANGED fwVars
          /\ UNCHANGED history
      BY <1>9 DEF WriteCommand, fwVars, hostVars, callVars, history
    <2>2. RingType' /\ FwType' /\ HistoryType'
      BY <1>0, <2>1, TypeUnchanged
    <2>3. MemType'
      <3>1. cmdSize \in Nat
        BY <1>0, OffsetFacts DEF CallType
      <3> QED
        BY <1>0, <1>9, <3>1, CellFacts DEF WriteCommand, MemType
    <2>4. CallType'
      BY <1>0, <1>9, OffsetFacts DEF WriteCommand, CallType, callVars
    <2> QED
      BY <2>2, <2>3, <2>4
  <1>10. CASE Abandon
    <2>1. /\ UNCHANGED <<hostVars, growLock>>
          /\ UNCHANGED fwVars
          /\ UNCHANGED mem
          /\ UNCHANGED history
      BY <1>10 DEF Abandon, Return, fwVars, hostVars, callVars, history
    <2>2. RingType' /\ FwType' /\ MemType' /\ HistoryType'
      BY <1>0, <2>1, TypeUnchanged
    <2>3. CallType'
      BY <1>10, ReturnType DEF Abandon
    <2> QED
      BY <2>2, <2>3
  <1>11. CASE ReleaseCCB
    <2>1. /\ UNCHANGED fwVars
          /\ UNCHANGED mem
      BY <1>11 DEF ReleaseCCB, fwVars, hostVars, callVars, history
    <2>2. FwType' /\ MemType'
      BY <1>0, <2>1, TypeUnchanged
    <2>3. RingType'
      BY <1>0, <1>11, ReleaseValues, OffsetFacts DEF RingType, hostVars
    <2>4. CallType'
      BY <1>0, <1>11, ReleaseValues, OffsetFacts DEF CallType, callVars
    <2>5. HistoryType'
      BY <1>0, <1>11, ReleaseValues DEF HistoryType
    <2> QED
      BY <2>2, <2>3, <2>4, <2>5
  <1>12. CASE Kick
    <2>1. /\ UNCHANGED <<hostVars, growLock>>
          /\ UNCHANGED mem
      BY <1>12 DEF Kick, Return, fwVars, hostVars, callVars, history
    <2>2. RingType' /\ MemType'
      BY <1>0, <2>1, TypeUnchanged
    <2>3. FwType'
      <3>1. KickData \in [CWoffUpdate : Offsets, CWrapMaskUpdate : {s - 1 : s \in Sizes}]
        BY <1>0, OffsetFacts DEF KickData, RingType
      <3> QED
        BY <1>0, <1>12, <3>1 DEF Kick, FwType
    <2>4. CallType'
      BY <1>12, ReturnType DEF Kick
    <2>5. HistoryType'
      BY <1>0, <1>12, OffsetFacts DEF Kick, Return, HistoryType
    <2> QED
      BY <2>2, <2>3, <2>4, <2>5
  <1>13. CASE KickFail
    <2>1. /\ UNCHANGED <<hostVars, growLock>>
          /\ UNCHANGED fwVars
          /\ UNCHANGED mem
          /\ UNCHANGED history
      BY <1>13 DEF KickFail, Return, fwVars, hostVars, callVars, history
    <2>2. RingType' /\ FwType' /\ MemType' /\ HistoryType'
      BY <1>0, <2>1, TypeUnchanged
    <2>3. CallType'
      BY <1>13, ReturnType DEF KickFail
    <2> QED
      BY <2>2, <2>3
  <1>14. CASE FwTakeKick
    <2>1. /\ UNCHANGED <<hostVars, growLock>>
          /\ UNCHANGED mem
          /\ UNCHANGED <<pc, callVars, cmdOffset>>
          /\ UNCHANGED history
      BY <1>14 DEF FwTakeKick, fwVars, hostVars, callVars, history
    <2>2. RingType' /\ MemType' /\ CallType' /\ HistoryType'
      BY <1>0, <2>1, TypeUnchanged
    <2>3. FwType'
      <3>1. /\ Head(kicks) \in [CWoffUpdate : Offsets, CWrapMaskUpdate : {s - 1 : s \in Sizes}]
            /\ Tail(kicks) \in Seq([CWoffUpdate : Offsets, CWrapMaskUpdate : {s - 1 : s \in Sizes}])
        BY <1>0, <1>14, HeadTailType DEF FwTakeKick, FwType
      <3> QED
        BY <1>0, <1>14, <3>1 DEF FwTakeKick, FwType
    <2> QED
      BY <2>2, <2>3
  <1>15. CASE FwExecute
    <2>1. /\ UNCHANGED <<hostVars, growLock>>
          /\ UNCHANGED <<pc, callVars, cmdOffset>>
      BY <1>15 DEF FwExecute, fwVars, hostVars, callVars, history
    <2>2. RingType' /\ CallType'
      BY <1>0, <2>1, TypeUnchanged
    <2>3. FwType'
      BY <1>0, <1>15, FwNextOffset, CellNat DEF FwExecute, Consume, FwType
    <2>4. MemType'
      BY <1>0, <1>15, CellFacts DEF FwExecute, Consume, MemType
    <2>5. HistoryType'
      <3>1. mem[ReadOffset].id \in Ids
        BY <1>0, CellNat
      <3>2. SubSeq(pending, 2, Len(pending)) \in Seq([id : Ids, off : Offsets, size : CmdSizes])
        BY <1>0, SubSeqType DEF HistoryType
      <3> QED
        BY <1>0, <1>15, <3>1, <3>2 DEF FwExecute, HistoryType
    <2> QED
      BY <2>2, <2>3, <2>4, <2>5
  <1>16. CASE FwSkipPadding
    <2>1. /\ UNCHANGED <<hostVars, growLock>>
          /\ UNCHANGED <<pc, callVars, cmdOffset>>
          /\ UNCHANGED history
      BY <1>16 DEF FwSkipPadding, fwVars, hostVars, callVars, history
    <2>2. RingType' /\ CallType' /\ HistoryType'
      BY <1>0, <2>1, TypeUnchanged
    <2>3. FwType'
      BY <1>0, <1>16, FwNextOffset, CellNat, OffsetFacts DEF FwSkipPadding, Consume, FwType
    <2>4. MemType'
      BY <1>0, <1>16, CellFacts DEF FwSkipPadding, Consume, MemType
    <2> QED
      BY <2>2, <2>3, <2>4
  <1>17. CASE UNCHANGED vars
    BY <1>0, <1>17, TypeUnchanged DEF vars, hostVars, fwVars, callVars, history
  <1> QED
    BY <1>1, <1>2a, <1>2, <1>3, <1>4, <1>5, <1>6, <1>7, <1>8, <1>9, <1>10, <1>11, <1>12, <1>13, <1>14, <1>15, <1>16, <1>17 DEF Next, HostStep, FwStep

-----------------------------------------------------------------------------
(* A command that may wrap ends before the write offset it wraps from. *)
LEMMA WrapGap ==
  ASSUME TypeOK, cmdSize \in Nat, CanWrap
  PROVE  cmdSize < HostWriteOffset
  <1>1. /\ Size \in Nat /\ Size > 0 /\ HostWriteOffset \in Nat /\ ReadOffset \in Nat
    BY OffsetFacts DEF TypeOK
  <1>2. FreeSpace \in 0 .. Size - 1
    BY <1>1, SpaceBound DEF FreeSpace
  <1> QED
    BY <1>1, <1>2 DEF CanWrap, Enough, Remain

(* Every step keeps what is known of the call under way. *)
LEMMA CallStep == IInv /\ [Next]_vars => CallInv'
  <1> SUFFICES ASSUME IInv, [Next]_vars PROVE CallInv'
    OBVIOUS
  <1> USE DEF hostVars, fwVars, callVars, history
  <1>0. /\ TypeOK /\ CallInv
        /\ Size \in Nat /\ Size > Pad /\ HostWriteOffset \in 0 .. Size - 1
        /\ Pad \in Nat /\ Pad > 0
        /\ cmdSize \in Nat /\ retryCount \in 0 .. 2
        /\ \A m \in CmdSizes : m \in Nat
    BY OffsetFacts DEF IInv, TypeOK
  <1>1. ASSUME NEW n \in CmdSizes, AcquireCCB(n) PROVE CallInv'
    BY <1>0, <1>1 DEF AcquireCCB, Enter, TooBig, Retries, CallInv, CallSized, TurnsLeft, GrowPath, SecondTurnFits, WrapEndsBefore, RoomForPadding, Fits
  <1>2a. CASE CheckSpace
    BY <1>0, <1>2a DEF CheckSpace, Enter, Retries, Growable, CallInv, CallSized, TurnsLeft, GrowPath, SecondTurnFits, WrapEndsBefore, RoomForPadding, Fits
  <1>2. CASE TryContiguous
    BY <1>0, <1>2 DEF TryContiguous, Growable, CallInv, CallSized, TurnsLeft, GrowPath, SecondTurnFits, WrapEndsBefore, RoomForPadding, Fits
  <1>3. CASE TryWrap
    <2>1. retryCount = 2
      BY <1>0, <1>3 DEF TryWrap, CallInv, SecondTurnFits, TurnsLeft
    <2>2. CanWrap => cmdSize < HostWriteOffset
      BY <1>0, WrapGap
    <2> QED
      BY <1>0, <1>3, <2>1, <2>2 DEF TryWrap, Growable, CallInv, CallSized, TurnsLeft, GrowPath, SecondTurnFits, WrapEndsBefore, RoomForPadding, Fits
  <1>4. CASE GrowTest
    BY <1>0, <1>4 DEF GrowTest, Growable, CallInv, CallSized, TurnsLeft, GrowPath, SecondTurnFits, WrapEndsBefore, RoomForPadding, Fits
  <1>5. CASE LockGrow
    BY <1>0, <1>5 DEF LockGrow, Growable, CallInv, CallSized, TurnsLeft, GrowPath, SecondTurnFits, WrapEndsBefore, RoomForPadding, Fits
  <1>6. CASE Grow
    <2>1. CallSized /\ GrowPath /\ RoomForPadding
      BY <1>0 DEF CallInv
    <2>2. CASE Size' = Size + Size /\ pc' = "check"
      BY <1>0, <1>6, <2>1, <2>2 DEF Grow, CallInv, CallSized, TurnsLeft, GrowPath, SecondTurnFits, WrapEndsBefore, RoomForPadding, Fits
    <2>3. CASE Size' \in {Size, Size + Size} /\ pc' = "retry"
      BY <1>0, <1>6, <2>1, <2>3 DEF Grow, CallInv, CallSized, TurnsLeft, GrowPath, SecondTurnFits, WrapEndsBefore, RoomForPadding, Fits
    <2> QED
      BY <1>6, <2>2, <2>3 DEF Grow
  <1>7. CASE CallAgain
    BY <1>0, <1>7 DEF CallAgain, Enter, Retries, Growable, CallInv, CallSized, TurnsLeft, GrowPath, SecondTurnFits, WrapEndsBefore, RoomForPadding, Fits
  <1>8. CASE GiveUp
    BY <1>0, <1>8 DEF GiveUp, Return, Growable, CallInv, CallSized, TurnsLeft, GrowPath, SecondTurnFits, WrapEndsBefore, RoomForPadding, Fits
  <1>9. CASE WriteCommand
    BY <1>0, <1>9 DEF WriteCommand, Growable, CallInv, CallSized, TurnsLeft, GrowPath, SecondTurnFits, WrapEndsBefore, RoomForPadding, Fits
  <1>10. CASE Abandon
    BY <1>0, <1>10 DEF Abandon, Return, Growable, CallInv, CallSized, TurnsLeft, GrowPath, SecondTurnFits, WrapEndsBefore, RoomForPadding, Fits
  <1>11. CASE ReleaseCCB
    <2>1. /\ pc' = "released" /\ Size' = Size /\ cmdSize' = cmdSize
          /\ HostWriteOffset' + Pad <= Size
      BY <1>0, <1>11, ReleaseValues
    <2>2. CallSized
      BY <1>0 DEF CallInv
    <2>3. pc = "written"
      BY <1>11 DEF ReleaseCCB
    <2> QED
      BY <1>0, <2>1, <2>2, <2>3 DEF CallInv, CallSized, TurnsLeft, GrowPath, SecondTurnFits, WrapEndsBefore, RoomForPadding, Fits
  <1>12. CASE Kick
    BY <1>0, <1>12 DEF Kick, Return, Growable, CallInv, CallSized, TurnsLeft, GrowPath, SecondTurnFits, WrapEndsBefore, RoomForPadding, Fits
  <1>13. CASE KickFail
    BY <1>0, <1>13 DEF KickFail, Return, Growable, CallInv, CallSized, TurnsLeft, GrowPath, SecondTurnFits, WrapEndsBefore, RoomForPadding, Fits
  <1>14. CASE FwTakeKick
    BY <1>0, <1>14 DEF FwTakeKick, Growable, CallInv, CallSized, TurnsLeft, GrowPath, SecondTurnFits, WrapEndsBefore, RoomForPadding, Fits
  <1>15. CASE FwExecute
    BY <1>0, <1>15 DEF FwExecute, Growable, CallInv, CallSized, TurnsLeft, GrowPath, SecondTurnFits, WrapEndsBefore, RoomForPadding, Fits
  <1>16. CASE FwSkipPadding
    BY <1>0, <1>16 DEF FwSkipPadding, Growable, CallInv, CallSized, TurnsLeft, GrowPath, SecondTurnFits, WrapEndsBefore, RoomForPadding, Fits
  <1>17. CASE UNCHANGED vars
    BY <1>0, <1>17 DEF vars, Growable, CallInv, CallSized, TurnsLeft, GrowPath, SecondTurnFits, WrapEndsBefore, RoomForPadding, Fits
  <1> QED
    BY <1>1, <1>2a, <1>2, <1>3, <1>4, <1>5, <1>6, <1>7, <1>8, <1>9, <1>10, <1>11, <1>12, <1>13, <1>14, <1>15, <1>16, <1>17 DEF Next, HostStep, FwStep

(* The strengthened invariant holds in every reachable state. *)
LEMMA Invariant == Spec => []IInv
  <1>1. Init => IInv
    BY InitIInv
  <1>2. IInv /\ [Next]_vars => IInv'
    BY TypeStep, CallStep DEF IInv
  <1> QED
    BY <1>1, <1>2, PTL DEF Spec

(* Type correctness: every variable stays in its range, so no access of    *)
(* the ring is outside it and no size field goes below zero.               *)
THEOREM TypeCorrect == Spec => []TypeOK
  <1>1. IInv => TypeOK
    BY DEF IInv
  <1> QED
    BY <1>1, Invariant, PTL

(* There is always room for a PADDING header at the write offset, in a     *)
(* ring of any size that grew any number of times.                         *)
THEOREM PaddingHasRoom == Spec => []RoomForPadding
  <1>1. IInv => RoomForPadding
    BY DEF IInv, CallInv
  <1> QED
    BY <1>1, Invariant, PTL

(* PVR_ASSERT(ui32RetryCount != 0) never fails: the loop of RGXAcquireCCB  *)
(* gets to the grow on its first turn only.                                *)
THEOREM GrowsAtMostOnce == Spec => []GrowsOnce
  <1>1. IInv => GrowsOnce
    BY DEF IInv, CallInv, GrowPath, GrowsOnce
  <1> QED
    BY <1>1, Invariant, PTL

-----------------------------------------------------------------------------
(* A sequence without its first element ends as before. *)
LEMMA LastStays ==
  ASSUME NEW S, NEW q \in Seq(S), SubSeq(q, 2, Len(q)) # <<>>
  PROVE  LET r == SubSeq(q, 2, Len(q)) IN q # <<>> /\ r[Len(r)] = q[Len(q)]
  OBVIOUS

(* A step keeps the offset right that the caller derived. *)
LEMMA CmdOffsetStep == IInv /\ CmdOffsetRight /\ [Next]_vars => CmdOffsetRight'
  <1> SUFFICES ASSUME IInv, CmdOffsetRight, [Next]_vars, pc' = "released", pending' # <<>>
               PROVE  cmdOffset' = pending'[Len(pending')].off
    BY DEF CmdOffsetRight
  <1>0. TypeOK /\ CallInv
    BY DEF IInv
  <1>1. CASE ReleaseCCB
    <2> DEFINE start == IF Fits THEN HostWriteOffset ELSE 0
               end == start + cmdSize
               cmd == [id |-> nextId, off |-> start, size |-> cmdSize]
    <2>1. /\ cmdOffset' = IF HostWriteOffset < end THEN HostWriteOffset ELSE 0
          /\ pending' = Append(pending, cmd)
      BY <1>1, ReleaseValues
    <2>2. cmdSize \in Nat /\ cmdSize > 0 /\ HostWriteOffset \in Nat
      BY <1>0, <1>1, OffsetFacts DEF ReleaseCCB, CallInv, CallSized, TypeOK
    <2>3. ~Fits => cmdSize < HostWriteOffset
      BY <1>0, <1>1 DEF ReleaseCCB, CallInv, WrapEndsBefore
    <2>4. cmdOffset' = cmd.off
      BY <2>1, <2>2, <2>3
    <2>5. pending'[Len(pending')] = cmd
      BY <1>0, <2>1 DEF TypeOK
    <2> QED
      BY <2>4, <2>5
  <1>2. CASE FwExecute
    <2>1. /\ pc = "released" /\ cmdOffset' = cmdOffset
          /\ pending' = SubSeq(pending, 2, Len(pending))
      BY <1>2 DEF FwExecute
    <2>2. pending # <<>> /\ pending'[Len(pending')] = pending[Len(pending)]
      BY <1>0, <2>1, LastStays DEF TypeOK
    <2> QED
      BY <2>1, <2>2 DEF CmdOffsetRight
  <1>3. CASE FwTakeKick \/ FwSkipPadding \/ UNCHANGED vars
    BY <1>3 DEF FwTakeKick, FwSkipPadding, vars, history, CmdOffsetRight
  <1>4. ASSUME HostStep, ~ReleaseCCB PROVE FALSE
    BY <1>4 DEF HostStep, AcquireCCB, CheckSpace, Enter, TryContiguous, TryWrap, GrowTest, LockGrow, Grow,
      CallAgain, GiveUp, WriteCommand, Abandon, Kick, KickFail, Return
  <1> QED
    BY <1>1, <1>2, <1>3, <1>4 DEF Next, FwStep

(* The command offset that PVRSRVRGXKickTA3DKM derives from the write      *)
(* offset before and after the release is where the command lies, whatever *)
(* wrapped or grew and whatever the firmware consumed meanwhile.           *)
THEOREM CommandOffset == Spec => []CmdOffsetRight
  <1>1. Init => CmdOffsetRight
    BY DEF Init, CmdOffsetRight
  <1> QED
    BY <1>1, Invariant, CmdOffsetStep, PTL DEF Spec

-----------------------------------------------------------------------------
(* The contents of the ring.  Where a command ends, where the firmware     *)
(* comes to after the first n unread ones, and, with Lap, the offsets in   *)
(* the order in which the firmware will reach them.                        *)
End(i) == pending[i].off + pending[i].size
Position(n) == IF n = 0 THEN ReadOffset ELSE End(n)
Before(i) == IF i = 1 THEN ReadOffset ELSE End(i - 1)
Lap(o) == IF o < ReadOffset THEN o + Size ELSE o

(* Unread commands lie apart, in their order, between the read offset and  *)
(* the write offset.                                                       *)
Layout ==
  /\ ReadOffset < Size
  /\ \A i \in 1 .. Len(pending) :
       /\ End(i) + Pad <= Size
       /\ Lap(pending[i].off) + pending[i].size <= Lap(HostWriteOffset)
  /\ \A i, j \in 1 .. Len(pending) :
       i < j => Lap(pending[i].off) + pending[i].size <= Lap(pending[j].off)

(* What is acquired holds nothing unread, wherever the firmware has got    *)
(* to; a command that wraps leaves its PADDING header at the write offset. *)
SpaceReserved ==
  pc \in {"acquired", "written"} =>
    /\ Fits => /\ buf = HostWriteOffset
               /\ HostWriteOffset < ReadOffset => HostWriteOffset + cmdSize < ReadOffset
    /\ ~Fits => /\ buf = 0
                /\ cmdSize < ReadOffset /\ ReadOffset <= HostWriteOffset
                /\ mem[HostWriteOffset] = Padding(Remain - Pad)

(* A command that was written is there until it is released.               *)
CommandWritten ==
  pc = "written" =>
    /\ mem[buf] = Header(nextId, cmdSize)
    /\ \A o \in buf + 1 .. buf + cmdSize - 1 : mem[o] = Body(nextId)

(* A ring that grows has no unread command beyond the write offset: the    *)
(* firmware may move on after the test, but not to there.                  *)
GrowsStraight == pc \in {"lockGrow", "grow"} => ReadOffset <= HostWriteOffset

(* A kick with this write offset and mask covers n unread commands: they   *)
(* lie in the ring of that mask, and one that wrapped in the ring of today.*)
Covers(woff, mask, n) ==
  /\ woff = Position(n)
  /\ mask + 1 <= Size
  /\ \A i \in 1 .. n : /\ End(i) + Pad <= mask + 1
                       /\ pending[i].off < ReadOffset => mask + 1 = Size

(* known[0] commands are covered by the kick the firmware took last, and   *)
(* known[i] by the i-th of those on their way.                             *)
KicksCover(known) ==
  /\ Covers(fwWriteOffset, fwWrapMask, known[0])
  /\ \A i \in 1 .. Len(kicks) : Covers(kicks[i].CWoffUpdate, kicks[i].CWrapMaskUpdate, known[i])
  /\ \A i, j \in 0 .. Len(kicks) : i <= j => known[i] <= known[j]

HandedOver ==
  /\ handed \in 0 .. Len(pending)
  /\ \E known \in [0 .. Len(kicks) -> 0 .. handed] : KicksCover(known)

ContentsInv ==
  /\ UnreadIntact
  /\ Layout
  /\ SpaceReserved
  /\ CommandWritten
  /\ GrowsStraight
  /\ HandedOver

(* UnreadIntact in the words used here.                                    *)
Intact(i) ==
  /\ mem[pending[i].off] = Header(pending[i].id, pending[i].size)
  /\ \A o \in pending[i].off + 1 .. End(i) - 1 : mem[o] = Body(pending[i].id)

Chained ==
  /\ \A i \in 1 .. Len(pending) : Follows(pending[i].off, Before(i))
  /\ HostWriteOffset = Position(Len(pending))

LEMMA IntactParts ==
  TypeOK => (UnreadIntact <=> (\A i \in 1 .. Len(pending) : Intact(i)) /\ Chained)
  <1> SUFFICES ASSUME TypeOK
               PROVE  UnreadIntact <=> (\A i \in 1 .. Len(pending) : Intact(i)) /\ Chained
    OBVIOUS
  <1>1. pending = <<>> <=> Len(pending) = 0
    BY DEF TypeOK
  <1> QED
    BY <1>1 DEF UnreadIntact, Intact, Chained, Before, Position, End

(* A sequence without its first element, element by element.               *)
LEMMA WithoutFirst ==
  ASSUME NEW S, NEW q \in Seq(S), Len(q) >= 1
  PROVE  /\ Len(SubSeq(q, 2, Len(q))) = Len(q) - 1
         /\ \A i \in 1 .. Len(q) - 1 : SubSeq(q, 2, Len(q))[i] = q[i + 1]
<1> PICK n \in Nat : n = Len(q)
  OBVIOUS
<1>1. n >= 1 /\ \A i \in 2 .. n : q[i] \in S
  OBVIOUS
<1>2. /\ Len(SubSeq(q, 2, n)) = IF 2 <= n THEN n - 2 + 1 ELSE 0
      /\ \A i \in 1 .. n - 2 + 1 : SubSeq(q, 2, n)[i] = q[2 + i - 1]
  BY <1>1, SubSeqProperties
<1>3. Len(SubSeq(q, 2, n)) = n - 1
  BY <1>1, <1>2
<1>4. ASSUME NEW i \in 1 .. n - 1 PROVE SubSeq(q, 2, n)[i] = q[i + 1]
  <2>1. i \in 1 .. n - 2 + 1 /\ 2 + i - 1 = i + 1
    OBVIOUS
  <2> QED
    BY <1>2, <2>1
<1> QED
  BY <1>3, <1>4

(* The elements of a sequence.                                             *)
LEMMA ElementType ==
  ASSUME NEW S, NEW q \in Seq(S)
  PROVE  \A i \in 1 .. Len(q) : q[i] \in S
  OBVIOUS

(* The numbers the geometry is about.                                      *)
LEMMA RingNumbers ==
  ASSUME TypeOK
  PROVE  /\ ReadOffset \in Nat /\ ReadOffset \in Offsets
         /\ HostWriteOffset \in Nat /\ HostWriteOffset \in Offsets /\ HostWriteOffset < Size
         /\ Size \in Nat /\ Size > 1 /\ Pad \in Nat /\ Pad > 0
         /\ \A o \in Nat : o < Size => o \in Offsets
         /\ Len(pending) \in Nat
         /\ \A i \in 1 .. Len(pending) :
              /\ pending[i].off \in Nat /\ pending[i].size \in Nat /\ pending[i].size > 0
              /\ pending[i].id \in Ids /\ End(i) \in Nat
  <1>0. /\ pending \in Seq([id : Ids, off : Offsets, size : CmdSizes])
        /\ Size \in Sizes /\ HostWriteOffset \in 0 .. Size - 1 /\ ReadOffset \in Offsets
    BY DEF TypeOK
  <1>1. \A i \in 1 .. Len(pending) : pending[i] \in [id : Ids, off : Offsets, size : CmdSizes]
    BY <1>0, ElementType
  <1>2. /\ Size \in Nat /\ Size > Pad /\ Size > 1 /\ 0 .. Size - 1 \subseteq Offsets
        /\ Pad \in Nat /\ Pad > 0 /\ Offsets \subseteq Nat
    BY <1>0, OffsetFacts
  <1>3. \A o \in Nat : o < Size => o \in 0 .. Size - 1
    BY <1>2
  <1>4. \A o \in Nat : o < Size => o \in Offsets
    BY <1>2, <1>3
  <1>5. \A n \in CmdSizes : n \in Nat /\ n > 0
    BY OffsetFacts
  <1>6. \A i \in 1 .. Len(pending) :
              /\ pending[i].off \in Nat /\ pending[i].size \in Nat /\ pending[i].size > 0
              /\ pending[i].id \in Ids
    BY <1>1, <1>2, <1>5
  <1>7. \A i \in 1 .. Len(pending) : End(i) \in Nat
    BY <1>6 DEF End
  <1>8. Len(pending) \in Nat
    BY <1>0
  <1>9. HostWriteOffset \in Nat /\ HostWriteOffset < Size
    BY <1>0, <1>2
  <1> QED
    BY <1>0, <1>2, <1>4, <1>6, <1>7, <1>8, <1>9

(* The masks the firmware is told.                                         *)
LEMMA MaskNumbers ==
  ASSUME TypeOK
  PROVE  fwWrapMask \in Int /\ \A i \in 1 .. Len(kicks) : kicks[i].CWrapMaskUpdate \in Int
  <1>1. {s - 1 : s \in Sizes} \subseteq Int
    BY OffsetFacts
  <1>2. kicks \in Seq([CWoffUpdate : Offsets, CWrapMaskUpdate : {s - 1 : s \in Sizes}])
        /\ fwWrapMask \in {s - 1 : s \in Sizes}
    BY DEF TypeOK
  <1>3. \A i \in 1 .. Len(kicks) :
          kicks[i] \in [CWoffUpdate : Offsets, CWrapMaskUpdate : {s - 1 : s \in Sizes}]
    BY <1>2, ElementType
  <1> QED
    BY <1>1, <1>2, <1>3

(* n units from a hold nothing unread.                                     *)
Free(a, n) == IF ReadOffset <= HostWriteOffset
              THEN a >= HostWriteOffset \/ a + n <= ReadOffset
              ELSE a >= HostWriteOffset /\ a + n <= ReadOffset

(* In numbers: what lies between the offsets r and w of a ring of s units  *)
(* is apart from what does not.                                            *)
LEMMA ApartNumbers ==
  ASSUME NEW r \in Nat, NEW w \in Nat, NEW s \in Nat, r < s, w < s,
         NEW a \in Nat, NEW n \in Nat, NEW x \in Nat, NEW m \in Nat,
         (IF x < r THEN x + s ELSE x) + m <= (IF w < r THEN w + s ELSE w),
         IF r <= w THEN a >= w \/ a + n <= r ELSE a >= w /\ a + n <= r
  PROVE  x + m <= a \/ a + n <= x
<1>1. CASE r <= w
  <2>1. x >= r /\ x + m <= w
    BY <1>1
  <2> QED
    BY <1>1, <2>1
<1>2. CASE w < r
  <2>1. a >= w /\ a + n <= r
    BY <1>2
  <2>2. CASE x < r
    BY <1>2, <2>1, <2>2
  <2>3. CASE x >= r
    BY <2>1, <2>3
  <2> QED
    BY <2>2, <2>3
<1> QED
  BY <1>1, <1>2

(* ... no command, and no PADDING header that leads to one.                *)
LEMMA FreeHoldsNothing ==
  ASSUME TypeOK, Layout, Chained, NEW a \in Nat, NEW n \in Nat, Free(a, n)
  PROVE  \A i \in 1 .. Len(pending) :
           /\ \A o \in pending[i].off .. End(i) - 1 : o \notin a .. a + n - 1
           /\ pending[i].off # Before(i) => Before(i) \notin a .. a + n - 1
  <1>0. /\ ReadOffset \in Nat /\ HostWriteOffset \in Nat /\ Size \in Nat /\ Pad \in Nat /\ Pad > 0
        /\ HostWriteOffset < Size /\ ReadOffset < Size
        /\ \A i \in 1 .. Len(pending) :
              /\ pending[i].off \in Nat /\ pending[i].size \in Nat /\ pending[i].size > 0
              /\ End(i) + Pad <= Size
              /\ End(i) = pending[i].off + pending[i].size
              /\ Lap(pending[i].off) + pending[i].size <= Lap(HostWriteOffset)
              /\ pending[i].off # Before(i) => pending[i].off = 0
    BY RingNumbers DEF Layout, Chained, Follows, End
  <1> SUFFICES ASSUME NEW i \in 1 .. Len(pending)
               PROVE  /\ \A o \in pending[i].off .. End(i) - 1 : o \notin a .. a + n - 1
                      /\ pending[i].off # Before(i) => Before(i) \notin a .. a + n - 1
    OBVIOUS
  <1>1. \A o \in pending[i].off .. End(i) - 1 : o \notin a .. a + n - 1
    <2>1. PICK x \in Nat, m \in Nat : x = pending[i].off /\ m = pending[i].size
      BY <1>0
    <2>2. (IF x < ReadOffset THEN x + Size ELSE x) + m
             <= IF HostWriteOffset < ReadOffset THEN HostWriteOffset + Size ELSE HostWriteOffset
      BY <1>0, <2>1 DEF Lap
    <2>3. x + m <= a \/ a + n <= x
      BY <1>0, <2>2, ApartNumbers DEF Free
    <2>4. End(i) = x + m
      BY <1>0, <2>1
    <2> QED
      BY <2>1, <2>3, <2>4
  <1>2. ASSUME pending[i].off # Before(i) PROVE Before(i) \notin a .. a + n - 1
    <2>1. pending[i].off = 0
      BY <1>0, <1>2
    <2>2. CASE i = 1
      BY <1>0, <1>2, <2>1, <2>2 DEF Free, Lap, Before
    <2>3. CASE i # 1
      <3>1. /\ i - 1 \in 1 .. Len(pending) /\ Before(i) = End(i - 1)
            /\ Lap(pending[i - 1].off) + pending[i - 1].size <= Lap(pending[i].off)
        <4>1. Len(pending) \in Nat
          BY RingNumbers
        <4>2. i \in Nat /\ i - 1 \in 1 .. Len(pending) /\ i - 1 < i
          BY <2>3, <4>1
        <4>3. Before(i) = End(i - 1)
          BY <2>3 DEF Before
        <4>4. Lap(pending[i - 1].off) + pending[i - 1].size <= Lap(pending[i].off)
          BY <4>2 DEF Layout
        <4> QED
          BY <4>2, <4>3, <4>4
      <3> DEFINE p == pending[i - 1]
      <3>2. /\ p.off \in Nat /\ p.size \in Nat /\ p.size > 0
            /\ p.off + p.size + Pad <= Size /\ Before(i) = p.off + p.size
            /\ Lap(p.off) + p.size <= Lap(0)
        BY <1>0, <2>1, <3>1
      <3>3. Lap(0) + pending[i].size <= Lap(HostWriteOffset) /\ pending[i].size \in Nat /\ pending[i].size > 0
        BY <1>0, <2>1
      <3> HIDE DEF p
      <3> QED
        <4>1. /\ ReadOffset \in Nat /\ HostWriteOffset \in Nat /\ Size \in Nat
              /\ HostWriteOffset < Size /\ ReadOffset < Size /\ p.off + p.size < Size
          BY <1>0, <3>2
        <4>2. /\ (IF p.off < ReadOffset THEN p.off + Size ELSE p.off) + p.size
                   <= IF 0 < ReadOffset THEN 0 + Size ELSE 0
              /\ (IF 0 < ReadOffset THEN 0 + Size ELSE 0) + pending[i].size
                   <= IF HostWriteOffset < ReadOffset THEN HostWriteOffset + Size ELSE HostWriteOffset
          BY <3>2, <3>3 DEF Lap
        <4>3. HostWriteOffset < ReadOffset /\ ReadOffset < p.off + p.size
          BY <3>2, <3>3, <4>1, <4>2, SMTT(30)
        <4> QED
          BY <3>2, <4>1, <4>3 DEF Free
    <2> QED
      BY <2>2, <2>3
  <1> QED
    BY <1>1, <1>2

(* Writing where nothing is unread leaves what is unread intact.           *)
LEMMA WriteKeeps ==
  ASSUME TypeOK, TypeOK', UnreadIntact, Layout, NEW a \in Nat, NEW n \in Nat, Free(a, n),
         \A o \in Offsets : o \notin a .. a + n - 1 => mem'[o] = mem[o],
         UNCHANGED <<ReadOffset, HostWriteOffset, Size, pending>>
  PROVE  UnreadIntact' /\ Layout'
  <1>1. (\A i \in 1 .. Len(pending) : Intact(i)) /\ Chained
    BY IntactParts
  <1>2. Layout'
    BY DEF Layout, Lap, End
  <1>3. \A i \in 1 .. Len(pending) :
           /\ \A o \in pending[i].off .. End(i) - 1 : o \notin a .. a + n - 1
           /\ pending[i].off # Before(i) => Before(i) \notin a .. a + n - 1
    BY <1>1, FreeHoldsNothing
  <1>4. /\ ReadOffset \in Offsets
        /\ \A i \in 1 .. Len(pending) :
             /\ pending[i].off \in Nat /\ pending[i].size \in Nat /\ pending[i].size > 0
             /\ End(i) = pending[i].off + pending[i].size
             /\ \A o \in pending[i].off .. End(i) : o \in Offsets
    <2>1. ReadOffset \in Offsets /\ Size \in Nat /\ Pad \in Nat /\ Pad > 0
          /\ \A o \in Nat : o < Size => o \in Offsets
      BY RingNumbers
    <2>2. ASSUME NEW i \in 1 .. Len(pending)
          PROVE  /\ pending[i].off \in Nat /\ pending[i].size \in Nat /\ pending[i].size > 0
                 /\ End(i) = pending[i].off + pending[i].size /\ End(i) \in Nat
                 /\ End(i) + Pad <= Size
      BY RingNumbers DEF Layout, End
    <2>3. ASSUME NEW i \in 1 .. Len(pending), NEW o \in pending[i].off .. End(i) PROVE o \in Offsets
      <3>1. o \in Nat /\ o <= End(i) /\ End(i) < Size
        BY <2>1, <2>2
      <3> QED
        BY <2>1, <2>2, <3>1
    <2> QED
      BY <2>1, <2>2, <2>3
  <1>5. ASSUME NEW i \in 1 .. Len(pending) PROVE Intact(i)'
    <2>1. \A o \in pending[i].off .. End(i) - 1 : mem'[o] = mem[o]
      BY <1>3, <1>4
    <2>2. pending[i].off \in pending[i].off .. End(i) - 1
      BY <1>4
    <2>3. Intact(i)
      BY <1>1
    <2> QED
      BY <1>4, <2>1, <2>2, <2>3 DEF Intact, End
  <1>6. ASSUME NEW i \in 1 .. Len(pending) PROVE Follows(pending[i].off, Before(i))'
    <2>1. Follows(pending[i].off, Before(i)) /\ Before(i)' = Before(i)
      BY <1>1 DEF Chained, Before, End
    <2>2. CASE pending[i].off = Before(i)
      BY <2>1, <2>2 DEF Follows
    <2>3. CASE pending[i].off # Before(i)
      <3>1. Before(i) \in Offsets
        <4>1. i # 1 => i - 1 \in 1 .. Len(pending)
          BY RingNumbers
        <4>2. \A j \in 1 .. Len(pending) : End(j) \in Offsets
          <5> SUFFICES ASSUME NEW j \in 1 .. Len(pending) PROVE End(j) \in Offsets
            OBVIOUS
          <5>1. End(j) \in pending[j].off .. End(j)
            <6>1. PICK x, y \in Nat : x = pending[j].off /\ y = pending[j].size
              BY RingNumbers
            <6>2. x + y \in x .. x + y
              OBVIOUS
            <6> QED
              BY <6>1, <6>2 DEF End
          <5> QED
            BY <1>4, <5>1
        <4> QED
          BY <1>4, <4>1, <4>2 DEF Before
      <3>2. mem'[Before(i)] = mem[Before(i)]
        BY <1>3, <2>3, <3>1
      <3> QED
        BY <2>1, <2>3, <3>2 DEF Follows, PaddedAt
    <2> QED
      BY <2>2, <2>3
  <1>7. Chained'
    BY <1>1, <1>6 DEF Chained, Position, End
  <1>8. (\A i \in 1 .. Len(pending) : Intact(i))'
    BY <1>5
  <1>9. TypeOK' => (UnreadIntact' <=> (\A i \in 1 .. Len(pending) : Intact(i))' /\ Chained')
    BY IntactParts, PTL
  <1> QED
    BY <1>2, <1>7, <1>8, <1>9

(* GET_CCB_SPACE without the remainder.                                    *)
LEMMA SpaceIs ==
  ASSUME TypeOK, Layout
  PROVE  FreeSpace = IF HostWriteOffset < ReadOffset THEN ReadOffset - HostWriteOffset - 1
                     ELSE ReadOffset - HostWriteOffset + Size - 1
  <1>1. /\ ReadOffset \in Nat /\ HostWriteOffset \in Nat /\ Size \in Nat /\ Size > 0
        /\ HostWriteOffset < Size /\ ReadOffset < Size
    BY RingNumbers DEF Layout
  <1> DEFINE x == (ReadOffset - HostWriteOffset) + (Size - 1)
  <1>2. FreeSpace = x % Size /\ x \in Int
    BY <1>1 DEF FreeSpace, CCBSpace
  <1>3. CASE HostWriteOffset < ReadOffset
    <2>1. x = (ReadOffset - HostWriteOffset - 1) + Size
      BY <1>1
    <2>2. (ReadOffset - HostWriteOffset - 1) \in Int /\ 0 <= ReadOffset - HostWriteOffset - 1
          /\ ReadOffset - HostWriteOffset - 1 < Size
      BY <1>1, <1>3
    <2> QED
      BY <1>1, <1>2, <1>3, <2>1, <2>2, ModShift
  <1>4. CASE ~(HostWriteOffset < ReadOffset)
    <2>1. 0 <= x /\ x < Size
      BY <1>1, <1>4
    <2> QED
      BY <1>1, <1>2, <1>4, <2>1, ModSmall
  <1> QED
    BY <1>3, <1>4

(* With the read offset not beyond the write offset nothing has wrapped.   *)
LEMMA Straight ==
  ASSUME TypeOK, Layout, Chained, ReadOffset <= HostWriteOffset
  PROVE  \A i \in 1 .. Len(pending) :
           /\ ReadOffset <= pending[i].off /\ End(i) <= HostWriteOffset
           /\ pending[i].off = Before(i)
  <1> SUFFICES ASSUME NEW i \in 1 .. Len(pending)
               PROVE  /\ ReadOffset <= pending[i].off /\ End(i) <= HostWriteOffset
                      /\ pending[i].off = Before(i)
    OBVIOUS
  <1>1. /\ ReadOffset \in Nat /\ HostWriteOffset \in Nat /\ Size \in Nat
        /\ HostWriteOffset < Size /\ ReadOffset < Size
    BY RingNumbers DEF Layout
  <1>2. ASSUME NEW k \in 1 .. Len(pending)
        PROVE  /\ pending[k].off \in Nat /\ pending[k].size \in Nat /\ pending[k].size > 0
               /\ End(k) = pending[k].off + pending[k].size
               /\ ReadOffset <= pending[k].off /\ End(k) <= HostWriteOffset
    <2>1. /\ pending[k].off \in Nat /\ pending[k].size \in Nat /\ pending[k].size > 0
          /\ End(k) = pending[k].off + pending[k].size
          /\ Lap(pending[k].off) + pending[k].size <= Lap(HostWriteOffset)
      BY RingNumbers DEF End, Layout
    <2>2. Lap(HostWriteOffset) = HostWriteOffset
      BY <1>1 DEF Lap
    <2>3. CASE pending[k].off < ReadOffset
      <3>1. Lap(pending[k].off) = pending[k].off + Size
        BY <2>3 DEF Lap
      <3>2. (pending[k].off + Size) + pending[k].size <= HostWriteOffset
        BY <2>1, <2>2, <3>1
      <3>3. FALSE
        BY <1>1, <2>1, <3>2
      <3> QED
        BY <3>3
    <2>4. CASE ~(pending[k].off < ReadOffset)
      <3>1. Lap(pending[k].off) = pending[k].off
        BY <2>4 DEF Lap
      <3> QED
        BY <1>1, <2>1, <2>2, <2>4, <3>1
    <2> QED
      BY <2>3, <2>4
  <1>3. pending[i].off = Before(i)
    <2>1. pending[i].off = Before(i) \/ pending[i].off = 0
      BY DEF Chained, Follows
    <2>2. CASE i = 1
      BY <1>1, <1>2, <2>1, <2>2 DEF Before
    <2>3. CASE i # 1
      <3>1. i - 1 \in 1 .. Len(pending) /\ Before(i) = End(i - 1)
        BY <2>3, RingNumbers DEF Before
      <3>2. Lap(pending[i - 1].off) + pending[i - 1].size <= Lap(pending[i].off)
        <4>1. i - 1 < i
          BY RingNumbers
        <4> QED
          BY <3>1, <4>1 DEF Layout
      <3>3. /\ pending[i].off \in Nat /\ pending[i].off >= ReadOffset
            /\ pending[i - 1].off \in Nat /\ pending[i - 1].off >= ReadOffset
            /\ pending[i - 1].size \in Nat /\ pending[i - 1].size > 0
        BY <1>2, <3>1
      <3>4. pending[i].off > 0
        BY <1>1, <3>2, <3>3 DEF Lap
      <3> QED
        BY <2>1, <3>4
    <2> QED
      BY <2>2, <2>3
  <1> QED
    BY <1>2, <1>3

(* What is acquired is free.                                               *)
LEMMA ReservedIsFree ==
  ASSUME IInv, ContentsInv, pc \in {"acquired", "written"}
  PROVE  buf \in Nat /\ cmdSize \in Nat /\ cmdSize > 0 /\ buf + cmdSize < Size /\ Free(buf, cmdSize)
  <1>1. /\ TypeOK /\ Layout /\ SpaceReserved /\ CallSized
        /\ cmdSize \in Nat /\ cmdSize > 0 /\ cmdSize + Pad + 1 <= Size
    BY OffsetFacts DEF ContentsInv, IInv, CallInv, CallSized
  <1>2. /\ ReadOffset \in Nat /\ HostWriteOffset \in Nat /\ Size \in Nat /\ Pad \in Nat /\ Pad > 0
    BY <1>1, RingNumbers
  <1>3. CASE Fits
    BY <1>1, <1>2, <1>3 DEF SpaceReserved, Free, Fits
  <1>4. CASE ~Fits
    BY <1>1, <1>2, <1>4 DEF SpaceReserved, Free
  <1> QED
    BY <1>3, <1>4

(* A step that leaves the ring and the kicks alone.                        *)
LEMMA RingUnmoved ==
  ASSUME UnreadIntact, Layout,
         UNCHANGED <<ReadOffset, HostWriteOffset, Size, pending, mem>>
  PROVE  UnreadIntact' /\ Layout'
<1>1. UnreadIntact'
  BY DEF UnreadIntact, Follows, PaddedAt
<1>2. Layout'
  BY DEF Layout, Lap, End
<1> QED
  BY <1>1, <1>2

LEMMA KicksUnmoved ==
  ASSUME HandedOver,
         UNCHANGED <<ReadOffset, Size, pending, kicks, fwWriteOffset, fwWrapMask, handed>>
  PROVE  HandedOver'
<1> PICK known \in [0 .. Len(kicks) -> 0 .. handed] : KicksCover(known)
  BY DEF HandedOver
<1>1. \A woff, mask, n : Covers(woff, mask, n)' <=> Covers(woff, mask, n)
  BY DEF Covers, Position, End
<1>2. KicksCover(known)'
  BY <1>1 DEF KicksCover
<1> QED
  BY <1>2 DEF HandedOver

(* ... and leaves no space acquired.                                       *)
LEMMA QuietStep ==
  ASSUME ContentsInv,
         UNCHANGED <<ReadOffset, HostWriteOffset, Size, pending, mem, kicks, fwWriteOffset,
                     fwWrapMask, handed>>,
         \/ pc' \in {"idle", "space", "check", "growTest", "retry", "released"}
         \/ pc' \in {"lockGrow", "grow"} /\ ReadOffset <= HostWriteOffset
  PROVE  ContentsInv'
<1>1. UnreadIntact' /\ Layout'
  BY RingUnmoved DEF ContentsInv
<1>2. HandedOver'
  BY KicksUnmoved DEF ContentsInv
<1>3. SpaceReserved' /\ CommandWritten' /\ GrowsStraight'
  BY DEF SpaceReserved, CommandWritten, GrowsStraight
<1> QED
  BY <1>1, <1>2, <1>3 DEF ContentsInv

(* The steps of the submitting thread that leave the ring alone.           *)
LEMMA QuietSteps ==
  ASSUME IInv, ContentsInv,
         \/ \E n \in CmdSizes : AcquireCCB(n)
         \/ CheckSpace \/ GrowTest \/ LockGrow \/ CallAgain \/ GiveUp \/ Abandon \/ KickFail
  PROVE  ContentsInv'
<1> USE QuietStep DEF hostVars, fwVars, callVars, history
<1>1. ASSUME NEW n \in CmdSizes, AcquireCCB(n) PROVE ContentsInv'
  BY <1>1 DEF AcquireCCB, Enter
<1>2. CASE GrowTest
  <2>1. NothingBeyond => ReadOffset <= HostWriteOffset
    BY RingNumbers DEF NothingBeyond, IInv
  <2> QED
    BY <1>2, <2>1 DEF GrowTest
<1>3. CASE LockGrow
  BY <1>3 DEF LockGrow, ContentsInv, GrowsStraight
<1>4. CASE CallAgain
  BY <1>4 DEF CallAgain, Enter
<1>5. CASE GiveUp
  BY <1>5 DEF GiveUp, Return
<1>6. CASE Abandon
  BY <1>6 DEF Abandon, Return
<1>7. CASE KickFail
  BY <1>7 DEF KickFail, Return
<1>8. CASE CheckSpace
  BY <1>8 DEF CheckSpace, Enter
<1> QED
  BY <1>1, <1>2, <1>3, <1>4, <1>5, <1>6, <1>7, <1>8

(* A command acquired before the end of the ring.                          *)
LEMMA ContiguousKeeps == ASSUME IInv, ContentsInv, TryContiguous PROVE ContentsInv'
<1> USE DEF hostVars, fwVars, callVars, history
<1>1. CASE pc' = "retry"
  BY <1>1, QuietStep DEF TryContiguous
<1>2. CASE pc' = "acquired" /\ Enough(cmdSize) /\ buf' = HostWriteOffset
  <2>1. UnreadIntact' /\ Layout'
    BY RingUnmoved DEF ContentsInv, TryContiguous
  <2>2. HandedOver'
    BY KicksUnmoved DEF ContentsInv, TryContiguous
  <2>3. /\ ReadOffset \in Nat /\ HostWriteOffset \in Nat /\ Size \in Nat /\ cmdSize \in Nat
        /\ HostWriteOffset < ReadOffset => FreeSpace = ReadOffset - HostWriteOffset - 1
    BY SpaceIs, RingNumbers, OffsetFacts DEF ContentsInv, IInv, TypeOK
  <2>4. HostWriteOffset < ReadOffset => HostWriteOffset + cmdSize < ReadOffset
    BY <1>2, <2>3 DEF Enough
  <2>5. /\ Fits /\ Fits' = Fits
        /\ UNCHANGED <<HostWriteOffset, ReadOffset, cmdSize>>
    BY DEF TryContiguous, Fits
  <2>6. SpaceReserved'
    BY <1>2, <2>4, <2>5 DEF SpaceReserved
  <2>7. CommandWritten' /\ GrowsStraight'
    BY <1>2 DEF CommandWritten, GrowsStraight
  <2> QED
    BY <2>1, <2>2, <2>6, <2>7 DEF ContentsInv
<1> QED
  BY <1>1, <1>2 DEF TryContiguous

(* A command acquired at offset 0: only a ring with its unread commands    *)
(* before the write offset has the room, and the PADDING header goes       *)
(* behind them.                                                            *)
LEMMA WrapKeeps == ASSUME IInv, ContentsInv, TryWrap, TypeOK' PROVE ContentsInv'
<1> USE DEF hostVars, fwVars, callVars, history
<1>1. CASE ~CanWrap
  BY <1>1, QuietStep DEF TryWrap
<1>2. CASE CanWrap
  <2>0. /\ ReadOffset \in Nat /\ HostWriteOffset \in Nat /\ Size \in Nat /\ cmdSize \in Nat
        /\ HostWriteOffset < Size /\ ReadOffset < Size /\ HostWriteOffset \in Offsets
        /\ mem \in [Offsets -> Cell]
    BY RingNumbers, OffsetFacts DEF ContentsInv, Layout, IInv, TypeOK
  <2>1. FreeSpace > Remain + cmdSize
    BY <1>2 DEF CanWrap, Enough
  <2>2. ReadOffset <= HostWriteOffset /\ cmdSize < ReadOffset
    BY <2>0, <2>1, SpaceIs DEF ContentsInv, IInv, Remain
  <2>3. /\ UNCHANGED <<ReadOffset, HostWriteOffset, Size, pending, cmdSize>>
        /\ mem' = [mem EXCEPT ![HostWriteOffset] = Padding(Remain - Pad)]
        /\ pc' = "acquired" /\ buf' = 0 /\ ~Fits
    BY <1>2 DEF TryWrap
  <2>4. UnreadIntact' /\ Layout'
    <3>1. Free(HostWriteOffset, 1)
      BY <2>0, <2>2 DEF Free
    <3>2. \A o \in Offsets : o \notin HostWriteOffset .. HostWriteOffset + 1 - 1 => mem'[o] = mem[o]
      BY <2>0, <2>3
    <3> QED
      BY <2>0, <2>3, <3>1, <3>2, WriteKeeps DEF ContentsInv, IInv
  <2>5. HandedOver'
    BY <1>2, KicksUnmoved DEF ContentsInv, TryWrap
  <2>6. SpaceReserved'
    <3>1. mem'[HostWriteOffset] = Padding(Remain - Pad)
      BY <2>0, <2>3
    <3>2. Fits' = Fits /\ Remain' = Remain
      BY <2>3 DEF Fits, Remain
    <3> QED
      BY <2>2, <2>3, <3>1, <3>2 DEF SpaceReserved, Padding
  <2>7. CommandWritten' /\ GrowsStraight'
    BY <2>3 DEF CommandWritten, GrowsStraight
  <2> QED
    BY <2>4, <2>5, <2>6, <2>7 DEF ContentsInv
<1> QED
  BY <1>1, <1>2

(* The caller's command goes to what was acquired.                         *)
LEMMA CommandKeeps == ASSUME IInv, ContentsInv, WriteCommand, TypeOK' PROVE ContentsInv'
<1> USE DEF hostVars, fwVars, callVars, history
<1>0. /\ buf \in Nat /\ cmdSize \in Nat /\ cmdSize > 0 /\ buf + cmdSize < Size
      /\ Free(buf, cmdSize) /\ pc = "acquired"
  BY ReservedIsFree DEF WriteCommand
<1>1. /\ ReadOffset \in Nat /\ HostWriteOffset \in Nat /\ Size \in Nat
      /\ HostWriteOffset \in Offsets /\ \A o \in Nat : o < Size => o \in Offsets
      /\ Pad \in Nat /\ Pad > 0
  BY RingNumbers DEF IInv
<1>2. /\ UNCHANGED <<ReadOffset, HostWriteOffset, Size, pending, cmdSize, buf, nextId>>
      /\ UNCHANGED <<kicks, fwWriteOffset, fwWrapMask, handed>>
      /\ pc' = "written"
      /\ mem' = [o \in Offsets |->
               IF o = buf THEN Header(nextId, cmdSize)
               ELSE IF o \in buf + 1 .. buf + cmdSize - 1 THEN Body(nextId)
               ELSE mem[o]]
  BY DEF WriteCommand
<1>3. \A o \in Offsets : o \notin buf .. buf + cmdSize - 1 => mem'[o] = mem[o]
  <2> SUFFICES ASSUME NEW o \in Offsets, o \notin buf .. buf + cmdSize - 1
               PROVE  mem'[o] = mem[o]
    OBVIOUS
  <2>1. o # buf /\ o \notin buf + 1 .. buf + cmdSize - 1
    BY <1>0
  <2> QED
    BY <1>2, <2>1
<1>4. UnreadIntact' /\ Layout'
  BY <1>0, <1>2, <1>3, WriteKeeps DEF ContentsInv, IInv
<1>5. HandedOver'
  BY <1>2, KicksUnmoved DEF ContentsInv
<1>6. SpaceReserved'
  <2>1. Fits' = Fits /\ Remain' = Remain
    BY <1>2 DEF Fits, Remain
  <2>2. SpaceReserved
    BY DEF ContentsInv
  <2>3. CASE Fits
    BY <1>0, <1>2, <2>1, <2>2, <2>3 DEF SpaceReserved
  <2>4. CASE ~Fits
    <3>1. /\ buf = 0 /\ cmdSize < ReadOffset /\ ReadOffset <= HostWriteOffset
          /\ mem[HostWriteOffset] = Padding(Remain - Pad)
      BY <1>0, <2>2, <2>4 DEF SpaceReserved
    <3>2. HostWriteOffset \notin buf .. buf + cmdSize - 1
      BY <1>0, <1>1, <3>1
    <3>3. mem'[HostWriteOffset] = mem[HostWriteOffset]
      BY <1>1, <1>3, <3>2
    <3> QED
      BY <1>2, <2>1, <2>4, <3>1, <3>3 DEF SpaceReserved, Padding
  <2> QED
    BY <2>3, <2>4
<1>7. CommandWritten'
  <2>1. buf \in Offsets /\ \A o \in buf + 1 .. buf + cmdSize - 1 : o \in Offsets /\ o # buf
    BY <1>0, <1>1
  <2>2. mem'[buf] = Header(nextId, cmdSize)
    BY <1>2, <2>1
  <2>3. \A o \in buf + 1 .. buf + cmdSize - 1 : mem'[o] = Body(nextId)
    BY <1>2, <2>1
  <2> QED
    BY <1>2, <2>2, <2>3 DEF CommandWritten, Header, Body
<1>8. GrowsStraight'
  BY <1>2 DEF GrowsStraight
<1> QED
  BY <1>4, <1>5, <1>6, <1>7, <1>8 DEF ContentsInv

-----------------------------------------------------------------------------
(* The release of a command.                                               *)
LEMMA ReleaseKeeps == ASSUME IInv, ContentsInv, ReleaseCCB, TypeOK' PROVE ContentsInv'
<1> PICK P \in Nat : P = Len(pending)
  BY RingNumbers DEF IInv
<1> DEFINE start == IF Fits THEN HostWriteOffset ELSE 0
           cmd == [id |-> nextId, off |-> start, size |-> cmdSize]
<1>1. /\ start \in Offsets /\ start + cmdSize + Pad <= Size
      /\ HostWriteOffset' = start + cmdSize
      /\ Size' = Size /\ pc' = "released"
      /\ pending' = Append(pending, cmd)
      /\ UNCHANGED <<handed, ReadOffset, mem, kicks, fwWriteOffset, fwWrapMask>>
  BY ReleaseValues DEF ReleaseCCB, fwVars
<1>2. /\ ReadOffset \in Nat /\ HostWriteOffset \in Nat /\ Size \in Nat /\ cmdSize \in Nat
      /\ cmdSize > 0 /\ Pad \in Nat /\ Pad > 0
      /\ HostWriteOffset < Size /\ ReadOffset < Size /\ start \in Nat
      /\ P \in Nat /\ pending \in Seq([id : Ids, off : Offsets, size : CmdSizes])
  <2>1. /\ ReadOffset \in Nat /\ HostWriteOffset \in Nat /\ Size \in Nat /\ Pad \in Nat /\ Pad > 0
        /\ HostWriteOffset < Size /\ ReadOffset < Size
    BY RingNumbers DEF ContentsInv, Layout, IInv
  <2>2. pc = "written" /\ cmdSize \in CmdSizes
    BY DEF ReleaseCCB, IInv, CallInv, CallSized
  <2>3. cmdSize \in Nat /\ cmdSize > 0
    BY <2>2, OffsetFacts
  <2>4. pending \in Seq([id : Ids, off : Offsets, size : CmdSizes])
    BY DEF IInv, TypeOK
  <2> QED
    BY <2>1, <2>3, <2>4
<1>3. /\ Len(pending') = P + 1 /\ pending'[P + 1] = cmd
      /\ \A i \in 1 .. P : pending'[i] = pending[i]
  BY <1>1, <1>2
<1>4. /\ pc = "written" /\ CommandWritten /\ SpaceReserved /\ Layout /\ HandedOver
      /\ (\A i \in 1 .. P : Intact(i)) /\ Chained
  BY IntactParts DEF ReleaseCCB, ContentsInv, IInv
<1>5. /\ buf = start
      /\ start = 0 /\ start # HostWriteOffset =>
           /\ cmdSize < ReadOffset /\ ReadOffset <= HostWriteOffset
           /\ mem[HostWriteOffset] = Padding(Remain - Pad)
      /\ start = HostWriteOffset \/ start = 0
      /\ start = HostWriteOffset /\ HostWriteOffset < ReadOffset
           => HostWriteOffset + cmdSize < ReadOffset
  BY <1>2, <1>4 DEF SpaceReserved
<1> HIDE DEF start
<1>6. Lap(HostWriteOffset) <= Lap(start)
  BY <1>2, <1>5 DEF Lap
<1>7. Lap(start) + cmdSize = Lap(start + cmdSize)
  BY <1>2, <1>5 DEF Lap
<1>8. /\ \A o : Lap(o)' = Lap(o)
      /\ \A i \in 1 .. P : End(i)' = End(i)
      /\ End(P + 1)' = start + cmdSize
  <2>1. \A o : Lap(o)' = Lap(o)
    BY <1>1 DEF Lap
  <2> QED
    BY <1>3, <2>1 DEF End
<1>9. Layout'
  <2>1. ASSUME NEW i \in 1 .. P
        PROVE  /\ End(i) + Pad <= Size
               /\ pending[i].off \in Nat /\ pending[i].size \in Nat /\ pending[i].size > 0
               /\ Lap(pending[i].off) + pending[i].size <= Lap(start)
               /\ Lap(pending[i].off) + pending[i].size <= Lap(start + cmdSize)
    <3>1. /\ End(i) + Pad <= Size
          /\ pending[i].off \in Nat /\ pending[i].size \in Nat /\ pending[i].size > 0
          /\ Lap(pending[i].off) + pending[i].size <= Lap(HostWriteOffset)
      BY <1>4, RingNumbers DEF Layout, IInv
    <3>2. /\ Lap(pending[i].off) \in Nat /\ Lap(HostWriteOffset) \in Nat /\ Lap(start) \in Nat
      <4>1. \A o \in Nat : Lap(o) \in Nat
        BY <1>2 DEF Lap
      <4>2. HostWriteOffset \in Nat /\ start \in Nat
        BY <1>2
      <4> QED
        BY <3>1, <4>1, <4>2
    <3> QED
      BY <1>2, <1>6, <1>7, <3>1, <3>2
  <2>2. ASSUME NEW i \in 1 .. Len(pending')
        PROVE  /\ End(i)' + Pad <= Size
               /\ Lap(pending'[i].off) + pending'[i].size <= Lap(start + cmdSize)
    <3>1. CASE i \in 1 .. P
      BY <1>3, <1>8, <2>1, <3>1
    <3>2. CASE i = P + 1
      <4>1. pending'[i].off = start /\ pending'[i].size = cmdSize /\ End(i)' = start + cmdSize
        BY <1>3, <1>8, <3>2
      <4>2. Lap(start + cmdSize) \in Nat
        BY <1>2 DEF Lap
      <4> QED
        BY <1>1, <1>7, <4>1, <4>2
    <3> QED
      BY <1>2, <1>3, <3>1, <3>2
  <2>3. ASSUME NEW i \in 1 .. Len(pending'), NEW j \in 1 .. Len(pending'), i < j
        PROVE  Lap(pending'[i].off) + pending'[i].size <= Lap(pending'[j].off)
    <3>1. i \in 1 .. P
      BY <1>2, <1>3, <2>3
    <3>2. CASE j \in 1 .. P
      BY <1>3, <1>4, <2>3, <3>1, <3>2 DEF Layout
    <3>3. CASE j = P + 1
      BY <1>3, <2>1, <3>1, <3>3
    <3> QED
      BY <1>2, <1>3, <3>2, <3>3
  <2> QED
    BY <1>1, <1>2, <1>8, <2>2, <2>3 DEF Layout
<1>10. Position(P) = HostWriteOffset
  BY <1>4 DEF Chained
<1>11. ASSUME NEW i \in 1 .. P + 1 PROVE Intact(i)'
  <2>1. CASE i \in 1 .. P
    BY <1>1, <1>3, <1>4, <1>8, <2>1 DEF Intact
  <2>2. CASE i = P + 1
    <3>1. /\ pending'[i].off = start /\ pending'[i].size = cmdSize /\ pending'[i].id = nextId
          /\ End(i)' = start + cmdSize /\ mem' = mem
      BY <1>1, <1>3, <1>8, <2>2
    <3>2. /\ mem[start] = Header(nextId, cmdSize)
          /\ \A o \in start + 1 .. start + cmdSize - 1 : mem[o] = Body(nextId)
      BY <1>4, <1>5 DEF CommandWritten
    <3>3. Intact(i)' <=> /\ mem'[pending'[i].off] = Header(pending'[i].id, pending'[i].size)
                         /\ \A o \in pending'[i].off + 1 .. End(i)' - 1 : mem'[o] = Body(pending'[i].id)
      BY DEF Intact, Header, Body
    <3> QED
      <4>1. mem'[pending'[i].off] = Header(pending'[i].id, pending'[i].size)
        BY <3>1, <3>2
      <4>2. ASSUME NEW o \in pending'[i].off + 1 .. End(i)' - 1
            PROVE  mem'[o] = Body(pending'[i].id)
        <5>1. o \in start + 1 .. start + cmdSize - 1
          BY <1>2, <3>1
        <5>2. mem[o] = Body(nextId)
          BY <3>2, <5>1
        <5> QED
          BY <3>1, <5>2
      <4> QED
        BY <3>3, <4>1, <4>2
  <2> QED
    BY <1>2, <2>1, <2>2
<1>12. ASSUME NEW i \in 1 .. P + 1 PROVE Follows(pending[i].off, Before(i))'
  <2>1. \A o : PaddedAt(o)' <=> PaddedAt(o)
    BY <1>1 DEF PaddedAt
  <2>2. CASE i \in 1 .. P
    <3>1. Follows(pending[i].off, Before(i))
      BY <1>4, <2>2 DEF Chained
    <3>2. Before(i)' = Before(i)
      <4>1. i # 1 => i - 1 \in 1 .. P
        BY <1>2, <2>2
      <4> QED
        BY <1>1, <1>8, <4>1 DEF Before
    <3> QED
      BY <1>3, <2>1, <2>2, <3>1, <3>2 DEF Follows
  <2>3. CASE i = P + 1
    <3>1. Before(i)' = HostWriteOffset
      <4>1. CASE P = 0
        BY <1>1, <1>10, <2>3, <4>1 DEF Before, Position
      <4>2. CASE P # 0
        <5>1. P \in 1 .. P /\ i # 1 /\ i - 1 = P
          BY <1>2, <2>3, <4>2
        <5> QED
          BY <1>8, <1>10, <4>2, <5>1 DEF Before, Position
      <4> QED
        BY <4>1, <4>2
    <3>2. start # HostWriteOffset => start = 0 /\ PaddedAt(HostWriteOffset)
      BY <1>2, <1>5 DEF PaddedAt, Padding, Remain
    <3> QED
      BY <1>3, <2>1, <2>3, <3>1, <3>2 DEF Follows
  <2> QED
    BY <1>2, <2>2, <2>3
<1>13. Chained'
  <2>1. HostWriteOffset' = Position(P + 1)'
    BY <1>1, <1>2, <1>8 DEF Position
  <2> QED
    BY <1>3, <1>12, <2>1 DEF Chained
<1>14. UnreadIntact'
  <2>1. (\A i \in 1 .. Len(pending) : Intact(i))'
    BY <1>3, <1>11
  <2>2. TypeOK' => (UnreadIntact' <=> (\A i \in 1 .. Len(pending) : Intact(i))' /\ Chained')
    BY IntactParts, PTL
  <2> QED
    BY <1>13, <2>1, <2>2
<1>15. HandedOver'
  <2>1. PICK known \in [0 .. Len(kicks) -> 0 .. handed] : KicksCover(known)
    BY <1>4 DEF HandedOver
  <2>2. handed \in 0 .. P
    BY <1>4 DEF HandedOver
  <2>3. ASSUME NEW woff, NEW mask, NEW n \in 0 .. handed, Covers(woff, mask, n)
        PROVE  Covers(woff, mask, n)'
    <3>1. n \in 0 .. P /\ \A i \in 1 .. n : i \in 1 .. P
      BY <1>2, <2>2
    <3>2. Position(n)' = Position(n)
      BY <1>1, <1>2, <1>8, <3>1 DEF Position
    <3> QED
      BY <1>1, <1>3, <1>8, <2>3, <3>1, <3>2 DEF Covers
  <2>4. KicksCover(known)'
    BY <1>1, <2>1, <2>3 DEF KicksCover
  <2>5. handed' \in 0 .. Len(pending')
    BY <1>1, <1>2, <1>3, <2>2
  <2> QED
    BY <1>1, <2>4, <2>5 DEF HandedOver
<1>16. SpaceReserved' /\ CommandWritten' /\ GrowsStraight'
  BY <1>1 DEF SpaceReserved, CommandWritten, GrowsStraight
<1> QED
  BY <1>9, <1>14, <1>15, <1>16 DEF ContentsInv

(* A ring that grows: nothing has wrapped, so the new size changes nothing *)
(* for the commands in it.                                                 *)
LEMMA GrowKeeps == ASSUME IInv, ContentsInv, Grow, TypeOK' PROVE ContentsInv'
<1>1. /\ UNCHANGED <<ReadOffset, HostWriteOffset, mem, kicks, fwWriteOffset, fwWrapMask, pending, handed>>
      /\ Size' = Size + Size \/ Size' = Size
      /\ pc' \in {"retry", "check"} /\ pc = "grow"
  BY DEF Grow, fwVars, history
<1>2. CASE Size' = Size
  BY <1>1, <1>2, QuietStep
<1>3. CASE Size' = Size + Size
  <2>1. /\ ReadOffset <= HostWriteOffset /\ Layout /\ HandedOver
        /\ (\A i \in 1 .. Len(pending) : Intact(i)) /\ Chained
    BY <1>1, IntactParts DEF ContentsInv, GrowsStraight, IInv
  <2>2. /\ ReadOffset \in Nat /\ HostWriteOffset \in Nat /\ Size \in Nat /\ Pad \in Nat
        /\ ReadOffset < Size /\ Len(pending) \in Nat /\ Size > 0
    BY RingNumbers DEF ContentsInv, Layout, IInv
  <2>3. ASSUME NEW i \in 1 .. Len(pending)
        PROVE  /\ pending[i].off \in Nat /\ pending[i].size \in Nat
               /\ End(i) = pending[i].off + pending[i].size /\ End(i) + Pad <= Size
               /\ ReadOffset <= pending[i].off /\ End(i) <= HostWriteOffset
               /\ pending[i].off = Before(i)
    BY <2>1, Straight, RingNumbers DEF IInv, End, Layout
  <2>4. /\ \A i \in 1 .. Len(pending) : End(i)' = End(i) /\ Lap(pending[i].off)' = Lap(pending[i].off)
        /\ Lap(HostWriteOffset)' = Lap(HostWriteOffset)
    <3>1. ASSUME NEW o, o >= ReadOffset, o \in Nat PROVE Lap(o)' = Lap(o)
      BY <1>1, <2>2, <3>1 DEF Lap
    <3>2. ASSUME NEW i \in 1 .. Len(pending) PROVE End(i)' = End(i) /\ Lap(pending[i].off)' = Lap(pending[i].off)
      BY <1>1, <2>2, <2>3 DEF Lap, End
    <3>3. Lap(HostWriteOffset)' = Lap(HostWriteOffset)
      BY <1>1, <2>1, <2>2 DEF Lap
    <3> QED
      BY <3>2, <3>3
  <2>5. Layout'
    <3>1. ReadOffset' < Size'
      BY <1>1, <1>3, <2>2
    <3>2. ASSUME NEW i \in 1 .. Len(pending) PROVE End(i) + Pad <= Size'
      <4>1. End(i) \in Nat /\ End(i) + Pad <= Size
        BY <2>3
      <4>2. Size <= Size + Size /\ Size \in Nat /\ Pad \in Nat
        BY <2>2
      <4> QED
        BY <1>3, <4>1, <4>2
    <3> QED
      BY <1>1, <2>1, <2>4, <3>1, <3>2 DEF Layout
  <2>6. \A i \in 1 .. Len(pending) : Before(i)' = Before(i)
    BY <1>1 DEF Before, End
  <2>7. Chained'
    <3>1. \A i \in 1 .. Len(pending) : Follows(pending[i].off, Before(i))'
      BY <1>1, <2>3, <2>6 DEF Follows
    <3>2. Position(Len(pending))' = Position(Len(pending))
      BY <1>1 DEF Position, End
    <3> QED
      BY <1>1, <2>1, <3>1, <3>2 DEF Chained
  <2>8. UnreadIntact'
    <3>1. (\A i \in 1 .. Len(pending) : Intact(i))'
      BY <1>1, <2>1 DEF Intact, End
    <3>2. TypeOK' => (UnreadIntact' <=> (\A i \in 1 .. Len(pending) : Intact(i))' /\ Chained')
      BY IntactParts, PTL
    <3> QED
      BY <2>7, <3>1, <3>2
  <2>9. HandedOver'
    <3>1. PICK known \in [0 .. Len(kicks) -> 0 .. handed] : KicksCover(known)
      BY <2>1 DEF HandedOver
    <3>2. handed \in 0 .. Len(pending)
      BY <2>1 DEF HandedOver
    <3>3. ASSUME NEW woff, NEW mask \in Int, NEW n \in 0 .. handed, Covers(woff, mask, n)
          PROVE  Covers(woff, mask, n)'
      <4>1. \A i \in 1 .. n : i \in 1 .. Len(pending)
        BY <2>2, <3>2
      <4>2. mask + 1 <= Size'
        BY <1>3, <2>2, <3>3 DEF Covers
      <4>3. \A i \in 1 .. n : End(i) + Pad <= mask + 1 /\ ~(pending[i].off < ReadOffset)
        BY <2>2, <2>3, <3>3, <4>1 DEF Covers
      <4>4. Position(n)' = Position(n) /\ \A i \in 1 .. n : End(i)' = End(i)
        BY <1>1 DEF Position, End
      <4> QED
        BY <1>1, <3>3, <4>2, <4>3, <4>4 DEF Covers
    <3>4. KicksCover(known)'
      <4>1. fwWrapMask \in Int /\ \A i \in 1 .. Len(kicks) : kicks[i].CWrapMaskUpdate \in Int
        BY MaskNumbers DEF IInv
      <4> QED
        BY <1>1, <3>1, <3>3, <4>1 DEF KicksCover
    <3> QED
      BY <1>1, <2>1, <3>4 DEF HandedOver
  <2>10. SpaceReserved' /\ CommandWritten' /\ GrowsStraight'
    BY <1>1 DEF SpaceReserved, CommandWritten, GrowsStraight
  <2> QED
    BY <2>5, <2>8, <2>9, <2>10 DEF ContentsInv
<1> QED
  BY <1>1, <1>2, <1>3

(* A kick covers all commands released so far.                             *)
LEMMA KickKeeps == ASSUME IInv, ContentsInv, Kick PROVE ContentsInv'
<1>1. /\ UNCHANGED <<ReadOffset, HostWriteOffset, Size, pending, mem, fwWriteOffset, fwWrapMask>>
      /\ kicks' = Append(kicks, KickData) /\ handed' = Len(pending)
      /\ pc' = "idle"
  BY DEF Kick, Return, hostVars
<1>2. UnreadIntact' /\ Layout'
  BY <1>1, RingUnmoved DEF ContentsInv
<1>3. HandedOver'
  <2>1. PICK known \in [0 .. Len(kicks) -> 0 .. handed] : KicksCover(known)
    BY DEF ContentsInv, HandedOver
  <2>2. /\ handed \in 0 .. Len(pending) /\ Len(pending) \in Nat /\ Len(kicks) \in Nat
        /\ Size \in Nat /\ Pad \in Nat
    BY RingNumbers DEF ContentsInv, HandedOver, IInv, TypeOK
  <2> PICK K \in Nat : K = Len(kicks)
    BY <2>2
  <2> PICK P \in Nat : P = Len(pending)
    BY <2>2
  <2> PICK now : now = [i \in 0 .. K + 1 |-> IF i <= K THEN known[i] ELSE P]
    OBVIOUS
  <2>3. /\ Len(kicks') = K + 1 /\ kicks'[K + 1] = KickData
        /\ \A i \in 1 .. K : kicks'[i] = kicks[i]
    BY <1>1 DEF IInv, TypeOK
  <2>4. \A woff, mask, n : Covers(woff, mask, n)' <=> Covers(woff, mask, n)
    BY <1>1 DEF Covers, Position, End
  <2>5. Covers(KickData.CWoffUpdate, KickData.CWrapMaskUpdate, Len(pending))
    <3>1. /\ HostWriteOffset = Position(Len(pending))
          /\ \A i \in 1 .. Len(pending) : End(i) + Pad <= Size
      BY IntactParts DEF ContentsInv, Layout, IInv, Chained
    <3>2. KickData.CWoffUpdate = HostWriteOffset /\ KickData.CWrapMaskUpdate + 1 = Size
      BY <2>2 DEF KickData
    <3> QED
      BY <2>2, <3>1, <3>2 DEF Covers
  <2>6. now \in [0 .. Len(kicks') -> 0 .. handed']
    <3> SUFFICES ASSUME NEW i \in 0 .. K + 1 PROVE now[i] \in 0 .. P
      BY <1>1, <2>3
    <3>1. CASE i <= K
      <4>1. i \in 0 .. K
        BY <2>2, <3>1
      <4>2. known[i] \in 0 .. handed
        BY <4>1
      <4> QED
        BY <2>2, <3>1, <4>2
    <3>2. CASE ~(i <= K)
      BY <2>2, <3>2
    <3> QED
      BY <3>1, <3>2
  <2>7. KicksCover(now)'
    <3>1. /\ now[K + 1] = P /\ \A i \in 0 .. K : now[i] = known[i]
      BY <2>2
    <3>2. \A i \in 0 .. K : known[i] \in 0 .. handed
      OBVIOUS
    <3>3. Covers(fwWriteOffset, fwWrapMask, now[0])'
      BY <1>1, <2>1, <2>2, <2>4, <3>1 DEF KicksCover
    <3>4. ASSUME NEW i \in 1 .. K + 1
          PROVE  Covers(kicks[i].CWoffUpdate, kicks[i].CWrapMaskUpdate, now[i])'
      <4>1. CASE i \in 1 .. K
        <5>1. Covers(kicks[i].CWoffUpdate, kicks[i].CWrapMaskUpdate, known[i]) /\ now[i] = known[i]
          BY <2>1, <2>2, <3>1, <4>1 DEF KicksCover
        <5> QED
          BY <2>3, <2>4, <4>1, <5>1
      <4>2. CASE i = K + 1
        BY <2>3, <2>4, <2>5, <3>1, <4>2
      <4> QED
        BY <2>2, <4>1, <4>2
    <3>5. ASSUME NEW i \in 0 .. K + 1, NEW j \in 0 .. K + 1, i <= j
          PROVE  now[i] <= now[j]
      <4>1. CASE j \in 0 .. K
        BY <2>1, <2>2, <3>1, <3>5, <4>1 DEF KicksCover
      <4>2. CASE i \in 0 .. K /\ j = K + 1
        BY <2>2, <3>1, <3>2, <4>2
      <4>3. CASE i = K + 1 /\ j = K + 1
        BY <2>2, <3>1, <4>3
      <4> QED
        BY <2>2, <3>5, <4>1, <4>2, <4>3
    <3> QED
      BY <2>3, <3>3, <3>4, <3>5 DEF KicksCover
  <2> QED
    BY <1>1, <2>2, <2>6, <2>7 DEF HandedOver
<1>4. SpaceReserved' /\ CommandWritten' /\ GrowsStraight'
  BY <1>1 DEF SpaceReserved, CommandWritten, GrowsStraight
<1> QED
  BY <1>2, <1>3, <1>4 DEF ContentsInv

-----------------------------------------------------------------------------
(* The firmware takes a kick.                                              *)
LEMMA TakeKickKeeps == ASSUME IInv, ContentsInv, FwTakeKick PROVE ContentsInv'
<1>1. /\ UNCHANGED <<ReadOffset, HostWriteOffset, Size, pending, mem, handed>>
      /\ UNCHANGED <<pc, cmdSize, buf, nextId>>
      /\ kicks # <<>> /\ kicks' = Tail(kicks)
      /\ fwWriteOffset' = Head(kicks).CWoffUpdate /\ fwWrapMask' = Head(kicks).CWrapMaskUpdate
  BY DEF FwTakeKick, hostVars, history, callVars
<1>2. UnreadIntact' /\ Layout'
  BY <1>1, RingUnmoved DEF ContentsInv
<1>3. HandedOver'
  <2>1. PICK known \in [0 .. Len(kicks) -> 0 .. handed] : KicksCover(known)
    BY DEF ContentsInv, HandedOver
  <2>2. kicks \in Seq([CWoffUpdate : Offsets, CWrapMaskUpdate : {s - 1 : s \in Sizes}])
    BY DEF IInv, TypeOK
  <2> PICK K \in Nat : K + 1 = Len(kicks)
    <3>1. Len(kicks) \in Nat /\ Len(kicks) # 0
      BY <1>1, <2>2
    <3>2. Len(kicks) - 1 \in Nat /\ (Len(kicks) - 1) + 1 = Len(kicks)
      BY <3>1
    <3> QED
      BY <3>2
  <2> PICK now : now = [i \in 0 .. K |-> known[i + 1]]
    OBVIOUS
  <2>3. /\ Len(kicks') = K /\ kicks[1] = Head(kicks)
        /\ \A i \in 1 .. K : kicks'[i] = kicks[i + 1]
    BY <1>1, <2>2
  <2>4. \A woff, mask, n : Covers(woff, mask, n)' <=> Covers(woff, mask, n)
    BY <1>1 DEF Covers, Position, End
  <2>5. now \in [0 .. Len(kicks') -> 0 .. handed']
    <3>1. \A i \in 0 .. K : i + 1 \in 0 .. Len(kicks)
      OBVIOUS
    <3>2. \A i \in 0 .. K : known[i + 1] \in 0 .. handed
      BY <3>1
    <3> QED
      BY <1>1, <2>3, <3>2
  <2>6. KicksCover(now)'
    <3>1. \A i \in 0 .. K : now[i] = known[i + 1]
      OBVIOUS
    <3>2. Covers(fwWriteOffset, fwWrapMask, now[0])'
      <4>1. Covers(kicks[1].CWoffUpdate, kicks[1].CWrapMaskUpdate, known[1])
        BY <2>1 DEF KicksCover
      <4> QED
        BY <1>1, <2>3, <2>4, <3>1, <4>1
    <3>3. ASSUME NEW i \in 1 .. K
          PROVE  Covers(kicks[i].CWoffUpdate, kicks[i].CWrapMaskUpdate, now[i])'
      <4>1. i + 1 \in 1 .. Len(kicks)
        OBVIOUS
      <4>2. Covers(kicks[i + 1].CWoffUpdate, kicks[i + 1].CWrapMaskUpdate, known[i + 1])
        BY <2>1, <4>1 DEF KicksCover
      <4> QED
        BY <2>3, <2>4, <3>1, <4>2
    <3>4. ASSUME NEW i \in 0 .. K, NEW j \in 0 .. K, i <= j
          PROVE  now[i] <= now[j]
      <4>1. i + 1 \in 0 .. Len(kicks) /\ j + 1 \in 0 .. Len(kicks) /\ i + 1 <= j + 1
        BY <3>4
      <4>2. known[i + 1] <= known[j + 1]
        BY <2>1, <4>1 DEF KicksCover
      <4> QED
        BY <3>1, <4>2
    <3> QED
      BY <2>3, <3>2, <3>3, <3>4 DEF KicksCover
  <2> QED
    BY <1>1, <2>5, <2>6 DEF ContentsInv, HandedOver
<1>4. SpaceReserved' /\ CommandWritten' /\ GrowsStraight'
  BY <1>1 DEF ContentsInv, SpaceReserved, CommandWritten, GrowsStraight, Fits, Remain, Header,
     Body, Padding
<1> QED
  BY <1>2, <1>3, <1>4 DEF ContentsInv

(* Where the firmware reads there is a command that was handed over, or    *)
(* the PADDING before one, and it reads on where it should.                *)
LEMMA FirmwareReads ==
  ASSUME IInv, ContentsInv, ReadOffset # fwWriteOffset
  PROVE  /\ handed \in 1 .. Len(pending)
         /\ mem[ReadOffset].kind = "command" =>
              /\ pending[1].off = ReadOffset
              /\ mem[ReadOffset].id = pending[1].id /\ mem[ReadOffset].size = pending[1].size
              /\ FwNext(mem[ReadOffset].size) = End(1)
         /\ mem[ReadOffset].kind = "padding" =>
              /\ pending[1].off = 0 /\ HostWriteOffset < ReadOffset
              /\ ReadOffset + Pad + mem[ReadOffset].size = Size
              /\ FwNext(Pad + mem[ReadOffset].size) = 0
<1>1. PICK known \in [0 .. Len(kicks) -> 0 .. handed] : KicksCover(known)
  BY DEF ContentsInv, HandedOver
<1>2. Covers(fwWriteOffset, fwWrapMask, known[0])
  BY <1>1 DEF KicksCover
<1>3. known[0] \in 0 .. handed /\ handed \in 0 .. Len(pending) /\ Len(pending) \in Nat
  <2>1. Len(kicks) \in Nat
    BY DEF IInv, TypeOK
  <2> QED
    BY <2>1, RingNumbers DEF ContentsInv, HandedOver, IInv
<1>4. known[0] # 0
  BY <1>2 DEF Covers, Position
<1>5. handed \in 1 .. Len(pending) /\ 1 \in 1 .. known[0] /\ 1 \in 1 .. Len(pending)
  BY <1>3, <1>4
<1>6. /\ ReadOffset \in Nat /\ ReadOffset \in Offsets /\ Size \in Nat /\ Pad \in Nat /\ Pad > 0
      /\ HostWriteOffset \in Nat /\ HostWriteOffset < Size /\ ReadOffset < Size
      /\ pending[1].off \in Nat /\ pending[1].size \in Nat /\ pending[1].size > 0
      /\ End(1) = pending[1].off + pending[1].size
      /\ Lap(pending[1].off) + pending[1].size <= Lap(HostWriteOffset)
  BY <1>5, RingNumbers DEF ContentsInv, Layout, IInv, End
<1>7. /\ End(1) + Pad <= fwWrapMask + 1 /\ fwWrapMask \in Int
      /\ pending[1].off < ReadOffset => fwWrapMask + 1 = Size
  BY <1>2, <1>5, MaskNumbers DEF Covers, IInv
<1>8. Intact(1) /\ Follows(pending[1].off, ReadOffset)
  BY <1>5, IntactParts DEF ContentsInv, Chained, Before, IInv
<1>9. pending[1].off = ReadOffset \/ (pending[1].off = 0 /\ PaddedAt(ReadOffset))
  BY <1>8 DEF Follows
<1>10. ASSUME mem[ReadOffset].kind = "command"
       PROVE  /\ pending[1].off = ReadOffset
              /\ mem[ReadOffset].id = pending[1].id /\ mem[ReadOffset].size = pending[1].size
              /\ FwNext(mem[ReadOffset].size) = End(1)
  <2>1. pending[1].off = ReadOffset
    BY <1>9, <1>10 DEF PaddedAt
  <2>2. mem[ReadOffset].id = pending[1].id /\ mem[ReadOffset].size = pending[1].size
    BY <1>8, <2>1 DEF Intact, Header
  <2>3. FwNext(pending[1].size) = (ReadOffset + pending[1].size) % (fwWrapMask + 1)
    BY DEF FwNext, CCBOffset
  <2>4. /\ fwWrapMask + 1 \in Nat /\ fwWrapMask + 1 > 0
        /\ ReadOffset + pending[1].size \in Int /\ 0 <= ReadOffset + pending[1].size
        /\ ReadOffset + pending[1].size < fwWrapMask + 1
    BY <1>6, <1>7, <2>1
  <2>5. (ReadOffset + pending[1].size) % (fwWrapMask + 1) = ReadOffset + pending[1].size
    BY <2>4, ModSmall
  <2> QED
    BY <1>6, <2>1, <2>2, <2>3, <2>5
<1>11. ASSUME mem[ReadOffset].kind = "padding"
       PROVE  /\ pending[1].off = 0 /\ HostWriteOffset < ReadOffset
              /\ ReadOffset + Pad + mem[ReadOffset].size = Size
              /\ FwNext(Pad + mem[ReadOffset].size) = 0
  <2>1. pending[1].off # ReadOffset
    BY <1>8, <1>11 DEF Intact, Header
  <2>2. pending[1].off = 0 /\ ReadOffset + Pad + mem[ReadOffset].size = Size
    BY <1>9, <2>1 DEF PaddedAt
  <2>3. ReadOffset > 0
    BY <1>6, <2>1, <2>2
  <2>4. fwWrapMask + 1 = Size
    BY <1>7, <2>2, <2>3
  <2>5. HostWriteOffset < ReadOffset
    BY <1>6, <2>2, <2>3 DEF Lap
  <2>6. mem[ReadOffset].size \in Nat
    BY CellNat DEF IInv
  <2>7. ReadOffset + (Pad + mem[ReadOffset].size) = Size /\ Size % Size = 0
    BY <1>6, <2>2, <2>6
  <2>8. FwNext(Pad + mem[ReadOffset].size) = 0
    BY <2>4, <2>7 DEF FwNext, CCBOffset
  <2> QED
    BY <2>2, <2>5, <2>8
<1> QED
  BY <1>5, <1>10, <1>11

(* What the firmware clears is disjoint from what the host has acquired.   *)
LEMMA FirmwareSpares ==
  ASSUME IInv, ContentsInv, NEW a \in Nat, NEW n \in Nat,
         \A o \in a .. a + n - 1 :
            /\ o >= ReadOffset
            /\ ReadOffset <= HostWriteOffset => o < HostWriteOffset,
         a + n <= Size,
         \A o \in Offsets : o \notin a .. a + n - 1 => mem'[o] = mem[o],
         UNCHANGED <<HostWriteOffset, Size, pc, cmdSize, buf, nextId>>,
         \/ ReadOffset <= HostWriteOffset /\ ReadOffset <= ReadOffset' /\ ReadOffset' <= HostWriteOffset
         \/ HostWriteOffset < ReadOffset /\ (ReadOffset <= ReadOffset' \/ ReadOffset' = 0),
         ReadOffset' \in Nat
  PROVE  SpaceReserved' /\ CommandWritten' /\ GrowsStraight'
<1>1. /\ ReadOffset \in Nat /\ HostWriteOffset \in Nat /\ Size \in Nat
      /\ HostWriteOffset \in Offsets /\ HostWriteOffset < Size
      /\ \A o \in Nat : o < Size => o \in Offsets
  BY RingNumbers DEF IInv
<1>2. Fits' = Fits /\ Remain' = Remain
  BY DEF Fits, Remain
<1>3. GrowsStraight'
  BY <1>1 DEF ContentsInv, GrowsStraight
<1>4. SpaceReserved'
  <2> SUFFICES ASSUME pc \in {"acquired", "written"} PROVE SpaceReserved'
    BY DEF SpaceReserved
  <2>1. SpaceReserved /\ cmdSize \in Nat
    BY ReservedIsFree DEF ContentsInv
  <2>2. CASE Fits
    BY <1>1, <1>2, <2>1, <2>2 DEF SpaceReserved
  <2>3. CASE ~Fits
    <3>1. /\ buf = 0 /\ cmdSize < ReadOffset /\ ReadOffset <= HostWriteOffset
          /\ mem[HostWriteOffset] = Padding(Remain - Pad)
      BY <2>1, <2>3 DEF SpaceReserved
    <3>2. HostWriteOffset \notin a .. a + n - 1
      BY <1>1, <3>1
    <3>3. mem'[HostWriteOffset] = mem[HostWriteOffset]
      BY <1>1, <3>2
    <3>4. cmdSize < ReadOffset' /\ ReadOffset' <= HostWriteOffset
      BY <1>1, <2>1, <3>1
    <3> QED
      BY <1>2, <2>3, <3>1, <3>3, <3>4 DEF SpaceReserved, Padding
  <2> QED
    BY <2>2, <2>3
<1>5. CommandWritten'
  <2> SUFFICES ASSUME pc = "written" PROVE CommandWritten'
    BY DEF CommandWritten
  <2>1. /\ buf \in Nat /\ cmdSize \in Nat /\ cmdSize > 0 /\ buf + cmdSize < Size
        /\ Free(buf, cmdSize)
    BY ReservedIsFree
  <2>2. ASSUME NEW o \in buf .. buf + cmdSize - 1 PROVE mem'[o] = mem[o]
    <3>1. o \in Nat /\ o \in Offsets
      BY <1>1, <2>1
    <3>2. o \notin a .. a + n - 1
      <4> SUFFICES ASSUME o \in a .. a + n - 1 PROVE FALSE
        OBVIOUS
      <4>1. o >= ReadOffset /\ (ReadOffset <= HostWriteOffset => o < HostWriteOffset)
        OBVIOUS
      <4> QED
        BY <1>1, <2>1, <4>1 DEF Free
    <3> QED
      BY <3>1, <3>2
  <2>3. /\ mem[buf] = Header(nextId, cmdSize)
        /\ \A o \in buf + 1 .. buf + cmdSize - 1 : mem[o] = Body(nextId)
    BY DEF ContentsInv, CommandWritten
  <2>4. buf \in buf .. buf + cmdSize - 1
        /\ \A o \in buf + 1 .. buf + cmdSize - 1 : o \in buf .. buf + cmdSize - 1
    BY <2>1
  <2>5. mem'[buf] = Header(nextId, cmdSize)
    BY <2>2, <2>3, <2>4
  <2>6. ASSUME NEW o \in buf + 1 .. buf + cmdSize - 1 PROVE mem'[o] = Body(nextId)
    BY <2>2, <2>3, <2>4
  <2> QED
    BY <2>5, <2>6 DEF CommandWritten, Header, Body
<1> QED
  BY <1>3, <1>4, <1>5

(* The firmware executes the oldest command.                               *)
LEMMA ExecuteKeeps == ASSUME IInv, ContentsInv, FwExecute, TypeOK' PROVE ContentsInv'
<1> PICK P \in Nat : P = Len(pending)
  BY RingNumbers DEF IInv
<1>1. /\ ReadOffset # fwWriteOffset /\ mem[ReadOffset].kind = "command"
      /\ Consume(mem[ReadOffset].size)
      /\ pending' = SubSeq(pending, 2, Len(pending)) /\ handed' = handed - 1
      /\ UNCHANGED <<HostWriteOffset, Size, kicks, fwWriteOffset, fwWrapMask>>
      /\ UNCHANGED <<pc, cmdSize, buf, nextId>>
  BY DEF FwExecute, hostVars, callVars
<1>2. /\ handed \in 1 .. P /\ pending[1].off = ReadOffset
      /\ mem[ReadOffset].size = pending[1].size
      /\ FwNext(mem[ReadOffset].size) = End(1)
  BY <1>1, FirmwareReads
<1>3. /\ ReadOffset \in Nat /\ HostWriteOffset \in Nat /\ Size \in Nat /\ Pad \in Nat /\ Pad > 0
      /\ HostWriteOffset < Size /\ ReadOffset < Size
      /\ 1 \in 1 .. P /\ P >= 1
      /\ pending[1].size \in Nat /\ pending[1].size > 0
      /\ End(1) = ReadOffset + pending[1].size /\ End(1) \in Nat
      /\ End(1) + Pad <= Size
      /\ Lap(ReadOffset) + pending[1].size <= Lap(HostWriteOffset)
  BY <1>2, RingNumbers DEF ContentsInv, Layout, IInv, End
<1>4. /\ ReadOffset' = End(1)
      /\ mem' = [o \in Offsets |->
               IF o \in ReadOffset .. ReadOffset + pending[1].size - 1 THEN Stale ELSE mem[o]]
  BY <1>1, <1>2 DEF Consume
<1>5. /\ Len(pending') = P - 1 /\ P - 1 \in Nat
      /\ \A i \in 1 .. P - 1 : pending'[i] = pending[i + 1] /\ i + 1 \in 1 .. P
  <2>1. pending \in Seq([id : Ids, off : Offsets, size : CmdSizes])
    BY DEF IInv, TypeOK
  <2>2. Len(pending) >= 1
    BY <1>3
  <2>3. /\ Len(pending') = Len(pending) - 1
        /\ \A i \in 1 .. Len(pending) - 1 : pending'[i] = pending[i + 1]
    BY <1>1, <2>1, <2>2, WithoutFirst
  <2> QED
    BY <1>3, <2>3
<1>6. /\ Layout /\ HandedOver /\ (\A i \in 1 .. P : Intact(i)) /\ Chained
  BY IntactParts DEF ContentsInv, IInv
<1>7. HostWriteOffset < ReadOffset \/ (ReadOffset <= HostWriteOffset /\ End(1) <= HostWriteOffset)
  BY <1>3 DEF Lap
<1>8. ASSUME NEW o \in Nat, o < Size, Lap(o) >= End(1) PROVE Lap(o)' = Lap(o)
  BY <1>1, <1>3, <1>4, <1>8 DEF Lap
<1>9. ASSUME NEW i \in 1 .. P - 1
      PROVE  /\ pending[i + 1].off \in Nat /\ pending[i + 1].size \in Nat /\ pending[i + 1].size > 0
             /\ End(i)' = End(i + 1) /\ End(i + 1) = pending[i + 1].off + pending[i + 1].size
             /\ End(i + 1) + Pad <= Size
             /\ Lap(pending[i + 1].off) >= End(1)
             /\ Lap(pending[i].off)' = Lap(pending[i + 1].off)
             /\ Lap(pending[i + 1].off) + pending[i + 1].size <= Lap(HostWriteOffset)
  <2>1. i + 1 \in 1 .. P /\ 1 < i + 1 /\ pending'[i] = pending[i + 1]
    BY <1>5
  <2>2. /\ pending[i + 1].off \in Nat /\ pending[i + 1].size \in Nat /\ pending[i + 1].size > 0
        /\ End(i + 1) = pending[i + 1].off + pending[i + 1].size
        /\ End(i + 1) + Pad <= Size
        /\ Lap(pending[i + 1].off) + pending[i + 1].size <= Lap(HostWriteOffset)
        /\ Lap(ReadOffset) + pending[1].size <= Lap(pending[i + 1].off)
    BY <1>2, <1>3, <1>6, <2>1, RingNumbers DEF Layout, IInv, End
  <2>3. Lap(pending[i + 1].off) >= End(1)
    <3>1. ReadOffset \in Nat /\ Lap(ReadOffset) = ReadOffset
      BY <1>3 DEF Lap
    <3> QED
      BY <1>3, <2>2, <3>1
  <2>4. pending[i + 1].off < Size
    BY <1>3, <2>2
  <2>5. Lap(pending[i].off)' = Lap(pending[i + 1].off)
    <3>1. Lap(pending[i + 1].off)' = IF pending'[i + 1].off < ReadOffset' THEN pending'[i + 1].off + Size' ELSE pending'[i + 1].off
      BY DEF Lap
    <3> PICK o \in Nat : o = pending[i + 1].off
      BY <2>2
    <3>2. Lap(o)' = Lap(o)
      BY <1>8, <2>3, <2>4
    <3>3. Lap(pending[i].off)' = Lap(o)'
      BY <2>1 DEF Lap
    <3> QED
      BY <3>2, <3>3
  <2>6. End(i)' = End(i + 1)
    BY <2>1, <2>2 DEF End
  <2> QED
    BY <2>2, <2>3, <2>5, <2>6
<1>10. Lap(HostWriteOffset) >= End(1) /\ Lap(HostWriteOffset)' = Lap(HostWriteOffset)
  BY <1>1, <1>3, <1>4 DEF Lap
<1>12. Layout'
  <2>1. ReadOffset' < Size'
    BY <1>1, <1>3, <1>4
  <2>2. ASSUME NEW i \in 1 .. Len(pending')
        PROVE  /\ End(i)' + Pad <= Size'
               /\ Lap(pending[i].off)' + pending'[i].size <= Lap(HostWriteOffset)'
    BY <1>1, <1>5, <1>9, <1>10
  <2>3. ASSUME NEW i \in 1 .. Len(pending'), NEW j \in 1 .. Len(pending'), i < j
        PROVE  Lap(pending[i].off)' + pending'[i].size <= Lap(pending[j].off)'
    <3>1. i \in 1 .. P - 1 /\ j \in 1 .. P - 1 /\ i + 1 < j + 1 /\ i + 1 \in 1 .. P /\ j + 1 \in 1 .. P
      BY <1>5, <2>3
    <3>2. Lap(pending[i + 1].off) + pending[i + 1].size <= Lap(pending[j + 1].off)
      BY <1>6, <3>1 DEF Layout
    <3> QED
      BY <1>5, <1>9, <3>1, <3>2
  <2> QED
    BY <2>1, <2>2, <2>3 DEF Layout
<1>13. ASSUME NEW o \in Offsets, o \notin ReadOffset .. End(1) - 1 PROVE mem'[o] = mem[o]
  BY <1>3, <1>4, <1>13
<1>14. ASSUME NEW i \in 1 .. P - 1
       PROVE  /\ \A o \in pending[i + 1].off .. End(i + 1) : o \in Offsets /\ o \notin ReadOffset .. End(1) - 1
              /\ End(1) \in Offsets
  <2>1. \A o \in Nat : o < Size => o \in Offsets
    BY RingNumbers DEF IInv
  <2>2. /\ pending[i + 1].off \in Nat /\ pending[i + 1].size \in Nat /\ pending[i + 1].size > 0
        /\ End(i + 1) = pending[i + 1].off + pending[i + 1].size
        /\ End(i + 1) + Pad <= Size
        /\ Lap(pending[i + 1].off) >= End(1)
        /\ Lap(pending[i + 1].off) + pending[i + 1].size <= Lap(HostWriteOffset)
    BY <1>9
  <2>3. PICK x \in Nat, m \in Nat, e \in Nat :
          x = pending[i + 1].off /\ m = pending[i + 1].size /\ e = End(i + 1)
    BY <2>2
  <2>4. /\ e = x + m /\ m > 0 /\ e + Pad <= Size
        /\ Lap(x) >= End(1) /\ Lap(x) + m <= Lap(HostWriteOffset)
    BY <2>2, <2>3
  <2>5. /\ ReadOffset \in Nat /\ HostWriteOffset \in Nat /\ Size \in Nat /\ Pad \in Nat /\ Pad > 0
        /\ HostWriteOffset < Size /\ ReadOffset < End(1) /\ End(1) \in Nat /\ End(1) < Size
    BY <1>3
  <2>6. x >= End(1) \/ e < ReadOffset
    <3>1. CASE x >= ReadOffset
      <4>1. Lap(x) = x
        BY <3>1, <2>5 DEF Lap
      <4> QED
        BY <2>4, <4>1
    <3>2. CASE x < ReadOffset
      <4>1. Lap(x) = x + Size
        BY <3>2 DEF Lap
      <4>2. HostWriteOffset < ReadOffset
        <5>1. CASE ~(HostWriteOffset < ReadOffset)
          <6>1. Lap(HostWriteOffset) = HostWriteOffset
            BY <5>1 DEF Lap
          <6> QED
            BY <2>4, <2>5, <4>1, <6>1
        <5> QED
          BY <5>1
      <4>3. Lap(HostWriteOffset) = HostWriteOffset + Size
        BY <4>2 DEF Lap
      <4> QED
        BY <2>4, <2>5, <4>1, <4>2, <4>3
    <3> QED
      BY <2>5, <3>1, <3>2
  <2>7. ASSUME NEW o \in x .. e PROVE o \in Offsets /\ o \notin ReadOffset .. End(1) - 1
    <3>1. o \in Nat /\ o < Size
      BY <2>4, <2>5
    <3>2. o >= End(1) \/ o < ReadOffset
      BY <2>5, <2>6
    <3> QED
      BY <2>1, <2>5, <3>1, <3>2
  <2> QED
    BY <2>1, <2>3, <2>5, <2>7
<1>15. ASSUME NEW i \in 1 .. P - 1 PROVE Intact(i)'
  <2>1. Intact(i + 1) /\ pending'[i] = pending[i + 1] /\ End(i)' = End(i + 1)
    BY <1>5, <1>6, <1>9
  <2>2. pending[i + 1].off \in Nat /\ pending[i + 1].size \in Nat /\ pending[i + 1].size > 0
        /\ End(i + 1) = pending[i + 1].off + pending[i + 1].size
    BY <1>9
  <2>3. ASSUME NEW o \in pending[i + 1].off .. End(i + 1) - 1 PROVE mem'[o] = mem[o]
    <3>1. o \in pending[i + 1].off .. End(i + 1)
      BY <2>2
    <3> QED
      BY <1>13, <1>14, <3>1
  <2>4. mem'[pending'[i].off] = Header(pending'[i].id, pending'[i].size)
    <3>1. pending[i + 1].off \in pending[i + 1].off .. End(i + 1) - 1
      BY <2>2
    <3> QED
      BY <2>1, <2>3, <3>1 DEF Intact
  <2>5. ASSUME NEW o \in pending'[i].off + 1 .. End(i)' - 1 PROVE mem'[o] = Body(pending'[i].id)
    <3>1. o \in pending[i + 1].off + 1 .. End(i + 1) - 1 /\ o \in pending[i + 1].off .. End(i + 1) - 1
      BY <2>1, <2>2
    <3>2. mem[o] = Body(pending[i + 1].id)
      BY <2>1, <3>1 DEF Intact
    <3> QED
      BY <2>1, <2>3, <3>1, <3>2
  <2> QED
    BY <2>4, <2>5 DEF Intact, Header, Body
<1>16. ASSUME NEW i \in 1 .. P - 1 PROVE Follows(pending[i].off, Before(i))'
  <2>1. /\ Follows(pending[i + 1].off, End(i)) /\ pending'[i] = pending[i + 1]
        /\ i + 1 \in 1 .. P
    <3>1. Before(i + 1) = End(i)
      BY DEF Before
    <3> QED
      BY <1>5, <1>6, <3>1 DEF Chained
  <2>2. Before(i)' = End(i)
    <3>1. CASE i = 1
      BY <1>4, <3>1 DEF Before
    <3>2. CASE i # 1
      <4>1. i - 1 \in 1 .. P - 1 /\ (i - 1) + 1 = i
        BY <3>2
      <4>2. End(i - 1)' = End((i - 1) + 1)
        BY <1>9, <4>1
      <4> QED
        BY <3>2, <4>1, <4>2 DEF Before
    <3> QED
      BY <3>1, <3>2
  <2>3. End(i) \in Offsets /\ End(i) \notin ReadOffset .. End(1) - 1
    <3>1. CASE i = 1
      <4>1. End(1) \in Offsets
        BY <1>14
      <4>2. End(1) \notin ReadOffset .. End(1) - 1
        BY <1>3
      <4> QED
        BY <3>1, <4>1, <4>2
    <3>2. CASE i # 1
      <4>1. i - 1 \in 1 .. P - 1 /\ (i - 1) + 1 = i
        BY <3>2
      <4>2. /\ pending[i].off \in Nat /\ pending[i].size \in Nat /\ End(i) = pending[i].off + pending[i].size
            /\ \A o \in pending[i].off .. End(i) : o \in Offsets /\ o \notin ReadOffset .. End(1) - 1
        BY <1>9, <1>14, <4>1
      <4>3. End(i) \in pending[i].off .. End(i)
        BY <4>2
      <4> QED
        BY <4>2, <4>3
    <3> QED
      BY <3>1, <3>2
  <2>4. PaddedAt(End(i)) => mem'[End(i)].kind = "padding" /\ End(i) + Pad + mem'[End(i)].size = Size'
    BY <1>1, <1>13, <2>3 DEF PaddedAt
  <2> PICK e : e = End(i)
    OBVIOUS
  <2>5. pending'[i].off = e \/ (pending'[i].off = 0 /\ PaddedAt(e)')
    BY <2>1, <2>4 DEF Follows, PaddedAt
  <2>6. Before(i)' = e
    BY <2>2
  <2> QED
    BY <2>5, <2>6 DEF Follows, PaddedAt
<1>17. HostWriteOffset' = Position(P - 1)'
  <2>1. HostWriteOffset = End(P)
    BY <1>3, <1>6 DEF Chained, Position
  <2>2. CASE P = 1
    BY <1>1, <1>4, <2>1, <2>2 DEF Position
  <2>3. CASE P # 1
    <3>1. P - 1 \in 1 .. P - 1 /\ (P - 1) + 1 = P
      BY <1>3, <2>3
    <3>2. End(P - 1)' = End(P)
      <4>1. End(P - 1)' = End((P - 1) + 1)
        BY <1>9, <3>1
      <4> QED
        BY <3>1, <4>1
    <3> QED
      BY <1>1, <2>1, <3>1, <3>2 DEF Position
  <2> QED
    BY <2>2, <2>3
<1>18. UnreadIntact'
  <2>1. (\A i \in 1 .. Len(pending) : Intact(i))'
    BY <1>5, <1>15
  <2>2. Chained'
    BY <1>5, <1>16, <1>17 DEF Chained
  <2>3. TypeOK' => (UnreadIntact' <=> (\A i \in 1 .. Len(pending) : Intact(i))' /\ Chained')
    BY IntactParts, PTL
  <2> QED
    BY <2>1, <2>2, <2>3
<1>19. HandedOver'
  <2>1. PICK known \in [0 .. Len(kicks) -> 0 .. handed] : KicksCover(known)
    BY <1>6 DEF HandedOver
  <2> PICK K \in Nat : K = Len(kicks)
    BY DEF IInv, TypeOK
  <2> PICK now : now = [i \in 0 .. K |-> known[i] - 1]
    OBVIOUS
  <2>2. known[0] # 0
    BY <1>1, <2>1 DEF KicksCover, Covers, Position
  <2>3. \A i \in 0 .. K : known[i] \in 1 .. handed /\ known[i] \in 1 .. P
    <3> SUFFICES ASSUME NEW i \in 0 .. K PROVE known[i] \in 1 .. handed /\ known[i] \in 1 .. P
      OBVIOUS
    <3>1. known[0] <= known[i] /\ known[0] \in 0 .. handed /\ known[i] \in 0 .. handed
      BY <2>1 DEF KicksCover
    <3> QED
      BY <1>2, <2>2, <3>1
  <2>4. ASSUME NEW woff, NEW mask \in Int, NEW n \in 1 .. P, Covers(woff, mask, n)
        PROVE  Covers(woff, mask, n - 1)'
    <3>1. /\ woff = End(n) /\ mask + 1 <= Size
          /\ \A i \in 1 .. n : /\ End(i) + Pad <= mask + 1
                               /\ pending[i].off < ReadOffset => mask + 1 = Size
      <4>1. n # 0
        OBVIOUS
      <4>2. Position(n) = End(n)
        BY <4>1 DEF Position
      <4> QED
        BY <2>4, <4>2, Zenon DEF Covers
    <3>2. Position(n - 1)' = End(n)
      <4>1. CASE n = 1
        BY <1>4, <4>1 DEF Position
      <4>2. CASE n # 1
        <5>1. n - 1 \in 1 .. P - 1 /\ (n - 1) + 1 = n
          BY <4>2
        <5>2. End(n - 1)' = End((n - 1) + 1)
          BY <1>9, <5>1
        <5> QED
          BY <5>1, <5>2 DEF Position
      <4> QED
        BY <4>1, <4>2
    <3>3. ASSUME NEW i \in 1 .. n - 1
          PROVE  End(i)' + Pad <= mask + 1 /\ (pending'[i].off < ReadOffset' => mask + 1 = Size)
      <4>1. i \in 1 .. P - 1 /\ i + 1 \in 1 .. n
        BY <1>3
      <4>2. /\ End(i)' = End(i + 1) /\ pending'[i] = pending[i + 1]
            /\ pending[i + 1].off \in Nat /\ Lap(pending[i + 1].off) >= End(1)
        BY <1>5, <1>9, <4>1
      <4>3. pending'[i].off < End(1) => pending[i + 1].off < ReadOffset
        BY <1>3, <4>2 DEF Lap
      <4> QED
        BY <1>4, <3>1, <4>1, <4>2, <4>3
    <3> QED
      BY <1>1, <3>1, <3>2, <3>3 DEF Covers
  <2>5. now \in [0 .. Len(kicks') -> 0 .. handed']
    BY <1>1, <1>2, <2>3
  <2>6. KicksCover(now)'
    <3>1. \A i \in 0 .. K : now[i] = known[i] - 1
      OBVIOUS
    <3>2. fwWrapMask \in Int /\ \A i \in 1 .. K : kicks[i].CWrapMaskUpdate \in Int
      BY MaskNumbers DEF IInv
    <3>3. Covers(fwWriteOffset, fwWrapMask, now[0])'
      <4>1. Covers(fwWriteOffset, fwWrapMask, known[0]) /\ known[0] \in 1 .. P
        BY <2>1, <2>3 DEF KicksCover
      <4> QED
        BY <1>1, <2>4, <3>1, <3>2, <4>1
    <3>4. ASSUME NEW i \in 1 .. K
          PROVE  Covers(kicks[i].CWoffUpdate, kicks[i].CWrapMaskUpdate, now[i])'
      <4>1. /\ Covers(kicks[i].CWoffUpdate, kicks[i].CWrapMaskUpdate, known[i])
            /\ known[i] \in 1 .. P /\ kicks' = kicks
        BY <1>1, <2>1, <2>3 DEF KicksCover
      <4> QED
        BY <2>4, <3>1, <3>2, <4>1
    <3>5. ASSUME NEW i \in 0 .. K, NEW j \in 0 .. K, i <= j PROVE now[i] <= now[j]
      <4>1. known[i] <= known[j] /\ known[i] \in 1 .. P /\ known[j] \in 1 .. P
        BY <2>1, <2>3, <3>5 DEF KicksCover
      <4> QED
        BY <3>1, <4>1
    <3> QED
      BY <1>1, <3>3, <3>4, <3>5 DEF KicksCover
  <2>7. handed' \in 0 .. Len(pending')
    BY <1>1, <1>2, <1>5
  <2> QED
    BY <2>5, <2>6, <2>7 DEF HandedOver
<1>20. SpaceReserved' /\ CommandWritten' /\ GrowsStraight'
  <2>1. ASSUME NEW o \in ReadOffset .. ReadOffset + pending[1].size - 1
        PROVE  o >= ReadOffset /\ (ReadOffset <= HostWriteOffset => o < HostWriteOffset)
    BY <1>3, <1>7
  <2>2. ReadOffset + pending[1].size <= Size /\ pending[1].size \in Nat /\ ReadOffset \in Nat
    BY <1>3
  <2>3. \A o \in Offsets : o \notin ReadOffset .. ReadOffset + pending[1].size - 1 => mem'[o] = mem[o]
    BY <1>4
  <2>4. \/ ReadOffset <= HostWriteOffset /\ ReadOffset <= ReadOffset' /\ ReadOffset' <= HostWriteOffset
        \/ HostWriteOffset < ReadOffset /\ (ReadOffset <= ReadOffset' \/ ReadOffset' = 0)
    BY <1>3, <1>4, <1>7
  <2>5. ReadOffset' \in Nat
    BY <1>3, <1>4
  <2> QED
    BY <1>1, <2>1, <2>2, <2>3, <2>4, <2>5, FirmwareSpares
<1> QED
  BY <1>12, <1>18, <1>19, <1>20 DEF ContentsInv

(* The firmware comes round to the start of the ring.                      *)
LEMMA SkipKeeps == ASSUME IInv, ContentsInv, FwSkipPadding, TypeOK' PROVE ContentsInv'
<1> PICK P \in Nat : P = Len(pending)
  BY RingNumbers DEF IInv
<1>1. /\ ReadOffset # fwWriteOffset /\ mem[ReadOffset].kind = "padding"
      /\ Consume(Pad + mem[ReadOffset].size)
      /\ UNCHANGED <<HostWriteOffset, Size, kicks, fwWriteOffset, fwWrapMask>>
      /\ UNCHANGED <<pending, handed>>
      /\ UNCHANGED <<pc, cmdSize, buf, nextId>>
  BY DEF FwSkipPadding, hostVars, callVars, history
<1>2. /\ handed \in 1 .. P /\ pending[1].off = 0 /\ HostWriteOffset < ReadOffset
      /\ ReadOffset + Pad + mem[ReadOffset].size = Size
      /\ FwNext(Pad + mem[ReadOffset].size) = 0
  BY <1>1, FirmwareReads
<1>3. /\ ReadOffset \in Nat /\ HostWriteOffset \in Nat /\ Size \in Nat /\ Pad \in Nat /\ Pad > 0
      /\ HostWriteOffset < Size /\ ReadOffset < Size /\ ReadOffset > 0
      /\ mem[ReadOffset].size \in Nat
      /\ 1 \in 1 .. P /\ P >= 1
      /\ pending[1].size \in Nat /\ pending[1].size > 0
  BY <1>2, RingNumbers, CellNat DEF ContentsInv, Layout, IInv
<1>4. /\ ReadOffset' = 0
      /\ mem' = [o \in Offsets |-> IF o \in ReadOffset .. Size - 1 THEN Stale ELSE mem[o]]
  <2>1. ReadOffset + (Pad + mem[ReadOffset].size) - 1 = Size - 1
    BY <1>2, <1>3
  <2> QED
    BY <1>1, <1>2, <2>1 DEF Consume
<1>5. Layout /\ HandedOver /\ (\A i \in 1 .. P : Intact(i)) /\ Chained
  BY IntactParts DEF ContentsInv, IInv
<1>6. ASSUME NEW i \in 1 .. P
      PROVE  /\ pending[i].off \in Nat /\ pending[i].size \in Nat /\ pending[i].size > 0
             /\ End(i) = pending[i].off + pending[i].size /\ End(i) + Pad <= Size
             /\ End(i) \in Nat
             /\ pending[i].off < ReadOffset /\ End(i) <= HostWriteOffset
             /\ End(i)' = End(i) /\ Lap(pending[i].off)' = pending[i].off
  <2>1. /\ pending[i].off \in Nat /\ pending[i].size \in Nat /\ pending[i].size > 0
        /\ End(i) = pending[i].off + pending[i].size /\ End(i) + Pad <= Size
        /\ Lap(pending[i].off) + pending[i].size <= Lap(HostWriteOffset)
    BY <1>5, RingNumbers DEF Layout, IInv, End
  <2>2. pending[i].off < ReadOffset
    <3>1. CASE i = 1
      BY <1>2, <1>3, <3>1
    <3>2. CASE i # 1
      <4>1. Lap(pending[1].off) + pending[1].size <= Lap(pending[i].off)
        BY <1>3, <1>5, <3>2 DEF Layout
      <4>2. Lap(pending[1].off) = Size
        BY <1>2, <1>3 DEF Lap
      <4> QED
        BY <1>3, <2>1, <4>1, <4>2 DEF Lap
    <3> QED
      BY <3>1, <3>2
  <2>3. Lap(pending[i].off) = pending[i].off + Size /\ Lap(HostWriteOffset) = HostWriteOffset + Size
    BY <1>2, <2>2 DEF Lap
  <2>4. End(i) <= HostWriteOffset
    BY <1>3, <2>1, <2>3
  <2>5. End(i)' = End(i)
    BY <1>1 DEF End
  <2>6. Lap(pending[i].off)' = pending[i].off
    BY <1>1, <1>4, <2>1 DEF Lap
  <2> QED
    <3>1. End(i) \in Nat
      BY <2>1
    <3> QED
      BY <2>1, <2>2, <2>4, <2>5, <2>6, <3>1
<1>7. Lap(HostWriteOffset)' = HostWriteOffset
  BY <1>1, <1>3, <1>4 DEF Lap
<1>8. Layout'
  <2>1. ReadOffset' < Size'
    BY <1>1, <1>3, <1>4
  <2>2. ASSUME NEW i \in 1 .. P
        PROVE  /\ End(i)' + Pad <= Size'
               /\ Lap(pending[i].off)' + pending'[i].size <= Lap(HostWriteOffset)'
    BY <1>1, <1>6, <1>7
  <2>3. ASSUME NEW i \in 1 .. P, NEW j \in 1 .. P, i < j
        PROVE  Lap(pending[i].off)' + pending'[i].size <= Lap(pending[j].off)'
    <3>1. Lap(pending[i].off) + pending[i].size <= Lap(pending[j].off)
      BY <1>5, <2>3 DEF Layout
    <3>2. Lap(pending[i].off) = pending[i].off + Size /\ Lap(pending[j].off) = pending[j].off + Size
      BY <1>6 DEF Lap
    <3>3. pending[i].off + pending[i].size <= pending[j].off
      <4>1. /\ pending[i].off \in Nat /\ pending[i].size \in Nat /\ pending[j].off \in Nat
        BY <1>6
      <4> QED
        BY <1>3, <3>1, <3>2, <4>1
    <3> QED
      BY <1>1, <1>6, <3>3
  <2> QED
    BY <1>1, <2>1, <2>2, <2>3 DEF Layout
<1>9. ASSUME NEW o \in Nat, o < ReadOffset PROVE o \in Offsets /\ mem'[o] = mem[o]
  <2>1. o \in Offsets
    BY <1>3, <1>9, RingNumbers DEF IInv
  <2> QED
    BY <1>3, <1>4, <1>9, <2>1
<1>10. ASSUME NEW i \in 1 .. P PROVE Intact(i)'
  <2>1. Intact(i)
    BY <1>5
  <2>2. ASSUME NEW o \in pending[i].off .. End(i) - 1 PROVE mem'[o] = mem[o]
    <3>1. /\ pending[i].off \in Nat /\ End(i) \in Nat /\ End(i) <= HostWriteOffset
      BY <1>6
    <3>0. /\ HostWriteOffset < ReadOffset /\ HostWriteOffset \in Nat /\ ReadOffset \in Nat
      BY <1>2, <1>3
    <3>2. o \in Nat /\ o < ReadOffset
      BY <3>0, <3>1
    <3> QED
      BY <1>9, <3>2
  <2>3. /\ pending[i].off \in pending[i].off .. End(i) - 1
        /\ \A o \in pending[i].off + 1 .. End(i) - 1 : o \in pending[i].off .. End(i) - 1
    BY <1>6
  <2>4. mem'[pending[i].off] = Header(pending[i].id, pending[i].size)
    BY <2>1, <2>2, <2>3 DEF Intact
  <2>5. ASSUME NEW o \in pending[i].off + 1 .. End(i) - 1 PROVE mem'[o] = Body(pending[i].id)
    BY <2>1, <2>2, <2>3 DEF Intact
  <2> QED
    BY <1>1, <1>6, <2>4, <2>5 DEF Intact, Header, Body
<1>11. ASSUME NEW i \in 1 .. P PROVE Follows(pending[i].off, Before(i))'
  <2>1. CASE i = 1
    BY <1>1, <1>2, <1>4, <2>1 DEF Follows, Before
  <2>2. CASE i # 1
    <3>1. Before(i) = End(i - 1) /\ i - 1 \in 1 .. P
      BY <2>2 DEF Before
    <3>2. Follows(pending[i].off, End(i - 1))
      BY <1>5, <3>1 DEF Chained
    <3>3. mem'[End(i - 1)] = mem[End(i - 1)] /\ End(i - 1)' = End(i - 1)
      <4>1. /\ End(i - 1) \in Nat /\ End(i - 1) <= HostWriteOffset /\ End(i - 1)' = End(i - 1)
        BY <1>6, <3>1
      <4>2. End(i - 1) < ReadOffset
        BY <1>2, <1>3, <4>1
      <4> QED
        BY <1>9, <4>1, <4>2
    <3> PICK e : e = End(i - 1)
      OBVIOUS
    <3>4. pending'[i].off = e \/ (pending'[i].off = 0 /\ PaddedAt(e)')
      BY <1>1, <3>2, <3>3 DEF Follows, PaddedAt
    <3>5. Before(i)' = e
      BY <2>2, <3>3 DEF Before
    <3> QED
      BY <3>4, <3>5 DEF Follows, PaddedAt
  <2> QED
    BY <2>1, <2>2
<1>12. HostWriteOffset' = Position(P)'
  <2>1. HostWriteOffset = End(P) /\ P \in 1 .. P
    BY <1>3, <1>5 DEF Chained, Position
  <2> QED
    BY <1>1, <1>3, <1>6, <2>1 DEF Position
<1>13. UnreadIntact'
  <2>1. (\A i \in 1 .. Len(pending) : Intact(i))'
    BY <1>1, <1>10
  <2>2. Chained'
    BY <1>1, <1>11, <1>12 DEF Chained
  <2>3. TypeOK' => (UnreadIntact' <=> (\A i \in 1 .. Len(pending) : Intact(i))' /\ Chained')
    BY IntactParts, PTL
  <2> QED
    BY <2>1, <2>2, <2>3
<1>14. HandedOver'
  <2>1. PICK known \in [0 .. Len(kicks) -> 0 .. handed] : KicksCover(known)
    BY <1>5 DEF HandedOver
  <2> PICK K \in Nat : K = Len(kicks)
    BY DEF IInv, TypeOK
  <2>2. known[0] # 0
    BY <1>1, <2>1 DEF KicksCover, Covers, Position
  <2>3. \A i \in 0 .. K : known[i] \in 1 .. P
    <3> SUFFICES ASSUME NEW i \in 0 .. K PROVE known[i] \in 1 .. P
      OBVIOUS
    <3>1. known[0] <= known[i] /\ known[0] \in 0 .. handed /\ known[i] \in 0 .. handed
      BY <2>1 DEF KicksCover
    <3> QED
      BY <1>2, <2>2, <3>1
  <2>4. ASSUME NEW woff, NEW mask, NEW n \in 1 .. P, Covers(woff, mask, n)
        PROVE  Covers(woff, mask, n)'
    <3>1. Position(n)' = Position(n)
      BY <1>6 DEF Position
    <3>2. \A i \in 1 .. n : End(i)' = End(i) /\ pending'[i].off \in Nat
      BY <1>1, <1>6
    <3> QED
      BY <1>1, <1>4, <2>4, <3>1, <3>2 DEF Covers
  <2>5. KicksCover(known)'
    <3>1. Covers(fwWriteOffset, fwWrapMask, known[0])'
      BY <1>1, <2>1, <2>3, <2>4 DEF KicksCover
    <3>2. ASSUME NEW i \in 1 .. K
          PROVE  Covers(kicks[i].CWoffUpdate, kicks[i].CWrapMaskUpdate, known[i])'
      <4>1. /\ Covers(kicks[i].CWoffUpdate, kicks[i].CWrapMaskUpdate, known[i])
            /\ known[i] \in 1 .. P /\ kicks' = kicks
        BY <1>1, <2>1, <2>3 DEF KicksCover
      <4> QED
        BY <2>4, <4>1
    <3>3. \A i, j \in 0 .. K : i <= j => known[i] <= known[j]
      BY <2>1 DEF KicksCover
    <3> QED
      BY <1>1, <3>1, <3>2, <3>3 DEF KicksCover
  <2> QED
    BY <1>1, <1>5, <2>1, <2>5 DEF HandedOver
<1>15. SpaceReserved' /\ CommandWritten' /\ GrowsStraight'
  <2> PICK n \in Nat : ReadOffset + n = Size
    BY <1>3
  <2>1. \A o \in Offsets : o \notin ReadOffset .. ReadOffset + n - 1 => mem'[o] = mem[o]
    <3>1. ReadOffset + n - 1 = Size - 1
      BY <1>3
    <3> QED
      BY <1>4, <3>1
  <2>2. \A o \in ReadOffset .. ReadOffset + n - 1 :
          o >= ReadOffset /\ (ReadOffset <= HostWriteOffset => o < HostWriteOffset)
    BY <1>2, <1>3
  <2>3. ReadOffset' \in Nat /\ HostWriteOffset < ReadOffset /\ ReadOffset' = 0
        /\ ReadOffset \in Nat /\ ReadOffset + n <= Size
    BY <1>2, <1>3, <1>4
  <2> QED
    BY <1>1, <2>1, <2>2, <2>3, FirmwareSpares
<1> QED
  BY <1>8, <1>13, <1>14, <1>15 DEF ContentsInv

(* The contents are right at the start, and after every step.              *)
LEMMA ContentsInit == Init => ContentsInv
<1> SUFFICES ASSUME Init PROVE ContentsInv
  OBVIOUS
<1>1. /\ Len(pending) = 0 /\ Len(kicks) = 0 /\ handed = 0 /\ pc = "idle"
      /\ pending = <<>> /\ ReadOffset = 0 /\ HostWriteOffset = 0 /\ fwWriteOffset = 0
      /\ fwWrapMask = InitSize - 1 /\ Size = InitSize
  BY DEF Init
<1>2. InitSize \in Nat /\ InitSize > 1
  BY SizesAssumption, OffsetFacts
<1>3. UnreadIntact
  BY <1>1 DEF UnreadIntact
<1>4. Layout
  BY <1>1, <1>2 DEF Layout
<1>5. HandedOver
  <2> DEFINE known == [i \in 0 .. 0 |-> 0]
  <2>1. known \in [0 .. Len(kicks) -> 0 .. handed]
    BY <1>1
  <2>2. known[0] = 0 /\ \A i \in 0 .. 0 : known[i] = 0
    OBVIOUS
  <2> HIDE DEF known
  <2>3. Covers(fwWriteOffset, fwWrapMask, 0)
    BY <1>1, <1>2 DEF Covers, Position
  <2>4. KicksCover(known)
    BY <1>1, <2>2, <2>3 DEF KicksCover
  <2> QED
    BY <1>1, <2>1, <2>4 DEF HandedOver
<1> QED
  BY <1>1, <1>3, <1>4, <1>5 DEF ContentsInv, SpaceReserved, CommandWritten, GrowsStraight

LEMMA ContentsStep == IInv /\ ContentsInv /\ [Next]_vars => ContentsInv'
<1> SUFFICES ASSUME IInv, ContentsInv, [Next]_vars PROVE ContentsInv'
  OBVIOUS
<1>1. TypeOK'
  BY TypeStep
<1>2. CASE UNCHANGED vars
  <2>1. UnreadIntact' /\ Layout'
    BY <1>2, RingUnmoved DEF ContentsInv, vars
  <2>2. HandedOver'
    BY <1>2, KicksUnmoved DEF ContentsInv, vars
  <2>3. SpaceReserved' /\ CommandWritten' /\ GrowsStraight'
    BY <1>2 DEF vars, ContentsInv, SpaceReserved, CommandWritten, GrowsStraight, Fits, Remain,
       Header, Body, Padding
  <2> QED
    BY <2>1, <2>2, <2>3 DEF ContentsInv
<1>3. CASE HostStep
  BY <1>1, <1>3, QuietSteps, ContiguousKeeps, WrapKeeps, GrowKeeps, CommandKeeps, ReleaseKeeps,
     KickKeeps DEF HostStep
<1>4. CASE FwStep
  BY <1>1, <1>4, TakeKickKeeps, ExecuteKeeps, SkipKeeps DEF FwStep
<1> QED
  BY <1>2, <1>3, <1>4 DEF Next

LEMMA Contents == Spec => []ContentsInv
BY ContentsInit, ContentsStep, Invariant, PTL DEF Spec

(* Nothing the host acquires, pads, grows, abandons or fails to kick       *)
(* overwrites a command the firmware has not read, and the firmware finds  *)
(* the commands in a chain from its read offset to the write offset, for   *)
(* any ring sizes, commands and number of kicks on their way.              *)
THEOREM UnreadStays == Spec => []UnreadIntact
<1>1. ContentsInv => UnreadIntact
  BY DEF ContentsInv
<1> QED
  BY <1>1, Contents, PTL

-----------------------------------------------------------------------------
(* ClientCCB implements CommandQueue: the released identities in order,    *)
(* how many of them were handed over, and the one executed last.           *)
Released == [i \in 1 .. Len(pending) |-> pending[i].id]

(* A step that moves none of the three.                                    *)
LEMMA QueueStutters ==
  ASSUME UNCHANGED <<pending, handed, out>>
  PROVE  UNCHANGED Delivery!vars
BY DEF Delivery!vars

LEMMA QueueInit == Init => Delivery!Init
<1> SUFFICES ASSUME Init PROVE Delivery!Init
  OBVIOUS
<1>1. Released = <<>>
  <2>1. Len(pending) = 0
    BY DEF Init
  <2> QED
    BY <2>1 DEF Released
<1>2. 0 \in Ids
  BY CommandsAssumption DEF Ids
<1> QED
  BY <1>1, <1>2 DEF Init, Delivery!Init, Released

(* ReleaseCCB submits a command ...                                        *)
LEMMA ReleaseSubmits ==
  ASSUME IInv, ReleaseCCB
  PROVE  Released' = Append(Released, nextId) /\ UNCHANGED <<handed, out>>
<1> PICK P \in Nat : P = Len(pending)
  BY RingNumbers DEF IInv
<1> PICK r : pending' = Append(pending, r) /\ r.id = nextId
  BY DEF ReleaseCCB
<1>1. pending \in Seq([id : Ids, off : Offsets, size : CmdSizes])
  BY DEF IInv, TypeOK
<1>2. r \in [id : Ids, off : Offsets, size : CmdSizes]
  <2>1. pending' \in Seq([id : Ids, off : Offsets, size : CmdSizes])
    BY TypeStep DEF TypeOK, Next, HostStep
  <2>2. pending'[Len(pending')] = r /\ Len(pending') \in 1 .. Len(pending')
    BY <1>1
  <2> QED
    BY <2>1, <2>2, ElementType
<1>3. /\ Len(pending') = P + 1 /\ pending'[P + 1] = r
      /\ \A i \in 1 .. P : pending'[i] = pending[i]
  BY <1>1, <1>2
<1>4. Released' = Append(Released, nextId)
  <2>1. Released \in Seq(Ids) /\ Len(Released) = P /\ nextId \in Ids
    <3>1. \A i \in 1 .. P : pending[i].id \in Ids
      BY RingNumbers DEF IInv
    <3> QED
      BY <3>1 DEF Released, IInv, TypeOK
  <2>2. /\ Append(Released, nextId) \in Seq(Ids) /\ Len(Append(Released, nextId)) = P + 1
        /\ \A i \in 1 .. P : Append(Released, nextId)[i] = Released[i]
        /\ Append(Released, nextId)[P + 1] = nextId
    BY <2>1, AppendProperties
  <2>3. \A i \in 1 .. P + 1 : pending'[i].id = Append(Released, nextId)[i]
    BY <1>3, <2>2 DEF Released
  <2>4. Released' \in Seq(Ids) /\ Len(Released') = P + 1
        /\ \A i \in 1 .. P + 1 : Released'[i] = Append(Released, nextId)[i]
    <3>1. Released' = [i \in 1 .. P + 1 |-> pending'[i].id]
      BY <1>3 DEF Released
    <3>2. \A i \in 1 .. P + 1 : pending'[i].id \in Ids
      BY <1>3, <2>1, <2>2, <2>3, ElementType
    <3>3. P + 1 \in Nat
      OBVIOUS
    <3>4. Released' \in Seq(Ids) /\ Len(Released') = P + 1
      BY <3>1, <3>2, <3>3
    <3>5. \A i \in 1 .. P + 1 : Released'[i] = Append(Released, nextId)[i]
      BY <2>3, <3>1
    <3> QED
      BY <3>4, <3>5
  <2> QED
    BY <2>2, <2>4, SeqEqual
<1> QED
  BY <1>4 DEF ReleaseCCB

(* ... Kick hands over all of them ...                                     *)
LEMMA KickHandsOver == ASSUME IInv, Kick PROVE Delivery!HandOver
<1>1. Len(Released) = Len(pending)
  <2>1. Len(pending) \in Nat
    BY RingNumbers DEF IInv
  <2> QED
    BY <2>1 DEF Released
<1> QED
  BY <1>1 DEF Kick, Delivery!HandOver, Released

(* ... and the firmware executes the oldest, which was handed over.        *)
LEMMA ExecuteExecutes == ASSUME IInv, ContentsInv, FwExecute PROVE Delivery!Execute
<1> PICK P \in Nat : P = Len(pending)
  BY RingNumbers DEF IInv
<1>1. /\ handed \in 1 .. P /\ out' = pending[1].id /\ handed' = handed - 1
      /\ pending' = SubSeq(pending, 2, Len(pending))
  BY FirmwareReads DEF FwExecute
<1>2. P >= 1 /\ pending \in Seq([id : Ids, off : Offsets, size : CmdSizes])
  BY <1>1 DEF IInv, TypeOK
<1>3. /\ Len(pending') = P - 1
      /\ \A i \in 1 .. P - 1 : pending'[i] = pending[i + 1]
  BY <1>1, <1>2, WithoutFirst
<1>4. Released \in Seq(Ids) /\ Len(Released) = P
  <2>1. \A i \in 1 .. P : pending[i].id \in Ids
    BY RingNumbers DEF IInv
  <2> QED
    BY <2>1 DEF Released
<1>5. Head(Released) = pending[1].id
  BY <1>2, <1>4 DEF Released
<1>6. Released' = Tail(Released)
  <2>1. /\ Tail(Released) \in Seq(Ids) /\ Len(Tail(Released)) = P - 1
        /\ \A i \in 1 .. P - 1 : Tail(Released)[i] = Released[i + 1]
    <3>1. Released # <<>>
      BY <1>2, <1>4
    <3> QED
      BY <1>4, <3>1, HeadTailProperties
  <2>2. \A i \in 1 .. P - 1 : Released[i + 1] = pending'[i].id
    BY <1>3 DEF Released
  <2>3. Released' \in Seq(Ids) /\ Len(Released') = P - 1
        /\ \A i \in 1 .. P - 1 : Released'[i] = Tail(Released)[i]
    <3>1. Released' = [i \in 1 .. P - 1 |-> pending'[i].id] /\ P - 1 \in Nat
      BY <1>2, <1>3 DEF Released
    <3>2. \A i \in 1 .. P - 1 : pending'[i].id \in Ids
      BY <2>1, <2>2, ElementType
    <3> QED
      BY <2>1, <2>2, <3>1, <3>2
  <2> QED
    BY <2>1, <2>3, SeqEqual
<1>7. handed > 0
  BY <1>1
<1> QED
  BY <1>1, <1>5, <1>6, <1>7 DEF Delivery!Execute, Released

LEMMA QueueStep == IInv /\ ContentsInv /\ [Next]_vars => [Delivery!Next]_(Delivery!vars)
<1> SUFFICES ASSUME IInv, ContentsInv, [Next]_vars PROVE [Delivery!Next]_(Delivery!vars)
  OBVIOUS
<1>1. CASE UNCHANGED vars
  BY <1>1, QueueStutters DEF vars
<1>2. ASSUME HostStep, ~ReleaseCCB, ~Kick PROVE UNCHANGED <<pending, handed, out>>
  BY <1>2 DEF HostStep, AcquireCCB, CheckSpace, Enter, TryContiguous, TryWrap, GrowTest, LockGrow, Grow, CallAgain,
     GiveUp, WriteCommand, Abandon, KickFail, history
<1>3. CASE ReleaseCCB
  <2>1. nextId \in Ids
    BY DEF IInv, TypeOK
  <2>2. Released' = Append(Released, nextId) /\ UNCHANGED <<handed, out>>
    BY <1>3, ReleaseSubmits
  <2>3. Delivery!Next
    BY <2>1, <2>2 DEF Delivery!Next, Delivery!Submit, Released
  <2> QED
    BY <2>3
<1>4. CASE Kick
  BY <1>4, KickHandsOver DEF Delivery!Next
<1>5. CASE FwExecute
  BY <1>5, ExecuteExecutes DEF Delivery!Next
<1>6. ASSUME FwTakeKick \/ FwSkipPadding PROVE UNCHANGED <<pending, handed, out>>
  BY <1>6 DEF FwTakeKick, FwSkipPadding, history
<1> QED
  BY <1>1, <1>2, <1>3, <1>4, <1>5, <1>6, QueueStutters DEF Next, FwStep

(* Every released command is executed once, in order, and only when a kick *)
(* has covered it: the ring with its wraps, its grows, its abandoned       *)
(* acquires and its failed kicks implements a queue.                       *)
THEOREM ImplementsQueue == Spec => DeliveredInOrder
BY QueueInit, QueueStep, Invariant, Contents, PTL DEF Spec, DeliveredInOrder, Delivery!Spec

-----------------------------------------------------------------------------
(* The watchdog beside the CCB (StallCheck).  Three facts about remainders *)
(* first, for a byte count that wraps.                                     *)
LEMMA DivMod ==
  ASSUME NEW m \in Nat, m > 0, NEW x \in Int
  PROVE  x = m * (x \div m) + (x % m) /\ x \div m \in Int /\ x % m \in Int
  OBVIOUS

(* A multiple that is less than one lap is none.                           *)
LEMMA Multiple ==
  ASSUME NEW m \in Nat, m > 0, NEW z \in Int, -m < m * z, m * z < m
  PROVE  z = 0
<1>1. ASSUME z >= 1 PROVE FALSE
  <2>1. m * (z - 1) >= 0
    BY <1>1
  <2>2. m * (z - 1) = m * z - m
    OBVIOUS
  <2> QED
    BY <2>1, <2>2
<1>2. ASSUME z <= -1 PROVE FALSE
  <2>1. m * (-1 - z) >= 0
    BY <1>2
  <2>2. m * (-1 - z) = -m - m * z
    OBVIOUS
  <2> QED
    BY <2>1, <2>2
<1> QED
  BY <1>1, <1>2

(* Any number of laps changes nothing.                                     *)
LEMMA ModLaps ==
  ASSUME NEW m \in Nat, m > 0, NEW x \in Int, NEW q \in Int
  PROVE  (m * q + x) % m = x % m
<1> DEFINE y == m * q + x
           a == y \div m
           b == x \div m
           c == y % m
           d == x % m
           z == b + q - a
<1>1. y \in Int
  OBVIOUS
<1>2. /\ y = m * a + c /\ a \in Int /\ c \in Int
      /\ x = m * b + d /\ b \in Int /\ d \in Int
  BY <1>1, DivMod
<1>3. 0 <= c /\ c < m /\ 0 <= d /\ d < m
  BY <1>1
<1>4. y = m * q + x /\ z \in Int /\ z = b + q - a
  BY <1>2
<1> HIDE DEF y, a, b, c, d, z
<1>5. m * z = m * b + m * q - m * a
  BY <1>2, <1>4
<1>6. m * z = c - d
  BY <1>2, <1>4, <1>5
<1>7. -m < m * z /\ m * z < m
  BY <1>2, <1>3, <1>6
<1>8. z = 0 /\ m * 0 = 0
  BY <1>4, <1>7, Multiple
<1>9. c = d
  BY <1>2, <1>6, <1>8
<1> QED
  BY <1>9 DEF c, d, y

(* The bytes counted since a reading grow by no more than what is added,   *)
(* although the counter and the difference wrap.                           *)
LEMMA BytesAdded ==
  ASSUME NEW m \in Nat, m > 0, NEW b \in Int, NEW l \in Int, NEW k \in Nat
  PROVE  (((b + k) % m) - l) % m <= ((b - l) % m) + k
<1> DEFINE d == (b - l) % m
           e == (b + k) % m
           p == (b + k) \div m
           q == (b - l) \div m
<1>1. /\ b + k = m * p + e /\ b - l = m * q + d
      /\ p \in Int /\ e \in Int /\ q \in Int /\ d \in Int
  BY DivMod
<1>2. d \in Nat
  OBVIOUS
<1> HIDE DEF d, e, p, q
<1>3. e - l = m * (q - p) + (d + k)
  BY <1>1
<1>4. (e - l) % m = (d + k) % m
  <2>1. q - p \in Int /\ d + k \in Int
    BY <1>1
  <2>2. (m * (q - p) + (d + k)) % m = (d + k) % m
    BY <2>1, ModLaps
  <2> QED
    BY <1>3, <2>2
<1>5. (d + k) % m <= d + k
  BY <1>2
<1> QED
  BY <1>4, <1>5 DEF d, e

-----------------------------------------------------------------------------
(* Who has the grow lock, and what was sampled under it.                   *)
GrowHoldsLock == pc = "grow" => growLock = "host"
SampleHoldsLock == wdPc = "sample" => growLock = "watchdog" /\ wrapMask = Size - 1
SampledIsNow == wdPc = "test" /\ ~moved => sampledR = ReadOffset

(* What lies in the ring between the read offset and the write offset.     *)
UnreadUnits == Lap(HostWriteOffset) - ReadOffset

(* While the firmware has read nothing since the sample before the last    *)
(* test, all that was counted since that test is still in the ring.        *)
NothingRead == tested /\ ~moved /\ (wdPc = "test" => ~movedBefore)
StillThere == NothingRead => LastROff = ReadOffset /\ BytesSince <= UnreadUnits

WatchdogInv ==
  /\ LastByteCount \in Int
  /\ GrowHoldsLock
  /\ SampleHoldsLock
  /\ SampledOffsetsValid
  /\ SampledIsNow
  /\ StillThere

LEMMA WatchdogInit == StallInit => WatchdogInv
BY DEF StallInit, Init, WatchdogInv, GrowHoldsLock, SampleHoldsLock, SampledOffsetsValid,
   SampledIsNow, StillThere, NothingRead

(* The numbers the watchdog's facts are about.                             *)
LEMMA StallNumbers ==
  ASSUME IInv, ContentsInv
  PROVE  /\ ReadOffset \in Nat /\ ReadOffset < Size
         /\ HostWriteOffset \in Nat /\ HostWriteOffset < Size
         /\ Size \in Nat /\ Size > 0 /\ ByteCount \in Int
         /\ ByteCountMod \in Nat /\ ByteCountMod > 0
         /\ UnreadUnits \in Nat /\ UnreadUnits < Size
<1>1. /\ ReadOffset \in Nat /\ ReadOffset < Size
      /\ HostWriteOffset \in Nat /\ HostWriteOffset < Size
      /\ Size \in Nat /\ Size > 0
  BY RingNumbers DEF IInv, ContentsInv, Layout
<1>2. ByteCount \in Int /\ ByteCountMod \in Nat /\ ByteCountMod > 0
  BY CommandsAssumption DEF IInv, TypeOK
<1>3. UnreadUnits \in Nat /\ UnreadUnits < Size
  BY <1>1 DEF UnreadUnits, Lap
<1> QED
  BY <1>1, <1>2, <1>3

(* A release counts what it puts between the two offsets.                  *)
LEMMA ReleaseCounts ==
  ASSUME IInv, ContentsInv, ReleaseCCB
  PROVE  \E k \in Nat : /\ ByteCount' = (ByteCount + k) % ByteCountMod
                        /\ UnreadUnits' = UnreadUnits + k
<1> DEFINE start == IF Fits THEN HostWriteOffset ELSE 0
           k == (IF Fits THEN 0 ELSE Size - HostWriteOffset) + cmdSize
<1>1. /\ HostWriteOffset' = start + cmdSize
      /\ Size' = Size /\ ReadOffset' = ReadOffset
  BY ReleaseValues DEF ReleaseCCB, fwVars
<1>2. /\ pc = "written" /\ SpaceReserved /\ cmdSize \in Nat
      /\ ReadOffset \in Nat /\ ReadOffset < Size /\ HostWriteOffset \in Nat
      /\ HostWriteOffset < Size /\ Size \in Nat /\ ByteCount \in Int
  BY StallNumbers, ReservedIsFree DEF ReleaseCCB, ContentsInv
<1>3. k \in Nat
  BY <1>2
<1>4. ByteCount' = (ByteCount + k) % ByteCountMod
  <2>1. ByteCount' = (ByteCount + (IF ~Fits THEN Remain ELSE 0) + cmdSize) % ByteCountMod
    BY DEF ReleaseCCB
  <2>2. ByteCount + (IF ~Fits THEN Remain ELSE 0) + cmdSize = ByteCount + k
    BY <1>2 DEF Remain
  <2> QED
    BY <2>1, <2>2
<1>5. UnreadUnits' = UnreadUnits + k
  <2>1. UnreadUnits' = (IF start + cmdSize < ReadOffset THEN start + cmdSize + Size
                        ELSE start + cmdSize) - ReadOffset
    BY <1>1 DEF UnreadUnits, Lap
  <2>2. CASE Fits
    <3>1. HostWriteOffset < ReadOffset => HostWriteOffset + cmdSize < ReadOffset
      BY <1>2, <2>2 DEF SpaceReserved
    <3> QED
      BY <1>2, <2>1, <2>2, <3>1 DEF UnreadUnits, Lap
  <2>3. CASE ~Fits
    <3>1. cmdSize < ReadOffset /\ ReadOffset <= HostWriteOffset
      BY <1>2, <2>3 DEF SpaceReserved
    <3> QED
      BY <1>2, <2>1, <2>3, <3>1 DEF UnreadUnits, Lap
  <2> QED
    BY <2>2, <2>3
<1> HIDE DEF k
<1> QED
  BY <1>3, <1>4, <1>5

(* Wherever the firmware's dependency offset is, it lies in the ring.      *)
LEMMA DepInRing ==
  ASSUME IInv, ContentsInv
  PROVE  \A d \in DepOffsets : d <= Size - 1
<1>1. PICK known \in [0 .. Len(kicks) -> 0 .. handed] : KicksCover(known)
  BY DEF ContentsInv, HandedOver
<1>2. /\ ReadOffset \in Nat /\ ReadOffset < Size
      /\ Size \in Nat /\ Pad \in Nat
      /\ \A i \in 1 .. Len(pending) : End(i) \in Nat /\ End(i) + Pad <= Size
  BY RingNumbers DEF IInv, ContentsInv, Layout
<1>3. Len(kicks) \in Nat /\ handed \in 0 .. Len(pending) /\ Pad > 0
  BY RingNumbers DEF IInv, TypeOK, ContentsInv, HandedOver
<1>4. /\ fwWriteOffset = Position(known[0]) /\ fwWrapMask + 1 <= Size
      /\ known[0] \in 0 .. Len(pending)
  BY <1>1, <1>3 DEF KicksCover, Covers
<1>5. fwWriteOffset \in Nat /\ fwWriteOffset <= Size - 1
  BY <1>2, <1>3, <1>4 DEF Position
<1>6. fwWrapMask \in Int
  BY OffsetFacts DEF IInv, TypeOK
<1> QED
  BY <1>2, <1>4, <1>5, <1>6 DEF DepOffsets

(* The submitting thread, beside the watchdog: the steps that leave the    *)
(* offsets, the size and the byte count alone,                             *)
LEMMA QuietSubmission ==
  ASSUME HostStep, ~ReleaseCCB, ~Grow
  PROVE  /\ UNCHANGED <<ReadOffset, HostWriteOffset, Size, ByteCount>>
         /\ \/ pc' # "grow" /\ UNCHANGED growLock
            \/ growLock = "free" /\ growLock' = "host"
<1> USE DEF hostVars, fwVars
<1>1. ASSUME NEW n \in CmdSizes, AcquireCCB(n)
      PROVE  UNCHANGED <<ReadOffset, HostWriteOffset, Size, ByteCount, growLock>> /\ pc' # "grow"
  BY <1>1 DEF AcquireCCB, Enter
<1>2. CASE TryContiguous
  BY <1>2 DEF TryContiguous
<1>3. CASE TryWrap
  BY <1>3 DEF TryWrap
<1>4. CASE GrowTest
  BY <1>4 DEF GrowTest
<1>5. CASE LockGrow
  BY <1>5 DEF LockGrow
<1>6. CASE CallAgain
  BY <1>6 DEF CallAgain, Enter
<1>7. CASE GiveUp \/ Abandon \/ KickFail
  BY <1>7 DEF GiveUp, Abandon, KickFail, Return
<1>8. CASE WriteCommand
  BY <1>8 DEF WriteCommand
<1>9. CASE Kick
  BY <1>9 DEF Kick, Return
<1>10. CASE CheckSpace
  BY <1>10 DEF CheckSpace, Enter
<1> QED
  BY <1>10, <1>1, <1>2, <1>3, <1>4, <1>5, <1>6, <1>7, <1>8, <1>9 DEF HostStep

(* ... and all of them.                                                    *)
LEMMA SubmissionWatched ==
  ASSUME IInv, ContentsInv, WatchdogInv, Submission
  PROVE  WatchdogInv'
<1>1. /\ GrowHoldsLock /\ SampleHoldsLock /\ SampledOffsetsValid /\ SampledIsNow /\ StillThere
      /\ LastByteCount \in Int /\ HostStep
      /\ UNCHANGED <<wdPc, wrapMask, sampledR, sampledDp, sampledW, LastROff, LastWOff, LastByteCount,
                     reported, moved, movedBefore, tested>>
  BY DEF WatchdogInv, Submission, wdVars
<1>2. SampledOffsetsValid' /\ NothingRead' = NothingRead
  BY <1>1 DEF SampledOffsetsValid, OffsetsValid, NothingRead
<1>3. CASE ~ReleaseCCB /\ ~Grow
  <2>1. /\ UNCHANGED <<ReadOffset, HostWriteOffset, Size, ByteCount>>
        /\ \/ pc' # "grow" /\ UNCHANGED growLock
           \/ growLock = "free" /\ growLock' = "host"
    BY <1>1, <1>3, QuietSubmission
  <2>2. GrowHoldsLock' /\ SampleHoldsLock' /\ SampledIsNow'
    BY <1>1, <2>1 DEF GrowHoldsLock, SampleHoldsLock, SampledIsNow
  <2>3. StillThere'
    BY <1>1, <1>2, <2>1 DEF StillThere, BytesSince, UnreadUnits, Lap
  <2> QED
    BY <1>1, <1>2, <2>2, <2>3 DEF WatchdogInv
<1>4. CASE ReleaseCCB
  <2>1. UNCHANGED <<ReadOffset, Size, growLock>> /\ pc' = "released"
    BY <1>4 DEF ReleaseCCB, fwVars
  <2>2. GrowHoldsLock' /\ SampleHoldsLock' /\ SampledIsNow'
    BY <1>1, <2>1 DEF GrowHoldsLock, SampleHoldsLock, SampledIsNow
  <2>3. PICK k \in Nat : /\ ByteCount' = (ByteCount + k) % ByteCountMod
                         /\ UnreadUnits' = UnreadUnits + k
    BY <1>4, ReleaseCounts
  <2>4. ByteCount \in Int /\ ByteCountMod \in Nat /\ ByteCountMod > 0 /\ UnreadUnits \in Nat
    BY StallNumbers
  <2>5. BytesSince' <= BytesSince + k
    <3>1. ((((ByteCount + k) % ByteCountMod) - LastByteCount) % ByteCountMod)
            <= ((ByteCount - LastByteCount) % ByteCountMod) + k
      BY <1>1, <2>4, BytesAdded
    <3> QED
      BY <1>1, <2>3, <3>1 DEF BytesSince
  <2>6. BytesSince \in Int /\ BytesSince' \in Int
    <3>1. ByteCount' \in Int
      BY <2>3, <2>4, ModBounds
    <3> QED
      BY <1>1, <2>4, <3>1, ModBounds DEF BytesSince
  <2>7. StillThere'
    BY <1>1, <1>2, <2>1, <2>3, <2>4, <2>5, <2>6 DEF StillThere
  <2> QED
    BY <1>1, <1>2, <2>2, <2>7 DEF WatchdogInv
<1>5. CASE Grow
  <2>1. /\ UNCHANGED <<ReadOffset, HostWriteOffset, ByteCount>> /\ pc = "grow" /\ pc' # "grow"
        /\ ReadOffset <= HostWriteOffset
    BY <1>5 DEF Grow, fwVars, ContentsInv, GrowsStraight
  <2>2. GrowHoldsLock' /\ SampleHoldsLock' /\ SampledIsNow'
    BY <1>1, <2>1 DEF GrowHoldsLock, SampleHoldsLock, SampledIsNow
  <2>3. UnreadUnits' = UnreadUnits
    BY <2>1, StallNumbers DEF UnreadUnits, Lap
  <2>4. StillThere'
    BY <1>1, <1>2, <2>1, <2>3 DEF StillThere, BytesSince
  <2> QED
    BY <1>1, <1>2, <2>2, <2>4 DEF WatchdogInv
<1> QED
  BY <1>3, <1>4, <1>5

(* The firmware, beside the watchdog: reading on is what it looks for.     *)
LEMMA FirmwareWatched ==
  ASSUME WatchdogInv, Firmware
  PROVE  WatchdogInv'
<1>1. /\ GrowHoldsLock /\ SampleHoldsLock /\ SampledOffsetsValid /\ SampledIsNow /\ StillThere
      /\ LastByteCount \in Int /\ FwStep
      /\ UNCHANGED <<wdPc, wrapMask, sampledR, sampledDp, sampledW, LastROff, LastWOff, LastByteCount,
                     reported, movedBefore, tested>>
      /\ moved' = (moved \/ ReadOffset' # ReadOffset)
  BY DEF WatchdogInv, Firmware
<1>2. UNCHANGED <<HostWriteOffset, Size, ByteCount, growLock, pc>>
  BY <1>1 DEF FwStep, FwTakeKick, FwExecute, FwSkipPadding, hostVars
<1>3. GrowHoldsLock' /\ SampleHoldsLock' /\ SampledOffsetsValid' /\ SampledIsNow'
  BY <1>1, <1>2 DEF GrowHoldsLock, SampleHoldsLock, SampledOffsetsValid, OffsetsValid, SampledIsNow
<1>4. StillThere'
  BY <1>1, <1>2 DEF StillThere, NothingRead, BytesSince, UnreadUnits, Lap
<1> QED
  BY <1>1, <1>3, <1>4 DEF WatchdogInv

(* The watchdog's own steps.                                               *)
LEMMA WatchdogWatched ==
  ASSUME IInv, ContentsInv, WatchdogInv, SampleMask \/ SampleOffsets \/ TestStall
  PROVE  WatchdogInv'
<1>1. /\ GrowHoldsLock /\ SampleHoldsLock /\ SampledOffsetsValid /\ SampledIsNow /\ StillThere
      /\ LastByteCount \in Int
  BY DEF WatchdogInv
<1>2. /\ ReadOffset \in Nat /\ ReadOffset < Size
      /\ HostWriteOffset \in Nat /\ HostWriteOffset < Size
      /\ Size \in Nat /\ ByteCount \in Int /\ ByteCountMod \in Nat /\ ByteCountMod > 0
      /\ UnreadUnits \in Nat
  BY StallNumbers
<1>3. CASE SampleMask
  <2>1. /\ UNCHANGED <<ReadOffset, HostWriteOffset, Size, ByteCount, pc, LastROff,
                       LastByteCount, moved, movedBefore, tested>>
        /\ wdPc = "idle" /\ wdPc' = "sample" /\ wrapMask' = Size - 1
        /\ growLock = "free" /\ growLock' = "watchdog"
    BY <1>3 DEF SampleMask, TakeLock, hostVars, fwVars
  <2>2. GrowHoldsLock' /\ SampleHoldsLock' /\ SampledOffsetsValid' /\ SampledIsNow'
    BY <1>1, <2>1 DEF GrowHoldsLock, SampleHoldsLock, SampledOffsetsValid, SampledIsNow
  <2>3. StillThere'
    BY <1>1, <2>1 DEF StillThere, NothingRead, BytesSince, UnreadUnits, Lap
  <2> QED
    BY <1>1, <2>1, <2>2, <2>3 DEF WatchdogInv
<1>4. CASE SampleOffsets
  <2>1. /\ UNCHANGED <<ReadOffset, HostWriteOffset, Size, ByteCount, pc, LastROff,
                       LastByteCount, tested, wrapMask>>
        /\ wdPc = "sample" /\ wdPc' = "test" /\ sampledR' = ReadOffset
        /\ sampledW' = HostWriteOffset /\ movedBefore' = moved /\ moved' = FALSE
        /\ growLock' = IF growLock = "watchdog" THEN "free" ELSE growLock
    BY <1>4 DEF SampleOffsets, hostVars, fwVars
  <2>2. growLock = "watchdog" /\ wrapMask = Size - 1
    BY <1>1, <2>1 DEF SampleHoldsLock
  <2>3. GrowHoldsLock' /\ SampleHoldsLock' /\ SampledIsNow'
    BY <1>1, <2>1, <2>2 DEF GrowHoldsLock, SampleHoldsLock, SampledIsNow
  <2>4. SampledOffsetsValid'
    <3>1. sampledDp' \in DepOffsets
      BY <1>4 DEF SampleOffsets
    <3>2. sampledDp' <= Size - 1
      BY <3>1, DepInRing
    <3> QED
      BY <1>2, <2>1, <2>2, <3>2 DEF SampledOffsetsValid, OffsetsValid
  <2>5. StillThere'
    BY <1>1, <2>1 DEF StillThere, NothingRead, BytesSince, UnreadUnits, Lap
  <2> QED
    BY <1>1, <2>1, <2>3, <2>4, <2>5 DEF WatchdogInv
<1>5. CASE TestStall
  <2>1. /\ UNCHANGED <<ReadOffset, HostWriteOffset, Size, ByteCount, growLock, pc, moved>>
        /\ wdPc = "test" /\ wdPc' = "idle"
        /\ OffsetsValid => /\ LastROff' = sampledR /\ LastByteCount' = ByteCount
    BY <1>5 DEF TestStall, vars
  <2>2. LastROff' = sampledR /\ LastByteCount' = ByteCount
    BY <1>1, <2>1 DEF SampledOffsetsValid
  <2>3. GrowHoldsLock' /\ SampleHoldsLock' /\ SampledOffsetsValid' /\ SampledIsNow'
    BY <1>1, <2>1 DEF GrowHoldsLock, SampleHoldsLock, SampledOffsetsValid, SampledIsNow
  <2>4. BytesSince' = 0
    <3>1. BytesSince' = (ByteCount - ByteCount) % ByteCountMod
      BY <2>1, <2>2 DEF BytesSince
    <3>2. ByteCount - ByteCount = 0 /\ 0 % ByteCountMod = 0
      BY <1>2, ModSmall
    <3> QED
      BY <3>1, <3>2
  <2>5. UnreadUnits' = UnreadUnits
    BY <2>1 DEF UnreadUnits, Lap
  <2>6. StillThere'
    BY <1>1, <1>2, <2>1, <2>2, <2>4, <2>5 DEF StillThere, NothingRead, SampledIsNow
  <2> QED
    BY <1>2, <2>2, <2>3, <2>6 DEF WatchdogInv
<1> QED
  BY <1>3, <1>4, <1>5

(* The watchdog touches nothing of the CCB but the grow lock.              *)
LEMMA WatchdogTouches ==
  ASSUME IInv, ContentsInv, SampleMask \/ SampleOffsets \/ TestStall
  PROVE  IInv' /\ ContentsInv'
<1>1. /\ UNCHANGED <<HostWriteOffset, Size, ByteCount, ReadOffset, mem, kicks, fwWriteOffset,
                     fwWrapMask, pc, cmdSize, retryCount, buf, checksSpace, cmdOffset, pending, handed,
                     nextId, out>>
      /\ growLock' \in {growLock, "free", "watchdog"}
  BY DEF SampleMask, TakeLock, SampleOffsets, TestStall, vars, hostVars, fwVars, callVars, history
<1>2. TypeOK'
  BY <1>1 DEF IInv, TypeOK
<1>3. CallInv'
  BY <1>1 DEF IInv, CallInv, CallSized, TurnsLeft, GrowPath, SecondTurnFits, WrapEndsBefore,
     RoomForPadding, Growable, Fits
<1>4. UnreadIntact' /\ Layout' /\ HandedOver'
  BY <1>1, RingUnmoved, KicksUnmoved DEF ContentsInv
<1>5. SpaceReserved' /\ CommandWritten' /\ GrowsStraight'
  BY <1>1 DEF ContentsInv, SpaceReserved, CommandWritten, GrowsStraight, Fits, Remain,
     Header, Body, Padding
<1> QED
  BY <1>2, <1>3, <1>4, <1>5 DEF IInv, ContentsInv

(* All of it together, through every step of the three.                    *)
StallInv == IInv /\ ContentsInv /\ WatchdogInv

LEMMA StallStep == StallInv /\ [StallNext]_allVars => StallInv'
<1> SUFFICES ASSUME IInv, ContentsInv, WatchdogInv, [StallNext]_allVars
             PROVE  IInv' /\ ContentsInv' /\ WatchdogInv'
  BY DEF StallInv
<1>1. ASSUME [Next]_vars PROVE IInv' /\ ContentsInv'
  BY <1>1, TypeStep, CallStep, ContentsStep DEF IInv
<1>2. CASE Submission
  BY <1>1, <1>2, SubmissionWatched DEF Submission, Next
<1>3. CASE Firmware
  BY <1>1, <1>3, FirmwareWatched DEF Firmware, Next
<1>4. CASE SampleMask \/ SampleOffsets \/ TestStall
  BY <1>4, WatchdogWatched, WatchdogTouches
<1>5. CASE UNCHANGED allVars
  <2>1. UNCHANGED vars /\ UNCHANGED wdVars
    BY <1>5 DEF allVars
  <2>2. WatchdogInv'
    BY <2>1 DEF vars, wdVars, WatchdogInv, GrowHoldsLock, SampleHoldsLock, SampledOffsetsValid,
       OffsetsValid, SampledIsNow, StillThere, NothingRead, BytesSince, UnreadUnits, Lap
  <2> QED
    BY <1>1, <2>1, <2>2
<1> QED
  BY <1>2, <1>3, <1>4, <1>5 DEF StallNext

LEMMA StallInvariant == StallSpec => []StallInv
<1>1. StallInit => StallInv
  BY InitIInv, ContentsInit, WatchdogInit DEF StallInit, StallInv
<1> QED
  BY <1>1, StallStep, PTL DEF StallSpec

(* The watchdog never takes an offset for an invalid one because the ring  *)
(* grew between its readings: what it samples lies in the ring it sampled. *)
THEOREM SampledInRing == StallSpec => []SampledOffsetsValid
<1>1. StallInv => SampledOffsetsValid
  BY DEF StallInv, WatchdogInv
<1> QED
  BY <1>1, StallInvariant, PTL

(* A ring of which the firmware read nothing between two samples and up to *)
(* the verdict is never taken for one that moved on, however much was      *)
(* released meanwhile, wherever it wrapped or grew, and although the byte  *)
(* count wraps: all that was counted still lies in the ring.               *)
THEOREM StuckRingIsFound == StallSpec => []StuckIsFound
<1>1. StallInv => StuckIsFound
  <2> SUFFICES ASSUME StallInv, wdPc = "test", tested, ~movedBefore, ~moved,
                      sampledR # sampledW, LastROff # LastWOff
               PROVE  NotProgressed
    BY DEF StuckIsFound
  <2>1. IInv /\ ContentsInv /\ LastByteCount \in Int /\ SampledIsNow /\ StillThere
    BY DEF StallInv, WatchdogInv
  <2>2. sampledR = ReadOffset /\ LastROff = ReadOffset /\ BytesSince <= UnreadUnits
    BY <2>1 DEF SampledIsNow, StillThere, NothingRead
  <2>3. UnreadUnits \in Nat /\ UnreadUnits < Size /\ Size \in Nat /\ BytesSince \in Int
    <3>1. ByteCount \in Int /\ ByteCountMod \in Nat /\ ByteCountMod > 0
      BY <2>1, StallNumbers
    <3> QED
      BY <2>1, <3>1, StallNumbers, ModBounds DEF BytesSince
  <2> QED
    BY <2>2, <2>3 DEF NotProgressed
<1> QED
  BY <1>1, StallInvariant, PTL
=============================================================================
