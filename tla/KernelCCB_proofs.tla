-------------------------- MODULE KernelCCB_proofs --------------------------
(* The ring, the deferred list and the power-off: proofs about KernelCCB.  *)
EXTENDS KernelCCB, SequenceTheorems, TLAPS

(* Who holds the power lock, and where that thread is then.                *)
LockOwner ==
  /\ stage # "none" =>
       \/ powerLock = Misr /\ misrPc \in {"flush", "powoff"}
       \/ \E t \in Clients : powerLock = t /\ pc[t] = "sending"
  /\ \A t \in Clients : pc[t] = "sending" => powerLock = t
  /\ misrPc \in {"flush", "recheck", "powoff", "ack"} => powerLock = Misr
  /\ stage = "none" \/ misrPc = "flush" => req = NoCommand
  /\ misrPc \in {"recheck", "ack"} => stage = "none"
  /\ misrPc = "powoff" => req.kind = "powoff"
  /\ req # NoCommand => req.from = powerLock
  /\ req.from \in Clients => req.kind \in {"kick", "cleanup"}

(* The lists while the lock is held: what was deferred is taken out at     *)
(* once, and nothing is left when the sender gets to its own command.      *)
ListsTaken ==
  /\ stage # "flush" => local = <<>>
  /\ stage \in {"flush", "send"} => deferred = <<>>

(* The entries the firmware has not read.                                  *)
Between(r, w) == IF r <= w THEN r .. (w - 1) ELSE (r .. (NumSlots - 1)) \cup (0 .. (w - 1))
Unread == Between(ReadOffset, WriteOffset)

(* A client whose command the firmware has not answered finds it in the    *)
(* ring, with nothing in its return slot: nobody else may write there.     *)
(* Once it is answered the answer stays there, for a client that has not   *)
(* read it, until the entry goes to another command.                       *)
InItsSlot(t) ==
  /\ rtnSlots[slot[t]] = "noResponse"
  /\ slot[t] \in Unread
  /\ kccb[slot[t]] = [kind |-> "cleanup", id |-> cmdId[t], from |-> t]
AnswerAt(t) == slot[t] \notin Unread /\ rtnSlots[slot[t]] = answer[t]
Answering(t) ==
  /\ pc[t] = "wait" /\ answer[t] = "noResponse" => InItsSlot(t)
  /\ pc[t] \in {"wait", "answered"} /\ answer[t] # "noResponse" /\ ~reused[t] => AnswerAt(t)
  /\ pc[t] \in {"answered", "cleaned"} => answer[t] # "noResponse"
  /\ pc[t] = "cleaned" /\ ~reused[t] => answer[t] = "executed"
AnswersComing == \A t \in Clients : Answering(t)

IInv == TypeOK /\ LockOwner /\ ListsTaken /\ AnswersComing

(* With a wait for power-off that does not give up, there is at most one   *)
(* such request, it is the last in the ring, and its answer is waited for; *)
(* while the firmware is off nothing is on its way to it.                  *)
OneRequest ==
  \A s \in Unread : kccb[s].kind = "powoff" =>
    misrPc = "ack" /\ powSync = 0 /\ NextOffset(s) = WriteOffset
NotInTheLists ==
  /\ \A i \in 1 .. Len(local) : local[i].kind # "powoff"
  /\ \A i \in 1 .. Len(deferred) : deferred[i].kind # "powoff"
AckHoldsLists == misrPc = "ack" => deferred = <<>>
Drained ==
  /\ devicePower = "off" => ePowState = "off"
  /\ ePowState = "off" =>
       /\ ReadOffset = WriteOffset /\ local = <<>> /\ deferred = <<>> /\ stage = "none"
       /\ \/ misrPc = "ack" /\ powSync = 1
          \/ /\ devicePower = "off" /\ powerLock = None
             /\ misrPc \in {"idle", "scan", "apm"}
PInv == OneRequest /\ NotInTheLists /\ AckHoldsLists /\ Drained

(* psPowSyncPrim is reset for the request that goes out next.              *)
Requesting == misrPc = "powoff" => powSync = 0

-----------------------------------------------------------------------------
(* Offsets, and the ring as a sequence. *)

LEMMA NextIs ==
  ASSUME NEW o \in Slots
  PROVE  /\ NextOffset(o) = IF o = NumSlots - 1 THEN 0 ELSE o + 1
         /\ NextOffset(o) \in Slots
<1>1. NumSlots \in Nat /\ NumSlots > 1
  BY KernelAssumption
<1>2. CASE o = NumSlots - 1
  <2>1. o + 1 = NumSlots
    BY <1>1, <1>2
  <2>2. NumSlots % NumSlots = 0
    BY <1>1
  <2> QED
    BY <1>1, <1>2, <2>1, <2>2 DEF NextOffset, Slots
<1>3. CASE o # NumSlots - 1
  <2>1. o + 1 \in 0 .. NumSlots - 1
    BY <1>1, <1>3 DEF Slots
  <2>2. (o + 1) % NumSlots = o + 1
    BY <1>1, <2>1
  <2> QED
    BY <1>1, <1>3, <2>1, <2>2 DEF NextOffset, Slots
<1> QED
  BY <1>2, <1>3

LEMMA UnreadIs ==
  ASSUME NEW w \in Slots, NEW r \in Slots
  PROVE  (w - r) % NumSlots = IF r <= w THEN w - r ELSE w - r + NumSlots
<1>1. NumSlots \in Nat /\ NumSlots > 1
  BY KernelAssumption
<1> QED
  BY <1>1 DEF Slots

LEMMA PlaceIs ==
  ASSUME NEW r \in Slots, NEW i \in 1 .. NumSlots
  PROVE  /\ (r + i - 1) % NumSlots =
              IF r + i - 1 < NumSlots THEN r + i - 1 ELSE r + i - 1 - NumSlots
         /\ (r + i - 1) % NumSlots \in Slots
<1>1. NumSlots \in Nat /\ NumSlots > 1
  BY KernelAssumption
<1> QED
  BY <1>1 DEF Slots

(* What the unread entries hold, oldest first.                             *)
RingIds(w, r, k) ==
  [i \in 1 .. (w - r) % NumSlots |-> k[(r + i - 1) % NumSlots].id]

LEMMA RingIsSeq ==
  ASSUME NEW w \in Slots, NEW r \in Slots, NEW k \in [Slots -> Command]
  PROVE  /\ RingIds(w, r, k) \in Seq(Ids)
         /\ Len(RingIds(w, r, k)) = (w - r) % NumSlots
         /\ (w - r) % NumSlots \in 0 .. (NumSlots - 1)
         /\ (w - r) % NumSlots = 0 <=> w = r
<1>1. NumSlots \in Nat /\ NumSlots > 1
  BY KernelAssumption
<1>2. (w - r) % NumSlots \in 0 .. (NumSlots - 1)
  BY <1>1, UnreadIs DEF Slots
<1>3. \A i \in 1 .. (w - r) % NumSlots : k[(r + i - 1) % NumSlots].id \in Ids
  <2> SUFFICES ASSUME NEW i \in 1 .. (w - r) % NumSlots
               PROVE  k[(r + i - 1) % NumSlots].id \in Ids
    OBVIOUS
  <2>1. i \in 1 .. NumSlots
    BY <1>1, <1>2
  <2>2. (r + i - 1) % NumSlots \in Slots
    BY <2>1, PlaceIs
  <2> QED
    BY <2>2 DEF Command
<1>4. RingIds(w, r, k) \in Seq(Ids)
  BY <1>2, <1>3 DEF RingIds
<1>5. Len(RingIds(w, r, k)) = (w - r) % NumSlots
  BY <1>2 DEF RingIds
<1>6. (w - r) % NumSlots = 0 <=> w = r
  BY <1>1, UnreadIs DEF Slots
<1> QED
  BY <1>2, <1>4, <1>5, <1>6

(* A command written at the write offset is the last of the unread ones.   *)
LEMMA RingGrows ==
  ASSUME NEW w \in Slots, NEW r \in Slots, NEW k \in [Slots -> Command], NEW c \in Command,
         NextOffset(w) # r
  PROVE  RingIds(NextOffset(w), r, [k EXCEPT ![w] = c]) = Append(RingIds(w, r, k), c.id)
<1> DEFINE n == (w - r) % NumSlots
           e == [k EXCEPT ![w] = c]
           new == RingIds(NextOffset(w), r, e)
           old == RingIds(w, r, k)
<1>1. NumSlots \in Nat /\ NumSlots > 1
  BY KernelAssumption
<1>2. NextOffset(w) \in Slots
  BY NextIs
<1>3. e \in [Slots -> Command] /\ c.id \in Ids
  BY DEF Command
<1>4. n \in 0 .. (NumSlots - 1) /\ (NextOffset(w) - r) % NumSlots = n + 1
  <2>1. n = IF r <= w THEN w - r ELSE w - r + NumSlots
    BY UnreadIs
  <2>2. (NextOffset(w) - r) % NumSlots =
          IF r <= NextOffset(w) THEN NextOffset(w) - r ELSE NextOffset(w) - r + NumSlots
    BY <1>2, UnreadIs
  <2>3. NextOffset(w) = IF w = NumSlots - 1 THEN 0 ELSE w + 1
    BY NextIs
  <2> HIDE DEF n
  <2> QED
    BY <1>1, <2>1, <2>2, <2>3 DEF Slots
<1>5. old \in Seq(Ids) /\ Len(old) = n
  BY RingIsSeq
<1>6. new \in Seq(Ids) /\ Len(new) = n + 1
  <2>1. new \in Seq(Ids) /\ Len(new) = (NextOffset(w) - r) % NumSlots
    BY <1>2, <1>3, RingIsSeq
  <2> HIDE DEF new, n, e
  <2> QED
    BY <1>4, <2>1
<1>7. \A i \in 1 .. n : new[i] = old[i]
  <2> SUFFICES ASSUME NEW i \in 1 .. n
               PROVE  new[i] = old[i]
    OBVIOUS
  <2> DEFINE p == (r + i - 1) % NumSlots
  <2>1. i \in 1 .. NumSlots /\ i \in 1 .. (n + 1)
    BY <1>1, <1>4
  <2>2. p \in Slots /\ p = IF r + i - 1 < NumSlots THEN r + i - 1 ELSE r + i - 1 - NumSlots
    BY <2>1, PlaceIs
  <2>3. n = IF r <= w THEN w - r ELSE w - r + NumSlots
    BY UnreadIs
  <2>4. p # w
    <3> HIDE DEF p, n
    <3> QED
      BY <1>1, <1>4, <2>2, <2>3 DEF Slots
  <2>5. new[i] = e[p].id
    BY <1>4, <2>1 DEF RingIds
  <2>6. old[i] = k[p].id
    BY DEF RingIds
  <2> QED
    BY <2>2, <2>4, <2>5, <2>6
<1>8. new[n + 1] = c.id
  <2> DEFINE p == (r + (n + 1) - 1) % NumSlots
  <2>1. n + 1 \in 1 .. NumSlots /\ n + 1 \in 1 .. (n + 1)
    BY <1>1, <1>4
  <2>2. p = IF r + (n + 1) - 1 < NumSlots THEN r + (n + 1) - 1 ELSE r + (n + 1) - 1 - NumSlots
    BY <2>1, PlaceIs
  <2>3. n = IF r <= w THEN w - r ELSE w - r + NumSlots
    BY UnreadIs
  <2>4. p = w
    <3> HIDE DEF p, n
    <3> QED
      BY <1>1, <1>4, <2>2, <2>3 DEF Slots
  <2>5. new[n + 1] = e[p].id
    BY <1>4, <2>1 DEF RingIds
  <2> QED
    BY <2>4, <2>5
<1> HIDE DEF new, old, n
<1>9. n \in Nat
  BY <1>4
<1>10. /\ Append(old, c.id) \in Seq(Ids) /\ Len(Append(old, c.id)) = n + 1
       /\ \A i \in 1 .. n : Append(old, c.id)[i] = old[i]
       /\ Append(old, c.id)[n + 1] = c.id
  BY <1>3, <1>5, AppendProperties
<1>11. \A i \in 1 .. (n + 1) : new[i] = Append(old, c.id)[i]
  BY <1>7, <1>8, <1>9, <1>10
<1>12. new = Append(old, c.id)
  BY <1>6, <1>10, <1>11, SeqEqual
<1> QED
  BY <1>12 DEF new, old

(* The entry at the read offset is the first, and goes when it is read.    *)
LEMMA RingShrinks ==
  ASSUME NEW w \in Slots, NEW r \in Slots, NEW k \in [Slots -> Command], w # r
  PROVE  /\ RingIds(w, r, k) # <<>>
         /\ Head(RingIds(w, r, k)) = k[r].id
         /\ RingIds(w, NextOffset(r), [k EXCEPT ![r] = NoCommand]) = Tail(RingIds(w, r, k))
<1> DEFINE n == (w - r) % NumSlots
           e == [k EXCEPT ![r] = NoCommand]
           q == NextOffset(r)
           new == RingIds(w, q, e)
           old == RingIds(w, r, k)
<1>1. NumSlots \in Nat /\ NumSlots > 1
  BY KernelAssumption
<1>2. q \in Slots /\ q = IF r = NumSlots - 1 THEN 0 ELSE r + 1
  BY NextIs
<1>3. e \in [Slots -> Command]
  BY KernelAssumption DEF Command, NoCommand, Ids
<1>4. n \in 1 .. (NumSlots - 1) /\ (w - q) % NumSlots = n - 1
  <2>1. n = IF r <= w THEN w - r ELSE w - r + NumSlots
    BY UnreadIs
  <2>2. (w - q) % NumSlots = IF q <= w THEN w - q ELSE w - q + NumSlots
    BY <1>2, UnreadIs
  <2> HIDE DEF n, q
  <2> QED
    BY <1>1, <1>2, <2>1, <2>2 DEF Slots
<1>5. old \in Seq(Ids) /\ Len(old) = n
  BY RingIsSeq
<1>6. new \in Seq(Ids) /\ Len(new) = n - 1
  <2> HIDE DEF e, q, n
  <2>1. new \in Seq(Ids) /\ Len(new) = (w - q) % NumSlots
    BY <1>2, <1>3, RingIsSeq, ZenonT(30)
  <2> HIDE DEF new
  <2> QED
    BY <1>4, <2>1
<1>7. old[1] = k[r].id
  <2>1. 1 \in 1 .. n /\ 1 \in 1 .. NumSlots
    BY <1>1, <1>4
  <2>2. (r + 1 - 1) % NumSlots = r
    BY <1>1, <2>1, PlaceIs DEF Slots
  <2> QED
    BY <2>1, <2>2 DEF RingIds
<1>8. \A i \in 1 .. (n - 1) : new[i] = old[i + 1]
  <2> SUFFICES ASSUME NEW i \in 1 .. (n - 1)
               PROVE  new[i] = old[i + 1]
    OBVIOUS
  <2> DEFINE p == (q + i - 1) % NumSlots
             p1 == (r + (i + 1) - 1) % NumSlots
  <2>1. i \in 1 .. NumSlots /\ i + 1 \in 1 .. NumSlots /\ i + 1 \in 1 .. n
    BY <1>1, <1>4
  <2>2. p \in Slots /\ p = IF q + i - 1 < NumSlots THEN q + i - 1 ELSE q + i - 1 - NumSlots
    BY <1>2, <2>1, PlaceIs
  <2>3. p1 = IF r + (i + 1) - 1 < NumSlots THEN r + (i + 1) - 1 ELSE r + (i + 1) - 1 - NumSlots
    BY <2>1, PlaceIs
  <2>4. p = p1 /\ p # r
    <3> HIDE DEF p, p1, n, q
    <3> QED
      BY <1>1, <1>2, <1>4, <2>1, <2>2, <2>3 DEF Slots
  <2>5. new[i] = e[p].id
    BY <1>4 DEF RingIds
  <2>6. old[i + 1] = k[p1].id
    BY <2>1 DEF RingIds
  <2> QED
    BY <2>2, <2>4, <2>5, <2>6
<1> HIDE DEF new, old, n
<1>9. n \in Nat \ {0}
  BY <1>4
<1>10. old # <<>>
  BY <1>5, <1>9
<1>11. /\ Tail(old) \in Seq(Ids) /\ Len(Tail(old)) = n - 1
       /\ \A i \in 1 .. (n - 1) : Tail(old)[i] = old[i + 1]
  BY <1>5, <1>10, HeadTailProperties
<1>12. new = Tail(old)
  BY <1>6, <1>8, <1>11, SeqEqual
<1>13. Head(old) = old[1]
  BY <1>5, <1>10
<1> QED
  BY <1>7, <1>10, <1>12, <1>13 DEF new, old

-----------------------------------------------------------------------------
(* The three parts of what is outstanding, joined. *)

IdsOf(s) == [i \in 1 .. Len(s) |-> s[i].id]

LEMMA IdsOfIsSeq ==
  ASSUME NEW s \in Seq(Command)
  PROVE  IdsOf(s) \in Seq(Ids) /\ Len(IdsOf(s)) = Len(s)
<1>1. \A i \in 1 .. Len(s) : s[i].id \in Ids
  <2>1. \A i \in 1 .. Len(s) : s[i] \in Command
    BY ElementOfSeq
  <2> QED
    BY <2>1 DEF Command
<1>2. Len(s) \in Nat
  OBVIOUS
<1>3. IdsOf(s) \in Seq(Ids)
  BY <1>1, <1>2 DEF IdsOf
<1> QED
  BY <1>2, <1>3 DEF IdsOf

LEMMA IdsOfNone == IdsOf(<<>>) = <<>>
BY DEF IdsOf

LEMMA IdsOfAppend ==
  ASSUME NEW s \in Seq(Command), NEW c \in Command
  PROVE  IdsOf(Append(s, c)) = Append(IdsOf(s), c.id)
<1>1. Append(s, c) \in Seq(Command) /\ c.id \in Ids
  BY DEF Command
<1>2. Len(Append(s, c)) = Len(s) + 1 /\ Len(s) \in Nat
  OBVIOUS
<1>3. IdsOf(s) \in Seq(Ids) /\ Len(IdsOf(s)) = Len(s)
  BY IdsOfIsSeq
<1>4. IdsOf(Append(s, c)) \in Seq(Ids) /\ Len(IdsOf(Append(s, c))) = Len(s) + 1
  BY <1>1, <1>2, IdsOfIsSeq
<1>5. /\ Append(IdsOf(s), c.id) \in Seq(Ids)
      /\ Len(Append(IdsOf(s), c.id)) = Len(s) + 1
      /\ \A i \in 1 .. Len(s) : Append(IdsOf(s), c.id)[i] = IdsOf(s)[i]
      /\ Append(IdsOf(s), c.id)[Len(s) + 1] = c.id
  BY <1>1, <1>3, AppendProperties
<1>6. \A i \in 1 .. (Len(s) + 1) : IdsOf(Append(s, c))[i] = Append(IdsOf(s), c.id)[i]
  <2> SUFFICES ASSUME NEW i \in 1 .. (Len(s) + 1)
               PROVE  IdsOf(Append(s, c))[i] = Append(IdsOf(s), c.id)[i]
    OBVIOUS
  <2>1. IdsOf(Append(s, c))[i] = Append(s, c)[i].id
    BY <1>2 DEF IdsOf
  <2>2. CASE i = Len(s) + 1
    BY <1>5, <2>1, <2>2
  <2>3. CASE i # Len(s) + 1
    <3>1. i \in 1 .. Len(s)
      BY <1>2, <2>3
    <3>2. Append(s, c)[i] = s[i] /\ IdsOf(s)[i] = s[i].id
      BY <3>1 DEF IdsOf
    <3> QED
      BY <1>5, <2>1, <3>1, <3>2
  <2> QED
    BY <2>2, <2>3
<1> QED
  BY <1>4, <1>5, <1>6, SeqEqual

LEMMA IdsOfConcat ==
  ASSUME NEW s \in Seq(Command), NEW t \in Seq(Command)
  PROVE  IdsOf(s \o t) = IdsOf(s) \o IdsOf(t)
<1>1. /\ s \o t \in Seq(Command) /\ Len(s \o t) = Len(s) + Len(t)
      /\ \A i \in 1 .. (Len(s) + Len(t)) :
           (s \o t)[i] = IF i <= Len(s) THEN s[i] ELSE t[i - Len(s)]
  BY ConcatProperties
<1>2. IdsOf(s) \in Seq(Ids) /\ Len(IdsOf(s)) = Len(s) /\ Len(s) \in Nat
  BY IdsOfIsSeq
<1>3. IdsOf(t) \in Seq(Ids) /\ Len(IdsOf(t)) = Len(t) /\ Len(t) \in Nat
  BY IdsOfIsSeq
<1>4. IdsOf(s \o t) \in Seq(Ids) /\ Len(IdsOf(s \o t)) = Len(s) + Len(t)
  BY <1>1, IdsOfIsSeq
<1>5. /\ IdsOf(s) \o IdsOf(t) \in Seq(Ids)
      /\ Len(IdsOf(s) \o IdsOf(t)) = Len(s) + Len(t)
      /\ \A i \in 1 .. (Len(s) + Len(t)) : (IdsOf(s) \o IdsOf(t))[i] =
           IF i <= Len(s) THEN IdsOf(s)[i] ELSE IdsOf(t)[i - Len(s)]
  <2> DEFINE a == IdsOf(s)
             b == IdsOf(t)
  <2>1. a \in Seq(Ids) /\ b \in Seq(Ids)
    BY <1>2, <1>3
  <2> HIDE DEF a, b
  <2>2. /\ a \o b \in Seq(Ids) /\ Len(a \o b) = Len(a) + Len(b)
        /\ \A i \in 1 .. (Len(a) + Len(b)) :
             (a \o b)[i] = IF i <= Len(a) THEN a[i] ELSE b[i - Len(a)]
    BY <2>1, ConcatProperties
  <2>3. Len(a) = Len(s) /\ Len(b) = Len(t)
    BY <1>2, <1>3 DEF a, b
  <2> QED
    BY <2>2, <2>3 DEF a, b
<1>6. \A i \in 1 .. (Len(s) + Len(t)) : IdsOf(s \o t)[i] = (IdsOf(s) \o IdsOf(t))[i]
  <2> SUFFICES ASSUME NEW i \in 1 .. (Len(s) + Len(t))
               PROVE  IdsOf(s \o t)[i] = (IdsOf(s) \o IdsOf(t))[i]
    OBVIOUS
  <2>1. IdsOf(s \o t)[i] = (s \o t)[i].id
    BY <1>1 DEF IdsOf
  <2>2. CASE i <= Len(s)
    <3>1. i \in 1 .. Len(s)
      BY <1>2, <1>3, <2>2
    <3>2. IdsOf(s)[i] = s[i].id
      BY <3>1 DEF IdsOf
    <3> QED
      BY <1>1, <1>5, <2>1, <2>2, <3>2
  <2>3. CASE ~(i <= Len(s))
    <3>1. i - Len(s) \in 1 .. Len(t)
      BY <1>2, <1>3, <2>3
    <3>2. IdsOf(t)[i - Len(s)] = t[i - Len(s)].id
      BY <3>1 DEF IdsOf
    <3> QED
      BY <1>1, <1>5, <2>1, <2>3, <3>2
  <2> QED
    BY <2>2, <2>3
<1> QED
  BY <1>4, <1>5, <1>6, SeqEqual

LEMMA IdsOfFirst ==
  ASSUME NEW s \in Seq(Command), s # <<>>
  PROVE  /\ Head(s) \in Command /\ Tail(s) \in Seq(Command)
         /\ Head(s).id \in Ids
         /\ IdsOf(s) = <<Head(s).id>> \o IdsOf(Tail(s))
<1>1. Head(s) \in Command /\ Tail(s) \in Seq(Command)
  BY HeadTailProperties
<1>2. s = <<Head(s)>> \o Tail(s)
  <2>1. Len(s) \in Nat \ {0}
    BY EmptySeq
  <2>2. Tail(s) = SubSeq(s, 2, Len(s)) /\ SubSeq(s, 1, Len(s)) = s
    BY TailIsSubSeq, SubSeqFull
  <2>3. 1 \in 1 .. Len(s) /\ Len(s) \in 1 .. Len(s)
    BY <2>1
  <2>4. SubSeq(s, 1, Len(s)) = <<s[1]>> \o SubSeq(s, 1 + 1, Len(s))
    BY <2>3, SubSeqRecursiveFirst
  <2>5. Head(s) = s[1]
    BY <2>1
  <2> QED
    BY <2>2, <2>4, <2>5
<1>3. <<Head(s)>> \in Seq(Command)
  BY <1>1
<1>4. IdsOf(<<Head(s)>>) = <<Head(s).id>>
  BY DEF IdsOf
<1>5. Head(s).id \in Ids
  BY <1>1 DEF Command
<1> QED
  BY <1>1, <1>2, <1>3, <1>4, <1>5, IdsOfConcat

(* What happens to the join of ring, local list and deferred list.         *)
LEMMA JoinSend ==
  ASSUME NEW r \in Seq(Ids), NEW x \in Ids
  PROVE  Append(r, x) \o <<>> \o <<>> = Append(r \o <<>> \o <<>>, x)
<1>1. Append(r, x) \in Seq(Ids)
  OBVIOUS
<1> QED
  BY <1>1, ConcatEmptySeq

LEMMA JoinDefer ==
  ASSUME NEW r \in Seq(Ids), NEW d \in Seq(Ids), NEW x \in Ids
  PROVE  r \o <<>> \o Append(d, x) = Append(r \o <<>> \o d, x)
<1>1. r \o <<>> = r
  BY ConcatEmptySeq
<1>2. Append(d, x) = d \o <<x>> /\ <<x>> \in Seq(Ids)
  BY AppendIsConcat
<1>3. r \o d \in Seq(Ids)
  BY ConcatProperties
<1>4. Append(r \o d, x) = (r \o d) \o <<x>>
  BY <1>3, AppendIsConcat
<1> QED
  BY <1>1, <1>2, <1>4, ConcatAssociative

LEMMA JoinMove ==
  ASSUME NEW r \in Seq(Ids), NEW d \in Seq(Ids)
  PROVE  r \o d \o <<>> = r \o <<>> \o d
<1>1. r \o d \in Seq(Ids)
  BY ConcatProperties
<1> QED
  BY <1>1, ConcatEmptySeq

LEMMA JoinPutBack ==
  ASSUME NEW r \in Seq(Ids), NEW l \in Seq(Ids), NEW d \in Seq(Ids)
  PROVE  r \o <<>> \o (l \o d) = r \o l \o d
BY ConcatEmptySeq, ConcatAssociative

LEMMA JoinFlush ==
  ASSUME NEW r \in Seq(Ids), NEW x \in Ids, NEW l \in Seq(Ids), NEW d \in Seq(Ids)
  PROVE  Append(r, x) \o l \o d = r \o (<<x>> \o l) \o d
<1>1. Append(r, x) = r \o <<x>> /\ <<x>> \in Seq(Ids)
  BY AppendIsConcat
<1>2. (r \o <<x>>) \o l = r \o (<<x>> \o l)
  BY <1>1, ConcatAssociative
<1> QED
  BY <1>1, <1>2

LEMMA JoinExecute ==
  ASSUME NEW r \in Seq(Ids), NEW l \in Seq(Ids), NEW d \in Seq(Ids), r # <<>>
  PROVE  /\ r \o l \o d # <<>>
         /\ Head(r \o l \o d) = Head(r)
         /\ Tail(r \o l \o d) = Tail(r) \o l \o d
<1> DEFINE s == l \o d
<1>1. s \in Seq(Ids) /\ r \o l \o d = r \o s
  BY ConcatProperties, ConcatAssociative
<1>2. Tail(r) \in Seq(Ids) /\ Len(Tail(r)) = Len(r) - 1
  BY HeadTailProperties
<1>3. Tail(r) \o l \o d = Tail(r) \o s
  BY <1>2, ConcatAssociative
<1> HIDE DEF s
<1>4. Len(r) \in Nat \ {0} /\ Len(s) \in Nat
  BY <1>1, EmptySeq
<1>5. /\ r \o s \in Seq(Ids) /\ Len(r \o s) = Len(r) + Len(s)
      /\ \A i \in 1 .. (Len(r) + Len(s)) :
           (r \o s)[i] = IF i <= Len(r) THEN r[i] ELSE s[i - Len(r)]
  BY <1>1, ConcatProperties
<1>6. r \o s # <<>>
  BY <1>4, <1>5
<1>7. Head(r \o s) = Head(r)
  <2>1. Head(r \o s) = (r \o s)[1] /\ Head(r) = r[1]
    BY <1>4, <1>5
  <2>2. 1 \in 1 .. (Len(r) + Len(s)) /\ 1 <= Len(r)
    BY <1>4
  <2> QED
    BY <1>5, <2>1, <2>2
<1>8. Tail(r \o s) = Tail(r) \o s
  <2>1. /\ Tail(r \o s) \in Seq(Ids) /\ Len(Tail(r \o s)) = Len(r) + Len(s) - 1
        /\ \A i \in 1 .. (Len(r) + Len(s) - 1) : Tail(r \o s)[i] = (r \o s)[i + 1]
    BY <1>5, <1>6, HeadTailProperties
  <2>2. /\ Tail(r) \o s \in Seq(Ids) /\ Len(Tail(r) \o s) = Len(r) - 1 + Len(s)
        /\ \A i \in 1 .. (Len(r) - 1 + Len(s)) :
             (Tail(r) \o s)[i] = IF i <= Len(r) - 1 THEN Tail(r)[i] ELSE s[i - (Len(r) - 1)]
    BY <1>1, <1>2, ConcatProperties
  <2>3. \A i \in 1 .. (Len(r) - 1) : Tail(r)[i] = r[i + 1]
    BY <1>2, HeadTailProperties
  <2>4. \A i \in 1 .. (Len(r) + Len(s) - 1) : Tail(r \o s)[i] = (Tail(r) \o s)[i]
    <3> SUFFICES ASSUME NEW i \in 1 .. (Len(r) + Len(s) - 1)
                 PROVE  Tail(r \o s)[i] = (Tail(r) \o s)[i]
      OBVIOUS
    <3>1. i + 1 \in 1 .. (Len(r) + Len(s)) /\ i \in 1 .. (Len(r) - 1 + Len(s))
      BY <1>4
    <3>2. Tail(r \o s)[i] = IF i + 1 <= Len(r) THEN r[i + 1] ELSE s[i + 1 - Len(r)]
      BY <1>5, <2>1, <3>1
    <3>3. CASE i <= Len(r) - 1
      <4>1. i \in 1 .. (Len(r) - 1) /\ i + 1 <= Len(r)
        BY <1>4, <3>3
      <4> QED
        BY <2>2, <2>3, <3>1, <3>2, <3>3, <4>1
    <3>4. CASE ~(i <= Len(r) - 1)
      <4>1. ~(i + 1 <= Len(r)) /\ i + 1 - Len(r) = i - (Len(r) - 1)
        BY <1>4, <3>4
      <4> QED
        BY <2>2, <3>1, <3>2, <3>4, <4>1
    <3> QED
      BY <3>3, <3>4
  <2> QED
    BY <1>4, <2>1, <2>2, <2>4, SeqEqual
<1> QED
  BY <1>1, <1>3, <1>6, <1>7, <1>8

-----------------------------------------------------------------------------
(* The invariant: types. *)

LEMMA NoCommandFits == NoCommand \in Command /\ NoCommand.id = 0
BY KernelAssumption DEF NoCommand, Command, Ids

LEMMA AcceptedFits ==
  ASSUME TypeOK
  PROVE  /\ Accepted \in Command /\ Accepted.id = nextId
         /\ Accepted.kind = req.kind /\ Accepted.from = req.from
         /\ nextId \in Ids
<1>1. req \in Command /\ nextId \in Ids
  BY DEF TypeOK
<1> QED
  BY <1>1 DEF Accepted, Command

LEMMA CountFits ==
  ASSUME TypeOK, CountAccepted
  PROVE  nextId' \in Ids
<1>1. nextId \in Nat /\ NumIds \in Nat \ {0}
  BY KernelAssumption DEF TypeOK, Ids
<1>2. (nextId + 1) % NumIds \in 0 .. (NumIds - 1)
  BY <1>1
<1> QED
  BY <1>2 DEF CountAccepted, Ids

LEMMA SendRawFits ==
  ASSUME NEW c \in Command, TypeOK, SendRaw(c)
  PROVE  /\ WriteOffset' \in Slots /\ ReadOffset' \in Slots
         /\ kccb' \in [Slots -> Command] /\ rtnSlots' \in [Slots -> Answers]
<1>1. WriteOffset' \in Slots /\ ReadOffset' \in Slots
  BY NextIs DEF TypeOK, SendRaw
<1>2. kccb' \in [Slots -> Command]
  <2>1. kccb \in [Slots -> Command] /\ kccb' = [kccb EXCEPT ![WriteOffset] = c]
    BY DEF TypeOK, SendRaw
  <2> QED
    BY <2>1
<1>3. rtnSlots' \in [Slots -> Answers]
  BY DEF TypeOK, SendRaw, Reset, Answers
<1> QED
  BY <1>1, <1>2, <1>3

(* The flags of the callers whose entry is given away are Booleans.        *)
LEMMA ReusedFits ==
  ASSUME NEW c, SendRaw(c)
  PROVE  reused' \in [Clients -> BOOLEAN]
<1>1. reused' = [t \in Clients |->
        reused[t] \/ (pc[t] \in {"wait", "answered"} /\ slot[t] = WriteOffset)]
  BY Zenon DEF SendRaw
<1>2. \A t \in Clients :
        (reused[t] \/ (pc[t] \in {"wait", "answered"} /\ slot[t] = WriteOffset)) \in BOOLEAN
  BY Zenon
<1> QED
  BY <1>1, <1>2, Zenon

LEMMA TypeClients ==
  ASSUME NEW t \in Clients, TypeOK, ClientStep(t)
  PROVE  TypeOK'
<1> USE DEF ring, fw, sender, clients, history
<1>1. ASSUME NEW kind \in {"kick", "cleanup"}, Schedule(t, kind)
      PROVE  TypeOK'
  <2>1. req' \in Command
    BY <1>1, KernelAssumption DEF Schedule, Command, Kinds, Ids, Threads
  <2>2. powerLock' \in Threads \cup {None}
    BY <1>1 DEF Schedule, Threads
  <2> QED
    BY <1>1, <2>1, <2>2 DEF Schedule, TypeOK
<1>2. CASE SendOwn(t)
  <2>1. SendRaw(Accepted) /\ CountAccepted
    BY <1>2 DEF SendOwn
  <2>2. /\ WriteOffset' \in Slots /\ ReadOffset' \in Slots
        /\ kccb' \in [Slots -> Command] /\ rtnSlots' \in [Slots -> Answers]
    BY <2>1, AcceptedFits, SendRawFits
  <2>3. nextId' \in Ids /\ req' \in Command
    BY <1>2, <2>1, CountFits, NoCommandFits DEF SendOwn, Unlock
  <2>4. slot' \in [Clients -> Slots]
    <3>1. 0 \in Slots
      BY KernelAssumption DEF Slots
    <3> QED
      BY <1>2, <3>1 DEF SendOwn, TypeOK
  <2>5. cmdId' \in [Clients -> Ids]
    <3>1. 0 \in Ids
      BY KernelAssumption DEF Ids
    <3> QED
      BY <1>2, <3>1 DEF SendOwn, TypeOK
  <2>6. pc' \in [Clients -> {"idle", "sending", "wait", "answered", "cleaned"}]
    BY <1>2 DEF SendOwn, TypeOK
  <2>7. answer' \in [Clients -> Answers]
    BY <1>2 DEF SendOwn, TypeOK, Answers
  <2>8. reused' \in [Clients -> BOOLEAN]
    BY <2>1, ReusedFits
  <2> QED
    BY <1>2, <2>2, <2>3, <2>4, <2>5, <2>6, <2>7, <2>8 DEF SendOwn, Unlock, TypeOK
<1>3. CASE DeferOwn(t)
  <2>1. nextId' \in Ids /\ req' \in Command
    BY <1>3, CountFits, NoCommandFits DEF DeferOwn, Unlock
  <2>2. deferred' \in Seq(Command)
    <3>1. Accepted \in Command /\ deferred' = Append(deferred, Accepted)
      BY <1>3, AcceptedFits DEF DeferOwn
    <3>2. deferred \in Seq(Command)
      BY DEF TypeOK
    <3> QED
      BY <3>1, <3>2
  <2> QED
    BY <1>3, <2>1, <2>2 DEF DeferOwn, Unlock, TypeOK
<1>4. CASE FailOwn(t)
  BY <1>4, NoCommandFits DEF FailOwn, Unlock, TypeOK
<1>5. ASSUME Forget(t)
      PROVE  cmdId' \in [Clients -> Ids] /\ slot' \in [Clients -> Slots]
             /\ answer' \in [Clients -> Answers] /\ reused' \in [Clients -> BOOLEAN]
  <2>1. 0 \in Slots /\ 0 \in Ids
    BY KernelAssumption DEF Slots, Ids
  <2>2. reused' \in [Clients -> BOOLEAN]
    BY <1>5 DEF Forget, TypeOK
  <2>3. /\ cmdId' \in [Clients -> Ids] /\ slot' \in [Clients -> Slots]
        /\ answer' \in [Clients -> Answers]
    BY <1>5, <2>1 DEF Forget, TypeOK, Answers
  <2> QED
    BY <2>2, <2>3
<1>6. CASE WaitForKCCBSlotUpdate(t)
  BY <1>6 DEF WaitForKCCBSlotUpdate, TypeOK
<1>7. CASE WaitTimesOut(t)
  BY <1>5, <1>7 DEF WaitTimesOut, TypeOK
<1>8. CASE ReadAnswer(t)
  BY <1>5, <1>8 DEF ReadAnswer, TypeOK
<1>9. CASE Free(t)
  BY <1>5, <1>9 DEF Free, TypeOK
<1> QED
  BY <1>1, <1>2, <1>3, <1>4, <1>6, <1>7, <1>8, <1>9 DEF ClientStep

LEMMA TypeSender ==
  ASSUME TypeOK, SenderStep
  PROVE  TypeOK'
<1> USE DEF ring, fw, sender, clients, history
<1>1. CASE MoveList
  BY <1>1 DEF MoveList, TypeOK
<1>2. CASE SendDeferred
  <2>1. local \in Seq(Command) /\ local # <<>>
    BY <1>2 DEF SendDeferred, TypeOK
  <2>2. Head(local) \in Command /\ Tail(local) \in Seq(Command)
    BY <2>1, HeadTailProperties
  <2>3. /\ WriteOffset' \in Slots /\ ReadOffset' \in Slots
        /\ kccb' \in [Slots -> Command] /\ rtnSlots' \in [Slots -> Answers]
    BY <1>2, <2>2, SendRawFits DEF SendDeferred
  <2>4. reused' \in [Clients -> BOOLEAN]
    BY <1>2, ReusedFits DEF SendDeferred
  <2> QED
    BY <1>2, <2>2, <2>3, <2>4 DEF SendDeferred, TypeOK
<1>3. CASE Flushed
  BY <1>3 DEF Flushed, TypeOK
<1>4. CASE PutBack
  <2>1. local \in Seq(Command) /\ deferred \in Seq(Command)
    BY DEF TypeOK
  <2>2. deferred' \in Seq(Command) /\ local' \in Seq(Command)
    BY <1>4, <2>1, ConcatProperties DEF PutBack, Remaining
  <2> QED
    BY <1>4, <2>2 DEF PutBack, AfterPutBack, TypeOK
<1>5. CASE FindFull
  BY <1>5 DEF FindFull, TypeOK
<1> QED
  BY <1>1, <1>2, <1>3, <1>4, <1>5 DEF SenderStep

LEMMA TypeMisr ==
  ASSUME TypeOK, MisrStep
  PROVE  TypeOK'
<1> USE DEF ring, fw, sender, clients, history
<1>1. CASE RunMisr
  <2>1. misrScheduled' \in BOOLEAN
    BY <1>1, Zenon DEF RunMisr
  <2> QED
    BY <1>1, <2>1 DEF RunMisr, TypeOK
<1>2. CASE Scan
  BY <1>2 DEF Scan, AfterList, TypeOK
<1>3. CASE LockToFlush
  BY <1>3 DEF LockToFlush, Threads, TypeOK
<1>4. CASE FlushEnds
  BY <1>4, NoCommandFits DEF FlushEnds, Unlock, AfterList, TypeOK
<1>5. CASE TryPowerLock
  <2>1. misrScheduled' \in BOOLEAN
    BY <1>5, Zenon DEF TryPowerLock, Reschedule, TypeOK
  <2>2. powerLock' \in Threads \cup {None} /\ misrPc' \in {"idle", "recheck"}
    BY <1>5 DEF TryPowerLock, Threads, TypeOK
  <2> QED
    BY <1>5, <2>1, <2>2 DEF TryPowerLock, TypeOK
<1>6. CASE RequestPowerOff
  <2>1. [kind |-> "powoff", id |-> 0, from |-> Misr] \in Command
    BY KernelAssumption DEF Command, Kinds, Ids, Threads
  <2>2. req' \in Command /\ powerLock' \in Threads \cup {None}
    BY <1>6, <2>1, NoCommandFits DEF RequestPowerOff, Unlock, TypeOK
  <2>3. powSync' \in {0, 1} /\ stage' \in {"none", "begin"} /\ misrPc' \in {"powoff", "idle"}
    BY <1>6 DEF RequestPowerOff, Unlock, TypeOK
  <2> QED
    BY <1>6, <2>2, <2>3 DEF RequestPowerOff, TypeOK
<1>7. CASE SendPowerOff
  <2>1. /\ WriteOffset' \in Slots /\ ReadOffset' \in Slots
        /\ kccb' \in [Slots -> Command] /\ rtnSlots' \in [Slots -> Answers]
    BY <1>7, AcceptedFits, SendRawFits DEF SendPowerOff
  <2>2. nextId' \in Ids /\ req' \in Command
    BY <1>7, CountFits, NoCommandFits DEF SendPowerOff
  <2>3. reused' \in [Clients -> BOOLEAN]
    BY <1>7, ReusedFits DEF SendPowerOff
  <2> QED
    BY <1>7, <2>1, <2>2, <2>3 DEF SendPowerOff, TypeOK
<1>8. CASE PowerOffNotSent
  BY <1>8, NoCommandFits DEF PowerOffNotSent, Unlock, TypeOK
<1>9. CASE PowerOffAnswered
  BY <1>9, NoCommandFits DEF PowerOffAnswered, Unlock, TypeOK
<1>10. CASE PowerOffTimesOut
  BY <1>10, NoCommandFits DEF PowerOffTimesOut, Unlock, TypeOK
<1> QED
  BY <1>1, <1>2, <1>3, <1>4, <1>5, <1>6, <1>7, <1>8, <1>9, <1>10 DEF MisrStep

LEMMA TypeFirmware ==
  ASSUME TypeOK, FwStep
  PROVE  TypeOK'
<1> USE DEF ring, fw, sender, clients, history
<1>1. CASE FwExecute
  <2> DEFINE c == kccb[ReadOffset]
  <2>1. c \in Command /\ c.id \in Ids
    BY DEF TypeOK, Command
  <2>2. ReadOffset' \in Slots
    BY <1>1, NextIs DEF FwExecute, TypeOK
  <2>3. kccb' \in [Slots -> Command]
    <3>1. kccb' = [kccb EXCEPT ![ReadOffset] = NoCommand] /\ kccb \in [Slots -> Command]
      BY <1>1 DEF FwExecute, TypeOK
    <3> QED
      BY <3>1, NoCommandFits
  <2>4. rtnSlots' \in [Slots -> Answers] /\ answer' \in [Clients -> Answers]
    <3>1. PICK a \in {"executed", "busy"} :
            /\ rtnSlots' = [rtnSlots EXCEPT ![ReadOffset] = a]
            /\ answer' = [t \in Clients |->
                 IF /\ pc[t] \in {"wait", "answered"} /\ slot[t] = ReadOffset
                    /\ c.kind = "cleanup" /\ c.from = t /\ c.id = cmdId[t]
                   THEN a ELSE answer[t]]
      BY <1>1 DEF FwExecute
    <3>2. a \in Answers
      BY DEF Answers
    <3>3. rtnSlots' \in [Slots -> Answers]
      BY <3>1, <3>2 DEF TypeOK
    <3>4. \A t \in Clients : answer'[t] \in Answers
      BY <3>1, <3>2 DEF TypeOK
    <3> QED
      BY <3>1, <3>3, <3>4
  <2>5. powSync' \in {0, 1} /\ ePowState' \in {"on", "idle", "off"} /\ out' \in Ids
    BY <1>1, <2>1 DEF FwExecute, TypeOK
  <2>6. UNCHANGED <<WriteOffset, deferred, powerLock, devicePower, misrScheduled, sender,
                    clients, misrPc, nextId, reused, pvAPMISRData>>
    BY <1>1 DEF FwExecute
  <2> QED
    BY <2>2, <2>3, <2>4, <2>5, <2>6 DEF TypeOK
<1>2. CASE FwIdle
  <2>1. misrScheduled' \in BOOLEAN
    BY <1>2, Zenon DEF FwIdle
  <2> QED
    BY <1>2, <2>1 DEF FwIdle, TypeOK
<1>3. CASE FwInterrupt
  <2>1. misrScheduled' \in BOOLEAN
    BY <1>3, Zenon DEF FwInterrupt
  <2> QED
    BY <1>3, <2>1 DEF FwInterrupt, TypeOK
<1> QED
  BY <1>1, <1>2, <1>3 DEF FwStep

LEMMA TypeStep ==
  ASSUME TypeOK, [Next]_vars
  PROVE  TypeOK'
<1>1. CASE UNCHANGED vars
  BY <1>1 DEF vars, ring, fw, sender, clients, history, TypeOK
<1> QED
  BY <1>1, TypeClients, TypeSender, TypeMisr, TypeFirmware DEF Next

-----------------------------------------------------------------------------
(* The invariant: the power lock and the lists. *)

LEMMA LockFacts ==
  /\ Misr \notin Clients /\ None \notin Clients /\ Misr # None
  /\ Threads = Clients \cup {Misr}
  /\ NoCommand.kind = "none" /\ NoCommand.from = None
BY KernelAssumption DEF Threads, NoCommand

LEMMA LockClients ==
  ASSUME NEW t \in Clients, TypeOK, LockOwner, ClientStep(t)
  PROVE  LockOwner'
<1> USE LockFacts DEF ring, fw, sender, clients, history
<1> DEFINE PCs == {"idle", "sending", "wait", "answered", "cleaned"}
<1>1. pc \in [Clients -> PCs]
  BY DEF TypeOK
<1>2. ASSUME NEW kind \in {"kick", "cleanup"}, Schedule(t, kind)
      PROVE  LockOwner'
  <2>1. req' = [kind |-> kind, id |-> 0, from |-> t]
    BY <1>2 DEF Schedule
  <2>2. req'.kind = kind /\ req'.from = t /\ req' # NoCommand
    BY <2>1 DEF NoCommand
  <2>3. stage = "none" /\ misrPc \notin {"flush", "recheck", "powoff", "ack"}
    BY <1>2 DEF Schedule, LockOwner
  <2>4. powerLock' = t /\ pc' = [pc EXCEPT ![t] = "sending"] /\ stage' = "begin" /\ misrPc' = misrPc
    BY <1>2 DEF Schedule
  <2>5. \A u \in Clients : pc[u] # "sending"
    BY <1>2 DEF Schedule, LockOwner
  <2> QED
    BY <1>1, <2>2, <2>3, <2>4, <2>5 DEF LockOwner
<1>3. ASSUME req.from = t, req # NoCommand \/ stage # "none", pc'[t] # "sending",
             \A u \in Clients \ {t} : pc'[u] = pc[u], Unlock, misrPc' = misrPc
      PROVE  LockOwner'
  <2>1. powerLock = t
    <3>1. req # NoCommand
      BY <1>3
    <3> QED
      BY <1>3, <3>1 DEF LockOwner
  <2>2. misrPc \notin {"flush", "recheck", "powoff", "ack"}
    BY <2>1 DEF LockOwner
  <2>3. \A u \in Clients : pc'[u] # "sending"
    BY <1>3, <2>1 DEF LockOwner
  <2> QED
    BY <1>3, <2>2, <2>3 DEF LockOwner, Unlock
<1>4. CASE SendOwn(t)
  <2>1. pc' = [pc EXCEPT ![t] = IF WantsSlot(req) THEN "wait" ELSE "idle"]
    BY <1>4 DEF SendOwn
  <2>2. pc'[t] # "sending" /\ \A u \in Clients \ {t} : pc'[u] = pc[u]
    BY <1>1, <2>1
  <2> QED
    BY <1>3, <1>4, <2>2 DEF SendOwn, MaySend
<1>5. CASE DeferOwn(t)
  <2>1. pc'[t] # "sending" /\ \A u \in Clients \ {t} : pc'[u] = pc[u]
    BY <1>1, <1>5 DEF DeferOwn
  <2> QED
    BY <1>3, <1>5, <2>1 DEF DeferOwn, Refused
<1>6. CASE FailOwn(t)
  <2>1. pc'[t] # "sending" /\ \A u \in Clients \ {t} : pc'[u] = pc[u]
    BY <1>1, <1>6 DEF FailOwn
  <2> QED
    BY <1>3, <1>6, <2>1 DEF FailOwn, Refused
<1>7. ASSUME pc[t] # "sending", pc'[t] # "sending", \A u \in Clients \ {t} : pc'[u] = pc[u],
             UNCHANGED <<powerLock, sender, misrPc>>
      PROVE  LockOwner'
  BY <1>7 DEF LockOwner
<1>8. CASE WaitForKCCBSlotUpdate(t)
  BY <1>1, <1>7, <1>8 DEF WaitForKCCBSlotUpdate
<1>9. CASE WaitTimesOut(t)
  BY <1>1, <1>7, <1>9 DEF WaitTimesOut
<1>10. CASE ReadAnswer(t)
  BY <1>1, <1>7, <1>10 DEF ReadAnswer
<1>11. CASE Free(t)
  BY <1>1, <1>7, <1>11 DEF Free
<1> QED
  BY <1>2, <1>4, <1>5, <1>6, <1>8, <1>9, <1>10, <1>11 DEF ClientStep

LEMMA LockOthers ==
  ASSUME TypeOK, LockOwner, SenderStep \/ MisrStep \/ FwStep
  PROVE  LockOwner'
<1> USE LockFacts DEF ring, fw, sender, clients, history
<1>1. CASE SenderStep
  <2>1. stage # "none" /\ stage' # "none" /\ UNCHANGED <<powerLock, req, pc, misrPc>>
    BY <1>1 DEF SenderStep, MoveList, SendDeferred, Flushed, PutBack, AfterPutBack, FindFull
  <2> QED
    BY <2>1 DEF LockOwner
<1>2. CASE RunMisr
  BY <1>2 DEF RunMisr, LockOwner
<1>3. CASE Scan
  BY <1>3 DEF Scan, AfterList, LockOwner
<1>4. CASE LockToFlush
  BY <1>4 DEF LockToFlush, LockOwner
<1>5. CASE FlushEnds
  BY <1>5 DEF FlushEnds, AfterList, Unlock, LockOwner
<1>6. CASE TryPowerLock
  <2>1. CASE misrPc' = "idle"
    BY <1>6, <2>1 DEF TryPowerLock, LockOwner
  <2>2. CASE misrPc' = "recheck"
    BY <1>6, <2>2 DEF TryPowerLock, LockOwner
  <2> QED
    BY <1>6, <2>1, <2>2 DEF TryPowerLock
<1>7. CASE RequestPowerOff
  <2>1. CASE StillIdle
    <3>1. req' = [kind |-> "powoff", id |-> 0, from |-> Misr]
      BY <1>7, <2>1 DEF RequestPowerOff
    <3>2. req'.kind = "powoff" /\ req'.from = Misr /\ req' # NoCommand
      BY <3>1 DEF NoCommand
    <3> QED
      BY <1>7, <2>1, <3>2 DEF RequestPowerOff, LockOwner
  <2>2. CASE ~StillIdle
    BY <1>7, <2>2 DEF RequestPowerOff, Unlock, LockOwner
  <2> QED
    BY <2>1, <2>2
<1>8. CASE SendPowerOff
  BY <1>8 DEF SendPowerOff, LockOwner
<1>9. CASE PowerOffNotSent
  BY <1>9 DEF PowerOffNotSent, Unlock, LockOwner
<1>10. CASE PowerOffAnswered
  BY <1>10 DEF PowerOffAnswered, Unlock, LockOwner
<1>11. CASE PowerOffTimesOut
  BY <1>11 DEF PowerOffTimesOut, Unlock, LockOwner
<1>12. CASE FwStep
  BY <1>12 DEF FwStep, FwExecute, FwIdle, FwInterrupt, LockOwner
<1> QED
  BY <1>1, <1>2, <1>3, <1>4, <1>5, <1>6, <1>7, <1>8, <1>9, <1>10, <1>11, <1>12 DEF MisrStep

LEMMA LockStep ==
  ASSUME TypeOK, LockOwner, [Next]_vars
  PROVE  LockOwner'
<1>1. CASE UNCHANGED vars
  BY <1>1 DEF vars, ring, fw, sender, clients, history, LockOwner
<1> QED
  BY <1>1, LockClients, LockOthers DEF Next

(* Nobody is sending while the lock is free, nor while the MISR waits.     *)
LEMMA QuietStage ==
  ASSUME LockOwner, powerLock = None \/ misrPc \in {"recheck", "ack"}
  PROVE  stage = "none"
BY LockFacts DEF LockOwner

LEMMA ListsStep ==
  ASSUME TypeOK, LockOwner, ListsTaken, [Next]_vars
  PROVE  ListsTaken'
<1> USE LockFacts DEF ring, fw, sender, clients, history
<1>1. CASE UNCHANGED vars
  BY <1>1 DEF vars, ListsTaken
<1>2. ASSUME NEW t \in Clients, ClientStep(t)
      PROVE  ListsTaken'
  <2>1. ASSUME NEW kind \in {"kick", "cleanup"}, Schedule(t, kind)
        PROVE  ListsTaken'
    BY <2>1, QuietStage DEF Schedule, ListsTaken
  <2>2. CASE SendOwn(t)
    BY <2>2 DEF SendOwn, MaySend, Unlock, ListsTaken
  <2>3. CASE DeferOwn(t)
    BY <2>3 DEF DeferOwn, Refused, Unlock, ListsTaken
  <2>4. CASE FailOwn(t)
    BY <2>4 DEF FailOwn, Refused, Unlock, ListsTaken
  <2>5. ASSUME UNCHANGED <<deferred, sender>>
        PROVE  ListsTaken'
    BY <2>5 DEF ListsTaken
  <2> QED
    BY <1>2, <2>1, <2>2, <2>3, <2>4, <2>5
       DEF ClientStep, WaitForKCCBSlotUpdate, WaitTimesOut, ReadAnswer, Free
<1>3. CASE MoveList
  BY <1>3 DEF MoveList, ListsTaken
<1>4. CASE SendDeferred
  BY <1>4 DEF SendDeferred, ListsTaken
<1>5. CASE Flushed
  BY <1>5 DEF Flushed, ListsTaken
<1>6. CASE PutBack
  BY <1>6 DEF PutBack, AfterPutBack, ListsTaken
<1>7. CASE FindFull
  BY <1>7 DEF FindFull, ListsTaken
<1>8. CASE MisrStep
  <2>1. CASE RunMisr \/ Scan
    BY <2>1 DEF RunMisr, Scan, ListsTaken
  <2>2. CASE LockToFlush
    BY <2>2, QuietStage DEF LockToFlush, ListsTaken
  <2>3. CASE FlushEnds
    BY <2>3 DEF FlushEnds, Unlock, ListsTaken
  <2>4. CASE TryPowerLock
    BY <2>4 DEF TryPowerLock, ListsTaken
  <2>5. CASE RequestPowerOff
    BY <2>5, QuietStage DEF RequestPowerOff, Unlock, ListsTaken
  <2>6. CASE SendPowerOff
    BY <2>6 DEF SendPowerOff, MaySend, ListsTaken
  <2>7. CASE PowerOffNotSent
    BY <2>7 DEF PowerOffNotSent, Refused, Unlock, ListsTaken
  <2>8. CASE PowerOffAnswered \/ PowerOffTimesOut
    BY <2>8, QuietStage DEF PowerOffAnswered, PowerOffTimesOut, Unlock, ListsTaken
  <2> QED
    BY <1>8, <2>1, <2>2, <2>3, <2>4, <2>5, <2>6, <2>7, <2>8 DEF MisrStep
<1>9. CASE FwStep
  BY <1>9 DEF FwStep, FwExecute, FwIdle, FwInterrupt, ListsTaken
<1> QED
  BY <1>1, <1>2, <1>3, <1>4, <1>5, <1>6, <1>7, <1>8, <1>9 DEF Next, SenderStep

-----------------------------------------------------------------------------
(* The invariant: answers. *)

(* The write offset is not unread until it is passed.                      *)
LEMMA UnreadGrows ==
  ASSUME NEW w \in Slots, NEW r \in Slots, NextOffset(w) # r
  PROVE  /\ w \notin Between(r, w)
         /\ Between(r, NextOffset(w)) = Between(r, w) \cup {w}
<1>1. NumSlots \in Nat /\ NumSlots > 1
  BY KernelAssumption
<1>2. NextOffset(w) = IF w = NumSlots - 1 THEN 0 ELSE w + 1
  BY NextIs
<1> QED
  BY <1>1, <1>2 DEF Between, Slots

LEMMA UnreadShrinks ==
  ASSUME NEW w \in Slots, NEW r \in Slots, w # r
  PROVE  /\ r \in Between(r, w)
         /\ Between(NextOffset(r), w) = Between(r, w) \ {r}
<1>1. NumSlots \in Nat /\ NumSlots > 1
  BY KernelAssumption
<1>2. NextOffset(r) = IF r = NumSlots - 1 THEN 0 ELSE r + 1
  BY NextIs
<1> QED
  BY <1>1, <1>2 DEF Between, Slots

LEMMA NothingUnread ==
  ASSUME NEW w \in Slots
  PROVE  Between(w, w) = {}
BY KernelAssumption DEF Between, Slots

(* A command sent leaves alone every entry that is still to be read.       *)
LEMMA SentAway ==
  ASSUME NEW c \in Command, NEW s \in Unread, TypeOK, SendRaw(c)
  PROVE  s \in Unread' /\ kccb'[s] = kccb[s] /\ rtnSlots'[s] = rtnSlots[s]
<1>1. WriteOffset \in Slots /\ ReadOffset \in Slots /\ NextOffset(WriteOffset) # ReadOffset
  BY DEF TypeOK, SendRaw, Full
<1>2. Unread' = Unread \cup {WriteOffset} /\ WriteOffset \notin Unread
  BY <1>1, UnreadGrows DEF Unread, SendRaw
<1>3. s \in Slots
  BY <1>1, KernelAssumption DEF Unread, Between, Slots
<1>4. kccb'[s] = kccb[s]
  BY <1>2, <1>3 DEF SendRaw, TypeOK
<1>5. rtnSlots'[s] = rtnSlots[s]
  BY <1>2, <1>3 DEF SendRaw, Reset, TypeOK
<1> QED
  BY <1>2, <1>4, <1>5

(* It takes an entry that has been read, whose client is marked.           *)
LEMMA ReusedMarked ==
  ASSUME NEW c, NEW t \in Clients, SendRaw(c), ~reused'[t]
  PROVE  /\ ~reused[t]
         /\ pc[t] \in {"wait", "answered"} => slot[t] # WriteOffset
BY Zenon DEF SendRaw

LEMMA AnswersSend ==
  ASSUME NEW c \in Command, NEW t \in Clients, TypeOK, SendRaw(c), Answering(t),
         slot'[t] = slot[t], cmdId'[t] = cmdId[t], pc'[t] = pc[t], answer'[t] = answer[t]
  PROVE  Answering(t)'
<1>1. ASSUME InItsSlot(t)
      PROVE  InItsSlot(t)'
  <2>1. slot[t] \in Unread
    BY <1>1 DEF InItsSlot
  <2>2. slot[t] \in Unread' /\ kccb'[slot[t]] = kccb[slot[t]] /\ rtnSlots'[slot[t]] = rtnSlots[slot[t]]
    BY <2>1, SentAway
  <2> QED
    BY <1>1, <2>2 DEF InItsSlot
<1>2. ASSUME AnswerAt(t), slot[t] # WriteOffset
      PROVE  AnswerAt(t)'
  <2>1. /\ WriteOffset \in Slots /\ ReadOffset \in Slots /\ NextOffset(WriteOffset) # ReadOffset
        /\ slot[t] \in Slots
    BY DEF TypeOK, SendRaw, Full
  <2>2. Unread' = Unread \cup {WriteOffset}
    BY <2>1, UnreadGrows DEF Unread, SendRaw
  <2>3. rtnSlots'[slot[t]] = rtnSlots[slot[t]]
    BY <1>2, <2>1 DEF SendRaw, Reset, TypeOK
  <2> QED
    BY <1>2, <2>2, <2>3 DEF AnswerAt
<1>3. ~reused'[t] => ~reused[t]
  BY ReusedMarked
<1>4. ASSUME pc'[t] \in {"wait", "answered"}, answer'[t] # "noResponse", ~reused'[t]
      PROVE  AnswerAt(t)'
  <2>1. ~reused[t] /\ slot[t] # WriteOffset
    BY <1>4, ReusedMarked
  <2>2. AnswerAt(t)
    BY <1>4, <2>1 DEF Answering
  <2> QED
    BY <1>2, <2>1, <2>2
<1>5. pc'[t] = "wait" /\ answer'[t] = "noResponse" => InItsSlot(t)'
  BY <1>1 DEF Answering
<1>6. pc'[t] \in {"answered", "cleaned"} => answer'[t] # "noResponse"
  BY DEF Answering
<1>7. pc'[t] = "cleaned" /\ ~reused'[t] => answer'[t] = "executed"
  BY <1>3 DEF Answering
<1> QED
  BY <1>4, <1>5, <1>6, <1>7 DEF Answering

(* A client's own command, when it wants the answer.                       *)
LEMMA AnswersOwn ==
  ASSUME NEW t \in Clients, TypeOK, LockOwner, SendOwn(t), WantsSlot(req)
  PROVE  InItsSlot(t)'
<1>1. WriteOffset \in Slots /\ ReadOffset \in Slots /\ NextOffset(WriteOffset) # ReadOffset
  BY DEF TypeOK, SendOwn, SendRaw, Full
<1>2. WriteOffset \in Unread'
  BY <1>1, UnreadGrows DEF Unread, SendOwn, SendRaw
<1>3. slot'[t] = WriteOffset /\ cmdId'[t] = nextId
  BY DEF SendOwn, TypeOK
<1>4. rtnSlots'[WriteOffset] = "noResponse"
  <2>1. WantsSlot(Accepted)
    BY AcceptedFits DEF WantsSlot
  <2> QED
    BY <1>1, <2>1 DEF SendOwn, SendRaw, Reset, TypeOK
<1>5. kccb'[WriteOffset] = Accepted
  BY <1>1 DEF SendOwn, SendRaw, TypeOK
<1>6. Accepted = [kind |-> "cleanup", id |-> nextId, from |-> t]
  <2>1. req.kind = "cleanup" /\ req.from = t /\ req \in Command
    BY DEF SendOwn, LockOwner, WantsSlot, TypeOK
  <2> QED
    BY <2>1 DEF Accepted, Command
<1> QED
  BY <1>2, <1>3, <1>4, <1>5, <1>6 DEF InItsSlot

LEMMA AnswersClients ==
  ASSUME NEW t \in Clients, TypeOK, LockOwner, AnswersComing, ClientStep(t)
  PROVE  AnswersComing'
<1> USE DEF ring, fw, sender, clients, history
<1> DEFINE PCs == {"idle", "sending", "wait", "answered", "cleaned"}
<1>1. /\ pc \in [Clients -> PCs] /\ answer \in [Clients -> Answers]
      /\ slot \in [Clients -> Slots] /\ cmdId \in [Clients -> Ids]
      /\ reused \in [Clients -> BOOLEAN]
  BY DEF TypeOK
(* The ring and the other clients do not change.                           *)
<1>2. ASSUME UNCHANGED ring,
             \A u \in Clients \ {t} : pc'[u] = pc[u] /\ answer'[u] = answer[u]
               /\ slot'[u] = slot[u] /\ cmdId'[u] = cmdId[u] /\ reused'[u] = reused[u],
             Answering(t)'
      PROVE  AnswersComing'
  <2>1. ASSUME NEW u \in Clients \ {t}
        PROVE  Answering(u)'
    <3>1. Answering(u)
      BY DEF AnswersComing
    <3>2. Unread' = Unread
      BY <1>2 DEF Unread
    <3>3. InItsSlot(u)' = InItsSlot(u) /\ AnswerAt(u)' = AnswerAt(u)
      BY <1>2, <3>2 DEF InItsSlot, AnswerAt
    <3> QED
      BY <1>2, <3>1, <3>3 DEF Answering
  <2> QED
    BY <1>2, <2>1 DEF AnswersComing
<1>3. ASSUME pc'[t] \in {"idle", "sending"}
      PROVE  Answering(t)'
  BY <1>3 DEF Answering
<1>4. Answering(t)
  BY DEF AnswersComing
<1>5. ASSUME NEW kind \in {"kick", "cleanup"}, Schedule(t, kind)
      PROVE  AnswersComing'
  BY <1>1, <1>2, <1>3, <1>5 DEF Schedule
<1>6. CASE SendOwn(t)
  <2>1. SendRaw(Accepted) /\ Accepted \in Command
    BY <1>6, AcceptedFits DEF SendOwn
  <2>2. \A u \in Clients \ {t} : pc'[u] = pc[u] /\ answer'[u] = answer[u]
                                 /\ slot'[u] = slot[u] /\ cmdId'[u] = cmdId[u]
    BY <1>1, <1>6 DEF SendOwn
  <2>3. pc'[t] = (IF WantsSlot(req) THEN "wait" ELSE "idle") /\ answer'[t] = "noResponse"
    BY <1>1, <1>6 DEF SendOwn
  <2>4. Answering(t)'
    <3>1. CASE WantsSlot(req)
      <4>1. InItsSlot(t)'
        BY <1>6, <3>1, AnswersOwn
      <4> QED
        BY <2>3, <3>1, <4>1 DEF Answering
    <3>2. CASE ~WantsSlot(req)
      BY <1>3, <2>3, <3>2
    <3> QED
      BY <3>1, <3>2
  <2>5. ASSUME NEW u \in Clients \ {t}
        PROVE  Answering(u)'
    <3>1. Answering(u)
      BY DEF AnswersComing
    <3> QED
      BY <2>1, <2>2, <3>1, AnswersSend
  <2> QED
    BY <2>4, <2>5 DEF AnswersComing
<1>7. CASE DeferOwn(t)
  BY <1>1, <1>2, <1>3, <1>7 DEF DeferOwn
<1>8. CASE FailOwn(t)
  BY <1>1, <1>2, <1>3, <1>8 DEF FailOwn
<1>9. CASE WaitForKCCBSlotUpdate(t)
  <2>1. UNCHANGED ring /\ UNCHANGED <<answer, slot, cmdId, reused>>
    BY <1>9 DEF WaitForKCCBSlotUpdate
  <2>2. pc[t] = "wait" /\ pc' = [pc EXCEPT ![t] = "answered"] /\ rtnSlots[slot[t]] # "noResponse"
    BY <1>9 DEF WaitForKCCBSlotUpdate
  <2>3. pc'[t] = "answered"
    BY <1>1, <2>2
  <2>4. answer[t] # "noResponse"
    BY <1>4, <2>2 DEF Answering, InItsSlot
  <2>5. AnswerAt(t)' = AnswerAt(t)
    BY <2>1 DEF AnswerAt, Unread
  <2>6. Answering(t)'
    BY <1>4, <2>1, <2>2, <2>3, <2>4, <2>5 DEF Answering
  <2>7. \A u \in Clients \ {t} : pc'[u] = pc[u]
    BY <1>1, <2>2
  <2> QED
    BY <1>2, <2>1, <2>6, <2>7
<1>10. CASE WaitTimesOut(t)
  BY <1>1, <1>2, <1>3, <1>10 DEF WaitTimesOut, Forget
<1>11. CASE ReadAnswer(t)
  <2>1. CASE rtnSlots[slot[t]] = "busy"
    BY <1>1, <1>2, <1>3, <1>11, <2>1 DEF ReadAnswer, Forget
  <2>2. CASE rtnSlots[slot[t]] # "busy"
    <3>1. UNCHANGED ring /\ UNCHANGED <<answer, slot, cmdId, reused>>
      BY <1>11, <2>2 DEF ReadAnswer
    <3>2. pc[t] = "answered" /\ pc' = [pc EXCEPT ![t] = "cleaned"]
      BY <1>11, <2>2 DEF ReadAnswer
    <3>3. pc'[t] = "cleaned" /\ \A u \in Clients \ {t} : pc'[u] = pc[u]
      BY <1>1, <3>2
    <3>4. answer[t] # "noResponse" /\ answer[t] \in {"executed", "busy", "noResponse"}
      BY <1>1, <1>4, <3>2 DEF Answering, Answers
    <3>5. ~reused[t] => answer[t] = "executed"
      BY <1>4, <2>2, <3>2, <3>4 DEF Answering, AnswerAt
    <3>6. Answering(t)'
      BY <3>1, <3>3, <3>4, <3>5 DEF Answering
    <3> QED
      BY <1>2, <3>1, <3>3, <3>6
  <2> QED
    BY <2>1, <2>2
<1>12. CASE Free(t)
  BY <1>1, <1>2, <1>3, <1>12 DEF Free, Forget
<1> QED
  BY <1>5, <1>6, <1>7, <1>8, <1>9, <1>10, <1>11, <1>12 DEF ClientStep

(* The firmware answers in the slot of the entry it reads, and to nobody   *)
(* but who sent the command.                                               *)
LEMMA AnswersExecute ==
  ASSUME TypeOK, AnswersComing, FwExecute
  PROVE  AnswersComing'
<1> DEFINE c == kccb[ReadOffset]
<1>1. WriteOffset \in Slots /\ ReadOffset \in Slots /\ ReadOffset # WriteOffset
  BY DEF TypeOK, FwExecute
<1>2. PICK a \in {"executed", "busy"} :
        /\ rtnSlots' = [rtnSlots EXCEPT ![ReadOffset] = a]
        /\ answer' = [t \in Clients |->
             IF /\ pc[t] \in {"wait", "answered"} /\ slot[t] = ReadOffset
                /\ c.kind = "cleanup" /\ c.from = t /\ c.id = cmdId[t]
               THEN a ELSE answer[t]]
  BY DEF FwExecute
<1>3. /\ kccb' = [kccb EXCEPT ![ReadOffset] = NoCommand]
      /\ UNCHANGED <<pc, slot, cmdId, reused, WriteOffset>>
      /\ ReadOffset' = NextOffset(ReadOffset)
  BY DEF FwExecute, clients
<1>4. Unread' = Unread \ {ReadOffset} /\ ReadOffset \in Unread
  BY <1>1, <1>3, UnreadShrinks DEF Unread
<1> SUFFICES ASSUME NEW t \in Clients
             PROVE  Answering(t)'
  BY DEF AnswersComing
<1>5. Answering(t) /\ slot[t] \in Slots
  BY DEF AnswersComing, TypeOK
<1>6. slot[t] # ReadOffset \/ pc[t] \notin {"wait", "answered"} => answer'[t] = answer[t]
  BY <1>2
<1>7. CASE slot[t] # ReadOffset
  <2>1. kccb'[slot[t]] = kccb[slot[t]] /\ rtnSlots'[slot[t]] = rtnSlots[slot[t]]
    BY <1>2, <1>3, <1>5, <1>7 DEF TypeOK
  <2>2. InItsSlot(t) => InItsSlot(t)'
    BY <1>3, <1>4, <1>7, <2>1 DEF InItsSlot
  <2>3. AnswerAt(t) => AnswerAt(t)'
    BY <1>3, <1>4, <1>6, <1>7, <2>1 DEF AnswerAt
  <2> QED
    BY <1>3, <1>5, <1>6, <1>7, <2>2, <2>3 DEF Answering
<1>8. CASE slot[t] = ReadOffset /\ pc[t] \notin {"wait", "answered"}
  BY <1>3, <1>5, <1>6, <1>8 DEF Answering
<1>9. CASE slot[t] = ReadOffset /\ pc[t] = "wait" /\ answer[t] = "noResponse"
  <2>1. c = [kind |-> "cleanup", id |-> cmdId[t], from |-> t]
    BY <1>5, <1>9 DEF Answering, InItsSlot
  <2>2. c.from = t /\ c.kind = "cleanup" /\ c.id = cmdId[t]
    BY <2>1
  <2>3. answer'[t] = a /\ rtnSlots'[slot[t]] = a
    BY <1>1, <1>2, <1>9, <2>2 DEF TypeOK
  <2>4. AnswerAt(t)'
    BY <1>3, <1>4, <1>9, <2>3 DEF AnswerAt
  <2> QED
    BY <1>3, <1>9, <2>3, <2>4 DEF Answering
(* A later command is read from the entry: its client is marked.           *)
<1>10. CASE slot[t] = ReadOffset /\ pc[t] \in {"wait", "answered"} /\ answer[t] # "noResponse"
  <2>1. reused[t]
    BY <1>4, <1>5, <1>10 DEF Answering, AnswerAt
  <2>2. answer'[t] # "noResponse"
    BY <1>2, <1>10
  <2> QED
    BY <1>3, <1>10, <2>1, <2>2 DEF Answering
<1> QED
  BY <1>5, <1>7, <1>8, <1>9, <1>10 DEF Answering

LEMMA AnswersStep ==
  ASSUME TypeOK, LockOwner, AnswersComing, [Next]_vars
  PROVE  AnswersComing'
<1> USE DEF ring, fw, sender, clients, history
<1>1. ASSUME UNCHANGED <<ring, clients, answer, reused>>
      PROVE  AnswersComing'
  BY <1>1 DEF AnswersComing, Answering, InItsSlot, AnswerAt, Unread
<1>2. ASSUME NEW c \in Command, SendRaw(c), UNCHANGED <<clients, answer>>
      PROVE  AnswersComing'
  <2>1. ASSUME NEW t \in Clients
        PROVE  Answering(t)'
    <3>1. Answering(t)
      BY DEF AnswersComing
    <3> QED
      BY <1>2, <3>1, AnswersSend
  <2> QED
    BY <2>1 DEF AnswersComing
<1>3. CASE UNCHANGED vars
  BY <1>1, <1>3 DEF vars
<1>4. CASE SenderStep
  <2>1. CASE SendDeferred
    <3>1. local \in Seq(Command) /\ local # <<>>
      BY <2>1 DEF SendDeferred, TypeOK
    <3>2. Head(local) \in Command
      BY <3>1, HeadTailProperties
    <3> QED
      BY <1>2, <2>1, <3>2 DEF SendDeferred
  <2> QED
    BY <1>1, <1>4, <2>1 DEF SenderStep, MoveList, Flushed, PutBack, FindFull
<1>5. CASE MisrStep
  <2>1. CASE SendPowerOff
    BY <1>2, <2>1, AcceptedFits DEF SendPowerOff
  <2> QED
    BY <1>1, <1>5, <2>1 DEF MisrStep, RunMisr, Scan, LockToFlush, FlushEnds, TryPowerLock,
         RequestPowerOff, PowerOffNotSent, PowerOffAnswered, PowerOffTimesOut
<1>6. CASE FwStep
  BY <1>1, <1>6, AnswersExecute DEF FwStep, FwIdle, FwInterrupt
<1> QED
  BY <1>3, <1>4, <1>5, <1>6, AnswersClients DEF Next

-----------------------------------------------------------------------------
(* The invariant holds, and with it what the callers rely on. *)

LEMMA InitIInv ==
  ASSUME Init
  PROVE  IInv
<1> USE DEF Init
<1>1. 0 \in Slots /\ 0 \in Ids
  BY KernelAssumption DEF Slots, Ids
<1>2. TypeOK
  <2>1. NoCommand \in Command /\ kccb \in [Slots -> Command] /\ req \in Command
    BY NoCommandFits
  <2>2. rtnSlots \in [Slots -> Answers] /\ answer \in [Clients -> Answers]
    BY DEF Answers
  <2>3. deferred \in Seq(Command) /\ local \in Seq(Command)
    OBVIOUS
  <2>4. misrScheduled \in BOOLEAN
    BY Zenon
  <2>5. reused \in [Clients -> BOOLEAN]
    BY Zenon
  <2> QED
    BY <1>1, <2>1, <2>2, <2>3, <2>4, <2>5 DEF TypeOK
<1>3. LockOwner
  BY LockFacts DEF LockOwner
<1>4. ListsTaken
  BY DEF ListsTaken
<1>5. AnswersComing
  BY DEF AnswersComing, Answering
<1> QED
  BY <1>2, <1>3, <1>4, <1>5 DEF IInv

LEMMA StepIInv ==
  ASSUME IInv, [Next]_vars
  PROVE  IInv'
BY TypeStep, LockStep, ListsStep, AnswersStep DEF IInv

THEOREM Invariant == Spec => []IInv
BY InitIInv, StepIInv, PTL DEF Spec

(* Every variable stays in its range.                                      *)
THEOREM TypeCorrect == Spec => []TypeOK
<1>1. IInv => TypeOK
  BY DEF IInv
<1> QED
  BY <1>1, Invariant, PTL

(* RGXSendCommandRaw resets the return slot before the firmware can see    *)
(* the command, nobody writes there before the firmware answers it, and    *)
(* the answer stays until the entry goes to another command: a caller, who *)
(* waits and reads without the power lock, goes on only when its command   *)
(* is answered and, unless its entry was given away, frees what it cleaned *)
(* up only if that very answer said so.                                    *)
THEOREM FreedAsTold == Spec => []FreedAsAnswered
<1>1. IInv => FreedAsAnswered
  BY DEF IInv, AnswersComing, Answering, FreedAsAnswered
<1> QED
  BY <1>1, Invariant, PTL

-----------------------------------------------------------------------------
(* The kernel CCB implements CommandFifo. *)

LEMMA OutstandingIs ==
  Outstanding = RingIds(WriteOffset, ReadOffset, kccb) \o IdsOf(local) \o IdsOf(deferred)
BY DEF Outstanding, InRing, RingIds, IdsOf

LEMMA OutstandingIsNext ==
  Outstanding' = RingIds(WriteOffset', ReadOffset', kccb') \o IdsOf(local') \o IdsOf(deferred')
BY DEF Outstanding, InRing, RingIds, IdsOf

LEMMA PartsAreSeqs ==
  ASSUME TypeOK
  PROVE  /\ RingIds(WriteOffset, ReadOffset, kccb) \in Seq(Ids)
         /\ IdsOf(local) \in Seq(Ids) /\ IdsOf(deferred) \in Seq(Ids)
BY RingIsSeq, IdsOfIsSeq DEF TypeOK

(* A command sent is the last in the ring.                                 *)
LEMMA SentToRing ==
  ASSUME NEW c \in Command, TypeOK, SendRaw(c)
  PROVE  RingIds(WriteOffset', ReadOffset', kccb') =
           Append(RingIds(WriteOffset, ReadOffset, kccb), c.id)
<1>1. /\ WriteOffset \in Slots /\ ReadOffset \in Slots /\ kccb \in [Slots -> Command]
      /\ NextOffset(WriteOffset) # ReadOffset
  BY DEF TypeOK, SendRaw, Full
<1>2. /\ WriteOffset' = NextOffset(WriteOffset) /\ ReadOffset' = ReadOffset
      /\ kccb' = [kccb EXCEPT ![WriteOffset] = c]
  BY DEF SendRaw
<1> QED
  BY <1>1, <1>2, RingGrows

(* A caller's own command goes to the end of all that is outstanding.      *)
LEMMA OwnIsLast ==
  ASSUME TypeOK, ListsTaken, MaySend, SendRaw(Accepted), UNCHANGED <<local, deferred>>
  PROVE  Outstanding' = Append(Outstanding, nextId)
<1> DEFINE r == RingIds(WriteOffset, ReadOffset, kccb)
           r1 == RingIds(WriteOffset', ReadOffset', kccb')
<1>1. local = <<>> /\ deferred = <<>>
  BY DEF ListsTaken, MaySend
<1>2. r1 = Append(r, nextId)
  BY AcceptedFits, SentToRing
<1>3. r \in Seq(Ids) /\ nextId \in Ids
  BY PartsAreSeqs, AcceptedFits
<1>4. Outstanding = r \o <<>> \o <<>> /\ Outstanding' = r1 \o <<>> \o <<>>
  BY <1>1, OutstandingIs, OutstandingIsNext, IdsOfNone
<1> HIDE DEF r, r1
<1> QED
  BY <1>2, <1>3, <1>4, JoinSend

(* What the fifo sees of a step.                                           *)
FifoAccepts == Outstanding' = Append(Outstanding, nextId) /\ UNCHANGED out
FifoExecutes == /\ Outstanding # <<>>
                /\ out' = Head(Outstanding) /\ Outstanding' = Tail(Outstanding)
FifoStutters == Outstanding' = Outstanding /\ UNCHANGED out

LEMMA FifoClients ==
  ASSUME NEW t \in Clients, TypeOK, LockOwner, ListsTaken, ClientStep(t)
  PROVE  FifoAccepts \/ FifoStutters
<1> USE DEF ring, fw, sender, clients, history
<1>1. ASSUME UNCHANGED <<ring, local, deferred, out>>
      PROVE  FifoStutters
  BY <1>1, OutstandingIs, OutstandingIsNext DEF FifoStutters
<1>2. CASE SendOwn(t)
  BY <1>2, OwnIsLast DEF SendOwn, FifoAccepts
<1>3. CASE DeferOwn(t)
  <2> DEFINE r == RingIds(WriteOffset, ReadOffset, kccb)
             d == IdsOf(deferred)
  <2>1. local = <<>> /\ local' = <<>>
    BY <1>3 DEF DeferOwn, Refused, ListsTaken
  <2>2. IdsOf(deferred') = Append(d, nextId)
    BY <1>3, AcceptedFits, IdsOfAppend DEF DeferOwn, TypeOK
  <2>3. r \in Seq(Ids) /\ d \in Seq(Ids) /\ nextId \in Ids
    BY PartsAreSeqs, AcceptedFits
  <2>4. Outstanding = r \o <<>> \o d /\ Outstanding' = r \o <<>> \o Append(d, nextId)
    BY <1>3, <2>1, <2>2, OutstandingIs, OutstandingIsNext, IdsOfNone DEF DeferOwn
  <2>5. out' = out
    BY <1>3 DEF DeferOwn
  <2> HIDE DEF r, d
  <2> QED
    BY <2>3, <2>4, <2>5, JoinDefer DEF FifoAccepts
<1> QED
  BY <1>1, <1>2, <1>3 DEF ClientStep, Schedule, FailOwn, WaitForKCCBSlotUpdate,
       WaitTimesOut, ReadAnswer, Free

LEMMA FifoSender ==
  ASSUME TypeOK, ListsTaken, SenderStep
  PROVE  FifoStutters
<1> USE DEF ring, fw, sender, clients, history
<1> DEFINE r == RingIds(WriteOffset, ReadOffset, kccb)
           l == IdsOf(local)
           d == IdsOf(deferred)
<1>1. r \in Seq(Ids) /\ l \in Seq(Ids) /\ d \in Seq(Ids)
  BY PartsAreSeqs
<1>2. CASE MoveList
  <2>1. local = <<>> /\ local' = deferred /\ deferred' = <<>> /\ UNCHANGED <<ring, out>>
    BY <1>2 DEF MoveList, ListsTaken
  <2>2. Outstanding = r \o <<>> \o d /\ Outstanding' = r \o d \o <<>>
    BY <2>1, OutstandingIs, OutstandingIsNext, IdsOfNone
  <2> HIDE DEF r, l, d
  <2> QED
    BY <1>1, <2>1, <2>2, JoinMove DEF FifoStutters
<1>3. CASE SendDeferred
  <2> DEFINE x == Head(local).id
             l1 == IdsOf(Tail(local))
             r1 == RingIds(WriteOffset', ReadOffset', kccb')
  <2>1. local \in Seq(Command) /\ local # <<>> /\ SendRaw(Head(local))
    BY <1>3 DEF SendDeferred, TypeOK
  <2>2. Head(local) \in Command /\ Tail(local) \in Seq(Command) /\ x \in Ids /\ l = <<x>> \o l1
    BY <2>1, IdsOfFirst
  <2>3. l1 \in Seq(Ids)
    BY <2>2, IdsOfIsSeq
  <2>4. r1 = Append(r, x)
    BY <2>1, <2>2, SentToRing
  <2>5. Outstanding = r \o l \o d /\ Outstanding' = r1 \o l1 \o d /\ out' = out
    BY <1>3, OutstandingIs, OutstandingIsNext DEF SendDeferred
  <2> HIDE DEF r, r1, l, l1, d, x
  <2>6. Append(r, x) \o l1 \o d = r \o (<<x>> \o l1) \o d
    BY <1>1, <2>2, <2>3, JoinFlush
  <2> QED
    BY <2>2, <2>4, <2>5, <2>6 DEF FifoStutters
<1>4. CASE PutBack
  <2>1. local \in Seq(Command) /\ deferred \in Seq(Command)
    BY DEF TypeOK
  <2>2. IdsOf(deferred') = l \o d
    BY <1>4, <2>1, IdsOfConcat DEF PutBack, Remaining
  <2>3. Outstanding = r \o l \o d /\ Outstanding' = r \o <<>> \o (l \o d) /\ out' = out
    BY <1>4, <2>2, OutstandingIs, OutstandingIsNext, IdsOfNone DEF PutBack
  <2> HIDE DEF r, l, d
  <2> QED
    BY <1>1, <2>3, JoinPutBack DEF FifoStutters
<1>5. CASE Flushed \/ FindFull
  BY <1>5, OutstandingIs, OutstandingIsNext DEF Flushed, FindFull, FifoStutters
<1> QED
  BY <1>2, <1>3, <1>4, <1>5 DEF SenderStep

LEMMA FifoMisr ==
  ASSUME TypeOK, ListsTaken, MisrStep
  PROVE  FifoAccepts \/ FifoStutters
<1> USE DEF ring, fw, sender, clients, history
<1>1. ASSUME UNCHANGED <<ring, local, deferred, out>>
      PROVE  FifoStutters
  BY <1>1, OutstandingIs, OutstandingIsNext DEF FifoStutters
<1>2. CASE SendPowerOff
  BY <1>2, OwnIsLast DEF SendPowerOff, FifoAccepts
<1> QED
  BY <1>1, <1>2 DEF MisrStep, RunMisr, Scan, LockToFlush, FlushEnds, TryPowerLock,
       RequestPowerOff, PowerOffNotSent, PowerOffAnswered, PowerOffTimesOut

LEMMA FifoFirmware ==
  ASSUME TypeOK, FwStep
  PROVE  FifoExecutes \/ FifoStutters
<1> USE DEF ring, fw, sender, clients, history
<1>1. CASE FwExecute
  <2> DEFINE r == RingIds(WriteOffset, ReadOffset, kccb)
             r1 == RingIds(WriteOffset', ReadOffset', kccb')
             l == IdsOf(local)
             d == IdsOf(deferred)
  <2>1. /\ WriteOffset \in Slots /\ ReadOffset \in Slots /\ kccb \in [Slots -> Command]
        /\ WriteOffset # ReadOffset
    BY <1>1 DEF TypeOK, FwExecute
  <2>2. /\ WriteOffset' = WriteOffset /\ ReadOffset' = NextOffset(ReadOffset)
        /\ kccb' = [kccb EXCEPT ![ReadOffset] = NoCommand]
        /\ out' = kccb[ReadOffset].id /\ local' = local /\ deferred' = deferred
    BY <1>1 DEF FwExecute
  <2>3. r # <<>> /\ Head(r) = kccb[ReadOffset].id /\ r1 = Tail(r)
    BY <2>1, <2>2, RingShrinks
  <2>4. r \in Seq(Ids) /\ l \in Seq(Ids) /\ d \in Seq(Ids)
    BY PartsAreSeqs
  <2>5. Outstanding = r \o l \o d /\ Outstanding' = r1 \o l \o d
    BY <2>2, OutstandingIs, OutstandingIsNext
  <2>6. out' = Head(r)
    BY <2>2, <2>3
  <2> HIDE DEF r, r1, l, d
  <2>7. r # <<>>
    BY <2>3
  <2>8. /\ r \o l \o d # <<>> /\ Head(r \o l \o d) = Head(r)
        /\ Tail(r \o l \o d) = Tail(r) \o l \o d
    BY <2>4, <2>7, JoinExecute, ZenonT(60)
  <2> QED
    BY <2>3, <2>5, <2>6, <2>8 DEF FifoExecutes
<1>2. CASE FwIdle \/ FwInterrupt
  BY <1>2, OutstandingIs, OutstandingIsNext DEF FwIdle, FwInterrupt, FifoStutters
<1> QED
  BY <1>1, <1>2 DEF FwStep

LEMMA FifoInit ==
  ASSUME Init
  PROVE  Fifo!Init
<1>1. WriteOffset \in Slots /\ WriteOffset = ReadOffset /\ kccb \in [Slots -> Command] /\ out \in Ids
  BY NoCommandFits, KernelAssumption DEF Init, Slots, Ids
<1> DEFINE r == RingIds(WriteOffset, ReadOffset, kccb)
<1>2. r \in Seq(Ids) /\ Len(r) = 0
  BY <1>1, RingIsSeq
<1>3. Outstanding = r \o <<>> \o <<>>
  BY OutstandingIs, IdsOfNone DEF Init
<1> HIDE DEF r
<1>4. r = <<>>
  BY <1>2, EmptySeq
<1>5. Outstanding = <<>>
  BY <1>2, <1>3, <1>4, ConcatEmptySeq
<1> QED
  BY <1>1, <1>5 DEF Fifo!Init

LEMMA FifoStep ==
  ASSUME IInv, [Next]_vars
  PROVE  [Fifo!Next]_<<Outstanding, out>>
<1>1. nextId \in Ids
  BY AcceptedFits DEF IInv
<1>2. CASE FifoAccepts
  BY <1>1, <1>2 DEF FifoAccepts, Fifo!Next, Fifo!Accept
<1>3. CASE FifoExecutes
  BY <1>3 DEF FifoExecutes, Fifo!Next, Fifo!Execute
<1>4. CASE FifoStutters
  BY <1>4 DEF FifoStutters
<1>5. CASE UNCHANGED vars
  <2>1. FifoStutters
    BY <1>5, OutstandingIs, OutstandingIsNext
       DEF vars, ring, sender, history, FifoStutters
  <2> QED
    BY <1>4, <2>1
<1>6. CASE Next
  <2>1. TypeOK /\ LockOwner /\ ListsTaken
    BY DEF IInv
  <2>2. FifoAccepts \/ FifoExecutes \/ FifoStutters
    BY <1>6, <2>1, FifoClients, FifoSender, FifoMisr, FifoFirmware DEF Next
  <2> QED
    BY <1>2, <1>3, <1>4, <2>2
<1> QED
  BY <1>5, <1>6

(* A command that _RGXScheduleCommandAndGetKCCBSlot accepted is executed   *)
(* once, after those accepted before it, whether it went into the ring at  *)
(* once, was deferred, put back at the head of the list, or flushed by the *)
(* MISR.                                                                   *)
THEOREM ImplementsFifo == Spec => AcceptedInOrder
BY FifoInit, FifoStep, Invariant, PTL DEF Spec, AcceptedInOrder, Fifo!Spec

-----------------------------------------------------------------------------
(* The power-off, when the wait for its answer does not give up. *)

LEMMA PowerInit ==
  ASSUME Init
  PROVE  PInv
<1>1. 0 \in Slots
  BY KernelAssumption DEF Slots
<1>2. Unread = {}
  BY <1>1, NothingUnread DEF Init, Unread
<1>3. OneRequest
  BY <1>2 DEF OneRequest
<1> QED
  BY <1>3 DEF Init, PInv, NotInTheLists, AckHoldsLists, Drained

(* A command other than a request for power-off enters the ring, while no  *)
(* such request is there.                                                  *)
LEMMA PowerSent ==
  ASSUME NEW c \in Command, TypeOK, OneRequest, SendRaw(c), c.kind # "powoff",
         misrPc # "ack"
  PROVE  OneRequest'
<1>1. WriteOffset \in Slots /\ ReadOffset \in Slots /\ NextOffset(WriteOffset) # ReadOffset
  BY DEF TypeOK, SendRaw, Full
<1>2. Unread' = Unread \cup {WriteOffset}
  BY <1>1, UnreadGrows DEF Unread, SendRaw
<1>3. kccb'[WriteOffset] = c
  BY <1>1 DEF SendRaw, TypeOK
<1>4. \A s \in Unread : kccb'[s] = kccb[s]
  BY SentAway
<1>5. ASSUME NEW s \in Unread', kccb'[s].kind = "powoff"
      PROVE  FALSE
  BY <1>2, <1>3, <1>4, <1>5 DEF OneRequest
<1> QED
  BY <1>5 DEF OneRequest

(* As long as nothing is sent or read.                                     *)
LEMMA PowerRingSame ==
  ASSUME OneRequest, UNCHANGED ring,
         misrPc = "ack" /\ powSync = 0 => misrPc' = "ack" /\ powSync' = 0
  PROVE  OneRequest'
<1>1. UNCHANGED <<WriteOffset, ReadOffset, kccb>> /\ Unread' = Unread
  BY DEF ring, Unread
<1>2. ASSUME NEW s \in Unread', kccb'[s].kind = "powoff"
      PROVE  misrPc' = "ack" /\ powSync' = 0 /\ NextOffset(s) = WriteOffset'
  BY <1>1, <1>2 DEF OneRequest
<1>3. \A s \in Unread' : NextOffset(s)' = NextOffset(s)
  BY DEF NextOffset
<1> QED
  BY <1>2 DEF OneRequest, NextOffset

LEMMA PowerClients ==
  ASSUME NEW t \in Clients, IInv, PInv, ClientStep(t)
  PROVE  PInv'
<1> USE LockFacts DEF ring, fw, sender, clients, history
<1>1. TypeOK /\ LockOwner /\ ListsTaken
  BY DEF IInv
<1>2. OneRequest /\ NotInTheLists /\ AckHoldsLists /\ Drained
  BY DEF PInv
<1>3. ASSUME NEW kind \in {"kick", "cleanup"}, Schedule(t, kind)
      PROVE  PInv'
  <2>1. OneRequest'
    BY <1>2, <1>3, PowerRingSame DEF Schedule
  <2>2. NotInTheLists' /\ AckHoldsLists'
    BY <1>2, <1>3 DEF Schedule, NotInTheLists, AckHoldsLists
  <2>3. misrPc # "ack"
    BY <1>1, <1>3 DEF Schedule, LockOwner
  <2>4. devicePower' = "on" /\ ePowState' # "off"
    BY <1>2, <1>3, <2>3 DEF Schedule, Drained
  <2>5. Drained'
    BY <2>4 DEF Drained
  <2> QED
    BY <2>1, <2>2, <2>5 DEF PInv
(* The client that sends holds the lock, and asks for no power-off.        *)
<1>4. ASSUME req.from = t, req # NoCommand
      PROVE  /\ powerLock = t /\ misrPc # "ack" /\ ePowState # "off" /\ devicePower # "off"
             /\ req.kind # "powoff" /\ Accepted.kind # "powoff" /\ Accepted \in Command
  <2>1. powerLock = t /\ req.kind # "powoff"
    BY <1>1, <1>4 DEF LockOwner
  <2>2. misrPc # "ack"
    BY <1>1, <2>1 DEF LockOwner
  <2>3. ePowState # "off"
    BY <1>2, <2>1, <2>2 DEF Drained
  <2> QED
    BY <1>1, <1>2, <2>1, <2>2, <2>3, AcceptedFits DEF Drained
<1>5. ASSUME ePowState # "off", devicePower # "off", UNCHANGED <<ePowState, devicePower>>
      PROVE  Drained'
  BY <1>5 DEF Drained
<1>6. CASE SendOwn(t)
  <2>1. req.from = t /\ req # NoCommand
    BY <1>6 DEF SendOwn, MaySend
  <2>2. OneRequest'
    BY <1>1, <1>2, <1>4, <1>6, <2>1, PowerSent DEF SendOwn
  <2>3. NotInTheLists' /\ AckHoldsLists'
    BY <1>2, <1>6 DEF SendOwn, NotInTheLists, AckHoldsLists
  <2>4. Drained'
    BY <1>4, <1>5, <1>6, <2>1 DEF SendOwn
  <2> QED
    BY <2>2, <2>3, <2>4 DEF PInv
<1>7. ASSUME Refused, req.from = t
      PROVE  req # NoCommand
  BY <1>1, <1>7
<1>8. CASE DeferOwn(t)
  <2>1. req.from = t /\ req # NoCommand /\ Refused
    BY <1>7, <1>8 DEF DeferOwn
  <2>2. OneRequest'
    BY <1>2, <1>8, PowerRingSame DEF DeferOwn
  <2>3. NotInTheLists'
    <3>1. deferred \in Seq(Command) /\ deferred' = Append(deferred, Accepted)
          /\ Accepted \in Command /\ Accepted.kind # "powoff" /\ local' = local
      BY <1>1, <1>4, <1>8, <2>1 DEF DeferOwn, TypeOK
    <3>2. \A i \in 1 .. Len(deferred') : deferred'[i].kind # "powoff"
      <4> SUFFICES ASSUME NEW i \in 1 .. Len(deferred')
                   PROVE  deferred'[i].kind # "powoff"
        OBVIOUS
      <4>1. Len(deferred') = Len(deferred) + 1 /\ Len(deferred) \in Nat
        BY <3>1
      <4>2. CASE i = Len(deferred) + 1
        BY <3>1, <4>2
      <4>3. CASE i # Len(deferred) + 1
        <5>1. i \in 1 .. Len(deferred)
          BY <4>1, <4>3
        <5>2. deferred'[i] = deferred[i]
          BY <3>1, <5>1
        <5> QED
          BY <1>2, <5>1, <5>2 DEF NotInTheLists
      <4> QED
        BY <4>2, <4>3
    <3> QED
      BY <1>2, <3>1, <3>2 DEF NotInTheLists
  <2>4. AckHoldsLists'
    BY <1>4, <1>8, <2>1 DEF DeferOwn, AckHoldsLists
  <2>5. Drained'
    BY <1>4, <1>5, <1>8, <2>1 DEF DeferOwn
  <2> QED
    BY <2>2, <2>3, <2>4, <2>5 DEF PInv
<1>9. CASE FailOwn(t)
  <2>1. req.from = t /\ req # NoCommand
    BY <1>7, <1>9 DEF FailOwn
  <2>2. OneRequest'
    BY <1>2, <1>9, PowerRingSame DEF FailOwn
  <2>3. NotInTheLists' /\ AckHoldsLists'
    BY <1>2, <1>9 DEF FailOwn, NotInTheLists, AckHoldsLists
  <2>4. Drained'
    BY <1>4, <1>5, <1>9, <2>1 DEF FailOwn
  <2> QED
    BY <2>2, <2>3, <2>4 DEF PInv
<1>10. ASSUME UNCHANGED <<ring, deferred, powerLock, devicePower, fw, sender, misrPc>>
       PROVE  PInv'
  <2>1. OneRequest'
    BY <1>2, <1>10, PowerRingSame
  <2> QED
    BY <1>2, <1>10, <2>1 DEF PInv, NotInTheLists, AckHoldsLists, Drained
<1>11. CASE WaitForKCCBSlotUpdate(t) \/ WaitTimesOut(t) \/ ReadAnswer(t) \/ Free(t)
  BY <1>10, <1>11 DEF WaitForKCCBSlotUpdate, WaitTimesOut, ReadAnswer, Free
<1> QED
  BY <1>3, <1>6, <1>8, <1>9, <1>11 DEF ClientStep

LEMMA PowerSender ==
  ASSUME IInv, PInv, SenderStep
  PROVE  PInv'
<1> USE LockFacts DEF ring, fw, sender, clients, history
<1>1. TypeOK /\ LockOwner /\ ListsTaken
  BY DEF IInv
<1>2. OneRequest /\ NotInTheLists /\ AckHoldsLists /\ Drained
  BY DEF PInv
<1>3. stage # "none" /\ UNCHANGED <<misrPc, fw, powerLock, devicePower, req>>
  BY DEF SenderStep, MoveList, SendDeferred, Flushed, PutBack, FindFull
<1>4. misrPc # "ack" /\ ePowState # "off" /\ devicePower # "off"
  BY <1>1, <1>2, <1>3 DEF LockOwner, Drained
<1>5. AckHoldsLists' /\ Drained'
  BY <1>3, <1>4 DEF AckHoldsLists, Drained
<1>6. local \in Seq(Command) /\ deferred \in Seq(Command)
  BY <1>1 DEF TypeOK
<1>7. CASE MoveList
  <2>1. OneRequest'
    BY <1>2, <1>7, PowerRingSame DEF MoveList
  <2>2. NotInTheLists'
    BY <1>2, <1>7 DEF MoveList, NotInTheLists
  <2> QED
    BY <1>5, <2>1, <2>2 DEF PInv
<1>8. CASE SendDeferred
  <2>1. local # <<>> /\ SendRaw(Head(local)) /\ local' = Tail(local) /\ deferred' = deferred
    BY <1>8 DEF SendDeferred
  <2>2. /\ Head(local) \in Command /\ Len(Tail(local)) = Len(local) - 1
        /\ \A i \in 1 .. Len(Tail(local)) : Tail(local)[i] = local[i + 1]
    BY <1>6, <2>1, HeadTailProperties
  <2>3. Len(local) \in Nat \ {0} /\ Head(local) = local[1]
    BY <1>6, <2>1
  <2>4. Head(local).kind # "powoff"
    BY <1>2, <2>3 DEF NotInTheLists
  <2>5. OneRequest'
    BY <1>1, <1>2, <1>4, <2>1, <2>2, <2>4, PowerSent
  <2>6. \A i \in 1 .. Len(local') : local'[i].kind # "powoff"
    <3> SUFFICES ASSUME NEW i \in 1 .. Len(local')
                 PROVE  local'[i].kind # "powoff"
      OBVIOUS
    <3>1. i + 1 \in 1 .. Len(local) /\ local'[i] = local[i + 1]
      BY <2>1, <2>2, <2>3
    <3> QED
      BY <1>2, <3>1 DEF NotInTheLists
  <2>7. NotInTheLists'
    BY <1>2, <2>1, <2>6 DEF NotInTheLists
  <2> QED
    BY <1>5, <2>5, <2>7 DEF PInv
<1>9. CASE PutBack
  <2>1. OneRequest'
    BY <1>2, <1>9, PowerRingSame DEF PutBack
  <2>2. local' = <<>> /\ deferred' = local \o deferred
    BY <1>9 DEF PutBack, Remaining
  <2>3. /\ Len(local \o deferred) = Len(local) + Len(deferred)
        /\ \A i \in 1 .. (Len(local) + Len(deferred)) :
             (local \o deferred)[i] = IF i <= Len(local) THEN local[i] ELSE deferred[i - Len(local)]
    BY <1>6, ConcatProperties
  <2>4. \A i \in 1 .. Len(deferred') : deferred'[i].kind # "powoff"
    <3> SUFFICES ASSUME NEW i \in 1 .. Len(deferred')
                 PROVE  deferred'[i].kind # "powoff"
      OBVIOUS
    <3>1. Len(local) \in Nat /\ Len(deferred) \in Nat
      BY <1>6
    <3>2. CASE i <= Len(local)
      <4>1. i \in 1 .. Len(local) /\ deferred'[i] = local[i]
        BY <2>2, <2>3, <3>1, <3>2
      <4> QED
        BY <1>2, <4>1 DEF NotInTheLists
    <3>3. CASE ~(i <= Len(local))
      <4>1. i - Len(local) \in 1 .. Len(deferred) /\ deferred'[i] = deferred[i - Len(local)]
        BY <2>2, <2>3, <3>1, <3>3
      <4> QED
        BY <1>2, <4>1 DEF NotInTheLists
    <3> QED
      BY <3>2, <3>3
  <2>5. NotInTheLists'
    BY <2>2, <2>4 DEF NotInTheLists
  <2> QED
    BY <1>5, <2>1, <2>5 DEF PInv
<1>10. CASE Flushed \/ FindFull
  <2>1. OneRequest'
    BY <1>2, <1>10, PowerRingSame DEF Flushed, FindFull
  <2>2. NotInTheLists'
    BY <1>2, <1>10 DEF Flushed, FindFull, NotInTheLists
  <2> QED
    BY <1>5, <2>1, <2>2 DEF PInv
<1> QED
  BY <1>7, <1>8, <1>9, <1>10 DEF SenderStep

(* The request goes behind whatever the ring holds, and alone.             *)
LEMMA PowerRequested ==
  ASSUME IInv, PInv, SendPowerOff, Requesting
  PROVE  OneRequest'
<1>1. TypeOK /\ OneRequest
  BY DEF IInv, PInv
<1>2. WriteOffset \in Slots /\ ReadOffset \in Slots /\ NextOffset(WriteOffset) # ReadOffset
  BY <1>1 DEF TypeOK, SendPowerOff, SendRaw, Full
<1>3. WriteOffset' = NextOffset(WriteOffset) /\ Unread' = Unread \cup {WriteOffset}
  BY <1>2, UnreadGrows DEF SendPowerOff, SendRaw, Unread
<1>4. \A s \in Unread : kccb'[s] = kccb[s]
  BY <1>1, AcceptedFits, SentAway DEF SendPowerOff
<1>5. \A s \in Unread : kccb[s].kind # "powoff"
  BY <1>1 DEF SendPowerOff, OneRequest
<1>6. misrPc' = "ack" /\ powSync' = 0
  BY DEF SendPowerOff, Requesting, fw
<1> QED
  BY <1>3, <1>4, <1>5, <1>6 DEF OneRequest, NextOffset

LEMMA PowerMisr ==
  ASSUME ~PollTimesOut, IInv, PInv, Requesting, MisrStep
  PROVE  PInv'
<1> USE LockFacts DEF ring, fw, sender, clients, history
<1>1. TypeOK /\ LockOwner /\ ListsTaken
  BY DEF IInv
<1>2. OneRequest /\ NotInTheLists /\ AckHoldsLists /\ Drained
  BY DEF PInv
<1>3. CASE RunMisr
  <2>1. OneRequest'
    BY <1>2, <1>3, PowerRingSame DEF RunMisr
  <2> QED
    BY <1>2, <1>3, <2>1 DEF RunMisr, PInv, NotInTheLists, AckHoldsLists, Drained
<1>4. CASE Scan
  <2>1. OneRequest'
    BY <1>2, <1>4, PowerRingSame DEF Scan
  <2>2. Drained'
    BY <1>2, <1>4 DEF Scan, AfterList, Drained
  <2> QED
    BY <1>2, <1>4, <2>1, <2>2 DEF Scan, AfterList, PInv, NotInTheLists, AckHoldsLists
<1>5. CASE LockToFlush
  <2>1. OneRequest'
    BY <1>2, <1>5, PowerRingSame DEF LockToFlush
  <2>2. Drained'
    BY <1>2, <1>5 DEF LockToFlush, Drained
  <2> QED
    BY <1>2, <1>5, <2>1, <2>2 DEF LockToFlush, PInv, NotInTheLists, AckHoldsLists
<1>6. CASE FlushEnds
  <2>1. OneRequest'
    BY <1>2, <1>6, PowerRingSame DEF FlushEnds
  <2>2. Drained'
    BY <1>2, <1>6 DEF FlushEnds, Drained
  <2> QED
    BY <1>2, <1>6, <2>1, <2>2 DEF FlushEnds, AfterList, PInv, NotInTheLists, AckHoldsLists
<1>7. CASE TryPowerLock
  <2>1. OneRequest'
    BY <1>2, <1>7, PowerRingSame DEF TryPowerLock
  <2>2. Drained'
    BY <1>2, <1>7 DEF TryPowerLock, Drained
  <2> QED
    BY <1>2, <1>7, <2>1, <2>2 DEF TryPowerLock, PInv, NotInTheLists, AckHoldsLists
<1>8. CASE RequestPowerOff
  <2>1. OneRequest'
    BY <1>2, <1>8, PowerRingSame DEF RequestPowerOff
  <2>2. Drained'
    BY <1>2, <1>8 DEF RequestPowerOff, Drained
  <2> QED
    BY <1>2, <1>8, <2>1, <2>2 DEF RequestPowerOff, PInv, NotInTheLists, AckHoldsLists
<1>9. CASE SendPowerOff
  <2>1. OneRequest'
    BY <1>9, PowerRequested DEF SendPowerOff
  <2>2. AckHoldsLists'
    BY <1>1, <1>9 DEF SendPowerOff, MaySend, ListsTaken, AckHoldsLists
  <2>3. Drained'
    BY <1>2, <1>9 DEF SendPowerOff, Drained
  <2>4. NotInTheLists'
    BY <1>2, <1>9 DEF SendPowerOff, NotInTheLists
  <2> QED
    BY <2>1, <2>2, <2>3, <2>4 DEF PInv
<1>10. CASE PowerOffNotSent
  <2>1. OneRequest'
    BY <1>2, <1>10, PowerRingSame DEF PowerOffNotSent
  <2>2. Drained'
    BY <1>2, <1>10 DEF PowerOffNotSent, Drained
  <2> QED
    BY <1>2, <1>10, <2>1, <2>2 DEF PowerOffNotSent, PInv, NotInTheLists, AckHoldsLists
<1>11. CASE PowerOffAnswered
  <2>1. OneRequest'
    BY <1>2, <1>11, PowerRingSame DEF PowerOffAnswered
  <2>2. stage = "none" /\ local = <<>> /\ deferred = <<>>
    BY <1>1, <1>2, <1>11, QuietStage DEF PowerOffAnswered, ListsTaken, AckHoldsLists
  <2>3. Drained'
    BY <1>2, <1>11, <2>2 DEF PowerOffAnswered, Unlock, Drained
  <2> QED
    BY <1>2, <1>11, <2>1, <2>3 DEF PowerOffAnswered, PInv, NotInTheLists, AckHoldsLists
<1>12. ~PowerOffTimesOut
  BY DEF PowerOffTimesOut
<1> QED
  BY <1>3, <1>4, <1>5, <1>6, <1>7, <1>8, <1>9, <1>10, <1>11, <1>12 DEF MisrStep

LEMMA PowerFirmware ==
  ASSUME IInv, PInv, FwStep
  PROVE  PInv'
<1> USE LockFacts DEF ring, fw, sender, clients, history
<1>1. TypeOK /\ LockOwner /\ ListsTaken
  BY DEF IInv
<1>2. OneRequest /\ NotInTheLists /\ AckHoldsLists /\ Drained
  BY DEF PInv
<1>3. CASE FwExecute
  <2> DEFINE c == kccb[ReadOffset]
  <2>1. /\ WriteOffset \in Slots /\ ReadOffset \in Slots /\ kccb \in [Slots -> Command]
        /\ WriteOffset # ReadOffset /\ ePowState # "off"
    BY <1>1, <1>3 DEF TypeOK, FwExecute
  <2>2. /\ WriteOffset' = WriteOffset /\ ReadOffset' = NextOffset(ReadOffset)
        /\ kccb' = [kccb EXCEPT ![ReadOffset] = NoCommand]
        /\ UNCHANGED <<deferred, powerLock, devicePower, sender, misrPc>>
    BY <1>3 DEF FwExecute
  <2>3. ReadOffset \in Unread /\ Unread' = Unread \ {ReadOffset}
    BY <2>1, <2>2, UnreadShrinks DEF Unread
  <2>4. Unread \subseteq Slots
    BY <2>1, KernelAssumption DEF Unread, Between, Slots
  <2>5. \A s \in Unread' : s \in Unread /\ s # ReadOffset /\ kccb'[s] = kccb[s]
    BY <2>1, <2>2, <2>3, <2>4
  <2>6. CASE c.kind = "powoff"
    <3>1. misrPc = "ack" /\ NextOffset(ReadOffset) = WriteOffset
      BY <1>2, <2>3, <2>6 DEF OneRequest
    <3>2. Unread' = {}
      BY <2>1, <2>2, <3>1, NothingUnread DEF Unread
    <3>3. OneRequest'
      BY <3>2 DEF OneRequest
    <3>4. powSync' = 1
      BY <1>3, <2>6 DEF FwExecute
    <3>5. stage = "none" /\ local = <<>> /\ deferred = <<>>
      BY <1>1, <1>2, <3>1, QuietStage DEF ListsTaken, AckHoldsLists
    <3>6. devicePower # "off"
      BY <1>2, <2>1 DEF Drained
    <3>7. Drained'
      BY <2>2, <3>1, <3>4, <3>5, <3>6 DEF Drained
    <3> QED
      BY <1>2, <2>2, <3>3, <3>7 DEF PInv, NotInTheLists, AckHoldsLists
  <2>7. CASE c.kind # "powoff"
    <3>1. powSync' = powSync /\ ePowState' = "on"
      BY <1>3, <2>7 DEF FwExecute
    <3>2. OneRequest'
      BY <1>2, <2>2, <2>5, <3>1 DEF OneRequest, NextOffset
    <3>3. Drained'
      BY <1>2, <2>1, <2>2, <3>1 DEF Drained
    <3> QED
      BY <1>2, <2>2, <3>2, <3>3 DEF PInv, NotInTheLists, AckHoldsLists
  <2> QED
    BY <2>6, <2>7
<1>4. CASE FwIdle \/ FwInterrupt
  <2>1. OneRequest'
    BY <1>2, <1>4, PowerRingSame DEF FwIdle, FwInterrupt
  <2>2. Drained'
    BY <1>2, <1>4 DEF FwIdle, FwInterrupt, Drained
  <2> QED
    BY <1>2, <1>4, <2>1, <2>2 DEF FwIdle, FwInterrupt, PInv, NotInTheLists, AckHoldsLists
<1> QED
  BY <1>3, <1>4 DEF FwStep

LEMMA RequestingStep ==
  ASSUME IInv, PInv, Requesting, [Next]_vars
  PROVE  Requesting'
<1> USE DEF ring, fw, sender, clients, history
<1>1. ASSUME powSync' = powSync, misrPc' = "powoff" => misrPc = "powoff"
      PROVE  Requesting'
  BY <1>1 DEF Requesting
<1>2. CASE UNCHANGED vars
  BY <1>1, <1>2 DEF vars
<1>3. ASSUME NEW t \in Clients, ClientStep(t)
      PROVE  Requesting'
  BY <1>1, <1>3 DEF ClientStep, Schedule, SendOwn, DeferOwn, FailOwn,
       WaitForKCCBSlotUpdate, WaitTimesOut, ReadAnswer, Free
<1>4. CASE SenderStep
  BY <1>1, <1>4 DEF SenderStep, MoveList, SendDeferred, Flushed, PutBack, FindFull
<1>5. CASE MisrStep
  <2>1. CASE RequestPowerOff
    BY <2>1 DEF RequestPowerOff, Requesting
  <2> QED
    BY <1>1, <1>5, <2>1 DEF MisrStep, RunMisr, Scan, LockToFlush, FlushEnds, TryPowerLock,
         AfterList, SendPowerOff, PowerOffNotSent, PowerOffAnswered, PowerOffTimesOut
<1>6. CASE FwStep
  <2>1. CASE FwExecute
    <3>1. WriteOffset \in Slots /\ ReadOffset \in Slots /\ WriteOffset # ReadOffset
      BY <2>1 DEF IInv, TypeOK, FwExecute
    <3>2. ReadOffset \in Unread
      BY <3>1, UnreadShrinks DEF Unread
    <3>3. kccb[ReadOffset].kind = "powoff" => misrPc = "ack"
      BY <3>2 DEF PInv, OneRequest
    <3>4. misrPc' = misrPc
          /\ powSync' = IF kccb[ReadOffset].kind = "powoff" THEN 1 ELSE powSync
      BY <2>1 DEF FwExecute
    <3> QED
      BY <3>3, <3>4 DEF Requesting
  <2> QED
    BY <1>1, <1>6, <2>1 DEF FwStep, FwIdle, FwInterrupt
<1> QED
  BY <1>2, <1>3, <1>4, <1>5, <1>6 DEF Next

LEMMA PowerStep ==
  ASSUME ~PollTimesOut, IInv, PInv, Requesting, [Next]_vars
  PROVE  PInv'
<1>1. CASE UNCHANGED vars
  <2>1. OneRequest'
    BY <1>1, PowerRingSame DEF PInv, vars, fw
  <2> QED
    BY <1>1, <2>1 DEF vars, ring, fw, sender, PInv, NotInTheLists, AckHoldsLists, Drained
<1> QED
  BY <1>1, PowerClients, PowerSender, PowerMisr, PowerFirmware DEF Next

LEMMA EmptyIsDrained ==
  ASSUME TypeOK, ReadOffset = WriteOffset, local = <<>>, deferred = <<>>
  PROVE  Outstanding = <<>>
<1> DEFINE r == RingIds(WriteOffset, ReadOffset, kccb)
<1>1. r \in Seq(Ids) /\ Len(r) = 0
  BY RingIsSeq DEF TypeOK
<1>2. Outstanding = r \o <<>> \o <<>>
  BY OutstandingIs, IdsOfNone
<1> HIDE DEF r
<1>3. r = <<>>
  BY <1>1, EmptySeq
<1> QED
  BY <1>1, <1>2, <1>3, ConcatEmptySeq

(* RGXActivePowerRequest powers the device off only when nothing accepted  *)
(* is left in the ring or on the deferred list, if the wait for the        *)
(* firmware's answer is never given up.                                    *)
THEOREM PoweredOffDrained ==
  ASSUME ~PollTimesOut
  PROVE  Spec => []PowerOffDrained
<1>1. Init => PInv /\ Requesting
  BY PowerInit DEF Init, Requesting
<1>2. IInv /\ PInv /\ Requesting /\ [Next]_vars => PInv' /\ Requesting'
  BY PowerStep, RequestingStep
<1>3. IInv /\ PInv => PowerOffDrained
  BY EmptyIsDrained DEF IInv, PInv, Drained, PowerOffDrained
<1> QED
  BY <1>1, <1>2, <1>3, Invariant, PTL DEF Spec
=============================================================================
