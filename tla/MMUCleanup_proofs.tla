------------------------- MODULE MMUCleanup_proofs --------------------------
(* Invalidates, kicks and the tables that wait: proofs about MMUCleanup.   *)
EXTENDS MMUCleanup, SequenceTheorems, TLAPS

CleanupItem == [table : Tables \cup {None}, hasSync : BOOLEAN, required : Values,
                given : BOOLEAN]

(* Who holds which lock, and where that thread is then.                    *)
Phases ==
  /\ spc = "none" <=> powerLock = None
  /\ spc = "none" => need = {}
  /\ taken => spc = "taken"
  /\ wpc = "sending" <=> powerLock = Cleaner
  /\ cleanupLock = Unmapper <=> upc # "idle"
  /\ cleanupLock = Cleaner <=> wpc \in {"kick", "sending", "retry", "test"}
  /\ wpc = "test" => item.hasSync
  /\ wpc \in {"kick", "sending", "retry"} => ~item.hasSync

(* Whatever waits to be freed, and whatever a kick must not see, has left  *)
(* the tree, and none of it is linked again.                               *)
OutsideTree ==
  /\ upc # "idle" => freeing \in Tables
  /\ upc = "flagged" => freeing \in OutOfTree
  /\ need \subseteq OutOfTree
  /\ \A i \in 1 .. Len(kccb) : kccb[i].need \subseteq OutOfTree
  /\ wpc # "idle" => item.table \in OutOfTree
  /\ \A i \in 1 .. Len(workList) : workList[i].table \in OutOfTree

(* An invalidate goes before a kick when a cache holds what the kick must  *)
(* not see.                                                                *)
Flushed == spc = "sent" \/ (spc = "taken" /\ ~taken)
Invalidates(last) == \E i \in 1 .. last : kccb[i].kind = "mmu"
KicksFlushed ==
  contextExists =>
    /\ \A i \in 1 .. Len(kccb) :
         kccb[i].kind = "kick" => kccb[i].need \cap cached = {} \/ Invalidates(i - 1)
    /\ Flushed => need \cap cached = {} \/ Invalidates(Len(kccb))

(* The value d updates after s.                                            *)
After(s, d) == IF s + d < Modulus THEN s + d ELSE s + d - Modulus

(* The invalidates in the queue carry consecutive values, that follow the  *)
(* one the firmware wrote last: c counts them.                             *)
Counts(c) ==
  /\ c[0] = 0
  /\ \A i \in 1 .. Len(kccb) : c[i] = c[i - 1] + (IF kccb[i].kind = "mmu" THEN 1 ELSE 0)
  /\ \A i \in 0 .. Len(kccb) : \A j \in i .. Len(kccb) : c[i] <= c[j] /\ c[j] - c[i] <= j - i
  /\ \A i \in 1 .. Len(kccb) : kccb[i].kind = "mmu" => kccb[i].value = After(syncPrim, c[i])
  /\ nextUpdate = After(syncPrim, c[Len(kccb)] + 1)
SyncRuns ==
  /\ Len(kccb) <= MaxQueue
  /\ \E c \in [0 .. Len(kccb) -> 0 .. Len(kccb)] : Counts(c)

(* The value an item was given is on its way; or it was refused, and the   *)
(* next invalidate carries it, which comes before the item is tested.      *)
Pending(v) == \E i \in 1 .. Len(kccb) : kccb[i].kind = "mmu" /\ kccb[i].value = v
Waits(it) ==
  it.given /\ it.table \in cached =>
    Pending(it.required) \/ (~it.hasSync /\ it.required = nextUpdate /\ (cacheFlags \/ taken))
GivenCovered ==
  /\ wpc # "idle" => Waits(item)
  /\ \A i \in 1 .. Len(workList) : Waits(workList[i])
  /\ wpc = "sending" /\ Flushed /\ item.given /\ item.table \in cached => Pending(item.required)

IInv ==
  /\ TypeOK /\ Phases /\ OutsideTree /\ StaleIsCovered
  /\ KicksFlushed /\ SyncRuns /\ GivenCovered

(* The counter of updates wraps at Modulus.                                *)
LEMMA Wraps ==
  /\ 0 \in Values /\ FirstUpdate - 1 \in Values /\ FirstUpdate \in Values
  /\ \A v \in Values : (v + 1) % Modulus \in Values /\ (v + 1) % Modulus = After(v, 1)
<1>1. 0 \in Values /\ FirstUpdate - 1 \in Values /\ FirstUpdate \in Values
  BY MMUAssumption DEF Values
<1>2. ASSUME NEW v \in Values
      PROVE  (v + 1) % Modulus \in Values /\ (v + 1) % Modulus = After(v, 1)
  BY MMUAssumption DEF Values, After
<1> QED
  BY <1>1, <1>2

(* What accepting a command does to the queue.                             *)
LEMMA Accepted ==
  ASSUME NEW c \in Command, TypeOK, Fifo!Accept(c)
  PROVE  /\ out' = out /\ kccb' \in Seq(Command)
         /\ Len(kccb) \in Nat /\ Len(kccb') = Len(kccb) + 1
         /\ kccb'[Len(kccb) + 1] = c
         /\ \A i \in 1 .. Len(kccb) : kccb'[i] = kccb[i]
BY DEF Fifo!Accept, TypeOK

(* What executing one does.                                                *)
LEMMA Executed ==
  ASSUME TypeOK, Fifo!Execute
  PROVE  /\ Len(kccb) \in Nat \ {0} /\ out' = kccb[1] /\ out' \in Command
         /\ kccb' \in Seq(Command) /\ Len(kccb') = Len(kccb) - 1
         /\ \A i \in 1 .. Len(kccb') : i + 1 \in 1 .. Len(kccb) /\ kccb'[i] = kccb[i + 1]
BY DEF Fifo!Execute, TypeOK

(* The three kinds of commands.                                            *)
LEMMA CommandsTyped ==
  ASSUME TypeOK
  PROVE  /\ [kind |-> "mmu", value |-> nextUpdate, need |-> {}] \in Command
         /\ [kind |-> "kick", value |-> 0, need |-> need] \in Command
BY Wraps DEF TypeOK, Command

(* Every variable stays in its range.                                      *)
LEMMA TypeStep ==
  ASSUME TypeOK, OutsideTree, Next
  PROVE  TypeOK'
<1> USE DEF mmu, sync, locks, fifo, sender, worker, unmap
<1> DEFINE T == table \in [Tables -> {"linked", "unlinked", "flagged", "freed"}]
           S == nextUpdate \in Values /\ syncPrim \in Values
           Q == kccb \in Seq(Command) /\ out \in Command
           W == workList \in Seq(CleanupItem) /\ item \in CleanupItem
           B == contextExists \in BOOLEAN /\ cacheFlags \in BOOLEAN /\ taken \in BOOLEAN
           L == powerLock \in Senders \cup {None} /\ cleanupLock \in {Cleaner, Unmapper, None}
           P == /\ wpc \in {"idle", "lock", "kick", "sending", "retry", "test"}
                /\ freeing \in Tables \cup {None} /\ upc \in {"idle", "unlinked", "flagged"}
                /\ spc \in {"none", "locked", "taken", "sent"}
                /\ need \subseteq Tables /\ cached \subseteq Tables /\ forced \subseteq Tables
<1>1. TypeOK <=> T /\ S /\ Q /\ W /\ B /\ L /\ P
  BY DEF TypeOK, CleanupItem
<1>2. TypeOK' <=> T' /\ S' /\ Q' /\ W' /\ B' /\ L' /\ P'
  BY DEF TypeOK, CleanupItem
<1>3. NoItem \in CleanupItem
  BY Wraps DEF NoItem, CleanupItem
<1>4. Cleaner \in Senders
  BY DEF Senders
<1>5. ASSUME NEW t \in Tables, Unlink(t) \/ Walk(t)
      PROVE  TypeOK'
  BY <1>1, <1>2, <1>5 DEF Unlink, Walk
<1>6. CASE MMUCacheInvalidate \/ OtherChange \/ ContextDestroy
  BY <1>1, <1>2, <1>6 DEF MMUCacheInvalidate, OtherChange, ContextDestroy
<1>7. CASE SetupCleanup
  <2>1. [NoItem EXCEPT !.table = freeing] \in CleanupItem
    BY <1>1, <1>3 DEF CleanupItem
  <2>2. workList' \in Seq(CleanupItem)
    <3>1. workList \in Seq(CleanupItem)
      BY <1>1
    <3>2. \/ workList' = workList
          \/ workList' = Append(workList, [NoItem EXCEPT !.table = freeing])
      BY <1>7 DEF SetupCleanup
    <3> QED
      BY <2>1, <3>1, <3>2, AppendProperties
  <2>3. freeing \in Tables
    BY <1>7 DEF SetupCleanup, OutsideTree
  <2>4. T' /\ forced' \subseteq Tables
    BY <1>1, <1>7, <2>3 DEF SetupCleanup
  <2> QED
    BY <1>1, <1>2, <1>7, <2>2, <2>4 DEF SetupCleanup
<1>8. ASSUME NEW s \in Senders, LockPower(s)
      PROVE  TypeOK'
  BY <1>1, <1>2, <1>8 DEF LockPower, OutOfTree
<1>9. CASE TakeFlags
  BY <1>1, <1>2, <1>9 DEF TakeFlags
<1>10. Given \in CleanupItem
  BY <1>1 DEF Given, CleanupItem
<1>11. CASE SendInvalidate
  <2>1. Fifo!Accept([kind |-> "mmu", value |-> nextUpdate, need |-> {}])
    BY <1>11 DEF SendInvalidate
  <2>2. Q'
    BY <1>1, <2>1, CommandsTyped, Accepted
  <2>3. S'
    BY <1>1, <1>11, Wraps DEF SendInvalidate, NextUpdate
  <2> QED
    BY <1>1, <1>2, <1>10, <1>11, <2>2, <2>3 DEF SendInvalidate
<1>12. CASE InvalidateFails
  BY <1>1, <1>2, <1>10, <1>12 DEF InvalidateFails, FlagsBack
<1>13. CASE SendKick
  <2>1. Fifo!Accept([kind |-> "kick", value |-> 0, need |-> need]) \/ UNCHANGED fifo
    BY <1>13 DEF SendKick
  <2>2. Q'
    BY <1>1, <2>1, CommandsTyped, Accepted
  <2> QED
    BY <1>1, <1>2, <1>13, <2>2 DEF SendKick
<1>14. CASE KickDone
  BY <1>1, <1>2, <1>14 DEF KickDone, CleanupItem
<1>15. CASE Pop
  BY <1>1, <1>2, <1>15 DEF Pop
<1>16. CASE LockCleanup
  BY <1>1, <1>2, <1>3, <1>16 DEF LockCleanup
<1>17. CASE FreeMMUMapping
  <2>1. item.table \in Tables
    BY <1>17 DEF FreeMMUMapping, OutsideTree, OutOfTree
  <2> QED
    BY <1>1, <1>2, <1>3, <1>17, <2>1 DEF FreeMMUMapping
<1>18. CASE Retry
  BY <1>1, <1>2, <1>3, <1>18 DEF Retry
<1>19. CASE Execute
  <2>1. Fifo!Execute
    BY <1>19 DEF Execute
  <2>2. Q'
    BY <1>1, <2>1, Executed
  <2>3. S'
    BY <1>1, <1>19, <2>2 DEF Execute, Command
  <2>4. cached' \subseteq Tables
    BY <1>1, <1>19 DEF Execute
  <2> QED
    BY <1>1, <1>2, <1>19, <2>2, <2>3, <2>4 DEF Execute
<1> QED
  BY <1>5, <1>6, <1>7, <1>8, <1>9, <1>11, <1>12, <1>13, <1>14, <1>15, <1>16, <1>17, <1>18, <1>19
     DEF Next

(* The locks are handed on as the stages say.                              *)
LEMMA PhasesStep ==
  ASSUME TypeOK, Phases, Next
  PROVE  Phases'
<1> USE MMUAssumption DEF Phases, mmu, sync, locks, fifo, sender, worker, unmap, Senders,
                         Cleaner, Unmapper
<1>1. ASSUME NEW t \in Tables, Unlink(t) \/ Walk(t)
      PROVE  Phases'
  BY <1>1 DEF Unlink, Walk
<1>2. CASE MMUCacheInvalidate \/ SetupCleanup \/ OtherChange \/ ContextDestroy
  BY <1>2 DEF MMUCacheInvalidate, SetupCleanup, OtherChange, ContextDestroy
<1>3. ASSUME NEW s \in Senders, LockPower(s)
      PROVE  Phases'
  BY <1>3 DEF LockPower
<1>4. CASE TakeFlags \/ Execute
  BY <1>4 DEF TakeFlags, Execute
<1>5. CASE SendInvalidate
  <2>1. item'.hasSync = item.hasSync
    BY <1>5 DEF SendInvalidate, Given, TypeOK
  <2> QED
    BY <1>5, <2>1 DEF SendInvalidate
<1>6. CASE InvalidateFails
  <2>1. Given.hasSync = item.hasSync
    BY DEF Given, TypeOK
  <2>2. item'.hasSync = item.hasSync
    BY <1>6, <2>1 DEF InvalidateFails
  <2> QED
    BY <1>6, <2>2 DEF InvalidateFails
<1>7. CASE SendKick
  BY <1>7 DEF SendKick, MayKick
<1>8. CASE KickDone
  BY <1>8 DEF KickDone, TypeOK, MayKick
<1>9. CASE Pop
  BY <1>9 DEF Pop
<1>10. CASE LockCleanup
  BY <1>10 DEF LockCleanup, TypeOK
<1>11. CASE FreeMMUMapping \/ Retry
  BY <1>11 DEF FreeMMUMapping, Retry
<1> QED
  BY <1>1, <1>2, <1>3, <1>4, <1>5, <1>6, <1>7, <1>8, <1>9, <1>10, <1>11 DEF Next

(* What has left the tree stays out of it, and no walk finds it.           *)
LEMMA StaysOut ==
  ASSUME TypeOK, OutsideTree, Next
  PROVE  /\ OutOfTree \subseteq OutOfTree'
         /\ cached' \cap OutOfTree \subseteq cached
         /\ OutOfTree' = OutOfTree \/ MMUCacheInvalidate \/ ContextDestroy
<1> USE DEF OutOfTree, TypeOK, mmu
<1>1. ASSUME NEW t \in Tables, Unlink(t) \/ Walk(t)
      PROVE  OutOfTree' = OutOfTree /\ cached' \cap OutOfTree \subseteq cached
  BY <1>1 DEF Unlink, Walk
<1>2. CASE MMUCacheInvalidate
  BY <1>2 DEF MMUCacheInvalidate
<1>3. CASE ContextDestroy
  BY <1>3 DEF ContextDestroy
<1>4. CASE SetupCleanup
  <2>1. freeing \in OutOfTree
    BY <1>4 DEF SetupCleanup, OutsideTree
  <2>2. \/ UNCHANGED table
        \/ table' = [table EXCEPT ![freeing] = "freed"]
    BY <1>4 DEF SetupCleanup
  <2> QED
    BY <1>4, <2>1, <2>2 DEF SetupCleanup
<1>5. CASE FreeMMUMapping
  <2>1. item.table \in OutOfTree
    BY <1>5 DEF FreeMMUMapping, OutsideTree
  <2> QED
    BY <1>5, <2>1 DEF FreeMMUMapping
<1>6. CASE Execute
  BY <1>6 DEF Execute
<1>7. ASSUME NEW s \in Senders, LockPower(s)
      PROVE  UNCHANGED <<table, cached>>
  BY <1>7 DEF LockPower
<1>8. CASE OtherChange \/ TakeFlags \/ SendInvalidate \/ InvalidateFails \/ SendKick \/ KickDone
           \/ Pop \/ LockCleanup \/ Retry
  BY <1>8 DEF OtherChange, TakeFlags, SendInvalidate, InvalidateFails, SendKick, KickDone,
              Pop, LockCleanup, Retry
<1> QED
  BY <1>1, <1>2, <1>3, <1>4, <1>5, <1>6, <1>7, <1>8 DEF Next

(* Items, commands and the sender keep to tables that have left the tree.  *)
LEMMA OutsideTreeStep ==
  ASSUME TypeOK, Phases, OutsideTree, Next
  PROVE  OutsideTree'
<1>1. OutOfTree \subseteq OutOfTree'
  BY StaysOut
<1> DEFINE F == (upc # "idle" => freeing \in Tables) /\ (upc = "flagged" => freeing \in OutOfTree)
           N == need \subseteq OutOfTree
           K == \A i \in 1 .. Len(kccb) : kccb[i].need \subseteq OutOfTree
           I == wpc # "idle" => item.table \in OutOfTree
           L == \A i \in 1 .. Len(workList) : workList[i].table \in OutOfTree
<1>2. (OutsideTree <=> F /\ N /\ K /\ I /\ L) /\ (OutsideTree' <=> F' /\ N' /\ K' /\ I' /\ L')
  BY DEF OutsideTree
<1>3. F /\ N /\ K /\ I /\ L
  BY <1>2
<1>4. /\ UNCHANGED <<upc, freeing>> => F'
      /\ UNCHANGED kccb => K'
      /\ UNCHANGED <<wpc, item>> => I'
      /\ UNCHANGED workList => L'
      /\ need' \in {need, {}, OutOfTree} => N'
  BY <1>1, <1>3
<1> HIDE DEF F, N, K, I, L
<1> USE DEF mmu, sync, locks, fifo, sender, worker, unmap
<1>5. ASSUME NEW t \in Tables, Unlink(t) \/ Walk(t)
      PROVE  OutsideTree'
  BY <1>2, <1>4, <1>5 DEF Unlink, Walk, F
<1>6. CASE MMUCacheInvalidate
  <2>1. F'
    BY <1>3, <1>6 DEF MMUCacheInvalidate, F, OutOfTree, TypeOK
  <2> QED
    BY <1>2, <1>4, <1>6, <2>1 DEF MMUCacheInvalidate
<1>7. CASE SetupCleanup
  <2>1. freeing \in OutOfTree
    BY <1>3, <1>7 DEF SetupCleanup, F
  <2>2. L'
    <3>1. CASE UNCHANGED workList
      BY <1>4, <3>1
    <3>2. CASE workList' = Append(workList, [NoItem EXCEPT !.table = freeing])
      <4>1. [NoItem EXCEPT !.table = freeing].table = freeing
        BY DEF NoItem
      <4> QED
        BY <1>1, <1>3, <2>1, <3>2, <4>1 DEF L, TypeOK
    <3> QED
      BY <1>7, <3>1, <3>2 DEF SetupCleanup
  <2> QED
    BY <1>2, <1>4, <1>7, <2>2 DEF SetupCleanup, F
<1>8. CASE OtherChange \/ ContextDestroy
  BY <1>2, <1>4, <1>8 DEF OtherChange, ContextDestroy
<1>9. ASSUME NEW s \in Senders, LockPower(s)
      PROVE  OutsideTree'
  <2>1. I'
    BY <1>1, <1>3, <1>9 DEF LockPower, I
  <2> QED
    BY <1>2, <1>4, <1>9, <2>1 DEF LockPower
<1>10. Given.table = item.table
  BY DEF Given, TypeOK
<1>11. CASE SendInvalidate
  <2>1. I'
    BY <1>1, <1>3, <1>10, <1>11 DEF SendInvalidate, I
  <2>2. K'
    <3>1. Fifo!Accept([kind |-> "mmu", value |-> nextUpdate, need |-> {}])
      BY <1>11 DEF SendInvalidate
    <3>2. /\ Len(kccb) \in Nat /\ Len(kccb') = Len(kccb) + 1
          /\ kccb'[Len(kccb) + 1].need = {} /\ \A i \in 1 .. Len(kccb) : kccb'[i] = kccb[i]
      BY <3>1, CommandsTyped, Accepted
    <3>3. \A i \in 1 .. Len(kccb') : i \in 1 .. Len(kccb) \/ i = Len(kccb) + 1
      BY <3>2
    <3> QED
      BY <1>1, <1>3, <3>2, <3>3 DEF K
  <2> QED
    BY <1>2, <1>4, <1>11, <2>1, <2>2 DEF SendInvalidate
<1>12. CASE SendKick
  <2>1. K'
    <3>1. CASE Fifo!Accept([kind |-> "kick", value |-> 0, need |-> need])
      <4>1. /\ Len(kccb) \in Nat /\ Len(kccb') = Len(kccb) + 1
            /\ kccb'[Len(kccb) + 1].need = need /\ \A i \in 1 .. Len(kccb) : kccb'[i] = kccb[i]
        BY <3>1, CommandsTyped, Accepted
      <4>2. \A i \in 1 .. Len(kccb') : i \in 1 .. Len(kccb) \/ i = Len(kccb) + 1
        BY <4>1
      <4> QED
        BY <1>1, <1>3, <4>1, <4>2 DEF K, N
    <3>2. CASE UNCHANGED fifo
      BY <1>4, <3>2
    <3> QED
      BY <1>12, <3>1, <3>2 DEF SendKick
  <2> QED
    BY <1>2, <1>4, <1>12, <2>1 DEF SendKick
<1>13. CASE TakeFlags
  BY <1>2, <1>4, <1>13 DEF TakeFlags
<1>14. CASE InvalidateFails
  <2>1. I'
    <3>1. wpc' # "idle" => wpc # "idle"
      BY <1>14 DEF InvalidateFails, Phases
    <3>2. item'.table = item.table
      BY <1>10, <1>14 DEF InvalidateFails
    <3> QED
      BY <1>1, <1>3, <1>14, <3>1, <3>2 DEF I
  <2> QED
    BY <1>2, <1>4, <1>14, <2>1 DEF InvalidateFails
<1>15. CASE KickDone
  <2>1. item'.table = item.table
    BY <1>15 DEF KickDone, TypeOK
  <2> QED
    BY <1>1, <1>2, <1>3, <1>4, <1>15, <2>1 DEF KickDone, Phases, I
<1>16. CASE Pop
  <2>1. item' = workList[1] /\ Len(workList) \in Nat \ {0} /\ Len(workList') = Len(workList) - 1
        /\ \A i \in 1 .. Len(workList') : i + 1 \in 1 .. Len(workList) /\ workList'[i] = workList[i + 1]
    BY <1>16 DEF Pop, TypeOK
  <2>2. L' /\ I'
    BY <1>1, <1>3, <2>1 DEF L, I
  <2> QED
    BY <1>2, <1>4, <1>16, <2>2 DEF Pop
<1>17. CASE LockCleanup
  <2>1. I'
    BY <1>1, <1>3, <1>17 DEF LockCleanup, I
  <2> QED
    BY <1>2, <1>4, <1>17, <2>1 DEF LockCleanup
<1>18. CASE FreeMMUMapping
  BY <1>2, <1>4, <1>18 DEF FreeMMUMapping, I
<1>19. CASE Retry
  <2>1. item.table \in OutOfTree /\ workList' = Append(workList, item)
    BY <1>3, <1>19 DEF Retry, I
  <2>2. L'
    BY <1>1, <1>3, <2>1 DEF L, TypeOK
  <2> QED
    BY <1>2, <1>4, <1>19, <2>2 DEF Retry, I
<1>20. CASE Execute
  <2>1. K'
    BY <1>1, <1>3, <1>20, Executed DEF Execute, K
  <2> QED
    BY <1>2, <1>4, <1>20, <2>1 DEF Execute
<1> QED
  BY <1>5, <1>6, <1>7, <1>8, <1>9, <1>11, <1>12, <1>13, <1>14, <1>15, <1>16, <1>17, <1>18, <1>19, <1>20
     DEF Next

(* The actions that leave the queue, and what invalidates it, alone.       *)
LEMMA QueueAlone ==
  ASSUME Next, ~TakeFlags, ~SendInvalidate, ~InvalidateFails, ~SendKick, ~Execute
  PROVE  UNCHANGED <<kccb, taken, nextUpdate, syncPrim>> /\ (cacheFlags => cacheFlags')
<1> USE DEF mmu, sync, locks, fifo, sender, worker, unmap
<1>1. ASSUME NEW t \in Tables, Unlink(t) \/ Walk(t)
      PROVE  UNCHANGED <<kccb, taken, nextUpdate, syncPrim, cacheFlags>>
  BY <1>1 DEF Unlink, Walk
<1>2. ASSUME NEW s \in Senders, LockPower(s)
      PROVE  UNCHANGED <<kccb, taken, nextUpdate, syncPrim, cacheFlags>>
  BY <1>2 DEF LockPower
<1>3. CASE MMUCacheInvalidate \/ OtherChange
  BY <1>3 DEF MMUCacheInvalidate, OtherChange
<1>4. CASE SetupCleanup \/ ContextDestroy \/ KickDone \/ Pop \/ LockCleanup \/ FreeMMUMapping \/ Retry
  BY <1>4 DEF SetupCleanup, ContextDestroy, KickDone, Pop, LockCleanup, FreeMMUMapping, Retry
<1> QED
  BY <1>1, <1>2, <1>3, <1>4 DEF Next

(* The context goes once.                                                  *)
LEMMA ContextGoes ==
  ASSUME Next, contextExists'
  PROVE  contextExists
<1> USE DEF mmu
<1>1. ASSUME NEW t \in Tables, Unlink(t) \/ Walk(t)
      PROVE  UNCHANGED contextExists
  BY <1>1 DEF Unlink, Walk
<1>2. ASSUME NEW s \in Senders, LockPower(s)
      PROVE  UNCHANGED contextExists
  BY <1>2 DEF LockPower
<1>3. CASE MMUCacheInvalidate \/ OtherChange \/ ContextDestroy
  BY <1>3 DEF MMUCacheInvalidate, OtherChange, ContextDestroy
<1>4. CASE SetupCleanup \/ KickDone \/ Pop \/ LockCleanup \/ FreeMMUMapping \/ Retry
  BY <1>4 DEF SetupCleanup, KickDone, Pop, LockCleanup, FreeMMUMapping, Retry
<1>5. CASE TakeFlags \/ SendInvalidate \/ InvalidateFails \/ SendKick \/ Execute
  BY <1>5 DEF TakeFlags, SendInvalidate, InvalidateFails, SendKick, Execute
<1> QED
  BY <1>1, <1>2, <1>3, <1>4, <1>5 DEF Next

(* Executing an invalidate leaves nothing of a table that is not linked.   *)
LEMMA ExecutedInvalidate ==
  ASSUME TypeOK, Execute
  PROVE  IF kccb[1].kind = "mmu" THEN cached' \cap OutOfTree = {} /\ syncPrim' = kccb[1].value
                                 ELSE UNCHANGED <<cached, syncPrim>>
<1>1. out' = kccb[1]
  BY Executed DEF Execute
<1> QED
  BY <1>1 DEF Execute, OutOfTree

(* Flags, hands and queue: an invalidate is not lost between them.         *)
LEMMA StaleStep ==
  ASSUME TypeOK, Phases, OutsideTree, StaleIsCovered, Next
  PROVE  StaleIsCovered'
<1>1. CASE MMUCacheInvalidate
  BY <1>1 DEF MMUCacheInvalidate, StaleIsCovered, InvalidateComing
<1>2. CASE ContextDestroy
  BY <1>2 DEF ContextDestroy, StaleIsCovered
<1>3. CASE ~MMUCacheInvalidate /\ ~ContextDestroy
  <2>1. SUFFICES ASSUME contextExists', cached' \cap OutOfTree' # {} PROVE InvalidateComing'
    BY DEF StaleIsCovered
  <2>2. InvalidateComing /\ cached' \cap OutOfTree # {}
    BY <1>3, <2>1, ContextGoes, StaysOut DEF StaleIsCovered
  <2> USE DEF InvalidateComing
  <2>3. CASE TakeFlags
    BY <2>2, <2>3 DEF TakeFlags, Phases, fifo
  <2>4. CASE SendInvalidate
    <3>1. Fifo!Accept([kind |-> "mmu", value |-> nextUpdate, need |-> {}])
      BY <2>4 DEF SendInvalidate
    <3>2. /\ Len(kccb) \in Nat /\ Len(kccb') = Len(kccb) + 1
          /\ kccb'[Len(kccb) + 1].kind = "mmu"
      BY <3>1, CommandsTyped, Accepted
    <3>3. Len(kccb) + 1 \in 1 .. Len(kccb')
      BY <3>2
    <3> QED
      BY <3>2, <3>3
  <2>5. CASE InvalidateFails
    BY <2>5 DEF InvalidateFails, FlagsBack
  <2>6. CASE SendKick
    <3>1. CASE Fifo!Accept([kind |-> "kick", value |-> 0, need |-> need])
      <4>1. /\ Len(kccb) \in Nat /\ Len(kccb') = Len(kccb) + 1
            /\ \A i \in 1 .. Len(kccb) : kccb'[i] = kccb[i]
        BY <3>1, CommandsTyped, Accepted
      <4>2. \A i \in 1 .. Len(kccb) : i \in 1 .. Len(kccb')
        BY <4>1
      <4> QED
        BY <2>2, <2>6, <4>1, <4>2 DEF SendKick
    <3> QED
      BY <2>2, <2>6, <3>1 DEF SendKick, fifo
  <2>7. CASE Execute
    <3>1. kccb[1].kind # "mmu"
      BY <2>2, <2>7, ExecutedInvalidate
    <3>2. ASSUME NEW i \in 1 .. Len(kccb), kccb[i].kind = "mmu"
          PROVE  \E j \in 1 .. Len(kccb') : kccb'[j].kind = "mmu"
      <4>1. Len(kccb) \in Nat /\ Len(kccb') = Len(kccb) - 1 /\ \A j \in 1 .. Len(kccb') : kccb'[j] = kccb[j + 1]
        BY <2>7, Executed DEF Execute
      <4>2. i - 1 \in 1 .. Len(kccb') /\ (i - 1) + 1 = i
        BY <3>1, <3>2, <4>1
      <4> QED
        BY <3>2, <4>1, <4>2
    <3> QED
      BY <2>2, <2>7, <3>2 DEF Execute, sender
  <2>8. CASE ~TakeFlags /\ ~SendInvalidate /\ ~InvalidateFails /\ ~SendKick /\ ~Execute
    BY <2>2, <2>8, QueueAlone
  <2> QED
    BY <2>3, <2>4, <2>5, <2>6, <2>7, <2>8
<1> QED
  BY <1>1, <1>2, <1>3

(* Who does not send leaves a flushed sender as it is.                     *)
LEMMA SenderAlone ==
  ASSUME Next, ~TakeFlags, ~SendInvalidate, ~InvalidateFails, ~SendKick, ~KickDone
  PROVE  Flushed' => Flushed /\ need' = need
<1> USE DEF Flushed, sender
<1>1. ASSUME NEW t \in Tables, Unlink(t) \/ Walk(t)
      PROVE  UNCHANGED <<spc, taken, need>>
  BY <1>1 DEF Unlink, Walk
<1>2. ASSUME NEW s \in Senders, LockPower(s)
      PROVE  ~Flushed'
  BY <1>2 DEF LockPower
<1>3. CASE MMUCacheInvalidate \/ SetupCleanup \/ OtherChange \/ ContextDestroy
           \/ Pop \/ LockCleanup \/ FreeMMUMapping \/ Retry \/ Execute
  BY <1>3 DEF MMUCacheInvalidate, SetupCleanup, OtherChange, ContextDestroy, Pop, LockCleanup,
              FreeMMUMapping, Retry, Execute
<1> QED
  BY <1>1, <1>2, <1>3 DEF Next

(* A kick goes behind the invalidate it needs.                             *)
LEMMA KicksStep ==
  ASSUME TypeOK, Phases, OutsideTree, StaleIsCovered, KicksFlushed, Next
  PROVE  KicksFlushed'
<1> DEFINE Clean(s) == s \cap cached = {}
           K(i) == kccb[i].kind = "kick" => Clean(kccb[i].need) \/ Invalidates(i - 1)
           F == Flushed => Clean(need) \/ Invalidates(Len(kccb))
<1>1. SUFFICES ASSUME contextExists' PROVE (\A i \in 1 .. Len(kccb') : K(i)') /\ F'
  BY DEF KicksFlushed
<1>2. contextExists /\ (\A i \in 1 .. Len(kccb) : K(i)) /\ F
  BY <1>1, ContextGoes DEF KicksFlushed
<1>3. /\ Clean(need) => need \cap cached' = {}
      /\ \A i \in 1 .. Len(kccb) : Clean(kccb[i].need) => kccb[i].need \cap cached' = {}
  BY StaysOut DEF OutsideTree
<1>4. Len(kccb) \in Nat
  BY DEF TypeOK
<1>5. CASE SendInvalidate
  <2>1. Fifo!Accept([kind |-> "mmu", value |-> nextUpdate, need |-> {}])
    BY <1>5 DEF SendInvalidate
  <2>2. /\ Len(kccb') = Len(kccb) + 1
        /\ kccb'[Len(kccb) + 1].kind = "mmu" /\ \A i \in 1 .. Len(kccb) : kccb'[i] = kccb[i]
    BY <2>1, CommandsTyped, Accepted
  <2>3. Len(kccb) + 1 \in 1 .. Len(kccb')
    BY <1>4, <2>2
  <2>4. F'
    BY <2>2, <2>3 DEF Invalidates
  <2>5. ASSUME NEW i \in 1 .. Len(kccb')
        PROVE  K(i)'
    <3>1. CASE i \in 1 .. Len(kccb)
      <4>1. \A j \in 1 .. (i - 1) : j \in 1 .. Len(kccb)
        BY <1>4, <3>1
      <4> QED
        BY <1>2, <1>3, <2>2, <3>1, <4>1 DEF Invalidates
    <3>2. CASE i = Len(kccb) + 1
      BY <2>2, <3>2
    <3> QED
      BY <1>4, <2>2, <3>1, <3>2
  <2> QED
    BY <2>4, <2>5
<1>6. CASE SendKick
  <2>1. Flushed /\ ~Flushed'
    BY <1>6 DEF SendKick, MayKick, Flushed
  <2>2. CASE Fifo!Accept([kind |-> "kick", value |-> 0, need |-> need])
    <3>1. /\ Len(kccb') = Len(kccb) + 1
          /\ kccb'[Len(kccb) + 1].need = need /\ \A i \in 1 .. Len(kccb) : kccb'[i] = kccb[i]
      BY <2>2, CommandsTyped, Accepted
    <3>2. ASSUME NEW i \in 1 .. Len(kccb')
          PROVE  K(i)'
      <4>1. \A j \in 1 .. (i - 1) : j \in 1 .. Len(kccb)
        BY <1>4, <3>1
      <4>2. CASE i \in 1 .. Len(kccb)
        BY <1>2, <1>3, <3>1, <4>1, <4>2 DEF Invalidates
      <4>3. CASE i = Len(kccb) + 1
        <5>1. i - 1 = Len(kccb)
          BY <1>4, <4>3
        <5> QED
          BY <1>2, <1>3, <2>1, <3>1, <4>1, <4>3, <5>1 DEF Invalidates
      <4> QED
        BY <1>4, <3>1, <4>2, <4>3
    <3> QED
      BY <2>1, <3>2
  <2>3. CASE UNCHANGED fifo
    BY <1>2, <1>3, <2>1, <2>3 DEF fifo, Invalidates
  <2> QED
    BY <1>6, <2>2, <2>3 DEF SendKick
<1>7. CASE Execute
  <2>1. /\ Len(kccb') = Len(kccb) - 1
        /\ \A i \in 1 .. Len(kccb') : i + 1 \in 1 .. Len(kccb) /\ kccb'[i] = kccb[i + 1]
    BY <1>7, Executed DEF Execute
  <2>2. UNCHANGED <<spc, taken, need>>
    BY <1>7 DEF Execute, sender
  <2>3. CASE kccb[1].kind = "mmu"
    <3>1. cached' \cap OutOfTree = {}
      BY <1>7, <2>3, ExecutedInvalidate
    <3>2. need \cap cached' = {} /\ \A i \in 1 .. Len(kccb') : kccb'[i].need \cap cached' = {}
      BY <2>1, <3>1 DEF OutsideTree
    <3> QED
      BY <2>2, <3>2
  <2>4. CASE kccb[1].kind # "mmu"
    <3>1. ASSUME NEW n \in 1 .. Len(kccb), Invalidates(n)
          PROVE  Invalidates(n - 1)'
      <4>1. PICK i \in 1 .. n : kccb[i].kind = "mmu"
        BY <3>1 DEF Invalidates
      <4>2. i - 1 \in 1 .. (n - 1) /\ i - 1 \in 1 .. Len(kccb') /\ (i - 1) + 1 = i
        BY <1>4, <2>1, <2>4, <4>1
      <4>3. kccb'[i - 1].kind = "mmu"
        BY <2>1, <4>1, <4>2
      <4> QED
        BY <4>2, <4>3 DEF Invalidates
    <3>2. F'
      <4>1. Len(kccb) \in 1 .. Len(kccb)
        BY <1>7, Executed DEF Execute
      <4>2. Invalidates(Len(kccb)) => Invalidates(Len(kccb))'
        BY <2>1, <3>1, <4>1 DEF Invalidates
      <4> QED
        BY <1>2, <1>3, <2>2, <4>2 DEF Flushed
    <3>3. ASSUME NEW i \in 1 .. Len(kccb')
          PROVE  K(i)'
      <4>1. i + 1 \in 1 .. Len(kccb) /\ kccb'[i] = kccb[i + 1] /\ (i + 1) - 1 = i
        BY <2>1
      <4>2. CASE Invalidates(i)
        <5>1. i \in 1 .. Len(kccb)
          BY <1>4, <2>1
        <5> QED
          BY <3>1, <4>2, <5>1
      <4>3. CASE ~Invalidates(i)
        BY <1>2, <1>3, <4>1, <4>3
      <4> QED
        BY <4>2, <4>3
    <3> QED
      BY <3>2, <3>3
  <2> QED
    BY <2>3, <2>4
<1>8. CASE TakeFlags
  <2>1. UNCHANGED <<kccb, need, cached>>
    BY <1>8 DEF TakeFlags, fifo, mmu
  <2>2. F'
    <3>1. SUFFICES ASSUME Flushed', need \cap cached # {} PROVE Invalidates(Len(kccb))
      BY <2>1 DEF Invalidates
    <3>2. ~cacheFlags /\ ~taken
      BY <1>8, <3>1 DEF TakeFlags, Flushed, Phases
    <3>3. InvalidateComing
      BY <1>2, <3>1 DEF StaleIsCovered, OutsideTree
    <3> QED
      BY <3>2, <3>3 DEF InvalidateComing, Invalidates
  <2> QED
    BY <1>2, <2>1, <2>2 DEF Invalidates
<1>9. CASE InvalidateFails \/ KickDone
  <2>1. ~Flushed' /\ UNCHANGED <<kccb, cached>>
    BY <1>9 DEF InvalidateFails, KickDone, Flushed, fifo, mmu
  <2> QED
    BY <1>2, <2>1 DEF Invalidates
<1>10. CASE ~TakeFlags /\ ~SendInvalidate /\ ~InvalidateFails /\ ~SendKick /\ ~KickDone /\ ~Execute
  <2>1. UNCHANGED kccb /\ (Flushed' => Flushed /\ need' = need)
    BY <1>10, QueueAlone, SenderAlone
  <2> QED
    BY <1>2, <1>3, <2>1 DEF Invalidates
<1> QED
  BY <1>5, <1>6, <1>7, <1>8, <1>9, <1>10

(* Going on from the value d updates after s.                              *)
LEMMA AfterAfter ==
  ASSUME NEW s \in Values, NEW a \in Nat, NEW b \in Nat, a + b <= Modulus
  PROVE  After(After(s, a), b) = After(s, a + b)
BY MMUAssumption DEF After, Values

(* The values in the queue follow one another.                             *)
LEMMA RunsStep ==
  ASSUME TypeOK, SyncRuns, Next
  PROVE  SyncRuns'
<1> USE MMUAssumption, QueueIsShort
<1> DEFINE n == Len(kccb)
<1>1. n \in Nat /\ n <= MaxQueue /\ MaxQueue + 1 <= Modulus
  BY DEF TypeOK, SyncRuns
<1>2. PICK c \in [0 .. n -> 0 .. n] : Counts(c)
  BY DEF SyncRuns
<1>3. CASE UNCHANGED <<kccb, syncPrim, nextUpdate>>
  BY <1>1, <1>2, <1>3 DEF SyncRuns, Counts
<1>4. ASSUME NEW cmd \in Command, Fifo!Accept(cmd), n < MaxQueue, UNCHANGED syncPrim,
             IF cmd.kind = "mmu" THEN cmd.value = nextUpdate /\ nextUpdate' = After(nextUpdate, 1)
                                 ELSE UNCHANGED nextUpdate
      PROVE  SyncRuns'
  <2> DEFINE step == IF cmd.kind = "mmu" THEN 1 ELSE 0
  <2> PICK e : e = [i \in 0 .. n + 1 |-> IF i <= n THEN c[i] ELSE c[n] + step]
    OBVIOUS
  <2>1. /\ Len(kccb') = n + 1 /\ kccb'[n + 1] = cmd /\ \A i \in 1 .. n : kccb'[i] = kccb[i]
    BY <1>4, Accepted
  <2>2. step \in 0 .. 1 /\ c[n] \in 0 .. n
    BY <1>1
  <2>3. e \in [0 .. n + 1 -> 0 .. n + 1]
    BY <1>1, <2>2
  <2>4. e[0] = 0 /\ (\A i \in 0 .. n : e[i] = c[i]) /\ e[n + 1] = c[n] + step
    BY <1>1, <1>2 DEF Counts
  <2>5. \A i \in 1 .. n + 1 : e[i] = e[i - 1] + (IF kccb'[i].kind = "mmu" THEN 1 ELSE 0)
    <3>1. ASSUME NEW i \in 1 .. n
          PROVE  e[i] = e[i - 1] + (IF kccb'[i].kind = "mmu" THEN 1 ELSE 0)
      <4>1. i - 1 \in 0 .. n /\ i \in 0 .. n
        BY <1>1
      <4>2. c[i] = c[i - 1] + (IF kccb[i].kind = "mmu" THEN 1 ELSE 0)
        BY <1>2 DEF Counts
      <4> QED
        BY <2>1, <2>4, <4>1, <4>2
    <3>2. e[n + 1] = e[(n + 1) - 1] + (IF kccb'[n + 1].kind = "mmu" THEN 1 ELSE 0)
      <4>1. (n + 1) - 1 = n /\ n \in 0 .. n
        BY <1>1
      <4> QED
        BY <2>1, <2>4, <4>1
    <3>3. \A i \in 1 .. n + 1 : i \in 1 .. n \/ i = n + 1
      BY <1>1
    <3> QED
      BY <3>1, <3>2, <3>3
  <2>6. \A i \in 0 .. n + 1 : \A j \in i .. n + 1 : e[i] <= e[j] /\ e[j] - e[i] <= j - i
    <3>1. ASSUME NEW i \in 0 .. n + 1, NEW j \in i .. n + 1
          PROVE  e[i] <= e[j] /\ e[j] - e[i] <= j - i
      <4>1. CASE j <= n
        <5>1. i \in 0 .. n /\ j \in i .. n
          BY <1>1, <4>1
        <5>2. c[i] <= c[j] /\ c[j] - c[i] <= j - i
          BY <1>2, <5>1 DEF Counts
        <5> QED
          BY <1>1, <2>4, <5>1, <5>2
      <4>2. CASE i <= n /\ j = n + 1
        <5>1. i \in 0 .. n /\ n \in i .. n
          BY <1>1, <4>2
        <5>2. c[i] <= c[n] /\ c[n] - c[i] <= n - i /\ c[i] \in 0 .. n
          BY <1>2, <5>1 DEF Counts
        <5> HIDE DEF step
        <5> QED
          BY <1>1, <2>2, <2>4, <4>2, <5>1, <5>2
      <4>3. CASE i = n + 1 /\ j = n + 1
        <5> HIDE DEF step
        <5> QED
          BY <1>1, <2>2, <2>4, <4>3
      <4> QED
        BY <1>1, <4>1, <4>2, <4>3
    <3> QED
      BY <3>1
  <2>7. \A i \in 1 .. n + 1 : kccb'[i].kind = "mmu" => kccb'[i].value = After(syncPrim, e[i])
    <3>1. ASSUME NEW i \in 1 .. n, kccb'[i].kind = "mmu"
          PROVE  kccb'[i].value = After(syncPrim, e[i])
      <4>1. e[i] = c[i]
        BY <2>4
      <4> QED
        BY <1>2, <2>1, <3>1, <4>1 DEF Counts
    <3>2. kccb'[n + 1].kind = "mmu" => kccb'[n + 1].value = After(syncPrim, e[n + 1])
      BY <1>2, <1>4, <2>1, <2>4 DEF Counts
    <3>3. \A i \in 1 .. n + 1 : i \in 1 .. n \/ i = n + 1
      BY <1>1
    <3> QED
      BY <3>1, <3>2, <3>3
  <2>8. nextUpdate' = After(syncPrim, e[n + 1] + 1)
    <3>1. CASE cmd.kind = "mmu"
      <4>1. nextUpdate' = After(After(syncPrim, c[n] + 1), 1) /\ e[n + 1] = c[n] + 1
        BY <1>2, <1>4, <2>4, <3>1 DEF Counts
      <4>2. c[n] + 1 \in Nat /\ c[n] + 1 + 1 <= Modulus /\ syncPrim \in Values
        BY <1>1, <1>4, <2>2 DEF TypeOK
      <4> HIDE DEF step
      <4> QED
        BY <4>1, <4>2, AfterAfter
    <3>2. CASE cmd.kind # "mmu"
      BY <1>1, <1>2, <1>4, <2>2, <2>4, <3>2 DEF Counts
    <3> QED
      BY <3>1, <3>2
  <2>9. Counts(e)'
    BY <1>4, <2>1, <2>4, <2>5, <2>6, <2>7, <2>8 DEF Counts
  <2> QED
    BY <1>1, <1>4, <2>1, <2>3, <2>9 DEF SyncRuns
<1>5. CASE SendInvalidate
  <2> DEFINE cmd == [kind |-> "mmu", value |-> nextUpdate, need |-> {}]
  <2>1. /\ cmd \in Command /\ Fifo!Accept(cmd) /\ n < MaxQueue /\ UNCHANGED syncPrim
        /\ cmd.kind = "mmu" /\ cmd.value = nextUpdate
    BY <1>5, CommandsTyped DEF SendInvalidate
  <2>2. nextUpdate' = After(nextUpdate, 1)
    BY <1>5, Wraps DEF SendInvalidate, NextUpdate, TypeOK
  <2> HIDE DEF cmd
  <2> QED
    BY <1>4, <2>1, <2>2
<1>6. CASE SendKick
  <2> DEFINE cmd == [kind |-> "kick", value |-> 0, need |-> need]
  <2>1. CASE n < MaxQueue /\ Fifo!Accept(cmd)
    <3>1. cmd \in Command /\ cmd.kind # "mmu" /\ UNCHANGED <<syncPrim, nextUpdate>>
      BY <1>6, CommandsTyped DEF SendKick, sync
    <3> HIDE DEF cmd
    <3> QED
      BY <1>4, <2>1, <3>1
  <2>2. CASE UNCHANGED fifo
    BY <1>3, <1>6, <2>2 DEF SendKick, sync, fifo
  <2> QED
    BY <1>6, <2>1, <2>2 DEF SendKick
<1>7. CASE Execute
  <2> DEFINE m == n - 1
  <2> PICK e : e = [i \in 0 .. m |-> c[i + 1] - c[1]]
    OBVIOUS
  <2>1. /\ n \in Nat \ {0} /\ Len(kccb') = m
        /\ \A i \in 1 .. m : i + 1 \in 1 .. n /\ kccb'[i] = kccb[i + 1]
    BY <1>7, Executed DEF Execute
  <2>2. c[1] = (IF kccb[1].kind = "mmu" THEN 1 ELSE 0) /\ c[1] \in 0 .. 1 /\ UNCHANGED nextUpdate
    BY <1>1, <1>2, <1>7, <2>1 DEF Counts, Execute
  <2>3. ASSUME NEW i \in 0 .. m, NEW j \in i .. m
        PROVE  e[i] <= e[j] /\ e[j] - e[i] <= j - i
    <3>1. i + 1 \in 0 .. n /\ j + 1 \in (i + 1) .. n /\ j \in 0 .. m /\ 1 \in 0 .. n
      BY <2>1
    <3>2. c[i + 1] <= c[j + 1] /\ c[j + 1] - c[i + 1] <= (j + 1) - (i + 1)
      BY <1>2, <3>1 DEF Counts
    <3>3. c[i + 1] \in 0 .. n /\ c[j + 1] \in 0 .. n /\ c[1] \in 0 .. n
      BY <3>1
    <3>4. e[i] = c[i + 1] - c[1] /\ e[j] = c[j + 1] - c[1]
      BY <3>1
    <3> QED
      BY <2>1, <3>1, <3>2, <3>3, <3>4
  <2>4. e[0] = 0
    BY <2>1, <2>2
  <2>5. \A i \in 0 .. m : e[i] \in 0 .. m /\ e[i] = c[i + 1] - c[1] /\ c[i + 1] \in 0 .. n
    <3>1. ASSUME NEW i \in 0 .. m
          PROVE  e[i] \in 0 .. m /\ e[i] = c[i + 1] - c[1] /\ c[i + 1] \in 0 .. n
      <4>1. i + 1 \in 0 .. n /\ 1 \in 0 .. n /\ i + 1 \in 1 .. n
        BY <2>1
      <4>2. e[i] = c[i + 1] - c[1] /\ c[i + 1] \in 0 .. n /\ c[1] \in 0 .. n
        BY <4>1
      <4>3. c[1] <= c[i + 1] /\ c[i + 1] - c[1] <= (i + 1) - 1
        BY <1>2, <4>1 DEF Counts
      <4> QED
        BY <2>1, <4>2, <4>3
    <3> QED
      BY <3>1
  <2>6. e \in [0 .. m -> 0 .. m]
    BY <2>5
  <2>7. \A i \in 1 .. m : e[i] = e[i - 1] + (IF kccb'[i].kind = "mmu" THEN 1 ELSE 0)
    <3>1. ASSUME NEW i \in 1 .. m
          PROVE  e[i] = e[i - 1] + (IF kccb'[i].kind = "mmu" THEN 1 ELSE 0)
      <4>1. i - 1 \in 0 .. m /\ (i - 1) + 1 = i /\ i \in 0 .. m /\ i + 1 \in 1 .. n /\ (i + 1) - 1 = i
        BY <2>1
      <4>2. c[i + 1] = c[i] + (IF kccb[i + 1].kind = "mmu" THEN 1 ELSE 0)
        BY <1>2, <4>1 DEF Counts
      <4>3. e[i] = c[i + 1] - c[1] /\ e[i - 1] = c[i] - c[1] /\ c[i] \in Int /\ c[1] \in Int
        BY <2>2, <2>5, <4>1
      <4> QED
        BY <2>1, <4>2, <4>3
    <3> QED
      BY <3>1
  <2>8. syncPrim' = After(syncPrim, c[1])
    <3>1. CASE kccb[1].kind = "mmu"
      <4>1. syncPrim' = kccb[1].value /\ 1 \in 1 .. n
        BY <1>7, <2>1, <3>1, ExecutedInvalidate
      <4> QED
        BY <1>2, <3>1, <4>1 DEF Counts
    <3>2. CASE kccb[1].kind # "mmu"
      <4>1. syncPrim' = syncPrim /\ c[1] = 0 /\ syncPrim \in Values
        BY <1>7, <2>2, <3>2, ExecutedInvalidate DEF TypeOK
      <4> QED
        BY <4>1 DEF After, Values
    <3> QED
      BY <3>1, <3>2
  <2>9. ASSUME NEW i \in 0 .. m, NEW b \in 0 .. 1
        PROVE  After(syncPrim', e[i] + b) = After(syncPrim, c[i + 1] + b)
    <3>1. /\ e[i] + b \in Nat /\ c[1] \in Nat /\ c[1] + (e[i] + b) = c[i + 1] + b
          /\ c[i + 1] + b <= Modulus
      <4>1. /\ e[i] \in 0 .. m /\ e[i] = c[i + 1] - c[1] /\ c[i + 1] \in 0 .. n
            /\ c[1] \in 0 .. 1
        BY <2>2, <2>5
      <4>2. c[i + 1] + b <= MaxQueue + 1
        BY <1>1, <4>1
      <4>3. c[i + 1] + b <= Modulus
        BY <1>1, <4>1, <4>2
      <4>4. e[i] + b \in Nat /\ c[1] \in Nat
        BY <2>1, <4>1
      <4>5. c[1] + (e[i] + b) = c[i + 1] + b
        BY <4>1
      <4> QED
        BY <4>3, <4>4, <4>5
    <3>2. syncPrim \in Values
      BY DEF TypeOK
    <3> QED
      BY <2>8, <3>1, <3>2, AfterAfter
  <2>10. \A i \in 1 .. m : kccb'[i].kind = "mmu" => kccb'[i].value = After(syncPrim', e[i])
    <3>1. ASSUME NEW i \in 1 .. m, kccb'[i].kind = "mmu"
          PROVE  kccb'[i].value = After(syncPrim', e[i])
      <4>1. i \in 0 .. m /\ 0 \in 0 .. 1
        BY <2>1
      <4>2. After(syncPrim', e[i] + 0) = After(syncPrim, c[i + 1] + 0)
        BY <2>9, <4>1
      <4>3. e[i] + 0 = e[i] /\ c[i + 1] + 0 = c[i + 1]
        BY <2>5, <4>1
      <4> QED
        BY <1>2, <2>1, <3>1, <4>2, <4>3 DEF Counts
    <3> QED
      BY <3>1
  <2>11. nextUpdate' = After(syncPrim', e[m] + 1)
    <3>1. m \in 0 .. m /\ 1 \in 0 .. 1 /\ m + 1 = n
      BY <2>1
    <3>2. After(syncPrim', e[m] + 1) = After(syncPrim, c[m + 1] + 1)
      BY <2>9, <3>1
    <3> QED
      BY <1>2, <2>2, <3>1, <3>2 DEF Counts
  <2>12. Counts(e)'
    BY <2>1, <2>3, <2>4, <2>7, <2>10, <2>11 DEF Counts
  <2>13. Len(kccb') <= MaxQueue /\ e \in [0 .. Len(kccb') -> 0 .. Len(kccb')]
    BY <1>1, <2>1, <2>6
  <2> QED
    BY <2>12, <2>13 DEF SyncRuns
<1>8. CASE TakeFlags \/ InvalidateFails
  BY <1>3, <1>8 DEF TakeFlags, InvalidateFails, fifo, sync
<1>9. CASE ~TakeFlags /\ ~SendInvalidate /\ ~InvalidateFails /\ ~SendKick /\ ~Execute
  BY <1>3, <1>9, QueueAlone
<1> QED
  BY <1>5, <1>6, <1>7, <1>8, <1>9

(* What an item waits for does not get lost, and a value that is pending   *)
(* is until a cache has nothing of the item's table.                       *)
LEMMA WaitsKept ==
  ASSUME TypeOK, Phases, OutsideTree, Next,
         NEW it \in CleanupItem, it.table \in OutOfTree, it.table \in cached'
  PROVE  /\ it.table \in cached
         /\ Pending(it.required) => Pending(it.required)'
         /\ Waits(it) => Waits(it)'
<1> DEFINE v == it.required
           Next2 == ~it.hasSync /\ v = nextUpdate /\ (cacheFlags \/ taken)
<1>1. it.table \in cached
  BY StaysOut
<1>2. SUFFICES (Pending(v) => Pending(v)') /\ (Next2 => Next2' \/ Pending(v)')
  BY <1>1 DEF Waits
<1>3. CASE SendInvalidate
  <2>1. Fifo!Accept([kind |-> "mmu", value |-> nextUpdate, need |-> {}])
    BY <1>3 DEF SendInvalidate
  <2>2. /\ Len(kccb) \in Nat /\ Len(kccb') = Len(kccb) + 1
        /\ kccb'[Len(kccb) + 1].kind = "mmu" /\ kccb'[Len(kccb) + 1].value = nextUpdate
        /\ \A i \in 1 .. Len(kccb) : kccb'[i] = kccb[i]
    BY <2>1, CommandsTyped, Accepted
  <2>3. Len(kccb) + 1 \in 1 .. Len(kccb') /\ \A i \in 1 .. Len(kccb) : i \in 1 .. Len(kccb')
    BY <2>2
  <2> QED
    BY <2>2, <2>3 DEF Pending
<1>4. CASE SendKick
  <2>1. UNCHANGED <<cacheFlags, taken, nextUpdate>>
    BY <1>4 DEF SendKick, sync
  <2>2. CASE Fifo!Accept([kind |-> "kick", value |-> 0, need |-> need])
    <3>1. Len(kccb) \in Nat /\ Len(kccb') = Len(kccb) + 1 /\ \A i \in 1 .. Len(kccb) : kccb'[i] = kccb[i]
      BY <2>2, CommandsTyped, Accepted
    <3>2. \A i \in 1 .. Len(kccb) : i \in 1 .. Len(kccb')
      BY <3>1
    <3> QED
      BY <2>1, <3>1, <3>2 DEF Pending
  <2>3. CASE UNCHANGED fifo
    BY <2>1, <2>3 DEF Pending, fifo
  <2> QED
    BY <1>4, <2>2, <2>3 DEF SendKick
<1>5. CASE Execute
  <2>1. /\ Len(kccb) \in Nat \ {0} /\ Len(kccb') = Len(kccb) - 1
        /\ \A i \in 1 .. Len(kccb') : kccb'[i] = kccb[i + 1]
    BY <1>5, Executed DEF Execute
  <2>2. kccb[1].kind # "mmu"
    BY <1>5, ExecutedInvalidate
  <2>3. ASSUME NEW i \in 1 .. Len(kccb), kccb[i].kind = "mmu", kccb[i].value = v
        PROVE  Pending(v)'
    <3>1. i - 1 \in 1 .. Len(kccb') /\ (i - 1) + 1 = i
      BY <2>1, <2>2, <2>3
    <3> QED
      BY <2>1, <2>3, <3>1 DEF Pending
  <2> QED
    BY <1>5, <2>3 DEF Execute, Pending, sender
<1>6. CASE TakeFlags
  BY <1>6 DEF TakeFlags, Phases, Pending, fifo, sync
<1>7. CASE InvalidateFails
  BY <1>7 DEF InvalidateFails, FlagsBack, Pending, fifo, sync
<1>8. CASE ~TakeFlags /\ ~SendInvalidate /\ ~InvalidateFails /\ ~SendKick /\ ~Execute
  BY <1>8, QueueAlone DEF Pending
<1> QED
  BY <1>3, <1>4, <1>5, <1>6, <1>7, <1>8

(* An item keeps the value it was given until the invalidate that carries  *)
(* it was executed.                                                        *)
LEMMA GivenStep ==
  ASSUME TypeOK, Phases, OutsideTree, GivenCovered, Next
  PROVE  GivenCovered'
<1> USE DEF mmu, sync, locks, fifo, sender, worker, unmap
<1> DEFINE A == wpc # "idle" => Waits(item)
           B == \A i \in 1 .. Len(workList) : Waits(workList[i])
           C == wpc = "sending" /\ Flushed /\ item.given /\ item.table \in cached => Pending(item.required)
<1>1. A /\ B /\ C
  BY DEF GivenCovered
<1>2. (A' /\ B' /\ C') => GivenCovered'
  BY DEF GivenCovered
<1>3. /\ item \in CleanupItem /\ workList \in Seq(CleanupItem) /\ Len(workList) \in Nat
      /\ \A i \in 1 .. Len(workList) : workList[i] \in CleanupItem
  <2>1. item \in CleanupItem /\ workList \in Seq(CleanupItem)
    BY DEF TypeOK, CleanupItem
  <2> QED
    BY <2>1
<1>4. ASSUME NEW it \in CleanupItem, it.table \in OutOfTree, Waits(it)
      PROVE  Waits(it)'
  <2>1. CASE it.table \in cached'
    BY <1>4, <2>1, WaitsKept
  <2>2. CASE it.table \notin cached'
    BY <2>2 DEF Waits
  <2> QED
    BY <2>1, <2>2
<1>5. ASSUME UNCHANGED workList
      PROVE  B'
  <2>1. ASSUME NEW i \in 1 .. Len(workList)
        PROVE  Waits(workList[i])'
    <3>1. PICK it \in CleanupItem : it = workList[i]
      BY <1>3
    <3>2. Waits(it)'
      BY <1>1, <1>4, <3>1 DEF OutsideTree
    <3> QED
      BY <1>5, <3>1, <3>2 DEF Waits
  <2> QED
    BY <1>5, <2>1
<1>6. ASSUME UNCHANGED item, wpc # "idle"
      PROVE  Waits(item)'
  <2>1. PICK it \in CleanupItem : it = item
    BY <1>3
  <2>2. Waits(it)'
    BY <1>1, <1>4, <1>6, <2>1 DEF OutsideTree
  <2> QED
    BY <1>6, <2>1, <2>2 DEF Waits
<1>7. ASSUME UNCHANGED <<item, wpc>>
      PROVE  A'
  BY <1>6, <1>7
<1>8. ASSUME UNCHANGED <<item, wpc>>, Flushed' => Flushed
      PROVE  C'
  <2>1. SUFFICES ASSUME wpc = "sending", Flushed, item.given, item.table \in cached'
                 PROVE  Pending(item.required)'
    BY <1>8
  <2>2. PICK it \in CleanupItem : it = item
    BY <1>3
  <2>3. it.table \in cached /\ (Pending(it.required) => Pending(it.required)')
    BY <2>1, <2>2, WaitsKept DEF OutsideTree
  <2> QED
    BY <1>1, <1>8, <2>1, <2>2, <2>3 DEF Pending
<1> HIDE DEF A, B, C
<1>9. /\ wpc' = "idle" => A' /\ C'
      /\ wpc' # "sending" => C'
      /\ ~Flushed' => C'
  BY DEF A, C
<1>10. ASSUME NEW t \in Tables, Unlink(t) \/ Walk(t)
       PROVE  GivenCovered'
  BY <1>2, <1>5, <1>7, <1>8, <1>10 DEF Unlink, Walk, Flushed
<1>11. CASE MMUCacheInvalidate \/ OtherChange \/ ContextDestroy
  BY <1>2, <1>5, <1>7, <1>8, <1>11 DEF MMUCacheInvalidate, OtherChange, ContextDestroy, Flushed
<1>12. Len(workList) + 1 \in Nat /\ \A it \in CleanupItem :
         workList' = Append(workList, it) =>
           /\ Len(workList') = Len(workList) + 1 /\ workList'[Len(workList) + 1] = it
           /\ \A i \in 1 .. Len(workList) : workList'[i] = workList[i]
  BY <1>3
<1>13. ASSUME NEW it \in CleanupItem, workList' = Append(workList, it), Waits(it)'
       PROVE  B'
  <2>1. ASSUME NEW i \in 1 .. Len(workList')
        PROVE  Waits(workList[i])'
    <3>1. CASE i \in 1 .. Len(workList)
      <4>1. PICK x \in CleanupItem : x = workList[i]
        BY <1>3, <3>1
      <4>2. Waits(x)'
        BY <1>1, <1>4, <3>1, <4>1 DEF OutsideTree, B
      <4> QED
        BY <1>12, <1>13, <3>1, <4>1, <4>2 DEF Waits
    <3>2. CASE i = Len(workList) + 1
      BY <1>12, <1>13, <3>2 DEF Waits
    <3> QED
      BY <1>3, <1>12, <1>13, <3>1, <3>2
  <2> QED
    BY <2>1 DEF B
<1>14. CASE SetupCleanup
  <2>1. B'
    <3>1. CASE UNCHANGED workList
      BY <1>5, <3>1
    <3>2. CASE workList' = Append(workList, [NoItem EXCEPT !.table = freeing])
      <4>1. PICK it : it = [NoItem EXCEPT !.table = freeing]
        OBVIOUS
      <4>2. it \in CleanupItem /\ ~it.given
        BY <4>1, Wraps DEF NoItem, CleanupItem, TypeOK
      <4>3. Waits(it)'
        BY <4>2 DEF Waits
      <4> QED
        BY <1>13, <3>2, <4>1, <4>2, <4>3
    <3> QED
      BY <1>14, <3>1, <3>2 DEF SetupCleanup
  <2> QED
    BY <1>2, <1>7, <1>8, <1>14, <2>1 DEF SetupCleanup, Flushed
<1>15. ASSUME NEW s \in Senders, LockPower(s)
       PROVE  GivenCovered'
  <2>1. ~Flushed' /\ UNCHANGED <<workList, item>> /\ (wpc' # "idle" => wpc # "idle")
    BY <1>15 DEF LockPower, Flushed
  <2>2. A'
    BY <1>6, <2>1 DEF A
  <2> QED
    BY <1>2, <1>5, <1>9, <2>1, <2>2
<1>16. CASE TakeFlags
  <2>1. C'
    <3>1. SUFFICES ASSUME wpc = "sending", ~cacheFlags, item.given, item.table \in cached
                   PROVE  Pending(item.required)
      BY <1>16 DEF TakeFlags, Flushed, Pending, C
    <3>2. ~taken
      BY <1>16 DEF TakeFlags, Phases
    <3> QED
      BY <1>1, <3>1, <3>2 DEF A, Waits
  <2> QED
    BY <1>2, <1>5, <1>7, <1>16, <2>1 DEF TakeFlags
<1>17. powerLock = Cleaner => wpc = "sending" /\ ~item.hasSync
  BY DEF Phases
<1>18. /\ Given.table = item.table /\ Given.hasSync = item.hasSync
       /\ powerLock = Cleaner => Given.given /\ Given.required = nextUpdate
       /\ powerLock # Cleaner => Given = item
  BY <1>3 DEF Given, CleanupItem
<1>19. CASE SendInvalidate
  <2>1. UNCHANGED <<workList, wpc>> /\ item' = Given
    BY <1>19 DEF SendInvalidate
  <2>2. CASE powerLock = Cleaner
    <3>1. \E i \in 1 .. Len(kccb') : kccb'[i].kind = "mmu" /\ kccb'[i].value = nextUpdate
      <4>1. Fifo!Accept([kind |-> "mmu", value |-> nextUpdate, need |-> {}])
        BY <1>19 DEF SendInvalidate
      <4>2. /\ Len(kccb) \in Nat /\ Len(kccb') = Len(kccb) + 1
            /\ kccb'[Len(kccb) + 1].kind = "mmu" /\ kccb'[Len(kccb) + 1].value = nextUpdate
        BY <4>1, CommandsTyped, Accepted
      <4>3. Len(kccb) + 1 \in 1 .. Len(kccb')
        BY <4>2
      <4> QED
        BY <4>2, <4>3
    <3>2. Pending(item.required)'
      BY <1>18, <2>1, <2>2, <3>1 DEF Pending
    <3>3. A' /\ C'
      BY <3>2 DEF A, C, Waits
    <3> QED
      BY <1>2, <1>5, <2>1, <3>3
  <2>3. CASE powerLock # Cleaner
    <3>1. wpc # "sending" /\ UNCHANGED item
      BY <1>18, <2>1, <2>3 DEF Phases
    <3> QED
      BY <1>2, <1>5, <1>7, <1>9, <2>1, <3>1
  <2> QED
    BY <2>2, <2>3
<1>20. CASE InvalidateFails
  <2>1. /\ UNCHANGED workList /\ ~Flushed' /\ cacheFlags' /\ UNCHANGED nextUpdate
        /\ wpc' # "idle" => wpc # "idle"
        /\ item' \in {item, Given}
    BY <1>17, <1>20 DEF InvalidateFails, Flushed, FlagsBack
  <2>2. A'
    <3>1. CASE UNCHANGED item
      BY <1>6, <2>1, <3>1 DEF A
    <3>2. CASE item' = Given /\ powerLock = Cleaner
      BY <1>17, <1>18, <2>1, <3>2 DEF A, Waits
    <3> QED
      BY <1>18, <2>1, <3>1, <3>2
  <2> QED
    BY <1>2, <1>5, <1>9, <2>1, <2>2
<1>21. CASE SendKick
  <2>1. ~Flushed' /\ UNCHANGED <<workList, item, wpc>>
    BY <1>21 DEF SendKick, Flushed
  <2> QED
    BY <1>2, <1>5, <1>7, <1>9, <2>1
<1>22. CASE KickDone
  <2>1. /\ ~Flushed' /\ UNCHANGED <<workList, kccb, cached>>
        /\ Flushed /\ powerLock = Cleaner /\ item' = [item EXCEPT !.hasSync = TRUE]
    BY <1>22 DEF KickDone, MayKick, Flushed
  <2>2. item'.given = item.given /\ item'.table = item.table /\ item'.required = item.required
    BY <1>3, <2>1 DEF CleanupItem
  <2>3. A'
    BY <1>1, <1>17, <2>1, <2>2 DEF A, C, Waits, Pending
  <2> QED
    BY <1>2, <1>5, <1>9, <2>1, <2>3
<1>23. CASE Pop
  <2>1. /\ item' = workList[1] /\ Len(workList) \in Nat \ {0} /\ Len(workList') = Len(workList) - 1
        /\ \A i \in 1 .. Len(workList') : i + 1 \in 1 .. Len(workList) /\ workList'[i] = workList[i + 1]
    BY <1>3, <1>23 DEF Pop
  <2>2. A'
    <3>1. PICK it \in CleanupItem : it = workList[1]
      BY <1>3, <2>1
    <3>2. Waits(it)'
      BY <1>1, <1>4, <2>1, <3>1 DEF OutsideTree, B
    <3> QED
      BY <2>1, <3>1, <3>2 DEF A, Waits
  <2>3. B'
    <3>1. ASSUME NEW i \in 1 .. Len(workList')
          PROVE  Waits(workList[i])'
      <4>1. PICK it \in CleanupItem : it = workList[i + 1]
        BY <1>3, <2>1
      <4>2. Waits(it)'
        BY <1>1, <1>4, <2>1, <4>1 DEF OutsideTree, B
      <4> QED
        BY <2>1, <4>1, <4>2 DEF Waits
    <3> QED
      BY <3>1 DEF B
  <2> QED
    BY <1>2, <1>9, <1>23, <2>2, <2>3 DEF Pop
<1>24. CASE LockCleanup
  <2>1. UNCHANGED workList /\ wpc' # "sending" /\ wpc # "idle" /\ (wpc' # "idle" => UNCHANGED item)
    BY <1>24 DEF LockCleanup
  <2>2. A'
    BY <1>6, <2>1 DEF A
  <2> QED
    BY <1>2, <1>5, <1>9, <2>1, <2>2
<1>25. CASE FreeMMUMapping
  BY <1>2, <1>5, <1>9, <1>25 DEF FreeMMUMapping
<1>26. CASE Retry
  <2>1. PICK it \in CleanupItem : it = item
    BY <1>3
  <2>2. Waits(it) /\ it.table \in OutOfTree
    BY <1>1, <1>26, <2>1 DEF Retry, A, OutsideTree
  <2>3. B'
    BY <1>4, <1>13, <1>26, <2>1, <2>2 DEF Retry
  <2> QED
    BY <1>2, <1>9, <1>26, <2>3 DEF Retry
<1>27. CASE Execute
  BY <1>2, <1>5, <1>7, <1>8, <1>27 DEF Execute, Flushed
<1> QED
  BY <1>10, <1>11, <1>14, <1>15, <1>16, <1>19, <1>20, <1>21, <1>22, <1>23, <1>24, <1>25, <1>26, <1>27
     DEF Next

(* Nothing is unlinked, flagged or sent at first.                          *)
LEMMA InitIInv == Init => IInv
<1> SUFFICES ASSUME Init PROVE IInv
  OBVIOUS
<1> USE MMUAssumption DEF Init
<1>1. TypeOK
  <2>1. NoItem \in CleanupItem /\ workList \in Seq(CleanupItem)
    BY Wraps DEF NoItem, CleanupItem
  <2>2. out \in Command /\ kccb \in Seq(Command)
    BY Wraps DEF Command
  <2>3. nextUpdate \in Values /\ syncPrim \in Values
    BY Wraps
  <2> QED
    BY <2>1, <2>2, <2>3 DEF TypeOK, CleanupItem
<1>2. Phases /\ OutsideTree /\ StaleIsCovered /\ KicksFlushed /\ GivenCovered
  <2>1. Len(kccb) = 0 /\ Len(workList) = 0 /\ 1 .. 0 = {}
    OBVIOUS
  <2> QED
    BY <2>1 DEF Phases, OutsideTree, StaleIsCovered, KicksFlushed, GivenCovered, Flushed,
                Senders, Cleaner, Unmapper
<1>3. SyncRuns
  <2>1. PICK c : c = [i \in 0 .. 0 |-> 0]
    OBVIOUS
  <2>2. Len(kccb) = 0 /\ c \in [0 .. 0 -> 0 .. 0] /\ c[0] = 0
    BY <2>1
  <2>3. nextUpdate = After(syncPrim, 0 + 1)
    BY DEF After
  <2>4. Counts(c)
    BY <2>2, <2>3 DEF Counts
  <2> QED
    BY <2>2, <2>4 DEF SyncRuns
<1> QED
  BY <1>1, <1>2, <1>3 DEF IInv

(* Every step keeps the invariant.                                         *)
LEMMA StepIInv == IInv /\ [Next]_vars => IInv'
<1> SUFFICES ASSUME IInv, [Next]_vars PROVE IInv'
  OBVIOUS
<1>1. CASE Next
  BY <1>1, TypeStep, PhasesStep, OutsideTreeStep, StaleStep, KicksStep, RunsStep, GivenStep DEF IInv
<1>2. CASE UNCHANGED vars
  <2> USE <1>2 DEF IInv, vars, mmu, sync, locks, fifo, worker, unmap, sender
  <2>1. TypeOK' /\ Phases'
    BY DEF TypeOK, Phases
  <2>2. OutsideTree' /\ StaleIsCovered' /\ KicksFlushed'
    BY DEF OutsideTree, OutOfTree, StaleIsCovered, InvalidateComing, KicksFlushed, Flushed, Invalidates
  <2>3. SyncRuns' /\ GivenCovered'
    BY DEF SyncRuns, Counts, GivenCovered, Waits, Pending, Flushed
  <2> QED
    BY <2>1, <2>2, <2>3
<1> QED
  BY <1>1, <1>2

(* It holds in every state a run reaches.                                  *)
THEOREM Invariant == Spec => []IInv
BY InitIInv, StepIInv, PTL DEF Spec

(* Every variable stays in its range.                                      *)
THEOREM TypeCorrect == Spec => []TypeOK
<1>1. IInv => TypeOK
  BY DEF IInv
<1> QED
  BY <1>1, Invariant, PTL

(* The flags that rgxmem.c takes, sends an invalidate for and puts back    *)
(* when it fails are not lost: stale entries are always about to go.       *)
THEOREM Covered == Spec => []StaleIsCovered
<1>1. IInv => StaleIsCovered
  BY DEF IInv
<1> QED
  BY <1>1, Invariant, PTL

(* RGXPreKickCacheCommand: a kick does not run on stale entries of tables  *)
(* that had left the tree when its sender took the power lock.             *)
THEOREM KicksAreFlushed == Spec => []KickSeesNoStale
<1>1. IInv => KickSeesNoStale
  <2> SUFFICES ASSUME IInv, kccb # <<>>, Head(kccb).kind = "kick", contextExists
               PROVE  Head(kccb).need \cap cached = {}
    BY DEF KickSeesNoStale
  <2>1. Len(kccb) \in Nat \ {0} /\ Head(kccb) = kccb[1]
    BY DEF IInv, TypeOK
  <2>2. kccb[1].need \cap cached = {} \/ Invalidates(1 - 1)
    BY <2>1 DEF IInv, KicksFlushed
  <2>3. ~Invalidates(1 - 1)
    BY DEF Invalidates
  <2> QED
    BY <2>1, <2>2, <2>3
<1> QED
  BY <1>1, Invariant, PTL

(* MMU_HasSyncAdvanced tells right, with values that wrap: what it lets    *)
(* the cleanup thread free after a wait, no cache holds.                   *)
THEOREM GivenValueHolds == Spec => []GivenValueExecuted
<1>1. IInv => GivenValueExecuted
  <2> SUFFICES ASSUME IInv, wpc = "test", item.given, item.table \in cached
               PROVE  ~HasSyncAdvanced(syncPrim, item.required)
    BY DEF GivenValueExecuted
  <2>1. item.hasSync
    BY DEF IInv, Phases
  <2>2. PICK i \in 1 .. Len(kccb) : kccb[i].kind = "mmu" /\ kccb[i].value = item.required
    BY <2>1 DEF IInv, GivenCovered, Waits, Pending
  <2>3. PICK c \in [0 .. Len(kccb) -> 0 .. Len(kccb)] : Counts(c)
    BY DEF IInv, SyncRuns
  <2>4. Len(kccb) \in Nat /\ Len(kccb) <= MaxQueue
    BY DEF IInv, SyncRuns, TypeOK
  <2>5. i \in 0 .. Len(kccb) /\ i - 1 \in 0 .. Len(kccb) /\ 0 \in 0 .. Len(kccb)
    BY <2>4
  <2>6. c[i] = c[i - 1] + 1 /\ c[i - 1] \in 0 .. Len(kccb) /\ c[i] \in 0 .. Len(kccb)
    BY <2>2, <2>3, <2>5 DEF Counts
  <2>7. c[i] \in 1 .. MaxQueue
    BY <2>4, <2>6, MMUAssumption
  <2>8. item.required = After(syncPrim, c[i]) /\ syncPrim \in Values
    BY <2>2, <2>3 DEF Counts, IInv, TypeOK
  <2> QED
    BY <2>7, <2>8, MMUAssumption, QueueIsShort DEF After, Values, HasSyncAdvanced
<1> QED
  BY <1>1, Invariant, PTL
=============================================================================
