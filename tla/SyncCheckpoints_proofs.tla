----------------------- MODULE SyncCheckpoints_proofs -----------------------
(* References, places and the context: proofs about SyncCheckpoints.       *)
EXTENDS SyncCheckpoints, FiniteSetTheorems, SequenceTheorems, TLAPS

(* Where each thread can be, and what it does next.                        *)
InUnref == {"defer", "reclaim", "count", "check", "leave"}
ThreadShape ==
  /\ \A k \in Kickers :
       th[k].pc \in InUnref \cup {"idle", "create", "append", "schedule", "rollback", "deref"}
  /\ th[Misr].pc \in InUnref \cup {"idle"}
  /\ th[Unbind].pc \in {"idle", "check", "reclaim", "count", "pool", "clean", "read", "end"}
  /\ \A t \in Threads \ {Unbind} : th[t].after \in {"check", "leave"}
  /\ th[Unbind].pc = "reclaim" => th[Unbind].after = "pool"
  /\ th[Unbind].pc = "clean" => th[Unbind].after = "read"
  /\ th[Unbind].pc = "count" => th[Unbind].after \in {"pool", "read"}
  /\ th[Unbind].pc # "idle" => \A k \in Kickers : th[k].pc = "idle"

(* A kick's checkpoints: an output is made after the inputs are there, and *)
(* is nobody else's until the fence is made or the kick rolled back.       *)
Inputs(c) == {k \in Kickers : c \in kick[k].in}
Outputs(c) == {k \in Kickers : kick[k].out = c}
KickShape ==
  /\ \A k \in Kickers : th[k].pc = "idle" => kick[k] = NoKick
  /\ \A k \in Kickers : th[k].pc = "create" => kick[k].out = None
  /\ \A k \in Kickers : \A c \in Checkpoints :
       kick[k].out = c => fence[c] = "none" /\ Inputs(c) = {} /\ Outputs(c) = {k}

(* hRefCount counts the kicks that have the checkpoint as an input, and    *)
(* the reference it was created with.                                      *)
Created(c) == IF fence[c] # "none" \/ Outputs(c) # {} THEN 1 ELSE 0
RefsCounted ==
  \A c \in Checkpoints : chk[c].hRefCount = Cardinality(Inputs(c)) + Created(c)

(* The ring of unused checkpoints.                                         *)
PooledAt(i) == pool.slot[(pool.Rp + i) % PoolSize]
PoolShape ==
  /\ pool.Wp = (pool.Rp + pool.count) % PoolSize
  /\ pool.full <=> pool.count = PoolSize
  /\ \A i \in 0..(pool.count - 1) : PooledAt(i) \in Checkpoints
  /\ \A i, j \in 0..(pool.count - 1) : PooledAt(i) = PooledAt(j) => i = j

(* A checkpoint without a reference is in one place, with one it is in     *)
(* none.                                                                   *)
Places ==
  /\ Pooled \cap deferred = {}
  /\ \A t \in Threads :
       /\ Releasing(t) \cap (Pooled \cup deferred) = {}
       /\ \A u \in Threads \ {t} : Releasing(t) \cap Releasing(u) = {}
  /\ \A c \in Pooled \cup deferred : c \in allocated /\ chk[c].hRefCount = 0
  /\ \A t \in Threads : \A c \in Releasing(t) : c \in allocated /\ chk[c].hRefCount = 0
Living(c) ==
  \/ chk[c].hRefCount > 0 \/ c \in deferred
  \/ \E t \in Threads : At(t, "defer") /\ c \in th[t].work
LivingInUse == \A c \in Checkpoints : Living(c) => InUse(c)

(* What is counted: checkpoints, and references to their context.          *)
Counting == {t \in Threads : At(t, "count")}
Calls == {t \in Threads \ {Unbind} : th[t].pc \in InUnref}
Owner == ctx.hRefCount - Cardinality(Calls) - (IF ctx.block THEN 1 ELSE 0)
ContextCounts ==
  /\ ctx.hCheckpointCount = Cardinality(allocated) + Cardinality(Counting)
  /\ Owner \in {0, 1}
  /\ th[Unbind].pc # "end" => Owner = 1
  /\ ctx.block <=> allocated # {}
  /\ ctx.live <=> ctx.hRefCount > 0

(* Commands a checkpoint was put into, and the firmware is not done with.  *)
Appending(c) == {k \in Kickers : th[k].pc \in {"create", "append"} /\ c \in Used(k)}
Appended(c) == {k \in Kickers : th[k].pc \in {"schedule", "rollback"} /\ c \in Used(k)}
EnqueuedBounds ==
  \A c \in Checkpoints :
    /\ chk[c].hEnqueuedCCBCount + Cardinality(Appending(c)) <= MaxEnqueued - 1 + Cardinality(Kickers)
    /\ chk[c].hEnqueuedCCBCount >= Cardinality(Appended(c))

Commands == Kickers \X (1..MaxCmds)
WaitingFor(c) == {x \in Commands : /\ x[2] <= Len(ccb[x[1]].cmds)
                                   /\ ccb[x[1]].cmds[x[2]].stage = "wait"
                                   /\ c \in ccb[x[1]].cmds[x[2]].fence}
Updating(c) == {x \in Commands : /\ x[2] <= Len(ccb[x[1]].cmds)
                                 /\ ccb[x[1]].cmds[x[2]].update = c}
Undoing(c) == {k \in Kickers : th[k].pc = "rollback" /\ c \in Used(k)}
CommandsCounted ==
  late = 0 =>
    \A c \in Checkpoints :
      /\ chk[c].hEnqueuedCCBCount = chk[c].ui32FwRefCount + Cardinality(WaitingFor(c))
                                      + Cardinality(Updating(c)) + Cardinality(Undoing(c))
      /\ Living(c) \/ Serviced(c)

(* TypeOK without the limits of the counts, which follow from what they    *)
(* count.                                                                  *)
Typed ==
  /\ chk \in [Checkpoints -> [hRefCount : Int, hEnqueuedCCBCount : Int,
                              ui32FwRefCount : Nat,
                              ui32State : {"UNDEF", "ACTIVE", "SIGNALLED"},
                              listed : BOOLEAN]]
  /\ allocated \subseteq Checkpoints /\ deferred \subseteq Checkpoints
  /\ ctx \in [live : BOOLEAN, block : BOOLEAN, hRefCount : Int, hCheckpointCount : Int]
  /\ pool \in [slot : [0..(PoolSize - 1) -> Checkpoints \cup {None}], Rp : 0..(PoolSize - 1),
               Wp : 0..(PoolSize - 1), count : 0..PoolSize, full : BOOLEAN]
  /\ fence \in [Checkpoints -> {"none", "foreign", "fence", "dropped"}]
  /\ th \in [Threads -> [pc : Stages, work : SUBSET Checkpoints, after : Stages]]
  /\ kick \in [Kickers -> [in : SUBSET Checkpoints, out : Checkpoints \cup {None}]]
  /\ ccb \in [Kickers -> [cmds : Seq(Command), known : Nat]]
  /\ \A k \in Kickers : ccb[k].known \in 0..Len(ccb[k].cmds) /\ Len(ccb[k].cmds) <= MaxCmds
  /\ late \in 0..MaxLate /\ quiet \in BOOLEAN

IInv == /\ TypeOK /\ ThreadShape /\ KickShape /\ RefsCounted /\ PoolShape /\ Places
        /\ LivingInUse /\ ContextCounts /\ EnqueuedBounds /\ CommandsCounted

-----------------------------------------------------------------------------
(* The ring of unused checkpoints. *)

LEMMA RingPlace ==
  ASSUME NEW r \in 0..(PoolSize - 1), NEW i \in 0..PoolSize
  PROVE  /\ (r + i) % PoolSize = IF r + i < PoolSize THEN r + i ELSE r + i - PoolSize
         /\ (r + i) % PoolSize \in 0..(PoolSize - 1)
<1>1. PoolSize \in Nat \ {0}
  BY CheckpointsAssumption
<1> QED
  BY <1>1

LEMMA PoolTypes ==
  ASSUME TypeOK
  PROVE  /\ pool.Rp \in 0..(PoolSize - 1) /\ pool.Wp \in 0..(PoolSize - 1)
         /\ pool.count \in 0..PoolSize /\ PoolSize \in Nat \ {0}
         /\ pool.slot \in [0..(PoolSize - 1) -> Checkpoints \cup {None}]
         /\ pool.full \in BOOLEAN
         /\ pool = [slot |-> pool.slot, Rp |-> pool.Rp, Wp |-> pool.Wp,
                    count |-> pool.count, full |-> pool.full]
BY CheckpointsAssumption DEF TypeOK

LEMMA PooledIs ==
  ASSUME TypeOK, PoolShape
  PROVE  /\ Pooled = {PooledAt(i) : i \in 0..(pool.count - 1)}
         /\ Pooled \subseteq Checkpoints
         /\ IsFiniteSet(Pooled) /\ Cardinality(Pooled) = pool.count
<1>1. Pooled = {PooledAt(i) : i \in 0..(pool.count - 1)}
  BY DEF Pooled, PooledAt
<1>2. Pooled \subseteq Checkpoints
  BY <1>1 DEF PoolShape
<1> DEFINE n == pool.count
           P == Pooled
           f == [i \in 1..n |-> PooledAt(i - 1)]
<1>3. n \in Nat
  BY PoolTypes
<1>4. f \in Bijection(1..n, P)
  <2>1. \A i \in 1..n : i - 1 \in 0..(n - 1) /\ f[i] = PooledAt(i - 1)
    BY <1>3
  <2>2. \A i \in 1..n : f[i] \in P
    BY <1>1, <2>1
  <2>3. \A i, j \in 1..n : f[i] = f[j] => i = j
    <3> SUFFICES ASSUME NEW i \in 1..n, NEW j \in 1..n, f[i] = f[j]
                 PROVE  i = j
      OBVIOUS
    <3>1. PooledAt(i - 1) = PooledAt(j - 1)
      BY <2>1
    <3>2. i - 1 = j - 1
      BY <2>1, <3>1 DEF PoolShape
    <3> QED
      BY <1>3, <3>2
  <2>4. \A p \in P : \E i \in 1..n : f[i] = p
    <3> SUFFICES ASSUME NEW p \in P
                 PROVE  \E i \in 1..n : f[i] = p
      OBVIOUS
    <3>1. PICK i \in 0..(n - 1) : p = PooledAt(i)
      BY <1>1
    <3>2. i + 1 \in 1..n /\ (i + 1) - 1 = i
      BY <1>3
    <3> QED
      BY <3>1, <3>2
  <2>5. f \in [1..n -> P]
    BY <2>2
  <2> HIDE DEF f, n, P
  <2> QED
    BY <2>3, <2>4, <2>5 DEF Bijection, Injection, IsInjective, Surjection
<1>5. IsFiniteSet(1..n) /\ Cardinality(1..n) = n
  <2> HIDE DEF n
  <2>1. 1 \in Int /\ n \in Int
    BY <1>3
  <2>2. IsFiniteSet(1..n) /\ Cardinality(1..n) = IF 1 > n THEN 0 ELSE n - 1 + 1
    BY <2>1, FS_Interval
  <2> QED
    BY <1>3, <2>2
<1>6. ExistsBijection(1..n, P)
  BY <1>4 DEF ExistsBijection
<1> HIDE DEF n, P
<1>7. IsFiniteSet(P) /\ Cardinality(P) = n
  BY <1>5, <1>6, FS_Bijection
<1> QED
  BY <1>1, <1>2, <1>7 DEF n, P

LEMMA PoolTake ==
  ASSUME TypeOK, PoolShape, pool.count > 0, TakeFromPool
  PROVE  /\ PoolShape'
         /\ pool.slot[pool.Rp] \in Pooled
         /\ Pooled' = Pooled \ {pool.slot[pool.Rp]}
         /\ pool' \in [slot : [0..(PoolSize - 1) -> Checkpoints \cup {None}],
                       Rp : 0..(PoolSize - 1), Wp : 0..(PoolSize - 1),
                       count : 0..PoolSize, full : BOOLEAN]
<1> DEFINE n == pool.count
           r == pool.Rp
<1>1. n \in 1..PoolSize /\ r \in 0..(PoolSize - 1) /\ PoolSize \in Nat \ {0}
  BY PoolTypes
<1>2. /\ pool'.Wp = pool.Wp /\ pool'.count = n - 1 /\ pool'.full = FALSE
      /\ pool'.Rp = PoolNext(r) /\ pool'.slot = [pool.slot EXCEPT ![r] = None]
  BY PoolTypes DEF TakeFromPool
<1>3. PoolNext(r) = (IF r + 1 < PoolSize THEN r + 1 ELSE r + 1 - PoolSize)
      /\ PoolNext(r) \in 0..(PoolSize - 1)
  <2>1. 1 \in 0..PoolSize
    BY <1>1
  <2> HIDE DEF r
  <2> QED
    BY <1>1, <2>1, RingPlace DEF PoolNext
<1>4. ASSUME NEW i \in 0..(n - 2)
      PROVE  PooledAt(i)' = PooledAt(i + 1) /\ i + 1 \in 0..(n - 1)
  <2> DEFINE q == PoolNext(r)
             p == (q + i) % PoolSize
             p1 == (r + (i + 1)) % PoolSize
  <2>1. i \in 0..PoolSize /\ i + 1 \in 0..PoolSize /\ i + 1 \in 0..(n - 1)
    BY <1>1, <1>4
  <2>2. p = (IF q + i < PoolSize THEN q + i ELSE q + i - PoolSize) /\ p \in 0..(PoolSize - 1)
    BY <1>3, <2>1, RingPlace
  <2>3. p1 = IF r + (i + 1) < PoolSize THEN r + (i + 1) ELSE r + (i + 1) - PoolSize
    BY <1>1, <2>1, RingPlace
  <2>4. p = p1 /\ p # r
    <3> HIDE DEF p, p1, q, r, n
    <3>1. q = (IF r + 1 < PoolSize THEN r + 1 ELSE r + 1 - PoolSize)
      BY <1>3 DEF q
    <3> QED
      BY <1>1, <2>1, <2>2, <2>3, <3>1
  <2>5. PooledAt(i)' = pool'.slot[p]
    BY <1>2 DEF PooledAt
  <2>6. PooledAt(i + 1) = pool.slot[p1]
    BY DEF PooledAt
  <2>7. pool'.slot[p] = pool.slot[p]
    BY <1>2, <2>2, <2>4, PoolTypes
  <2> QED
    BY <2>1, <2>4, <2>5, <2>6, <2>7
<1>5. PooledAt(0) = pool.slot[r] /\ 0 \in 0..(n - 1)
  <2>1. (r + 0) % PoolSize = r
    BY <1>1, RingPlace
  <2> QED
    BY <1>1, <2>1 DEF PooledAt
<1>6. pool'.Wp = (pool'.Rp + pool'.count) % PoolSize
  <2> DEFINE q == PoolNext(r)
  <2>1. pool.Wp = (r + n) % PoolSize
    BY DEF PoolShape
  <2>5. n \in 0..PoolSize /\ n - 1 \in 0..PoolSize
    BY <1>1
  <2>2. (r + n) % PoolSize = IF r + n < PoolSize THEN r + n ELSE r + n - PoolSize
    BY <1>1, <2>5, RingPlace
  <2>3. (q + (n - 1)) % PoolSize = IF q + (n - 1) < PoolSize THEN q + (n - 1) ELSE q + (n - 1) - PoolSize
    BY <1>3, <2>5, RingPlace
  <2>4. (q + (n - 1)) % PoolSize = (r + n) % PoolSize
    <3>1. q = (IF r + 1 < PoolSize THEN r + 1 ELSE r + 1 - PoolSize)
      BY <1>3
    <3> HIDE DEF q, r, n
    <3> QED
      BY <1>1, <2>2, <2>3, <3>1
  <2> QED
    BY <1>2, <2>1, <2>4
<1>7. (pool'.count - 1) = n - 2 /\ n - 1 # PoolSize /\ n - 1 \in 0..PoolSize
  BY <1>1, <1>2
<1>8. PoolShape'
  <2>1. \A i \in 0..(n - 2) : PooledAt(i)' \in Checkpoints
    BY <1>4 DEF PoolShape
  <2>2. ASSUME NEW i \in 0..(n - 2), NEW j \in 0..(n - 2), PooledAt(i)' = PooledAt(j)'
        PROVE  i = j
    <3>1. PooledAt(i + 1) = PooledAt(j + 1) /\ i + 1 \in 0..(n - 1) /\ j + 1 \in 0..(n - 1)
      BY <1>4, <2>2
    <3>2. i + 1 = j + 1
      BY <3>1 DEF PoolShape
    <3> QED
      BY <1>1, <3>2
  <2>3. (pool.full <=> pool.count = PoolSize)'
    BY <1>2, <1>7
  <2> HIDE DEF n
  <2> QED
    BY <1>6, <1>7, <2>1, <2>2, <2>3 DEF PoolShape
<1>9. Pooled' = {PooledAt(i)' : i \in 0..(n - 2)}
  BY <1>7 DEF Pooled, PooledAt
<1>10. Pooled = {PooledAt(i) : i \in 0..(n - 1)}
  BY PooledIs
<1>11. Pooled' = Pooled \ {pool.slot[r]}
  <2>1. ASSUME NEW x \in Pooled'
        PROVE  x \in Pooled /\ x # pool.slot[r]
    <3>1. PICK i \in 0..(n - 2) : x = PooledAt(i)'
      BY <1>9
    <3>2. x = PooledAt(i + 1) /\ i + 1 \in 0..(n - 1)
      BY <1>4, <3>1
    <3>3. i + 1 # 0
      BY <1>1
    <3>4. PooledAt(i + 1) # PooledAt(0)
      BY <1>5, <3>2, <3>3 DEF PoolShape
    <3> QED
      BY <1>5, <1>10, <3>2, <3>4
  <2>2. ASSUME NEW x \in Pooled, x # pool.slot[r]
        PROVE  x \in Pooled'
    <3>1. PICK i \in 0..(n - 1) : x = PooledAt(i)
      BY <1>10
    <3>2. i # 0
      BY <1>5, <2>2, <3>1
    <3>3. i - 1 \in 0..(n - 2) /\ (i - 1) + 1 = i
      BY <1>1, <3>2
    <3>4. PooledAt(i - 1)' = PooledAt(i)
      BY <1>4, <3>3
    <3> QED
      BY <1>9, <3>1, <3>3, <3>4
  <2> QED
    BY <2>1, <2>2
<1>12. pool' \in [slot : [0..(PoolSize - 1) -> Checkpoints \cup {None}],
                  Rp : 0..(PoolSize - 1), Wp : 0..(PoolSize - 1),
                  count : 0..PoolSize, full : BOOLEAN]
  <2>1. [pool.slot EXCEPT ![r] = None] \in [0..(PoolSize - 1) -> Checkpoints \cup {None}]
    BY PoolTypes
  <2>2. pool' = [slot |-> [pool.slot EXCEPT ![r] = None], Rp |-> PoolNext(r), Wp |-> pool.Wp,
                 count |-> n - 1, full |-> FALSE]
    BY PoolTypes DEF TakeFromPool
  <2> QED
    BY <1>3, <1>7, <2>1, <2>2, PoolTypes
<1> QED
  BY <1>5, <1>8, <1>10, <1>11, <1>12

LEMMA PoolPut ==
  ASSUME NEW c \in Checkpoints, TypeOK, PoolShape, ~pool.full, c \notin Pooled, PutInPool(c)
  PROVE  /\ PoolShape'
         /\ Pooled' = Pooled \cup {c}
         /\ pool' \in [slot : [0..(PoolSize - 1) -> Checkpoints \cup {None}],
                       Rp : 0..(PoolSize - 1), Wp : 0..(PoolSize - 1),
                       count : 0..PoolSize, full : BOOLEAN]
<1> DEFINE n == pool.count
           r == pool.Rp
           w == pool.Wp
<1>1. /\ n \in 0..PoolSize /\ r \in 0..(PoolSize - 1) /\ w \in 0..(PoolSize - 1)
      /\ PoolSize \in Nat \ {0}
  BY PoolTypes
<1>2. n \in 0..(PoolSize - 1)
  BY <1>1 DEF PoolShape
<1>3. w = (r + n) % PoolSize
  BY DEF PoolShape
<1>4. w = IF r + n < PoolSize THEN r + n ELSE r + n - PoolSize
  BY <1>1, <1>3, RingPlace
<1>5. PoolNext(w) = (IF w + 1 < PoolSize THEN w + 1 ELSE w + 1 - PoolSize)
      /\ PoolNext(w) \in 0..(PoolSize - 1)
  <2>1. 1 \in 0..PoolSize
    BY <1>1
  <2> HIDE DEF w
  <2> QED
    BY <1>1, <2>1, RingPlace DEF PoolNext
<1>6. /\ pool' = [slot |-> [pool.slot EXCEPT ![w] = c], Rp |-> r, Wp |-> PoolNext(w),
                  count |-> n + 1, full |-> pool.full \/ PoolNext(w) = r]
  BY PoolTypes DEF PutInPool
<1>7. pool'.slot = [pool.slot EXCEPT ![w] = c] /\ pool'.Rp = r /\ pool'.Wp = PoolNext(w)
      /\ pool'.count = n + 1 /\ pool'.full = (pool.full \/ PoolNext(w) = r)
  BY <1>6
<1>8. n + 1 \in 0..PoolSize /\ pool'.count - 1 = n
  BY <1>1, <1>2, <1>7
<1>9. ASSUME NEW i \in 0..(n - 1)
      PROVE  PooledAt(i)' = PooledAt(i)
  <2> DEFINE p == (r + i) % PoolSize
  <2>1. i \in 0..PoolSize
    BY <1>1, <1>2
  <2>2. p = (IF r + i < PoolSize THEN r + i ELSE r + i - PoolSize) /\ p \in 0..(PoolSize - 1)
    BY <1>1, <2>1, RingPlace
  <2>3. p # w
    <3> HIDE DEF p, r, n, w
    <3> QED
      BY <1>1, <1>2, <1>4, <2>2
  <2>4. PooledAt(i)' = pool'.slot[p] /\ PooledAt(i) = pool.slot[p]
    BY <1>7 DEF PooledAt
  <2> QED
    BY <1>7, <2>2, <2>3, <2>4, PoolTypes
<1>10. ASSUME NEW m, m = n
       PROVE  PooledAt(m)' = c
  <2>1. PooledAt(m)' = pool'.slot[w]
    BY <1>3, <1>7, <1>10 DEF PooledAt
  <2> QED
    BY <1>1, <1>7, <2>1, PoolTypes
<1>11. (pool.full <=> pool.count = PoolSize)'
  <2>1. PoolNext(w) = r <=> n + 1 = PoolSize
    <3> HIDE DEF r, n, w
    <3> QED
      BY <1>1, <1>2, <1>4, <1>5
  <2> QED
    BY <1>7, <2>1
<1>12. pool'.Wp = (pool'.Rp + pool'.count) % PoolSize
  <2>1. (r + (n + 1)) % PoolSize =
          IF r + (n + 1) < PoolSize THEN r + (n + 1) ELSE r + (n + 1) - PoolSize
    BY <1>1, <1>8, RingPlace
  <2>2. PoolNext(w) = (r + (n + 1)) % PoolSize
    <3> DEFINE z == (r + (n + 1)) % PoolSize
    <3>1. z = IF r + (n + 1) < PoolSize THEN r + (n + 1) ELSE r + (n + 1) - PoolSize
      BY <2>1
    <3> HIDE DEF r, n, w, z
    <3>2. PoolNext(w) = z
      BY <1>1, <1>2, <1>4, <1>5, <3>1
    <3> QED
      BY <3>2 DEF z
  <2> QED
    BY <1>7, <2>2
<1>13. \A i \in 0..n : i = n \/ i \in 0..(n - 1)
  BY <1>1
<1>14. Pooled = {PooledAt(i) : i \in 0..(n - 1)}
  BY PooledIs
<1>15. Pooled' = {PooledAt(i)' : i \in 0..n}
  BY <1>8 DEF Pooled, PooledAt
<1>16. (\E m \in 0..n : m = n) /\ \A i \in 0..(n - 1) : i \in 0..n
  BY <1>1
<1>17. Pooled' = Pooled \cup {c}
  <2> HIDE DEF n
  <2>1. ASSUME NEW x \in Pooled'
        PROVE  x \in Pooled \cup {c}
    <3>1. PICK i \in 0..n : x = PooledAt(i)'
      BY <1>15
    <3> QED
      BY <1>9, <1>10, <1>13, <1>14, <3>1
  <2>2. ASSUME NEW x \in Pooled
        PROVE  x \in Pooled'
    <3>1. PICK i \in 0..(n - 1) : x = PooledAt(i)
      BY <1>14
    <3> QED
      BY <1>9, <1>15, <1>16, <3>1
  <2>3. c \in Pooled'
    BY <1>10, <1>15, <1>16
  <2> QED
    BY <2>1, <2>2, <2>3
<1>18. PoolShape'
  <2>1. \A i \in 0..n : PooledAt(i)' \in Checkpoints
    BY <1>9, <1>10, <1>13 DEF PoolShape
  <2>2. ASSUME NEW i \in 0..n, NEW j \in 0..n, PooledAt(i)' = PooledAt(j)'
        PROVE  i = j
    <3>1. CASE i = n
      <4>1. CASE j \in 0..(n - 1)
        <5>1. PooledAt(j) = c /\ PooledAt(j) \in Pooled
          BY <1>9, <1>10, <1>14, <2>2, <3>1, <4>1
        <5> QED
          BY <5>1
      <4> QED
        BY <1>13, <3>1, <4>1
    <3>2. CASE i \in 0..(n - 1)
      <4>1. CASE j = n
        <5>1. PooledAt(i) = c /\ PooledAt(i) \in Pooled
          BY <1>9, <1>10, <1>14, <2>2, <3>2, <4>1
        <5> QED
          BY <5>1
      <4>2. CASE j \in 0..(n - 1)
        <5>1. PooledAt(i) = PooledAt(j)
          BY <1>9, <2>2, <3>2, <4>2
        <5> QED
          BY <3>2, <4>2, <5>1 DEF PoolShape
      <4> QED
        BY <1>13, <4>1, <4>2
    <3> QED
      BY <1>13, <3>1, <3>2
  <2> HIDE DEF n
  <2> QED
    BY <1>8, <1>11, <1>12, <2>1, <2>2 DEF PoolShape
<1>19. pool' \in [slot : [0..(PoolSize - 1) -> Checkpoints \cup {None}],
                  Rp : 0..(PoolSize - 1), Wp : 0..(PoolSize - 1),
                  count : 0..PoolSize, full : BOOLEAN]
  <2>1. [pool.slot EXCEPT ![w] = c] \in [0..(PoolSize - 1) -> Checkpoints \cup {None}]
    BY PoolTypes
  <2>2. (pool.full \/ PoolNext(w) = r) \in BOOLEAN
    OBVIOUS
  <2> HIDE DEF n, r, w
  <2>3. r \in 0..(PoolSize - 1)
    BY <1>1
  <2> QED
    BY <1>5, <1>6, <1>8, <2>1, <2>2, <2>3, Zenon
<1> QED
  BY <1>17, <1>18, <1>19

(* _CleanCheckpointPool takes them all.                                    *)
LEMMA PoolEmptied ==
  ASSUME TypeOK, PoolShape, CleanPool
  PROVE  /\ PoolShape' /\ Pooled' = {}
         /\ pool' \in [slot : [0..(PoolSize - 1) -> Checkpoints \cup {None}],
                       Rp : 0..(PoolSize - 1), Wp : 0..(PoolSize - 1),
                       count : 0..PoolSize, full : BOOLEAN]
<1>1. /\ pool.Rp \in 0..(PoolSize - 1) /\ pool.count \in 0..PoolSize /\ PoolSize \in Nat \ {0}
      /\ pool.slot \in [0..(PoolSize - 1) -> Checkpoints \cup {None}]
  BY PoolTypes
<1> DEFINE q == (pool.Rp + pool.count) % PoolSize
<1>2. q \in 0..(PoolSize - 1) /\ pool.Wp = q
  BY <1>1, RingPlace DEF PoolShape
<1>3. ~(pool.full /\ pool.count = 0)
  BY <1>1 DEF PoolShape
<1>4. pool' = [slot |-> pool.slot, Rp |-> q, Wp |-> pool.Wp, count |-> 0, full |-> FALSE]
  BY <1>3, PoolTypes DEF CleanPool
<1>5. /\ pool'.slot = pool.slot /\ pool'.Rp = q /\ pool'.Wp = q /\ pool'.count = 0
      /\ pool'.full = FALSE
  BY <1>2, <1>4
<1> HIDE DEF q
<1>6. (q + 0) % PoolSize = q
  <2>1. 0 \in 0..PoolSize
    BY <1>1
  <2>2. (q + 0) % PoolSize = IF q + 0 < PoolSize THEN q + 0 ELSE q + 0 - PoolSize
    BY <1>2, <2>1, RingPlace
  <2> QED
    BY <1>1, <1>2, <2>2
<1>7. 0..(pool'.count - 1) = {}
  BY <1>5
<1>8. PoolShape'
  <2>1. pool'.Wp = (pool'.Rp + pool'.count) % PoolSize
    BY <1>5, <1>6
  <2>2. (pool.full <=> pool.count = PoolSize)'
    BY <1>1, <1>5
  <2> QED
    BY <1>7, <2>1, <2>2 DEF PoolShape
<1>9. Pooled' = {}
  BY <1>7 DEF Pooled
<1>10. 0 \in 0..PoolSize
  BY <1>1
<1>11. q \in 0..(PoolSize - 1) /\ pool.Wp \in 0..(PoolSize - 1)
  BY <1>2
<1> QED
  BY <1>1, <1>4, <1>8, <1>9, <1>10, <1>11

-----------------------------------------------------------------------------
(* What is finite, and the limits of the counts. *)

LEMMA FiniteFacts ==
  /\ IsFiniteSet(Checkpoints) /\ IsFiniteSet(Kickers) /\ IsFiniteSet(Threads)
  /\ Cardinality(Checkpoints) \in Nat /\ Cardinality(Kickers) \in Nat
  /\ Cardinality(Threads) = Cardinality(Kickers) + 2
  /\ Misr \in Threads /\ Unbind \in Threads /\ Misr # Unbind /\ Misr \notin Kickers
  /\ Unbind \notin Kickers /\ \A k \in Kickers : k \in Threads
  /\ None \notin Checkpoints
<1>1. /\ IsFiniteSet(Checkpoints) /\ IsFiniteSet(Kickers) /\ Misr \notin Kickers
      /\ Unbind \notin Kickers /\ Misr # Unbind /\ None \notin Checkpoints
  BY CheckpointsAssumption
<1>2. Cardinality(Checkpoints) \in Nat /\ Cardinality(Kickers) \in Nat
  BY <1>1, FS_CardinalityType
<1> DEFINE M == Kickers \cup {Misr}
<1>3. IsFiniteSet(M) /\ Cardinality(M) = Cardinality(Kickers) + 1
  BY <1>1, FS_AddElement
<1>4. Unbind \notin M /\ Threads = M \cup {Unbind}
  BY <1>1 DEF Threads
<1> HIDE DEF M
<1>5. IsFiniteSet(M \cup {Unbind}) /\ Cardinality(M \cup {Unbind}) = Cardinality(M) + 1
  BY <1>3, <1>4, FS_AddElement
<1> QED
  BY <1>1, <1>2, <1>3, <1>4, <1>5 DEF Threads

(* Adding one to a set, or taking one out.                                 *)
LEMMA OneMore ==
  ASSUME NEW U, NEW S \in SUBSET U, NEW x, IsFiniteSet(U), x \notin S
  PROVE  Cardinality(S \cup {x}) = Cardinality(S) + 1 /\ Cardinality(S) \in Nat
BY FS_Subset, FS_AddElement, FS_CardinalityType

LEMMA OneLess ==
  ASSUME NEW U, NEW S \in SUBSET U, NEW x \in S, IsFiniteSet(U)
  PROVE  Cardinality(S \ {x}) = Cardinality(S) - 1 /\ Cardinality(S) \in Nat \ {0}
<1>1. IsFiniteSet(S)
  BY FS_Subset
<1>2. Cardinality(S) \in Nat /\ Cardinality(S) # 0
  BY <1>1, FS_CardinalityType, FS_EmptySet
<1> QED
  BY <1>1, <1>2, FS_RemoveElement

LEMMA AtMost ==
  ASSUME NEW U, NEW S \in SUBSET U, IsFiniteSet(U)
  PROVE  Cardinality(S) \in Nat /\ Cardinality(S) <= Cardinality(U) /\ Cardinality(U) \in Nat
BY FS_Subset, FS_CardinalityType

LEMMA Ranges ==
  ASSUME Typed, RefsCounted, ContextCounts, EnqueuedBounds
  PROVE  TypeOK
<1>1. ASSUME NEW c \in Checkpoints
      PROVE  /\ chk[c].hRefCount \in 0..(Cardinality(Kickers) + 1)
             /\ chk[c].hEnqueuedCCBCount \in 0..(MaxEnqueued + Cardinality(Kickers))
  <2>1. Cardinality(Inputs(c)) \in Nat /\ Cardinality(Inputs(c)) <= Cardinality(Kickers)
        /\ Cardinality(Kickers) \in Nat
    <3>1. Inputs(c) \in SUBSET Kickers
      BY DEF Inputs
    <3> QED
      BY <3>1, FiniteFacts, AtMost
  <2>2. Cardinality(Appending(c)) \in Nat
    <3>1. Appending(c) \in SUBSET Kickers
      BY DEF Appending
    <3> QED
      BY <3>1, FiniteFacts, AtMost
  <2>3. Cardinality(Appended(c)) \in Nat
    <3>1. Appended(c) \in SUBSET Kickers
      BY DEF Appended
    <3> QED
      BY <3>1, FiniteFacts, AtMost
  <2>4. Created(c) \in {0, 1}
    BY DEF Created
  <2>5. chk[c].hRefCount = Cardinality(Inputs(c)) + Created(c)
    BY DEF RefsCounted
  <2>6. /\ chk[c].hEnqueuedCCBCount + Cardinality(Appending(c)) <= MaxEnqueued - 1 + Cardinality(Kickers)
        /\ chk[c].hEnqueuedCCBCount >= Cardinality(Appended(c))
        /\ chk[c].hEnqueuedCCBCount \in Int /\ MaxEnqueued \in Nat
    BY CheckpointsAssumption DEF EnqueuedBounds, Typed
  <2> QED
    BY <2>1, <2>2, <2>3, <2>4, <2>5, <2>6
<1>2. chk \in [Checkpoints -> [hRefCount : 0..(Cardinality(Kickers) + 1),
                               hEnqueuedCCBCount : 0..(MaxEnqueued + Cardinality(Kickers)),
                               ui32FwRefCount : Nat,
                               ui32State : {"UNDEF", "ACTIVE", "SIGNALLED"},
                               listed : BOOLEAN]]
  BY <1>1 DEF Typed
<1>3. ctx.hRefCount \in 0..(Cardinality(Threads) + 2)
  <2>1. Cardinality(Calls) \in Nat /\ Cardinality(Calls) <= Cardinality(Threads)
        /\ Cardinality(Threads) \in Nat
    <3>1. Calls \in SUBSET Threads
      BY DEF Calls
    <3> QED
      BY <3>1, FiniteFacts, AtMost
  <2>2. PICK b \in {0, 1} : b = IF ctx.block THEN 1 ELSE 0
    OBVIOUS
  <2>3. ctx.hRefCount \in Int /\ ctx.hRefCount - Cardinality(Calls) - b \in {0, 1}
    BY <2>2 DEF Typed, ContextCounts, Owner
  <2> QED
    BY <2>1, <2>2, <2>3
<1>4. ctx.hCheckpointCount \in 0..(Cardinality(Checkpoints) + Cardinality(Threads))
  <2>1. /\ Cardinality(Counting) \in Nat /\ Cardinality(Counting) <= Cardinality(Threads)
        /\ Cardinality(Threads) \in Nat
    <3>1. Counting \in SUBSET Threads
      BY DEF Counting
    <3> QED
      BY <3>1, FiniteFacts, AtMost
  <2>2. /\ Cardinality(allocated) \in Nat /\ Cardinality(allocated) <= Cardinality(Checkpoints)
        /\ Cardinality(Checkpoints) \in Nat
    BY FiniteFacts, AtMost DEF Typed
  <2> QED
    BY <2>1, <2>2 DEF ContextCounts
<1>5. ctx \in [live : BOOLEAN, block : BOOLEAN, hRefCount : 0..(Cardinality(Threads) + 2),
               hCheckpointCount : 0..(Cardinality(Checkpoints) + Cardinality(Threads))]
  BY <1>3, <1>4 DEF Typed
<1> QED
  BY <1>2, <1>5 DEF Typed, TypeOK

LEMMA Limits ==
  ASSUME TypeOK
  PROVE  Typed
<1>1. Cardinality(Kickers) \in Nat /\ Cardinality(Threads) \in Nat
      /\ Cardinality(Checkpoints) \in Nat /\ MaxEnqueued \in Nat
  BY FiniteFacts, CheckpointsAssumption
<1> DEFINE A == 0..(Cardinality(Kickers) + 1)
           B == 0..(MaxEnqueued + Cardinality(Kickers))
           C == 0..(Cardinality(Threads) + 2)
           D == 0..(Cardinality(Checkpoints) + Cardinality(Threads))
<1>2. A \subseteq Int /\ B \subseteq Int /\ C \subseteq Int /\ D \subseteq Int
  BY <1>1
<1>3. /\ chk \in [Checkpoints -> [hRefCount : A, hEnqueuedCCBCount : B, ui32FwRefCount : Nat,
                                  ui32State : {"UNDEF", "ACTIVE", "SIGNALLED"},
                                  listed : BOOLEAN]]
      /\ ctx \in [live : BOOLEAN, block : BOOLEAN, hRefCount : C, hCheckpointCount : D]
  BY DEF TypeOK
<1> HIDE DEF A, B, C, D
<1>4. /\ chk \in [Checkpoints -> [hRefCount : Int, hEnqueuedCCBCount : Int, ui32FwRefCount : Nat,
                                  ui32State : {"UNDEF", "ACTIVE", "SIGNALLED"},
                                  listed : BOOLEAN]]
      /\ ctx \in [live : BOOLEAN, block : BOOLEAN, hRefCount : Int, hCheckpointCount : Int]
  BY <1>2, <1>3
<1> QED
  BY <1>4 DEF TypeOK, Typed

-----------------------------------------------------------------------------
(* What Alloc and Unref find and leave. *)

ThreadType == [pc : Stages, work : SUBSET Checkpoints, after : Stages]

LEMMA ThreadFits ==
  ASSUME TypeOK
  PROVE  /\ th \in [Threads -> ThreadType]
         /\ \A t \in Threads : /\ th[t].pc \in Stages /\ th[t].work \subseteq Checkpoints
                               /\ th[t].after \in Stages
BY DEF TypeOK, ThreadType

LEMMA ReleasedFits ==
  ASSUME NEW t \in Threads, NEW list \in SUBSET Checkpoints, NEW after \in Stages, TypeOK
  PROVE  /\ Release(t, list, after) \in ThreadType
         /\ Release(t, list, after).pc = IF list = {} THEN after ELSE "reclaim"
         /\ Release(t, list, after).work = list
         /\ Release(t, list, after).after = after
<1>1. th[t] \in ThreadType
  BY ThreadFits
<1>2. "reclaim" \in Stages
  BY DEF Stages
<1> QED
  BY <1>1, <1>2 DEF Release, ThreadType

(* Whatever has a reference is allocated, and in none of the places.       *)
LEMMA Referenced ==
  ASSUME NEW c \in Checkpoints, IInv, chk[c].hRefCount > 0
  PROVE  /\ c \in allocated /\ c \notin Pooled /\ c \notin deferred /\ chk[c].listed
         /\ \A t \in Threads : c \notin Releasing(t)
<1>1. InUse(c)
  BY DEF IInv, LivingInUse, Living
<1>2. chk[c].hRefCount # 0
  OBVIOUS
<1> QED
  BY <1>1, <1>2 DEF IInv, Places, InUse

(* The counts of a checkpoint that has none.                               *)
LEMMA Unreferenced ==
  ASSUME NEW c \in Checkpoints, IInv, chk[c].hRefCount = 0
  PROVE  fence[c] = "none" /\ Inputs(c) = {} /\ Outputs(c) = {}
<1>1. IsFiniteSet(Inputs(c))
  <2>1. Inputs(c) \in SUBSET Kickers
    BY DEF Inputs
  <2> QED
    BY <2>1, FiniteFacts, FS_Subset
<1>2. Cardinality(Inputs(c)) \in Nat
  BY <1>1, FS_CardinalityType
<1>3. Cardinality(Inputs(c)) = 0 /\ Created(c) = 0
  BY <1>2 DEF IInv, RefsCounted, Created
<1>4. Inputs(c) = {}
  BY <1>1, <1>3, FS_EmptySet
<1> QED
  BY <1>3, <1>4 DEF Created

LEMMA HasReference ==
  ASSUME NEW c \in Checkpoints, IInv, fence[c] # "none" \/ Inputs(c) # {} \/ Outputs(c) # {}
  PROVE  chk[c].hRefCount > 0 /\ chk[c].hRefCount \in Int
<1>1. chk[c].hRefCount # 0
  BY Unreferenced
<1>2. chk[c].hRefCount \in 0..(Cardinality(Kickers) + 1) /\ Cardinality(Kickers) \in Nat
  BY FiniteFacts DEF IInv, TypeOK
<1> QED
  BY <1>1, <1>2

PoolType == [slot : [0..(PoolSize - 1) -> Checkpoints \cup {None}],
             Rp : 0..(PoolSize - 1), Wp : 0..(PoolSize - 1),
             count : 0..PoolSize, full : BOOLEAN]

LEMMA AllocTakes ==
  ASSUME NEW c \in Checkpoints, NEW refs, IInv, Alloc(c, refs)
  PROVE  /\ chk[c].hRefCount = 0 /\ c \notin deferred
         /\ \A t \in Threads : c \notin Releasing(t)
         /\ fence[c] = "none" /\ Inputs(c) = {} /\ Outputs(c) = {}
         /\ PoolShape' /\ pool' \in PoolType /\ Pooled' = Pooled \ {c}
         /\ allocated' = allocated \cup {c} /\ deferred' = deferred
<1>1. TypeOK /\ PoolShape /\ Places
  BY DEF IInv
<1>2. deferred' = deferred
  BY DEF Alloc
<1>3. CASE pool.count > 0 /\ c = pool.slot[pool.Rp] /\ TakeFromPool /\ allocated' = allocated
  <2>1. PoolShape' /\ c \in Pooled /\ Pooled' = Pooled \ {c} /\ pool' \in PoolType
    BY <1>1, <1>3, PoolTake DEF PoolType
  <2>2. chk[c].hRefCount = 0 /\ c \in allocated /\ c \notin deferred
        /\ \A t \in Threads : c \notin Releasing(t)
    BY <1>1, <2>1 DEF Places
  <2>3. fence[c] = "none" /\ Inputs(c) = {} /\ Outputs(c) = {}
    BY <2>2, Unreferenced
  <2> QED
    BY <1>2, <1>3, <2>1, <2>2, <2>3
<1>4. CASE c \notin allocated /\ allocated' = allocated \cup {c} /\ pool' = pool
  <2>1. PoolShape' /\ Pooled' = Pooled /\ pool' \in PoolType
    BY <1>1, <1>4 DEF PoolShape, PooledAt, Pooled, TypeOK, PoolType
  <2>2. ~(chk[c].hRefCount > 0)
    BY <1>4, Referenced
  <2>3. chk[c].hRefCount \in 0..(Cardinality(Kickers) + 1) /\ Cardinality(Kickers) \in Nat
    BY <1>1, FiniteFacts DEF TypeOK
  <2>4. chk[c].hRefCount = 0
    BY <2>2, <2>3
  <2>5. c \notin deferred /\ c \notin Pooled /\ \A t \in Threads : c \notin Releasing(t)
    BY <1>1, <1>4 DEF Places
  <2>6. fence[c] = "none" /\ Inputs(c) = {} /\ Outputs(c) = {}
    BY <2>4, Unreferenced
  <2> QED
    BY <1>2, <1>4, <2>1, <2>4, <2>5, <2>6
<1> QED
  BY <1>3, <1>4 DEF Alloc

LEMMA UnrefMoves ==
  ASSUME NEW t \in Threads, NEW c \in Checkpoints, IInv, Unref(t, c), chk[c].hRefCount > 0
  PROVE  /\ th' = [th EXCEPT ![t] = th'[t]] /\ th'[t] \in ThreadType
         /\ th'[t].after = "check"
         /\ th'[t].work = IF chk[c].hRefCount = 1 THEN {c} ELSE {}
         /\ th'[t].pc = IF chk[c].hRefCount # 1 THEN "check"
                        ELSE IF Serviced(c) THEN "reclaim" ELSE "defer"
         /\ chk' = [chk EXCEPT ![c].hRefCount = @ - 1]
         /\ UNCHANGED <<allocated, pool, deferred>> /\ ctx' = ContextRef(ctx)
<1> DEFINE r == CASE chk[c].hRefCount # 1 -> Release(t, {}, "check")
                  [] chk[c].hRefCount = 1 /\ Serviced(c) -> Release(t, {c}, "check")
                  [] OTHER -> [Release(t, {c}, "check") EXCEPT !.pc = "defer"]
<1>1. TypeOK
  BY DEF IInv
<1>2. "check" \in Stages /\ "defer" \in Stages /\ {} \in SUBSET Checkpoints
      /\ {c} \in SUBSET Checkpoints
  BY DEF Stages
<1>3. /\ Release(t, {}, "check") \in ThreadType /\ Release(t, {}, "check").pc = "check"
      /\ Release(t, {}, "check").work = {} /\ Release(t, {}, "check").after = "check"
  BY <1>1, <1>2, ReleasedFits
<1>4. /\ Release(t, {c}, "check") \in ThreadType /\ Release(t, {c}, "check").pc = "reclaim"
      /\ Release(t, {c}, "check").work = {c} /\ Release(t, {c}, "check").after = "check"
  BY <1>1, <1>2, ReleasedFits
<1>5. th' = [th EXCEPT ![t] = r] /\ th \in [Threads -> ThreadType]
  BY <1>1, ThreadFits DEF Unref
<1>6. /\ r \in ThreadType /\ r.after = "check"
      /\ r.work = IF chk[c].hRefCount = 1 THEN {c} ELSE {}
      /\ r.pc = IF chk[c].hRefCount # 1 THEN "check"
                ELSE IF Serviced(c) THEN "reclaim" ELSE "defer"
  <2>1. CASE chk[c].hRefCount # 1
    <3>1. r = Release(t, {}, "check")
      BY <2>1
    <3> QED
      BY <1>3, <2>1, <3>1
  <2>2. CASE chk[c].hRefCount = 1 /\ Serviced(c)
    <3>1. r = Release(t, {c}, "check")
      BY <2>2
    <3> QED
      BY <1>4, <2>2, <3>1
  <2>3. CASE chk[c].hRefCount = 1 /\ ~Serviced(c)
    <3>1. r = [Release(t, {c}, "check") EXCEPT !.pc = "defer"]
      BY <2>3
    <3> HIDE DEF r
    <3> QED
      BY <1>2, <1>4, <2>3, <3>1 DEF ThreadType
  <2> QED
    BY <2>1, <2>2, <2>3
<1> HIDE DEF r
<1>7. th'[t] = r /\ th' = [th EXCEPT ![t] = th'[t]]
  BY <1>5
<1>8. chk' = [chk EXCEPT ![c].hRefCount = @ - 1]
  <2>1. chk[c].hRefCount # 0
    OBVIOUS
  <2> QED
    BY <2>1 DEF Unref
<1> QED
  BY <1>6, <1>7, <1>8 DEF Unref

-----------------------------------------------------------------------------
(* Where each action leaves the thread that takes it.                      *)

Moved(t) == /\ th' \in [Threads -> ThreadType]
            /\ \A u \in Threads \ {t} : th'[u] = th[u]

LEMMA Goes ==
  ASSUME NEW t \in Threads, NEW stage \in Stages, TypeOK, Goto(t, stage)
  PROVE  /\ Moved(t) /\ th'[t].pc = stage /\ th'[t].work = th[t].work
         /\ th'[t].after = th[t].after
<1>1. th \in [Threads -> ThreadType]
  BY ThreadFits
<1>2. th' = [th EXCEPT ![t] = [th[t] EXCEPT !.pc = stage]]
  BY <1>1 DEF Goto
<1>3. th[t] \in ThreadType
  BY <1>1
<1>4. [th[t] EXCEPT !.pc = stage] \in ThreadType
  BY <1>3 DEF ThreadType
<1>5. /\ [th[t] EXCEPT !.pc = stage].pc = stage
      /\ [th[t] EXCEPT !.pc = stage].work = th[t].work
      /\ [th[t] EXCEPT !.pc = stage].after = th[t].after
  BY <1>3 DEF ThreadType
<1> QED
  BY <1>1, <1>2, <1>4, <1>5 DEF Moved

LEMMA Becomes ==
  ASSUME NEW t \in Threads, NEW r \in ThreadType, TypeOK, th' = [th EXCEPT ![t] = r]
  PROVE  Moved(t) /\ th'[t] = r
BY ThreadFits DEF Moved

LEMMA StageNames ==
  /\ "idle" \in Stages /\ "create" \in Stages /\ "append" \in Stages /\ "schedule" \in Stages
  /\ "rollback" \in Stages /\ "deref" \in Stages /\ "defer" \in Stages /\ "reclaim" \in Stages
  /\ "count" \in Stages /\ "check" \in Stages /\ "leave" \in Stages /\ "pool" \in Stages
  /\ "clean" \in Stages /\ "read" \in Stages /\ "end" \in Stages
BY DEF Stages

LEMMA DeferMoves ==
  ASSUME NEW t \in Threads, TypeOK, Defer(t)
  PROVE  Moved(t) /\ th'[t].pc = "check" /\ th'[t].work = {} /\ th'[t].after = th[t].after
<1>1. th[t] \in ThreadType
  BY ThreadFits
<1> DEFINE r == [th[t] EXCEPT !.pc = "check", !.work = {}]
<1>2. r \in ThreadType /\ r.pc = "check" /\ r.work = {} /\ r.after = th[t].after
  BY <1>1, StageNames DEF ThreadType
<1>3. th' = [th EXCEPT ![t] = r]
  BY DEF Defer
<1> HIDE DEF r
<1> QED
  BY <1>2, <1>3, Becomes

LEMMA ReclaimMoves ==
  ASSUME NEW t \in Threads, NEW c \in Checkpoints, TypeOK, Reclaim(t, c)
  PROVE  /\ Moved(t) /\ th'[t].after = th[t].after /\ th'[t].work = th[t].work \ {c}
         /\ th'[t].pc = IF pool.full THEN "count"
                        ELSE IF th[t].work \ {c} = {} THEN th[t].after ELSE "reclaim"
<1>1. th[t] \in ThreadType /\ th[t].work \ {c} \in SUBSET Checkpoints /\ th[t].after \in Stages
  BY ThreadFits
<1>2. CASE ~pool.full
  <2>1. th' = [th EXCEPT ![t] = Release(t, th[t].work \ {c}, th[t].after)]
    BY <1>2 DEF Reclaim
  <2>2. /\ Release(t, th[t].work \ {c}, th[t].after) \in ThreadType
        /\ Release(t, th[t].work \ {c}, th[t].after).pc
             = IF th[t].work \ {c} = {} THEN th[t].after ELSE "reclaim"
        /\ Release(t, th[t].work \ {c}, th[t].after).work = th[t].work \ {c}
        /\ Release(t, th[t].work \ {c}, th[t].after).after = th[t].after
    BY <1>1, ReleasedFits
  <2>3. Moved(t) /\ th'[t] = Release(t, th[t].work \ {c}, th[t].after)
    BY <2>1, <2>2, Becomes
  <2> QED
    BY <1>2, <2>2, <2>3
<1>3. CASE pool.full
  <2> DEFINE r == [th[t] EXCEPT !.pc = "count", !.work = @ \ {c}]
  <2>1. th' = [th EXCEPT ![t] = r]
    BY <1>3 DEF Reclaim
  <2>2. r \in ThreadType /\ r.pc = "count" /\ r.work = th[t].work \ {c} /\ r.after = th[t].after
    BY <1>1, StageNames DEF ThreadType
  <2> HIDE DEF r
  <2>3. Moved(t) /\ th'[t] = r
    BY <2>1, <2>2, Becomes
  <2> QED
    BY <1>3, <2>2, <2>3
<1> QED
  BY <1>2, <1>3

LEMMA CountMoves ==
  ASSUME NEW t \in Threads, TypeOK, CountFreed(t)
  PROVE  /\ Moved(t) /\ th'[t].work = th[t].work /\ th'[t].after = th[t].after
         /\ th'[t].pc = IF th[t].work = {} THEN th[t].after
                        ELSE IF th[t].after = "read" THEN "clean" ELSE "reclaim"
<1> DEFINE s == IF th[t].work = {} THEN th[t].after
                ELSE IF th[t].after = "read" THEN "clean" ELSE "reclaim"
<1>1. s \in Stages
  BY ThreadFits, StageNames
<1>2. Goto(t, s)
  BY DEF CountFreed
<1> HIDE DEF s
<1>3. Moved(t) /\ th'[t].pc = s /\ th'[t].work = th[t].work /\ th'[t].after = th[t].after
  BY <1>1, <1>2, Goes
<1> QED
  BY <1>3 DEF s

Ready == {c \in deferred : Serviced(c)}
AfterCheck(t) == IF t = Unbind THEN "pool" ELSE "leave"

LEMMA CheckMoves ==
  ASSUME NEW t \in Threads, TypeOK, CheckDeferred(t)
  PROVE  /\ Moved(t) /\ th'[t].work = Ready /\ th'[t].after = AfterCheck(t)
         /\ th'[t].pc = (IF Ready = {} THEN AfterCheck(t) ELSE "reclaim")
         /\ deferred' = deferred \ Ready
<1>1. th' = [th EXCEPT ![t] = Release(t, Ready, AfterCheck(t))] /\ deferred' = deferred \ Ready
  BY DEF CheckDeferred, Ready, AfterCheck
<1>2. Ready \in SUBSET Checkpoints
  BY DEF Ready, TypeOK
<1>3. AfterCheck(t) \in Stages
  BY StageNames DEF AfterCheck
<1>4. /\ Release(t, Ready, AfterCheck(t)) \in ThreadType
      /\ Release(t, Ready, AfterCheck(t)).pc = IF Ready = {} THEN AfterCheck(t) ELSE "reclaim"
      /\ Release(t, Ready, AfterCheck(t)).work = Ready
      /\ Release(t, Ready, AfterCheck(t)).after = AfterCheck(t)
  BY <1>2, <1>3, ReleasedFits
<1>5. Moved(t) /\ th'[t] = Release(t, Ready, AfterCheck(t))
  BY <1>1, <1>4, Becomes
<1> QED
  BY <1>1, <1>4, <1>5

LEMMA CleanPoolMoves ==
  ASSUME TypeOK, PoolShape, CleanPool
  PROVE  /\ Moved(Unbind) /\ th'[Unbind].work = Pooled /\ th'[Unbind].after = "read"
         /\ th'[Unbind].pc = IF Pooled = {} THEN "read" ELSE "clean"
<1>1. Unbind \in Threads /\ Pooled \in SUBSET Checkpoints
  BY FiniteFacts, PooledIs
<1>2. th[Unbind] \in ThreadType
  BY <1>1, ThreadFits
<1> DEFINE s == IF Pooled = {} THEN "read" ELSE "clean"
           r == [th[Unbind] EXCEPT !.pc = s, !.work = Pooled, !.after = "read"]
<1>3. s \in Stages
  BY StageNames
<1>4. th' = [th EXCEPT ![Unbind] = r]
  BY DEF CleanPool
<1> HIDE DEF s
<1>5. r \in ThreadType /\ r.pc = s /\ r.work = Pooled /\ r.after = "read"
  BY <1>1, <1>2, <1>3, StageNames DEF ThreadType
<1> HIDE DEF r
<1>6. Moved(Unbind) /\ th'[Unbind] = r
  BY <1>1, <1>4, <1>5, Becomes
<1> QED
  BY <1>5, <1>6 DEF s

LEMMA CleanOneMoves ==
  ASSUME NEW c \in Checkpoints, TypeOK, CleanOne(c)
  PROVE  /\ Moved(Unbind) /\ th'[Unbind].work = th[Unbind].work \ {c}
         /\ th'[Unbind].pc = "count" /\ th'[Unbind].after = th[Unbind].after
<1>1. Unbind \in Threads
  BY FiniteFacts
<1>2. th[Unbind] \in ThreadType
  BY <1>1, ThreadFits
<1> DEFINE r == [th[Unbind] EXCEPT !.pc = "count", !.work = @ \ {c}]
<1>3. r \in ThreadType /\ r.pc = "count" /\ r.work = th[Unbind].work \ {c}
      /\ r.after = th[Unbind].after
  BY <1>2, StageNames DEF ThreadType
<1>4. th' = [th EXCEPT ![Unbind] = r]
  BY DEF CleanOne
<1> HIDE DEF r
<1> QED
  BY <1>1, <1>3, <1>4, Becomes

(* A call of SyncCheckpointUnref for a checkpoint that has a reference.    *)
Unreffed(t, c) ==
  /\ Moved(t) /\ th'[t].after = "check"
  /\ th'[t].work = IF chk[c].hRefCount = 1 THEN {c} ELSE {}
  /\ th'[t].pc = IF chk[c].hRefCount # 1 THEN "check"
                 ELSE IF Serviced(c) THEN "reclaim" ELSE "defer"
  /\ chk' = [chk EXCEPT ![c].hRefCount = @ - 1] /\ chk[c].hRefCount \in Nat \ {0}
  /\ UNCHANGED <<allocated, pool, deferred>> /\ ctx' = ContextRef(ctx)

LEMMA Unrefs ==
  ASSUME NEW t \in Threads, NEW c \in Checkpoints, IInv, Unref(t, c),
         fence[c] # "none" \/ Inputs(c) # {}
  PROVE  Unreffed(t, c)
<1>1. chk[c].hRefCount > 0 /\ chk[c].hRefCount \in Int
  BY HasReference
<1>2. /\ th' = [th EXCEPT ![t] = th'[t]] /\ th'[t] \in ThreadType
      /\ th'[t].after = "check"
      /\ th'[t].work = (IF chk[c].hRefCount = 1 THEN {c} ELSE {})
      /\ th'[t].pc = (IF chk[c].hRefCount # 1 THEN "check"
                      ELSE IF Serviced(c) THEN "reclaim" ELSE "defer")
      /\ chk' = [chk EXCEPT ![c].hRefCount = @ - 1]
      /\ UNCHANGED <<allocated, pool, deferred>> /\ ctx' = ContextRef(ctx)
  BY <1>1, UnrefMoves
<1>3. Moved(t)
  <2>1. TypeOK
    BY DEF IInv
  <2> QED
    BY <1>2, <2>1, ThreadFits DEF Moved
<1> QED
  BY <1>1, <1>2, <1>3 DEF Unreffed

LEMMA DeRefMoves ==
  ASSUME NEW k \in Kickers, IInv, DeRefCheckpoint(k)
  PROVE  /\ th[k].pc = "deref" /\ k \in Threads
         /\ \E c \in Checkpoints :
              /\ c \in kick[k].in /\ Unreffed(k, c)
              /\ kick' = [kick EXCEPT ![k].in = @ \ {c}]
              /\ UNCHANGED <<fence, ccb, late, quiet>>
<1>1. PICK c \in kick[k].in :
        /\ At(k, "deref") /\ Unref(k, c)
        /\ kick' = [kick EXCEPT ![k].in = @ \ {c}]
        /\ UNCHANGED <<fence, ccb, late, quiet>>
  BY DEF DeRefCheckpoint
<1>2. c \in Checkpoints /\ k \in Threads
  BY FiniteFacts DEF IInv, TypeOK
<1>3. Inputs(c) # {}
  BY DEF Inputs
<1>4. Unreffed(k, c)
  BY <1>1, <1>2, <1>3, Unrefs
<1> QED
  BY <1>1, <1>2, <1>4 DEF At

LEMMA FreeMoves ==
  ASSUME NEW c \in Checkpoints, IInv, FreeFence(c)
  PROVE  /\ th[Misr].pc = "idle" /\ Misr \in Threads /\ Unreffed(Misr, c)
         /\ fence[c] \in {"fence", "dropped"} /\ fence' = [fence EXCEPT ![c] = "none"]
         /\ UNCHANGED <<kick, ccb, late, quiet>>
<1>1. /\ At(Misr, "idle") /\ fence[c] \in {"fence", "dropped"} /\ Unref(Misr, c)
      /\ fence' = [fence EXCEPT ![c] = "none"] /\ UNCHANGED <<kick, ccb, late, quiet>>
  BY DEF FreeFence
<1>2. Unreffed(Misr, c)
  BY <1>1, FiniteFacts, Unrefs
<1> QED
  BY <1>1, <1>2, FiniteFacts DEF At

(* The steps of a kick that only move it on.                               *)
LEMMA KickMoves ==
  ASSUME NEW k \in Kickers, TypeOK
  PROVE  /\ k \in Threads
         /\ ResolveFence(k) => Moved(k) /\ th'[k].pc = "create" /\ th'[k].after = th[k].after
         /\ CreateFence(k) => /\ Moved(k) /\ th'[k].pc \in {"append", "deref"}
                              /\ th'[k].after = th[k].after
         /\ CommitCommands(k) => /\ Moved(k) /\ th'[k].after = th[k].after
                                 /\ th'[k].pc = IF Len(ccb[k].cmds) < MaxCmds
                                                THEN "schedule" ELSE "rollback"
         /\ ScheduleCommand(k) => /\ Moved(k) /\ th'[k].pc \in {"deref", "rollback"}
                                  /\ th'[k].after = th[k].after
         /\ RollbackCheckpoints(k) => /\ Moved(k) /\ th'[k].pc = "deref"
                                      /\ th'[k].after = th[k].after
         /\ FinaliseFence(k) => Moved(k) /\ th'[k].pc = "idle" /\ th'[k].after = th[k].after
<1>1. k \in Threads
  BY FiniteFacts
<1>2. ASSUME NEW s \in Stages, Goto(k, s)
      PROVE  Moved(k) /\ th'[k].pc = s /\ th'[k].after = th[k].after
  BY <1>1, <1>2, Goes
<1>3. ResolveFence(k) => Goto(k, "create")
  BY DEF ResolveFence
<1>4. CreateFence(k) => Goto(k, "append") \/ Goto(k, "deref")
  BY DEF CreateFence
<1>5. CommitCommands(k) => IF Len(ccb[k].cmds) < MaxCmds THEN Goto(k, "schedule")
                           ELSE Goto(k, "rollback")
  BY DEF CommitCommands
<1>6. ScheduleCommand(k) => Goto(k, "deref") \/ Goto(k, "rollback")
  BY DEF ScheduleCommand
<1>7. RollbackCheckpoints(k) => Goto(k, "deref")
  BY DEF RollbackCheckpoints
<1>8. FinaliseFence(k) => Goto(k, "idle")
  BY DEF FinaliseFence
<1>9. "create" \in Stages /\ "append" \in Stages /\ "schedule" \in Stages
      /\ "rollback" \in Stages /\ "deref" \in Stages /\ "idle" \in Stages
  BY StageNames
<1>10. ResolveFence(k) => Moved(k) /\ th'[k].pc = "create" /\ th'[k].after = th[k].after
  BY <1>2, <1>3, <1>9
<1>11. CreateFence(k) => /\ Moved(k) /\ th'[k].pc \in {"append", "deref"}
                         /\ th'[k].after = th[k].after
  BY <1>2, <1>4, <1>9
<1>12. CommitCommands(k) => /\ Moved(k) /\ th'[k].after = th[k].after
                            /\ th'[k].pc = IF Len(ccb[k].cmds) < MaxCmds
                                           THEN "schedule" ELSE "rollback"
  BY <1>2, <1>5, <1>9
<1>13. ScheduleCommand(k) => /\ Moved(k) /\ th'[k].pc \in {"deref", "rollback"}
                             /\ th'[k].after = th[k].after
  BY <1>2, <1>6, <1>9
<1>14. RollbackCheckpoints(k) => /\ Moved(k) /\ th'[k].pc = "deref"
                                 /\ th'[k].after = th[k].after
  BY <1>2, <1>7, <1>9
<1>15. FinaliseFence(k) => Moved(k) /\ th'[k].pc = "idle" /\ th'[k].after = th[k].after
  BY <1>2, <1>8, <1>9
<1> QED
  BY <1>1, <1>10, <1>11, <1>12, <1>13, <1>14, <1>15

LEMMA OtherMoves ==
  ASSUME TypeOK
  PROVE  /\ \A t \in Threads : LeaveUnref(t) =>
              /\ Moved(t) /\ th'[t].pc = (IF t = Misr THEN "idle" ELSE "deref")
              /\ th'[t].after = th[t].after
         /\ ContextDestroy => Moved(Unbind) /\ th'[Unbind].pc = "check"
         /\ ReadCount => Moved(Unbind) /\ th'[Unbind].pc = "end"
<1>1. ASSUME NEW t \in Threads, LeaveUnref(t)
      PROVE  /\ Moved(t) /\ th'[t].pc = (IF t = Misr THEN "idle" ELSE "deref")
             /\ th'[t].after = th[t].after
  <2> DEFINE s == IF t = Misr THEN "idle" ELSE "deref"
  <2>1. s \in Stages /\ Goto(t, s)
    BY <1>1, StageNames DEF LeaveUnref
  <2> HIDE DEF s
  <2>2. Moved(t) /\ th'[t].pc = s /\ th'[t].after = th[t].after
    BY <2>1, Goes
  <2> QED
    BY <2>2 DEF s
<1>2. Unbind \in Threads /\ "check" \in Stages /\ "end" \in Stages
  BY FiniteFacts, StageNames
<1>3. ContextDestroy => Goto(Unbind, "check")
  BY DEF ContextDestroy
<1>4. ReadCount => Goto(Unbind, "end")
  BY DEF ReadCount
<1> QED
  BY <1>1, <1>2, <1>3, <1>4, Goes

-----------------------------------------------------------------------------
(* Each part of the invariant, over the actions. *)

LEMMA ShapeMoved ==
  ASSUME NEW t \in Threads, ThreadShape, Moved(t),
         t \in Kickers => th'[t].pc \in InUnref \cup {"idle", "create", "append", "schedule",
                                                      "rollback", "deref"},
         t = Misr => th'[t].pc \in InUnref \cup {"idle"},
         t = Unbind => /\ th'[t].pc \in {"check", "reclaim", "count", "pool", "clean", "read", "end"}
                       /\ th'[t].pc = "reclaim" => th'[t].after = "pool"
                       /\ th'[t].pc = "clean" => th'[t].after = "read"
                       /\ th'[t].pc = "count" => th'[t].after \in {"pool", "read"}
                       /\ \A k \in Kickers : th[k].pc = "idle",
         t # Unbind => th'[t].after \in {"check", "leave"},
         t \in Kickers => th[Unbind].pc = "idle"
  PROVE  ThreadShape'
<1>1. /\ \A u \in Threads \ {t} : th'[u] = th[u]
      /\ Misr \in Threads /\ Unbind \in Threads /\ Misr # Unbind /\ Misr \notin Kickers
      /\ Unbind \notin Kickers /\ \A k \in Kickers : k \in Threads
  BY FiniteFacts DEF Moved
<1>2. \A k \in Kickers :
        th'[k].pc \in InUnref \cup {"idle", "create", "append", "schedule", "rollback", "deref"}
  BY <1>1 DEF ThreadShape
<1>3. th'[Misr].pc \in InUnref \cup {"idle"}
  BY <1>1 DEF ThreadShape
<1>4. /\ th'[Unbind].pc \in {"idle", "check", "reclaim", "count", "pool", "clean", "read", "end"}
      /\ th'[Unbind].pc = "reclaim" => th'[Unbind].after = "pool"
      /\ th'[Unbind].pc = "clean" => th'[Unbind].after = "read"
      /\ th'[Unbind].pc = "count" => th'[Unbind].after \in {"pool", "read"}
  BY <1>1 DEF ThreadShape
<1>5. \A u \in Threads \ {Unbind} : th'[u].after \in {"check", "leave"}
  BY <1>1 DEF ThreadShape
<1>6. th'[Unbind].pc # "idle" => \A k \in Kickers : th'[k].pc = "idle"
  BY <1>1 DEF ThreadShape
<1> QED
  BY <1>2, <1>3, <1>4, <1>5, <1>6 DEF ThreadShape

LEMMA ShapeKept ==
  ASSUME IInv, Next
  PROVE  ThreadShape'
<1>1. TypeOK /\ ThreadShape /\ PoolShape
  BY DEF IInv
<1>2. /\ Misr \in Threads /\ Unbind \in Threads /\ Misr # Unbind /\ Misr \notin Kickers
      /\ Unbind \notin Kickers /\ \A k \in Kickers : k \in Threads
      /\ \A t \in Threads : t \in Kickers \/ t = Misr \/ t = Unbind
  BY FiniteFacts DEF Threads
<1>3. ASSUME th' = th
      PROVE  ThreadShape'
  BY <1>1, <1>3 DEF ThreadShape
<1>4. ASSUME NEW t \in Threads, ThreadStep(t)
      PROVE  ThreadShape'
  <2>1. /\ t \in Kickers => th[t].pc \in InUnref /\ th[Unbind].pc = "idle"
        /\ t = Misr => th[t].pc \in InUnref
        /\ t = Unbind => th[t].pc \in {"check", "reclaim", "count"} /\ \A k \in Kickers : th[k].pc = "idle"
    <3>1. th[t].pc \in InUnref
      BY <1>4 DEF ThreadStep, Defer, CountFreed, CheckDeferred, LeaveUnref, Reclaim, At, InUnref
    <3> QED
      BY <1>1, <3>1 DEF ThreadShape, InUnref
  <2>2. CASE Defer(t)
    <3>1. Moved(t) /\ th'[t].pc = "check" /\ th'[t].after = th[t].after /\ th[t].pc = "defer"
      BY <1>1, <2>2, DeferMoves DEF Defer, At
    <3>2. t # Unbind => th[t].after \in {"check", "leave"}
      BY <1>1 DEF ThreadShape
    <3> QED
      BY <1>1, <1>2, <2>1, <3>1, <3>2, ShapeMoved DEF InUnref
  <2>3. CASE CountFreed(t)
    <3>1. /\ Moved(t) /\ th'[t].after = th[t].after /\ th[t].pc = "count"
          /\ th'[t].pc = IF th[t].work = {} THEN th[t].after
                         ELSE IF th[t].after = "read" THEN "clean" ELSE "reclaim"
      BY <1>1, <2>3, CountMoves DEF CountFreed, At
    <3>2. /\ t # Unbind => th[t].after \in {"check", "leave"}
          /\ t = Unbind => th[t].after \in {"pool", "read"}
      BY <1>1, <3>1 DEF ThreadShape
    <3> QED
      BY <1>1, <1>2, <2>1, <3>1, <3>2, ShapeMoved DEF InUnref
  <2>4. CASE CheckDeferred(t)
    <3>1. /\ Moved(t) /\ th'[t].after = AfterCheck(t) /\ th[t].pc = "check"
          /\ th'[t].pc = (IF Ready = {} THEN AfterCheck(t) ELSE "reclaim")
      BY <1>1, <2>4, CheckMoves DEF CheckDeferred, At
    <3> QED
      BY <1>1, <1>2, <2>1, <3>1, ShapeMoved DEF InUnref, AfterCheck
  <2>5. CASE LeaveUnref(t)
    <3>1. /\ Moved(t) /\ th'[t].pc = (IF t = Misr THEN "idle" ELSE "deref")
          /\ th'[t].after = th[t].after /\ th[t].pc = "leave"
      BY <1>1, <2>5, OtherMoves DEF LeaveUnref, At
    <3>2. t # Unbind
      BY <2>1, <3>1
    <3>3. th[t].after \in {"check", "leave"}
      BY <1>1, <3>2 DEF ThreadShape
    <3> QED
      BY <1>1, <1>2, <2>1, <3>1, <3>2, <3>3, ShapeMoved
  <2>6. ASSUME NEW c \in Checkpoints, Reclaim(t, c)
        PROVE  ThreadShape'
    <3>1. /\ Moved(t) /\ th'[t].after = th[t].after /\ th[t].pc = "reclaim"
          /\ th'[t].pc = IF pool.full THEN "count"
                         ELSE IF th[t].work \ {c} = {} THEN th[t].after ELSE "reclaim"
      BY <1>1, <2>6, ReclaimMoves DEF Reclaim, At
    <3>2. /\ t # Unbind => th[t].after \in {"check", "leave"}
          /\ t = Unbind => th[t].after = "pool"
      BY <1>1, <3>1 DEF ThreadShape
    <3> QED
      BY <1>1, <1>2, <2>1, <3>1, <3>2, ShapeMoved DEF InUnref
  <2> QED
    BY <1>4, <2>2, <2>3, <2>4, <2>5, <2>6 DEF ThreadStep
<1>5. ASSUME NEW k \in Kickers, ResolveFence(k) \/ KickStep(k)
      PROVE  ThreadShape'
  <2>1. k \in Threads /\ k # Misr /\ k # Unbind /\ th[k].after \in {"check", "leave"}
    BY <1>1, <1>2 DEF ThreadShape
  <2>2. th[Unbind].pc = "idle"
    <3>1. th[k].pc \in {"create", "append", "schedule", "rollback", "deref"} \/ Bound
      BY <1>5 DEF KickStep, ResolveFence, CreateFence, CommitCommands, ScheduleCommand,
                  RollbackCheckpoints, DeRefCheckpoint, FinaliseFence, At
    <3> QED
      BY <1>1, <3>1 DEF ThreadShape, Bound
  <2>3. CASE DeRefCheckpoint(k)
    <3>1. PICK c \in Checkpoints : Unreffed(k, c)
      BY <2>3, DeRefMoves
    <3> QED
      BY <1>1, <2>1, <2>2, <3>1, ShapeMoved DEF Unreffed, InUnref
  <2>4. CASE \/ ResolveFence(k) \/ CreateFence(k) \/ CommitCommands(k) \/ ScheduleCommand(k)
             \/ RollbackCheckpoints(k) \/ FinaliseFence(k)
    <3>1. /\ Moved(k) /\ th'[k].after = th[k].after
          /\ th'[k].pc \in {"idle", "create", "append", "schedule", "rollback", "deref"}
      BY <1>1, <2>4, KickMoves
    <3> QED
      BY <1>1, <2>1, <2>2, <3>1, ShapeMoved
  <2> QED
    BY <1>5, <2>3, <2>4 DEF KickStep
<1>6. ASSUME NEW k \in Kickers, Firmware(k)
      PROVE  ThreadShape'
  BY <1>3, <1>6 DEF Firmware
<1>7. ASSUME NEW c \in Checkpoints, ForeignSignal(c)
      PROVE  ThreadShape'
  BY <1>3, <1>7 DEF ForeignSignal
<1>8. ASSUME NEW c \in Checkpoints, FreeFence(c)
      PROVE  ThreadShape'
  <2>1. Unreffed(Misr, c)
    BY <1>8, FreeMoves
  <2> QED
    BY <1>1, <1>2, <2>1, ShapeMoved DEF Unreffed, InUnref
<1>9. CASE ContextDestroy
  <2>1. Moved(Unbind) /\ th'[Unbind].pc = "check" /\ \A k \in Kickers : th[k].pc = "idle"
    BY <1>1, <1>9, OtherMoves DEF ContextDestroy, At
  <2> QED
    BY <1>1, <1>2, <2>1, ShapeMoved
<1>10. CASE DestroyStep
  <2>1. th[Unbind].pc \in {"pool", "clean", "read"}
    BY <1>10 DEF DestroyStep, CleanPool, CleanOne, ReadCount, At
  <2>2. \A k \in Kickers : th[k].pc = "idle"
    BY <1>1, <2>1 DEF ThreadShape
  <2>3. CASE CleanPool
    <3>1. Moved(Unbind) /\ th'[Unbind].after = "read" /\ th'[Unbind].pc \in {"read", "clean"}
      BY <1>1, <2>3, CleanPoolMoves
    <3> QED
      BY <1>1, <1>2, <2>2, <3>1, ShapeMoved
  <2>4. CASE ReadCount
    <3>1. Moved(Unbind) /\ th'[Unbind].pc = "end"
      BY <1>1, <2>4, OtherMoves
    <3> QED
      BY <1>1, <1>2, <2>2, <3>1, ShapeMoved
  <2>5. ASSUME NEW c \in Checkpoints, CleanOne(c)
        PROVE  ThreadShape'
    <3>1. Moved(Unbind) /\ th'[Unbind].pc = "count" /\ th'[Unbind].after = th[Unbind].after
      BY <1>1, <2>5, CleanOneMoves
    <3>2. th[Unbind].after = "read"
      BY <1>1, <2>5 DEF ThreadShape, CleanOne, At
    <3> QED
      BY <1>1, <1>2, <2>2, <3>1, <3>2, ShapeMoved
  <2> QED
    BY <1>10, <2>3, <2>4, <2>5 DEF DestroyStep
<1> QED
  BY <1>4, <1>5, <1>6, <1>7, <1>8, <1>9, <1>10 DEF Next

(* What each action does to hRefCount.                                     *)
SameRefs == \A c \in Checkpoints : chk'[c].hRefCount = chk[c].hRefCount

LEMMA RefsStay ==
  ASSUME IInv
  PROVE  /\ \A t \in Threads : ThreadStep(t) => SameRefs
         /\ \A k \in Kickers :
              (CommitCommands(k) \/ ScheduleCommand(k) \/ RollbackCheckpoints(k)
                 \/ FinaliseFence(k) \/ Firmware(k)) => SameRefs
         /\ \A c \in Checkpoints : ForeignSignal(c) => SameRefs
         /\ ContextDestroy \/ DestroyStep => SameRefs
<1> DEFINE R == [hRefCount : 0..(Cardinality(Kickers) + 1),
                 hEnqueuedCCBCount : 0..(MaxEnqueued + Cardinality(Kickers)),
                 ui32FwRefCount : Nat,
                 ui32State : {"UNDEF", "ACTIVE", "SIGNALLED"},
                 listed : BOOLEAN]
<1>1. chk \in [Checkpoints -> R]
  BY DEF IInv, TypeOK
<1>2. \A c \in Checkpoints : chk[c] \in R
  BY <1>1
<1>3. ASSUME chk' = chk
      PROVE  SameRefs
  BY <1>3 DEF SameRefs
<1>4. ASSUME NEW t \in Threads, ThreadStep(t)
      PROVE  SameRefs
  <2>1. CASE Defer(t) \/ CountFreed(t) \/ CheckDeferred(t) \/ LeaveUnref(t)
    BY <1>3, <2>1 DEF Defer, CountFreed, CheckDeferred, LeaveUnref
  <2>2. ASSUME NEW c \in Checkpoints, Reclaim(t, c)
        PROVE  SameRefs
    BY <1>1, <1>2, <2>2 DEF Reclaim, SameRefs
  <2> QED
    BY <1>4, <2>1, <2>2 DEF ThreadStep
<1>5. ASSUME NEW k \in Kickers
      PROVE  /\ CommitCommands(k) => SameRefs
             /\ ScheduleCommand(k) => SameRefs
             /\ RollbackCheckpoints(k) => SameRefs
             /\ FinaliseFence(k) => SameRefs
  <2>1. CommitCommands(k) => SameRefs
    BY <1>1, <1>2 DEF CommitCommands, SameRefs
  <2>2. RollbackCheckpoints(k) => SameRefs
    BY <1>1, <1>2 DEF RollbackCheckpoints, SameRefs
  <2>3. ScheduleCommand(k) \/ FinaliseFence(k) => SameRefs
    BY <1>3 DEF ScheduleCommand, FinaliseFence, mem
  <2> QED
    BY <2>1, <2>2, <2>3
<1>6. ASSUME NEW k \in Kickers, Firmware(k)
      PROVE  SameRefs
  <2> DEFINE cmd == Head(ccb[k].cmds)
  <2>1. CASE chk' = [c \in Checkpoints |->
             IF c \in cmd.fence THEN [chk[c] EXCEPT !.ui32FwRefCount = @ + 1] ELSE chk[c]]
    BY <1>2, <2>1 DEF SameRefs
  <2>2. CASE chk' = [chk EXCEPT ![cmd.update].ui32State = "SIGNALLED"]
    BY <1>1, <1>2, <2>2 DEF SameRefs
  <2>3. CASE chk' = [c \in Checkpoints |->
             IF c = cmd.update THEN [chk[c] EXCEPT !.ui32FwRefCount = @ + 1] ELSE chk[c]]
    BY <1>2, <2>3 DEF SameRefs
  <2> QED
    BY <1>6, <2>1, <2>2, <2>3 DEF Firmware
<1>7. ASSUME NEW c \in Checkpoints, ForeignSignal(c)
      PROVE  SameRefs
  BY <1>1, <1>2, <1>7 DEF ForeignSignal, SameRefs
<1>8. ASSUME ContextDestroy \/ DestroyStep
      PROVE  SameRefs
  BY <1>3, <1>8 DEF ContextDestroy, DestroyStep, CleanPool, CleanOne, ReadCount, mem
<1> QED
  BY <1>4, <1>5, <1>6, <1>7, <1>8

(* A step of one thread moves checkpoints between its list and the places  *)
(* all threads share; N are some that had a reference.                     *)
LEMMA PlacesMoved ==
  ASSUME NEW t \in Threads, NEW N \in SUBSET Checkpoints, Places, Moved(t),
         \A u \in Threads : N \cap Releasing(u) = {},
         Pooled' \cup deferred' \cup Releasing(t)' \subseteq N \cup Pooled \cup deferred \cup Releasing(t),
         Pooled' \cap deferred' = {},
         Releasing(t)' \cap (Pooled' \cup deferred') = {},
         \A c \in Pooled' \cup deferred' \cup Releasing(t)' : c \in allocated' /\ chk'[c].hRefCount = 0,
         \A u \in Threads \ {t} : \A c \in Releasing(u) : c \in allocated' /\ chk'[c].hRefCount = 0
  PROVE  Places'
<1>1. \A u \in Threads \ {t} : Releasing(u)' = Releasing(u)
  BY DEF Moved, Releasing, At
<1> DEFINE S == Pooled' \cup deferred' \cup Releasing(t)'
<1>2. ASSUME NEW u \in Threads \ {t}
      PROVE  Releasing(u)' \cap S = {}
  <2>1. Releasing(u) \cap (Pooled \cup deferred) = {} /\ Releasing(u) \cap Releasing(t) = {}
        /\ N \cap Releasing(u) = {}
    BY DEF Places
  <2> QED
    BY <1>1, <2>1
<1>3. ASSUME NEW u \in Threads \ {t}, NEW v \in Threads \ {t}, u # v
      PROVE  Releasing(u)' \cap Releasing(v)' = {}
  BY <1>1, <1>3 DEF Places
<1>4. ASSUME NEW u \in Threads, NEW v \in Threads \ {u}
      PROVE  Releasing(u)' \cap Releasing(v)' = {}
  BY <1>2, <1>3
<1>5. \A u \in Threads : Releasing(u)' \cap (Pooled' \cup deferred') = {}
  BY <1>2
<1>6. \A u \in Threads : \A c \in Releasing(u)' : c \in allocated' /\ chk'[c].hRefCount = 0
  BY <1>1
<1> QED
  BY <1>4, <1>5, <1>6 DEF Places

LEMMA PlacesStay ==
  ASSUME NEW t \in Threads, TypeOK, Places, Moved(t), Releasing(t)' \subseteq Releasing(t),
         UNCHANGED <<pool, deferred, allocated>>,
         \A c \in Checkpoints : chk[c].hRefCount = 0 => chk'[c].hRefCount = 0
  PROVE  Places'
<1>1. Pooled' = Pooled
  BY DEF Pooled
<1>2. /\ \A c \in Pooled \cup deferred : c \in Checkpoints
      /\ \A u \in Threads : \A c \in Releasing(u) : c \in Checkpoints
  BY DEF Places, TypeOK
<1>3. /\ {} \in SUBSET Checkpoints /\ \A u \in Threads : {} \cap Releasing(u) = {}
      /\ Pooled' \cup deferred' \cup Releasing(t)'
           \subseteq {} \cup Pooled \cup deferred \cup Releasing(t)
  BY <1>1
<1>4. Pooled' \cap deferred' = {} /\ Releasing(t)' \cap (Pooled' \cup deferred') = {}
  BY <1>1 DEF Places
<1>5. \A c \in Pooled' \cup deferred' \cup Releasing(t)' : c \in allocated' /\ chk'[c].hRefCount = 0
  BY <1>1, <1>2 DEF Places
<1>6. \A u \in Threads \ {t} : \A c \in Releasing(u) : c \in allocated' /\ chk'[c].hRefCount = 0
  BY <1>2 DEF Places
<1> QED
  BY <1>3, <1>4, <1>5, <1>6, PlacesMoved

LEMMA PlacesAlloc ==
  ASSUME NEW t \in Threads, NEW c \in Checkpoints, NEW refs, IInv, Alloc(c, refs), Moved(t),
         Releasing(t)' = Releasing(t)
  PROVE  Places'
<1>1. /\ c \notin deferred /\ \A u \in Threads : c \notin Releasing(u)
      /\ Pooled' = Pooled \ {c} /\ allocated' = allocated \cup {c} /\ deferred' = deferred
  BY AllocTakes
<1>2. Places /\ TypeOK
  BY DEF IInv
<1>3. \A d \in Checkpoints \ {c} : chk'[d] = chk[d]
  BY <1>2 DEF Alloc, TypeOK
<1>4. /\ \A d \in Pooled \cup deferred : d \in Checkpoints
      /\ \A u \in Threads : \A d \in Releasing(u) : d \in Checkpoints
  BY <1>2 DEF Places, TypeOK
<1>5. /\ {} \in SUBSET Checkpoints /\ \A u \in Threads : {} \cap Releasing(u) = {}
      /\ Pooled' \cup deferred' \cup Releasing(t)'
           \subseteq {} \cup Pooled \cup deferred \cup Releasing(t)
  BY <1>1
<1>6. Pooled' \cap deferred' = {} /\ Releasing(t)' \cap (Pooled' \cup deferred') = {}
  BY <1>1, <1>2 DEF Places
<1>7. \A d \in Pooled' \cup deferred' \cup Releasing(t)' : d \in allocated' /\ chk'[d].hRefCount = 0
  BY <1>1, <1>2, <1>3, <1>4 DEF Places
<1>8. \A u \in Threads \ {t} : \A d \in Releasing(u) : d \in allocated' /\ chk'[d].hRefCount = 0
  BY <1>1, <1>2, <1>3, <1>4 DEF Places
<1> QED
  BY <1>2, <1>5, <1>6, <1>7, <1>8, PlacesMoved

LEMMA PlacesUnref ==
  ASSUME NEW t \in Threads, NEW c \in Checkpoints, IInv, Unreffed(t, c), Releasing(t) = {}
  PROVE  Places'
<1>1. /\ c \in allocated /\ c \notin Pooled /\ c \notin deferred
      /\ \A u \in Threads : c \notin Releasing(u)
  BY Referenced DEF Unreffed
<1>2. Places /\ TypeOK
  BY DEF IInv
<1>3. /\ Moved(t) /\ th'[t].work = (IF chk[c].hRefCount = 1 THEN {c} ELSE {})
      /\ chk' = [chk EXCEPT ![c].hRefCount = @ - 1]
      /\ allocated' = allocated /\ pool' = pool /\ deferred' = deferred
  BY DEF Unreffed
<1>4. Pooled' = Pooled
  BY <1>3 DEF Pooled
<1>5. /\ \A d \in Checkpoints \ {c} : chk'[d] = chk[d]
      /\ chk[c].hRefCount = 1 => chk'[c].hRefCount = 0
  BY <1>2, <1>3 DEF TypeOK
<1>6. Releasing(t)' \subseteq IF chk[c].hRefCount = 1 THEN {c} ELSE {}
  BY <1>3 DEF Releasing
<1>7. /\ \A d \in Pooled \cup deferred : d \in Checkpoints
      /\ \A u \in Threads : \A d \in Releasing(u) : d \in Checkpoints
  BY <1>2 DEF Places, TypeOK
<1>8. /\ {c} \in SUBSET Checkpoints /\ \A u \in Threads : {c} \cap Releasing(u) = {}
      /\ Pooled' \cup deferred' \cup Releasing(t)'
           \subseteq {c} \cup Pooled \cup deferred \cup Releasing(t)
  BY <1>1, <1>3, <1>4, <1>6
<1>9. Pooled' \cap deferred' = {} /\ Releasing(t)' \cap (Pooled' \cup deferred') = {}
  BY <1>1, <1>2, <1>3, <1>4, <1>6 DEF Places
<1>10. \A d \in Pooled' \cup deferred' \cup Releasing(t)' : d \in allocated' /\ chk'[d].hRefCount = 0
  <2> SUFFICES ASSUME NEW d \in Pooled' \cup deferred' \cup Releasing(t)'
               PROVE  d \in allocated' /\ chk'[d].hRefCount = 0
    OBVIOUS
  <2>1. CASE d \in Pooled \cup deferred
    BY <1>1, <1>2, <1>3, <1>5, <1>7, <2>1 DEF Places
  <2>2. CASE d \in Releasing(t)'
    BY <1>1, <1>3, <1>5, <1>6, <2>2
  <2> QED
    BY <1>3, <1>4, <2>1, <2>2
<1>11. \A u \in Threads \ {t} : \A d \in Releasing(u) : d \in allocated' /\ chk'[d].hRefCount = 0
  BY <1>1, <1>2, <1>3, <1>5, <1>7 DEF Places
<1> QED
  BY <1>2, <1>3, <1>8, <1>9, <1>10, <1>11, PlacesMoved

LEMMA PlacesThread ==
  ASSUME NEW t \in Threads, IInv, ThreadStep(t)
  PROVE  Places'
<1>1. TypeOK /\ Places /\ PoolShape /\ ThreadShape
  BY DEF IInv
<1>2. /\ Pooled \subseteq Checkpoints /\ deferred \subseteq Checkpoints
      /\ \A u \in Threads : Releasing(u) \subseteq Checkpoints
      /\ SameRefs
  BY <1>1, PooledIs, RefsStay DEF TypeOK, Releasing
<1>3. /\ \A c \in Pooled \cup deferred : c \in allocated /\ chk'[c].hRefCount = 0
      /\ \A u \in Threads : \A c \in Releasing(u) : c \in allocated /\ chk'[c].hRefCount = 0
  BY <1>1, <1>2 DEF Places, SameRefs
<1>4. {} \in SUBSET Checkpoints /\ \A u \in Threads : {} \cap Releasing(u) = {}
  OBVIOUS
<1>5. CASE Defer(t)
  <2>1. /\ Moved(t) /\ th'[t].work = {} /\ deferred' = deferred \cup Releasing(t)
        /\ pool' = pool /\ allocated' = allocated
    BY <1>1, <1>5, DeferMoves DEF Defer, Releasing
  <2>2. Pooled' = Pooled
    BY <2>1 DEF Pooled
  <2>3. Releasing(t)' = {}
    BY <2>1 DEF Releasing
  <2>4. Pooled' \cap deferred' = {}
    BY <1>1, <2>1, <2>2 DEF Places
  <2> QED
    BY <1>1, <1>3, <1>4, <2>1, <2>2, <2>3, <2>4, PlacesMoved
<1>6. CASE CountFreed(t)
  <2>1. /\ Moved(t) /\ th'[t].work = th[t].work /\ th[t].pc = "count"
        /\ pool' = pool /\ allocated' = allocated /\ deferred' = deferred
    BY <1>1, <1>6, CountMoves DEF CountFreed, At
  <2>2. Releasing(t)' \subseteq Releasing(t)
    BY <2>1 DEF Releasing, At
  <2> QED
    BY <1>1, <1>2, <2>1, <2>2, PlacesStay DEF SameRefs
<1>7. CASE CheckDeferred(t)
  <2>1. /\ Moved(t) /\ th'[t].work = Ready /\ deferred' = deferred \ Ready
        /\ pool' = pool /\ allocated' = allocated /\ th[t].pc = "check"
    BY <1>1, <1>7, CheckMoves DEF CheckDeferred, At
  <2>2. Pooled' = Pooled
    BY <2>1 DEF Pooled
  <2>3. Releasing(t)' \subseteq Ready /\ Ready \subseteq deferred
    BY <2>1 DEF Releasing, Ready
  <2>4. Pooled' \cap deferred' = {} /\ Releasing(t)' \cap (Pooled' \cup deferred') = {}
    BY <1>1, <2>1, <2>2, <2>3 DEF Places
  <2>5. \A u \in Threads \ {t} : \A c \in Releasing(u) : c \in allocated' /\ chk'[c].hRefCount = 0
    BY <1>3, <2>1
  <2>6. \A c \in Pooled' \cup deferred' \cup Releasing(t)' :
          c \in allocated' /\ chk'[c].hRefCount = 0
    BY <1>3, <2>1, <2>2, <2>3
  <2>7. Pooled' \cup deferred' \cup Releasing(t)'
          \subseteq {} \cup Pooled \cup deferred \cup Releasing(t)
    BY <2>1, <2>2, <2>3
  <2> QED
    BY <1>1, <1>4, <2>1, <2>4, <2>5, <2>6, <2>7, PlacesMoved
<1>8. CASE LeaveUnref(t)
  <2>1. /\ Moved(t) /\ th'[t].pc = (IF t = Misr THEN "idle" ELSE "deref")
        /\ pool' = pool /\ allocated' = allocated /\ deferred' = deferred
    BY <1>1, <1>8, OtherMoves DEF LeaveUnref
  <2>2. Releasing(t)' \subseteq Releasing(t)
    BY <2>1 DEF Releasing, At
  <2> QED
    BY <1>1, <1>2, <2>1, <2>2, PlacesStay DEF SameRefs
<1>9. ASSUME NEW c \in Checkpoints, Reclaim(t, c)
      PROVE  Places'
  <2>1. /\ Moved(t) /\ th'[t].work = th[t].work \ {c} /\ c \in Releasing(t)
        /\ deferred' = deferred /\ Releasing(t) = th[t].work
    BY <1>1, <1>9, ReclaimMoves DEF Reclaim, Releasing
  <2>2. Releasing(t)' \subseteq Releasing(t) \ {c}
    BY <2>1 DEF Releasing
  <2>3. /\ c \notin Pooled /\ c \notin deferred
        /\ \A u \in Threads \ {t} : c \notin Releasing(u)
    BY <1>1, <2>1 DEF Places
  <2>4. CASE ~pool.full
    <3>1. PutInPool(c) /\ allocated' = allocated
      BY <1>9, <2>4 DEF Reclaim
    <3>2. Pooled' = Pooled \cup {c}
      BY <1>1, <2>3, <2>4, <3>1, PoolPut
    <3>3. Pooled' \cap deferred' = {} /\ Releasing(t)' \cap (Pooled' \cup deferred') = {}
      BY <1>1, <2>1, <2>2, <2>3, <3>2 DEF Places
    <3>4. \A u \in Threads \ {t} : \A d \in Releasing(u) : d \in allocated' /\ chk'[d].hRefCount = 0
      BY <1>3, <3>1
    <3>5. \A d \in Pooled' \cup deferred' \cup Releasing(t)' :
            d \in allocated' /\ chk'[d].hRefCount = 0
      BY <1>3, <2>1, <2>2, <3>1, <3>2
    <3>6. Pooled' \cup deferred' \cup Releasing(t)'
            \subseteq {} \cup Pooled \cup deferred \cup Releasing(t)
      BY <2>1, <2>2, <3>2
    <3> QED
      BY <1>1, <1>4, <2>1, <3>3, <3>4, <3>5, <3>6, PlacesMoved
  <2>5. CASE pool.full
    <3>1. allocated' = allocated \ {c} /\ pool' = pool
      BY <1>9, <2>5 DEF Reclaim
    <3>2. Pooled' = Pooled
      BY <3>1 DEF Pooled
    <3>3. Pooled' \cap deferred' = {} /\ Releasing(t)' \cap (Pooled' \cup deferred') = {}
      BY <1>1, <2>1, <2>2, <3>2 DEF Places
    <3>4. \A u \in Threads \ {t} : \A d \in Releasing(u) : d \in allocated' /\ chk'[d].hRefCount = 0
      BY <1>3, <2>3, <3>1
    <3>5. \A d \in Pooled' \cup deferred' \cup Releasing(t)' :
            d \in allocated' /\ chk'[d].hRefCount = 0
      BY <1>3, <2>1, <2>2, <2>3, <3>1, <3>2
    <3>6. Pooled' \cup deferred' \cup Releasing(t)'
            \subseteq {} \cup Pooled \cup deferred \cup Releasing(t)
      BY <2>1, <2>2, <3>2
    <3> QED
      BY <1>1, <1>4, <2>1, <3>3, <3>4, <3>5, <3>6, PlacesMoved
  <2> QED
    BY <2>4, <2>5
<1> QED
  BY <1>5, <1>6, <1>7, <1>8, <1>9 DEF ThreadStep

LEMMA PlacesKick ==
  ASSUME NEW k \in Kickers, IInv, ResolveFence(k) \/ KickStep(k)
  PROVE  Places'
<1>1. TypeOK /\ Places /\ PoolShape /\ ThreadShape /\ k \in Threads
  BY FiniteFacts DEF IInv
<1>2. th[k].pc \in {"idle", "create", "append", "schedule", "rollback", "deref"}
  BY <1>1 DEF KickStep, ResolveFence, CreateFence, CommitCommands, ScheduleCommand,
              RollbackCheckpoints, DeRefCheckpoint, FinaliseFence, At
<1>3. Releasing(k) = {}
  BY <1>2 DEF Releasing, At
<1>4. CASE DeRefCheckpoint(k)
  <2>1. PICK c \in Checkpoints : Unreffed(k, c)
    BY <1>4, DeRefMoves
  <2> QED
    BY <1>1, <1>3, <2>1, PlacesUnref
<1>5. ASSUME \/ ResolveFence(k) \/ CreateFence(k) \/ CommitCommands(k) \/ ScheduleCommand(k)
             \/ RollbackCheckpoints(k) \/ FinaliseFence(k)
      PROVE  Moved(k) /\ Releasing(k)' = {}
  <2>1. /\ Moved(k)
        /\ th'[k].pc \in {"idle", "create", "append", "schedule", "rollback", "deref"}
    BY <1>1, <1>5, KickMoves
  <2> QED
    BY <2>1 DEF Releasing, At
<1>6. ASSUME NEW c \in Checkpoints, NEW refs, Alloc(c, refs), Moved(k), Releasing(k)' = {}
      PROVE  Places'
  BY <1>1, <1>3, <1>6, PlacesAlloc
<1>7. CASE CommitCommands(k) \/ ScheduleCommand(k) \/ RollbackCheckpoints(k) \/ FinaliseFence(k)
  <2>1. SameRefs
    BY <1>7, RefsStay
  <2>2. UNCHANGED <<pool, deferred, allocated>>
    BY <1>7 DEF CommitCommands, ScheduleCommand, RollbackCheckpoints, FinaliseFence, mem
  <2>3. Moved(k) /\ Releasing(k)' \subseteq Releasing(k)
    BY <1>5, <1>7
  <2> QED
    BY <1>1, <2>1, <2>2, <2>3, PlacesStay DEF SameRefs
<1>8. CASE CreateFence(k)
  <2>1. CASE \E c \in Checkpoints : Alloc(c, 1)
    BY <1>5, <1>6, <1>8, <2>1
  <2>2. CASE UNCHANGED mem
    <3>1. UNCHANGED <<pool, deferred, allocated, chk>>
      BY <2>2 DEF mem
    <3>2. Moved(k) /\ Releasing(k)' \subseteq Releasing(k)
      BY <1>5, <1>8
    <3> QED
      BY <1>1, <3>1, <3>2, PlacesStay
  <2> QED
    BY <1>8, <2>1, <2>2 DEF CreateFence
<1>9. CASE ResolveFence(k)
  <2>1. CASE \E c \in Checkpoints : Alloc(c, 2)
    BY <1>5, <1>6, <1>9, <2>1
  <2>2. ASSUME NEW inputs \in SUBSET {c \in Checkpoints : fence[c] = "fence"},
               chk' = [c \in Checkpoints |->
                 IF c \in inputs THEN [chk[c] EXCEPT !.hRefCount = @ + 1] ELSE chk[c]],
               UNCHANGED <<allocated, ctx, pool, deferred, fence>>
        PROVE  Places'
    <3>1. ASSUME NEW c \in Checkpoints, chk[c].hRefCount = 0
          PROVE  chk'[c].hRefCount = 0
      <4>1. fence[c] = "none"
        BY <3>1, Unreferenced
      <4>2. c \notin inputs
        BY <4>1
      <4> QED
        BY <2>2, <3>1, <4>2
    <3>2. Moved(k) /\ Releasing(k)' \subseteq Releasing(k)
      BY <1>5, <1>9
    <3> QED
      BY <1>1, <2>2, <3>1, <3>2, PlacesStay
  <2> QED
    BY <1>9, <2>1, <2>2 DEF ResolveFence
<1> QED
  BY <1>4, <1>7, <1>8, <1>9 DEF KickStep

LEMMA PlacesKept ==
  ASSUME IInv, Next
  PROVE  Places'
<1>1. TypeOK /\ Places /\ PoolShape /\ ThreadShape
  BY DEF IInv
<1>2. Unbind \in Threads /\ Misr \in Threads /\ Misr # Unbind
  BY FiniteFacts
<1>3. ASSUME NEW k \in Kickers, Firmware(k)
      PROVE  Places'
  <2>1. SameRefs /\ UNCHANGED <<pool, deferred, allocated, th>>
    BY <1>3, RefsStay DEF Firmware
  <2>2. Moved(Unbind) /\ Releasing(Unbind)' \subseteq Releasing(Unbind)
    BY <1>1, <2>1, ThreadFits DEF Moved, Releasing, At
  <2> QED
    BY <1>1, <1>2, <2>1, <2>2, PlacesStay DEF SameRefs
<1>4. ASSUME NEW c \in Checkpoints, ForeignSignal(c)
      PROVE  Places'
  <2>1. SameRefs /\ UNCHANGED <<pool, deferred, allocated, th>>
    BY <1>4, RefsStay DEF ForeignSignal
  <2>2. Moved(Unbind) /\ Releasing(Unbind)' \subseteq Releasing(Unbind)
    BY <1>1, <2>1, ThreadFits DEF Moved, Releasing, At
  <2> QED
    BY <1>1, <1>2, <2>1, <2>2, PlacesStay DEF SameRefs
<1>5. ASSUME NEW c \in Checkpoints, FreeFence(c)
      PROVE  Places'
  <2>1. Unreffed(Misr, c) /\ th[Misr].pc = "idle"
    BY <1>5, FreeMoves
  <2>2. Releasing(Misr) = {}
    BY <2>1 DEF Releasing, At
  <2> QED
    BY <1>2, <2>1, <2>2, PlacesUnref
<1>6. CASE ContextDestroy
  <2>1. SameRefs /\ UNCHANGED <<pool, deferred, allocated>>
    BY <1>6, RefsStay DEF ContextDestroy, mem
  <2>2. Moved(Unbind) /\ th'[Unbind].pc = "check"
    BY <1>1, <1>6, OtherMoves
  <2>3. Releasing(Unbind)' \subseteq Releasing(Unbind)
    BY <2>2 DEF Releasing, At
  <2> QED
    BY <1>1, <1>2, <2>1, <2>2, <2>3, PlacesStay DEF SameRefs
<1>7. CASE ReadCount
  <2>1. SameRefs /\ UNCHANGED <<pool, deferred, allocated>>
    BY <1>7, RefsStay DEF ReadCount, DestroyStep
  <2>2. Moved(Unbind) /\ th'[Unbind].pc = "end"
    BY <1>1, <1>7, OtherMoves
  <2>3. Releasing(Unbind)' \subseteq Releasing(Unbind)
    BY <2>2 DEF Releasing, At
  <2> QED
    BY <1>1, <1>2, <2>1, <2>2, <2>3, PlacesStay DEF SameRefs
<1>8. /\ {} \in SUBSET Checkpoints /\ \A u \in Threads : {} \cap Releasing(u) = {}
      /\ Pooled \subseteq Checkpoints /\ deferred \subseteq Checkpoints
      /\ \A u \in Threads : Releasing(u) \subseteq Checkpoints
  BY <1>1, PooledIs DEF TypeOK, Releasing
<1>9. CASE CleanPool
  <2>1. SameRefs /\ UNCHANGED <<deferred, allocated>> /\ Pooled' = {}
    BY <1>1, <1>9, RefsStay, PoolEmptied DEF CleanPool, DestroyStep
  <2>2. Moved(Unbind) /\ th'[Unbind].work = Pooled
    BY <1>1, <1>9, CleanPoolMoves
  <2>3. Releasing(Unbind)' \subseteq Pooled
    BY <2>2 DEF Releasing
  <2>4. Pooled' \cap deferred' = {} /\ Releasing(Unbind)' \cap (Pooled' \cup deferred') = {}
    BY <1>1, <2>1, <2>3 DEF Places
  <2>5. \A c \in Pooled' \cup deferred' \cup Releasing(Unbind)' :
          c \in allocated' /\ chk'[c].hRefCount = 0
    BY <1>1, <1>8, <2>1, <2>3 DEF Places, SameRefs
  <2>6. \A u \in Threads \ {Unbind} : \A c \in Releasing(u) : c \in allocated' /\ chk'[c].hRefCount = 0
    BY <1>1, <1>8, <2>1 DEF Places, SameRefs
  <2>7. Pooled' \cup deferred' \cup Releasing(Unbind)'
          \subseteq {} \cup Pooled \cup deferred \cup Releasing(Unbind)
    BY <2>1, <2>3
  <2> QED
    BY <1>1, <1>2, <1>8, <2>2, <2>4, <2>5, <2>6, <2>7, PlacesMoved
<1>10. ASSUME NEW c \in Checkpoints, CleanOne(c)
       PROVE  Places'
  <2>1. /\ SameRefs /\ UNCHANGED <<pool, deferred>> /\ allocated' = allocated \ {c}
        /\ c \in Releasing(Unbind) /\ Releasing(Unbind) = th[Unbind].work
    BY <1>10, RefsStay DEF CleanOne, DestroyStep, Releasing
  <2>2. Moved(Unbind) /\ th'[Unbind].work = th[Unbind].work \ {c}
    BY <1>1, <1>10, CleanOneMoves
  <2>3. Releasing(Unbind)' \subseteq Releasing(Unbind) \ {c} /\ Pooled' = Pooled
    BY <2>1, <2>2 DEF Releasing, Pooled
  <2>4. /\ c \notin Pooled /\ c \notin deferred
        /\ \A u \in Threads \ {Unbind} : c \notin Releasing(u)
    BY <1>1, <1>2, <2>1 DEF Places
  <2>5. Pooled' \cap deferred' = {} /\ Releasing(Unbind)' \cap (Pooled' \cup deferred') = {}
    BY <1>1, <1>2, <2>1, <2>3 DEF Places
  <2>6. \A d \in Pooled' \cup deferred' \cup Releasing(Unbind)' :
          d \in allocated' /\ chk'[d].hRefCount = 0
    <3>1. \A d \in Pooled \cup deferred \cup Releasing(Unbind) :
            d \in allocated /\ chk'[d].hRefCount = 0
      BY <1>1, <1>2, <1>8, <2>1 DEF Places, SameRefs
    <3> QED
      BY <2>1, <2>3, <2>4, <3>1
  <2>7. \A u \in Threads \ {Unbind} : \A d \in Releasing(u) : d \in allocated' /\ chk'[d].hRefCount = 0
    <3>1. \A u \in Threads : \A d \in Releasing(u) : d \in allocated /\ chk'[d].hRefCount = 0
      BY <1>1, <1>8, <2>1 DEF Places, SameRefs
    <3> QED
      BY <2>1, <2>4, <3>1
  <2>8. Pooled' \cup deferred' \cup Releasing(Unbind)'
          \subseteq {} \cup Pooled \cup deferred \cup Releasing(Unbind)
    BY <2>1, <2>3
  <2> QED
    BY <1>1, <1>2, <1>8, <2>2, <2>5, <2>6, <2>7, <2>8, PlacesMoved
<1> QED
  BY <1>3, <1>4, <1>5, <1>6, <1>7, <1>9, <1>10, PlacesThread, PlacesKick DEF Next, DestroyStep

LEMMA KickFits ==
  ASSUME TypeOK
  PROVE  /\ kick \in [Kickers -> [in : SUBSET Checkpoints, out : Checkpoints \cup {None}]]
         /\ fence \in [Checkpoints -> {"none", "foreign", "fence", "dropped"}]
         /\ \A k \in Kickers : /\ kick[k] = [in |-> kick[k].in, out |-> kick[k].out]
                               /\ kick[k].in \subseteq Checkpoints
                               /\ kick[k].out \in Checkpoints \cup {None}
BY DEF TypeOK

LEMMA KicksSame ==
  ASSUME NEW t \in Threads, TypeOK, KickShape, Moved(t), kick' = kick,
         \A c \in Checkpoints : fence'[c] = fence[c] \/ Outputs(c) = {},
         t \in Kickers => th'[t].pc \notin {"idle", "create"}
  PROVE  KickShape'
<1>1. ASSUME NEW k \in Kickers
      PROVE  /\ th'[k].pc = "idle" => kick'[k] = NoKick
             /\ th'[k].pc = "create" => kick'[k].out = None
  <2>1. k \in Threads
    BY FiniteFacts
  <2>2. CASE k = t
    BY <2>2
  <2>3. CASE k # t
    BY <2>1, <2>3 DEF Moved, KickShape
  <2> QED
    BY <2>2, <2>3
<1>2. ASSUME NEW k \in Kickers, NEW c \in Checkpoints, kick'[k].out = c
      PROVE  fence'[c] = "none" /\ Inputs(c)' = {} /\ Outputs(c)' = {k}
  <2>1. fence[c] = "none" /\ Inputs(c) = {} /\ Outputs(c) = {k}
    BY <1>2 DEF KickShape
  <2>2. Inputs(c)' = Inputs(c) /\ Outputs(c)' = Outputs(c)
    BY DEF Inputs, Outputs
  <2> QED
    BY <2>1, <2>2
<1> QED
  BY <1>1, <1>2 DEF KickShape

(* Where a step of the calls that release checkpoints leads.               *)
LEMMA ThreadMoves ==
  ASSUME NEW t \in Threads, IInv, ThreadStep(t)
  PROVE  /\ Moved(t) /\ th[t].pc \in InUnref
         /\ t \in Kickers => th'[t].pc \in {"check", "leave", "reclaim", "count", "deref"}
         /\ t = Misr => th'[t].pc \in {"check", "leave", "reclaim", "count", "idle"}
         /\ t = Unbind => th'[t].pc \in {"check", "reclaim", "count", "pool", "clean", "read"}
<1>1. TypeOK /\ ThreadShape
  BY DEF IInv
<1>2. /\ Misr # Unbind /\ Misr \notin Kickers /\ Unbind \notin Kickers
      /\ t \in Kickers \/ t = Misr \/ t = Unbind
  BY FiniteFacts DEF Threads
<1>3. th[t].pc \in InUnref
  BY <1>1 DEF ThreadStep, Defer, CountFreed, CheckDeferred, LeaveUnref, Reclaim, At, InUnref
<1>4. /\ t # Unbind => th[t].after \in {"check", "leave"}
      /\ t = Unbind => /\ th[t].pc \in {"check", "reclaim", "count"}
                       /\ th[t].pc = "reclaim" => th[t].after = "pool"
                       /\ th[t].pc = "count" => th[t].after \in {"pool", "read"}
  BY <1>1, <1>3 DEF ThreadShape, InUnref
<1>5. CASE Defer(t)
  BY <1>1, <1>2, <1>3, <1>5, DeferMoves
<1>6. CASE CountFreed(t)
  <2>1. /\ Moved(t) /\ th[t].pc = "count"
        /\ th'[t].pc = IF th[t].work = {} THEN th[t].after
                       ELSE IF th[t].after = "read" THEN "clean" ELSE "reclaim"
    BY <1>1, <1>6, CountMoves DEF CountFreed, At
  <2> QED
    BY <1>2, <1>3, <1>4, <2>1
<1>7. CASE CheckDeferred(t)
  <2>1. Moved(t) /\ th'[t].pc = (IF Ready = {} THEN AfterCheck(t) ELSE "reclaim")
    BY <1>1, <1>7, CheckMoves
  <2> QED
    BY <1>2, <1>3, <2>1 DEF AfterCheck
<1>8. CASE LeaveUnref(t)
  <2>1. Moved(t) /\ th'[t].pc = (IF t = Misr THEN "idle" ELSE "deref") /\ th[t].pc = "leave"
    BY <1>1, <1>8, OtherMoves DEF LeaveUnref, At
  <2> QED
    BY <1>2, <1>3, <1>4, <2>1
<1>9. ASSUME NEW c \in Checkpoints, Reclaim(t, c)
      PROVE  /\ Moved(t)
             /\ t \in Kickers => th'[t].pc \in {"check", "leave", "reclaim", "count", "deref"}
             /\ t = Misr => th'[t].pc \in {"check", "leave", "reclaim", "count", "idle"}
             /\ t = Unbind => th'[t].pc \in {"check", "reclaim", "count", "pool", "clean", "read"}
  <2>1. /\ Moved(t) /\ th[t].pc = "reclaim"
        /\ th'[t].pc = IF pool.full THEN "count"
                       ELSE IF th[t].work \ {c} = {} THEN th[t].after ELSE "reclaim"
    BY <1>1, <1>9, ReclaimMoves DEF Reclaim, At
  <2> QED
    BY <1>2, <1>4, <2>1
<1> QED
  BY <1>3, <1>5, <1>6, <1>7, <1>8, <1>9 DEF ThreadStep

LEMMA DestroyMoves ==
  ASSUME IInv, ContextDestroy \/ DestroyStep
  PROVE  /\ Moved(Unbind) /\ th[Unbind].pc \in {"idle", "pool", "clean", "read"}
         /\ th'[Unbind].pc \in {"check", "read", "clean", "count", "end"}
         /\ UNCHANGED <<chk, deferred, fence, kick, ccb, late>>
<1>1. TypeOK /\ PoolShape
  BY DEF IInv
<1>2. ContextDestroy => Moved(Unbind) /\ th'[Unbind].pc = "check" /\ th[Unbind].pc = "idle"
  BY <1>1, OtherMoves DEF ContextDestroy, At
<1>3. CleanPool => Moved(Unbind) /\ th'[Unbind].pc \in {"read", "clean"} /\ th[Unbind].pc = "pool"
  BY <1>1, CleanPoolMoves DEF CleanPool, At
<1>4. ReadCount => Moved(Unbind) /\ th'[Unbind].pc = "end" /\ th[Unbind].pc = "read"
  BY <1>1, OtherMoves DEF ReadCount, At
<1>5. ASSUME NEW c \in Checkpoints, CleanOne(c)
      PROVE  Moved(Unbind) /\ th'[Unbind].pc = "count" /\ th[Unbind].pc = "clean"
  BY <1>1, <1>5, CleanOneMoves DEF CleanOne, At
<1>6. UNCHANGED <<chk, deferred, fence, kick, ccb, late>>
  BY DEF ContextDestroy, DestroyStep, CleanPool, ReadCount, CleanOne, mem
<1> QED
  BY <1>2, <1>3, <1>4, <1>5, <1>6 DEF DestroyStep

LEMMA KickShapeKick ==
  ASSUME NEW k \in Kickers, IInv, ResolveFence(k) \/ KickStep(k)
  PROVE  KickShape'
<1>1. TypeOK /\ KickShape /\ ThreadShape /\ k \in Threads
  BY FiniteFacts DEF IInv
<1>2. /\ kick \in [Kickers -> [in : SUBSET Checkpoints, out : Checkpoints \cup {None}]]
      /\ fence \in [Checkpoints -> {"none", "foreign", "fence", "dropped"}]
      /\ kick[k] = [in |-> kick[k].in, out |-> kick[k].out]
      /\ None \notin Checkpoints
  BY <1>1, KickFits, FiniteFacts
<1>3. ASSUME Moved(k),
             \A j \in Kickers \ {k} : kick'[j] = kick[j],
             th'[k].pc = "idle" => kick'[k] = NoKick,
             th'[k].pc = "create" => kick'[k].out = None,
             \A j \in Kickers, c \in Checkpoints :
               kick'[j].out = c => fence'[c] = "none" /\ Inputs(c)' = {} /\ Outputs(c)' = {j}
      PROVE  KickShape'
  <2>1. \A j \in Kickers \ {k} : th'[j] = th[j]
    BY <1>3, FiniteFacts DEF Moved
  <2>2. ASSUME NEW j \in Kickers
        PROVE  /\ th'[j].pc = "idle" => kick'[j] = NoKick
               /\ th'[j].pc = "create" => kick'[j].out = None
    <3>1. CASE j = k
      BY <1>3, <3>1
    <3>2. CASE j # k
      BY <1>1, <1>3, <2>1, <3>2 DEF KickShape
    <3> QED
      BY <3>1, <3>2
  <2> QED
    BY <1>3, <2>2 DEF KickShape
<1>4. CASE CommitCommands(k) \/ ScheduleCommand(k)
  <2>1. Moved(k) /\ th'[k].pc \notin {"idle", "create"}
    BY <1>1, <1>4, KickMoves
  <2>2. kick' = kick /\ fence' = fence
    BY <1>4 DEF CommitCommands, ScheduleCommand
  <2> QED
    BY <1>1, <2>1, <2>2, KicksSame
<1>5. CASE DeRefCheckpoint(k)
  <2>1. PICK c \in Checkpoints : /\ c \in kick[k].in /\ Unreffed(k, c)
                                 /\ kick' = [kick EXCEPT ![k].in = @ \ {c}] /\ fence' = fence
    BY <1>5, DeRefMoves
  <2>2. Moved(k) /\ th'[k].pc \notin {"idle", "create"}
    BY <2>1 DEF Unreffed
  <2>3. /\ \A j \in Kickers : kick'[j].out = kick[j].out /\ kick'[j].in \subseteq kick[j].in
        /\ \A j \in Kickers \ {k} : kick'[j] = kick[j]
    BY <1>2, <2>1
  <2>4. \A d \in Checkpoints : Outputs(d)' = Outputs(d) /\ Inputs(d)' \subseteq Inputs(d)
    BY <2>3 DEF Outputs, Inputs
  <2>5. \A j \in Kickers, d \in Checkpoints :
          kick'[j].out = d => fence'[d] = "none" /\ Inputs(d)' = {} /\ Outputs(d)' = {j}
    BY <1>1, <2>1, <2>3, <2>4 DEF KickShape
  <2> QED
    BY <1>3, <2>2, <2>3, <2>5
<1>6. CASE RollbackCheckpoints(k) \/ FinaliseFence(k)
  <2>1. /\ Moved(k) /\ th'[k].pc \in {"deref", "idle"}
        /\ th'[k].pc = "idle" => FinaliseFence(k)
    BY <1>1, <1>6, KickMoves
  <2>2. /\ \A j \in Kickers \ {k} : kick'[j] = kick[j]
        /\ kick'[k].out = None /\ kick'[k].in \subseteq kick[k].in
        /\ FinaliseFence(k) => kick'[k] = NoKick
        /\ \A d \in Checkpoints : d # kick[k].out => fence'[d] = fence[d]
    <3>1. CASE RollbackCheckpoints(k)
      <4>1. /\ kick' = [kick EXCEPT ![k].out = None]
            /\ fence' = [c \in Checkpoints |-> IF c = kick[k].out THEN "dropped" ELSE fence[c]]
        BY <3>1 DEF RollbackCheckpoints
      <4>2. ~FinaliseFence(k)
        BY <3>1 DEF RollbackCheckpoints, FinaliseFence, At
      <4> QED
        BY <1>2, <4>1, <4>2
    <3>2. CASE FinaliseFence(k)
      <4>1. /\ kick' = [kick EXCEPT ![k] = NoKick]
            /\ fence' = [c \in Checkpoints |-> IF c = kick[k].out THEN "fence" ELSE fence[c]]
        BY <3>2 DEF FinaliseFence
      <4>2. kick'[k] = NoKick /\ NoKick.out = None /\ NoKick.in = {}
        BY <1>2, <4>1 DEF NoKick
      <4> QED
        BY <1>2, <4>1, <4>2
    <3> QED
      BY <1>6, <3>1, <3>2
  <2>3. ASSUME NEW j \in Kickers, NEW d \in Checkpoints, kick'[j].out = d
        PROVE  fence'[d] = "none" /\ Inputs(d)' = {} /\ Outputs(d)' = {j}
    <3>1. j # k /\ kick[j].out = d
      BY <1>2, <2>2, <2>3
    <3>2. fence[d] = "none" /\ Inputs(d) = {} /\ Outputs(d) = {j}
      BY <1>1, <3>1 DEF KickShape
    <3>3. kick[k].out # d
      BY <3>1, <3>2 DEF Outputs
    <3>4. Inputs(d)' \subseteq Inputs(d)
      BY <2>2 DEF Inputs
    <3>5. Outputs(d)' = Outputs(d)
      BY <1>2, <2>2, <3>3 DEF Outputs
    <3> QED
      BY <2>2, <3>2, <3>3, <3>4, <3>5
  <2> QED
    BY <1>3, <2>1, <2>2, <2>3
<1>7. CASE CreateFence(k)
  <2>1. Moved(k) /\ th'[k].pc \notin {"idle", "create"} /\ fence' = fence
    BY <1>1, <1>7, KickMoves DEF CreateFence
  <2>2. CASE kick' = kick
    BY <1>1, <2>1, <2>2, KicksSame
  <2>3. ASSUME NEW c \in Checkpoints, Alloc(c, 1), kick' = [kick EXCEPT ![k].out = c]
        PROVE  KickShape'
    <3>1. fence[c] = "none" /\ Inputs(c) = {} /\ Outputs(c) = {}
      BY <2>3, AllocTakes
    <3>2. kick[k].out = None
      BY <1>1, <1>7 DEF KickShape, CreateFence, At
    <3>3. /\ \A j \in Kickers \ {k} : kick'[j] = kick[j]
          /\ kick'[k].out = c /\ kick'[k].in = kick[k].in
      BY <1>2, <2>3
    <3>4. \A d \in Checkpoints : Inputs(d)' = Inputs(d)
      BY <3>3 DEF Inputs
    <3>5. Outputs(c)' = {k}
      BY <3>1, <3>3 DEF Outputs
    <3>6. \A d \in Checkpoints \ {c} : Outputs(d)' = Outputs(d)
      BY <1>2, <3>2, <3>3 DEF Outputs
    <3>7. ASSUME NEW j \in Kickers, NEW d \in Checkpoints, kick'[j].out = d
          PROVE  fence'[d] = "none" /\ Inputs(d)' = {} /\ Outputs(d)' = {j}
      <4>1. CASE d = c
        BY <2>1, <3>1, <3>4, <3>5, <3>7, <4>1 DEF Outputs
      <4>2. CASE d # c
        <5>1. j # k /\ kick[j].out = d
          BY <3>3, <3>7, <4>2
        <5>2. fence[d] = "none" /\ Inputs(d) = {} /\ Outputs(d) = {j}
          BY <1>1, <5>1 DEF KickShape
        <5> QED
          BY <2>1, <3>4, <3>6, <4>2, <5>2
      <4> QED
        BY <4>1, <4>2
    <3> QED
      BY <1>3, <2>1, <3>3, <3>7
  <2> QED
    BY <1>7, <2>2, <2>3 DEF CreateFence
<1>8. CASE ResolveFence(k)
  <2>1. Moved(k) /\ th'[k].pc = "create"
    BY <1>1, <1>8, KickMoves
  <2>2. kick[k].out = None
    BY <1>1, <1>8 DEF KickShape, ResolveFence, At, NoKick
  <2>3. ASSUME NEW ins \in SUBSET Checkpoints, kick' = [kick EXCEPT ![k].in = ins],
               \A d \in ins : Outputs(d) = {},
               \A d \in Checkpoints : fence'[d] = fence[d] \/ Outputs(d) = {}
        PROVE  KickShape'
    <3>1. /\ \A j \in Kickers \ {k} : kick'[j] = kick[j]
          /\ kick'[k].out = None /\ kick'[k].in = ins
      BY <1>2, <2>2, <2>3
    <3>2. \A d \in Checkpoints : Outputs(d)' = Outputs(d)
      BY <2>2, <3>1 DEF Outputs
    <3>3. ASSUME NEW j \in Kickers, NEW d \in Checkpoints, kick'[j].out = d
          PROVE  fence'[d] = "none" /\ Inputs(d)' = {} /\ Outputs(d)' = {j}
      <4>1. j # k /\ kick[j].out = d
        BY <1>2, <3>1, <3>3
      <4>2. fence[d] = "none" /\ Inputs(d) = {} /\ Outputs(d) = {j}
        BY <1>1, <4>1 DEF KickShape
      <4>3. d \notin ins /\ fence'[d] = fence[d]
        BY <2>3, <4>2
      <4>4. Inputs(d)' = {}
        BY <3>1, <4>2, <4>3 DEF Inputs
      <4> QED
        BY <3>2, <4>2, <4>3, <4>4
    <3>4. th'[k].pc # "idle"
      BY <2>1
    <3> QED
      BY <1>3, <2>1, <3>1, <3>3, <3>4
  <2>4. ASSUME NEW inputs \in SUBSET {c \in Checkpoints : fence[c] = "fence"},
               kick' = [kick EXCEPT ![k].in = inputs], fence' = fence
        PROVE  KickShape'
    <3>1. ASSUME NEW d \in inputs
          PROVE  Outputs(d) = {}
      <4>1. d \in Checkpoints /\ fence[d] # "none"
        BY <3>1
      <4> QED
        BY <1>1, <4>1 DEF KickShape, Outputs
    <3>2. inputs \in SUBSET Checkpoints
      OBVIOUS
    <3> QED
      BY <2>3, <2>4, <3>1, <3>2
  <2>5. ASSUME NEW c \in Checkpoints, Alloc(c, 2), fence' = [fence EXCEPT ![c] = "foreign"],
               kick' = [kick EXCEPT ![k].in = {c}]
        PROVE  KickShape'
    <3>1. Outputs(c) = {}
      BY <2>5, AllocTakes
    <3>2. \A d \in Checkpoints : fence'[d] = fence[d] \/ Outputs(d) = {}
      BY <1>2, <2>5, <3>1
    <3> QED
      BY <2>3, <2>5, <3>1, <3>2
  <2> QED
    BY <1>8, <2>4, <2>5 DEF ResolveFence
<1> QED
  BY <1>4, <1>5, <1>6, <1>7, <1>8 DEF KickStep

LEMMA KickShapeKept ==
  ASSUME IInv, Next
  PROVE  KickShape'
<1>1. TypeOK /\ KickShape /\ ThreadShape /\ PoolShape
  BY DEF IInv
<1>2. Unbind \in Threads /\ Misr \in Threads /\ Unbind \notin Kickers /\ Misr \notin Kickers
      /\ \A k \in Kickers : k \in Threads
  BY FiniteFacts
<1>3. ASSUME NEW t \in Threads, ThreadStep(t)
      PROVE  KickShape'
  <2>1. kick' = kick /\ fence' = fence
    BY <1>3 DEF ThreadStep, Defer, CountFreed, CheckDeferred, LeaveUnref, Reclaim
  <2>2. Moved(t) /\ (t \in Kickers => th'[t].pc \notin {"idle", "create"})
    BY <1>3, ThreadMoves
  <2> QED
    BY <1>1, <2>1, <2>2, KicksSame
<1>4. ASSUME NEW k \in Kickers, Firmware(k)
      PROVE  KickShape'
  <2>1. Moved(Unbind) /\ kick' = kick /\ fence' = fence
    BY <1>1, <1>4, ThreadFits DEF Firmware, Moved
  <2> QED
    BY <1>1, <1>2, <2>1, KicksSame
<1>5. ASSUME NEW c \in Checkpoints, ForeignSignal(c)
      PROVE  KickShape'
  <2>1. Moved(Unbind) /\ kick' = kick /\ fence' = [fence EXCEPT ![c] = "dropped"]
        /\ fence[c] = "foreign"
    BY <1>1, <1>5, ThreadFits DEF ForeignSignal, Moved
  <2>2. Outputs(c) = {}
    BY <1>1, <2>1 DEF KickShape, Outputs
  <2>3. \A d \in Checkpoints : fence'[d] = fence[d] \/ Outputs(d) = {}
    BY <1>1, <2>1, <2>2, KickFits
  <2> QED
    BY <1>1, <1>2, <2>1, <2>3, KicksSame
<1>6. ASSUME NEW c \in Checkpoints, FreeFence(c)
      PROVE  KickShape'
  <2>1. Unreffed(Misr, c) /\ kick' = kick /\ fence' = [fence EXCEPT ![c] = "none"]
        /\ fence[c] # "none"
    BY <1>6, FreeMoves
  <2>2. Outputs(c) = {}
    BY <1>1, <2>1 DEF KickShape, Outputs
  <2>3. \A d \in Checkpoints : fence'[d] = fence[d] \/ Outputs(d) = {}
    BY <1>1, <2>1, <2>2, KickFits
  <2> QED
    BY <1>1, <1>2, <2>1, <2>3, KicksSame DEF Unreffed
<1>7. CASE ContextDestroy \/ DestroyStep
  <2>1. Moved(Unbind) /\ kick' = kick /\ fence' = fence
    BY <1>7, DestroyMoves
  <2> QED
    BY <1>1, <1>2, <2>1, KicksSame
<1> QED
  BY <1>3, <1>4, <1>5, <1>6, <1>7, KickShapeKick DEF Next

LEMMA RefsSame ==
  ASSUME NEW c \in Checkpoints, RefsCounted, chk'[c].hRefCount = chk[c].hRefCount,
         Inputs(c)' = Inputs(c), Created(c)' = Created(c)
  PROVE  chk'[c].hRefCount = Cardinality(Inputs(c)') + Created(c)'
BY DEF RefsCounted

LEMMA RefsKick ==
  ASSUME NEW k \in Kickers, IInv, ResolveFence(k) \/ KickStep(k)
  PROVE  RefsCounted'
<1>1. TypeOK /\ KickShape /\ RefsCounted /\ k \in Threads
  BY FiniteFacts DEF IInv
<1>2. /\ kick \in [Kickers -> [in : SUBSET Checkpoints, out : Checkpoints \cup {None}]]
      /\ fence \in [Checkpoints -> {"none", "foreign", "fence", "dropped"}]
      /\ kick[k] = [in |-> kick[k].in, out |-> kick[k].out]
      /\ None \notin Checkpoints /\ IsFiniteSet(Kickers)
  BY <1>1, KickFits, FiniteFacts
<1>3. SUFFICES ASSUME NEW d \in Checkpoints
               PROVE  chk'[d].hRefCount = Cardinality(Inputs(d)') + Created(d)'
  BY DEF RefsCounted
<1>4. Inputs(d) \in SUBSET Kickers /\ Cardinality(Inputs(d)) \in Nat
  <2>1. Inputs(d) \in SUBSET Kickers
    BY DEF Inputs
  <2> QED
    BY <1>2, <2>1, AtMost
<1>5. ASSUME chk'[d].hRefCount = chk[d].hRefCount, kick' = kick, fence' = fence
      PROVE  chk'[d].hRefCount = Cardinality(Inputs(d)') + Created(d)'
  <2>1. Inputs(d)' = Inputs(d) /\ Created(d)' = Created(d)
    BY <1>5 DEF Inputs, Outputs, Created
  <2> QED
    BY <1>1, <1>5, <2>1, RefsSame
<1>6. CASE CommitCommands(k) \/ ScheduleCommand(k)
  <2>1. SameRefs /\ kick' = kick /\ fence' = fence
    BY <1>6, RefsStay DEF CommitCommands, ScheduleCommand
  <2> QED
    BY <1>5, <2>1 DEF SameRefs
<1>7. CASE DeRefCheckpoint(k)
  <2>1. PICK c \in Checkpoints : /\ c \in kick[k].in /\ Unreffed(k, c)
                                 /\ kick' = [kick EXCEPT ![k].in = @ \ {c}] /\ fence' = fence
    BY <1>7, DeRefMoves
  <2>2. /\ chk' = [chk EXCEPT ![c].hRefCount = @ - 1] /\ chk[c].hRefCount \in Nat \ {0}
        /\ chk \in [Checkpoints -> [hRefCount : 0..(Cardinality(Kickers) + 1),
                              hEnqueuedCCBCount : 0..(MaxEnqueued + Cardinality(Kickers)),
                              ui32FwRefCount : Nat,
                              ui32State : {"UNDEF", "ACTIVE", "SIGNALLED"},
                              listed : BOOLEAN]]
    BY <1>1, <2>1 DEF Unreffed, TypeOK
  <2>3. /\ kick'[k].in = kick[k].in \ {c}
        /\ \A j \in Kickers : kick'[j].out = kick[j].out
        /\ \A j \in Kickers \ {k} : kick'[j] = kick[j]
    BY <1>2, <2>1
  <2>4. Created(d)' = Created(d)
    BY <2>1, <2>3 DEF Created, Outputs
  <2>5. CASE d = c
    <3>1. Inputs(d)' = Inputs(d) \ {k} /\ k \in Inputs(d)
      BY <2>1, <2>3, <2>5 DEF Inputs
    <3>2. Cardinality(Inputs(d)') = Cardinality(Inputs(d)) - 1
      BY <1>2, <1>4, <3>1, OneLess
    <3>3. chk'[d].hRefCount = chk[d].hRefCount - 1
      BY <2>2, <2>5
    <3>4. chk[d].hRefCount = Cardinality(Inputs(d)) + Created(d)
      BY <1>1 DEF RefsCounted
    <3>5. Created(d) \in {0, 1}
      BY DEF Created
    <3> QED
      BY <1>4, <2>4, <3>2, <3>3, <3>4, <3>5
  <2>6. CASE d # c
    <3>1. Inputs(d)' = Inputs(d)
      BY <2>3, <2>6 DEF Inputs
    <3>2. chk'[d].hRefCount = chk[d].hRefCount
      BY <2>2, <2>6
    <3> QED
      BY <1>1, <2>4, <3>1, <3>2, RefsSame
  <2> QED
    BY <2>5, <2>6
<1>8. CASE RollbackCheckpoints(k) \/ FinaliseFence(k)
  <2>1. chk'[d].hRefCount = chk[d].hRefCount
    BY <1>8, RefsStay DEF SameRefs
  <2>2. /\ \A j \in Kickers \ {k} : kick'[j] = kick[j]
        /\ kick'[k].out = None /\ kick'[k].in = kick[k].in
        /\ d # kick[k].out => fence'[d] = fence[d]
    <3>1. CASE RollbackCheckpoints(k)
      <4>1. /\ kick' = [kick EXCEPT ![k].out = None]
            /\ fence' = [c \in Checkpoints |-> IF c = kick[k].out THEN "dropped" ELSE fence[c]]
        BY <3>1 DEF RollbackCheckpoints
      <4> QED
        BY <1>2, <4>1
    <3>2. CASE FinaliseFence(k)
      <4>1. /\ kick' = [kick EXCEPT ![k] = NoKick] /\ kick[k].in = {}
            /\ fence' = [c \in Checkpoints |-> IF c = kick[k].out THEN "fence" ELSE fence[c]]
        BY <3>2 DEF FinaliseFence
      <4>2. kick'[k] = NoKick /\ NoKick.out = None /\ NoKick.in = {}
        BY <1>2, <4>1 DEF NoKick
      <4> QED
        BY <1>2, <4>1, <4>2
    <3> QED
      BY <1>8, <3>1, <3>2
  <2>3. Inputs(d)' = Inputs(d)
    BY <2>2 DEF Inputs
  <2>4. Outputs(d)' = Outputs(d) \ {k}
    BY <1>2, <2>2 DEF Outputs
  <2>5. Created(d)' = Created(d)
    <3>1. CASE d = kick[k].out
      <4>1. fence[d] = "none" /\ Outputs(d) = {k}
        BY <1>1, <3>1 DEF KickShape
      <4>2. fence'[d] # "none"
        BY <1>8, <3>1 DEF RollbackCheckpoints, FinaliseFence
      <4> QED
        BY <4>1, <4>2 DEF Created
    <3>2. CASE d # kick[k].out
      <4>1. Outputs(d)' = Outputs(d)
        BY <2>4, <3>2 DEF Outputs
      <4> QED
        BY <2>2, <3>2, <4>1 DEF Created
    <3> QED
      BY <3>1, <3>2
  <2> QED
    BY <1>1, <2>1, <2>3, <2>5, RefsSame
<1>9. CASE CreateFence(k)
  <2>1. fence' = fence
    BY <1>9 DEF CreateFence
  <2>2. CASE UNCHANGED <<mem, kick>>
    BY <1>5, <2>1, <2>2 DEF mem
  <2>3. ASSUME NEW c \in Checkpoints, Alloc(c, 1), kick' = [kick EXCEPT ![k].out = c]
        PROVE  chk'[d].hRefCount = Cardinality(Inputs(d)') + Created(d)'
    <3>1. fence[c] = "none" /\ Inputs(c) = {} /\ Outputs(c) = {}
      BY <2>3, AllocTakes
    <3>2. kick[k].out = None
      BY <1>1, <1>9 DEF KickShape, CreateFence, At
    <3>3. /\ \A j \in Kickers \ {k} : kick'[j] = kick[j]
          /\ kick'[k].out = c /\ kick'[k].in = kick[k].in
      BY <1>2, <2>3
    <3>4. Inputs(d)' = Inputs(d)
      BY <3>3 DEF Inputs
    <3>5. CASE d = c
      <4>1. chk'[d].hRefCount = 1
        BY <1>1, <2>3, <3>5 DEF Alloc, TypeOK
      <4>2. Created(d)' = 1
        BY <3>3, <3>5 DEF Created, Outputs
      <4> QED
        BY <3>1, <3>4, <3>5, <4>1, <4>2, FS_EmptySet
    <3>6. CASE d # c
      <4>1. chk'[d].hRefCount = chk[d].hRefCount
        BY <1>1, <2>3, <3>6 DEF Alloc, TypeOK
      <4>2. Outputs(d)' = Outputs(d)
        BY <1>2, <3>2, <3>3, <3>6 DEF Outputs
      <4>3. Created(d)' = Created(d)
        BY <2>1, <4>2 DEF Created
      <4> QED
        BY <1>1, <3>4, <4>1, <4>3, RefsSame
    <3> QED
      BY <3>5, <3>6
  <2> QED
    BY <1>9, <2>2, <2>3 DEF CreateFence
<1>10. CASE ResolveFence(k)
  <2>1. kick[k].in = {} /\ kick[k].out = None
    BY <1>1, <1>10 DEF KickShape, ResolveFence, At, NoKick
  <2>2. ASSUME NEW inputs \in SUBSET {c \in Checkpoints : fence[c] = "fence"},
               chk' = [c \in Checkpoints |->
                 IF c \in inputs THEN [chk[c] EXCEPT !.hRefCount = @ + 1] ELSE chk[c]],
               kick' = [kick EXCEPT ![k].in = inputs], fence' = fence
        PROVE  chk'[d].hRefCount = Cardinality(Inputs(d)') + Created(d)'
    <3>1. /\ kick'[k].in = inputs /\ kick'[k].out = kick[k].out
          /\ \A j \in Kickers \ {k} : kick'[j] = kick[j]
      BY <1>2, <2>2
    <3>2. Created(d)' = Created(d)
      BY <2>2, <3>1 DEF Created, Outputs
    <3>3. CASE d \in inputs
      <4>1. Inputs(d)' = Inputs(d) \cup {k} /\ k \notin Inputs(d)
        BY <2>1, <3>1, <3>3 DEF Inputs
      <4>2. Cardinality(Inputs(d)') = Cardinality(Inputs(d)) + 1
        BY <1>2, <1>4, <4>1, OneMore
      <4>3. chk[d] \in [hRefCount : 0..(Cardinality(Kickers) + 1),
                        hEnqueuedCCBCount : 0..(MaxEnqueued + Cardinality(Kickers)),
                        ui32FwRefCount : Nat,
                        ui32State : {"UNDEF", "ACTIVE", "SIGNALLED"},
                        listed : BOOLEAN]
        BY <1>1 DEF TypeOK
      <4>4. chk'[d].hRefCount = chk[d].hRefCount + 1
        BY <2>2, <3>3, <4>3
      <4>5. chk[d].hRefCount = Cardinality(Inputs(d)) + Created(d)
        BY <1>1 DEF RefsCounted
      <4>6. Created(d) \in {0, 1}
        BY DEF Created
      <4> QED
        BY <1>4, <3>2, <4>2, <4>4, <4>5, <4>6
    <3>4. CASE d \notin inputs
      <4>1. Inputs(d)' = Inputs(d)
        BY <2>1, <3>1, <3>4 DEF Inputs
      <4>2. chk'[d].hRefCount = chk[d].hRefCount
        BY <2>2, <3>4
      <4> QED
        BY <1>1, <3>2, <4>1, <4>2, RefsSame
    <3> QED
      BY <3>3, <3>4
  <2>3. ASSUME NEW c \in Checkpoints, Alloc(c, 2), fence' = [fence EXCEPT ![c] = "foreign"],
               kick' = [kick EXCEPT ![k].in = {c}]
        PROVE  chk'[d].hRefCount = Cardinality(Inputs(d)') + Created(d)'
    <3>1. Inputs(c) = {}
      BY <2>3, AllocTakes
    <3>2. /\ kick'[k].in = {c} /\ kick'[k].out = kick[k].out
          /\ \A j \in Kickers \ {k} : kick'[j] = kick[j]
      BY <1>2, <2>3
    <3>3. CASE d = c
      <4>1. chk'[d].hRefCount = 2
        BY <1>1, <2>3, <3>3 DEF Alloc, TypeOK
      <4>2. Created(d)' = 1
        BY <1>2, <2>3, <3>3 DEF Created
      <4>3. Inputs(d)' = {k}
        BY <3>1, <3>2, <3>3 DEF Inputs
      <4>4. Cardinality({k}) = 1
        BY FS_Singleton
      <4> QED
        BY <4>1, <4>2, <4>3, <4>4
    <3>4. CASE d # c
      <4>1. chk'[d].hRefCount = chk[d].hRefCount
        BY <1>1, <2>3, <3>4 DEF Alloc, TypeOK
      <4>2. Inputs(d)' = Inputs(d)
        BY <2>1, <3>2, <3>4 DEF Inputs
      <4>3. fence'[d] = fence[d] /\ Outputs(d)' = Outputs(d)
        BY <1>2, <2>3, <3>2, <3>4 DEF Outputs
      <4>4. Created(d)' = Created(d)
        BY <4>3 DEF Created
      <4> QED
        BY <1>1, <4>1, <4>2, <4>4, RefsSame
    <3> QED
      BY <3>3, <3>4
  <2> QED
    BY <1>10, <2>2, <2>3 DEF ResolveFence
<1> QED
  BY <1>6, <1>7, <1>8, <1>9, <1>10 DEF KickStep

LEMMA RefsKept ==
  ASSUME IInv, Next
  PROVE  RefsCounted'
<1>1. TypeOK /\ KickShape /\ RefsCounted
  BY DEF IInv
<1>2. ASSUME SameRefs, kick' = kick, \A d \in Checkpoints : (fence'[d] = "none") <=> (fence[d] = "none")
      PROVE  RefsCounted'
  <2>1. ASSUME NEW d \in Checkpoints
        PROVE  chk'[d].hRefCount = Cardinality(Inputs(d)') + Created(d)'
    <3>1. Inputs(d)' = Inputs(d) /\ Outputs(d)' = Outputs(d)
      BY <1>2 DEF Inputs, Outputs
    <3>2. Created(d)' = Created(d)
      BY <1>2, <3>1 DEF Created
    <3> QED
      BY <1>1, <1>2, <3>1, <3>2, RefsSame DEF SameRefs
  <2> QED
    BY <2>1 DEF RefsCounted
<1>3. ASSUME NEW t \in Threads, ThreadStep(t)
      PROVE  RefsCounted'
  <2>1. kick' = kick /\ fence' = fence /\ SameRefs
    BY <1>3, RefsStay DEF ThreadStep, Defer, CountFreed, CheckDeferred, LeaveUnref, Reclaim
  <2> QED
    BY <1>2, <2>1
<1>4. ASSUME NEW k \in Kickers, Firmware(k)
      PROVE  RefsCounted'
  <2>1. kick' = kick /\ fence' = fence /\ SameRefs
    BY <1>4, RefsStay DEF Firmware
  <2> QED
    BY <1>2, <2>1
<1>5. ASSUME NEW c \in Checkpoints, ForeignSignal(c)
      PROVE  RefsCounted'
  <2>1. /\ kick' = kick /\ fence' = [fence EXCEPT ![c] = "dropped"] /\ SameRefs
        /\ fence[c] = "foreign"
    BY <1>5, RefsStay DEF ForeignSignal
  <2>2. \A d \in Checkpoints : (fence'[d] = "none") <=> (fence[d] = "none")
    BY <1>1, <2>1, KickFits
  <2> QED
    BY <1>2, <2>1, <2>2
<1>6. ASSUME NEW c \in Checkpoints, FreeFence(c)
      PROVE  RefsCounted'
  <2>1. /\ Unreffed(Misr, c) /\ kick' = kick /\ fence' = [fence EXCEPT ![c] = "none"]
        /\ fence[c] # "none"
    BY <1>6, FreeMoves
  <2>2. Outputs(c) = {}
    BY <1>1, <2>1 DEF KickShape, Outputs
  <2>3. ASSUME NEW d \in Checkpoints
        PROVE  chk'[d].hRefCount = Cardinality(Inputs(d)') + Created(d)'
    <3>1. Inputs(d)' = Inputs(d) /\ Outputs(d)' = Outputs(d)
      BY <2>1 DEF Inputs, Outputs
    <3>2. chk' = [chk EXCEPT ![c].hRefCount = @ - 1]
      BY <2>1 DEF Unreffed
    <3>3. CASE d = c
      <4>1. chk'[d].hRefCount = chk[d].hRefCount - 1
        BY <1>1, <3>2, <3>3 DEF TypeOK
      <4>2. Created(d) = 1 /\ Created(d)' = 0
        BY <1>1, <2>1, <2>2, <3>1, <3>3, KickFits DEF Created
      <4>3. Cardinality(Inputs(d)) \in Nat
        <5>1. Inputs(d) \in SUBSET Kickers
          BY DEF Inputs
        <5> QED
          BY <5>1, AtMost, FiniteFacts
      <4>4. chk[d].hRefCount = Cardinality(Inputs(d)) + Created(d)
        BY <1>1 DEF RefsCounted
      <4> QED
        BY <3>1, <4>1, <4>2, <4>3, <4>4
    <3>4. CASE d # c
      <4>1. chk'[d].hRefCount = chk[d].hRefCount
        BY <1>1, <3>2, <3>4 DEF TypeOK
      <4>2. Created(d)' = Created(d)
        BY <1>1, <2>1, <3>1, <3>4, KickFits DEF Created
      <4> QED
        BY <1>1, <3>1, <4>1, <4>2, RefsSame
    <3> QED
      BY <3>3, <3>4
  <2> QED
    BY <2>3 DEF RefsCounted
<1>7. CASE ContextDestroy \/ DestroyStep
  <2>1. kick' = kick /\ fence' = fence /\ SameRefs
    BY <1>7, DestroyMoves, RefsStay
  <2> QED
    BY <1>2, <2>1
<1> QED
  BY <1>3, <1>4, <1>5, <1>6, <1>7, RefsKick DEF Next

LEMMA PoolShapeKept ==
  ASSUME IInv, Next
  PROVE  PoolShape' /\ pool' \in PoolType
<1>1. TypeOK /\ PoolShape /\ Places
  BY DEF IInv
<1>2. ASSUME pool' = pool
      PROVE  PoolShape' /\ pool' \in PoolType
  BY <1>1, <1>2 DEF PoolShape, PooledAt, TypeOK, PoolType
<1>3. ASSUME NEW t \in Threads, ThreadStep(t)
      PROVE  PoolShape' /\ pool' \in PoolType
  <2>1. CASE Defer(t) \/ CountFreed(t) \/ CheckDeferred(t) \/ LeaveUnref(t)
    BY <1>2, <2>1 DEF Defer, CountFreed, CheckDeferred, LeaveUnref
  <2>2. ASSUME NEW c \in Checkpoints, Reclaim(t, c)
        PROVE  PoolShape' /\ pool' \in PoolType
    <3>1. c \in Releasing(t)
      BY <2>2 DEF Reclaim, Releasing
    <3>2. c \notin Pooled
      BY <1>1, <3>1 DEF Places
    <3>3. CASE ~pool.full /\ PutInPool(c)
      BY <1>1, <3>2, <3>3, PoolPut DEF PoolType
    <3> QED
      BY <1>2, <2>2, <3>3 DEF Reclaim
  <2> QED
    BY <1>3, <2>1, <2>2 DEF ThreadStep
<1>4. ASSUME NEW k \in Kickers, ResolveFence(k) \/ CreateFence(k)
      PROVE  PoolShape' /\ pool' \in PoolType
  <2>1. ASSUME NEW c \in Checkpoints, NEW refs, Alloc(c, refs)
        PROVE  PoolShape' /\ pool' \in PoolType
    BY <2>1, AllocTakes
  <2> QED
    BY <1>2, <1>4, <2>1 DEF ResolveFence, CreateFence, mem
<1>5. ASSUME NEW k \in Kickers, \/ CommitCommands(k) \/ ScheduleCommand(k) \/ RollbackCheckpoints(k)
                                \/ DeRefCheckpoint(k) \/ FinaliseFence(k) \/ Firmware(k)
      PROVE  PoolShape' /\ pool' \in PoolType
  BY <1>2, <1>5 DEF CommitCommands, ScheduleCommand, RollbackCheckpoints, DeRefCheckpoint, Unref,
                    FinaliseFence, Firmware, mem
<1>6. ASSUME NEW c \in Checkpoints, ForeignSignal(c) \/ FreeFence(c)
      PROVE  PoolShape' /\ pool' \in PoolType
  BY <1>2, <1>6 DEF ForeignSignal, FreeFence, Unref
<1>7. CASE ContextDestroy \/ ReadCount \/ \E c \in Checkpoints : CleanOne(c)
  BY <1>2, <1>7 DEF ContextDestroy, ReadCount, CleanOne, mem
<1>8. CASE CleanPool
  BY <1>1, <1>8, PoolEmptied DEF PoolType
<1> QED
  BY <1>3, <1>4, <1>5, <1>6, <1>7, <1>8 DEF Next, KickStep, DestroyStep

(* A checkpoint that has none of what keeps it in use does not get it by a *)
(* step of another thread.                                                 *)
LEMMA LivingBefore ==
  ASSUME NEW t \in Threads, NEW d \in Checkpoints, Moved(t), Living(d)',
         th'[t].pc = "defer" /\ d \in th'[t].work => Living(d),
         d \in deferred' => Living(d),
         chk'[d].hRefCount > 0 => Living(d)
  PROVE  Living(d)
<1>1. CASE chk'[d].hRefCount > 0 \/ d \in deferred'
  BY <1>1
<1>2. CASE \E u \in Threads : th'[u].pc = "defer" /\ d \in th'[u].work
  <2>1. PICK u \in Threads : th'[u].pc = "defer" /\ d \in th'[u].work
    BY <1>2
  <2>2. CASE u = t
    BY <2>1, <2>2
  <2>3. CASE u # t
    BY <2>1, <2>3 DEF Moved, Living, At
  <2> QED
    BY <2>2, <2>3
<1> QED
  BY <1>1, <1>2 DEF Living, At

LEMMA LivingSame ==
  ASSUME NEW t \in Threads, NEW d \in Checkpoints, IInv, Moved(t), th'[t].pc # "defer",
         deferred' \subseteq deferred, allocated' = allocated,
         chk'[d].hRefCount = chk[d].hRefCount, chk'[d].listed = chk[d].listed
  PROVE  Living(d)' => InUse(d)'
<1> SUFFICES ASSUME Living(d)'
             PROVE  InUse(d)'
  OBVIOUS
<1>1. Living(d)
  <2>1. d \in deferred' => Living(d)
    BY DEF Living
  <2>2. chk'[d].hRefCount > 0 => Living(d)
    BY DEF Living
  <2> QED
    BY <2>1, <2>2, LivingBefore
<1>2. InUse(d)
  BY <1>1 DEF IInv, LivingInUse
<1> QED
  BY <1>2 DEF InUse

LEMMA LivingUnref ==
  ASSUME NEW t \in Threads, NEW c \in Checkpoints, NEW d \in Checkpoints, IInv, Unreffed(t, c)
  PROVE  (Living(d)' => Living(d)) /\ (Living(d)' => InUse(d)')
<1>1. TypeOK /\ LivingInUse
  BY DEF IInv
<1>2. /\ Moved(t) /\ th'[t].work \subseteq {c}
      /\ chk' = [chk EXCEPT ![c].hRefCount = @ - 1] /\ chk[c].hRefCount \in Nat \ {0}
      /\ allocated' = allocated /\ deferred' = deferred
  BY DEF Unreffed
<1>3. chk'[d].listed = chk[d].listed /\ (d # c => chk'[d].hRefCount = chk[d].hRefCount)
  BY <1>1, <1>2 DEF TypeOK
<1>4. Living(c)
  BY <1>2 DEF Living
<1>5. ASSUME Living(d)'
      PROVE  Living(d)
  <2>1. CASE d = c
    BY <1>4, <2>1
  <2>2. CASE d # c
    <3>1. d \notin th'[t].work /\ (d \in deferred' => Living(d))
          /\ (chk'[d].hRefCount > 0 => Living(d))
      BY <1>2, <1>3, <2>2 DEF Living
    <3> QED
      BY <1>2, <1>5, <3>1, LivingBefore
  <2> QED
    BY <2>1, <2>2
<1>6. ASSUME Living(d)'
      PROVE  InUse(d)'
  BY <1>1, <1>2, <1>3, <1>5, <1>6 DEF LivingInUse, InUse
<1> QED
  BY <1>5, <1>6

(* What is unchanged in every checkpoint.                                  *)
LEMMA ListedStays ==
  ASSUME IInv
  PROVE  /\ \A k \in Kickers : (CommitCommands(k) \/ ScheduleCommand(k) \/ RollbackCheckpoints(k)
                                 \/ FinaliseFence(k) \/ Firmware(k))
              => /\ \A d \in Checkpoints : chk'[d].listed = chk[d].listed
                 /\ UNCHANGED <<allocated, deferred, ctx>>
         /\ \A c \in Checkpoints : ForeignSignal(c)
              => /\ \A d \in Checkpoints : chk'[d].listed = chk[d].listed
                 /\ UNCHANGED <<allocated, deferred, ctx>>
<1> DEFINE R == [hRefCount : 0..(Cardinality(Kickers) + 1),
                 hEnqueuedCCBCount : 0..(MaxEnqueued + Cardinality(Kickers)),
                 ui32FwRefCount : Nat,
                 ui32State : {"UNDEF", "ACTIVE", "SIGNALLED"},
                 listed : BOOLEAN]
           Same == \A d \in Checkpoints : chk'[d].listed = chk[d].listed
<1>1. chk \in [Checkpoints -> R] /\ \A c \in Checkpoints : chk[c] \in R
  BY DEF IInv, TypeOK
<1>2. ASSUME NEW k \in Kickers
      PROVE  /\ CommitCommands(k) => Same
             /\ ScheduleCommand(k) => Same
             /\ RollbackCheckpoints(k) => Same
             /\ FinaliseFence(k) => Same
  <2>1. CommitCommands(k) => Same
    BY <1>1 DEF CommitCommands
  <2>2. RollbackCheckpoints(k) => Same
    BY <1>1 DEF RollbackCheckpoints
  <2>3. ScheduleCommand(k) \/ FinaliseFence(k) => Same
    BY DEF ScheduleCommand, FinaliseFence, mem
  <2> QED
    BY <2>1, <2>2, <2>3
<1>3. ASSUME NEW k \in Kickers, Firmware(k)
      PROVE  Same
  <2> DEFINE cmd == Head(ccb[k].cmds)
  <2>1. CASE chk' = [c \in Checkpoints |->
             IF c \in cmd.fence THEN [chk[c] EXCEPT !.ui32FwRefCount = @ + 1] ELSE chk[c]]
    BY <1>1, <2>1
  <2>2. CASE chk' = [chk EXCEPT ![cmd.update].ui32State = "SIGNALLED"]
    BY <1>1, <2>2
  <2>3. CASE chk' = [c \in Checkpoints |->
             IF c = cmd.update THEN [chk[c] EXCEPT !.ui32FwRefCount = @ + 1] ELSE chk[c]]
    BY <1>1, <2>3
  <2> QED
    BY <1>3, <2>1, <2>2, <2>3 DEF Firmware
<1>4. ASSUME NEW c \in Checkpoints, ForeignSignal(c)
      PROVE  Same
  BY <1>1, <1>4 DEF ForeignSignal
<1>5. ASSUME NEW k \in Kickers
      PROVE  (CommitCommands(k) \/ ScheduleCommand(k) \/ RollbackCheckpoints(k)
               \/ FinaliseFence(k) \/ Firmware(k)) => UNCHANGED <<allocated, deferred, ctx>>
  BY DEF CommitCommands, ScheduleCommand, RollbackCheckpoints, FinaliseFence, Firmware, mem
<1>6. \A c \in Checkpoints : ForeignSignal(c) => UNCHANGED <<allocated, deferred, ctx>>
  BY DEF ForeignSignal
<1> QED
  BY <1>2, <1>3, <1>4, <1>5, <1>6

LEMMA AllocListed ==
  ASSUME NEW c \in Checkpoints, NEW refs, TypeOK, Alloc(c, refs)
  PROVE  /\ chk'[c] = [hRefCount |-> refs, hEnqueuedCCBCount |-> 0, ui32FwRefCount |-> 0,
                       ui32State |-> "ACTIVE", listed |-> TRUE]
         /\ \A d \in Checkpoints \ {c} : chk'[d] = chk[d]
BY DEF TypeOK, Alloc

LEMMA LivingThread ==
  ASSUME NEW t \in Threads, IInv, ThreadStep(t)
  PROVE  LivingInUse'
<1>1. TypeOK /\ ThreadShape /\ Places /\ LivingInUse
  BY DEF IInv
<1>2. SameRefs /\ Moved(t)
  BY RefsStay, ThreadMoves
<1>3. SUFFICES ASSUME NEW d \in Checkpoints
               PROVE  Living(d)' => InUse(d)'
  BY DEF LivingInUse
<1>4. CASE Defer(t)
  <2>1. /\ th'[t].pc = "check" /\ deferred' = deferred \cup th[t].work /\ th[t].pc = "defer"
        /\ chk' = chk /\ allocated' = allocated
    BY <1>1, <1>4, DeferMoves DEF Defer, At
  <2>2. ASSUME Living(d)'
        PROVE  Living(d)
    <3>1. d \in deferred' => Living(d)
      BY <2>1 DEF Living, At
    <3>2. chk'[d].hRefCount > 0 => Living(d)
      BY <2>1 DEF Living
    <3> QED
      BY <1>2, <2>1, <2>2, <3>1, <3>2, LivingBefore
  <2> QED
    BY <1>1, <2>1, <2>2 DEF LivingInUse, InUse
<1>5. CASE CountFreed(t) \/ CheckDeferred(t) \/ LeaveUnref(t)
  <2>1. /\ deferred' \subseteq deferred /\ allocated' = allocated /\ chk' = chk
    BY <1>5 DEF CountFreed, CheckDeferred, LeaveUnref
  <2>2. th'[t].pc # "defer"
    BY ThreadMoves DEF Threads
  <2> QED
    BY <1>2, <2>1, <2>2, LivingSame
<1>6. ASSUME NEW c \in Checkpoints, Reclaim(t, c)
      PROVE  Living(d)' => InUse(d)'
  <2>1. th'[t].pc # "defer" /\ deferred' = deferred /\ c \in Releasing(t)
    BY <1>6, ThreadMoves DEF Threads, Reclaim, Releasing
  <2>2. \A e \in Checkpoints \ {c} : chk'[e].listed = chk[e].listed /\ (e \in allocated' <=> e \in allocated)
    BY <1>1, <1>6 DEF Reclaim, TypeOK
  <2>3. ASSUME Living(d)'
        PROVE  Living(d)
    <3>1. (d \in deferred' => Living(d)) /\ (chk'[d].hRefCount > 0 => Living(d))
      BY <1>2, <2>1 DEF Living, SameRefs
    <3> QED
      BY <1>2, <2>1, <2>3, <3>1, LivingBefore
  <2>4. CASE d # c
    BY <1>1, <2>2, <2>3, <2>4 DEF LivingInUse, InUse
  <2>5. CASE d = c
    <3>1. chk[c].hRefCount = 0 /\ c \notin deferred
          /\ \A u \in Threads \ {t} : c \notin Releasing(u)
      BY <1>1, <2>1 DEF Places
    <3>2. th[t].pc # "defer"
      BY <1>6 DEF Reclaim, At
    <3>3. \A u \in Threads : ~(At(u, "defer") /\ c \in th[u].work)
      BY <3>1, <3>2 DEF Releasing, At
    <3>4. ~Living(c)
      BY <3>1, <3>3 DEF Living
    <3> QED
      BY <2>3, <2>5, <3>4
  <2> QED
    BY <2>4, <2>5
<1> QED
  BY <1>4, <1>5, <1>6 DEF ThreadStep

LEMMA LivingAlloc ==
  ASSUME NEW k \in Kickers, NEW c \in Checkpoints, NEW refs, NEW d \in Checkpoints, IInv,
         Alloc(c, refs), Moved(k), th'[k].pc # "defer"
  PROVE  (d # c => (Living(d)' => Living(d))) /\ (Living(d)' => InUse(d)')
<1>1. TypeOK /\ LivingInUse /\ k \in Threads
  BY FiniteFacts DEF IInv
<1>2. allocated' = allocated \cup {c} /\ deferred' = deferred
  BY AllocTakes
<1>3. chk'[c].listed = TRUE /\ \A e \in Checkpoints \ {c} : chk'[e] = chk[e]
  <2>1. /\ chk'[c] = [hRefCount |-> refs, hEnqueuedCCBCount |-> 0, ui32FwRefCount |-> 0,
                      ui32State |-> "ACTIVE", listed |-> TRUE]
        /\ \A e \in Checkpoints \ {c} : chk'[e] = chk[e]
    BY <1>1, AllocListed
  <2> QED
    BY <2>1
<1>4. ASSUME d # c, Living(d)'
      PROVE  Living(d)
  <2>1. (d \in deferred' => Living(d)) /\ (chk'[d].hRefCount > 0 => Living(d))
    BY <1>2, <1>3, <1>4 DEF Living
  <2> QED
    BY <1>1, <1>4, <2>1, LivingBefore
<1>5. ASSUME Living(d)'
      PROVE  InUse(d)'
  BY <1>1, <1>2, <1>3, <1>4, <1>5 DEF LivingInUse, InUse
<1> QED
  BY <1>4, <1>5

LEMMA LivingKept ==
  ASSUME IInv, Next
  PROVE  LivingInUse'
<1>1. TypeOK /\ LivingInUse /\ Places /\ PoolShape
  BY DEF IInv
<1>2. /\ Unbind \in Threads /\ Misr \in Threads /\ \A k \in Kickers : k \in Threads
  BY FiniteFacts
<1>3. ASSUME NEW k \in Kickers, ResolveFence(k) \/ KickStep(k)
      PROVE  LivingInUse'
  <2>1. SUFFICES ASSUME NEW d \in Checkpoints
                 PROVE  Living(d)' => InUse(d)'
    BY DEF LivingInUse
  <2>2. CASE DeRefCheckpoint(k)
    <3>1. PICK c \in Checkpoints : Unreffed(k, c)
      BY <2>2, DeRefMoves
    <3> QED
      BY <1>2, <3>1, LivingUnref
  <2>3. CASE CommitCommands(k) \/ ScheduleCommand(k) \/ RollbackCheckpoints(k) \/ FinaliseFence(k)
    <3>1. Moved(k) /\ th'[k].pc # "defer"
      BY <1>1, <2>3, KickMoves
    <3>2. chk'[d].hRefCount = chk[d].hRefCount
      BY <2>3, RefsStay DEF SameRefs
    <3>3. chk'[d].listed = chk[d].listed /\ deferred' \subseteq deferred /\ allocated' = allocated
      BY <2>3, ListedStays
    <3> QED
      BY <1>2, <3>1, <3>2, <3>3, LivingSame
  <2>4. CASE CreateFence(k)
    <3>1. Moved(k) /\ th'[k].pc # "defer"
      BY <1>1, <2>4, KickMoves
    <3>2. CASE UNCHANGED mem
      <4>1. chk' = chk /\ deferred' = deferred /\ allocated' = allocated
        BY <3>2 DEF mem
      <4> QED
        BY <1>2, <3>1, <4>1, LivingSame
    <3>3. CASE \E c \in Checkpoints : Alloc(c, 1)
      BY <3>1, <3>3, LivingAlloc
    <3> QED
      BY <2>4, <3>2, <3>3 DEF CreateFence
  <2>5. CASE ResolveFence(k)
    <3>1. Moved(k) /\ th'[k].pc # "defer"
      BY <1>1, <2>5, KickMoves
    <3>2. CASE \E c \in Checkpoints : Alloc(c, 2)
      BY <3>1, <3>2, LivingAlloc
    <3>3. ASSUME NEW inputs \in SUBSET {c \in Checkpoints : fence[c] = "fence"},
                 chk' = [c \in Checkpoints |->
                   IF c \in inputs THEN [chk[c] EXCEPT !.hRefCount = @ + 1] ELSE chk[c]],
                 UNCHANGED <<allocated, ctx, pool, deferred, fence>>
          PROVE  Living(d)' => InUse(d)'
      <4>1. chk'[d].listed = chk[d].listed
        BY <1>1, <3>3 DEF TypeOK
      <4>2. ASSUME Living(d)'
            PROVE  Living(d)
        <5>1. d \in inputs => Living(d)
          BY HasReference DEF Living
        <5>2. d \notin inputs => chk'[d] = chk[d]
          BY <3>3
        <5>3. (d \in deferred' => Living(d)) /\ (chk'[d].hRefCount > 0 => Living(d))
          BY <3>3, <5>1, <5>2 DEF Living
        <5> QED
          BY <1>2, <3>1, <4>2, <5>3, LivingBefore
      <4> QED
        BY <1>1, <3>3, <4>1, <4>2 DEF LivingInUse, InUse
    <3> QED
      BY <2>5, <3>2, <3>3 DEF ResolveFence
  <2> QED
    BY <1>3, <2>2, <2>3, <2>4, <2>5 DEF KickStep
<1>4. ASSUME NEW k \in Kickers, Firmware(k)
      PROVE  LivingInUse'
  <2>1. SUFFICES ASSUME NEW d \in Checkpoints
                 PROVE  Living(d)' => InUse(d)'
    BY DEF LivingInUse
  <2>2. th' = th
    BY <1>4 DEF Firmware
  <2>3. chk'[d].hRefCount = chk[d].hRefCount /\ chk'[d].listed = chk[d].listed
        /\ deferred' = deferred /\ allocated' = allocated
    BY <1>4, RefsStay, ListedStays DEF SameRefs
  <2>4. Living(d)' => Living(d)
    BY <2>2, <2>3 DEF Living, At
  <2> QED
    BY <1>1, <2>3, <2>4 DEF LivingInUse, InUse
<1>5. ASSUME NEW c \in Checkpoints, ForeignSignal(c)
      PROVE  LivingInUse'
  <2>1. SUFFICES ASSUME NEW d \in Checkpoints
                 PROVE  Living(d)' => InUse(d)'
    BY DEF LivingInUse
  <2>2. th' = th
    BY <1>5 DEF ForeignSignal
  <2>3. chk'[d].hRefCount = chk[d].hRefCount /\ chk'[d].listed = chk[d].listed
        /\ deferred' = deferred /\ allocated' = allocated
    BY <1>5, RefsStay, ListedStays DEF SameRefs
  <2>4. Living(d)' => Living(d)
    BY <2>2, <2>3 DEF Living, At
  <2> QED
    BY <1>1, <2>3, <2>4 DEF LivingInUse, InUse
<1>6. ASSUME NEW c \in Checkpoints, FreeFence(c)
      PROVE  LivingInUse'
  <2>1. Unreffed(Misr, c)
    BY <1>6, FreeMoves
  <2> QED
    BY <1>2, <2>1, LivingUnref DEF LivingInUse
<1>7. CASE ContextDestroy \/ DestroyStep
  <2>1. SUFFICES ASSUME NEW d \in Checkpoints
                 PROVE  Living(d)' => InUse(d)'
    BY DEF LivingInUse
  <2>2. Moved(Unbind) /\ th'[Unbind].pc # "defer" /\ chk' = chk /\ deferred' = deferred
    BY <1>7, DestroyMoves
  <2>3. CASE allocated' = allocated
    BY <1>2, <2>2, <2>3, LivingSame
  <2>4. ASSUME NEW c \in Checkpoints, CleanOne(c)
        PROVE  Living(d)' => InUse(d)'
    <3>1. c \in Releasing(Unbind) /\ allocated' = allocated \ {c} /\ th[Unbind].pc = "clean"
      BY <2>4 DEF CleanOne, Releasing, At
    <3>2. chk[c].hRefCount = 0 /\ c \notin deferred
          /\ \A u \in Threads \ {Unbind} : c \notin Releasing(u)
      BY <1>1, <1>2, <3>1 DEF Places
    <3>3. \A u \in Threads : ~(At(u, "defer") /\ c \in th[u].work)
      BY <3>1, <3>2 DEF Releasing, At
    <3>4. ~Living(c)
      BY <3>2, <3>3 DEF Living
    <3>5. Living(d)' => Living(d)
      <4>1. (d \in deferred' => Living(d)) /\ (chk'[d].hRefCount > 0 => Living(d))
        BY <2>2 DEF Living
      <4> QED
        BY <1>2, <2>2, <4>1, LivingBefore
    <3> QED
      BY <1>1, <2>2, <3>1, <3>4, <3>5 DEF LivingInUse, InUse
  <2> QED
    BY <1>7, <2>3, <2>4 DEF ContextDestroy, DestroyStep, CleanPool, ReadCount, mem
<1> QED
  BY <1>3, <1>4, <1>5, <1>6, <1>7, LivingThread DEF Next

CtxType == [live : BOOLEAN, block : BOOLEAN, hRefCount : Int, hCheckpointCount : Int]

LEMMA CtxFits ==
  ASSUME IInv
  PROVE  /\ ctx \in CtxType /\ ctx.hRefCount \in Nat
         /\ Cardinality(Calls) \in Nat /\ Cardinality(Counting) \in Nat
         /\ Cardinality(allocated) \in Nat /\ Calls \subseteq Threads /\ Counting \subseteq Threads
         /\ ctx.live \in BOOLEAN /\ ctx.block \in BOOLEAN
<1>1. Typed /\ TypeOK
  BY Limits DEF IInv
<1>2. ctx \in CtxType /\ allocated \in SUBSET Checkpoints
  BY <1>1 DEF Typed, CtxType
<1>3. Calls \in SUBSET Threads /\ Counting \in SUBSET Threads
  BY DEF Calls, Counting
<1>4. /\ Cardinality(Calls) \in Nat /\ Cardinality(Counting) \in Nat
      /\ Cardinality(allocated) \in Nat
  BY <1>2, <1>3, AtMost, FiniteFacts
<1>5. ctx.hRefCount \in 0..(Cardinality(Threads) + 2) /\ Cardinality(Threads) \in Nat
  BY <1>1, FiniteFacts DEF TypeOK
<1> QED
  BY <1>2, <1>3, <1>4, <1>5 DEF CtxType

LEMMA CtxRef ==
  ASSUME NEW x \in CtxType, x.hRefCount > 0
  PROVE  /\ ContextRef(x) \in CtxType /\ ContextRef(x).hRefCount = x.hRefCount + 1
         /\ ContextRef(x).live = x.live /\ ContextRef(x).block = x.block
         /\ ContextRef(x).hCheckpointCount = x.hCheckpointCount
<1>1. ContextRef(x) = [x EXCEPT !.hRefCount = @ + 1]
  BY DEF ContextRef
<1> QED
  BY <1>1 DEF CtxType

LEMMA CtxUnref ==
  ASSUME NEW x \in CtxType, x.hRefCount > 0
  PROVE  /\ ContextUnref(x) \in CtxType /\ ContextUnref(x).hRefCount = x.hRefCount - 1
         /\ ContextUnref(x).live <=> (x.live /\ x.hRefCount # 1)
         /\ ContextUnref(x).block = x.block
         /\ ContextUnref(x).hCheckpointCount = x.hCheckpointCount
<1> DEFINE l == x.live /\ x.hRefCount # 1
<1>1. ContextUnref(x) = [x EXCEPT !.hRefCount = @ - 1, !.live = l]
  BY DEF ContextUnref, CtxType
<1>2. l \in BOOLEAN
  BY Zenon
<1>3. l <=> (x.live /\ x.hRefCount # 1)
  OBVIOUS
<1> HIDE DEF l
<1>4. x = [live |-> x.live, block |-> x.block, hRefCount |-> x.hRefCount,
           hCheckpointCount |-> x.hCheckpointCount]
  BY DEF CtxType
<1>5. ContextUnref(x) = [live |-> l, block |-> x.block, hRefCount |-> x.hRefCount - 1,
                         hCheckpointCount |-> x.hCheckpointCount]
  BY <1>1, <1>4
<1>6. x.block \in BOOLEAN /\ x.hRefCount - 1 \in Int /\ x.hCheckpointCount \in Int
  BY DEF CtxType
<1> QED
  BY <1>2, <1>3, <1>5, <1>6 DEF CtxType

LEMMA CtxMade ==
  ASSUME NEW x \in CtxType, NEW y, y = [x EXCEPT !.block = TRUE, !.hCheckpointCount = @ + 1]
  PROVE  /\ y \in CtxType /\ y.hRefCount = x.hRefCount /\ y.block = TRUE
         /\ y.live = x.live /\ y.hCheckpointCount = x.hCheckpointCount + 1
<1>1. x = [live |-> x.live, block |-> x.block, hRefCount |-> x.hRefCount,
           hCheckpointCount |-> x.hCheckpointCount]
  BY DEF CtxType
<1>2. y = [live |-> x.live, block |-> TRUE, hRefCount |-> x.hRefCount,
           hCheckpointCount |-> x.hCheckpointCount + 1]
  BY <1>1
<1>3. x.live \in BOOLEAN /\ x.hRefCount \in Int /\ x.hCheckpointCount + 1 \in Int
  BY DEF CtxType
<1> QED
  BY <1>2, <1>3 DEF CtxType

(* The threads in calls, and those that have freed a checkpoint.           *)
LEMMA CallsMoved ==
  ASSUME NEW t \in Threads, Moved(t)
  PROVE  /\ Calls' = IF t # Unbind /\ th'[t].pc \in InUnref THEN Calls \cup {t} ELSE Calls \ {t}
         /\ Counting' = IF th'[t].pc = "count" THEN Counting \cup {t} ELSE Counting \ {t}
<1>1. \A u \in Threads \ {t} : th'[u] = th[u]
  BY DEF Moved
<1> QED
  BY <1>1 DEF Calls, Counting, At

LEMMA CallsSame ==
  ASSUME NEW t \in Threads, Moved(t), th[t].pc # "count", th'[t].pc # "count",
         t # Unbind => (th[t].pc \in InUnref <=> th'[t].pc \in InUnref)
  PROVE  Calls' = Calls /\ Counting' = Counting
<1>1. \A u \in Threads \ {t} : th'[u] = th[u]
  BY DEF Moved
<1>2. \A u \in Threads : u \in Calls' <=> u \in Calls
  BY <1>1 DEF Calls
<1>3. \A u \in Threads : u \in Counting' <=> u \in Counting
  BY <1>1 DEF Counting, At
<1>4. Calls' \subseteq Threads /\ Calls \subseteq Threads
      /\ Counting' \subseteq Threads /\ Counting \subseteq Threads
  BY DEF Calls, Counting
<1>5. Calls' = Calls
  BY <1>2, <1>4
<1>6. Counting' = Counting
  BY <1>3, <1>4
<1> QED
  BY <1>5, <1>6

LEMMA CountsSame ==
  ASSUME IInv, ctx' = ctx, allocated' = allocated, Calls' = Calls, Counting' = Counting,
         th'[Unbind].pc # "end" => th[Unbind].pc # "end"
  PROVE  ContextCounts' /\ ctx' \in CtxType
<1>1. ContextCounts /\ ctx \in CtxType
  BY CtxFits DEF IInv
<1>2. Owner' = Owner
  BY DEF Owner
<1> QED
  BY <1>1, <1>2 DEF ContextCounts

(* A suballocation that is freed, and the block with the last one.         *)
LEMMA CountsFree ==
  ASSUME IInv, NEW t \in Threads, NEW c \in Checkpoints, c \in allocated, Moved(t),
         th[t].pc \in {"reclaim", "clean"}, th'[t].pc = "count",
         t # Unbind <=> t \in Calls,
         allocated' = allocated \ {c},
         ctx' = IF allocated' = {} THEN [ContextUnref(ctx) EXCEPT !.block = FALSE] ELSE ctx
  PROVE  ContextCounts' /\ ctx' \in CtxType
<1>1. ContextCounts /\ TypeOK
  BY DEF IInv
<1>2. /\ ctx \in CtxType /\ Cardinality(Calls) \in Nat /\ Cardinality(Counting) \in Nat
      /\ Calls \subseteq Threads /\ Counting \in SUBSET Threads /\ ctx.hRefCount \in Nat
      /\ ctx.live \in BOOLEAN
  BY CtxFits
<1>3. Calls' = Calls
  <2>1. CASE t = Unbind
    BY <2>1, CallsMoved DEF Calls
  <2>2. CASE t # Unbind
    <3>1. t \in Calls /\ "count" \in InUnref
      BY <2>2 DEF InUnref
    <3>2. Calls' = Calls \cup {t}
      BY <2>2, <3>1, CallsMoved
    <3> QED
      BY <3>1, <3>2
  <2> QED
    BY <2>1, <2>2
<1>4. t \notin Counting /\ Counting' = Counting \cup {t}
  BY CallsMoved DEF Counting, At
<1>5. Cardinality(Counting') = Cardinality(Counting) + 1
  BY <1>2, <1>4, OneMore, FiniteFacts
<1>6. Cardinality(allocated') = Cardinality(allocated) - 1 /\ Cardinality(allocated) \in Nat
  <2>1. allocated \in SUBSET Checkpoints
    BY <1>1 DEF TypeOK
  <2> QED
    BY <2>1, OneLess, FiniteFacts
<1>7. ctx.block = TRUE /\ Owner = ctx.hRefCount - Cardinality(Calls) - 1 /\ ctx.hRefCount > 0
  <2>1. ctx.block = TRUE
    BY <1>1, <1>2 DEF ContextCounts, CtxType
  <2>2. Owner = ctx.hRefCount - Cardinality(Calls) - 1
    BY <2>1 DEF Owner
  <2> QED
    BY <1>1, <1>2, <2>1, <2>2 DEF ContextCounts
<1>8. th'[Unbind].pc # "end" => th[Unbind].pc # "end"
  <2>1. CASE t = Unbind
    BY <2>1
  <2>2. CASE t # Unbind
    BY <2>2, FiniteFacts DEF Moved
  <2> QED
    BY <2>1, <2>2
<1>9. CASE allocated' = {}
  <2>1. ctx' = [ContextUnref(ctx) EXCEPT !.block = FALSE]
    BY <1>9
  <2>2. /\ ContextUnref(ctx) \in CtxType /\ ContextUnref(ctx).hRefCount = ctx.hRefCount - 1
        /\ ContextUnref(ctx).live <=> (ctx.live /\ ctx.hRefCount # 1)
        /\ ContextUnref(ctx).hCheckpointCount = ctx.hCheckpointCount
    BY <1>2, <1>7, CtxUnref
  <2>3. /\ ctx' \in CtxType /\ ctx'.hRefCount = ctx.hRefCount - 1 /\ ctx'.block = FALSE
        /\ ctx'.live <=> (ctx.live /\ ctx.hRefCount # 1)
        /\ ctx'.hCheckpointCount = ctx.hCheckpointCount
    BY <2>1, <2>2 DEF CtxType
  <2>4. Owner' = ctx'.hRefCount - Cardinality(Calls') - 0
    BY <2>3 DEF Owner
  <2>5. Owner' = Owner
    BY <1>2, <1>3, <1>7, <2>3, <2>4
  <2>6. ctx'.hCheckpointCount = Cardinality(allocated') + Cardinality(Counting')
    BY <1>1, <1>2, <1>5, <1>6, <2>3 DEF ContextCounts
  <2>7. ctx'.live <=> ctx'.hRefCount > 0
    BY <1>1, <1>2, <1>7, <2>3 DEF ContextCounts
  <2>8. Owner' \in {0, 1} /\ (th'[Unbind].pc # "end" => Owner' = 1)
    BY <1>1, <1>8, <2>5 DEF ContextCounts
  <2> QED
    BY <1>9, <2>3, <2>6, <2>7, <2>8 DEF ContextCounts
<1>10. CASE allocated' # {}
  <2>1. ctx' = ctx
    BY <1>10
  <2>2. Owner' = Owner
    BY <1>3, <2>1 DEF Owner
  <2>3. ctx'.hCheckpointCount = Cardinality(allocated') + Cardinality(Counting')
    <3>1. ctx.hCheckpointCount = Cardinality(allocated) + Cardinality(Counting)
      BY <1>1 DEF ContextCounts
    <3> QED
      <4>1. ctx'.hCheckpointCount = ctx.hCheckpointCount
        BY <2>1
      <4>2. Cardinality(allocated') + Cardinality(Counting')
              = Cardinality(allocated) + Cardinality(Counting)
        BY <1>2, <1>5, <1>6
      <4> QED
        BY <3>1, <4>1, <4>2
  <2>4. Owner' \in {0, 1} /\ (th'[Unbind].pc # "end" => Owner' = 1)
    BY <1>1, <1>8, <2>2 DEF ContextCounts
  <2>5. (ctx.block <=> allocated # {})' /\ (ctx.live <=> ctx.hRefCount > 0)'
    BY <1>1, <1>7, <1>10, <2>1 DEF ContextCounts
  <2> QED
    BY <1>2, <2>1, <2>3, <2>4, <2>5 DEF ContextCounts
<1> QED
  BY <1>9, <1>10

(* A checkpoint that is made; the first one brings the block.              *)
LEMMA CountsAlloc ==
  ASSUME IInv, NEW k \in Kickers, NEW c \in Checkpoints, NEW refs, Alloc(c, refs), Moved(k),
         th[Unbind].pc = "idle", th[k].pc \in {"idle", "create"}, th'[k].pc \in {"create", "append"}
  PROVE  ContextCounts' /\ ctx' \in CtxType
<1>1. ContextCounts /\ TypeOK
  BY DEF IInv
<1>2. /\ ctx \in CtxType /\ Cardinality(Calls) \in Nat /\ Cardinality(Counting) \in Nat
      /\ Calls \subseteq Threads /\ Counting \in SUBSET Threads /\ ctx.hRefCount \in Nat
      /\ ctx.live \in BOOLEAN /\ ctx.block \in BOOLEAN
  BY CtxFits
<1>3. k \in Threads /\ k # Unbind
  BY FiniteFacts
<1>4. Calls' = Calls /\ Counting' = Counting
  BY <1>3, CallsMoved DEF InUnref, Calls, Counting, At
<1>5. th'[Unbind].pc = "idle"
  BY <1>3, FiniteFacts DEF Moved
<1>6. CASE UNCHANGED <<allocated, ctx>>
  BY <1>4, <1>5, <1>6, CountsSame
<1>7. CASE /\ c \notin allocated /\ allocated' = allocated \cup {c}
           /\ ctx' = [(IF ctx.block THEN ctx ELSE ContextRef(ctx))
                      EXCEPT !.block = TRUE, !.hCheckpointCount = @ + 1]
  <2>1. Cardinality(allocated') = Cardinality(allocated) + 1 /\ Cardinality(allocated) \in Nat
    <3>1. allocated \in SUBSET Checkpoints
      BY <1>1 DEF TypeOK
    <3> QED
      BY <1>7, <3>1, OneMore, FiniteFacts
  <2>2. Owner = 1
    BY <1>1 DEF ContextCounts
  <2>3. CASE ctx.block
    <3>1. ctx' = [ctx EXCEPT !.block = TRUE, !.hCheckpointCount = @ + 1]
      BY <1>7, <2>3
    <3>2. /\ ctx' \in CtxType /\ ctx'.hRefCount = ctx.hRefCount /\ ctx'.block = TRUE
          /\ ctx'.live = ctx.live /\ ctx'.hCheckpointCount = ctx.hCheckpointCount + 1
      BY <1>2, <3>1, CtxMade
    <3>3. Owner' = Owner
      BY <1>4, <2>3, <3>2 DEF Owner
    <3>4. ctx'.hCheckpointCount = Cardinality(allocated') + Cardinality(Counting')
      BY <1>1, <1>2, <1>4, <2>1, <3>2 DEF ContextCounts
    <3>5. ctx'.live <=> ctx'.hRefCount > 0
      BY <1>1, <3>2 DEF ContextCounts
    <3> QED
      BY <1>7, <2>2, <3>2, <3>3, <3>4, <3>5 DEF ContextCounts
  <2>4. CASE ~ctx.block
    <3>1. ctx.hRefCount > 0 /\ ctx.hRefCount = Cardinality(Calls) + 1
      <4>1. Owner = ctx.hRefCount - Cardinality(Calls) - 0
        BY <2>4 DEF Owner
      <4> QED
        BY <1>2, <2>2, <4>1
    <3>2. /\ ContextRef(ctx) \in CtxType /\ ContextRef(ctx).hRefCount = ctx.hRefCount + 1
          /\ ContextRef(ctx).live = ctx.live
          /\ ContextRef(ctx).hCheckpointCount = ctx.hCheckpointCount
      BY <1>2, <3>1, CtxRef
    <3>3. ctx' = [ContextRef(ctx) EXCEPT !.block = TRUE, !.hCheckpointCount = @ + 1]
      BY <1>7, <2>4
    <3>4. /\ ctx' \in CtxType /\ ctx'.hRefCount = ctx.hRefCount + 1 /\ ctx'.block = TRUE
          /\ ctx'.live = ctx.live /\ ctx'.hCheckpointCount = ctx.hCheckpointCount + 1
      BY <3>2, <3>3, CtxMade, ZenonT(60)
    <3>5. Owner' = 1
      <4>1. Owner' = ctx'.hRefCount - Cardinality(Calls') - 1
        BY <3>4 DEF Owner
      <4> QED
        BY <1>2, <1>4, <3>1, <3>4, <4>1
    <3>6. ctx'.hCheckpointCount = Cardinality(allocated') + Cardinality(Counting')
      BY <1>1, <1>2, <1>4, <2>1, <3>4 DEF ContextCounts
    <3>7. ctx'.live <=> ctx'.hRefCount > 0
      BY <1>1, <1>2, <3>1, <3>4 DEF ContextCounts
    <3> QED
      BY <1>7, <3>4, <3>5, <3>6, <3>7 DEF ContextCounts
  <2> QED
    BY <2>3, <2>4
<1> QED
  BY <1>6, <1>7 DEF Alloc

LEMMA CountsUnref ==
  ASSUME IInv, NEW t \in Threads, NEW c \in Checkpoints, Unreffed(t, c), t # Unbind, t \notin Calls,
         th[t].pc # "count"
  PROVE  ContextCounts' /\ ctx' \in CtxType
<1>1. ContextCounts /\ TypeOK
  BY DEF IInv
<1>2. /\ ctx \in CtxType /\ Cardinality(Calls) \in Nat /\ Cardinality(Counting) \in Nat
      /\ Calls \in SUBSET Threads /\ Counting \in SUBSET Threads /\ ctx.hRefCount \in Nat
      /\ ctx.live \in BOOLEAN /\ ctx.block \in BOOLEAN
  BY CtxFits
<1>3. /\ Moved(t) /\ th'[t].pc \in {"check", "reclaim", "defer"} /\ chk[c].hRefCount > 0
      /\ allocated' = allocated /\ ctx' = ContextRef(ctx)
  BY DEF Unreffed
<1>4. ctx.block = TRUE /\ Owner = ctx.hRefCount - Cardinality(Calls) - 1 /\ ctx.hRefCount > 0
  <2>1. c \in allocated
    BY <1>3, Referenced
  <2>2. ctx.block = TRUE
    BY <1>1, <1>2, <2>1 DEF ContextCounts
  <2>3. Owner = ctx.hRefCount - Cardinality(Calls) - 1
    BY <2>2 DEF Owner
  <2> QED
    BY <1>1, <1>2, <2>2, <2>3 DEF ContextCounts
<1>5. Calls' = Calls \cup {t} /\ Counting' = Counting
  BY <1>3, CallsMoved DEF InUnref, Counting, At
<1>6. Cardinality(Calls') = Cardinality(Calls) + 1
  BY <1>2, <1>5, OneMore, FiniteFacts
<1>7. /\ ctx' \in CtxType /\ ctx'.hRefCount = ctx.hRefCount + 1 /\ ctx'.block = TRUE
      /\ ctx'.live = ctx.live /\ ctx'.hCheckpointCount = ctx.hCheckpointCount
  BY <1>2, <1>3, <1>4, CtxRef
<1>8. Owner' = Owner
  <2>1. Owner' = ctx'.hRefCount - Cardinality(Calls') - 1
    BY <1>7 DEF Owner
  <2> QED
    BY <1>2, <1>4, <1>6, <1>7, <2>1
<1>9. th'[Unbind] = th[Unbind]
  BY <1>3, FiniteFacts DEF Moved
<1>10. ctx'.live <=> ctx'.hRefCount > 0
  BY <1>1, <1>2, <1>4, <1>7 DEF ContextCounts
<1> QED
  BY <1>1, <1>3, <1>4, <1>5, <1>7, <1>8, <1>9, <1>10 DEF ContextCounts

LEMMA CountsLeave ==
  ASSUME IInv, NEW t \in Threads, LeaveUnref(t)
  PROVE  ContextCounts' /\ ctx' \in CtxType
<1>1. ContextCounts /\ TypeOK /\ ThreadShape
  BY DEF IInv
<1>2. /\ ctx \in CtxType /\ Cardinality(Calls) \in Nat /\ Cardinality(Counting) \in Nat
      /\ Calls \in SUBSET Threads /\ Counting \in SUBSET Threads /\ ctx.hRefCount \in Nat
      /\ ctx.live \in BOOLEAN /\ ctx.block \in BOOLEAN
  BY CtxFits
<1>3. /\ Moved(t) /\ th'[t].pc = (IF t = Misr THEN "idle" ELSE "deref") /\ th[t].pc = "leave"
      /\ allocated' = allocated /\ ctx' = ContextUnref(ctx)
  BY <1>1, OtherMoves DEF LeaveUnref, At
<1>4. t # Unbind
  BY <1>1, <1>3 DEF ThreadShape
<1>5. t \in Calls /\ Calls' = Calls \ {t} /\ Counting' = Counting
  BY <1>3, <1>4, CallsMoved DEF Calls, Counting, InUnref, At
<1>6. Cardinality(Calls') = Cardinality(Calls) - 1 /\ Cardinality(Calls) > 0
  <2>1. /\ Cardinality(Calls \ {t}) = Cardinality(Calls) - 1
        /\ Cardinality(Calls) \in Nat \ {0}
    BY <1>2, <1>5, OneLess, FiniteFacts
  <2> QED
    BY <1>5, <2>1
<1>7. PICK b \in {0, 1} : b = IF ctx.block THEN 1 ELSE 0
  OBVIOUS
<1>8. ctx.hRefCount > 0 /\ ctx.hRefCount - Cardinality(Calls) - b = Owner
  BY <1>1, <1>2, <1>6, <1>7 DEF ContextCounts, Owner
<1>9. /\ ctx' \in CtxType /\ ctx'.hRefCount = ctx.hRefCount - 1 /\ ctx'.block = ctx.block
      /\ ctx'.live <=> (ctx.live /\ ctx.hRefCount # 1)
      /\ ctx'.hCheckpointCount = ctx.hCheckpointCount
  BY <1>2, <1>3, <1>8, CtxUnref
<1>10. Owner' = Owner
  <2>1. Owner' = ctx'.hRefCount - Cardinality(Calls') - b
    BY <1>7, <1>9 DEF Owner
  <2> QED
    BY <1>2, <1>6, <1>7, <1>8, <1>9, <2>1
<1>11. th'[Unbind] = th[Unbind]
  BY <1>3, <1>4, FiniteFacts DEF Moved
<1>12. ctx'.live <=> ctx'.hRefCount > 0
  BY <1>1, <1>2, <1>8, <1>9 DEF ContextCounts
<1> QED
  BY <1>1, <1>3, <1>5, <1>9, <1>10, <1>11, <1>12 DEF ContextCounts

LEMMA CountsThread ==
  ASSUME IInv, NEW t \in Threads, ThreadStep(t)
  PROVE  ContextCounts' /\ ctx' \in CtxType
<1>1. ContextCounts /\ TypeOK /\ ThreadShape /\ Places
  BY DEF IInv
<1>2. /\ Moved(t) /\ th[t].pc \in InUnref /\ Unbind \in Threads
      /\ th'[Unbind].pc # "end" => th[Unbind].pc # "end"
  <2>1. Moved(t) /\ th[t].pc \in InUnref /\ Unbind \in Threads
    BY ThreadMoves, FiniteFacts
  <2> QED
    BY <2>1 DEF Moved, InUnref
<1>3. t # Unbind <=> t \in Calls
  BY <1>2 DEF Calls
<1>4. ASSUME th[t].pc # "count", th'[t].pc # "count",
             t # Unbind => th'[t].pc \in InUnref
      PROVE  Calls' = Calls /\ Counting' = Counting
  BY <1>2, <1>4, CallsSame
<1>5. CASE Defer(t)
  <2>1. /\ th'[t].pc = "check" /\ th[t].pc = "defer" /\ ctx' = ctx /\ allocated' = allocated
    BY <1>1, <1>5, DeferMoves DEF Defer, At
  <2>2. Calls' = Calls /\ Counting' = Counting
    BY <1>4, <2>1 DEF InUnref
  <2> QED
    BY <1>2, <2>1, <2>2, CountsSame
<1>6. CASE CheckDeferred(t)
  <2>1. /\ th'[t].pc \in {AfterCheck(t), "reclaim"} /\ th[t].pc = "check" /\ ctx' = ctx
        /\ allocated' = allocated
    BY <1>1, <1>6, CheckMoves DEF CheckDeferred, At
  <2>2. Calls' = Calls /\ Counting' = Counting
    BY <1>4, <2>1 DEF InUnref, AfterCheck
  <2> QED
    BY <1>2, <2>1, <2>2, CountsSame
<1>7. CASE LeaveUnref(t)
  BY <1>7, CountsLeave
<1>8. CASE CountFreed(t)
  <2>1. /\ th[t].pc = "count" /\ th'[t].pc # "count" /\ allocated' = allocated
        /\ (t # Unbind => th'[t].pc \in InUnref)
        /\ ctx' = [ctx EXCEPT !.hCheckpointCount = @ - 1]
    <3>1. /\ th[t].pc = "count" /\ allocated' = allocated
          /\ ctx' = [ctx EXCEPT !.hCheckpointCount = @ - 1]
          /\ th'[t].pc = IF th[t].work = {} THEN th[t].after
                         ELSE IF th[t].after = "read" THEN "clean" ELSE "reclaim"
      BY <1>1, <1>8, CountMoves DEF CountFreed, At
    <3>2. /\ t # Unbind => th[t].after \in {"check", "leave"}
          /\ t = Unbind => th[t].after \in {"pool", "read"}
      BY <1>1, <3>1 DEF ThreadShape
    <3> QED
      BY <3>1, <3>2 DEF InUnref
  <2>2. /\ ctx \in CtxType /\ Cardinality(Counting) \in Nat /\ Counting \in SUBSET Threads
        /\ Cardinality(allocated) \in Nat
    BY CtxFits
  <2>3. t \in Counting /\ Counting' = Counting \ {t}
    BY <1>2, <2>1, CallsMoved DEF Counting, At
  <2>4. Calls' = Calls
    <3>1. CASE t = Unbind
      BY <1>2, <1>3, <3>1, CallsMoved
    <3>2. CASE t # Unbind
      BY <1>2, <1>3, <2>1, <3>2, CallsMoved
    <3> QED
      BY <3>1, <3>2
  <2>5. Cardinality(Counting') = Cardinality(Counting) - 1
    <3>1. Cardinality(Counting \ {t}) = Cardinality(Counting) - 1
      BY <2>2, <2>3, OneLess, FiniteFacts
    <3> QED
      BY <2>3, <3>1
  <2>6. /\ ctx' \in CtxType /\ ctx'.hRefCount = ctx.hRefCount /\ ctx'.block = ctx.block
        /\ ctx'.live = ctx.live /\ ctx'.hCheckpointCount = ctx.hCheckpointCount - 1
    BY <2>1, <2>2 DEF CtxType
  <2>7. Owner' = Owner
    BY <2>4, <2>6 DEF Owner
  <2>8. ctx'.hCheckpointCount = Cardinality(allocated') + Cardinality(Counting')
    <3>1. ctx.hCheckpointCount = Cardinality(allocated) + Cardinality(Counting)
      BY <1>1 DEF ContextCounts
    <3> QED
      BY <2>1, <2>2, <2>5, <2>6, <3>1
  <2> QED
    BY <1>1, <1>2, <2>1, <2>6, <2>7, <2>8 DEF ContextCounts
<1>9. ASSUME NEW c \in Checkpoints, Reclaim(t, c)
      PROVE  ContextCounts' /\ ctx' \in CtxType
  <2>1. /\ th[t].pc = "reclaim" /\ c \in Releasing(t)
        /\ th'[t].pc = IF pool.full THEN "count"
                       ELSE IF th[t].work \ {c} = {} THEN th[t].after ELSE "reclaim"
    BY <1>1, <1>9, ReclaimMoves DEF Reclaim, At, Releasing
  <2>2. CASE ~pool.full
    <3>1. ctx' = ctx /\ allocated' = allocated
      BY <1>9, <2>2 DEF Reclaim
    <3>2. /\ t # Unbind => th[t].after \in {"check", "leave"}
          /\ t = Unbind => th[t].after = "pool"
      BY <1>1, <2>1 DEF ThreadShape
    <3>3. th'[t].pc # "count" /\ (t # Unbind => th'[t].pc \in InUnref)
      BY <2>1, <2>2, <3>2 DEF InUnref
    <3>4. Calls' = Calls /\ Counting' = Counting
      BY <1>4, <2>1, <3>3
    <3> QED
      BY <1>2, <3>1, <3>4, CountsSame
  <2>3. CASE pool.full
    <3>1. /\ allocated' = allocated \ {c} /\ th'[t].pc = "count"
          /\ ctx' = IF allocated' = {} THEN [ContextUnref(ctx) EXCEPT !.block = FALSE] ELSE ctx
      BY <1>9, <2>1, <2>3 DEF Reclaim
    <3>2. c \in allocated
      BY <1>1, <2>1 DEF Places
    <3>3. th[t].pc \in {"reclaim", "clean"}
      BY <2>1
    <3> QED
      BY <1>2, <1>3, <3>1, <3>2, <3>3, CountsFree
  <2> QED
    BY <2>2, <2>3
<1> QED
  BY <1>5, <1>6, <1>7, <1>8, <1>9 DEF ThreadStep

LEMMA CountsKick ==
  ASSUME IInv, NEW k \in Kickers, ResolveFence(k) \/ KickStep(k)
  PROVE  ContextCounts' /\ ctx' \in CtxType
<1>1. ContextCounts /\ TypeOK /\ ThreadShape
  BY DEF IInv
<1>2. k \in Threads /\ k # Unbind /\ Unbind \in Threads
  BY FiniteFacts
<1>3. th[k].pc \in {"idle", "create", "append", "schedule", "rollback", "deref"}
  BY DEF KickStep, ResolveFence, CreateFence, CommitCommands, ScheduleCommand,
         RollbackCheckpoints, DeRefCheckpoint, FinaliseFence, At
<1>4. k \notin Calls /\ k \notin Counting
  BY <1>3 DEF Calls, Counting, InUnref, At
<1>5. CASE DeRefCheckpoint(k)
  <2>1. PICK c \in Checkpoints : Unreffed(k, c)
    BY <1>5, DeRefMoves
  <2>2. th[k].pc # "count"
    BY <1>3
  <2> QED
    BY <1>2, <1>4, <2>1, <2>2, CountsUnref
<1>6. ASSUME Moved(k), th'[k].pc \in {"idle", "create", "append", "schedule", "rollback", "deref"},
             UNCHANGED <<allocated, ctx>>
      PROVE  ContextCounts' /\ ctx' \in CtxType
  <2>1. Calls' = Calls /\ Counting' = Counting
    BY <1>2, <1>4, <1>6, CallsMoved DEF InUnref
  <2>2. th'[Unbind] = th[Unbind]
    BY <1>2, <1>6 DEF Moved
  <2> QED
    BY <1>6, <2>1, <2>2, CountsSame
<1>7. CASE CommitCommands(k) \/ ScheduleCommand(k) \/ RollbackCheckpoints(k) \/ FinaliseFence(k)
  <2>1. UNCHANGED <<allocated, ctx>>
    BY <1>7, ListedStays
  <2>2. /\ Moved(k)
        /\ th'[k].pc \in {"idle", "create", "append", "schedule", "rollback", "deref"}
    BY <1>1, <1>7, KickMoves
  <2> QED
    BY <1>6, <2>1, <2>2
<1>8. CASE CreateFence(k)
  <2>1. /\ Moved(k) /\ th'[k].pc \in {"append", "deref"} /\ th[k].pc = "create"
    BY <1>1, <1>8, KickMoves DEF CreateFence, At
  <2>2. th[Unbind].pc = "idle"
    BY <1>1, <2>1 DEF ThreadShape
  <2>3. CASE UNCHANGED mem
    <3>1. UNCHANGED <<allocated, ctx>>
      BY <2>3 DEF mem
    <3> QED
      BY <1>6, <2>1, <3>1
  <2>4. ASSUME NEW c \in Checkpoints, Alloc(c, 1), Goto(k, "append")
        PROVE  ContextCounts' /\ ctx' \in CtxType
    <3>1. th'[k].pc = "append"
      BY <1>1, <1>2, <2>4, Goes, StageNames
    <3>2. th[k].pc \in {"idle", "create"} /\ th'[k].pc \in {"create", "append"}
      BY <2>1, <3>1
    <3> QED
      BY <2>1, <2>2, <2>4, <3>2, CountsAlloc
  <2> QED
    BY <1>8, <2>3, <2>4 DEF CreateFence
<1>9. CASE ResolveFence(k)
  <2>1. Moved(k) /\ th'[k].pc = "create" /\ th[k].pc = "idle" /\ th[Unbind].pc = "idle"
    BY <1>1, <1>9, KickMoves DEF ResolveFence, At, Bound
  <2>2. CASE UNCHANGED <<allocated, ctx>>
    BY <1>6, <2>1, <2>2
  <2>3. CASE \E c \in Checkpoints : Alloc(c, 2)
    <3>1. th[k].pc \in {"idle", "create"} /\ th'[k].pc \in {"create", "append"}
      BY <2>1
    <3> QED
      BY <2>1, <2>3, <3>1, CountsAlloc
  <2> QED
    BY <1>9, <2>2, <2>3 DEF ResolveFence
<1> QED
  BY <1>5, <1>7, <1>8, <1>9 DEF KickStep

LEMMA CountsKept ==
  ASSUME IInv, Next
  PROVE  ContextCounts' /\ ctx' \in CtxType
<1>1. ContextCounts /\ TypeOK /\ ThreadShape /\ Places
  BY DEF IInv
<1>2. Misr \in Threads /\ Misr # Unbind /\ Unbind \in Threads
  BY FiniteFacts
<1>3. ASSUME UNCHANGED <<allocated, ctx, th>>
      PROVE  ContextCounts' /\ ctx' \in CtxType
  <2>1. Calls' = Calls /\ Counting' = Counting
    BY <1>3 DEF Calls, Counting, At
  <2> QED
    BY <1>3, <2>1, CountsSame
<1>4. ASSUME NEW k \in Kickers, Firmware(k)
      PROVE  ContextCounts' /\ ctx' \in CtxType
  BY <1>3, <1>4 DEF Firmware
<1>5. ASSUME NEW c \in Checkpoints, ForeignSignal(c)
      PROVE  ContextCounts' /\ ctx' \in CtxType
  BY <1>3, <1>5 DEF ForeignSignal
<1>6. ASSUME NEW c \in Checkpoints, FreeFence(c)
      PROVE  ContextCounts' /\ ctx' \in CtxType
  <2>1. Unreffed(Misr, c) /\ th[Misr].pc = "idle"
    BY <1>6, FreeMoves
  <2>2. Misr \notin Calls /\ th[Misr].pc # "count"
    BY <2>1 DEF Calls, InUnref
  <2> QED
    BY <1>2, <2>1, <2>2, CountsUnref
<1>7. Unbind \notin Calls
  BY DEF Calls
<1>8. ASSUME Moved(Unbind), th[Unbind].pc \notin {"count", "end"}, th'[Unbind].pc # "count",
             UNCHANGED <<allocated, ctx>>
      PROVE  ContextCounts' /\ ctx' \in CtxType
  <2>1. Calls' = Calls /\ Counting' = Counting
    BY <1>2, <1>8, CallsSame
  <2> QED
    BY <1>8, <2>1, CountsSame
<1>9. CASE ContextDestroy \/ CleanPool
  <2>1. /\ Moved(Unbind) /\ UNCHANGED <<allocated, ctx>> /\ th[Unbind].pc \notin {"count", "end"}
        /\ th'[Unbind].pc # "count"
    <3>1. PoolShape
      BY DEF IInv
    <3> QED
      BY <1>1, <1>9, <3>1, OtherMoves, CleanPoolMoves DEF ContextDestroy, CleanPool, mem, At
  <2> QED
    BY <1>8, <2>1
<1>10. ASSUME NEW c \in Checkpoints, CleanOne(c)
       PROVE  ContextCounts' /\ ctx' \in CtxType
  <2>1. /\ Moved(Unbind) /\ th'[Unbind].pc = "count" /\ th[Unbind].pc \in {"reclaim", "clean"}
        /\ c \in Releasing(Unbind) /\ allocated' = allocated \ {c}
        /\ ctx' = IF allocated' = {} THEN [ContextUnref(ctx) EXCEPT !.block = FALSE] ELSE ctx
    BY <1>1, <1>10, CleanOneMoves DEF CleanOne, At, Releasing
  <2>2. c \in allocated
    BY <1>1, <1>2, <2>1 DEF Places
  <2> QED
    BY <1>2, <1>7, <2>1, <2>2, CountsFree
<1>11. CASE ReadCount
  <2>1. /\ Moved(Unbind) /\ th'[Unbind].pc = "end" /\ th[Unbind].pc = "read"
        /\ allocated' = allocated
        /\ ctx' = IF ctx.hCheckpointCount = 0 THEN ContextUnref(ctx) ELSE ctx
    BY <1>1, <1>11, OtherMoves DEF ReadCount, At
  <2>2. Calls' = Calls /\ Counting' = Counting
    <3>1. th[Unbind].pc # "count" /\ th'[Unbind].pc # "count"
      BY <2>1
    <3> QED
      BY <1>2, <2>1, <3>1, CallsSame
  <2>3. CASE ctx' = ctx
    BY <2>1, <2>2, <2>3, CountsSame
  <2>4. CASE ctx' = ContextUnref(ctx)
    <3>1. /\ ctx \in CtxType /\ Cardinality(Calls) \in Nat /\ ctx.hRefCount \in Nat
      BY CtxFits
    <3>2. PICK b \in {0, 1} : b = IF ctx.block THEN 1 ELSE 0
      OBVIOUS
    <3>3. Owner = 1 /\ Owner = ctx.hRefCount - Cardinality(Calls) - b
      BY <1>1, <2>1, <3>2 DEF ContextCounts, Owner
    <3>4. ctx.hRefCount > 0
      BY <3>1, <3>2, <3>3
    <3>5. /\ ctx' \in CtxType /\ ctx'.hRefCount = ctx.hRefCount - 1 /\ ctx'.block = ctx.block
          /\ ctx'.live <=> (ctx.live /\ ctx.hRefCount # 1)
          /\ ctx'.hCheckpointCount = ctx.hCheckpointCount
      BY <2>4, <3>1, <3>4, CtxUnref
    <3>6. Owner' = 0
      <4>1. Owner' = ctx'.hRefCount - Cardinality(Calls') - b
        BY <3>2, <3>5 DEF Owner
      <4> QED
        BY <2>2, <3>1, <3>2, <3>3, <3>5, <4>1
    <3>7. ctx'.live <=> ctx'.hRefCount > 0
      BY <1>1, <3>1, <3>4, <3>5 DEF ContextCounts
    <3> QED
      BY <1>1, <2>1, <2>2, <3>5, <3>6, <3>7 DEF ContextCounts
  <2> QED
    BY <2>1, <2>3, <2>4
<1> QED
  BY <1>4, <1>5, <1>6, <1>9, <1>10, <1>11, CountsThread, CountsKick DEF Next, DestroyStep

(* hEnqueuedCCBCount: the actions that leave it, and its limits.           *)
SameEnqueued == \A c \in Checkpoints : chk'[c].hEnqueuedCCBCount = chk[c].hEnqueuedCCBCount

ChkType == [hRefCount : 0..(Cardinality(Kickers) + 1),
            hEnqueuedCCBCount : 0..(MaxEnqueued + Cardinality(Kickers)),
            ui32FwRefCount : Nat,
            ui32State : {"UNDEF", "ACTIVE", "SIGNALLED"},
            listed : BOOLEAN]

LEMMA ChkFits ==
  ASSUME IInv
  PROVE  /\ chk \in [Checkpoints -> ChkType] /\ \A c \in Checkpoints : chk[c] \in ChkType
         /\ \A c \in Checkpoints : /\ chk[c].hRefCount \in Nat /\ chk[c].hEnqueuedCCBCount \in Nat
                                   /\ chk[c].ui32FwRefCount \in Nat
         /\ MaxEnqueued \in Nat \ {0} /\ Cardinality(Kickers) \in Nat
<1>1. chk \in [Checkpoints -> ChkType] /\ MaxEnqueued \in Nat \ {0} /\ Cardinality(Kickers) \in Nat
  BY FiniteFacts, CheckpointsAssumption DEF IInv, TypeOK, ChkType
<1>2. \A c \in Checkpoints : chk[c] \in ChkType
  BY <1>1
<1>3. \A c \in Checkpoints : /\ chk[c].hRefCount \in Nat /\ chk[c].hEnqueuedCCBCount \in Nat
                             /\ chk[c].ui32FwRefCount \in Nat
  BY <1>1, <1>2 DEF ChkType
<1> QED
  BY <1>1, <1>2, <1>3

LEMMA EnqueuedStays ==
  ASSUME IInv
  PROVE  /\ \A t \in Threads : ThreadStep(t) => SameEnqueued
         /\ \A k \in Kickers : (ScheduleCommand(k) \/ FinaliseFence(k) \/ Firmware(k)) => SameEnqueued
         /\ \A c \in Checkpoints : ForeignSignal(c) => SameEnqueued
         /\ \A t \in Threads, c \in Checkpoints : Unreffed(t, c) => SameEnqueued
         /\ (ContextDestroy \/ DestroyStep) => SameEnqueued
<1>1. chk \in [Checkpoints -> ChkType] /\ \A c \in Checkpoints : chk[c] \in ChkType
  BY ChkFits
<1>2. ASSUME NEW t \in Threads, ThreadStep(t)
      PROVE  SameEnqueued
  <2>1. CASE chk' = chk
    BY <2>1 DEF SameEnqueued
  <2>2. ASSUME NEW c \in Checkpoints, Reclaim(t, c)
        PROVE  SameEnqueued
    BY <1>1, <2>2 DEF Reclaim, SameEnqueued, ChkType
  <2> QED
    BY <1>2, <2>1, <2>2 DEF ThreadStep, Defer, CountFreed, CheckDeferred, LeaveUnref
<1>3. ASSUME NEW k \in Kickers, ScheduleCommand(k) \/ FinaliseFence(k)
      PROVE  SameEnqueued
  BY <1>3 DEF ScheduleCommand, FinaliseFence, mem, SameEnqueued
<1>4. ASSUME NEW k \in Kickers, Firmware(k)
      PROVE  SameEnqueued
  <2> DEFINE cmd == Head(ccb[k].cmds)
  <2>1. CASE chk' = [c \in Checkpoints |->
             IF c \in cmd.fence THEN [chk[c] EXCEPT !.ui32FwRefCount = @ + 1] ELSE chk[c]]
    BY <1>1, <2>1 DEF SameEnqueued, ChkType
  <2>2. CASE chk' = [chk EXCEPT ![cmd.update].ui32State = "SIGNALLED"]
    BY <1>1, <2>2 DEF SameEnqueued, ChkType
  <2>3. CASE chk' = [c \in Checkpoints |->
             IF c = cmd.update THEN [chk[c] EXCEPT !.ui32FwRefCount = @ + 1] ELSE chk[c]]
    BY <1>1, <2>3 DEF SameEnqueued, ChkType
  <2> QED
    BY <1>4, <2>1, <2>2, <2>3 DEF Firmware
<1>5. ASSUME NEW c \in Checkpoints, ForeignSignal(c)
      PROVE  SameEnqueued
  BY <1>1, <1>5 DEF ForeignSignal, SameEnqueued, ChkType
<1>6. ASSUME NEW t \in Threads, NEW c \in Checkpoints, Unreffed(t, c)
      PROVE  SameEnqueued
  BY <1>1, <1>6 DEF Unreffed, SameEnqueued, ChkType
<1>7. ASSUME ContextDestroy \/ DestroyStep
      PROVE  SameEnqueued
  BY <1>7, DestroyMoves DEF SameEnqueued
<1> QED
  BY <1>2, <1>3, <1>4, <1>5, <1>6, <1>7

BoundsOf(c) ==
  /\ chk[c].hEnqueuedCCBCount + Cardinality(Appending(c)) <= MaxEnqueued - 1 + Cardinality(Kickers)
  /\ chk[c].hEnqueuedCCBCount >= Cardinality(Appended(c))

LEMMA UsersFinite ==
  ASSUME NEW c \in Checkpoints
  PROVE  /\ Appending(c) \in SUBSET Kickers /\ Appended(c) \in SUBSET Kickers
         /\ Cardinality(Appending(c)) \in Nat /\ Cardinality(Appended(c)) \in Nat
         /\ Cardinality(Appending(c)) <= Cardinality(Kickers)
<1>1. Appending(c) \in SUBSET Kickers /\ Appended(c) \in SUBSET Kickers
  BY DEF Appending, Appended
<1> QED
  BY <1>1, AtMost, FiniteFacts

LEMMA Smaller ==
  ASSUME NEW S \in SUBSET Kickers, NEW T \in SUBSET S
  PROVE  Cardinality(T) <= Cardinality(S) /\ Cardinality(T) \in Nat /\ Cardinality(S) \in Nat
BY AtMost, FS_Subset, FiniteFacts

LEMMA BoundsStay ==
  ASSUME NEW d \in Checkpoints, IInv, chk'[d].hEnqueuedCCBCount = chk[d].hEnqueuedCCBCount,
         Appending(d)' \subseteq Appending(d), Appended(d)' \subseteq Appended(d)
  PROVE  BoundsOf(d)'
<1>1. BoundsOf(d)
  BY DEF IInv, EnqueuedBounds, BoundsOf
<1>2. /\ Cardinality(Appending(d)') <= Cardinality(Appending(d)) /\ Cardinality(Appending(d)') \in Nat
      /\ Cardinality(Appending(d)) \in Nat
  BY UsersFinite, Smaller
<1>3. /\ Cardinality(Appended(d)') <= Cardinality(Appended(d)) /\ Cardinality(Appended(d)') \in Nat
      /\ Cardinality(Appended(d)) \in Nat
  BY UsersFinite, Smaller
<1>4. chk[d].hEnqueuedCCBCount \in Nat /\ MaxEnqueued \in Nat /\ Cardinality(Kickers) \in Nat
  BY ChkFits
<1> QED
  BY <1>1, <1>2, <1>3, <1>4 DEF BoundsOf

(* A step of one thread is felt in the sets only by its own kick.          *)
LEMMA UsersMoved ==
  ASSUME NEW t \in Threads, NEW d \in Checkpoints, Moved(t),
         \A k \in Kickers \ {t} : kick'[k] = kick[k]
  PROVE  /\ \A k \in Kickers \ {t} : /\ k \in Appending(d)' <=> k \in Appending(d)
                                     /\ k \in Appended(d)' <=> k \in Appended(d)
                                     /\ k \in Undoing(d)' <=> k \in Undoing(d)
         /\ Appending(d) \subseteq Kickers /\ Appended(d) \subseteq Kickers
         /\ Undoing(d) \subseteq Kickers
         /\ Appending(d)' \subseteq Kickers /\ Appended(d)' \subseteq Kickers
         /\ Undoing(d)' \subseteq Kickers
<1>1. \A k \in Kickers \ {t} : th'[k] = th[k] /\ Used(k)' = Used(k)
  BY FiniteFacts DEF Moved, Used
<1> QED
  BY <1>1 DEF Appending, Appended, Undoing

LEMMA UsersLeave ==
  ASSUME NEW t \in Threads, NEW d \in Checkpoints, Moved(t),
         \A k \in Kickers \ {t} : kick'[k] = kick[k],
         t \in Kickers => th'[t].pc \notin {"create", "append", "schedule", "rollback"}
  PROVE  Appending(d)' \subseteq Appending(d) /\ Appended(d)' \subseteq Appended(d)
<1>1. \A k \in Kickers \ {t} : /\ k \in Appending(d)' <=> k \in Appending(d)
                               /\ k \in Appended(d)' <=> k \in Appended(d)
  BY UsersMoved
<1>2. t \notin Appending(d)' /\ t \notin Appended(d)'
  BY DEF Appending, Appended
<1>3. Appending(d)' \subseteq Kickers /\ Appended(d)' \subseteq Kickers
  BY UsersMoved
<1> QED
  BY <1>1, <1>2, <1>3

(* What a kick uses has a reference, and is on the device's list.          *)
LEMMA UsedIsHeld ==
  ASSUME NEW k \in Kickers, NEW d \in Checkpoints, IInv, d \in Used(k)
  PROVE  /\ chk[d].hRefCount > 0 /\ Living(d) /\ InUse(d)
         /\ d \in kick[k].in \/ d = kick[k].out
<1>1. d \in kick[k].in \/ d = kick[k].out
  BY DEF Used
<1>2. Inputs(d) # {} \/ Outputs(d) # {}
  BY <1>1 DEF Inputs, Outputs
<1>3. chk[d].hRefCount > 0
  BY <1>2, HasReference
<1>4. Living(d)
  BY <1>3 DEF Living
<1> QED
  BY <1>1, <1>3, <1>4 DEF IInv, LivingInUse

LEMMA BoundsMade ==
  ASSUME NEW k \in Kickers, NEW c \in Checkpoints, NEW refs, NEW d \in Checkpoints, IInv,
         Alloc(c, refs), Moved(k), th'[k].pc \in {"create", "append"},
         th[k].pc \in {"idle", "create"}, \A j \in Kickers \ {k} : kick'[j] = kick[j],
         d # c /\ d \in Used(k)' => d \in Used(k), th[k].pc = "idle" => Used(k) = {}
  PROVE  BoundsOf(d)'
<1>1. TypeOK /\ k \in Threads
  BY FiniteFacts DEF IInv
<1>2. /\ \A j \in Kickers \ {k} : /\ j \in Appending(d)' <=> j \in Appending(d)
                                  /\ j \in Appended(d)' <=> j \in Appended(d)
      /\ Appending(d)' \in SUBSET Kickers /\ Appended(d)' \in SUBSET Kickers
  BY <1>1, UsersMoved
<1>3. k \notin Appended(d)'
  BY DEF Appended
<1>4. Appended(d)' \subseteq Appended(d)
  BY <1>2, <1>3
<1>5. /\ chk'[c] = [hRefCount |-> refs, hEnqueuedCCBCount |-> 0, ui32FwRefCount |-> 0,
                    ui32State |-> "ACTIVE", listed |-> TRUE]
      /\ \A e \in Checkpoints \ {c} : chk'[e] = chk[e]
  BY <1>1, AllocListed
<1>6. CASE d = c
  <2>1. chk'[d].hEnqueuedCCBCount = 0
    BY <1>5, <1>6
  <2>2. Inputs(c) = {} /\ Outputs(c) = {}
    BY AllocTakes
  <2>3. Appended(d) = {}
    BY <1>6, <2>2 DEF Appended, Used, Inputs, Outputs
  <2>4. Cardinality(Appended(d)') = 0
    BY <1>4, <2>3, FS_EmptySet
  <2>5. Cardinality(Appending(d)') \in Nat /\ Cardinality(Appending(d)') <= Cardinality(Kickers)
        /\ Cardinality(Kickers) \in Nat
    BY <1>2, AtMost, FiniteFacts
  <2>6. MaxEnqueued \in Nat \ {0}
    BY ChkFits
  <2> QED
    BY <2>1, <2>4, <2>5, <2>6 DEF BoundsOf
<1>7. CASE d # c
  <2>1. k \in Appending(d)' => k \in Appending(d)
    BY <1>7 DEF Appending
  <2>2. Appending(d)' \subseteq Appending(d)
    BY <1>2, <2>1
  <2>3. chk'[d].hEnqueuedCCBCount = chk[d].hEnqueuedCCBCount
    BY <1>5, <1>7
  <2> QED
    BY <1>4, <2>2, <2>3, BoundsStay
<1> QED
  BY <1>6, <1>7

LEMMA BoundsKick ==
  ASSUME NEW k \in Kickers, IInv, ResolveFence(k) \/ KickStep(k)
  PROVE  EnqueuedBounds'
<1>1. TypeOK /\ KickShape /\ k \in Threads
  BY FiniteFacts DEF IInv
<1>2. /\ kick \in [Kickers -> [in : SUBSET Checkpoints, out : Checkpoints \cup {None}]]
      /\ None \notin Checkpoints
  BY <1>1, KickFits, FiniteFacts
<1>3. /\ chk \in [Checkpoints -> ChkType] /\ \A c \in Checkpoints : chk[c] \in ChkType
      /\ \A c \in Checkpoints : chk[c].hEnqueuedCCBCount \in Nat
      /\ MaxEnqueued \in Nat \ {0} /\ Cardinality(Kickers) \in Nat
  BY ChkFits
<1>4. SUFFICES ASSUME NEW d \in Checkpoints
               PROVE  BoundsOf(d)'
  BY DEF EnqueuedBounds, BoundsOf
<1>5. BoundsOf(d)
  BY DEF IInv, EnqueuedBounds, BoundsOf
<1>6. CASE DeRefCheckpoint(k)
  <2>1. PICK c \in Checkpoints : /\ Unreffed(k, c) /\ kick' = [kick EXCEPT ![k].in = @ \ {c}]
    BY <1>6, DeRefMoves
  <2>2. /\ Moved(k) /\ th'[k].pc \notin {"create", "append", "schedule", "rollback"}
        /\ SameEnqueued
    BY <1>1, <2>1, EnqueuedStays DEF Unreffed
  <2>3. \A j \in Kickers \ {k} : kick'[j] = kick[j]
    BY <1>2, <2>1
  <2>4. Appending(d)' \subseteq Appending(d) /\ Appended(d)' \subseteq Appended(d)
    BY <1>1, <2>2, <2>3, UsersLeave
  <2> QED
    BY <2>2, <2>4, BoundsStay DEF SameEnqueued
<1>7. CASE FinaliseFence(k)
  <2>1. /\ Moved(k) /\ th'[k].pc \notin {"create", "append", "schedule", "rollback"}
        /\ SameEnqueued
    BY <1>1, <1>7, KickMoves, EnqueuedStays
  <2>2. \A j \in Kickers \ {k} : kick'[j] = kick[j]
    BY <1>2, <1>7 DEF FinaliseFence
  <2>3. Appending(d)' \subseteq Appending(d) /\ Appended(d)' \subseteq Appended(d)
    BY <1>1, <2>1, <2>2, UsersLeave
  <2> QED
    BY <2>1, <2>3, BoundsStay DEF SameEnqueued
<1>8. CASE ScheduleCommand(k)
  <2>1. /\ Moved(k) /\ th'[k].pc \in {"deref", "rollback"} /\ th[k].pc = "schedule"
        /\ SameEnqueued /\ kick' = kick
    BY <1>1, <1>8, KickMoves, EnqueuedStays DEF ScheduleCommand, At
  <2>2. /\ \A j \in Kickers \ {k} : /\ j \in Appending(d)' <=> j \in Appending(d)
                                    /\ j \in Appended(d)' <=> j \in Appended(d)
        /\ Appending(d)' \in SUBSET Kickers /\ Appended(d)' \in SUBSET Kickers
    BY <1>1, <2>1, UsersMoved
  <2>3. k \notin Appending(d)'
    BY <2>1 DEF Appending
  <2>4. k \in Appended(d)' => k \in Appended(d)
    BY <2>1 DEF Appended, Used
  <2>5. Appending(d)' \subseteq Appending(d) /\ Appended(d)' \subseteq Appended(d)
    BY <2>2, <2>3, <2>4
  <2> QED
    BY <2>1, <2>5, BoundsStay DEF SameEnqueued
<1>9. CASE CommitCommands(k)
  <2>1. /\ Moved(k) /\ th'[k].pc \in {"schedule", "rollback"} /\ th[k].pc = "append"
        /\ kick' = kick
        /\ chk' = [c \in Checkpoints |->
             IF c \in Used(k) THEN [chk[c] EXCEPT !.hEnqueuedCCBCount = @ + 1] ELSE chk[c]]
    BY <1>1, <1>9, KickMoves DEF CommitCommands, At
  <2>2. /\ \A j \in Kickers \ {k} : /\ j \in Appending(d)' <=> j \in Appending(d)
                                    /\ j \in Appended(d)' <=> j \in Appended(d)
        /\ Appending(d)' \in SUBSET Kickers /\ Appended(d)' \in SUBSET Kickers
        /\ Appending(d) \in SUBSET Kickers /\ Appended(d) \in SUBSET Kickers
    BY <1>1, <2>1, UsersMoved
  <2>3. Used(k)' = Used(k)
    BY <2>1 DEF Used
  <2>4. k \notin Appending(d)' /\ k \notin Appended(d)
    BY <2>1 DEF Appending, Appended
  <2>5. CASE d \in Used(k)
    <3>1. k \in Appending(d) /\ k \in Appended(d)'
      BY <2>1, <2>3, <2>5 DEF Appending, Appended
    <3>2. Appending(d)' = Appending(d) \ {k} /\ Appended(d)' = Appended(d) \cup {k}
      BY <2>2, <2>4, <3>1
    <3>3. /\ Cardinality(Appending(d)') = Cardinality(Appending(d)) - 1
          /\ Cardinality(Appending(d)) \in Nat
      <4>1. /\ Cardinality(Appending(d) \ {k}) = Cardinality(Appending(d)) - 1
            /\ Cardinality(Appending(d)) \in Nat \ {0}
        BY <2>2, <3>1, OneLess, FiniteFacts
      <4> QED
        BY <3>2, <4>1
    <3>4. /\ Cardinality(Appended(d)') = Cardinality(Appended(d)) + 1
          /\ Cardinality(Appended(d)) \in Nat
      <4>1. /\ Cardinality(Appended(d) \cup {k}) = Cardinality(Appended(d)) + 1
            /\ Cardinality(Appended(d)) \in Nat
        BY <2>2, <2>4, OneMore, FiniteFacts
      <4> QED
        BY <3>2, <4>1
    <3>5. chk'[d].hEnqueuedCCBCount = chk[d].hEnqueuedCCBCount + 1
      BY <1>3, <2>1, <2>5 DEF ChkType
    <3>6. chk[d].hEnqueuedCCBCount \in Nat /\ MaxEnqueued \in Nat /\ Cardinality(Kickers) \in Nat
      BY <1>3
    <3> QED
      BY <1>5, <3>3, <3>4, <3>5, <3>6 DEF BoundsOf
  <2>6. CASE d \notin Used(k)
    <3>1. chk'[d].hEnqueuedCCBCount = chk[d].hEnqueuedCCBCount
      BY <2>1, <2>6
    <3>2. k \notin Appended(d)'
      BY <2>3, <2>6 DEF Appended
    <3>3. Appending(d)' \subseteq Appending(d) /\ Appended(d)' \subseteq Appended(d)
      BY <2>2, <2>4, <3>2
    <3> QED
      BY <3>1, <3>3, BoundsStay
  <2> QED
    BY <2>5, <2>6
<1>10. CASE RollbackCheckpoints(k)
  <2>1. /\ Moved(k) /\ th'[k].pc = "deref" /\ th[k].pc = "rollback"
        /\ kick' = [kick EXCEPT ![k].out = None]
        /\ chk' = [c \in Checkpoints |->
             IF c \in Used(k) /\ chk[c].listed
             THEN [chk[c] EXCEPT !.hEnqueuedCCBCount = @ - 1] ELSE chk[c]]
    BY <1>1, <1>10, KickMoves DEF RollbackCheckpoints, At
  <2>2. \A j \in Kickers \ {k} : kick'[j] = kick[j]
    BY <1>2, <2>1
  <2>3. /\ \A j \in Kickers \ {k} : /\ j \in Appending(d)' <=> j \in Appending(d)
                                    /\ j \in Appended(d)' <=> j \in Appended(d)
        /\ Appending(d)' \in SUBSET Kickers /\ Appended(d)' \in SUBSET Kickers
        /\ Appending(d) \in SUBSET Kickers /\ Appended(d) \in SUBSET Kickers
    BY <1>1, <2>1, <2>2, UsersMoved
  <2>4. k \notin Appending(d)' /\ k \notin Appended(d)'
    BY <2>1 DEF Appending, Appended
  <2>5. Appending(d)' \subseteq Appending(d) /\ Appended(d)' \subseteq Appended(d)
    BY <2>3, <2>4
  <2>6. CASE d \in Used(k)
    <3>1. chk[d].listed
      BY <2>6, UsedIsHeld DEF InUse
    <3>2. chk'[d].hEnqueuedCCBCount = chk[d].hEnqueuedCCBCount - 1
      BY <1>3, <2>1, <2>6, <3>1 DEF ChkType
    <3>3. k \in Appended(d)
      BY <2>1, <2>6 DEF Appended
    <3>4. Appended(d)' = Appended(d) \ {k}
      BY <2>3, <2>4, <3>3
    <3>5. /\ Cardinality(Appended(d)') = Cardinality(Appended(d)) - 1
          /\ Cardinality(Appended(d)) \in Nat \ {0}
      <4>1. /\ Cardinality(Appended(d) \ {k}) = Cardinality(Appended(d)) - 1
            /\ Cardinality(Appended(d)) \in Nat \ {0}
        BY <2>3, <3>3, OneLess, FiniteFacts
      <4> QED
        BY <3>4, <4>1
    <3>6. /\ Cardinality(Appending(d)') <= Cardinality(Appending(d))
          /\ Cardinality(Appending(d)') \in Nat /\ Cardinality(Appending(d)) \in Nat
      BY <2>3, <2>5, Smaller
    <3>7. chk[d].hEnqueuedCCBCount \in Nat /\ MaxEnqueued \in Nat /\ Cardinality(Kickers) \in Nat
      BY <1>3
    <3> QED
      BY <1>5, <3>2, <3>5, <3>6, <3>7 DEF BoundsOf
  <2>7. CASE d \notin Used(k)
    <3>1. chk'[d].hEnqueuedCCBCount = chk[d].hEnqueuedCCBCount
      BY <2>1, <2>7
    <3> QED
      BY <2>5, <3>1, BoundsStay
  <2> QED
    BY <2>6, <2>7
<1>11. CASE CreateFence(k)
  <2>1. /\ Moved(k) /\ th'[k].pc \in {"append", "deref"} /\ th[k].pc = "create"
    BY <1>1, <1>11, KickMoves DEF CreateFence, At
  <2>2. CASE UNCHANGED <<mem, kick>>
    <3>1. chk' = chk /\ kick' = kick
      BY <2>2 DEF mem
    <3>2. /\ \A j \in Kickers \ {k} : /\ j \in Appending(d)' <=> j \in Appending(d)
                                      /\ j \in Appended(d)' <=> j \in Appended(d)
          /\ Appending(d)' \in SUBSET Kickers /\ Appended(d)' \in SUBSET Kickers
      BY <1>1, <2>1, <3>1, UsersMoved
    <3>3. k \notin Appended(d)' /\ (k \in Appending(d)' => k \in Appending(d))
      BY <2>1, <3>1 DEF Appending, Appended, Used
    <3>4. Appending(d)' \subseteq Appending(d) /\ Appended(d)' \subseteq Appended(d)
      BY <3>2, <3>3
    <3> QED
      BY <3>1, <3>4, BoundsStay
  <2>3. ASSUME NEW c \in Checkpoints, Alloc(c, 1), kick' = [kick EXCEPT ![k].out = c],
               Goto(k, "append")
        PROVE  BoundsOf(d)'
    <3>1. th'[k].pc = "append"
      BY <1>1, <2>3, Goes, StageNames
    <3>2. /\ \A j \in Kickers \ {k} : kick'[j] = kick[j]
          /\ kick'[k].out = c /\ kick'[k].in = kick[k].in
      BY <1>2, <2>3
    <3>3. d # c /\ d \in Used(k)' => d \in Used(k)
      BY <3>2 DEF Used
    <3>4. th'[k].pc \in {"create", "append"} /\ th[k].pc \in {"idle", "create"}
          /\ (th[k].pc = "idle" => Used(k) = {})
      BY <2>1, <3>1
    <3> QED
      BY <2>1, <2>3, <3>2, <3>3, <3>4, BoundsMade
  <2> QED
    BY <1>11, <2>2, <2>3 DEF CreateFence
<1>12. CASE ResolveFence(k)
  <2>1. /\ Moved(k) /\ th'[k].pc = "create" /\ th[k].pc = "idle"
    BY <1>1, <1>12, KickMoves DEF ResolveFence, At
  <2>2. kick[k].in = {} /\ kick[k].out = None /\ Used(k) = {}
    BY <1>1, <2>1 DEF KickShape, NoKick, Used
  <2>3. ASSUME NEW inputs \in SUBSET {c \in Checkpoints : fence[c] = "fence"},
               \A c \in inputs : chk[c].hEnqueuedCCBCount < MaxEnqueued,
               chk' = [c \in Checkpoints |->
                 IF c \in inputs THEN [chk[c] EXCEPT !.hRefCount = @ + 1] ELSE chk[c]],
               kick' = [kick EXCEPT ![k].in = inputs]
        PROVE  BoundsOf(d)'
    <3>1. /\ \A j \in Kickers \ {k} : kick'[j] = kick[j]
          /\ kick'[k].in = inputs /\ kick'[k].out = None
      BY <1>2, <2>2, <2>3
    <3>2. Used(k)' = inputs
      BY <3>1 DEF Used
    <3>3. chk'[d].hEnqueuedCCBCount = chk[d].hEnqueuedCCBCount
      BY <1>3, <2>3 DEF ChkType
    <3>4. /\ \A j \in Kickers \ {k} : /\ j \in Appending(d)' <=> j \in Appending(d)
                                      /\ j \in Appended(d)' <=> j \in Appended(d)
          /\ Appending(d)' \in SUBSET Kickers /\ Appended(d)' \in SUBSET Kickers
          /\ Appended(d) \in SUBSET Kickers
      BY <1>1, <2>1, <3>1, UsersMoved
    <3>5. k \notin Appended(d)'
      BY <2>1 DEF Appended
    <3>6. Appended(d)' \in SUBSET Appended(d)
      BY <3>4, <3>5
    <3>7. CASE d \in inputs
      <4>1. chk[d].hEnqueuedCCBCount < MaxEnqueued
        BY <2>3, <3>7
      <4>2. /\ Cardinality(Appending(d)') <= Cardinality(Kickers)
            /\ Cardinality(Appending(d)') \in Nat
        BY <3>4, AtMost, FiniteFacts
      <4>3. /\ Cardinality(Appended(d)') <= Cardinality(Appended(d))
            /\ Cardinality(Appended(d)') \in Nat /\ Cardinality(Appended(d)) \in Nat
        BY <3>4, <3>6, Smaller
      <4>4. chk[d].hEnqueuedCCBCount \in Nat /\ MaxEnqueued \in Nat /\ Cardinality(Kickers) \in Nat
        BY <1>3
      <4> QED
        BY <1>5, <3>3, <4>1, <4>2, <4>3, <4>4 DEF BoundsOf
    <3>8. CASE d \notin inputs
      <4>1. k \notin Appending(d)'
        BY <3>2, <3>8 DEF Appending
      <4>2. Appending(d)' \subseteq Appending(d)
        BY <3>4, <4>1
      <4> QED
        BY <3>3, <3>6, <4>2, BoundsStay
    <3> QED
      BY <3>7, <3>8
  <2>4. ASSUME NEW c \in Checkpoints, Alloc(c, 2), kick' = [kick EXCEPT ![k].in = {c}]
        PROVE  BoundsOf(d)'
    <3>1. /\ \A j \in Kickers \ {k} : kick'[j] = kick[j]
          /\ kick'[k].in = {c} /\ kick'[k].out = None
      BY <1>2, <2>2, <2>4
    <3>2. d # c /\ d \in Used(k)' => d \in Used(k)
      BY <3>1 DEF Used
    <3>3. th'[k].pc \in {"create", "append"} /\ th[k].pc \in {"idle", "create"}
          /\ (th[k].pc = "idle" => Used(k) = {})
      BY <2>1, <2>2
    <3> QED
      BY <2>1, <2>4, <3>1, <3>2, <3>3, BoundsMade
  <2> QED
    BY <1>12, <2>3, <2>4 DEF ResolveFence
<1> QED
  BY <1>6, <1>7, <1>8, <1>9, <1>10, <1>11, <1>12 DEF KickStep

LEMMA BoundsKept ==
  ASSUME IInv, Next
  PROVE  EnqueuedBounds'
<1>1. TypeOK
  BY DEF IInv
<1>2. /\ Misr \in Threads /\ Unbind \in Threads /\ Misr \notin Kickers /\ Unbind \notin Kickers
  BY FiniteFacts
<1>3. ASSUME NEW t \in Threads, Moved(t), kick' = kick, SameEnqueued,
             t \in Kickers => th'[t].pc \notin {"create", "append", "schedule", "rollback"}
      PROVE  EnqueuedBounds'
  <2>1. SUFFICES ASSUME NEW d \in Checkpoints
                 PROVE  BoundsOf(d)'
    BY DEF EnqueuedBounds, BoundsOf
  <2>2. Appending(d)' \subseteq Appending(d) /\ Appended(d)' \subseteq Appended(d)
    BY <1>3, UsersLeave
  <2> QED
    BY <1>3, <2>2, BoundsStay DEF SameEnqueued
<1>4. ASSUME NEW t \in Threads, ThreadStep(t)
      PROVE  EnqueuedBounds'
  <2>1. kick' = kick /\ SameEnqueued
    BY <1>4, EnqueuedStays DEF ThreadStep, Defer, CountFreed, CheckDeferred, LeaveUnref, Reclaim
  <2>2. Moved(t) /\ (t \in Kickers => th'[t].pc \notin {"create", "append", "schedule", "rollback"})
    BY <1>4, ThreadMoves
  <2> QED
    BY <1>3, <2>1, <2>2
<1>5. ASSUME NEW k \in Kickers, Firmware(k)
      PROVE  EnqueuedBounds'
  <2>1. kick' = kick /\ SameEnqueued /\ Moved(Unbind)
    BY <1>1, <1>5, EnqueuedStays, ThreadFits DEF Firmware, Moved
  <2> QED
    BY <1>2, <1>3, <2>1
<1>6. ASSUME NEW c \in Checkpoints, ForeignSignal(c)
      PROVE  EnqueuedBounds'
  <2>1. kick' = kick /\ SameEnqueued /\ Moved(Unbind)
    BY <1>1, <1>6, EnqueuedStays, ThreadFits DEF ForeignSignal, Moved
  <2> QED
    BY <1>2, <1>3, <2>1
<1>7. ASSUME NEW c \in Checkpoints, FreeFence(c)
      PROVE  EnqueuedBounds'
  <2>1. Unreffed(Misr, c) /\ kick' = kick
    BY <1>7, FreeMoves
  <2>2. SameEnqueued /\ Moved(Misr)
    BY <1>2, <2>1, EnqueuedStays DEF Unreffed
  <2> QED
    BY <1>2, <1>3, <2>1, <2>2
<1>8. CASE ContextDestroy \/ DestroyStep
  <2>1. kick' = kick /\ SameEnqueued /\ Moved(Unbind)
    BY <1>8, DestroyMoves, EnqueuedStays
  <2> QED
    BY <1>2, <1>3, <2>1
<1> QED
  BY <1>4, <1>5, <1>6, <1>7, <1>8, BoundsKick DEF Next

-----------------------------------------------------------------------------
(* The commands in the client CCBs. *)

LEMMA CcbFits ==
  ASSUME TypeOK
  PROVE  /\ ccb \in [Kickers -> [cmds : Seq(Command), known : Nat]] /\ MaxCmds \in Nat \ {0}
         /\ \A k \in Kickers :
              /\ ccb[k] = [cmds |-> ccb[k].cmds, known |-> ccb[k].known]
              /\ ccb[k].cmds \in Seq(Command) /\ Len(ccb[k].cmds) \in 0..MaxCmds
              /\ ccb[k].known \in 0..Len(ccb[k].cmds)
              /\ \A i \in 1..Len(ccb[k].cmds) : ccb[k].cmds[i] \in Command
<1>1. MaxCmds \in Nat \ {0}
  BY CheckpointsAssumption
<1>2. ccb \in [Kickers -> [cmds : Seq(Command), known : Nat]]
  BY DEF TypeOK
<1>3. ASSUME NEW k \in Kickers
      PROVE  /\ ccb[k] = [cmds |-> ccb[k].cmds, known |-> ccb[k].known]
             /\ ccb[k].cmds \in Seq(Command) /\ Len(ccb[k].cmds) \in 0..MaxCmds
             /\ ccb[k].known \in 0..Len(ccb[k].cmds)
             /\ \A i \in 1..Len(ccb[k].cmds) : ccb[k].cmds[i] \in Command
  <2>1. ccb[k].cmds \in Seq(Command) /\ ccb[k] = [cmds |-> ccb[k].cmds, known |-> ccb[k].known]
    BY <1>2
  <2>2. ccb[k].known \in 0..Len(ccb[k].cmds) /\ Len(ccb[k].cmds) <= MaxCmds
    BY DEF TypeOK
  <2>3. Len(ccb[k].cmds) \in Nat /\ \A i \in 1..Len(ccb[k].cmds) : ccb[k].cmds[i] \in Command
    BY <2>1
  <2> QED
    BY <1>1, <2>1, <2>2, <2>3
<1> QED
  BY <1>1, <1>2, <1>3

LEMMA CommandsFinite ==
  ASSUME NEW c \in Checkpoints
  PROVE  /\ IsFiniteSet(Commands)
         /\ WaitingFor(c) \in SUBSET Commands /\ Updating(c) \in SUBSET Commands
         /\ Undoing(c) \in SUBSET Kickers
         /\ Cardinality(WaitingFor(c)) \in Nat /\ Cardinality(Updating(c)) \in Nat
         /\ Cardinality(Undoing(c)) \in Nat
<1>1. IsFiniteSet(1..MaxCmds)
  BY CheckpointsAssumption, FS_Interval
<1>2. IsFiniteSet(Commands)
  BY <1>1, FiniteFacts, FS_Product DEF Commands
<1>3. /\ WaitingFor(c) \in SUBSET Commands /\ Updating(c) \in SUBSET Commands
      /\ Undoing(c) \in SUBSET Kickers
  BY DEF WaitingFor, Updating, Undoing
<1> QED
  BY <1>2, <1>3, AtMost, FiniteFacts

(* When the first command of a CCB goes, the others move up by one.        *)
LEMMA TailShift ==
  ASSUME NEW k \in Kickers, NEW S \in SUBSET Commands, NEW T \in SUBSET Commands,
         \A j \in Kickers \ {k}, i \in 1..MaxCmds : <<j, i>> \in T <=> <<j, i>> \in S,
         \A i \in 1..(MaxCmds - 1) : <<k, i>> \in T <=> <<k, i + 1>> \in S,
         <<k, MaxCmds>> \notin T, <<k, 1>> \notin S
  PROVE  Cardinality(T) = Cardinality(S)
<1> DEFINE g(x) == IF x[1] = k THEN <<k, x[2] - 1>> ELSE x
           f == [x \in S |-> g(x)]
<1>1. MaxCmds \in Nat \ {0}
  BY CheckpointsAssumption
<1>2. \A x \in Commands : x = <<x[1], x[2]>> /\ x[1] \in Kickers /\ x[2] \in 1..MaxCmds
  BY DEF Commands
<1>3. ASSUME NEW x \in S
      PROVE  /\ g(x) \in T /\ g(x)[1] = x[1]
             /\ x[1] = k => g(x)[2] = x[2] - 1
             /\ x[1] # k => g(x)[2] = x[2]
  <2>1. x = <<x[1], x[2]>> /\ x[1] \in Kickers /\ x[2] \in 1..MaxCmds
    BY <1>2
  <2>2. CASE x[1] = k
    <3>1. x[2] # 1
      BY <2>1, <2>2
    <3>2. x[2] - 1 \in 1..(MaxCmds - 1) /\ (x[2] - 1) + 1 = x[2]
      BY <1>1, <2>1, <3>1
    <3>3. <<k, (x[2] - 1) + 1>> \in S
      BY <2>1, <2>2, <3>2
    <3>4. <<k, x[2] - 1>> \in T
      BY <3>2, <3>3
    <3> QED
      BY <2>2, <3>4
  <2>3. CASE x[1] # k
    BY <2>1, <2>3
  <2> QED
    BY <2>2, <2>3
<1>4. ASSUME NEW x \in S, NEW y \in S, g(x) = g(y)
      PROVE  x = y
  <2>1. /\ x = <<x[1], x[2]>> /\ y = <<y[1], y[2]>> /\ x[2] \in Nat /\ y[2] \in Nat
    BY <1>1, <1>2
  <2>2. x[1] = y[1]
    BY <1>3, <1>4
  <2>3. x[2] = y[2]
    <3>1. CASE x[1] = k
      <4>1. x[2] - 1 = y[2] - 1
        BY <1>3, <1>4, <2>2, <3>1
      <4> QED
        BY <2>1, <4>1
    <3>2. CASE x[1] # k
      BY <1>3, <1>4, <2>2, <3>2
    <3> QED
      BY <3>1, <3>2
  <2> QED
    BY <2>1, <2>2, <2>3
<1>5. ASSUME NEW y \in T
      PROVE  \E x \in S : g(x) = y
  <2>1. y = <<y[1], y[2]>> /\ y[1] \in Kickers /\ y[2] \in 1..MaxCmds
    BY <1>2
  <2>2. CASE y[1] = k
    <3>1. y[2] # MaxCmds
      BY <2>1, <2>2
    <3>2. y[2] \in 1..(MaxCmds - 1) /\ (y[2] + 1) - 1 = y[2]
      BY <1>1, <2>1, <3>1
    <3>3. <<k, y[2] + 1>> \in S
      BY <2>1, <2>2, <3>2
    <3>4. g(<<k, y[2] + 1>>) = <<k, (y[2] + 1) - 1>>
      OBVIOUS
    <3> QED
      BY <2>1, <2>2, <3>2, <3>3, <3>4
  <2>3. CASE y[1] # k
    <3>1. y \in S
      BY <2>1, <2>3
    <3> QED
      BY <2>3, <3>1
  <2> QED
    BY <2>2, <2>3
<1>6. f \in [S -> T] /\ \A x \in S : f[x] = g(x)
  BY <1>3
<1> HIDE DEF f, g
<1>7. f \in Bijection(S, T)
  BY <1>4, <1>5, <1>6 DEF Bijection, Injection, IsInjective, Surjection
<1>8. ExistsBijection(S, T)
  BY <1>7 DEF ExistsBijection
<1>9. IsFiniteSet(S)
  <2>1. IsFiniteSet(1..MaxCmds)
    BY <1>1, FS_Interval
  <2>2. IsFiniteSet(Commands)
    BY <2>1, FiniteFacts, FS_Product DEF Commands
  <2> QED
    BY <2>2, FS_Subset
<1> QED
  BY <1>8, <1>9, FS_Bijection

CcbType == [Kickers -> [cmds : Seq(Command), known : Nat]]
CcbLimits == \A k \in Kickers : ccb[k].known \in 0..Len(ccb[k].cmds) /\ Len(ccb[k].cmds) <= MaxCmds
Cmds(k) == ccb[k].cmds

LEMMA CcbChanges ==
  ASSUME NEW k \in Kickers, NEW s \in Seq(Command), NEW n \in 0..Len(s), TypeOK, Len(s) <= MaxCmds,
         ccb' = [ccb EXCEPT ![k] = [cmds |-> s, known |-> n]]
  PROVE  /\ ccb' \in CcbType /\ CcbLimits' /\ Cmds(k)' = s
         /\ \A j \in Kickers \ {k} : Cmds(j)' = Cmds(j)
<1>1. ccb \in CcbType /\ CcbLimits
  BY DEF TypeOK, CcbType, CcbLimits
<1>2. n \in Nat
  OBVIOUS
<1>3. [cmds |-> s, known |-> n] \in [cmds : Seq(Command), known : Nat]
  BY <1>2
<1>4. ccb' \in CcbType
  BY <1>1, <1>3 DEF CcbType
<1>5. ccb'[k] = [cmds |-> s, known |-> n] /\ \A j \in Kickers \ {k} : ccb'[j] = ccb[j]
  BY <1>1 DEF CcbType
<1>6. CcbLimits'
  <2>1. ASSUME NEW j \in Kickers
        PROVE  ccb'[j].known \in 0..Len(ccb'[j].cmds) /\ Len(ccb'[j].cmds) <= MaxCmds
    <3>1. CASE j = k
      BY <1>5, <3>1
    <3>2. CASE j # k
      BY <1>1, <1>5, <3>2 DEF CcbLimits
    <3> QED
      BY <3>1, <3>2
  <2> QED
    BY <2>1 DEF CcbLimits
<1> QED
  BY <1>4, <1>5, <1>6 DEF Cmds

(* The firmware goes on to the next stage of a command, or to the next     *)
(* command.                                                                *)
StageDone(k, stage) ==
  /\ Len(Cmds(k)') = Len(Cmds(k)) /\ Cmds(k)'[1] = [Cmds(k)[1] EXCEPT !.stage = stage]
  /\ \A i \in 2..Len(Cmds(k)) : Cmds(k)'[i] = Cmds(k)[i]

LEMMA FirmwareCommands ==
  ASSUME NEW k \in Kickers, TypeOK, Firmware(k)
  PROVE  /\ ccb' \in CcbType /\ CcbLimits' /\ Cmds(k) \in Seq(Command)
         /\ \A j \in Kickers \ {k} : Cmds(j)' = Cmds(j)
         /\ Len(Cmds(k)) \in 1..MaxCmds /\ Cmds(k)[1] \in Command
         /\ \/ /\ Cmds(k)[1].stage = "wait" /\ StageDone(k, "run")
               /\ chk' = [c \in Checkpoints |->
                    IF c \in Cmds(k)[1].fence THEN [chk[c] EXCEPT !.ui32FwRefCount = @ + 1] ELSE chk[c]]
            \/ /\ Cmds(k)[1].stage = "run" /\ StageDone(k, "signalled")
               /\ chk' = [chk EXCEPT ![Cmds(k)[1].update].ui32State = "SIGNALLED"]
            \/ /\ Cmds(k)[1].stage # "wait"
               /\ Len(Cmds(k)') = Len(Cmds(k)) - 1
               /\ \A i \in 1..(Len(Cmds(k)) - 1) : Cmds(k)'[i] = Cmds(k)[i + 1]
               /\ chk' = [c \in Checkpoints |->
                    IF c = Cmds(k)[1].update THEN [chk[c] EXCEPT !.ui32FwRefCount = @ + 1] ELSE chk[c]]
<1> DEFINE s == ccb[k].cmds
           n == ccb[k].known
<1>1. /\ ccb \in CcbType /\ s \in Seq(Command) /\ ccb[k] = [cmds |-> s, known |-> n]
      /\ n \in 0..Len(s) /\ Len(s) \in 0..MaxCmds /\ MaxCmds \in Nat
      /\ \A i \in 1..Len(s) : s[i] \in Command
  BY CcbFits DEF CcbType
<1>2. n > 0 /\ Len(s) \in 1..MaxCmds /\ s # <<>> /\ Len(s) \in Nat
  <2>1. n > 0
    BY DEF Firmware
  <2> QED
    BY <1>1, <2>1
<1>3. s[1] \in Command /\ Head(s) = s[1]
  BY <1>1, <1>2
<1>4. ASSUME NEW stage \in {"run", "signalled"}, ccb' = [ccb EXCEPT ![k].cmds[1].stage = stage]
      PROVE  /\ ccb' \in CcbType /\ CcbLimits' /\ StageDone(k, stage)
             /\ \A j \in Kickers \ {k} : Cmds(j)' = Cmds(j)
  <2> DEFINE e == [s[1] EXCEPT !.stage = stage]
             z == [s EXCEPT ![1] = e]
  <2>1. e \in Command
    BY <1>3 DEF Command
  <2>2. z \in Seq(Command) /\ Len(z) = Len(s) /\ z[1] = e /\ \A i \in 2..Len(s) : z[i] = s[i]
    <3> HIDE DEF e, s
    <3>1. s \in [1..Len(s) -> Command]
      BY <1>1
    <3>2. z \in [1..Len(s) -> Command]
      BY <1>2, <2>1, <3>1
    <3>3. z \in Seq(Command) /\ Len(z) = Len(s)
      BY <1>1, <1>2, <2>1, ExceptSeq
    <3>4. 1 \in 1..Len(s)
      BY <1>2
    <3>5. z[1] = e
      BY <3>1, <3>4
    <3>6. \A i \in 2..Len(s) : i \in 1..Len(s) /\ i # 1
      BY <1>2
    <3> QED
      BY <3>1, <3>3, <3>5, <3>6
  <2>3. ccb' = [ccb EXCEPT ![k] = [cmds |-> z, known |-> n]]
    <3>2. ccb' = [ccb EXCEPT ![k] = [ccb[k] EXCEPT !.cmds = z]]
      BY <1>4
    <3>3. [ccb[k] EXCEPT !.cmds = z] = [cmds |-> z, known |-> n]
      <4> HIDE DEF z, n, s
      <4> QED
        BY <1>1
    <3> QED
      BY <3>2, <3>3
  <2>5. n \in 0..Len(z) /\ Len(z) <= MaxCmds /\ TypeOK /\ k \in Kickers
    BY <1>1, <2>2
  <2> HIDE DEF z, e, n, s
  <2>4. /\ ccb' \in CcbType /\ CcbLimits' /\ Cmds(k)' = z
        /\ \A j \in Kickers \ {k} : Cmds(j)' = Cmds(j)
    BY <2>2, <2>3, <2>5, CcbChanges
  <2> QED
    BY <2>2, <2>4 DEF StageDone, Cmds, e, s
<1>5. ASSUME ccb' = [ccb EXCEPT ![k].cmds = Tail(@), ![k].known = @ - 1]
      PROVE  /\ ccb' \in CcbType /\ CcbLimits' /\ Len(Cmds(k)') = Len(s) - 1
             /\ \A i \in 1..(Len(s) - 1) : Cmds(k)'[i] = s[i + 1]
             /\ \A j \in Kickers \ {k} : Cmds(j)' = Cmds(j)
  <2>1. /\ Tail(s) \in Seq(Command) /\ Len(Tail(s)) = Len(s) - 1
        /\ \A i \in 1..(Len(s) - 1) : Tail(s)[i] = s[i + 1]
    <3> HIDE DEF s
    <3>1. /\ Tail(s) \in Seq(Command) /\ Len(Tail(s)) = Len(s) - 1
          /\ \A i \in 1..Len(Tail(s)) : Tail(s)[i] = s[i + 1]
      BY <1>1, <1>2, HeadTailProperties
    <3> QED
      BY <3>1
  <2>2. ccb' = [ccb EXCEPT ![k] = [cmds |-> Tail(s), known |-> n - 1]]
    BY <1>1, <1>5 DEF CcbType
  <2>3. n - 1 \in 0..Len(Tail(s)) /\ Len(Tail(s)) <= MaxCmds
    BY <1>1, <1>2, <2>1
  <2> HIDE DEF s, n
  <2>4. /\ ccb' \in CcbType /\ CcbLimits' /\ Cmds(k)' = Tail(s)
        /\ \A j \in Kickers \ {k} : Cmds(j)' = Cmds(j)
    BY <2>1, <2>2, <2>3, CcbChanges
  <2> QED
    BY <2>1, <2>4
<1>6. CASE /\ s[1].stage = "wait" /\ ccb' = [ccb EXCEPT ![k].cmds[1].stage = "run"]
           /\ chk' = [c \in Checkpoints |->
                IF c \in s[1].fence THEN [chk[c] EXCEPT !.ui32FwRefCount = @ + 1] ELSE chk[c]]
  BY <1>1, <1>2, <1>3, <1>4, <1>6 DEF Cmds
<1>7. CASE /\ s[1].stage = "run" /\ ccb' = [ccb EXCEPT ![k].cmds[1].stage = "signalled"]
           /\ chk' = [chk EXCEPT ![s[1].update].ui32State = "SIGNALLED"]
  BY <1>1, <1>2, <1>3, <1>4, <1>7 DEF Cmds
<1>8. CASE /\ s[1].stage # "wait" /\ ccb' = [ccb EXCEPT ![k].cmds = Tail(@), ![k].known = @ - 1]
           /\ chk' = [c \in Checkpoints |->
                IF c = s[1].update THEN [chk[c] EXCEPT !.ui32FwRefCount = @ + 1] ELSE chk[c]]
  BY <1>1, <1>2, <1>3, <1>5, <1>8 DEF Cmds
<1>9. \/ /\ s[1].stage = "wait" /\ ccb' = [ccb EXCEPT ![k].cmds[1].stage = "run"]
         /\ chk' = [c \in Checkpoints |->
              IF c \in s[1].fence THEN [chk[c] EXCEPT !.ui32FwRefCount = @ + 1] ELSE chk[c]]
      \/ /\ s[1].stage = "run" /\ ccb' = [ccb EXCEPT ![k].cmds[1].stage = "signalled"]
         /\ chk' = [chk EXCEPT ![s[1].update].ui32State = "SIGNALLED"]
      \/ /\ s[1].stage # "wait" /\ ccb' = [ccb EXCEPT ![k].cmds = Tail(@), ![k].known = @ - 1]
         /\ chk' = [c \in Checkpoints |->
              IF c = s[1].update THEN [chk[c] EXCEPT !.ui32FwRefCount = @ + 1] ELSE chk[c]]
  <2> DEFINE h == Head(s)
  <2>1. h = s[1]
    BY <1>3
  <2>2. CASE h.stage = "wait" /\ (\A c \in h.fence : chk[c].ui32State # "ACTIVE") /\ chk' = [c \in Checkpoints |->
             IF c \in h.fence THEN [chk[c] EXCEPT !.ui32FwRefCount = @ + 1] ELSE chk[c]]
        /\ ccb' = [ccb EXCEPT ![k].cmds[1].stage = "run"]
    <3> HIDE DEF h, s
    <3> QED
      BY <2>1, <2>2
  <2>3. CASE h.stage = "run" /\ chk' = [chk EXCEPT ![h.update].ui32State = "SIGNALLED"]
        /\ ccb' = [ccb EXCEPT ![k].cmds[1].stage = "signalled"]
    <3> HIDE DEF h, s
    <3> QED
      BY <2>1, <2>3
  <2>4. CASE h.stage = (IF h.update = None THEN "run" ELSE "signalled")
        /\ chk' = [c \in Checkpoints |->
             IF c = h.update THEN [chk[c] EXCEPT !.ui32FwRefCount = @ + 1] ELSE chk[c]]
        /\ ccb' = [ccb EXCEPT ![k].cmds = Tail(@), ![k].known = @ - 1]
    <3>1. h.stage # "wait"
      BY <2>4
    <3> HIDE DEF h, s
    <3> QED
      BY <2>1, <2>4, <3>1
  <2> QED
    BY <2>2, <2>3, <2>4 DEF Firmware
<1> QED
  BY <1>6, <1>7, <1>8, <1>9

(* A command that is put into the CCB, and one that finds no room.         *)
LEMMA CommitChanges ==
  ASSUME NEW k \in Kickers, TypeOK, CommitCommands(k)
  PROVE  /\ ccb' \in CcbType /\ CcbLimits'
         /\ \A j \in Kickers \ {k} : Cmds(j)' = Cmds(j)
         /\ IF Len(Cmds(k)) < MaxCmds
            THEN /\ Len(Cmds(k)') = Len(Cmds(k)) + 1
                 /\ \A i \in 1..Len(Cmds(k)) : Cmds(k)'[i] = Cmds(k)[i]
                 /\ Cmds(k)'[Len(Cmds(k)) + 1] = [fence |-> kick[k].in, update |-> kick[k].out,
                                                  stage |-> "wait"]
            ELSE Cmds(k)' = Cmds(k)
<1> DEFINE s == ccb[k].cmds
           n == ccb[k].known
           e == [fence |-> kick[k].in, update |-> kick[k].out, stage |-> "wait"]
<1>1. /\ ccb \in CcbType /\ s \in Seq(Command) /\ ccb[k] = [cmds |-> s, known |-> n]
      /\ n \in 0..Len(s) /\ Len(s) \in 0..MaxCmds /\ MaxCmds \in Nat /\ CcbLimits
  BY CcbFits DEF CcbType, TypeOK, CcbLimits
<1>2. CASE Len(s) < MaxCmds
  <2>1. ccb' = [ccb EXCEPT ![k].cmds = Append(@, e)]
    BY <1>2 DEF CommitCommands
  <2>2. ccb' = [ccb EXCEPT ![k] = [cmds |-> Append(s, e), known |-> n]]
    <3>1. ccb' = [ccb EXCEPT ![k] = [ccb[k] EXCEPT !.cmds = Append(s, e)]]
      BY <2>1
    <3>2. [ccb[k] EXCEPT !.cmds = Append(s, e)] = [cmds |-> Append(s, e), known |-> n]
      <4> HIDE DEF e, s, n
      <4> QED
        BY <1>1
    <3> QED
      BY <3>1, <3>2
  <2>3. e \in Command
    BY KickFits DEF Command
  <2>4. /\ Append(s, e) \in Seq(Command) /\ Len(Append(s, e)) = Len(s) + 1
        /\ \A i \in 1..Len(s) : Append(s, e)[i] = s[i]
        /\ Append(s, e)[Len(s) + 1] = e
    <3> HIDE DEF e, s
    <3> QED
      BY <1>1, <2>3, AppendProperties
  <2>5. n \in 0..Len(Append(s, e)) /\ Len(Append(s, e)) <= MaxCmds
    BY <1>1, <1>2, <2>4
  <2> HIDE DEF e, s, n
  <2>6. /\ ccb' \in CcbType /\ CcbLimits' /\ Cmds(k)' = Append(s, e)
        /\ \A j \in Kickers \ {k} : Cmds(j)' = Cmds(j)
    BY <2>2, <2>4, <2>5, CcbChanges
  <2> QED
    BY <1>2, <2>4, <2>6 DEF Cmds, s, e
<1>3. CASE ~(Len(s) < MaxCmds)
  <2>1. ccb' = ccb
    BY <1>3 DEF CommitCommands
  <2> QED
    BY <1>1, <1>3, <2>1 DEF Cmds, CcbLimits
<1> QED
  BY <1>2, <1>3

-----------------------------------------------------------------------------
(* What hEnqueuedCCBCount and ui32FwRefCount count. *)

Balanced(c) == chk[c].hEnqueuedCCBCount = chk[c].ui32FwRefCount + Cardinality(WaitingFor(c))
                                            + Cardinality(Updating(c)) + Cardinality(Undoing(c))
Accounted(c) == Balanced(c) /\ (Living(c) \/ Serviced(c))

LEMMA Entries ==
  ASSUME NEW c \in Checkpoints, NEW j \in Kickers, NEW i \in 1..MaxCmds
  PROVE  /\ <<j, i>> \in WaitingFor(c) <=> /\ i <= Len(Cmds(j)) /\ Cmds(j)[i].stage = "wait"
                                           /\ c \in Cmds(j)[i].fence
         /\ <<j, i>> \in WaitingFor(c)' <=> /\ i <= Len(Cmds(j)') /\ Cmds(j)'[i].stage = "wait"
                                            /\ c \in Cmds(j)'[i].fence
         /\ <<j, i>> \in Updating(c) <=> i <= Len(Cmds(j)) /\ Cmds(j)[i].update = c
         /\ <<j, i>> \in Updating(c)' <=> i <= Len(Cmds(j)') /\ Cmds(j)'[i].update = c
<1>1. <<j, i>> \in Commands /\ <<j, i>>[1] = j /\ <<j, i>>[2] = i
  BY DEF Commands
<1>2. <<j, i>> \in WaitingFor(c) <=> /\ i <= Len(Cmds(j)) /\ Cmds(j)[i].stage = "wait"
                                     /\ c \in Cmds(j)[i].fence
  BY <1>1 DEF WaitingFor, Cmds
<1>3. <<j, i>> \in WaitingFor(c)' <=> /\ i <= Len(Cmds(j)') /\ Cmds(j)'[i].stage = "wait"
                                      /\ c \in Cmds(j)'[i].fence
  BY <1>1 DEF WaitingFor, Cmds, Commands
<1>4. <<j, i>> \in Updating(c) <=> i <= Len(Cmds(j)) /\ Cmds(j)[i].update = c
  BY <1>1 DEF Updating, Cmds
<1>5. <<j, i>> \in Updating(c)' <=> i <= Len(Cmds(j)') /\ Cmds(j)'[i].update = c
  BY <1>1 DEF Updating, Cmds, Commands
<1> QED
  BY <1>2, <1>3, <1>4, <1>5

LEMMA EntrySets ==
  ASSUME NEW c \in Checkpoints
  PROVE  /\ WaitingFor(c) \in SUBSET Commands /\ WaitingFor(c)' \in SUBSET Commands
         /\ Updating(c) \in SUBSET Commands /\ Updating(c)' \in SUBSET Commands
BY DEF WaitingFor, Updating, Commands

LEMMA SameEntries ==
  ASSUME NEW S \in SUBSET Commands, NEW T \in SUBSET Commands,
         \A j \in Kickers, i \in 1..MaxCmds : <<j, i>> \in S <=> <<j, i>> \in T
  PROVE  S = T
<1>1. \A x \in Commands : x = <<x[1], x[2]>> /\ x[1] \in Kickers /\ x[2] \in 1..MaxCmds
  BY DEF Commands
<1>2. \A x \in Commands : x \in S <=> x \in T
  BY <1>1
<1> QED
  BY <1>2

LEMMA CommandsSame ==
  ASSUME NEW c \in Checkpoints, \A j \in Kickers : Cmds(j)' = Cmds(j)
  PROVE  WaitingFor(c)' = WaitingFor(c) /\ Updating(c)' = Updating(c)
<1>1. \A j \in Kickers, i \in 1..MaxCmds : <<j, i>> \in WaitingFor(c)' <=> <<j, i>> \in WaitingFor(c)
  BY Entries
<1>2. \A j \in Kickers, i \in 1..MaxCmds : <<j, i>> \in Updating(c)' <=> <<j, i>> \in Updating(c)
  BY Entries
<1>3. WaitingFor(c)' = WaitingFor(c)
  BY <1>1, EntrySets, SameEntries
<1>4. Updating(c)' = Updating(c)
  BY <1>2, EntrySets, SameEntries
<1> QED
  BY <1>3, <1>4

LEMMA UndoingSame ==
  ASSUME NEW t \in Threads, NEW d \in Checkpoints, Moved(t),
         \A k \in Kickers \ {t} : kick'[k] = kick[k],
         t \in Kickers => th[t].pc # "rollback" /\ th'[t].pc # "rollback"
  PROVE  Undoing(d)' = Undoing(d)
<1>1. /\ \A k \in Kickers \ {t} : k \in Undoing(d)' <=> k \in Undoing(d)
      /\ Undoing(d) \subseteq Kickers /\ Undoing(d)' \subseteq Kickers
  BY UsersMoved
<1>2. t \notin Undoing(d)' /\ t \notin Undoing(d)
  BY DEF Undoing
<1> QED
  BY <1>1, <1>2

(* With all commands serviced, none has the checkpoint any more.           *)
LEMMA NoneLeft ==
  ASSUME NEW c \in Checkpoints, IInv, late = 0
  PROVE  /\ Accounted(c)
         /\ Serviced(c) => WaitingFor(c) = {} /\ Updating(c) = {} /\ Undoing(c) = {}
<1>1. Accounted(c)
  BY DEF IInv, CommandsCounted, Accounted, Balanced
<1>2. ASSUME Serviced(c)
      PROVE  WaitingFor(c) = {} /\ Updating(c) = {} /\ Undoing(c) = {}
  <2> DEFINE w == Cardinality(WaitingFor(c))
             u == Cardinality(Updating(c))
             b == Cardinality(Undoing(c))
  <2>1. /\ w \in Nat /\ u \in Nat /\ b \in Nat
        /\ chk[c].hEnqueuedCCBCount \in Nat /\ chk[c].ui32FwRefCount \in Nat
    BY CommandsFinite, ChkFits
  <2>2. chk[c].hEnqueuedCCBCount = chk[c].ui32FwRefCount + w + u + b
        /\ chk[c].ui32FwRefCount = chk[c].hEnqueuedCCBCount
    BY <1>1, <1>2 DEF Accounted, Balanced, Serviced
  <2>3. w = 0 /\ u = 0 /\ b = 0
    <3> HIDE DEF w, u, b
    <3> QED
      BY <2>1, <2>2
  <2>4. IsFiniteSet(WaitingFor(c)) /\ IsFiniteSet(Updating(c)) /\ IsFiniteSet(Undoing(c))
    BY CommandsFinite, FiniteFacts, FS_Subset
  <2> QED
    BY <2>3, <2>4, FS_EmptySet
<1> QED
  BY <1>1, <1>2

(* What an action leaves alone is accounted for as before.                 *)
LEMMA AccountStays ==
  ASSUME NEW d \in Checkpoints, IInv, late = 0,
         chk'[d].hEnqueuedCCBCount = chk[d].hEnqueuedCCBCount,
         chk'[d].ui32FwRefCount = chk[d].ui32FwRefCount,
         \A j \in Kickers : Cmds(j)' = Cmds(j), Undoing(d)' = Undoing(d),
         Living(d) => Living(d)' \/ Serviced(d)
  PROVE  Accounted(d)'
<1>1. Accounted(d)
  BY NoneLeft
<1>2. WaitingFor(d)' = WaitingFor(d) /\ Updating(d)' = Updating(d)
  BY CommandsSame
<1>3. Balanced(d)'
  BY <1>1, <1>2 DEF Accounted, Balanced
<1>4. Serviced(d)' <=> Serviced(d)
  BY DEF Serviced
<1> QED
  BY <1>1, <1>3, <1>4 DEF Accounted

LEMMA LivingStays ==
  ASSUME NEW t \in Threads, NEW d \in Checkpoints, Moved(t), th[t].pc # "defer",
         deferred \subseteq deferred', chk[d].hRefCount > 0 => chk'[d].hRefCount > 0, Living(d)
  PROVE  Living(d)'
<1>1. CASE chk[d].hRefCount > 0 \/ d \in deferred
  BY <1>1 DEF Living
<1>2. CASE \E u \in Threads : th[u].pc = "defer" /\ d \in th[u].work
  <2>1. PICK u \in Threads : th[u].pc = "defer" /\ d \in th[u].work
    BY <1>2
  <2>2. th'[u] = th[u]
    BY <2>1 DEF Moved
  <2> QED
    BY <2>1, <2>2 DEF Living, At
<1> QED
  BY <1>1, <1>2 DEF Living, At

(* ui32FwRefCount: the actions that leave it.                              *)
SameServiced == \A c \in Checkpoints : chk'[c].ui32FwRefCount = chk[c].ui32FwRefCount

LEMMA ServicedStays ==
  ASSUME IInv
  PROVE  /\ \A t \in Threads : ThreadStep(t) => SameServiced
         /\ \A k \in Kickers : (CommitCommands(k) \/ ScheduleCommand(k) \/ RollbackCheckpoints(k)
                                 \/ FinaliseFence(k)) => SameServiced
         /\ \A c \in Checkpoints : ForeignSignal(c) => SameServiced
         /\ \A t \in Threads, c \in Checkpoints : Unreffed(t, c) => SameServiced
         /\ (ContextDestroy \/ DestroyStep) => SameServiced
<1>1. chk \in [Checkpoints -> ChkType] /\ \A c \in Checkpoints : chk[c] \in ChkType
  BY ChkFits
<1>2. ASSUME NEW t \in Threads, ThreadStep(t)
      PROVE  SameServiced
  <2>1. CASE chk' = chk
    BY <2>1 DEF SameServiced
  <2>2. ASSUME NEW c \in Checkpoints, Reclaim(t, c)
        PROVE  SameServiced
    BY <1>1, <2>2 DEF Reclaim, SameServiced, ChkType
  <2> QED
    BY <1>2, <2>1, <2>2 DEF ThreadStep, Defer, CountFreed, CheckDeferred, LeaveUnref
<1>3. ASSUME NEW k \in Kickers, ScheduleCommand(k) \/ FinaliseFence(k)
      PROVE  SameServiced
  BY <1>3 DEF ScheduleCommand, FinaliseFence, mem, SameServiced
<1>4. ASSUME NEW k \in Kickers, CommitCommands(k)
      PROVE  SameServiced
  BY <1>1, <1>4 DEF CommitCommands, SameServiced, ChkType
<1>5. ASSUME NEW k \in Kickers, RollbackCheckpoints(k)
      PROVE  SameServiced
  BY <1>1, <1>5 DEF RollbackCheckpoints, SameServiced, ChkType
<1>6. ASSUME NEW c \in Checkpoints, ForeignSignal(c)
      PROVE  SameServiced
  BY <1>1, <1>6 DEF ForeignSignal, SameServiced, ChkType
<1>7. ASSUME NEW t \in Threads, NEW c \in Checkpoints, Unreffed(t, c)
      PROVE  SameServiced
  BY <1>1, <1>7 DEF Unreffed, SameServiced, ChkType
<1>8. ASSUME ContextDestroy \/ DestroyStep
      PROVE  SameServiced
  BY <1>8, DestroyMoves DEF SameServiced
<1> QED
  BY <1>2, <1>3, <1>4, <1>5, <1>6, <1>7, <1>8

(* The firmware has passed the fences of a command: the first of its CCB   *)
(* waits no longer.                                                        *)
LEMMA FencePassed ==
  ASSUME NEW k \in Kickers, NEW d \in Checkpoints, 1 \in 1..MaxCmds,
         Len(Cmds(k)) \in 1..MaxCmds, StageDone(k, "run"), Cmds(k)[1] \in Command,
         Cmds(k)[1].stage = "wait", \A j \in Kickers \ {k} : Cmds(j)' = Cmds(j)
  PROVE  /\ WaitingFor(d)' = WaitingFor(d) \ {<<k, 1>>} /\ Updating(d)' = Updating(d)
         /\ <<k, 1>> \in WaitingFor(d) <=> d \in Cmds(k)[1].fence
<1>1. /\ Len(Cmds(k)') = Len(Cmds(k)) /\ Cmds(k)'[1].stage = "run"
      /\ Cmds(k)'[1].update = Cmds(k)[1].update
      /\ \A i \in 2..Len(Cmds(k)) : Cmds(k)'[i] = Cmds(k)[i]
  BY DEF StageDone, Command
<1>2. <<k, 1>> \notin WaitingFor(d)'
  BY <1>1, Entries
<1>3. <<k, 1>> \in WaitingFor(d) <=> d \in Cmds(k)[1].fence
  <2>1. 1 <= Len(Cmds(k))
    OBVIOUS
  <2> QED
    BY <2>1, Entries
<1>4. ASSUME NEW j \in Kickers, NEW i \in 1..MaxCmds, j # k \/ i # 1
      PROVE  <<j, i>> \in WaitingFor(d)' <=> <<j, i>> \in WaitingFor(d)
  <2>1. j = k /\ i <= Len(Cmds(k)) => i \in 2..Len(Cmds(k))
    BY <1>4
  <2> QED
    BY <1>1, <2>1, Entries
<1>5. ASSUME NEW j \in Kickers, NEW i \in 1..MaxCmds
      PROVE  <<j, i>> \in Updating(d)' <=> <<j, i>> \in Updating(d)
  <2>1. j = k /\ i # 1 /\ i <= Len(Cmds(k)) => i \in 2..Len(Cmds(k))
    OBVIOUS
  <2> QED
    BY <1>1, <2>1, Entries
<1>6. Updating(d)' = Updating(d)
  BY <1>5, EntrySets, SameEntries
<1>7. WaitingFor(d)' = WaitingFor(d) \ {<<k, 1>>}
  <2>1. \A j \in Kickers, i \in 1..MaxCmds :
          <<j, i>> \in WaitingFor(d)' <=> <<j, i>> \in WaitingFor(d) \ {<<k, 1>>}
    BY <1>2, <1>4
  <2>2. WaitingFor(d) \ {<<k, 1>>} \in SUBSET Commands /\ WaitingFor(d)' \in SUBSET Commands
    BY EntrySets
  <2> QED
    BY <2>1, <2>2, SameEntries
<1> QED
  BY <1>3, <1>6, <1>7

(* It has signalled the update.                                            *)
LEMMA UpdateSignalled ==
  ASSUME NEW k \in Kickers, NEW d \in Checkpoints,
         Len(Cmds(k)) \in 1..MaxCmds, StageDone(k, "signalled"), Cmds(k)[1] \in Command,
         Cmds(k)[1].stage = "run", \A j \in Kickers \ {k} : Cmds(j)' = Cmds(j)
  PROVE  WaitingFor(d)' = WaitingFor(d) /\ Updating(d)' = Updating(d)
<1>1. /\ Len(Cmds(k)') = Len(Cmds(k)) /\ Cmds(k)'[1].stage = "signalled"
      /\ Cmds(k)'[1].update = Cmds(k)[1].update
      /\ \A i \in 2..Len(Cmds(k)) : Cmds(k)'[i] = Cmds(k)[i]
  BY DEF StageDone, Command
<1>2. ASSUME NEW j \in Kickers, NEW i \in 1..MaxCmds
      PROVE  /\ <<j, i>> \in WaitingFor(d)' <=> <<j, i>> \in WaitingFor(d)
             /\ <<j, i>> \in Updating(d)' <=> <<j, i>> \in Updating(d)
  <2>1. j = k /\ i # 1 /\ i <= Len(Cmds(k)) => i \in 2..Len(Cmds(k))
    OBVIOUS
  <2>2. CASE j = k /\ i = 1
    BY <1>1, <2>2, Entries
  <2>3. CASE j # k \/ i # 1
    BY <1>1, <2>1, <2>3, Entries
  <2> QED
    BY <2>2, <2>3
<1>3. WaitingFor(d)' = WaitingFor(d)
  BY <1>2, EntrySets, SameEntries
<1>4. Updating(d)' = Updating(d)
  BY <1>2, EntrySets, SameEntries
<1> QED
  BY <1>3, <1>4

(* It is done with the command, which leaves the CCB.                      *)
LEMMA CommandLeaves ==
  ASSUME NEW k \in Kickers, NEW d \in Checkpoints, MaxCmds \in Nat \ {0},
         Len(Cmds(k)) \in 1..MaxCmds, Cmds(k)[1].stage # "wait",
         Len(Cmds(k)') = Len(Cmds(k)) - 1,
         \A i \in 1..(Len(Cmds(k)) - 1) : Cmds(k)'[i] = Cmds(k)[i + 1],
         \A j \in Kickers \ {k} : Cmds(j)' = Cmds(j)
  PROVE  /\ Cardinality(WaitingFor(d)') = Cardinality(WaitingFor(d))
         /\ Cardinality(Updating(d)') = Cardinality(Updating(d) \ {<<k, 1>>})
         /\ <<k, 1>> \in Updating(d) <=> Cmds(k)[1].update = d
<1>1. 1 \in 1..MaxCmds /\ MaxCmds \in 1..MaxCmds /\ 1 <= Len(Cmds(k)) /\ ~(MaxCmds <= Len(Cmds(k)'))
  OBVIOUS
<1>2. /\ <<k, 1>> \notin WaitingFor(d) /\ (<<k, 1>> \in Updating(d) <=> Cmds(k)[1].update = d)
      /\ <<k, MaxCmds>> \notin WaitingFor(d)' /\ <<k, MaxCmds>> \notin Updating(d)'
  BY <1>1, Entries
<1>3. ASSUME NEW i \in 1..(MaxCmds - 1)
      PROVE  /\ <<k, i>> \in WaitingFor(d)' <=> <<k, i + 1>> \in WaitingFor(d)
             /\ <<k, i>> \in Updating(d)' <=> <<k, i + 1>> \in Updating(d)
  <2>1. i \in 1..MaxCmds /\ i + 1 \in 1..MaxCmds
    OBVIOUS
  <2>2. i <= Len(Cmds(k)') <=> i + 1 <= Len(Cmds(k))
    OBVIOUS
  <2>3. i + 1 <= Len(Cmds(k)) => Cmds(k)'[i] = Cmds(k)[i + 1]
    OBVIOUS
  <2>4. /\ <<k, i>> \in WaitingFor(d)' <=> /\ i <= Len(Cmds(k)') /\ Cmds(k)'[i].stage = "wait"
                                           /\ d \in Cmds(k)'[i].fence
        /\ <<k, i>> \in Updating(d)' <=> i <= Len(Cmds(k)') /\ Cmds(k)'[i].update = d
    BY <2>1, Entries
  <2>5. /\ <<k, i + 1>> \in WaitingFor(d) <=> /\ i + 1 <= Len(Cmds(k))
                                              /\ Cmds(k)[i + 1].stage = "wait"
                                              /\ d \in Cmds(k)[i + 1].fence
        /\ <<k, i + 1>> \in Updating(d) <=> i + 1 <= Len(Cmds(k)) /\ Cmds(k)[i + 1].update = d
    BY <2>1, Entries
  <2> QED
    BY <2>2, <2>3, <2>4, <2>5
<1>4. ASSUME NEW j \in Kickers \ {k}, NEW i \in 1..MaxCmds
      PROVE  /\ <<j, i>> \in WaitingFor(d)' <=> <<j, i>> \in WaitingFor(d)
             /\ <<j, i>> \in Updating(d)' <=> <<j, i>> \in Updating(d)
  BY Entries
<1>5. Cardinality(WaitingFor(d)') = Cardinality(WaitingFor(d))
  BY <1>2, <1>3, <1>4, EntrySets, TailShift
<1>6. Cardinality(Updating(d)') = Cardinality(Updating(d) \ {<<k, 1>>})
  <2>1. \A j \in Kickers \ {k}, i \in 1..MaxCmds :
          <<j, i>> \in Updating(d)' <=> <<j, i>> \in Updating(d) \ {<<k, 1>>}
    BY <1>4
  <2>2. \A i \in 1..(MaxCmds - 1) :
          <<k, i>> \in Updating(d)' <=> <<k, i + 1>> \in Updating(d) \ {<<k, 1>>}
    <3>1. \A i \in 1..(MaxCmds - 1) : i + 1 # 1
      OBVIOUS
    <3> QED
      BY <1>3, <3>1
  <2>3. Updating(d) \ {<<k, 1>>} \in SUBSET Commands /\ Updating(d)' \in SUBSET Commands
    BY EntrySets
  <2> QED
    BY <1>2, <2>1, <2>2, <2>3, TailShift
<1> QED
  BY <1>2, <1>5, <1>6

(* What the firmware counts is what leaves the two sets.                   *)
LEMMA AccountFirmware ==
  ASSUME NEW k \in Kickers, NEW d \in Checkpoints, IInv, late = 0, Firmware(k)
  PROVE  Accounted(d)'
<1>1. TypeOK /\ Accounted(d) /\ MaxCmds \in Nat \ {0} /\ 1 \in 1..MaxCmds
  BY NoneLeft, CcbFits DEF IInv
<1>2. /\ Cmds(k) \in Seq(Command) /\ Len(Cmds(k)) \in 1..MaxCmds /\ Cmds(k)[1] \in Command
      /\ \A j \in Kickers \ {k} : Cmds(j)' = Cmds(j)
      /\ \/ /\ Cmds(k)[1].stage = "wait" /\ StageDone(k, "run")
            /\ chk' = [c \in Checkpoints |->
                 IF c \in Cmds(k)[1].fence THEN [chk[c] EXCEPT !.ui32FwRefCount = @ + 1] ELSE chk[c]]
         \/ /\ Cmds(k)[1].stage = "run" /\ StageDone(k, "signalled")
            /\ chk' = [chk EXCEPT ![Cmds(k)[1].update].ui32State = "SIGNALLED"]
         \/ /\ Cmds(k)[1].stage # "wait"
            /\ Len(Cmds(k)') = Len(Cmds(k)) - 1
            /\ \A i \in 1..(Len(Cmds(k)) - 1) : Cmds(k)'[i] = Cmds(k)[i + 1]
            /\ chk' = [c \in Checkpoints |->
                 IF c = Cmds(k)[1].update THEN [chk[c] EXCEPT !.ui32FwRefCount = @ + 1] ELSE chk[c]]
  BY <1>1, FirmwareCommands
<1>3. /\ chk \in [Checkpoints -> ChkType] /\ chk[d] \in ChkType
      /\ chk[d].hEnqueuedCCBCount \in Nat /\ chk[d].ui32FwRefCount \in Nat
  BY ChkFits
<1>4. chk'[d].hEnqueuedCCBCount = chk[d].hEnqueuedCCBCount /\ chk'[d].hRefCount = chk[d].hRefCount
  BY EnqueuedStays, RefsStay DEF SameEnqueued, SameRefs
<1>5. th' = th /\ kick' = kick /\ deferred' = deferred
  BY DEF Firmware
<1>6. Undoing(d)' = Undoing(d) /\ (Living(d)' <=> Living(d))
  BY <1>4, <1>5 DEF Undoing, Used, Living, At
<1>7. /\ Cardinality(WaitingFor(d)) \in Nat /\ Cardinality(Updating(d)) \in Nat
      /\ Cardinality(Undoing(d)) \in Nat /\ IsFiniteSet(Commands)
      /\ WaitingFor(d) \in SUBSET Commands /\ Updating(d) \in SUBSET Commands
  BY CommandsFinite
<1>8. ASSUME chk'[d].ui32FwRefCount = chk[d].ui32FwRefCount + 1,
             WaitingFor(d) # {} \/ Updating(d) # {},
             Cardinality(WaitingFor(d)') + Cardinality(Updating(d)')
               = Cardinality(WaitingFor(d)) + Cardinality(Updating(d)) - 1,
             Cardinality(WaitingFor(d)') \in Nat, Cardinality(Updating(d)') \in Nat
      PROVE  Accounted(d)'
  <2>1. Living(d)
    BY <1>1, <1>8, NoneLeft DEF Accounted
  <2>2. Balanced(d)'
    BY <1>1, <1>3, <1>4, <1>6, <1>7, <1>8 DEF Accounted, Balanced
  <2> QED
    BY <1>6, <2>1, <2>2 DEF Accounted
<1>9. ASSUME chk'[d].ui32FwRefCount = chk[d].ui32FwRefCount,
             Cardinality(WaitingFor(d)') = Cardinality(WaitingFor(d)),
             Cardinality(Updating(d)') = Cardinality(Updating(d))
      PROVE  Accounted(d)'
  <2>1. Balanced(d)'
    BY <1>1, <1>4, <1>6, <1>9 DEF Accounted, Balanced
  <2>2. Serviced(d)' <=> Serviced(d)
    BY <1>4, <1>9 DEF Serviced
  <2> QED
    BY <1>1, <1>6, <2>1, <2>2 DEF Accounted
<1>10. CASE /\ Cmds(k)[1].stage = "wait" /\ StageDone(k, "run")
            /\ chk' = [c \in Checkpoints |->
                 IF c \in Cmds(k)[1].fence THEN [chk[c] EXCEPT !.ui32FwRefCount = @ + 1] ELSE chk[c]]
  <2>1. /\ WaitingFor(d)' = WaitingFor(d) \ {<<k, 1>>} /\ Updating(d)' = Updating(d)
        /\ <<k, 1>> \in WaitingFor(d) <=> d \in Cmds(k)[1].fence
    BY <1>1, <1>2, <1>10, FencePassed
  <2>2. CASE d \in Cmds(k)[1].fence
    <3>1. chk'[d].ui32FwRefCount = chk[d].ui32FwRefCount + 1
      BY <1>3, <1>10, <2>2 DEF ChkType
    <3>2. /\ Cardinality(WaitingFor(d) \ {<<k, 1>>}) = Cardinality(WaitingFor(d)) - 1
          /\ Cardinality(WaitingFor(d)) \in Nat \ {0}
      BY <1>7, <2>1, <2>2, OneLess
    <3>3. /\ Cardinality(WaitingFor(d)') = Cardinality(WaitingFor(d)) - 1
          /\ Cardinality(Updating(d)') = Cardinality(Updating(d))
      BY <2>1, <3>2
    <3> QED
      BY <1>7, <1>8, <2>1, <2>2, <3>1, <3>2, <3>3
  <2>3. CASE d \notin Cmds(k)[1].fence
    <3>1. chk'[d].ui32FwRefCount = chk[d].ui32FwRefCount
      BY <1>10, <2>3
    <3>2. WaitingFor(d)' = WaitingFor(d)
      BY <2>1, <2>3
    <3> QED
      BY <1>9, <2>1, <3>1, <3>2
  <2> QED
    BY <2>2, <2>3
<1>11. CASE /\ Cmds(k)[1].stage = "run" /\ StageDone(k, "signalled")
            /\ chk' = [chk EXCEPT ![Cmds(k)[1].update].ui32State = "SIGNALLED"]
  <2>1. WaitingFor(d)' = WaitingFor(d) /\ Updating(d)' = Updating(d)
    BY <1>1, <1>2, <1>11, UpdateSignalled
  <2>2. chk'[d].ui32FwRefCount = chk[d].ui32FwRefCount
    BY <1>3, <1>11 DEF ChkType
  <2> QED
    BY <1>9, <2>1, <2>2
<1>12. CASE /\ Cmds(k)[1].stage # "wait"
            /\ Len(Cmds(k)') = Len(Cmds(k)) - 1
            /\ \A i \in 1..(Len(Cmds(k)) - 1) : Cmds(k)'[i] = Cmds(k)[i + 1]
            /\ chk' = [c \in Checkpoints |->
                 IF c = Cmds(k)[1].update THEN [chk[c] EXCEPT !.ui32FwRefCount = @ + 1] ELSE chk[c]]
  <2>1. /\ Cardinality(WaitingFor(d)') = Cardinality(WaitingFor(d))
        /\ Cardinality(Updating(d)') = Cardinality(Updating(d) \ {<<k, 1>>})
        /\ <<k, 1>> \in Updating(d) <=> Cmds(k)[1].update = d
    BY <1>1, <1>2, <1>12, CommandLeaves
  <2>2. CASE d = Cmds(k)[1].update
    <3>1. chk'[d].ui32FwRefCount = chk[d].ui32FwRefCount + 1
      BY <1>3, <1>12, <2>2 DEF ChkType
    <3>2. /\ Cardinality(Updating(d) \ {<<k, 1>>}) = Cardinality(Updating(d)) - 1
          /\ Cardinality(Updating(d)) \in Nat \ {0}
      BY <1>7, <2>1, <2>2, OneLess
    <3> QED
      BY <1>7, <1>8, <2>1, <2>2, <3>1, <3>2
  <2>3. CASE d # Cmds(k)[1].update
    <3>1. chk'[d].ui32FwRefCount = chk[d].ui32FwRefCount
      BY <1>12, <2>3
    <3>2. Updating(d) \ {<<k, 1>>} = Updating(d)
      BY <2>1, <2>3
    <3> QED
      BY <1>9, <2>1, <3>1, <3>2
  <2> QED
    BY <2>2, <2>3
<1> QED
  BY <1>2, <1>10, <1>11, <1>12

LEMMA AccountCommit ==
  ASSUME NEW k \in Kickers, NEW d \in Checkpoints, IInv, late = 0, CommitCommands(k)
  PROVE  Accounted(d)'
<1>1. TypeOK /\ Accounted(d) /\ KickShape /\ k \in Threads
  BY NoneLeft, FiniteFacts DEF IInv
<1>2. /\ \A j \in Kickers \ {k} : Cmds(j)' = Cmds(j)
      /\ IF Len(Cmds(k)) < MaxCmds
         THEN /\ Len(Cmds(k)') = Len(Cmds(k)) + 1
              /\ \A i \in 1..Len(Cmds(k)) : Cmds(k)'[i] = Cmds(k)[i]
              /\ Cmds(k)'[Len(Cmds(k)) + 1] = [fence |-> kick[k].in, update |-> kick[k].out,
                                               stage |-> "wait"]
         ELSE Cmds(k)' = Cmds(k)
  BY <1>1, CommitChanges
<1>3. /\ Moved(k) /\ th[k].pc = "append" /\ kick' = kick /\ deferred' = deferred
      /\ th'[k].pc = (IF Len(Cmds(k)) < MaxCmds THEN "schedule" ELSE "rollback")
      /\ chk' = [c \in Checkpoints |->
           IF c \in Used(k) THEN [chk[c] EXCEPT !.hEnqueuedCCBCount = @ + 1] ELSE chk[c]]
  BY <1>1, KickMoves DEF CommitCommands, At, Cmds
<1>4. /\ chk \in [Checkpoints -> ChkType] /\ chk[d] \in ChkType
      /\ chk[d].hEnqueuedCCBCount \in Nat /\ chk[d].ui32FwRefCount \in Nat
  BY ChkFits
<1>5. /\ chk'[d].ui32FwRefCount = chk[d].ui32FwRefCount /\ chk'[d].hRefCount = chk[d].hRefCount
  BY ServicedStays, RefsStay DEF SameServiced, SameRefs
<1>6. Living(d) => Living(d)'
  <2>1. th[k].pc # "defer" /\ deferred \subseteq deferred'
        /\ (chk[d].hRefCount > 0 => chk'[d].hRefCount > 0)
    BY <1>3, <1>5
  <2> QED
    BY <1>1, <1>3, <2>1, LivingStays
<1>7. /\ \A j \in Kickers \ {k} : j \in Undoing(d)' <=> j \in Undoing(d)
      /\ Undoing(d) \in SUBSET Kickers /\ Undoing(d)' \in SUBSET Kickers
      /\ k \notin Undoing(d)
      /\ k \in Undoing(d)' <=> d \in Used(k) /\ ~(Len(Cmds(k)) < MaxCmds)
  <2>1. /\ \A j \in Kickers \ {k} : j \in Undoing(d)' <=> j \in Undoing(d)
        /\ Undoing(d) \in SUBSET Kickers /\ Undoing(d)' \in SUBSET Kickers
    BY <1>1, <1>3, UsersMoved
  <2>2. Used(k)' = Used(k)
    BY <1>3 DEF Used
  <2> QED
    BY <1>3, <2>1, <2>2 DEF Undoing
<1>8. /\ Cardinality(WaitingFor(d)) \in Nat /\ Cardinality(Updating(d)) \in Nat
      /\ Cardinality(Undoing(d)) \in Nat /\ IsFiniteSet(Commands)
      /\ WaitingFor(d) \in SUBSET Commands /\ Updating(d) \in SUBSET Commands
  BY CommandsFinite
<1>9. d \in Used(k) => /\ chk'[d].hEnqueuedCCBCount = chk[d].hEnqueuedCCBCount + 1 /\ Living(d)
                       /\ d \in kick[k].in \/ d = kick[k].out
  BY <1>3, <1>4, UsedIsHeld DEF ChkType
<1>10. d \notin Used(k) => chk'[d].hEnqueuedCCBCount = chk[d].hEnqueuedCCBCount
  BY <1>3
<1>11. CASE ~(Len(Cmds(k)) < MaxCmds)
  <2>1. \A j \in Kickers : Cmds(j)' = Cmds(j)
    BY <1>2, <1>11
  <2>2. CASE d \notin Used(k)
    <3>1. Undoing(d)' = Undoing(d)
      BY <1>7, <2>2
    <3> QED
      BY <1>5, <1>6, <1>10, <2>1, <2>2, <3>1, AccountStays
  <2>3. CASE d \in Used(k)
    <3>1. Undoing(d)' = Undoing(d) \cup {k}
      BY <1>7, <1>11, <2>3
    <3>2. Cardinality(Undoing(d) \cup {k}) = Cardinality(Undoing(d)) + 1
      BY <1>7, OneMore, FiniteFacts
    <3>3. Cardinality(Undoing(d)') = Cardinality(Undoing(d)) + 1
      BY <3>1, <3>2
    <3>4. WaitingFor(d)' = WaitingFor(d) /\ Updating(d)' = Updating(d)
      BY <2>1, CommandsSame
    <3>5. Balanced(d)'
      BY <1>1, <1>4, <1>5, <1>8, <1>9, <2>3, <3>3, <3>4 DEF Accounted, Balanced
    <3> QED
      BY <1>6, <1>9, <2>3, <3>5 DEF Accounted
  <2> QED
    BY <2>2, <2>3
<1>12. CASE Len(Cmds(k)) < MaxCmds
  <2> DEFINE n == Len(Cmds(k)) + 1
  <2>1. /\ Len(Cmds(k)) \in 0..MaxCmds /\ MaxCmds \in Nat /\ n \in 1..MaxCmds
        /\ ~(n <= Len(Cmds(k))) /\ Len(Cmds(k)') = n
    BY <1>1, <1>2, <1>12, CcbFits DEF Cmds
  <2>2. /\ Cmds(k)'[n].fence = kick[k].in /\ Cmds(k)'[n].update = kick[k].out
        /\ Cmds(k)'[n].stage = "wait" /\ \A i \in 1..Len(Cmds(k)) : Cmds(k)'[i] = Cmds(k)[i]
    BY <1>2, <1>12
  <2> HIDE DEF n
  <2>3. /\ <<k, n>> \notin WaitingFor(d) /\ <<k, n>> \notin Updating(d)
        /\ <<k, n>> \in WaitingFor(d)' <=> d \in kick[k].in
        /\ <<k, n>> \in Updating(d)' <=> d = kick[k].out
    BY <2>1, <2>2, Entries
  <2>4. ASSUME NEW j \in Kickers, NEW i \in 1..MaxCmds, j # k \/ i # n
        PROVE  /\ <<j, i>> \in WaitingFor(d)' <=> <<j, i>> \in WaitingFor(d)
               /\ <<j, i>> \in Updating(d)' <=> <<j, i>> \in Updating(d)
    <3>1. CASE j # k
      BY <1>2, <3>1, Entries
    <3>2. CASE j = k
      <4>1. i # n
        BY <2>4, <3>2
      <4>2. i <= Len(Cmds(k)') <=> i <= Len(Cmds(k))
        BY <2>1, <4>1 DEF n
      <4>3. i <= Len(Cmds(k)) => Cmds(k)'[i] = Cmds(k)[i]
        BY <2>1, <2>2
      <4> QED
        BY <3>2, <4>2, <4>3, Entries
    <3> QED
      BY <3>1, <3>2
  <2>5. Undoing(d)' = Undoing(d)
    <3>1. k \notin Undoing(d)'
      BY <1>7, <1>12
    <3> QED
      BY <1>7, <3>1
  <2>6. <<k, n>> \in Commands
    BY <2>1 DEF Commands
  <2>7. WaitingFor(d)' = IF d \in kick[k].in THEN WaitingFor(d) \cup {<<k, n>>} ELSE WaitingFor(d)
    <3> DEFINE T == IF d \in kick[k].in THEN WaitingFor(d) \cup {<<k, n>>} ELSE WaitingFor(d)
    <3>1. T \in SUBSET Commands
      BY <1>8, <2>6
    <3>2. \A j \in Kickers, i \in 1..MaxCmds : <<j, i>> \in WaitingFor(d)' <=> <<j, i>> \in T
      BY <2>3, <2>4
    <3> HIDE DEF T
    <3>3. WaitingFor(d)' = T
      BY <3>1, <3>2, EntrySets, SameEntries
    <3> QED
      BY <3>3 DEF T
  <2>8. Updating(d)' = IF d = kick[k].out THEN Updating(d) \cup {<<k, n>>} ELSE Updating(d)
    <3> DEFINE T == IF d = kick[k].out THEN Updating(d) \cup {<<k, n>>} ELSE Updating(d)
    <3>1. T \in SUBSET Commands
      BY <1>8, <2>6
    <3>2. \A j \in Kickers, i \in 1..MaxCmds : <<j, i>> \in Updating(d)' <=> <<j, i>> \in T
      BY <2>3, <2>4
    <3> HIDE DEF T
    <3>3. Updating(d)' = T
      BY <3>1, <3>2, EntrySets, SameEntries
    <3> QED
      BY <3>3 DEF T
  <2>9. /\ Cardinality(WaitingFor(d) \cup {<<k, n>>}) = Cardinality(WaitingFor(d)) + 1
        /\ Cardinality(Updating(d) \cup {<<k, n>>}) = Cardinality(Updating(d)) + 1
    BY <1>8, <2>3, OneMore
  <2>10. CASE d \notin Used(k)
    <3>1. d \notin kick[k].in /\ d # kick[k].out
      BY <2>10, FiniteFacts DEF Used
    <3>2. Balanced(d)'
      BY <1>1, <1>5, <1>10, <2>5, <2>7, <2>8, <2>10, <3>1 DEF Accounted, Balanced
    <3>3. Serviced(d)' <=> Serviced(d)
      BY <1>5, <1>10, <2>10 DEF Serviced
    <3> QED
      BY <1>1, <1>6, <3>2, <3>3 DEF Accounted
  <2>11. CASE d \in kick[k].in
    <3>1. d \in Used(k) /\ d # kick[k].out
      <4>1. kick[k].out = d => Inputs(d) = {}
        BY <1>1 DEF KickShape
      <4> QED
        BY <2>11, <4>1 DEF Used, Inputs
    <3>2. /\ Cardinality(WaitingFor(d)') = Cardinality(WaitingFor(d)) + 1
          /\ Cardinality(Updating(d)') = Cardinality(Updating(d))
      BY <2>7, <2>8, <2>9, <2>11, <3>1
    <3>3. Balanced(d)'
      BY <1>1, <1>4, <1>5, <1>8, <1>9, <2>5, <3>1, <3>2 DEF Accounted, Balanced
    <3> QED
      BY <1>6, <1>9, <3>1, <3>3 DEF Accounted
  <2>12. CASE d = kick[k].out
    <3>1. d \in Used(k) /\ d \notin kick[k].in
      <4>1. kick[k].out = d => Inputs(d) = {}
        BY <1>1 DEF KickShape
      <4> QED
        BY <2>12, <4>1, FiniteFacts DEF Used, Inputs
    <3>2. /\ Cardinality(WaitingFor(d)') = Cardinality(WaitingFor(d))
          /\ Cardinality(Updating(d)') = Cardinality(Updating(d)) + 1
      BY <2>7, <2>8, <2>9, <2>12, <3>1
    <3>3. Balanced(d)'
      BY <1>1, <1>4, <1>5, <1>8, <1>9, <2>5, <3>1, <3>2 DEF Accounted, Balanced
    <3> QED
      BY <1>6, <1>9, <3>1, <3>3 DEF Accounted
  <2> QED
    BY <1>9, <2>10, <2>11, <2>12
<1> QED
  BY <1>11, <1>12

LEMMA AccountRollback ==
  ASSUME NEW k \in Kickers, NEW d \in Checkpoints, IInv, late = 0, RollbackCheckpoints(k)
  PROVE  Accounted(d)'
<1>1. TypeOK /\ Accounted(d) /\ k \in Threads
  BY NoneLeft, FiniteFacts DEF IInv
<1>2. /\ Moved(k) /\ th[k].pc = "rollback" /\ th'[k].pc = "deref" /\ deferred' = deferred
      /\ ccb' = ccb /\ kick' = [kick EXCEPT ![k].out = None]
      /\ chk' = [c \in Checkpoints |->
           IF c \in Used(k) /\ chk[c].listed
           THEN [chk[c] EXCEPT !.hEnqueuedCCBCount = @ - 1] ELSE chk[c]]
  BY <1>1, KickMoves DEF RollbackCheckpoints, At
<1>3. /\ chk \in [Checkpoints -> ChkType] /\ chk[d] \in ChkType
      /\ chk[d].hEnqueuedCCBCount \in Nat /\ chk[d].ui32FwRefCount \in Nat
  BY ChkFits
<1>4. /\ chk'[d].ui32FwRefCount = chk[d].ui32FwRefCount /\ chk'[d].hRefCount = chk[d].hRefCount
  BY ServicedStays, RefsStay DEF SameServiced, SameRefs
<1>5. Living(d) => Living(d)'
  <2>1. th[k].pc # "defer" /\ deferred \subseteq deferred'
        /\ (chk[d].hRefCount > 0 => chk'[d].hRefCount > 0)
    BY <1>2, <1>4
  <2> QED
    BY <1>1, <1>2, <2>1, LivingStays
<1>6. \A j \in Kickers \ {k} : kick'[j] = kick[j]
  BY <1>1, <1>2, KickFits
<1>7. /\ \A j \in Kickers \ {k} : j \in Undoing(d)' <=> j \in Undoing(d)
      /\ Undoing(d) \in SUBSET Kickers /\ Undoing(d)' \in SUBSET Kickers
      /\ k \notin Undoing(d)' /\ (k \in Undoing(d) <=> d \in Used(k))
  <2>1. /\ \A j \in Kickers \ {k} : j \in Undoing(d)' <=> j \in Undoing(d)
        /\ Undoing(d) \in SUBSET Kickers /\ Undoing(d)' \in SUBSET Kickers
    BY <1>1, <1>2, <1>6, UsersMoved
  <2> QED
    BY <1>2, <2>1 DEF Undoing
<1>8. \A j \in Kickers : Cmds(j)' = Cmds(j)
  BY <1>2 DEF Cmds
<1>9. CASE d \notin Used(k)
  <2>1. Undoing(d)' = Undoing(d)
    BY <1>7, <1>9
  <2>2. chk'[d].hEnqueuedCCBCount = chk[d].hEnqueuedCCBCount
    BY <1>2, <1>9
  <2> QED
    BY <1>4, <1>5, <1>8, <2>1, <2>2, AccountStays
<1>10. CASE d \in Used(k)
  <2>1. Living(d) /\ chk[d].listed
    BY <1>10, UsedIsHeld DEF InUse
  <2>2. chk'[d].hEnqueuedCCBCount = chk[d].hEnqueuedCCBCount - 1
    BY <1>2, <1>3, <1>10, <2>1 DEF ChkType
  <2>3. k \in Undoing(d) /\ Undoing(d)' = Undoing(d) \ {k}
    BY <1>7, <1>10
  <2>4. /\ Cardinality(Undoing(d) \ {k}) = Cardinality(Undoing(d)) - 1
        /\ Cardinality(Undoing(d)) \in Nat \ {0}
    BY <1>7, <2>3, OneLess, FiniteFacts
  <2>5. Cardinality(Undoing(d)') = Cardinality(Undoing(d)) - 1
    BY <2>3, <2>4
  <2>6. WaitingFor(d)' = WaitingFor(d) /\ Updating(d)' = Updating(d)
    BY <1>8, CommandsSame
  <2>7. Cardinality(WaitingFor(d)) \in Nat /\ Cardinality(Updating(d)) \in Nat
    BY CommandsFinite
  <2>8. Balanced(d)'
    BY <1>1, <1>3, <1>4, <2>2, <2>4, <2>5, <2>6, <2>7 DEF Accounted, Balanced
  <2> QED
    BY <1>5, <2>1, <2>8 DEF Accounted
<1> QED
  BY <1>9, <1>10

(* A checkpoint whose last reference goes is deferred, or serviced.        *)
LEMMA UnrefSettles ==
  ASSUME NEW t \in Threads, NEW c \in Checkpoints, NEW d \in Checkpoints, IInv, Unreffed(t, c),
         th[t].pc # "defer", Living(d)
  PROVE  Living(d)' \/ Serviced(d)
<1>1. /\ Moved(t) /\ deferred' = deferred /\ chk[c].hRefCount \in Nat \ {0}
      /\ th'[t].work = (IF chk[c].hRefCount = 1 THEN {c} ELSE {})
      /\ th'[t].pc = (IF chk[c].hRefCount # 1 THEN "check"
                      ELSE IF Serviced(c) THEN "reclaim" ELSE "defer")
      /\ chk' = [chk EXCEPT ![c].hRefCount = @ - 1]
  BY DEF Unreffed
<1>2. chk \in [Checkpoints -> ChkType]
  BY ChkFits
<1>3. CASE d # c
  <2>1. chk'[d].hRefCount = chk[d].hRefCount
    BY <1>1, <1>2, <1>3
  <2> QED
    BY <1>1, <2>1, LivingStays
<1>4. CASE d = c
  <2>1. chk'[c].hRefCount = chk[c].hRefCount - 1
    BY <1>1, <1>2 DEF ChkType
  <2>2. CASE chk[c].hRefCount # 1
    <3>1. chk'[c].hRefCount > 0
      BY <1>1, <2>1, <2>2
    <3> QED
      BY <1>4, <3>1 DEF Living
  <2>3. CASE chk[c].hRefCount = 1 /\ ~Serviced(c)
    <3>1. th'[t].pc = "defer" /\ c \in th'[t].work
      BY <1>1, <2>3
    <3> QED
      BY <1>4, <3>1 DEF Living, At
  <2> QED
    BY <1>4, <2>2, <2>3
<1> QED
  BY <1>3, <1>4

(* A checkpoint that is made again starts from zero: no command has it.    *)
LEMMA AccountAlloc ==
  ASSUME NEW k \in Kickers, NEW c \in Checkpoints, NEW refs, NEW d \in Checkpoints, IInv, late = 0,
         Alloc(c, refs), Moved(k), th[k].pc \in {"idle", "create"}, th'[k].pc # "rollback",
         \A j \in Kickers \ {k} : kick'[j] = kick[j], ccb' = ccb
  PROVE  Accounted(d)'
<1>1. TypeOK /\ k \in Threads
  BY FiniteFacts DEF IInv
<1>2. /\ chk'[c] = [hRefCount |-> refs, hEnqueuedCCBCount |-> 0, ui32FwRefCount |-> 0,
                    ui32State |-> "ACTIVE", listed |-> TRUE]
      /\ \A e \in Checkpoints \ {c} : chk'[e] = chk[e]
  BY <1>1, AllocListed
<1>3. /\ chk[c].hRefCount = 0 /\ c \notin deferred /\ \A t \in Threads : c \notin Releasing(t)
      /\ deferred' = deferred
  BY AllocTakes
<1>4. /\ \A j \in Kickers : Cmds(j)' = Cmds(j)
      /\ Undoing(d)' = Undoing(d)
  BY <1>1, UndoingSame DEF Cmds
<1>5. CASE d # c
  <2>1. chk'[d] = chk[d]
    BY <1>2, <1>5
  <2>2. Living(d) => Living(d)'
    BY <1>1, <1>3, <2>1, LivingStays
  <2> QED
    BY <1>4, <2>1, <2>2, AccountStays
<1>6. CASE d = c
  <2>1. ~Living(c)
    BY <1>3 DEF Living, Releasing, At
  <2>2. Serviced(c)
    BY <2>1, NoneLeft DEF Accounted
  <2>3. WaitingFor(c) = {} /\ Updating(c) = {} /\ Undoing(c) = {}
    BY <2>2, NoneLeft
  <2>4. WaitingFor(c)' = {} /\ Updating(c)' = {} /\ Undoing(c)' = {}
    BY <1>4, <1>6, <2>3, CommandsSame
  <2>5. /\ Cardinality(WaitingFor(c)') = 0 /\ Cardinality(Updating(c)') = 0
        /\ Cardinality(Undoing(c)') = 0
    BY <2>4, FS_EmptySet
  <2>6. chk'[c].hEnqueuedCCBCount = 0 /\ chk'[c].ui32FwRefCount = 0
    BY <1>2
  <2> QED
    BY <1>6, <2>5, <2>6 DEF Accounted, Balanced, Serviced
<1> QED
  BY <1>5, <1>6

LEMMA AccountKick ==
  ASSUME NEW k \in Kickers, NEW d \in Checkpoints, IInv, late' = 0,
         ResolveFence(k) \/ KickStep(k)
  PROVE  Accounted(d)'
<1>1. TypeOK /\ KickShape /\ k \in Threads /\ late \in 0..MaxLate /\ MaxLate \in Nat
  BY FiniteFacts, CheckpointsAssumption DEF IInv, TypeOK
<1>2. late = 0
  <2>1. late' = late \/ late' = late + 1
    BY DEF ResolveFence, KickStep, CreateFence, CommitCommands, ScheduleCommand,
           RollbackCheckpoints, DeRefCheckpoint, FinaliseFence
  <2> QED
    BY <1>1, <2>1
<1>3. /\ kick \in [Kickers -> [in : SUBSET Checkpoints, out : Checkpoints \cup {None}]]
  BY <1>1, KickFits
<1>4. CASE DeRefCheckpoint(k)
  <2>1. th[k].pc = "deref"
    BY <1>4, DeRefMoves
  <2>2. PICK c \in Checkpoints :
          /\ Unreffed(k, c) /\ kick' = [kick EXCEPT ![k].in = @ \ {c}] /\ ccb' = ccb
    BY <1>4, DeRefMoves
  <2>3. /\ Moved(k) /\ th'[k].pc # "rollback" /\ deferred' = deferred
        /\ SameEnqueued /\ SameServiced
    BY <1>1, <2>2, EnqueuedStays, ServicedStays DEF Unreffed
  <2>4. Undoing(d)' = Undoing(d)
    <3>1. \A j \in Kickers \ {k} : kick'[j] = kick[j]
      BY <1>3, <2>2
    <3> QED
      BY <1>1, <2>1, <2>3, <3>1, UndoingSame
  <2>5. Living(d) => Living(d)' \/ Serviced(d)
    BY <1>1, <2>1, <2>2, UnrefSettles
  <2> QED
    BY <1>2, <2>2, <2>3, <2>4, <2>5, AccountStays DEF SameEnqueued, SameServiced, Cmds
<1>5. CASE FinaliseFence(k)
  <2>1. /\ Moved(k) /\ th'[k].pc # "rollback" /\ th[k].pc = "deref" /\ SameEnqueued /\ SameServiced
        /\ ccb' = ccb /\ deferred' = deferred /\ chk' = chk
    BY <1>1, <1>5, KickMoves, EnqueuedStays, ServicedStays DEF FinaliseFence, At, mem
  <2>2. \A j \in Kickers \ {k} : kick'[j] = kick[j]
    BY <1>3, <1>5 DEF FinaliseFence
  <2>3. Undoing(d)' = Undoing(d)
    BY <1>1, <2>1, <2>2, UndoingSame
  <2>4. Living(d) => Living(d)'
    BY <1>1, <2>1, LivingStays
  <2> QED
    BY <1>2, <2>1, <2>3, <2>4, AccountStays DEF Cmds
<1>6. CASE ScheduleCommand(k)
  <2>1. /\ ccb' = [ccb EXCEPT ![k].known = Len(ccb[k].cmds)] /\ Goto(k, "deref")
    BY <1>1, <1>2, <1>6 DEF ScheduleCommand
  <2>2. /\ Moved(k) /\ th'[k].pc = "deref" /\ th[k].pc = "schedule" /\ kick' = kick
        /\ deferred' = deferred /\ chk' = chk
    BY <1>1, <1>6, <2>1, Goes, StageNames DEF ScheduleCommand, At, mem
  <2>3. Undoing(d)' = Undoing(d)
    BY <1>1, <2>2, UndoingSame
  <2>4. Living(d) => Living(d)'
    BY <1>1, <2>2, LivingStays
  <2>5. \A j \in Kickers : Cmds(j)' = Cmds(j)
    <3>1. ccb \in [Kickers -> [cmds : Seq(Command), known : Nat]]
      BY <1>1, CcbFits
    <3> QED
      BY <2>1, <3>1 DEF Cmds
  <2> QED
    BY <1>2, <2>2, <2>3, <2>4, <2>5, AccountStays
<1>7. CASE CommitCommands(k)
  BY <1>2, <1>7, AccountCommit
<1>8. CASE RollbackCheckpoints(k)
  BY <1>2, <1>8, AccountRollback
<1>9. CASE CreateFence(k)
  <2>1. /\ Moved(k) /\ th'[k].pc # "rollback" /\ th[k].pc = "create" /\ ccb' = ccb
    BY <1>1, <1>9, KickMoves DEF CreateFence, At
  <2>2. CASE UNCHANGED <<mem, kick>>
    <3>1. chk' = chk /\ kick' = kick /\ deferred' = deferred
      BY <2>2 DEF mem
    <3>2. Undoing(d)' = Undoing(d)
      BY <1>1, <2>1, <3>1, UndoingSame
    <3>3. Living(d) => Living(d)'
      BY <1>1, <2>1, <3>1, LivingStays
    <3> QED
      BY <1>2, <2>1, <3>1, <3>2, <3>3, AccountStays DEF Cmds
  <2>3. ASSUME NEW c \in Checkpoints, Alloc(c, 1), kick' = [kick EXCEPT ![k].out = c]
        PROVE  Accounted(d)'
    <3>1. \A j \in Kickers \ {k} : kick'[j] = kick[j]
      BY <1>3, <2>3
    <3> QED
      BY <1>2, <2>1, <2>3, <3>1, AccountAlloc
  <2> QED
    BY <1>9, <2>2, <2>3 DEF CreateFence
<1>10. CASE ResolveFence(k)
  <2>1. /\ Moved(k) /\ th'[k].pc # "rollback" /\ th[k].pc = "idle" /\ ccb' = ccb
    BY <1>1, <1>10, KickMoves DEF ResolveFence, At
  <2>2. ASSUME NEW inputs \in SUBSET {c \in Checkpoints : fence[c] = "fence"},
               chk' = [c \in Checkpoints |->
                 IF c \in inputs THEN [chk[c] EXCEPT !.hRefCount = @ + 1] ELSE chk[c]],
               kick' = [kick EXCEPT ![k].in = inputs], deferred' = deferred
        PROVE  Accounted(d)'
    <3>1. \A j \in Kickers \ {k} : kick'[j] = kick[j]
      BY <1>3, <2>2
    <3>2. Undoing(d)' = Undoing(d)
      BY <1>1, <2>1, <3>1, UndoingSame
    <3>3. /\ chk'[d].hEnqueuedCCBCount = chk[d].hEnqueuedCCBCount
          /\ chk'[d].ui32FwRefCount = chk[d].ui32FwRefCount
          /\ chk[d].hRefCount > 0 => chk'[d].hRefCount > 0
      <4>1. chk[d] \in ChkType /\ chk[d].hRefCount \in Nat
        BY ChkFits
      <4> QED
        BY <2>2, <4>1 DEF ChkType
    <3>4. Living(d) => Living(d)'
      BY <1>1, <2>1, <2>2, <3>3, LivingStays
    <3> QED
      BY <1>2, <2>1, <3>2, <3>3, <3>4, AccountStays DEF Cmds
  <2>3. ASSUME NEW c \in Checkpoints, Alloc(c, 2), kick' = [kick EXCEPT ![k].in = {c}]
        PROVE  Accounted(d)'
    <3>1. \A j \in Kickers \ {k} : kick'[j] = kick[j]
      BY <1>3, <2>3
    <3> QED
      BY <1>2, <2>1, <2>3, <3>1, AccountAlloc
  <2> QED
    BY <1>10, <2>2, <2>3 DEF ResolveFence
<1> QED
  BY <1>4, <1>5, <1>6, <1>7, <1>8, <1>9, <1>10 DEF KickStep

LEMMA AccountThread ==
  ASSUME NEW t \in Threads, NEW d \in Checkpoints, IInv, late = 0, ThreadStep(t)
  PROVE  Accounted(d)'
<1>1. TypeOK /\ SameRefs /\ SameEnqueued /\ SameServiced
  BY RefsStay, EnqueuedStays, ServicedStays DEF IInv
<1>2. /\ Moved(t) /\ th[t].pc \in InUnref
      /\ t \in Kickers => th'[t].pc \in {"check", "leave", "reclaim", "count", "deref"}
  BY ThreadMoves
<1>3. kick' = kick /\ ccb' = ccb
  BY DEF ThreadStep, Defer, CountFreed, CheckDeferred, LeaveUnref, Reclaim
<1>4. Undoing(d)' = Undoing(d)
  BY <1>2, <1>3, UndoingSame DEF InUnref
<1>5. chk[d].hRefCount > 0 => chk'[d].hRefCount > 0
  BY <1>1 DEF SameRefs
<1>6. Living(d) => Living(d)' \/ Serviced(d)
  <2>1. CASE Defer(t)
    <3>1. /\ deferred' = deferred \cup th[t].work
      BY <2>1 DEF Defer
    <3>2. ASSUME NEW u \in Threads, th[u].pc = "defer", d \in th[u].work
          PROVE  Living(d)'
      <4>1. CASE u = t
        BY <3>1, <3>2, <4>1 DEF Living
      <4>2. CASE u # t
        BY <1>2, <3>2, <4>2 DEF Living, Moved, At
      <4> QED
        BY <4>1, <4>2
    <3> QED
      BY <1>5, <3>1, <3>2 DEF Living, At
  <2>2. CASE CountFreed(t) \/ LeaveUnref(t) \/ \E c \in Checkpoints : Reclaim(t, c)
    <3>1. deferred' = deferred /\ th[t].pc # "defer"
      BY <2>2 DEF CountFreed, LeaveUnref, Reclaim, At
    <3> QED
      BY <1>2, <1>5, <3>1, LivingStays
  <2>3. CASE CheckDeferred(t)
    <3>1. /\ deferred' = deferred \ {c \in deferred : Serviced(c)} /\ th[t].pc # "defer"
      BY <2>3 DEF CheckDeferred, At
    <3>2. ASSUME NEW u \in Threads, th[u].pc = "defer", d \in th[u].work
          PROVE  Living(d)'
      BY <1>2, <3>1, <3>2 DEF Living, Moved, At
    <3> QED
      BY <1>5, <3>1, <3>2 DEF Living, At
  <2> QED
    BY <2>1, <2>2, <2>3 DEF ThreadStep
<1> QED
  BY <1>1, <1>3, <1>4, <1>6, AccountStays DEF SameEnqueued, SameServiced, Cmds

LEMMA CommandsKept ==
  ASSUME IInv, Next
  PROVE  CommandsCounted'
<1>1. TypeOK /\ late \in 0..MaxLate /\ MaxLate \in Nat
  BY CheckpointsAssumption DEF IInv, TypeOK
<1>2. /\ Misr \in Threads /\ Unbind \in Threads /\ Misr \notin Kickers /\ Unbind \notin Kickers
  BY FiniteFacts
<1>3. SUFFICES ASSUME late' = 0, NEW d \in Checkpoints
               PROVE  Accounted(d)'
  BY DEF CommandsCounted, Accounted, Balanced
<1>4. ASSUME NEW t \in Threads, t \notin Kickers, late' = late, Moved(t), kick' = kick, ccb' = ccb,
             SameEnqueued, SameServiced, Living(d) => Living(d)' \/ Serviced(d)
      PROVE  Accounted(d)'
  <2>1. Undoing(d)' = Undoing(d) /\ late = 0
    BY <1>3, <1>4, UndoingSame
  <2> QED
    BY <1>4, <2>1, AccountStays DEF SameEnqueued, SameServiced, Cmds
<1>5. ASSUME NEW t \in Threads, ThreadStep(t)
      PROVE  Accounted(d)'
  <2>1. late' = late
    BY <1>5 DEF ThreadStep, Defer, CountFreed, CheckDeferred, LeaveUnref, Reclaim
  <2> QED
    BY <1>3, <1>5, <2>1, AccountThread
<1>6. ASSUME NEW k \in Kickers, ResolveFence(k) \/ KickStep(k)
      PROVE  Accounted(d)'
  BY <1>3, <1>6, AccountKick
<1>7. ASSUME NEW k \in Kickers, Firmware(k)
      PROVE  Accounted(d)'
  BY <1>3, <1>7, AccountFirmware DEF Firmware
<1>8. ASSUME NEW c \in Checkpoints, ForeignSignal(c)
      PROVE  Accounted(d)'
  <2>1. /\ th' = th /\ kick' = kick /\ ccb' = ccb /\ late' = late /\ deferred' = deferred
        /\ SameRefs /\ SameEnqueued /\ SameServiced
    BY <1>8, RefsStay, EnqueuedStays, ServicedStays DEF ForeignSignal
  <2>2. Living(d) => Living(d)'
    BY <2>1 DEF Living, At, SameRefs
  <2>3. Moved(Unbind)
    BY <1>1, <2>1, ThreadFits DEF Moved
  <2> QED
    BY <1>2, <1>4, <2>1, <2>2, <2>3
<1>9. ASSUME NEW c \in Checkpoints, FreeFence(c)
      PROVE  Accounted(d)'
  <2>1. /\ th[Misr].pc = "idle" /\ Unreffed(Misr, c) /\ kick' = kick /\ ccb' = ccb /\ late' = late
    BY <1>9, FreeMoves
  <2>2. Moved(Misr) /\ SameEnqueued /\ SameServiced
    BY <1>2, <2>1, EnqueuedStays, ServicedStays DEF Unreffed
  <2>3. Living(d) => Living(d)' \/ Serviced(d)
    BY <1>2, <2>1, UnrefSettles
  <2> QED
    BY <1>2, <1>4, <2>1, <2>2, <2>3
<1>10. CASE ContextDestroy \/ DestroyStep
  <2>1. /\ Moved(Unbind) /\ th[Unbind].pc # "defer"
        /\ UNCHANGED <<chk, deferred, fence, kick, ccb, late>>
    BY <1>10, DestroyMoves
  <2>2. SameEnqueued /\ SameServiced
    BY <2>1 DEF SameEnqueued, SameServiced
  <2>3. Living(d) => Living(d)'
    BY <1>2, <2>1, LivingStays
  <2> QED
    BY <1>2, <1>4, <2>1, <2>2, <2>3
<1> QED
  BY <1>5, <1>6, <1>7, <1>8, <1>9, <1>10 DEF Next

-----------------------------------------------------------------------------
(* The types, and the whole invariant. *)

CheckpointType == [hRefCount : Int, hEnqueuedCCBCount : Int, ui32FwRefCount : Nat,
                   ui32State : {"UNDEF", "ACTIVE", "SIGNALLED"}, listed : BOOLEAN]

LEMMA ChkKept ==
  ASSUME IInv, Next
  PROVE  chk' \in [Checkpoints -> CheckpointType]
<1>1. TypeOK /\ Typed
  BY Limits DEF IInv
<1>2. chk \in [Checkpoints -> CheckpointType] /\ \A c \in Checkpoints : chk[c] \in CheckpointType
  BY <1>1 DEF Typed, CheckpointType
<1>3. ASSUME NEW c \in Checkpoints, NEW refs \in Int, Alloc(c, refs)
      PROVE  chk' \in [Checkpoints -> CheckpointType]
  <2>1. chk' = [chk EXCEPT ![c] = [hRefCount |-> refs, hEnqueuedCCBCount |-> 0,
                                   ui32FwRefCount |-> 0, ui32State |-> "ACTIVE", listed |-> TRUE]]
    BY <1>3 DEF Alloc
  <2> QED
    BY <1>2, <2>1 DEF CheckpointType
<1>4. ASSUME NEW t \in Threads, NEW c \in Checkpoints, Unreffed(t, c)
      PROVE  chk' \in [Checkpoints -> CheckpointType]
  BY <1>2, <1>4 DEF Unreffed, CheckpointType
<1>5. ASSUME NEW t \in Threads, ThreadStep(t)
      PROVE  chk' \in [Checkpoints -> CheckpointType]
  <2>1. CASE chk' = chk
    BY <1>2, <2>1
  <2>2. ASSUME NEW c \in Checkpoints, Reclaim(t, c)
        PROVE  chk' \in [Checkpoints -> CheckpointType]
    <3>1. CASE chk' = [chk EXCEPT ![c].listed = FALSE, ![c].ui32State = "UNDEF"]
      <4>1. /\ chk' = [chk EXCEPT ![c] = chk'[c]]
            /\ chk'[c] = [hRefCount |-> chk[c].hRefCount,
                          hEnqueuedCCBCount |-> chk[c].hEnqueuedCCBCount,
                          ui32FwRefCount |-> chk[c].ui32FwRefCount,
                          ui32State |-> "UNDEF", listed |-> FALSE]
        BY <1>2, <3>1 DEF CheckpointType
      <4>2. chk'[c] \in CheckpointType
        BY <1>2, <4>1 DEF CheckpointType
      <4> QED
        BY <1>2, <4>1, <4>2
    <3>2. CASE chk' = [chk EXCEPT ![c].listed = FALSE]
      BY <1>2, <3>2 DEF CheckpointType
    <3> QED
      BY <2>2, <3>1, <3>2 DEF Reclaim
  <2> QED
    BY <1>5, <2>1, <2>2 DEF ThreadStep, Defer, CountFreed, CheckDeferred, LeaveUnref
<1>6. ASSUME NEW k \in Kickers, ResolveFence(k)
      PROVE  chk' \in [Checkpoints -> CheckpointType]
  <2>1. ASSUME NEW inputs \in SUBSET {c \in Checkpoints : fence[c] = "fence"},
               chk' = [c \in Checkpoints |->
                 IF c \in inputs THEN [chk[c] EXCEPT !.hRefCount = @ + 1] ELSE chk[c]]
        PROVE  chk' \in [Checkpoints -> CheckpointType]
    BY <1>2, <2>1 DEF CheckpointType
  <2>2. 2 \in Int
    OBVIOUS
  <2>3. ASSUME NEW c \in Checkpoints, Alloc(c, 2)
        PROVE  chk' \in [Checkpoints -> CheckpointType]
    BY <1>3, <2>2, <2>3
  <2> QED
    BY <1>6, <2>1, <2>3 DEF ResolveFence
<1>7. ASSUME NEW k \in Kickers, KickStep(k)
      PROVE  chk' \in [Checkpoints -> CheckpointType]
  <2>1. CASE CreateFence(k)
    BY <1>2, <1>3, <2>1 DEF CreateFence, mem
  <2>2. CASE CommitCommands(k)
    <3> DEFINE U == Used(k)
    <3>1. chk' = [c \in Checkpoints |->
            IF c \in U THEN [chk[c] EXCEPT !.hEnqueuedCCBCount = @ + 1] ELSE chk[c]]
      BY <2>2 DEF CommitCommands
    <3> HIDE DEF U
    <3>2. \A c \in Checkpoints : [chk[c] EXCEPT !.hEnqueuedCCBCount = @ + 1] \in CheckpointType
      BY <1>2 DEF CheckpointType
    <3> QED
      BY <1>2, <3>1, <3>2
  <2>3. CASE ScheduleCommand(k) \/ FinaliseFence(k)
    BY <1>2, <2>3 DEF ScheduleCommand, FinaliseFence, mem
  <2>4. CASE RollbackCheckpoints(k)
    BY <1>2, <2>4 DEF RollbackCheckpoints, CheckpointType
  <2>5. CASE DeRefCheckpoint(k)
    BY <1>4, <2>5, DeRefMoves
  <2> QED
    BY <1>7, <2>1, <2>2, <2>3, <2>4, <2>5 DEF KickStep
<1>8. ASSUME NEW k \in Kickers, Firmware(k)
      PROVE  chk' \in [Checkpoints -> CheckpointType]
  <2> DEFINE s == Cmds(k)[1]
  <2>1. \/ chk' = [c \in Checkpoints |->
             IF c \in s.fence THEN [chk[c] EXCEPT !.ui32FwRefCount = @ + 1] ELSE chk[c]]
        \/ chk' = [chk EXCEPT ![s.update].ui32State = "SIGNALLED"]
        \/ chk' = [c \in Checkpoints |->
             IF c = s.update THEN [chk[c] EXCEPT !.ui32FwRefCount = @ + 1] ELSE chk[c]]
    BY <1>1, <1>8, FirmwareCommands
  <2> HIDE DEF s
  <2>2. CASE chk' = [c \in Checkpoints |->
             IF c \in s.fence THEN [chk[c] EXCEPT !.ui32FwRefCount = @ + 1] ELSE chk[c]]
    BY <1>2, <2>2 DEF CheckpointType
  <2>3. CASE chk' = [chk EXCEPT ![s.update].ui32State = "SIGNALLED"]
    BY <1>2, <2>3 DEF CheckpointType
  <2>4. CASE chk' = [c \in Checkpoints |->
             IF c = s.update THEN [chk[c] EXCEPT !.ui32FwRefCount = @ + 1] ELSE chk[c]]
    BY <1>2, <2>4 DEF CheckpointType
  <2> QED
    BY <2>1, <2>2, <2>3, <2>4
<1>9. ASSUME NEW c \in Checkpoints, ForeignSignal(c)
      PROVE  chk' \in [Checkpoints -> CheckpointType]
  BY <1>2, <1>9 DEF ForeignSignal, CheckpointType
<1>10. ASSUME NEW c \in Checkpoints, FreeFence(c)
       PROVE  chk' \in [Checkpoints -> CheckpointType]
  BY <1>4, <1>10, FreeMoves
<1>11. CASE ContextDestroy \/ DestroyStep
  BY <1>2, <1>11, DestroyMoves
<1> QED
  BY <1>5, <1>6, <1>7, <1>8, <1>9, <1>10, <1>11 DEF Next

LEMMA ListsKept ==
  ASSUME IInv, Next
  PROVE  allocated' \subseteq Checkpoints /\ deferred' \subseteq Checkpoints
<1>1. /\ TypeOK /\ allocated \subseteq Checkpoints /\ deferred \subseteq Checkpoints
      /\ \A t \in Threads : th[t].work \subseteq Checkpoints
  BY DEF IInv, TypeOK
<1>2. ASSUME NEW c \in Checkpoints, NEW refs, Alloc(c, refs)
      PROVE  allocated' \subseteq Checkpoints /\ deferred' \subseteq Checkpoints
  BY <1>1, <1>2, AllocTakes
<1>3. ASSUME NEW t \in Threads, ThreadStep(t)
      PROVE  allocated' \subseteq Checkpoints /\ deferred' \subseteq Checkpoints
  <2>1. CASE Defer(t)
    BY <1>1, <2>1 DEF Defer
  <2>2. CASE CheckDeferred(t)
    BY <1>1, <2>2 DEF CheckDeferred
  <2>3. CASE CountFreed(t) \/ LeaveUnref(t)
    BY <1>1, <2>3 DEF CountFreed, LeaveUnref
  <2>4. ASSUME NEW c \in Checkpoints, Reclaim(t, c)
        PROVE  allocated' \subseteq Checkpoints /\ deferred' \subseteq Checkpoints
    BY <1>1, <2>4 DEF Reclaim
  <2> QED
    BY <1>3, <2>1, <2>2, <2>3, <2>4 DEF ThreadStep
<1>4. ASSUME NEW k \in Kickers, ResolveFence(k) \/ CreateFence(k)
      PROVE  allocated' \subseteq Checkpoints /\ deferred' \subseteq Checkpoints
  BY <1>1, <1>2, <1>4 DEF ResolveFence, CreateFence, mem
<1>5. ASSUME NEW k \in Kickers, DeRefCheckpoint(k)
      PROVE  allocated' \subseteq Checkpoints /\ deferred' \subseteq Checkpoints
  BY <1>1, <1>5, DeRefMoves DEF Unreffed
<1>6. ASSUME NEW c \in Checkpoints, FreeFence(c)
      PROVE  allocated' \subseteq Checkpoints /\ deferred' \subseteq Checkpoints
  BY <1>1, <1>6, FreeMoves DEF Unreffed
<1>7. ASSUME NEW k \in Kickers, CommitCommands(k) \/ ScheduleCommand(k) \/ RollbackCheckpoints(k)
                                  \/ FinaliseFence(k) \/ Firmware(k)
      PROVE  allocated' \subseteq Checkpoints /\ deferred' \subseteq Checkpoints
  BY <1>1, <1>7, ListedStays
<1>8. ASSUME NEW c \in Checkpoints, ForeignSignal(c)
      PROVE  allocated' \subseteq Checkpoints /\ deferred' \subseteq Checkpoints
  BY <1>1, <1>8 DEF ForeignSignal
<1>9. CASE ContextDestroy \/ DestroyStep
  <2>1. deferred' = deferred
    BY <1>9, DestroyMoves
  <2>2. allocated' \subseteq allocated
    BY <1>9 DEF ContextDestroy, DestroyStep, CleanPool, CleanOne, ReadCount, mem
  <2> QED
    BY <1>1, <2>1, <2>2
<1> QED
  BY <1>3, <1>4, <1>5, <1>6, <1>7, <1>8, <1>9 DEF Next, KickStep

KickType == [in : SUBSET Checkpoints, out : Checkpoints \cup {None}]
FenceType == {"none", "foreign", "fence", "dropped"}

LEMMA KicksKept ==
  ASSUME IInv, Next
  PROVE  kick' \in [Kickers -> KickType] /\ fence' \in [Checkpoints -> FenceType]
<1>1. TypeOK
  BY DEF IInv
<1>2. /\ kick \in [Kickers -> KickType] /\ fence \in [Checkpoints -> FenceType]
      /\ NoKick \in KickType
  BY <1>1 DEF TypeOK, KickType, FenceType, NoKick
<1>3. ASSUME UNCHANGED <<kick, fence>>
      PROVE  kick' \in [Kickers -> KickType] /\ fence' \in [Checkpoints -> FenceType]
  BY <1>2, <1>3
<1>4. ASSUME NEW t \in Threads, ThreadStep(t)
      PROVE  UNCHANGED <<kick, fence>>
  BY <1>4 DEF ThreadStep, Defer, CountFreed, CheckDeferred, LeaveUnref, Reclaim
<1>5. ASSUME NEW k \in Kickers, Firmware(k)
      PROVE  UNCHANGED <<kick, fence>>
  BY <1>5 DEF Firmware
<1>6. ASSUME ContextDestroy \/ DestroyStep
      PROVE  UNCHANGED <<kick, fence>>
  BY <1>6, DestroyMoves
<1>7. ASSUME NEW c \in Checkpoints, ForeignSignal(c) \/ FreeFence(c)
      PROVE  kick' \in [Kickers -> KickType] /\ fence' \in [Checkpoints -> FenceType]
  BY <1>2, <1>7 DEF ForeignSignal, FreeFence, FenceType
<1>8. ASSUME NEW k \in Kickers, ResolveFence(k)
      PROVE  kick' \in [Kickers -> KickType] /\ fence' \in [Checkpoints -> FenceType]
  <2>1. ASSUME NEW S \in SUBSET Checkpoints, kick' = [kick EXCEPT ![k].in = S]
        PROVE  kick' \in [Kickers -> KickType]
    BY <1>2, <2>1 DEF KickType
  <2>2. kick' \in [Kickers -> KickType]
    BY <1>8, <2>1 DEF ResolveFence
  <2>3. fence' = fence \/ \E c \in Checkpoints : fence' = [fence EXCEPT ![c] = "foreign"]
    BY <1>8 DEF ResolveFence
  <2> QED
    BY <1>2, <2>2, <2>3 DEF FenceType
<1>9. ASSUME NEW k \in Kickers, KickStep(k)
      PROVE  kick' \in [Kickers -> KickType] /\ fence' \in [Checkpoints -> FenceType]
  <2>1. CASE CreateFence(k)
    BY <1>2, <2>1 DEF CreateFence, KickType
  <2>2. CASE CommitCommands(k) \/ ScheduleCommand(k)
    BY <1>2, <2>2 DEF CommitCommands, ScheduleCommand
  <2>3. CASE RollbackCheckpoints(k)
    BY <1>2, <2>3 DEF RollbackCheckpoints, KickType, FenceType
  <2>4. CASE DeRefCheckpoint(k)
    BY <1>2, <2>4 DEF DeRefCheckpoint, KickType
  <2>5. CASE FinaliseFence(k)
    BY <1>2, <2>5 DEF FinaliseFence, FenceType
  <2> QED
    BY <1>9, <2>1, <2>2, <2>3, <2>4, <2>5 DEF KickStep
<1> QED
  BY <1>3, <1>4, <1>5, <1>6, <1>7, <1>8, <1>9 DEF Next

LEMMA ThreadsKept ==
  ASSUME IInv, Next
  PROVE  th' \in [Threads -> ThreadType]
<1>1. TypeOK
  BY DEF IInv
<1>2. ASSUME NEW k \in Kickers, ResolveFence(k) \/ KickStep(k)
      PROVE  Moved(k)
  BY <1>1, <1>2, KickMoves, DeRefMoves DEF KickStep, Unreffed
<1>3. ASSUME NEW t \in Threads, ThreadStep(t)
      PROVE  Moved(t)
  BY <1>3, ThreadMoves
<1>4. ASSUME NEW c \in Checkpoints, FreeFence(c)
      PROVE  Moved(Misr)
  BY <1>4, FreeMoves DEF Unreffed
<1>5. ASSUME ContextDestroy \/ DestroyStep
      PROVE  Moved(Unbind)
  BY <1>5, DestroyMoves
<1>6. ASSUME th' = th
      PROVE  th' \in [Threads -> ThreadType]
  BY <1>1, <1>6, ThreadFits
<1>7. ASSUME NEW k \in Kickers, Firmware(k)
      PROVE  th' = th
  BY <1>7 DEF Firmware
<1>8. ASSUME NEW c \in Checkpoints, ForeignSignal(c)
      PROVE  th' = th
  BY <1>8 DEF ForeignSignal
<1> QED
  BY <1>2, <1>3, <1>4, <1>5, <1>6, <1>7, <1>8 DEF Next, Moved

LEMMA CcbKept ==
  ASSUME IInv, Next
  PROVE  ccb' \in CcbType /\ CcbLimits'
<1>1. TypeOK /\ ccb \in CcbType /\ CcbLimits
  BY DEF IInv, TypeOK, CcbType, CcbLimits
<1>2. ASSUME ccb' = ccb
      PROVE  ccb' \in CcbType /\ CcbLimits'
  BY <1>1, <1>2 DEF CcbLimits
<1>3. ASSUME NEW k \in Kickers, CommitCommands(k) \/ Firmware(k)
      PROVE  ccb' \in CcbType /\ CcbLimits'
  BY <1>1, <1>3, CommitChanges, FirmwareCommands
<1>4. ASSUME NEW k \in Kickers, ScheduleCommand(k)
      PROVE  ccb' \in CcbType /\ CcbLimits'
  <2>1. CASE ccb' = [ccb EXCEPT ![k].known = Len(ccb[k].cmds)]
    <3> DEFINE s == ccb[k].cmds
               n == Len(s)
    <3>1. /\ s \in Seq(Command) /\ n \in 0..n /\ n <= MaxCmds
          /\ ccb[k] = [cmds |-> s, known |-> ccb[k].known]
      BY <1>1, CcbFits
    <3>2. ccb' = [ccb EXCEPT ![k] = [ccb[k] EXCEPT !.known = n]]
      BY <2>1
    <3>3. [ccb[k] EXCEPT !.known = n] = [cmds |-> s, known |-> n]
      <4> HIDE DEF s, n
      <4> QED
        BY <3>1
    <3>4. ccb' = [ccb EXCEPT ![k] = [cmds |-> s, known |-> n]] /\ n \in 0..Len(s) /\ Len(s) <= MaxCmds
      BY <3>1, <3>2, <3>3
    <3> HIDE DEF s, n
    <3> QED
      BY <1>1, <3>1, <3>4, CcbChanges
  <2> QED
    BY <1>2, <1>4, <2>1 DEF ScheduleCommand
<1>5. ASSUME NEW t \in Threads, ThreadStep(t)
      PROVE  ccb' = ccb
  BY <1>5 DEF ThreadStep, Defer, CountFreed, CheckDeferred, LeaveUnref, Reclaim
<1>6. ASSUME NEW k \in Kickers, ResolveFence(k) \/ CreateFence(k) \/ RollbackCheckpoints(k)
                                  \/ DeRefCheckpoint(k) \/ FinaliseFence(k)
      PROVE  ccb' = ccb
  BY <1>6 DEF ResolveFence, CreateFence, RollbackCheckpoints, DeRefCheckpoint, FinaliseFence
<1>7. ASSUME NEW c \in Checkpoints, ForeignSignal(c) \/ FreeFence(c)
      PROVE  ccb' = ccb
  BY <1>7 DEF ForeignSignal, FreeFence
<1>8. ASSUME ContextDestroy \/ DestroyStep
      PROVE  ccb' = ccb
  BY <1>8, DestroyMoves
<1> QED
  BY <1>2, <1>3, <1>4, <1>5, <1>6, <1>7, <1>8 DEF Next, KickStep

LEMMA HistoryKept ==
  ASSUME IInv, Next
  PROVE  late' \in 0..MaxLate /\ quiet' \in BOOLEAN
<1>1. late \in 0..MaxLate /\ quiet \in BOOLEAN /\ MaxLate \in Nat
  BY CheckpointsAssumption DEF IInv, TypeOK
<1>2. ASSUME NEW k \in Kickers, ScheduleCommand(k)
      PROVE  late' \in 0..MaxLate /\ quiet' = quiet
  <2>1. quiet' = quiet
    BY <1>2 DEF ScheduleCommand
  <2>2. late' = late \/ (late < MaxLate /\ late' = late + 1)
    BY <1>2 DEF ScheduleCommand
  <2>3. late' \in 0..MaxLate
    BY <1>1, <2>2
  <2> QED
    BY <2>1, <2>3
<1>3. ASSUME ContextDestroy
      PROVE  late' = late /\ quiet' \in BOOLEAN
  <2>1. late' = late
    BY <1>3 DEF ContextDestroy
  <2>2. quiet' \in BOOLEAN
    BY <1>3, Zenon DEF ContextDestroy
  <2> QED
    BY <2>1, <2>2
<1>4. ASSUME NEW t \in Threads, ThreadStep(t)
      PROVE  UNCHANGED <<late, quiet>>
  BY <1>4 DEF ThreadStep, Defer, CountFreed, CheckDeferred, LeaveUnref, Reclaim
<1>5. ASSUME NEW k \in Kickers, ResolveFence(k) \/ CreateFence(k) \/ CommitCommands(k)
                                  \/ RollbackCheckpoints(k) \/ DeRefCheckpoint(k)
                                  \/ FinaliseFence(k) \/ Firmware(k)
      PROVE  UNCHANGED <<late, quiet>>
  BY <1>5 DEF ResolveFence, CreateFence, CommitCommands, RollbackCheckpoints, DeRefCheckpoint,
              FinaliseFence, Firmware
<1>6. ASSUME NEW c \in Checkpoints, ForeignSignal(c) \/ FreeFence(c)
      PROVE  UNCHANGED <<late, quiet>>
  BY <1>6 DEF ForeignSignal, FreeFence
<1>7. ASSUME DestroyStep
      PROVE  UNCHANGED <<late, quiet>>
  BY <1>7 DEF DestroyStep, CleanPool, CleanOne, ReadCount
<1> QED
  BY <1>1, <1>2, <1>3, <1>4, <1>5, <1>6, <1>7 DEF Next, KickStep

LEMMA TypedKept ==
  ASSUME IInv, Next
  PROVE  Typed'
<1>1. chk' \in [Checkpoints -> CheckpointType]
  BY ChkKept
<1>2. allocated' \subseteq Checkpoints /\ deferred' \subseteq Checkpoints
  BY ListsKept
<1>3. ctx' \in CtxType /\ pool' \in PoolType
  BY CountsKept, PoolShapeKept
<1>4. kick' \in [Kickers -> KickType] /\ fence' \in [Checkpoints -> FenceType]
  BY KicksKept
<1>5. th' \in [Threads -> ThreadType]
  BY ThreadsKept
<1>6. ccb' \in CcbType /\ CcbLimits'
  BY CcbKept
<1>7. late' \in 0..MaxLate /\ quiet' \in BOOLEAN
  BY HistoryKept
<1> QED
  BY <1>1, <1>2, <1>3, <1>4, <1>5, <1>6, <1>7
  DEF Typed, CheckpointType, CtxType, PoolType, KickType, FenceType, ThreadType, CcbType, CcbLimits

LEMMA InitHolds ==
  ASSUME Init
  PROVE  IInv
<1>1. /\ PoolSize \in Nat \ {0} /\ MaxCmds \in Nat \ {0} /\ MaxEnqueued \in Nat \ {0}
      /\ MaxLate \in Nat /\ Cardinality(Kickers) \in Nat /\ None \notin Checkpoints
      /\ Unbind \in Threads /\ Misr \in Threads /\ \A k \in Kickers : k \in Threads
  BY CheckpointsAssumption, FiniteFacts
<1>2. /\ \A t \in Threads : th[t].pc = "idle" /\ th[t].work = {} /\ th[t].after = "leave"
      /\ \A k \in Kickers : kick[k].in = {} /\ kick[k].out = None /\ kick[k] = NoKick
      /\ \A c \in Checkpoints : chk[c] = Unused /\ fence[c] = "none"
      /\ \A k \in Kickers : ccb[k].cmds = <<>> /\ ccb[k].known = 0
      /\ pool.count = 0 /\ pool.Rp = 0 /\ pool.Wp = 0 /\ pool.full = FALSE
      /\ ctx.hRefCount = 1 /\ ctx.hCheckpointCount = 0 /\ ctx.block = FALSE /\ ctx.live = TRUE
      /\ allocated = {} /\ deferred = {} /\ late = 0
  BY DEF Init, NoKick
<1>3. \A c \in Checkpoints : /\ chk[c].hRefCount = 0 /\ chk[c].hEnqueuedCCBCount = 0
                             /\ chk[c].ui32FwRefCount = 0
  BY <1>2 DEF Unused
<1>4. Cardinality({}) = 0
  BY FS_EmptySet
<1>5. ThreadShape
  BY <1>1, <1>2, FiniteFacts DEF ThreadShape
<1>6. \A c \in Checkpoints : Inputs(c) = {} /\ Outputs(c) = {}
  BY <1>1, <1>2 DEF Inputs, Outputs
<1>7. KickShape
  BY <1>1, <1>2, <1>6 DEF KickShape
<1>8. RefsCounted
  <2>1. \A c \in Checkpoints : Created(c) = 0
    BY <1>2, <1>6 DEF Created
  <2> QED
    BY <1>3, <1>4, <1>6, <2>1 DEF RefsCounted
<1>9. 0..(pool.count - 1) = {}
  BY <1>2
<1>10. PoolShape
  <2>1. pool.Wp = (pool.Rp + pool.count) % PoolSize
    BY <1>1, <1>2
  <2>2. pool.full <=> pool.count = PoolSize
    BY <1>1, <1>2
  <2> QED
    BY <1>9, <2>1, <2>2 DEF PoolShape
<1>11. Pooled = {} /\ \A t \in Threads : Releasing(t) = {}
  BY <1>2, <1>9 DEF Pooled, Releasing, At
<1>12. Places
  BY <1>2, <1>11 DEF Places
<1>13. \A c \in Checkpoints : ~Living(c)
  BY <1>2, <1>3 DEF Living, At
<1>14. LivingInUse
  BY <1>13 DEF LivingInUse
<1>15. ContextCounts
  <2>1. Counting = {} /\ Calls = {}
    BY <1>2 DEF Counting, Calls, At, InUnref
  <2>2. Owner = 1
    BY <1>2, <1>4, <2>1 DEF Owner
  <2> QED
    BY <1>2, <1>4, <2>1, <2>2 DEF ContextCounts
<1>16. \A c \in Checkpoints : Appending(c) = {} /\ Appended(c) = {} /\ Undoing(c) = {}
  BY <1>1, <1>2 DEF Appending, Appended, Undoing
<1>17. EnqueuedBounds
  <2>1. 0 + 0 <= MaxEnqueued - 1 + Cardinality(Kickers)
    BY <1>1
  <2> QED
    BY <1>3, <1>4, <1>16, <2>1 DEF EnqueuedBounds
<1>18. \A c \in Checkpoints : WaitingFor(c) = {} /\ Updating(c) = {}
  <2>1. \A x \in Commands : x[1] \in Kickers /\ x[2] \in 1..MaxCmds /\ ~(x[2] <= Len(ccb[x[1]].cmds))
    <3>1. \A i \in 1..MaxCmds : ~(i <= Len(<<>>))
      OBVIOUS
    <3> QED
      BY <1>2, <3>1 DEF Commands
  <2> QED
    BY <2>1 DEF WaitingFor, Updating
<1>19. CommandsCounted
  <2>1. \A c \in Checkpoints : Serviced(c)
    BY <1>3 DEF Serviced
  <2> QED
    BY <1>3, <1>4, <1>16, <1>18, <2>1 DEF CommandsCounted
<1>20. Typed
  <2>1. chk \in [Checkpoints -> [hRefCount : Int, hEnqueuedCCBCount : Int, ui32FwRefCount : Nat,
                                 ui32State : {"UNDEF", "ACTIVE", "SIGNALLED"}, listed : BOOLEAN]]
    BY DEF Init, Unused
  <2>2. ctx \in [live : BOOLEAN, block : BOOLEAN, hRefCount : Int, hCheckpointCount : Int]
    BY DEF Init
  <2>3. pool \in [slot : [0..(PoolSize - 1) -> Checkpoints \cup {None}], Rp : 0..(PoolSize - 1),
                  Wp : 0..(PoolSize - 1), count : 0..PoolSize, full : BOOLEAN]
    <3>1. 0 \in 0..(PoolSize - 1) /\ 0 \in 0..PoolSize
      BY <1>1
    <3>2. [i \in 0..(PoolSize - 1) |-> None] \in [0..(PoolSize - 1) -> Checkpoints \cup {None}]
      OBVIOUS
    <3> QED
      BY <3>1, <3>2 DEF Init
  <2>4. fence \in [Checkpoints -> {"none", "foreign", "fence", "dropped"}]
    BY DEF Init
  <2>5. th \in [Threads -> [pc : Stages, work : SUBSET Checkpoints, after : Stages]]
    BY DEF Init, Stages
  <2>6. kick \in [Kickers -> [in : SUBSET Checkpoints, out : Checkpoints \cup {None}]]
    BY DEF Init, NoKick
  <2>7. ccb \in [Kickers -> [cmds : Seq(Command), known : Nat]]
    BY DEF Init
  <2>8. \A k \in Kickers : ccb[k].known \in 0..Len(ccb[k].cmds) /\ Len(ccb[k].cmds) <= MaxCmds
    <3>1. 0 \in 0..Len(<<>>) /\ Len(<<>>) <= MaxCmds
      BY <1>1
    <3> QED
      BY <1>2, <3>1
  <2>9. late \in 0..MaxLate /\ quiet \in BOOLEAN /\ allocated \subseteq Checkpoints
        /\ deferred \subseteq Checkpoints
    <3>1. late \in 0..MaxLate
      BY <1>1, <1>2
    <3> QED
      BY <3>1 DEF Init
  <2> QED
    BY <2>1, <2>2, <2>3, <2>4, <2>5, <2>6, <2>7, <2>8, <2>9 DEF Typed
<1>21. TypeOK
  BY <1>8, <1>15, <1>17, <1>20, Ranges
<1> QED
  BY <1>5, <1>7, <1>8, <1>10, <1>12, <1>14, <1>15, <1>17, <1>19, <1>21 DEF IInv

LEMMA RangesNext ==
  ASSUME Typed', RefsCounted', ContextCounts', EnqueuedBounds'
  PROVE  TypeOK'
BY Ranges, PTL

LEMMA StepHolds ==
  ASSUME IInv, [Next]_vars
  PROVE  IInv'
<1>1. CASE Next
  <2>1. ThreadShape' /\ KickShape' /\ RefsCounted' /\ PoolShape' /\ Places'
    BY <1>1, ShapeKept, KickShapeKept, RefsKept, PoolShapeKept, PlacesKept
  <2>2. LivingInUse' /\ ContextCounts' /\ EnqueuedBounds' /\ CommandsCounted'
    BY <1>1, LivingKept, CountsKept, BoundsKept, CommandsKept
  <2>3. Typed'
    BY <1>1, TypedKept
  <2>4. TypeOK'
    BY <2>1, <2>2, <2>3, RangesNext
  <2> QED
    BY <2>1, <2>2, <2>4 DEF IInv
<1>2. CASE UNCHANGED vars
  <2>1. UNCHANGED <<chk, allocated, ctx, pool, deferred, fence, th, kick, ccb, late, quiet>>
    BY <1>2 DEF vars, mem
  <2>2. TypeOK' /\ ThreadShape'
    BY <2>1 DEF IInv, TypeOK, ThreadShape
  <2>3. \A c \in Checkpoints : Inputs(c)' = Inputs(c) /\ Outputs(c)' = Outputs(c)
    BY <2>1 DEF Inputs, Outputs
  <2>4. KickShape'
    BY <2>1, <2>3 DEF IInv, KickShape
  <2>5. RefsCounted'
    BY <2>1, <2>3 DEF IInv, RefsCounted, Created
  <2>6. PoolShape'
    BY <2>1 DEF IInv, PoolShape, PooledAt
  <2>7. Pooled' = Pooled /\ \A t \in Threads : Releasing(t)' = Releasing(t)
    BY <2>1 DEF Pooled, Releasing, At
  <2>8. Places'
    BY <2>1, <2>7 DEF IInv, Places
  <2>9. \A c \in Checkpoints : (Living(c)' <=> Living(c)) /\ (Serviced(c)' <=> Serviced(c))
    BY <2>1 DEF Living, At, Serviced
  <2>10. LivingInUse'
    BY <2>1, <2>9 DEF IInv, LivingInUse, InUse
  <2>11. ContextCounts'
    BY <2>1 DEF IInv, ContextCounts, Counting, Calls, Owner, At
  <2>12. \A c \in Checkpoints : /\ Appending(c)' = Appending(c) /\ Appended(c)' = Appended(c)
                                /\ Undoing(c)' = Undoing(c)
    BY <2>1 DEF Appending, Appended, Undoing, Used
  <2>13. EnqueuedBounds'
    BY <2>1, <2>12 DEF IInv, EnqueuedBounds
  <2>14. \A c \in Checkpoints : WaitingFor(c)' = WaitingFor(c) /\ Updating(c)' = Updating(c)
    BY <2>1 DEF WaitingFor, Updating
  <2>15. CommandsCounted'
    BY <2>1, <2>9, <2>12, <2>14 DEF IInv, CommandsCounted
  <2> QED
    BY <2>2, <2>4, <2>5, <2>6, <2>8, <2>10, <2>11, <2>13, <2>15 DEF IInv
<1> QED
  BY <1>1, <1>2

(* The inductive invariant holds in every reachable state.                 *)
THEOREM Invariant == Spec => []IInv
<1>1. Init => IInv
  BY InitHolds
<1>2. IInv /\ [Next]_vars => IInv'
  BY StepHolds
<1> QED
  BY <1>1, <1>2, PTL DEF Spec

-----------------------------------------------------------------------------
(* What follows from it. *)

(* Type correctness, with the limits of the counts: hRefCount is at most   *)
(* one for each kick and the reference of the fence, and the context has   *)
(* one for each call, for the block and for its owner.                     *)
THEOREM TypeCorrect == Spec => []TypeOK
<1>1. IInv => TypeOK
  BY DEF IInv
<1> QED
  BY <1>1, Invariant, PTL

(* A checkpoint whose last reference went is in one place: on the deferred *)
(* list, on the list of one thread that releases it, or in the pool, once; *)
(* and hCheckpointCount counts what is allocated.                          *)
THEOREM ReleasedOnce == Spec => []OnePlace
<1>1. ASSUME IInv
      PROVE  OnePlace
  <2>1. TypeOK /\ PoolShape /\ Places /\ ContextCounts
    BY <1>1 DEF IInv
  <2>2. Cardinality(Pooled) = pool.count
    BY <2>1, PooledIs
  <2>3. ctx.hCheckpointCount =
          Cardinality(allocated) + Cardinality({t \in Threads : At(t, "count")})
    BY <2>1 DEF ContextCounts, Counting
  <2>4. \A c \in Pooled \cup deferred \cup UNION {Releasing(t) : t \in Threads} :
          c \in allocated /\ chk[c].hRefCount = 0
    BY <2>1 DEF Places
  <2> QED
    BY <2>1, <2>2, <2>3, <2>4 DEF OnePlace, Places, PoolShape
<1> QED
  BY <1>1, Invariant, PTL

(* The context is freed after everything in it: no suballocation is given  *)
(* out, nothing is pooled or deferred, and no thread is in a call that     *)
(* works on it.                                                            *)
THEOREM ContextLives == Spec => []ContextOutlives
<1>1. ASSUME IInv, ~ctx.live
      PROVE  /\ allocated = {} /\ pool.count = 0 /\ deferred = {}
             /\ \A t \in Threads : th[t].pc \in {"idle", "end"}
  <2>1. TypeOK /\ ThreadShape /\ PoolShape /\ Places /\ ContextCounts
    BY <1>1 DEF IInv
  <2>2. Cardinality(Calls) \in Nat /\ IsFiniteSet(Calls)
    <3>1. Calls \in SUBSET Threads
      BY DEF Calls
    <3> QED
      BY <3>1, AtMost, FS_Subset, FiniteFacts
  <2>3. PICK b \in {0, 1} : b = IF ctx.block THEN 1 ELSE 0
    OBVIOUS
  <2>4. ctx.hRefCount \in Nat /\ ~(ctx.hRefCount > 0)
    <3>1. ~(ctx.hRefCount > 0)
      BY <1>1, <2>1 DEF ContextCounts
    <3>2. ctx.hRefCount \in 0..(Cardinality(Threads) + 2) /\ Cardinality(Threads) \in Nat
      BY <2>1, FiniteFacts DEF TypeOK
    <3> QED
      BY <3>1, <3>2
  <2>5. ctx.hRefCount - Cardinality(Calls) - b \in {0, 1}
    BY <2>1, <2>3 DEF ContextCounts, Owner
  <2>6. Cardinality(Calls) = 0 /\ b = 0 /\ ctx.hRefCount - Cardinality(Calls) - b = 0
    BY <2>2, <2>4, <2>5
  <2>7. Calls = {}
    BY <2>2, <2>6, FS_EmptySet
  <2>8. ~ctx.block /\ Owner = 0
    BY <2>3, <2>6 DEF Owner
  <2>9. allocated = {} /\ th[Unbind].pc = "end"
    BY <2>1, <2>8 DEF ContextCounts
  <2>10. Pooled = {} /\ deferred = {}
    BY <2>1, <2>9 DEF Places
  <2>11. pool.count = 0
    BY <2>1, <2>10, PooledIs, FS_EmptySet
  <2>12. ASSUME NEW t \in Threads
         PROVE  th[t].pc \in {"idle", "end"}
    <3>1. CASE t = Unbind
      BY <2>9, <3>1
    <3>2. CASE t \in Kickers
      BY <2>1, <2>9, <3>2 DEF ThreadShape
    <3>3. CASE t = Misr
      <4>1. th[Misr].pc \notin InUnref
        BY <2>7, FiniteFacts DEF Calls
      <4> QED
        BY <2>1, <3>3, <4>1 DEF ThreadShape
    <3> QED
      BY <3>1, <3>2, <3>3 DEF Threads
  <2> QED
    BY <2>9, <2>10, <2>11, <2>12
<1>2. IInv => ContextOutlives
  BY <1>1 DEF ContextOutlives
<1> QED
  BY <1>2, Invariant, PTL

(* Until a kick is rolled back whose commands were committed, a checkpoint *)
(* that a kick holds, or that a command the firmware has yet to finish has *)
(* the address of, is allocated and on the device's list.                  *)
THEOREM UsersHold == Spec => []HeldInUse
<1>1. ASSUME IInv, late = 0, NEW k \in Kickers, NEW i \in DOMAIN ccb[k].cmds,
             NEW c \in StillUsed(ccb[k].cmds[i])
      PROVE  InUse(c)
  <2>1. TypeOK /\ LivingInUse
    BY <1>1 DEF IInv
  <2>2. i \in 1..Len(Cmds(k)) /\ i \in 1..MaxCmds /\ Cmds(k)[i] \in Command
    BY <2>1, CcbFits DEF Cmds
  <2>3. c \in Checkpoints
    BY <2>2 DEF StillUsed, Command, Cmds
  <2>4. \/ Cmds(k)[i].stage = "wait" /\ c \in Cmds(k)[i].fence
        \/ Cmds(k)[i].update = c
    BY DEF StillUsed, Cmds
  <2>5. <<k, i>> \in WaitingFor(c) \/ <<k, i>> \in Updating(c)
    BY <2>2, <2>3, <2>4, Entries
  <2>6. Living(c)
    BY <1>1, <2>3, <2>5, NoneLeft DEF Accounted
  <2> QED
    BY <2>1, <2>3, <2>6 DEF LivingInUse
<1>2. ASSUME IInv, NEW k \in Kickers, NEW c \in Used(k)
      PROVE  InUse(c)
  <2>1. c \in Checkpoints
    <3>1. TypeOK
      BY <1>2 DEF IInv
    <3> QED
      BY <3>1, KickFits DEF Used
  <2> QED
    BY <1>2, <2>1, UsedIsHeld
<1>3. IInv => HeldInUse
  BY <1>1, <1>2 DEF HeldInUse, CommandsKeepCheckpoints
<1> QED
  BY <1>3, Invariant, PTL
=============================================================================
