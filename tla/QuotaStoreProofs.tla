-------------------------- MODULE QuotaStoreProofs --------------------------
(***************************************************************************)
(* Theorems about QuotaStore, for every finite set of connections and      *)
(* every cap: the store's types, the soundness of its queue, the backoff's *)
(* promise, and that the store implements FetchPool.                       *)
(***************************************************************************)
EXTENDS QuotaStore, FunctionTheorems, FiniteSetTheorems, SequenceTheorems, TLAPS

Distinct(q) == \A i, j \in 1..Len(q) : q[i] = q[j] => i = j

\* The part of the invariant that queueFetch and pump keep.
Governed ==
    /\ hiQueue \in Seq(Conns)
    /\ inflight \in SUBSET Conns
    /\ Distinct(hiQueue)
    /\ Elements(hiQueue) \cap inflight = {}
    /\ Cardinality(inflight) <= MAX_CONCURRENT
    /\ hiQueue # <<>> => Cardinality(inflight) = MAX_CONCURRENT

\* What waits in spite of a backoff was asked for by hand.
WaitsByRight == \A c \in Elements(hiQueue) : c \in nextOkAt => c \in byHand

\* The inductive invariant.
QuotaInv == QuotaTypeOK /\ Governed /\ WaitsByRight

-----------------------------------------------------------------------------
(* Sequences. *)

LEMMA ElementsTyped ==
    ASSUME NEW q \in Seq(Conns)
    PROVE  Elements(q) \subseteq Conns /\ Len(q) \in Nat
BY LenProperties, ElementOfSeq DEF Elements

\* A sequence as long as its set of elements is large has no repetition.
LEMMA ArrangementIsQueue ==
    ASSUME NEW W \in SUBSET Conns, NEW q \in Arrangements(W)
    PROVE  q \in Seq(Conns) /\ Elements(q) = W /\ Distinct(q)
<1> DEFINE n == Cardinality(W)
<1>1. IsFiniteSet(W) /\ n \in Nat
  BY ConnsAssumption, FS_Subset, FS_CardinalityType
<1>2. q \in [1..n -> W] /\ Elements(q) = W
  BY DEF Arrangements
<1>3. q \in Seq(W) /\ Len(q) = n
  <2>1. \A i \in 1..n : q[i] \in W
    BY <1>2
  <2>2. q = [i \in 1..n |-> q[i]]
    BY <1>2
  <2>3. q \in Seq(W)
    BY <1>1, <2>1, <2>2, <1>2, SMT
  <2>4. DOMAIN q = 1..Len(q) /\ Len(q) \in Nat
    BY <2>3, LenProperties
  <2>5. DOMAIN q = 1..n
    BY <1>2
  <2> QED
    BY <1>1, <2>3, <2>4, <2>5, SMT
<1>4. IsFiniteSet(1..n) /\ Cardinality(1..n) = n
  BY <1>1, FS_Interval
<1>5. q \in Surjection(1..n, W)
  <2>1. \A w \in W : \E i \in 1..n : q[i] = w
    BY <1>2, <1>3 DEF Elements
  <2> QED
    BY <1>2, <2>1 DEF Surjection
<1>6. q \in Injection(1..n, W)
  BY <1>1, <1>4, <1>5, FS_SurjSameCardinalityImpliesInj
<1>7. Distinct(q)
  BY <1>3, <1>6 DEF Distinct, Injection, IsInjective
<1>8. q \in Seq(Conns)
  BY <1>3, <1>1, SMT
<1> QED
  BY <1>2, <1>7, <1>8

\* Appending what is new keeps a queue without repetition.
LEMMA AppendedQueue ==
    ASSUME NEW p \in Seq(Conns), NEW q \in Seq(Conns), Distinct(p), Distinct(q),
           Elements(p) \cap Elements(q) = {}
    PROVE  /\ p \o q \in Seq(Conns)
           /\ Distinct(p \o q)
           /\ Elements(p \o q) = Elements(p) \cup Elements(q)
<1> DEFINE r == p \o q
<1>1. /\ r \in Seq(Conns)
      /\ Len(p) \in Nat /\ Len(q) \in Nat
      /\ Len(r) = Len(p) + Len(q)
      /\ \A i \in 1..(Len(p) + Len(q)) : r[i] = IF i <= Len(p) THEN p[i] ELSE q[i - Len(p)]
  BY ConcatProperties, LenProperties
<1> HIDE DEF r
<1>2. \A i \in 1..Len(r) :
         \/ i \in 1..Len(p) /\ r[i] = p[i]
         \/ i - Len(p) \in 1..Len(q) /\ r[i] = q[i - Len(p)]
  BY <1>1
<1>3. \A i \in 1..Len(p) : i \in 1..Len(r) /\ r[i] = p[i]
  BY <1>1
<1>4. \A i \in 1..Len(q) : i + Len(p) \in 1..Len(r) /\ r[i + Len(p)] = q[i]
  BY <1>1
<1>5. Elements(r) = Elements(p) \cup Elements(q)
  <2>1. \A i \in 1..Len(r) : r[i] \in Elements(p) \cup Elements(q)
    BY <1>2 DEF Elements
  <2>2. Elements(p) \subseteq Elements(r)
    BY <1>3 DEF Elements
  <2>3. Elements(q) \subseteq Elements(r)
    BY <1>4 DEF Elements
  <2>4. Elements(r) \subseteq Elements(p) \cup Elements(q)
    BY <2>1 DEF Elements
  <2> QED
    BY <2>2, <2>3, <2>4
<1>6. Distinct(r)
  <2> SUFFICES ASSUME NEW i \in 1..Len(r), NEW j \in 1..Len(r), r[i] = r[j]
               PROVE  i = j
    BY DEF Distinct
  <2>1. CASE i \in 1..Len(p) /\ j \in 1..Len(p)
    BY <2>1, <1>3 DEF Distinct
  <2>2. CASE i - Len(p) \in 1..Len(q) /\ j - Len(p) \in 1..Len(q)
    <3>1. r[i] = q[i - Len(p)] /\ r[j] = q[j - Len(p)]
      BY <2>2, <1>1
    <3>2. i - Len(p) = j - Len(p)
      BY <2>2, <3>1 DEF Distinct
    <3> QED
      BY <3>2, <1>1
  <2>3. CASE i \in 1..Len(p) /\ j - Len(p) \in 1..Len(q)
    <3>1. r[i] \in Elements(p) /\ r[j] \in Elements(q)
      BY <2>3, <1>1 DEF Elements
    <3> QED
      BY <3>1
  <2>4. CASE j \in 1..Len(p) /\ i - Len(p) \in 1..Len(q)
    <3>1. r[j] \in Elements(p) /\ r[i] \in Elements(q)
      BY <2>4, <1>1 DEF Elements
    <3> QED
      BY <3>1
  <2> QED
    BY <1>2, <2>1, <2>2, <2>3, <2>4
<1> QED
  BY <1>1, <1>5, <1>6 DEF r
-----------------------------------------------------------------------------
(* pump and queueFetch. *)

\* pump never exceeds the cap, leaves no room unused while someone waits, and
\* starts or keeps only who was running or waiting.
LEMMA PumpGoverns ==
    ASSUME NEW q \in Seq(Conns), Distinct(q),
           NEW running \in SUBSET Conns, Elements(q) \cap running = {},
           Cardinality(running) <= MAX_CONCURRENT,
           Pump(q, running)
    PROVE  /\ Governed'
           /\ running \subseteq inflight'
           /\ inflight' \subseteq running \cup Elements(q)
           /\ Elements(hiQueue)' \subseteq Elements(q)
<1> DEFINE S(k) == Started(q, k, running)
<1>1. PICK k \in 0..Len(q) :
         /\ \A j \in 0..(k - 1) : Cardinality(running \cup S(j)) < MAX_CONCURRENT
         /\ k = Len(q) \/ Cardinality(running \cup S(k)) >= MAX_CONCURRENT
         /\ hiQueue' = SubSeq(q, k + 1, Len(q))
         /\ inflight' = running \cup S(k)
  BY DEF Pump
<1>2. /\ Len(q) \in Nat /\ k \in Nat /\ k <= Len(q)
      /\ \A i \in 1..Len(q) : q[i] \in Conns
  BY ElementsTyped, ElementOfSeq
<1>3. S(k) = {q[i] : i \in {j \in 1..k : snapshot[q[j]] # "out" /\ q[j] \notin running}}
  BY DEF Started
<1>4. \A i \in 1..k : i \in 1..Len(q)
  BY <1>2
<1>5. S(k) \subseteq Elements(q)
  BY <1>3, <1>4 DEF Elements
<1>6. hiQueue' \in Seq(Conns)
  BY <1>1, <1>2, SubSeqProperties
<1>7. /\ Len(hiQueue') = Len(q) - k
      /\ \A i \in 1..(Len(q) - k) : hiQueue'[i] = q[k + i] /\ k + i \in 1..Len(q) /\ k + i > k
  <2>1. \A i \in (k + 1)..Len(q) : q[i] \in Conns
    BY <1>2
  <2>2. /\ Len(hiQueue') = IF k + 1 <= Len(q) THEN Len(q) - (k + 1) + 1 ELSE 0
        /\ \A i \in 1..(Len(q) - (k + 1) + 1) : hiQueue'[i] = q[(k + 1) + i - 1]
    BY <1>1, <1>2, <2>1, SubSeqProperties
  <2> QED
    BY <1>2, <2>2
<1>8. Distinct(hiQueue')
  <2> SUFFICES ASSUME NEW i \in 1..Len(hiQueue'), NEW j \in 1..Len(hiQueue'), hiQueue'[i] = hiQueue'[j]
               PROVE  i = j
    BY DEF Distinct
  <2>1. k + i = k + j
    BY <1>7 DEF Distinct
  <2> QED
    BY <2>1, <1>2
<1>9. Elements(hiQueue') \subseteq Elements(q)
  BY <1>7 DEF Elements
<1>10. Elements(hiQueue') \cap inflight' = {}
  <2>1. Elements(hiQueue') \cap S(k) = {}
    <3> SUFFICES ASSUME NEW i \in 1..Len(hiQueue'), NEW j \in 1..k, hiQueue'[i] = q[j]
                 PROVE  FALSE
      BY <1>3 DEF Elements
    <3>1. k + i = j
      BY <1>4, <1>7 DEF Distinct
    <3> QED
      BY <3>1, <1>7, <1>2
  <2> QED
    BY <2>1, <1>1, <1>9
<1>11. inflight' \in SUBSET Conns
  BY <1>1, <1>5, ElementsTyped
<1>12. Cardinality(inflight') <= MAX_CONCURRENT
  <2>1. CASE k = 0
    <3>1. S(k) = {}
      BY <2>1, <1>3
    <3> QED
      BY <3>1, <1>1
  <2>2. CASE k # 0
    <3> DEFINE R == running \cup S(k - 1)
    <3>1. Cardinality(R) < MAX_CONCURRENT
      BY <2>2, <1>1, <1>2
    <3>2. S(k - 1) = {q[i] : i \in {j \in 1..(k - 1) : snapshot[q[j]] # "out" /\ q[j] \notin running}}
      BY DEF Started
    <3>3. \A i \in 1..k : i \in 1..(k - 1) \/ i = k
      BY <1>2
    <3>4. S(k) \subseteq S(k - 1) \cup {q[k]}
      BY <1>3, <3>2, <3>3
    <3>5. R \subseteq Conns
      <4>1. \A i \in 1..(k - 1) : q[i] \in Conns
        BY <1>2, <1>4
      <4> QED
        BY <3>2, <4>1
    <3>6. IsFiniteSet(R) /\ IsFiniteSet(R \cup {q[k]})
      <4>1. IsFiniteSet(R)
        BY <3>5, ConnsAssumption, FS_Subset
      <4> HIDE DEF R
      <4> QED
        BY <4>1, FS_AddElement
    <3>7. Cardinality(R) \in Nat /\ Cardinality(R \cup {q[k]}) <= Cardinality(R) + 1
      <4> HIDE DEF R
      <4>1. Cardinality(R) \in Nat
        BY <3>6, FS_CardinalityType
      <4>2. Cardinality(R \cup {q[k]}) = IF q[k] \in R THEN Cardinality(R) ELSE Cardinality(R) + 1
        BY <3>6, FS_AddElement
      <4> QED
        BY <4>1, <4>2
    <3>8. inflight' \in SUBSET (R \cup {q[k]})
      BY <1>1, <3>4
    <3>9. Cardinality(inflight') \in Nat /\ Cardinality(inflight') <= Cardinality(R \cup {q[k]})
      BY <3>6, <3>8, FS_Subset, FS_CardinalityType
    <3>10. Cardinality(R \cup {q[k]}) \in Nat /\ MAX_CONCURRENT \in Nat
      BY <3>6, FS_CardinalityType, CapAssumption
    <3> HIDE DEF R
    <3> QED
      BY <3>1, <3>7, <3>9, <3>10
  <2> QED
    BY <2>1, <2>2
<1>13. hiQueue' # <<>> => Cardinality(inflight') = MAX_CONCURRENT
  <2> SUFFICES ASSUME hiQueue' # <<>>
               PROVE  Cardinality(inflight') = MAX_CONCURRENT
    OBVIOUS
  <2>1. k # Len(q)
    BY <1>6, <1>7, <1>2, EmptySeq
  <2>2. Cardinality(inflight') \in Nat /\ MAX_CONCURRENT \in Nat
    BY <1>11, ConnsAssumption, FS_Subset, FS_CardinalityType, CapAssumption
  <2> QED
    BY <2>1, <2>2, <1>1, <1>12
<1> QED
  <2>1. Elements(hiQueue)' = Elements(hiQueue')
    BY DEF Elements
  <2>2. Distinct(hiQueue)' = Distinct(hiQueue')
    BY DEF Distinct
  <2> QED
    BY <1>1, <1>5, <1>6, <1>8, <1>9, <1>10, <1>11, <1>12, <1>13, <2>1, <2>2 DEF Governed
\* What every step keeps, and how the running fetches may change in it.
Kept ==
    /\ Governed' /\ WaitsByRight' /\ byHand' \in SUBSET Conns
    /\ \A c \in inflight' \ inflight : c \in nextOkAt' => c \in byHand'
    /\ \/ inflight \subseteq inflight'
       \/ \E c \in inflight : /\ c \notin inflight' \cup Elements(hiQueue)'
                              /\ inflight \ {c} \subseteq inflight'

LEMMA EnqueueKeeps ==
    ASSUME QuotaInv, NEW S \in SUBSET Conns, NEW force \in BOOLEAN,
           Enqueue(S, force), nextOkAt' = nextOkAt
    PROVE  Kept
<1> DEFINE W == Wanted(S, force)
<1>1. /\ W \in SUBSET Conns
      /\ Elements(hiQueue) \cap W = {}
      /\ inflight \cap W = {}
      /\ ~force => W \cap nextOkAt = {}
  BY DEF Wanted, Queued, Elements
<1> HIDE DEF W
<1>2. PICK q \in Arrangements(W) : Pump(hiQueue \o q, inflight)
  BY DEF Enqueue, W
<1>3. q \in Seq(Conns) /\ Elements(q) = W /\ Distinct(q)
  BY <1>1, ArrangementIsQueue
<1>4. /\ hiQueue \in Seq(Conns) /\ Distinct(hiQueue)
      /\ inflight \in SUBSET Conns /\ Elements(hiQueue) \cap inflight = {}
      /\ Cardinality(inflight) <= MAX_CONCURRENT
  BY DEF QuotaInv, Governed
<1>5. /\ hiQueue \o q \in Seq(Conns) /\ Distinct(hiQueue \o q)
      /\ Elements(hiQueue \o q) = Elements(hiQueue) \cup W
  BY <1>1, <1>3, <1>4, AppendedQueue
<1>6. Elements(hiQueue \o q) \cap inflight = {}
  BY <1>1, <1>4, <1>5
<1>7. /\ Governed'
      /\ inflight \subseteq inflight'
      /\ inflight' \subseteq inflight \cup Elements(hiQueue) \cup W
      /\ Elements(hiQueue)' \subseteq Elements(hiQueue) \cup W
  BY <1>2, <1>4, <1>5, <1>6, PumpGoverns
<1>8. byHand' = (byHand \cup (IF force THEN W ELSE {})) \cap (inflight' \cup Elements(hiQueue)')
  BY DEF Enqueue, KeepByHand, Elements, W
<1>9. \A c \in Elements(hiQueue) \cup W : c \in nextOkAt => c \in byHand \cup (IF force THEN W ELSE {})
  BY <1>1 DEF QuotaInv, WaitsByRight
<1>10. WaitsByRight'
  <2>1. \A c \in Elements(hiQueue)' : c \in nextOkAt' => c \in byHand'
    BY <1>7, <1>8, <1>9
  <2> QED
    BY <2>1 DEF WaitsByRight
<1>11. \A c \in inflight' \ inflight : c \in nextOkAt' => c \in byHand'
  BY <1>7, <1>8, <1>9
<1>12. byHand' \in SUBSET Conns
  BY <1>1, <1>8 DEF QuotaInv, QuotaTypeOK
<1> QED
  BY <1>7, <1>10, <1>11, <1>12 DEF Kept

LEMMA SettleKeeps ==
    ASSUME QuotaInv, NEW c \in inflight,
           Pump(hiQueue, inflight \ {c}), KeepByHand({}),
           nextOkAt' \in {nextOkAt \ {c}, nextOkAt \cup {c}}
    PROVE  Kept
<1>1. /\ hiQueue \in Seq(Conns) /\ Distinct(hiQueue)
      /\ inflight \in SUBSET Conns /\ Elements(hiQueue) \cap inflight = {}
      /\ Cardinality(inflight) <= MAX_CONCURRENT
  BY DEF QuotaInv, Governed
<1>2. Cardinality(inflight \ {c}) <= MAX_CONCURRENT
  <2>1. IsFiniteSet(inflight)
    BY <1>1, ConnsAssumption, FS_Subset
  <2>2. /\ Cardinality(inflight) \in Nat
        /\ Cardinality(inflight \ {c}) = Cardinality(inflight) - 1
    BY <2>1, FS_RemoveElement, FS_CardinalityType
  <2> QED
    BY <2>2, <1>1, CapAssumption
<1>3. /\ Governed'
      /\ inflight \ {c} \subseteq inflight'
      /\ inflight' \subseteq (inflight \ {c}) \cup Elements(hiQueue)
      /\ Elements(hiQueue)' \subseteq Elements(hiQueue)
  <2>1. inflight \ {c} \in SUBSET Conns /\ Elements(hiQueue) \cap (inflight \ {c}) = {}
    BY <1>1
  <2> QED
    BY <2>1, <1>1, <1>2, PumpGoverns
<1>4. byHand' = byHand \cap (inflight' \cup Elements(hiQueue)')
  BY DEF KeepByHand, Elements
<1>5. c \notin inflight' /\ c \notin Elements(hiQueue)
  BY <1>1, <1>3
<1>6. \A d \in Elements(hiQueue) : d \in nextOkAt' => d \in byHand
  BY <1>5 DEF QuotaInv, WaitsByRight
<1>7. WaitsByRight'
  <2>1. \A d \in Elements(hiQueue)' : d \in nextOkAt' => d \in byHand'
    BY <1>3, <1>4, <1>6
  <2> QED
    BY <2>1 DEF WaitsByRight
<1>8. \A d \in inflight' \ inflight : d \in nextOkAt' => d \in byHand'
  BY <1>3, <1>4, <1>6
<1>9. byHand' \in SUBSET Conns
  BY <1>4 DEF QuotaInv, QuotaTypeOK
<1> QED
  BY <1>3, <1>5, <1>7, <1>8, <1>9 DEF Kept

\* Steps that leave the queue alone.
LEMMA QueueUntouched ==
    ASSUME QuotaInv, UNCHANGED <<hiQueue, inflight, byHand>>, nextOkAt' \subseteq nextOkAt
    PROVE  Kept
<1>1. Governed'
  BY DEF QuotaInv, Governed, Elements, Distinct
<1>2. WaitsByRight'
  BY DEF QuotaInv, WaitsByRight, Elements
<1>3. byHand' \in SUBSET Conns
  BY DEF QuotaInv, QuotaTypeOK
<1> QED
  BY <1>1, <1>2, <1>3 DEF Kept

-----------------------------------------------------------------------------
(* Every step. *)

LEMMA SweepKeeps ==
    ASSUME QuotaInv, NEW auto \in BOOLEAN, Sweep(auto), nextOkAt' = nextOkAt
    PROVE  Kept
<1>1. CASE Enqueue(Due, FALSE)
  <2>1. Due \in SUBSET Conns
    BY DEF Due
  <2> QED
    BY <1>1, <2>1, EnqueueKeeps
<1>2. CASE UNCHANGED <<hiQueue, inflight, byHand>>
  BY <1>2, QueueUntouched
<1> QED
  BY <1>1, <1>2 DEF Sweep

\* The rest of the types, which are as simple as the assignments.
OtherTypes ==
    /\ snapshot \in [Conns -> Kinds]
    /\ nextOkAt \subseteq Conns /\ worst \subseteq Conns /\ aged \subseteq Conns
    /\ inspectedId \in Conns \cup {NoConn}
    /\ autoEnabled \in BOOLEAN /\ timer \in BOOLEAN

LEMMA StepKeeps ==
    ASSUME QuotaInv, QuotaNext
    PROVE  Kept /\ OtherTypes'
<1> USE VolatileAssumption
<1>0. OtherTypes /\ inflight \in SUBSET Conns
  BY DEF QuotaInv, QuotaTypeOK, OtherTypes, Governed
<1>1. CASE SnapshotChanges
  <2>1. snapshot' \in [Conns -> Kinds]
    BY <1>0, <1>1 DEF SnapshotChanges, OtherTypes, Kinds
  <2>2. UNCHANGED <<hiQueue, inflight, cacheVars, modeVars, byHand>>
    BY <1>1 DEF SnapshotChanges
  <2> QED
    BY <1>0, <2>1, <2>2, QueueUntouched DEF OtherTypes, cacheVars, modeVars
<1>2. CASE Dispose
  BY <1>0, <1>2, QueueUntouched DEF Dispose, OtherTypes, cacheVars
<1>3. CASE Tick
  <2>1. OtherTypes' /\ nextOkAt' = nextOkAt
    BY <1>0, <1>3 DEF Tick, OtherTypes, cacheVars, modeVars
  <2>2. autoEnabled \in BOOLEAN /\ Sweep(autoEnabled)
    BY <1>0, <1>3 DEF Tick, OtherTypes
  <2> QED
    BY <2>1, <2>2, SweepKeeps
<1>4. CASE \E id \in Volatile \cup {NoConn} : SetInspected(id)
  <2>1. PICK id \in Volatile \cup {NoConn} : SetInspected(id)
    BY <1>4
  <2>2. OtherTypes' /\ nextOkAt' = nextOkAt
    BY <1>0, <2>1 DEF SetInspected, OtherTypes, cacheVars
  <2>3. (IF id # NoConn /\ id # inspectedId THEN {id} ELSE {}) \in SUBSET Conns
    OBVIOUS
  <2> QED
    BY <2>1, <2>2, <2>3, EnqueueKeeps DEF SetInspected
<1>5. CASE \E ids \in (SUBSET Conns) \ {{}} : Refresh(ids)
  <2>1. PICK ids \in (SUBSET Conns) \ {{}} : Refresh(ids)
    BY <1>5
  <2>2. OtherTypes' /\ nextOkAt' = nextOkAt
    BY <1>0, <2>1 DEF Refresh, OtherTypes, cacheVars, modeVars
  <2> QED
    BY <2>1, <2>2, EnqueueKeeps DEF Refresh
<1>6. CASE \E on \in BOOLEAN : SetAuto(on)
  <2>1. PICK on \in BOOLEAN : SetAuto(on)
    BY <1>6
  <2>2. OtherTypes' /\ nextOkAt' = nextOkAt
    BY <1>0, <2>1 DEF SetAuto, OtherTypes, cacheVars
  <2> QED
    BY <2>1, <2>2, SweepKeeps DEF SetAuto
<1>7. ASSUME NEW c \in Conns, EntryAges(c)
      PROVE  Kept /\ OtherTypes'
  BY <1>0, <1>7, QueueUntouched DEF EntryAges, OtherTypes, modeVars
<1>8. ASSUME NEW c \in Conns, BackoffEnds(c)
      PROVE  Kept /\ OtherTypes'
  BY <1>0, <1>8, QueueUntouched DEF BackoffEnds, OtherTypes, modeVars
<1>9. ASSUME NEW c \in Conns, FetchSucceeds(c)
      PROVE  Kept /\ OtherTypes'
  <2>1. OtherTypes'
    BY <1>0, <1>9 DEF FetchSucceeds, OtherTypes, modeVars
  <2>2. /\ c \in inflight /\ nextOkAt' = nextOkAt \ {c}
        /\ Pump(hiQueue, inflight \ {c}) /\ KeepByHand({})
    BY <1>9 DEF FetchSucceeds
  <2> QED
    BY <2>1, <2>2, SettleKeeps
<1>10. ASSUME NEW c \in Conns, FetchFails(c)
       PROVE  Kept /\ OtherTypes'
  <2>1. OtherTypes'
    BY <1>0, <1>10 DEF FetchFails, OtherTypes, modeVars
  <2>2. /\ c \in inflight /\ nextOkAt' = nextOkAt \cup {c}
        /\ Pump(hiQueue, inflight \ {c}) /\ KeepByHand({})
    BY <1>10 DEF FetchFails
  <2> QED
    BY <2>1, <2>2, SettleKeeps
<1> QED
  BY <1>1, <1>2, <1>3, <1>4, <1>5, <1>6, <1>7, <1>8, <1>9, <1>10 DEF QuotaNext

LEMMA QuotaInitInv == QuotaInit => QuotaInv
<1> SUFFICES ASSUME QuotaInit PROVE QuotaInv
  OBVIOUS
<1> USE DEF QuotaInit
<1>1. hiQueue \in Seq(Conns) /\ Len(hiQueue) = 0
  BY EmptySeq
<1>2. Elements(hiQueue) = {} /\ Distinct(hiQueue)
  BY <1>1 DEF Elements, Distinct
<1>3. Cardinality(inflight) = 0
  BY FS_EmptySet
<1>4. QuotaTypeOK
  BY <1>1 DEF QuotaTypeOK, Kinds
<1>5. Governed
  BY <1>1, <1>2, <1>3, CapAssumption DEF Governed
<1> QED
  BY <1>2, <1>4, <1>5 DEF QuotaInv, WaitsByRight

LEMMA QuotaNextInv == QuotaInv /\ [QuotaNext]_quotaVars => QuotaInv'
<1> SUFFICES ASSUME QuotaInv, [QuotaNext]_quotaVars PROVE QuotaInv'
  OBVIOUS
<1>1. Kept /\ OtherTypes'
  <2>1. CASE QuotaNext
    BY <2>1, StepKeeps
  <2>2. CASE UNCHANGED quotaVars
    <3>1. Kept
      BY <2>2, QueueUntouched DEF quotaVars, cacheVars
    <3>2. OtherTypes'
      BY <2>2 DEF QuotaInv, QuotaTypeOK, OtherTypes, quotaVars, cacheVars, modeVars
    <3> QED
      BY <3>1, <3>2
  <2> QED
    BY <2>1, <2>2
<1>2. QuotaTypeOK'
  BY <1>1 DEF Kept, Governed, OtherTypes, QuotaTypeOK
<1> QED
  BY <1>1, <1>2 DEF QuotaInv, Kept
-----------------------------------------------------------------------------
(* The theorems. *)

LEMMA QuotaInvariant == QuotaSpec => []QuotaInv
<1>1. QuotaInit => QuotaInv
  BY QuotaInitInv
<1>2. QuotaInv /\ [QuotaNext]_quotaVars => QuotaInv'
  BY QuotaNextInv
<1> QED
  BY <1>1, <1>2, PTL DEF QuotaSpec

\* The store's variables keep their types, whatever connections there are.
THEOREM QuotaTypeCorrect == QuotaSpec => []QuotaTypeOK
<1>1. QuotaInv => QuotaTypeOK
  BY DEF QuotaInv
<1> QED
  BY <1>1, QuotaInvariant, PTL

\* No connection waits twice, and none waits while it is being fetched
\* (the two guards of queueFetch).
THEOREM QueueIsSound == QuotaSpec => []QueueSound
<1>1. QuotaInv => QueueSound
  BY DEF QuotaInv, Governed, QueueSound, Distinct, Elements, Queued
<1> QED
  BY <1>1, QuotaInvariant, PTL

\* A connection whose last fetch failed and whose backoff still runs is
\* fetched only if a user asked for it: the check at the time of queueing is
\* enough (queueFetch, failBackoff).
THEOREM BackoffIsRespected == QuotaSpec => BackoffRespected
<1>1. QuotaInv /\ [QuotaNext]_quotaVars
        => [\A c \in inflight' \ inflight : c \in nextOkAt' => c \in byHand']_quotaVars
  BY StepKeeps DEF Kept
<1> QED
  BY <1>1, QuotaInvariant, PTL DEF QuotaSpec, BackoffRespected

\* What the mapped state is: the running, and the waiting connections.
PhasesMapped ==
    /\ phaseOf \in [Conns -> {"idle", "waiting", "fetching"}]
    /\ Pool!Fetching = inflight
    /\ Pool!Waiting = Elements(hiQueue)
    /\ \A c \in Conns : phaseOf[c] = "fetching" <=> c \in inflight
    /\ \A c \in Conns : c \notin inflight /\ c \notin Elements(hiQueue) <=> phaseOf[c] = "idle"

LEMMA PhasesAre == Governed => PhasesMapped
<1> SUFFICES ASSUME Governed PROVE PhasesMapped
  OBVIOUS
<1>1. Elements(hiQueue) \subseteq Conns /\ Queued = Elements(hiQueue)
  BY ElementsTyped DEF Governed, Elements, Queued
<1>2. phaseOf \in [Conns -> {"idle", "waiting", "fetching"}]
  BY DEF phaseOf
<1>3. \A c \in Conns : phaseOf[c] = IF c \in inflight THEN "fetching"
                                   ELSE IF c \in Elements(hiQueue) THEN "waiting" ELSE "idle"
  BY <1>1 DEF phaseOf
<1>4. inflight \subseteq Conns /\ Elements(hiQueue) \cap inflight = {}
  BY DEF Governed
<1>5. Pool!Fetching = inflight
  BY <1>3, <1>4 DEF Pool!Fetching
<1>6. Pool!Waiting = Elements(hiQueue)
  BY <1>1, <1>3, <1>4 DEF Pool!Waiting
<1> QED
  BY <1>2, <1>3, <1>5, <1>6 DEF PhasesMapped

LEMMA PhasesAreNext == Governed' => PhasesMapped'
BY PhasesAre, PTL

\* FetchPool counts as this module does.
LEMMA PoolCounts == \A S : Pool!Cardinality(S) = Cardinality(S)
BY DEF Pool!Cardinality, Cardinality

\* The store is a governor of fetches: it implements FetchPool under phaseOf.
THEOREM StoreImplementsPool == QuotaSpec => PoolImplemented
<1>1. QuotaInit => Pool!PoolInit
  <2> SUFFICES ASSUME QuotaInit PROVE Pool!PoolInit
    OBVIOUS
  <2>1. Queued = {} /\ inflight = {}
    BY QuotaInitInv, EmptySeq DEF QuotaInit, Queued
  <2> QED
    BY <2>1 DEF Pool!PoolInit, phaseOf
<1>2. QuotaInv /\ [QuotaNext]_quotaVars => [Pool!PoolStep]_phaseOf
  <2> SUFFICES ASSUME QuotaInv, [QuotaNext]_quotaVars
               PROVE  Pool!PoolStep \/ UNCHANGED phaseOf
    OBVIOUS
  <2>1. CASE UNCHANGED quotaVars
    BY <2>1 DEF quotaVars, phaseOf, Queued
  <2>2. CASE QuotaNext
    <3>1. Kept
      BY <2>2, StepKeeps
    <3>2. /\ phaseOf' \in [Conns -> {"idle", "waiting", "fetching"}]
          /\ Pool!Fetching' = inflight'
          /\ Pool!Waiting' = Elements(hiQueue)'
          /\ \A c \in Conns : phaseOf'[c] = "fetching" <=> c \in inflight'
          /\ \A c \in Conns : c \notin inflight' /\ c \notin Elements(hiQueue)' <=> phaseOf'[c] = "idle"
      BY <3>1, PhasesAreNext DEF Kept, PhasesMapped
    <3>3. \A c \in Conns : phaseOf[c] = "fetching" <=> c \in inflight
      BY PhasesAre DEF QuotaInv, PhasesMapped
    <3>4. Cardinality(inflight') <= MAX_CONCURRENT
      BY <3>1 DEF Kept, Governed
    <3>5. Elements(hiQueue)' # {} => Cardinality(inflight') = MAX_CONCURRENT
      BY <3>1, EmptySeq DEF Kept, Governed, Elements
    <3>6. \/ \A c \in Conns : Pool!Admits(c)
          \/ \E c \in Conns : Pool!Settles(c) /\ \A d \in Conns \ {c} : Pool!Admits(d)
      <4>1. CASE inflight \subseteq inflight'
        BY <4>1, <3>2, <3>3 DEF Pool!Admits
      <4>2. ASSUME NEW c \in inflight, c \notin inflight' \cup Elements(hiQueue)',
                   inflight \ {c} \subseteq inflight'
            PROVE  Pool!Settles(c) /\ \A d \in Conns \ {c} : Pool!Admits(d)
        <5>1. c \in Conns
          BY DEF QuotaInv, Governed
        <5> QED
          BY <5>1, <4>2, <3>2, <3>3 DEF Pool!Admits, Pool!Settles
      <4>3. inflight \subseteq Conns
        BY DEF QuotaInv, Governed
      <4> QED
        BY <4>1, <4>2, <4>3, <3>1 DEF Kept
    <3> QED
      <4>1. Pool!Cardinality(Pool!Fetching') = Cardinality(inflight')
        BY <3>2, PoolCounts
      <4> QED
        BY <4>1, <3>2, <3>4, <3>5, <3>6 DEF Pool!PoolStep
  <2> QED
    BY <2>1, <2>2
<1> QED
  BY <1>1, <1>2, QuotaInvariant, PTL DEF QuotaSpec, PoolImplemented, Pool!PoolSpec
=============================================================================
