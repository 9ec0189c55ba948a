------------------------------ MODULE LogProofs ------------------------------
(***************************************************************************)
(* The request log of the dashboard with its streams, the console and the  *)
(* live feed: what they show belongs under its title, for every number of  *)
(* entries, every length of a list and every number of requests.           *)
(***************************************************************************)
EXTENDS ScreenProofs, FunctionTheorems

-----------------------------------------------------------------------------
(* What the server lists for a filter. *)

Has(s, e) == \E i \in DOMAIN s : s[i] = e

LEMMA NewerRange ==
    ASSUME NEW es, es \subseteq Nat, IsFiniteSet(es), NEW e \in es
    PROVE  Newer(es, e) \in 0..(Cardinality(es) - 1) /\ Newer(es, e) \in Nat
<1> DEFINE newer == {d \in es : d > e}
<1>1. newer \subseteq es \ {e}
  OBVIOUS
<1>2. IsFiniteSet(es \ {e}) /\ Cardinality(es \ {e}) = Cardinality(es) - 1
  BY FS_RemoveElement
<1>3. IsFiniteSet(newer) /\ Cardinality(newer) <= Cardinality(es) - 1
  BY <1>1, <1>2, FS_Subset
<1>4. Cardinality(newer) \in Nat /\ Cardinality(es) \in Nat
  BY <1>3, FS_CardinalityType
<1>5. Newer(es, e) = Cardinality(newer)
  BY DEF Newer
<1> HIDE DEF newer
<1> QED BY <1>3, <1>4, <1>5

LEMMA NewerFalls ==
    ASSUME NEW es, es \subseteq Nat, IsFiniteSet(es), NEW d \in es, NEW e \in es, d < e
    PROVE  Newer(es, e) < Newer(es, d)
<1> DEFINE D == {x \in es : x > d}
           E == {x \in es : x > e}
<1>1. E \in SUBSET D /\ D \in SUBSET es /\ e \in D /\ e \notin E
  <2>1. d \in Nat /\ e \in Nat
    OBVIOUS
  <2>2. \A x \in es : x > e => x > d
    <3> SUFFICES ASSUME NEW x \in es, x > e PROVE x > d
      OBVIOUS
    <3>1. x \in Nat
      OBVIOUS
    <3> QED BY <2>1, <3>1
  <2>3. e > d /\ ~(e > e)
    BY <2>1
  <2> QED BY <2>2, <2>3
<1>2. IsFiniteSet(D) /\ IsFiniteSet(E)
  BY <1>1, FS_Subset
<1>3. Cardinality(E) <= Cardinality(D) /\ (Cardinality(D) = Cardinality(E) => D = E)
  BY <1>1, <1>2, FS_Subset
<1>4. Cardinality(D) \in Nat /\ Cardinality(E) \in Nat
  BY <1>2, FS_CardinalityType
<1>5. Newer(es, e) = Cardinality(E) /\ Newer(es, d) = Cardinality(D)
  BY DEF Newer
<1> HIDE DEF D, E
<1> QED BY <1>1, <1>3, <1>4, <1>5

LEMMA PlacesAreTaken ==
    ASSUME NEW es, es \subseteq Nat, IsFiniteSet(es)
    PROVE  \A k \in 0..(Cardinality(es) - 1) : \E e \in es : Newer(es, e) = k
<1> DEFINE Places == 0..(Cardinality(es) - 1)
           newer == [e \in es |-> Newer(es, e)]
<1>1. \A d, e \in es : d # e => Newer(es, d) # Newer(es, e)
  <2> SUFFICES ASSUME NEW d \in es, NEW e \in es, d # e, Newer(es, d) = Newer(es, e) PROVE FALSE
    OBVIOUS
  <2>1. Newer(es, d) \in Nat /\ Newer(es, e) \in Nat /\ d \in Nat /\ e \in Nat
    BY NewerRange
  <2>2. d < e => Newer(es, e) < Newer(es, d)
    BY NewerFalls
  <2>3. e < d => Newer(es, d) < Newer(es, e)
    BY NewerFalls
  <2> QED BY <2>1, <2>2, <2>3
<1>2. newer \in [es -> Places]
  BY NewerRange
<1>3. newer \in Injection(es, Places)
  BY <1>1, <1>2, Fun_IsInj
<1>4. IsFiniteSet(Places) /\ Cardinality(Places) = Cardinality(es)
  <2>1. Cardinality(es) \in Nat
    BY FS_CardinalityType
  <2>2. \A n \in Nat : IsFiniteSet(0..(n - 1)) /\ Cardinality(0..(n - 1)) = n
    <3> SUFFICES ASSUME NEW n \in Nat PROVE IsFiniteSet(0..(n - 1)) /\ Cardinality(0..(n - 1)) = n
      OBVIOUS
    <3>1. n - 1 \in Int /\ 0 \in Int
      OBVIOUS
    <3> QED BY <3>1, FS_Interval
  <2> QED BY <2>1, <2>2
<1>5. newer \in Surjection(es, Places)
  BY <1>3, <1>4, FS_Injection
<1>6. \A k \in Places : \E e \in es : newer[e] = k
  <2> HIDE DEF Places, newer
  <2> QED BY <1>5, Fun_SurjectionProperties
<1> QED BY <1>6

LEMMA FoundIs ==
    ASSUME NEW f, NEW last \in Nat
    PROVE  Found(f, last) \subseteq 1..last /\ Found(f, last) \subseteq Nat /\ IsFiniteSet(Found(f, last))
<1>1. Found(f, last) \in SUBSET (1..last)
  BY DEF Found
<1>2. IsFiniteSet(1..last)
  BY FS_Interval
<1> QED BY <1>1, <1>2, FS_Subset

\* A list holds the newest entries that the filter admits, the newest first.
LEMMA ListedIs ==
    ASSUME NEW f, NEW last \in Nat, NEW s, s = ListedLogs(f, last)
    PROVE  /\ s \in Seq(1..last) /\ Len(s) <= ListLimit /\ NewestFirst(s)
           /\ \A i \in DOMAIN s : Admits(f, s[i])
           /\ \A e \in Found(f, last) : Newer(Found(f, last), e) < ListLimit => Has(s, e)
<1> DEFINE found == Found(f, last)
           size == IF Cardinality(found) < ListLimit THEN Cardinality(found) ELSE ListLimit
<1>1. found \subseteq 1..last /\ found \subseteq Nat /\ IsFiniteSet(found)
  BY FoundIs
<1>2. Cardinality(found) \in Nat /\ size \in Nat /\ size <= ListLimit /\ size <= Cardinality(found)
  BY <1>1, FS_CardinalityType, LimitsAssumption
<1>3. s = [i \in 1..size |-> CHOOSE e \in found : Newer(found, e) = i - 1]
  BY DEF ListedLogs
<1>4. \A e \in found : Admits(f, e)
  BY DEF Found
<1>5. \A e \in found : Newer(found, e) < ListLimit => Newer(found, e) + 1 \in 1..size
  <2> SUFFICES ASSUME NEW e \in found, Newer(found, e) < ListLimit PROVE Newer(found, e) + 1 \in 1..size
    OBVIOUS
  <2>1. Newer(found, e) \in 0..(Cardinality(found) - 1)
    BY <1>1, NewerRange
  <2> QED BY <1>2, <2>1, LimitsAssumption
<1>6. \A k \in 0..(Cardinality(found) - 1) : \E e \in found : Newer(found, e) = k
  BY <1>1, PlacesAreTaken
<1> HIDE DEF found, size
<1>7. DOMAIN s = 1..size
  BY <1>3
<1>8. \A i \in 1..size : s[i] \in found /\ Newer(found, s[i]) = i - 1
  <2> SUFFICES ASSUME NEW i \in 1..size PROVE s[i] \in found /\ Newer(found, s[i]) = i - 1
    OBVIOUS
  <2>1. \E e \in found : Newer(found, e) = i - 1
    BY <1>2, <1>6
  <2>2. s[i] = CHOOSE e \in found : Newer(found, e) = i - 1
    BY <1>3
  <2> QED BY <2>1, <2>2
<1>9. s \in [1..size -> 1..last]
  BY <1>1, <1>3, <1>8
<1>10. s \in Seq(1..last) /\ Len(s) = size
  BY <1>2, <1>9
<1>11. NewestFirst(s)
  <2> SUFFICES ASSUME NEW i \in 1..size, NEW j \in 1..size, i < j PROVE s[i] > s[j]
    BY <1>7 DEF NewestFirst
  <2>1. s[i] \in found /\ s[j] \in found /\ Newer(found, s[i]) = i - 1 /\ Newer(found, s[j]) = j - 1
    BY <1>8
  <2>2. s[i] \in Nat /\ s[j] \in Nat
    BY <1>1, <2>1
  <2>3. ~(s[i] < s[j])
    <3>1. s[i] < s[j] => Newer(found, s[j]) < Newer(found, s[i])
      BY <1>1, <2>1, NewerFalls
    <3> QED BY <2>1, <3>1
  <2>4. s[i] # s[j]
    BY <2>1
  <2> QED BY <2>2, <2>3, <2>4
<1>12. ASSUME NEW e \in found, Newer(found, e) < ListLimit PROVE Has(s, e)
  <2> DEFINE i == Newer(found, e) + 1
  <2>1. i \in 1..size
    BY <1>5, <1>12
  <2>2. s[i] \in found /\ Newer(found, s[i]) = Newer(found, e)
    <3>1. Newer(found, e) \in Nat
      BY <1>1, NewerRange
    <3> QED BY <1>8, <2>1, <3>1
  <2>3. s[i] = e
    <3>1. s[i] \in Nat /\ e \in Nat /\ Newer(found, e) \in Nat
      <4> HIDE DEF i
      <4> QED BY <1>1, <2>2, NewerRange
    <3>2. ~(s[i] < e) /\ ~(e < s[i])
      <4> HIDE DEF i
      <4>1. s[i] < e => Newer(found, e) < Newer(found, s[i])
        BY <1>1, <2>2, NewerFalls
      <4>2. e < s[i] => Newer(found, s[i]) < Newer(found, e)
        BY <1>1, <2>2, NewerFalls
      <4> QED BY <2>2, <3>1, <4>1, <4>2
    <3> QED BY <3>1, <3>2
  <2> QED BY <1>7, <2>1, <2>3 DEF Has
<1> QED BY <1>2, <1>4, <1>7, <1>8, <1>10, <1>11, <1>12 DEF found

-----------------------------------------------------------------------------
(* A stream of entries: what was written since it subscribed and is not read. *)

Rising(s) == \A i, j \in DOMAIN s : i < j => s[i] < s[j]
Unread(f, chan, lo, d) ==
    /\ lo \in 0..d /\ Rising(chan)
    /\ \A i \in DOMAIN chan : chan[i] \in 1..d /\ chan[i] > lo /\ InSelection(f, chan[i])
    /\ \A e \in 1..d : e > lo /\ InSelection(f, e) => Has(chan, e)

LEMMA SeqFacts ==
    ASSUME NEW S, NEW s \in Seq(S)
    PROVE  Len(s) \in Nat /\ DOMAIN s = 1..Len(s) /\ \A i \in 1..Len(s) : s[i] \in S
BY LenProperties, ElementOfSeq

LEMMA NoneUnread ==
    ASSUME NEW f, NEW d \in Nat
    PROVE  Unread(f, << >>, d, d)
<1>1. DOMAIN << >> = {}
  OBVIOUS
<1>2. \A e \in 1..d : ~(e > d)
  OBVIOUS
<1> QED BY <1>1, <1>2 DEF Unread, Rising

LEMMA UnreadWritten ==
    ASSUME NEW f, NEW chan \in Seq(Nat), NEW lo, NEW d \in Nat, Unread(f, chan, lo, d)
    PROVE  /\ InSelection(f, d + 1) => Unread(f, Append(chan, d + 1), lo, d + 1)
           /\ ~InSelection(f, d + 1) => Unread(f, chan, lo, d + 1)
<1>1. Len(chan) \in Nat /\ DOMAIN chan = 1..Len(chan) /\ \A i \in 1..Len(chan) : chan[i] \in Nat
  BY SeqFacts
<1>2. lo \in 0..(d + 1) /\ \A e \in 1..(d + 1) : e \in 1..d \/ e = d + 1
  BY DEF Unread
<1>3. ASSUME ~InSelection(f, d + 1) PROVE Unread(f, chan, lo, d + 1)
  <2>1. \A i \in DOMAIN chan : chan[i] \in 1..(d + 1)
    BY DEF Unread
  <2> QED BY <1>2, <1>3, <2>1 DEF Unread
<1>4. ASSUME InSelection(f, d + 1) PROVE Unread(f, Append(chan, d + 1), lo, d + 1)
  <2> DEFINE c == Append(chan, d + 1)
  <2>1. DOMAIN c = 1..(Len(chan) + 1) /\ c[Len(chan) + 1] = d + 1 /\ \A i \in 1..Len(chan) : c[i] = chan[i]
    BY <1>1, AppendProperties
  <2> HIDE DEF c
  <2>2. \A i \in DOMAIN c : i \in 1..Len(chan) \/ i = Len(chan) + 1
    BY <1>1, <2>1
  <2>3. \A i \in DOMAIN c : c[i] \in 1..(d + 1) /\ c[i] > lo /\ InSelection(f, c[i])
    <3> SUFFICES ASSUME NEW i \in DOMAIN c PROVE c[i] \in 1..(d + 1) /\ c[i] > lo /\ InSelection(f, c[i])
      OBVIOUS
    <3>1. CASE i \in 1..Len(chan)
      <4>1. c[i] = chan[i] /\ chan[i] \in 1..d /\ chan[i] > lo /\ InSelection(f, chan[i])
        BY <1>1, <2>1, <3>1 DEF Unread
      <4> QED BY <4>1
    <3>2. CASE i = Len(chan) + 1
      <4>1. c[i] = d + 1 /\ lo \in 0..d
        BY <2>1, <3>2 DEF Unread
      <4> QED BY <1>4, <4>1
    <3> QED BY <2>2, <3>1, <3>2
  <2>4. Rising(c)
    <3> SUFFICES ASSUME NEW i \in DOMAIN c, NEW j \in DOMAIN c, i < j PROVE c[i] < c[j]
      BY DEF Rising
    <3>1. i \in 1..Len(chan)
      BY <1>1, <2>1, <2>2
    <3>2. c[i] = chan[i] /\ chan[i] \in 1..d
      BY <1>1, <2>1, <3>1 DEF Unread
    <3>3. CASE j \in 1..Len(chan)
      BY <1>1, <2>1, <3>1, <3>3 DEF Unread, Rising
    <3>4. CASE j = Len(chan) + 1
      BY <2>1, <3>2, <3>4
    <3> QED BY <2>2, <3>3, <3>4
  <2>5. \A e \in 1..(d + 1) : e > lo /\ InSelection(f, e) => Has(c, e)
    <3> SUFFICES ASSUME NEW e \in 1..(d + 1), e > lo, InSelection(f, e) PROVE \E i \in DOMAIN c : c[i] = e
      BY DEF Has
    <3>1. CASE e = d + 1
      BY <1>1, <2>1, <3>1
    <3>2. CASE e \in 1..d
      <4>1. PICK i \in DOMAIN chan : chan[i] = e
        BY <3>2 DEF Unread, Has
      <4> QED BY <1>1, <2>1, <4>1
    <3> QED BY <1>2, <3>1, <3>2
  <2> QED BY <1>2, <2>3, <2>4, <2>5 DEF Unread, c
<1> QED BY <1>3, <1>4

LEMMA UnreadRead ==
    ASSUME NEW f, NEW chan \in Seq(Nat), NEW lo, NEW d \in Nat, Unread(f, chan, lo, d), chan # << >>
    PROVE  /\ Head(chan) \in 1..d /\ Head(chan) = chan[1] /\ InSelection(f, Head(chan))
           /\ Tail(chan) \in Seq(Nat) /\ Len(Tail(chan)) <= Len(chan)
           /\ \A i \in DOMAIN Tail(chan) : i + 1 \in DOMAIN chan /\ Tail(chan)[i] = chan[i + 1] /\ Tail(chan)[i] > Head(chan)
           /\ Unread(f, Tail(chan), Head(chan), d)
<1> DEFINE e == Head(chan)
           c == Tail(chan)
<1>1. Len(chan) \in Nat /\ DOMAIN chan = 1..Len(chan) /\ \A i \in 1..Len(chan) : chan[i] \in Nat
  BY SeqFacts
<1>2. Len(chan) # 0
  BY EmptySeq
<1>3. e = chan[1] /\ c \in Seq(Nat) /\ Len(c) = Len(chan) - 1 /\ \A i \in 1..Len(c) : c[i] = chan[i + 1]
  BY HeadTailProperties
<1>4. DOMAIN c = 1..Len(c)
  BY <1>3, SeqFacts
<1> HIDE DEF e, c
<1>5. 1 \in DOMAIN chan /\ \A i \in DOMAIN c : i + 1 \in DOMAIN chan
  BY <1>1, <1>2, <1>3, <1>4
<1>6. e \in 1..d /\ e > lo /\ InSelection(f, e)
  BY <1>3, <1>5 DEF Unread
<1>7. \A i \in DOMAIN c : c[i] = chan[i + 1] /\ c[i] \in 1..d /\ c[i] > e /\ InSelection(f, c[i])
  <2> SUFFICES ASSUME NEW i \in DOMAIN c PROVE c[i] = chan[i + 1] /\ c[i] \in 1..d /\ c[i] > e /\ InSelection(f, c[i])
    OBVIOUS
  <2>1. c[i] = chan[i + 1] /\ i + 1 \in DOMAIN chan /\ 1 < i + 1
    BY <1>3, <1>4, <1>5
  <2>2. chan[1] < chan[i + 1] /\ chan[i + 1] \in 1..d /\ InSelection(f, chan[i + 1])
    BY <1>5, <2>1 DEF Unread, Rising
  <2> QED BY <1>3, <1>6, <2>1, <2>2
<1>8. Rising(c)
  <2> SUFFICES ASSUME NEW i \in DOMAIN c, NEW j \in DOMAIN c, i < j PROVE c[i] < c[j]
    BY DEF Rising
  <2>1. i + 1 < j + 1
    BY <1>3, <1>4
  <2> QED BY <1>5, <1>7, <2>1 DEF Unread, Rising
<1>9. ASSUME NEW x \in 1..d, x > e, InSelection(f, x) PROVE Has(c, x)
  <2>1. x > lo
    BY <1>6, <1>9 DEF Unread
  <2>2. PICK k \in DOMAIN chan : chan[k] = x
    BY <1>9, <2>1 DEF Unread, Has
  <2>3. k # 1
    BY <1>3, <1>6, <1>9, <2>2
  <2>4. k - 1 \in DOMAIN c
    BY <1>1, <1>3, <1>4, <2>2, <2>3
  <2>5. c[k - 1] = chan[(k - 1) + 1] /\ (k - 1) + 1 = k
    BY <1>1, <1>7, <2>4
  <2> QED BY <2>2, <2>4, <2>5 DEF Has
<1>10. Unread(f, c, e, d)
  <2>1. e \in 0..d
    BY <1>6
  <2> QED BY <1>7, <1>8, <1>9, <2>1 DEF Unread
<1>11. Len(c) <= Len(chan)
  BY <1>1, <1>3
<1> QED BY <1>3, <1>5, <1>6, <1>7, <1>10, <1>11 DEF e, c

\* What the reader of a stream has not read is on a list that is as long as the
\* stream, or is newer than all of it.
Behind(chan, lines) == \A i \in DOMAIN chan : Has(lines, chan[i]) \/ \A j \in DOMAIN lines : lines[j] < chan[i]

NoText(f) == f.q = ""

LEMMA AdmitsSelected == ASSUME NEW f, NoText(f), NEW e, InSelection(f, e) PROVE Admits(f, e)
BY Zenon DEF NoText, Admits

LEMMA SelectsAdmitted == ASSUME NEW f, NEW e, Admits(f, e) PROVE InSelection(f, e)
BY Zenon DEF Admits

LEMMA Upto == ASSUME NEW n \in Nat PROVE IsFiniteSet(1..n) /\ Cardinality(1..n) = n
<1>1. 1 \in Int /\ n \in Int
  OBVIOUS
<1> QED BY <1>1, FS_Interval

LEMMA NewestAreListed ==
    ASSUME NEW f, NoText(f), NEW d \in Nat, NEW t \in 0..d, NEW lo \in 0..d,
           NEW all, IsFiniteSet(all), Cardinality(all) <= ListLimit,
           \A x \in 1..d : x > lo /\ InSelection(f, x) => x \in all,
           NEW e \in all, e \in 1..d, e > lo, InSelection(f, e)
    PROVE  Has(ListedLogs(f, t), e) \/ \A j \in DOMAIN ListedLogs(f, t) : ListedLogs(f, t)[j] < e
<1> DEFINE s == ListedLogs(f, t)
           found == Found(f, t)
           newer == {x \in found : x > e}
<1>1. t \in Nat /\ lo \in Nat /\ e \in Nat
  OBVIOUS
<1>2. s \in Seq(1..t) /\ \A x \in found : Newer(found, x) < ListLimit => Has(s, x)
  BY <1>1, ListedIs
<1>3. CASE e > t
  <2> HIDE DEF s
  <2>1. ASSUME NEW j \in DOMAIN s PROVE s[j] < e
    <3>1. s[j] \in 1..t
      BY <1>2, SeqFacts
    <3>2. \A x \in 1..t : x < e
      BY <1>1, <1>3
    <3> QED BY <3>1, <3>2
  <2> QED BY <2>1 DEF s
<1>4. CASE ~(e > t)
  <2>1. e \in found
    <3>1. e \in 1..t
      BY <1>1, <1>4
    <3> QED BY <3>1, AdmitsSelected DEF Found
  <2>2. newer \in SUBSET (all \ {e})
    <3> SUFFICES ASSUME NEW x \in found, x > e PROVE x \in all /\ x # e
      OBVIOUS
    <3>1. x \in 1..t /\ InSelection(f, x)
      BY SelectsAdmitted DEF Found
    <3>2. x \in 1..d /\ x > lo /\ x # e
      BY <1>1, <3>1
    <3> QED BY <3>1, <3>2
  <2>3. Newer(found, e) = Cardinality(newer)
    BY DEF Newer
  <2> HIDE DEF newer, found, s
  <2>4. IsFiniteSet(all \ {e}) /\ Cardinality(all \ {e}) = Cardinality(all) - 1
    BY FS_RemoveElement
  <2>5. IsFiniteSet(newer) /\ Cardinality(newer) <= Cardinality(all \ {e})
    BY <2>2, <2>4, FS_Subset
  <2>6. Cardinality(newer) \in Nat /\ Cardinality(all) \in Nat
    BY <2>5, FS_CardinalityType
  <2>7. Newer(found, e) < ListLimit
    BY <2>3, <2>4, <2>5, <2>6, LimitsAssumption
  <2> QED BY <1>2, <2>1, <2>7 DEF s
<1> QED BY <1>3, <1>4

LEMMA UnreadIsListed ==
    ASSUME NEW f, NoText(f), NEW chan \in Seq(Nat), NEW lo, NEW d \in Nat, Unread(f, chan, lo, d),
           Len(chan) <= ListLimit, NEW t \in 0..d
    PROVE  Behind(chan, ListedLogs(f, t))
<1> DEFINE all == {chan[k] : k \in DOMAIN chan}
           g == [k \in 1..Len(chan) |-> chan[k]]
<1>1. Len(chan) \in Nat /\ DOMAIN chan = 1..Len(chan)
  BY SeqFacts
<1>2. g \in Surjection(1..Len(chan), all)
  BY <1>1 DEF Surjection
<1>3. IsFiniteSet(1..Len(chan)) /\ Cardinality(1..Len(chan)) = Len(chan)
  BY <1>1, Upto
<1>4. lo \in 0..d /\ \A x \in 1..d : x > lo /\ InSelection(f, x) => x \in all
  BY DEF Unread, Has
<1>5. \A i \in DOMAIN chan : chan[i] \in all /\ chan[i] \in 1..d /\ chan[i] > lo /\ InSelection(f, chan[i])
  BY DEF Unread
<1> HIDE DEF g, all
<1>6. IsFiniteSet(all) /\ Cardinality(all) <= Len(chan)
  BY <1>2, <1>3, FS_Surjection
<1>7. Cardinality(all) <= ListLimit
  <2>1. Cardinality(all) \in Nat
    BY <1>6, FS_CardinalityType
  <2> QED BY <1>1, <1>6, <2>1, LimitsAssumption
<1> HIDE DEF Has
<1>8. \A e \in all : e \in 1..d /\ e > lo /\ InSelection(f, e) =>
        Has(ListedLogs(f, t), e) \/ \A j \in DOMAIN ListedLogs(f, t) : ListedLogs(f, t)[j] < e
  BY <1>4, <1>6, <1>7, NewestAreListed
<1> QED BY <1>5, <1>8 DEF Behind

-----------------------------------------------------------------------------
(* The rows of the table. *)

Table(lines, f, d) ==
    /\ lines \in Seq(Nat) /\ Len(lines) <= MaxShown
    /\ \A i \in DOMAIN lines : lines[i] \in 1..d /\ InSelection(f, lines[i])
    /\ IsInjective(lines)
    /\ NoText(f) => NewestFirst(lines)

LEMMA NewestIsInjective ==
    ASSUME NEW s \in Seq(Nat), NewestFirst(s)
    PROVE  IsInjective(s)
<1>1. DOMAIN s = 1..Len(s) /\ Len(s) \in Nat /\ \A i \in 1..Len(s) : s[i] \in Nat
  BY SeqFacts
<1>2. ASSUME NEW i \in DOMAIN s, NEW j \in DOMAIN s, s[i] = s[j] PROVE i = j
  <2>1. i \in Nat /\ j \in Nat /\ s[i] \in Nat /\ s[j] \in Nat
    BY <1>1
  <2>2. i < j => s[i] > s[j]
    BY DEF NewestFirst
  <2>3. j < i => s[j] > s[i]
    BY DEF NewestFirst
  <2> QED BY <1>2, <2>1, <2>2, <2>3
<1> QED BY <1>2 DEF IsInjective

LEMMA ListedIsTable ==
    ASSUME NEW f, NEW d \in Nat, NEW t \in 0..d
    PROVE  Table(ListedLogs(f, t), f, d)
<1> DEFINE s == ListedLogs(f, t)
<1>1. t \in Nat
  OBVIOUS
<1>2. s \in Seq(1..t) /\ Len(s) <= ListLimit /\ NewestFirst(s) /\ \A i \in DOMAIN s : Admits(f, s[i])
  BY <1>1, ListedIs
<1> HIDE DEF s
<1>3. Len(s) \in Nat /\ DOMAIN s = 1..Len(s) /\ \A i \in 1..Len(s) : s[i] \in 1..t
  BY <1>2, SeqFacts
<1>4. s \in Seq(Nat)
  <2>1. 1..t \subseteq Nat
    OBVIOUS
  <2> QED BY <1>2, <2>1, SeqMonotonic
<1>5. \A i \in DOMAIN s : s[i] \in 1..d /\ InSelection(f, s[i])
  <2>1. \A x \in 1..t : x \in 1..d
    BY <1>1
  <2> QED BY <1>2, <1>3, <2>1, SelectsAdmitted
<1>6. IsInjective(s)
  BY <1>2, <1>4, NewestIsInjective
<1>7. Len(s) <= MaxShown
  BY <1>2, <1>3, LimitsAssumption
<1> QED BY <1>2, <1>4, <1>5, <1>6, <1>7 DEF Table, s

LEMMA TableLater ==
    ASSUME NEW lines, NEW f, NEW d \in Nat, Table(lines, f, d)
    PROVE  Table(lines, f, d + 1)
<1>1. \A x \in 1..d : x \in 1..(d + 1)
  OBVIOUS
<1> QED BY <1>1 DEF Table

\* An entry that is newer than the rows, or is not among those of a search, joins them.
Joined(e, lines) ==
    SubSeq(<<e>> \o lines, 1, IF Len(lines) < MaxShown THEN Len(lines) + 1 ELSE MaxShown)

LEMMA JoinedIs ==
    ASSUME NEW lines \in Seq(Nat), Len(lines) <= MaxShown, NEW e \in Nat
    PROVE  LET s == Joined(e, lines) IN
           /\ s \in Seq(Nat) /\ Len(s) \in Nat /\ Len(s) <= MaxShown /\ Len(s) >= Len(lines) /\ Len(s) >= 1
           /\ DOMAIN s = 1..Len(s) /\ s[1] = e
           /\ \A i \in DOMAIN s : i # 1 => i - 1 \in DOMAIN lines /\ s[i] = lines[i - 1]
<1> DEFINE whole == <<e>> \o lines
           k == IF Len(lines) < MaxShown THEN Len(lines) + 1 ELSE MaxShown
           s == SubSeq(whole, 1, k)
<1>1. Len(lines) \in Nat /\ DOMAIN lines = 1..Len(lines)
  BY SeqFacts
<1>2. <<e>> \in Seq(Nat) /\ Len(<<e>>) = 1 /\ <<e>>[1] = e
  OBVIOUS
<1>3. /\ whole \in Seq(Nat) /\ Len(whole) = 1 + Len(lines)
      /\ \A i \in 1..(1 + Len(lines)) : whole[i] = IF i <= 1 THEN <<e>>[i] ELSE lines[i - 1]
  BY <1>2, ConcatProperties
<1>4. whole[1] = e /\ \A i \in 1..(1 + Len(lines)) : i # 1 => whole[i] = lines[i - 1]
  BY <1>1, <1>2, <1>3
<1>5. k \in Nat /\ k >= 1 /\ k <= MaxShown /\ k <= Len(lines) + 1 /\ k >= Len(lines)
  BY <1>1, LimitsAssumption
<1>6. Joined(e, lines) = s
  BY DEF Joined
<1> HIDE DEF whole, k
<1>7. \A i \in 1..k : whole[i] \in Nat
  BY <1>1, <1>3, <1>5, SeqFacts
<1>8. s \in Seq(Nat) /\ Len(s) = k /\ \A i \in 1..k : s[i] = whole[i]
  <2>1. k \in Int /\ 1 \in Int /\ k - 1 + 1 = k /\ 1 <= k
    BY <1>5
  <2>2. /\ s \in Seq(Nat) /\ Len(s) = IF 1 <= k THEN k - 1 + 1 ELSE 0
        /\ \A i \in 1..(k - 1 + 1) : s[i] = whole[1 + i - 1]
    BY <1>7, <2>1, SubSeqProperties
  <2>3. \A i \in 1..k : 1 + i - 1 = i
    BY <1>5
  <2> QED BY <2>1, <2>2, <2>3
<1> HIDE DEF s
<1>9. DOMAIN s = 1..k
  BY <1>8, SeqFacts
<1>10. ASSUME NEW i \in 1..k, i # 1 PROVE i - 1 \in DOMAIN lines /\ s[i] = lines[i - 1]
  <2>1. i \in 1..(1 + Len(lines)) /\ i - 1 \in 1..Len(lines)
    BY <1>1, <1>5, <1>10
  <2> QED BY <1>1, <1>4, <1>8, <1>10, <2>1
<1> QED BY <1>4, <1>5, <1>6, <1>8, <1>9, <1>10

LEMMA TableJoined ==
    ASSUME NEW lines, NEW f, NEW d \in Nat, Table(lines, f, d), NEW e \in 1..d, InSelection(f, e),
           ~Contains(lines, e), NoText(f) => \A j \in DOMAIN lines : lines[j] < e
    PROVE  Table(Joined(e, lines), f, d)
<1> DEFINE s == Joined(e, lines)
<1>1. lines \in Seq(Nat) /\ Len(lines) <= MaxShown /\ e \in Nat
  BY DEF Table
<1>2. /\ s \in Seq(Nat) /\ Len(s) \in Nat /\ Len(s) <= MaxShown /\ Len(s) >= 1 /\ DOMAIN s = 1..Len(s) /\ s[1] = e
      /\ \A i \in DOMAIN s : i # 1 => i - 1 \in DOMAIN lines /\ s[i] = lines[i - 1]
  BY <1>1, JoinedIs
<1> HIDE DEF s
<1>3. DOMAIN lines = 1..Len(lines) /\ \A i \in DOMAIN lines : lines[i] # e
  BY <1>1, SeqFacts DEF Contains
<1>4. \A i \in DOMAIN s : s[i] \in 1..d /\ InSelection(f, s[i])
  BY <1>2 DEF Table
<1>5. IsInjective(s)
  <2> SUFFICES ASSUME NEW i \in DOMAIN s, NEW j \in DOMAIN s, s[i] = s[j] PROVE i = j
    BY DEF IsInjective
  <2>1. CASE i = 1 \/ j = 1
    BY <1>2, <1>3, <2>1
  <2>2. CASE i # 1 /\ j # 1
    <3>1. i - 1 = j - 1
      BY <1>2, <2>2 DEF Table, IsInjective
    <3> QED BY <1>2, <3>1
  <2> QED BY <2>1, <2>2
<1>6. ASSUME NoText(f) PROVE NewestFirst(s)
  <2> SUFFICES ASSUME NEW i \in DOMAIN s, NEW j \in DOMAIN s, i < j PROVE s[i] > s[j]
    BY DEF NewestFirst
  <2>1. j # 1 /\ i \in Nat /\ j \in Nat
    BY <1>2
  <2>2. j - 1 \in DOMAIN lines /\ s[j] = lines[j - 1]
    BY <1>2, <2>1
  <2>3. CASE i = 1
    <3>1. lines[j - 1] < e /\ s[i] = e
      BY <1>2, <1>6, <2>2, <2>3
    <3>2. lines[j - 1] \in Nat
      BY <1>1, <1>3, <2>2, SeqFacts
    <3> QED BY <1>1, <2>2, <3>1, <3>2
  <2>4. CASE i # 1
    <3>1. i - 1 \in DOMAIN lines /\ s[i] = lines[i - 1] /\ i - 1 < j - 1
      BY <1>2, <2>1, <2>4
    <3> QED BY <1>6, <2>2, <3>1 DEF Table, NewestFirst
  <2> QED BY <2>3, <2>4
<1> QED BY <1>2, <1>4, <1>5, <1>6 DEF Table, s

\* What is unread stays behind the rows when the next entry is read.
LEMMA BehindRead ==
    ASSUME NEW chan \in Seq(Nat), NEW f, NEW lo, NEW d \in Nat, Unread(f, chan, lo, d), chan # << >>,
           NEW lines \in Seq(Nat), Behind(chan, lines)
    PROVE  /\ Contains(lines, Head(chan)) => Behind(Tail(chan), lines)
           /\ ~Contains(lines, Head(chan)) => \A j \in DOMAIN lines : lines[j] < Head(chan)
           /\ ~Contains(lines, Head(chan)) /\ Len(lines) <= MaxShown => Behind(Tail(chan), Joined(Head(chan), lines))
<1> DEFINE e == Head(chan)
           c == Tail(chan)
<1>1. e \in 1..d /\ e = chan[1] /\ 1 \in DOMAIN chan
      /\ \A i \in DOMAIN c : i + 1 \in DOMAIN chan /\ c[i] = chan[i + 1] /\ c[i] > e
  <2>1. Len(chan) \in Nat /\ Len(chan) # 0 /\ DOMAIN chan = 1..Len(chan)
    BY SeqFacts, EmptySeq
  <2>2. 1 \in DOMAIN chan
    BY <2>1
  <2>3. e \in 1..d /\ e = chan[1]
    BY UnreadRead
  <2>4. \A i \in DOMAIN c : i + 1 \in DOMAIN chan /\ c[i] = chan[i + 1] /\ c[i] > e
    BY UnreadRead
  <2> QED BY <2>2, <2>3, <2>4
<1> HIDE DEF e, c
<1>2. Len(lines) \in Nat /\ DOMAIN lines = 1..Len(lines) /\ \A i \in DOMAIN lines : lines[i] \in Nat
  BY SeqFacts
<1>3. Contains(lines, e) <=> Has(lines, e)
  BY <1>2 DEF Contains, Has
<1>4. Behind(c, lines)
  BY <1>1 DEF Behind
<1>5. ~Has(lines, e) => \A j \in DOMAIN lines : lines[j] < e
  BY <1>1 DEF Behind
<1>6. ASSUME ~Has(lines, e), Len(lines) <= MaxShown PROVE Behind(c, Joined(e, lines))
  <2> DEFINE s == Joined(e, lines)
  <2>1. DOMAIN s = 1..Len(s) /\ s[1] = e /\ \A i \in DOMAIN s : i # 1 => i - 1 \in DOMAIN lines /\ s[i] = lines[i - 1]
    BY <1>1, <1>6, JoinedIs
  <2> HIDE DEF s
  <2>2. ASSUME NEW i \in DOMAIN c, NEW j \in DOMAIN s PROVE s[j] < c[i]
    <3>1. c[i] > e /\ c[i] = chan[i + 1] /\ i + 1 \in DOMAIN chan
      BY <1>1
    <3>2. c[i] \in Nat /\ e \in Nat
      BY <1>1, <3>1 DEF Unread
    <3>3. CASE j = 1
      BY <2>1, <3>1, <3>2, <3>3
    <3>4. CASE j # 1
      <4>1. s[j] = lines[j - 1] /\ lines[j - 1] \in Nat /\ lines[j - 1] < e
        BY <1>2, <1>5, <1>6, <2>1, <3>4
      <4> QED BY <3>1, <3>2, <4>1
    <3> QED BY <3>3, <3>4
  <2> QED BY <2>2 DEF Behind, s
<1> QED BY <1>3, <1>4, <1>5, <1>6 DEF e, c

LEMMA BehindWritten ==
    ASSUME NEW chan \in Seq(Nat), NEW lines, NEW f, NEW d \in Nat, Table(lines, f, d), Behind(chan, lines)
    PROVE  Behind(Append(chan, d + 1), lines)
<1> DEFINE c == Append(chan, d + 1)
<1>1. Len(chan) \in Nat /\ DOMAIN chan = 1..Len(chan)
  BY SeqFacts
<1>2. DOMAIN c = 1..(Len(chan) + 1) /\ c[Len(chan) + 1] = d + 1 /\ \A i \in 1..Len(chan) : c[i] = chan[i]
  BY <1>1, AppendProperties
<1> HIDE DEF c
<1>3. \A i \in DOMAIN c : i \in 1..Len(chan) \/ i = Len(chan) + 1
  BY <1>1, <1>2
<1>4. \A j \in DOMAIN lines : lines[j] < d + 1
  <2>1. \A x \in 1..d : x < d + 1
    OBVIOUS
  <2> QED BY <2>1 DEF Table
<1>5. ASSUME NEW i \in DOMAIN c PROVE Has(lines, c[i]) \/ \A j \in DOMAIN lines : lines[j] < c[i]
  <2>1. CASE i \in 1..Len(chan)
    BY <1>1, <1>2, <2>1 DEF Behind
  <2>2. CASE i = Len(chan) + 1
    BY <1>2, <1>4, <2>2
  <2> QED BY <1>3, <2>1, <2>2
<1> QED BY <1>5 DEF Behind, c

-----------------------------------------------------------------------------
(* Streams and what the server does to them. *)

Streams == [of : Filters, at : {"asked", "subscribed", "listed", "open"}, list : Seq(Nat), chan : Seq(Nat)]
StreamOk(s, d) ==
    /\ s \in Streams /\ Len(s.chan) <= ListLimit
    /\ s.at = "asked" => s.chan = << >>
    /\ s.at # "asked" => \E lo : Unread(s.of, s.chan, lo, d)
    /\ s.at = "listed" => \E t \in 0..d : s.list = ListedLogs(s.of, t)

LEMMA Connected ==
    ASSUME NEW f \in Filters, NEW d
    PROVE  StreamOk(ConnectSSE(f), d) /\ ConnectSSE(f).of = f /\ ConnectSSE(f).at = "asked"
<1>1. << >> \in Seq(Nat) /\ Len(<< >>) = 0
  BY EmptySeq
<1>2. Len(<< >>) <= ListLimit
  BY <1>1, LimitsAssumption
<1> QED BY <1>1, <1>2 DEF ConnectSSE, StreamOk, Streams

\* What a step of the server makes of a stream s.
StreamMoves(s, e, d, later) ==
    /\ StreamOk(e, later) /\ e.of = s.of
    /\ e.at = "open" => /\ s.at = "open"
                        /\ \/ e.chan = s.chan
                           \/ later = d + 1 /\ e.chan = Append(s.chan, d + 1)
    /\ e.at = "listed" => \/ s.at = "listed" /\ e.list = s.list
                          \/ later = d /\ e.list = ListedLogs(s.of, d)

LEMMA StreamWritten ==
    ASSUME NEW s, NEW d \in Nat, StreamOk(s, d), Len(s.chan) < ListLimit
    PROVE  /\ s.at = "asked" \/ ~InSelection(s.of, d + 1) => StreamMoves(s, s, d, d + 1)
           /\ \A e : s.at # "asked" /\ InSelection(s.of, d + 1) /\ e = [s EXCEPT !.chan = Append(@, d + 1)]
                        => StreamMoves(s, e, d, d + 1)
<1>1. s \in Streams /\ s.chan \in Seq(Nat) /\ d + 1 \in Nat
  BY DEF StreamOk, Streams
<1>2. s.at = "listed" => \E t \in 0..(d + 1) : s.list = ListedLogs(s.of, t)
  <2>1. \A t \in 0..d : t \in 0..(d + 1)
    OBVIOUS
  <2> QED BY <2>1 DEF StreamOk
<1>3. ASSUME s.at = "asked" \/ ~InSelection(s.of, d + 1) PROVE StreamMoves(s, s, d, d + 1)
  <2>1. s.at # "asked" => \E lo : Unread(s.of, s.chan, lo, d + 1)
    BY <1>1, <1>3, UnreadWritten DEF StreamOk
  <2> QED BY <1>2, <2>1 DEF StreamOk, StreamMoves
<1>4. ASSUME s.at # "asked", InSelection(s.of, d + 1), NEW e, e = [s EXCEPT !.chan = Append(@, d + 1)]
      PROVE  StreamMoves(s, e, d, d + 1)
  <2> DEFINE c == Append(s.chan, d + 1)
  <2>1. \E lo : Unread(s.of, c, lo, d + 1)
    BY <1>1, <1>4, UnreadWritten DEF StreamOk
  <2>2. c \in Seq(Nat) /\ Len(c) = Len(s.chan) + 1 /\ Len(s.chan) \in Nat
    BY <1>1, AppendProperties, LenProperties
  <2>3. e = [s EXCEPT !.chan = c]
    BY <1>4
  <2> HIDE DEF c
  <2>4. e \in Streams /\ e.of = s.of /\ e.at = s.at /\ e.list = s.list /\ e.chan = c
    BY <1>1, <2>2, <2>3 DEF Streams
  <2>5. Len(c) <= ListLimit
    BY <2>2, LimitsAssumption
  <2>6. StreamOk(e, d + 1)
    BY <1>2, <1>4, <2>1, <2>4, <2>5 DEF StreamOk
  <2> QED BY <2>4, <2>6 DEF StreamMoves, c
<1> QED BY <1>3, <1>4

LEMMA ServerMoves ==
    ASSUME db \in Nat, local.stream # None => StreamOk(local.stream, db), ServerWrites
    PROVE  /\ UNCHANGED <<screen, calls>> /\ db' \in {db, db + 1}
           /\ \E e : /\ \/ local' = local /\ e = local.stream
                        \/ local' = [local EXCEPT !.stream = e] /\ local.stream # None
                     /\ e # None => local.stream # None /\ StreamMoves(local.stream, e, db, db')
<1> DEFINE s == local.stream
<1>1. CASE Written
  <2>1. UNCHANGED <<screen, calls>> /\ db' = db + 1 /\ (s # None => Len(s.chan) < ListLimit)
    BY <1>1 DEF Written
  <2>2. CASE s = None \/ s.at = "asked" \/ ~InSelection(s.of, db + 1)
    <3>1. local' = local
      BY <1>1, <2>2 DEF Written
    <3>2. s # None => StreamMoves(s, s, db, db + 1)
      BY <2>1, <2>2, StreamWritten
    <3> QED BY <2>1, <3>1, <3>2
  <2>3. CASE ~(s = None \/ s.at = "asked" \/ ~InSelection(s.of, db + 1))
    <3> DEFINE e == [s EXCEPT !.chan = Append(@, db + 1)]
    <3>1. local' = [local EXCEPT !.stream = e]
      BY <1>1, <2>3 DEF Written
    <3>2. StreamMoves(s, e, db, db + 1)
      BY <2>1, <2>3, StreamWritten
    <3> HIDE DEF e
    <3> QED BY <2>1, <2>3, <3>1, <3>2
  <2> QED BY <2>2, <2>3
<1>2. CASE StreamSubscribes
  <2> DEFINE e == [s EXCEPT !.at = "subscribed"]
  <2>1. s # None /\ s.at = "asked" /\ UNCHANGED <<screen, calls, db>> /\ local' = [local EXCEPT !.stream = e]
    BY <1>2 DEF StreamSubscribes, Do
  <2>2. s \in Streams /\ s.chan = << >> /\ StreamOk(s, db)
    BY <2>1 DEF StreamOk
  <2>3. e \in Streams /\ e.of = s.of /\ e.at = "subscribed" /\ e.chan = << >>
    BY <2>2 DEF Streams
  <2> HIDE DEF e
  <2>4. Unread(e.of, e.chan, db, db)
    BY <2>3, NoneUnread
  <2>5. StreamMoves(s, e, db, db)
    BY <2>2, <2>3, <2>4 DEF StreamOk, StreamMoves
  <2> QED BY <2>1, <2>5
<1>3. CASE StreamLists
  <2> DEFINE ls == ListedLogs(s.of, db)
             e == [s EXCEPT !.at = "listed", !.list = ls]
  <2>1. s # None /\ s.at = "subscribed" /\ UNCHANGED <<screen, calls, db>> /\ local' = [local EXCEPT !.stream = e]
    BY <1>3 DEF StreamLists, Do
  <2>2. s \in Streams /\ StreamOk(s, db)
    BY <2>1 DEF StreamOk
  <2>3. ls \in Seq(Nat) /\ db \in 0..db
    <3>1. db \in 0..db
      OBVIOUS
    <3> QED BY <3>1, ListedIsTable DEF Table
  <2> HIDE DEF ls
  <2>4. e \in Streams /\ e.of = s.of /\ e.at = "listed" /\ e.chan = s.chan /\ e.list = ls
    BY <2>2, <2>3 DEF Streams
  <2> HIDE DEF e
  <2>5. StreamMoves(s, e, db, db)
    BY <2>1, <2>2, <2>3, <2>4 DEF StreamOk, StreamMoves, ls
  <2> QED BY <2>1, <2>5
<1> QED BY <1>1, <1>2, <1>3 DEF ServerWrites

-----------------------------------------------------------------------------
(* The request log. *)

LogsState ==
    [left : 0..MaxClicks, filters : Filters, debounced : Filters, timer : BOOLEAN, rows : Seq(Nat), of : Filters,
     failed : BOOLEAN, page : Nat \ {0}, loading : BOOLEAN, refreshing : BOOLEAN, live : BOOLEAN,
     stream : Streams \cup {None}, retry : BOOLEAN, selected : Nat \cup {None}, full : Nat \cup {None}]

\* What is on the screen, and what a stream may still bring.
LogsShow(l, d) ==
    /\ l \in LogsState
    /\ Table(l.rows, l.of, d) /\ (l.page = 1 \/ l.page <= Len(l.rows))
    /\ l.stream # None => l.live /\ l.stream.of = l.debounced /\ StreamOk(l.stream, d)
    /\ l.stream # None /\ l.stream.at = "open" =>
          l.of = l.debounced /\ (NoText(l.of) => Behind(l.stream.chan, l.rows))
    /\ l.retry => l.live

\* The requests; the newest asks for the filters that were last applied.
IsFetch(a) == a = [of |-> a.of, newest |-> a.newest]
LogCalls(cs, f, d) ==
    \A n \in DOMAIN cs :
       /\ IsCall(cs[n]) /\ cs[n].op \in {"logs", "detail"}
       /\ cs[n].op = "detail" => cs[n].arg \in Nat
       /\ cs[n].op = "logs" => IsFetch(cs[n].arg) /\ (cs[n].arg.newest => cs[n].arg.of = f)
       /\ cs[n].op = "logs" /\ cs[n].at = "served" => \E t \in 0..d : cs[n].got = ListedLogs(cs[n].arg.of, t)
Fetching(cs, f) == \E n \in DOMAIN cs : cs[n].op = "logs" /\ cs[n].arg.newest /\ cs[n].arg.of = f
InForce(l, cs) == l.of = l.debounced \/ l.failed \/ Fetching(cs, l.debounced)

LogsInv ==
    /\ db \in Nat /\ LogsShow(local, db)
    /\ LogCalls(calls, local.debounced, db) /\ InForce(local, calls)

\* A change that the rows and the stream do not depend on.
Alike(e, l) ==
    /\ e \in LogsState
    /\ e.rows = l.rows /\ e.of = l.of /\ e.page = l.page /\ e.stream = l.stream /\ e.live = l.live
    /\ e.debounced = l.debounced /\ e.retry = l.retry
    /\ e.selected = l.selected /\ e.full = l.full

LEMMA AlikeShows == ASSUME NEW l, NEW e, NEW d, LogsShow(l, d), Alike(e, l) PROVE LogsShow(e, d)
BY DEF LogsShow, Alike

LEMMA AskLogs ==
    ASSUME NEW l, NEW d, NEW cs, l.left = local.left, LogsShow(l, d), Ask(l, cs)
    PROVE  LogsShow(local', d) /\ Alike(local', l) /\ local'.failed = l.failed /\ calls' = cs /\ UNCHANGED <<screen, db>>
<1>1. local' = [l EXCEPT !.left = l.left - 1] /\ calls' = cs /\ UNCHANGED <<screen, db>> /\ l \in LogsState /\ l.left > 0
  BY DEF Ask, Do, LogsShow
<1>2. \A e : e = [l EXCEPT !.left = l.left - 1] => Alike(e, l) /\ e.failed = l.failed
  <2> SUFFICES ASSUME NEW e, e = [l EXCEPT !.left = l.left - 1] PROVE Alike(e, l) /\ e.failed = l.failed
    OBVIOUS
  <2>1. l.left - 1 \in 0..MaxClicks
    BY <1>1, BoundsAssumption DEF LogsState
  <2>2. e \in LogsState
    BY <1>1, <2>1 DEF LogsState
  <2> QED BY <1>1, <2>2 DEF LogsState, Alike
<1> QED BY <1>1, <1>2, AlikeShows

LEMMA FetchFields ==
    ASSUME NEW f, NEW newest, NEW a, a = [of |-> f, newest |-> newest]
    PROVE  IsFetch(a) /\ a.of = f /\ a.newest = newest
BY DEF IsFetch

LEMMA FetchOlder ==
    ASSUME NEW b, IsFetch(b), NEW a, a = [b EXCEPT !.newest = FALSE]
    PROVE  IsFetch(a) /\ a.newest = FALSE /\ a.of = b.of
<1>1. b = [of |-> b.of, newest |-> b.newest]
  BY Zenon DEF IsFetch
<1>2. a = [of |-> b.of, newest |-> FALSE]
  BY <1>1
<1> QED BY Zenon, <1>2, FetchFields

LEMMA FetchAged ==
    ASSUME NEW c, IsCall(c), IsFetch(c.arg), NEW e, e = [c EXCEPT !.arg.newest = FALSE]
    PROVE  IsCall(e) /\ IsFetch(e.arg) /\ e.op = c.op /\ e.at = c.at /\ e.got = c.got /\ e.arg.of = c.arg.of /\ e.arg.newest = FALSE
<1> DEFINE a == [c.arg EXCEPT !.newest = FALSE]
<1>1. \A b : b = [c.arg EXCEPT !.newest = FALSE] => IsFetch(b) /\ b.newest = FALSE /\ b.of = c.arg.of
  BY FetchOlder
<1>2. IsFetch(a) /\ a.newest = FALSE /\ a.of = c.arg.of
  BY Zenon, <1>1
<1>3. e = [c EXCEPT !.arg = a]
  OBVIOUS
<1> HIDE DEF a
<1>4. IsCall(e) /\ e.op = c.op /\ e.arg = a /\ e.at = c.at /\ e.got = c.got
  BY <1>3, CallArg
<1> QED BY <1>2, <1>4

LEMMA FetchCalls ==
    ASSUME NEW cs, NEW f, NEW d, LogCalls(cs, f, d), NEW l
    PROVE  /\ LogCalls(FetchLogs(l, cs), l.debounced, d)
           /\ Free(cs) # {} => Fetching(FetchLogs(l, cs), l.debounced)
<1> DEFINE os == [m \in DOMAIN cs |-> IF cs[m].op = "logs" THEN [cs[m] EXCEPT !.arg.newest = FALSE] ELSE cs[m]]
           a == [of |-> l.debounced, newest |-> TRUE]
           c == Call("logs", a)
           ds == Plus(os, c)
<1>1. LogCalls(os, l.debounced, d)
  <2> SUFFICES ASSUME NEW n \in DOMAIN cs
               PROVE  /\ IsCall(os[n]) /\ os[n].op \in {"logs", "detail"}
                      /\ os[n].op = "detail" => os[n].arg \in Nat
                      /\ os[n].op = "logs" => IsFetch(os[n].arg) /\ (os[n].arg.newest => os[n].arg.of = l.debounced)
                      /\ os[n].op = "logs" /\ os[n].at = "served" => \E t \in 0..d : os[n].got = ListedLogs(os[n].arg.of, t)
    BY DEF LogCalls
  <2>1. CASE cs[n].op = "logs"
    <3>1. os[n] = [cs[n] EXCEPT !.arg.newest = FALSE]
      BY <2>1
    <3>2. IsCall(cs[n]) /\ IsFetch(cs[n].arg)
      BY <2>1 DEF LogCalls
    <3>3. \A e : e = [cs[n] EXCEPT !.arg.newest = FALSE] =>
             IsCall(e) /\ IsFetch(e.arg) /\ e.op = cs[n].op /\ e.at = cs[n].at /\ e.got = cs[n].got
             /\ e.arg.of = cs[n].arg.of /\ e.arg.newest = FALSE
      BY <3>2, FetchAged
    <3> HIDE DEF os
    <3>4. /\ IsCall(os[n]) /\ IsFetch(os[n].arg) /\ os[n].op = cs[n].op /\ os[n].at = cs[n].at /\ os[n].got = cs[n].got
          /\ os[n].arg.of = cs[n].arg.of /\ os[n].arg.newest = FALSE
      BY <3>1, <3>3
    <3> QED BY <2>1, <3>4 DEF LogCalls
  <2>2. CASE cs[n].op # "logs"
    <3>1. os[n] = cs[n]
      BY <2>2
    <3> HIDE DEF os
    <3> QED BY <2>2, <3>1 DEF LogCalls
  <2> QED BY <2>1, <2>2
<1>2. IsFetch(a) /\ a.newest = TRUE /\ a.of = l.debounced
  BY DEF IsFetch
<1>3. Free(os) = Free(cs)
  BY DEF Free
<1> HIDE DEF a
<1>4. IsCall(c) /\ c.op = "logs" /\ c.arg = a /\ c.at = "sent"
  BY CallSent
<1> HIDE DEF os, c
<1>5. /\ \A n \in DOMAIN ds : ds[n] = c \/ (n \in DOMAIN os /\ ds[n] = os[n])
      /\ Free(os) # {} => \E n \in DOMAIN ds : ds[n] = c
  BY PlusCalls, PlusKeeps
<1>6. FetchLogs(l, cs) = ds
  BY DEF FetchLogs, os, c, a
<1> HIDE DEF ds
<1>7. LogCalls(ds, l.debounced, d)
  BY <1>1, <1>2, <1>4, <1>5 DEF LogCalls
<1>8. Free(cs) # {} => Fetching(ds, l.debounced)
  BY <1>2, <1>3, <1>4, <1>5 DEF Fetching
<1> QED BY <1>6, <1>7, <1>8

\* New filters are applied: the stream is that of the new ones, or none.
LEMMA ApplyShows ==
    ASSUME NEW l, NEW d, LogsShow(l, d), NEW f \in Filters
    PROVE  LogsShow(Apply(l, f), d) /\ Apply(l, f).debounced = f /\ Apply(l, f).left = l.left
<1> DEFINE x == IF l.live THEN ConnectSSE(f) ELSE None
           e == [l EXCEPT !.filters = f, !.debounced = f, !.timer = FALSE, !.loading = ~l.live, !.retry = FALSE, !.stream = x]
<1>1. Apply(l, f) = e
  BY DEF Apply
<1>2. x \in Streams \cup {None} /\ (x # None => l.live /\ x.of = f /\ x.at = "asked" /\ StreamOk(x, d))
  BY Connected DEF StreamOk
<1> HIDE DEF x
<1>3. e \in LogsState
  BY <1>2 DEF LogsShow, LogsState
<1>4. /\ e.rows = l.rows /\ e.of = l.of /\ e.page = l.page /\ e.stream = x /\ e.live = l.live /\ e.debounced = f
      /\ e.retry = FALSE /\ e.selected = l.selected /\ e.full = l.full /\ e.left = l.left
  BY DEF LogsShow, LogsState
<1> HIDE DEF e
<1>5. LogsShow(e, d)
  BY <1>2, <1>3, <1>4 DEF LogsShow
<1> QED BY <1>1, <1>4, <1>5

LEMMA LogsMeans ==
    ASSUME LogsInv
    PROVE  local \in LogsState /\ db \in Nat /\ LogsShow(local, db) /\ LogCalls(calls, local.debounced, db)
BY DEF LogsInv, LogsShow

LEMMA DefaultIsFilter == DEFAULT_FILTERS \in Filters
BY Zenon DEF DEFAULT_FILTERS, Filters

LEMMA LogsStart == LogsInit => LogsInv
<1> SUFFICES ASSUME LogsInit PROVE LogsInv
  OBVIOUS
<1>1. /\ local = [left |-> MaxClicks, filters |-> DEFAULT_FILTERS, debounced |-> DEFAULT_FILTERS, timer |-> FALSE,
                  rows |-> << >>, of |-> DEFAULT_FILTERS, failed |-> FALSE, page |-> 1,
                  loading |-> TRUE, refreshing |-> FALSE, live |-> FALSE, stream |-> None, retry |-> FALSE,
                  selected |-> None, full |-> None]
      /\ calls = FetchLogs(local, FetchLogs(local, NoCalls)) /\ db = 0
  BY DEF LogsInit
<1>2. << >> \in Seq(Nat) /\ Len(<< >>) = 0 /\ DOMAIN << >> = {}
  BY EmptySeq
<1>3. local \in LogsState
  BY <1>1, <1>2, DefaultIsFilter, BoundsAssumption DEF LogsState
<1>4. local.rows = << >> /\ local.page = 1 /\ local.of = local.debounced /\ local.stream = None /\ local.retry = FALSE /\ local.selected = None
  BY <1>1
<1>5. Table(<< >>, local.of, db)
  BY <1>2, LimitsAssumption DEF Table, IsInjective, NewestFirst
<1>6. LogsShow(local, db)
  BY <1>3, <1>4, <1>5 DEF LogsShow
<1>7. LogCalls(NoCalls, local.debounced, db)
  BY NoCallsEmpty DEF LogCalls
<1>8. LogCalls(calls, local.debounced, db)
  BY <1>1, <1>7, FetchCalls
<1> QED BY <1>1, <1>4, <1>6, <1>8 DEF LogsInv, InForce

\* Requests stay as the server writes more.
LEMMA CallsLater ==
    ASSUME NEW cs, NEW f, NEW d \in Nat, LogCalls(cs, f, d)
    PROVE  LogCalls(cs, f, d + 1)
<1>1. \A t \in 0..d : t \in 0..(d + 1)
  OBVIOUS
<1> QED BY <1>1 DEF LogCalls

LEMMA LogsWriteStep == ASSUME LogsInv, ServerWrites PROVE LogsInv'
<1>0. local \in LogsState /\ db \in Nat /\ LogsShow(local, db) /\ LogCalls(calls, local.debounced, db)
  BY LogsMeans
<1>1. local.stream # None => StreamOk(local.stream, db)
  BY <1>0 DEF LogsShow
<1>2. /\ UNCHANGED <<screen, calls>> /\ db' \in {db, db + 1}
      /\ \E e : /\ \/ local' = local /\ e = local.stream
                   \/ local' = [local EXCEPT !.stream = e] /\ local.stream # None
                /\ e # None => local.stream # None /\ StreamMoves(local.stream, e, db, db')
  BY <1>0, <1>1, ServerMoves
<1>3. PICK e : /\ \/ local' = local /\ e = local.stream
                  \/ local' = [local EXCEPT !.stream = e] /\ local.stream # None
               /\ e # None => local.stream # None /\ StreamMoves(local.stream, e, db, db')
  BY <1>2
<1>4. e \in Streams \cup {None} /\ (e # None => e \in Streams)
  BY <1>3 DEF StreamMoves, StreamOk
<1>5. local' \in LogsState
  BY <1>0, <1>3, <1>4 DEF LogsState
<1>6. /\ local'.rows = local.rows /\ local'.of = local.of /\ local'.page = local.page /\ local'.stream = e
      /\ local'.live = local.live /\ local'.debounced = local.debounced /\ local'.retry = local.retry
      /\ local'.selected = local.selected /\ local'.full = local.full
      /\ local'.failed = local.failed
  BY <1>0, <1>3 DEF LogsState
<1>7. Table(local.rows, local.of, db') /\ LogCalls(calls, local.debounced, db') /\ db' \in Nat
  <2>1. Table(local.rows, local.of, db)
    BY <1>0 DEF LogsShow
  <2> QED BY <1>0, <1>2, <2>1, TableLater, CallsLater
<1>8. e # None => local.live /\ e.of = local.debounced /\ StreamOk(e, db')
  BY <1>0, <1>3 DEF LogsShow, StreamMoves
<1>9. ASSUME e # None, e.at = "open" PROVE local.of = local.debounced /\ (NoText(local.of) => Behind(e.chan, local.rows))
  <2>1. /\ local.stream # None /\ local.stream.at = "open" /\ local.stream.chan \in Seq(Nat)
        /\ \/ e.chan = local.stream.chan
           \/ e.chan = Append(local.stream.chan, db + 1)
    BY <1>1, <1>3, <1>9 DEF StreamMoves, StreamOk, Streams
  <2>2. local.of = local.debounced /\ (NoText(local.of) => Behind(local.stream.chan, local.rows)) /\ Table(local.rows, local.of, db)
    BY <1>0, <2>1 DEF LogsShow
  <2> QED BY <1>0, <2>1, <2>2, BehindWritten
<1>10. LogsShow(local', db')
  <2> HIDE DEF LogsInv
  <2>1. (local.page = 1 \/ local.page <= Len(local.rows)) /\ (local.retry => local.live)
    BY <1>0 DEF LogsShow
  <2> QED BY <1>5, <1>6, <1>7, <1>8, <1>9, <2>1 DEF LogsShow
<1>11. InForce(local', calls)
  BY <1>6 DEF LogsInv, InForce
<1> QED BY <1>2, <1>6, <1>7, <1>10, <1>11 DEF LogsInv

\* The stream of the table is closed, or opened anew for the filters in force.
Restreams(e, retry) ==
    /\ local' = [local EXCEPT !.stream = e, !.retry = retry] /\ calls' = calls /\ db' = db
    /\ retry => local.live
    /\ e # None => local.live /\ e.of = local.debounced /\ e.at = "asked" /\ StreamOk(e, db)

LEMMA LogsStreamStep ==
    ASSUME LogsInv, LogStreamFails \/ LogStreamEnds \/ RetryFires
    PROVE  LogsInv'
<1>0. local \in LogsState /\ db \in Nat /\ LogsShow(local, db) /\ LogCalls(calls, local.debounced, db)
  BY LogsMeans
<1>1. \E e : \E retry \in BOOLEAN : Restreams(e, retry)
  <2>1. CASE LogStreamFails
    <3>1. local' = [local EXCEPT !.stream = None, !.retry = TRUE] /\ calls' = calls /\ db' = db /\ local.live
      BY <1>0, <2>1 DEF LogStreamFails, Do, LogsShow
    <3> QED BY <3>1 DEF Restreams
  <2>2. CASE LogStreamEnds
    <3>1. local' = [local EXCEPT !.stream = None] /\ calls' = calls /\ db' = db /\ local.live
      BY <1>0, <2>2 DEF LogStreamEnds, Do, LogsShow
    <3>2. [local EXCEPT !.stream = None] = [local EXCEPT !.stream = None, !.retry = local.retry]
      BY <1>0 DEF LogsState
    <3>3. local.retry \in BOOLEAN
      BY <1>0 DEF LogsState
    <3> QED BY <3>1, <3>2, <3>3 DEF Restreams
  <2>3. CASE RetryFires
    <3> DEFINE x == ConnectSSE(local.debounced)
    <3>1. local.retry /\ local' = [local EXCEPT !.retry = FALSE, !.stream = x] /\ calls' = calls /\ db' = db
      BY <2>3 DEF RetryFires, Do
    <3>2. x.of = local.debounced /\ x.at = "asked" /\ StreamOk(x, db) /\ local.live
      BY <1>0, <3>1, Connected DEF LogsState, LogsShow
    <3> HIDE DEF x
    <3>3. [local EXCEPT !.retry = FALSE, !.stream = x] = [local EXCEPT !.stream = x, !.retry = FALSE]
      BY <1>0 DEF LogsState
    <3> QED BY <3>1, <3>2, <3>3 DEF Restreams
  <2> QED BY <2>1, <2>2, <2>3
<1>2. PICK e : \E retry \in BOOLEAN : Restreams(e, retry)
  BY <1>1
<1>3. PICK retry \in BOOLEAN : Restreams(e, retry)
  BY <1>2
<1>4. e \in Streams \cup {None}
  BY <1>3 DEF Restreams, StreamOk
<1>5. local' \in LogsState
  BY <1>0, <1>3, <1>4 DEF Restreams, LogsState
<1>6. /\ local'.rows = local.rows /\ local'.of = local.of /\ local'.page = local.page /\ local'.stream = e
      /\ local'.live = local.live /\ local'.debounced = local.debounced /\ local'.retry = retry
      /\ local'.selected = local.selected /\ local'.full = local.full
      /\ local'.failed = local.failed
  BY <1>0, <1>3 DEF Restreams, LogsState
<1>7. LogsShow(local', db)
  BY <1>0, <1>3, <1>5, <1>6 DEF Restreams, LogsShow
<1> QED BY <1>0, <1>3, <1>6, <1>7 DEF Restreams, LogsInv, InForce

LEMMA FilterStep ==
    ASSUME LogsInv, (\E f \in Filters : EditFilters(f)) \/ DebounceFires \/ ClearFilters
    PROVE  LogsInv'
<1>0. local \in LogsState /\ db \in Nat /\ LogsShow(local, db) /\ LogCalls(calls, local.debounced, db)
  BY LogsMeans
<1>1. ASSUME NEW f \in Filters, Room(1),
             LET l == Apply(local, f) IN Do(l, FetchLogs(l, calls)) \/ Ask(l, FetchLogs(l, calls))
      PROVE  LogsInv'
  <2> DEFINE l == Apply(local, f)
             cs == FetchLogs(l, calls)
  <2>1. LogsShow(l, db) /\ l.debounced = f /\ l.left = local.left
    BY <1>0, ApplyShows
  <2>2. LogCalls(cs, l.debounced, db) /\ Fetching(cs, l.debounced)
    BY <1>0, <1>1, RoomIsFree, FetchCalls
  <2>3. Do(l, cs) \/ Ask(l, cs)
    BY <1>1
  <2> HIDE DEF l, cs
  <2>4. LogsShow(local', db) /\ local'.debounced = l.debounced /\ calls' = cs /\ db' = db
    <3>1. CASE Do(l, cs)
      BY <2>1, <3>1 DEF Do
    <3>2. CASE Ask(l, cs)
      BY <2>1, <3>2, AskLogs DEF Alike
    <3> QED BY <2>3, <3>1, <3>2
  <2> QED BY <1>0, <2>2, <2>4 DEF LogsInv, InForce
<1>2. ASSUME NEW f \in Filters, EditFilters(f) PROVE LogsInv'
  <2>1. CASE f.q = local.debounced.q
    <3>1. Room(1) /\ LET l == Apply(local, f) IN Ask(l, FetchLogs(l, calls))
      BY <1>2, <2>1, Zenon DEF EditFilters
    <3> QED BY <1>1, <3>1
  <2>2. CASE f.q # local.debounced.q
    <3> DEFINE l == [local EXCEPT !.filters = f, !.timer = TRUE]
    <3>1. Ask(l, calls)
      BY <1>2, <2>2, Zenon DEF EditFilters
    <3>2. Alike(l, local) /\ l.failed = local.failed /\ l.left = local.left
      BY <1>0 DEF LogsState, Alike
    <3> HIDE DEF l
    <3>3. LogsShow(l, db)
      BY <1>0, <3>2, AlikeShows
    <3>4. LogsShow(local', db) /\ Alike(local', l) /\ local'.failed = l.failed /\ calls' = calls /\ db' = db
      BY <3>1, <3>2, <3>3, AskLogs
    <3>5. local'.debounced = local.debounced /\ local'.of = local.of /\ local'.failed = local.failed
      BY <3>2, <3>4 DEF Alike
    <3> QED BY <1>0, <3>4, <3>5 DEF LogsInv, InForce
  <2> QED BY <2>1, <2>2
<1>3. CASE DebounceFires
  <2>1. Room(1) /\ LET l == Apply(local, local.filters) IN Do(l, FetchLogs(l, calls))
    BY <1>3 DEF DebounceFires
  <2>2. local.filters \in Filters
    BY <1>0 DEF LogsState
  <2> QED BY <1>1, <2>1, <2>2
<1>4. CASE ClearFilters
  <2>1. Room(1) /\ LET l == Apply(local, DEFAULT_FILTERS) IN Ask(l, FetchLogs(l, calls))
    BY <1>4 DEF ClearFilters
  <2> QED BY <1>1, <2>1, DefaultIsFilter
<1> QED BY <1>2, <1>3, <1>4

LEMMA RefreshStep == ASSUME LogsInv, handleRefresh PROVE LogsInv'
<1>0. local \in LogsState /\ db \in Nat /\ LogsShow(local, db) /\ LogCalls(calls, local.debounced, db)
  BY LogsMeans
<1> DEFINE l == [local EXCEPT !.refreshing = TRUE, !.loading = TRUE]
           cs == FetchLogs(local, calls)
<1>1. Room(1) /\ Ask(l, cs)
  BY DEF handleRefresh
<1>2. Alike(l, local) /\ l.left = local.left
  BY <1>0 DEF LogsState, Alike
<1>3. LogCalls(cs, local.debounced, db) /\ Fetching(cs, local.debounced)
  BY <1>0, <1>1, RoomIsFree, FetchCalls
<1> HIDE DEF l, cs
<1>4. LogsShow(l, db)
  BY <1>0, <1>2, AlikeShows
<1>5. LogsShow(local', db) /\ Alike(local', l) /\ calls' = cs /\ db' = db
  BY <1>1, <1>2, <1>4, AskLogs
<1>6. local'.debounced = local.debounced
  BY <1>2, <1>5 DEF Alike
<1> QED BY <1>0, <1>3, <1>5, <1>6 DEF LogsInv, InForce

LEMMA LiveStep == ASSUME LogsInv, setLive PROVE LogsInv'
<1>0. local \in LogsState /\ db \in Nat /\ LogsShow(local, db) /\ LogCalls(calls, local.debounced, db)
  BY LogsMeans
<1> DEFINE x == IF local.live THEN None ELSE ConnectSSE(local.debounced)
           loading == local.loading /\ local.live
           live == ~local.live
           l == [local EXCEPT !.live = live, !.retry = FALSE, !.loading = loading, !.stream = x]
<1>1. Ask(l, calls)
  <2>1. [local EXCEPT !.live = ~@, !.retry = FALSE, !.loading = @ /\ local.live,
                      !.stream = IF local.live THEN None ELSE ConnectSSE(local.debounced)] = l
    BY <1>0 DEF LogsState
  <2> HIDE DEF l
  <2> QED BY <2>1 DEF setLive
<1>2. x # None => live /\ x.of = local.debounced /\ x.at = "asked" /\ StreamOk(x, db)
  BY <1>0, Connected DEF LogsState
<1>3. x \in Streams \cup {None} /\ loading \in BOOLEAN /\ live \in BOOLEAN
  <2>1. loading \in BOOLEAN /\ live \in BOOLEAN
    BY <1>0, Zenon DEF LogsState
  <2> QED BY <1>2, <2>1 DEF StreamOk
<1> HIDE DEF x, loading, live
<1>4. l \in LogsState
  BY <1>0, <1>3 DEF LogsState
<1>5. /\ l.rows = local.rows /\ l.of = local.of /\ l.page = local.page /\ l.stream = x /\ l.live = live
      /\ l.debounced = local.debounced /\ l.retry = FALSE /\ l.selected = local.selected /\ l.full = local.full
      /\ l.left = local.left /\ l.failed = local.failed
  BY <1>0 DEF LogsState
<1> HIDE DEF l
<1>6. LogsShow(l, db)
  BY <1>0, <1>2, <1>4, <1>5 DEF LogsShow
<1>7. LogsShow(local', db) /\ Alike(local', l) /\ local'.failed = l.failed /\ calls' = calls /\ db' = db
  BY <1>1, <1>5, <1>6, AskLogs
<1>8. local'.debounced = local.debounced /\ local'.of = local.of /\ local'.failed = local.failed
  BY <1>5, <1>7 DEF Alike
<1> QED BY <1>0, <1>7, <1>8 DEF LogsInv, InForce

LEMMA PageStep == ASSUME LogsInv, NEW p \in 1..MaxShown, ChangePage(p) PROVE LogsInv'
<1>0. local \in LogsState /\ db \in Nat /\ LogsShow(local, db) /\ LogCalls(calls, local.debounced, db)
  BY LogsMeans
<1>1. (p - 1) * PageSize < Len(local.rows) /\ local' = [local EXCEPT !.page = p] /\ calls' = calls /\ db' = db
  BY DEF ChangePage, Do
<1>2. p <= Len(local.rows) /\ p \in Nat \ {0}
  <2>1. Len(local.rows) \in Nat /\ p \in Nat \ {0}
    BY <1>0, SeqFacts, LimitsAssumption DEF LogsState
  <2> QED BY <1>1, <2>1 DEF PageSize
<1>3. local' \in LogsState
  BY <1>0, <1>1, <1>2 DEF LogsState
<1>4. /\ local'.rows = local.rows /\ local'.of = local.of /\ local'.page = p /\ local'.stream = local.stream
      /\ local'.live = local.live /\ local'.debounced = local.debounced /\ local'.retry = local.retry
      /\ local'.selected = local.selected /\ local'.full = local.full
      /\ local'.failed = local.failed
  BY <1>0, <1>1 DEF LogsState
<1>5. LogsShow(local', db)
  BY <1>0, <1>2, <1>3, <1>4 DEF LogsShow
<1> QED BY <1>0, <1>1, <1>4, <1>5 DEF LogsInv, InForce

-----------------------------------------------------------------------------
(* Answers, and what a stream sends. *)

LEMMA LogCallsMinus ==
    ASSUME NEW cs, NEW f, NEW d, LogCalls(cs, f, d), NEW n
    PROVE  /\ LogCalls(Minus(cs, n), f, d)
           /\ Fetching(cs, f) /\ ~(cs[n].op = "logs" /\ cs[n].arg.newest) => Fetching(Minus(cs, n), f)
<1> DEFINE ds == Minus(cs, n)
<1>1. DOMAIN ds = DOMAIN cs \ {n} /\ \A m \in DOMAIN ds : ds[m] = cs[m]
  BY DEF Minus
<1> HIDE DEF ds
<1>2. LogCalls(ds, f, d)
  BY <1>1 DEF LogCalls
<1>3. ASSUME Fetching(cs, f), ~(cs[n].op = "logs" /\ cs[n].arg.newest) PROVE Fetching(ds, f)
  <2>1. PICK m \in DOMAIN cs : cs[m].op = "logs" /\ cs[m].arg.newest /\ cs[m].arg.of = f
    BY <1>3 DEF Fetching
  <2>2. m \in DOMAIN ds
    BY <1>1, <1>3, <2>1
  <2> QED BY <1>1, <2>1, <2>2 DEF Fetching
<1> QED BY <1>2, <1>3 DEF ds

LEMMA RelistedIs ==
    ASSUME NEW l \in LogsState, NEW listed \in Seq(Nat), NEW e, e = Relisted(l, listed)
    PROVE  /\ e \in LogsState /\ e.rows = listed /\ e.full \in {l.full, None}
           /\ e.of = l.of /\ e.page = l.page /\ e.stream = l.stream /\ e.live = l.live /\ e.debounced = l.debounced
           /\ e.retry = l.retry /\ e.selected = l.selected /\ e.failed = l.failed /\ e.left = l.left
<1> DEFINE x == IF l.selected # None /\ Contains(listed, l.selected) THEN l.full ELSE None
<1>1. x \in {l.full, None}
  OBVIOUS
<1>2. e = [l EXCEPT !.rows = listed, !.full = x]
  BY DEF Relisted
<1> HIDE DEF x
<1>3. x \in Nat \cup {None}
  BY <1>1 DEF LogsState
<1>4. e \in LogsState
  BY <1>2, <1>3 DEF LogsState
<1> QED BY <1>1, <1>2, <1>4 DEF LogsState

Reshown(l, listed, f, p, s) == [Relisted(l, listed) EXCEPT !.of = f, !.page = p, !.stream = s]

\* Other rows are shown; a stream that is open has nothing behind them.
LEMMA RelistedShows ==
    ASSUME NEW l, NEW d, LogsShow(l, d), NEW listed, NEW f \in Filters, NEW p \in Nat \ {0}, NEW s \in Streams \cup {None},
           Table(listed, f, d), p = 1 \/ p <= Len(listed),
           s # None => l.live /\ s.of = l.debounced /\ StreamOk(s, d),
           s # None /\ s.at = "open" => f = l.debounced /\ (NoText(f) => Behind(s.chan, listed)),
           NEW e, e = Reshown(l, listed, f, p, s)
    PROVE  LogsShow(e, d) /\ e.of = f /\ e.debounced = l.debounced /\ e.failed = l.failed
<1> DEFINE r == Relisted(l, listed)
<1>1. l \in LogsState /\ listed \in Seq(Nat)
  BY DEF LogsShow, Table
<1>2. /\ r \in LogsState /\ r.rows = listed /\ r.full \in {l.full, None}
      /\ r.live = l.live /\ r.debounced = l.debounced
      /\ r.retry = l.retry /\ r.selected = l.selected /\ r.failed = l.failed
  BY <1>1, RelistedIs
<1>3. e = [r EXCEPT !.of = f, !.page = p, !.stream = s]
  BY DEF Reshown
<1> HIDE DEF r
<1>4. e \in LogsState
  BY <1>2, <1>3 DEF LogsState
<1>5. /\ e.rows = listed /\ e.of = f /\ e.page = p /\ e.stream = s /\ e.live = r.live /\ e.debounced = r.debounced
      /\ e.retry = r.retry /\ e.selected = r.selected /\ e.full = r.full /\ e.failed = r.failed
  BY <1>2, <1>3 DEF LogsState
<1>6. LogsShow(e, d)
  BY <1>2, <1>4, <1>5 DEF LogsShow
<1> QED BY <1>2, <1>5, <1>6

\* The newest answer puts its list in force; an older one changes nothing.
LEMMA LogsAnswerStep == ASSUME LogsInv, NEW n \in DOMAIN calls, LogsAnswer(n) PROVE LogsInv'
<1>0. local \in LogsState /\ db \in Nat /\ LogsShow(local, db) /\ LogCalls(calls, local.debounced, db)
  BY LogsMeans
<1> DEFINE a == calls[n].arg
           got == calls[n].got
           l == [local EXCEPT !.loading = FALSE, !.refreshing = FALSE]
           r == [Relisted(l, got) EXCEPT !.of = a.of, !.failed = FALSE, !.page = 1]
<1>1. /\ calls[n].op = "logs" /\ Settled(n) /\ calls' = Minus(calls, n) /\ db' = db
      /\ local' = IF ~a.newest THEN local ELSE IF Failed(n) THEN [l EXCEPT !.failed = TRUE] ELSE r
  BY DEF LogsAnswer, Do
<1>2. Alike(l, local) /\ l.failed = local.failed /\ l \in LogsState
  BY <1>0 DEF LogsState, Alike
<1>3. LogsShow(l, db)
  BY <1>0, <1>2, AlikeShows
<1>4. LogCalls(calls', local.debounced, db) /\ (Fetching(calls, local.debounced) /\ ~a.newest => Fetching(calls', local.debounced))
  BY <1>0, <1>1, LogCallsMinus
<1> HIDE DEF l
<1>5. CASE ~a.newest
  <2>1. local' = local
    BY <1>1, <1>5
  <2> QED BY <1>0, <1>1, <1>4, <1>5, <2>1 DEF LogsInv, InForce
<1>6. CASE a.newest /\ Failed(n)
  <2>1. local' = [l EXCEPT !.failed = TRUE]
    BY <1>1, <1>6
  <2>2. Alike(local', l) /\ local'.failed = TRUE
    BY <1>2, <2>1 DEF LogsState, Alike
  <2>3. LogsShow(local', db) /\ local'.debounced = local.debounced
    BY <1>2, <1>3, <2>2, AlikeShows DEF Alike
  <2> QED BY <1>0, <1>1, <1>4, <2>2, <2>3 DEF LogsInv, InForce
<1>7. CASE a.newest /\ ~Failed(n)
  <2>1. local' = r
    BY <1>1, <1>7
  <2>2. a.of = local.debounced /\ local.debounced \in Filters /\ \E t \in 0..db : got = ListedLogs(a.of, t)
    <3>1. calls[n].at = "served"
      BY <1>1, <1>7 DEF Settled, Served, Failed
    <3> QED BY <1>0, <1>1, <1>7, <3>1 DEF LogCalls, LogsState
  <2>3. PICK t \in 0..db : got = ListedLogs(a.of, t)
    BY <2>2
  <2> HIDE DEF a, got
  <2>4. Table(got, a.of, db)
    BY <1>0, <2>3, ListedIsTable
  <2> DEFINE s == l.stream
             e == Reshown(l, got, a.of, 1, s)
  <2>5. s \in Streams \cup {None} /\ (s # None => l.live /\ s.of = l.debounced /\ StreamOk(s, db))
    BY <1>3 DEF LogsShow, LogsState
  <2>6. s # None /\ s.at = "open" => a.of = l.debounced /\ (NoText(a.of) => Behind(s.chan, got))
    <3> SUFFICES ASSUME s # None, s.at = "open" PROVE a.of = l.debounced /\ (NoText(a.of) => Behind(s.chan, got))
      OBVIOUS
    <3>1. a.of = l.debounced /\ s.of = a.of
      BY <1>2, <2>2, <2>5 DEF Alike
    <3>2. s.chan \in Seq(Nat) /\ Len(s.chan) <= ListLimit /\ \E lo : Unread(s.of, s.chan, lo, db)
      BY <2>5 DEF StreamOk, Streams
    <3> HIDE DEF s
    <3> QED BY <1>0, <2>3, <3>1, <3>2, UnreadIsListed
  <2>7. a.of \in Filters /\ 1 \in Nat \ {0}
    BY <2>2
  <2>8. LogsShow(e, db) /\ e.of = a.of /\ e.debounced = l.debounced /\ e.failed = l.failed
    <3> HIDE DEF s
    <3> QED BY <1>3, <2>4, <2>5, <2>6, <2>7, RelistedShows
  <2>9. e \in LogsState /\ local' = [e EXCEPT !.failed = FALSE]
    <3>1. e \in LogsState
      BY <2>8 DEF LogsShow
    <3>2. Relisted(l, got) \in LogsState /\ Relisted(l, got).stream = l.stream
      BY <1>2, <2>4, RelistedIs DEF Table
    <3>3. [e EXCEPT !.failed = FALSE] = [Relisted(l, got) EXCEPT !.of = a.of, !.failed = FALSE, !.page = 1]
      BY <3>2 DEF LogsState, Reshown
    <3> QED BY <2>1, <3>1, <3>3
  <2> HIDE DEF e
  <2>10. Alike(local', e)
    BY <2>9 DEF LogsState, Alike
  <2>11. LogsShow(local', db) /\ local'.of = a.of /\ local'.debounced = local.debounced
    BY <1>2, <2>8, <2>10, AlikeShows DEF Alike
  <2> QED BY <1>0, <1>1, <1>4, <2>2, <2>11 DEF LogsInv, InForce
<1> QED BY <1>5, <1>6, <1>7

LEMMA StreamSendsStep == ASSUME LogsInv, StreamSends PROVE LogsInv'
<1>0. local \in LogsState /\ db \in Nat /\ LogsShow(local, db) /\ LogCalls(calls, local.debounced, db)
  BY LogsMeans
<1> DEFINE s == local.stream
<1>1. s # None /\ s \in Streams /\ StreamOk(s, db) /\ local.live /\ s.of = local.debounced /\ calls' = calls /\ db' = db
  BY <1>0 DEF StreamSends, LogsShow, StreamOk, Do
<1>2. s.chan \in Seq(Nat) /\ Len(s.chan) <= ListLimit
  BY <1>1 DEF StreamOk, Streams
<1>3. CASE s.at = "listed"
  <2> DEFINE x == [s EXCEPT !.at = "open", !.list = << >>]
  <2>1. local' = [Relisted(local, s.list) EXCEPT !.of = s.of, !.page = 1, !.stream.at = "open", !.stream.list = << >>]
    BY <1>3 DEF StreamSends, Do
  <2>2. PICK t \in 0..db : s.list = ListedLogs(s.of, t)
    BY <1>1, <1>3 DEF StreamOk
  <2>3. Table(s.list, s.of, db)
    BY <1>0, <2>2, ListedIsTable
  <2>4. \E lo : Unread(s.of, s.chan, lo, db)
    BY <1>1, <1>3 DEF StreamOk
  <2>5. NoText(s.of) => Behind(s.chan, s.list)
    <3> HIDE DEF s
    <3> QED BY <1>0, <1>2, <2>2, <2>4, UnreadIsListed
  <2>6. x \in Streams /\ x.of = s.of /\ x.at = "open" /\ x.chan = s.chan
    <3>1. << >> \in Seq(Nat)
      OBVIOUS
    <3> QED BY <1>1, <3>1 DEF Streams
  <2>7. local' = Reshown(local, s.list, s.of, 1, x)
    <3>1. Relisted(local, s.list) \in LogsState /\ Relisted(local, s.list).stream = s
      BY <1>0, <2>3, RelistedIs DEF Table
    <3> QED BY <2>1, <3>1 DEF LogsState, Reshown
  <2> HIDE DEF x
  <2>8. StreamOk(x, db)
    BY <1>2, <2>4, <2>6 DEF StreamOk
  <2>9. LogsShow(local', db) /\ local'.of = s.of /\ local'.debounced = local.debounced /\ local'.failed = local.failed
    <3>1. s.of \in Filters /\ 1 \in Nat \ {0} /\ x \in Streams \cup {None}
      BY <1>1, <2>6 DEF Streams
    <3> HIDE DEF s
    <3> QED BY <1>0, <1>1, <2>3, <2>5, <2>6, <2>7, <2>8, <3>1, RelistedShows
  <2> QED BY <1>0, <1>1, <2>9 DEF LogsInv, InForce
<1>4. CASE s.at = "open" /\ s.chan # << >>
  <2> DEFINE e == Head(s.chan)
             next == Joined(e, local.rows)
             new == IF Contains(local.rows, e) THEN local.rows ELSE next
             c == Tail(s.chan)
             x == [s EXCEPT !.chan = c]
  <2>1. local' = [Relisted(local, new) EXCEPT !.stream.chan = Tail(@)]
    BY <1>4 DEF StreamSends, Do, Joined
  <2>2. PICK lo : Unread(s.of, s.chan, lo, db)
    BY <1>1, <1>4 DEF StreamOk
  <2>3. local.of = s.of /\ (NoText(s.of) => Behind(s.chan, local.rows)) /\ Table(local.rows, s.of, db)
    BY <1>0, <1>1, <1>4 DEF LogsShow
  <2>4. local.rows \in Seq(Nat) /\ Len(local.rows) <= MaxShown
    BY <2>3 DEF Table
  <2>5. /\ e \in 1..db /\ e \in Nat /\ InSelection(s.of, e) /\ c \in Seq(Nat) /\ Len(c) <= Len(s.chan)
        /\ Unread(s.of, c, e, db)
    <3> HIDE DEF s
    <3>1. /\ e \in 1..db /\ InSelection(s.of, e) /\ c \in Seq(Nat) /\ Len(c) <= Len(s.chan)
          /\ Unread(s.of, c, e, db)
      BY <1>0, <1>2, <1>4, <2>2, UnreadRead
    <3> HIDE DEF e, c
    <3> QED BY <1>0, <3>1
  <2>6. /\ NoText(s.of) /\ Contains(local.rows, e) => Behind(c, local.rows)
        /\ NoText(s.of) /\ ~Contains(local.rows, e) => \A j \in DOMAIN local.rows : local.rows[j] < e
        /\ NoText(s.of) /\ ~Contains(local.rows, e) => Behind(c, next)
    <3> HIDE DEF s
    <3> QED BY <1>0, <1>2, <1>4, <2>2, <2>3, <2>4, BehindRead
  <2>7. ~Contains(local.rows, e) => Table(next, s.of, db)
    <3> HIDE DEF s, e
    <3> QED BY <1>0, <2>3, <2>5, <2>6, TableJoined
  <2>8. Len(next) \in Nat /\ Len(next) >= Len(local.rows)
    <3> HIDE DEF s, e
    <3> QED BY <2>4, <2>5, JoinedIs
  <2> HIDE DEF next, e, c
  <2>9. Table(new, s.of, db) /\ (NoText(s.of) => Behind(c, new)) /\ (local.page = 1 \/ local.page <= Len(new))
    <3>1. CASE Contains(local.rows, e)
      BY <1>0, <2>3, <2>6, <3>1 DEF LogsShow
    <3>2. CASE ~Contains(local.rows, e)
      <4>1. local.page = 1 \/ local.page <= Len(local.rows)
        BY <1>0 DEF LogsShow
      <4>2. local.page \in Nat /\ Len(local.rows) \in Nat
        BY <1>0, <2>4, LenProperties DEF LogsState
      <4> QED BY <2>6, <2>7, <2>8, <3>2, <4>1, <4>2
    <3> QED BY <3>1, <3>2
  <2>10. x \in Streams /\ x.of = s.of /\ x.at = "open" /\ x.chan = c
    BY <1>1, <1>4, <2>5 DEF Streams
  <2> HIDE DEF new
  <2>11. local' = Reshown(local, new, s.of, local.page, x)
    <3>1. /\ Relisted(local, new) \in LogsState /\ Relisted(local, new).stream = s
          /\ Relisted(local, new).of = s.of /\ Relisted(local, new).page = local.page
      BY <1>0, <2>3, <2>9, RelistedIs DEF Table
    <3> QED BY <2>1, <3>1 DEF LogsState, c, x, Reshown
  <2> HIDE DEF x
  <2>12. Len(c) <= ListLimit
    <3>1. Len(c) \in Nat /\ Len(s.chan) \in Nat
      BY <1>2, <2>5, LenProperties
    <3> QED BY <1>2, <2>5, <3>1, LimitsAssumption
  <2>13. StreamOk(x, db)
    BY <2>5, <2>10, <2>12 DEF StreamOk
  <2>14. LogsShow(local', db) /\ local'.of = s.of /\ local'.debounced = local.debounced /\ local'.failed = local.failed
    <3>1. s.of \in Filters /\ local.page \in Nat \ {0} /\ x \in Streams \cup {None}
      BY <1>0, <1>1, <2>10 DEF Streams, LogsState
    <3> HIDE DEF s
    <3> QED BY <1>0, <1>1, <2>9, <2>10, <2>11, <2>13, <3>1, RelistedShows
  <2> QED BY <1>0, <1>1, <2>14 DEF LogsInv, InForce
<1> QED BY <1>3, <1>4 DEF StreamSends

LEMMA OpenDetailStep == ASSUME LogsInv, NEW e \in 1..Entries, OpenDetail(e) PROVE LogsInv'
<1>0. local \in LogsState /\ db \in Nat /\ LogsShow(local, db) /\ LogCalls(calls, local.debounced, db)
  BY LogsMeans
<1> DEFINE l == [local EXCEPT !.selected = e]
           c == Call("detail", e)
           cs == Plus(calls, c)
<1>1. Ask(l, cs)
  BY DEF OpenDetail
<1>2. e \in Nat
  OBVIOUS
<1>3. IsCall(c) /\ c.op = "detail" /\ c.arg = e /\ c.at = "sent"
  BY CallSent
<1> HIDE DEF c
<1>4. /\ \A n \in DOMAIN cs : cs[n] = c \/ (n \in DOMAIN calls /\ cs[n] = calls[n])
      /\ \A n \in DOMAIN calls : n \in DOMAIN cs /\ cs[n] = calls[n]
  BY PlusCalls, PlusKeeps
<1> HIDE DEF cs
<1>5. LogCalls(cs, local.debounced, db)
  BY <1>0, <1>2, <1>3, <1>4 DEF LogCalls
<1>6. Fetching(calls, local.debounced) => Fetching(cs, local.debounced)
  BY <1>4 DEF Fetching
<1>7. /\ l \in LogsState /\ l.rows = local.rows /\ l.of = local.of /\ l.page = local.page /\ l.stream = local.stream
      /\ l.live = local.live /\ l.debounced = local.debounced /\ l.retry = local.retry /\ l.selected = e
      /\ l.full = local.full /\ l.left = local.left /\ l.failed = local.failed
  BY <1>0, <1>2 DEF LogsState
<1> HIDE DEF l
<1>8. LogsShow(l, db)
  BY <1>0, <1>2, <1>7 DEF LogsShow
<1>9. LogsShow(local', db) /\ Alike(local', l) /\ local'.failed = l.failed /\ calls' = cs /\ db' = db
  BY <1>1, <1>7, <1>8, AskLogs
<1>10. local'.debounced = local.debounced /\ local'.of = local.of /\ local'.failed = local.failed
  BY <1>7, <1>9 DEF Alike
<1> QED BY <1>0, <1>5, <1>6, <1>9, <1>10 DEF LogsInv, InForce

LEMMA DetailStep ==
    ASSUME LogsInv, CloseDetail \/ \E n \in DOMAIN calls : DetailAnswers(n)
    PROVE  LogsInv'
<1>0. local \in LogsState /\ db \in Nat /\ LogsShow(local, db) /\ LogCalls(calls, local.debounced, db)
  BY LogsMeans
<1>1. CASE CloseDetail
  <2>1. local' = [local EXCEPT !.selected = None, !.full = None] /\ calls' = calls /\ db' = db
    BY <1>1 DEF CloseDetail, Do
  <2>2. /\ local' \in LogsState /\ local'.rows = local.rows /\ local'.of = local.of /\ local'.page = local.page
        /\ local'.stream = local.stream /\ local'.live = local.live /\ local'.debounced = local.debounced
        /\ local'.retry = local.retry /\ local'.selected = None /\ local'.failed = local.failed
    BY <1>0, <2>1 DEF LogsState
  <2>3. LogsShow(local', db)
    BY <1>0, <2>2 DEF LogsShow
  <2> QED BY <1>0, <2>1, <2>2, <2>3 DEF LogsInv, InForce
<1>2. ASSUME NEW n \in DOMAIN calls, DetailAnswers(n) PROVE LogsInv'
  <2> DEFINE a == calls[n].arg
  <2>1. calls[n].op = "detail" /\ calls' = Minus(calls, n) /\ db' = db
    BY <1>2 DEF DetailAnswers, Do
  <2>2. local' = [local EXCEPT !.full = a]
    BY <1>0, <1>2 DEF DetailAnswers, Do, LogsState
  <2>3. a \in Nat
    BY <1>0, <2>1 DEF LogCalls
  <2> HIDE DEF a
  <2>4. /\ local' \in LogsState /\ local'.rows = local.rows /\ local'.of = local.of /\ local'.page = local.page
        /\ local'.stream = local.stream /\ local'.live = local.live /\ local'.debounced = local.debounced
        /\ local'.retry = local.retry /\ local'.selected = local.selected /\ local'.full = a
        /\ local'.failed = local.failed
    BY <1>0, <2>2, <2>3 DEF LogsState
  <2>5. LogsShow(local', db)
    BY <1>0, <2>3, <2>4 DEF LogsShow
  <2>6. LogCalls(calls', local.debounced, db) /\ (Fetching(calls, local.debounced) => Fetching(calls', local.debounced))
    BY <1>0, <2>1, LogCallsMinus
  <2> QED BY <1>0, <2>1, <2>4, <2>5, <2>6 DEF LogsInv, InForce
<1> QED BY <1>1, <1>2

\* The server answers a request for a list with what it holds, or not at all.
LEMMA LogsServeStep ==
    ASSUME LogsInv, NEW n \in DOMAIN calls, calls[n].op = "logs", Serve(n, db, ListedLogs(calls[n].arg.of, db)) \/ Lose(n)
    PROVE  LogsInv'
<1>0. local \in LogsState /\ db \in Nat /\ LogsShow(local, db) /\ LogCalls(calls, local.debounced, db)
  BY LogsMeans
<1>1. AreCalls
  BY <1>0 DEF LogCalls, AreCalls
<1> DEFINE got == ListedLogs(calls[n].arg.of, db)
<1>2. /\ DOMAIN calls' = DOMAIN calls
      /\ \A m \in DOMAIN calls : SameCall(calls'[m], calls[m]) /\ (m # n => calls'[m] = calls[m])
      /\ db' = db /\ local' = local
      /\ calls'[n].at = "served" => calls'[n].got = got
  <2>1. CASE Serve(n, db, got)
    <3> HIDE DEF got
    <3> QED BY <1>1, <2>1, ServeCalls
  <2>2. CASE Lose(n)
    BY <1>1, <2>2, LoseCalls
  <2> QED BY <2>1, <2>2
<1>3. LogCalls(calls', local.debounced, db)
  <2> SUFFICES ASSUME NEW m \in DOMAIN calls
               PROVE  /\ IsCall(calls'[m]) /\ calls'[m].op \in {"logs", "detail"}
                      /\ calls'[m].op = "detail" => calls'[m].arg \in Nat
                      /\ calls'[m].op = "logs" => IsFetch(calls'[m].arg)
                                                  /\ (calls'[m].arg.newest => calls'[m].arg.of = local.debounced)
                      /\ calls'[m].op = "logs" /\ calls'[m].at = "served"
                           => \E t \in 0..db : calls'[m].got = ListedLogs(calls'[m].arg.of, t)
    BY <1>2 DEF LogCalls
  <2>1. SameCall(calls'[m], calls[m])
    BY <1>2
  <2>2. /\ IsCall(calls'[m]) /\ calls'[m].op \in {"logs", "detail"}
        /\ calls'[m].op = "detail" => calls'[m].arg \in Nat
        /\ calls'[m].op = "logs" => IsFetch(calls'[m].arg) /\ (calls'[m].arg.newest => calls'[m].arg.of = local.debounced)
    BY <1>0, <2>1 DEF LogCalls, SameCall
  <2>3. ASSUME calls'[m].op = "logs", calls'[m].at = "served" PROVE \E t \in 0..db : calls'[m].got = ListedLogs(calls'[m].arg.of, t)
    <3>1. CASE m = n
      <4>1. db \in 0..db /\ calls'[m].arg = calls[m].arg
        BY <1>0, <2>1 DEF SameCall
      <4> QED BY <1>2, <2>3, <3>1, <4>1
    <3>2. CASE m # n
      BY <1>0, <1>2, <2>3, <3>2 DEF LogCalls
    <3> QED BY <3>1, <3>2
  <2> QED BY <2>2, <2>3
<1>4. Fetching(calls, local.debounced) => Fetching(calls', local.debounced)
  BY <1>2 DEF Fetching, SameCall
<1> QED BY <1>0, <1>2, <1>3, <1>4 DEF LogsInv, InForce

LEMMA LogsSteps == ASSUME LogsInv, LogsNext PROVE LogsInv'
<1>1. ASSUME ServerWrites PROVE LogsInv'
  BY <1>1, LogsWriteStep
<1>2. ASSUME LogStreamFails \/ LogStreamEnds \/ RetryFires PROVE LogsInv'
  BY <1>2, LogsStreamStep
<1>3. ASSUME (\E f \in Filters : EditFilters(f)) \/ DebounceFires \/ ClearFilters PROVE LogsInv'
  BY <1>3, FilterStep
<1>4. ASSUME handleRefresh \/ setLive \/ StreamSends PROVE LogsInv'
  BY <1>4, RefreshStep, LiveStep, StreamSendsStep
<1>5. ASSUME CloseDetail \/ \E n \in DOMAIN calls : DetailAnswers(n) PROVE LogsInv'
  BY <1>5, DetailStep
<1>6. ASSUME NEW n \in DOMAIN calls, LogsAnswer(n) PROVE LogsInv'
  BY <1>6, LogsAnswerStep
<1>7. ASSUME NEW n \in DOMAIN calls, calls[n].op = "logs", Serve(n, db, ListedLogs(calls[n].arg.of, db)) \/ Lose(n) PROVE LogsInv'
  BY <1>7, LogsServeStep
<1>8. ASSUME NEW p \in 1..MaxShown, ChangePage(p) PROVE LogsInv'
  BY <1>8, PageStep
<1>9. ASSUME NEW e \in 1..Entries, OpenDetail(e) PROVE LogsInv'
  BY <1>9, OpenDetailStep
<1> QED BY Zenon, <1>1, <1>2, <1>3, <1>4, <1>5, <1>6, <1>7, <1>8, <1>9 DEF LogsNext

LEMMA LogsHold == Spec => [](screen = "logs" => LogsInv)
<1> DEFINE I == screen = "logs" => LogsInv
<1>1. Init => I
  BY LogsStart DEF Init, ShellInit, DeviceInit, BrowserInit, BulkInit, AddInit, ConnectionsInit, CardsInit, RulesInit,
     AdminInit, ChatInit, PicturesInit, ConsoleInit, FeedInit, SettingsInit, ToolsInit, TunnelInit
<1>2. I /\ [Next]_uiVars => I'
  <2> SUFFICES ASSUME I, [Next]_uiVars, screen' = "logs" PROVE LogsInv'
    OBVIOUS
  <2>1. screen = "logs"
    BY OneScreen
  <2>2. CASE LogsNext
    BY <2>1, <2>2, LogsSteps
  <2>3. CASE UNCHANGED uiVars
    BY <2>1, <2>3 DEF uiVars, LogsInv
  <2> QED BY <2>1, <2>2, <2>3 DEF Next
<1> QED BY <1>1, <1>2, PTL DEF Spec

LEMMA PageIsThere ==
    ASSUME NEW l \in LogsState, l.rows # << >>, l.page = 1 \/ l.page <= Len(l.rows)
    PROVE  Showing(l) # << >>
<1> DEFINE from == (l.page - 1) * PageSize + 1
           to == IF from + PageSize - 1 < Len(l.rows) THEN from + PageSize - 1 ELSE Len(l.rows)
<1>1. l.rows \in Seq(Nat) /\ Len(l.rows) \in Nat /\ Len(l.rows) # 0 /\ l.page \in Nat \ {0}
  BY SeqFacts, EmptySeq DEF LogsState
<1>2. from = l.page /\ from + PageSize - 1 = l.page
  BY <1>1 DEF PageSize
<1>3. to = l.page /\ l.page \in 1..Len(l.rows)
  <2>1. l.page <= Len(l.rows)
    BY <1>1
  <2> HIDE DEF from
  <2> QED BY <1>1, <1>2, <2>1
<1>4. Showing(l) = SubSeq(l.rows, from, to)
  BY DEF Showing
<1> HIDE DEF from, to
<1>5. \A i \in l.page..l.page : l.rows[i] \in Nat
  BY <1>1, <1>3, SeqFacts
<1>6. l.page \in Int /\ l.page <= l.page /\ l.page - l.page + 1 = 1
  BY <1>1
<1>7. Len(SubSeq(l.rows, l.page, l.page)) = 1 /\ SubSeq(l.rows, l.page, l.page) \in Seq(Nat)
  BY <1>5, <1>6, SubSeqProperties
<1>8. Showing(l) = SubSeq(l.rows, l.page, l.page)
  BY <1>2, <1>3, <1>4
<1>9. Len(Showing(l)) = 1 /\ Len(<< >>) = 0
  BY <1>7, <1>8
<1> QED BY <1>9

LEMMA RowsMatch == ASSUME screen = "logs" => LogsInv PROVE LogsMatch
<1> SUFFICES ASSUME screen = "logs", LogsInv PROVE LogsMatch
  BY DEF LogsMatch
<1>0. local \in LogsState /\ db \in Nat /\ LogsShow(local, db) /\ LogCalls(calls, local.debounced, db) /\ InForce(local, calls)
  BY LogsMeans DEF LogsInv
<1>1. Table(local.rows, local.of, db)
  BY <1>0 DEF LogsShow
<1>2. IsInjective(local.rows) /\ (NoText(local.of) => NewestFirst(local.rows)) /\ Len(local.rows) <= MaxShown
      /\ \A i \in DOMAIN local.rows : InSelection(local.of, local.rows[i])
  BY <1>1 DEF Table
<1>3. local.of = local.debounced \/ local.failed
        \/ \E n \in Waiting("logs") : calls[n].arg.newest /\ calls[n].arg.of = local.debounced
  BY <1>0 DEF InForce, Fetching, Waiting
<1>4. local.rows # << >> => Showing(local) # << >>
  BY <1>0, PageIsThere DEF LogsShow
<1>5. local.stream # None => local.live /\ local.stream.of = local.debounced
  BY <1>0 DEF LogsShow
<1> QED BY Zenon, <1>2, <1>3, <1>4, <1>5 DEF LogsMatch, NoText

-----------------------------------------------------------------------------
(* The console: what it was sent is among its lines, or waits for the end  *)
(* of a pause, or was too old for the list of a new connection.            *)

ConsoleState == [left : Nat, lines : Seq(Nat), paused : BOOLEAN, buffer : Seq(Nat), retry : BOOLEAN,
                 stream : Streams \cup {None}, seen : SUBSET Nat, base : Nat]

SeenKept(seen, lines, buffer, base) ==
    \A e \in seen : Has(lines, e) \/ Has(buffer, e) \/ e + ListLimit <= base \/ Len(lines) = MaxShown

Console(l) ==
    /\ l \in ConsoleState /\ Len(l.lines) <= MaxShown
    /\ ~l.paused => l.buffer = << >>
    /\ SeenKept(l.seen, l.lines, l.buffer, l.base)

\* What was seen is not newer than a list that is to be read next.
Latest(s, seen, d) ==
    /\ s.of = DEFAULT_FILTERS
    /\ s.at = "listed" => \E t \in 0..d : s.list = ListedLogs(DEFAULT_FILTERS, t) /\ seen \subseteq 1..t

ConsoleInv ==
    /\ db \in Nat /\ Console(local) /\ local.seen \subseteq 1..db
    /\ local.stream # None => StreamOk(local.stream, db) /\ Latest(local.stream, local.seen, db)

\* A list of everything holds the newest entries up to the last of all.
LEMMA DefaultListed ==
    ASSUME NEW t \in Nat, NEW s, s = ListedLogs(DEFAULT_FILTERS, t), NEW b, b = (IF s = << >> THEN 0 ELSE Head(s))
    PROVE  /\ s \in Seq(Nat) /\ b \in Nat /\ \A e : Has(s, e) => e \in 1..t
           /\ \A e \in 1..t : Has(s, e) \/ e + ListLimit <= b
<1> DEFINE f == DEFAULT_FILTERS
<1>1. f.sel = "all" /\ NoText(f)
  BY DEF DEFAULT_FILTERS, NoText
<1> HIDE DEF f
<1>2. Found(f, t) = 1..t
  <2>1. \A e : InSelection(f, e)
    BY <1>1 DEF InSelection
  <2> QED BY <1>1, <2>1, AdmitsSelected DEF Found
<1>3. /\ s \in Seq(1..t) /\ NewestFirst(s)
      /\ \A e \in 1..t : Newer(1..t, e) < ListLimit => Has(s, e)
  BY <1>2, ListedIs DEF f
<1>4. DOMAIN s = 1..Len(s) /\ Len(s) \in Nat /\ \A i \in 1..Len(s) : s[i] \in 1..t
  BY <1>3, SeqFacts
<1>5. ASSUME NEW e \in 1..t PROVE Newer(1..t, e) = t - e
  <2>1. {d \in 1..t : d > e} = (e + 1)..t
    OBVIOUS
  <2>2. Cardinality((e + 1)..t) = t - e
    <3>1. e + 1 \in Int /\ t \in Int /\ t - (e + 1) + 1 = t - e
      OBVIOUS
    <3>2. Cardinality((e + 1)..t) = IF e + 1 > t THEN 0 ELSE t - (e + 1) + 1
      BY <3>1, FS_Interval
    <3> QED BY <3>1, <3>2
  <2> QED BY <2>1, <2>2 DEF Newer
<1>6. s # << >> => b = s[1] /\ b \in 1..t /\ 1 \in 1..Len(s)
  <2> SUFFICES ASSUME s # << >> PROVE b = s[1] /\ b \in 1..t /\ 1 \in 1..Len(s)
    OBVIOUS
  <2>1. Len(s) # 0
    BY <1>3, EmptySeq
  <2>2. b = s[1]
    BY <1>3
  <2> QED BY <1>4, <2>1, <2>2
<1>7. ASSUME NEW e \in 1..t PROVE Has(s, e) \/ e + ListLimit <= b
  <2>1. CASE t - e < ListLimit
    BY <1>3, <1>5, <2>1
  <2>2. CASE ~(t - e < ListLimit)
    <3>1. t \in 1..t /\ Newer(1..t, t) < ListLimit
      BY <1>5, LimitsAssumption
    <3>2. PICK i \in DOMAIN s : s[i] = t
      BY <1>3, <3>1 DEF Has
    <3>3. s # << >>
      BY <1>4, <3>2
    <3>4. 1 < i => s[1] > s[i]
      <4>1. 1 \in DOMAIN s /\ i \in DOMAIN s
        BY <1>4, <1>6, <3>2, <3>3
      <4> QED BY <1>3, <4>1 DEF NewestFirst
    <3>5. b = t
      BY <1>4, <1>6, <3>2, <3>3, <3>4
    <3> QED BY <2>2, <3>5, LimitsAssumption
  <2> QED BY <2>1, <2>2
<1>8. s \in Seq(Nat)
  <2>1. 1..t \subseteq Nat
    OBVIOUS
  <2> QED BY <1>3, <2>1, SeqMonotonic
<1>9. b \in Nat
  BY <1>6
<1> QED BY <1>4, <1>7, <1>8, <1>9 DEF Has

LEMMA LastLinesAre ==
    ASSUME NEW ls \in Seq(Nat)
    PROVE  /\ LastLines(ls) \in Seq(Nat) /\ Len(LastLines(ls)) <= MaxShown
           /\ Len(LastLines(ls)) = MaxShown \/ \A e : Has(ls, e) => Has(LastLines(ls), e)
           /\ Len(ls) >= MaxShown => Len(LastLines(ls)) = MaxShown
<1> DEFINE from == IF Len(ls) > MaxShown THEN Len(ls) - MaxShown + 1 ELSE 1
           s == SubSeq(ls, from, Len(ls))
<1>1. Len(ls) \in Nat /\ DOMAIN ls = 1..Len(ls) /\ \A i \in 1..Len(ls) : ls[i] \in Nat
  BY SeqFacts
<1>2. MaxShown \in Nat /\ MaxShown >= 1
  BY LimitsAssumption
<1>3. from \in Nat /\ from >= 1 /\ from <= Len(ls) + 1
  BY <1>1, <1>2
<1>4. /\ Len(ls) > MaxShown => Len(ls) - from + 1 = MaxShown
      /\ ~(Len(ls) > MaxShown) => from = 1 /\ Len(ls) - from + 1 = Len(ls)
  BY <1>1, <1>2
<1>5. LastLines(ls) = s
  BY DEF LastLines
<1> HIDE DEF from
<1>6. \A i \in from..Len(ls) : ls[i] \in Nat
  BY <1>1, <1>3
<1>7. from \in Int /\ Len(ls) \in Int
  BY <1>1, <1>3
<1>8. /\ s \in Seq(Nat) /\ Len(s) = IF from <= Len(ls) THEN Len(ls) - from + 1 ELSE 0
      /\ \A i \in 1..(Len(ls) - from + 1) : s[i] = ls[from + i - 1]
  BY <1>6, <1>7, SubSeqProperties
<1>9. Len(s) = Len(ls) - from + 1 /\ DOMAIN s = 1..Len(s)
  <2>1. Len(s) = Len(ls) - from + 1
    BY <1>1, <1>3, <1>8
  <2> QED BY <1>8, <2>1, SeqFacts
<1> HIDE DEF s
<1>10. CASE Len(ls) > MaxShown
  BY <1>2, <1>4, <1>5, <1>8, <1>9, <1>10
<1>11. CASE ~(Len(ls) > MaxShown)
  <2>1. Len(s) = Len(ls) /\ Len(ls) <= MaxShown
    <3>1. Len(ls) <= MaxShown
      BY <1>1, <1>2, <1>11
    <3>2. Len(s) = Len(ls)
      BY <1>4, <1>9, <1>11
    <3> QED BY <3>1, <3>2
  <2>2. \A i \in 1..Len(ls) : s[i] = ls[i]
    <3>1. \A i \in 1..Len(ls) : from + i - 1 = i
      BY <1>1, <1>4, <1>11
    <3> QED BY <1>4, <1>8, <1>11, <3>1
  <2>3. \A e : Has(ls, e) => Has(s, e)
    BY <1>1, <1>9, <2>1, <2>2 DEF Has
  <2> QED BY <1>1, <1>2, <1>5, <1>8, <2>1, <2>3
<1> QED BY <1>10, <1>11

LEMMA AppendHas ==
    ASSUME NEW s \in Seq(Nat), NEW x \in Nat
    PROVE  Append(s, x) \in Seq(Nat) /\ Len(Append(s, x)) = Len(s) + 1 /\ Has(Append(s, x), x) /\ \A e : Has(s, e) => Has(Append(s, x), e)
<1> DEFINE c == Append(s, x)
<1>1. Len(s) \in Nat /\ DOMAIN s = 1..Len(s)
  BY SeqFacts
<1>2. c \in Seq(Nat) /\ Len(c) = Len(s) + 1 /\ DOMAIN c = 1..(Len(s) + 1) /\ c[Len(s) + 1] = x /\ \A i \in 1..Len(s) : c[i] = s[i]
  BY <1>1, AppendProperties
<1> HIDE DEF c
<1>3. Len(s) + 1 \in DOMAIN c /\ \A i \in DOMAIN s : i \in DOMAIN c /\ c[i] = s[i]
  BY <1>1, <1>2
<1> QED BY <1>2, <1>3 DEF Has, c

LEMMA ConcatHas ==
    ASSUME NEW s \in Seq(Nat), NEW t \in Seq(Nat)
    PROVE  s \o t \in Seq(Nat) /\ \A e : Has(s, e) \/ Has(t, e) => Has(s \o t, e) /\ Contains(s \o t, e)
<1> DEFINE c == s \o t
<1>1. Len(s) \in Nat /\ DOMAIN s = 1..Len(s) /\ Len(t) \in Nat /\ DOMAIN t = 1..Len(t)
  BY SeqFacts
<1>2. /\ c \in Seq(Nat) /\ Len(c) = Len(s) + Len(t)
      /\ \A i \in 1..(Len(s) + Len(t)) : c[i] = IF i <= Len(s) THEN s[i] ELSE t[i - Len(s)]
  BY ConcatProperties
<1>3. DOMAIN c = 1..Len(c)
  BY <1>2, SeqFacts
<1> HIDE DEF c
<1>4. \A i \in DOMAIN s : i \in DOMAIN c /\ c[i] = s[i]
  BY <1>1, <1>2, <1>3
<1>5. ASSUME NEW i \in DOMAIN t PROVE i + Len(s) \in DOMAIN c /\ c[i + Len(s)] = t[i]
  <2> DEFINE k == i + Len(s)
  <2>1. k \in 1..(Len(s) + Len(t)) /\ ~(k <= Len(s)) /\ k - Len(s) = i
    BY <1>1
  <2> HIDE DEF k
  <2>2. k \in DOMAIN c /\ c[k] = t[i]
    BY <1>2, <1>3, <2>1
  <2> QED BY <2>2 DEF k
<1>6. \A e : Has(s, e) \/ Has(t, e) => Has(c, e)
  BY <1>4, <1>5 DEF Has
<1>7. \A e : Has(c, e) => Contains(c, e)
  BY <1>3 DEF Has, Contains
<1> QED BY <1>2, <1>6, <1>7 DEF c

LEMMA ReverseHas ==
    ASSUME NEW s \in Seq(Nat)
    PROVE  Reverse(s) \in Seq(Nat) /\ Len(Reverse(s)) = Len(s) /\ \A e : Has(s, e) => Has(Reverse(s), e)
<1> DEFINE r == Reverse(s)
<1>1. Len(s) \in Nat /\ DOMAIN s = 1..Len(s) /\ \A i \in 1..Len(s) : s[i] \in Nat
  BY SeqFacts
<1>2. r = [i \in 1..Len(s) |-> s[(Len(s) - i) + 1]]
  BY DEF Reverse
<1>3. \A i \in 1..Len(s) : (Len(s) - i) + 1 \in 1..Len(s) /\ (Len(s) - ((Len(s) - i) + 1)) + 1 = i
  BY <1>1
<1> HIDE DEF r
<1>4. r \in [1..Len(s) -> Nat]
  BY <1>1, <1>2, <1>3
<1>5. r \in Seq(Nat) /\ Len(r) = Len(s)
  BY <1>1, <1>4
<1>6. \A i \in 1..Len(s) : r[(Len(s) - i) + 1] = s[i]
  BY <1>2, <1>3
<1>7. \A e : Has(s, e) => Has(r, e)
  BY <1>1, <1>2, <1>3, <1>6 DEF Has
<1> QED BY <1>5, <1>7 DEF r

LEMMA NoneHas == \A e : ~Has(<< >>, e)
<1>1. DOMAIN << >> = {}
  OBVIOUS
<1> QED BY <1>1 DEF Has

LEMMA SeenRead == ASSUME NEW s \in Seq(Nat) PROVE ToSet(s) \subseteq Nat /\ \A e \in ToSet(s) : Has(s, e)
BY SeqFacts DEF ToSet, Has

LEMMA ConsoleStarts == ConsoleInit => ConsoleInv
<1> SUFFICES ASSUME ConsoleInit PROVE ConsoleInv
  OBVIOUS
<1> DEFINE s == ConnectSSE(DEFAULT_FILTERS)
<1>1. /\ local = [left |-> MaxClicks, lines |-> << >>, paused |-> FALSE, buffer |-> << >>, retry |-> FALSE,
                  stream |-> s, seen |-> {}, base |-> 0]
      /\ db = 0
  BY DEF ConsoleInit
<1>2. StreamOk(s, db) /\ s.of = DEFAULT_FILTERS /\ s.at = "asked"
  BY DefaultIsFilter, Connected
<1>3. << >> \in Seq(Nat) /\ Len(<< >>) <= MaxShown
  BY LimitsAssumption
<1> HIDE DEF s
<1>4. local \in ConsoleState /\ local.stream = s /\ local.lines = << >> /\ local.buffer = << >> /\ local.seen = {}
  BY <1>1, <1>2, <1>3, BoundsAssumption DEF ConsoleState, StreamOk
<1> QED BY <1>1, <1>2, <1>3, <1>4 DEF ConsoleInv, Console, SeenKept, Latest

Streaming(l, s, retry) == [l EXCEPT !.stream = s, !.retry = retry]
Reading(l, lines, buffer, seen, base, s) ==
    [l EXCEPT !.lines = lines, !.buffer = buffer, !.seen = seen, !.base = base, !.stream = s]

\* The lines do not depend on the stream.
LEMMA ConsoleStreams ==
    ASSUME NEW l, Console(l), NEW s \in Streams \cup {None}, NEW retry \in BOOLEAN,
           NEW e, e = Streaming(l, s, retry)
    PROVE  Console(e) /\ e.stream = s /\ e.seen = l.seen
<1>1. l \in ConsoleState
  BY DEF Console
<1>2. /\ e \in ConsoleState /\ e.lines = l.lines /\ e.paused = l.paused /\ e.buffer = l.buffer /\ e.seen = l.seen
      /\ e.base = l.base /\ e.stream = s
  BY <1>1 DEF ConsoleState, Streaming, Reading
<1> QED BY <1>2 DEF Console

LEMMA ConsoleServerStep == ASSUME ConsoleInv, ServerWrites PROVE ConsoleInv'
<1>0. /\ db \in Nat /\ Console(local) /\ (local.stream # None => StreamOk(local.stream, db)) /\ local \in ConsoleState
      /\ local.seen \subseteq 1..db /\ (local.stream # None => Latest(local.stream, local.seen, db))
  BY DEF ConsoleInv, Console
<1>1. /\ UNCHANGED <<screen, calls>> /\ db' \in {db, db + 1}
      /\ \E e : /\ \/ local' = local /\ e = local.stream
                   \/ local' = [local EXCEPT !.stream = e] /\ local.stream # None
                /\ e # None => local.stream # None /\ StreamMoves(local.stream, e, db, db')
  BY <1>0, ServerMoves
<1>2. PICK e : /\ \/ local' = local /\ e = local.stream
                  \/ local' = [local EXCEPT !.stream = e] /\ local.stream # None
               /\ e # None => local.stream # None /\ StreamMoves(local.stream, e, db, db')
  BY <1>1
<1>3. db' \in Nat /\ (e # None => StreamOk(e, db')) /\ e \in Streams \cup {None}
  BY <1>0, <1>1, <1>2 DEF StreamMoves, StreamOk
<1>4. Console(local') /\ local'.stream = e /\ local'.seen = local.seen
  <2>1. CASE local' = local /\ e = local.stream
    BY <1>0, <2>1
  <2>2. CASE local' = [local EXCEPT !.stream = e]
    <3>1. local.retry \in BOOLEAN /\ local' = Streaming(local, e, local.retry)
      BY <1>0, <2>2 DEF ConsoleState, Streaming
    <3> QED BY <1>0, <1>3, <3>1, ConsoleStreams
  <2> QED BY <1>2, <2>1, <2>2
<1>5. /\ \A t \in 0..db : t \in 0..db' /\ \A x \in 1..db : x \in 1..db'
  BY <1>0, <1>1
<1>6. e # None => Latest(e, local.seen, db')
  <2> SUFFICES ASSUME e # None PROVE Latest(e, local.seen, db')
    OBVIOUS
  <2>1. Latest(local.stream, local.seen, db) /\ StreamMoves(local.stream, e, db, db')
    BY <1>0, <1>2
  <2>2. e.of = DEFAULT_FILTERS
    BY <2>1 DEF Latest, StreamMoves
  <2>3. CASE local.stream.at = "listed" /\ e.list = local.stream.list
    BY <1>5, <2>1, <2>2, <2>3 DEF Latest
  <2>4. CASE db' = db /\ e.list = ListedLogs(local.stream.of, db)
    <3>1. e.list = ListedLogs(DEFAULT_FILTERS, db) /\ db \in 0..db
      BY <1>0, <2>1, <2>4 DEF Latest
    <3> QED BY <1>0, <2>2, <2>4, <3>1 DEF Latest
  <2>5. CASE e.at # "listed"
    BY <2>2, <2>5 DEF Latest
  <2> QED BY <2>1, <2>3, <2>4, <2>5 DEF StreamMoves
<1>7. local.seen \subseteq 1..db'
  BY <1>0, <1>5
<1> QED BY <1>3, <1>4, <1>6, <1>7 DEF ConsoleInv

LEMMA ConsoleStreamStep == ASSUME ConsoleInv, LogStreamFails \/ LogStreamEnds \/ ConsoleRetries PROVE ConsoleInv'
<1>0. db \in Nat /\ Console(local) /\ local \in ConsoleState /\ local.seen \subseteq 1..db
  BY DEF ConsoleInv, Console
<1> DEFINE x == ConnectSSE(DEFAULT_FILTERS)
<1>1. StreamOk(x, db) /\ Latest(x, local.seen, db) /\ x \in Streams \cup {None} /\ None \in Streams \cup {None} /\ TRUE \in BOOLEAN /\ FALSE \in BOOLEAN
  BY DefaultIsFilter, Connected DEF StreamOk, Latest
<1> HIDE DEF x
<1>5. ASSUME NEW s \in Streams \cup {None}, NEW retry \in BOOLEAN, local' = Streaming(local, s, retry)
      PROVE  Console(local') /\ local'.stream = s /\ local'.seen = local.seen
  BY <1>0, <1>5, ConsoleStreams
<1>2. CASE LogStreamFails
  <2>1. local' = Streaming(local, None, TRUE) /\ db' = db
    BY <1>2 DEF LogStreamFails, Do, Streaming
  <2>2. Console(local') /\ local'.stream = None /\ local'.seen = local.seen
    BY <1>0, <1>1, <1>5, <2>1
  <2>3. local'.seen \subseteq 1..db' /\ db' \in Nat
    BY <1>0, <2>1, <2>2
  <2> QED BY Zenon, <2>2, <2>3 DEF ConsoleInv
<1>3. CASE LogStreamEnds
  <2>1. local' = Streaming(local, None, local.retry) /\ db' = db /\ local.retry \in BOOLEAN
    BY <1>0, <1>3 DEF LogStreamEnds, Do, ConsoleState, Streaming
  <2>2. Console(local') /\ local'.stream = None /\ local'.seen = local.seen
    BY <1>0, <1>1, <1>5, <2>1
  <2>3. local'.seen \subseteq 1..db' /\ db' \in Nat
    BY <1>0, <2>1, <2>2
  <2> QED BY Zenon, <2>2, <2>3 DEF ConsoleInv
<1>4. CASE ConsoleRetries
  <2>1. local' = Streaming(local, x, FALSE) /\ db' = db
    <3>1. local' = [local EXCEPT !.retry = FALSE, !.stream = x] /\ db' = db
      BY <1>4 DEF ConsoleRetries, Do, x
    <3> QED BY <1>0, <3>1 DEF ConsoleState, Streaming
  <2>2. Console(local') /\ local'.stream = x /\ local'.seen = local.seen
    BY <1>0, <1>1, <1>5, <2>1
  <2>3. local'.seen \subseteq 1..db' /\ db' \in Nat
    BY <1>0, <2>1, <2>2
  <2>4. StreamOk(x, db') /\ Latest(x, local.seen, db')
    BY <1>1, <2>1
  <2> QED BY Zenon, <2>2, <2>3, <2>4 DEF ConsoleInv
<1> QED BY <1>2, <1>3, <1>4

\* The lines and what was seen, after a step that the user or the stream makes.
LEMMA ConsoleShows ==
    ASSUME NEW l, Console(l), NEW lines \in Seq(Nat), NEW buffer \in Seq(Nat), NEW seen \in SUBSET Nat,
           NEW base \in Nat, Len(lines) <= MaxShown, ~l.paused => buffer = << >>, SeenKept(seen, lines, buffer, base),
           NEW s \in Streams \cup {None},
           NEW e, e = Reading(l, lines, buffer, seen, base, s)
    PROVE  Console(e) /\ e.stream = s /\ e.seen = seen
<1>1. l \in ConsoleState
  BY DEF Console
<1>2. /\ e \in ConsoleState /\ e.lines = lines /\ e.paused = l.paused /\ e.buffer = buffer /\ e.seen = seen
      /\ e.base = base /\ e.stream = s
  BY <1>1 DEF ConsoleState, Streaming, Reading
<1> QED BY <1>2 DEF Console

LEMMA ConsoleReadStep == ASSUME ConsoleInv, ConsoleReads PROVE ConsoleInv'
<1>0. /\ db \in Nat /\ Console(local) /\ local \in ConsoleState /\ (local.stream # None => StreamOk(local.stream, db))
      /\ local.seen \subseteq 1..db /\ (local.stream # None => Latest(local.stream, local.seen, db))
  BY DEF ConsoleInv, Console
<1> DEFINE s == local.stream
<1>1. s \in Streams /\ StreamOk(s, db) /\ Latest(s, local.seen, db) /\ db' = db
  BY <1>0 DEF ConsoleReads, StreamOk, Do
<1>2. /\ local.lines \in Seq(Nat) /\ Len(local.lines) <= MaxShown /\ local.buffer \in Seq(Nat) /\ local.seen \in SUBSET Nat
      /\ (~local.paused => local.buffer = << >>) /\ SeenKept(local.seen, local.lines, local.buffer, local.base)
      /\ local.base \in Nat /\ s.list \in Seq(Nat) /\ s.chan \in Seq(Nat)
  BY <1>0, <1>1 DEF Console, ConsoleState, Streams
<1>3. CASE s.at = "listed"
  <2> DEFINE lines == LastLines(Reverse(s.list))
             seen == local.seen \cup ToSet(s.list)
             base == IF s.list = << >> THEN 0 ELSE Head(s.list)
             x == [s EXCEPT !.at = "open", !.list = << >>]
  <2>1. local' = Reading(local, lines, local.buffer, seen, base, x)
    <3>1. local' = [local EXCEPT !.lines = lines, !.seen = seen, !.base = base, !.stream.at = "open", !.stream.list = << >>]
      <4>1. local' = [local EXCEPT !.lines = lines, !.seen = @ \cup ToSet(s.list), !.base = base,
                                   !.stream.at = "open", !.stream.list = << >>]
        BY <1>3 DEF ConsoleReads, Do
      <4> HIDE DEF lines, base
      <4> QED BY <1>0, <4>1 DEF ConsoleState
    <3> HIDE DEF lines, seen, base
    <3> QED BY <1>0, <3>1 DEF ConsoleState, Reading
  <2>2. x \in Streams /\ x.of = s.of /\ x.at = "open" /\ x.chan = s.chan
    <3>1. << >> \in Seq(Nat)
      OBVIOUS
    <3> QED BY <1>1, <3>1 DEF Streams
  <2> HIDE DEF x
  <2>3. StreamOk(x, db)
    BY <1>1, <1>3, <2>2 DEF StreamOk
  <2>4. /\ lines \in Seq(Nat) /\ Len(lines) <= MaxShown
        /\ Len(lines) = MaxShown \/ \A e : Has(s.list, e) => Has(lines, e)
    <3> HIDE DEF s
    <3>1. Reverse(s.list) \in Seq(Nat) /\ \A e : Has(s.list, e) => Has(Reverse(s.list), e)
      BY <1>2, ReverseHas
    <3> DEFINE r == Reverse(s.list)
    <3> HIDE DEF r
    <3>2. /\ LastLines(r) \in Seq(Nat) /\ Len(LastLines(r)) <= MaxShown
          /\ Len(LastLines(r)) = MaxShown \/ \A e : Has(r, e) => Has(LastLines(r), e)
      BY <3>1, LastLinesAre DEF r
    <3> QED BY <3>1, <3>2 DEF r
  <2>5. PICK t \in 0..db : s.list = ListedLogs(DEFAULT_FILTERS, t) /\ local.seen \subseteq 1..t
    BY <1>1, <1>3 DEF Latest
  <2>6. /\ base \in Nat /\ \A e : Has(s.list, e) => e \in 1..t
        /\ \A e \in 1..t : Has(s.list, e) \/ e + ListLimit <= base
    <3>1. t \in Nat
      BY <1>0
    <3> HIDE DEF s
    <3> QED BY <2>5, <3>1, DefaultListed
  <2>7. seen \subseteq 1..t /\ seen \subseteq 1..db /\ seen \in SUBSET Nat
    <3>1. \A e \in ToSet(s.list) : e \in 1..t
      BY <1>2, <2>6, SeenRead
    <3>2. 1..t \subseteq 1..db /\ 1..t \subseteq Nat
      BY <1>0
    <3> QED BY <2>5, <3>1, <3>2
  <2> HIDE DEF lines, seen, base, s
  <2>8. SeenKept(seen, lines, local.buffer, base)
    BY <2>4, <2>6, <2>7 DEF SeenKept
  <2>9. Console(local') /\ local'.stream = x /\ local'.seen = seen
    <3>1. x \in Streams \cup {None} /\ local.buffer \in Seq(Nat) /\ (~local.paused => local.buffer = << >>)
      BY <1>2, <2>2
    <3>2. lines \in Seq(Nat) /\ Len(lines) <= MaxShown /\ seen \in SUBSET Nat /\ base \in Nat
      BY <2>4, <2>6, <2>7
    <3> QED BY <1>0, <2>1, <2>8, <3>1, <3>2, ConsoleShows
  <2>10. Latest(x, seen, db)
    BY <1>1, <2>2 DEF Latest
  <2> QED BY <1>0, <1>1, <2>3, <2>7, <2>9, <2>10 DEF ConsoleInv
<1>4. CASE s.at = "open" /\ s.chan # << >>
  <2> DEFINE e == Head(s.chan)
             seen == local.seen \cup {e}
             x == [s EXCEPT !.chan = Tail(s.chan)]
  <2>1. PICK lo : Unread(s.of, s.chan, lo, db)
    BY <1>1, <1>4 DEF StreamOk
  <2>2. e \in 1..db /\ Tail(s.chan) \in Seq(Nat) /\ Len(Tail(s.chan)) <= Len(s.chan) /\ Unread(s.of, Tail(s.chan), e, db)
    <3> HIDE DEF s
    <3> QED BY <1>0, <1>2, <1>4, <2>1, UnreadRead
  <2>3. x \in Streams /\ x.of = s.of /\ x.at = "open" /\ x.chan = Tail(s.chan)
    BY <1>1, <1>4, <2>2 DEF Streams
  <2>4. Len(Tail(s.chan)) <= ListLimit
    <3>1. Len(Tail(s.chan)) \in Nat /\ Len(s.chan) \in Nat /\ Len(s.chan) <= ListLimit
      BY <1>1, <1>2, <2>2, LenProperties DEF StreamOk
    <3> QED BY <2>2, <3>1, LimitsAssumption
  <2> HIDE DEF e
  <2>5. StreamOk(x, db)
    <3> HIDE DEF x, s
    <3> QED BY <2>2, <2>3, <2>4 DEF StreamOk
  <2>6. e \in Nat /\ seen \in SUBSET Nat
    BY <1>0, <1>2, <2>2
  <2>7. PICK lines \in Seq(Nat), buffer \in Seq(Nat) :
           /\ local' = Reading(local, lines, buffer, seen, local.base, x)
           /\ Len(lines) <= MaxShown /\ (~local.paused => buffer = << >>) /\ SeenKept(seen, lines, buffer, local.base)
    <3>1. CASE local.paused
      <4> DEFINE buffer == Append(local.buffer, e)
      <4>1. local' = [local EXCEPT !.stream.chan = Tail(@), !.seen = seen, !.buffer = Append(@, e)]
        <5>1. Do(IF local.paused THEN [[local EXCEPT !.stream.chan = Tail(@), !.seen = @ \cup {e}] EXCEPT !.buffer = Append(@, e)]
                 ELSE [[local EXCEPT !.stream.chan = Tail(@), !.seen = @ \cup {e}] EXCEPT !.lines = LastLines(Append(@, e))], calls)
          BY <1>0, <1>4 DEF ConsoleReads, ConsoleState, e
        <5>2. local' = [[local EXCEPT !.stream.chan = Tail(@), !.seen = @ \cup {e}] EXCEPT !.buffer = Append(@, e)]
          BY <3>1, <5>1 DEF Do
        <5> QED BY <1>0, <5>2 DEF ConsoleState
      <4>2. local' = Reading(local, local.lines, buffer, seen, local.base, x)
        BY <1>0, <4>1 DEF ConsoleState, Reading
      <4>3. buffer \in Seq(Nat) /\ Has(buffer, e) /\ \A d : Has(local.buffer, d) => Has(buffer, d)
        BY <1>2, <2>6, AppendHas
      <4> HIDE DEF buffer, x
      <4>4. SeenKept(seen, local.lines, buffer, local.base)
        BY <1>2, <4>3 DEF SeenKept
      <4> QED BY <1>2, <3>1, <4>2, <4>3, <4>4
    <3>2. CASE ~local.paused
      <4> DEFINE more == Append(local.lines, e)
                 lines == LastLines(more)
      <4>1. local' = [local EXCEPT !.stream.chan = Tail(@), !.seen = seen, !.lines = lines]
        <5>1. Do(IF local.paused THEN [[local EXCEPT !.stream.chan = Tail(@), !.seen = @ \cup {e}] EXCEPT !.buffer = Append(@, e)]
                 ELSE [[local EXCEPT !.stream.chan = Tail(@), !.seen = @ \cup {e}] EXCEPT !.lines = LastLines(Append(@, e))], calls)
          BY <1>0, <1>4 DEF ConsoleReads, ConsoleState, e
        <5>2. local' = [[local EXCEPT !.stream.chan = Tail(@), !.seen = @ \cup {e}] EXCEPT !.lines = LastLines(Append(@, e))]
          BY <3>2, <5>1 DEF Do
        <5> QED BY <1>0, <5>2 DEF ConsoleState
      <4>2. more \in Seq(Nat) /\ Len(more) = Len(local.lines) + 1 /\ Has(more, e) /\ \A d : Has(local.lines, d) => Has(more, d)
        BY <1>2, <2>6, AppendHas
      <4> HIDE DEF more
      <4>3. /\ lines \in Seq(Nat) /\ Len(lines) <= MaxShown
            /\ Len(lines) = MaxShown \/ \A d : Has(more, d) => Has(lines, d)
            /\ Len(more) >= MaxShown => Len(lines) = MaxShown
        BY <4>2, LastLinesAre
      <4> HIDE DEF lines
      <4>4. local' = Reading(local, lines, local.buffer, seen, local.base, x)
        BY <1>0, <4>1 DEF ConsoleState, Reading
      <4>5. SeenKept(seen, lines, local.buffer, local.base)
        <5>1. Len(local.lines) = MaxShown => Len(more) >= MaxShown
          BY <4>2, LimitsAssumption
        <5> QED BY <1>2, <4>2, <4>3, <5>1 DEF SeenKept
      <4> QED BY <1>2, <3>2, <4>3, <4>4, <4>5
    <3> QED BY <3>1, <3>2
  <2>9. Latest(x, seen, db) /\ seen \subseteq 1..db
    BY <1>0, <1>1, <2>2, <2>3 DEF Latest
  <2> HIDE DEF x, seen
  <2>8. Console(local') /\ local'.stream = x /\ local'.seen = seen
    <3>1. x \in Streams \cup {None} /\ local.base \in Nat
      BY <1>2, <2>3
    <3> QED BY <1>0, <2>6, <2>7, <3>1, ConsoleShows
  <2> QED BY <1>0, <1>1, <2>5, <2>8, <2>9 DEF ConsoleInv
<1> QED BY <1>3, <1>4 DEF ConsoleReads

LEMMA ConsoleAskStep == ASSUME ConsoleInv, handleTogglePause \/ ClearConsole PROVE ConsoleInv'
<1>0. /\ db \in Nat /\ Console(local) /\ local \in ConsoleState /\ (local.stream # None => StreamOk(local.stream, db))
      /\ local.seen \subseteq 1..db /\ (local.stream # None => Latest(local.stream, local.seen, db))
  BY DEF ConsoleInv, Console
<1>1. /\ local.lines \in Seq(Nat) /\ Len(local.lines) <= MaxShown /\ local.buffer \in Seq(Nat)
      /\ (~local.paused => local.buffer = << >>) /\ SeenKept(local.seen, local.lines, local.buffer, local.base)
  BY <1>0 DEF Console, ConsoleState
<1>2. << >> \in Seq(Nat) /\ Len(<< >>) <= MaxShown
  BY LimitsAssumption
<1>3. CASE ClearConsole
  <2>1. /\ local' = [local EXCEPT !.lines = << >>, !.buffer = << >>, !.seen = {}, !.left = local.left - 1]
        /\ local.left > 0 /\ db' = db
    BY <1>0, <1>3 DEF ClearConsole, Ask, Do, ConsoleState
  <2>2. local.left - 1 \in Nat
    BY <1>0, <2>1 DEF ConsoleState
  <2>3. /\ local' \in ConsoleState /\ local'.lines = << >> /\ local'.buffer = << >> /\ local'.seen = {}
        /\ local'.stream = local.stream
    BY <1>0, <1>2, <2>1, <2>2 DEF ConsoleState
  <2>4. local.stream # None => Latest(local.stream, {}, db)
    BY <1>0 DEF Latest
  <2> QED BY <1>0, <1>2, <2>1, <2>3, <2>4 DEF ConsoleInv, Console, SeenKept
<1>4. CASE handleTogglePause
  <2> DEFINE x == ConnectSSE(DEFAULT_FILTERS)
             more == local.lines \o local.buffer
             lines == IF local.paused THEN LastLines(more) ELSE local.lines
             paused == ~local.paused
  <2>1. /\ local' = [local EXCEPT !.paused = paused, !.buffer = << >>, !.retry = FALSE, !.stream = x, !.lines = lines,
                                 !.left = local.left - 1]
        /\ local.left > 0 /\ db' = db
    <3>1. /\ local' = [[local EXCEPT !.paused = ~@, !.buffer = << >>, !.retry = FALSE, !.stream = ConnectSSE(DEFAULT_FILTERS),
                          !.lines = IF local.paused THEN LastLines(@ \o local.buffer) ELSE @] EXCEPT !.left = @ - 1]
          /\ local.left > 0 /\ db' = db
      BY <1>4 DEF handleTogglePause, Ask, Do
    <3> QED BY <1>0, <3>1 DEF ConsoleState
  <2>2. local.left - 1 \in Nat
    BY <1>0, <2>1 DEF ConsoleState
  <2>3. StreamOk(x, db) /\ x \in Streams /\ Latest(x, local.seen, db)
    BY DefaultIsFilter, Connected DEF StreamOk, Latest
  <2>4. more \in Seq(Nat) /\ \A e : Has(local.lines, e) \/ Has(local.buffer, e) => Has(more, e)
    BY <1>1, ConcatHas
  <2>5. Len(local.lines) = MaxShown => Len(more) >= MaxShown
    <3>1. Len(more) = Len(local.lines) + Len(local.buffer) /\ Len(local.buffer) \in Nat /\ Len(local.lines) \in Nat
      BY <1>1, ConcatProperties, LenProperties
    <3> HIDE DEF more
    <3> QED BY <3>1, LimitsAssumption
  <2> HIDE DEF x, more
  <2>6. /\ LastLines(more) \in Seq(Nat) /\ Len(LastLines(more)) <= MaxShown
        /\ Len(LastLines(more)) = MaxShown \/ \A e : Has(more, e) => Has(LastLines(more), e)
        /\ Len(more) >= MaxShown => Len(LastLines(more)) = MaxShown
    BY <2>4, LastLinesAre
  <2>7. lines \in Seq(Nat) /\ Len(lines) <= MaxShown /\ SeenKept(local.seen, lines, << >>, local.base)
    <3>1. CASE local.paused
      BY <1>1, <2>4, <2>5, <2>6, <3>1 DEF SeenKept
    <3>2. CASE ~local.paused
      BY <1>1, <3>2
    <3> QED BY <3>1, <3>2
  <2>8. paused \in BOOLEAN
    OBVIOUS
  <2> HIDE DEF lines, paused
  <2>9. /\ local' \in ConsoleState /\ local'.lines = lines /\ local'.buffer = << >> /\ local'.seen = local.seen
        /\ local'.base = local.base /\ local'.stream = x
    BY <1>0, <1>2, <2>1, <2>2, <2>3, <2>7, <2>8 DEF ConsoleState
  <2> QED BY <1>0, <2>1, <2>3, <2>7, <2>9 DEF ConsoleInv, Console
<1> QED BY <1>3, <1>4

LEMMA ConsoleHolds == Spec => [](screen = "console" => ConsoleInv)
<1> DEFINE I == screen = "console" => ConsoleInv
<1>1. Init => I
  BY ConsoleStarts DEF Init, ShellInit, DeviceInit, BrowserInit, BulkInit, AddInit, ConnectionsInit, CardsInit, RulesInit,
     AdminInit, ChatInit, PicturesInit, LogsInit, FeedInit, SettingsInit, ToolsInit, TunnelInit
<1>2. I /\ [Next]_uiVars => I'
  <2> SUFFICES ASSUME I, [Next]_uiVars, screen' = "console" PROVE ConsoleInv'
    OBVIOUS
  <2>1. screen = "console"
    BY OneScreen
  <2>2. CASE ConsoleNext
    <3>1. CASE handleTogglePause \/ ClearConsole
      BY <2>1, <3>1, ConsoleAskStep
    <3>2. CASE LogStreamFails \/ LogStreamEnds \/ ConsoleRetries
      BY <2>1, <3>2, ConsoleStreamStep
    <3> QED BY <2>1, <2>2, <3>1, <3>2, ConsoleServerStep, ConsoleReadStep DEF ConsoleNext
  <2>3. CASE UNCHANGED uiVars
    BY <2>1, <2>3 DEF uiVars, ConsoleInv
  <2> QED BY <2>1, <2>2, <2>3 DEF Next
<1> QED BY <1>1, <1>2, PTL DEF Spec

-----------------------------------------------------------------------------
(* The live feed. *)

FeedState == [left : Nat, entries : Seq(Nat), paused : BOOLEAN, stream : {None}]
FeedCalls(cs) ==
    \A n \in DOMAIN cs : IsCall(cs[n]) /\ (cs[n].at = "served" => cs[n].got \in Seq(Nat) /\ NewestFirst(cs[n].got))
FeedInv == db \in Nat /\ local \in FeedState /\ NewestFirst(local.entries) /\ FeedCalls(calls)

LEMMA FeedPolls == ASSUME NEW cs, FeedCalls(cs) PROVE FeedCalls(Plus(cs, Call("feed", None)))
<1> DEFINE c == Call("feed", None)
<1>1. IsCall(c) /\ c.at = "sent"
  BY CallSent
<1> HIDE DEF c
<1>2. FeedCalls(Plus(cs, c))
  BY <1>1, PlusCalls DEF FeedCalls
<1> QED BY <1>2 DEF c

LEMMA NoneNewest == NewestFirst(<< >>) /\ << >> \in Seq(Nat)
BY DEF NewestFirst

LEMMA FeedSteps == ASSUME FeedInv, FeedNext PROVE FeedInv'
<1>0. db \in Nat /\ local \in FeedState /\ NewestFirst(local.entries) /\ FeedCalls(calls)
  BY DEF FeedInv
<1>1. CASE Written
  <2>1. local' = local /\ calls' = calls /\ db' = db + 1
    BY <1>0, <1>1 DEF Written, FeedState
  <2> QED BY <1>0, <2>1 DEF FeedInv
<1>2. CASE Poll
  <2>1. local' = local /\ calls' = Plus(calls, Call("feed", None)) /\ db' = db
    BY <1>2 DEF Poll, Do
  <2> QED BY <1>0, <2>1, FeedPolls DEF FeedInv
<1>3. CASE PauseFeed
  <2> DEFINE cs == IF local.paused THEN Plus(calls, Call("feed", None)) ELSE calls
             paused == ~local.paused
  <2>1. local' = [local EXCEPT !.paused = paused, !.left = local.left - 1] /\ calls' = cs /\ db' = db /\ local.left > 0
    <3> HIDE DEF cs
    <3>1. local' = [[local EXCEPT !.paused = ~@] EXCEPT !.left = @ - 1] /\ calls' = cs /\ db' = db /\ local.left > 0
      BY <1>3 DEF PauseFeed, Ask, Do, cs
    <3> QED BY <1>0, <3>1 DEF FeedState
  <2>2. FeedCalls(cs)
    BY <1>0, FeedPolls
  <2>3. paused \in BOOLEAN /\ local.left - 1 \in Nat
    BY <1>0, <2>1 DEF FeedState
  <2> HIDE DEF cs, paused
  <2>4. local' \in FeedState /\ local'.entries = local.entries
    BY <1>0, <2>1, <2>3 DEF FeedState
  <2> QED BY <1>0, <2>1, <2>2, <2>4 DEF FeedInv
<1>4. CASE ClearFeed
  <2>1. local' = [local EXCEPT !.entries = << >>, !.left = local.left - 1] /\ calls' = calls /\ db' = db /\ local.left > 0
    BY <1>0, <1>4 DEF ClearFeed, Ask, Do, FeedState
  <2>2. local' \in FeedState /\ local'.entries = << >>
    <3>1. local.left - 1 \in Nat
      BY <1>0, <2>1 DEF FeedState
    <3> QED BY <1>0, <2>1, <3>1, NoneNewest DEF FeedState
  <2> QED BY <1>0, <2>1, <2>2, NoneNewest DEF FeedInv
<1>5. ASSUME NEW n \in DOMAIN calls, FeedAnswers(n) PROVE FeedInv'
  <2> DEFINE got == calls[n].got
  <2>1. /\ calls' = Minus(calls, n) /\ db' = db
        /\ local' = IF Served(n) THEN [local EXCEPT !.entries = got] ELSE local
    BY <1>5 DEF FeedAnswers, Do
  <2>2. FeedCalls(calls')
    BY <1>0, <2>1, MinusCalls DEF FeedCalls
  <2>3. Served(n) => got \in Seq(Nat) /\ NewestFirst(got)
    BY <1>0 DEF FeedCalls, Served
  <2> HIDE DEF got
  <2>4. local' \in FeedState /\ NewestFirst(local'.entries)
    <3>1. CASE Served(n)
      <4>1. local' = [local EXCEPT !.entries = got]
        BY <2>1, <3>1
      <4>2. local' \in FeedState /\ local'.entries = got
        BY <1>0, <2>3, <3>1, <4>1 DEF FeedState
      <4> QED BY <2>3, <3>1, <4>2
    <3>2. CASE ~Served(n)
      BY <1>0, <2>1, <3>2
    <3> QED BY <3>1, <3>2
  <2> QED BY <1>0, <2>1, <2>2, <2>4 DEF FeedInv
<1>6. ASSUME NEW n \in DOMAIN calls, Serve(n, db, ListedLogs(DEFAULT_FILTERS, db)) \/ Lose(n) PROVE FeedInv'
  <2> DEFINE got == ListedLogs(DEFAULT_FILTERS, db)
  <2>1. AreCalls
    BY <1>0 DEF FeedCalls, AreCalls
  <2>2. got \in Seq(Nat) /\ NewestFirst(got)
    <3>1. got \in Seq(1..db) /\ NewestFirst(got)
      BY <1>0, ListedIs
    <3>2. 1..db \subseteq Nat
      OBVIOUS
    <3> QED BY <3>1, <3>2, SeqMonotonic
  <2> HIDE DEF got
  <2>3. /\ DOMAIN calls' = DOMAIN calls /\ db' = db /\ local' = local
        /\ \A m \in DOMAIN calls : SameCall(calls'[m], calls[m]) /\ (m # n => calls'[m] = calls[m])
        /\ calls'[n].at = "served" => calls'[n].got = got
    <3>1. CASE Serve(n, db, got)
      BY <2>1, <3>1, ServeCalls
    <3>2. CASE Lose(n)
      BY <2>1, <3>2, LoseCalls
    <3> QED BY <1>6, <3>1, <3>2 DEF got
  <2>4. FeedCalls(calls')
    BY <1>0, <2>2, <2>3 DEF FeedCalls, SameCall
  <2> QED BY <1>0, <2>3, <2>4 DEF FeedInv
<1> QED BY <1>1, <1>2, <1>3, <1>4, <1>5, <1>6 DEF FeedNext

LEMMA FeedHolds == Spec => [](screen = "feed" => FeedInv)
<1> DEFINE I == screen = "feed" => FeedInv
<1>1. Init => I
  <2>1. FeedInit => FeedInv
    <3> SUFFICES ASSUME FeedInit PROVE FeedInv
      OBVIOUS
    <3>1. local = [left |-> MaxClicks, entries |-> << >>, paused |-> FALSE, stream |-> None]
          /\ calls = Plus(NoCalls, Call("feed", None)) /\ db = 0
      BY DEF FeedInit
    <3>2. local \in FeedState /\ local.entries = << >>
      BY <3>1, NoneNewest, BoundsAssumption DEF FeedState
    <3>3. FeedCalls(calls)
      <4>1. FeedCalls(NoCalls)
        BY NoCallsEmpty DEF FeedCalls
      <4> QED BY <3>1, <4>1, FeedPolls
    <3> QED BY <3>1, <3>2, <3>3, NoneNewest DEF FeedInv
  <2> QED BY <2>1 DEF Init, ShellInit, DeviceInit, BrowserInit, BulkInit, AddInit, ConnectionsInit, CardsInit, RulesInit,
         AdminInit, ChatInit, PicturesInit, LogsInit, ConsoleInit, SettingsInit, ToolsInit, TunnelInit
<1>2. I /\ [Next]_uiVars => I'
  <2> SUFFICES ASSUME I, [Next]_uiVars, screen' = "feed" PROVE FeedInv'
    OBVIOUS
  <2>1. screen = "feed"
    BY OneScreen
  <2>2. CASE FeedNext
    BY <2>1, <2>2, FeedSteps
  <2>3. CASE UNCHANGED uiVars
    BY <2>1, <2>3 DEF uiVars, FeedInv
  <2> QED BY <2>1, <2>2, <2>3 DEF Next
<1> QED BY <1>1, <1>2, PTL DEF Spec

LEMMA LinesKept == ASSUME screen = "console" => ConsoleInv, screen = "feed" => FeedInv PROVE ConsoleKeeps
<1>1. ASSUME screen = "console"
      PROVE  /\ \A e \in local.seen : \/ Contains(local.lines \o local.buffer, e)
                                         \/ e + ListLimit <= local.base
                                         \/ Len(local.lines) = MaxShown
             /\ Len(local.lines) <= MaxShown
  <2>1. Console(local) /\ local.lines \in Seq(Nat) /\ local.buffer \in Seq(Nat)
    BY <1>1 DEF ConsoleInv, Console, ConsoleState
  <2>2. \A e : Has(local.lines, e) \/ Has(local.buffer, e) => Contains(local.lines \o local.buffer, e)
    BY <2>1, ConcatHas
  <2> QED BY <2>1, <2>2 DEF Console, SeenKept
<1>2. screen = "feed" => NewestFirst(local.entries)
  BY DEF FeedInv
<1> QED BY <1>1, <1>2 DEF ConsoleKeeps

\* What is shown under a title belongs to it: the keys of a tenant
\* (tenant-keys-dialog.tsx); the rows of the filters in force, whichever
\* answers, lists and entries of a stream come in between (logs-screen.tsx); the
\* lines of the console through its pauses, but for those that the list of a
\* new connection is too short for (console-viewer.tsx).
THEOREM AnswersAreOwn == Spec => []AnswersOwn
<1>1. TenantKeysOwn /\ (screen = "logs" => LogsInv) /\ (screen = "console" => ConsoleInv) /\ (screen = "feed" => FeedInv)
        => AnswersOwn
  BY RowsMatch, LinesKept DEF AnswersOwn
<1> QED BY <1>1, TenantKeysAreOwn, LogsHold, ConsoleHolds, FeedHolds, PTL

=============================================================================
