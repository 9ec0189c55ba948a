----------------------------- MODULE RuleProofs ------------------------------
(***************************************************************************)
(* Proofs about the dashboard's pure rules, whose inputs do not change,    *)
(* and about the pictures of the playground.                               *)
(***************************************************************************)
EXTENDS LoginProofs, SequenceTheorems, FunctionTheorems

-----------------------------------------------------------------------------
(* The inputs of the rules. *)

LEMMA InputStays == Spec => [](screen = "rules" => RulesInit)
<1>1. Init => (screen = "rules" => RulesInit)
  BY DEF Init, ShellInit, DeviceInit, BrowserInit, BulkInit, AddInit, ConnectionsInit, CardsInit,
     AdminInit, ChatInit, PicturesInit, LogsInit, ConsoleInit, FeedInit, SettingsInit, ToolsInit, TunnelInit
<1>2. (screen = "rules" => RulesInit) /\ [Next]_uiVars => (screen = "rules" => RulesInit)'
  <2> SUFFICES ASSUME screen = "rules" => RulesInit, [Next]_uiVars, screen' = "rules" PROVE RulesInit'
    OBVIOUS
  <2>1. screen = "rules" /\ RulesInit
    BY OneScreen
  <2>2. UNCHANGED uiVars
    BY <2>1 DEF Next
  <2> QED BY <2>1, <2>2 DEF uiVars, RulesInit
<1> QED BY <1>1, <1>2, PTL DEF Spec

-----------------------------------------------------------------------------
(* Status: what the views say of one connection. *)

LEMMA FirstOfTwo ==
    ASSUME NEW S, NEW s \in Seq(S), NEW t \in Seq(S)
    PROVE  /\ s \o t \in Seq(S)
           /\ s \o t = <<>> <=> s = <<>> /\ t = <<>>
           /\ s # <<>> => Head(s \o t) = Head(s)
           /\ s = <<>> /\ t # <<>> => Head(s \o t) = Head(t)
<1>1. s \o t \in Seq(S) /\ Len(s \o t) = Len(s) + Len(t)
  OBVIOUS
<1>2. s \o t = <<>> <=> s = <<>> /\ t = <<>>
  BY <1>1
<1>3. ASSUME s # <<>> PROVE Head(s \o t) = Head(s)
  BY <1>1, <1>3
<1>4. ASSUME s = <<>>, t # <<>> PROVE Head(s \o t) = Head(t)
  BY <1>4
<1> QED BY <1>1, <1>2, <1>3, <1>4

LEMMA OneOrNone ==
    ASSUME NEW S, NEW k \in S, NEW so, NEW s, s = IF so THEN <<k>> ELSE <<>>
    PROVE  /\ s \in Seq(S)
           /\ s = <<>> <=> ~so
           /\ so => Head(s) = k
<1>1. <<k>> \in Seq(S) /\ Len(<<k>>) = 1 /\ Head(<<k>>) = k /\ <<>> \in Seq(S) /\ Len(<<>>) = 0
  OBVIOUS
<1> QED BY <1>1

\* A sequence with one more in front.
LEMMA ConsIs ==
    ASSUME NEW S, NEW x \in S, NEW s \in Seq(S)
    PROVE  /\ <<x>> \o s \in Seq(S) /\ Len(<<x>> \o s) = 1 + Len(s)
           /\ Head(<<x>> \o s) = x /\ Tail(<<x>> \o s) = s
<1>1. <<x>> \in Seq(S) /\ Len(<<x>>) = 1 /\ <<x>>[1] = x
  OBVIOUS
<1> DEFINE t == <<x>> \o s
<1>2. t \in Seq(S) /\ Len(t) = 1 + Len(s) /\ t[1] = x /\ \A i \in 1..Len(s) : t[i + 1] = s[i]
  BY <1>1
<1> HIDE DEF t
<1>3. Tail(t) \in Seq(S) /\ Len(Tail(t)) = Len(s) /\ \A i \in 1..Len(s) : Tail(t)[i] = t[i + 1]
  BY <1>2
<1>4. Tail(t) = s
  BY <1>2, <1>3
<1>5. Head(t) = x
  BY <1>2
<1> QED BY <1>2, <1>4, <1>5 DEF t

LEMMA Counted ==
    ASSUME NEW c
    PROVE  /\ DashboardCounts({c}).throttled = (IF c.limited THEN 1 ELSE 0) + (IF c.backoff THEN 1 ELSE 0)
           /\ DashboardCounts({c}).broken = (IF c.expired THEN 1 ELSE 0) + (IF c.error THEN 1 ELSE 0)
<1>1. Cardinality({c}) = 1 /\ Cardinality({}) = 0
  BY FS_Singleton, FS_EmptySet
<1> DEFINE Lone(so) == IF so THEN {c} ELSE {}
<1>2. /\ {d \in {c} : isRateLimited(d)} = Lone(c.limited)
      /\ {d \in {c} : hasBackoff(d)} = Lone(c.backoff)
      /\ {d \in {c} : isExpired(d)} = Lone(c.expired)
      /\ {d \in {c} : hasError(d)} = Lone(c.error)
  BY DEF isRateLimited, hasBackoff, isExpired, hasError
<1>3. ASSUME NEW so PROVE Cardinality(Lone(so)) = IF so THEN 1 ELSE 0
  BY <1>1
<1> HIDE DEF Lone
<1> QED BY <1>2, <1>3 DEF DashboardCounts

\* The reasons: none if nothing is wrong, else the worst one first.
LEMMA ReasonsAre ==
    ASSUME NEW c \in StatusInput
    PROVE  /\ attentionReasons(c) = <<>> <=> ~needsAttention(c)
           /\ needsAttention(c) => Head(attentionReasons(c)) = RANK_LABELS[attentionRank(c) + 1]
<1> DEFINE S == {"expired", "rate-limited", "error", "backoff", "model-locks"}
           says(k, so) == IF c.isActive /\ so THEN <<k>> ELSE <<>>
           s1 == says("expired", c.expired)
           s2 == says("rate-limited", c.limited)
           s3 == says("error", c.error)
           s4 == says("backoff", c.backoff)
           s5 == says("model-locks", c.locked)
           p2 == s1 \o s2
           p3 == p2 \o s3
           p4 == p3 \o s4
           p5 == p4 \o s5
<1>1. attentionReasons(c) = p5
  BY DEF attentionReasons, RANK_LABELS, isExpired, isRateLimited, hasError, hasBackoff, hasLocks
<1>2. /\ s1 \in Seq(S) /\ (s1 = <<>> <=> ~(c.isActive /\ c.expired))
      /\ s2 \in Seq(S) /\ (s2 = <<>> <=> ~(c.isActive /\ c.limited))
      /\ s3 \in Seq(S) /\ (s3 = <<>> <=> ~(c.isActive /\ c.error))
      /\ s4 \in Seq(S) /\ (s4 = <<>> <=> ~(c.isActive /\ c.backoff))
      /\ s5 \in Seq(S) /\ (s5 = <<>> <=> ~(c.isActive /\ c.locked))
  <2>1. ASSUME NEW k \in S, NEW so
        PROVE  says(k, so) \in Seq(S) /\ (says(k, so) = <<>> <=> ~(c.isActive /\ so))
    <3> HIDE DEF S
    <3> QED BY OneOrNone
  <2>2. /\ "expired" \in S /\ "rate-limited" \in S /\ "error" \in S /\ "backoff" \in S /\ "model-locks" \in S
    OBVIOUS
  <2> HIDE DEF says, S
  <2> QED BY <2>1, <2>2
<1>3. /\ s1 # <<>> => Head(s1) = "expired"
      /\ s2 # <<>> => Head(s2) = "rate-limited"
      /\ s3 # <<>> => Head(s3) = "error"
      /\ s4 # <<>> => Head(s4) = "backoff"
      /\ s5 # <<>> => Head(s5) = "model-locks"
  OBVIOUS
<1> HIDE DEF S, s1, s2, s3, s4, s5
<1>4. /\ p2 \in Seq(S) /\ (p2 = <<>> <=> s1 = <<>> /\ s2 = <<>>)
      /\ p2 # <<>> => Head(p2) = IF s1 # <<>> THEN Head(s1) ELSE Head(s2)
  BY <1>2, FirstOfTwo
<1> HIDE DEF p2
<1>5. /\ p3 \in Seq(S) /\ (p3 = <<>> <=> p2 = <<>> /\ s3 = <<>>)
      /\ p3 # <<>> => Head(p3) = IF p2 # <<>> THEN Head(p2) ELSE Head(s3)
  BY <1>2, <1>4, FirstOfTwo
<1> HIDE DEF p3
<1>6. /\ p4 \in Seq(S) /\ (p4 = <<>> <=> p3 = <<>> /\ s4 = <<>>)
      /\ p4 # <<>> => Head(p4) = IF p3 # <<>> THEN Head(p3) ELSE Head(s4)
  BY <1>2, <1>5, FirstOfTwo
<1> HIDE DEF p4
<1>7. /\ p5 \in Seq(S) /\ (p5 = <<>> <=> p4 = <<>> /\ s5 = <<>>)
      /\ p5 # <<>> => Head(p5) = IF p4 # <<>> THEN Head(p4) ELSE Head(s5)
  BY <1>2, <1>6, FirstOfTwo
<1> HIDE DEF p5
<1>8. /\ c.isActive \in BOOLEAN /\ c.limited \in BOOLEAN /\ c.expired \in BOOLEAN
      /\ c.backoff \in BOOLEAN /\ c.error \in BOOLEAN /\ c.locked \in BOOLEAN
  BY DEF StatusInput
<1>9. p5 = <<>> <=> ~(c.isActive /\ (c.expired \/ c.limited \/ c.error \/ c.backoff \/ c.locked))
  BY <1>2, <1>4, <1>5, <1>6, <1>7, <1>8
<1>10. p5 # <<>> => Head(p5) = IF c.expired THEN "expired" ELSE IF c.limited THEN "rate-limited"
                              ELSE IF c.error THEN "error" ELSE IF c.backoff THEN "backoff" ELSE "model-locks"
  BY <1>2, <1>3, <1>4, <1>5, <1>6, <1>7, <1>8
<1> QED
  BY <1>1, <1>8, <1>9, <1>10 DEF needsAttention, attentionRank, RANK_LABELS,
     isExpired, isRateLimited, hasError, hasBackoff, hasLocks

LEMMA StatusAgrees ==
    ASSUME NEW c \in StatusInput, screen = "rules", local = [about |-> "status", c |-> c]
    PROVE  AttentionAgrees
<1> DEFINE ill == needsAttention(c)
           worst == IF ill THEN RANK_LABELS[attentionRank(c) + 1] ELSE "none"
<1> USE DEF isExpired, isRateLimited, hasError, hasBackoff, hasLocks
<1>0. /\ c.isActive \in BOOLEAN /\ c.limited \in BOOLEAN /\ c.expired \in BOOLEAN
      /\ c.backoff \in BOOLEAN /\ c.error \in BOOLEAN /\ c.locked \in BOOLEAN
  BY DEF StatusInput
<1>1. ill <=> c.isActive /\ (c.expired \/ c.limited \/ c.backoff \/ c.error \/ c.locked)
  BY DEF needsAttention
<1>2. worst = IF ~ill THEN "none" ELSE IF c.expired THEN "expired" ELSE IF c.limited THEN "rate-limited"
              ELSE IF c.error THEN "error" ELSE IF c.backoff THEN "backoff" ELSE "model-locks"
  BY <1>0, <1>1 DEF attentionRank, RANK_LABELS
<1>3. ill <=> attentionRank(c) < 5
  BY <1>0, <1>1 DEF attentionRank
<1>4. /\ attentionReasons(c) = <<>> <=> ~ill
      /\ ill => Head(attentionReasons(c)) = worst
  BY ReasonsAre
<1> DEFINE more == ill /\ worst # "model-locks"
           cool == c.limited \/ c.expired \/ c.backoff \/ c.error
<1> HIDE DEF ill, worst
<1>5. healthBucket(c) = "attention" <=> ill
  BY <1>0, <1>1 DEF healthBucket, ill
<1>6. ChipMarks(c) <=> ill
  BY <1>0, <1>1 DEF SignalChip, ChipMarks
<1>7. DotMarks(c) <=> ill
  BY <1>0, <1>1 DEF StatusDot, DotMarks
<1>8. InFilter(c, "issues") <=> ill
  BY DEF InFilter, ill
<1>9. "!" \in PaletteMark(c) <=> ill
  BY <1>0, <1>1 DEF PaletteMark, ill
<1>10. CleanupGroup(c) # "none" <=> ill
  BY <1>0, <1>1 DEF CleanupGroup, ill
<1>11. CleanupGroup(c) \in {"expired", "rate-limited"} => CleanupGroup(c) = worst
  BY <1>0, <1>1, <1>2 DEF CleanupGroup, ill
<1>12. more <=> c.isActive /\ cool
  BY <1>0, <1>1, <1>2
<1>13. CardMarks(c) <=> more
  BY <1>0, <1>1, <1>12 DEF CardBadge, CardIssue, CardMarks
<1>14. SheetMarks(c) <=> cool
  BY <1>0 DEF SheetAttention, SheetBadges, SheetMarks
<1>15. DashboardMarks(c) <=> cool
  <2>1. /\ DashboardCounts({c}).throttled = (IF c.limited THEN 1 ELSE 0) + (IF c.backoff THEN 1 ELSE 0)
        /\ DashboardCounts({c}).broken = (IF c.expired THEN 1 ELSE 0) + (IF c.error THEN 1 ELSE 0)
    BY Counted, Zenon
  <2> QED BY <1>0, <2>1 DEF DashboardMarks
<1>16. InspectorMarks(c) <=> cool \/ c.locked
  BY <1>0 DEF InspectorPanel, InspectorBadges, InspectorMarks
<1>17. c.isActive => (Penalty(c) > 0 <=> more)
  BY <1>0, <1>12 DEF Penalty
<1>18. "reset" \in CardMenu(c) <=> IsTarget(c, "reset-cooldowns")
  BY <1>0 DEF CardMenu, IsTarget
<1>19. /\ "reset" \in InspectorRepairs(c) <=> IsTarget(c, "reset-cooldowns") /\ InspectorPanel(c)
       /\ "clear" \in InspectorRepairs(c) <=> IsTarget(c, "clear-errors")
  BY <1>0 DEF InspectorRepairs, InspectorPanel, IsTarget
<1>20. ill <=> c.isActive /\ (cool \/ c.locked)
  BY <1>0, <1>1
<1> HIDE DEF more, cool
<1>21. /\ CardMarks(c) <=> more
       /\ SheetMarks(c) <=> DashboardMarks(c)
       /\ InspectorMarks(c) <=> SheetMarks(c) \/ hasLocks(c)
       /\ c.isActive => (InspectorMarks(c) <=> ill) /\ (SheetMarks(c) <=> more) /\ (Penalty(c) > 0 <=> more)
  BY <1>0, <1>12, <1>13, <1>14, <1>15, <1>16, <1>17, <1>20
<1>22. local.c = c /\ local.about = "status"
  OBVIOUS
<1> QED
  BY <1>3, <1>4, <1>5, <1>6, <1>7, <1>8, <1>9, <1>10, <1>11, <1>18, <1>19, <1>21, <1>22
  DEF AttentionAgrees, ill, worst, more

\* The filter, the order, the reasons and the marks of a row agree on which
\* connections have a problem and which is the worst one; the other views differ
\* in locked models and in inactive connections only (connection-status.ts).
THEOREM ViewsAgree == Spec => []AttentionAgrees
<1>1. (screen = "rules" => RulesInit) => AttentionAgrees
  <2> SUFFICES ASSUME screen = "rules", RulesInit, local.about = "status" PROVE AttentionAgrees
    BY DEF AttentionAgrees
  <2>1. PICK c \in StatusInput : local = [about |-> "status", c |-> c]
    BY DEF RulesInit
  <2> QED BY <2>1, StatusAgrees
<1> QED BY <1>1, InputStays, PTL

-----------------------------------------------------------------------------
(* Model lists. *)

\* A name with a part in front.
LEMMA PartIs ==
    ASSUME NEW S, NEW x \in S, NEW m \in Seq(S), Len(m) >= 1
    PROVE  <<x>> \o m \in Seq(S) /\ Len(<<x>> \o m) = 1 + Len(m) /\ Strip(<<x>> \o m) = m
BY ConsIs DEF Strip

\* The parts of names.
NameParts == Names \cup {"v", "p"}
LEMMA StorableIs ==
    ASSUME NEW m \in Storable
    PROVE  /\ m \in Seq(NameParts) /\ Len(m) >= 1 /\ Strip(m) \in Single
           /\ Strip(m) = m <=> m \in Single
<1> DEFINE S == NameParts
<1>1. ASSUME NEW n \in Single PROVE n \in Seq(S) /\ Len(n) = 1 /\ Strip(n) = n
  <2>1. PICK x \in Names : n = <<x>>
    BY DEF Single
  <2>2. x \in S
    BY DEF NameParts
  <2> HIDE DEF S
  <2> QED BY <2>1, <2>2 DEF Strip
<1>2. ASSUME NEW n \in Single, m = <<"v">> \o n
      PROVE  m \in Seq(S) /\ Len(m) = 2 /\ Strip(m) = n
  <2>1. "v" \in S
    BY DEF NameParts
  <2> HIDE DEF S
  <2> QED BY <1>1, <1>2, <2>1, PartIs
<1> HIDE DEF S
<1>3. CASE m \in Single
  BY <1>1, <1>3 DEF S
<1>4. ASSUME NEW n \in Single, m = <<"v">> \o n PROVE m \in Seq(S) /\ Len(m) >= 1 /\ Strip(m) = n /\ m \notin Single
  <2>1. m \in Seq(S) /\ Len(m) = 2 /\ Strip(m) = n
    BY <1>2, <1>4
  <2>2. m \in Single => Len(m) = 1
    BY <1>1
  <2> QED BY <2>1, <2>2
<1>5. m \in Single \/ \E n \in Single : m = <<"v">> \o n
  BY DEF Storable
<1> QED BY <1>1, <1>3, <1>4, <1>5 DEF S

LEMMA TypedIs == ASSUME NEW m \in Typed PROVE Strip(m) \in Storable
<1>1. CASE m \in Storable
  BY <1>1, StorableIs DEF Storable
<1>2. ASSUME NEW n \in Storable, m = <<"p">> \o n PROVE Strip(m) \in Storable
  <2>1. n \in Seq(NameParts) /\ Len(n) >= 1 /\ "p" \in NameParts
    BY StorableIs DEF NameParts
  <2> QED BY <1>2, <2>1, PartIs
<1> QED BY <1>1, <1>2 DEF Typed

\* What a dialog shows of a name is stripped as the name is.
LEMMA ShownIs ==
    ASSUME NEW m \in Storable, NEW prefix \in {"p", "q"}
    PROVE  Strip(withPrefix(m, prefix)) = Strip(m)
<1>1. m \in Seq(NameParts) /\ Len(m) >= 1
  BY StorableIs
<1>2. CASE Len(m) > 1
  BY <1>2 DEF withPrefix
<1>3. CASE ~(Len(m) > 1)
  <2> DEFINE S == NameParts \cup {"q"}
  <2>1. m \in Seq(S) /\ prefix \in S
    BY <1>1 DEF NameParts
  <2> HIDE DEF S
  <2>2. Strip(<<prefix>> \o m) = m
    BY <1>1, <2>1, PartIs
  <2>3. Strip(m) = m
    BY <1>3 DEF Strip
  <2> QED BY <1>3, <2>2, <2>3 DEF withPrefix
<1> QED BY <1>2, <1>3

LEMMA ReSavedIs ==
    ASSUME NEW models \in SUBSET Storable, NEW prefix \in {"p", "q"}
    PROVE  ReSaved(models, prefix) = Stripped(models)
BY ShownIs DEF ReSaved, Stripped

LEMMA GreatestOf ==
    ASSUME NEW k \in Nat, NEW R \in SUBSET (1..k), R # {}
    PROVE  \E i \in R : \A j \in R : j <= i
<1>1. {k - i : i \in R} \subseteq Nat /\ {k - i : i \in R} # {}
  <2>1. \A i \in R : i \in 1..k /\ k - i \in Nat
    OBVIOUS
  <2> QED BY <2>1
<1>2. PICK x \in {k - i : i \in R} : \A y \in {k - i : i \in R} : x <= y
  BY <1>1, LeastOf
<1>3. PICK i \in R : x = k - i
  BY <1>2
<1>4. ASSUME NEW j \in R PROVE j <= i
  <2>1. x <= k - j
    BY <1>2
  <2> QED BY <1>3, <2>1
<1> QED BY <1>4

\* A name is renamed to the outcome of a row that names it.
LEMMA RenamedIs ==
    ASSUME NEW m, NEW ops, NEW k \in Nat, DOMAIN ops.renames = 1..k
    PROVE  /\ m \notin Stripped(Froms(ops)) => Renamed(m, ops.renames) = m
           /\ m \in Stripped(Froms(ops)) => Renamed(m, ops.renames) \in Brings(ops)
<1> DEFINE R == RowsOf(m, ops.renames)
<1>1. R \in SUBSET (1..k) /\ (R # {} <=> m \in Stripped(Froms(ops)))
  BY DEF RowsOf, Stripped, Froms
<1>2. R # {} => LastOf(R) \in R
  <2> HIDE DEF R
  <2>1. ASSUME R # {} PROVE \E i \in R : \A j \in R : j <= i
    BY <1>1, <2>1, GreatestOf
  <2> QED BY <2>1 DEF LastOf
<1> HIDE DEF R
<1> QED BY <1>1, <1>2 DEF Renamed, R, Brings

LEMMA ModelListsAre ==
    ASSUME NEW stored \in SUBSET Storable, NEW ops \in SomeOps,
           screen = "rules", local = [about |-> "models", stored |-> stored, ops |-> ops]
    PROVE  ModelListsSound
<1> DEFINE kept == Stripped(stored)
           after == Applied(stored, ops)
           known == buildKnownModelIndex({withPrefix(m, "p") : m \in Single \ Stripped(ops.remove)})
           shared == BulkPrefill(<<stored, after>>, TRUE)
           none == [add |-> {}, remove |-> {}, renames |-> <<>>]
<1>1. PICK k \in Nat : /\ ops.add \subseteq Typed /\ ops.remove \subseteq Storable
                       /\ ops.renames \in [1..k -> [from : Storable, to : Single]]
  BY DEF SomeOps, Some
<1>2. DOMAIN ops.renames = 1..k /\ \A i \in 1..k : ops.renames[i].from \in Storable /\ ops.renames[i].to \in Single
  BY <1>1
<1>3. Single \subseteq Storable /\ \A m \in Single : Strip(m) = m
  BY StorableIs DEF Storable
<1>4. kept \subseteq Single /\ Stripped(ops.add) \subseteq Storable /\ Brings(ops) \subseteq Storable
  BY <1>1, <1>2, <1>3, StorableIs, TypedIs DEF Stripped, Brings
<1>5. \A m \in kept : /\ m \notin Stripped(Froms(ops)) => Renamed(m, ops.renames) = m
                      /\ m \in Stripped(Froms(ops)) => Renamed(m, ops.renames) \in Brings(ops)
  BY <1>2, RenamedIs
<1>6. Stripped(ops.add) \cup (kept \ Takes(ops)) \subseteq after
  BY <1>5 DEF Applied, Takes
<1>7. after \subseteq kept \cup Brings(ops)
  BY <1>5 DEF Applied, Brings
<1>8. after \subseteq Storable
  BY <1>3, <1>4, <1>7
<1>9. Separate(ops) => after \cap Takes(ops) = {}
  BY <1>5 DEF Applied, Takes, Brings, Separate
<1> HIDE DEF kept, after
<1>10. ASSUME Separate(ops), Plain(after)
       PROVE  /\ Applied(after, ops) = after
              /\ Conflicts(after, ops) = {m \in Froms(ops) : Strip(m) \notin Stripped(ops.remove)}
              /\ findLegacyModels(after, known) = {}
  <2>1. Stripped(after) = after
    BY <1>10 DEF Stripped, Plain
  <2>2. Applied(after, ops) = after
    <3>1. after \ Stripped(ops.remove) = after
      BY <1>9, <1>10 DEF Takes
    <3>2. \A m \in after : Renamed(m, ops.renames) = m
      BY <1>2, <1>9, <1>10, RenamedIs DEF Takes
    <3> QED BY <1>6, <2>1, <3>1, <3>2 DEF Applied
  <2>3. Conflicts(after, ops) = {m \in Froms(ops) : Strip(m) \notin Stripped(ops.remove)}
    BY <1>9, <1>10, <2>1 DEF Conflicts, Takes, Stripped
  <2>4. ASSUME NEW m \in after PROVE Strip(m) \in known
    <3>1. m \in Single /\ Strip(m) = m /\ m \notin Stripped(ops.remove)
      BY <1>8, <1>9, <1>10, StorableIs DEF Plain, Takes
    <3>2. Strip(withPrefix(m, "p")) = m
      BY <1>3, <3>1, ShownIs
    <3> QED BY <3>1, <3>2 DEF buildKnownModelIndex, Stripped
  <2> QED BY <2>2, <2>3, <2>4 DEF findLegacyModels
<1>11. ReSaved(stored, "p") = kept
  BY ReSavedIs DEF kept
<1>12. Applied(stored, none) = kept
  BY DEF Applied, Renamed, RowsOf, Stripped, kept
<1>13. Plain(stored) => kept = stored
  BY DEF Plain, Stripped, kept
<1>14. ASSUME BulkCanApply("replace", shared), NEW m \in Storable, Serves(ReSaved(shared, "q"), m)
       PROVE  Serves(kept, m) /\ Serves(Stripped(after), m)
  <2>1. shared = stored \cap after
    BY DEF BulkPrefill, Shared
  <2> HIDE DEF shared
  <2>2. ReSaved(shared, "q") = Stripped(shared) /\ shared # {}
    BY <1>14, <2>1, ReSavedIs DEF BulkCanApply
  <2> QED BY <1>14, <2>1, <2>2 DEF Serves, Stripped, kept
<1> HIDE DEF known, shared, none
<1>15. local.stored = stored /\ local.ops = ops
  OBVIOUS
<1> QED BY <1>6, <1>7, <1>10, <1>11, <1>12, <1>13, <1>14, <1>15
        DEF ModelListsSound, kept, after, known, shared, none

\* A migration of model lists can be retried if no outcome is an input and no
\* vendor's name is left, and loses nothing that it does not name but vendors'
\* names; a dialog saved unchanged loses just these, and the bulk dialog opens
\* no connection to other models (model-ops.ts, legacy-models.ts,
\* EditModelsModal, BulkModelsModal).
THEOREM ModelListsAreSound == Spec => []ModelListsSound
<1>1. (screen = "rules" => RulesInit) => ModelListsSound
  <2> SUFFICES ASSUME screen = "rules", RulesInit, local.about = "models" PROVE ModelListsSound
    BY DEF ModelListsSound
  <2>1. PICK S \in SUBSET Storable, o \in SomeOps : local = [about |-> "models", stored |-> S, ops |-> o]
    BY DEF RulesInit
  <2> QED BY <2>1, ModelListsAre
<1> QED BY <1>1, InputStays, PTL

-----------------------------------------------------------------------------
(* What is made step by step. *)

\* There is a sequence of values, each made from the one before.
Stepping(step, base, S, N) == base \in S /\ N \in Nat /\ step \in [1..N -> [S -> S]]
LEMMA Recursion ==
    ASSUME NEW S, NEW base, NEW N, NEW step, Stepping(step, base, S, N)
    PROVE  \E f \in [0..N -> S] : f[0] = base /\ \A k \in 1..N : f[k] = step[k][f[k - 1]]
<1> base \in S /\ N \in Nat /\ step \in [1..N -> [S -> S]]
  BY DEF Stepping
<1> DEFINE Good(n) == \E f \in [0..n -> S] : f = [k \in 0..n |-> IF k = 0 THEN base ELSE step[k][f[k - 1]]]
           T == {n \in 0..N : ~Good(n)}
<1>1. Good(0)
  <2> DEFINE f == [k \in 0..0 |-> base]
  <2>1. f \in [0..0 -> S] /\ f = [k \in 0..0 |-> IF k = 0 THEN base ELSE step[k][f[k - 1]]]
    OBVIOUS
  <2> QED BY <2>1
<1>2. ASSUME NEW n \in 1..N, Good(n - 1) PROVE Good(n)
  <2>1. PICK f \in [0..(n - 1) -> S] : f = [k \in 0..(n - 1) |-> IF k = 0 THEN base ELSE step[k][f[k - 1]]]
    BY <1>2
  <2> DEFINE g == [k \in 0..n |-> IF k = n THEN step[n][f[n - 1]] ELSE f[k]]
  <2>2. g \in [0..n -> S] /\ \A k \in 0..(n - 1) : g[k] = f[k]
    <3>1. f[n - 1] \in S
      BY <2>1
    <3> QED BY <3>1
  <2>3. \A k \in 0..n : g[k] = IF k = 0 THEN base ELSE step[k][g[k - 1]]
    <3> SUFFICES ASSUME NEW k \in 0..n PROVE g[k] = IF k = 0 THEN base ELSE step[k][g[k - 1]]
      OBVIOUS
    <3>1. CASE k = n
      BY <2>2, <3>1
    <3>2. CASE k # n
      <4>1. k \in 0..(n - 1) /\ g[k] = f[k] /\ (k # 0 => k - 1 \in 0..(n - 1))
        BY <2>2, <3>2
      <4>2. f[k] = IF k = 0 THEN base ELSE step[k][f[k - 1]]
        BY <2>1, <4>1
      <4> QED BY <4>1, <4>2, <2>2
    <3> QED BY <3>1, <3>2
  <2> HIDE DEF g
  <2>4. g = [k \in 0..n |-> IF k = 0 THEN base ELSE step[k][g[k - 1]]]
    BY <2>2, <2>3
  <2> QED BY <2>2, <2>4
<1>3. T = {}
  <2> SUFFICES ASSUME T # {} PROVE FALSE
    OBVIOUS
  <2> HIDE DEF Good
  <2>0. T \subseteq Nat
    OBVIOUS
  <2> HIDE DEF T
  <2>1. PICK n \in T : \A m \in T : n <= m
    BY LeastOf, <2>0
  <2>2. n \in 1..N /\ n - 1 \notin T /\ n - 1 \in 0..N
    BY <1>1, <2>1 DEF T
  <2>3. Good(n - 1)
    BY <2>2 DEF T
  <2> QED BY <1>2, <2>1, <2>2, <2>3 DEF T
<1>4. Good(N)
  <2> HIDE DEF Good
  <2> QED BY <1>3
<1>5. PICK f \in [0..N -> S] : f = [k \in 0..N |-> IF k = 0 THEN base ELSE step[k][f[k - 1]]]
  BY <1>4
<1>6. f[0] = base /\ \A k \in 1..N : f[k] = step[k][f[k - 1]]
  BY <1>5
<1> QED BY <1>6

\* What holds at the start and is kept by each step holds all along: good is
\* the set of places where it does.
LEMMA Induction ==
    ASSUME NEW N \in Nat, NEW good, 0 \in good, \A k \in 1..N : k - 1 \in good => k \in good
    PROVE  0..N \subseteq good
<1> DEFINE T == (0..N) \ good
<1>1. T \subseteq Nat
  OBVIOUS
<1> SUFFICES ASSUME T # {} PROVE FALSE
  OBVIOUS
<1> HIDE DEF T
<1>2. PICK n \in T : \A m \in T : n <= m
  BY <1>1, LeastOf
<1>3. n \in 1..N /\ n - 1 \notin T /\ n - 1 \in 0..N /\ n \notin good
  BY <1>2 DEF T
<1> QED BY <1>3 DEF T

\* What is made by the steps from a place on stays in their set.
LEMMA Stepped ==
    ASSUME NEW S, NEW base, NEW N, NEW step, Stepping(step, base, S, N),
           NEW t, t[0] = base, \A k \in 1..N : t[k - 1] \in S => t[k] = step[k][t[k - 1]]
    PROVE  \A k \in 0..N : t[k] \in S
<1> DEFINE good == {k \in 0..N : t[k] \in S}
<1>1. base \in S /\ N \in Nat /\ step \in [1..N -> [S -> S]]
  BY DEF Stepping
<1>2. 0 \in good
  BY <1>1
<1>3. ASSUME NEW k \in 1..N, k - 1 \in good PROVE k \in good
  <2>1. t[k - 1] \in S /\ k \in 0..N
    BY <1>1, <1>3
  <2>2. step[k][t[k - 1]] \in S
    BY <1>1, <2>1
  <2> QED BY <2>1, <2>2
<1> HIDE DEF good
<1>4. 0..N \subseteq good
  BY <1>1, <1>2, <1>3, Induction
<1> QED BY <1>4 DEF good

-----------------------------------------------------------------------------
(* The pictures of the playground: sizes add up. *)

LEMMA FileIs == ASSUME NEW f \in Files PROVE f.size \in Nat
BY SizesAssumption DEF Files, File

\* The running total of a list of files.
Total(t, fs) ==
    /\ t \in [0..Len(fs) -> Nat] /\ t[0] = 0
    /\ \A k \in 1..Len(fs) : t[k] = t[k - 1] + fs[k].size

LEMMA TotalIs ==
    ASSUME NEW fs \in Seq(Files)
    PROVE  \E t : Total(t, fs) /\ decodedBytes(fs) = t[Len(fs)]
<1> DEFINE N == Len(fs)
           R(f) == f = [k \in 0..N |-> IF k = 0 THEN 0 ELSE f[k - 1] + fs[k].size]
           step == [k \in 1..N |-> [x \in Nat |-> x + fs[k].size]]
           t == CHOOSE f : R(f)
<1>0. N \in Nat /\ \A k \in 1..N : fs[k].size \in Nat
  <2>1. N \in Nat /\ \A k \in 1..N : fs[k] \in Files
    OBVIOUS
  <2> HIDE DEF N
  <2> QED BY <2>1, FileIs
<1> HIDE DEF N
<1>1. Stepping(step, 0, Nat, N)
  BY <1>0 DEF Stepping
<1> HIDE DEF R, t
<1>2. PICK f \in [0..N -> Nat] : f[0] = 0 /\ \A k \in 1..N : f[k] = step[k][f[k - 1]]
  <2> HIDE DEF step
  <2> QED BY <1>1, Recursion
<1>3. ASSUME NEW k \in 1..N, NEW x \in Nat PROVE step[k][x] = x + fs[k].size
  OBVIOUS
<1> HIDE DEF step
<1>4. R(f)
  <2>1. ASSUME NEW k \in 1..N PROVE f[k] = f[k - 1] + fs[k].size
    <3>1. k - 1 \in 0..N
      BY <1>0
    <3>2. f[k - 1] \in Nat
      BY <3>1
    <3> QED BY <3>2, <1>2, <1>3
  <2> QED BY <2>1, <1>0, <1>2 DEF R
<1>5. R(t)
  BY <1>4 DEF t
<1>6. decodedBytes(fs) = t[N]
  BY DEF decodedBytes, t, R, N
<1>7. t[0] = 0 /\ \A k \in 1..N : t[k] = t[k - 1] + fs[k].size
  BY <1>0, <1>5 DEF R
<1>8. \A k \in 0..N : t[k] \in Nat
  <2>1. \A k \in 1..N : t[k - 1] \in Nat => t[k] = step[k][t[k - 1]]
    BY <1>3, <1>7
  <2> DEFINE V == Nat
  <2>2. Stepping(step, 0, V, N) /\ \A k \in 1..N : t[k - 1] \in V => t[k] = step[k][t[k - 1]]
    BY <1>1, <2>1
  <2> HIDE DEF V
  <2>3. \A k \in 0..N : t[k] \in V
    BY <1>7, <2>2, Stepped
  <2> QED BY <2>3 DEF V
<1>9. t \in [0..N -> Nat]
  BY <1>5, <1>8 DEF R
<1> QED BY <1>6, <1>7, <1>9 DEF N, Total

LEMMA TotalsAgree ==
    ASSUME NEW fs \in Seq(Files), NEW t, Total(t, fs)
    PROVE  decodedBytes(fs) = t[Len(fs)]
<1> DEFINE N == Len(fs)
<1>1. PICK u : Total(u, fs) /\ decodedBytes(fs) = u[N]
  BY TotalIs
<1> DEFINE good == {k \in 0..N : t[k] = u[k]}
<1>2. N \in Nat
  OBVIOUS
<1>3. /\ t[0] = 0 /\ \A k \in 1..N : t[k] = t[k - 1] + fs[k].size
      /\ u[0] = 0 /\ \A k \in 1..N : u[k] = u[k - 1] + fs[k].size
  BY <1>1 DEF Total
<1> HIDE DEF N
<1>4. 0 \in good
  BY <1>2, <1>3
<1>5. ASSUME NEW k \in 1..N, k - 1 \in good PROVE k \in good
  BY <1>2, <1>3, <1>5
<1> HIDE DEF good
<1>6. 0..N \subseteq good
  BY <1>2, <1>4, <1>5, Induction
<1>7. N \in good
  BY <1>2, <1>6
<1> QED BY <1>1, <1>7 DEF good, N

LEMMA BytesAdd ==
    ASSUME NEW s \in Seq(Files), NEW r \in Seq(Files)
    PROVE  /\ decodedBytes(s) \in Nat /\ decodedBytes(r) \in Nat
           /\ decodedBytes(s \o r) = decodedBytes(s) + decodedBytes(r)
<1> DEFINE m == Len(s)
           n == Len(r)
           q == s \o r
<1>1. PICK t : Total(t, s) /\ decodedBytes(s) = t[m]
  BY TotalIs
<1>2. PICK u : Total(u, r) /\ decodedBytes(r) = u[n]
  BY TotalIs
<1>3. /\ m \in Nat /\ n \in Nat /\ q \in Seq(Files) /\ Len(q) = m + n
      /\ \A k \in 1..m : q[k] = s[k]
      /\ \A k \in 1..n : q[m + k] = r[k]
  OBVIOUS
<1>4. /\ t \in [0..m -> Nat] /\ t[0] = 0 /\ \A k \in 1..m : t[k] = t[k - 1] + s[k].size
      /\ u \in [0..n -> Nat] /\ u[0] = 0 /\ \A k \in 1..n : u[k] = u[k - 1] + r[k].size
  BY <1>1, <1>2 DEF Total
<1> HIDE DEF m, n, q
<1> DEFINE v == [k \in 0..(m + n) |-> IF k <= m THEN t[k] ELSE t[m] + u[k - m]]
<1>5. t[m] \in Nat /\ u[n] \in Nat
  BY <1>3, <1>4
<1>6. v \in [0..(m + n) -> Nat] /\ v[0] = 0
  <2>1. ASSUME NEW k \in 0..(m + n) PROVE (IF k <= m THEN t[k] ELSE t[m] + u[k - m]) \in Nat
    <3>1. CASE k <= m
      <4>1. k \in 0..m
        BY <1>3, <3>1
      <4> QED BY <4>1, <3>1, <1>4
    <3>2. CASE k > m
      <4>1. k - m \in 0..n /\ ~(k <= m)
        BY <1>3, <3>2
      <4>2. u[k - m] \in Nat
        BY <4>1, <1>4
      <4> QED BY <4>1, <4>2, <1>5
    <3> QED BY <1>3, <3>1, <3>2
  <2>2. 0 \in 0..(m + n) /\ 0 <= m
    BY <1>3
  <2> QED BY <2>1, <2>2, <1>4
<1>7. ASSUME NEW k \in 1..(m + n) PROVE v[k] = v[k - 1] + q[k].size
  <2>1. CASE k <= m
    <3>1. v[k] = t[k] /\ v[k - 1] = t[k - 1] /\ q[k] = s[k] /\ k \in 1..m
      BY <1>3, <2>1
    <3> QED BY <3>1, <1>4
  <2>2. CASE k > m
    <3>0. PICK j \in 1..n : k = m + j
      <4>1. k - m \in 1..n /\ k = m + (k - m)
        BY <1>3, <2>2
      <4> QED BY <4>1
    <3>1. j \in Nat /\ j - 1 \in 0..n /\ j \in 0..n
      BY <1>3
    <3>2. v[k] = t[m] + u[j]
      <4>1. ~(k <= m) /\ k - m = j
        BY <1>3, <3>0, <3>1, <2>2
      <4> QED BY <4>1
    <3>3. v[k - 1] = t[m] + u[j - 1]
      <4>1. CASE j = 1
        <5>1. k - 1 = m /\ m \in 0..(m + n)
          BY <1>3, <3>0, <4>1
        <5>2. v[m] = t[m]
          BY <5>1, <1>3
        <5> QED BY <5>1, <5>2, <4>1, <1>4, <1>5
      <4>2. CASE j # 1
        <5>1. ~(k - 1 <= m) /\ (k - 1) - m = j - 1 /\ k - 1 \in 0..(m + n)
          BY <1>3, <3>0, <3>1, <4>2
        <5> QED BY <5>1
      <4> QED BY <4>1, <4>2
    <3>4. q[k] = r[j]
      BY <1>3, <3>0
    <3> HIDE DEF v
    <3>5. u[j] = u[j - 1] + r[j].size
      BY <1>4
    <3>6. r[j].size \in Nat /\ u[j - 1] \in Nat
      <4>1. r[j] \in Files
        BY DEF n
      <4>2. u[j - 1] \in Nat
        BY <1>4, <3>1
      <4> QED BY <4>1, <4>2, FileIs
    <3> QED BY <1>5, <3>2, <3>3, <3>4, <3>5, <3>6
  <2> QED BY <1>3, <2>1, <2>2
<1> HIDE DEF v
<1>8. Total(v, q)
  BY <1>3, <1>6, <1>7 DEF Total
<1>9. decodedBytes(q) = v[m + n]
  BY <1>3, <1>8, TotalsAgree
<1>10. v[m + n] = t[m] + u[n]
  BY <1>3, <1>4, <1>5 DEF v
<1> QED BY <1>1, <1>2, <1>5, <1>9, <1>10 DEF q

LEMMA BytesOfOne == ASSUME NEW f \in Files PROVE <<f>> \in Seq(Files) /\ decodedBytes(<<f>>) = f.size
<1>1. <<f>> \in Seq(Files) /\ Len(<<f>>) = 1 /\ <<f>>[1] = f /\ f.size \in Nat
  BY FileIs
<1> DEFINE t == [k \in 0..1 |-> IF k = 0 THEN 0 ELSE f.size]
<1>2. Total(t, <<f>>)
  BY <1>1 DEF Total
<1>3. t[1] = f.size
  OBVIOUS
<1> HIDE DEF t
<1> QED BY <1>1, <1>2, <1>3, TotalsAgree

LEMMA BytesOfNone == decodedBytes(<<>>) = 0
<1> DEFINE t == [k \in 0..0 |-> 0]
<1>1. Total(t, <<>>) /\ t[0] = 0 /\ <<>> \in Seq(Files)
  BY DEF Total
<1> HIDE DEF t
<1> QED BY <1>1, TotalsAgree

LEMMA RemovedIs ==
    ASSUME NEW s \in Seq(Files), NEW k \in DOMAIN s
    PROVE  /\ RemoveAt(s, k) \in Seq(Files) /\ Len(RemoveAt(s, k)) <= Len(s)
           /\ decodedBytes(RemoveAt(s, k)) <= decodedBytes(s)
<1> DEFINE a == SubSeq(s, 1, k - 1)
           b == SubSeq(s, k + 1, Len(s))
           c == <<s[k]>>
<1>1. k \in 1..Len(s) /\ Len(s) \in Nat /\ s[k] \in Files /\ \A i \in 1..Len(s) : s[i] \in Files
  OBVIOUS
<1>2. /\ a \in Seq(Files) /\ Len(a) = k - 1
      /\ b \in Seq(Files) /\ Len(b) = Len(s) - k
      /\ c \in Seq(Files) /\ Len(c) = 1
  BY <1>1, SubSeqProperties
<1>3. RemoveAt(s, k) = a \o b
  BY DEF RemoveAt
<1>4. s = (a \o c) \o b
  <2>1. SubSeq(s, 1, k) = a \o c
    BY <1>1, SubSeqRecursiveSecond
  <2>2. SubSeq(s, 1, k) \o b = SubSeq(s, 1, Len(s))
    <3>1. 1 \in 1..(Len(s) + 1) /\ k \in (1 - 1)..Len(s) /\ Len(s) \in k..Len(s)
      BY <1>1
    <3> QED BY <3>1, ConcatAdjacentSubSeq
  <2>3. SubSeq(s, 1, Len(s)) = s
    BY SubSeqFull
  <2> QED BY <2>1, <2>2, <2>3
<1> HIDE DEF a, b, c
<1>5. a \o c \in Seq(Files) /\ a \o b \in Seq(Files) /\ Len(a \o b) <= Len(s)
  BY <1>1, <1>2
<1>6. /\ decodedBytes(s) = decodedBytes(a \o c) + decodedBytes(b)
      /\ decodedBytes(a \o c) = decodedBytes(a) + decodedBytes(c)
      /\ decodedBytes(a \o b) = decodedBytes(a) + decodedBytes(b)
      /\ decodedBytes(a) \in Nat /\ decodedBytes(b) \in Nat /\ decodedBytes(c) \in Nat
  BY <1>1, <1>2, <1>4, <1>5, BytesAdd
<1> QED BY <1>3, <1>5, <1>6

-----------------------------------------------------------------------------
(* What is taken of the files that are picked. *)

\* Lists of pictures that keep to the limits of a prompt.
Fits(fs) ==
    /\ fs \in Seq(Files)
    /\ Len(fs) <= MaxAttachments /\ decodedBytes(fs) <= MaxTotalSize

LEMMA AppendIs ==
    ASSUME NEW s \in Seq(Files), NEW f \in Files
    PROVE  /\ Append(s, f) \in Seq(Files) /\ Len(Append(s, f)) = Len(s) + 1
           /\ decodedBytes(Append(s, f)) = decodedBytes(s) + f.size
           /\ decodedBytes(s) \in Nat /\ f.size \in Nat
<1>1. Append(s, f) \in Seq(Files) /\ Len(Append(s, f)) = Len(s) + 1 /\ Append(s, f) = s \o <<f>>
  BY AppendProperties, AppendIsConcat
<1>2. <<f>> \in Seq(Files) /\ decodedBytes(<<f>>) = f.size
  BY BytesOfOne
<1>3. decodedBytes(s \o <<f>>) = decodedBytes(s) + decodedBytes(<<f>>) /\ decodedBytes(s) \in Nat
  BY <1>2, BytesAdd
<1> QED BY <1>1, <1>2, <1>3, FileIs

LEMMA AcceptedFit ==
    ASSUME NEW list, Fits(list), NEW files \in Seq(Files)
    PROVE  Accepted(list, files) \in Seq(Files) /\ Fits(list \o Accepted(list, files))
<1> DEFINE N == Len(files)
           takes(new, f) == /\ Len(list) + Len(new) < MaxAttachments
                            /\ f.size <= MaxFileSize
                            /\ decodedBytes(list) + decodedBytes(new) + f.size <= MaxTotalSize
                            /\ f.type \in SUPPORTED_IMAGE_TYPES
           next(x, f) == IF takes(x, f) THEN Append(x, f) ELSE x
           R(f) == f = [k \in 0..N |-> IF k = 0 THEN <<>> ELSE next(f[k - 1], files[k])]
           S == {new \in Seq(Files) : /\ Len(list) + Len(new) <= MaxAttachments
                                      /\ decodedBytes(list) + decodedBytes(new) <= MaxTotalSize}
           step == [k \in 1..N |-> [x \in S |-> next(x, files[k])]]
           t == CHOOSE f : R(f)
<1>0. /\ N \in Nat /\ \A k \in 1..N : files[k] \in Files
      /\ list \in Seq(Files) /\ Len(list) \in Nat /\ decodedBytes(list) \in Nat
      /\ Len(list) <= MaxAttachments /\ decodedBytes(list) <= MaxTotalSize
  BY BytesAdd DEF Fits
<1>1. ASSUME NEW x \in S, NEW f \in Files PROVE next(x, f) \in S
  <2>1. CASE takes(x, f)
    <3>1. /\ Append(x, f) \in Seq(Files) /\ Len(Append(x, f)) = Len(x) + 1
          /\ decodedBytes(Append(x, f)) = decodedBytes(x) + f.size
          /\ decodedBytes(x) \in Nat /\ f.size \in Nat /\ Len(x) \in Nat
      BY AppendIs
    <3>2. /\ Len(list) + Len(Append(x, f)) <= MaxAttachments
          /\ decodedBytes(list) + decodedBytes(Append(x, f)) <= MaxTotalSize
      BY <1>0, <2>1, <3>1, SizesAssumption
    <3> QED BY <2>1, <3>1, <3>2
  <2>2. CASE ~takes(x, f)
    BY <2>2
  <2> QED BY <2>1, <2>2
<1>2. <<>> \in S
  BY <1>0, BytesOfNone
<1> HIDE DEF N
<1>3. Stepping(step, <<>>, S, N)
  <2> HIDE DEF S, next
  <2> QED BY <1>0, <1>1, <1>2 DEF Stepping
<1>4. PICK f \in [0..N -> S] : f[0] = <<>> /\ \A k \in 1..N : f[k] = step[k][f[k - 1]]
  <2> HIDE DEF step, S
  <2> QED BY <1>3, Recursion
<1>5. \A k \in 1..N : \A x \in S : step[k][x] = next(x, files[k])
  <2> HIDE DEF S, next
  <2> QED OBVIOUS
<1> HIDE DEF step, t
<1>6. R(f)
  <2>1. ASSUME NEW k \in 1..N PROVE f[k] = next(f[k - 1], files[k])
    <3>1. k - 1 \in 0..N
      BY <1>0
    <3> HIDE DEF next, S
    <3>2. f[k - 1] \in S
      BY <3>1, <1>4
    <3> QED BY <3>2, <1>4, <1>5
  <2> HIDE DEF S, next
  <2> QED BY <2>1, <1>0, <1>4
<1>7. R(t)
  <2> HIDE DEF R
  <2> QED BY <1>6 DEF t
<1>8. Accepted(list, files) = t[N]
  BY DEF Accepted, t, N
<1>9. t[0] = <<>> /\ \A k \in 1..N : t[k] = next(t[k - 1], files[k])
  <2> HIDE DEF S, next
  <2> QED BY <1>0, <1>7
<1>10. t[N] \in S
  <2> HIDE DEF S, next, R
  <2>1. \A k \in 1..N : t[k - 1] \in S => t[k] = step[k][t[k - 1]]
    BY <1>5, <1>9
  <2>2. \A k \in 0..N : t[k] \in S
    BY <1>3, <1>9, <2>1, Stepped
  <2> QED BY <1>0, <2>2
<1> HIDE DEF R, next
<1>11. t[N] \in Seq(Files) /\ Len(list) + Len(t[N]) <= MaxAttachments
       /\ decodedBytes(list) + decodedBytes(t[N]) <= MaxTotalSize
  BY <1>10
<1>12. list \o t[N] \in Seq(Files) /\ Len(list \o t[N]) = Len(list) + Len(t[N])
       /\ decodedBytes(list \o t[N]) = decodedBytes(list) + decodedBytes(t[N])
  BY <1>0, <1>11, BytesAdd, ConcatProperties
<1> QED BY <1>8, <1>11, <1>12 DEF Fits

\* The first files of a list.
LEMMA FirstOfIs ==
    ASSUME NEW fs \in Seq(Files), NEW k \in Nat
    PROVE  FirstOf(fs, k) \in Seq(Files)
<1> DEFINE T == {k, Len(fs)}
           m == Min(T)
<1>1. T \subseteq Nat /\ T # {}
  OBVIOUS
<1>2. \E x \in T : \A y \in T : x <= y
  BY <1>1, LeastOf
<1>3. m \in T /\ \A y \in T : m <= y
  BY <1>2 DEF Min
<1>4. m \in Nat /\ m <= Len(fs)
  BY <1>1, <1>3
<1> HIDE DEF m, T
<1>5. \A i \in 1..m : fs[i] \in Files
  BY <1>4
<1>6. SubSeq(fs, 1, m) \in Seq(Files)
  <2>1. 1 \in Int /\ m \in Int
    BY <1>4
  <2> QED BY <1>5, <2>1, SubSeqProperties
<1> QED BY <1>6 DEF FirstOf, m, T

LEMMA ModelIs ==
    ASSUME NEW m \in DOMAIN ImageModels
    PROVE  ImageModels[m].references \in Nat
BY DEF ImageModels

\* What goes with the next model are files of the list.
LEMMA CompatibleIs ==
    ASSUME NEW m \in DOMAIN ImageModels, NEW images \in Seq(Files)
    PROVE  Compatible(ImageModels[m], images) \in Seq(Files)
<1> DEFINE caps == ImageModels[m]
           N == Len(images)
           S == Seq(Files)
           takes(kept, f) == f.type \in caps.formats /\ f.size <= caps.each /\ decodedBytes(kept) + f.size <= caps.total
           next(x, f) == IF takes(x, f) THEN Append(x, f) ELSE x
           R(f) == f = [k \in 0..N |-> IF k = 0 THEN <<>> ELSE next(f[k - 1], images[k])]
           step == [k \in 1..N |-> [x \in S |-> next(x, images[k])]]
           t == CHOOSE f : R(f)
<1>0. N \in Nat /\ \A k \in 1..N : images[k] \in Files
  OBVIOUS
<1>1. \A x \in S, f \in Files : next(x, f) \in S
  BY AppendProperties
<1>2. <<>> \in S
  OBVIOUS
<1> HIDE DEF N
<1>3. Stepping(step, <<>>, S, N)
  <2> HIDE DEF S, next
  <2> QED BY <1>0, <1>1, <1>2 DEF Stepping
<1>4. PICK f \in [0..N -> S] : f[0] = <<>> /\ \A k \in 1..N : f[k] = step[k][f[k - 1]]
  <2> HIDE DEF step, S
  <2> QED BY <1>3, Recursion
<1>5. \A k \in 1..N : \A x \in S : step[k][x] = next(x, images[k])
  <2> HIDE DEF S, next
  <2> QED OBVIOUS
<1> HIDE DEF step, t
<1>6. R(f)
  <2>1. ASSUME NEW k \in 1..N PROVE f[k] = next(f[k - 1], images[k])
    <3>1. k - 1 \in 0..N
      BY <1>0
    <3> HIDE DEF next, S
    <3>2. f[k - 1] \in S
      BY <3>1, <1>4
    <3> QED BY <3>2, <1>4, <1>5
  <2> HIDE DEF S, next
  <2> QED BY <2>1, <1>0, <1>4
<1>7. R(t)
  <2> HIDE DEF R
  <2> QED BY <1>6 DEF t
<1>8. Compatible(caps, images) = FirstOf(t[N], caps.references)
  BY DEF Compatible, t, N
<1>9. t[0] = <<>> /\ \A k \in 1..N : t[k] = next(t[k - 1], images[k])
  <2> HIDE DEF S, next
  <2> QED BY <1>0, <1>7
<1>10. t[N] \in S
  <2> HIDE DEF S, next, R
  <2>1. \A k \in 1..N : t[k - 1] \in S => t[k] = step[k][t[k - 1]]
    BY <1>5, <1>9
  <2>2. \A k \in 0..N : t[k] \in S
    BY <1>3, <1>9, <2>1, Stepped
  <2> QED BY <1>0, <2>2
<1>11. caps.references \in Nat
  BY ModelIs
<1> HIDE DEF R, next, caps
<1> QED BY <1>8, <1>10, <1>11, FirstOfIs DEF caps

-----------------------------------------------------------------------------
(* The requests of the pictures. *)

\* A reader for each file that goes with the model, beside what was under way.
Tables(C) == UNION {[D -> C] : D \in SUBSET (1..MaxCalls)}

LEMMA PlusTable ==
    ASSUME NEW C, NEW cs \in Tables(C), NEW c \in C
    PROVE  Plus(cs, c) \in Tables(C)
<1>1. PICK D \in SUBSET (1..MaxCalls) : cs \in [D -> C]
  BY DEF Tables
<1>2. CASE Free(cs) = {}
  BY <1>2 DEF Plus
<1>3. CASE Free(cs) # {}
  <2> DEFINE s == Slot(cs)
  <2>1. s \in 1..MaxCalls
    BY <1>3, SlotIsFree DEF Free
  <2>2. Plus(cs, c) = [n \in D \cup {s} |-> IF n = s THEN c ELSE cs[n]]
    BY <1>1, <1>3 DEF Plus
  <2> HIDE DEF s
  <2>3. Plus(cs, c) \in [D \cup {s} -> C] /\ D \cup {s} \in SUBSET (1..MaxCalls)
    BY <1>1, <2>1, <2>2
  <2> QED BY <2>3 DEF Tables
<1> QED BY <1>2, <1>3

LEMMA ReadersAre ==
    ASSUME NEW op, NEW files \in Seq(Files), NEW C, calls \in Tables(C),
           \A f \in Files : Call(op, [file |-> f, limit |-> Caps.references]) \in C
    PROVE  Readers(op, files) \in Tables(C)
<1> DEFINE N == Len(files)
           S == Tables(C)
           reads(f) == f.type \in Caps.formats /\ f.size <= Caps.each
           next(x, f) == IF reads(f) THEN Plus(x, Call(op, [file |-> f, limit |-> Caps.references])) ELSE x
           R(f) == f = [k \in 0..N |-> IF k = 0 THEN calls ELSE next(f[k - 1], files[k])]
           step == [k \in 1..N |-> [x \in S |-> next(x, files[k])]]
           t == CHOOSE f : R(f)
<1>0. N \in Nat /\ \A k \in 1..N : files[k] \in Files
  OBVIOUS
<1>1. \A x \in S, f \in Files : next(x, f) \in S
  BY PlusTable
<1>2. calls \in S
  OBVIOUS
<1> HIDE DEF N
<1>3. Stepping(step, calls, S, N)
  <2> HIDE DEF S, next
  <2> QED BY <1>0, <1>1, <1>2 DEF Stepping
<1>4. PICK f \in [0..N -> S] : f[0] = calls /\ \A k \in 1..N : f[k] = step[k][f[k - 1]]
  <2> HIDE DEF step, S
  <2> QED BY <1>3, Recursion
<1>5. \A k \in 1..N : \A x \in S : step[k][x] = next(x, files[k])
  <2> HIDE DEF S, next
  <2> QED OBVIOUS
<1> HIDE DEF step, t
<1>6. R(f)
  <2>1. ASSUME NEW k \in 1..N PROVE f[k] = next(f[k - 1], files[k])
    <3>1. k - 1 \in 0..N
      BY <1>0
    <3> HIDE DEF next, S
    <3>2. f[k - 1] \in S
      BY <3>1, <1>4
    <3> QED BY <3>2, <1>4, <1>5
  <2> HIDE DEF S, next
  <2> QED BY <2>1, <1>0, <1>4
<1>7. R(t)
  <2> HIDE DEF R
  <2> QED BY <1>6 DEF t
<1>8. Readers(op, files) = t[N]
  BY DEF Readers, t, N
<1>9. t[0] = calls /\ \A k \in 1..N : t[k] = next(t[k - 1], files[k])
  <2> HIDE DEF S, next
  <2> QED BY <1>0, <1>7
<1>10. t[N] \in S
  <2> HIDE DEF S, next, R
  <2>1. \A k \in 1..N : t[k - 1] \in S => t[k] = step[k][t[k - 1]]
    BY <1>5, <1>9
  <2>2. \A k \in 0..N : t[k] \in S
    BY <1>3, <1>9, <2>1, Stepped
  <2> QED BY <1>0, <2>2
<1> QED BY <1>8, <1>10

-----------------------------------------------------------------------------
(* The pictures are always within their limits. *)

AttachFields == {"about", "left", "attached", "sent"}
ImageFields == {"about", "left", "model", "mode", "images", "mask", "generating", "results"}
HasFields(l, fields) == DOMAIN l = fields /\ l = [f \in fields |-> l[f]]

\* A request of the form keeps to what its model takes.
RequestFits(r) ==
    /\ r.model \in DOMAIN ImageModels
    /\ r.mode = "edit" =>
          /\ ImageModels[r.model].edit
          /\ Len(r.images) \in 1..ImageModels[r.model].references
          /\ decodedBytes(r.images \o r.mask) <= ImageModels[r.model].total
          /\ r.mask # <<>> => ImageModels[r.model].mask

\* Files that are read late were taken for the list as it was.
AttachCall(c) == c.op = "process" /\ c.arg.new \in Seq(Files) /\ Fits(c.arg.list \o c.arg.new)
ImageCall(c) ==
    \/ c.op = "models"
    \/ c.op \in {"picture", "mask"} /\ c.arg.file \in Files /\ c.arg.limit \in Nat
    \/ c.op = "image" /\ RequestFits(c.arg)

Tabled(cs) == DOMAIN cs \subseteq 1..MaxCalls /\ cs = [n \in DOMAIN cs |-> cs[n]]
AttachOk(l, cs) ==
    /\ l.about = "attach" /\ HasFields(l, AttachFields)
    /\ Fits(l.attached) /\ Fits(l.sent)
    /\ \A n \in DOMAIN cs : AttachCall(cs[n])
ImageOk(l, cs) ==
    /\ l.about = "image" /\ HasFields(l, ImageFields)
    /\ l.model \in DOMAIN ImageModels \cup {None}
    /\ l.images \in Seq(Files)
    /\ \A n \in DOMAIN cs : ImageCall(cs[n])
PicturesOk(l, cs) == Tabled(cs) /\ (AttachOk(l, cs) \/ ImageOk(l, cs))

LEMMA NothingFits == Fits(<<>>)
BY SizesAssumption, BytesOfNone DEF Fits

LEMMA TablesAre ==
    /\ \A cs, C : Tabled(cs) /\ (\A n \in DOMAIN cs : cs[n] \in C) => cs \in Tables(C)
    /\ \A C : \A cs \in Tables(C) : Tabled(cs) /\ \A n \in DOMAIN cs : cs[n] \in C
BY DEF Tabled, Tables

LEMMA PlusTabled == ASSUME NEW cs, Tabled(cs), NEW c PROVE Tabled(Plus(cs, c))
<1>1. DOMAIN Plus(cs, c) \subseteq 1..MaxCalls
  BY PlusKeeps DEF Tabled
<1>2. Plus(cs, c) = [n \in DOMAIN Plus(cs, c) |-> Plus(cs, c)[n]]
  BY DEF Plus, Tabled
<1> QED BY <1>1, <1>2 DEF Tabled

LEMMA MinusTabled == ASSUME NEW cs, Tabled(cs), NEW n PROVE Tabled(Minus(cs, n))
BY DEF Minus, Tabled

LEMMA PicturesStart == PicturesInit => PicturesOk(local, calls)
<1>1. ASSUME AttachInit PROVE PicturesOk(local, calls)
  <2>1. DOMAIN calls = {} /\ Tabled(calls)
    BY <1>1, NoCallsEmpty DEF AttachInit, NoCalls, Tabled
  <2>2. HasFields(local, AttachFields) /\ local.about = "attach" /\ local.attached = <<>> /\ local.sent = <<>>
    BY <1>1 DEF AttachInit, HasFields, AttachFields
  <2> QED BY <2>1, <2>2, NothingFits DEF PicturesOk, AttachOk
<1>2. ASSUME ImageInit PROVE PicturesOk(local, calls)
  <2> DEFINE c == Call("models", None)
  <2>1. Tabled(NoCalls) /\ DOMAIN NoCalls = {}
    BY NoCallsEmpty DEF NoCalls, Tabled
  <2>2. Tabled(calls) /\ \A n \in DOMAIN calls : calls[n] = c
    BY <1>2, <2>1, PlusTabled, PlusCalls DEF ImageInit
  <2>3. c.op = "models"
    BY DEF Call
  <2>4. HasFields(local, ImageFields) /\ local.about = "image" /\ local.images = <<>> /\ local.model = None
    BY <1>2 DEF ImageInit, HasFields, ImageFields
  <2>5. <<>> \in Seq(Files)
    OBVIOUS
  <2> HIDE DEF c
  <2> QED BY <2>2, <2>3, <2>4, <2>5 DEF PicturesOk, ImageOk, ImageCall
<1> QED BY <1>1, <1>2 DEF PicturesInit

LEMMA PicksAre == ASSUME NEW files \in Picks PROVE files \in Seq(Files)
<1>1. \A f, g \in Files : <<f>> \in Seq(Files) /\ <<f, g>> \in Seq(Files)
  OBVIOUS
<1>2. (\E f \in Files : files = <<f>>) \/ \E f, g \in Files : files = <<f, g>>
  BY DEF Picks
<1> QED BY <1>1, <1>2

\* What the calls of a screen are after one more, or one less.
LEMMA AttachPlus ==
    ASSUME NEW cs, Tabled(cs), \A n \in DOMAIN cs : AttachCall(cs[n]), NEW c, AttachCall(c)
    PROVE  Tabled(Plus(cs, c)) /\ \A n \in DOMAIN Plus(cs, c) : AttachCall(Plus(cs, c)[n])
BY PlusTabled, PlusCalls
LEMMA AttachMinus ==
    ASSUME NEW cs, Tabled(cs), \A n \in DOMAIN cs : AttachCall(cs[n]), NEW k
    PROVE  Tabled(Minus(cs, k)) /\ \A n \in DOMAIN Minus(cs, k) : AttachCall(Minus(cs, k)[n])
BY MinusTabled, MinusCalls
LEMMA ImagePlus ==
    ASSUME NEW cs, Tabled(cs), \A n \in DOMAIN cs : ImageCall(cs[n]), NEW c, ImageCall(c)
    PROVE  Tabled(Plus(cs, c)) /\ \A n \in DOMAIN Plus(cs, c) : ImageCall(Plus(cs, c)[n])
BY PlusTabled, PlusCalls
LEMMA ImageMinus ==
    ASSUME NEW cs, Tabled(cs), \A n \in DOMAIN cs : ImageCall(cs[n]), NEW k
    PROVE  Tabled(Minus(cs, k)) /\ \A n \in DOMAIN Minus(cs, k) : ImageCall(Minus(cs, k)[n])
BY MinusTabled, MinusCalls
LEMMA ImageReaders ==
    ASSUME NEW op \in {"picture", "mask"}, NEW files \in Seq(Files), Caps.references \in Nat,
           Tabled(calls), \A n \in DOMAIN calls : ImageCall(calls[n])
    PROVE  /\ Tabled(Readers(op, files))
           /\ \A n \in DOMAIN Readers(op, files) : ImageCall(Readers(op, files)[n])
<1> DEFINE C == {calls[n] : n \in DOMAIN calls}
                \cup {Call(op, [file |-> f, limit |-> Caps.references]) : f \in Files}
<1>1. \A c \in C : ImageCall(c)
  BY DEF ImageCall, Call
<1>2. calls \in Tables(C)
  BY TablesAre
<1>3. \A f \in Files : Call(op, [file |-> f, limit |-> Caps.references]) \in C
  OBVIOUS
<1> HIDE DEF C
<1>4. Readers(op, files) \in Tables(C)
  BY <1>2, <1>3, ReadersAre
<1> QED BY <1>1, <1>4, TablesAre

LEMMA AttachSteps ==
    ASSUME Tabled(calls), AttachOk(local, calls), PicturesNext
    PROVE  PicturesOk(local', calls')
<1> DEFINE Made == /\ Tabled(calls') /\ \A n \in DOMAIN calls' : AttachCall(calls'[n])
                   /\ HasFields(local', AttachFields) /\ local'.about = "attach"
                   /\ Fits(local'.attached) /\ Fits(local'.sent)
<1>0. /\ HasFields(local, AttachFields) /\ local.about = "attach" /\ Fits(local.attached) /\ Fits(local.sent)
      /\ \A n \in DOMAIN calls : AttachCall(calls[n])
  BY DEF AttachOk
<1>1. ASSUME NEW files \in Picks, AttachFiles(files) PROVE Made
  <2> DEFINE c == Call("process", [list |-> local.attached, new |-> Accepted(local.attached, files)])
  <2>1. c.op = "process" /\ c.arg.list = local.attached /\ c.arg.new = Accepted(local.attached, files)
    BY DEF Call
  <2>2. AttachCall(c)
    BY <2>1, <1>0, PicksAre, AcceptedFit DEF AttachCall
  <2>3. calls' = Plus(calls, c) /\ local' = [local EXCEPT !.left = @ - 1]
    BY <1>1 DEF AttachFiles, Ask, Do
  <2> HIDE DEF c
  <2>4. Tabled(calls') /\ \A n \in DOMAIN calls' : AttachCall(calls'[n])
    BY <2>2, <2>3, <1>0, AttachPlus
  <2>5. HasFields(local', AttachFields) /\ local'.about = "attach"
        /\ local'.attached = local.attached /\ local'.sent = local.sent
    BY <2>3, <1>0 DEF HasFields, AttachFields
  <2> QED BY <2>4, <2>5, <1>0
<1>2. ASSUME NEW n \in DOMAIN calls, FilesRead(n) PROVE Made
  <2>1. calls' = Minus(calls, n) /\ AttachCall(calls[n])
    BY <1>2, <1>0 DEF FilesRead, Do
  <2>2. local' = local \/ local' = [local EXCEPT !.attached = calls[n].arg.list \o calls[n].arg.new]
    BY <1>2 DEF FilesRead, Do
  <2>3. Tabled(calls') /\ \A m \in DOMAIN calls' : AttachCall(calls'[m])
    BY <2>1, <1>0, AttachMinus
  <2>4. HasFields(local', AttachFields) /\ local'.about = "attach" /\ local'.sent = local.sent
        /\ (local'.attached = local.attached \/ local'.attached = calls[n].arg.list \o calls[n].arg.new)
    BY <2>2, <1>0 DEF HasFields, AttachFields
  <2> QED BY <2>1, <2>3, <2>4, <1>0 DEF AttachCall
<1>3. ASSUME NEW k \in 1..MaxAttachments, removeAttachment(k) PROVE Made
  <2>1. calls' = calls /\ local' = [local EXCEPT !.attached = RemoveAt(@, k)] /\ k \in DOMAIN local.attached
    BY <1>3 DEF removeAttachment, Do
  <2>2. HasFields(local', AttachFields) /\ local'.about = "attach" /\ local'.sent = local.sent
        /\ local'.attached = RemoveAt(local.attached, k)
    BY <2>1, <1>0 DEF HasFields, AttachFields
  <2>3. Fits(RemoveAt(local.attached, k))
    <3> DEFINE s == local.attached
               q == RemoveAt(s, k)
    <3>1. s \in Seq(Files) /\ Len(s) <= MaxAttachments /\ decodedBytes(s) <= MaxTotalSize /\ k \in DOMAIN s
      BY <1>0, <2>1 DEF Fits
    <3> HIDE DEF s
    <3>2. q \in Seq(Files) /\ Len(q) <= Len(s) /\ decodedBytes(q) <= decodedBytes(s)
      BY <3>1, RemovedIs
    <3>3. decodedBytes(q) \in Nat /\ decodedBytes(s) \in Nat /\ Len(q) \in Nat /\ Len(s) \in Nat
      BY <3>1, <3>2, BytesAdd
    <3> HIDE DEF q
    <3>4. Fits(q)
      BY <3>1, <3>2, <3>3, SizesAssumption DEF Fits
    <3> QED BY <3>4 DEF q, s
  <2> QED BY <2>1, <2>2, <2>3, <1>0
<1>4. ASSUME SendAttached PROVE Made
  <2>1. calls' = calls /\ local' = [local EXCEPT !.sent = local.attached, !.attached = <<>>]
    BY <1>4 DEF SendAttached, Do
  <2>2. HasFields(local', AttachFields) /\ local'.about = "attach" /\ local'.sent = local.attached
        /\ local'.attached = <<>>
    BY <2>1, <1>0 DEF HasFields, AttachFields
  <2> QED BY <2>1, <2>2, <1>0, NothingFits
<1>5. \A n \in DOMAIN calls : calls[n].op = "process"
  BY <1>0 DEF AttachCall
<1>6. Made
  <2> HIDE DEF Made
  <2> QED BY <1>0, <1>1, <1>2, <1>3, <1>4, <1>5 DEF PicturesNext, PicturesAnswer, ModelsArrive, PictureRead, ImageAnswers,
      handleGenerate, clearImages, handleFilePick, handlePaste, handleMaskPick, removeImage, handleModelChange, setMode
<1> QED BY <1>6 DEF PicturesOk, AttachOk

LEMMA EditIsOn ==
    ASSUME activeMode = "edit", local.model \in DOMAIN ImageModels \cup {None}
    PROVE  local.model \in DOMAIN ImageModels /\ canEdit(local.model) /\ Caps.references \in Nat
<1>1. local.model \in DOMAIN ImageModels /\ canEdit(local.model)
  BY DEF activeMode
<1> QED BY <1>1, ModelIs DEF Caps

\* The guard of handleGenerate is what a request must keep to.
LEMMA RequestIs ==
    ASSUME handleGenerate, local.model \in DOMAIN ImageModels \cup {None}
    PROVE  RequestFits(ImageRequest)
<1> DEFINE r == ImageRequest
<1>1. /\ local.model \in DOMAIN ImageModels
      /\ activeMode = "edit" => /\ Len(local.images) \in 1..Caps.references
                                /\ decodedBytes(local.images \o MaskOf) <= Caps.total
  BY DEF handleGenerate
<1>2. r.model = local.model /\ r.mode = activeMode /\ r.mask = MaskOf /\ (activeMode = "edit" => r.images = local.images)
  BY DEF ImageRequest
<1>3. MaskOf # <<>> => Caps.mask
  BY DEF MaskOf
<1> HIDE DEF r
<1>4. ASSUME r.mode = "edit" PROVE ImageModels[r.model].edit
  BY <1>2, <1>4, EditIsOn DEF canEdit
<1>5. RequestFits(r)
  BY <1>1, <1>2, <1>3, <1>4 DEF RequestFits, Caps
<1> QED BY <1>5 DEF r

LEMMA ImageSteps ==
    ASSUME Tabled(calls), ImageOk(local, calls), PicturesNext
    PROVE  PicturesOk(local', calls')
<1> DEFINE CallsDone == Tabled(calls') /\ \A n \in DOMAIN calls' : ImageCall(calls'[n])
           FieldsDone == /\ HasFields(local', ImageFields) /\ local'.about = "image"
                         /\ local'.model \in DOMAIN ImageModels \cup {None}
                         /\ local'.images \in Seq(Files)
           Made == CallsDone /\ FieldsDone
<1>0. /\ HasFields(local, ImageFields) /\ local.about = "image"
      /\ local.model \in DOMAIN ImageModels \cup {None} /\ local.images \in Seq(Files)
      /\ \A n \in DOMAIN calls : ImageCall(calls[n])
  BY DEF ImageOk
<1>1. ASSUME NEW n \in DOMAIN calls, ModelsArrive(n) PROVE Made
  <2>1. PICK first \in DOMAIN ImageModels \cup {None} :
           calls' = Minus(calls, n) /\ local' = [local EXCEPT !.model = first]
    BY <1>1 DEF ModelsArrive, Do
  <2>2. FieldsDone
    BY <2>1, <1>0 DEF HasFields, ImageFields
  <2> QED BY <2>1, <2>2, <1>0, ImageMinus
<1>2. ASSUME NEW m \in DOMAIN ImageModels, handleModelChange(m) PROVE Made
  <2>1. calls' = calls /\ HasFields(local', ImageFields) /\ local'.about = "image"
        /\ local'.model = m /\ local'.images = Compatible(ImageModels[m], local.images)
    BY <1>2, <1>0 DEF handleModelChange, Do, HasFields, ImageFields
  <2> QED BY <2>1, <1>0, CompatibleIs
<1>3. ASSUME NEW mode, setMode(mode) PROVE Made
  <2>1. calls' = calls /\ local' = [local EXCEPT !.mode = mode, !.results = FALSE]
    BY <1>3 DEF setMode, Do
  <2>2. FieldsDone
    BY <2>1, <1>0 DEF HasFields, ImageFields
  <2> QED BY <2>1, <2>2, <1>0
<1>4. ASSUME NEW op \in {"picture", "mask"}, NEW files \in Seq(Files), activeMode = "edit", Ask(local, Readers(op, files))
      PROVE  Made
  <2>1. calls' = Readers(op, files) /\ local' = [local EXCEPT !.left = @ - 1]
    BY <1>4 DEF Ask, Do
  <2>2. FieldsDone
    BY <2>1, <1>0 DEF HasFields, ImageFields
  <2>3. CallsDone
    BY <2>1, <1>0, <1>4, EditIsOn, ImageReaders
  <2> QED BY <2>2, <2>3
<1>5. ASSUME NEW files \in Picks, handleFilePick(files) \/ handlePaste(files) PROVE Made
  <2> HIDE DEF Made
  <2>1. files \in Seq(Files) /\ activeMode = "edit"
    BY <1>5, PicksAre DEF handleFilePick, handlePaste
  <2>2. CASE handlePaste(files)
    BY <1>4, <2>1, <2>2 DEF handlePaste
  <2>3. CASE handleFilePick(files)
    <3> DEFINE k == Caps.references - Len(local.images)
    <3>1. k \in Nat
      <4>1. Len(local.images) \in Nat /\ Caps.references \in Nat /\ Len(local.images) < Caps.references
        BY <1>0, <2>1, <2>3, EditIsOn DEF handleFilePick
      <4> QED BY <4>1
    <3>2. Ask(local, Readers("picture", FirstOf(files, k)))
      BY <2>3 DEF handleFilePick
    <3> HIDE DEF k
    <3>3. FirstOf(files, k) \in Seq(Files)
      BY <2>1, <3>1, FirstOfIs
    <3> QED BY <1>4, <2>1, <3>2, <3>3
  <2> QED BY <1>5, <2>2, <2>3
<1>6. ASSUME NEW f \in Files, handleMaskPick(f) PROVE Made
  <2> HIDE DEF Made
  <2>1. <<f>> \in Seq(Files)
    BY BytesOfOne
  <2> QED BY <1>4, <1>6, <2>1 DEF handleMaskPick
<1>7. ASSUME NEW n \in DOMAIN calls, PictureRead(n) PROVE Made
  <2>1. calls[n].op \in {"picture", "mask"} /\ calls[n].arg.file \in Files /\ calls[n].arg.limit \in Nat
        /\ calls' = Minus(calls, n)
    BY <1>7, <1>0 DEF PictureRead, Do, ImageCall
  <2>2. CallsDone
    BY <2>1, <1>0, ImageMinus
  <2> DEFINE q == FirstOf(Append(local.images, calls[n].arg.file), calls[n].arg.limit)
  <2>3. q \in Seq(Files)
    BY <2>1, <1>0, AppendIs, FirstOfIs
  <2>4. local' = [local EXCEPT !.images = q] \/ local' = [local EXCEPT !.mask = calls[n].arg.file]
    BY <1>7 DEF PictureRead, Do
  <2> HIDE DEF q
  <2>5. FieldsDone
    BY <2>3, <2>4, <1>0 DEF HasFields, ImageFields
  <2> QED BY <2>2, <2>5
<1>8. ASSUME NEW k \in 1..MaxAttachments, removeImage(k) PROVE Made
  <2> DEFINE q == RemoveAt(local.images, k)
  <2>1. calls' = calls /\ local' = [local EXCEPT !.images = q] /\ k \in DOMAIN local.images
    BY <1>8 DEF removeImage, Do
  <2>2. q \in Seq(Files)
    BY <2>1, <1>0, RemovedIs
  <2> HIDE DEF q
  <2>3. FieldsDone
    BY <2>1, <2>2, <1>0 DEF HasFields, ImageFields
  <2> QED BY <2>1, <2>3, <1>0
<1>9. ASSUME handleGenerate PROVE Made
  <2> DEFINE c == Call("image", ImageRequest)
             l == [local EXCEPT !.generating = TRUE, !.results = FALSE]
  <2>1. calls' = Plus(calls, c) /\ local' = [l EXCEPT !.left = @ - 1]
    BY <1>9 DEF handleGenerate, Generate, Ask, Do
  <2>2. c.op = "image" /\ c.arg = ImageRequest
    BY DEF Call
  <2>3. ImageCall(c)
    <3> HIDE DEF c
    <3> QED BY <1>0, <1>9, <2>2, RequestIs DEF ImageCall
  <2> HIDE DEF c
  <2>4. CallsDone
    BY <2>1, <2>3, <1>0, ImagePlus
  <2>5. HasFields(l, ImageFields) /\ l.about = "image" /\ l.model = local.model /\ l.images = local.images
    BY <1>0 DEF HasFields, ImageFields
  <2> HIDE DEF l
  <2>6. FieldsDone
    BY <2>1, <2>5, <1>0 DEF HasFields, ImageFields
  <2> QED BY <2>4, <2>6
<1>10. ASSUME NEW n \in DOMAIN calls, ImageAnswers(n) PROVE Made
  <2>1. PICK ok \in BOOLEAN : calls' = Minus(calls, n) /\ local' = [local EXCEPT !.generating = FALSE, !.results = ok]
    BY <1>10 DEF ImageAnswers, Do
  <2>2. FieldsDone
    BY <2>1, <1>0 DEF HasFields, ImageFields
  <2> QED BY <2>1, <2>2, <1>0, ImageMinus
<1>11. ASSUME clearImages PROVE Made
  <2>1. calls' = calls /\ local' = [local EXCEPT !.images = <<>>, !.mask = None, !.results = FALSE]
    BY <1>11 DEF clearImages, Do
  <2>2. <<>> \in Seq(Files)
    OBVIOUS
  <2>3. FieldsDone
    BY <2>1, <2>2, <1>0 DEF HasFields, ImageFields
  <2> QED BY <2>1, <2>3, <1>0
<1>12. \A n \in DOMAIN calls : calls[n].op # "process"
  BY <1>0 DEF ImageCall
<1>13. Made
  <2> HIDE DEF Made
  <2>1. ~SendAttached /\ (\A files : ~AttachFiles(files)) /\ \A k : ~removeAttachment(k)
    BY <1>0 DEF SendAttached, AttachFiles, removeAttachment
  <2>2. \A n \in DOMAIN calls : ~FilesRead(n)
    BY <1>12 DEF FilesRead
  <2> QED BY <2>1, <2>2, <1>1, <1>2, <1>3, <1>5, <1>6, <1>7, <1>8, <1>9, <1>10, <1>11 DEF PicturesNext, PicturesAnswer
<1> QED BY <1>13 DEF PicturesOk, ImageOk

\* The pictures of a prompt keep to its limits, whatever is removed, sent or
\* read late, and an edit request names pictures and a mask that its model
\* takes, though they may have been picked for another one
\* (attachment-input.tsx, image-generator.tsx).
THEOREM PicturesAlwaysFit == Spec => []PicturesFit
<1> DEFINE I == screen = "pictures" => PicturesOk(local, calls)
<1>1. Init => I
  <2> SUFFICES ASSUME Init, screen = "pictures" PROVE PicturesOk(local, calls)
    OBVIOUS
  <2>1. PicturesInit
    BY DEF Init, ShellInit, DeviceInit, BrowserInit, BulkInit, AddInit, ConnectionsInit, CardsInit, RulesInit,
       AdminInit, ChatInit, LogsInit, ConsoleInit, FeedInit, SettingsInit, ToolsInit, TunnelInit
  <2> QED BY <2>1, PicturesStart
<1>2. I /\ [Next]_uiVars => I'
  <2> SUFFICES ASSUME I, [Next]_uiVars, screen' = "pictures" PROVE PicturesOk(local, calls)'
    OBVIOUS
  <2>1. screen = "pictures" /\ PicturesOk(local, calls)
    BY OneScreen
  <2>2. CASE PicturesNext
    BY <2>1, <2>2, AttachSteps, ImageSteps DEF PicturesOk
  <2>3. CASE UNCHANGED uiVars
    BY <2>1, <2>3 DEF uiVars
  <2> QED BY <2>1, <2>2, <2>3 DEF Next
<1>3. I => PicturesFit
  <2> SUFFICES ASSUME screen = "pictures", PicturesOk(local, calls) PROVE PicturesFit
    BY DEF PicturesFit
  <2>1. CASE AttachOk(local, calls)
    <3>1. Waiting("image") = {}
      BY <2>1 DEF Waiting, AttachOk, AttachCall
    <3> QED BY <2>1, <3>1 DEF PicturesFit, AttachOk, Fits
  <2>2. CASE ImageOk(local, calls)
    <3>1. \A n \in Waiting("image") : RequestFits(calls[n].arg)
      BY <2>2 DEF Waiting, ImageOk, ImageCall
    <3>2. local.about # "attach"
      BY <2>2 DEF ImageOk
    <3> QED BY <3>1, <3>2 DEF PicturesFit, RequestFits
  <2> QED BY <2>1, <2>2 DEF PicturesOk
<1> QED BY <1>1, <1>2, <1>3, PTL DEF Spec

-----------------------------------------------------------------------------
(* The steps of a combo. *)

SomeSteps ==
    [provider : {Blank, "kiro", "commandcode", "cmc"}, model : {<<"m">>, <<"v", "m">>},
     account : {NoAccount, "c1"}, order : Nat]
Numbered(steps) == steps \in Seq(SomeSteps) /\ \A i \in DOMAIN steps : steps[i].order = i

\* Of numbered steps, each comes where it is.
LEMMA SavedInOrder ==
    ASSUME NEW steps, Numbered(steps)
    PROVE  serializedFormSteps(steps) = [i \in DOMAIN steps |-> serializeStep(steps[i])]
<1> DEFINE before(i) == {j \in DOMAIN steps : steps[j].order < steps[i].order \/ (steps[j].order = steps[i].order /\ j < i)}
           nth(k) == CHOOSE i \in DOMAIN steps : Cardinality(before(i)) = k - 1
<1>1. DOMAIN steps = 1..Len(steps) /\ Len(steps) \in Nat
  BY DEF Numbered
<1>2. ASSUME NEW i \in DOMAIN steps PROVE Cardinality(before(i)) = i - 1
  <2>1. before(i) = 1..(i - 1)
    BY <1>1 DEF Numbered
  <2>2. Cardinality(1..(i - 1)) = i - 1
    BY <1>1, FS_Interval
  <2> QED BY <2>1, <2>2
<1> HIDE DEF before
<1>3. ASSUME NEW k \in DOMAIN steps PROVE nth(k) = k
  <2>1. \A i \in DOMAIN steps : Cardinality(before(i)) = k - 1 <=> i = k
    BY <1>1, <1>2
  <2> QED BY <2>1
<1> HIDE DEF nth
<1>4. serializedFormSteps(steps) = [k \in DOMAIN steps |-> serializeStep(steps[nth(k)])]
  BY DEF serializedFormSteps, nth, before
<1> QED BY <1>3, <1>4

LEMMA BlankIs ==
    Blank \notin {"kr", "kiro", "cmc", "cmd", "glm", "work", "oai", "openai", "commandcode", "grok", "combo", "alias",
                  "openai-compatible", "c1", "c2", "c3", "c4"}
BY Zenon DEF Blank

\* A target with a prefix is read as its parts.
RoutePrefixes == {Blank, "kr", "kiro", "cmc", "cmd", "glm", "work"}
Tails == {<<"m">>, <<"v", "m">>}
TargetOf(q, m, a) == [path |-> <<q>> \o m, account |-> a]
StepOf(p, m, a, n) == [provider |-> p, model |-> m, account |-> a, order |-> n]
LEMMA ReadAs ==
    ASSUME NEW q \in RoutePrefixes, NEW m \in Tails, NEW a, NEW n
    PROVE  parseModelString(TargetOf(q, m, a), n) = StepOf(providerPrefixToProvider(q), m, a, n)
<1> DEFINE S == {Blank, "kr", "kiro", "cmc", "cmd", "glm", "work", "m", "v"}
           t == TargetOf(q, m, a)
<1>1. q \in S /\ m \in Seq(S) /\ Len(m) > 0
  <2>1. \A x, y \in S : <<x>> \in Seq(S) /\ <<x, y>> \in Seq(S) /\ Len(<<x>>) = 1 /\ Len(<<x, y>>) = 2
    <3> HIDE DEF S
    <3> QED OBVIOUS
  <2>2. "m" \in S /\ "v" \in S /\ q \in S
    BY DEF RoutePrefixes
  <2> HIDE DEF S
  <2>3. <<"m">> \in Seq(S) /\ <<"v", "m">> \in Seq(S) /\ Len(<<"m">>) > 0 /\ Len(<<"v", "m">>) > 0
    BY <2>1, <2>2
  <2>4. m = <<"m">> \/ m = <<"v", "m">>
    BY DEF Tails
  <2>5. m \in Seq(S) /\ Len(m) > 0
    BY <2>3, <2>4, Zenon
  <2> QED BY <2>2, <2>5
<1> HIDE DEF S
<1>2. Len(<<q>> \o m) = 1 + Len(m) /\ Head(<<q>> \o m) = q /\ Tail(<<q>> \o m) = m /\ Len(m) \in Nat
  BY <1>1, ConsIs
<1>3. t.path = <<q>> \o m /\ t.account = a
  BY DEF TargetOf
<1> HIDE DEF t
<1>4. Len(t.path) # 1 /\ Head(t.path) = q /\ Tail(t.path) = m
  BY <1>1, <1>2, <1>3
<1>5. parseRoutingTarget(t) = [provider |-> q, model |-> m, account |-> a]
  BY <1>3, <1>4 DEF parseRoutingTarget
<1> QED BY <1>5 DEF parseModelString, StepOf, t

\* A target is opened as a step, which is read back from what is saved of it.
LEMMA TargetIs ==
    ASSUME NEW t \in SomeTargets, NEW n \in Nat
    PROVE  LET s == parseModelString(t, n) IN
           s \in SomeSteps /\ s.order = n /\ parseModelString(serializeStep(s), n) = s
<1> DEFINE s == parseModelString(t, n)
<1>1. PICK p \in {Blank, "kiro", "commandcode"}, m \in Tails, a \in {NoAccount, "c1"} : s = StepOf(p, m, a, n)
  <2>1. t = [path |-> t.path, account |-> t.account] /\ t.account \in {NoAccount, "c1"}
        /\ (t.path = <<"m">> \/ \E p \in {"kr", "kiro", "cmc", "cmd"}, m \in Tails : t.path = <<p>> \o m)
    BY DEF SomeTargets, Tails
  <2>2. CASE t.path = <<"m">>
    <3>1. Len(t.path) = 1
      BY <2>2
    <3>2. parseRoutingTarget(t) = [provider |-> Blank, model |-> <<"m">>, account |-> t.account]
      BY <2>2, <3>1 DEF parseRoutingTarget
    <3>3. providerPrefixToProvider(Blank) = Blank
      BY BlankIs DEF providerPrefixToProvider
    <3>4. s = StepOf(Blank, <<"m">>, t.account, n)
      BY <3>2, <3>3 DEF parseModelString, StepOf
    <3>5. Blank \in {Blank, "kiro", "commandcode"} /\ <<"m">> \in Tails
      BY DEF Tails
    <3> HIDE DEF s
    <3> QED BY <2>1, <3>4, <3>5, Zenon
  <2>3. ASSUME NEW p \in {"kr", "kiro", "cmc", "cmd"}, NEW m \in Tails, t.path = <<p>> \o m
        PROVE  \E q \in {Blank, "kiro", "commandcode"} : s = StepOf(q, m, t.account, n)
    <3>1. t = TargetOf(p, m, t.account)
      BY <2>1, <2>3 DEF TargetOf
    <3>2. s = StepOf(providerPrefixToProvider(p), m, t.account, n)
      <4>1. p \in RoutePrefixes
        BY DEF RoutePrefixes
      <4>2. parseModelString(TargetOf(p, m, t.account), n) = StepOf(providerPrefixToProvider(p), m, t.account, n)
        BY <4>1, ReadAs
      <4> QED BY <3>1, <4>2, Zenon
    <3>3. providerPrefixToProvider(p) \in {Blank, "kiro", "commandcode"}
      BY DEF providerPrefixToProvider
    <3> HIDE DEF s
    <3> QED BY <3>2, <3>3
  <2> HIDE DEF s
  <2> QED BY <2>1, <2>2, <2>3
<1>2. s \in SomeSteps /\ s.order = n
  <2> HIDE DEF s
  <2> QED BY <1>1 DEF SomeSteps, StepOf, Tails
<1>3. parseModelString(serializeStep(s), n) = s
  <2> DEFINE q == providerToRoutingPrefix(p)
  <2>1. q \in RoutePrefixes /\ providerPrefixToProvider(q) = p
    BY BlankIs DEF providerToRoutingPrefix, providerPrefixToProvider, RoutePrefixes
  <2> HIDE DEF s, q
  <2>2. serializeStep(s) = TargetOf(q, m, a)
    BY <1>1 DEF serializeStep, q, StepOf, TargetOf
  <2>3. parseModelString(TargetOf(q, m, a), n) = StepOf(providerPrefixToProvider(q), m, a, n)
    BY <2>1, ReadAs
  <2> QED BY <1>1, <2>1, <2>2, <2>3, Zenon
<1> HIDE DEF s
<1> QED BY <1>2, <1>3 DEF s

LEMMA OpenedAre ==
    ASSUME NEW targets, NEW k \in Nat, targets \in [1..k -> SomeTargets]
    PROVE  LET steps == openEditDialog(targets)
               saved == serializedFormSteps(steps) IN
           /\ Numbered(steps)
           /\ isDirty(steps, targets) <=> \E i \in DOMAIN targets : serializeStep(parseModelString(targets[i], i)) # targets[i]
           /\ openEditDialog(saved) = steps /\ ~isDirty(steps, saved)
<1> DEFINE steps == openEditDialog(targets)
           saved == serializedFormSteps(steps)
<1>1. DOMAIN steps = 1..k /\ \A i \in 1..k : steps[i] = parseModelString(targets[i], i)
  BY DEF openEditDialog
<1>2. \A i \in 1..k : steps[i] \in SomeSteps /\ steps[i].order = i /\ parseModelString(serializeStep(steps[i]), i) = steps[i]
  BY <1>1, TargetIs
<1>3. Numbered(steps)
  <2>1. steps \in [1..k -> SomeSteps]
    BY <1>2 DEF openEditDialog
  <2> HIDE DEF steps
  <2> QED BY <2>1, <1>2 DEF Numbered
<1>4. steps = [i \in 1..k |-> steps[i]]
  BY <1>1 DEF openEditDialog
<1> HIDE DEF steps
<1>5. saved = [i \in 1..k |-> serializeStep(steps[i])]
  BY <1>1, <1>3, SavedInOrder
<1>6. isDirty(steps, targets) <=> \E i \in DOMAIN targets : serializeStep(parseModelString(targets[i], i)) # targets[i]
  BY <1>1, <1>5 DEF isDirty, saved
<1>7. openEditDialog(saved) = [i \in 1..k |-> parseModelString(saved[i], i)]
  <2> HIDE DEF saved
  <2> QED BY <1>5 DEF openEditDialog
<1>8. \A i \in 1..k : parseModelString(saved[i], i) = steps[i]
  <2> HIDE DEF saved
  <2> QED BY <1>2, <1>5
<1>9. openEditDialog(saved) = steps
  <2> HIDE DEF saved
  <2> QED BY <1>4, <1>7, <1>8
<1>10. ~isDirty(steps, saved)
  BY DEF isDirty
<1> HIDE DEF saved
<1> QED BY <1>3, <1>6, <1>9, <1>10 DEF steps, saved

\* Whatever the order of steps was, renumbered they are in order.
LEMMA RenumberedAre ==
    ASSUME NEW steps \in Seq(SomeSteps)
    PROVE  Numbered(Renumbered(steps))
<1> DEFINE r == Renumbered(steps)
<1>1. DOMAIN steps = 1..Len(steps) /\ Len(steps) \in Nat
  OBVIOUS
<1>2. ASSUME NEW i \in 1..Len(steps) PROVE [steps[i] EXCEPT !.order = i] \in SomeSteps /\ [steps[i] EXCEPT !.order = i].order = i
  <2>1. steps[i] \in SomeSteps /\ i \in Nat
    BY <1>1
  <2> QED BY <2>1 DEF SomeSteps
<1>3. r \in [1..Len(steps) -> SomeSteps] /\ \A i \in 1..Len(steps) : r[i].order = i
  BY <1>1, <1>2 DEF Renumbered
<1> HIDE DEF r
<1> QED BY <1>1, <1>3 DEF Numbered, r

LEMMA EditsAre ==
    ASSUME NEW steps, Numbered(steps), NEW step \in SomeSteps, NEW s \in Edits(steps, step)
    PROVE  Numbered(s)
<1>1. steps \in Seq(SomeSteps) /\ DOMAIN steps = 1..Len(steps) /\ Len(steps) \in Nat
  BY DEF Numbered
<1>2. CASE s = handleAddStep(steps, step)
  <2> DEFINE x == [step EXCEPT !.order = Len(steps) + 1]
  <2>1. x \in SomeSteps /\ x.order = Len(steps) + 1
    BY <1>1 DEF SomeSteps
  <2>2. s = Append(steps, x)
    BY <1>2 DEF handleAddStep
  <2> HIDE DEF x
  <2>3. /\ s \in Seq(SomeSteps) /\ DOMAIN s = 1..(Len(steps) + 1) /\ s[Len(steps) + 1] = x
        /\ \A i \in 1..Len(steps) : s[i] = steps[i]
    BY <1>1, <2>1, <2>2
  <2> QED BY <1>1, <2>1, <2>3 DEF Numbered
<1>3. ASSUME NEW k \in DOMAIN steps, s = handleDeleteStep(steps, k) PROVE Numbered(s)
  <2>1. SubSeq(steps, 1, k - 1) \in Seq(SomeSteps) /\ SubSeq(steps, k + 1, Len(steps)) \in Seq(SomeSteps)
    BY <1>1, <1>3
  <2>2. SubSeq(steps, 1, k - 1) \o SubSeq(steps, k + 1, Len(steps)) \in Seq(SomeSteps)
    BY <2>1
  <2> QED BY <2>2, <1>3, RenumberedAre DEF handleDeleteStep
<1>4. ASSUME NEW k \in DOMAIN steps, s = handleSwitchStepToAuto(steps, k) PROVE Numbered(s)
  <2>1. steps[k] \in SomeSteps
    BY <1>1
  <2> DEFINE x == [steps[k] EXCEPT !.account = NoAccount]
  <2>2. x \in SomeSteps /\ x.order = steps[k].order
    BY <2>1 DEF SomeSteps
  <2>3. s = [steps EXCEPT ![k] = x]
    BY <1>4 DEF handleSwitchStepToAuto
  <2> HIDE DEF x
  <2>4. s \in Seq(SomeSteps) /\ DOMAIN s = DOMAIN steps /\ \A i \in DOMAIN steps : s[i] = IF i = k THEN x ELSE steps[i]
    BY <1>1, <2>2, <2>3
  <2> QED BY <2>2, <2>4 DEF Numbered
<1>5. ASSUME NEW k \in DOMAIN steps, NEW direction, s = handleMoveStep(steps, k, direction) PROVE Numbered(s)
  <2> DEFINE t == IF direction = "up" THEN k - 1 ELSE k + 1
  <2>1. CASE t \notin DOMAIN steps
    BY <1>5, <2>1 DEF handleMoveStep
  <2>2. CASE t \in DOMAIN steps
    <3>1. s = Renumbered([steps EXCEPT ![k] = steps[t], ![t] = steps[k]])
      BY <1>5, <2>2 DEF handleMoveStep
    <3> HIDE DEF t
    <3>2. [steps EXCEPT ![k] = steps[t], ![t] = steps[k]] \in Seq(SomeSteps)
      BY <1>1, <2>2
    <3> QED BY <3>1, <3>2, RenumberedAre
  <2> QED BY <2>1, <2>2
<1> QED BY <1>2, <1>3, <1>4, <1>5 DEF Edits

\* The accounts that the form offers.
LEMMA OfferedAre ==
    ASSUME NEW p \in {"cmc", "glm", "kiro", "work"}, NEW a \in availableAccounts(SomeAccounts, p), NEW step,
           step = [provider |-> p, model |-> <<"m">>, account |-> a.id, order |-> 0]
    PROVE  /\ canAdd(p, step.model, "pinned", a.id) /\ ~hasBadPin(step, SomeAccounts)
           /\ OfProvider(a, parseModelString(serializeStep(step), 1).provider)
<1>1. a \in SomeAccounts /\ a.isActive /\ OfProvider(a, p)
  BY DEF availableAccounts
<1>2. \/ a = [id |-> "c1", provider |-> "commandcode", routePrefix |-> Blank, isActive |-> TRUE, models |-> {<<"v", "m">>}]
      \/ a = [id |-> "c2", provider |-> "openai-compatible", routePrefix |-> "work", isActive |-> TRUE, models |-> {<<"m">>}]
      \/ a = [id |-> "c3", provider |-> "kiro", routePrefix |-> Blank, isActive |-> TRUE, models |-> {}]
      \/ a = [id |-> "c4", provider |-> "glm", routePrefix |-> Blank, isActive |-> FALSE, models |-> {}]
  BY <1>1, Zenon DEF SomeAccounts
<1>3. a.id # Blank /\ a.provider \in {"commandcode", "openai-compatible", "kiro", "glm"} /\ p # Blank
  BY <1>2, BlankIs
<1>4. <<"m">> # <<>>
  OBVIOUS
<1>5. canAdd(p, step.model, "pinned", a.id)
  BY <1>3, <1>4 DEF canAdd
<1>5a. ~hasBadPin(step, SomeAccounts)
  BY <1>1 DEF hasBadPin
<1> DEFINE q == providerToRoutingPrefix(p)
<1>6. q \in RoutePrefixes /\ providerPrefixToProvider(q) = IF p = "cmc" THEN "commandcode" ELSE p
  BY DEF providerToRoutingPrefix, providerPrefixToProvider, RoutePrefixes
<1> HIDE DEF q
<1>7. serializeStep(step) = TargetOf(q, <<"m">>, a.id)
  BY DEF serializeStep, TargetOf, q
<1>8. parseModelString(serializeStep(step), 1).provider = IF p = "cmc" THEN "commandcode" ELSE p
  <2>1. <<"m">> \in Tails
    BY DEF Tails
  <2>2. parseModelString(TargetOf(q, <<"m">>, a.id), 1) = StepOf(providerPrefixToProvider(q), <<"m">>, a.id, 1)
    BY <1>6, <2>1, ReadAs
  <2> QED BY <1>6, <1>7, <2>2 DEF StepOf
<1>9. OfProvider(a, "cmc") => OfProvider(a, "commandcode")
  <2>1. canonicalProviderId("cmc") = "commandcode" /\ canonicalProviderId("commandcode") = "commandcode"
    BY DEF canonicalProviderId
  <2>2. \A x : providersMatch(x, "cmc") => providersMatch(x, "commandcode")
    BY <2>1, BlankIs DEF providersMatch, publicProviderPrefix
  <2> QED BY <2>2 DEF OfProvider
<1> QED BY <1>1, <1>5, <1>5a, <1>8, <1>9

LEMMA NewStepIs ==
    ASSUME NEW p, NEW y
    PROVE  [[provider |-> "cmc", model |-> <<"m">>, account |-> NoAccount, order |-> 0] EXCEPT !.provider = p, !.account = y]
           = [provider |-> p, model |-> <<"m">>, account |-> y, order |-> 0]
<1> DEFINE F == {"provider", "model", "account", "order"}
           x == <<"m">>
           V == {p, "cmc", x, y, NoAccount, 0}
           r == [provider |-> "cmc", model |-> x, account |-> NoAccount, order |-> 0]
           t == [provider |-> p, model |-> x, account |-> y, order |-> 0]
<1> HIDE DEF x
<1>1. r \in [F -> V] /\ r["model"] = x /\ r["order"] = 0
  OBVIOUS
<1>2. t \in [F -> V] /\ t["provider"] = p /\ t["model"] = x /\ t["account"] = y /\ t["order"] = 0
  OBVIOUS
<1> HIDE DEF V, r, t
<1>3. DOMAIN [r EXCEPT !["provider"] = p, !["account"] = y] = F
  BY <1>1
<1>4. \A f \in F : [r EXCEPT !["provider"] = p, !["account"] = y][f] = t[f]
  BY <1>1, <1>2
<1>5. [r EXCEPT !["provider"] = p, !["account"] = y] = t
  <2> HIDE DEF F
  <2> QED BY <1>2, <1>3, <1>4
<1> QED BY <1>5 DEF r, t, x

LEMMA CombosAreSound ==
    ASSUME NEW k \in 0..MaxListed, NEW targets \in [1..k -> SomeTargets],
           screen = "rules", local = [about |-> "combo", targets |-> targets]
    PROVE  TargetsSound
<1> DEFINE steps == openEditDialog(targets)
           saved == serializedFormSteps(steps)
           new == [provider |-> "cmc", model |-> <<"m">>, account |-> NoAccount, order |-> 0]
<1>1. /\ Numbered(steps)
      /\ isDirty(steps, targets) <=> \E i \in DOMAIN targets : serializeStep(parseModelString(targets[i], i)) # targets[i]
      /\ openEditDialog(saved) = steps /\ ~isDirty(steps, saved)
  BY OpenedAre
<1>2. new \in SomeSteps
  BY DEF SomeSteps
<1>3. ASSUME NEW s \in Edits(steps, new)
      PROVE  /\ \A i \in DOMAIN s : s[i].order = i
             /\ serializedFormSteps(s) = [i \in DOMAIN s |-> serializeStep(s[i])]
  <2> HIDE DEF steps, new
  <2>1. Numbered(s)
    BY <1>1, <1>2, <1>3, EditsAre
  <2> QED BY <2>1, SavedInOrder DEF Numbered
<1>4. ASSUME NEW p \in {"cmc", "glm", "kiro", "work"}, NEW a \in availableAccounts(SomeAccounts, p)
      PROVE  LET step == [new EXCEPT !.provider = p, !.account = a.id] IN
             /\ canAdd(p, step.model, "pinned", a.id) /\ ~hasBadPin(step, SomeAccounts)
             /\ OfProvider(a, parseModelString(serializeStep(step), 1).provider)
             /\ \A i \in DOMAIN steps : ~hasBadPin(handleSwitchStepToAuto(steps, i)[i], SomeAccounts \ {a})
  <2> DEFINE step == [new EXCEPT !.provider = p, !.account = a.id]
  <2>1. step = [provider |-> p, model |-> <<"m">>, account |-> a.id, order |-> 0]
    BY NewStepIs, Zenon
  <2> HIDE DEF step
  <2>2. /\ canAdd(p, step.model, "pinned", a.id) /\ ~hasBadPin(step, SomeAccounts)
        /\ OfProvider(a, parseModelString(serializeStep(step), 1).provider)
    BY <2>1, OfferedAre
  <2>3. ASSUME NEW i \in DOMAIN steps PROVE handleSwitchStepToAuto(steps, i)[i].account = NoAccount
    <3> HIDE DEF steps
    <3>1. steps[i] \in SomeSteps
      BY <1>1 DEF Numbered
    <3> DEFINE x == [steps[i] EXCEPT !.account = NoAccount]
    <3>2. x.account = NoAccount
      BY <3>1 DEF SomeSteps
    <3>3. handleSwitchStepToAuto(steps, i) = [steps EXCEPT ![i] = x]
      BY DEF handleSwitchStepToAuto
    <3> HIDE DEF x
    <3>4. handleSwitchStepToAuto(steps, i)[i] = x
      BY <1>1, <3>3 DEF Numbered
    <3> QED BY <3>2, <3>4
  <2>4. \A i \in DOMAIN steps : ~hasBadPin(handleSwitchStepToAuto(steps, i)[i], SomeAccounts \ {a})
    <3> HIDE DEF steps
    <3> QED BY <2>3 DEF hasBadPin
  <2> HIDE DEF steps, new
  <2> QED BY <2>2, <2>4 DEF step
<1>5. local.targets = targets /\ local.about = "combo" /\ "combo" # "choice"
  OBVIOUS
<1> DEFINE B == \A p \in {"cmc", "glm", "kiro", "work"} : \A a \in availableAccounts(SomeAccounts, p) :
                   LET step == [new EXCEPT !.provider = p, !.account = a.id] IN
                   /\ canAdd(p, step.model, "pinned", a.id) /\ ~hasBadPin(step, SomeAccounts)
                   /\ OfProvider(a, parseModelString(serializeStep(step), 1).provider)
                   /\ \A i \in DOMAIN steps : ~hasBadPin(handleSwitchStepToAuto(steps, i)[i], SomeAccounts \ {a})
           E == \A s \in Edits(steps, new) :
                   /\ \A i \in DOMAIN s : s[i].order = i
                   /\ serializedFormSteps(s) = [i \in DOMAIN s |-> serializeStep(s[i])]
<1>6. B /\ E
  <2> HIDE DEF steps, saved, new
  <2> QED BY <1>3, <1>4
<1> HIDE DEF B, E
<1>7. TargetsSound <=> /\ isDirty(steps, targets) <=> \E i \in DOMAIN targets : serializeStep(parseModelString(targets[i], i)) # targets[i]
                       /\ openEditDialog(saved) = steps /\ ~isDirty(steps, saved) /\ E /\ B
  BY <1>5 DEF TargetsSound, B, E
<1> HIDE DEF steps, saved, new
<1> QED BY <1>1, <1>6, <1>7

-----------------------------------------------------------------------------
(* The choice of a model. *)

LEMMA FirstIs ==
    ASSUME NEW S \in SUBSET Nat, S # {}
    PROVE  First(S) \in S
BY LeastOf DEF First

LEMMA ChatModelsAre ==
    ASSUME NEW models \in Seq(SomeModels)
    PROVE  /\ chatModels(models) \in Seq(SomeModels)
           /\ models # <<>> /\ models[1].chats => chatModels(models) # <<>> /\ chatModels(models)[1] = models[1]
<1> DEFINE N == Len(models)
           S == Seq(SomeModels)
           next(x, m) == IF m.chats THEN Append(x, m) ELSE x
           R(f) == f = [k \in 0..N |-> IF k = 0 THEN <<>> ELSE next(f[k - 1], models[k])]
           step == [k \in 1..N |-> [x \in S |-> next(x, models[k])]]
           t == CHOOSE f : R(f)
<1>0. N \in Nat /\ \A k \in 1..N : models[k] \in SomeModels
  OBVIOUS
<1>1. \A x \in S, m \in SomeModels : next(x, m) \in S
  BY AppendProperties
<1>2. <<>> \in S
  OBVIOUS
<1> HIDE DEF N
<1>3. Stepping(step, <<>>, S, N)
  <2> HIDE DEF S, next
  <2> QED BY <1>0, <1>1, <1>2 DEF Stepping
<1>4. PICK f \in [0..N -> S] : f[0] = <<>> /\ \A k \in 1..N : f[k] = step[k][f[k - 1]]
  <2> HIDE DEF step, S
  <2> QED BY <1>3, Recursion
<1>5. \A k \in 1..N : \A x \in S : step[k][x] = next(x, models[k])
  <2> HIDE DEF S, next
  <2> QED OBVIOUS
<1> HIDE DEF step, t
<1>6. R(f)
  <2>1. ASSUME NEW k \in 1..N PROVE f[k] = next(f[k - 1], models[k])
    <3>1. k - 1 \in 0..N
      BY <1>0
    <3> HIDE DEF next, S
    <3>2. f[k - 1] \in S
      BY <3>1, <1>4
    <3> QED BY <3>2, <1>4, <1>5
  <2> HIDE DEF S, next
  <2> QED BY <2>1, <1>0, <1>4
<1>7. R(t)
  <2> HIDE DEF R
  <2> QED BY <1>6 DEF t
<1>8. chatModels(models) = t[N]
  BY DEF chatModels, t, N
<1>9. t[0] = <<>> /\ \A k \in 1..N : t[k] = next(t[k - 1], models[k])
  <2> HIDE DEF S, next
  <2> QED BY <1>0, <1>7
<1>10. t[N] \in S
  <2> HIDE DEF S, next, R
  <2>1. \A k \in 1..N : t[k - 1] \in S => t[k] = step[k][t[k - 1]]
    BY <1>5, <1>9
  <2>2. \A k \in 0..N : t[k] \in S
    BY <1>3, <1>9, <2>1, Stepped
  <2> QED BY <1>0, <2>2
<1>11. ASSUME models # <<>>, models[1].chats PROVE t[N] # <<>> /\ t[N][1] = models[1]
  <2> DEFINE S1 == {x \in S : Len(x) >= 1 /\ x[1] = models[1]}
             step1 == [k \in 1..(N - 1) |-> [x \in S1 |-> next(x, models[k + 1])]]
             u == [k \in 0..(N - 1) |-> t[k + 1]]
  <2>1. N - 1 \in Nat /\ 1 \in 1..N /\ models[1] \in SomeModels
    <3>1. N # 0
      BY <1>11 DEF N
    <3> QED BY <3>1, <1>0
  <2>2. t[1] = <<models[1]>>
    <3>1. t[1] = next(<<>>, models[1])
      <4> HIDE DEF next, R
      <4>1. t[1] = next(t[1 - 1], models[1])
        BY <1>9, <2>1
      <4>2. 1 - 1 = 0
        OBVIOUS
      <4>3. t[1] = next(t[0], models[1])
        BY <4>1, <4>2
      <4> QED BY <1>9, <4>3
    <3>2. next(<<>>, models[1]) = Append(<<>>, models[1])
      BY <1>11
    <3> QED BY <3>1, <3>2
  <2>3. <<models[1]>> \in S1
    BY <2>1
  <2>4. \A x \in S1, m \in SomeModels : next(x, m) \in S1
    <3> SUFFICES ASSUME NEW x \in S1, NEW m \in SomeModels PROVE Append(x, m) \in S1
      OBVIOUS
    <3>1. x \in Seq(SomeModels) /\ Len(x) \in Nat /\ Len(x) >= 1 /\ x[1] = models[1] /\ 1 \in 1..Len(x)
      OBVIOUS
    <3> DEFINE y == Append(x, m)
    <3>2. y \in Seq(SomeModels) /\ Len(y) = Len(x) + 1 /\ \A i \in 1..Len(x) : y[i] = x[i]
      <4> HIDE DEF S1
      <4> QED BY <3>1, AppendProperties
    <3>3. y \in S /\ Len(y) >= 1 /\ y[1] = models[1]
      <4> HIDE DEF y
      <4> QED BY <3>1, <3>2
    <3> HIDE DEF y, S
    <3> QED BY <3>3 DEF y
  <2> HIDE DEF S1, t, R
  <2>5. Stepping(step1, <<models[1]>>, S1, N - 1)
    <3> HIDE DEF next
    <3> QED BY <1>0, <2>1, <2>3, <2>4 DEF Stepping
  <2>6. u[0] = <<models[1]>>
    BY <2>1, <2>2
  <2>7. \A k \in 1..(N - 1) : u[k - 1] \in S1 => u[k] = step1[k][u[k - 1]]
    <3> SUFFICES ASSUME NEW k \in 1..(N - 1), u[k - 1] \in S1 PROVE u[k] = step1[k][u[k - 1]]
      OBVIOUS
    <3> HIDE DEF next, S
    <3>1. k + 1 \in 1..N /\ k - 1 \in 0..(N - 1) /\ k \in 0..(N - 1) /\ (k + 1) - 1 = k /\ (k - 1) + 1 = k
      BY <1>0
    <3>2. u[k] = t[k + 1] /\ u[k - 1] = t[k]
      BY <3>1
    <3> HIDE DEF u
    <3>3. t[k + 1] = next(t[k], models[k + 1])
      <4>1. t[k + 1] = next(t[(k + 1) - 1], models[k + 1])
        BY <3>1, <1>9
      <4> QED BY <4>1, <3>1
    <3>4. step1[k][t[k]] = next(t[k], models[k + 1])
      BY <3>2
    <3> QED BY <3>2, <3>3, <3>4
  <2> HIDE DEF step1, u, next
  <2>8. \A k \in 0..(N - 1) : u[k] \in S1
    BY <2>5, <2>6, <2>7, Stepped
  <2>9. u[N - 1] = t[N]
    <3>1. N - 1 \in 0..(N - 1) /\ (N - 1) + 1 = N
      BY <1>0, <2>1
    <3> QED BY <3>1 DEF u
  <2>10. t[N] \in S1
    BY <2>1, <2>8, <2>9
  <2> QED BY <2>10 DEF S1, S
<1> HIDE DEF R, next, t
<1> QED BY <1>8, <1>10, <1>11 DEF S

\* What the target of a model is made of.
Selectable(m) == getSelectableModelValue(m)
LEMMA ListedIs ==
    ASSUME NEW m \in SomeModels
    PROVE  /\ displayProvider(m) # Blank /\ m.vision \in BOOLEAN
           /\ displayProvider(m) \in Special => Selectable(m) = m.id
           /\ displayProvider(m) \notin Special =>
                 <<displayProvider(m)>> \o Selectable(m) = m.id /\ Len(m.id) # 1
                 /\ Head(m.id) = displayProvider(m) /\ Tail(m.id) = Selectable(m)
<1> DEFINE S == {"work", "cmc", "glm", "m", "v"}
<1>1. \A x, y \in S : <<x>> \in Seq(S) /\ Len(<<x>>) = 1 /\ <<x, y>> \in Seq(S) /\ Len(<<x, y>>) = 2
  <2> HIDE DEF S
  <2> QED OBVIOUS
<1>2. "work" \in S /\ "cmc" \in S /\ "glm" \in S /\ "m" \in S /\ "v" \in S
  OBVIOUS
<1> HIDE DEF S
<1>3. m = ComboModel
      \/ \E p \in {"work", "cmc", "glm"}, n \in Tails, v \in BOOLEAN, c \in BOOLEAN : \E r \in {Blank, p} :
            /\ m = [id |-> <<p>> \o n, provider |-> p, routePrefix |-> r, vision |-> v, chats |-> c]
  <2>1. m \in RoutedModels => \E n \in Tails, v \in BOOLEAN :
            m = [id |-> <<"work">> \o n, provider |-> "work", routePrefix |-> "work", vision |-> v, chats |-> TRUE]
    BY DEF RoutedModels, Tails
  <2>2. m \in OwnModels => \E p \in {"cmc", "glm"}, n \in Tails, c \in BOOLEAN :
            m = [id |-> <<p>> \o n, provider |-> p, routePrefix |-> Blank, vision |-> FALSE, chats |-> c]
    BY DEF OwnModels, Tails
  <2> QED BY <2>1, <2>2, Zenon DEF SomeModels
<1>4. CASE m = ComboModel
  <2>1. displayProvider(m) = "combo" /\ Selectable(m) = m.id /\ m.vision \in BOOLEAN
    BY <1>4 DEF ComboModel, displayProvider, getSelectableModelValue, Special, Selectable
  <2> QED BY <2>1, BlankIs DEF Special
<1>5. ASSUME NEW p \in {"work", "cmc", "glm"}, NEW n \in Tails, NEW v \in BOOLEAN, NEW c \in BOOLEAN, NEW r \in {Blank, p},
             m = [id |-> <<p>> \o n, provider |-> p, routePrefix |-> r, vision |-> v, chats |-> c]
      PROVE  /\ displayProvider(m) # Blank /\ m.vision \in BOOLEAN
             /\ displayProvider(m) \in Special => Selectable(m) = m.id
             /\ displayProvider(m) \notin Special =>
                   <<displayProvider(m)>> \o Selectable(m) = m.id /\ Len(m.id) # 1
                   /\ Head(m.id) = displayProvider(m) /\ Tail(m.id) = Selectable(m)
  <2>1. m.id = <<p>> \o n /\ m.provider = p /\ m.routePrefix = r /\ m.vision = v
    BY <1>5
  <2>2. p \in S /\ n \in Seq(S) /\ Len(n) > 0
    <3>1. <<"m">> \in Seq(S) /\ <<"v", "m">> \in Seq(S) /\ Len(<<"m">>) > 0 /\ Len(<<"v", "m">>) > 0
      BY <1>1, <1>2
    <3>2. n = <<"m">> \/ n = <<"v", "m">>
      BY DEF Tails
    <3>3. n \in Seq(S) /\ Len(n) > 0
      BY <3>1, <3>2, Zenon
    <3>4. p \in S
      BY <1>2
    <3> QED BY <3>3, <3>4
  <2>3. Len(m.id) = 1 + Len(n) /\ Head(m.id) = p /\ Tail(m.id) = n /\ Len(n) \in Nat
    BY <2>1, <2>2, ConsIs
  <2>4. p \notin Special /\ p # Blank
    BY BlankIs DEF Special
  <2>5. displayProvider(m) = p
    BY <2>1, <2>4 DEF displayProvider
  <2>6. Len(m.id) # 1
    BY <2>2, <2>3
  <2>7. Selectable(m) = n
    BY <2>1, <2>3, <2>4, <2>6 DEF getSelectableModelValue, Selectable
  <2> QED BY <2>1, <2>3, <2>4, <2>5, <2>6, <2>7
<1> QED BY <1>3, <1>4, <1>5

\* A choice of a model of the list, with an account only if it can be pinned.
IsChoice(c) == c = [provider |-> c.provider, model |-> c.model, account |-> c.account]
ListedAs(list, c) == {i \in DOMAIN list : displayProvider(list[i]) = c.provider /\ Selectable(list[i]) = c.model}
GoodChoice(list, c) ==
    IsChoice(c) /\ ListedAs(list, c) # {} /\ (c.provider \in Special => c.account = "auto")

\* Where a choice of some model is sent.
LEMMA TargetOfChoice ==
    ASSUME NEW m \in SomeModels, NEW c, IsChoice(c), c.provider = displayProvider(m), c.model = Selectable(m),
           c.provider \in Special => c.account = "auto"
    PROVE  LET target == buildPlaygroundModelId(c.provider, c.model, c.account) IN
           /\ target.path = m.id /\ target.account = c.account
           /\ c.provider \notin Special =>
                 parseRoutingTarget(target) = [provider |-> c.provider, model |-> c.model, account |-> c.account]
<1> DEFINE target == buildPlaygroundModelId(c.provider, c.model, c.account)
<1>1. /\ c.provider \in Special => c.model = m.id
      /\ c.provider \notin Special => /\ <<c.provider>> \o c.model = m.id /\ Len(m.id) # 1
                                      /\ Head(m.id) = c.provider /\ Tail(m.id) = c.model
  BY ListedIs
<1>2. target.path = m.id /\ target.account = c.account
  BY <1>1 DEF buildPlaygroundModelId
<1>3. c.provider \notin Special =>
          parseRoutingTarget(target) = [provider |-> c.provider, model |-> c.model, account |-> c.account]
  <2> HIDE DEF target
  <2> QED BY <1>1, <1>2 DEF parseRoutingTarget
<1> HIDE DEF target
<1> QED BY <1>2, <1>3 DEF target

\* A choice reaches one of some models, which takes pictures as the list says.
Reached(models, list, c) ==
    LET target == buildPlaygroundModelId(c.provider, c.model, c.account) IN
    /\ \E i \in DOMAIN models : /\ target.path = models[i].id
                                /\ c.provider \notin Special /\ models[i].chats =>
                                      models[i].vision = supportsImages(list, c)
    /\ target.account = c.account
    /\ c.provider \notin Special =>
          parseRoutingTarget(target) = [provider |-> c.provider, model |-> c.model, account |-> c.account]

LEMMA TargetFound ==
    ASSUME NEW list \in Seq(SomeModels), NEW c, GoodChoice(list, c)
    PROVE  Reached(list, list, c)
<1> DEFINE it == ListedAs(list, c)
           i == First(it)
<1>1. DOMAIN list = 1..Len(list) /\ Len(list) \in Nat
  OBVIOUS
<1>2. it \in SUBSET Nat /\ it # {}
  BY <1>1 DEF GoodChoice, ListedAs
<1>3. i \in it
  <2> HIDE DEF it
  <2> QED BY <1>2, FirstIs
<1>4. i \in DOMAIN list /\ displayProvider(list[i]) = c.provider /\ Selectable(list[i]) = c.model
  <2> HIDE DEF i
  <2> QED BY <1>3 DEF ListedAs
<1>5. list[i] \in SomeModels
  <2> HIDE DEF i
  <2> QED BY <1>1, <1>4
<1> DEFINE m == list[i]
<1>6. c.provider # Blank /\ m.vision \in BOOLEAN
  <2> HIDE DEF m
  <2> QED BY <1>4, <1>5, ListedIs DEF m
<1>7. supportsImages(list, c) = (c.provider \in Special \cup {Blank} \/ it = {} \/ m.vision)
  BY DEF supportsImages, ListedAs, PlacesOf, Selectable
<1> HIDE DEF it, i
<1>8. c.provider \notin Special => m.vision = supportsImages(list, c)
  <2> HIDE DEF m
  <2> QED BY <1>2, <1>6, <1>7
<1> DEFINE target == buildPlaygroundModelId(c.provider, c.model, c.account)
<1>9. /\ target.path = m.id /\ target.account = c.account
      /\ c.provider \notin Special =>
            parseRoutingTarget(target) = [provider |-> c.provider, model |-> c.model, account |-> c.account]
  <2> HIDE DEF m
  <2> QED BY <1>4, <1>5, TargetOfChoice DEF GoodChoice, m
<1> HIDE DEF target
<1> QED BY <1>4, <1>8, <1>9 DEF Reached, target

LEMMA ChoicesAreSound ==
    ASSUME NEW k \in 0..MaxListed, NEW models \in [1..k -> SomeModels],
           screen = "rules", local = [about |-> "choice", models |-> models]
    PROVE  TargetsSound
<1> DEFINE list == chatModels(models)
           first == initializeSelection(models)
           sent == IF models[1].chats THEN list ELSE models
           provider == {handleProviderChange(list, displayProvider(list[i])) : i \in DOMAIN list}
           model == UNION {{setSelectedModel(c, getSelectableModelValue(m)) : m \in availableModels(list, c)} :
                               c \in provider}
           account == UNION {{setSelectedAccount(c, a.id) : a \in pinnableAccounts(SomeAccounts, c)} :
                                c \in {d \in model : OffersAccounts(d)}}
<1>0. models \in Seq(SomeModels)
  OBVIOUS
<1>1. /\ list \in Seq(SomeModels)
      /\ models # <<>> /\ models[1].chats => list # <<>> /\ list[1] = models[1]
  BY <1>0, ChatModelsAre
<1> HIDE DEF list
<1>2. DOMAIN list = 1..Len(list) /\ Len(list) \in Nat
  BY <1>1
<1>3. ASSUME NEW i \in DOMAIN list, NEW p, p = displayProvider(list[i]) PROVE GoodChoice(list, Chosen(list[i], p))
  <2>1. Chosen(list[i], p) = [provider |-> p, model |-> Selectable(list[i]), account |-> "auto"]
    BY DEF Chosen, Selectable
  <2> HIDE DEF Chosen
  <2>2. i \in ListedAs(list, Chosen(list[i], p))
    BY <1>3, <2>1 DEF ListedAs
  <2> QED BY <2>1, <2>2 DEF GoodChoice, IsChoice
<1>4. first # NoChoice => Reached(sent, list, first)
  <2> SUFFICES ASSUME models # <<>> PROVE Reached(sent, list, first)
    BY DEF initializeSelection
  <2> DEFINE m == models[1]
             p == displayProvider(m)
  <2>1. 1 \in DOMAIN models /\ m \in SomeModels
    BY <1>0
  <2>2. first = Chosen(m, p)
    BY DEF initializeSelection
  <2>3. CASE m.chats
    <3>1. 1 \in DOMAIN list /\ list[1] = m
      BY <1>1, <1>2, <2>3
    <3>2. GoodChoice(list, first)
      <4> HIDE DEF m, first
      <4> QED BY <1>3, <2>2, <3>1
    <3>3. Reached(list, list, first)
      <4> HIDE DEF first
      <4> QED BY <1>1, <3>2, TargetFound
    <3> QED BY <2>3, <3>3
  <2>4. CASE ~m.chats
    <3>1. first = [provider |-> p, model |-> Selectable(m), account |-> "auto"]
      <4> HIDE DEF first, p, m
      <4> QED BY <2>2 DEF Chosen, Selectable
    <3>2. IsChoice(first) /\ first.provider = p /\ first.model = Selectable(m) /\ first.account = "auto"
      <4> HIDE DEF first, p, m
      <4> QED BY <3>1 DEF IsChoice
    <3>3. sent = models
      BY <2>4
    <3> DEFINE target == buildPlaygroundModelId(first.provider, first.model, first.account)
    <3>4. /\ target.path = m.id /\ target.account = first.account
          /\ first.provider \notin Special =>
               parseRoutingTarget(target) = [provider |-> first.provider, model |-> first.model, account |-> first.account]
      <4> HIDE DEF first, m
      <4> QED BY <2>1, <3>2, TargetOfChoice
    <3> HIDE DEF target, first, sent
    <3> QED BY <2>1, <2>4, <3>3, <3>4 DEF Reached, target
  <2> QED BY <2>3, <2>4
<1>5. ASSUME NEW c \in provider PROVE GoodChoice(list, c)
  <2>1. PICK i \in DOMAIN list : c = handleProviderChange(list, displayProvider(list[i]))
    OBVIOUS
  <2> DEFINE p == displayProvider(list[i])
             own == PlacesOf(list, p)
  <2>2. own \in SUBSET Nat /\ i \in own
    BY <1>2 DEF PlacesOf
  <2>3. First(own) \in own
    <3> HIDE DEF own
    <3> QED BY <2>2, FirstIs
  <2>4. First(own) \in DOMAIN list /\ displayProvider(list[First(own)]) = p
    BY <2>3 DEF PlacesOf
  <2>5. c = Chosen(list[First(own)], p)
    BY <2>1, <2>2 DEF handleProviderChange
  <2> HIDE DEF p, own
  <2> QED BY <1>3, <2>4, <2>5
<1>6. ASSUME NEW c \in model PROVE GoodChoice(list, c)
  <2>0. PICK d \in provider : \E m \in availableModels(list, d) : c = setSelectedModel(d, getSelectableModelValue(m))
    OBVIOUS
  <2>1. PICK m \in availableModels(list, d) : c = setSelectedModel(d, getSelectableModelValue(m))
    BY <2>0
  <2> HIDE DEF provider
  <2>2. GoodChoice(list, d)
    BY <1>5
  <2>3. PICK i \in DOMAIN list : displayProvider(list[i]) = d.provider /\ m = list[i]
    BY <2>1 DEF availableModels, PlacesOf
  <2>4. c = [provider |-> d.provider, model |-> Selectable(m), account |-> d.account]
    <3> DEFINE x == Selectable(m)
    <3>1. c = [d EXCEPT !.model = x]
      BY <2>1 DEF setSelectedModel, Selectable
    <3> HIDE DEF x
    <3> QED BY <2>2, <3>1 DEF GoodChoice, IsChoice, x
  <2>5. i \in ListedAs(list, c)
    BY <2>3, <2>4 DEF ListedAs
  <2>6. c.provider = d.provider /\ c.account = d.account
    BY <2>4
  <2> QED BY <2>2, <2>4, <2>5, <2>6 DEF GoodChoice, IsChoice
<1>7. ASSUME NEW c \in account PROVE GoodChoice(list, c)
  <2>1. PICK d \in model, a \in SomeAccounts : OffersAccounts(d) /\ c = setSelectedAccount(d, a.id)
    <3> HIDE DEF model
    <3> QED BY DEF pinnableAccounts
  <2> HIDE DEF model
  <2>2. GoodChoice(list, d)
    BY <1>6
  <2>3. c = [provider |-> d.provider, model |-> d.model, account |-> a.id]
    BY <2>1, <2>2 DEF setSelectedAccount, GoodChoice, IsChoice
  <2>4. c.provider \notin Special /\ ListedAs(list, c) = ListedAs(list, d)
    BY <2>1, <2>3 DEF OffersAccounts, ListedAs
  <2> QED BY <2>2, <2>3, <2>4 DEF GoodChoice, IsChoice
<1> HIDE DEF first, sent, provider, model, account
<1>8. \A c \in provider \cup model \cup account : Reached(list, list, c)
  BY <1>1, <1>5, <1>6, <1>7, TargetFound
<1>9. local.models = models /\ local.about = "choice" /\ "combo" # "choice"
  OBVIOUS
<1>10. TargetsSound <=> (\A c \in provider \cup model \cup account : Reached(list, list, c))
                        /\ (first # NoChoice => Reached(sent, list, first))
  BY <1>9 DEF TargetsSound, Reached, list, first, sent, provider, model, account
<1> QED BY <1>4, <1>8, <1>10

\* A combo that was saved has nothing to save when it is opened again, after any
\* use of the editor its steps are saved in the order that is shown, and no
\* account is offered whose pin is bad or which is of another provider; after a
\* change of the choice the playground sends to a model of its list, and lets in
\* the pictures that model takes (combos-tab.tsx, combo-step-form.tsx,
\* use-playground-model-selection.ts, model-selector.tsx).
THEOREM TargetsAreSound == Spec => []TargetsSound
<1>1. (screen = "rules" => RulesInit) => TargetsSound
  <2> SUFFICES ASSUME screen = "rules", RulesInit, local.about \in {"combo", "choice"} PROVE TargetsSound
    BY DEF TargetsSound
  <2>1. \/ \E k \in 0..MaxListed : \E targets \in [1..k -> SomeTargets] : local = [about |-> "combo", targets |-> targets]
        \/ \E k \in 0..MaxListed : \E models \in [1..k -> SomeModels] : local = [about |-> "choice", models |-> models]
    BY DEF RulesInit
  <2> QED BY <2>1, CombosAreSound, ChoicesAreSound
<1> QED BY <1>1, InputStays, PTL

-----------------------------------------------------------------------------
(* The window of a long list. *)

\* Where an item is, as if headers and rows took the same room.
Spot(i) == IF i.height = HEADER_HEIGHT THEN i.top ELSE i.top + 2
Before(i, j) == i.top + i.height <= j.top /\ Spot(i) + ROW_HEIGHT <= Spot(j)
IsItem(i) == i.top \in Nat /\ i.height \in {HEADER_HEIGHT, ROW_HEIGHT} /\ i = [top |-> i.top, height |-> i.height]
Apart(items) ==
    /\ \A i \in items : IsItem(i)
    /\ \A i, j \in items : i # j => Before(i, j) \/ Before(j, i)

LEMMA WindowShows ==
    ASSUME NEW items, IsFiniteSet(items), Apart(items), NEW scrollTop \in Nat, NEW viewportH \in Nat
    PROVE  InView(items, scrollTop, viewportH) \subseteq Drawn(items, scrollTop, viewportH)
<1> USE DEF HEADER_HEIGHT, ROW_HEIGHT
<1> SUFFICES ASSUME NEW i \in InView(items, scrollTop, viewportH) PROVE i \in Drawn(items, scrollTop, viewportH)
  OBVIOUS
<1> DEFINE A == Above(items, scrollTop)
           B == {j \in items : j.top < i.top}
           D == B \ A
           W == WindowSize(viewportH)
<1>1. i \in items /\ i.top < scrollTop + viewportH /\ i.top + i.height > scrollTop
  BY DEF InView
<1>2. \A j \in items : j.top \in Nat /\ j.height \in {42, 44}
  BY DEF Apart, IsItem
<1>3. A \subseteq B
  <2> SUFFICES ASSUME NEW j \in A PROVE j.top < i.top
    BY DEF Above
  <2>1. j \in items /\ j.top + j.height <= scrollTop
    BY DEF Above
  <2>2. i # j
    BY <1>1, <1>2, <2>1
  <2>3. j.top + j.height <= i.top \/ i.top + i.height <= j.top
    BY <1>1, <2>1, <2>2 DEF Apart, Before
  <2> QED BY <1>1, <1>2, <2>1, <2>3
<1>4. /\ IsFiniteSet(A) /\ IsFiniteSet(B) /\ IsFiniteSet(D)
      /\ Cardinality(A) \in Nat /\ Cardinality(B) \in Nat /\ Cardinality(D) \in Nat
  <2>1. A \subseteq items /\ B \subseteq items /\ D \subseteq items
    BY DEF Above
  <2> HIDE DEF A, B, D
  <2> QED BY <2>1, FS_Subset, FS_CardinalityType
<1>5. Cardinality(A) <= Cardinality(B) /\ Cardinality(B) = Cardinality(A) + Cardinality(D)
  <2>1. B \cap A = A
    BY <1>3
  <2> HIDE DEF A, B
  <2>2. Cardinality(B \ A) = Cardinality(B) - Cardinality(B \cap A) /\ Cardinality(A) <= Cardinality(B)
    BY <1>3, <1>4, FS_Difference, FS_Subset
  <2>3. Cardinality(D) = Cardinality(B) - Cardinality(A)
    BY <2>1, <2>2
  <2> HIDE DEF D
  <2> QED BY <1>4, <2>2, <2>3
<1> DEFINE lo == (scrollTop + 3) \div 44
           hi == (scrollTop + viewportH + 44) \div 44
           f == [j \in D |-> (Spot(j) + 44) \div 44]
<1>6. /\ lo \in Nat /\ hi \in Nat
      /\ scrollTop - 40 <= 44 * lo /\ 44 * lo <= scrollTop + 3 /\ 44 * hi <= scrollTop + viewportH + 44
      /\ scrollTop + viewportH + 1 <= 44 * hi
  OBVIOUS
<1>7. ASSUME NEW j \in D
      PROVE  Spot(j) \in Nat /\ Spot(j) + 44 >= scrollTop + 3 /\ Spot(j) <= scrollTop + viewportH
  <2>1. j \in items /\ j.top < i.top /\ j.top + j.height > scrollTop
    BY <1>2 DEF Above
  <2> QED BY <1>1, <1>2, <2>1 DEF Spot
<1>8. ASSUME NEW x \in Nat, x >= scrollTop + 3, x <= scrollTop + viewportH + 44
      PROVE  x \div 44 \in lo..hi
  BY <1>8
<1>9. f \in [D -> lo..hi]
  <2>1. \A j \in D : (Spot(j) + 44) \div 44 \in lo..hi
    <3> HIDE DEF lo, hi, D
    <3> SUFFICES ASSUME NEW j \in D PROVE (Spot(j) + 44) \div 44 \in lo..hi
      OBVIOUS
    <3> DEFINE x == Spot(j) + 44
    <3>1. x \in Nat /\ x >= scrollTop + 3 /\ x <= scrollTop + viewportH + 44
      BY <1>7
    <3> HIDE DEF x
    <3> QED BY <1>8, <3>1 DEF x
  <2> HIDE DEF lo, hi, D
  <2> QED BY <2>1
<1>10. ASSUME NEW j \in D, NEW k \in D, j # k PROVE f[j] # f[k]
  <2>1. Spot(j) + 44 <= Spot(k) \/ Spot(k) + 44 <= Spot(j)
    BY <1>10 DEF Apart, Before
  <2>2. \A x, y \in Nat : x + 44 <= y => (x + 44) \div 44 # (y + 44) \div 44
    OBVIOUS
  <2>3. Spot(j) \in Nat /\ Spot(k) \in Nat
    BY <1>7
  <2> HIDE DEF D
  <2> QED BY <2>1, <2>2, <2>3
<1>11. Cardinality(D) <= Cardinality(lo..hi) /\ Cardinality(lo..hi) \in Nat
  <2> HIDE DEF f, D, lo, hi
  <2>1. f \in Injection(D, lo..hi)
    BY <1>9, <1>10 DEF Injection, IsInjective
  <2>2. IsFiniteSet(lo..hi)
    BY <1>6, FS_Interval
  <2> QED BY <2>1, <2>2, FS_Injection, FS_CardinalityType
<1>12. Cardinality(lo..hi) <= hi - lo + 1
  <2> HIDE DEF lo, hi
  <2>1. Cardinality(lo..hi) = IF lo > hi THEN 0 ELSE hi - lo + 1
    BY <1>6, FS_Interval
  <2> QED BY <1>6, <2>1
<1>13. W \in Nat /\ 44 * W >= viewportH + 528
  BY DEF WindowSize, CeilDiv, OVERSCAN
<1>14. Cardinality(D) < W
  <2> HIDE DEF A, B, D, W, lo, hi, f
  <2> QED BY <1>4, <1>6, <1>11, <1>12, <1>13
<1>15. Cardinality(A) <= Cardinality(B) /\ Cardinality(B) < Cardinality(A) + W
  <2> HIDE DEF A, B, D, W
  <2> QED BY <1>4, <1>5, <1>13, <1>14
<1> HIDE DEF W
<1> QED BY <1>1, <1>15 DEF Drawn, W

\* The k-th item of a group that starts at e; its header is the first.
ItemAt(e, k) == IF k = 0 THEN [top |-> e, height |-> HEADER_HEIGHT]
                ELSE [top |-> e + HEADER_HEIGHT + (k - 1) * ROW_HEIGHT, height |-> ROW_HEIGHT]

LEMMA ItemsOfGroup ==
    ASSUME NEW e \in Nat, NEW r \in Nat, NEW k \in 0..r
    PROVE  /\ IsItem(ItemAt(e, k)) /\ ItemAt(e, k).top >= e
           /\ ItemAt(e, k).top + ItemAt(e, k).height <= e + 42 + r * 44
           /\ \A l \in 0..r : k < l => Before(ItemAt(e, k), ItemAt(e, l))
<1> USE DEF HEADER_HEIGHT, ROW_HEIGHT
<1>1. CASE k = 0
  BY <1>1 DEF ItemAt, IsItem, Before, Spot
<1>2. CASE k # 0
  BY <1>2 DEF ItemAt, IsItem, Before, Spot
<1> QED BY <1>1, <1>2

LEMMA GapBetween ==
    ASSUME NEW i, NEW j, IsItem(i), IsItem(j), NEW m \in Nat, i.top + i.height + 18 <= m, j.top >= m
    PROVE  Before(i, j)
<1>1. i.top \in Nat /\ i.height \in {42, 44} /\ j.top \in Nat /\ j.height \in {42, 44}
  BY DEF IsItem, HEADER_HEIGHT, ROW_HEIGHT
<1>2. i.top + i.height <= j.top /\ i.top + 60 <= j.top
  BY <1>1
<1>3. Spot(i) <= i.top + 2 /\ Spot(i) \in Nat /\ Spot(j) \in Nat /\ Spot(j) >= j.top
  BY <1>1 DEF Spot
<1> QED BY <1>1, <1>2, <1>3 DEF Before, ROW_HEIGHT

LEMMA ItemsAre ==
    ASSUME NEW sizes \in Seq(Nat)
    PROVE  IsFiniteSet(Flat(sizes)) /\ Apart(Flat(sizes))
<1> DEFINE N == Len(sizes)
           next(x, r) == x + HEADER_HEIGHT + r * ROW_HEIGHT + GROUP_GAP
           R(f) == f = [g \in 0..N |-> IF g = 0 THEN 0 ELSE next(f[g - 1], sizes[g])]
           step == [g \in 1..N |-> [x \in Nat |-> next(x, sizes[g])]]
           end == CHOOSE f : R(f)
           Item(g, k) == ItemAt(end[g - 1], k)
<1>0. N \in Nat /\ \A g \in 1..N : sizes[g] \in Nat
  OBVIOUS
<1>1. Flat(sizes) = UNION {{Item(g, k) : k \in 0..sizes[g]} : g \in 1..N}
  BY DEF Flat, ItemAt
<1>2. \A x, r \in Nat : next(x, r) \in Nat /\ next(x, r) = x + 42 + r * 44 + 18
  BY DEF HEADER_HEIGHT, ROW_HEIGHT, GROUP_GAP
<1> HIDE DEF N, next
<1>3. Stepping(step, 0, Nat, N) /\ \A g \in 1..N : \A x \in Nat : step[g][x] = next(x, sizes[g])
  BY <1>0, <1>2 DEF Stepping
<1>4. PICK f \in [0..N -> Nat] : f[0] = 0 /\ \A g \in 1..N : f[g] = step[g][f[g - 1]]
  <2> HIDE DEF step
  <2> QED BY <1>3, Recursion
<1> HIDE DEF step, end
<1>5. R(f)
  <2>1. ASSUME NEW g \in 1..N PROVE f[g] = next(f[g - 1], sizes[g])
    <3>1. f[g - 1] \in Nat
      BY <1>0, <1>4
    <3> QED BY <3>1, <1>3, <1>4
  <2> QED BY <2>1, <1>0, <1>4
<1>6. R(end)
  <2> HIDE DEF R
  <2> QED BY <1>5 DEF end
<1>7. ASSUME NEW g \in 0..N PROVE end[g] = IF g = 0 THEN 0 ELSE next(end[g - 1], sizes[g])
  BY <1>6
<1> HIDE DEF R
<1>8. /\ end[0] = 0
      /\ \A g \in 1..N : end[g] = next(end[g - 1], sizes[g]) /\ g - 1 \in 0..N /\ g \in 0..N
  BY <1>0, <1>7
<1>9. \A g \in 0..N : end[g] \in Nat
  <2> DEFINE good == {g \in 0..N : end[g] \in Nat}
  <2>1. 0 \in good
    BY <1>0, <1>8
  <2>2. ASSUME NEW g \in 1..N, g - 1 \in good PROVE g \in good
    <3>1. end[g - 1] \in Nat /\ sizes[g] \in Nat /\ g \in 0..N
      BY <1>0, <1>8, <2>2
    <3>2. end[g] = next(end[g - 1], sizes[g])
      BY <1>8
    <3>3. end[g] \in Nat
      BY <1>2, <3>1, <3>2
    <3> QED BY <3>1, <3>3
  <2> HIDE DEF good
  <2>3. 0..N \subseteq good
    BY <1>0, <2>1, <2>2, Induction
  <2> QED BY <2>3 DEF good
\* A group takes the room of its header, its rows and a gap.
<1>10. ASSUME NEW g \in 1..N
       PROVE  /\ end[g - 1] \in Nat /\ end[g] \in Nat /\ sizes[g] \in Nat
              /\ end[g] = end[g - 1] + 42 + sizes[g] * 44 + 18 /\ end[g - 1] + 60 <= end[g]
  <2> DEFINE x == end[g - 1]
             r == sizes[g]
             y == end[g]
  <2>1. x \in Nat /\ r \in Nat /\ y \in Nat /\ y = next(x, r)
    BY <1>0, <1>8, <1>9
  <2> HIDE DEF x, r, y
  <2>2. next(x, r) = x + 42 + r * 44 + 18
    BY <1>2, <2>1
  <2>3. y = x + 42 + r * 44 + 18
    BY <2>1, <2>2
  <2>4. r * 44 \in Nat
    BY <2>1
  <2> DEFINE z == r * 44
  <2>5. z \in Nat /\ y = x + 42 + z + 18
    BY <2>3, <2>4
  <2> HIDE DEF z
  <2>6. x + 60 <= y
    BY <2>1, <2>5
  <2> QED BY <2>1, <2>3, <2>6 DEF x, r, y
<1>11. ASSUME NEW g \in 0..N PROVE \A h \in g..N : h \in 0..N /\ end[g] <= end[h]
  <2> DEFINE good == {h \in 0..N : h >= g => end[g] <= end[h]}
  <2>1. 0 \in good
    BY <1>0, <1>9
  <2>2. ASSUME NEW h \in 1..N, h - 1 \in good PROVE h \in good
    <3>1. h \in 0..N /\ end[h] \in Nat /\ end[h - 1] \in Nat /\ end[g] \in Nat /\ end[h - 1] + 60 <= end[h]
      BY <1>8, <1>9, <1>10
    <3>2. h - 1 >= g => end[g] <= end[h - 1]
      BY <2>2
    <3>3. h >= g => h - 1 >= g \/ h = g
      BY <1>0
    <3> QED BY <3>1, <3>2, <3>3
  <2> HIDE DEF good
  <2>3. 0..N \subseteq good
    BY <1>0, <2>1, <2>2, Induction
  <2> QED BY <2>3, <1>0 DEF good
\* Each item lies within its group.
<1>12. ASSUME NEW g \in 1..N, NEW k \in 0..sizes[g]
       PROVE  /\ IsItem(Item(g, k)) /\ Item(g, k).top >= end[g - 1]
              /\ Item(g, k).top + Item(g, k).height + 18 <= end[g]
              /\ \A l \in 0..sizes[g] : k < l => Before(Item(g, k), Item(g, l))
  <2> DEFINE r == sizes[g]
             e == end[g - 1]
             i == Item(g, k)
  <2>1. e \in Nat /\ r \in Nat /\ end[g] = e + 42 + r * 44 + 18
    BY <1>10
  <2>2. /\ IsItem(i) /\ i.top >= e /\ i.top + i.height <= e + 42 + r * 44
        /\ \A l \in 0..r : k < l => Before(i, Item(g, l))
    <3> HIDE DEF r, e
    <3>1. k \in 0..r
      BY DEF r
    <3>2. /\ IsItem(ItemAt(e, k)) /\ ItemAt(e, k).top >= e
          /\ ItemAt(e, k).top + ItemAt(e, k).height <= e + 42 + r * 44
          /\ \A l \in 0..r : k < l => Before(ItemAt(e, k), ItemAt(e, l))
      BY <2>1, <3>1, ItemsOfGroup
    <3> QED BY <3>2 DEF e
  <2>3. i.top + i.height + 18 <= end[g] /\ i.top >= e
    <3>1. i.top \in Nat /\ i.height \in Nat
      BY <2>2 DEF IsItem, HEADER_HEIGHT, ROW_HEIGHT
    <3> HIDE DEF r, e, i
    <3> QED BY <2>1, <2>2, <3>1
  <2> QED BY <2>2, <2>3
<1>13. ASSUME NEW g \in 1..N, NEW h \in 1..N, NEW k \in 0..sizes[g], NEW l \in 0..sizes[h], g < h \/ (g = h /\ k < l)
       PROVE  Before(Item(g, k), Item(h, l))
  <2>1. CASE g < h
    <3> DEFINE i == Item(g, k)
               j == Item(h, l)
    <3>1. h - 1 \in g..N /\ g \in 0..N /\ h - 1 \in 0..N
      BY <1>0, <2>1
    <3>2. end[g] <= end[h - 1] /\ end[g] \in Nat /\ end[h - 1] \in Nat
      BY <1>9, <1>11, <3>1
    <3>3. /\ IsItem(i) /\ i.top + i.height + 18 <= end[g]
          /\ IsItem(j) /\ j.top >= end[h - 1]
      <4> HIDE DEF Item
      <4> QED BY <1>12
    <3> HIDE DEF i, j
    <3>4. Before(i, j)
      <4> DEFINE m == end[g]
      <4>1. m \in Nat /\ i.top + i.height + 18 <= m /\ IsItem(i) /\ IsItem(j)
        BY <3>2, <3>3
      <4>2. j.top \in Nat /\ j.top >= m
        <5>1. j.top \in Nat
          BY <3>3 DEF IsItem
        <5> QED BY <3>2, <3>3, <5>1
      <4> HIDE DEF m
      <4> QED BY <4>1, <4>2, GapBetween
    <3> QED BY <3>4 DEF i, j
  <2>2. CASE g = h /\ k < l
    <3> HIDE DEF Item
    <3> QED BY <1>12, <2>2
  <2> QED BY <1>13, <2>1, <2>2
<1> HIDE DEF Item
<1>14. ASSUME NEW i \in Flat(sizes) PROVE \E g \in 1..N : \E k \in 0..sizes[g] : i = Item(g, k)
  BY <1>1, <1>14
<1>15. Apart(Flat(sizes))
  <2>1. ASSUME NEW i \in Flat(sizes) PROVE IsItem(i)
    BY <1>12, <1>14
  <2>2. ASSUME NEW i \in Flat(sizes), NEW j \in Flat(sizes), i # j PROVE Before(i, j) \/ Before(j, i)
    <3>1. PICK g \in 1..N : \E k \in 0..sizes[g] : i = Item(g, k)
      BY <1>14
    <3>2. PICK k \in 0..sizes[g] : i = Item(g, k)
      BY <3>1
    <3>3. PICK h \in 1..N : \E l \in 0..sizes[h] : j = Item(h, l)
      BY <1>14
    <3>4. PICK l \in 0..sizes[h] : j = Item(h, l)
      BY <3>3
    <3>5. g \in Int /\ h \in Int /\ k \in Int /\ l \in Int
      OBVIOUS
    <3>6. g < h \/ h < g \/ (g = h /\ k < l) \/ (h = g /\ l < k) \/ (g = h /\ k = l)
      BY <3>5
    <3>7. ~(g = h /\ k = l)
      BY <2>2, <3>2, <3>4
    <3> QED BY <1>13, <3>2, <3>4, <3>6, <3>7
  <2> QED BY <2>1, <2>2 DEF Apart
<1>16. IsFiniteSet(Flat(sizes))
  <2> DEFINE M == end[N]
             f1 == [i \in Flat(sizes) |-> i.top]
  <2>1. ASSUME NEW i \in Flat(sizes) PROVE i.top \in 0..M
    <3>1. PICK g \in 1..N : \E k \in 0..sizes[g] : i = Item(g, k)
      BY <1>14
    <3>2. IsItem(i) /\ i.top + i.height + 18 <= end[g]
      BY <1>12, <3>1
    <3>3. end[g] <= M /\ end[g] \in Nat /\ M \in Nat
      BY <1>0, <1>9, <1>11
    <3> HIDE DEF M
    <3>4. i.top \in Nat /\ i.height \in Nat
      BY <3>2 DEF IsItem, HEADER_HEIGHT, ROW_HEIGHT
    <3> QED BY <3>2, <3>3, <3>4
  <2>2. ASSUME NEW i \in Flat(sizes), NEW j \in Flat(sizes), i.top = j.top PROVE i = j
    <3>1. IsItem(i) /\ IsItem(j) /\ (i # j => Before(i, j) \/ Before(j, i))
      BY <1>15 DEF Apart
    <3>2. i.top \in Nat /\ i.height \in {42, 44} /\ j.top \in Nat /\ j.height \in {42, 44}
      BY <3>1 DEF IsItem, HEADER_HEIGHT, ROW_HEIGHT
    <3>3. ~Before(i, j) /\ ~Before(j, i)
      BY <2>2, <3>2 DEF Before
    <3> QED BY <3>1, <3>3
  <2>3. M \in Nat
    BY <1>0, <1>9
  <2> HIDE DEF M
  <2>4. f1 \in Injection(Flat(sizes), 0..M)
    BY <2>1, <2>2 DEF Injection, IsInjective
  <2>5. IsFiniteSet(0..M)
    <3>1. 0 \in Int /\ M \in Int
      BY <2>3
    <3> QED BY <3>1, FS_Interval
  <2> HIDE DEF f1
  <2> QED BY <2>4, <2>5, FS_Injection
<1> QED BY <1>15, <1>16

-----------------------------------------------------------------------------
(* The groups of the rail and of the cards. *)

\* ahead is a strict order of S, told by what comes before each element.
Strict(ahead, S) ==
    /\ ahead \in [S -> SUBSET S]
    /\ \A a \in S : a \notin ahead[a]
    /\ \A a, b \in S : a # b => a \in ahead[b] \/ b \in ahead[a]
    /\ \A a, b \in S : a \in ahead[b] => ahead[a] \subseteq ahead[b]

\* r is S in that order.
Sorts(r, ahead, S) ==
    /\ Cardinality(S) \in Nat /\ r \in [1..Cardinality(S) -> S]
    /\ \A i, j \in 1..Cardinality(S) : i < j => r[i] \in ahead[r[j]]
    /\ \A a \in S : \E i \in 1..Cardinality(S) : r[i] = a

LEMMA OrderIs ==
    ASSUME NEW S, IsFiniteSet(S), NEW ahead, Strict(ahead, S)
    PROVE  Sorts(InOrder(ahead), ahead, S)
<1> DEFINE n == Cardinality(S)
           r == InOrder(ahead)
           size(a) == Cardinality(ahead[a])
           place == [a \in S |-> size(a) + 1]
<1>1. n \in Nat
  BY FS_CardinalityType
<1>2. ASSUME NEW a \in S PROVE IsFiniteSet(ahead[a]) /\ size(a) \in Nat /\ size(a) < n
  <2>1. ahead[a] \in SUBSET S /\ a \notin ahead[a]
    BY DEF Strict
  <2> DEFINE T == ahead[a]
  <2> HIDE DEF T
  <2>2. T \in SUBSET S /\ T # S
    BY <2>1 DEF T
  <2>3. IsFiniteSet(T) /\ Cardinality(T) <= Cardinality(S) /\ (Cardinality(S) = Cardinality(T) => S = T)
    BY <2>2, FS_Subset
  <2>4. Cardinality(T) \in Nat
    BY <2>3, FS_CardinalityType
  <2>5. Cardinality(T) < Cardinality(S)
    BY <1>1, <2>2, <2>3, <2>4
  <2> QED BY <2>3, <2>4, <2>5 DEF T
<1>3. ASSUME NEW a \in S, NEW b \in S, a \in ahead[b] PROVE size(a) < size(b)
  <2> DEFINE T == ahead[a]
             U == ahead[b]
  <2>1. T \in SUBSET U /\ a \in U /\ a \notin T
    BY <1>3 DEF Strict
  <2>2. IsFiniteSet(U) /\ Cardinality(U) \in Nat /\ Cardinality(T) \in Nat
    BY <1>2
  <2> HIDE DEF T, U
  <2>3. Cardinality(T) <= Cardinality(U) /\ (Cardinality(U) = Cardinality(T) => U = T)
    BY <2>1, <2>2, FS_Subset
  <2>4. Cardinality(T) < Cardinality(U)
    BY <2>1, <2>2, <2>3
  <2> QED BY <2>4 DEF T, U
<1> HIDE DEF size, n
<1>4. place \in [S -> 1..n]
  BY <1>1, <1>2
<1>5. ASSUME NEW a \in S, NEW b \in S, a # b PROVE place[a] # place[b]
  <2>1. size(a) < size(b) \/ size(b) < size(a)
    BY <1>3, <1>5 DEF Strict
  <2> QED BY <1>2, <2>1
<1>6. ASSUME NEW k \in 1..n PROVE \E a \in S : place[a] = k
  <2> SUFFICES ASSUME \A a \in S : place[a] # k PROVE FALSE
    OBVIOUS
  <2> DEFINE T == (1..n) \ {k}
  <2>1. place \in [S -> T]
    BY <1>4
  <2>2. IsFiniteSet(1..n) /\ Cardinality(1..n) = n
    <3>1. 1 \in Int /\ n \in Int /\ n - 1 + 1 = n /\ (1 > n => n = 0)
      BY <1>1
    <3> QED BY <3>1, FS_Interval
  <2>3. IsFiniteSet(T) /\ Cardinality(T) = n - 1
    BY <2>2, FS_RemoveElement
  <2>4. Cardinality(T) < Cardinality(S)
    BY <1>1, <2>3 DEF n
  <2> HIDE DEF place, T
  <2> QED BY <1>5, <2>1, <2>3, <2>4, FS_PigeonHole
<1>7. ASSUME NEW k \in 1..n PROVE r[k] \in S /\ size(r[k]) = k - 1
  <2>1. DOMAIN ahead = S
    BY DEF Strict
  <2>2. r[k] = CHOOSE a \in S : size(a) = k - 1
    BY <2>1 DEF InOrder, n, size
  <2>3. \E a \in S : place[a] = k
    BY <1>6
  <2>4. \E a \in S : size(a) = k - 1
    BY <1>1, <1>2, <2>3
  <2> HIDE DEF r
  <2> QED BY <2>2, <2>4
<1>8. r \in [1..n -> S]
  <2>1. r = [k \in 1..n |-> r[k]]
    <3>1. DOMAIN ahead = S
      BY DEF Strict
    <3> QED BY <3>1 DEF InOrder, n
  <2> HIDE DEF r
  <2> QED BY <1>7, <2>1
<1> HIDE DEF r
<1>9. ASSUME NEW i \in 1..n, NEW j \in 1..n, i < j PROVE r[i] \in ahead[r[j]]
  <2>1. r[i] \in S /\ r[j] \in S /\ size(r[i]) = i - 1 /\ size(r[j]) = j - 1
    BY <1>7
  <2>2. r[i] # r[j] /\ ~(size(r[j]) < size(r[i]))
    BY <1>9, <2>1
  <2> QED BY <1>3, <2>1, <2>2 DEF Strict
<1>10. ASSUME NEW a \in S PROVE \E i \in 1..n : r[i] = a
  <2>1. place[a] \in 1..n
    BY <1>4
  <2> DEFINE i == place[a]
  <2>2. r[i] \in S /\ size(r[i]) = i - 1
    BY <1>7, <2>1
  <2>3. size(a) = i - 1
    BY <1>2
  <2> HIDE DEF i
  <2>4. r[i] = a
    BY <1>5, <2>2, <2>3
  <2> QED BY <2>1, <2>4 DEF i
<1> QED BY <1>1, <1>8, <1>9, <1>10 DEF Sorts, r, n

\* A list of connections: names tell them apart.
IsList(S) ==
    /\ IsFiniteSet(S)
    /\ \A c \in S : c.name \in Nat /\ c.provider \in Providers /\ attentionRank(c.at) \in 0..6
    /\ \A c, d \in S : c.name = d.name => c = d
WorstFirst(S) == [c \in S |-> {d \in S : Worse(d, c)}]

LEMMA RankedIs ==
    ASSUME NEW S, IsList(S)
    PROVE  Sorts(Ranked(S), WorstFirst(S), S)
<1> DEFINE ahead == WorstFirst(S)
<1>1. ahead \in [S -> SUBSET S] /\ \A a, b \in S : b \in ahead[a] <=> Worse(b, a)
  BY DEF WorstFirst
<1>2. \A a \in S : attentionRank(a.at) \in Nat /\ a.name \in Nat
  BY DEF IsList
<1>3. \A a \in S : ~Worse(a, a)
  BY <1>2 DEF Worse
<1>4. \A a, b \in S : a # b => Worse(a, b) \/ Worse(b, a)
  <2> SUFFICES ASSUME NEW a \in S, NEW b \in S, a # b PROVE Worse(a, b) \/ Worse(b, a)
    OBVIOUS
  <2>1. a.name # b.name
    BY DEF IsList
  <2> QED BY <1>2, <2>1 DEF Worse
<1>5. \A a, b, c \in S : Worse(a, b) /\ Worse(b, c) => Worse(a, c)
  BY <1>2 DEF Worse
<1> HIDE DEF ahead
<1>6. \A a, b \in S : a \in ahead[b] => ahead[a] \subseteq ahead[b]
  BY <1>1, <1>5
<1>7. Strict(ahead, S)
  BY <1>1, <1>3, <1>4, <1>6 DEF Strict
<1>8. Sorts(InOrder(ahead), ahead, S)
  BY <1>7, OrderIs DEF IsList
<1> QED BY <1>8 DEF Ranked, WorstFirst, ahead

LEMMA ItemsOfList ==
    ASSUME NEW S, IsList(S), NEW g, g.items = Ranked(S)
    PROVE  /\ Len(g.items) = Cardinality(S) /\ DOMAIN g.items = 1..Cardinality(S) /\ Cardinality(S) \in Nat
           /\ ItemsOf(g) = S
           /\ g.items = <<>> <=> S = {}
           /\ \A i, j \in 1..Cardinality(S) : i < j => Worse(g.items[i], g.items[j])
           /\ \A i, j \in 1..Cardinality(S) : g.items[i] = g.items[j] => i = j
<1> DEFINE n == Cardinality(S)
           r == g.items
<1>1. /\ n \in Nat /\ r \in [1..n -> S]
      /\ \A i, j \in 1..n : i < j => r[i] \in WorstFirst(S)[r[j]]
      /\ \A a \in S : \E i \in 1..n : r[i] = a
  BY RankedIs DEF Sorts
<1>2. \A a, b \in S : b \in WorstFirst(S)[a] => Worse(b, a)
  BY DEF WorstFirst
<1>3. \A a \in S : ~Worse(a, a)
  BY DEF IsList, Worse
<1>4. n = 0 <=> S = {}
  BY FS_EmptySet DEF IsList
<1>5. \A i \in 1..n : r[i] \in S
  BY <1>1
<1>6. ItemsOf(g) = S
  BY <1>1 DEF ItemsOf
<1> HIDE DEF r, n
<1>7. r \in Seq(S) /\ Len(r) = n /\ DOMAIN r = 1..n
  BY <1>1
<1>8. r = <<>> <=> n = 0
  BY <1>1, <1>7
<1>9. \A i, j \in 1..n : i < j => Worse(r[i], r[j])
  BY <1>1, <1>2, <1>5
<1>10. \A i, j \in 1..n : r[i] = r[j] => i = j
  <2> SUFFICES ASSUME NEW i \in 1..n, NEW j \in 1..n, r[i] = r[j], i # j PROVE FALSE
    OBVIOUS
  <2>1. i < j \/ j < i
    BY <1>1
  <2> QED BY <1>3, <1>5, <1>9, <2>1
<1> QED BY <1>1, <1>4, <1>6, <1>7, <1>8, <1>9, <1>10 DEF n, r

\* n numbers.
Counts(counts, n) == n \in Nat /\ counts \in [1..n -> Nat]

LEMMA SumIs ==
    ASSUME NEW n, NEW counts, Counts(counts, n)
    PROVE  \E t \in [0..n -> Nat] :
               t[0] = 0 /\ (\A i \in 1..n : t[i] = t[i - 1] + counts[i]) /\ SumOf(counts) = t[n]
<1> DEFINE R(f) == f = [i \in 0..Len(counts) |-> IF i = 0 THEN 0 ELSE f[i - 1] + counts[i]]
           step == [i \in 1..n |-> [x \in Nat |-> x + counts[i]]]
           t == CHOOSE f : R(f)
<1>0. n \in Nat /\ Len(counts) = n /\ \A i \in 1..n : counts[i] \in Nat
  BY DEF Counts
<1>1. Stepping(step, 0, Nat, n)
  BY <1>0 DEF Stepping
<1>9. \A i \in 1..n : \A x \in Nat : step[i][x] = x + counts[i]
  BY <1>0
<1> HIDE DEF R, t
<1>2. PICK f \in [0..n -> Nat] : f[0] = 0 /\ \A i \in 1..n : f[i] = step[i][f[i - 1]]
  <2> HIDE DEF step
  <2> QED BY <1>1, Recursion
<1> HIDE DEF step
<1>3. R(f)
  <2>1. ASSUME NEW i \in 1..n PROVE f[i] = f[i - 1] + counts[i]
    <3>1. i - 1 \in 0..n /\ f[i - 1] \in Nat
      BY <1>0
    <3> QED BY <3>1, <1>9, <1>2
  <2> QED BY <2>1, <1>0, <1>2 DEF R
<1>4. R(t)
  BY <1>3 DEF t
<1>5. SumOf(counts) = t[n]
  BY <1>0 DEF SumOf, t, R
<1>6. t[0] = 0 /\ \A i \in 1..n : t[i] = t[i - 1] + counts[i]
  BY <1>0, <1>4 DEF R
<1>7. \A i \in 0..n : t[i] \in Nat
  <2>1. \A i \in 1..n : t[i - 1] \in Nat => t[i] = step[i][t[i - 1]]
    BY <1>9, <1>6
  <2> DEFINE V == Nat
  <2>2. Stepping(step, 0, V, n) /\ \A i \in 1..n : t[i - 1] \in V => t[i] = step[i][t[i - 1]]
    BY <1>1, <2>1
  <2> HIDE DEF V
  <2>3. \A i \in 0..n : t[i] \in V
    BY <1>6, <2>2, Stepped
  <2> QED BY <2>3 DEF V
<1>8. t \in [0..n -> Nat]
  BY <1>0, <1>4, <1>7 DEF R
<1> QED BY <1>5, <1>6, <1>8

\* S falls into these parts.
Parts(part, n, S) ==
    /\ n \in Nat /\ IsFiniteSet(S) /\ part \in [1..n -> SUBSET S]
    /\ \A i, j \in 1..n : i # j => part[i] \cap part[j] = {}
    /\ \A c \in S : \E i \in 1..n : c \in part[i]
UpTo(part, S, i) == {c \in S : \E j \in 1..i : c \in part[j]}

LEMMA UpToIs ==
    ASSUME NEW part, NEW n, NEW S, Parts(part, n, S)
    PROVE  /\ UpTo(part, S, 0) = {} /\ UpTo(part, S, n) = S
           /\ \A i \in 1..n : /\ UpTo(part, S, i) = UpTo(part, S, i - 1) \cup part[i]
                                /\ UpTo(part, S, i - 1) \cap part[i] = {}
                                /\ UpTo(part, S, i - 1) \subseteq S /\ part[i] \subseteq S
<1>1. UpTo(part, S, 0) = {} /\ UpTo(part, S, n) = S
  BY DEF UpTo, Parts
<1>2. ASSUME NEW i \in 1..n
      PROVE  /\ UpTo(part, S, i) = UpTo(part, S, i - 1) \cup part[i]
             /\ UpTo(part, S, i - 1) \cap part[i] = {}
             /\ UpTo(part, S, i - 1) \subseteq S /\ part[i] \subseteq S
  <2>1. n \in Nat /\ part[i] \subseteq S
    BY DEF Parts
  <2>2. ASSUME NEW j PROVE j \in 1..i <=> (j \in 1..(i - 1) \/ j = i)
    BY <2>1
  <2>3. UpTo(part, S, i) = UpTo(part, S, i - 1) \cup part[i]
    BY <2>1, <2>2 DEF UpTo
  <2>4. ASSUME NEW j \in 1..(i - 1) PROVE part[j] \cap part[i] = {}
    <3>1. j \in 1..n /\ j # i
      BY <2>1
    <3> QED BY <3>1 DEF Parts
  <2>5. UpTo(part, S, i - 1) \cap part[i] = {}
    BY <2>4 DEF UpTo
  <2> QED BY <2>1, <2>3, <2>5 DEF UpTo
<1> QED BY <1>1, <1>2

\* The sizes of the parts.
Sizes(counts, part, n) ==
    DOMAIN counts = 1..n /\ counts = [i \in 1..n |-> counts[i]] /\ \A i \in 1..n : counts[i] = Cardinality(part[i])

LEMMA PartsAddUp ==
    ASSUME NEW part, NEW n, NEW S, Parts(part, n, S), NEW counts, Sizes(counts, part, n)
    PROVE  SumOf(counts) = Cardinality(S)
<1>0. n \in Nat /\ IsFiniteSet(S)
  BY DEF Parts
<1>10. counts = [i \in 1..n |-> counts[i]] /\ \A i \in 1..n : counts[i] = Cardinality(part[i])
  BY DEF Sizes
<1>1. ASSUME NEW i \in 0..n PROVE IsFiniteSet(UpTo(part, S, i)) /\ Cardinality(UpTo(part, S, i)) \in Nat
  <2> DEFINE T == UpTo(part, S, i)
  <2>1. T \in SUBSET S
    BY DEF UpTo
  <2> HIDE DEF T
  <2>2. IsFiniteSet(T) /\ Cardinality(T) \in Nat
    BY <1>0, <2>1, FS_Subset, FS_CardinalityType
  <2> QED BY <2>2 DEF T
<1>2. ASSUME NEW i \in 1..n
      PROVE  /\ counts[i] \in Nat
             /\ Cardinality(UpTo(part, S, i)) = Cardinality(UpTo(part, S, i - 1)) + counts[i]
  <2> DEFINE T == UpTo(part, S, i - 1)
             U == part[i]
             V == UpTo(part, S, i)
  <2>1. V = T \cup U /\ T \cap U = {} /\ U \in SUBSET S
    BY UpToIs
  <2>2. i - 1 \in 0..n
    BY <1>0
  <2>3. IsFiniteSet(T) /\ Cardinality(T) \in Nat
    BY <1>1, <2>2
  <2> HIDE DEF T, U, V
  <2>4. IsFiniteSet(U) /\ Cardinality(U) \in Nat
    BY <1>0, <2>1, FS_Subset, FS_CardinalityType
  <2>9. counts[i] = Cardinality(U)
    BY <1>10 DEF U
  <2>5. Cardinality({}) = 0
    BY FS_EmptySet
  <2>6. Cardinality(T \cup U) = Cardinality(T) + Cardinality(U) - Cardinality(T \cap U)
    BY <2>3, <2>4, FS_Union
  <2>7. Cardinality(V) = Cardinality(T) + Cardinality(U)
    <3>1. Cardinality(T \cap U) = 0 /\ V = T \cup U
      BY <2>1, <2>5
    <3> QED BY <3>1, <2>3, <2>4, <2>6
  <2> QED BY <2>4, <2>7, <2>9 DEF T, V
<1>3. Counts(counts, n)
  BY <1>0, <1>2, <1>10 DEF Counts
<1>4. PICK t \in [0..n -> Nat] : t[0] = 0 /\ (\A i \in 1..n : t[i] = t[i - 1] + counts[i]) /\ SumOf(counts) = t[n]
  BY <1>0, <1>3, SumIs
<1> DEFINE good == {i \in 0..n : t[i] = Cardinality(UpTo(part, S, i))}
<1>5. 0 \in good
  <2>1. Cardinality({}) = 0
    BY FS_EmptySet
  <2>2. Cardinality(UpTo(part, S, 0)) = 0
    BY <2>1, UpToIs
  <2> QED BY <1>0, <1>4, <2>2
<1>6. ASSUME NEW i \in 1..n, i - 1 \in good PROVE i \in good
  <2>1. t[i] = t[i - 1] + counts[i] /\ i \in 0..n
    BY <1>0, <1>4
  <2>2. t[i - 1] = Cardinality(UpTo(part, S, i - 1))
    BY <1>6
  <2> QED BY <1>2, <2>1, <2>2
<1> HIDE DEF good
<1>7. 0..n \subseteq good
  BY <1>0, <1>5, <1>6, Induction
<1>8. n \in good
  BY <1>0, <1>7
<1> QED BY <1>4, <1>8, UpToIs DEF good

LEMMA PartsWithin ==
    ASSUME NEW part, NEW n, NEW S, Parts(part, n, S), NEW T \in SUBSET S
    PROVE  Parts([i \in 1..n |-> part[i] \cap T], n, T)
<1>1. n \in Nat /\ IsFiniteSet(T)
  BY FS_Subset DEF Parts
<1> DEFINE q == [i \in 1..n |-> part[i] \cap T]
<1>2. q \in [1..n -> SUBSET T]
  OBVIOUS
<1>3. \A i, j \in 1..n : i # j => q[i] \cap q[j] = {}
  BY DEF Parts
<1>4. \A c \in T : \E i \in 1..n : c \in q[i]
  BY DEF Parts
<1> HIDE DEF q
<1>5. Parts(q, n, T)
  BY <1>1, <1>2, <1>3, <1>4 DEF Parts
<1> QED BY <1>5 DEF q

LEMMA SubList == ASSUME NEW S, IsList(S), NEW T \in SUBSET S PROVE IsList(T)
<1>1. IsFiniteSet(T)
  BY FS_Subset DEF IsList
<1> QED BY <1>1 DEF IsList

\* The groups are made of these parts of the list.
Parted(groups, part, S) ==
    /\ DOMAIN groups = 1..Len(groups) /\ Parts(part, Len(groups), S)
    /\ \A i \in 1..Len(groups) :
          /\ groups[i].items = Ranked(part[i])
          /\ groups[i].issueCount = Cardinality({c \in part[i] : needsAttention(c.at)})

\* What the items of the groups are.
LEMMA PartedItems ==
    ASSUME NEW S, IsList(S), NEW groups, NEW part, Parted(groups, part, S), NEW i \in 1..Len(groups)
    PROVE  /\ IsList(part[i]) /\ part[i] \subseteq S
           /\ Len(groups[i].items) = Cardinality(part[i]) /\ DOMAIN groups[i].items = 1..Cardinality(part[i])
           /\ Cardinality(part[i]) \in Nat /\ ItemsOf(groups[i]) = part[i]
           /\ groups[i].items = <<>> <=> part[i] = {}
           /\ \A j, k \in 1..Cardinality(part[i]) : j < k => Worse(groups[i].items[j], groups[i].items[k])
           /\ \A j, k \in 1..Cardinality(part[i]) : groups[i].items[j] = groups[i].items[k] => j = k
<1> DEFINE P == part[i]
           g == groups[i]
<1>1. P \in SUBSET S /\ g.items = Ranked(P)
  BY DEF Parted, Parts
<1> HIDE DEF P, g
<1>2. IsList(P)
  BY <1>1, SubList
<1>3. /\ Len(g.items) = Cardinality(P) /\ DOMAIN g.items = 1..Cardinality(P)
      /\ Cardinality(P) \in Nat /\ ItemsOf(g) = P
      /\ g.items = <<>> <=> P = {}
      /\ \A j, k \in 1..Cardinality(P) : j < k => Worse(g.items[j], g.items[k])
      /\ \A j, k \in 1..Cardinality(P) : g.items[j] = g.items[k] => j = k
  BY <1>1, <1>2, ItemsOfList
<1> QED BY <1>1, <1>2, <1>3 DEF P, g

LEMMA PlacesOfProviders ==
    /\ PlaceOf("kiro") = 1 /\ PlaceOf("openai") = 2 /\ PlaceOf("custom") = 3
    /\ Known("kiro") /\ Known("openai") /\ ~Known("custom")
<1>1. DOMAIN PROVIDER_ORDER = {1, 2} /\ PROVIDER_ORDER[1] = "kiro" /\ PROVIDER_ORDER[2] = "openai" /\ Len(PROVIDER_ORDER) = 2
  BY DEF PROVIDER_ORDER
<1>2. Known("kiro") /\ Known("openai") /\ ~Known("custom")
  BY <1>1 DEF Known
<1>3. \A i \in DOMAIN PROVIDER_ORDER : (PROVIDER_ORDER[i] = "kiro" <=> i = 1) /\ (PROVIDER_ORDER[i] = "openai" <=> i = 2)
  BY <1>1
<1>4. PlaceOf("kiro") = CHOOSE i \in DOMAIN PROVIDER_ORDER : PROVIDER_ORDER[i] = "kiro"
  BY <1>2 DEF PlaceOf
<1>5. PlaceOf("openai") = CHOOSE i \in DOMAIN PROVIDER_ORDER : PROVIDER_ORDER[i] = "openai"
  BY <1>2 DEF PlaceOf
<1>6. PlaceOf("custom") = 3
  BY <1>1, <1>2 DEF PlaceOf
<1> QED BY <1>1, <1>2, <1>3, <1>4, <1>5, <1>6

LEMMA GroupsAre ==
    ASSUME NEW S, IsList(S)
    PROVE  LET groups == ByProvider(S) IN
           \E part : /\ Parted(groups, part, S)
                     /\ \A i \in 1..Len(groups) : part[i] # {}
                     /\ \A i \in 1..Len(groups) : i > 1 /\ Known(groups[i].id) => Known(groups[i - 1].id)
<1> DEFINE ids == {c.provider : c \in S}
           ahead == [p \in ids |-> {q \in ids : PlaceOf(q) < PlaceOf(p)}]
           order == InOrder(ahead)
           n == Cardinality(ids)
           groups == ByProvider(S)
           part == [i \in 1..n |-> Provided(S, order[i])]
<1>1. ids \subseteq Providers /\ IsFiniteSet(ids)
  <2>1. ids \in SUBSET Providers
    BY DEF IsList
  <2>2. IsFiniteSet(Providers)
    <3>1. IsFiniteSet({"kiro"})
      BY FS_Singleton
    <3>2. IsFiniteSet({"kiro"} \cup {"openai"})
      BY <3>1, FS_AddElement
    <3>3. IsFiniteSet(({"kiro"} \cup {"openai"}) \cup {"custom"})
      BY <3>2, FS_AddElement
    <3>4. ({"kiro"} \cup {"openai"}) \cup {"custom"} = Providers
      BY DEF Providers
    <3> QED BY <3>3, <3>4
  <2> HIDE DEF ids
  <2> QED BY <2>1, <2>2, FS_Subset
<1>2. /\ \A p \in ids : PlaceOf(p) \in 1..3
      /\ \A p, q \in ids : PlaceOf(p) = PlaceOf(q) => p = q
      /\ \A p, q \in ids : PlaceOf(p) < PlaceOf(q) /\ Known(q) => Known(p)
  <2> HIDE DEF ids
  <2> QED BY <1>1, PlacesOfProviders DEF Providers
<1>3. Strict(ahead, ids)
  <2> HIDE DEF ids
  <2>1. ahead \in [ids -> SUBSET ids] /\ \A p, q \in ids : q \in ahead[p] <=> PlaceOf(q) < PlaceOf(p)
    OBVIOUS
  <2> HIDE DEF ahead
  <2>2. \A p \in ids : p \notin ahead[p]
    BY <1>2, <2>1
  <2>3. \A p, q \in ids : p # q => p \in ahead[q] \/ q \in ahead[p]
    BY <1>2, <2>1
  <2>4. \A p, q \in ids : p \in ahead[q] => ahead[p] \subseteq ahead[q]
    BY <1>2, <2>1
  <2> QED BY <2>1, <2>2, <2>3, <2>4 DEF Strict
<1>4. /\ n \in Nat /\ order \in [1..n -> ids]
      /\ \A i, j \in 1..n : i < j => order[i] \in ahead[order[j]]
      /\ \A p \in ids : \E i \in 1..n : order[i] = p
  <2>1. Sorts(order, ahead, ids)
    <3> HIDE DEF ahead, ids
    <3> QED BY <1>1, <1>3, OrderIs
  <2> QED BY <2>1 DEF Sorts
<1>5. groups = [i \in 1..n |-> Group(order[i], Provided(S, order[i]))]
  <2> HIDE DEF n
  <2> QED BY <1>4 DEF ByProvider, GroupsFor
<1>6. \A p, q \in ids : q \in ahead[p] => PlaceOf(q) < PlaceOf(p)
  OBVIOUS
<1>7. \A p \in ids : \E c \in S : c.provider = p
  OBVIOUS
<1>8. \A c \in S : c.provider \in ids
  OBVIOUS
<1> HIDE DEF groups, order, ahead, n, ids
<1>9. Len(groups) = n /\ DOMAIN groups = 1..n
  BY <1>4, <1>5
<1>10. ASSUME NEW i \in 1..n, NEW j \in 1..n, i < j
       PROVE  PlaceOf(order[i]) < PlaceOf(order[j]) /\ order[i] # order[j] /\ order[i] \in ids /\ order[j] \in ids
  <2>1. order[i] \in ids /\ order[j] \in ids
    BY <1>4
  <2> QED BY <1>2, <1>4, <1>6, <1>10, <2>1
<1>11. Parts(part, n, S)
  <2>1. part \in [1..n -> SUBSET S]
    BY DEF Provided
  <2>2. \A i, j \in 1..n : i # j => part[i] \cap part[j] = {}
    <3> SUFFICES ASSUME NEW i \in 1..n, NEW j \in 1..n, i # j PROVE part[i] \cap part[j] = {}
      OBVIOUS
    <3>1. i < j \/ j < i
      BY <1>4
    <3>2. order[i] # order[j]
      BY <1>10, <3>1
    <3> QED BY <3>2 DEF Provided
  <2>3. \A c \in S : \E i \in 1..n : c \in part[i]
    BY <1>4, <1>8 DEF Provided
  <2> HIDE DEF part
  <2> QED BY <1>4, <2>1, <2>2, <2>3 DEF Parts, IsList
<1>12. Parted(groups, part, S)
  <2>1. ASSUME NEW i \in 1..n
        PROVE  /\ groups[i].items = Ranked(part[i])
               /\ groups[i].issueCount = Cardinality({c \in part[i] : needsAttention(c.at)})
    BY <1>5 DEF Group
  <2> HIDE DEF part
  <2> QED BY <1>9, <1>11, <2>1 DEF Parted
<1>13. ASSUME NEW i \in 1..n PROVE part[i] # {}
  <2>1. order[i] \in ids
    BY <1>4
  <2> QED BY <1>7, <2>1 DEF Provided
<1>14. ASSUME NEW i \in 1..n, i > 1, Known(groups[i].id) PROVE Known(groups[i - 1].id)
  <2>1. i - 1 \in 1..n /\ i - 1 < i
    BY <1>4, <1>14
  <2>2. groups[i].id = order[i] /\ groups[i - 1].id = order[i - 1]
    BY <1>5, <2>1 DEF Group
  <2> QED BY <1>2, <1>10, <1>14, <2>1, <2>2
<1> HIDE DEF part
<1> QED BY <1>9, <1>12, <1>13, <1>14 DEF groups

LEMMA RailGroupsAre ==
    ASSUME NEW S, IsList(S), NEW layout \in {"provider", "status"}
    PROVE  LET groups == railGroups(S, layout) IN
           \E part : /\ Parted(groups, part, S)
                     /\ layout = "provider" => \A i \in 1..Len(groups) : part[i] # {}
                     /\ layout = "provider" =>
                           \A i \in 1..Len(groups) : i > 1 /\ Known(groups[i].id) => Known(groups[i - 1].id)
<1>1. CASE layout = "provider"
  <2>1. railGroups(S, layout) = ByProvider(S)
    BY <1>1 DEF railGroups
  <2> QED BY <2>1, GroupsAre
<1>2. CASE layout = "status"
  <2> DEFINE groups == railGroups(S, layout)
             part == [i \in 1..1 |-> S]
             g == Group("__flat__", S)
  <2>1. groups = <<g>>
    BY <1>2 DEF railGroups
  <2>2. g.items = Ranked(S) /\ g.issueCount = Cardinality({c \in S : needsAttention(c.at)})
    BY DEF Group
  <2> HIDE DEF g, groups
  <2>3. Len(groups) = 1 /\ DOMAIN groups = 1..1 /\ groups[1] = g
    BY <2>1
  <2>4. Parts(part, 1, S)
    BY DEF Parts, IsList
  <2>5. part[1] = S
    OBVIOUS
  <2> HIDE DEF part
  <2>6. Parted(groups, part, S)
    BY <2>2, <2>3, <2>4, <2>5 DEF Parted
  <2> QED BY <1>2, <2>6 DEF groups
<1> QED BY <1>1, <1>2

LEMMA NamesOfUnion == ASSUME NEW A, NEW B PROVE NamesOf(A \cup B) = NamesOf(A) \cup NamesOf(B)
BY DEF NamesOf

LEMMA TickIs ==
    ASSUME NEW S, IsList(S), NEW A \in SUBSET S, NEW B \in SUBSET S, A \cap B = {},
           NEW g, ItemsOf(g) = B, g.items = <<>> <=> B = {}
    PROVE  TickHeader(g, NamesOf(A)) = NamesOf(A \cup B)
<1>1. CASE B = {}
  <2>1. ~AllSelected(g, NamesOf(A)) /\ NamesOf(B) = {}
    BY <1>1 DEF AllSelected, NamesOf
  <2>2. NamesOf(A \cup B) = NamesOf(A) \cup NamesOf(B)
    BY NamesOfUnion
  <2> QED BY <2>1, <2>2 DEF TickHeader
<1>2. CASE B # {}
  <2>1. PICK b \in B : TRUE
    BY <1>2
  <2>2. b.name \notin NamesOf(A)
    <3>1. \A a \in A : a.name # b.name
      <4> SUFFICES ASSUME NEW a \in A, a.name = b.name PROVE FALSE
        OBVIOUS
      <4>1. a = b
        BY DEF IsList
      <4> QED BY <4>1
    <3> QED BY <3>1 DEF NamesOf
  <2>3. ~AllSelected(g, NamesOf(A))
    BY <2>2 DEF AllSelected, NamesOf
  <2>4. NamesOf(A \cup B) = NamesOf(A) \cup NamesOf(B)
    BY NamesOfUnion
  <2> QED BY <2>3, <2>4 DEF TickHeader
<1> QED BY <1>1, <1>2

LEMMA TickedIs ==
    ASSUME NEW S, IsList(S), NEW groups, NEW part, Parted(groups, part, S)
    PROVE  Ticked(groups) = NamesOf(S)
<1> DEFINE n == Len(groups)
           R(f) == f = [i \in 0..Len(groups) |-> IF i = 0 THEN {} ELSE TickHeader(groups[i], f[i - 1])]
           f0 == [i \in 0..n |-> NamesOf(UpTo(part, S, i))]
           t == CHOOSE f : R(f)
<1>0. n \in Nat /\ Parts(part, n, S)
  BY DEF Parted, Parts
<1>1. ASSUME NEW i \in 1..n PROVE NamesOf(UpTo(part, S, i)) = TickHeader(groups[i], NamesOf(UpTo(part, S, i - 1)))
  <2> DEFINE A == UpTo(part, S, i - 1)
             B == part[i]
             g == groups[i]
  <2>1. UpTo(part, S, i) = A \cup B /\ A \cap B = {} /\ A \in SUBSET S /\ B \in SUBSET S
    BY <1>0, UpToIs
  <2>2. ItemsOf(g) = B /\ (g.items = <<>> <=> B = {})
    BY PartedItems
  <2> HIDE DEF A, B, g
  <2>3. TickHeader(g, NamesOf(A)) = NamesOf(A \cup B)
    BY <2>1, <2>2, TickIs
  <2> QED BY <2>1, <2>3 DEF A, B, g
<1> HIDE DEF n
<1>2. UpTo(part, S, 0) = {} /\ UpTo(part, S, n) = S /\ NamesOf({}) = {}
  <2>1. NamesOf({}) = {}
    BY DEF NamesOf
  <2> QED BY <2>1, <1>0, UpToIs
<1>3. R(f0)
  <2>1. f0[0] = {}
    BY <1>0, <1>2
  <2>2. ASSUME NEW i \in 1..n PROVE f0[i] = TickHeader(groups[i], f0[i - 1])
    <3>1. i \in 0..n /\ i - 1 \in 0..n
      BY <1>0
    <3> QED BY <1>1, <3>1
  <2>3. f0 = [i \in 0..n |-> f0[i]]
    OBVIOUS
  <2> HIDE DEF f0
  <2>4. ASSUME NEW i \in 0..n PROVE f0[i] = IF i = 0 THEN {} ELSE TickHeader(groups[i], f0[i - 1])
    <3>1. i = 0 \/ i \in 1..n
      BY <1>0
    <3> QED BY <2>1, <2>2, <3>1
  <2>5. f0 = [i \in 0..n |-> IF i = 0 THEN {} ELSE TickHeader(groups[i], f0[i - 1])]
    BY <2>3, <2>4
  <2> QED BY <2>5 DEF n
<1>4. R(t)
  <2> HIDE DEF R
  <2> QED BY <1>3 DEF t
<1>5. t[0] = {} /\ \A i \in 1..n : t[i] = TickHeader(groups[i], t[i - 1])
  <2> HIDE DEF t
  <2>1. t = [i \in 0..n |-> IF i = 0 THEN {} ELSE TickHeader(groups[i], t[i - 1])]
    BY <1>4 DEF n
  <2>2. ASSUME NEW i \in 0..n PROVE t[i] = IF i = 0 THEN {} ELSE TickHeader(groups[i], t[i - 1])
    BY <2>1
  <2>3. 0 \in 0..n /\ \A i \in 1..n : i \in 0..n /\ i # 0
    BY <1>0
  <2> QED BY <2>2, <2>3
<1>6. Ticked(groups) = t[n]
  BY DEF Ticked, n
<1> HIDE DEF t, R, f0
<1> DEFINE good == {i \in 0..n : t[i] = NamesOf(UpTo(part, S, i))}
<1>7. 0 \in good
  BY <1>0, <1>2, <1>5
<1>8. ASSUME NEW i \in 1..n, i - 1 \in good PROVE i \in good
  <2>1. t[i] = TickHeader(groups[i], t[i - 1]) /\ i \in 0..n
    BY <1>0, <1>5
  <2>2. t[i - 1] = NamesOf(UpTo(part, S, i - 1))
    BY <1>8
  <2> QED BY <1>1, <2>1, <2>2
<1> HIDE DEF good
<1>9. 0..n \subseteq good
  BY <1>0, <1>7, <1>8, Induction
<1>10. n \in good
  BY <1>0, <1>9
<1> QED BY <1>2, <1>6, <1>10 DEF good

\* Names are as many as connections.
LEMMA NamesCount == ASSUME NEW S, IsList(S) PROVE Cardinality(NamesOf(S)) = Cardinality(S)
<1> DEFINE f == [c \in S |-> c.name]
           T == NamesOf(S)
<1>1. f \in [S -> T] /\ (\A c, d \in S : f[c] = f[d] => c = d) /\ \A x \in T : \E c \in S : f[c] = x
  BY DEF NamesOf, IsList
<1> HIDE DEF f, T
<1>2. f \in Bijection(S, T)
  BY <1>1 DEF Bijection, Injection, Surjection, IsInjective
<1>3. IsFiniteSet(S) /\ ExistsBijection(S, T)
  BY <1>2 DEF ExistsBijection, IsList
<1>4. Cardinality(T) = Cardinality(S)
  BY <1>3, FS_Bijection
<1> QED BY <1>4 DEF T

\* What the headers count, added up.
LEMMA HeadersAddUp ==
    ASSUME NEW S, IsList(S), NEW groups, NEW part, Parted(groups, part, S)
    PROVE  /\ SumOf([i \in DOMAIN groups |-> GroupHeader(groups[i]).issues]) = stats(S)["issues"]
           /\ SumOf([i \in DOMAIN groups |-> GroupHeader(groups[i]).acc]) = stats(S)["all"]
           /\ SumOf([i \in DOMAIN groups |-> ConnectionGroup(groups[i], NamesOf(S)).selected]) = stats(S)["all"]
           /\ SumOf([i \in DOMAIN groups |-> ConnectionGroup(groups[i], NamesOf(S)).active]) = stats(S)["active"]
           /\ SumOf([i \in DOMAIN groups |-> ConnectionGroup(groups[i], NamesOf(S)).inactive]) = stats(S)["inactive"]
<1> DEFINE n == Len(groups)
           issues == filteredConns(S, "issues")
           active == filteredConns(S, "active")
           inactive == filteredConns(S, "inactive")
<1>1. DOMAIN groups = 1..n /\ Parts(part, n, S) /\ n \in Nat
  BY DEF Parted, Parts
<1>2. /\ stats(S)["issues"] = Cardinality(issues) /\ stats(S)["active"] = Cardinality(active)
      /\ stats(S)["inactive"] = Cardinality(inactive) /\ stats(S)["all"] = Cardinality(S)
  <2>1. filteredConns(S, "all") = S
    BY DEF filteredConns, InFilter
  <2> QED BY <2>1 DEF stats
<1>3. ASSUME NEW T \in SUBSET S, NEW counts, counts = [i \in 1..n |-> counts[i]],
             \A i \in 1..n : counts[i] = Cardinality(part[i] \cap T)
      PROVE  SumOf(counts) = Cardinality(T)
  <2> DEFINE q == [i \in 1..n |-> part[i] \cap T]
  <2>1. Parts(q, n, T)
    <3> HIDE DEF n
    <3> QED BY <1>1, PartsWithin
  <2>2. \A i \in 1..n : counts[i] = Cardinality(q[i])
    BY <1>3
  <2>3. DOMAIN counts = 1..n
    BY <1>3
  <2> HIDE DEF q, n
  <2>4. Sizes(counts, q, n)
    BY <1>3, <2>2, <2>3 DEF Sizes
  <2> QED BY <2>1, <2>4, PartsAddUp
<1>4. ASSUME NEW i \in 1..n
      PROVE  /\ GroupHeader(groups[i]).issues = Cardinality(part[i] \cap issues)
             /\ GroupHeader(groups[i]).acc = Cardinality(part[i] \cap S)
             /\ ConnectionGroup(groups[i], NamesOf(S)).selected = Cardinality(part[i] \cap S)
             /\ ConnectionGroup(groups[i], NamesOf(S)).active = Cardinality(part[i] \cap active)
             /\ ConnectionGroup(groups[i], NamesOf(S)).inactive = Cardinality(part[i] \cap inactive)
  <2> DEFINE g == groups[i]
             P == part[i]
  <2>1. IsList(P) /\ P \subseteq S /\ Len(g.items) = Cardinality(P) /\ ItemsOf(g) = P
    BY PartedItems
  <2>2. g.issueCount = Cardinality({c \in P : needsAttention(c.at)})
    BY DEF Parted
  <2> HIDE DEF g, P
  <2>3. {c \in P : needsAttention(c.at)} = P \cap issues /\ P \cap S = P
    BY <2>1 DEF filteredConns, InFilter
  <2>4. filteredConns(P, "active") = P \cap active
    BY <2>1 DEF filteredConns
  <2>5. P \cap inactive = P \ (P \cap active) /\ P \cap (P \cap active) = P \cap active
    BY <2>1 DEF filteredConns, InFilter
  <2>6. NamesOf(P) \cap NamesOf(S) = NamesOf(P)
    BY <2>1 DEF NamesOf
  <2> HIDE DEF issues, active, inactive
  <2>7. Cardinality(P \cap inactive) = Cardinality(P) - Cardinality(P \cap active)
    <3>1. IsFiniteSet(P)
      BY <2>1 DEF IsList
    <3> DEFINE T == P \cap active
    <3>2. P \cap inactive = P \ T /\ P \cap T = T
      BY <2>5
    <3> HIDE DEF T
    <3>3. Cardinality(P \ T) = Cardinality(P) - Cardinality(P \cap T)
      BY <3>1, FS_Difference
    <3> QED BY <3>2, <3>3 DEF T
  <2>8. Cardinality(NamesOf(P)) = Cardinality(P)
    BY <2>1, NamesCount
  <2>9. GroupHeader(g).issues = Cardinality(P \cap issues) /\ GroupHeader(g).acc = Cardinality(P \cap S)
    BY <2>1, <2>2, <2>3 DEF GroupHeader
  <2>10. ConnectionGroup(g, NamesOf(S)).selected = Cardinality(P \cap S)
    BY <2>1, <2>3, <2>6, <2>8 DEF ConnectionGroup
  <2>11. /\ ConnectionGroup(g, NamesOf(S)).active = Cardinality(P \cap active)
         /\ ConnectionGroup(g, NamesOf(S)).inactive = Cardinality(P \cap inactive)
    BY <2>1, <2>4, <2>7 DEF ConnectionGroup
  <2> QED BY <2>9, <2>10, <2>11 DEF g, P
<1>5. issues \in SUBSET S /\ active \in SUBSET S /\ inactive \in SUBSET S /\ S \in SUBSET S
  BY DEF filteredConns
<1> HIDE DEF n, issues, active, inactive
<1>6. SumOf([i \in DOMAIN groups |-> GroupHeader(groups[i]).issues]) = Cardinality(issues)
  <2> DEFINE counts == [i \in 1..n |-> GroupHeader(groups[i]).issues]
  <2>1. counts = [i \in 1..n |-> counts[i]] /\ \A i \in 1..n : counts[i] = Cardinality(part[i] \cap issues)
    BY <1>4
  <2> HIDE DEF counts
  <2>2. SumOf(counts) = Cardinality(issues)
    BY <1>3, <1>5, <2>1
  <2> QED BY <1>1, <2>2 DEF counts
<1>7. SumOf([i \in DOMAIN groups |-> GroupHeader(groups[i]).acc]) = Cardinality(S)
  <2> DEFINE counts == [i \in 1..n |-> GroupHeader(groups[i]).acc]
  <2>1. counts = [i \in 1..n |-> counts[i]] /\ \A i \in 1..n : counts[i] = Cardinality(part[i] \cap S)
    BY <1>4
  <2> HIDE DEF counts
  <2>2. SumOf(counts) = Cardinality(S)
    BY <1>3, <1>5, <2>1
  <2> QED BY <1>1, <2>2 DEF counts
<1>8. SumOf([i \in DOMAIN groups |-> ConnectionGroup(groups[i], NamesOf(S)).selected]) = Cardinality(S)
  <2> DEFINE counts == [i \in 1..n |-> ConnectionGroup(groups[i], NamesOf(S)).selected]
  <2>1. counts = [i \in 1..n |-> counts[i]] /\ \A i \in 1..n : counts[i] = Cardinality(part[i] \cap S)
    BY <1>4
  <2> HIDE DEF counts
  <2>2. SumOf(counts) = Cardinality(S)
    BY <1>3, <1>5, <2>1
  <2> QED BY <1>1, <2>2 DEF counts
<1>9. SumOf([i \in DOMAIN groups |-> ConnectionGroup(groups[i], NamesOf(S)).active]) = Cardinality(active)
  <2> DEFINE counts == [i \in 1..n |-> ConnectionGroup(groups[i], NamesOf(S)).active]
  <2>1. counts = [i \in 1..n |-> counts[i]] /\ \A i \in 1..n : counts[i] = Cardinality(part[i] \cap active)
    BY <1>4
  <2> HIDE DEF counts
  <2>2. SumOf(counts) = Cardinality(active)
    BY <1>3, <1>5, <2>1
  <2> QED BY <1>1, <2>2 DEF counts
<1>10. SumOf([i \in DOMAIN groups |-> ConnectionGroup(groups[i], NamesOf(S)).inactive]) = Cardinality(inactive)
  <2> DEFINE counts == [i \in 1..n |-> ConnectionGroup(groups[i], NamesOf(S)).inactive]
  <2>1. counts = [i \in 1..n |-> counts[i]] /\ \A i \in 1..n : counts[i] = Cardinality(part[i] \cap inactive)
    BY <1>4
  <2> HIDE DEF counts
  <2>2. SumOf(counts) = Cardinality(inactive)
    BY <1>3, <1>5, <2>1
  <2> QED BY <1>1, <2>2 DEF counts
<1> QED BY <1>2, <1>6, <1>7, <1>8, <1>9, <1>10

\* A rail of groups of these parts shows each connection once, the worst first.
LEMMA ShownOnce ==
    ASSUME NEW S, IsList(S), NEW groups, NEW part, Parted(groups, part, S)
    PROVE  /\ \A c \in S : \E i \in DOMAIN groups : \E j \in DOMAIN groups[i].items :
                 /\ groups[i].items[j] = c
                 /\ \A h \in DOMAIN groups : \A k \in DOMAIN groups[h].items :
                       groups[h].items[k] = c => h = i /\ k = j
           /\ \A i \in DOMAIN groups :
                 /\ ItemsOf(groups[i]) \subseteq S
                 /\ \A j \in 1..(Len(groups[i].items) - 1) :
                       compareByAttention(groups[i].items[j].at, groups[i].items[j + 1].at)
<1> DEFINE n == Len(groups)
           size(i) == Cardinality(part[i])
           at(i, j) == groups[i].items[j]
<1>1. /\ DOMAIN groups = 1..n /\ n \in Nat
      /\ \A i, j \in 1..n : i # j => part[i] \cap part[j] = {}
      /\ \A c \in S : \E i \in 1..n : c \in part[i]
  BY DEF Parted, Parts
<1>2. ASSUME NEW i \in 1..n
      PROVE  /\ DOMAIN groups[i].items = 1..size(i) /\ size(i) \in Nat /\ Len(groups[i].items) = size(i)
             /\ ItemsOf(groups[i]) = part[i] /\ part[i] \subseteq S
             /\ \A j, k \in 1..size(i) : j < k => Worse(at(i, j), at(i, k))
             /\ \A j, k \in 1..size(i) : at(i, j) = at(i, k) => j = k
  <2>1. /\ Len(groups[i].items) = Cardinality(part[i]) /\ DOMAIN groups[i].items = 1..Cardinality(part[i])
        /\ Cardinality(part[i]) \in Nat /\ ItemsOf(groups[i]) = part[i] /\ part[i] \subseteq S
    BY PartedItems
  <2>2. \A j, k \in 1..Cardinality(part[i]) : j < k => Worse(groups[i].items[j], groups[i].items[k])
    BY PartedItems
  <2>3. \A j, k \in 1..Cardinality(part[i]) : groups[i].items[j] = groups[i].items[k] => j = k
    BY PartedItems
  <2> QED BY <2>1, <2>2, <2>3
<1>3. ASSUME NEW i \in 1..n, NEW c PROVE c \in part[i] <=> \E j \in 1..size(i) : at(i, j) = c
  BY <1>2 DEF ItemsOf
<1> HIDE DEF n
<1>4. ASSUME NEW c \in S
      PROVE  \E i \in DOMAIN groups : \E j \in DOMAIN groups[i].items :
                 /\ groups[i].items[j] = c
                 /\ \A h \in DOMAIN groups : \A k \in DOMAIN groups[h].items :
                       groups[h].items[k] = c => h = i /\ k = j
  <2>1. PICK i \in 1..n : c \in part[i]
    BY <1>1
  <2>2. PICK j \in 1..size(i) : at(i, j) = c
    BY <1>3, <2>1
  <2>3. ASSUME NEW h \in DOMAIN groups, NEW k \in DOMAIN groups[h].items, groups[h].items[k] = c PROVE h = i /\ k = j
    <3>1. h \in 1..n
      BY <1>1
    <3>2. k \in 1..size(h) /\ at(h, k) = c
      BY <1>2, <2>3, <3>1
    <3>3. c \in part[h]
      BY <1>3, <3>1, <3>2
    <3>4. h = i
      BY <1>1, <2>1, <3>1, <3>3
    <3> HIDE DEF size, at
    <3> QED BY <1>2, <2>2, <3>1, <3>2, <3>4
  <2>4. i \in DOMAIN groups /\ j \in DOMAIN groups[i].items /\ groups[i].items[j] = c
    BY <1>1, <1>2, <2>2
  <2> HIDE DEF size, at
  <2> QED BY <2>3, <2>4
<1>5. ASSUME NEW i \in DOMAIN groups, NEW j \in 1..(Len(groups[i].items) - 1)
      PROVE  compareByAttention(groups[i].items[j].at, groups[i].items[j + 1].at)
  <2>1. i \in 1..n
    BY <1>1
  <2>2. j \in 1..size(i) /\ j + 1 \in 1..size(i) /\ j < j + 1
    <3> HIDE DEF size
    <3> QED BY <1>2, <2>1
  <2>3. Worse(at(i, j), at(i, j + 1))
    BY <1>2, <2>1, <2>2
  <2>4. at(i, j) \in S /\ at(i, j + 1) \in S
    BY <1>2, <1>3, <2>1, <2>2
  <2> DEFINE c == at(i, j)
             d == at(i, j + 1)
  <2>5. c \in S /\ d \in S /\ Worse(c, d)
    BY <2>3, <2>4
  <2> HIDE DEF c, d
  <2>6. attentionRank(c.at) <= attentionRank(d.at)
    BY <2>5 DEF Worse, IsList
  <2> QED BY <2>6 DEF compareByAttention, c, d
<1>6. \A i \in DOMAIN groups : ItemsOf(groups[i]) \subseteq S
  BY <1>1, <1>2
<1> QED BY <1>4, <1>5, <1>6

LEMMA RailIsWhole == ASSUME NEW conns, IsList(conns) PROVE RailShowsAll(conns)
<1> SUFFICES ASSUME NEW status \in {"all", "active", "inactive", "issues"}, NEW layout \in {"provider", "status"}
             PROVE  LET shown == filteredConns(conns, status)
                        groups == railGroups(shown, layout)
                        ticked == Ticked(groups)
                    IN  /\ \A c \in shown : \E i \in DOMAIN groups : \E j \in DOMAIN groups[i].items :
                              /\ groups[i].items[j] = c
                              /\ \A h \in DOMAIN groups : \A k \in DOMAIN groups[h].items :
                                    groups[h].items[k] = c => h = i /\ k = j
                        /\ \A i \in DOMAIN groups :
                              /\ ItemsOf(groups[i]) \subseteq shown
                              /\ \A j \in 1..(Len(groups[i].items) - 1) :
                                    compareByAttention(groups[i].items[j].at, groups[i].items[j + 1].at)
                              /\ layout = "provider" => groups[i].items # <<>>
                              /\ layout = "provider" /\ i > 1 /\ Known(groups[i].id) => Known(groups[i - 1].id)
                        /\ SumOf([i \in DOMAIN groups |-> GroupHeader(groups[i]).issues]) = stats(shown)["issues"]
                        /\ SumOf([i \in DOMAIN groups |-> GroupHeader(groups[i]).acc]) = stats(shown)["all"]
                        /\ shown # {} => allVisibleSelected(shown, ticked)
                        /\ status = "all" => LET cards == CardGroups(conns) IN
                              /\ layout = "provider" => groups = cards
                              /\ SumOf([i \in DOMAIN cards |-> ConnectionGroup(cards[i], ticked).selected]) = stats(conns)["all"]
                              /\ SumOf([i \in DOMAIN cards |-> ConnectionGroup(cards[i], ticked).active]) = stats(conns)["active"]
                              /\ SumOf([i \in DOMAIN cards |-> ConnectionGroup(cards[i], ticked).inactive]) = stats(conns)["inactive"]
  BY DEF RailShowsAll
<1> DEFINE shown == filteredConns(conns, status)
           groups == railGroups(shown, layout)
           ticked == Ticked(groups)
           cards == CardGroups(conns)
<1>1. IsList(shown)
  <2>1. shown \in SUBSET conns
    BY DEF filteredConns
  <2> HIDE DEF shown
  <2> QED BY <2>1, SubList
<1> HIDE DEF shown
<1>2. PICK part : /\ Parted(groups, part, shown)
                  /\ layout = "provider" => \A i \in 1..Len(groups) : part[i] # {}
                  /\ layout = "provider" =>
                        \A i \in 1..Len(groups) : i > 1 /\ Known(groups[i].id) => Known(groups[i - 1].id)
  BY <1>1, RailGroupsAre
<1>3. PICK pile : Parted(cards, pile, conns)
  BY GroupsAre DEF CardGroups
<1>4. status = "all" => shown = conns /\ (layout = "provider" => groups = cards)
  <2> SUFFICES ASSUME status = "all" PROVE shown = conns /\ (layout = "provider" => groups = cards)
    OBVIOUS
  <2>1. \A c \in conns : InFilter(c.at, status)
    BY DEF InFilter
  <2>2. shown = conns
    BY <2>1 DEF shown, filteredConns
  <2> QED BY <2>2 DEF railGroups, CardGroups
<1> HIDE DEF groups, cards
<1>5. DOMAIN groups = 1..Len(groups)
  BY <1>2 DEF Parted
<1>6. ticked = NamesOf(shown)
  BY <1>1, <1>2, TickedIs
<1> HIDE DEF ticked
<1>7. shown # {} => allVisibleSelected(shown, ticked)
  BY <1>6 DEF allVisibleSelected
<1>8. /\ SumOf([i \in DOMAIN groups |-> GroupHeader(groups[i]).issues]) = stats(shown)["issues"]
      /\ SumOf([i \in DOMAIN groups |-> GroupHeader(groups[i]).acc]) = stats(shown)["all"]
  BY <1>1, <1>2, HeadersAddUp
<1>9. ASSUME status = "all"
      PROVE  /\ SumOf([i \in DOMAIN cards |-> ConnectionGroup(cards[i], ticked).selected]) = stats(conns)["all"]
             /\ SumOf([i \in DOMAIN cards |-> ConnectionGroup(cards[i], ticked).active]) = stats(conns)["active"]
             /\ SumOf([i \in DOMAIN cards |-> ConnectionGroup(cards[i], ticked).inactive]) = stats(conns)["inactive"]
  <2>1. ticked = NamesOf(conns)
    BY <1>4, <1>6, <1>9
  <2> QED BY <1>3, <2>1, HeadersAddUp
<1>10. ASSUME NEW i \in DOMAIN groups
       PROVE  /\ layout = "provider" => groups[i].items # <<>>
              /\ layout = "provider" /\ i > 1 /\ Known(groups[i].id) => Known(groups[i - 1].id)
  <2>1. i \in 1..Len(groups)
    BY <1>5
  <2>2. groups[i].items = <<>> <=> part[i] = {}
    BY <1>1, <1>2, <2>1, PartedItems
  <2> QED BY <1>2, <2>1, <2>2
<1>11. /\ \A c \in shown : \E i \in DOMAIN groups : \E j \in DOMAIN groups[i].items :
             /\ groups[i].items[j] = c
             /\ \A h \in DOMAIN groups : \A k \in DOMAIN groups[h].items :
                   groups[h].items[k] = c => h = i /\ k = j
       /\ \A i \in DOMAIN groups :
             /\ ItemsOf(groups[i]) \subseteq shown
             /\ \A j \in 1..(Len(groups[i].items) - 1) :
                   compareByAttention(groups[i].items[j].at, groups[i].items[j + 1].at)
  BY <1>1, <1>2, ShownOnce
<1> QED BY <1>4, <1>7, <1>8, <1>9, <1>10, <1>11 DEF ticked, groups, shown, cards

LEMMA ConnsAreAList == ASSUME NEW k \in Nat, NEW conns \in ListConns(k) PROVE IsList(conns)
<1>1. PICK p \in [1..k -> Providers], s \in [1..k -> {t \in SomeStatus : t.isActive \/ ~t.error}] :
         conns = {[name |-> i, provider |-> p[i], at |-> s[i]] : i \in 1..k}
  BY DEF ListConns
<1> DEFINE f == [i \in 1..k |-> [name |-> i, provider |-> p[i], at |-> s[i]]]
<1>2. \A c \in conns : c.name \in 1..k /\ c = f[c.name] /\ c.provider \in Providers
  BY <1>1
<1>3. \A c \in conns : attentionRank(c.at) \in 0..6
  BY DEF attentionRank
<1>4. IsFiniteSet(conns)
  <2>1. f \in Surjection(1..k, conns)
    BY <1>1 DEF Surjection
  <2>2. IsFiniteSet(1..k)
    BY FS_Interval
  <2> HIDE DEF f
  <2> QED BY <2>1, <2>2, FS_Surjection
<1> HIDE DEF f
<1>5. \A c, d \in conns : c.name = d.name => c = d
  BY <1>2
<1> QED BY <1>2, <1>3, <1>4, <1>5 DEF IsList

\* Wherever a list is scrolled to, every row and header in its viewport is
\* drawn, and the rail and the cards have every connection once, in the right
\* order and under headers that count right, whatever the connections are
\* (connection-list.tsx, connections-screen.tsx).
THEOREM ListsAreWhole == Spec => []ListShowsAll
<1>1. (screen = "rules" => RulesInit) => ListShowsAll
  <2> SUFFICES ASSUME screen = "rules", RulesInit PROVE ListShowsAll
    BY DEF ListShowsAll
  <2>1. ASSUME local.about = "list"
        PROVE  \A scrollTop \in ScrollTops, viewportH \in ViewHeights :
                   InView(Flat(local.rows), scrollTop, viewportH) \subseteq Drawn(Flat(local.rows), scrollTop, viewportH)
    <3>1. PICK k \in 1..MaxListed : \E sizes \in [1..k -> 0..MaxRows] : local = [about |-> "list", rows |-> sizes]
      BY <2>1 DEF RulesInit
    <3>2. PICK sizes \in [1..k -> 0..MaxRows] : local = [about |-> "list", rows |-> sizes]
      BY <3>1
    <3>3. sizes \in Seq(Nat) /\ local.rows = sizes
      BY <3>2
    <3> DEFINE items == Flat(sizes)
    <3>4. IsFiniteSet(items) /\ Apart(items)
      BY <3>3, ItemsAre
    <3> HIDE DEF items
    <3>5. \A scrollTop \in ScrollTops, viewportH \in ViewHeights :
             InView(items, scrollTop, viewportH) \subseteq Drawn(items, scrollTop, viewportH)
      BY <3>4, ViewAssumption, WindowShows
    <3> QED BY <3>3, <3>5 DEF items
  <2>2. ASSUME local.about = "rows" PROVE RailShowsAll(local.conns)
    <3>1. PICK k \in 0..MaxListed : \E conns \in ListConns(k) : local = [about |-> "rows", conns |-> conns]
      BY <2>2 DEF RulesInit
    <3>2. PICK conns \in ListConns(k) : local = [about |-> "rows", conns |-> conns]
      BY <3>1
    <3>3. IsList(conns) /\ local.conns = conns
      BY <3>2, ConnsAreAList
    <3> QED BY <3>3, RailIsWhole
  <2> QED BY <2>1, <2>2 DEF ListShowsAll
<1> QED BY <1>1, InputStays, PTL
=============================================================================
