------------------------- MODULE ChatServiceProofs --------------------------
(***************************************************************************)
(* Theorems about TokenRefresh, for every set of connections, renewing     *)
(* services, failures and settings: types, and the bounds on cool-downs in *)
(* the store and in the copies that renewals hold and write back. Then     *)
(* theorems about ChatService, which renews and selects, for every number  *)
(* of concurrent requests, every set of accounts and route plans.          *)
(***************************************************************************)
EXTENDS ChatService, AccountSelectorProofs, FiniteSetTheorems, SequenceTheorems,
        WellFoundedInduction

-----------------------------------------------------------------------------
(* Renewals: the copies they hold. *)

\* What a record read from the store is, and stays while time passes.
GoodRecords ==
    {rec \in [attrs : Attrs, rateLimitedUntil : Bounded, backoffLevel : Levels,
              modelLocks : [Models -> Bounded]] :
        rec.backoffLevel > 0 => rec.rateLimitedUntil > 0}

FlightOK == flight \in [Refreshers -> [Conns -> GoodRecords \cup {NoFlight}]]

\* The inductive invariant: the selector's own, and good copies.
RefreshInv == SelInv /\ FlightOK

\* A time that was near enough stays so.
LEMMA BoundedGrows ==
    ASSUME SelInv, now' \in Nat, now' >= now
    PROVE  Bounded \subseteq Bounded'
<1>1. now \in Nat /\ \A s \in SettingsSet : PenaltyBound(s) \in Nat
  BY PenaltyBoundNat DEF SelInv, SelTypeOK
<1> SUFFICES ASSUME NEW t \in Nat, NEW s \in SettingsSet, t <= now + PenaltyBound(s)
             PROVE  t <= now' + PenaltyBound(s)
  BY DEF Bounded
<1> QED
  BY <1>1

\* The same for a record.
LEMMA GoodStaysGood ==
    ASSUME Bounded \subseteq Bounded'
    PROVE  GoodRecords \subseteq GoodRecords'
BY DEF GoodRecords

LEMMA RecordIsGood ==
    ASSUME SelInv, NEW c \in Conns
    PROVE  Record(c) \in GoodRecords
<1>1. attrs[c] \in Attrs /\ backoffLevel[c] \in Levels
  BY DEF SelInv, SelTypeOK, Levels
<1>2. rateLimitedUntil[c] \in Bounded /\ modelLocks[c] \in [Models -> Bounded]
  BY HealthBounded
<1>3. backoffLevel[c] > 0 => rateLimitedUntil[c] > 0
  BY DEF SelInv, HealthNotTorn
<1> QED
  BY <1>1, <1>2, <1>3 DEF Record, GoodRecords

\* Replacing one copy by a good one, or by none.
LEMMA FlightStep ==
    ASSUME FlightOK, Bounded \subseteq Bounded',
           NEW i \in Refreshers, NEW c \in Conns, NEW copy \in GoodRecords \cup {NoFlight},
           flight' = [flight EXCEPT ![i] = [@ EXCEPT ![c] = copy]]
    PROVE  FlightOK'
<1> DEFINE Old == GoodRecords \cup {NoFlight}
           New == (GoodRecords \cup {NoFlight})'
<1>1. Old \subseteq New
  BY GoodStaysGood
<1>2. flight \in [Refreshers -> [Conns -> Old]] /\ copy \in Old
  BY DEF FlightOK
<1> HIDE DEF Old, New
<1>3. flight' \in [Refreshers -> [Conns -> Old]]
  BY <1>2
<1>4. flight' \in [Refreshers -> [Conns -> New]]
  BY <1>1, <1>3
<1> QED
  BY <1>4 DEF FlightOK, New

LEMMA FlightKept ==
    ASSUME FlightOK, Bounded \subseteq Bounded', UNCHANGED flight
    PROVE  FlightOK'
<1>1. GoodRecords \subseteq GoodRecords'
  BY GoodStaysGood
<1> QED
  BY <1>1 DEF FlightOK

LEMMA BoundedSame ==
    ASSUME UNCHANGED now
    PROVE  Bounded' = Bounded
BY DEF Bounded

\* Writing a good copy back, whatever happened to the record meanwhile.
LEMMA WriteBackStep ==
    ASSUME SelInv, NEW c \in Conns, NEW copy \in GoodRecords, WriteRecord(c, copy),
           UNCHANGED <<stored, settings, rotating, now>>
    PROVE  SelInv'
<1>1. /\ rateLimitedUntil \in [Conns -> Bounded]
      /\ modelLocks \in [Conns -> [Models -> Bounded]]
  BY HealthBounded
<1>2. /\ copy.attrs \in Attrs /\ copy.backoffLevel \in Levels
      /\ copy.rateLimitedUntil \in Bounded /\ copy.modelLocks \in [Models -> Bounded]
      /\ (copy.backoffLevel > 0 => copy.rateLimitedUntil > 0)
  BY DEF GoodRecords
<1>3. attrs \in [Conns -> Attrs] /\ backoffLevel \in [Conns -> Levels]
  BY DEF SelInv, SelTypeOK, Levels
<1>4. /\ attrs' \in [Conns -> Attrs] /\ backoffLevel' \in [Conns -> Levels]
      /\ rateLimitedUntil' \in [Conns -> Bounded]
      /\ modelLocks' \in [Conns -> [Models -> Bounded]]
  BY <1>1, <1>2, <1>3 DEF WriteRecord, health
<1>5. Bounded \subseteq Nat
  BY DEF Bounded
<1>6. rateLimitedUntil' \in [Conns -> Nat] /\ modelLocks' \in [Conns -> [Models -> Nat]]
  BY <1>4, <1>5
<1>7. CooldownBounded'
  <2>1. \A d \in Conns : rateLimitedUntil'[d] \in Bounded
    BY <1>4
  <2>2. \A d \in Conns, m \in Models : modelLocks'[d][m] \in Bounded
    BY <1>4
  <2> QED
    BY <2>1, <2>2 DEF CooldownBounded, Bounded
<1>8. SelTypeOK'
  BY <1>4, <1>6 DEF SelInv, SelTypeOK, Levels, rotating
<1>9. HealthNotTorn'
  BY <1>1, <1>2, <1>3 DEF WriteRecord, health, SelInv, HealthNotTorn
<1> QED
  BY <1>7, <1>8, <1>9 DEF SelInv

LEMMA PersistStep ==
    ASSUME RefreshInv, NEW i \in Refreshers, NEW c \in Conns, PersistRefresh(i, c),
           UNCHANGED <<rotating, now>>
    PROVE  RefreshInv'
<1>1. flight[i][c] \in GoodRecords
  BY DEF RefreshInv, FlightOK, PersistRefresh, InFlight
<1>2. SelInv'
  BY <1>1, WriteBackStep DEF RefreshInv, PersistRefresh
<1>3. FlightOK'
  BY FlightStep, BoundedSame DEF RefreshInv, PersistRefresh
<1> QED
  BY <1>2, <1>3 DEF RefreshInv

LEMMA BeginStep ==
    ASSUME RefreshInv, NEW i \in Refreshers, NEW c \in Conns, BeginRefresh(i, c),
           UNCHANGED selVars
    PROVE  RefreshInv'
<1>1. SelInv'
  BY SelInvStep DEF RefreshInv
<1>2. FlightOK'
  BY RecordIsGood, FlightStep, BoundedSame DEF RefreshInv, BeginRefresh, selVars
<1> QED
  BY <1>1, <1>2 DEF RefreshInv

LEMMA AbandonStep ==
    ASSUME RefreshInv, NEW i \in Refreshers, NEW c \in Conns, AbandonRefresh(i, c),
           UNCHANGED selVars
    PROVE  RefreshInv'
<1>1. SelInv'
  BY SelInvStep DEF RefreshInv
<1>2. FlightOK'
  BY FlightStep, BoundedSame DEF RefreshInv, AbandonRefresh, selVars
<1> QED
  BY <1>1, <1>2 DEF RefreshInv

LEMMA RefresherStep ==
    ASSUME RefreshInv, NEW i \in Refreshers, Refresher(i)
    PROVE  RefreshInv'
BY PersistStep, BeginStep, AbandonStep DEF Refresher

\* A step of the selector, or beside it, leaves the copies good.
LEMMA BesideStep ==
    ASSUME RefreshInv, SelNext, UNCHANGED flight
    PROVE  RefreshInv'
<1>1. SelInv'
  BY SelInvStep DEF RefreshInv
<1>2. now \in Nat /\ now' \in Nat
  BY <1>1 DEF RefreshInv, SelInv, SelTypeOK
<1>3. now' >= now
  <2>1. CASE Tick
    BY <2>1, <1>2, ConstantsAssumption DEF Tick
  <2>2. CASE UNCHANGED now
    BY <2>2, <1>2
  <2> QED
    BY <2>1, <2>2 DEF SelNext, Environment
<1>4. Bounded \subseteq Bounded'
  BY <1>2, <1>3, BoundedGrows DEF RefreshInv
<1> QED
  BY <1>1, <1>4, FlightKept DEF RefreshInv

LEMMA RefreshInvInit == RefreshInit => RefreshInv
BY SelInvInit DEF RefreshInit, RefreshInv, FlightOK

LEMMA RefreshInvStep == RefreshInv /\ [RefreshNext]_refreshVars => RefreshInv'
<1> SUFFICES ASSUME RefreshInv, [RefreshNext]_refreshVars PROVE RefreshInv'
  OBVIOUS
<1>1. CASE \E i \in Refreshers : Refresher(i)
  BY <1>1, RefresherStep
<1>2. CASE \E c \in Conns, e \in Errors, m \in Models :
              MarkUnavailable(c, e, m) /\ UNCHANGED <<flight, config, rotating, now>>
  BY <1>2, BesideStep DEF SelNext
<1>3. CASE \E c \in Conns, m \in Models :
              ClearError(c, m) /\ UNCHANGED <<flight, config, rotating, now>>
  BY <1>3, BesideStep DEF SelNext
<1>4. CASE Environment /\ UNCHANGED flight
  BY <1>4, BesideStep DEF SelNext
<1>5. CASE UNCHANGED refreshVars
  <2>1. SelInv' /\ UNCHANGED <<flight, now>>
    BY <1>5, SelInvStep DEF RefreshInv, refreshVars, selVars
  <2> QED
    BY <2>1, BoundedSame, FlightKept DEF RefreshInv
<1> QED
  BY <1>1, <1>2, <1>3, <1>4, <1>5 DEF RefreshNext

-----------------------------------------------------------------------------
(* The theorems *)

LEMMA RefreshInvariant == RefreshSpec => []RefreshInv
BY RefreshInvInit, RefreshInvStep, PTL DEF RefreshSpec

LEMMA GoodRecordsTyped == GoodRecords \subseteq RecordType
BY DEF GoodRecords, RecordType, Bounded, Levels

LEMMA RefreshInvMeans ==
    RefreshInv => RefreshTypeOK /\ CopiesBounded /\ CooldownBounded /\ HealthNotTorn
<1> SUFFICES ASSUME RefreshInv PROVE RefreshTypeOK /\ CopiesBounded
  BY DEF RefreshInv, SelInv
<1>1. RefreshTypeOK
  BY GoodRecordsTyped DEF RefreshInv, SelInv, FlightOK, RefreshTypeOK
<1>2. CopiesBounded
  <2> SUFFICES ASSUME NEW i \in Refreshers, NEW c \in Conns, InFlight(i, c)
               PROVE  /\ flight[i][c].rateLimitedUntil \in Bounded
                      /\ \A m \in Models : flight[i][c].modelLocks[m] \in Bounded
    BY DEF CopiesBounded, Bounded
  <2>1. flight[i][c] \in GoodRecords
    BY DEF RefreshInv, FlightOK, InFlight
  <2> QED
    BY <2>1 DEF GoodRecords
<1> QED
  BY <1>1, <1>2

\* All of the renewals' state is well typed, whoever renews, fails and edits.
THEOREM RefreshTyped == RefreshSpec => []RefreshTypeOK
BY RefreshInvariant, RefreshInvMeans, PTL

\* The copy a renewal holds, however old it is, never sidelines an account or a
\* model past the longest penalty of settings the operator saved.
THEOREM RefreshCopiesBounded == RefreshSpec => []CopiesBounded
BY RefreshInvariant, RefreshInvMeans, PTL

\* Nor does the record once stale copies have been written back (WriteRecord).
THEOREM RefreshCooldownBounded == RefreshSpec => []CooldownBounded
BY RefreshInvariant, RefreshInvMeans, PTL

\* A write-back of a copy read before any number of failures, successes and resets
\* never leaves a level without its cool-down: copies are taken and written whole.
THEOREM RefreshHealthNotTorn == RefreshSpec => []HealthNotTorn
BY RefreshInvariant, RefreshInvMeans, PTL

-----------------------------------------------------------------------------
(* Chat requests. *)

(* The places of a request's goroutine, by what is true of its locals there. *)

Outside == {"idle", "model", "pause", "done"}
Chosen  == {"renew", "renewing", "renewed", "unrenewed"}
Asking  == {"pick", "select", "unstick"} \cup Chosen
Failing == {"refresh", "refreshing", "unrefreshed", "mark", "spill"}
Used    == {"execute", "retry", "clear", "advance", "bind"} \cup Failing

\* Of some saved settings, the retry budget is not spent, or not overspent.
RoomLeft(n) == \E s \in SettingsSet : s.maxRetryCredentials = 0 \/ n < s.maxRetryCredentials
Within(n)   == \E s \in SettingsSet : s.maxRetryCredentials = 0 \/ n <= s.maxRetryCredentials

\* What holds of the locals l of executeOnProvider at label, for attempt a.
SoundAt(label, l, a) ==
    /\ label \notin Outside =>
          /\ IsFiniteSet(l.tried) /\ l.attempted = Cardinality(l.tried)
          /\ a.pin # NoConn => l.tried \subseteq {a.pin}
          /\ \A c \in l.tried : Allowed(c, a.allow)
          /\ Within(l.attempted)
    /\ label \in Asking =>
          /\ l.tried \subseteq l.exclude
          /\ a.pin # NoConn => Allowed(a.pin, a.allow)
          /\ RoomLeft(l.attempted)
    /\ label = "select" => (l.soft # NoConn => Allowed(l.soft, a.allow))
    /\ label = "unstick" => l.soft # NoConn
    /\ label \in Chosen =>
          /\ l.conn \notin l.exclude /\ Allowed(l.conn, a.allow)
          /\ a.pin # NoConn => l.conn = a.pin
    /\ label \in Used => l.tried \subseteq l.exclude \cup {l.conn}
    /\ label \in Chosen \cup Used => l.conn \in Conns
    /\ label \in Failing => l.fail \in Errors

\* The part of TypeOK that is ChatService's own.
ComboState  == [offset : Nat, at : Nat, rotates : BOOLEAN, lastStatus : Nat]
ResultState == [ok : BOOLEAN, status : Nat, allowFallback : BOOLEAN, terminal : BOOLEAN]
ChatTyped ==
    /\ pc \in [Requests -> Labels]
    /\ plan \in [Requests -> Plans]
    /\ cancelled \in [Requests -> BOOLEAN]
    /\ combo \in [Requests -> ComboState]
    /\ loop \in [Requests -> LoopState]
    /\ result \in [Requests -> ResultState]
    /\ stream \in [Requests -> {"none", "open", "handed", "closed"}]
    /\ affinity \in [AffinityKeys -> Conns \cup {NoConn}]
    /\ comboKeys \subseteq Combos
    /\ comboCounter \in [Combos -> (-CounterMax - 1)..CounterMax]

\* What holds of one request.
Sound(r) ==
    /\ SoundAt(pc[r], loop[r], Current(r))
    /\ pc[r] \notin {"idle", "done"} => plan[r].attempts # <<>>
    /\ pc[r] \in {"renewing", "refreshing"} => InFlight(Selector, loop[r].conn)

\* The inductive invariant.
ChatInv == RefreshInv /\ ChatTyped /\ \A r \in Requests : Sound(r)

-----------------------------------------------------------------------------
(* The attempt a request is at. *)

\* A non-empty set of places of a sequence has a last one.
LEMMA LastPlace ==
    ASSUME NEW n \in Nat, NEW P \in SUBSET (1..n), P # {}
    PROVE  \E i \in P : \A j \in P : j <= i
<1> DEFINE T == {n - i : i \in P}
<1>0. \A i \in P : i \in Nat /\ i <= n /\ n - i \in Nat
  OBVIOUS
<1>1. T \subseteq Nat /\ T # {}
  BY <1>0
<1>2. PICK t \in T : \A u \in T : ~(<<u, t>> \in OpToRel(<, Nat))
  BY <1>1, NatLessThanWellFounded, WFMin
<1>3. \A u \in T : ~(u < t)
  <2> SUFFICES ASSUME NEW u \in T, u < t PROVE FALSE
    OBVIOUS
  <2>1. u \in Nat /\ t \in Nat
    BY <1>1
  <2>2. <<u, t>> \in Nat \X Nat /\ <<u, t>>[1] < <<u, t>>[2]
    BY <2>1
  <2>3. <<u, t>> \in OpToRel(<, Nat)
    BY <2>2 DEF OpToRel
  <2> QED
    BY <2>3, <1>2
<1>4. PICK i \in P : t = n - i
  OBVIOUS
<1>5. ASSUME NEW j \in P
      PROVE  j <= i
  <2>1. ~(n - j < n - i)
    BY <1>3, <1>4
  <2> QED
    BY <2>1, <1>0
<1> QED
  BY <1>5

\* Remainders.
LEMMA Remainder ==
    ASSUME NEW a \in Nat, NEW n \in Nat \ {0}
    PROVE  a % n \in 0..(n - 1)
OBVIOUS

LEMMA CurrentTyped ==
    ASSUME ChatTyped, NEW r \in Requests, plan[r].attempts # <<>>
    PROVE  Current(r) \in Attempt
<1> DEFINE attempts == plan[r].attempts
           place    == ((combo[r].offset + combo[r].at) % Len(attempts)) + 1
           here     == attempts[place]
           Same(i)  == attempts[i].model = here.model /\ attempts[i].pin = here.pin
           IsLast(i) == Same(i) /\ \A j \in DOMAIN attempts : Same(j) => j <= i
           last     == CHOOSE i \in DOMAIN attempts : IsLast(i)
<1>1. attempts \in Seq(Attempt) /\ attempts # <<>>
  BY ChatAssumption DEF ChatTyped, Plan
<1>2. Len(attempts) \in Nat \ {0} /\ DOMAIN attempts = 1..Len(attempts)
  BY <1>1, EmptySeq, LenProperties
<1>3. combo[r].offset + combo[r].at \in Nat
  BY DEF ChatTyped, ComboState
<1>4. place \in 1..Len(attempts)
  <2> DEFINE sum == combo[r].offset + combo[r].at
             n   == Len(attempts)
  <2>1. sum \in Nat /\ n \in Nat \ {0}
    BY <1>2, <1>3
  <2> HIDE DEF sum, n
  <2>2. sum % n \in 0..(n - 1)
    BY <2>1, Remainder
  <2>3. (sum % n) + 1 \in 1..n
    BY <2>1, <2>2
  <2> QED
    BY <2>3 DEF sum, n
<1>5. \A i \in 1..Len(attempts) : attempts[i] \in Attempt
  BY <1>1, ElementOfSeq
<1>6. \E i \in DOMAIN attempts : IsLast(i)
  <2> DEFINE P == {i \in 1..Len(attempts) : Same(i)}
  <2> HIDE DEF place
  <2>1. P # {}
    BY <1>4
  <2>2. PICK i \in P : \A j \in P : j <= i
    BY <2>1, <1>2, LastPlace
  <2> QED
    BY <2>2, <1>2
<1>7. last \in DOMAIN attempts
  BY <1>6
<1>8. Current(r) = [here EXCEPT !.allow = attempts[last].allow]
  BY DEF Current, AttemptAt
<1>9. here \in Attempt /\ attempts[last] \in Attempt
  BY <1>2, <1>4, <1>5, <1>7
<1> HIDE DEF here, last, attempts
<1> QED
  BY <1>8, <1>9 DEF Attempt

-----------------------------------------------------------------------------
(* A step of one request. *)

Persists == \A c \in Conns : InFlight(Selector, c) => InFlight(Selector, c)'

\* A request that does not move stays sound.
LEMMA StaysSound ==
    ASSUME ChatInv, NEW q \in Requests, Persists,
           pc'[q] = pc[q], loop'[q] = loop[q], plan'[q] = plan[q], combo'[q] = combo[q]
    PROVE  Sound(q)'
<1>1. Sound(q)
  BY DEF ChatInv
<1>2. Current(q)' = Current(q)
  BY DEF Current
<1>3. SoundAt(pc[q], loop[q], Current(q))'
  BY <1>1, <1>2 DEF Sound, SoundAt, Within, RoomLeft
<1>4. pc[q] \in {"renewing", "refreshing"} => InFlight(Selector, loop[q].conn)'
  <2> SUFFICES ASSUME pc[q] \in {"renewing", "refreshing"}
               PROVE  InFlight(Selector, loop[q].conn)'
    OBVIOUS
  <2>1. InFlight(Selector, loop[q].conn) /\ loop[q].conn \in Conns
    BY <1>1 DEF Sound, SoundAt, Chosen, Used, Failing
  <2>2. flight'[Selector][loop[q].conn] # NoFlight
    BY <2>1 DEF Persists, InFlight
  <2> QED
    BY <2>2 DEF InFlight
<1> QED
  BY <1>1, <1>3, <1>4 DEF Sound

\* The others stay sound when request r moves.
LEMMA OthersStaySound ==
    ASSUME ChatInv, NEW r \in Requests, Persists,
           \A q \in Requests \ {r} : /\ pc'[q] = pc[q] /\ loop'[q] = loop[q]
                                     /\ plan'[q] = plan[q] /\ combo'[q] = combo[q],
           Sound(r)'
    PROVE  \A q \in Requests : Sound(q)'
<1>1. \A q \in Requests \ {r} : Sound(q)'
  BY StaysSound
<1> QED
  BY <1>1

\* Request r goes to label with the locals l, within its attempt or to its end.
Moves(r, label, l) ==
    /\ label \in Labels /\ l \in LoopState
    /\ pc' = [pc EXCEPT ![r] = label]
    /\ loop' = [loop EXCEPT ![r] = l]
    /\ SoundAt(label, l, Current(r))
    /\ label \in {"renewing", "refreshing"} => flight'[Selector][l.conn] # NoFlight

\* The rest of the variables keeps its types.
RestTyped ==
    /\ cancelled \in [Requests -> BOOLEAN]
    /\ result \in [Requests -> ResultState]
    /\ stream \in [Requests -> {"none", "open", "handed", "closed"}]
    /\ affinity \in [AffinityKeys -> Conns \cup {NoConn}]
    /\ comboKeys \subseteq Combos
    /\ comboCounter \in [Combos -> (-CounterMax - 1)..CounterMax]

LEMMA MoveStep ==
    ASSUME ChatInv, NEW r \in Requests, NEW label, NEW l, Moves(r, label, l),
           pc[r] \notin {"idle", "done"}, UNCHANGED <<plan, combo>>, Persists, RestTyped'
    PROVE  ChatTyped' /\ \A q \in Requests : Sound(q)'
<1>1. ChatTyped /\ Sound(r)
  BY DEF ChatInv
<1>2. pc' \in [Requests -> Labels] /\ loop' \in [Requests -> LoopState]
  BY <1>1 DEF ChatTyped, Moves
<1>3. ChatTyped'
  BY <1>1, <1>2 DEF ChatTyped, RestTyped
<1>4. Current(r)' = Current(r)
  BY DEF Current
<1>5. pc'[r] = label /\ loop'[r] = l
  BY <1>1 DEF Moves, ChatTyped
<1>6. SoundAt(pc[r], loop[r], Current(r))'
  BY <1>4, <1>5 DEF Moves, SoundAt, Within, RoomLeft
<1>7. Sound(r)'
  BY <1>1, <1>5, <1>6 DEF Sound, Moves, InFlight
<1>8. \A q \in Requests \ {r} : /\ pc'[q] = pc[q] /\ loop'[q] = loop[q]
                                /\ plan'[q] = plan[q] /\ combo'[q] = combo[q]
  BY <1>1 DEF Moves, ChatTyped
<1> QED
  BY <1>3, <1>7, <1>8, OthersStaySound

\* What a result may be.
LEMMA ResultsTyped ==
    /\ \A status \in Nat, f \in BOOLEAN, t \in BOOLEAN : Refusal(status, f, t) \in ResultState
    /\ Success \in ResultState /\ Aborted \in ResultState
    /\ \A e \in Errors : FailureResult(e) \in ResultState
    /\ \A kind : SelectionRefusal(kind) \in ResultState
<1>1. \A status \in Nat, f \in BOOLEAN, t \in BOOLEAN : Refusal(status, f, t) \in ResultState
  BY DEF Refusal, ResultState
<1>2. Success \in ResultState /\ Aborted \in ResultState
  <2>1. Success \in ResultState
    BY DEF Success, ResultState
  <2>2. 499 \in Nat
    OBVIOUS
  <2> QED
    BY <1>1, <2>1, <2>2 DEF Aborted
<1>3. ASSUME NEW e \in Errors PROVE FailureResult(e) \in ResultState
  <2>1. e.status \in Nat
    BY ConstantsAssumption DEF UpstreamError
  <2>2. NormalStatus(e.status) \in Nat /\ IsRetryableUpstream(e) \in BOOLEAN
    BY <2>1 DEF NormalStatus, IsRetryableUpstream
  <2> QED
    BY <1>1, <2>2 DEF FailureResult
<1>4. ASSUME NEW kind PROVE SelectionRefusal(kind) \in ResultState
  <2>1. 404 \in Nat /\ 403 \in Nat /\ 400 \in Nat /\ 429 \in Nat /\ 503 \in Nat
    OBVIOUS
  <2>2. /\ Refusal(404, FALSE, FALSE) \in ResultState /\ Refusal(403, TRUE, FALSE) \in ResultState
        /\ Refusal(400, TRUE, FALSE) \in ResultState /\ Refusal(429, FALSE, FALSE) \in ResultState
        /\ Refusal(503, FALSE, FALSE) \in ResultState
    BY <2>1 DEF Refusal, ResultState
  <2> QED
    BY <2>2, Zenon DEF SelectionRefusal
<1> QED
  BY <1>1, <1>2, <1>3, <1>4

\* A request returns from its attempt: nothing of its locals matters to that.
LEMMA AnyResultIsSound ==
    ASSUME NEW label, NEW l, NEW a, SoundAt(label, l, a), label \notin Outside
    PROVE  SoundAt("result", l, a)
BY DEF SoundAt, Outside, Asking, Chosen, Used, Failing

LEMMA OutsideIsSound ==
    ASSUME NEW label \in Outside, NEW l, NEW a
    PROVE  SoundAt(label, l, a)
BY DEF SoundAt, Outside, Asking, Chosen, Used, Failing

LEMMA RefreshKept ==
    ASSUME RefreshInv, UNCHANGED refreshVars
    PROVE  RefreshInv' /\ Persists
BY RefreshInvStep DEF refreshVars, Persists, InFlight

-----------------------------------------------------------------------------
(* The steps, in the order a request takes them. *)

LEMMA InvMeans ==
    ASSUME ChatInv, NEW r \in Requests
    PROVE  /\ pc \in [Requests -> Labels] /\ loop \in [Requests -> LoopState]
           /\ result \in [Requests -> ResultState] /\ RestTyped
           /\ loop[r] \in LoopState /\ SoundAt(pc[r], loop[r], Current(r))
           /\ pc[r] \notin {"idle", "done"} => Current(r) \in Attempt
           /\ settings \in SettingsSet /\ attrs \in [Conns -> Attrs]
BY CurrentTyped DEF ChatInv, ChatTyped, RestTyped, Sound, RefreshInv, SelInv, SelTypeOK

\* No account is used yet: every budget has room, for a number at least zero.
LEMMA FreshIsSound ==
    ASSUME ChatInv, NEW key \in AffinityKeys \cup {NoKey}, NEW r \in Requests
    PROVE  /\ NewLoop(r, key) \in LoopState
           /\ NewLoop(r, key).tried = {} /\ NewLoop(r, key).attempted = 0
           /\ Within(0) /\ RoomLeft(0) /\ IsFiniteSet({}) /\ Cardinality({}) = 0
<1>1. FreshLoop \in LoopState
  BY DEF FreshLoop, LoopState
<1>2. NewLoop(r, key) = [FreshLoop EXCEPT !.key = key]
  BY DEF NewLoop
<1>3. FreshLoop.tried = {} /\ FreshLoop.attempted = 0
  BY DEF FreshLoop
<1>4. settings \in SettingsSet /\ settings.maxRetryCredentials \in Nat
  BY ConstantsAssumption DEF ChatInv, RefreshInv, SelInv, Settings
<1>5. Within(0) /\ RoomLeft(0)
  BY <1>4 DEF Within, RoomLeft
<1> QED
  BY <1>1, <1>2, <1>3, <1>5, FS_EmptySet DEF LoopState

LEMMA StartModelStep ==
    ASSUME ChatInv, NEW r \in Requests, StartModel(r)
    PROVE  ChatInv'
<1> DEFINE a   == Current(r)
           key == IF a.pin = NoConn /\ settings.sessionAffinity
                  THEN AffinityKey(plan[r], a.model) ELSE NoKey
<1>1. RefreshInv' /\ Persists
  BY RefreshKept DEF ChatInv, StartModel
<1>2. pc[r] = "model" /\ a \in Attempt
  BY InvMeans DEF StartModel
<1>3. key \in AffinityKeys \cup {NoKey}
  <2>1. plan[r] \in Plan
    BY ChatAssumption DEF ChatInv, ChatTyped
  <2>2. AffinityKey(plan[r], a.model) \in AffinityKeys \cup {NoKey}
    BY <1>2, <2>1 DEF AffinityKey, AffinityKeys, Plan, Attempt
  <2> QED
    BY <2>2
<1> DEFINE l == NewLoop(r, key)
<1>4. /\ l \in LoopState /\ l.tried = {} /\ l.attempted = 0
      /\ Within(0) /\ RoomLeft(0) /\ IsFiniteSet({}) /\ Cardinality({}) = 0
  BY <1>3, FreshIsSound
<1>5. /\ SoundAt("result", l, a)
      /\ (a.pin # NoConn => Allowed(a.pin, a.allow)) => SoundAt("pick", l, a)
  BY <1>4 DEF SoundAt, Outside, Asking, Chosen, Used, Failing
<1>6. combo[r].lastStatus \in Nat
  BY DEF ChatInv, ChatTyped, ComboState
<1>7. RestTyped'
  <2>1. /\ Refusal(combo[r].lastStatus, FALSE, FALSE) \in ResultState
        /\ Refusal(403, FALSE, TRUE) \in ResultState
        /\ Refusal(400, FALSE, FALSE) \in ResultState
    BY <1>6 DEF Refusal, ResultState
  <2>2. Aborted \in ResultState
    BY ResultsTyped
  <2>3. result \in [Requests -> ResultState]
    BY InvMeans
  <2>4. UNCHANGED result \/ \E res \in ResultState : result' = [result EXCEPT ![r] = res]
    BY <2>1, <2>2, ZenonT(40) DEF StartModel, Answer, Return
  <2>5. result' \in [Requests -> ResultState]
    BY <2>3, <2>4
  <2> QED
    BY <2>5, InvMeans DEF RestTyped, StartModel, shared
<1>8. \E label \in Labels, m \in LoopState : Moves(r, label, m)
  <2>1. CASE pc' = [pc EXCEPT ![r] = "done"] /\ UNCHANGED loop
    <3>1. Moves(r, "done", loop[r])
      BY <2>1, InvMeans, OutsideIsSound DEF Moves, Labels, Outside
    <3> QED
      BY <3>1, InvMeans DEF Labels
  <2>2. CASE pc' = [pc EXCEPT ![r] = "result"] /\ loop' = [loop EXCEPT ![r] = l]
    <3>1. Moves(r, "result", l)
      BY <2>2, <1>4, <1>5 DEF Moves, Labels
    <3> QED
      BY <3>1, <1>4 DEF Labels
  <2>3. CASE /\ pc' = [pc EXCEPT ![r] = "pick"] /\ loop' = [loop EXCEPT ![r] = l]
             /\ a.pin # NoConn => Allowed(a.pin, a.allow)
    <3>1. Moves(r, "pick", l)
      BY <2>3, <1>4, <1>5 DEF Moves, Labels
    <3> QED
      BY <3>1, <1>4 DEF Labels
  <2> QED
    BY <2>1, <2>2, <2>3, Zenon DEF StartModel, Answer, Return, Goto
<1>9. UNCHANGED <<plan, combo>>
  BY DEF StartModel
<1> QED
  BY <1>1, <1>2, <1>7, <1>8, <1>9, MoveStep DEF ChatInv

LEMMA PickStep ==
    ASSUME ChatInv, NEW r \in Requests, Pick(r)
    PROVE  ChatInv'
<1> DEFINE a == Current(r)
           l == [loop[r] EXCEPT !.stickyTried = @ \/ Bound(r) # NoConn, !.soft = SoftPin(r)]
<1>1. RefreshInv' /\ Persists /\ UNCHANGED <<plan, combo>>
  BY RefreshKept DEF ChatInv, Pick
<1>2. pc[r] = "pick" /\ loop[r] \in LoopState /\ SoundAt("pick", loop[r], a)
  BY InvMeans DEF Pick
<1>3. SoftPin(r) \in Conns \cup {NoConn} /\ (SoftPin(r) # NoConn => Allowed(SoftPin(r), a.allow))
  <2>1. Bound(r) \in Conns \cup {NoConn}
    BY <1>2 DEF Bound, ChatInv, ChatTyped, LoopState
  <2> QED
    BY <2>1 DEF SoftPin
<1>4. l \in LoopState
  BY <1>2, <1>3 DEF LoopState
<1>5. /\ l.tried = loop[r].tried /\ l.attempted = loop[r].attempted /\ l.exclude = loop[r].exclude
      /\ l.soft = SoftPin(r)
  BY <1>2 DEF LoopState
<1>6. SoundAt("select", l, a)
  <2> HIDE DEF l
  <2> QED
    BY <1>2, <1>3, <1>5 DEF SoundAt, Outside, Asking, Chosen, Used, Failing
<1>7. SoundAt("result", loop[r], a)
  BY <1>2, AnyResultIsSound DEF Outside
<1>8. RestTyped'
  <2>1. result' \in [Requests -> ResultState]
    BY InvMeans, ResultsTyped DEF Pick, Return
  <2> QED
    BY <2>1, InvMeans DEF RestTyped, Pick, shared
<1>9. \E label \in Labels, m \in LoopState : Moves(r, label, m)
  <2>1. CASE pc' = [pc EXCEPT ![r] = "result"] /\ UNCHANGED loop
    <3>1. Moves(r, "result", loop[r])
      BY <2>1, <1>7, InvMeans DEF Moves, Labels
    <3> QED
      BY <3>1, <1>2 DEF Labels
  <2>2. CASE pc' = [pc EXCEPT ![r] = "select"] /\ loop' = [loop EXCEPT ![r] = l]
    <3>1. Moves(r, "select", l)
      BY <2>2, <1>4, <1>6 DEF Moves, Labels
    <3> QED
      BY <3>1, <1>4 DEF Labels
  <2> QED
    BY <2>1, <2>2, Zenon DEF Pick, Return, Goto
<1> QED
  BY <1>1, <1>2, <1>8, <1>9, MoveStep DEF ChatInv

\* Room for one account more.
LEMMA RoomForOne ==
    ASSUME NEW n \in Nat, RoomLeft(n)
    PROVE  Within(n + 1)
<1>1. PICK s \in SettingsSet : s.maxRetryCredentials = 0 \/ n < s.maxRetryCredentials
  BY DEF RoomLeft
<1>2. s.maxRetryCredentials \in Nat
  BY ConstantsAssumption DEF Settings
<1> QED
  BY <1>1, <1>2 DEF Within

\* An account that is new to the attempt is counted and used.
LEMMA ServesMoves ==
    ASSUME ChatInv, NEW r \in Requests, NEW c \in Conns, NEW creds \in Attrs \cup {NoCreds},
           pc[r] \in Asking, c \notin loop[r].exclude,
           Allowed(c, Current(r).allow), Current(r).pin # NoConn => c = Current(r).pin,
           Serves(r, c, creds)
    PROVE  /\ \E label \in Labels, m \in LoopState : Moves(r, label, m)
           /\ result' \in [Requests -> ResultState]
<1> DEFINE a == Current(r)
           l == [loop[r] EXCEPT !.conn = c, !.creds = creds,
                                !.attempted = @ + 1, !.tried = @ \cup {c}]
<1>1. loop[r] \in LoopState /\ SoundAt(pc[r], loop[r], a) /\ pc[r] \notin Outside
  BY InvMeans DEF Asking, Chosen, Outside
<1>2. l \in LoopState
  <2>1. loop[r].attempted + 1 \in Nat /\ loop[r].tried \cup {c} \in SUBSET Conns
    BY <1>1 DEF LoopState
  <2> QED
    BY <1>1, <2>1 DEF LoopState
<1>3. /\ l.conn = c /\ l.exclude = loop[r].exclude
      /\ l.attempted = loop[r].attempted + 1 /\ l.tried = loop[r].tried \cup {c}
  BY <1>1 DEF LoopState
<1>4. /\ loop[r].tried \subseteq loop[r].exclude /\ RoomLeft(loop[r].attempted)
      /\ IsFiniteSet(loop[r].tried) /\ loop[r].attempted = Cardinality(loop[r].tried)
      /\ a.pin # NoConn => loop[r].tried \subseteq {a.pin}
      /\ \A d \in loop[r].tried : Allowed(d, a.allow)
  BY <1>1 DEF SoundAt
<1>5. IsFiniteSet(l.tried) /\ l.attempted = Cardinality(l.tried)
  <2>1. c \notin loop[r].tried
    BY <1>4
  <2> QED
    BY <1>3, <1>4, <2>1, FS_AddElement
<1>6. Within(l.attempted)
  <2>1. loop[r].attempted \in Nat
    BY <1>1 DEF LoopState
  <2> QED
    BY <1>3, <1>4, <2>1, RoomForOne
<1>7. \A label \in {"execute", "result"} : SoundAt(label, l, a)
  <2> HIDE DEF l, a
  <2>1. l.tried \subseteq l.exclude \cup {l.conn}
    BY <1>3, <1>4
  <2>2. (a.pin # NoConn => l.tried \subseteq {a.pin}) /\ \A d \in l.tried : Allowed(d, a.allow)
    BY <1>3, <1>4 DEF a
  <2> QED
    BY <1>3, <1>5, <1>6, <2>1, <2>2 DEF SoundAt, Asking, Chosen, Used, Failing
<1>8. \A label \in {"execute", "result"} : pc' = [pc EXCEPT ![r] = label] => Moves(r, label, l)
  <2>1. loop' = [loop EXCEPT ![r] = l]
    BY Zenon DEF Serves
  <2> HIDE DEF l, a
  <2> QED
    BY <1>2, <1>7, <2>1 DEF Moves, Labels, a
<1>9. pc' = [pc EXCEPT ![r] = "execute"] \/ pc' = [pc EXCEPT ![r] = "result"]
  BY Zenon DEF Serves, Return, Goto
<1>10. Refusal(400, FALSE, TRUE) \in ResultState
  BY DEF Refusal, ResultState
<1>11. UNCHANGED result \/ result' = [result EXCEPT ![r] = Refusal(400, FALSE, TRUE)]
  BY Zenon DEF Serves, Return
<1>12. result' \in [Requests -> ResultState]
  <2>1. result \in [Requests -> ResultState]
    BY InvMeans
  <2>2. UNCHANGED result \/ \E res \in ResultState : result' = [result EXCEPT ![r] = res]
    BY <1>10, <1>11, Zenon
  <2> HIDE DEF l, a
  <2> QED
    BY <2>1, <2>2
<1>13. \E label \in Labels : Moves(r, label, l)
  BY <1>8, <1>9 DEF Labels
<1> QED
  BY <1>2, <1>12, <1>13

\* No account: the soft pin is to be given up, or the attempt is over.
LEMMA NoCredentialsMoves ==
    ASSUME ChatInv, NEW r \in Requests, NEW refusal \in ResultState,
           pc[r] \in {"select", "unrenewed"}, NoCredentials(r, refusal), UNCHANGED loop
    PROVE  /\ \E label \in Labels, m \in LoopState : Moves(r, label, m)
           /\ result' \in [Requests -> ResultState]
<1> DEFINE a == Current(r)
<1>1. loop[r] \in LoopState /\ SoundAt(pc[r], loop[r], a) /\ pc[r] \notin Outside /\ pc[r] \in Asking
  BY InvMeans DEF Outside, Asking, Chosen
<1>2. loop' = [loop EXCEPT ![r] = loop[r]]
  BY InvMeans
<1>3. CASE loop[r].soft # NoConn
  <2>1. pc' = [pc EXCEPT ![r] = "unstick"] /\ UNCHANGED result
    BY <1>3, Zenon DEF NoCredentials, Goto
  <2>2. SoundAt("unstick", loop[r], a)
    BY <1>1, <1>3 DEF SoundAt, Outside, Asking, Chosen, Used, Failing
  <2>3. Moves(r, "unstick", loop[r]) /\ "unstick" \in Labels
    BY <1>1, <1>2, <2>1, <2>2 DEF Moves, Labels
  <2> QED
    BY <1>1, <2>1, <2>3, InvMeans
<1>4. CASE loop[r].soft = NoConn
  <2> DEFINE res == IF loop[r].lastFail # NoError THEN FailureResult(loop[r].lastFail) ELSE refusal
  <2>1. pc' = [pc EXCEPT ![r] = "result"] /\ result' = [result EXCEPT ![r] = res]
    BY <1>4, Zenon DEF NoCredentials, Return, Goto
  <2>2. res \in ResultState
    BY <1>1, ResultsTyped DEF LoopState
  <2>3. SoundAt("result", loop[r], a)
    BY <1>1, AnyResultIsSound
  <2>4. Moves(r, "result", loop[r]) /\ "result" \in Labels
    BY <1>1, <1>2, <2>1, <2>3 DEF Moves, Labels
  <2>5. result' \in [Requests -> ResultState]
    BY <2>1, <2>2, InvMeans
  <2> QED
    BY <1>1, <2>4, <2>5
<1> QED
  BY <1>3, <1>4

\* Whoever is selected was not excluded, is allowed, and is the pin if there is one.
LEMMA SelectableIs ==
    ASSUME ChatInv, NEW r \in Requests, pc[r] = "select", NEW c \in Conns, MaySelect(r, c)
    PROVE  /\ c \notin loop[r].exclude /\ Allowed(c, Current(r).allow)
           /\ Current(r).pin # NoConn => c = Current(r).pin
<1>1. SoundAt("select", loop[r], Current(r))
  BY InvMeans
<1>2. /\ Current(r).pin # NoConn => Allowed(Current(r).pin, Current(r).allow)
      /\ loop[r].soft # NoConn => Allowed(loop[r].soft, Current(r).allow)
  BY <1>1 DEF SoundAt, Asking
<1>3. CASE Pinned(r) # NoConn
  <2>1. c = Pinned(r) /\ PinVerdict(Current(r).model, c, loop[r].exclude, plan[r].tenant) = "ok"
    BY <1>3 DEF MaySelect
  <2>2. c \notin loop[r].exclude
    BY <2>1 DEF PinVerdict
  <2> QED
    BY <1>2, <1>3, <2>1, <2>2 DEF Pinned
<1>4. CASE Pinned(r) = NoConn
  <2>1. c \in Pool(r)
    BY <1>4 DEF MaySelect, Selects
  <2>2. c \notin loop[r].exclude /\ Allowed(c, Current(r).allow)
    BY <2>1 DEF Pool, Available, Supported, AllowedByPolicy, NonExcluded
  <2>3. Current(r).pin = NoConn
    BY <1>4 DEF Pinned
  <2> QED
    BY <2>2, <2>3
<1> QED
  BY <1>3, <1>4

\* Reading a rotation counter, or leaving it alone.
LEMMA RotationRead ==
    ASSUME ChatInv, NEW r \in Requests, pc[r] = "select", ReadRotation(r),
           UNCHANGED <<flight, config, health, now>>
    PROVE  RefreshInv' /\ Persists
<1>1. Current(r) \in Attempt /\ RefreshInv /\ SelTypeOK
  BY InvMeans DEF ChatInv, RefreshInv, SelInv
<1>2. Current(r).model \in Models /\ Current(r).allow \in AllowLists
  BY <1>1 DEF Attempt
<1>3. /\ rotationKeys' \subseteq RotationKeys
      /\ rotation' \in [RotationKeys -> (-CounterMax - 1)..CounterMax]
  <2>1. CASE UNCHANGED rotating
    BY <1>1, <2>1 DEF SelTypeOK, rotating
  <2>2. CASE TouchRotation(Pool(r), Current(r).model, Current(r).allow)
    BY <1>1, <1>2, <2>2, RotationTyped
  <2> QED
    BY <2>1, <2>2 DEF ReadRotation
<1>4. SelInv'
  BY <1>1, <1>3, RotationStep DEF RefreshInv
<1>5. FlightOK'
  BY <1>1, FlightKept, BoundedSame DEF RefreshInv
<1> QED
  BY <1>4, <1>5 DEF RefreshInv, Persists, InFlight

LEMMA SelectStep ==
    ASSUME ChatInv, NEW r \in Requests, Select(r)
    PROVE  ChatInv'
<1> DEFINE a == Current(r)
<1>1. pc[r] = "select" /\ pc[r] \in Asking /\ UNCHANGED <<plan, combo>>
  BY DEF Select, Asking
<1>2. RefreshInv' /\ Persists
  BY <1>1, RotationRead DEF Select
<1>3. PICK c \in Conns :
         /\ MaySelect(r, c)
         /\ \/ Serves(r, c, attrs[c])
            \/ /\ attrs[c].refreshable
               /\ loop' = [loop EXCEPT ![r] = [loop[r] EXCEPT !.conn = c, !.creds = attrs[c]]]
               /\ Goto(r, "renew") /\ UNCHANGED result
  BY DEF Select
<1>4. /\ c \notin loop[r].exclude /\ Allowed(c, a.allow) /\ attrs[c] \in Attrs
      /\ a.pin # NoConn => c = a.pin
  BY <1>1, <1>3, SelectableIs, InvMeans
<1>5. /\ \E label \in Labels, m \in LoopState : Moves(r, label, m)
      /\ result' \in [Requests -> ResultState]
  <2>1. CASE Serves(r, c, attrs[c])
    <3>1. attrs[c] \in Attrs \cup {NoCreds}
      BY <1>4
    <3> QED
      BY <1>1, <1>4, <2>1, <3>1, ServesMoves
  <2>2. CASE /\ loop' = [loop EXCEPT ![r] = [loop[r] EXCEPT !.conn = c, !.creds = attrs[c]]]
             /\ Goto(r, "renew") /\ UNCHANGED result
    <3> DEFINE l == [loop[r] EXCEPT !.conn = c, !.creds = attrs[c]]
    <3>1. loop[r] \in LoopState /\ SoundAt("select", loop[r], a)
      BY <1>1, InvMeans
    <3>2. l \in LoopState
      BY <1>4, <3>1 DEF LoopState
    <3>3. /\ l.conn = c /\ l.exclude = loop[r].exclude
          /\ l.attempted = loop[r].attempted /\ l.tried = loop[r].tried
      BY <3>1 DEF LoopState
    <3>4. SoundAt("renew", l, a)
      <4>1. /\ l.conn \notin l.exclude /\ Allowed(l.conn, a.allow)
            /\ (a.pin # NoConn => l.conn = a.pin) /\ l.conn \in Conns
        BY <1>4, <3>3
      <4> HIDE DEF l, a
      <4> QED
        BY <3>1, <3>3, <4>1 DEF SoundAt, Outside, Asking, Chosen, Used, Failing
    <3>5. Moves(r, "renew", l) /\ "renew" \in Labels
      BY <2>2, <3>2, <3>4 DEF Moves, Labels, Goto
    <3> QED
      BY <2>2, <3>2, <3>5, InvMeans
  <2> QED
    BY <1>3, <2>1, <2>2
<1>6. RestTyped'
  BY <1>5, InvMeans DEF RestTyped, Select, shared
<1> QED
  BY <1>1, <1>2, <1>5, <1>6, MoveStep DEF ChatInv

LEMMA SelectFailsStep ==
    ASSUME ChatInv, NEW r \in Requests, SelectFails(r)
    PROVE  ChatInv'
<1>1. pc[r] = "select" /\ UNCHANGED <<plan, combo, loop>>
  BY DEF SelectFails
<1>2. RefreshInv' /\ Persists
  BY <1>1, RotationRead DEF SelectFails
<1>3. /\ \E label \in Labels, m \in LoopState : Moves(r, label, m)
      /\ result' \in [Requests -> ResultState]
  BY <1>1, ResultsTyped, NoCredentialsMoves DEF SelectFails
<1>4. RestTyped'
  BY <1>3, InvMeans DEF RestTyped, SelectFails, shared
<1> QED
  BY <1>1, <1>2, <1>3, <1>4, MoveStep DEF ChatInv

LEMMA UnstickStep ==
    ASSUME ChatInv, NEW r \in Requests, Unstick(r)
    PROVE  ChatInv'
<1> DEFINE a == Current(r)
           l == [loop[r] EXCEPT !.exclude = @ \cup {loop[r].soft}, !.soft = NoConn]
<1>1. /\ pc[r] = "unstick" /\ UNCHANGED <<plan, combo, result, refreshVars>>
      /\ loop' = [loop EXCEPT ![r] = l]
      /\ pc' = [pc EXCEPT ![r] = "pick"]
  BY DEF Unstick, Goto
<1>2. RefreshInv' /\ Persists
  BY <1>1, RefreshKept DEF ChatInv
<1>3. loop[r] \in LoopState /\ SoundAt("unstick", loop[r], a)
  BY <1>1, InvMeans
<1>4. loop[r].soft \in Conns
  BY <1>3 DEF LoopState, SoundAt
<1>5. l \in LoopState
  BY <1>3, <1>4 DEF LoopState
<1>6. /\ l.attempted = loop[r].attempted /\ l.tried = loop[r].tried
      /\ loop[r].exclude \subseteq l.exclude
  BY <1>3 DEF LoopState
<1>7. SoundAt("pick", l, a)
  <2> HIDE DEF l
  <2> QED
    BY <1>3, <1>6 DEF SoundAt, Outside, Asking, Chosen, Used, Failing
<1>8. Moves(r, "pick", l)
  BY <1>1, <1>5, <1>7 DEF Moves, Labels
<1>9. RestTyped'
  <2>1. affinity' \in [AffinityKeys -> Conns \cup {NoConn}]
    BY InvMeans DEF Unstick, RestTyped
  <2> QED
    BY <2>1, InvMeans DEF RestTyped, Unstick
<1> QED
  BY <1>1, <1>2, <1>8, <1>9, MoveStep DEF ChatInv

\* A move to another label with the same locals.
LEMMA LabelMoves ==
    ASSUME ChatInv, NEW r \in Requests, UNCHANGED loop,
           NEW label \in Labels \ {"renewing", "refreshing"}, pc' = [pc EXCEPT ![r] = label],
           SoundAt(label, loop[r], Current(r))
    PROVE  \E k \in Labels, m \in LoopState : Moves(r, k, m)
<1>1. Moves(r, label, loop[r])
  BY InvMeans DEF Moves
<1> QED
  BY <1>1, InvMeans

\* An upstream failure is noted in the locals.
LEMMA FailureNoted ==
    ASSUME ChatInv, NEW r \in Requests, pc[r] \in Used, NEW e \in Errors,
           NEW label \in {"mark", "refresh", "result"},
           pc' = [pc EXCEPT ![r] = label],
           loop' = [loop EXCEPT ![r] = [loop[r] EXCEPT !.fail = e]]
    PROVE  \E k \in Labels, m \in LoopState : Moves(r, k, m)
<1> DEFINE l == [loop[r] EXCEPT !.fail = e]
           a == Current(r)
<1>1. loop[r] \in LoopState /\ SoundAt(pc[r], loop[r], a) /\ pc[r] \notin Outside
  BY InvMeans DEF Used, Failing, Outside
<1>2. l \in LoopState
  BY <1>1 DEF LoopState
<1>3. /\ l.fail = e /\ l.conn = loop[r].conn /\ l.exclude = loop[r].exclude
      /\ l.attempted = loop[r].attempted /\ l.tried = loop[r].tried
  BY <1>1 DEF LoopState
<1>4. SoundAt(label, l, a)
  <2> HIDE DEF l, a
  <2> QED
    BY <1>1, <1>3 DEF SoundAt, Asking, Chosen, Used, Failing
<1>5. Moves(r, label, l)
  <2> HIDE DEF a
  <2> QED
    BY <1>2, <1>4 DEF Moves, Labels, a
<1>6. label \in Labels
  BY DEF Labels
<1> QED
  BY <1>2, <1>5, <1>6

LEMMA JudgeMoves ==
    ASSUME ChatInv, NEW r \in Requests, pc[r] \in Used, NEW e \in Errors, Judge(r, e)
    PROVE  /\ \E label \in Labels, m \in LoopState : Moves(r, label, m)
           /\ result' \in [Requests -> ResultState]
<1>1. loop' = [loop EXCEPT ![r] = [loop[r] EXCEPT !.fail = e]]
  BY Zenon DEF Judge
<1>2. \/ pc' = [pc EXCEPT ![r] = "mark"] /\ UNCHANGED result
      \/ /\ pc' = [pc EXCEPT ![r] = "result"]
         /\ result' = [result EXCEPT ![r] = FailureResult(e)]
  BY Zenon DEF Judge, Goto, Return
<1>3. result' \in [Requests -> ResultState]
  BY <1>2, ResultsTyped, InvMeans
<1> QED
  BY <1>1, <1>2, <1>3, FailureNoted

LEMMA ExecuteStep ==
    ASSUME ChatInv, NEW r \in Requests, Execute(r)
    PROVE  ChatInv'
<1>1. /\ pc[r] \in {"execute", "retry"} /\ pc[r] \in Used /\ pc[r] \notin Outside
      /\ UNCHANGED <<plan, combo>>
  BY DEF Execute, Used, Failing, Outside
<1>2. RefreshInv' /\ Persists
  BY RefreshKept DEF ChatInv, Execute
<1>3. SoundAt(pc[r], loop[r], Current(r))
  BY InvMeans
<1>4. /\ \E label \in Labels, m \in LoopState : Moves(r, label, m)
      /\ result' \in [Requests -> ResultState]
  <2>1. CASE pc' = [pc EXCEPT ![r] = "clear"] /\ UNCHANGED <<loop, result>>
    <3>1. SoundAt("clear", loop[r], Current(r)) /\ "clear" \in Labels
      BY <1>1, <1>3 DEF SoundAt, Outside, Asking, Chosen, Used, Failing, Labels
    <3> QED
      BY <2>1, <3>1, LabelMoves, InvMeans
  <2>2. CASE /\ pc' = [pc EXCEPT ![r] = "result"] /\ UNCHANGED loop
             /\ result' = [result EXCEPT ![r] = Aborted]
    <3>1. SoundAt("result", loop[r], Current(r)) /\ "result" \in Labels
      BY <1>1, <1>3, AnyResultIsSound DEF Labels
    <3> QED
      BY <2>2, <3>1, LabelMoves, ResultsTyped, InvMeans
  <2>3. ASSUME NEW e \in Errors, pc' = [pc EXCEPT ![r] = "refresh"], UNCHANGED result,
               loop' = [loop EXCEPT ![r] = [loop[r] EXCEPT !.fail = e]]
        PROVE  /\ \E label \in Labels, m \in LoopState : Moves(r, label, m)
               /\ result' \in [Requests -> ResultState]
    BY <1>1, <2>3, FailureNoted, InvMeans
  <2>4. ASSUME NEW e \in Errors, Judge(r, e)
        PROVE  /\ \E label \in Labels, m \in LoopState : Moves(r, label, m)
               /\ result' \in [Requests -> ResultState]
    BY <1>1, <2>4, JudgeMoves
  <2> QED
    BY <2>1, <2>2, <2>3, <2>4, Zenon DEF Execute, Goto, Return
<1>5. stream' \in [Requests -> {"none", "open", "handed", "closed"}]
  BY InvMeans DEF Execute, RestTyped
<1>6. RestTyped'
  BY <1>4, <1>5, InvMeans DEF RestTyped, Execute, shared
<1> QED
  BY <1>1, <1>2, <1>4, <1>6, MoveStep DEF ChatInv

\* Joining the group of a renewal, as its leader or behind it.
LEMMA JoinMoves ==
    ASSUME ChatInv, NEW c \in Conns, UNCHANGED selVars,
           IF InFlight(Selector, c) THEN UNCHANGED flight ELSE BeginRefresh(Selector, c)
    PROVE  RefreshInv' /\ Persists /\ flight'[Selector][c] # NoFlight
<1>1. RefreshInv /\ Selector \in Refreshers
  BY ChatAssumption DEF ChatInv
<1>2. CASE InFlight(Selector, c) /\ UNCHANGED flight
  BY <1>1, <1>2, RefreshKept DEF refreshVars, InFlight
<1>3. CASE BeginRefresh(Selector, c)
  <2>1. RefreshInv'
    BY <1>1, <1>3, BeginStep
  <2>2. flight \in [Refreshers -> [Conns -> GoodRecords \cup {NoFlight}]]
    BY <1>1 DEF RefreshInv, FlightOK
  <2>3. Record(c) # NoFlight
    <3>1. Record(c) \in RecordType
      BY <1>1, RecordIsGood, GoodRecordsTyped DEF RefreshInv
    <3> QED
      BY <3>1, FlightAssumption
  <2>4. /\ flight'[Selector][c] = Record(c)
        /\ \A d \in Conns \ {c} : flight'[Selector][d] = flight[Selector][d]
    BY <1>1, <1>3, <2>2 DEF BeginRefresh
  <2> QED
    BY <2>1, <2>3, <2>4 DEF Persists, InFlight
<1> QED
  BY <1>2, <1>3

\* The credentials of the chosen connection are replaced.
LEMMA RetryIsSound ==
    ASSUME NEW l \in LoopState, NEW a, NEW label \in Used, SoundAt(label, l, a),
           NEW creds \in Attrs \cup {NoCreds}
    PROVE  /\ [l EXCEPT !.creds = creds] \in LoopState
           /\ SoundAt("retry", [l EXCEPT !.creds = creds], a)
<1> DEFINE k == [l EXCEPT !.creds = creds]
<1>1. k \in LoopState
  BY DEF LoopState
<1>2. /\ k.conn = l.conn /\ k.exclude = l.exclude
      /\ k.attempted = l.attempted /\ k.tried = l.tried
  BY DEF LoopState
<1>3. SoundAt("retry", k, a)
  <2> HIDE DEF k
  <2> QED
    BY <1>2 DEF SoundAt, Outside, Asking, Chosen, Used, Failing
<1> QED
  BY <1>1, <1>3

LEMMA RenewStep ==
    ASSUME ChatInv, NEW r \in Requests, Renew(r)
    PROVE  ChatInv'
<1> DEFINE c == loop[r].conn
<1>1. /\ pc[r] \in {"renew", "refresh"} /\ pc[r] \in Chosen \cup Used /\ pc[r] \notin Outside
      /\ UNCHANGED <<plan, combo, cancelled, stream, shared, selVars>>
  BY DEF Renew, Chosen, Used, Failing, Outside
<1>2. loop[r] \in LoopState /\ SoundAt(pc[r], loop[r], Current(r)) /\ RefreshInv
  BY InvMeans DEF ChatInv
<1>3. c \in Conns /\ (pc[r] = "refresh" => loop[r].fail \in Errors /\ pc[r] \in Used)
  BY <1>1, <1>2 DEF SoundAt, Failing, Used
<1>4. /\ RefreshInv' /\ Persists
      /\ \E label \in Labels, m \in LoopState : Moves(r, label, m)
      /\ result' \in [Requests -> ResultState]
  <2>1. ASSUME NEW label \in {"renewing", "refreshing"},
               JoinRefresh(r, c, label), UNCHANGED <<loop, result>>,
               SoundAt(label, loop[r], Current(r))
        PROVE  /\ RefreshInv' /\ Persists
               /\ \E k \in Labels, m \in LoopState : Moves(r, k, m)
               /\ result' \in [Requests -> ResultState]
    <3>1. IF InFlight(Selector, c) THEN UNCHANGED flight ELSE BeginRefresh(Selector, c)
      BY <2>1 DEF JoinRefresh
    <3>2. RefreshInv' /\ Persists /\ flight'[Selector][c] # NoFlight
      BY <1>1, <1>3, <3>1, JoinMoves
    <3>4. pc' = [pc EXCEPT ![r] = label] /\ loop' = [loop EXCEPT ![r] = loop[r]]
      BY <2>1, InvMeans DEF JoinRefresh, Goto
    <3>5. Moves(r, label, loop[r])
      BY <1>2, <2>1, <3>2, <3>4 DEF Moves, Labels
    <3> QED
      BY <1>2, <2>1, <3>2, <3>5, InvMeans DEF Labels
  <2>2. CASE /\ pc[r] = "refresh"
             /\ loop' = [loop EXCEPT ![r] = [loop[r] EXCEPT !.creds = attrs[c]]]
             /\ Goto(r, "retry") /\ UNCHANGED <<flight, result>>
    <3> DEFINE l == [loop[r] EXCEPT !.creds = attrs[c]]
    <3>1. attrs[c] \in Attrs
      BY <1>3, InvMeans
    <3>2. l \in LoopState /\ SoundAt("retry", l, Current(r))
      BY <1>2, <1>3, <2>2, <3>1, RetryIsSound
    <3>3. Moves(r, "retry", l)
      BY <2>2, <3>2 DEF Moves, Labels, Goto
    <3>4. RefreshInv' /\ Persists
      BY <1>1, <1>2, <2>2, RefreshKept DEF refreshVars
    <3> QED
      BY <2>2, <3>2, <3>3, <3>4, InvMeans DEF Labels
  <2>3. CASE pc[r] = "refresh" /\ Judge(r, loop[r].fail) /\ UNCHANGED flight
    <3>1. RefreshInv' /\ Persists
      BY <1>1, <1>2, <2>3, RefreshKept DEF refreshVars
    <3> QED
      BY <1>3, <2>3, <3>1, JudgeMoves
  <2>4. CASE pc[r] = "renew" /\ JoinRefresh(r, c, "renewing") /\ UNCHANGED <<loop, result>>
    <3>1. SoundAt("renewing", loop[r], Current(r))
      BY <1>2, <2>4 DEF SoundAt, Outside, Asking, Chosen, Used, Failing
    <3> QED
      BY <2>1, <2>4, <3>1
  <2>5. CASE pc[r] = "refresh" /\ JoinRefresh(r, c, "refreshing") /\ UNCHANGED <<loop, result>>
    <3>1. SoundAt("refreshing", loop[r], Current(r))
      BY <1>2, <2>5 DEF SoundAt, Outside, Asking, Chosen, Used, Failing
    <3> QED
      BY <2>1, <2>5, <3>1
  <2> QED
    BY <2>2, <2>3, <2>4, <2>5, Zenon DEF Renew
<1>5. RestTyped'
  BY <1>1, <1>4, InvMeans DEF RestTyped, shared
<1> QED
  BY <1>1, <1>4, <1>5, MoveStep DEF ChatInv, Outside

LEMMA RenewedStep ==
    ASSUME ChatInv, NEW r \in Requests, Renewed(r)
    PROVE  ChatInv'
<1> DEFINE c == loop[r].conn
<1>1. /\ pc[r] \in {"renewed", "unrenewed", "unrefreshed"} /\ pc[r] \notin Outside
      /\ UNCHANGED <<plan, combo, cancelled, stream, shared, refreshVars>>
  BY DEF Renewed, Outside
<1>2. loop[r] \in LoopState /\ SoundAt(pc[r], loop[r], Current(r)) /\ RefreshInv
  BY InvMeans DEF ChatInv
<1>3. RefreshInv' /\ Persists
  BY <1>1, <1>2, RefreshKept
<1>4. /\ \E label \in Labels, m \in LoopState : Moves(r, label, m)
      /\ result' \in [Requests -> ResultState]
  <2>1. CASE pc[r] \in {"renewed", "unrenewed"} /\ Serves(r, c, loop[r].creds)
    <3>1. /\ pc[r] \in Asking /\ c \in Conns /\ c \notin loop[r].exclude
          /\ Allowed(c, Current(r).allow)
          /\ Current(r).pin # NoConn => c = Current(r).pin
      BY <1>2, <2>1 DEF SoundAt, Asking, Chosen
    <3>2. loop[r].creds \in Attrs \cup {NoCreds}
      BY <1>2 DEF LoopState
    <3> HIDE DEF c
    <3> QED
      BY <2>1, <3>1, <3>2, ServesMoves
  <2>2. CASE /\ pc[r] = "unrenewed" /\ NoCredentials(r, Refusal(503, FALSE, FALSE))
             /\ UNCHANGED loop
    <3>1. Refusal(503, FALSE, FALSE) \in ResultState
      BY DEF Refusal, ResultState
    <3> QED
      BY <2>2, <3>1, NoCredentialsMoves
  <2>3. CASE pc[r] = "unrefreshed" /\ Judge(r, loop[r].fail)
    <3>1. loop[r].fail \in Errors /\ pc[r] \in Used
      BY <1>2, <2>3 DEF SoundAt, Failing, Used
    <3> QED
      BY <2>3, <3>1, JudgeMoves
  <2> QED
    BY <2>1, <2>2, <2>3, Zenon DEF Renewed
<1>5. RestTyped'
  BY <1>1, <1>4, InvMeans DEF RestTyped, shared
<1> QED
  BY <1>1, <1>3, <1>4, <1>5, MoveStep DEF ChatInv, Outside

LEMMA ClearStep ==
    ASSUME ChatInv, NEW r \in Requests, Clear(r)
    PROVE  ChatInv'
<1> DEFINE c == loop[r].conn
           k == Current(r).model
<1>1. /\ pc[r] = "clear" /\ pc' = [pc EXCEPT ![r] = "advance"] /\ ClearError(c, k)
      /\ UNCHANGED <<plan, combo, cancelled, loop, result, stream, shared,
                     flight, config, rotating, now>>
  BY DEF Clear, Goto
<1>2. /\ SoundAt("clear", loop[r], Current(r)) /\ RefreshInv /\ Current(r) \in Attempt
  BY <1>1, InvMeans DEF ChatInv
<1>3. c \in Conns /\ k \in Models
  BY <1>2 DEF SoundAt, Used, Attempt
<1>4. SelNext
  <2> HIDE DEF c, k
  <2> QED
    BY <1>1, <1>3 DEF SelNext
<1>5. RefreshInv' /\ Persists
  BY <1>1, <1>2, <1>4, BesideStep DEF Persists, InFlight
<1>6. SoundAt("advance", loop[r], Current(r)) /\ "advance" \in Labels
  BY <1>2 DEF SoundAt, Outside, Asking, Chosen, Used, Failing, Labels
<1>7. \E label \in Labels, m \in LoopState : Moves(r, label, m)
  BY <1>1, <1>6, LabelMoves
<1>8. RestTyped'
  BY <1>1, InvMeans DEF RestTyped, shared
<1> QED
  BY <1>1, <1>5, <1>7, <1>8, MoveStep DEF ChatInv

LEMMA AdvanceStep ==
    ASSUME ChatInv, NEW r \in Requests, Advance(r)
    PROVE  ChatInv'
<1> DEFINE a == Current(r)
<1>1. /\ pc[r] = "advance" /\ AdvanceConnectionRotation(a.model, a.allow)
      /\ \/ pc' = [pc EXCEPT ![r] = "bind"] /\ loop[r].key # NoKey /\ UNCHANGED result
         \/ /\ pc' = [pc EXCEPT ![r] = "result"]
            /\ result' = [result EXCEPT ![r] = Success]
      /\ UNCHANGED <<plan, combo, cancelled, loop, stream, shared,
                     flight, config, health, now>>
  BY Zenon DEF Advance, Goto, Return
<1>2. SoundAt("advance", loop[r], a) /\ RefreshInv /\ a \in Attempt /\ SelTypeOK
  BY <1>1, InvMeans DEF ChatInv, RefreshInv, SelInv
<1>3. a.model \in Models /\ a.allow \in AllowLists
  BY <1>2 DEF Attempt
<1>4. SelNext
  <2> HIDE DEF a
  <2> QED
    BY <1>1, <1>3 DEF SelNext
<1>5. RefreshInv' /\ Persists
  BY <1>1, <1>2, <1>4, BesideStep DEF Persists, InFlight
<1>6. /\ SoundAt("result", loop[r], a) /\ SoundAt("bind", loop[r], a)
      /\ "bind" \in Labels /\ "result" \in Labels
  BY <1>2 DEF SoundAt, Outside, Asking, Chosen, Used, Failing, Labels
<1>7. \E label \in Labels, m \in LoopState : Moves(r, label, m)
  BY <1>1, <1>6, LabelMoves
<1>8. RestTyped'
  BY <1>1, ResultsTyped, InvMeans DEF RestTyped, shared
<1> QED
  BY <1>1, <1>5, <1>7, <1>8, MoveStep DEF ChatInv

LEMMA BindStep ==
    ASSUME ChatInv, NEW r \in Requests, Bind(r)
    PROVE  ChatInv'
<1>1. /\ pc[r] = "bind" /\ pc' = [pc EXCEPT ![r] = "result"]
      /\ result' = [result EXCEPT ![r] = Success]
      /\ affinity' = [affinity EXCEPT ![loop[r].key] = loop[r].conn]
      /\ UNCHANGED <<plan, combo, cancelled, loop, stream, comboKeys, comboCounter, refreshVars>>
  BY DEF Bind, Return, Goto
<1>2. SoundAt("bind", loop[r], Current(r))
  BY <1>1, InvMeans
<1>3. RefreshInv' /\ Persists
  BY <1>1, RefreshKept DEF ChatInv
<1>4. SoundAt("result", loop[r], Current(r)) /\ "result" \in Labels /\ loop[r].conn \in Conns
  BY <1>2 DEF SoundAt, Outside, Asking, Chosen, Used, Failing, Labels
<1>5. \E label \in Labels, m \in LoopState : Moves(r, label, m)
  BY <1>1, <1>4, LabelMoves
<1>6. RestTyped'
  <2>1. /\ affinity' \in [AffinityKeys -> Conns \cup {NoConn}]
        /\ result' \in [Requests -> ResultState]
    BY <1>1, <1>4, ResultsTyped, InvMeans DEF RestTyped
  <2> QED
    BY <1>1, <2>1, InvMeans DEF RestTyped
<1> QED
  BY <1>1, <1>3, <1>5, <1>6, MoveStep DEF ChatInv

LEMMA MarkFailedStep ==
    ASSUME ChatInv, NEW r \in Requests, Mark(r)
    PROVE  ChatInv'
<1> DEFINE c == loop[r].conn
           e == loop[r].fail
           k == Current(r).model
<1>1. /\ pc[r] = "mark" /\ pc' = [pc EXCEPT ![r] = "spill"] /\ MarkUnavailable(c, e, k)
      /\ UNCHANGED <<plan, combo, cancelled, loop, result, stream, shared,
                     flight, config, rotating, now>>
  BY DEF Mark, Goto
<1>2. SoundAt("mark", loop[r], Current(r)) /\ RefreshInv /\ Current(r) \in Attempt
  BY <1>1, InvMeans DEF ChatInv
<1>3. c \in Conns /\ e \in Errors /\ k \in Models
  BY <1>2 DEF SoundAt, Used, Failing, Attempt
<1>4. SelNext
  <2> HIDE DEF c, e, k
  <2> QED
    BY <1>1, <1>3 DEF SelNext
<1>5. RefreshInv' /\ Persists
  BY <1>1, <1>2, <1>4, BesideStep DEF Persists, InFlight
<1>6. SoundAt("spill", loop[r], Current(r)) /\ "spill" \in Labels
  BY <1>2 DEF SoundAt, Outside, Asking, Chosen, Used, Failing, Labels
<1>7. \E label \in Labels, m \in LoopState : Moves(r, label, m)
  BY <1>1, <1>6, LabelMoves
<1>8. RestTyped'
  BY <1>1, InvMeans DEF RestTyped, shared
<1> QED
  BY <1>1, <1>5, <1>7, <1>8, MoveStep DEF ChatInv

LEMMA SpillStep ==
    ASSUME ChatInv, NEW r \in Requests, Spill(r)
    PROVE  ChatInv'
<1> DEFINE a == Current(r)
           o == loop[r]
           l == Exclude(o)
<1>1. /\ pc[r] = "spill" /\ loop' = [loop EXCEPT ![r] = l] /\ affinity' = ForgetSticky(o)
      /\ \/ /\ pc' = [pc EXCEPT ![r] = "result"]
            /\ \/ result' = [result EXCEPT ![r] = FailureResult(o.fail)]
               \/ result' = [result EXCEPT ![r] = Refusal(503, TRUE, FALSE)]
         \/ /\ a.pin = NoConn /\ ~OutOfBudget(o.attempted)
            /\ pc' = [pc EXCEPT ![r] = "pick"] /\ UNCHANGED result
      /\ UNCHANGED <<plan, combo, cancelled, stream, comboKeys, comboCounter, refreshVars>>
  BY Zenon DEF Spill, Goto, Return
<1>2. SoundAt("spill", o, a) /\ o \in LoopState /\ settings \in SettingsSet
  BY <1>1, InvMeans
<1>3. o.conn \in Conns /\ o.fail \in Errors /\ o.tried \subseteq o.exclude \cup {o.conn}
  BY <1>2 DEF SoundAt, Used, Failing
<1>4. RefreshInv' /\ Persists
  BY <1>1, RefreshKept DEF ChatInv
<1>5. l \in LoopState
  <2>1. o.exclude \cup {o.conn} \in SUBSET Conns
    BY <1>2, <1>3 DEF LoopState
  <2>2. l = [o EXCEPT !.exclude = o.exclude \cup {o.conn}, !.lastFail = o.fail]
    BY DEF Exclude
  <2> HIDE DEF o, l
  <2> QED
    BY <1>2, <1>3, <2>1, <2>2 DEF LoopState
<1>6. /\ l.exclude = o.exclude \cup {o.conn} /\ l.attempted = o.attempted /\ l.tried = o.tried
  <2> HIDE DEF o
  <2> QED
    BY <1>2 DEF LoopState, Exclude
<1>7. SoundAt("result", l, a) /\ "result" \in Labels
  <2> HIDE DEF l, o, a
  <2> QED
    BY <1>2, <1>3, <1>6 DEF SoundAt, Outside, Asking, Chosen, Used, Failing, Labels
<1>8. ASSUME a.pin = NoConn, ~OutOfBudget(o.attempted)
      PROVE  SoundAt("pick", l, a)
  <2>1. o.attempted \in Nat /\ settings.maxRetryCredentials \in Nat
    BY <1>2, ConstantsAssumption DEF LoopState, Settings
  <2>2. RoomLeft(o.attempted)
    BY <1>2, <1>8, <2>1 DEF OutOfBudget, RoomLeft
  <2> HIDE DEF l, o, a
  <2> QED
    BY <1>2, <1>3, <1>6, <1>8, <2>2 DEF SoundAt, Outside, Asking, Chosen, Used, Failing
<1>9. \E label \in Labels, m \in LoopState : Moves(r, label, m)
  <2> HIDE DEF l, a
  <2>1. CASE pc' = [pc EXCEPT ![r] = "result"]
    <3>1. Moves(r, "result", l)
      BY <1>1, <1>5, <1>7, <2>1 DEF Moves, a
    <3> QED
      BY <1>5, <1>7, <3>1
  <2>2. CASE a.pin = NoConn /\ ~OutOfBudget(o.attempted) /\ pc' = [pc EXCEPT ![r] = "pick"]
    <3>1. Moves(r, "pick", l) /\ "pick" \in Labels
      BY <1>1, <1>5, <1>8, <2>2 DEF Moves, Labels, a
    <3> QED
      BY <1>5, <3>1
  <2> QED
    BY <1>1, <2>1, <2>2
<1>10. RestTyped'
  <2>1. affinity' \in [AffinityKeys -> Conns \cup {NoConn}]
    BY <1>1, InvMeans DEF ForgetSticky, RestTyped
  <2>2. Refusal(503, TRUE, FALSE) \in ResultState /\ FailureResult(o.fail) \in ResultState
    <3>1. Refusal(503, TRUE, FALSE) \in ResultState
      BY DEF Refusal, ResultState
    <3>2. FailureResult(o.fail) \in ResultState
      BY <1>3, ResultsTyped, Zenon
    <3> QED
      BY <3>1, <3>2
  <2>3. \/ UNCHANGED result
        \/ \E res \in ResultState : result' = [result EXCEPT ![r] = res]
    BY <1>1, <2>2, ZenonT(30)
  <2>4. result' \in [Requests -> ResultState]
    BY <2>3, InvMeans
  <2> QED
    BY <1>1, <2>1, <2>4, InvMeans DEF RestTyped
<1> QED
  BY <1>1, <1>4, <1>9, <1>10, MoveStep DEF ChatInv

\* The request leaves its attempt, for the next model or for good; result and stream
\* keep their types, and only the places outside executeOnProvider follow.
LEMMA LeaveStep ==
    ASSUME ChatInv, NEW r \in Requests, pc[r] \in {"idle", "result", "pause"},
           NEW label \in {"model", "pause", "done"}, pc' = [pc EXCEPT ![r] = label],
           NEW state \in ComboState, combo' = [combo EXCEPT ![r] = state],
           NEW p \in Plans, plan' = [plan EXCEPT ![r] = p],
           label # "done" => p.attempts # <<>>,
           UNCHANGED <<loop, cancelled, affinity, refreshVars>>,
           result' \in [Requests -> ResultState],
           stream' \in [Requests -> {"none", "open", "handed", "closed"}],
           comboKeys' \subseteq Combos,
           comboCounter' \in [Combos -> (-CounterMax - 1)..CounterMax]
    PROVE  ChatInv'
<1>1. RefreshInv' /\ Persists /\ ChatTyped
  BY RefreshKept DEF ChatInv
<1>2. /\ pc' \in [Requests -> Labels] /\ combo' \in [Requests -> ComboState]
      /\ plan' \in [Requests -> Plans]
  BY <1>1 DEF ChatTyped, Labels
<1>3. ChatTyped'
  BY <1>1, <1>2 DEF ChatTyped
<1>4. pc'[r] = label /\ plan'[r] = p /\ label \in Outside
  BY <1>1 DEF ChatTyped, Outside
<1>5. SoundAt(pc'[r], loop'[r], Current(r)')
  BY <1>4, OutsideIsSound
<1>6. Sound(r)'
  <2>1. SoundAt(pc[r], loop[r], Current(r))'
    BY <1>5 DEF SoundAt, Within, RoomLeft
  <2> QED
    BY <1>4, <2>1 DEF Sound
<1>7. \A q \in Requests \ {r} : /\ pc'[q] = pc[q] /\ loop'[q] = loop[q]
                                /\ plan'[q] = plan[q] /\ combo'[q] = combo[q]
  BY <1>1 DEF ChatTyped
<1>8. \A q \in Requests : Sound(q)'
  BY <1>1, <1>6, <1>7, OthersStaySound
<1> QED
  BY <1>1, <1>3, <1>8 DEF ChatInv

\* Counting round n candidates from a counter that may have wrapped.
LEMMA OffsetRange ==
    ASSUME NEW counter \in (-CounterMax - 1)..CounterMax, NEW n \in Nat \ {0}
    PROVE  RotationOffset(counter, n) \in Nat
<1>1. counter \in Int /\ CounterMax \in Nat
  BY ConstantsAssumption
<1>2. CASE counter >= 0
  <2>1. counter % n \in 0..(n - 1)
    BY <1>1, <1>2, Remainder
  <2> QED
    BY <1>2, <2>1 DEF RotationOffset, GoRem
<1>3. CASE ~(counter >= 0)
  <2>1. -counter \in Nat
    BY <1>1, <1>3
  <2>2. (-counter) % n \in 0..(n - 1)
    BY <2>1, Remainder
  <2> QED
    BY <1>3, <2>2 DEF RotationOffset, GoRem
<1> QED
  BY <1>2, <1>3

LEMMA ArriveStep ==
    ASSUME ChatInv, NEW r \in Requests, Arrive(r)
    PROVE  ChatInv'
<1>1. PICK p \in Plans :
         LET rotates == /\ p.combo # NoCombo /\ settings.comboStrategy = "round-robin"
             turns   == rotates /\ Len(p.attempts) > 1
             offset  == IF turns THEN RotationOffset(comboCounter[p.combo], Len(p.attempts))
                                 ELSE 0
         IN /\ plan' = [plan EXCEPT ![r] = p]
            /\ combo' = [combo EXCEPT ![r] = [offset |-> offset, at |-> 0,
                                              rotates |-> rotates, lastStatus |-> 0]]
            /\ comboKeys' = IF turns THEN comboKeys \cup {p.combo} ELSE comboKeys
            /\ IF p.attempts = <<>>
               THEN Answer(r, Refusal(403, FALSE, FALSE))
               ELSE Goto(r, "model") /\ UNCHANGED result
  BY DEF Arrive
<1> DEFINE rotates == p.combo # NoCombo /\ settings.comboStrategy = "round-robin"
           turns   == rotates /\ Len(p.attempts) > 1
           offset  == IF turns THEN RotationOffset(comboCounter[p.combo], Len(p.attempts))
                               ELSE 0
           state   == [offset |-> offset, at |-> 0, rotates |-> rotates, lastStatus |-> 0]
<1>2. /\ p \in Plan /\ p.combo \in Combos \cup {NoCombo} /\ p.attempts \in Seq(Attempt)
      /\ Len(p.attempts) \in Nat
  BY ChatAssumption, LenProperties DEF Plan
<1>3. /\ comboCounter \in [Combos -> (-CounterMax - 1)..CounterMax]
      /\ comboKeys \subseteq Combos
  BY DEF ChatInv, ChatTyped
<1>4. offset \in Nat
  <2>1. ASSUME turns PROVE RotationOffset(comboCounter[p.combo], Len(p.attempts)) \in Nat
    <3>1. comboCounter[p.combo] \in (-CounterMax - 1)..CounterMax
      BY <1>2, <1>3, <2>1
    <3>2. Len(p.attempts) \in Nat \ {0}
      BY <1>2, <2>1
    <3> QED
      BY <3>1, <3>2, OffsetRange
  <2> QED
    BY <2>1
<1>5. state \in ComboState
  <2>1. rotates \in BOOLEAN
    OBVIOUS
  <2> HIDE DEF offset, rotates
  <2> QED
    BY <1>4, <2>1 DEF ComboState
<1>6. /\ plan' = [plan EXCEPT ![r] = p] /\ combo' = [combo EXCEPT ![r] = state]
      /\ comboKeys' \subseteq Combos
  BY <1>1, <1>2, <1>3, Zenon
<1>7. \/ pc' = [pc EXCEPT ![r] = "model"] /\ p.attempts # <<>> /\ UNCHANGED result
      \/ /\ pc' = [pc EXCEPT ![r] = "done"]
         /\ result' = [result EXCEPT ![r] = Refusal(403, FALSE, FALSE)]
  BY <1>1, Zenon DEF Answer, Goto
<1>8. result' \in [Requests -> ResultState]
  <2>1. Refusal(403, FALSE, FALSE) \in ResultState
    BY DEF Refusal, ResultState
  <2>2. result \in [Requests -> ResultState]
    BY InvMeans
  <2>3. UNCHANGED result \/ \E res \in ResultState : result' = [result EXCEPT ![r] = res]
    BY <1>7, <2>1, Zenon
  <2> QED
    BY <2>2, <2>3
<1>9. /\ pc[r] = "idle" /\ comboCounter' = comboCounter
      /\ UNCHANGED <<loop, cancelled, affinity, refreshVars>>
      /\ stream' \in [Requests -> {"none", "open", "handed", "closed"}]
  BY InvMeans DEF Arrive, RestTyped
<1> HIDE DEF state
<1>10. ASSUME NEW label \in {"model", "done"}, pc' = [pc EXCEPT ![r] = label],
              label = "model" => p.attempts # <<>>
       PROVE  ChatInv'
  BY <1>3, <1>5, <1>6, <1>8, <1>9, <1>10, LeaveStep
<1> QED
  BY <1>7, <1>10

LEMMA HandleResultStep ==
    ASSUME ChatInv, NEW r \in Requests, HandleResult(r)
    PROVE  ChatInv'
<1>1. /\ pc[r] = "result" /\ UNCHANGED <<plan, cancelled, loop, affinity, comboKeys, refreshVars>>
  BY DEF HandleResult
<1>2. /\ ChatTyped /\ plan[r] \in Plans /\ plan[r].attempts # <<>>
      /\ plan' = [plan EXCEPT ![r] = plan[r]] /\ result[r].status \in Nat
      /\ combo[r] \in ComboState
  BY <1>1 DEF ChatInv, Sound, ChatTyped, ResultState
<1> DEFINE next == [combo[r] EXCEPT !.at = @ + 1, !.lastStatus = result[r].status]
<1>3. next \in ComboState
  <2>1. combo[r].at + 1 \in Nat
    BY <1>2 DEF ComboState
  <2> QED
    BY <1>2, <2>1 DEF ComboState
<1>4. /\ \/ UNCHANGED result
         \/ result' = [result EXCEPT ![r] = Aborted]
      /\ UNCHANGED stream \/ stream' = [stream EXCEPT ![r] = "handed"]
      /\ UNCHANGED comboCounter \/ AdvanceComboRotation(r)
      /\ \/ UNCHANGED combo /\ pc' = [pc EXCEPT ![r] = "done"]
         \/ /\ combo' = [combo EXCEPT ![r] = next]
            /\ pc' = [pc EXCEPT ![r] = "pause"] \/ pc' = [pc EXCEPT ![r] = "model"]
  BY Zenon DEF HandleResult, Answer, Deliver, NextModel, Proceed, Goto
<1>5. result' \in [Requests -> ResultState]
  BY <1>4, ResultsTyped, InvMeans
<1>6. stream' \in [Requests -> {"none", "open", "handed", "closed"}]
  BY <1>2, <1>4 DEF ChatTyped
<1>7. comboCounter' \in [Combos -> (-CounterMax - 1)..CounterMax]
  <2>1. comboCounter \in [Combos -> (-CounterMax - 1)..CounterMax] /\ comboKeys \subseteq Combos
    BY <1>2 DEF ChatTyped
  <2>2. \A k \in Combos : Bump(comboCounter[k]) \in (-CounterMax - 1)..CounterMax
    BY <2>1, BumpRange
  <2>3. CASE AdvanceComboRotation(r) /\ plan[r].combo \in comboKeys
    <3>1. Bump(comboCounter[plan[r].combo]) \in (-CounterMax - 1)..CounterMax
      BY <2>1, <2>2, <2>3
    <3> QED
      BY <2>1, <2>3, <3>1 DEF AdvanceComboRotation
  <2>4. CASE AdvanceComboRotation(r) /\ plan[r].combo \notin comboKeys
    BY <2>1, <2>4 DEF AdvanceComboRotation
  <2> QED
    BY <1>4, <2>1, <2>3, <2>4
<1>8. comboKeys' \subseteq Combos
  BY <1>1, <1>2 DEF ChatTyped
<1>9. CASE combo' = combo /\ pc' = [pc EXCEPT ![r] = "done"]
  <2>1. combo' = [combo EXCEPT ![r] = combo[r]]
    BY <1>2, <1>9 DEF ChatTyped
  <2> QED
    BY <1>1, <1>2, <1>5, <1>6, <1>7, <1>8, <1>9, <2>1, LeaveStep
<1>10. CASE /\ combo' = [combo EXCEPT ![r] = next]
            /\ pc' = [pc EXCEPT ![r] = "pause"] \/ pc' = [pc EXCEPT ![r] = "model"]
  <2> HIDE DEF next
  <2> QED
    BY <1>1, <1>2, <1>3, <1>5, <1>6, <1>7, <1>8, <1>10, LeaveStep
<1> QED
  BY <1>4, <1>9, <1>10

LEMMA PauseStep ==
    ASSUME ChatInv, NEW r \in Requests, Pause(r)
    PROVE  ChatInv'
<1>1. /\ pc[r] = "pause"
      /\ UNCHANGED <<plan, combo, cancelled, loop, stream, affinity, comboKeys, comboCounter,
                     refreshVars>>
  BY DEF Pause, shared
<1>2. /\ plan[r] \in Plans /\ plan[r].attempts # <<>> /\ combo[r] \in ComboState
      /\ plan' = [plan EXCEPT ![r] = plan[r]] /\ combo' = [combo EXCEPT ![r] = combo[r]]
  BY <1>1 DEF ChatInv, Sound, ChatTyped
<1>3. /\ pc' = [pc EXCEPT ![r] = "done"] \/ pc' = [pc EXCEPT ![r] = "model"]
      /\ UNCHANGED result \/ result' = [result EXCEPT ![r] = Aborted]
  BY Zenon DEF Pause, Answer, Goto
<1>4. result' \in [Requests -> ResultState]
  BY <1>3, ResultsTyped, InvMeans
<1>5. RestTyped
  BY InvMeans
<1> QED
  BY <1>1, <1>2, <1>3, <1>4, <1>5, LeaveStep DEF RestTyped

-----------------------------------------------------------------------------
(* The steps of the surroundings. *)

\* What a waiting request has stays sound when it is woken.
LEMMA WokenIsSound ==
    ASSUME NEW o, NEW l, NEW a, NEW success \in BOOLEAN,
           NEW label \in {"renewing", "refreshing"}, SoundAt(label, o, a),
           l.conn = o.conn, l.exclude = o.exclude, l.fail = o.fail,
           l.attempted = o.attempted, l.tried = o.tried
    PROVE  /\ Woken(label, success) \in Labels \ {"idle", "renewing", "refreshing", "done"}
           /\ SoundAt(Woken(label, success), l, a)
<1>1. CASE label = "renewing"
  <2>1. Woken(label, success) \in {"renewed", "unrenewed"}
    BY <1>1 DEF Woken
  <2>2. \A k \in {"renewed", "unrenewed"} : SoundAt(k, l, a)
    BY <1>1 DEF SoundAt, Outside, Asking, Chosen, Used, Failing
  <2> QED
    BY <2>1, <2>2 DEF Labels
<1>2. CASE label = "refreshing"
  <2>1. Woken(label, success) \in {"retry", "unrefreshed"}
    BY <1>2 DEF Woken
  <2>2. \A k \in {"retry", "unrefreshed"} : SoundAt(k, l, a)
    BY <1>2 DEF SoundAt, Outside, Asking, Chosen, Used, Failing
  <2> QED
    BY <2>1, <2>2 DEF Labels
<1> QED
  BY <1>1, <1>2

\* All requests that wait for the renewal of c go on at once.
LEMMA ResumeStep ==
    ASSUME ChatInv, NEW c \in Conns, NEW success \in BOOLEAN,
           NEW creds \in Attrs \cup {NoCreds}, Resume(c, success, creds),
           UNCHANGED <<plan, combo>>, RefreshInv', RestTyped',
           \A d \in Conns \ {c} : InFlight(Selector, d) => flight'[Selector][d] # NoFlight
    PROVE  ChatInv'
<1>1. ChatTyped /\ pc \in [Requests -> Labels] /\ loop \in [Requests -> LoopState]
  BY DEF ChatInv, ChatTyped
<1>2. ASSUME NEW q \in Requests, q \in WaitingFor(c)
      PROVE  pc'[q] \in Labels /\ loop'[q] \in LoopState /\ Sound(q)'
  <2> DEFINE o == loop[q]
             l == loop'[q]
  <2>1. /\ pc[q] \in {"renewing", "refreshing"} /\ o \in LoopState
        /\ SoundAt(pc[q], o, Current(q)) /\ plan[q].attempts # <<>>
    BY <1>1, <1>2 DEF ChatInv, Sound, WaitingFor
  <2>2. pc'[q] = Woken(pc[q], success) /\ l \in {o, [o EXCEPT !.creds = creds]}
    BY <1>2 DEF Resume
  <2>3. /\ pc'[q] \in Labels \ {"idle", "renewing", "refreshing", "done"}
        /\ l \in LoopState /\ SoundAt(pc'[q], l, Current(q))
    <3> HIDE DEF o, l
    <3>1. l \in LoopState
      BY <2>1, <2>2 DEF LoopState
    <3>2. /\ l.conn = o.conn /\ l.exclude = o.exclude /\ l.fail = o.fail
          /\ l.attempted = o.attempted /\ l.tried = o.tried
      BY <2>1, <2>2 DEF LoopState
    <3>3. /\ Woken(pc[q], success) \in Labels \ {"idle", "renewing", "refreshing", "done"}
          /\ SoundAt(Woken(pc[q], success), l, Current(q))
      BY <2>1, <3>2, WokenIsSound, ZenonT(60)
    <3> QED
      BY <2>2, <3>1, <3>3
  <2>4. Current(q)' = Current(q) /\ plan'[q] = plan[q]
    BY DEF Current
  <2>5. SoundAt(pc[q], loop[q], Current(q))'
    BY <2>3, <2>4 DEF SoundAt, Within, RoomLeft
  <2>6. Sound(q)'
    BY <2>1, <2>3, <2>4, <2>5 DEF Sound
  <2> QED
    BY <2>3, <2>6
<1>3. ASSUME NEW q \in Requests, q \notin WaitingFor(c)
      PROVE  pc'[q] \in Labels /\ loop'[q] \in LoopState /\ Sound(q)'
  <2>1. pc'[q] = pc[q] /\ loop'[q] = loop[q] /\ Sound(q)
    BY <1>3 DEF Resume, ChatInv
  <2>2. Current(q)' = Current(q)
    BY DEF Current
  <2>3. SoundAt(pc[q], loop[q], Current(q))'
    BY <2>1, <2>2 DEF Sound, SoundAt, Within, RoomLeft
  <2>4. pc[q] \in {"renewing", "refreshing"} => flight'[Selector][loop[q].conn] # NoFlight
    <3> SUFFICES ASSUME pc[q] \in {"renewing", "refreshing"}
                 PROVE  flight'[Selector][loop[q].conn] # NoFlight
      OBVIOUS
    <3>1. /\ InFlight(Selector, loop[q].conn) /\ loop[q].conn \in Conns
          /\ loop[q].conn # c
      BY <1>3, <2>1 DEF Sound, SoundAt, Chosen, Used, Failing, WaitingFor
    <3> QED
      BY <3>1
  <2>5. Sound(q)'
    BY <2>1, <2>3, <2>4 DEF Sound, InFlight
  <2> QED
    BY <1>1, <2>1, <2>5
<1>4. \A q \in Requests : pc'[q] \in Labels /\ loop'[q] \in LoopState /\ Sound(q)'
  BY <1>2, <1>3
<1>5. pc' \in [Requests -> Labels] /\ loop' \in [Requests -> LoopState]
  <2>1. \A q \in Requests : pc'[q] \in Labels /\ loop'[q] \in LoopState
    BY <1>4
  <2>2. /\ pc' = [q \in Requests |-> pc'[q]] /\ loop' = [q \in Requests |-> loop'[q]]
    BY DEF Resume
  <2> QED
    BY <2>1, <2>2
<1>6. ChatTyped'
  BY <1>1, <1>5 DEF ChatTyped, RestTyped
<1> QED
  BY <1>4, <1>6 DEF ChatInv

LEMMA EndRefreshStep ==
    ASSUME ChatInv, NEW c \in Conns, EndRefresh(c)
    PROVE  ChatInv'
<1>1. RefreshInv /\ Selector \in Refreshers /\ FlightOK
  BY ChatAssumption DEF ChatInv, RefreshInv
<1>2. /\ \/ PersistRefresh(Selector, c) /\ UNCHANGED <<rotating, now>>
         \/ AbandonRefresh(Selector, c) /\ UNCHANGED selVars
      /\ UNCHANGED <<plan, combo, cancelled, result, stream, shared>>
  BY Zenon DEF EndRefresh
<1>3. RefreshInv'
  BY <1>1, <1>2, PersistStep, AbandonStep
<1>4. InFlight(Selector, c) /\ flight' = [flight EXCEPT ![Selector] = [@ EXCEPT ![c] = NoFlight]]
  BY <1>2 DEF PersistRefresh, AbandonRefresh
<1>5. \A d \in Conns \ {c} : InFlight(Selector, d) => flight'[Selector][d] # NoFlight
  BY <1>1, <1>4 DEF InFlight, FlightOK
<1>6. flight[Selector][c].attrs \in Attrs
  BY <1>1, <1>4 DEF InFlight, FlightOK, GoodRecords
<1>7. RestTyped'
  <2>1. ChatTyped
    BY DEF ChatInv
  <2> QED
    BY <1>2, <2>1 DEF shared, ChatTyped, RestTyped
<1>8. \/ Resume(c, TRUE, flight[Selector][c].attrs)
      \/ Resume(c, FALSE, NoCreds)
  BY Zenon DEF EndRefresh
<1>9. UNCHANGED <<plan, combo>>
  BY <1>2
<1> QED
  BY <1>3, <1>5, <1>6, <1>7, <1>8, <1>9, ResumeStep

\* No request moves, and every renewal that requests may wait for goes on.
LEMMA AsideStep ==
    ASSUME ChatInv, RefreshInv', Persists, UNCHANGED <<pc, plan, combo, loop>>, RestTyped'
    PROVE  ChatInv'
<1>1. ChatTyped'
  BY DEF ChatInv, ChatTyped, RestTyped
<1>2. \A q \in Requests : Sound(q)'
  BY StaysSound
<1> QED
  BY <1>1, <1>2 DEF ChatInv

LEMMA ClientStep ==
    ASSUME ChatInv, NEW r \in Requests, Cancel(r) \/ Close(r)
    PROVE  ChatInv'
<1>1. /\ UNCHANGED <<pc, plan, combo, loop, result, affinity, comboKeys, comboCounter, refreshVars>>
      /\ \/ cancelled' = [cancelled EXCEPT ![r] = TRUE] /\ UNCHANGED stream
         \/ stream' = [stream EXCEPT ![r] = "closed"] /\ UNCHANGED cancelled
  BY DEF Cancel, Close, shared
<1>2. RefreshInv' /\ Persists
  BY <1>1, RefreshKept DEF ChatInv
<1>3. RestTyped
  BY InvMeans
<1>4. RestTyped'
  BY <1>1, <1>3 DEF RestTyped
<1> QED
  BY <1>1, <1>2, <1>4, AsideStep

LEMMA ExpiryStep ==
    ASSUME ChatInv, NEW k \in AffinityKeys, ExpireAffinity(k)
    PROVE  ChatInv'
<1>1. /\ UNCHANGED <<pc, plan, combo, loop, result, cancelled, stream, comboKeys, comboCounter,
                     refreshVars>>
      /\ affinity' = [affinity EXCEPT ![k] = NoConn]
  BY DEF ExpireAffinity, request
<1>2. RefreshInv' /\ Persists
  BY <1>1, RefreshKept DEF ChatInv
<1>3. affinity \in [AffinityKeys -> Conns \cup {NoConn}] /\ ChatTyped
  BY DEF ChatInv, ChatTyped
<1>4. RestTyped'
  BY <1>1, <1>3 DEF ChatTyped, RestTyped
<1> QED
  BY <1>1, <1>2, <1>4, AsideStep

LEMMA ComboDeletedStep ==
    ASSUME ChatInv, NEW k \in Combos, ClearComboRotation(k)
    PROVE  ChatInv'
<1>1. /\ UNCHANGED <<pc, plan, combo, loop, result, cancelled, stream, affinity, refreshVars>>
      /\ comboKeys' = comboKeys \ {k} /\ comboCounter' = [comboCounter EXCEPT ![k] = 0]
  BY DEF ClearComboRotation, request
<1>2. RefreshInv' /\ Persists
  BY <1>1, RefreshKept DEF ChatInv
<1>3. ChatTyped /\ 0 \in (-CounterMax - 1)..CounterMax
  BY ConstantsAssumption DEF ChatInv
<1>4. RestTyped'
  BY <1>1, <1>3 DEF ChatTyped, RestTyped
<1> QED
  BY <1>1, <1>2, <1>4, AsideStep

\* Another service renews a token: the selector's own renewals go on.
LEMMA OtherRefresherStep ==
    ASSUME ChatInv, NEW i \in Refreshers \ {Selector}, Refresher(i), UNCHANGED chatVars
    PROVE  ChatInv'
<1>1. RefreshInv /\ FlightOK /\ Selector \in Refreshers
  BY ChatAssumption DEF ChatInv, RefreshInv
<1>2. RefreshInv'
  BY <1>1, RefresherStep
<1>3. flight'[Selector] = flight[Selector]
  BY <1>1 DEF Refresher, BeginRefresh, PersistRefresh, AbandonRefresh, FlightOK
<1>4. Persists
  BY <1>3 DEF Persists, InFlight
<1>5. UNCHANGED <<pc, plan, combo, loop>> /\ RestTyped'
  <2>1. ChatTyped
    BY DEF ChatInv
  <2> QED
    BY <2>1 DEF chatVars, request, shared, ChatTyped, RestTyped
<1> QED
  BY <1>2, <1>4, <1>5, AsideStep

LEMMA OperatorStep ==
    ASSUME ChatInv, Environment, UNCHANGED <<chatVars, flight>>
    PROVE  ChatInv'
<1>1. RefreshInv' /\ Persists
  BY BesideStep DEF ChatInv, SelNext, Persists, InFlight
<1>2. UNCHANGED <<pc, plan, combo, loop>> /\ RestTyped'
  <2>1. ChatTyped
    BY DEF ChatInv
  <2> QED
    BY <2>1 DEF chatVars, request, shared, ChatTyped, RestTyped
<1> QED
  BY <1>1, <1>2, AsideStep

LEMMA ChatInvInit == Init => ChatInv
<1> SUFFICES ASSUME Init PROVE ChatInv
  OBVIOUS
<1>1. RefreshInv
  BY RefreshInvInit DEF Init
<1>2. (CHOOSE p \in Plans : TRUE) \in Plans
  BY ChatAssumption
<1>3. FreshLoop \in LoopState
  BY DEF FreshLoop, LoopState
<1>4. Refusal(0, FALSE, FALSE) \in ResultState
  BY DEF Refusal, ResultState
<1>5. 0 \in (-CounterMax - 1)..CounterMax
  BY ConstantsAssumption
<1>6. [offset |-> 0, at |-> 0, rotates |-> FALSE, lastStatus |-> 0] \in ComboState
  BY DEF ComboState
<1>7. ChatTyped
  <2>1. pc \in [Requests -> Labels] /\ plan \in [Requests -> Plans]
    BY <1>2 DEF Init, Labels
  <2>2. /\ cancelled \in [Requests -> BOOLEAN] /\ combo \in [Requests -> ComboState]
        /\ loop \in [Requests -> LoopState] /\ result \in [Requests -> ResultState]
    BY <1>3, <1>4, <1>6 DEF Init
  <2>3. /\ stream \in [Requests -> {"none", "open", "handed", "closed"}]
        /\ affinity \in [AffinityKeys -> Conns \cup {NoConn}]
        /\ comboKeys \subseteq Combos /\ comboCounter \in [Combos -> (-CounterMax - 1)..CounterMax]
    BY <1>5 DEF Init
  <2> QED
    BY <2>1, <2>2, <2>3 DEF ChatTyped
<1>8. ASSUME NEW r \in Requests PROVE Sound(r)
  <2>1. pc[r] = "idle" /\ "idle" \in Outside
    BY DEF Init, Outside
  <2>2. SoundAt(pc[r], loop[r], Current(r))
    BY <2>1, OutsideIsSound
  <2> QED
    BY <2>1, <2>2 DEF Sound
<1> QED
  BY <1>1, <1>7, <1>8 DEF ChatInv

LEMMA ServeStep ==
    ASSUME ChatInv, NEW r \in Requests, Serve(r)
    PROVE  ChatInv'
BY ArriveStep, StartModelStep, PickStep, SelectStep, SelectFailsStep, UnstickStep,
   ExecuteStep, RenewStep, RenewedStep, ClearStep, AdvanceStep, BindStep, MarkFailedStep,
   SpillStep, HandleResultStep, PauseStep DEF Serve

LEMMA ChatInvStep == ChatInv /\ [Next]_vars => ChatInv'
<1> SUFFICES ASSUME ChatInv, [Next]_vars PROVE ChatInv'
  OBVIOUS
<1>1. CASE \E r \in Requests : Serve(r) \/ Cancel(r) \/ Close(r)
  BY <1>1, ServeStep, ClientStep
<1>2. CASE \E k \in AffinityKeys : ExpireAffinity(k)
  BY <1>2, ExpiryStep
<1>3. CASE \E k \in Combos : ClearComboRotation(k)
  BY <1>3, ComboDeletedStep
<1>4. CASE \E c \in Conns : EndRefresh(c)
  BY <1>4, EndRefreshStep
<1>5. CASE \E i \in Refreshers \ {Selector} : Refresher(i) /\ UNCHANGED chatVars
  BY <1>5, OtherRefresherStep
<1>6. CASE Environment /\ UNCHANGED <<chatVars, flight>>
  BY <1>6, OperatorStep
<1>7. CASE UNCHANGED vars
  <2>1. RefreshInv' /\ Persists
    BY <1>7, RefreshKept DEF ChatInv, vars
  <2>2. ChatTyped
    BY DEF ChatInv
  <2>3. UNCHANGED <<pc, plan, combo, loop>> /\ RestTyped'
    BY <1>7, <2>2 DEF vars, chatVars, request, shared, ChatTyped, RestTyped
  <2> QED
    BY <2>1, <2>3, AsideStep
<1> QED
  BY <1>1, <1>2, <1>3, <1>4, <1>5, <1>6, <1>7 DEF Next

-----------------------------------------------------------------------------
(* Answers: what sessions are bound to, and how far combos have rotated. *)

\* The places between an upstream's answer and the result it gives.
Answered == {"clear", "advance", "bind"}

\* The requests that client saw an answer of combo k to, in its turn.
Turns(k) == {r \in Requests :
                plan[r].combo = k /\ combo[r].rotates /\ stream[r] \in {"handed", "closed"}}

\* Request r has answered a request of session k with connection c, and is past
\* every step that could change what it remembers of it.
Witness(r, k, c) ==
    /\ stream[r] # "none" /\ loop[r].key = k /\ loop[r].conn = c
    /\ pc[r] = "done" \/ (pc[r] = "result" /\ result[r].ok)

AnswerInv ==
    /\ \A r \in Requests : /\ pc[r] \in Answered => stream[r] # "none"
                           /\ pc[r] # "done" => stream[r] \notin {"handed", "closed"}
    /\ \A k \in AffinityKeys : affinity[k] # NoConn =>
          \E r \in Requests : Witness(r, k, affinity[k])
    /\ \A k \in Combos : comboCounter[k] <= Cardinality(Turns(k))

\* A step of r between its arrival and its result, an upstream's answer aside.
Quiet(r) ==
    /\ pc[r] \notin {"idle", "result", "done"}
    /\ pc'[r] \in Answered => pc[r] \in Answered
    /\ \A q \in Requests \ {r} : /\ pc'[q] = pc[q] /\ loop'[q] = loop[q]
                                 /\ result'[q] = result[q]
    /\ \A k \in AffinityKeys : affinity'[k] \in {affinity[k], NoConn}
    /\ UNCHANGED <<plan, combo, stream, comboCounter>>

\* Only the request itself changes its place, its locals and its result.
Own(r) ==
    /\ \E label : pc' = [pc EXCEPT ![r] = label] /\ (label \in Answered => pc[r] \in Answered)
    /\ UNCHANGED loop \/ \E l : loop' = [loop EXCEPT ![r] = l]
    /\ UNCHANGED result \/ \E res : result' = [result EXCEPT ![r] = res]

LEMMA OwnIsQuiet ==
    ASSUME ChatInv, NEW r \in Requests, Own(r), pc[r] \notin {"idle", "result", "done"},
           UNCHANGED affinity \/ \E k : affinity' = [affinity EXCEPT ![k] = NoConn],
           UNCHANGED <<plan, combo, stream, comboCounter>>
    PROVE  Quiet(r)
<1>1. /\ pc \in [Requests -> Labels] /\ loop \in [Requests -> LoopState]
      /\ result \in [Requests -> ResultState] /\ affinity \in [AffinityKeys -> Conns \cup {NoConn}]
  BY DEF ChatInv, ChatTyped
<1>2. /\ pc'[r] \in Answered => pc[r] \in Answered
      /\ \A q \in Requests \ {r} : pc'[q] = pc[q]
  BY <1>1 DEF Own
<1>3. \A q \in Requests \ {r} : loop'[q] = loop[q] /\ result'[q] = result[q]
  BY <1>1 DEF Own
<1>4. \A k \in AffinityKeys : affinity'[k] \in {affinity[k], NoConn}
  BY <1>1
<1> QED
  BY <1>2, <1>3, <1>4 DEF Quiet

LEMMA QuietSteps ==
    ASSUME ChatInv, NEW r \in Requests,
           \/ StartModel(r) \/ Pick(r) \/ Select(r) \/ SelectFails(r) \/ Unstick(r)
           \/ Renew(r) \/ Renewed(r) \/ Clear(r) \/ Advance(r) \/ Mark(r) \/ Spill(r)
           \/ Pause(r)
    PROVE  Quiet(r)
<1>1. CASE StartModel(r)
  <2>1. Own(r)
    <3>1. \E label \in {"done", "result", "pick"} : pc' = [pc EXCEPT ![r] = label]
      BY <1>1, Zenon DEF StartModel, Answer, Return, Goto
    <3>2. UNCHANGED loop \/ \E l : loop' = [loop EXCEPT ![r] = l]
      BY <1>1, Zenon DEF StartModel
    <3>3. UNCHANGED result \/ \E res : result' = [result EXCEPT ![r] = res]
      BY <1>1, Zenon DEF StartModel, Answer, Return
    <3> QED
      BY <3>1, <3>2, <3>3 DEF Own, Answered
  <2> QED
    BY <1>1, <2>1, OwnIsQuiet DEF StartModel, shared
<1>2. CASE Pick(r)
  <2>1. Own(r)
    BY <1>2, Zenon DEF Pick, Own, Answer, Return, Goto, Answered
  <2> QED
    BY <1>2, <2>1, OwnIsQuiet DEF Pick, shared
<1>3. CASE Select(r)
  <2>1. Own(r)
    <3>1. \E label \in {"renew", "result", "execute"} : pc' = [pc EXCEPT ![r] = label]
      BY <1>3, Zenon DEF Select, Serves, Return, Goto
    <3>2. UNCHANGED loop \/ \E l : loop' = [loop EXCEPT ![r] = l]
      BY <1>3, Zenon DEF Select, Serves
    <3>3. UNCHANGED result \/ \E res : result' = [result EXCEPT ![r] = res]
      BY <1>3, ZenonT(30) DEF Select, Serves, Return
    <3> QED
      BY <3>1, <3>2, <3>3 DEF Own, Answered
  <2> QED
    BY <1>3, <2>1, OwnIsQuiet DEF Select, shared
<1>4. CASE SelectFails(r)
  <2>1. Own(r)
    BY <1>4, Zenon DEF SelectFails, NoCredentials, Own, Return, Goto, Answered
  <2> QED
    BY <1>4, <2>1, OwnIsQuiet DEF SelectFails, shared
<1>5. CASE Unstick(r)
  <2>1. Own(r)
    <3>1. /\ pc' = [pc EXCEPT ![r] = "pick"] /\ UNCHANGED result
          /\ \E l : loop' = [loop EXCEPT ![r] = l]
      BY <1>5, Zenon DEF Unstick, Goto
    <3>2. "pick" \notin Answered
      BY DEF Answered
    <3> QED
      BY <3>1, <3>2, Zenon DEF Own
  <2> QED
    BY <1>5, <2>1, OwnIsQuiet DEF Unstick
<1>6. CASE Renew(r)
  <2>1. Own(r)
    <3>1. \E label \in {"renewing", "refreshing", "retry", "mark", "result"} :
             pc' = [pc EXCEPT ![r] = label]
      BY <1>6, Zenon DEF Renew, JoinRefresh, Judge, Return, Goto
    <3>2. UNCHANGED loop \/ \E l : loop' = [loop EXCEPT ![r] = l]
      BY <1>6, Zenon DEF Renew, Judge
    <3>3. UNCHANGED result \/ \E res : result' = [result EXCEPT ![r] = res]
      BY <1>6, Zenon DEF Renew, Judge, Return
    <3> QED
      BY <3>1, <3>2, <3>3 DEF Own, Answered
  <2> QED
    BY <1>6, <2>1, OwnIsQuiet DEF Renew, shared
<1>7. CASE Renewed(r)
  <2>1. Own(r)
    <3>1. \E label \in {"execute", "unstick", "mark", "result"} : pc' = [pc EXCEPT ![r] = label]
      BY <1>7, ZenonT(30) DEF Renewed, Serves, NoCredentials, Judge, Return, Goto
    <3>2. UNCHANGED loop \/ \E l : loop' = [loop EXCEPT ![r] = l]
      BY <1>7, Zenon DEF Renewed, Serves, Judge
    <3>3. UNCHANGED result \/ \E res : result' = [result EXCEPT ![r] = res]
      BY <1>7, ZenonT(30) DEF Renewed, Serves, NoCredentials, Judge, Return
    <3> QED
      BY <3>1, <3>2, <3>3 DEF Own, Answered
  <2> QED
    BY <1>7, <2>1, OwnIsQuiet DEF Renewed, shared
<1>8. CASE Clear(r)
  <2>1. Own(r)
    BY <1>8, Zenon DEF Clear, Own, Goto, Answered
  <2> QED
    BY <1>8, <2>1, OwnIsQuiet DEF Clear, shared
<1>9. CASE Advance(r)
  <2>1. Own(r)
    BY <1>9, Zenon DEF Advance, Own, Return, Goto, Answered
  <2> QED
    BY <1>9, <2>1, OwnIsQuiet DEF Advance, shared
<1>10. CASE Mark(r)
  <2>1. Own(r)
    <3>1. pc' = [pc EXCEPT ![r] = "spill"] /\ UNCHANGED <<loop, result>>
      BY <1>10, Zenon DEF Mark, Goto
    <3>2. "spill" \notin Answered
      BY DEF Answered
    <3> QED
      BY <3>1, <3>2, Zenon DEF Own
  <2> QED
    BY <1>10, <2>1, OwnIsQuiet DEF Mark, shared
<1>11. CASE Spill(r)
  <2>1. Own(r)
    <3>1. \E label \in {"pick", "result"} : pc' = [pc EXCEPT ![r] = label]
      BY <1>11, ZenonT(30) DEF Spill, Return, Goto
    <3>2. \E l : loop' = [loop EXCEPT ![r] = l]
      BY <1>11, Zenon DEF Spill
    <3>3. UNCHANGED result \/ \E res : result' = [result EXCEPT ![r] = res]
      BY <1>11, ZenonT(30) DEF Spill, Return
    <3> QED
      BY <3>1, <3>2, <3>3 DEF Own, Answered
  <2>2. UNCHANGED affinity \/ \E k : affinity' = [affinity EXCEPT ![k] = NoConn]
    BY <1>11, Zenon DEF Spill, ForgetSticky
  <2> QED
    BY <1>11, <2>1, <2>2, OwnIsQuiet DEF Spill
<1>12. CASE Pause(r)
  <2>1. Own(r)
    BY <1>12, Zenon DEF Pause, Answer, Own, Goto, Answered
  <2> QED
    BY <1>12, <2>1, OwnIsQuiet DEF Pause, shared
<1> QED
  BY <1>1, <1>2, <1>3, <1>4, <1>5, <1>6, <1>7, <1>8, <1>9, <1>10, <1>11, <1>12

\* Witnesses that stay where they are, or are told they are answered, remain.
LEMMA QuietAnswers ==
    ASSUME ChatInv, AnswerInv, NEW r \in Requests, Quiet(r)
    PROVE  AnswerInv'
<1>1. \A q \in Requests : /\ pc'[q] \in Answered => stream'[q] # "none"
                          /\ pc'[q] # "done" => stream'[q] \notin {"handed", "closed"}
  BY DEF AnswerInv, Quiet, Answered
<1>2. ASSUME NEW k \in AffinityKeys, affinity'[k] # NoConn
      PROVE  \E q \in Requests : Witness(q, k, affinity[k])'
  <2>1. affinity'[k] = affinity[k]
    BY <1>2 DEF Quiet
  <2>2. PICK q \in Requests : Witness(q, k, affinity[k])
    BY <1>2, <2>1 DEF AnswerInv
  <2>3. q # r
    BY <2>2 DEF Witness, Quiet
  <2> QED
    BY <2>1, <2>2, <2>3 DEF Witness, Quiet
<1>3. \A k \in Combos : comboCounter'[k] <= Cardinality(Turns(k)')
  BY DEF AnswerInv, Quiet, Turns
<1> QED
  BY <1>1, <1>2, <1>3 DEF AnswerInv

\* Witnesses for unchanged bindings, from witnesses that are left alone.
LEMMA BindingsKept ==
    ASSUME AnswerInv, UNCHANGED affinity,
           \A q \in Requests, k \in AffinityKeys, c \in Conns :
               Witness(q, k, c) => Witness(q, k, c)',
           affinity \in [AffinityKeys -> Conns \cup {NoConn}]
    PROVE  \A k \in AffinityKeys : affinity'[k] # NoConn =>
               \E q \in Requests : Witness(q, k, affinity[k])'
<1> SUFFICES ASSUME NEW k \in AffinityKeys, affinity'[k] # NoConn
             PROVE  \E q \in Requests : Witness(q, k, affinity[k])'
  OBVIOUS
<1>1. affinity[k] \in Conns /\ affinity'[k] = affinity[k]
  OBVIOUS
<1>2. PICK q \in Requests : Witness(q, k, affinity[k])
  BY <1>1 DEF AnswerInv
<1>3. stream'[q] # "none" /\ loop'[q].key = k /\ loop'[q].conn = affinity[k]
      /\ (pc'[q] = "done" \/ (pc'[q] = "result" /\ result'[q].ok))
  BY <1>1, <1>2 DEF Witness
<1> QED
  BY <1>1, <1>3 DEF Witness

LEMMA AnswersTyped ==
    ASSUME ChatInv
    PROVE  /\ pc \in [Requests -> Labels] /\ loop \in [Requests -> LoopState]
           /\ result \in [Requests -> ResultState] /\ combo \in [Requests -> ComboState]
           /\ plan \in [Requests -> Plans]
           /\ stream \in [Requests -> {"none", "open", "handed", "closed"}]
           /\ affinity \in [AffinityKeys -> Conns \cup {NoConn}]
           /\ comboKeys \subseteq Combos
           /\ comboCounter \in [Combos -> (-CounterMax - 1)..CounterMax]
BY DEF ChatInv, ChatTyped

LEMMA ExecuteAnswers ==
    ASSUME ChatInv, AnswerInv, NEW r \in Requests, Execute(r)
    PROVE  AnswerInv'
<1>1. pc[r] \in {"execute", "retry"} /\ UNCHANGED <<plan, combo, shared>>
  BY DEF Execute
<1>2. /\ \E label \in {"clear", "result", "refresh", "mark"} :
            /\ pc' = [pc EXCEPT ![r] = label]
            /\ \/ stream' = [stream EXCEPT ![r] = "open"]
               \/ UNCHANGED stream /\ label # "clear"
      /\ UNCHANGED loop \/ \E l : loop' = [loop EXCEPT ![r] = l]
      /\ UNCHANGED result \/ \E res : result' = [result EXCEPT ![r] = res]
  <2>1. \/ pc' = [pc EXCEPT ![r] = "clear"] /\ stream' = [stream EXCEPT ![r] = "open"]
        \/ pc' = [pc EXCEPT ![r] = "result"] /\ UNCHANGED stream
        \/ pc' = [pc EXCEPT ![r] = "refresh"] /\ UNCHANGED stream
        \/ pc' = [pc EXCEPT ![r] = "mark"] /\ UNCHANGED stream
    BY Zenon DEF Execute, Judge, Return, Goto
  <2>2. UNCHANGED loop \/ \E l : loop' = [loop EXCEPT ![r] = l]
    BY Zenon DEF Execute, Judge
  <2>3. UNCHANGED result \/ \E res : result' = [result EXCEPT ![r] = res]
    BY Zenon DEF Execute, Judge, Return
  <2> QED
    BY <2>1, <2>2, <2>3
<1>3. \A q \in Requests \ {r} : /\ pc'[q] = pc[q] /\ loop'[q] = loop[q]
                                /\ result'[q] = result[q] /\ stream'[q] = stream[q]
  BY <1>2, AnswersTyped
<1>4. /\ pc'[r] \in Answered => stream'[r] # "none"
      /\ stream[r] \notin {"handed", "closed"} /\ stream'[r] \notin {"handed", "closed"}
  BY <1>1, <1>2, AnswersTyped DEF AnswerInv, Answered
<1>5. \A q \in Requests : /\ pc'[q] \in Answered => stream'[q] # "none"
                          /\ pc'[q] # "done" => stream'[q] \notin {"handed", "closed"}
  BY <1>3, <1>4 DEF AnswerInv
<1>6. \A q \in Requests, k \in AffinityKeys, c \in Conns : Witness(q, k, c) => Witness(q, k, c)'
  BY <1>1, <1>3 DEF Witness
<1>7. \A k \in Combos : Turns(k)' = Turns(k)
  BY <1>1, <1>3, <1>4 DEF Turns
<1>8. UNCHANGED <<affinity, comboCounter>>
  BY <1>1 DEF shared
<1>9. \A k \in AffinityKeys : affinity'[k] # NoConn =>
          \E q \in Requests : Witness(q, k, affinity[k])'
  BY <1>6, <1>8, AnswersTyped, BindingsKept
<1> QED
  BY <1>5, <1>7, <1>8, <1>9 DEF AnswerInv

LEMMA BindAnswers ==
    ASSUME ChatInv, AnswerInv, NEW r \in Requests, Bind(r)
    PROVE  AnswerInv'
<1>1. /\ pc[r] = "bind" /\ pc' = [pc EXCEPT ![r] = "result"]
      /\ result' = [result EXCEPT ![r] = Success]
      /\ affinity' = [affinity EXCEPT ![loop[r].key] = loop[r].conn]
      /\ UNCHANGED <<plan, combo, loop, stream, comboCounter>>
  BY DEF Bind, Return, Goto
<1>2. pc'[r] = "result" /\ result'[r].ok /\ stream[r] # "none"
  BY <1>1, AnswersTyped DEF AnswerInv, Answered, Success
<1>3. \A q \in Requests \ {r} : pc'[q] = pc[q] /\ result'[q] = result[q]
  BY <1>1, AnswersTyped
<1>4. \A q \in Requests : /\ pc'[q] \in Answered => stream'[q] # "none"
                          /\ pc'[q] # "done" => stream'[q] \notin {"handed", "closed"}
  BY <1>1, <1>2, <1>3 DEF AnswerInv
<1>5. ASSUME NEW k \in AffinityKeys, affinity'[k] # NoConn
      PROVE  \E q \in Requests : Witness(q, k, affinity[k])'
  <2>1. CASE k = loop[r].key
    <3>1. affinity'[k] = loop[r].conn
      BY <1>1, <2>1, AnswersTyped
    <3>2. Witness(r, k, affinity[k])'
      BY <1>1, <1>2, <2>1, <3>1 DEF Witness
    <3> QED
      BY <3>2
  <2>2. CASE k # loop[r].key
    <3>1. affinity'[k] = affinity[k]
      BY <1>1, <2>2, AnswersTyped
    <3>2. PICK q \in Requests : Witness(q, k, affinity[k])
      BY <1>5, <3>1 DEF AnswerInv
    <3>3. q # r
      BY <1>1, <3>2 DEF Witness
    <3>4. Witness(q, k, affinity[k])'
      BY <1>1, <1>3, <3>1, <3>2, <3>3 DEF Witness
    <3> QED
      BY <3>4
  <2> QED
    BY <2>1, <2>2
<1>6. \A k \in Combos : Turns(k)' = Turns(k)
  BY <1>1 DEF Turns
<1> QED
  BY <1>1, <1>4, <1>5, <1>6 DEF AnswerInv

LEMMA ArriveAnswers ==
    ASSUME ChatInv, AnswerInv, NEW r \in Requests, Arrive(r)
    PROVE  AnswerInv'
<1>1. pc[r] = "idle" /\ UNCHANGED <<loop, stream, affinity, comboCounter>>
  BY DEF Arrive
<1>2. /\ pc' = [pc EXCEPT ![r] = "done"] \/ pc' = [pc EXCEPT ![r] = "model"]
      /\ UNCHANGED result \/ \E res : result' = [result EXCEPT ![r] = res]
      /\ \E p : plan' = [plan EXCEPT ![r] = p]
      /\ \E state : combo' = [combo EXCEPT ![r] = state]
  <2>1. pc' = [pc EXCEPT ![r] = "done"] \/ pc' = [pc EXCEPT ![r] = "model"]
    BY Zenon DEF Arrive, Answer, Goto
  <2>2. UNCHANGED result \/ \E res : result' = [result EXCEPT ![r] = res]
    BY Zenon DEF Arrive, Answer
  <2>3. \E p : plan' = [plan EXCEPT ![r] = p]
    BY Zenon DEF Arrive
  <2>4. \E state : combo' = [combo EXCEPT ![r] = state]
    BY Zenon DEF Arrive
  <2> QED
    BY <2>1, <2>2, <2>3, <2>4
<1>3. \A q \in Requests \ {r} : /\ pc'[q] = pc[q] /\ result'[q] = result[q]
                                /\ plan'[q] = plan[q] /\ combo'[q] = combo[q]
  BY <1>2, AnswersTyped
<1>4. pc'[r] \notin Answered /\ stream[r] \notin {"handed", "closed"}
  BY <1>1, <1>2, AnswersTyped DEF AnswerInv, Answered
<1>5. \A q \in Requests : /\ pc'[q] \in Answered => stream'[q] # "none"
                          /\ pc'[q] # "done" => stream'[q] \notin {"handed", "closed"}
  BY <1>1, <1>3, <1>4 DEF AnswerInv
<1>6. \A q \in Requests, k \in AffinityKeys, c \in Conns : Witness(q, k, c) => Witness(q, k, c)'
  BY <1>1, <1>3 DEF Witness
<1>7. \A k \in Combos : Turns(k)' = Turns(k)
  BY <1>1, <1>3, <1>4 DEF Turns
<1>8. \A k \in AffinityKeys : affinity'[k] # NoConn =>
          \E q \in Requests : Witness(q, k, affinity[k])'
  BY <1>1, <1>6, AnswersTyped, BindingsKept
<1> QED
  BY <1>1, <1>5, <1>7, <1>8 DEF AnswerInv

\* A success is delivered in its combo's turn; every other end of a result counts nothing.
LEMMA HandleResultAnswers ==
    ASSUME ChatInv, AnswerInv, NEW r \in Requests, HandleResult(r)
    PROVE  AnswerInv'
<1>1. pc[r] = "result" /\ UNCHANGED <<plan, loop, affinity>>
  BY DEF HandleResult
<1>2. \/ /\ pc' = [pc EXCEPT ![r] = "done"] /\ UNCHANGED <<combo, stream, comboCounter>>
      \/ /\ pc' = [pc EXCEPT ![r] = "done"] /\ stream' = [stream EXCEPT ![r] = "handed"]
         /\ AdvanceComboRotation(r) /\ UNCHANGED combo
      \/ /\ ~result[r].ok /\ UNCHANGED <<stream, comboCounter>>
         /\ pc' = [pc EXCEPT ![r] = "pause"] \/ pc' = [pc EXCEPT ![r] = "model"]
         /\ \E state : combo' = [combo EXCEPT ![r] = state]
  BY Zenon DEF HandleResult, Answer, Deliver, NextModel, Proceed, Goto
<1>3. \/ UNCHANGED result
      \/ pc' = [pc EXCEPT ![r] = "done"] /\ result' = [result EXCEPT ![r] = Aborted]
  BY Zenon DEF HandleResult, Answer, Deliver, NextModel, Proceed, Goto
<1>4. \A q \in Requests \ {r} : /\ pc'[q] = pc[q] /\ result'[q] = result[q]
                                /\ stream'[q] = stream[q] /\ combo'[q] = combo[q]
  BY <1>2, <1>3, AnswersTyped
<1>5. /\ pc'[r] \notin Answered /\ stream[r] \notin {"handed", "closed"}
      /\ pc'[r] # "done" => stream'[r] = stream[r] /\ ~result[r].ok
      /\ stream[r] # "none" => stream'[r] # "none"
  BY <1>1, <1>2, AnswersTyped DEF AnswerInv, Answered
<1>6. \A q \in Requests : /\ pc'[q] \in Answered => stream'[q] # "none"
                          /\ pc'[q] # "done" => stream'[q] \notin {"handed", "closed"}
  BY <1>4, <1>5 DEF AnswerInv
<1>7. ASSUME NEW q \in Requests, NEW k \in AffinityKeys, NEW c \in Conns, Witness(q, k, c)
      PROVE  Witness(q, k, c)'
  <2>1. CASE q = r
    <3>1. pc'[r] = "done"
      BY <1>1, <1>5, <1>7, <2>1 DEF Witness
    <3> QED
      BY <1>1, <1>5, <1>7, <2>1, <3>1 DEF Witness
  <2>2. CASE q # r
    BY <1>1, <1>4, <1>7, <2>2 DEF Witness
  <2> QED
    BY <2>1, <2>2
<1>8. \A k \in AffinityKeys : affinity'[k] # NoConn =>
          \E q \in Requests : Witness(q, k, affinity[k])'
  BY <1>1, <1>7, AnswersTyped, BindingsKept
<1>9. ASSUME NEW k \in Combos
      PROVE  comboCounter'[k] <= Cardinality(Turns(k)')
  <2>1. /\ IsFiniteSet(Turns(k)) /\ r \notin Turns(k) /\ comboCounter[k] \in Int
        /\ comboCounter[k] <= Cardinality(Turns(k))
    <3>1. Turns(k) \subseteq Requests /\ IsFiniteSet(Requests)
      BY ChatAssumption DEF Turns
    <3>2. IsFiniteSet(Turns(k))
      BY <3>1, FS_Subset
    <3>3. r \notin Turns(k)
      BY <1>5 DEF Turns
    <3>4. comboCounter[k] \in Int
      BY AnswersTyped, ConstantsAssumption
    <3> QED
      BY <3>2, <3>3, <3>4 DEF AnswerInv
  <2>2. Cardinality(Turns(k)) \in Nat /\ Cardinality(Turns(k) \cup {r}) = Cardinality(Turns(k)) + 1
    BY <2>1, FS_AddElement, FS_CardinalityType
  <2>3. Turns(k) \subseteq Turns(k)' /\ Turns(k)' \subseteq Turns(k) \cup {r}
    BY <1>1, <1>4, <1>5 DEF Turns
  <2>4. CASE UNCHANGED comboCounter
    <3>1. CASE r \in Turns(k)'
      <4>1. Turns(k)' = Turns(k) \cup {r}
        BY <2>3, <3>1
      <4> QED
        BY <2>1, <2>2, <2>4, <4>1
    <3>2. CASE r \notin Turns(k)'
      <4>1. Turns(k)' = Turns(k)
        BY <2>3, <3>2
      <4> QED
        BY <2>1, <2>4, <4>1
    <3> QED
      BY <3>1, <3>2
  <2>5. CASE /\ stream' = [stream EXCEPT ![r] = "handed"] /\ UNCHANGED combo
             /\ combo[r].rotates /\ plan[r].combo = k
             /\ comboCounter' = [comboCounter EXCEPT ![k] = Bump(@)]
    <3>1. stream'[r] = "handed" /\ comboCounter'[k] = Bump(comboCounter[k])
      BY <2>5, AnswersTyped
    <3>2. Turns(k)' = Turns(k) \cup {r}
      BY <1>1, <2>3, <2>5, <3>1 DEF Turns
    <3>3. comboCounter[k] \in (-CounterMax - 1)..CounterMax /\ CounterMax \in Nat
      BY AnswersTyped, ConstantsAssumption
    <3>4. Bump(comboCounter[k]) <= comboCounter[k] + 1
      BY <3>3 DEF Bump
    <3>5. Bump(comboCounter[k]) \in Int
      BY <3>3 DEF Bump
    <3> QED
      BY <2>1, <2>2, <3>1, <3>2, <3>4, <3>5
  <2>6. CASE comboCounter' = [comboCounter EXCEPT ![plan[r].combo] = Bump(@)] /\ plan[r].combo # k
    <3>1. comboCounter'[k] = comboCounter[k]
      BY <2>6, AnswersTyped
    <3>2. r \notin Turns(k)'
      BY <1>1, <2>6 DEF Turns
    <3>3. Turns(k)' = Turns(k)
      BY <2>3, <3>2
    <3> QED
      BY <2>1, <3>1, <3>3
  <2> QED
    BY <1>2, <2>4, <2>5, <2>6, Zenon DEF AdvanceComboRotation
<1> QED
  BY <1>6, <1>8, <1>9 DEF AnswerInv

\* Waking the requests that wait for a renewal answers none of them.
LEMMA EndRefreshAnswers ==
    ASSUME ChatInv, AnswerInv, NEW c \in Conns, EndRefresh(c)
    PROVE  AnswerInv'
<1>1. UNCHANGED <<plan, combo, result, stream, affinity, comboCounter>>
  BY DEF EndRefresh, shared
<1>2. \E success \in BOOLEAN : \E creds : Resume(c, success, creds)
  BY Zenon DEF EndRefresh
<1>3. \A q \in Requests :
         \/ pc'[q] = pc[q] /\ loop'[q] = loop[q]
         \/ pc[q] \in {"renewing", "refreshing"}
            /\ pc'[q] \in {"renewed", "unrenewed", "retry", "unrefreshed"}
  BY <1>2 DEF Resume, WaitingFor, Woken
<1>4. \A q \in Requests : /\ pc'[q] \in Answered => stream'[q] # "none"
                          /\ pc'[q] # "done" => stream'[q] \notin {"handed", "closed"}
  BY <1>1, <1>3 DEF AnswerInv, Answered
<1>5. \A q \in Requests, k \in AffinityKeys, d \in Conns : Witness(q, k, d) => Witness(q, k, d)'
  BY <1>1, <1>3 DEF Witness
<1>6. \A k \in AffinityKeys : affinity'[k] # NoConn =>
          \E q \in Requests : Witness(q, k, affinity[k])'
  BY <1>1, <1>5, AnswersTyped, BindingsKept
<1>7. \A k \in Combos : Turns(k)' = Turns(k)
  BY <1>1 DEF Turns
<1> QED
  BY <1>1, <1>4, <1>6, <1>7 DEF AnswerInv

\* No request moves, no stream is given back, and bindings and counters at most vanish.
LEMMA AsideAnswers ==
    ASSUME ChatInv, AnswerInv, UNCHANGED <<pc, plan, combo, loop, result>>,
           UNCHANGED stream \/ \E r \in Requests : Close(r),
           \A k \in AffinityKeys : affinity'[k] \in {affinity[k], NoConn},
           \A k \in Combos : comboCounter'[k] \in {comboCounter[k], 0}
    PROVE  AnswerInv'
<1>1. \A q \in Requests :
         \/ stream'[q] = stream[q]
         \/ stream[q] = "handed" /\ stream'[q] = "closed"
  BY AnswersTyped DEF Close
<1>2. \A q \in Requests : /\ pc'[q] \in Answered => stream'[q] # "none"
                          /\ pc'[q] # "done" => stream'[q] \notin {"handed", "closed"}
  BY <1>1 DEF AnswerInv
<1>3. ASSUME NEW k \in AffinityKeys, affinity'[k] # NoConn
      PROVE  \E q \in Requests : Witness(q, k, affinity[k])'
  <2>1. affinity'[k] = affinity[k]
    BY <1>3
  <2>2. PICK q \in Requests : Witness(q, k, affinity[k])
    BY <1>3, <2>1 DEF AnswerInv
  <2>3. Witness(q, k, affinity[k])'
    BY <1>1, <2>1, <2>2 DEF Witness
  <2> QED
    BY <2>3
<1>4. ASSUME NEW k \in Combos
      PROVE  comboCounter'[k] <= Cardinality(Turns(k)')
  <2>1. Turns(k)' = Turns(k)
    BY <1>1 DEF Turns
  <2>2. Cardinality(Turns(k)) \in Nat
    <3>1. Turns(k) \subseteq Requests /\ IsFiniteSet(Requests)
      BY ChatAssumption DEF Turns
    <3> QED
      BY <3>1, FS_Subset, FS_CardinalityType
  <2>3. comboCounter[k] <= Cardinality(Turns(k))
    BY DEF AnswerInv
  <2> QED
    BY <2>1, <2>2, <2>3
<1> QED
  BY <1>2, <1>3, <1>4 DEF AnswerInv

LEMMA AnswerInvInit == Init => AnswerInv
<1> SUFFICES ASSUME Init PROVE AnswerInv
  OBVIOUS
<1>1. \A r \in Requests : pc[r] = "idle" /\ stream[r] = "none"
  BY DEF Init
<1>2. \A k \in AffinityKeys : affinity[k] = NoConn
  BY DEF Init
<1>3. ASSUME NEW k \in Combos
      PROVE  comboCounter[k] <= Cardinality(Turns(k))
  <2>1. comboCounter[k] = 0 /\ Turns(k) \subseteq Requests /\ IsFiniteSet(Requests)
    BY ChatAssumption DEF Init, Turns
  <2>2. Cardinality(Turns(k)) \in Nat
    BY <2>1, FS_Subset, FS_CardinalityType
  <2> QED
    BY <2>1, <2>2
<1> QED
  BY <1>1, <1>2, <1>3 DEF AnswerInv, Answered

LEMMA AnswerInvStep == ChatInv /\ AnswerInv /\ [Next]_vars => AnswerInv'
<1> SUFFICES ASSUME ChatInv, AnswerInv, [Next]_vars PROVE AnswerInv'
  OBVIOUS
<1>1. ASSUME NEW r \in Requests, Serve(r) PROVE AnswerInv'
  BY <1>1, QuietSteps, QuietAnswers, ExecuteAnswers, BindAnswers, ArriveAnswers,
     HandleResultAnswers DEF Serve
<1>2. ASSUME NEW r \in Requests, Cancel(r) \/ Close(r) PROVE AnswerInv'
  BY <1>2, AsideAnswers DEF Cancel, Close, shared
<1>3. ASSUME NEW k \in AffinityKeys, ExpireAffinity(k) PROVE AnswerInv'
  <2>1. \A j \in AffinityKeys : affinity'[j] \in {affinity[j], NoConn}
    BY <1>3, AnswersTyped DEF ExpireAffinity
  <2> QED
    BY <1>3, <2>1, AsideAnswers DEF ExpireAffinity, request
<1>4. ASSUME NEW k \in Combos, ClearComboRotation(k) PROVE AnswerInv'
  <2>1. \A j \in Combos : comboCounter'[j] \in {comboCounter[j], 0}
    BY <1>4, AnswersTyped DEF ClearComboRotation
  <2> QED
    BY <1>4, <2>1, AsideAnswers DEF ClearComboRotation, request
<1>5. ASSUME NEW c \in Conns, EndRefresh(c) PROVE AnswerInv'
  BY <1>5, EndRefreshAnswers
<1>6. CASE UNCHANGED chatVars
  BY <1>6, AsideAnswers DEF chatVars, request, shared
<1> QED
  BY <1>1, <1>2, <1>3, <1>4, <1>5, <1>6 DEF Next, vars

-----------------------------------------------------------------------------
(* The theorems *)

LEMMA ChatInvariant == Spec => []ChatInv
BY ChatInvInit, ChatInvStep, PTL DEF Spec

\* Everything a request, the affinity map and the rotation counters hold is well typed.
THEOREM ChatTypeCorrect == Spec => []TypeOK
<1>1. ChatInv => TypeOK
  BY RefreshInvMeans DEF ChatInv, ChatTyped, TypeOK, ComboState, ResultState
<1> QED
  BY <1>1, ChatInvariant, PTL

\* However requests interleave, within one attempt executeOnProvider counts every
\* account it uses once, and never uses one twice.
THEOREM NoAccountTwice == Spec => []DistinctAccounts
<1>1. ChatInv => DistinctAccounts
  BY DEF ChatInv, Sound, SoundAt, DistinctAccounts, InLoop, Outside
<1> QED
  BY <1>1, ChatInvariant, PTL

\* An attempt never uses more accounts than a saved maxRetryCredentials allows
\* (shouldStopCredentialRetry), although the setting may change while it runs.
THEOREM RetryBudgetKept == Spec => []BudgetRespected
<1>1. ChatInv => BudgetRespected
  BY DEF ChatInv, Sound, SoundAt, BudgetRespected, InLoop, Outside, Within
<1> QED
  BY <1>1, ChatInvariant, PTL

\* A connection pinned in the model's name is the only one its attempt uses.
THEOREM PinKept == Spec => []PinNeverSpills
<1>1. ChatInv => PinNeverSpills
  BY DEF ChatInv, Sound, SoundAt, PinNeverSpills, InLoop, Outside
<1> QED
  BY <1>1, ChatInvariant, PTL

\* Every connection an attempt uses is on its allow-list, whatever bindings sessions
\* have from other routes.
THEOREM AllowListKept == Spec => []AllowListRespected
<1>1. ChatInv => AllowListRespected
  BY DEF ChatInv, Sound, SoundAt, AllowListRespected, InLoop, Outside
<1> QED
  BY <1>1, ChatInvariant, PTL

LEMMA AnswersInvariant == Spec => []AnswerInv
BY ChatInvInit, ChatInvStep, AnswerInvInit, AnswerInvStep, PTL DEF Spec

\* A session is bound to no connection but one that has answered a request of that
\* session (SessionAffinityStore.Put after a success).
THEOREM BindingsAreEarned == Spec => []AffinityFollowsSuccess
<1>1. AnswerInv => AffinityFollowsSuccess
  BY DEF AnswerInv, Witness, AffinityFollowsSuccess
<1> QED
  BY <1>1, AnswersInvariant, PTL

\* A combo's rotation never runs ahead of the answers its clients received
\* (advanceRotation), also when the combo is deleted and its counter starts again.
THEOREM RotationIsEarned == Spec => []RotationOnlyBySuccess
<1>1. AnswerInv => RotationOnlyBySuccess
  BY DEF AnswerInv, Turns, RotationOnlyBySuccess
<1> QED
  BY <1>1, AnswersInvariant, PTL

-----------------------------------------------------------------------------
(***************************************************************************)
(* Whose accounts are used, and which are left when an attempt gives up.   *)
(* Both rest on what a step may do to the accounts a request has excluded  *)
(* and tried (HuntMove).                                                   *)
(***************************************************************************)

\* The locals of executeOnProvider that say which accounts are left.
SameHunt(l, m) ==
    /\ l.exclude = m.exclude /\ l.tried = m.tried /\ l.conn = m.conn
    /\ l.stickyTried = m.stickyTried /\ l.soft = m.soft

(* What a step may do to request q's hunt for an account. *)

Keeps(q) ==
    /\ SameHunt(loop'[q], loop[q])
    /\ pc'[q] \notin Outside => pc[q] \notin Outside /\ plan'[q] = plan[q]
    /\ pc'[q] \in Used => pc[q] \in Used
    /\ pc'[q] \in Chosen => pc[q] \in Chosen

Starts(q) ==
    /\ pc'[q] \in {"pick", "result"}
    /\ loop'[q].exclude = {} /\ loop'[q].tried = {}
    /\ ~loop'[q].stickyTried /\ loop'[q].soft = NoConn

Picks(q) ==
    /\ pc[q] = "pick" /\ pc'[q] = "select" /\ plan'[q] = plan[q]
    /\ loop'[q].exclude = loop[q].exclude /\ loop'[q].tried = loop[q].tried
    /\ loop'[q].stickyTried <=> (loop[q].stickyTried \/ Bound(q) # NoConn)
    /\ loop'[q].soft = SoftPin(q)

Chooses(q) ==
    /\ pc[q] = "select" /\ pc'[q] = "renew" /\ plan'[q] = plan[q]
    /\ loop'[q].conn \in Conns /\ MaySelect(q, loop'[q].conn)
    /\ SameHunt(loop'[q], [loop[q] EXCEPT !.conn = loop'[q].conn])

Uses(q) ==
    /\ \/ pc[q] = "select" /\ loop'[q].conn \in Conns /\ MaySelect(q, loop'[q].conn)
       \/ pc[q] \in Chosen /\ loop'[q].conn = loop[q].conn
    /\ pc'[q] \in {"execute", "result"} /\ plan'[q] = plan[q]
    /\ loop'[q].tried = loop[q].tried \cup {loop'[q].conn}
    /\ loop'[q].exclude = loop[q].exclude
    /\ loop'[q].stickyTried = loop[q].stickyTried /\ loop'[q].soft = loop[q].soft

Unsticks(q) ==
    /\ pc[q] = "unstick" /\ pc'[q] = "pick" /\ plan'[q] = plan[q]
    /\ loop'[q].exclude = loop[q].exclude \cup {loop[q].soft} /\ loop'[q].soft = NoConn
    /\ loop'[q].tried = loop[q].tried /\ loop'[q].stickyTried = loop[q].stickyTried

Spills(q) ==
    /\ pc[q] = "spill" /\ pc'[q] \in {"pick", "result"} /\ plan'[q] = plan[q]
    /\ loop'[q].exclude = loop[q].exclude \cup {loop[q].conn} /\ loop'[q].tried = loop[q].tried
    /\ loop'[q].stickyTried = loop[q].stickyTried /\ loop'[q].soft = loop[q].soft

HuntMove(q) == \/ Keeps(q) \/ Starts(q) \/ Picks(q) \/ Chooses(q)
               \/ Uses(q) \/ Unsticks(q) \/ Spills(q)

Still(q) == pc'[q] = pc[q] /\ loop'[q] = loop[q] /\ plan'[q] = plan[q]

LEMMA StillKeeps ==
    ASSUME NEW q \in Requests, Still(q)
    PROVE  Keeps(q)
BY DEF Still, Keeps, SameHunt

\* A step of r to label that leaves r's locals alone.
LEMMA LabelKeeps ==
    ASSUME ChatInv, NEW r \in Requests, UNCHANGED <<loop, plan>>, NEW label,
           pc' = [pc EXCEPT ![r] = label], label \notin Outside => pc[r] \notin Outside,
           label \in Used => pc[r] \in Used, label \in Chosen => pc[r] \in Chosen
    PROVE  Keeps(r)
<1>1. pc'[r] = label
  BY InvMeans
<1> QED
  BY <1>1 DEF Keeps, SameHunt

\* A step of r from one place of the upstream's call to another, or to the result.
LEMMA NotingKeeps ==
    ASSUME ChatInv, NEW r \in Requests, UNCHANGED plan, NEW l, loop' = [loop EXCEPT ![r] = l],
           SameHunt(l, loop[r]), NEW label \in Used \cup {"result"},
           pc' = [pc EXCEPT ![r] = label], pc[r] \in Used
    PROVE  Keeps(r)
<1>1. pc'[r] = label /\ loop'[r] = l
  BY InvMeans
<1>2. label \notin Chosen
  BY DEF Used, Failing, Chosen
<1>3. pc[r] \notin Outside
  BY DEF Used, Failing, Outside
<1> QED
  BY <1>1, <1>2, <1>3 DEF Keeps

-----------------------------------------------------------------------------
(* The steps, in the order a request takes them. *)

LEMMA StartModelHunts ==
    ASSUME ChatInv, NEW r \in Requests, StartModel(r)
    PROVE  HuntMove(r)
<1>1. CASE UNCHANGED loop /\ pc' = [pc EXCEPT ![r] = "done"]
  BY <1>1, LabelKeeps DEF HuntMove, StartModel, Outside, Used, Failing, Chosen
<1>2. ASSUME NEW label \in {"pick", "result"}, pc' = [pc EXCEPT ![r] = label],
             NEW key, loop' = [loop EXCEPT ![r] = NewLoop(r, key)]
      PROVE  Starts(r)
  <2>1. pc'[r] = label /\ loop'[r] = NewLoop(r, key)
    BY <1>2, InvMeans
  <2>2. /\ NewLoop(r, key).exclude = {} /\ NewLoop(r, key).tried = {}
        /\ NewLoop(r, key).stickyTried = FALSE /\ NewLoop(r, key).soft = NoConn
    BY DEF NewLoop, FreshLoop
  <2> QED
    BY <2>1, <2>2 DEF Starts
<1>3. \/ UNCHANGED loop /\ pc' = [pc EXCEPT ![r] = "done"]
      \/ /\ \E key : loop' = [loop EXCEPT ![r] = NewLoop(r, key)]
         /\ \E label \in {"pick", "result"} : pc' = [pc EXCEPT ![r] = label]
  <2>1. CASE combo[r].at = Len(plan[r].attempts)
    BY <2>1, Zenon DEF StartModel, Answer, Goto
  <2>2. CASE combo[r].at # Len(plan[r].attempts) /\ cancelled[r]
    BY <2>2, Zenon DEF StartModel, Answer, Goto
  <2>3. CASE combo[r].at # Len(plan[r].attempts) /\ ~cancelled[r]
    <3>1. \E key : loop' = [loop EXCEPT ![r] = NewLoop(r, key)]
      BY <2>3, Zenon DEF StartModel
    <3>2. \E label \in {"pick", "result"} : pc' = [pc EXCEPT ![r] = label]
      BY <2>3, ZenonT(30) DEF StartModel, Return, Goto
    <3> QED
      BY <3>1, <3>2
  <2> QED
    BY <2>1, <2>2, <2>3
<1> QED
  BY <1>1, <1>2, <1>3, Zenon DEF HuntMove

LEMMA PickHunts ==
    ASSUME ChatInv, NEW r \in Requests, Pick(r)
    PROVE  HuntMove(r)
<1> DEFINE l == [loop[r] EXCEPT !.stickyTried = @ \/ Bound(r) # NoConn, !.soft = SoftPin(r)]
<1>1. pc[r] = "pick" /\ UNCHANGED plan /\ loop[r] \in LoopState
  BY InvMeans DEF Pick
<1>2. CASE UNCHANGED loop /\ pc' = [pc EXCEPT ![r] = "result"]
  BY <1>1, <1>2, LabelKeeps DEF HuntMove, Outside, Used, Failing, Chosen
<1>3. CASE loop' = [loop EXCEPT ![r] = l] /\ pc' = [pc EXCEPT ![r] = "select"]
  <2>1. pc'[r] = "select" /\ loop'[r] = l
    BY <1>3, InvMeans
  <2>2. /\ l.exclude = loop[r].exclude /\ l.tried = loop[r].tried
        /\ l.stickyTried <=> (loop[r].stickyTried \/ Bound(r) # NoConn)
        /\ l.soft = SoftPin(r)
    BY <1>1 DEF LoopState
  <2> HIDE DEF l
  <2>3. Picks(r)
    BY <1>1, <2>1, <2>2 DEF Picks
  <2> QED
    BY <2>3 DEF HuntMove
<1> QED
  BY <1>2, <1>3, Zenon DEF Pick, Return, Goto

\* The account is counted among those tried.
LEMMA ServesHunts ==
    ASSUME ChatInv, NEW r \in Requests, UNCHANGED plan, NEW c, NEW creds, Serves(r, c, creds),
           \/ pc[r] = "select" /\ c \in Conns /\ MaySelect(r, c)
           \/ pc[r] \in Chosen /\ c = loop[r].conn
    PROVE  HuntMove(r)
<1> DEFINE l == [loop[r] EXCEPT !.conn = c, !.creds = creds,
                                !.attempted = @ + 1, !.tried = @ \cup {c}]
<1>1. loop[r] \in LoopState
  BY InvMeans
<1>2. loop' = [loop EXCEPT ![r] = l]
  BY Zenon DEF Serves
<1>3. pc' = [pc EXCEPT ![r] = "execute"] \/ pc' = [pc EXCEPT ![r] = "result"]
  BY Zenon DEF Serves, Return, Goto
<1>4. /\ l.conn = c /\ l.exclude = loop[r].exclude /\ l.tried = loop[r].tried \cup {c}
      /\ l.stickyTried = loop[r].stickyTried /\ l.soft = loop[r].soft
  BY <1>1 DEF LoopState
<1> HIDE DEF l
<1>5. loop'[r] = l /\ pc'[r] \in {"execute", "result"}
  BY <1>2, <1>3, InvMeans
<1>6. Uses(r)
  BY <1>4, <1>5 DEF Uses
<1> QED
  BY <1>6 DEF HuntMove

LEMMA SelectHunts ==
    ASSUME ChatInv, NEW r \in Requests, Select(r)
    PROVE  HuntMove(r)
<1>1. pc[r] = "select" /\ UNCHANGED plan /\ loop[r] \in LoopState
  BY InvMeans DEF Select
<1>2. PICK c \in Conns :
         /\ MaySelect(r, c)
         /\ \/ Serves(r, c, attrs[c])
            \/ /\ attrs[c].refreshable
               /\ loop' = [loop EXCEPT ![r] = [loop[r] EXCEPT !.conn = c, !.creds = attrs[c]]]
               /\ Goto(r, "renew") /\ UNCHANGED result
  BY DEF Select
<1>3. CASE Serves(r, c, attrs[c])
  BY <1>1, <1>2, <1>3, ServesHunts
<1>4. CASE /\ loop' = [loop EXCEPT ![r] = [loop[r] EXCEPT !.conn = c, !.creds = attrs[c]]]
           /\ Goto(r, "renew")
  <2> DEFINE l == [loop[r] EXCEPT !.conn = c, !.creds = attrs[c]]
  <2>1. l.conn = c /\ SameHunt(l, [loop[r] EXCEPT !.conn = c])
    BY <1>1 DEF LoopState, SameHunt
  <2> HIDE DEF l
  <2>2. loop'[r] = l /\ pc'[r] = "renew"
    BY <1>4, InvMeans DEF Goto, l
  <2>3. Chooses(r)
    BY <1>1, <1>2, <2>1, <2>2 DEF Chooses
  <2> QED
    BY <2>3 DEF HuntMove
<1> QED
  BY <1>2, <1>3, <1>4

\* No credentials: the soft pin is to be given up, or the attempt is over.
LEMMA NoCredentialsHunts ==
    ASSUME ChatInv, NEW r \in Requests, pc[r] \in {"select", "unrenewed"},
           NEW refusal, NoCredentials(r, refusal), UNCHANGED <<loop, plan>>
    PROVE  HuntMove(r)
<1>1. \E label \in {"unstick", "result"} : pc' = [pc EXCEPT ![r] = label]
  BY Zenon DEF NoCredentials, Return, Goto
<1>2. pc[r] \notin Outside
  BY DEF Outside
<1> QED
  BY <1>1, <1>2, LabelKeeps DEF HuntMove, Used, Failing, Chosen

LEMMA SelectFailsHunts ==
    ASSUME ChatInv, NEW r \in Requests, SelectFails(r)
    PROVE  HuntMove(r)
BY NoCredentialsHunts DEF SelectFails

LEMMA UnstickHunts ==
    ASSUME ChatInv, NEW r \in Requests, Unstick(r)
    PROVE  HuntMove(r)
<1> DEFINE l == [loop[r] EXCEPT !.exclude = @ \cup {loop[r].soft}, !.soft = NoConn]
<1>1. /\ pc[r] = "unstick" /\ UNCHANGED plan /\ loop[r] \in LoopState
      /\ loop' = [loop EXCEPT ![r] = l] /\ pc' = [pc EXCEPT ![r] = "pick"]
  BY InvMeans DEF Unstick, Goto
<1>2. /\ l.exclude = loop[r].exclude \cup {loop[r].soft} /\ l.soft = NoConn
      /\ l.tried = loop[r].tried /\ l.stickyTried = loop[r].stickyTried
  BY <1>1 DEF LoopState
<1> HIDE DEF l
<1>3. loop'[r] = l /\ pc'[r] = "pick"
  BY <1>1, InvMeans
<1>4. Unsticks(r)
  BY <1>1, <1>2, <1>3 DEF Unsticks
<1> QED
  BY <1>4 DEF HuntMove

\* A failure noted in the locals, and what becomes of it.
LEMMA JudgeHunts ==
    ASSUME ChatInv, NEW r \in Requests, UNCHANGED plan, pc[r] \in Used, NEW e, NEW label,
           label \in {"mark", "refresh", "result"}, pc' = [pc EXCEPT ![r] = label],
           loop' = [loop EXCEPT ![r] = [loop[r] EXCEPT !.fail = e]]
    PROVE  Keeps(r)
<1> DEFINE l == [loop[r] EXCEPT !.fail = e]
<1>1. SameHunt(l, loop[r])
  BY InvMeans DEF LoopState, SameHunt
<1>2. label \in Used \cup {"result"}
  BY DEF Used, Failing
<1> HIDE DEF l
<1>3. loop' = [loop EXCEPT ![r] = l]
  BY DEF l
<1> QED
  BY <1>1, <1>2, <1>3, NotingKeeps

LEMMA ExecuteHunts ==
    ASSUME ChatInv, NEW r \in Requests, Execute(r)
    PROVE  HuntMove(r)
<1>1. pc[r] \in Used /\ UNCHANGED plan
  BY DEF Execute, Used
<1>2. CASE UNCHANGED loop /\ \E label \in {"clear", "result"} : pc' = [pc EXCEPT ![r] = label]
  BY <1>1, <1>2, LabelKeeps DEF HuntMove, Used, Failing, Chosen, Outside
<1>3. CASE \E e \in Errors, label \in {"mark", "refresh", "result"} :
              /\ pc' = [pc EXCEPT ![r] = label]
              /\ loop' = [loop EXCEPT ![r] = [loop[r] EXCEPT !.fail = e]]
  BY <1>1, <1>3, JudgeHunts DEF HuntMove
<1> QED
  BY <1>2, <1>3, ZenonT(60) DEF Execute, Judge, Return, Goto

LEMMA RenewHunts ==
    ASSUME ChatInv, NEW r \in Requests, Renew(r)
    PROVE  HuntMove(r)
<1>1. UNCHANGED plan /\ loop[r] \in LoopState
  BY InvMeans DEF Renew
<1>2. CASE pc[r] = "renew" /\ UNCHANGED loop /\ pc' = [pc EXCEPT ![r] = "renewing"]
  BY <1>1, <1>2, LabelKeeps DEF HuntMove, Outside, Used, Failing, Chosen
<1>3. CASE pc[r] = "refresh" /\ UNCHANGED loop /\ pc' = [pc EXCEPT ![r] = "refreshing"]
  BY <1>1, <1>3, LabelKeeps DEF HuntMove, Outside, Used, Failing, Chosen
<1>4. CASE /\ pc[r] = "refresh" /\ pc' = [pc EXCEPT ![r] = "retry"]
           /\ \E a : loop' = [loop EXCEPT ![r] = [loop[r] EXCEPT !.creds = a]]
  <2>1. PICK a : loop' = [loop EXCEPT ![r] = [loop[r] EXCEPT !.creds = a]]
    BY <1>4
  <2> DEFINE l == [loop[r] EXCEPT !.creds = a]
  <2>2. SameHunt(l, loop[r])
    BY <1>1 DEF LoopState, SameHunt
  <2>3. "retry" \in Used \cup {"result"} /\ pc[r] \in Used
    BY <1>4 DEF Used, Failing
  <2> HIDE DEF l
  <2>4. loop' = [loop EXCEPT ![r] = l]
    BY <2>1 DEF l
  <2> QED
    BY <1>1, <1>4, <2>2, <2>3, <2>4, NotingKeeps DEF HuntMove
<1>5. CASE /\ pc[r] = "refresh"
           /\ \E label \in {"mark", "result"} : pc' = [pc EXCEPT ![r] = label]
           /\ \E e : loop' = [loop EXCEPT ![r] = [loop[r] EXCEPT !.fail = e]]
  <2>1. pc[r] \in Used
    BY <1>5 DEF Used, Failing
  <2> QED
    BY <1>1, <1>5, <2>1, JudgeHunts DEF HuntMove
<1> QED
  BY <1>2, <1>3, <1>4, <1>5, ZenonT(60) DEF Renew, JoinRefresh, Judge, Return, Goto

LEMMA RenewedHunts ==
    ASSUME ChatInv, NEW r \in Requests, Renewed(r)
    PROVE  HuntMove(r)
<1>1. UNCHANGED plan
  BY DEF Renewed
<1>2. CASE pc[r] \in {"renewed", "unrenewed"} /\ Serves(r, loop[r].conn, loop[r].creds)
  BY <1>1, <1>2, ServesHunts DEF Chosen
<1>3. CASE /\ pc[r] = "unrenewed"
           /\ NoCredentials(r, Refusal(503, FALSE, FALSE)) /\ UNCHANGED loop
  BY <1>1, <1>3, NoCredentialsHunts
<1>4. CASE pc[r] = "unrefreshed" /\ Judge(r, loop[r].fail)
  <2>1. pc[r] \in Used
    BY <1>4 DEF Used, Failing
  <2>2. /\ \E label \in {"mark", "result"} : pc' = [pc EXCEPT ![r] = label]
        /\ \E e : loop' = [loop EXCEPT ![r] = [loop[r] EXCEPT !.fail = e]]
    BY <1>4, Zenon DEF Judge, Return, Goto
  <2> QED
    BY <1>1, <2>1, <2>2, JudgeHunts DEF HuntMove
<1> QED
  BY <1>2, <1>3, <1>4 DEF Renewed

LEMMA SpillHunts ==
    ASSUME ChatInv, NEW r \in Requests, Spill(r)
    PROVE  HuntMove(r)
<1> DEFINE l == Exclude(loop[r])
<1>1. /\ pc[r] = "spill" /\ UNCHANGED plan /\ loop[r] \in LoopState
      /\ loop' = [loop EXCEPT ![r] = l]
  BY InvMeans, Zenon DEF Spill
<1>2. \E label \in {"pick", "result"} : pc' = [pc EXCEPT ![r] = label]
  BY ZenonT(30) DEF Spill, Return, Goto
<1>3. /\ l.exclude = loop[r].exclude \cup {loop[r].conn} /\ l.tried = loop[r].tried
      /\ l.stickyTried = loop[r].stickyTried /\ l.soft = loop[r].soft
  BY <1>1 DEF LoopState, Exclude
<1> HIDE DEF l
<1>4. loop'[r] = l /\ pc'[r] \in {"pick", "result"}
  BY <1>1, <1>2, InvMeans
<1>5. Spills(r)
  BY <1>1, <1>3, <1>4 DEF Spills
<1> QED
  BY <1>5 DEF HuntMove

\* The steps that leave the hunt alone: arrival, the bookkeeping of an answer, and
\* HandleCombo's verdict on a result.
LEMMA RestHunts ==
    ASSUME ChatInv, NEW r \in Requests,
           \/ Arrive(r) \/ Clear(r) \/ Advance(r) \/ Bind(r) \/ Mark(r)
           \/ HandleResult(r) \/ Pause(r)
    PROVE  HuntMove(r)
<1>1. CASE Arrive(r)
  <2>1. UNCHANGED loop /\ \E label \in Outside : pc' = [pc EXCEPT ![r] = label]
    <3>1. \E label \in {"done", "model"} : pc' = [pc EXCEPT ![r] = label]
      BY <1>1, ZenonT(30) DEF Arrive, Answer, Goto
    <3> QED
      BY <1>1, <3>1 DEF Arrive, Outside
  <2>2. PICK label \in Outside : pc' = [pc EXCEPT ![r] = label]
    BY <2>1
  <2>3. pc'[r] \in Outside /\ loop'[r] = loop[r]
    BY <2>1, <2>2, InvMeans
  <2> QED
    BY <2>3 DEF HuntMove, Keeps, SameHunt, Outside, Used, Failing, Chosen
<1>2. CASE Clear(r)
  <2>1. /\ pc[r] = "clear" /\ UNCHANGED <<loop, plan>>
        /\ pc' = [pc EXCEPT ![r] = "advance"]
    BY <1>2 DEF Clear, Goto
  <2> QED
    BY <2>1, LabelKeeps DEF HuntMove, Outside, Used, Failing, Chosen
<1>3. CASE Advance(r)
  <2>1. /\ pc[r] = "advance" /\ UNCHANGED <<loop, plan>>
        /\ \E label \in {"bind", "result"} : pc' = [pc EXCEPT ![r] = label]
    BY <1>3, Zenon DEF Advance, Return, Goto
  <2> QED
    BY <2>1, LabelKeeps DEF HuntMove, Outside, Used, Failing, Chosen
<1>4. CASE Bind(r)
  <2>1. /\ pc[r] = "bind" /\ UNCHANGED <<loop, plan>>
        /\ pc' = [pc EXCEPT ![r] = "result"]
    BY <1>4, Zenon DEF Bind, Return, Goto
  <2> QED
    BY <2>1, LabelKeeps DEF HuntMove, Outside, Used, Failing, Chosen
<1>5. CASE Mark(r)
  <2>1. /\ pc[r] = "mark" /\ UNCHANGED <<loop, plan>>
        /\ pc' = [pc EXCEPT ![r] = "spill"]
    BY <1>5 DEF Mark, Goto
  <2> QED
    BY <2>1, LabelKeeps DEF HuntMove, Outside, Used, Failing, Chosen
<1>6. CASE HandleResult(r)
  <2>1. /\ UNCHANGED <<loop, plan>>
        /\ \E label \in {"done", "pause", "model"} : pc' = [pc EXCEPT ![r] = label]
    BY <1>6, ZenonT(60) DEF HandleResult, Answer, Deliver, NextModel, Proceed, Goto
  <2> QED
    BY <2>1, LabelKeeps DEF HuntMove, Outside, Used, Failing, Chosen
<1>7. CASE Pause(r)
  <2>1. /\ UNCHANGED <<loop, plan>>
        /\ \E label \in {"done", "model"} : pc' = [pc EXCEPT ![r] = label]
    BY <1>7, ZenonT(30) DEF Pause, Answer, Goto
  <2> QED
    BY <2>1, LabelKeeps DEF HuntMove, Outside, Used, Failing, Chosen
<1> QED
  BY <1>1, <1>2, <1>3, <1>4, <1>5, <1>6, <1>7

LEMMA ServeHunts ==
    ASSUME ChatInv, NEW r \in Requests, Serve(r)
    PROVE  HuntMove(r)
BY StartModelHunts, PickHunts, SelectHunts, UnstickHunts, ExecuteHunts, RenewHunts,
   RenewedHunts, SpillHunts, RestHunts, SelectFailsHunts DEF Serve

\* A request's own step moves no other request.
LEMMA ServeMovesOne ==
    ASSUME ChatInv, NEW r \in Requests, Serve(r), NEW q \in Requests, q # r
    PROVE  Still(q)
<1>1. /\ pc \in [Requests -> Labels] /\ loop \in [Requests -> LoopState]
      /\ plan \in [Requests -> Plans]
  BY DEF ChatInv, ChatTyped
<1>2. CASE Arrive(r)
  <2>1. /\ \E label : pc' = [pc EXCEPT ![r] = label]
        /\ \E p : plan' = [plan EXCEPT ![r] = p]
        /\ UNCHANGED loop
    BY <1>2, ZenonT(30) DEF Arrive, Answer, Goto
  <2> QED
    BY <1>1, <2>1 DEF Still
<1>3. CASE Execute(r)
  <2>1. /\ \E label : pc' = [pc EXCEPT ![r] = label]
        /\ UNCHANGED loop \/ \E l : loop' = [loop EXCEPT ![r] = l]
        /\ UNCHANGED plan
    BY <1>3, ZenonT(60) DEF Execute, Judge, Return, Goto
  <2> QED
    BY <1>1, <2>1 DEF Still
<1>4. CASE Bind(r) \/ HandleResult(r)
  <2>1. (\E label : pc' = [pc EXCEPT ![r] = label]) /\ UNCHANGED <<plan, loop>>
    BY <1>4, ZenonT(60)
       DEF Bind, HandleResult, Answer, Deliver, NextModel, Proceed, Return, Goto
  <2> QED
    BY <1>1, <2>1 DEF Still
<1>5. ASSUME Quiet(r) PROVE Still(q)
  BY <1>5 DEF Quiet, Still
<1> QED
  BY <1>2, <1>3, <1>4, <1>5, QuietSteps DEF Serve

\* Who waits for a renewal keeps the accounts it has excluded and tried.
LEMMA EndRefreshHunts ==
    ASSUME ChatInv, NEW c \in Conns, EndRefresh(c), NEW q \in Requests
    PROVE  Keeps(q)
<1>1. /\ UNCHANGED plan
      /\ \E success \in BOOLEAN : \E creds : Resume(c, success, creds)
  BY Zenon DEF EndRefresh
<1>a. PICK success \in BOOLEAN : \E creds : Resume(c, success, creds)
  BY <1>1
<1>2. PICK creds : Resume(c, success, creds)
  BY <1>a
<1>3. CASE q \in WaitingFor(c)
  <2>1. /\ pc[q] \in {"renewing", "refreshing"} /\ pc'[q] = Woken(pc[q], success)
        /\ loop'[q] \in {loop[q], [loop[q] EXCEPT !.creds = creds]}
    BY <1>2, <1>3 DEF Resume, WaitingFor
  <2>2. SameHunt(loop'[q], loop[q])
    BY <2>1, InvMeans DEF LoopState, SameHunt
  <2>3. CASE pc[q] = "renewing"
    BY <1>1, <2>1, <2>2, <2>3 DEF Keeps, Woken, Outside, Used, Failing, Chosen
  <2>4. CASE pc[q] = "refreshing"
    BY <1>1, <2>1, <2>2, <2>4 DEF Keeps, Woken, Outside, Used, Failing, Chosen
  <2> QED
    BY <2>1, <2>3, <2>4
<1>4. CASE q \notin WaitingFor(c)
  BY <1>1, <1>2, <1>4, StillKeeps DEF Resume, Still
<1> QED
  BY <1>3, <1>4

\* Of the rest of the steps none touches a request's locals.
LEMMA AsideHunts ==
    ASSUME NEW q \in Requests,
           \/ \E r \in Requests : Cancel(r) \/ Close(r)
           \/ \E k \in AffinityKeys : ExpireAffinity(k)
           \/ \E k \in Combos : ClearComboRotation(k)
           \/ UNCHANGED chatVars
    PROVE  Still(q)
BY DEF Cancel, Close, ExpireAffinity, ClearComboRotation, chatVars, request, Still

\* The steps of Next, as far as requests and accounts are concerned.
LEMMA NextHunts ==
    ASSUME ChatInv, [Next]_vars, NEW q \in Requests
    PROVE  HuntMove(q)
<1>1. ASSUME NEW r \in Requests, Serve(r) PROVE HuntMove(q)
  <2>1. CASE q = r
    BY <1>1, <2>1, ServeHunts
  <2>2. CASE q # r
    BY <1>1, <2>2, ServeMovesOne, StillKeeps DEF HuntMove
  <2> QED
    BY <2>1, <2>2
<1>2. ASSUME NEW c \in Conns, EndRefresh(c) PROVE HuntMove(q)
  BY <1>2, EndRefreshHunts DEF HuntMove
<1>3. ASSUME Still(q) PROVE HuntMove(q)
  BY <1>3, StillKeeps DEF HuntMove
<1>4. CASE UNCHANGED vars
  BY <1>3, <1>4, AsideHunts DEF vars
<1> QED
  BY <1>1, <1>2, <1>3, <1>4, AsideHunts DEF Next

-----------------------------------------------------------------------------
(* What an attempt has excluded without trying it. *)

\* While no session pin was asked for, or one is in hand, only tried accounts are
\* excluded; after that, one more at most: the pin that was rejected.
HuntSound(label, l) ==
    label \notin Outside =>
        /\ (~l.stickyTried \/ l.soft # NoConn) => l.exclude \subseteq l.tried
        /\ \E x : l.exclude \subseteq l.tried \cup {x}
        /\ l.soft # NoConn => l.stickyTried
        /\ label \in Used => l.conn \in l.tried

HuntInv == \A r \in Requests : HuntSound(pc[r], loop[r])

LEMMA HuntInvStep == ChatInv /\ HuntInv /\ [Next]_vars => HuntInv'
<1> SUFFICES ASSUME ChatInv, HuntInv, [Next]_vars, NEW q \in Requests
             PROVE  HuntSound(pc[q], loop[q])'
  BY DEF HuntInv
<1> DEFINE o == loop[q]
           l == loop'[q]
<1>1. HuntSound(pc[q], o) /\ o \in LoopState
  BY InvMeans DEF HuntInv
<1>2. HuntMove(q)
  BY NextHunts
<1> SUFFICES HuntSound(pc'[q], l)
  BY DEF HuntSound
<1>3. CASE Keeps(q)
  <2> HIDE DEF o, l
  <2> QED
    BY <1>1, <1>3 DEF Keeps, SameHunt, HuntSound, o, l
<1>4. CASE Starts(q)
  <2>1. pc'[q] \notin Used
    BY <1>4 DEF Starts, Used, Failing
  <2> QED
    BY <1>4, <2>1 DEF Starts, HuntSound
<1>5. CASE Picks(q)
  <2>1. pc[q] \notin Outside /\ pc'[q] \notin Used
    BY <1>5 DEF Picks, Outside, Used, Failing
  <2>2. (o.stickyTried => l.soft = NoConn) /\ (l.soft # NoConn => Bound(q) # NoConn)
    BY <1>5 DEF Picks, SoftPin, Bound
  <2>3. o.stickyTried \in BOOLEAN
    BY <1>1 DEF LoopState
  <2>4. /\ ~l.stickyTried => ~o.stickyTried
        /\ l.soft # NoConn => ~o.stickyTried /\ l.stickyTried
        /\ l.exclude = o.exclude /\ l.tried = o.tried
    BY <1>5, <2>2, <2>3 DEF Picks
  <2> HIDE DEF o, l
  <2> QED
    BY <1>1, <2>1, <2>4 DEF HuntSound
<1>6. CASE Chooses(q)
  <2>1. pc[q] \notin Outside /\ pc'[q] \notin Used
    BY <1>6 DEF Chooses, Outside, Used, Failing
  <2>2. /\ l.exclude = o.exclude /\ l.tried = o.tried
        /\ l.stickyTried = o.stickyTried /\ l.soft = o.soft
    BY <1>1, <1>6 DEF Chooses, SameHunt, LoopState
  <2> HIDE DEF o, l
  <2> QED
    BY <1>1, <2>1, <2>2 DEF HuntSound
<1>7. CASE Uses(q)
  <2>1. pc[q] \notin Outside
    BY <1>7 DEF Uses, Outside, Chosen
  <2>2. /\ l.exclude = o.exclude /\ l.tried = o.tried \cup {l.conn}
        /\ l.stickyTried = o.stickyTried /\ l.soft = o.soft
    BY <1>7 DEF Uses
  <2> HIDE DEF o, l
  <2> QED
    BY <1>1, <2>1, <2>2 DEF HuntSound
<1>8. CASE Unsticks(q)
  <2>1. pc[q] \notin Outside /\ pc'[q] \notin Used
    BY <1>8 DEF Unsticks, Outside, Used, Failing
  <2>2. o.soft # NoConn
    BY <1>8, InvMeans DEF SoundAt, Unsticks
  <2>3. /\ l.exclude = o.exclude \cup {o.soft} /\ l.tried = o.tried
        /\ l.stickyTried = o.stickyTried /\ l.soft = NoConn
    BY <1>8 DEF Unsticks
  <2> HIDE DEF o, l
  <2> QED
    BY <1>1, <2>1, <2>2, <2>3 DEF HuntSound
<1>9. CASE Spills(q)
  <2>1. pc[q] \in Used /\ pc[q] \notin Outside /\ pc'[q] \notin Used
    BY <1>9 DEF Spills, Outside, Used, Failing
  <2>2. /\ l.exclude = o.exclude \cup {o.conn} /\ l.tried = o.tried
        /\ l.stickyTried = o.stickyTried /\ l.soft = o.soft
    BY <1>9 DEF Spills
  <2> HIDE DEF o, l
  <2> QED
    BY <1>1, <2>1, <2>2 DEF HuntSound
<1> QED
  BY <1>2, <1>3, <1>4, <1>5, <1>6, <1>7, <1>8, <1>9 DEF HuntMove

LEMMA HuntInvariant == Spec => []HuntInv
<1>1. Init => HuntInv
  BY DEF Init, HuntInv, HuntSound, Outside
<1> QED
  BY <1>1, ChatInvariant, HuntInvStep, PTL DEF Spec

\* Only a selection ends a selection with a result.
LEMMA ResultOfSelection ==
    ASSUME ChatInv, [Next]_vars, NEW r \in Requests, pc[r] = "select", pc'[r] = "result"
    PROVE  Select(r) \/ SelectFails(r)
<1>1. ~Still(r)
  BY DEF Still
<1>2. ASSUME NEW q \in Requests, Serve(q) PROVE q = r
  BY <1>1, <1>2, ServeMovesOne
<1>3. ASSUME Serve(r) PROVE Select(r) \/ SelectFails(r)
  BY <1>3 DEF Serve, Arrive, StartModel, Pick, Unstick, Execute, Renew, Renewed, Clear,
              Advance, Bind, Mark, Spill, HandleResult, Pause
<1>4. ASSUME NEW c \in Conns, EndRefresh(c) PROVE FALSE
  <2>1. \E success \in BOOLEAN : \E creds : Resume(c, success, creds)
    BY <1>4, Zenon DEF EndRefresh
  <2> QED
    BY <2>1 DEF Resume, WaitingFor
<1>5. ~(UNCHANGED vars)
  BY <1>1, AsideHunts DEF vars
<1> QED
  BY <1>1, <1>2, <1>3, <1>4, <1>5, AsideHunts DEF Next

\* Who is available and not tried was excluded without being tried.
LEMMA NobodyLeft ==
    ASSUME ChatInv, HuntInv, NEW r \in Requests, pc[r] = "select", SelectFails(r),
           pc'[r] = "result", Current(r).pin = NoConn
    PROVE  LET a == Current(r)
               untried == Available(a.model, loop[r].tried, a.allow, plan[r].tenant)
           IN Cardinality(untried) <= (IF loop[r].stickyTried THEN 1 ELSE 0)
<1> DEFINE a == Current(r)
           l == loop[r]
           untried == Available(a.model, l.tried, a.allow, plan[r].tenant)
<1>1. a \in Attempt /\ SelTypeOK /\ l \in LoopState
  BY InvMeans DEF ChatInv, RefreshInv, SelInv
<1>2. l.soft = NoConn
  <2> SUFFICES ASSUME l.soft # NoConn PROVE FALSE
    OBVIOUS
  <2>1. pc' = [pc EXCEPT ![r] = "unstick"]
    BY Zenon DEF SelectFails, NoCredentials, Goto
  <2> QED
    BY <2>1, InvMeans
<1>3. Pool(r) = {}
  <2> SUFFICES ASSUME Pool(r) # {} PROVE FALSE
    OBVIOUS
  <2>1. Pool(r) \in SUBSET Conns
    BY <1>1 DEF Pool, Available, Supported, AllowedByPolicy, NonExcluded, ActiveConns, SelTypeOK
  <2>2. a.model \in Models /\ a.allow \in AllowLists
    BY <1>1 DEF Attempt
  <2>3. \E c \in Pool(r) : Selects(c, Pool(r), a.model, a.allow)
    BY <1>1, <2>1, <2>2, SelectionAnswers
  <2>4. Pinned(r) = NoConn
    BY <1>2 DEF Pinned
  <2> QED
    BY <2>1, <2>3, <2>4 DEF SelectFails, MaySelect
<1>4. untried \subseteq l.exclude \ l.tried
  BY <1>3 DEF Pool, Available, Supported, AllowedByPolicy, NonExcluded
<1>5. /\ ~l.stickyTried => l.exclude \subseteq l.tried
      /\ \E x : l.exclude \subseteq l.tried \cup {x}
  <2>1. "select" \notin Outside
    BY DEF Outside
  <2> QED
    BY <2>1 DEF HuntInv, HuntSound
<1>6. CASE ~l.stickyTried
  <2>1. untried = {}
    BY <1>4, <1>5, <1>6
  <2> QED
    BY <1>6, <2>1, FS_EmptySet
<1>7. CASE l.stickyTried
  <2>1. PICK x : l.exclude \subseteq l.tried \cup {x}
    BY <1>5
  <2>2. untried \in SUBSET {x}
    BY <1>4, <2>1
  <2>3. IsFiniteSet({x}) /\ Cardinality({x}) = 1
    BY FS_Singleton
  <2>4. Cardinality(untried) <= 1
    BY <2>2, <2>3, FS_Subset
  <2> QED
    BY <1>7, <2>4
<1> QED
  BY <1>6, <1>7

\* Selection gives up only when it is exhausted: when it ends an unpinned attempt, all
\* accounts that could serve at that moment have been tried, one rejected session pin
\* aside, whatever other requests and operators did to them meanwhile.
THEOREM SelectionGivesUpLate == Spec => SelectionGivesUpExhausted
<1> DEFINE Late(r) ==
        pc[r] = "select" /\ pc'[r] = "result" /\ ~result'[r].terminal /\ Current(r).pin = NoConn
          => LET a == Current(r)
                 untried == Available(a.model, loop[r].tried, a.allow, plan[r].tenant)
             IN Cardinality(untried) <= (IF loop[r].stickyTried THEN 1 ELSE 0)
<1>1. ChatInv /\ HuntInv /\ [Next]_vars => \A r \in Requests : Late(r)
  <2> SUFFICES ASSUME ChatInv, HuntInv, [Next]_vars, NEW r \in Requests,
                      pc[r] = "select", pc'[r] = "result", ~result'[r].terminal,
                      Current(r).pin = NoConn
               PROVE  LET a == Current(r)
                          untried == Available(a.model, loop[r].tried, a.allow, plan[r].tenant)
                      IN Cardinality(untried) <= (IF loop[r].stickyTried THEN 1 ELSE 0)
    OBVIOUS
  <2>1. CASE SelectFails(r)
    BY <2>1, NobodyLeft
  <2>2. CASE Select(r)
    <3>1. PICK c \in Conns : \/ Serves(r, c, attrs[c])
                             \/ pc' = [pc EXCEPT ![r] = "renew"]
      BY <2>2, Zenon DEF Select, Goto
    <3>2. CASE Serves(r, c, attrs[c])
      <4>1. \/ pc' = [pc EXCEPT ![r] = "execute"]
            \/ result' = [result EXCEPT ![r] = Refusal(400, FALSE, TRUE)]
        BY <3>2, Zenon DEF Serves, Return, Goto
      <4>2. result' # [result EXCEPT ![r] = Refusal(400, FALSE, TRUE)]
        BY InvMeans DEF Refusal
      <4> QED
        BY <4>1, <4>2, InvMeans
    <3>3. CASE pc' = [pc EXCEPT ![r] = "renew"]
      BY <3>3, InvMeans
    <3> QED
      BY <3>1, <3>2, <3>3
  <2> QED
    BY <2>1, <2>2, ResultOfSelection
<1> QED
  BY <1>1, ChatInvariant, HuntInvariant, PTL DEF Spec, SelectionGivesUpExhausted

-----------------------------------------------------------------------------
(* Whose accounts a request uses. *)

\* The copy that a renewal holds, and will write back, is of the account's owner.
CopiesOwned ==
    \A i \in Refreshers, c \in Conns :
        InFlight(i, c) => flight[i][c].attrs.tenant = attrs[c].tenant

\* An account keeps its owner: the operator cannot edit it, and a renewal that
\* writes an old record back cannot undo what never changed.
OwnersKept == \A c \in Conns : attrs'[c].tenant = attrs[c].tenant

Owned == RefreshInv /\ CopiesOwned

LEMMA FlightTyped ==
    ASSUME RefreshInv
    PROVE  /\ attrs \in [Conns -> Attrs]
           /\ flight \in [Refreshers -> [Conns -> GoodRecords \cup {NoFlight}]]
BY DEF RefreshInv, SelInv, SelTypeOK, FlightOK

LEMMA BeginOwned ==
    ASSUME Owned, NEW i \in Refreshers, NEW c \in Conns, BeginRefresh(i, c), UNCHANGED attrs
    PROVE  OwnersKept /\ CopiesOwned'
<1>1. flight' = [flight EXCEPT ![i] = [@ EXCEPT ![c] = Record(c)]]
  BY DEF BeginRefresh
<1>2. Record(c).attrs = attrs[c]
  BY DEF Record
<1>3. ASSUME NEW j \in Refreshers, NEW d \in Conns, flight'[j][d] # NoFlight
      PROVE  flight'[j][d].attrs.tenant = attrs[d].tenant
  <2>1. CASE j = i /\ d = c
    <3>1. flight'[j][d] = Record(c)
      BY <1>1, <2>1, FlightTyped DEF Owned
    <3> QED
      BY <1>2, <2>1, <3>1
  <2>2. CASE ~(j = i /\ d = c)
    <3>1. flight'[j][d] = flight[j][d]
      BY <1>1, <2>2, FlightTyped DEF Owned
    <3> QED
      BY <1>3, <3>1 DEF Owned, CopiesOwned, InFlight
  <2> QED
    BY <2>1, <2>2
<1> QED
  BY <1>3 DEF OwnersKept, CopiesOwned, InFlight

\* A renewal ends: its copy goes, and if it was written back, it had the same owner.
LEMMA EndOwned ==
    ASSUME Owned, NEW i \in Refreshers, NEW c \in Conns, InFlight(i, c),
           flight' = [flight EXCEPT ![i] = [@ EXCEPT ![c] = NoFlight]],
           UNCHANGED attrs \/ attrs' = [attrs EXCEPT ![c] = flight[i][c].attrs]
    PROVE  OwnersKept /\ CopiesOwned'
<1>1. OwnersKept
  <2>1. flight[i][c].attrs.tenant = attrs[c].tenant
    BY DEF Owned, CopiesOwned
  <2> QED
    BY <2>1, FlightTyped DEF Owned, OwnersKept
<1>2. ASSUME NEW j \in Refreshers, NEW d \in Conns, flight'[j][d] # NoFlight
      PROVE  flight'[j][d].attrs.tenant = attrs'[d].tenant
  <2>1. flight'[j][d] = flight[j][d]
    BY <1>2, FlightTyped DEF Owned
  <2> QED
    BY <1>1, <1>2, <2>1 DEF OwnersKept, Owned, CopiesOwned, InFlight
<1> QED
  BY <1>1, <1>2 DEF CopiesOwned, InFlight

LEMMA AsideOwned ==
    ASSUME Owned, UNCHANGED <<attrs, flight>>
    PROVE  OwnersKept /\ CopiesOwned'
BY DEF Owned, OwnersKept, CopiesOwned, InFlight

LEMMA RefresherOwned ==
    ASSUME Owned, NEW i \in Refreshers, Refresher(i)
    PROVE  OwnersKept /\ CopiesOwned'
<1>1. PICK c \in Conns : \/ BeginRefresh(i, c) /\ UNCHANGED selVars
                         \/ PersistRefresh(i, c)
                         \/ AbandonRefresh(i, c) /\ UNCHANGED selVars
  BY DEF Refresher
<1>2. CASE BeginRefresh(i, c) /\ UNCHANGED selVars
  BY <1>2, BeginOwned DEF selVars, config
<1>3. CASE PersistRefresh(i, c)
  BY <1>3, EndOwned DEF PersistRefresh, WriteRecord
<1>4. CASE AbandonRefresh(i, c) /\ UNCHANGED selVars
  BY <1>4, EndOwned DEF AbandonRefresh, selVars, config
<1> QED
  BY <1>1, <1>2, <1>3, <1>4

LEMMA OperatorOwned ==
    ASSUME Owned, Environment, UNCHANGED flight
    PROVE  OwnersKept /\ CopiesOwned'
<1>1. CASE \E c \in Operated : UpdateConnection(c)
  <2>1. PICK c \in Operated, a \in Attrs :
           attrs' = [attrs EXCEPT ![c] = a] /\ a.tenant = attrs[c].tenant
    <3>1. Operated \subseteq Conns /\ \A c \in Conns : AttrChoices[c] \subseteq Attrs
      BY ConstantsAssumption
    <3> QED
      BY <1>1, <3>1 DEF UpdateConnection, SameAccount
  <2>2. OwnersKept
    BY <2>1, FlightTyped DEF Owned, OwnersKept
  <2> QED
    BY <2>2 DEF Owned, OwnersKept, CopiesOwned, InFlight
<1>2. CASE UNCHANGED attrs
  BY <1>2, AsideOwned
<1> QED
  BY <1>1, <1>2 DEF Environment, DeleteConnection, UpdateSettings, config

LEMMA NextOwned ==
    ASSUME ChatInv, CopiesOwned, [Next]_vars
    PROVE  OwnersKept /\ CopiesOwned'
<1>1. Owned /\ Selector \in Refreshers
  BY ChatAssumption DEF ChatInv, Owned
<1>2. ASSUME NEW r \in Requests, Serve(r) PROVE OwnersKept /\ CopiesOwned'
  <2>1. CASE Renew(r)
    <3>1. UNCHANGED selVars
      BY <2>1 DEF Renew
    <3>2. \/ UNCHANGED flight
          \/ /\ \E c : BeginRefresh(Selector, c) /\ c = loop[r].conn
             /\ pc[r] \in {"renew", "refresh"}
      BY <2>1, Zenon DEF Renew, JoinRefresh
    <3>3. pc[r] \in {"renew", "refresh"} => loop[r].conn \in Conns
      BY InvMeans DEF SoundAt, Chosen, Used, Failing
    <3> QED
      BY <1>1, <3>1, <3>2, <3>3, BeginOwned, AsideOwned DEF selVars, config
  <2>2. CASE UNCHANGED <<attrs, flight>>
    BY <1>1, <2>2, AsideOwned
  <2> QED
    BY <1>2, <2>1, <2>2
       DEF Serve, Arrive, StartModel, Pick, Select, SelectFails, Unstick, Execute, Renewed,
           Clear, Advance, Bind, Mark, Spill, HandleResult, Pause, refreshVars, selVars, config
<1>3. ASSUME NEW c \in Conns, EndRefresh(c) PROVE OwnersKept /\ CopiesOwned'
  <2>1. PersistRefresh(Selector, c) \/ (AbandonRefresh(Selector, c) /\ UNCHANGED selVars)
    BY <1>3, Zenon DEF EndRefresh
  <2> QED
    BY <1>1, <2>1, EndOwned DEF PersistRefresh, AbandonRefresh, WriteRecord, selVars, config
<1>4. ASSUME NEW i \in Refreshers, Refresher(i) PROVE OwnersKept /\ CopiesOwned'
  BY <1>1, <1>4, RefresherOwned
<1>5. CASE Environment /\ UNCHANGED flight
  BY <1>1, <1>5, OperatorOwned
<1>6. CASE UNCHANGED refreshVars
  BY <1>1, <1>6, AsideOwned DEF refreshVars, selVars, config
<1> QED
  BY <1>2, <1>3, <1>4, <1>5, <1>6
     DEF Next, Cancel, Close, ExpireAffinity, ClearComboRotation, vars

\* Whoever may be selected belongs to the request's tenant, or the request has none.
LEMMA SelectableIsOwn ==
    ASSUME NEW r \in Requests, NEW c \in Conns, MaySelect(r, c)
    PROVE  plan[r].tenant \in {NoTenant, attrs[c].tenant}
BY DEF MaySelect, PinVerdict, Selects, Pool, Available, Supported, AllowedByPolicy,
       NonExcluded, ActiveConns

\* The accounts that request r has tried, and the one it has chosen, are its tenant's.
OwnAccounts(r) ==
    pc[r] \notin Outside /\ plan[r].tenant # NoTenant =>
        /\ \A c \in loop[r].tried : attrs[c].tenant = plan[r].tenant
        /\ pc[r] \in Chosen => attrs[loop[r].conn].tenant = plan[r].tenant

TenantInv == CopiesOwned /\ \A r \in Requests : OwnAccounts(r)

LEMMA TenantInvStep == ChatInv /\ TenantInv /\ [Next]_vars => TenantInv'
<1> SUFFICES ASSUME ChatInv, TenantInv, [Next]_vars, NEW q \in Requests
             PROVE  OwnAccounts(q)'
  BY NextOwned DEF TenantInv
<1> DEFINE o == loop[q]
           l == loop'[q]
           t == plan'[q].tenant
<1>1. OwnAccounts(q) /\ o \in LoopState
  BY InvMeans DEF TenantInv
<1>2. OwnersKept /\ (pc[q] \in Chosen => o.conn \in Conns) /\ o.tried \subseteq Conns
  BY <1>1, NextOwned, InvMeans DEF TenantInv, SoundAt, LoopState
<1> SUFFICES ASSUME pc'[q] \notin Outside, t # NoTenant
             PROVE  /\ \A c \in l.tried : attrs'[c].tenant = t
                    /\ pc'[q] \in Chosen => attrs'[l.conn].tenant = t
  BY DEF OwnAccounts
<1>3. ASSUME pc[q] \notin Outside, plan'[q] = plan[q]
      PROVE  /\ \A c \in o.tried : attrs'[c].tenant = t
             /\ pc[q] \in Chosen => attrs'[o.conn].tenant = t
  BY <1>1, <1>2, <1>3 DEF OwnAccounts, OwnersKept
<1>4. ASSUME plan'[q] = plan[q], NEW c \in Conns, MaySelect(q, c)
      PROVE  attrs'[c].tenant = t
  BY <1>2, <1>4, SelectableIsOwn DEF OwnersKept
<1>5. CASE Keeps(q)
  BY <1>3, <1>5 DEF Keeps, SameHunt
<1>6. CASE Starts(q)
  BY <1>6 DEF Starts, Chosen
<1>7. CASE Picks(q)
  BY <1>3, <1>7 DEF Picks, Chosen, Outside
<1>8. CASE Chooses(q)
  <2>1. l.tried = o.tried
    BY <1>1, <1>8 DEF Chooses, SameHunt, LoopState
  <2> QED
    BY <1>3, <1>4, <1>8, <2>1 DEF Chooses, Outside
<1>9. CASE Uses(q)
  <2>1. pc[q] \notin Outside /\ pc'[q] \notin Chosen /\ plan'[q] = plan[q]
    BY <1>9 DEF Uses, Outside, Chosen
  <2>2. attrs'[l.conn].tenant = t
    BY <1>3, <1>4, <1>9, <2>1 DEF Uses
  <2> QED
    BY <1>3, <1>9, <2>1, <2>2 DEF Uses
<1>10. CASE Unsticks(q)
  BY <1>3, <1>10 DEF Unsticks, Chosen, Outside
<1>11. CASE Spills(q)
  BY <1>3, <1>11 DEF Spills, Chosen, Outside
<1> HIDE DEF o, l, t
<1> QED
  BY <1>5, <1>6, <1>7, <1>8, <1>9, <1>10, <1>11, NextHunts DEF HuntMove

LEMMA TenantInvariant == Spec => []TenantInv
<1>1. Init => TenantInv
  <2> SUFFICES ASSUME Init PROVE TenantInv
    OBVIOUS
  <2>1. CopiesOwned
    BY DEF Init, RefreshInit, CopiesOwned, InFlight
  <2> QED
    BY <2>1 DEF Init, TenantInv, OwnAccounts, Outside
<1> QED
  BY <1>1, ChatInvariant, TenantInvStep, PTL DEF Spec

\* No tenant's request tries an account of another tenant, whatever bindings the tenants share,
\* whatever the operator edits and whatever stale record a renewal writes back.
THEOREM TenantsApart == Spec => []TenantIsolated
<1>1. TenantInv => TenantIsolated
  BY DEF TenantInv, OwnAccounts, TenantIsolated, InLoop, Outside
<1> QED
  BY <1>1, TenantInvariant, PTL

\* With concurrent requests too, no failure leaves half of its penalty.
THEOREM HealthWhole == Spec => []HealthNotTorn
<1>1. ChatInv => HealthNotTorn
  BY DEF ChatInv, RefreshInv, SelInv
<1> QED
  BY <1>1, ChatInvariant, PTL
=============================================================================
