----------------------- MODULE AccountSelectorProofs ------------------------
(***************************************************************************)
(* Theorems about AccountSelector, for every set of connections, models,   *)
(* settings and failures: the type invariant, the bound on cool-downs, and *)
(* the choice among the available connections: each strategy has an answer *)
(* whenever there is a candidate, and round-robin serves all in turn.      *)
(***************************************************************************)
EXTENDS AccountSelector, FiniteSetTheorems, FunctionTheorems, TLAPS

Levels == 0..BackoffMaxLevel

\* FallbackResult with the ranges CheckFallbackError keeps to.
Verdicts == [shouldFallback : BOOLEAN, cooldownMs : 0..retryAfterMaxMs,
             newBackoffLevel : Levels, modelOnly : BOOLEAN]

\* The hour bounds every fixed cool-down.
LEMMA FixedDurations ==
    /\ 0 \in 0..retryAfterMaxMs
    /\ CooldownUnauthorized \in 0..retryAfterMaxMs
    /\ CooldownPaymentReq \in 0..retryAfterMaxMs
    /\ CooldownNotFound \in 0..retryAfterMaxMs
    /\ CooldownTransient \in 0..retryAfterMaxMs
    /\ CooldownRequestNotAlwd \in 0..retryAfterMaxMs
    /\ CooldownAuthRevoked \in 0..retryAfterMaxMs
    /\ CooldownSuspended \in 0..retryAfterMaxMs
    /\ CooldownQuotaExhausted \in 0..retryAfterMaxMs
<1>1. retryAfterMaxMs \in Nat
  BY SMT DEF retryAfterMaxMs
<1>2. \A ms \in Nat : ms <= retryAfterMaxMs => ms \in 0..retryAfterMaxMs
  BY <1>1, SMT
<1>3. /\ CooldownUnauthorized \in Nat /\ CooldownUnauthorized <= retryAfterMaxMs
      /\ CooldownPaymentReq \in Nat /\ CooldownPaymentReq <= retryAfterMaxMs
      /\ CooldownNotFound \in Nat /\ CooldownNotFound <= retryAfterMaxMs
      /\ CooldownTransient \in Nat /\ CooldownTransient <= retryAfterMaxMs
  BY SMT DEF CooldownUnauthorized, CooldownPaymentReq, CooldownNotFound, CooldownTransient,
             retryAfterMaxMs
<1>4. /\ CooldownRequestNotAlwd \in Nat /\ CooldownRequestNotAlwd <= retryAfterMaxMs
      /\ CooldownAuthRevoked \in Nat /\ CooldownAuthRevoked <= retryAfterMaxMs
      /\ CooldownSuspended \in Nat /\ CooldownSuspended <= retryAfterMaxMs
      /\ CooldownQuotaExhausted \in Nat /\ CooldownQuotaExhausted <= retryAfterMaxMs
  BY SMT DEF CooldownRequestNotAlwd, CooldownAuthRevoked, CooldownSuspended,
             CooldownQuotaExhausted, retryAfterMaxMs
<1> QED
  BY <1>1, <1>2, <1>3, <1>4, SMT

\* The backoff table stays within the hour (GetQuotaCooldown).
LEMMA QuotaCooldownRange ==
    ASSUME NEW level \in Levels
    PROVE  GetQuotaCooldown(level) \in 0..retryAfterMaxMs
<1>1. \A factor \in 1..64 : /\ BackoffBase * factor \in Nat
                           /\ BackoffBase * factor <= retryAfterMaxMs
  BY SMT DEF BackoffBase, retryAfterMaxMs
<1>2. CASE level >= BackoffMaxLevel
  <2>1. GetQuotaCooldown(level) = BackoffMax
    BY <1>2 DEF GetQuotaCooldown
  <2>2. BackoffMax \in Nat /\ BackoffMax <= retryAfterMaxMs /\ retryAfterMaxMs \in Nat
    BY SMT DEF BackoffMax, retryAfterMaxMs
  <2> QED
    BY <2>1, <2>2
<1>3. CASE ~(level >= BackoffMaxLevel)
  <2>1. level + 1 \in 1..7
    BY <1>3, SMT DEF Levels, BackoffMaxLevel
  <2>2. <<1, 2, 4, 8, 16, 32, 64>>[level + 1] \in 1..64
    BY <2>1, SMT
  <2>3. GetQuotaCooldown(level) = BackoffBase * <<1, 2, 4, 8, 16, 32, 64>>[level + 1]
    BY <1>3 DEF GetQuotaCooldown
  <2>4. retryAfterMaxMs \in Nat
    BY SMT DEF retryAfterMaxMs
  <2> QED
    BY <1>1, <2>2, <2>3, <2>4
<1> QED
  BY <1>2, <1>3

\* A verdict is made of a duration within the hour and a level within the table.
LEMMA VerdictRange ==
    ASSUME NEW ms \in 0..retryAfterMaxMs, NEW level \in Levels
    PROVE  /\ Verdict(FALSE, ms, level, FALSE) \in Verdicts
           /\ CoolAccount(ms, level) \in Verdicts
           /\ CoolModel(ms, level) \in Verdicts
BY DEF CoolAccount, CoolModel, Verdict, Verdicts

\* A verdict without a penalty.
LEMMA NoPenaltyRange ==
    ASSUME NEW level \in Levels
    PROVE  NoPenalty(level) \in Verdicts
BY FixedDurations DEF NoPenalty, Verdict, Verdicts

\* Raising a level, capped, leaves it in the table.
LEMMA NextLevelRange ==
    /\ BackoffMaxLevel \in Levels
    /\ \A level \in Levels : Lesser(level + 1, BackoffMaxLevel) \in Levels
BY SMT DEF Lesser, Levels, BackoffMaxLevel

\* Quota failures: a Retry-After hint and the backoff table stay within the hour.
LEMMA QuotaVerdictRange ==
    ASSUME NEW e \in UpstreamError, NEW level \in Levels
    PROVE  QuotaVerdict(e, level) \in Verdicts
<1> DEFINE hinted == IF e.retryAfter > 0 THEN e.retryAfter ELSE GetQuotaCooldown(level)
<1>1. hinted \in 0..retryAfterMaxMs
  BY QuotaCooldownRange DEF UpstreamError
<1>2. CoolAccount(hinted, Lesser(level + 1, BackoffMaxLevel)) \in Verdicts
  <2> HIDE DEF hinted
  <2> QED BY <1>1, NextLevelRange, VerdictRange
<1>3. /\ NoPenalty(level) \in Verdicts
      /\ CoolAccount(CooldownPaymentReq, level) \in Verdicts
      /\ CoolAccount(CooldownQuotaExhausted, BackoffMaxLevel) \in Verdicts
  BY FixedDurations, NextLevelRange, NoPenaltyRange, VerdictRange
<1> QED
  BY <1>2, <1>3 DEF QuotaVerdict

\* The failures judged by their class.
LEMMA ClassVerdictRange ==
    ASSUME NEW e \in UpstreamError, NEW level \in Levels
    PROVE  ClassVerdict(e, level) \in Verdicts
<1>1. /\ CoolAccount(CooldownSuspended, BackoffMaxLevel) \in Verdicts
      /\ CoolAccount(CooldownAuthRevoked, BackoffMaxLevel) \in Verdicts
      /\ CoolAccount(CooldownUnauthorized, level) \in Verdicts
      /\ CoolAccount(IF e.status = 404 THEN CooldownNotFound ELSE CooldownTransient, level)
            \in Verdicts
  BY FixedDurations, NextLevelRange, VerdictRange
<1>2. CoolModel(IF e.retryAfter > 0 THEN e.retryAfter ELSE CooldownTransient, level)
        \in Verdicts
  BY FixedDurations, VerdictRange DEF UpstreamError
<1>3. QuotaVerdict(e, level) \in Verdicts
  BY QuotaVerdictRange
<1> QED
  BY <1>1, <1>2, <1>3 DEF ClassVerdict

\* Whatever the upstream answers, CheckFallbackError sidelines for an hour at most
\* and keeps the backoff level within its table.
LEMMA CheckFallbackErrorRange ==
    ASSUME NEW e \in UpstreamError, NEW level \in Levels
    PROVE  CheckFallbackError(e, level) \in Verdicts
<1>1. /\ Verdict(FALSE, 0, level, FALSE) \in Verdicts
      /\ CoolModel(CooldownPaymentReq, level) \in Verdicts
      /\ CoolAccount(CooldownNotFound, level) \in Verdicts
      /\ CoolAccount(CooldownRequestNotAlwd, level) \in Verdicts
  BY FixedDurations, VerdictRange
<1>2. NoPenalty(level) \in Verdicts /\ ClassVerdict(e, level) \in Verdicts
  BY NoPenaltyRange, ClassVerdictRange
<1> QED
  BY <1>1, <1>2 DEF CheckFallbackError

-----------------------------------------------------------------------------
\* The override and the clamp keep a penalty within the bound of the settings.
LEMMA PenaltyRange ==
    ASSUME NEW c \in Conns, NEW e \in Errors, SelTypeOK
    PROVE  /\ Penalty(c, e).cooldownMs \in Nat
           /\ Penalty(c, e).cooldownMs <= PenaltyBound(settings)
           /\ Penalty(c, e).newBackoffLevel \in Levels
<1> DEFINE fb  == CheckFallbackError(e, backoffLevel[c])
           cap == settings.maxCooldownSeconds
           ovr == settings.transientCooldownSeconds
<1>1. fb \in Verdicts
  <2>1. e \in UpstreamError
    BY ConstantsAssumption
  <2>2. backoffLevel[c] \in Levels
    BY DEF SelTypeOK, Levels
  <2> QED BY <2>1, <2>2, CheckFallbackErrorRange
<1>2. cap \in Nat /\ ovr \in Nat
  BY DEF SelTypeOK, Settings
<1>3. PICK ms \in Nat : /\ ms = fb.cooldownMs \/ ms = ovr * 1000
                        /\ \E flag : Penalty(c, e) =
                              [fb EXCEPT !.cooldownMs = ClampCooldownMs(ms, cap),
                                         !.modelOnly = flag]
  <2> DEFINE overridden == ClassifyUpstream(e) = "transient" /\ ovr > 0
             ms == IF overridden THEN ovr * 1000 ELSE fb.cooldownMs
  <2>1. ms \in Nat /\ (ms = fb.cooldownMs \/ ms = ovr * 1000)
    BY <1>1, <1>2 DEF Verdicts
  <2>2. Penalty(c, e) = [fb EXCEPT !.cooldownMs = ClampCooldownMs(ms, cap),
                                   !.modelOnly = @ /\ ~overridden]
    BY Zenon DEF Penalty
  <2> HIDE DEF ms, overridden, fb
  <2> QED BY <2>1, <2>2, ZenonT(30)
<1> HIDE DEF fb, cap, ovr
<1>4. fb.cooldownMs \in 0..retryAfterMaxMs
  BY <1>1 DEF Verdicts
<1>5. /\ ClampCooldownMs(ms, cap) \in Nat
      /\ ClampCooldownMs(ms, cap) <= PenaltyBound(settings)
  <2> DEFINE longest == IF ovr * 1000 > retryAfterMaxMs THEN ovr * 1000 ELSE retryAfterMaxMs
             limit   == cap * 1000
  <2>1. PenaltyBound(settings) = IF limit = 0 \/ longest < limit THEN longest ELSE limit
    BY SMT DEF PenaltyBound, cap, ovr
  <2>2. retryAfterMaxMs \in Nat
    BY SMT DEF retryAfterMaxMs
  <2>3. longest \in Nat /\ ms <= longest
    BY <1>2, <1>3, <1>4, <2>2
  <2>4. limit \in Nat /\ (limit = 0 <=> cap = 0)
    BY <1>2
  <2>5. ClampCooldownMs(ms, cap) = IF cap = 0 \/ ms = 0 THEN ms ELSE Lesser(ms, limit)
    BY DEF ClampCooldownMs
  <2> HIDE DEF longest, limit
  <2> QED
    BY <1>2, <1>3, <2>1, <2>3, <2>4, <2>5 DEF Lesser
<1>6. /\ Penalty(c, e).cooldownMs = ClampCooldownMs(ms, cap)
      /\ Penalty(c, e).newBackoffLevel = fb.newBackoffLevel
  BY <1>1, <1>3 DEF Verdicts
<1> QED
  BY <1>1, <1>5, <1>6 DEF Verdicts

\* CooldownUntil cuts to whole seconds: never later than asked for.
LEMMA CooldownUntilRange ==
    ASSUME NEW t \in Nat, NEW ms \in Nat
    PROVE  CooldownUntil(t, ms) \in Nat /\ CooldownUntil(t, ms) <= t + ms
BY DEF CooldownUntil

\* Past the first second it never cuts to the empty time.
LEMMA CooldownUntilNotEmpty ==
    ASSUME NEW t \in Nat, t >= FirstInstant, NEW ms \in Nat
    PROVE  CooldownUntil(t, ms) > 0
<1>1. t + ms >= 1000
  BY DEF FirstInstant
<1>2. (t + ms) \div 1000 >= 1
  BY <1>1
<1> QED
  BY <1>2 DEF CooldownUntil

\* The counter wraps as an int32 does.
LEMMA BumpRange ==
    ASSUME NEW counter \in (-CounterMax - 1)..CounterMax
    PROVE  Bump(counter) \in (-CounterMax - 1)..CounterMax
BY ConstantsAssumption DEF Bump
-----------------------------------------------------------------------------
(* SelInv is inductive *)

\* The times CooldownBounded admits for the end of a cool-down or a lock.
Bounded == {until \in Nat : \E s \in SettingsSet : until <= now + PenaltyBound(s)}

\* The bound is a duration.
LEMMA PenaltyBoundNat ==
    ASSUME NEW s \in SettingsSet
    PROVE  PenaltyBound(s) \in Nat
<1>1. s.transientCooldownSeconds \in Nat /\ s.maxCooldownSeconds \in Nat
  BY ConstantsAssumption DEF Settings
<1>2. retryAfterMaxMs \in Nat
  BY SMT DEF retryAfterMaxMs
<1> QED
  BY <1>1, <1>2 DEF PenaltyBound

\* SelInv puts every cool-down and every lock among the bounded times, and a
\* lifted one is bounded too.
LEMMA HealthBounded ==
    ASSUME SelInv
    PROVE  /\ rateLimitedUntil \in [Conns -> Bounded]
           /\ modelLocks \in [Conns -> [Models -> Bounded]]
           /\ 0 \in Bounded
<1>1. /\ rateLimitedUntil \in [Conns -> Nat]
      /\ \A c \in Conns : rateLimitedUntil[c] \in Bounded
  BY DEF SelInv, SelTypeOK, CooldownBounded, Bounded
<1>2. /\ modelLocks \in [Conns -> [Models -> Nat]]
      /\ \A c \in Conns, m \in Models : modelLocks[c][m] \in Bounded
  BY DEF SelInv, SelTypeOK, CooldownBounded, Bounded
<1>3. 0 \in Bounded
  BY PenaltyBoundNat DEF SelInv, SelTypeOK, Bounded
<1>4. \A c \in Conns : modelLocks[c] \in [Models -> Bounded]
  <2> TAKE c \in Conns
  <2>1. modelLocks[c] \in [Models -> Nat] /\ \A m \in Models : modelLocks[c][m] \in Bounded
    BY <1>2
  <2> QED BY <2>1
<1>5. modelLocks \in [Conns -> [Models -> Bounded]]
  BY <1>2, <1>4
<1> QED
  BY <1>1, <1>3, <1>5

\* Conversely, a step that leaves the settings and the clock alone and puts only
\* bounded times into the health of the accounts, none of it torn, preserves SelInv.
LEMMA HealthStep ==
    ASSUME SelInv, stored' \subseteq Conns, UNCHANGED <<attrs, settings, rotating, now>>,
           rateLimitedUntil' \in [Conns -> Bounded],
           backoffLevel' \in [Conns -> Levels],
           modelLocks' \in [Conns -> [Models -> Bounded]],
           HealthNotTorn'
    PROVE  SelInv'
<1>1. rateLimitedUntil' \in [Conns -> Nat] /\ modelLocks' \in [Conns -> [Models -> Nat]]
  <2>1. Bounded \subseteq Nat
    BY DEF Bounded
  <2>2. [Models -> Bounded] \subseteq [Models -> Nat]
    BY <2>1
  <2> QED BY <2>1, <2>2
<1>2. SelTypeOK'
  BY <1>1 DEF SelInv, SelTypeOK, Levels, rotating
<1>3. CooldownBounded'
  <2>1. \A c \in Conns : rateLimitedUntil'[c] \in Bounded
    OBVIOUS
  <2>2. \A c \in Conns, m \in Models : modelLocks'[c][m] \in Bounded
    OBVIOUS
  <2> QED BY <2>1, <2>2 DEF CooldownBounded, Bounded
<1> QED
  BY <1>2, <1>3 DEF SelInv

\* MarkUnavailable's cool-down ends within the bound of the settings in force, and a
\* level is written together with a cool-down.
LEMMA MarkStep ==
    ASSUME SelInv, NEW c \in Conns, NEW e \in Errors, NEW m \in Models,
           MarkUnavailable(c, e, m), UNCHANGED <<config, rotating, now>>
    PROVE  SelInv'
<1> DEFINE p     == Penalty(c, e)
           until == CooldownUntil(now, p.cooldownMs)
<1>1. p.cooldownMs \in Nat /\ p.cooldownMs <= PenaltyBound(settings)
      /\ p.newBackoffLevel \in Levels
  BY PenaltyRange DEF SelInv
<1>2. until \in Bounded
  <2>1. now \in Nat /\ settings \in SettingsSet
    BY DEF SelInv, SelTypeOK
  <2>2. until \in Nat /\ until <= now + p.cooldownMs
    BY <1>1, <2>1, CooldownUntilRange
  <2>3. PenaltyBound(settings) \in Nat
    BY <2>1, PenaltyBoundNat
  <2> HIDE DEF until, p
  <2> QED
    BY <1>1, <2>1, <2>2, <2>3 DEF Bounded
<1>3. \/ UNCHANGED health
      \/ /\ \/ UNCHANGED <<rateLimitedUntil, backoffLevel>>
            \/ /\ rateLimitedUntil' = [rateLimitedUntil EXCEPT ![c] = until]
               /\ backoffLevel' = [backoffLevel EXCEPT ![c] = p.newBackoffLevel]
         /\ \/ UNCHANGED modelLocks
            \/ modelLocks' = [modelLocks EXCEPT ![c] = [@ EXCEPT ![m] = until]]
  BY Zenon DEF MarkUnavailable
<1> HIDE DEF p, until
<1>4. /\ rateLimitedUntil \in [Conns -> Bounded]
      /\ modelLocks \in [Conns -> [Models -> Bounded]]
  BY HealthBounded
<1>5. backoffLevel \in [Conns -> Levels]
  BY DEF SelInv, SelTypeOK, Levels
<1>6. rateLimitedUntil' \in [Conns -> Bounded]
  BY <1>2, <1>3, <1>4 DEF health
<1>7. backoffLevel' \in [Conns -> Levels]
  BY <1>1, <1>3, <1>5 DEF health
<1>8. modelLocks' \in [Conns -> [Models -> Bounded]]
  <2>1. [modelLocks[c] EXCEPT ![m] = until] \in [Models -> Bounded]
    BY <1>2, <1>4
  <2> QED BY <1>3, <1>4, <2>1 DEF health
<1>9. stored' \subseteq Conns
  BY DEF SelInv, SelTypeOK, config
<1>10. HealthNotTorn'
  <2>1. until > 0
    BY <1>1, CooldownUntilNotEmpty DEF SelInv, SelTypeOK, until
  <2>2. rateLimitedUntil \in [Conns -> Nat] /\ HealthNotTorn
    BY DEF SelInv, SelTypeOK
  <2> QED
    BY <1>3, <1>5, <2>1, <2>2 DEF HealthNotTorn, health
<1> QED
  BY <1>6, <1>7, <1>8, <1>9, <1>10, HealthStep DEF config

\* A write that lifts the cool-down of one account, some of its locks or both.
LEMMA LiftStep ==
    ASSUME SelInv, NEW c \in Conns,
           stored' \subseteq Conns, UNCHANGED <<attrs, settings, rotating, now>>,
           \/ UNCHANGED <<rateLimitedUntil, backoffLevel>>
           \/ /\ rateLimitedUntil' = [rateLimitedUntil EXCEPT ![c] = 0]
              /\ backoffLevel' = [backoffLevel EXCEPT ![c] = 0],
           NEW locks \in [Models -> Bounded],
           modelLocks' = [modelLocks EXCEPT ![c] = locks]
    PROVE  SelInv'
<1>1. /\ rateLimitedUntil \in [Conns -> Bounded]
      /\ modelLocks \in [Conns -> [Models -> Bounded]]
      /\ 0 \in Bounded
  BY HealthBounded
<1>2. 0 \in Levels /\ backoffLevel \in [Conns -> Levels]
  BY DEF SelInv, SelTypeOK, Levels, BackoffMaxLevel
<1>3. rateLimitedUntil' \in [Conns -> Bounded]
  BY <1>1
<1>4. backoffLevel' \in [Conns -> Levels]
  BY <1>2
<1>5. modelLocks' \in [Conns -> [Models -> Bounded]]
  BY <1>1
<1>6. HealthNotTorn'
  <2>1. rateLimitedUntil \in [Conns -> Nat] /\ HealthNotTorn
    BY DEF SelInv, SelTypeOK
  <2> QED
    BY <1>2, <2>1 DEF HealthNotTorn
<1> QED
  BY <1>3, <1>4, <1>5, <1>6, HealthStep

\* The rotation counters touch nothing SelInv says of health.
LEMMA RotationStep ==
    ASSUME SelInv, UNCHANGED <<config, health, now>>,
           rotationKeys' \subseteq RotationKeys,
           rotation' \in [RotationKeys -> (-CounterMax - 1)..CounterMax]
    PROVE  SelInv'
BY DEF SelInv, SelTypeOK, CooldownBounded, HealthNotTorn, config, health

\* A selection may add the key of its counter; a success bumps a counter.
LEMMA RotationTyped ==
    ASSUME SelTypeOK, NEW m \in Models, NEW allow \in AllowLists
    PROVE  /\ \A avail : TouchRotation(avail, m, allow) =>
                 /\ rotationKeys' \subseteq RotationKeys
                 /\ rotation' \in [RotationKeys -> (-CounterMax - 1)..CounterMax]
           /\ AdvanceConnectionRotation(m, allow) =>
                 /\ rotationKeys' \subseteq RotationKeys
                 /\ rotation' \in [RotationKeys -> (-CounterMax - 1)..CounterMax]
<1> DEFINE Int32 == (-CounterMax - 1)..CounterMax
           key   == ConnectionRotationKey(m, allow)
<1>1. key \in RotationKeys
  BY DEF RotationKeys, ConnectionRotationKey
<1>2. rotationKeys \subseteq RotationKeys /\ rotation \in [RotationKeys -> Int32]
  BY DEF SelTypeOK
<1>3. Bump(rotation[key]) \in Int32
  BY <1>1, <1>2, BumpRange
<1> HIDE DEF Int32, key
<1>4. [rotation EXCEPT ![key] = Bump(@)] \in [RotationKeys -> Int32]
  BY <1>1, <1>2, <1>3
<1>5. \A avail : TouchRotation(avail, m, allow) =>
         rotationKeys' \subseteq RotationKeys /\ rotation' \in [RotationKeys -> Int32]
  BY <1>1, <1>2, Zenon DEF TouchRotation, key
<1>6. AdvanceConnectionRotation(m, allow) =>
         rotationKeys' \subseteq RotationKeys /\ rotation' \in [RotationKeys -> Int32]
  BY <1>2, <1>4, Zenon DEF AdvanceConnectionRotation, key
<1> QED
  BY <1>5, <1>6 DEF Int32

\* The dashboard and the clock preserve SelInv.
LEMMA EnvironmentStep ==
    ASSUME SelInv, Environment
    PROVE  SelInv'
<1>1. /\ modelLocks \in [Conns -> [Models -> Bounded]]
      /\ 0 \in Bounded /\ NoLocks \in [Models -> Bounded]
      /\ Operated \subseteq Conns
  BY HealthBounded, ConstantsAssumption DEF NoLocks
<1>2. stored \subseteq Conns
  BY DEF SelInv, SelTypeOK
<1>3. ASSUME NEW c \in Operated, DeleteConnection(c), UNCHANGED <<rotating, now>>
      PROVE  SelInv'
  BY <1>1, <1>2, <1>3, LiftStep DEF DeleteConnection
<1>4. ASSUME NEW c \in Operated, ResetCooldown(c), UNCHANGED <<config, rotating, now>>
      PROVE  SelInv'
  BY <1>1, <1>2, <1>4, LiftStep DEF ResetCooldown, config
<1>5. ASSUME NEW c \in Operated, UpdateConnection(c), UNCHANGED <<health, rotating, now>>
      PROVE  SelInv'
  <2>1. PICK a \in AttrChoices[c] : attrs' = [attrs EXCEPT ![c] = a]
    BY <1>5 DEF UpdateConnection
  <2>2. a \in Attrs
    BY <1>1, ConstantsAssumption
  <2>3. attrs' \in [Conns -> Attrs]
    BY <2>1, <2>2 DEF SelInv, SelTypeOK
  <2>4. SelTypeOK'
    BY <1>5, <2>3 DEF UpdateConnection, SelInv, SelTypeOK, health, rotating
  <2>5. CooldownBounded' /\ HealthNotTorn'
    BY <1>5 DEF UpdateConnection, SelInv, CooldownBounded, HealthNotTorn, health
  <2> QED
    BY <1>5, <2>4, <2>5 DEF UpdateConnection, SelInv
<1>6. ASSUME NEW c \in Operated, NEW m \in Models,
             ClearModelLock(c, m), UNCHANGED <<config, rotating, now>>
      PROVE  SelInv'
  <2>1. [modelLocks[c] EXCEPT ![m] = 0] \in [Models -> Bounded]
    BY <1>1
  <2>2. modelLocks' = [modelLocks EXCEPT ![c] = [modelLocks[c] EXCEPT ![m] = 0]]
    BY <1>6 DEF ClearModelLock
  <2> QED
    BY <1>1, <1>2, <1>6, <2>1, <2>2, LiftStep DEF ClearModelLock, config
<1>7. ASSUME UpdateSettings, UNCHANGED <<health, rotating, now>>
      PROVE  SelInv'
  <2>1. settings' \in SettingsSet /\ settings' \in Settings
    BY <1>7, ConstantsAssumption DEF UpdateSettings
  <2>2. SelTypeOK'
    BY <1>7, <2>1 DEF UpdateSettings, SelInv, SelTypeOK, health, rotating
  <2>3. CooldownBounded' /\ HealthNotTorn'
    BY <1>7 DEF UpdateSettings, SelInv, CooldownBounded, HealthNotTorn, health
  <2> QED BY <1>7, <2>1, <2>2, <2>3 DEF SelInv
<1>8. ASSUME Tick, UNCHANGED <<config, health, rotating>>
      PROVE  SelInv'
  <2>1. now \in Nat /\ now' \in Nat /\ now <= now'
    BY <1>8, ConstantsAssumption DEF Tick, SelInv, SelTypeOK
  <2>2. SelTypeOK'
    BY <1>8, <2>1 DEF SelInv, SelTypeOK, config, health, rotating
  <2>3. \A until \in Bounded : \E s \in SettingsSet : until <= now' + PenaltyBound(s)
    BY <2>1, PenaltyBoundNat DEF Bounded
  <2>4. CooldownBounded'
    <3>1. UNCHANGED <<rateLimitedUntil, modelLocks>>
      BY <1>8 DEF health
    <3>2. /\ \A c \in Conns : rateLimitedUntil[c] \in Bounded
          /\ \A c \in Conns, m \in Models : modelLocks[c][m] \in Bounded
      BY HealthBounded
    <3> QED BY <2>3, <3>1, <3>2 DEF CooldownBounded
  <2>5. HealthNotTorn' /\ now' >= FirstInstant
    BY <1>8, <2>1 DEF SelInv, HealthNotTorn, health, FirstInstant
  <2> QED BY <1>8, <2>2, <2>4, <2>5 DEF SelInv, config
<1> QED
  BY <1>3, <1>4, <1>5, <1>6, <1>7, <1>8 DEF Environment

\* SelInv holds of every initial state and is preserved by every step.
LEMMA SelInvInit == SelInit => SelInv
<1> SUFFICES ASSUME SelInit PROVE SelInv
  OBVIOUS
<1>1. attrs \in [Conns -> Attrs]
  <2>1. \A c \in Conns : attrs[c] \in AttrChoices[c] /\ AttrChoices[c] \subseteq Attrs
    BY ConstantsAssumption DEF SelInit
  <2>2. attrs \in [Conns -> UNION {AttrChoices[c] : c \in Conns}]
    BY DEF SelInit
  <2> QED BY <2>1, <2>2
<1>2. settings \in SettingsSet /\ settings \in Settings
  BY ConstantsAssumption DEF SelInit
<1>3. 0 \in 0..BackoffMaxLevel /\ 0 \in (-CounterMax - 1)..CounterMax
  BY ConstantsAssumption DEF BackoffMaxLevel
<1>4. SelTypeOK
  BY <1>1, <1>2, <1>3 DEF SelInit, SelTypeOK, NoLocks, FirstInstant
<1>5. CooldownBounded
  BY <1>2, PenaltyBoundNat DEF SelInit, CooldownBounded, NoLocks, FirstInstant
<1>6. HealthNotTorn /\ now >= FirstInstant
  BY DEF SelInit, HealthNotTorn, FirstInstant
<1> QED BY <1>2, <1>4, <1>5, <1>6 DEF SelInv

LEMMA SelInvStep == SelInv /\ [SelNext]_selVars => SelInv'
<1> SUFFICES ASSUME SelInv, [SelNext]_selVars PROVE SelInv'
  OBVIOUS
<1>1. ASSUME NEW c \in Conns, NEW e \in Errors, NEW m \in Models,
             MarkUnavailable(c, e, m), UNCHANGED <<config, rotating, now>>
      PROVE  SelInv'
  BY <1>1, MarkStep
<1>2. ASSUME NEW c \in Conns, NEW m \in Models,
             ClearError(c, m), UNCHANGED <<config, rotating, now>>
      PROVE  SelInv'
  <2>1. CASE c \notin stored
    BY <1>2, <2>1 DEF ClearError, SelInv, SelTypeOK, CooldownBounded, HealthNotTorn,
                     config, health, rotating
  <2>2. CASE c \in stored
    <3> DEFINE locks == [k \in Models |-> IF k = m \/ modelLocks[c][k] < now
                                           THEN 0 ELSE modelLocks[c][k]]
    <3>1. locks \in [Models -> Bounded]
      BY HealthBounded
    <3>2. /\ modelLocks' = [modelLocks EXCEPT ![c] = locks]
          /\ rateLimitedUntil' = [rateLimitedUntil EXCEPT ![c] = 0]
          /\ backoffLevel' = [backoffLevel EXCEPT ![c] = 0]
      BY <1>2, <2>2 DEF ClearError
    <3>3. stored' \subseteq Conns
      BY <1>2 DEF SelInv, SelTypeOK, config
    <3> HIDE DEF locks
    <3> QED BY <1>2, <3>1, <3>2, <3>3, LiftStep DEF config
  <2> QED BY <2>1, <2>2
<1>3. ASSUME SelectCredentials, UNCHANGED <<config, health, now>>
      PROVE  SelInv'
  <2>1. PICK m \in Models, allow \in AllowLists : \E avail : TouchRotation(avail, m, allow)
    BY <1>3 DEF SelectCredentials
  <2> QED BY <1>3, <2>1, RotationTyped, RotationStep DEF SelInv
<1>4. ASSUME NEW m \in Models, NEW allow \in AllowLists,
             AdvanceConnectionRotation(m, allow), UNCHANGED <<config, health, now>>
      PROVE  SelInv'
  BY <1>4, RotationTyped, RotationStep DEF SelInv
<1>5. ASSUME ResetRotation, UNCHANGED <<config, health, now>>
      PROVE  SelInv'
  <2>1. 0 \in (-CounterMax - 1)..CounterMax
    BY ConstantsAssumption
  <2> QED BY <1>5, <2>1, RotationStep DEF ResetRotation
<1>6. CASE Environment
  BY <1>6, EnvironmentStep
<1>7. CASE UNCHANGED selVars
  BY <1>7 DEF SelInv, SelTypeOK, CooldownBounded, HealthNotTorn, selVars, config, health,
              rotating
<1> QED
  BY <1>1, <1>2, <1>3, <1>4, <1>5, <1>6, <1>7 DEF SelNext

-----------------------------------------------------------------------------
(* The theorems *)

\* Every variable of the selector keeps its type; in particular no failure, no
\* upstream and no operator takes a backoff level outside the backoff table, and
\* the rotation counters stay 32-bit integers.
THEOREM SelectorTyped == SelSpec => []SelTypeOK
<1>1. SelInv => SelTypeOK
  BY DEF SelInv
<1> QED
  BY <1>1, SelInvInit, SelInvStep, PTL DEF SelSpec

\* No cool-down and no model lock outlives the longest penalty of settings that an
\* operator saved.
THEOREM SelectorCooldownBounded == SelSpec => []CooldownBounded
<1>1. SelInv => CooldownBounded
  BY DEF SelInv
<1> QED
  BY <1>1, SelInvInit, SelInvStep, PTL DEF SelSpec

\* An escalated backoff always comes with the cool-down that was set with it.
THEOREM SelectorHealthNotTorn == SelSpec => []HealthNotTorn
<1>1. SelInv => HealthNotTorn
  BY DEF SelInv
<1> QED
  BY <1>1, SelInvInit, SelInvStep, PTL DEF SelSpec

\* No verdict lowers the level it is given: it keeps it, raises it by one below the
\* cap, or sets the cap.
LEMMA VerdictKeepsLevel ==
    ASSUME NEW e \in UpstreamError, NEW level \in Levels
    PROVE  CheckFallbackError(e, level).newBackoffLevel >= level
<1> DEFINE Keeps(v) == v.newBackoffLevel >= level
<1>1. /\ level >= level /\ BackoffMaxLevel >= level
      /\ Lesser(level + 1, BackoffMaxLevel) >= level
  BY SMT DEF Levels, BackoffMaxLevel, Lesser
<1>2. \A ms, should, modelOnly, l :
         l >= level => Keeps(Verdict(should, ms, l, modelOnly))
  BY DEF Verdict
<1> HIDE DEF Keeps
<1>3. /\ Keeps(NoPenalty(level))
      /\ \A ms : /\ Keeps(CoolAccount(ms, level)) /\ Keeps(CoolModel(ms, level))
                 /\ Keeps(CoolAccount(ms, BackoffMaxLevel))
                 /\ Keeps(CoolAccount(ms, Lesser(level + 1, BackoffMaxLevel)))
                 /\ Keeps(Verdict(FALSE, ms, level, FALSE))
  BY <1>1, <1>2, Zenon DEF NoPenalty, CoolAccount, CoolModel
<1>4. Keeps(QuotaVerdict(e, level))
  BY <1>3 DEF QuotaVerdict
<1>5. Keeps(ClassVerdict(e, level))
  BY <1>3, <1>4 DEF ClassVerdict
<1>6. Keeps(CheckFallbackError(e, level))
  BY <1>3, <1>5 DEF CheckFallbackError
<1> QED BY <1>6 DEF Keeps

\* The backoff of an account goes down only with a full reset of the account,
\* whatever failures, successes and operators interleave.
THEOREM SelectorBackoffFallsOnlyByReset == SelSpec => BackoffFallsOnlyByReset
<1> DEFINE Good == \A c \in Conns : backoffLevel'[c] < backoffLevel[c] =>
                      backoffLevel'[c] = 0 /\ rateLimitedUntil'[c] = 0
<1>1. SelInv /\ [SelNext]_selVars => [Good]_selVars
  <2> SUFFICES ASSUME SelInv, SelNext PROVE Good
    OBVIOUS
  <2>1. backoffLevel \in [Conns -> Levels] /\ rateLimitedUntil \in [Conns -> Nat]
    BY DEF SelInv, SelTypeOK, Levels
  <2>2. (UNCHANGED <<rateLimitedUntil, backoffLevel>>) => Good
    BY <2>1 DEF Levels
  <2>3. ASSUME NEW c \in Conns, rateLimitedUntil' = [rateLimitedUntil EXCEPT ![c] = 0],
               backoffLevel' = [backoffLevel EXCEPT ![c] = 0]
        PROVE  Good
    BY <2>1, <2>3 DEF Levels
  <2>4. ASSUME NEW c \in Conns, NEW level \in Levels, level >= backoffLevel[c],
               backoffLevel' = [backoffLevel EXCEPT ![c] = level]
        PROVE  Good
    BY <2>1, <2>4 DEF Levels
  <2> HIDE DEF Good
  <2>5. ASSUME NEW c \in Conns, NEW e \in Errors, NEW m \in Models, MarkUnavailable(c, e, m)
        PROVE  Good
    <3>1. Penalty(c, e).newBackoffLevel \in Levels
      BY PenaltyRange DEF SelInv
    <3>2. Penalty(c, e).newBackoffLevel >= backoffLevel[c]
      <4> DEFINE fb == CheckFallbackError(e, backoffLevel[c])
      <4>1. e \in UpstreamError /\ backoffLevel[c] \in Levels
        BY <2>1, ConstantsAssumption
      <4>2. fb \in Verdicts /\ fb.newBackoffLevel >= backoffLevel[c]
        BY <4>1, CheckFallbackErrorRange, VerdictKeepsLevel
      <4> DEFINE overridden == /\ ClassifyUpstream(e) = "transient"
                               /\ settings.transientCooldownSeconds > 0
                 ms == IF overridden THEN settings.transientCooldownSeconds * 1000
                                     ELSE fb.cooldownMs
                 clamped == ClampCooldownMs(ms, settings.maxCooldownSeconds)
      <4>3. Penalty(c, e) = [fb EXCEPT !.cooldownMs = clamped,
                                       !.modelOnly = @ /\ ~overridden]
        BY Zenon DEF Penalty
      <4> HIDE DEF fb, overridden, ms, clamped
      <4> QED BY <4>2, <4>3 DEF Verdicts
    <3>3. \/ UNCHANGED <<rateLimitedUntil, backoffLevel>>
          \/ backoffLevel' = [backoffLevel EXCEPT ![c] = Penalty(c, e).newBackoffLevel]
      BY <2>5, Zenon DEF MarkUnavailable, health
    <3> QED BY <2>2, <2>4, <3>1, <3>2, <3>3
  <2>6. ASSUME NEW c \in Conns, NEW m \in Models, ClearError(c, m)
        PROVE  Good
    BY <2>2, <2>3, <2>6, Zenon DEF ClearError, health
  <2>7. CASE UNCHANGED health
    BY <2>2, <2>7 DEF health
  <2>8. CASE Environment
    <3>1. Operated \subseteq Conns
      BY ConstantsAssumption
    <3>2. \/ \E c \in Conns : DeleteConnection(c) \/ ResetCooldown(c)
          \/ \E c \in Conns, m \in Models : ClearModelLock(c, m)
          \/ UNCHANGED health
      BY <2>8, <3>1, Zenon DEF Environment
    <3> QED
      BY <2>2, <2>3, <2>7, <3>2 DEF DeleteConnection, ResetCooldown, ClearModelLock
  <2> QED
    BY <2>5, <2>6, <2>7, <2>8, Zenon DEF SelNext
<1> QED
  BY <1>1, SelInvInit, SelInvStep, PTL DEF SelSpec, BackoffFallsOnlyByReset

\* Whether a failure is charged to the model depends on the failure, not on the
\* backoff level of the account that met it.
LEMMA ModelOnlyWhateverLevel ==
    ASSUME NEW e, NEW level, NEW other
    PROVE  CheckFallbackError(e, level).modelOnly <=> CheckFallbackError(e, other).modelOnly
<1>1. \A ms, l : /\ ~NoPenalty(l).modelOnly /\ ~CoolAccount(ms, l).modelOnly
                 /\ CoolModel(ms, l).modelOnly
                 /\ ~Verdict(FALSE, ms, l, FALSE).modelOnly
  BY DEF NoPenalty, CoolAccount, CoolModel, Verdict
<1>2. \A l : ~QuotaVerdict(e, l).modelOnly
  BY <1>1, Zenon DEF QuotaVerdict
<1>3. \A l : ClassVerdict(e, l).modelOnly <=> ClassifyUpstream(e) = "transient"
  BY <1>1, <1>2 DEF ClassVerdict
<1> QED
  BY <1>1, <1>3 DEF CheckFallbackError

\* An outage of one model leaves every other model of the account available, unless
\* the operator made transient failures an account-level circuit breaker.
THEOREM SelectorModelFaultIsolated == SelSpec => ModelFaultIsolated
<1> DEFINE Good == UNCHANGED <<config, now>> /\ settings.transientCooldownSeconds = 0 =>
              \A c \in Worsened, e \in {f \in Errors : ModelFault(f)}, m \in Models :
                 MarkUnavailable(c, e, m) =>
                    \A k \in Models \ {m} : c \in Available(k, {}, {}, NoTenant)
                                              => c \in Available(k, {}, {}, NoTenant)'
<1>1. SelInv /\ [SelNext]_selVars => [Good]_selVars
  <2> SUFFICES ASSUME SelInv, UNCHANGED <<config, now>>,
                      settings.transientCooldownSeconds = 0,
                      NEW c \in Worsened, NEW e \in {f \in Errors : ModelFault(f)},
                      NEW m \in Models, MarkUnavailable(c, e, m),
                      NEW k \in Models \ {m}, c \in Available(k, {}, {}, NoTenant)
               PROVE  c \in Available(k, {}, {}, NoTenant)'
    OBVIOUS
  <2>1. c \in Conns /\ modelLocks \in [Conns -> [Models -> Nat]]
    BY DEF Worsened, SelInv, SelTypeOK
  <2>2. Penalty(c, e).modelOnly
    <3> DEFINE fb == CheckFallbackError(e, backoffLevel[c])
    <3>1. fb \in Verdicts
      BY <2>1, ConstantsAssumption, CheckFallbackErrorRange DEF SelInv, SelTypeOK, Levels
    <3>2. fb.modelOnly
      BY ModelOnlyWhateverLevel DEF ModelFault
    <3> DEFINE overridden == /\ ClassifyUpstream(e) = "transient"
                             /\ settings.transientCooldownSeconds > 0
               ms == IF overridden THEN settings.transientCooldownSeconds * 1000
                                   ELSE fb.cooldownMs
    <3>3. Penalty(c, e) = [fb EXCEPT !.cooldownMs =
                                        ClampCooldownMs(ms, settings.maxCooldownSeconds),
                                     !.modelOnly = @ /\ ~overridden]
      BY Zenon DEF Penalty
    <3>4. ~overridden
      OBVIOUS
    <3> HIDE DEF fb, overridden, ms
    <3> QED
      BY <3>1, <3>2, <3>3, <3>4 DEF Verdicts
  <2>3. UNCHANGED rateLimitedUntil /\ modelLocks'[c][k] = modelLocks[c][k]
    <3>1. \/ UNCHANGED health
          \/ /\ UNCHANGED rateLimitedUntil
             /\ \/ UNCHANGED modelLocks
                \/ \E until : modelLocks' = [modelLocks EXCEPT ![c] = [@ EXCEPT ![m] = until]]
      BY <2>2, Zenon DEF MarkUnavailable
    <3>2. ASSUME NEW until, modelLocks' = [modelLocks EXCEPT ![c] = [@ EXCEPT ![m] = until]]
          PROVE  modelLocks'[c][k] = modelLocks[c][k]
      BY <2>1, <3>2
    <3> QED
      BY <3>1, <3>2 DEF health
  <2> QED
    BY <2>3 DEF Available, Supported, AllowedByPolicy, NonExcluded, ActiveConns, Allowed,
                SupportsModel, IsAccountUnavailable, IsModelLockActive, config
<1> QED
  BY <1>1, SelInvInit, SelInvStep, PTL DEF SelSpec, ModelFaultIsolated

\* A success serves its account and model again at once, and spares the locks that
\* other models of the account still serve.
THEOREM SelectorSuccessRestores == SelSpec => SuccessRestores
<1> DEFINE Good == UNCHANGED <<config, now>> =>
              \A c \in {d \in stored : <<rateLimitedUntil[d], modelLocks[d]>>'
                                        # <<rateLimitedUntil[d], modelLocks[d]>>},
                 m \in Models :
                 ClearError(c, m) =>
                    /\ ~IsAccountUnavailable(c)' /\ ~IsModelLockActive(c, m)'
                    /\ \A k \in Models \ {m} :
                          IsModelLockActive(c, k) => IsModelLockActive(c, k)'
<1>1. SelInv /\ [SelNext]_selVars => [Good]_selVars
  <2> SUFFICES ASSUME SelInv, UNCHANGED <<config, now>>, NEW c \in stored,
                      NEW m \in Models, ClearError(c, m)
               PROVE  /\ ~IsAccountUnavailable(c)' /\ ~IsModelLockActive(c, m)'
                      /\ \A k \in Models \ {m} :
                            IsModelLockActive(c, k) => IsModelLockActive(c, k)'
    OBVIOUS
  <2>1. /\ c \in Conns /\ now \in Nat /\ now' = now
        /\ rateLimitedUntil \in [Conns -> Nat] /\ modelLocks \in [Conns -> [Models -> Nat]]
    BY DEF SelInv, SelTypeOK
  <2>2. rateLimitedUntil'[c] = 0
    BY <2>1 DEF ClearError
  <2>3. modelLocks'[c] = [k \in Models |-> IF k = m \/ modelLocks[c][k] < now
                                            THEN 0 ELSE modelLocks[c][k]]
    BY <2>1 DEF ClearError
  <2>4. modelLocks'[c][m] = 0
    BY <2>3
  <2>5. ASSUME NEW k \in Models \ {m}, modelLocks[c][k] > now
        PROVE  modelLocks'[c][k] = modelLocks[c][k]
    BY <2>1, <2>3, <2>5
  <2> QED
    BY <2>1, <2>2, <2>4, <2>5 DEF IsAccountUnavailable, IsModelLockActive
<1> QED
  BY <1>1, SelInvInit, SelInvStep, PTL DEF SelSpec, SuccessRestores

\* The pinned and the pooled availability rules agree in every state, whatever the
\* accounts, models and tenants.
THEOREM SelectorPinAgreesWithPool == SelSpec => []PinAgreesWithPool
<1>1. PinAgreesWithPool
  <2> SUFFICES ASSUME NEW c \in Conns, NEW m \in Models, NEW t \in Tenants \cup {NoTenant},
                      NEW excl \in SUBSET Conns
               PROVE  PinVerdict(m, c, excl, t) = "ok" <=> c \in Available(m, excl, {c}, t)
    BY DEF PinAgreesWithPool
  <2>1. PinVerdict(m, c, excl, t) = "ok" <=>
           /\ c \notin excl /\ c \in ActiveConns(m, t) /\ SupportsModel(c, m)
           /\ ~IsAccountUnavailable(c) /\ ~IsModelLockActive(c, m)
    BY DEF PinVerdict
  <2>2. c \in Available(m, excl, {c}, t) <=>
           /\ c \notin excl /\ c \in ActiveConns(m, t) /\ SupportsModel(c, m)
           /\ ~IsAccountUnavailable(c) /\ ~IsModelLockActive(c, m)
    BY DEF Available, Supported, AllowedByPolicy, NonExcluded, Allowed
  <2> QED BY <2>1, <2>2
<1> QED BY <1>1, PTL

-----------------------------------------------------------------------------
(* Ranks: a strict total order numbers a finite set. *)

StrictOrder(R, S) ==
    /\ \A x \in S : <<x, x>> \notin R
    /\ \A x, y, z \in S : <<x, y>> \in R /\ <<y, z>> \in R => <<x, z>> \in R
    /\ \A x, y \in S : x # y => <<x, y>> \in R \/ <<y, x>> \in R

Before(R, S, x) == {y \in S : <<y, x>> \in R}
Rank(R, S, x)   == Cardinality(Before(R, S, x))

LEMMA RankRange ==
    ASSUME NEW S, NEW R, IsFiniteSet(S), StrictOrder(R, S), NEW x \in S
    PROVE  Rank(R, S, x) \in 0..(Cardinality(S) - 1)
<1>1. Before(R, S, x) \subseteq S \ {x}
  BY DEF Before, StrictOrder
<1>2. /\ IsFiniteSet(S \ {x})
      /\ Cardinality(S \ {x}) = Cardinality(S) - 1
  BY FS_RemoveElement
<1>3. /\ IsFiniteSet(Before(R, S, x))
      /\ Cardinality(Before(R, S, x)) <= Cardinality(S) - 1
  BY <1>1, <1>2, FS_Subset
<1> QED
  BY <1>3, FS_CardinalityType DEF Rank

\* Whoever comes before has fewer before it.
LEMMA RankGrows ==
    ASSUME NEW S, NEW R, IsFiniteSet(S), StrictOrder(R, S),
           NEW x \in S, NEW y \in S, <<x, y>> \in R
    PROVE  Rank(R, S, x) < Rank(R, S, y)
<1>1. IsFiniteSet(Before(R, S, y))
  <2>1. Before(R, S, y) \in SUBSET S
    BY DEF Before
  <2> QED
    BY <2>1, FS_Subset
<1>2. Before(R, S, x) \in SUBSET Before(R, S, y)
  BY DEF Before, StrictOrder
<1>3. x \in Before(R, S, y) /\ x \notin Before(R, S, x)
  BY DEF Before, StrictOrder
<1>4. /\ IsFiniteSet(Before(R, S, x))
      /\ Rank(R, S, x) <= Rank(R, S, y)
      /\ Rank(R, S, y) = Rank(R, S, x) => Before(R, S, y) = Before(R, S, x)
  BY <1>1, <1>2, FS_Subset DEF Rank
<1>5. Rank(R, S, x) \in Nat /\ Rank(R, S, y) \in Nat
  BY <1>1, <1>4, FS_CardinalityType DEF Rank
<1> QED
  BY <1>3, <1>4, <1>5

\* The ranks are 0 to n - 1, each taken exactly once.
LEMMA RanksAreAllTaken ==
    ASSUME NEW S, NEW R, IsFiniteSet(S), StrictOrder(R, S)
    PROVE  /\ \A x, y \in S : Rank(R, S, x) = Rank(R, S, y) => x = y
           /\ \A k \in 0..(Cardinality(S) - 1) : \E x \in S : Rank(R, S, x) = k
<1> DEFINE Places == 0..(Cardinality(S) - 1)
           rank   == [x \in S |-> Rank(R, S, x)]
<1>1. \A x, y \in S : x # y => Rank(R, S, x) # Rank(R, S, y)
  <2> SUFFICES ASSUME NEW x \in S, NEW y \in S, x # y, Rank(R, S, x) = Rank(R, S, y)
               PROVE  FALSE
    OBVIOUS
  <2>1. Rank(R, S, x) \in Int /\ Rank(R, S, y) \in Int
    BY RankRange
  <2>2. Rank(R, S, x) < Rank(R, S, y) \/ Rank(R, S, y) < Rank(R, S, x)
    BY RankGrows DEF StrictOrder
  <2> QED
    BY <2>1, <2>2
<1>2. rank \in [S -> Places]
  BY RankRange
<1>3. rank \in Injection(S, Places)
  BY <1>1, <1>2, Fun_IsInj
<1>4. /\ IsFiniteSet(Places) /\ Cardinality(Places) = Cardinality(S)
  <2>1. Cardinality(S) \in Nat
    BY FS_CardinalityType
  <2> QED
    BY <2>1, FS_Interval
<1>5. rank \in Surjection(S, Places)
  BY <1>3, <1>4, FS_Injection
<1>6. \A k \in Places : \E x \in S : rank[x] = k
  <2> HIDE DEF Places, rank
  <2> QED
    BY <1>5, Fun_SurjectionProperties
<1> QED
  BY <1>1, <1>6

\* In particular a finite set that is not empty has a first element.
LEMMA FirstExists ==
    ASSUME NEW S, NEW R, IsFiniteSet(S), StrictOrder(R, S), S # {}
    PROVE  \E x \in S : \A y \in S \ {x} : <<x, y>> \in R
<1>1. Cardinality(S) \in Nat /\ Cardinality(S) # 0
  BY FS_CardinalityType, FS_EmptySet
<1>2. 0 \in 0..(Cardinality(S) - 1)
  BY <1>1
<1>3. PICK x \in S : Rank(R, S, x) = 0
  BY <1>2, RanksAreAllTaken
<1>4. Before(R, S, x) = {}
  <2>1. Before(R, S, x) \in SUBSET S
    BY DEF Before
  <2>2. IsFiniteSet(Before(R, S, x))
    BY <2>1, FS_Subset
  <2> QED
    BY <1>3, <2>2, FS_EmptySet DEF Rank
<1>5. \A y \in S \ {x} : <<x, y>> \in R
  BY <1>4 DEF Before, StrictOrder
<1> QED
  BY <1>5

-----------------------------------------------------------------------------
(* The rotation counter: its remainder, also once it has wrapped below zero *)

LEMMA DivisionExact ==
    ASSUME NEW a \in Nat, NEW n \in Nat \ {0}
    PROVE  /\ a % n \in 0..(n - 1)
           /\ a \div n \in Int
           /\ a = ((a \div n) * n) + (a % n)
OBVIOUS

\* A remainder is unique.
LEMMA RemainderUnique ==
    ASSUME NEW n \in Nat \ {0}, NEW p \in Int, NEW q \in Int,
           NEW j \in 0..(n - 1), NEW k \in 0..(n - 1), p * n + j = q * n + k
    PROVE  j = k
<1>1. \A d \in Int : d >= 1 => d * n >= n
  <2> SUFFICES ASSUME NEW d \in Int, d >= 1 PROVE d * n >= n
    OBVIOUS
  <2>1. d - 1 \in Nat /\ n \in Nat
    OBVIOUS
  <2>2. (d - 1) * n >= 0
    BY <2>1
  <2> QED
    BY <2>2
<1>2. (p - q) * n = k - j /\ (q - p) * n = j - k
  OBVIOUS
<1>3. ~(p - q >= 1)
  <2> SUFFICES ASSUME p - q >= 1 PROVE FALSE
    OBVIOUS
  <2>1. (p - q) * n >= n
    BY <1>1
  <2> QED
    BY <1>2, <2>1
<1>4. ~(q - p >= 1)
  <2> SUFFICES ASSUME q - p >= 1 PROVE FALSE
    OBVIOUS
  <2>1. (q - p) * n >= n
    BY <1>1
  <2> QED
    BY <1>2, <2>1
<1>5. p = q
  BY <1>3, <1>4
<1> QED
  BY <1>5

\* RotationOffset is the remainder of mathematics: a place among the n candidates.
LEMMA OffsetIsRemainder ==
    ASSUME NEW counter \in Int, NEW n \in Nat \ {0}
    PROVE  /\ RotationOffset(counter, n) \in 0..(n - 1)
           /\ \E q \in Int : counter = q * n + RotationOffset(counter, n)
<1>1. CASE counter >= 0
  <2>1. counter \in Nat
    BY <1>1
  <2>2. RotationOffset(counter, n) = counter % n
    BY <1>1, <2>1, DivisionExact DEF RotationOffset, GoRem
  <2> QED
    BY <2>1, <2>2, DivisionExact
<1>2. CASE counter < 0
  <2> DEFINE rem == (-counter) % n
             quo == (-counter) \div n
  <2>1. -counter \in Nat
    BY <1>2
  <2>2. rem \in 0..(n - 1) /\ quo \in Int /\ -counter = quo * n + rem
    BY <2>1, DivisionExact
  <2>3. RotationOffset(counter, n) = IF -rem < 0 THEN -rem + n ELSE -rem
    BY <1>2 DEF RotationOffset, GoRem
  <2> HIDE DEF rem, quo
  <2>4. RotationOffset(counter, n) = IF rem > 0 THEN n - rem ELSE 0
    BY <2>2, <2>3
  <2>5. CASE rem > 0
    <3>1. counter = ((-quo - 1) * n) + (n - rem)
      BY <2>2
    <3> QED
      BY <2>2, <2>4, <2>5, <3>1
  <2>6. CASE ~(rem > 0)
    <3>1. counter = ((-quo) * n) + 0
      BY <2>2, <2>6
    <3> QED
      BY <2>2, <2>4, <2>6, <3>1
  <2> QED
    BY <2>5, <2>6
<1> QED
  BY <1>1, <1>2

\* n counters in a row point at all n places.
LEMMA OffsetsCoverPlaces ==
    ASSUME NEW first \in Int, NEW n \in Nat \ {0}, NEW k \in 0..(n - 1)
    PROVE  \E i \in 0..(n - 1) : RotationOffset(first + i, n) = k
<1> DEFINE o == RotationOffset(first, n)
           i == IF k >= o THEN k - o ELSE k - o + n
<1>1. PICK q \in Int : first = q * n + o
  BY OffsetIsRemainder
<1>2. o \in 0..(n - 1)
  BY OffsetIsRemainder
<1> HIDE DEF o
<1>3. i \in 0..(n - 1)
  BY <1>2
<1>4. PICK p \in Int : first + i = p * n + k
  <2>1. CASE k >= o
    <3>1. first + i = q * n + k
      BY <1>1, <1>2, <2>1
    <3> QED
      BY <3>1
  <2>2. CASE ~(k >= o)
    <3>1. first + i = (q + 1) * n + k
      BY <1>1, <1>2, <2>2
    <3> QED
      BY <3>1
  <2> QED
    BY <2>1, <2>2
<1> HIDE DEF i
<1>5. first + i \in Int
  BY <1>3
<1>6. /\ RotationOffset(first + i, n) \in 0..(n - 1)
      /\ \E r \in Int : first + i = r * n + RotationOffset(first + i, n)
  BY <1>5, OffsetIsRemainder
<1>7. RotationOffset(first + i, n) = k
  BY <1>4, <1>6, RemainderUnique
<1> QED
  BY <1>3, <1>7

-----------------------------------------------------------------------------
(* The orders the strategies sort by *)

ByWeight(S)   == {p \in S \X S : Heavier(p[1], p[2])}
ByWeightId(S) == {p \in S \X S : HeavierOrLowerId(p[1], p[2])}
ByPriority(S) == {p \in S \X S : \/ attrs[p[1]].priority < attrs[p[2]].priority
                                 \/ /\ attrs[p[1]].priority = attrs[p[2]].priority
                                    /\ IdOrder[p[1]] < IdOrder[p[2]]}

LEMMA SortKeys ==
    ASSUME SelTypeOK, NEW c \in Conns
    PROVE  /\ NormalizedWeight(c) \in Int /\ attrs[c].priority \in Int
           /\ ConfigOrder[c] \in Int /\ IdOrder[c] \in Int
BY ConstantsAssumption DEF SelTypeOK, Attrs, NormalizedWeight

LEMMA SortOrders ==
    ASSUME SelTypeOK, NEW S \in SUBSET Conns
    PROVE  /\ StrictOrder(ByWeight(S), S)
           /\ StrictOrder(ByWeightId(S), S)
           /\ StrictOrder(ByPriority(S), S)
<1>1. \A c \in S : /\ NormalizedWeight(c) \in Int /\ attrs[c].priority \in Int
                   /\ ConfigOrder[c] \in Int /\ IdOrder[c] \in Int
  BY SortKeys
<1>2. \A c, d \in S : c # d => ConfigOrder[c] # ConfigOrder[d] /\ IdOrder[c] # IdOrder[d]
  BY ConstantsAssumption
<1>3. StrictOrder(ByWeight(S), S)
  <2>1. \A c, d \in S : <<c, d>> \in ByWeight(S) <=> Heavier(c, d)
    BY DEF ByWeight
  <2>2. /\ \A c \in S : ~Heavier(c, c)
        /\ \A c, d, e \in S : Heavier(c, d) /\ Heavier(d, e) => Heavier(c, e)
        /\ \A c, d \in S : c # d => Heavier(c, d) \/ Heavier(d, c)
    BY <1>1, <1>2 DEF Heavier
  <2> QED
    BY <2>1, <2>2 DEF StrictOrder
<1>4. StrictOrder(ByWeightId(S), S)
  <2>1. \A c, d \in S : <<c, d>> \in ByWeightId(S) <=> HeavierOrLowerId(c, d)
    BY DEF ByWeightId
  <2>2. /\ \A c \in S : ~HeavierOrLowerId(c, c)
        /\ \A c, d, e \in S : HeavierOrLowerId(c, d) /\ HeavierOrLowerId(d, e)
                                 => HeavierOrLowerId(c, e)
        /\ \A c, d \in S : c # d => HeavierOrLowerId(c, d) \/ HeavierOrLowerId(d, c)
    BY <1>1, <1>2 DEF HeavierOrLowerId
  <2> QED
    BY <2>1, <2>2 DEF StrictOrder
<1>5. StrictOrder(ByPriority(S), S)
  BY <1>1, <1>2 DEF StrictOrder, ByPriority
<1> QED
  BY <1>3, <1>4, <1>5

\* What a set of connections has, being part of a finite configuration.
LEMMA CandidatesFinite ==
    ASSUME NEW avail \in SUBSET Conns, avail # {}
    PROVE  IsFiniteSet(avail) /\ Cardinality(avail) \in Nat \ {0}
<1>1. IsFiniteSet(avail)
  BY ConstantsAssumption, FS_Subset
<1> QED
  BY <1>1, FS_CardinalityType, FS_EmptySet

\* RoundRobinPick compares the place by weight with the counter's remainder.
LEMMA PickIsRank ==
    ASSUME SelTypeOK, NEW avail \in SUBSET Conns, NEW c \in avail, NEW counter
    PROVE  RoundRobinPick(c, avail, counter) <=>
              Rank(ByWeight(avail), avail, c) = RotationOffset(counter, Cardinality(avail))
<1>1. ~Heavier(c, c)
  BY SortOrders DEF StrictOrder, ByWeight
<1>2. {d \in avail \ {c} : Heavier(d, c)} = Before(ByWeight(avail), avail, c)
  BY <1>1 DEF Before, ByWeight
<1> QED
  BY <1>2 DEF RoundRobinPick, Rank

\* Every counter points at exactly one candidate.
LEMMA PickUnique ==
    ASSUME SelTypeOK, NEW avail \in SUBSET Conns, avail # {}, NEW counter \in Int
    PROVE  \E c \in avail : /\ RoundRobinPick(c, avail, counter)
                            /\ \A d \in avail : RoundRobinPick(d, avail, counter) => d = c
<1> DEFINE n == Cardinality(avail)
           R == ByWeight(avail)
<1>1. IsFiniteSet(avail) /\ n \in Nat \ {0} /\ StrictOrder(R, avail)
  BY CandidatesFinite, SortOrders
<1>2. RotationOffset(counter, n) \in 0..(n - 1)
  BY <1>1, OffsetIsRemainder
<1>3. PICK c \in avail : Rank(R, avail, c) = RotationOffset(counter, n)
  BY <1>1, <1>2, RanksAreAllTaken
<1>4. \A d \in avail : Rank(R, avail, d) = Rank(R, avail, c) => d = c
  BY <1>1, RanksAreAllTaken
<1> QED
  BY <1>3, <1>4, PickIsRank

\* n counters in a row point at every candidate.
LEMMA PicksCover ==
    ASSUME SelTypeOK, NEW avail \in SUBSET Conns, avail # {}, NEW first \in Int,
           NEW c \in avail
    PROVE  \E i \in 0..(Cardinality(avail) - 1) : RoundRobinPick(c, avail, first + i)
<1> DEFINE n == Cardinality(avail)
           k == Rank(ByWeight(avail), avail, c)
<1>1. IsFiniteSet(avail) /\ n \in Nat \ {0} /\ StrictOrder(ByWeight(avail), avail)
  BY CandidatesFinite, SortOrders
<1>2. k \in 0..(n - 1)
  BY <1>1, RankRange
<1>3. PICK i \in 0..(n - 1) : RotationOffset(first + i, n) = k
  <2> HIDE DEF n, k
  <2> QED
    BY <1>1, <1>2, OffsetsCoverPlaces
<1> QED
  BY <1>3, PickIsRank

\* Whatever the strategy, a choice with candidates has an answer.
LEMMA SelectionAnswers ==
    ASSUME SelTypeOK, NEW m \in Models, NEW allow \in AllowLists,
           NEW avail \in SUBSET Conns, avail # {}
    PROVE  \E c \in avail : Selects(c, avail, m, allow)
<1> DEFINE strategy == settings.strategyOf[ProviderOf[m]]
           counter  == rotation[ConnectionRotationKey(m, allow)]
           lowest   == FilterByLowestPriority(avail)
<1>1. IsFiniteSet(avail)
  BY CandidatesFinite
<1>2. counter \in Int
  <2>1. ConnectionRotationKey(m, allow) \in RotationKeys
    BY DEF ConnectionRotationKey, RotationKeys
  <2> QED
    BY <2>1, ConstantsAssumption DEF SelTypeOK
<1>3. lowest # {} /\ lowest \in SUBSET Conns /\ IsFiniteSet(lowest) /\ lowest \subseteq avail
  <2>1. PICK c \in avail : \A d \in avail \ {c} : <<c, d>> \in ByPriority(avail)
    BY <1>1, SortOrders, FirstExists
  <2>2. \A d \in avail : attrs[c].priority <= attrs[d].priority
    <3>1. \A d \in avail \ {c} : \/ attrs[c].priority < attrs[d].priority
                                 \/ attrs[c].priority = attrs[d].priority
      BY <2>1 DEF ByPriority
    <3>2. \A d \in avail : attrs[d].priority \in Int
      BY SortKeys
    <3> QED
      BY <3>1, <3>2
  <2>3. c \in lowest /\ lowest \subseteq avail
    BY <2>2 DEF FilterByLowestPriority
  <2> QED
    BY <2>3, CandidatesFinite
<1> HIDE DEF strategy, counter, lowest
<1>4. PICK c \in avail : RoundRobinPick(c, avail, counter)
  BY <1>2, PickUnique
<1>5. PICK d \in lowest : \A e \in lowest \ {d} : Heavier(d, e)
  <2>1. PICK d \in lowest : \A e \in lowest \ {d} : <<d, e>> \in ByWeight(lowest)
    BY <1>3, SortOrders, FirstExists
  <2> QED
    BY <2>1 DEF ByWeight
<1>6. PICK g \in lowest : \A e \in lowest \ {g} : HeavierOrLowerId(g, e)
  <2>1. PICK g \in lowest : \A e \in lowest \ {g} : <<g, e>> \in ByWeightId(lowest)
    BY <1>3, SortOrders, FirstExists
  <2> QED
    BY <2>1 DEF ByWeightId
<1>7. CASE strategy = "round-robin"
  BY <1>4, <1>7 DEF Selects, strategy, counter
<1>8. CASE strategy = "priority-fallback"
  BY <1>3, <1>5, <1>8 DEF Selects, strategy, lowest
<1>9. CASE strategy = "fill-first"
  BY <1>3, <1>6, <1>9 DEF Selects, strategy, lowest
<1>10. CASE strategy \notin {"round-robin", "priority-fallback", "fill-first"}
  BY <1>10 DEF Selects, strategy
<1> QED
  BY <1>7, <1>8, <1>9, <1>10

-----------------------------------------------------------------------------
(* The theorems *)

\* Round-robin has exactly one answer for every counter, and n successes in a row
\* serve all n candidates, whatever the connections, their weights and the width of
\* the counter.
THEOREM SelectorRoundRobinServesAll == SelSpec => []RoundRobinServesAll
<1>1. SelInv => RoundRobinServesAll
  <2> SUFFICES ASSUME SelInv, NEW m \in Models, NEW allow \in AllowLists,
                      NEW avail \in (SUBSET Conns) \ {{}}
               PROVE  LET first == rotation[ConnectionRotationKey(m, allow)]
                          n     == Cardinality(avail)
                          Picked(counter) == {c \in avail : RoundRobinPick(c, avail, counter)}
                      IN /\ Cardinality(Picked(first)) = 1
                         /\ UNION {Picked(first + i) : i \in 0..(n - 1)} = avail
    BY DEF RoundRobinServesAll
  <2> DEFINE first == rotation[ConnectionRotationKey(m, allow)]
             n     == Cardinality(avail)
             Picked(counter) == {c \in avail : RoundRobinPick(c, avail, counter)}
  <2>1. SelTypeOK /\ avail \in SUBSET Conns /\ avail # {}
    BY DEF SelInv
  <2>2. first \in Int
    <3>1. ConnectionRotationKey(m, allow) \in RotationKeys
      BY DEF ConnectionRotationKey, RotationKeys
    <3> QED
      BY <2>1, <3>1, ConstantsAssumption DEF SelTypeOK
  <2> HIDE DEF first
  <2>3. Cardinality(Picked(first)) = 1
    <3>1. PICK c \in avail : /\ RoundRobinPick(c, avail, first)
                             /\ \A d \in avail : RoundRobinPick(d, avail, first) => d = c
      BY <2>1, <2>2, PickUnique
    <3>2. Picked(first) = {c}
      BY <3>1
    <3> QED
      BY <3>2, FS_Singleton
  <2>4. \A c \in avail : \E i \in 0..(n - 1) : c \in Picked(first + i)
    BY <2>1, <2>2, PicksCover
  <2>5. UNION {Picked(first + i) : i \in 0..(n - 1)} = avail
    BY <2>4
  <2> QED
    BY <2>3, <2>5 DEF first
<1> QED
  BY <1>1, SelInvInit, SelInvStep, PTL DEF SelSpec

=============================================================================
