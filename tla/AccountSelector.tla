-------------------------- MODULE AccountSelector --------------------------
(***************************************************************************)
(* internal/service/account-selector.go: which provider account (a         *)
(* "connection") serves a model, and the cool-downs, model locks and       *)
(* backoff that failures leave on an account.                              *)
(*                                                                         *)
(* Every write of the code goes through store.Update, which runs its whole *)
(* callback under the store's mutex and file lock, and every read is one   *)
(* Load of a cached copy that Update replaces: one action per callback and *)
(* one step per read.  LastError and the other display-only fields are     *)
(* left out.  A connection record holds two kinds of data: what operators  *)
(* edit (attrs) and the health the selector writes.                        *)
(***************************************************************************)
EXTENDS Fallback, FiniteSets

CONSTANTS
    Conns,        \* connection IDs
    Models,       \* "provider/model" names; model locks are keyed by them
    Providers,
    ProviderOf,   \* [Models -> Providers]
    Tenants,
    NoTenant,     \* the empty tenant ID: legacy mode, sees every connection
    NoConn,       \* the empty connection ID
    ConfigOrder,  \* [Conns -> Nat]: place in cfg.ProviderConnections
    IdOrder,      \* [Conns -> Nat]: order of the ID strings
    AttrChoices,  \* [Conns -> SUBSET Attrs]: what an operator may set
    SettingsSet,  \* the settings an operator may save
    Errors,       \* the upstream failures considered
    AllowLists,   \* allow-lists in use; {} stands for "unrestricted"
    CounterMax,   \* largest value of a rotation counter, 2^31 - 1 in the code
    TickSteps,    \* how far (ms) the clock may jump in one step
    MaxNow,       \* bound of the exploration: the clock stops here
    Operated      \* bound of the exploration: the connections operators act on

Strategies == {"weighted-random", "priority-fallback", "round-robin", "fill-first"}

\* What an operator decides about a connection.  anyModel is an OpenAI OAuth
\* connection, refreshable an OAuth one that holds a refresh token.
Attrs == [provider : Providers, tenant : Tenants \cup {NoTenant}, isActive : BOOLEAN,
          priority : Int, weight : Int, supported : SUBSET Models, anyModel : BOOLEAN,
          disableCooling : BOOLEAN, refreshable : BOOLEAN, unsafeURL : BOOLEAN]

\* strategyOf is ConnectionStrategies[provider], else ConnectionStrategy.
Settings == [cooldownOn : BOOLEAN, modelLockOn : BOOLEAN,
             transientCooldownSeconds : Nat, maxCooldownSeconds : Nat,
             maxRetryCredentials : Nat, sessionAffinity : BOOLEAN,
             comboStrategy : {"fallback", "round-robin"},
             strategyOf : [Providers -> Strategies]]

ASSUME ConstantsAssumption ==
    /\ IsFiniteSet(Conns)
    /\ ProviderOf \in [Models -> Providers]
    /\ NoTenant \notin Tenants /\ NoConn \notin Conns
    /\ ConfigOrder \in [Conns -> Nat] /\ IdOrder \in [Conns -> Nat]
    /\ \A c, d \in Conns : c # d => /\ ConfigOrder[c] # ConfigOrder[d]
                                    /\ IdOrder[c] # IdOrder[d]
    /\ AttrChoices \in [Conns -> SUBSET Attrs]
    /\ SettingsSet \subseteq Settings
    /\ Errors \subseteq UpstreamError
    /\ AllowLists \subseteq SUBSET Conns
    /\ CounterMax \in Nat
    /\ TickSteps \subseteq Nat /\ MaxNow \in Nat
    /\ Operated \subseteq Conns

VARIABLES
    stored,            \* connections present in cfg.ProviderConnections
    attrs,             \* [Conns -> Attrs]
    rateLimitedUntil,  \* [Conns -> Nat], 0 for the empty string
    backoffLevel,      \* [Conns -> 0..BackoffMaxLevel]
    modelLocks,        \* [Conns -> [Models -> Nat]], 0 for an absent key
    settings,          \* cfg.Settings
    rotationKeys,      \* keys present in rotationStates
    rotation,          \* the int32 counters, 0 for an absent key
    now                \* wall clock, ms

health   == <<rateLimitedUntil, backoffLevel, modelLocks>>
config   == <<stored, attrs, settings>>
rotating == <<rotationKeys, rotation>>
selVars  == <<config, health, rotating, now>>

-----------------------------------------------------------------------------
(* Reading connections *)

IsAccountUnavailable(c) == rateLimitedUntil[c] > now

\* No code writes the "__all" lock that IsModelLockActive also looks up.
IsModelLockActive(c, m) == modelLocks[c][m] > now

SupportsModel(c, m) == attrs[c].anyModel \/ m \in attrs[c].supported

\* getActiveConnectionsForTenant
ActiveConns(m, t) ==
    {c \in stored : /\ attrs[c].isActive
                    /\ attrs[c].provider = ProviderOf[m]
                    /\ t \in {NoTenant, attrs[c].tenant}}

Allowed(c, allow) == allow = {} \/ c \in allow

\* The successive filters of SelectCredentials.
NonExcluded(m, excl, t)         == ActiveConns(m, t) \ excl
AllowedByPolicy(m, excl, allow, t) ==
    {c \in NonExcluded(m, excl, t) : Allowed(c, allow)}
Supported(m, excl, allow, t)    ==
    {c \in AllowedByPolicy(m, excl, allow, t) : SupportsModel(c, m)}
Available(m, excl, allow, t)    ==
    {c \in Supported(m, excl, allow, t) : /\ ~IsAccountUnavailable(c)
                                          /\ ~IsModelLockActive(c, m)}

SelectionErrors == {"no_active_credentials", "unsupported_model", "no_allowed_connection",
                    "rate_limited", "model_locked", "unavailable"}

\* The error SelectCredentials returns when Available is empty.
PoolError(m, excl, allow, t) ==
    LET supported == Supported(m, excl, allow, t) IN
    IF ActiveConns(m, t) = {} THEN "no_active_credentials"
    ELSE IF NonExcluded(m, excl, t) = {} THEN "unavailable"
    ELSE IF supported = {}
         THEN IF allow # {} /\ AllowedByPolicy(m, excl, allow, t) = {}
              THEN "no_allowed_connection" ELSE "unsupported_model"
    ELSE IF \A c \in supported : IsAccountUnavailable(c) THEN "rate_limited"
    ELSE IF \A c \in supported : ~IsAccountUnavailable(c) THEN "model_locked"
    ELSE "unavailable"

\* Slips in PinVerdict: the model's lock forgotten; the tenant forgotten.
PinVerdictUnlocked(m, pin, excl, t) ==
    IF /\ pin \in ActiveConns(m, t) \ excl
       /\ SupportsModel(pin, m) /\ ~IsAccountUnavailable(pin)
    THEN "ok" ELSE "unavailable"
PinVerdictAnyTenant(m, pin, excl, t) ==
    IF pin \in Available(m, excl, {}, NoTenant) THEN "ok" ELSE "unavailable"

\* selectPinnedConnection's answer, "ok" when the pinned connection serves.
PinVerdict(m, pin, excl, t) ==
    IF pin \in excl THEN "unavailable"
    ELSE IF pin \notin ActiveConns(m, t) THEN "no_active_credentials"
    ELSE IF ~SupportsModel(pin, m) THEN "unsupported_model"
    ELSE IF IsAccountUnavailable(pin) THEN "rate_limited"
    ELSE IF IsModelLockActive(pin, m) THEN "model_locked"
    ELSE "ok"

-----------------------------------------------------------------------------
(* Choosing one of the available connections *)

NormalizedWeight(c) == IF attrs[c].weight <= 0 THEN 100 ELSE attrs[c].weight

\* The order of sort.SliceStable by descending weight over the config order.
Heavier(c, d) == \/ NormalizedWeight(c) > NormalizedWeight(d)
                 \/ /\ NormalizedWeight(c) = NormalizedWeight(d)
                    /\ ConfigOrder[c] < ConfigOrder[d]

HeavierOrLowerId(c, d) == \/ NormalizedWeight(c) > NormalizedWeight(d)
                          \/ /\ NormalizedWeight(c) = NormalizedWeight(d)
                             /\ IdOrder[c] < IdOrder[d]

FilterByLowestPriority(avail) ==
    {c \in avail : \A d \in avail : attrs[c].priority <= attrs[d].priority}

\* Go's %: the remainder has the sign of the dividend.
GoRem(a, n) == IF a >= 0 THEN a % n ELSE -((-a) % n)

\* A slip in RotationOffset: the remainder of a wrapped counter taken as it is.
RotationOffsetSigned(counter, n) == GoRem(counter, n)

\* Index into n candidates for a counter that may have wrapped below zero.
RotationOffset(counter, n) == LET rem == GoRem(counter, n)
                              IN IF rem < 0 THEN rem + n ELSE rem

\* A slip in Bump: the counter is wider than its type says.
BumpUnwrapped(counter) == counter + 1

\* atomic.AddInt32(counter, 1)
Bump(counter) == IF counter = CounterMax THEN -CounterMax - 1 ELSE counter + 1

ConnectionRotationKey(m, allow) == <<m, allow>>
RotationKeys == Models \X AllowLists

\* c stands at place RotationOffset of the candidates sorted by weight.
RoundRobinPick(c, avail, counter) ==
    Cardinality({d \in avail \ {c} : Heavier(d, c)})
        = RotationOffset(counter, Cardinality(avail))

\* selectConnection may answer c.  A weighted random draw may be any candidate.
Selects(c, avail, m, allow) ==
    LET strategy == settings.strategyOf[ProviderOf[m]]
        lowest   == FilterByLowestPriority(avail)
    IN /\ c \in avail
       /\ strategy = "round-robin" =>
              RoundRobinPick(c, avail, rotation[ConnectionRotationKey(m, allow)])
       /\ strategy = "priority-fallback" =>
              c \in lowest /\ \A d \in lowest \ {c} : Heavier(c, d)
       /\ strategy = "fill-first" =>
              c \in lowest /\ \A d \in lowest \ {c} : HeavierOrLowerId(c, d)

\* roundRobinSelect creates the counter of its key, but only when it has a choice.
TouchRotation(avail, m, allow) ==
    /\ rotationKeys' = IF /\ settings.strategyOf[ProviderOf[m]] = "round-robin"
                          /\ Cardinality(avail) > 1
                       THEN rotationKeys \cup {ConnectionRotationKey(m, allow)}
                       ELSE rotationKeys
    /\ UNCHANGED rotation

AdvanceConnectionRotation(m, allow) ==
    LET key == ConnectionRotationKey(m, allow) IN
    /\ rotation' = IF /\ settings.strategyOf[ProviderOf[m]] = "round-robin"
                      /\ key \in rotationKeys
                   THEN [rotation EXCEPT ![key] = Bump(@)]
                   ELSE rotation
    /\ UNCHANGED rotationKeys

-----------------------------------------------------------------------------
(* Health: the callbacks of store.Update *)

\* A slip in ClampCooldownMs: the operator's cap ignored.
ClampNothing(ms, maxSeconds) == ms

ClampCooldownMs(ms, maxSeconds) ==
    IF maxSeconds = 0 \/ ms = 0 THEN ms ELSE Lesser(ms, maxSeconds * 1000)

\* A slip in Penalty: a model's failure charged to the account.
PenaltyAccountWide(c, e) ==
    LET fb == CheckFallbackError(e, backoffLevel[c])
    IN [fb EXCEPT !.cooldownMs = ClampCooldownMs(@, settings.maxCooldownSeconds),
                  !.modelOnly = FALSE]

\* The verdict on failure e of c after the operator's override and clamp.
Penalty(c, e) ==
    LET fb         == CheckFallbackError(e, backoffLevel[c])
        overridden == /\ ClassifyUpstream(e) = "transient"
                      /\ settings.transientCooldownSeconds > 0
        ms         == IF overridden THEN settings.transientCooldownSeconds * 1000
                                    ELSE fb.cooldownMs
    IN [fb EXCEPT !.cooldownMs = ClampCooldownMs(ms, settings.maxCooldownSeconds),
                  !.modelOnly  = @ /\ ~overridden]

\* The failure of c leaves a cool-down: cooling is on, and the verdict has one.
Cools(c, e) == /\ c \in stored
               /\ settings.cooldownOn /\ ~attrs[c].disableCooling
               /\ IsRetryableUpstream(e)
               /\ Penalty(c, e).cooldownMs > 0

MarkUnavailable(c, e, m) ==
    LET p     == Penalty(c, e)
        until == CooldownUntil(now, p.cooldownMs)
    IN \/ /\ ~Cools(c, e)
          /\ UNCHANGED health
       \/ /\ Cools(c, e)
          /\ IF p.modelOnly THEN UNCHANGED <<rateLimitedUntil, backoffLevel>>
             ELSE /\ rateLimitedUntil' = [rateLimitedUntil EXCEPT ![c] = until]
                  /\ backoffLevel' = [backoffLevel EXCEPT ![c] = p.newBackoffLevel]
          /\ modelLocks' = IF settings.modelLockOn
                           THEN [modelLocks EXCEPT ![c] = [@ EXCEPT ![m] = until]]
                           ELSE modelLocks

NoLocks == [k \in Models |-> 0]

\* A slip in ClearError: the locks of all models are lifted.
ClearErrorAllLocks(c, m) ==
    IF c \notin stored THEN UNCHANGED health
    ELSE /\ rateLimitedUntil' = [rateLimitedUntil EXCEPT ![c] = 0]
         /\ backoffLevel' = [backoffLevel EXCEPT ![c] = 0]
         /\ modelLocks' = [modelLocks EXCEPT ![c] = NoLocks]

\* After a success: the account's cool-down and backoff, the model's lock, and
\* every lock that has expired.  No-op on a connection deleted meanwhile.
ClearError(c, m) ==
    IF c \notin stored THEN UNCHANGED health
    ELSE /\ rateLimitedUntil' = [rateLimitedUntil EXCEPT ![c] = 0]
         /\ backoffLevel' = [backoffLevel EXCEPT ![c] = 0]
         /\ modelLocks' = [modelLocks EXCEPT ![c] =
                [k \in Models |-> IF k = m \/ @[k] < now THEN 0 ELSE @[k]]]

\* apiResetCooldown, and apiClearConnectionError without a model.
ResetCooldown(c) ==
    /\ c \in stored
    /\ rateLimitedUntil' = [rateLimitedUntil EXCEPT ![c] = 0]
    /\ backoffLevel' = [backoffLevel EXCEPT ![c] = 0]
    /\ modelLocks' = [modelLocks EXCEPT ![c] = NoLocks]

\* apiClearConnectionError with a model: only that model's lock.
ClearModelLock(c, m) ==
    /\ c \in stored
    /\ modelLocks' = [modelLocks EXCEPT ![c] = [@ EXCEPT ![m] = 0]]
    /\ UNCHANGED <<rateLimitedUntil, backoffLevel>>

-----------------------------------------------------------------------------
(* The operator, the clock and the process *)

\* apiDeleteConnection removes the whole record, its health with it.
DeleteConnection(c) ==
    /\ c \in stored
    /\ stored' = stored \ {c}
    /\ rateLimitedUntil' = [rateLimitedUntil EXCEPT ![c] = 0]
    /\ backoffLevel' = [backoffLevel EXCEPT ![c] = 0]
    /\ modelLocks' = [modelLocks EXCEPT ![c] = NoLocks]
    /\ UNCHANGED <<attrs, settings>>

\* What apiUpdateConnection cannot edit: whose account it is, and how it signs in.
SameAccount(a, b) ==
    /\ a.tenant = b.tenant /\ a.provider = b.provider
    /\ a.anyModel = b.anyModel /\ a.refreshable = b.refreshable
    /\ a.disableCooling = b.disableCooling

\* apiUpdateConnection: health is not among the fields it edits either.
UpdateConnection(c) ==
    /\ c \in stored
    /\ \E a \in AttrChoices[c] :
          /\ a # attrs[c] /\ SameAccount(a, attrs[c])
          /\ attrs' = [attrs EXCEPT ![c] = a]
    /\ UNCHANGED <<stored, settings>>

UpdateSettings ==
    /\ \E s \in SettingsSet : s # settings /\ settings' = s
    /\ UNCHANGED <<stored, attrs>>

Tick == \E d \in TickSteps : now + d <= MaxNow /\ now' = now + d

\* The rotation counters live in memory only.
ResetRotation == /\ rotationKeys' = {}
                 /\ rotation' = [k \in RotationKeys |-> 0]

\* The first instant (ms) that is no "empty" time once cut to whole seconds.
FirstInstant == 1000

SelInit ==
    /\ stored = Conns
    /\ attrs \in {a \in [Conns -> UNION {AttrChoices[c] : c \in Conns}] :
                     \A c \in Conns : a[c] \in AttrChoices[c]}
    /\ rateLimitedUntil = [c \in Conns |-> 0]
    /\ backoffLevel = [c \in Conns |-> 0]
    /\ modelLocks = [c \in Conns |-> NoLocks]
    /\ settings \in SettingsSet
    /\ rotationKeys = {}
    /\ rotation = [k \in RotationKeys |-> 0]
    /\ now = FirstInstant

\* What the dashboard and the clock may do beside any request.
Environment ==
    \/ \E c \in Operated :
          \/ DeleteConnection(c) /\ UNCHANGED <<rotating, now>>
          \/ ResetCooldown(c) /\ UNCHANGED <<config, rotating, now>>
          \/ UpdateConnection(c) /\ UNCHANGED <<health, rotating, now>>
    \/ \E c \in Operated, m \in Models :
          ClearModelLock(c, m) /\ UNCHANGED <<config, rotating, now>>
    \/ UpdateSettings /\ UNCHANGED <<health, rotating, now>>
    \/ Tick /\ UNCHANGED <<config, health, rotating>>

\* The selector under arbitrary callers: concurrent requests may call it with
\* any connection, failure and model, in any order.
SelectCredentials ==
    \E m \in Models, allow \in AllowLists :
        \E avail \in {Available(m, excl, allow, t) :
                         excl \in SUBSET Conns, t \in Tenants \cup {NoTenant}} \ {{}} :
            TouchRotation(avail, m, allow)

SelNext ==
    \/ \E c \in Conns, e \in Errors, m \in Models :
          MarkUnavailable(c, e, m) /\ UNCHANGED <<config, rotating, now>>
    \/ \E c \in Conns, m \in Models :
          ClearError(c, m) /\ UNCHANGED <<config, rotating, now>>
    \/ SelectCredentials /\ UNCHANGED <<config, health, now>>
    \/ \E m \in Models, allow \in AllowLists :
          AdvanceConnectionRotation(m, allow) /\ UNCHANGED <<config, health, now>>
    \/ ResetRotation /\ UNCHANGED <<config, health, now>>
    \/ Environment

SelSpec == SelInit /\ [][SelNext]_selVars

-----------------------------------------------------------------------------
(* Properties *)

\* Every variable stays in its range; in particular the backoff level stays
\* within the eight levels of GetQuotaCooldown.
SelTypeOK ==
    /\ stored \subseteq Conns
    /\ attrs \in [Conns -> Attrs]
    /\ rateLimitedUntil \in [Conns -> Nat]
    /\ backoffLevel \in [Conns -> 0..BackoffMaxLevel]
    /\ modelLocks \in [Conns -> [Models -> Nat]]
    /\ settings \in Settings
    /\ rotationKeys \subseteq RotationKeys
    /\ rotation \in [RotationKeys -> (-CounterMax - 1)..CounterMax]
    /\ now \in Nat

\* The longest penalty MarkUnavailable can give under settings s: an hour, or the
\* operator's override of the transient cool-down, clamped by the operator's cap.
PenaltyBound(s) ==
    LET override == s.transientCooldownSeconds * 1000
        longest  == IF override > retryAfterMaxMs THEN override ELSE retryAfterMaxMs
        cap      == s.maxCooldownSeconds * 1000
    IN IF cap = 0 \/ longest < cap THEN longest ELSE cap

\* No account and no model is ever sidelined past the longest penalty of some
\* settings the operator saved: not by a Retry-After header, not by the override,
\* not by backoff (MarkUnavailable's clamp).
CooldownBounded ==
    \A c \in Conns :
        /\ \E s \in SettingsSet : rateLimitedUntil[c] <= now + PenaltyBound(s)
        /\ \A m \in Models :
              \E s \in SettingsSet : modelLocks[c][m] <= now + PenaltyBound(s)

\* Health is never torn: whoever writes it, in whatever order, an account with an
\* escalated backoff has the cool-down that was set with it (MarkUnavailable,
\* ClearError, the dashboard's resets and stale write-backs).
HealthNotTorn == \A c \in Conns : backoffLevel[c] > 0 => rateLimitedUntil[c] > 0

\* The inductive invariant: the settings in force are among those an operator saved,
\* so the next penalty is within their bound; and the clock is past the first second,
\* so the next cool-down, however short, is not written as an empty time.
SelInv == /\ SelTypeOK
          /\ settings \in SettingsSet
          /\ now >= FirstInstant
          /\ CooldownBounded
          /\ HealthNotTorn

\* The two copies of the availability rules agree: a connection serves as a pin
\* (selectPinnedConnection) exactly when SelectCredentials restricted to it by an
\* allow-list would find it available.
PinAgreesWithPool ==
    \A c \in Conns, m \in Models, t \in Tenants \cup {NoTenant}, excl \in SUBSET Conns :
        PinVerdict(m, c, excl, t) = "ok" <=> c \in Available(m, excl, {c}, t)

\* Round-robin always has exactly one answer, also after its 32-bit counter has
\* wrapped, and as long as the counter does not wrap, n successes in a row over n
\* candidates serve each candidate once (roundRobinSelect).
RoundRobinServesAll ==
    \A m \in Models, allow \in AllowLists, avail \in (SUBSET Conns) \ {{}} :
        LET first == rotation[ConnectionRotationKey(m, allow)]
            n     == Cardinality(avail)
            Picked(counter) == {c \in avail : RoundRobinPick(c, avail, counter)}
        IN /\ Cardinality(Picked(first)) = 1
           /\ first + n - 1 <= CounterMax =>
                 UNION {Picked(first + i) : i \in 0..(n - 1)} = avail

\* The backoff of an account goes down only by a full reset, which lifts its
\* cool-down in the same write (ClearError, the dashboard's reset, deletion): a
\* later failure, however mild, never shortens the escalation.
BackoffFallsOnlyByReset ==
    [][\A c \in Conns : backoffLevel'[c] < backoffLevel[c] =>
           backoffLevel'[c] = 0 /\ rateLimitedUntil'[c] = 0]_selVars

\* The accounts whose cool-down or locks a step extends.
Worsened == {c \in Conns : \/ rateLimitedUntil'[c] > rateLimitedUntil[c]
                           \/ \E m \in Models : modelLocks'[c][m] > modelLocks[c][m]}

\* The failures CheckFallbackError charges to the model, not to the account.
ModelFault(e) == CheckFallbackError(e, 0).modelOnly

\* An outage or a missing entitlement on one model takes no other model of the
\* account out of service, unless the operator made transient failures an
\* account-level circuit breaker (MarkUnavailable's ModelOnly).
ModelFaultIsolated ==
    [][UNCHANGED <<config, now>> /\ settings.transientCooldownSeconds = 0 =>
          \A c \in Worsened, e \in {f \in Errors : ModelFault(f)}, m \in Models :
             MarkUnavailable(c, e, m) =>
                \A k \in Models \ {m} : c \in Available(k, {}, {}, NoTenant)
                                          => c \in Available(k, {}, {}, NoTenant)']_selVars

\* A success on one model puts the account back in service for that model and
\* leaves the locks other models still serve in place (ClearError).
SuccessRestores ==
    [][UNCHANGED <<config, now>> =>
          \A c \in {d \in stored : <<rateLimitedUntil[d], modelLocks[d]>>'
                                    # <<rateLimitedUntil[d], modelLocks[d]>>},
             m \in Models :
             ClearError(c, m) =>
                /\ ~IsAccountUnavailable(c)' /\ ~IsModelLockActive(c, m)'
                /\ \A k \in Models \ {m} :
                      IsModelLockActive(c, k) => IsModelLockActive(c, k)']_selVars

\* What the comments on the truncation and header-timeout markers promise: such a
\* failure moves the request to another account without cooling this one.
StreamBlipCostsNothing ==
    [][\A c \in Worsened, m \in Models,
          e \in {f \in Errors : f.hints \cap {"truncated", "header_timeout"} # {}} :
          ~MarkUnavailable(c, e, m)]_selVars
=============================================================================
