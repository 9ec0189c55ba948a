----------------------------- MODULE MCSelector -----------------------------
(***************************************************************************)
(* AccountSelector for TLC.  c1 fails and recovers on both models and can  *)
(* be switched off; c2 and c3 are exempt from cooling and serve m1 only,   *)
(* so that m1 rotates over three accounts.  The operator's cap of two      *)
(* seconds folds the durations (1 s to 1 h) onto two values, and the clock *)
(* moves by a step that is no whole number of seconds: cool-downs expire   *)
(* after one or two steps, and CooldownUntil's truncation shows.           *)
(***************************************************************************)
EXTENDS AccountSelector, TLC

CONSTANTS c1, c2, c3, m1, m2, t1, t2, p1

MCProviderOf  == [m \in Models |-> p1]
MCConfigOrder == (c1 :> 1) @@ (c2 :> 2) @@ (c3 :> 3)
MCIdOrder     == (c1 :> 3) @@ (c2 :> 2) @@ (c3 :> 1)
MCAllowLists  == {{}}

Account(tenant, weight, exempt) ==
    [provider |-> p1, tenant |-> tenant, isActive |-> TRUE, priority |-> 0,
     weight |-> weight, supported |-> Models, anyModel |-> FALSE,
     disableCooling |-> exempt, refreshable |-> FALSE, unsafeURL |-> FALSE]

MCAttrChoices ==
    (c1 :> {[Account(t1, 0, FALSE) EXCEPT !.supported = {}, !.anyModel = TRUE,
                                          !.isActive = b] : b \in BOOLEAN})
    @@ (c2 :> {[Account(t2, 50, TRUE) EXCEPT !.supported = {m1}]})
    @@ (c3 :> {[Account(t2, 100, TRUE) EXCEPT !.supported = {m1}]})

DefaultSettings ==
    [cooldownOn |-> TRUE, modelLockOn |-> TRUE, transientCooldownSeconds |-> 0,
     maxCooldownSeconds |-> 2, maxRetryCredentials |-> 0, sessionAffinity |-> FALSE,
     comboStrategy |-> "fallback", strategyOf |-> [p \in Providers |-> "round-robin"]]

\* The operator may switch model locks off and fill accounts in order instead.
MCSettings == {DefaultSettings,
               [DefaultSettings EXCEPT !.modelLockOn = FALSE,
                                       !.strategyOf = [p \in Providers |-> "fill-first"]]}
OverrideSettings == {[DefaultSettings EXCEPT !.transientCooldownSeconds = 30]}

Failure(status, hints, retryAfter) ==
    [status |-> status, hints |-> hints, retryAfter |-> retryAfter]

MCErrors == {Failure(400, {}, 0),                       \* client error
             Failure(429, {"rate_limit"}, 0),           \* backoff
             Failure(429, {"hard_quota"}, 0),           \* over the cap
             Failure(503, {}, 0)}                       \* outage of the model
BlipErrors == {Failure(502, {"truncated"}, 0), Failure(502, {"header_timeout"}, 0)}

MCTickSteps == {1700}
=============================================================================
