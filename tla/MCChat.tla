------------------------------- MODULE MCChat -------------------------------
(***************************************************************************)
(* ChatService for TLC: two concurrent requests over three accounts of one *)
(* provider, c1 (with a refresh token) and c2 of tenant t1, c3 of t2.      *)
(* Only one settings value per run, and time stands still: a cool-down     *)
(* ends by a success, a reset or a write-back (AccountSelector's own run   *)
(* has the clock).                                                         *)
(***************************************************************************)
EXTENDS ChatService, TLC

CONSTANTS r1, r2, c1, c2, c3, m1, m2, m3, t1, t2, p1, p2, k1, s1, a1, loopRefresher

MCProviderOf  == (m1 :> p1) @@ (m2 :> p1) @@ (m3 :> p2)
MCConfigOrder == (c1 :> 1) @@ (c2 :> 2) @@ (c3 :> 3)

Account(tenant, weight, oauth) ==
    [provider |-> p1, tenant |-> tenant, isActive |-> TRUE, priority |-> 0,
     weight |-> weight, supported |-> {m1, m2}, anyModel |-> FALSE,
     disableCooling |-> FALSE, refreshable |-> oauth, unsafeURL |-> FALSE]

\* unsafe: the accounts whose base URL points into the operator's network.
Accounts(unsafe) ==
    [c \in Conns |->
        {[(CASE c = c1 -> Account(t1, 100, TRUE) [] c = c2 -> Account(t1, 50, FALSE)
             [] c = c3 -> Account(t2, 50, FALSE)) EXCEPT !.unsafeURL = c \in unsafe]}]
SessionAccounts == Accounts({})
ComboAccounts   == Accounts({c3})

SomeSettings(budget, affine, comboStrat, connStrategy) ==
    [cooldownOn |-> TRUE, modelLockOn |-> TRUE, transientCooldownSeconds |-> 0,
     maxCooldownSeconds |-> 2, maxRetryCredentials |-> budget, sessionAffinity |-> affine,
     comboStrategy |-> comboStrat, strategyOf |-> [p \in Providers |-> connStrategy]]

Failure(status, hints) == [status |-> status, hints |-> hints, retryAfter |-> 0]

Try(m, pin, allow) == [model |-> m, pin |-> pin, allow |-> allow]
Route(attempts, name, tenant, session, key) ==
    [attempts |-> attempts, combo |-> name, tenant |-> tenant, session |-> session,
     apiKey |-> key]

\* Single-model routes of one session: an API key of tenant t1 that is restricted to
\* connections t1 owns only in part, and one without a tenant.
SessionPlans ==
    {Route(<<Try(m1, NoConn, {c2, c3})>>, NoCombo, t1, s1, NoKey),
     Route(<<Try(m1, NoConn, {})>>, NoCombo, NoTenant, s1, NoKey)}
SessionSettings == {SomeSettings(2, TRUE, "fallback", "priority-fallback")}
SessionErrors == {Failure(429, {"rate_limit"}), Failure(401, {}), Failure(400, {})}

\* Combos: two models, one of them pinned, under a combo rotation.
ComboPlans ==
    {Route(<<Try(m1, c2, {}), Try(m2, NoConn, {c1, c2})>>, k1, NoTenant, NoKey, a1),
     Route(<<Try(m3, NoConn, {})>>, NoCombo, NoTenant, NoKey, NoKey),
     Route(<<>>, NoCombo, NoTenant, NoKey, NoKey)}
\* Model locks are off: only its own exclusions keep a request from trying an
\* account for ever.
ComboSettings == {[SomeSettings(0, FALSE, "round-robin", "round-robin")
                      EXCEPT !.modelLockOn = FALSE]}
ComboErrors == {Failure(502, {}), Failure(400, {})}

\* An upstream answers 500 with a text that speaks of a malformed request: the
\* executors pass status and text on as they are.  With it in place of
\* ComboErrors, ComboRoutingAgrees does not hold.
TaxonomyErrors == {Failure(500, {"client_error"})}

Symmetric == Permutations(Requests)

MCAllowLists == {{}, {c1, c2}, {c2, c3}}
=============================================================================
