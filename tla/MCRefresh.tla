----------------------------- MODULE MCRefresh ------------------------------
(***************************************************************************)
(* TokenRefresh for TLC: one account with a refresh token and one model,   *)
(* which an operator can switch off, and two refreshers, as the selector   *)
(* and the background loop are.  The clock moves and the operator may lift *)
(* the cap on cool-downs.                                                  *)
(***************************************************************************)
EXTENDS TokenRefresh, TLC

CONSTANTS selector, background, c1, m1, p1

MCProviderOf == [m \in Models |-> p1]
MCOrder      == [c \in Conns |-> 1]

MCAttrChoices ==
    c1 :> {[provider |-> p1, tenant |-> NoTenant, isActive |-> b, priority |-> 0,
            weight |-> 100, supported |-> Models, anyModel |-> FALSE,
            disableCooling |-> FALSE, refreshable |-> TRUE, unsafeURL |-> FALSE] :
               b \in BOOLEAN}

Capped(seconds) ==
    [cooldownOn |-> TRUE, modelLockOn |-> TRUE, transientCooldownSeconds |-> 0,
     maxCooldownSeconds |-> seconds, maxRetryCredentials |-> 0, sessionAffinity |-> FALSE,
     comboStrategy |-> "fallback", strategyOf |-> [p \in Providers |-> "weighted-random"]]
MCSettings == {Capped(1), Capped(2)}

MCErrors == {[status |-> 429, hints |-> {"hard_quota"}, retryAfter |-> 0],
             [status |-> 503, hints |-> {}, retryAfter |-> 0]}
=============================================================================
