------------------------------ MODULE Fallback ------------------------------
(***************************************************************************)
(* internal/domain: what an upstream failure means for the account that    *)
(* met it.  The code works on an HTTP status and an error text; the text   *)
(* matters only through the groups of phrases the code searches for, so a  *)
(* failure is a record                                                     *)
(*   status      the HTTP status the executor reports                      *)
(*   hints       the groups of phrases found in the (lower-cased) text     *)
(*   retryAfter  the embedded Retry-After hint in ms, 0 when there is none *)
(* Times and durations are milliseconds, as in the code.                   *)
(***************************************************************************)
EXTENDS Integers

Hints == {"client_error",    \* "invalid request", "malformed", "tool schema", ...
          "entitlement",     \* isModelEntitlementError
          "suspension",      \* isSuspensionError
          "auth_revoked",    \* isAuthRevokedError
          "rate_limit",      \* "rate limit", "quota exceeded", "overloaded", ...
          "hard_quota",      \* isHardQuotaExhaustion
          "header_timeout",  \* "timeout awaiting response headers"
          "truncated",       \* truncatedStreamMarker
          "no_credentials",  \* "no credentials"
          "not_allowed"}     \* "request not allowed"

CooldownUnauthorized   == 5000
CooldownPaymentReq     == 300000
CooldownNotFound       == 1000
CooldownTransient      == 2000
CooldownRequestNotAlwd == 60000
CooldownAuthRevoked    == 1800000
CooldownSuspended      == 1800000
CooldownQuotaExhausted == 3600000
BackoffBase            == 1000
BackoffMax             == 120000
BackoffMaxLevel        == 7
retryAfterMaxMs        == 3600000

\* An executor embeds a hint only through ParseRetryAfterHeader, which caps it.
UpstreamError == [status : Nat, hints : SUBSET Hints, retryAfter : 0..retryAfterMaxMs]

NonFallbackStatusCodes == {400, 405, 411, 413, 414, 415, 422, 431}
IsNonFallbackStatus(status) == status \in NonFallbackStatusCodes

UpstreamClass == {"non_fallback", "retryable", "quota", "auth", "transient",
                  "model_entitlement", "suspended"}

\* The class a bare status stands for, once no phrase of the text decided.
StatusClass(status) ==
    IF status = 401 THEN "auth"
    ELSE IF status \in {402, 403, 429} THEN "quota"
    ELSE IF status = 408 \/ status >= 500 THEN "transient"
    ELSE "retryable"

\* The phrases are searched in this order; the first group found decides.
ClassifyUpstream(e) ==
    IF IsNonFallbackStatus(e.status) \/ "client_error" \in e.hints THEN "non_fallback"
    ELSE IF e.status = 403 /\ "entitlement" \in e.hints THEN "model_entitlement"
    ELSE IF "suspension" \in e.hints THEN "suspended"
    ELSE IF "auth_revoked" \in e.hints THEN "auth"
    ELSE IF "rate_limit" \in e.hints THEN "quota"
    ELSE StatusClass(e.status)

IsRetryableUpstream(e) == ClassifyUpstream(e) # "non_fallback"

Lesser(a, b) == IF a < b THEN a ELSE b

\* Levels 0..6 double the base; from level 7 on the product is over the cap.
GetQuotaCooldown(level) ==
    IF level >= BackoffMaxLevel THEN BackoffMax
    ELSE BackoffBase * <<1, 2, 4, 8, 16, 32, 64>>[level + 1]

\* FallbackResult: on which level the account is cooled, for how long, and the
\* backoff level it is left with.
Verdict(should, ms, level, modelOnly) ==
    [shouldFallback |-> should, cooldownMs |-> ms,
     newBackoffLevel |-> level, modelOnly |-> modelOnly]
NoPenalty(level)        == Verdict(TRUE, 0, level, FALSE)
CoolAccount(ms, level)  == Verdict(TRUE, ms, level, FALSE)
CoolModel(ms, level)    == Verdict(TRUE, ms, level, TRUE)

\* Slips in QuotaVerdict: the level not capped; the level not carried on.
QuotaVerdictUncapped(e, level) == CoolAccount(GetQuotaCooldown(level), level + 1)
QuotaVerdictForgetful(e, level) ==
    IF "hard_quota" \in e.hints THEN CoolAccount(CooldownQuotaExhausted, BackoffMaxLevel)
    ELSE CoolAccount(GetQuotaCooldown(level), 1)

QuotaVerdict(e, level) ==
    IF e.status = 403 /\ "rate_limit" \notin e.hints THEN NoPenalty(level)
    ELSE IF e.status = 402 THEN CoolAccount(CooldownPaymentReq, level)
    ELSE IF "hard_quota" \in e.hints
         THEN CoolAccount(CooldownQuotaExhausted, BackoffMaxLevel)
    ELSE CoolAccount(IF e.retryAfter > 0 THEN e.retryAfter ELSE GetQuotaCooldown(level),
                     Lesser(level + 1, BackoffMaxLevel))

\* CheckFallbackError after the phrases that decide alone have been looked for.
ClassVerdict(e, level) ==
    LET class == ClassifyUpstream(e) IN
    IF class = "suspended" THEN CoolAccount(CooldownSuspended, BackoffMaxLevel)
    ELSE IF class = "auth"
         THEN IF "auth_revoked" \in e.hints
              THEN CoolAccount(CooldownAuthRevoked, BackoffMaxLevel)
              ELSE CoolAccount(CooldownUnauthorized, level)
    ELSE IF class = "quota" THEN QuotaVerdict(e, level)
    ELSE IF class = "transient"
         THEN CoolModel(IF e.retryAfter > 0 THEN e.retryAfter ELSE CooldownTransient, level)
    ELSE CoolAccount(IF e.status = 404 THEN CooldownNotFound ELSE CooldownTransient, level)

CheckFallbackError(e, level) ==
    LET class == ClassifyUpstream(e) IN
    IF class = "non_fallback" THEN Verdict(FALSE, 0, level, FALSE)
    ELSE IF class = "model_entitlement" THEN CoolModel(CooldownPaymentReq, level)
    ELSE IF e.hints \cap {"header_timeout", "truncated"} # {} THEN NoPenalty(level)
    ELSE IF "no_credentials" \in e.hints THEN CoolAccount(CooldownNotFound, level)
    ELSE IF "not_allowed" \in e.hints THEN CoolAccount(CooldownRequestNotAlwd, level)
    ELSE ClassVerdict(e, level)

-----------------------------------------------------------------------------
\* CooldownUntil formats now + ms as RFC 3339: the fraction of a second is cut.
CooldownUntil(now, ms) == ((now + ms) \div 1000) * 1000
=============================================================================
