-------------------------- MODULE ConnectionStatus --------------------------
(***************************************************************************)
(* What the dashboard says of a connection: lib/connection-status.ts and   *)
(* the views that use it.  A connection is the record of its status        *)
(* signals; of a time only whether it lies ahead is kept.                  *)
(***************************************************************************)
EXTENDS Naturals, Sequences, FiniteSets

\* ConnectionStatusInput: rateLimitedUntil ahead, expiresAt behind,
\* backoffLevel > 0, lastError, and some lock of modelLocks ahead.
StatusInput == [isActive : BOOLEAN, limited : BOOLEAN, expired : BOOLEAN,
                backoff : BOOLEAN, error : BOOLEAN, locked : BOOLEAN]

isRateLimited(c) == c.limited
isExpired(c)     == c.expired
hasBackoff(c)    == c.backoff
hasError(c)      == c.error
hasLocks(c)      == c.locked

needsAttention(c) ==
    c.isActive /\ (isExpired(c) \/ isRateLimited(c) \/ hasBackoff(c) \/ hasError(c) \/ hasLocks(c))

\* A slip in attentionRank: locked models are not a problem.
RankWithoutLocks(c) ==
    IF ~c.isActive THEN 6 ELSE IF isExpired(c) THEN 0 ELSE IF isRateLimited(c) THEN 1
    ELSE IF hasError(c) THEN 2 ELSE IF hasBackoff(c) THEN 3 ELSE 5

\* Severity, most urgent first.
attentionRank(c) ==
    IF ~c.isActive THEN 6
    ELSE IF isExpired(c) THEN 0
    ELSE IF isRateLimited(c) THEN 1
    ELSE IF hasError(c) THEN 2
    ELSE IF hasBackoff(c) THEN 3
    ELSE IF hasLocks(c) THEN 4 ELSE 5

RANK_LABELS == <<"expired", "rate-limited", "error", "backoff", "model-locks">>

attentionReasons(c) ==
    LET says(k, so) == IF c.isActive /\ so THEN <<k>> ELSE <<>>
    IN  says("expired", isExpired(c)) \o says("rate-limited", isRateLimited(c)) \o says("error", hasError(c))
        \o says("backoff", hasBackoff(c)) \o says("model-locks", hasLocks(c))

healthBucket(c) == IF ~c.isActive THEN "inactive"
                   ELSE IF needsAttention(c) THEN "attention" ELSE "healthy"

\* By severity; names, which break ties, are left out.
compareByAttention(a, b) == attentionRank(a) <= attentionRank(b)

\* computeHealthScore, the terms of one connection, in hundredths; one step of backoff.
Penalty(c) ==
    LET p == (IF isExpired(c) THEN 100 ELSE 0) + (IF isRateLimited(c) THEN 80 ELSE 0)
             + (IF hasBackoff(c) THEN 15 ELSE 0) + (IF hasError(c) THEN 50 ELSE 0)
    IN  IF ~c.isActive THEN 25 ELSE IF p > 100 THEN 100 ELSE p

-----------------------------------------------------------------------------
(* The views. *)

\* connection-row.tsx: the one chip of a row, and the tone of its dot.
SignalChip(c) ==
    IF ~c.isActive THEN "Idle" ELSE IF isExpired(c) THEN "Expired" ELSE IF isRateLimited(c) THEN "RL"
    ELSE IF hasError(c) THEN "error" ELSE IF hasBackoff(c) THEN "L/7" ELSE IF hasLocks(c) THEN "locked" ELSE "none"
StatusDot(c) ==
    IF ~c.isActive THEN "muted" ELSE IF isExpired(c) THEN "red" ELSE IF isRateLimited(c) THEN "amber-pulse"
    ELSE IF hasError(c) \/ hasBackoff(c) \/ hasLocks(c) THEN "amber" ELSE "emerald"

\* ConnectionCard.tsx: its own flags, which leave out the locked models.
CardIssue(c) == isRateLimited(c) \/ isExpired(c) \/ hasBackoff(c) \/ hasError(c)
CardBadge(c) == IF ~c.isActive THEN "Idle" ELSE IF isRateLimited(c) THEN "Rate-limited"
                ELSE IF CardIssue(c) THEN "Error" ELSE "Active"
CardMenu(c)  == {"details", "models", "logs", "delete"}
                \cup (IF isRateLimited(c) \/ hasBackoff(c) THEN {"reset"} ELSE {})
                \cup (IF CardIssue(c) THEN {"clear"} ELSE {})

\* connection-inspector.tsx: the badges, and the repairs its issue panel offers.
InspectorBadges(c) ==
    {IF c.isActive THEN "Active" ELSE "Idle"} \cup (IF isRateLimited(c) THEN {"Rate-limited"} ELSE {})
    \cup (IF isExpired(c) THEN {"Token-expired"} ELSE {}) \cup (IF hasBackoff(c) THEN {"Backoff"} ELSE {})
    \cup (IF hasLocks(c) THEN {"locked-models"} ELSE {})
InspectorPanel(c) == isRateLimited(c) \/ isExpired(c) \/ hasError(c)
InspectorRepairs(c) ==
    IF ~InspectorPanel(c) THEN {}
    ELSE (IF hasError(c) THEN {"clear"} ELSE {})
         \cup (IF isRateLimited(c) \/ hasBackoff(c) THEN {"reset"} ELSE {})

\* connection-detail-sheet.tsx.
SheetBadges(c) ==
    {IF c.isActive THEN "Active" ELSE "Inactive"} \cup (IF isRateLimited(c) THEN {"Rate-limited"} ELSE {})
    \cup (IF isExpired(c) THEN {"Token-expired"} ELSE {}) \cup (IF hasBackoff(c) THEN {"Backoff"} ELSE {})
SheetAttention(c) == isRateLimited(c) \/ isExpired(c) \/ hasBackoff(c) \/ hasError(c)

\* connection-health-dashboard.tsx counts every connection, inactive ones too.
DashboardCounts(S) ==
    [active |-> Cardinality({c \in S : c.isActive}),
     throttled |-> Cardinality({c \in S : isRateLimited(c)}) + Cardinality({c \in S : hasBackoff(c)}),
     broken |-> Cardinality({c \in S : isExpired(c)}) + Cardinality({c \in S : hasError(c)})]

\* connection-palette.tsx marks an entry.
PaletteMark(c) == (IF ~c.isActive THEN {"idle"} ELSE {}) \cup (IF needsAttention(c) THEN {"!"} ELSE {})

\* buildCleanupGroups: the reason a connection is put under, if any.
CleanupGroup(c) ==
    IF ~needsAttention(c) THEN "none"
    ELSE IF isExpired(c) THEN "expired"
    ELSE IF isRateLimited(c) THEN "rate-limited" ELSE "error"

\* The chips of connection-status-filter.tsx and what filteredConns lets through.
InFilter(c, status) == CASE status = "active" -> c.isActive
                         [] status = "inactive" -> ~c.isActive
                         [] status = "issues" -> needsAttention(c)
                         [] OTHER -> TRUE

\* Targets of the quick actions of the Issues chip.
IsTarget(c, action) == CASE action = "clear-errors" -> hasError(c)
                         [] action = "reset-cooldowns" -> isRateLimited(c) \/ hasBackoff(c)
                         [] OTHER -> needsAttention(c)

-----------------------------------------------------------------------------
(* connection-list.tsx draws only the items of the list near the viewport. *)
HEADER_HEIGHT == 42
ROW_HEIGHT    == 44
GROUP_GAP     == 18
OVERSCAN      == 6

CeilDiv(a, b) == (a + b - 1) \div b

\* flat: the tops and heights of the items of groups with those many rows shown.
Flat(rows) ==
    LET end[g \in 0..Len(rows)] == IF g = 0 THEN 0
                                   ELSE end[g - 1] + HEADER_HEIGHT + rows[g] * ROW_HEIGHT + GROUP_GAP
        Item(g, k) == IF k = 0 THEN [top |-> end[g - 1], height |-> HEADER_HEIGHT]
                      ELSE [top |-> end[g - 1] + HEADER_HEIGHT + (k - 1) * ROW_HEIGHT, height |-> ROW_HEIGHT]
    IN  UNION {{Item(g, k) : k \in 0..rows[g]} : g \in 1..Len(rows)}

Above(items, scrollTop) == {i \in items : i.top + i.height <= scrollTop}

WindowSize(viewportH) == CeilDiv(viewportH + OVERSCAN * ROW_HEIGHT, ROW_HEIGHT) + OVERSCAN

\* range: items from the first that ends below scrollTop on.
Drawn(items, scrollTop, viewportH) ==
    LET start == Cardinality(Above(items, scrollTop))
    IN  {i \in items : LET nth == Cardinality({j \in items : j.top < i.top})
                       IN  start <= nth /\ nth < start + WindowSize(viewportH)}
InView(items, scrollTop, viewportH) ==
    {i \in items : i.top < scrollTop + viewportH /\ i.top + i.height > scrollTop}
=============================================================================
