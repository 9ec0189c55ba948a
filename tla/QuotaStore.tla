----------------------------- MODULE QuotaStore -----------------------------
(***************************************************************************)
(* ui/src/components/screens/connections/quota-store.ts: the one queue all *)
(* quota requests of the connections screen go through.  A request is made *)
(* by hand (refresh), by opening the inspector, or by the timer's sweep    *)
(* when Quota-auto is on; pump starts as many as MAX_CONCURRENT allows; a  *)
(* failure starts a backoff that only a request by hand ignores.           *)
(*                                                                         *)
(* Of an entry's age only whether it is old enough for a sweep is kept     *)
(* (WATCH_MS for the inspected connection, HOT_MS for a hot one), of a     *)
(* backoff only that it is running, of a usage figure only whether it      *)
(* makes the connection hot.                                               *)
(***************************************************************************)
EXTENDS Naturals, Sequences, FiniteSets

CONSTANTS
    Conns,           \* connection ids
    NoConn,          \* no connection is open in the inspector
    MAX_CONCURRENT,  \* the cap on concurrent fetches
    Volatile         \* bound: the connections that change, age and get hot

ASSUME ConnsAssumption == IsFiniteSet(Conns) /\ NoConn \notin Conns
ASSUME CapAssumption   == MAX_CONCURRENT \in Nat \ {0}
ASSUME VolatileAssumption == Volatile \subseteq Conns

VARIABLES
    snapshot,      \* [Conns -> Kinds]: what connsProvider says of a connection
    hiQueue,       \* the queue of connections to fetch
    inflight,      \* connections being fetched
    nextOkAt,      \* connections whose backoff is still running
    aged,          \* connections whose cached entry is missing or old
    worst,         \* connections whose cached usage is near its limit
    inspectedId,   \* connection open in the inspector
    autoEnabled,   \* Quota-auto
    timer,         \* the sweep interval is set
    byHand         \* history: waiting or running fetches a user asked for

cacheVars == <<aged, worst, nextOkAt>>
modeVars  == <<inspectedId, autoEnabled, timer>>
quotaVars == <<snapshot, hiQueue, inflight, cacheVars, modeVars, byHand>>

\* A connection that is not listed, inactive or without quota support is "out".
Kinds == {"out", "quiet", "attention"}

Queued == {hiQueue[i] : i \in 1..Len(hiQueue)}
Elements(q) == {q[i] : i \in 1..Len(q)}
Arrangements(S) == {q \in [1..Cardinality(S) -> S] : Elements(q) = S}

-----------------------------------------------------------------------------
\* A slip in Wanted: what is being fetched is queued again.
WantedAgain(S, force) ==
    {c \in S : ~(~force /\ c \in nextOkAt) /\ c \notin Queued}

\* queueFetch: which of the connections asked for are appended to the queue.
Wanted(S, force) ==
    {c \in S : /\ ~(~force /\ c \in nextOkAt)
               /\ c \notin inflight
               /\ c \notin Queued}

\* What shifting the first k of the queue starts.
Started(q, k, running) == {q[i] : i \in {j \in 1..k : snapshot[q[j]] # "out" /\ q[j] \notin running}}

\* A slip in Pump: it looks for room once, before the loop.
PumpAll(q, running) ==
    \E k \in {0, Len(q)} :
        /\ k = 0 => Cardinality(running) >= MAX_CONCURRENT \/ q = <<>>
        /\ hiQueue' = SubSeq(q, k + 1, Len(q))
        /\ inflight' = running \cup Started(q, k, running)

\* pump: shift until the cap is reached or the queue is empty, with running
\* fetches under way.  k is the number of shifts the loop makes.
Pump(q, running) ==
    \E k \in 0..Len(q) :
        /\ \A j \in 0..(k - 1) : Cardinality(running \cup Started(q, j, running)) < MAX_CONCURRENT
        /\ k = Len(q) \/ Cardinality(running \cup Started(q, k, running)) >= MAX_CONCURRENT
        /\ hiQueue' = SubSeq(q, k + 1, Len(q))
        /\ inflight' = running \cup Started(q, k, running)

\* Who of the waiting and running was asked for by hand, after a step.
KeepByHand(asked) == byHand' = (byHand \cup asked) \cap (inflight' \cup Elements(hiQueue'))

\* Append what is wanted, in the caller's order, and pump.
Enqueue(S, force) ==
    /\ \E q \in Arrangements(Wanted(S, force)) : Pump(hiQueue \o q, inflight)
    /\ KeepByHand(IF force THEN Wanted(S, force) ELSE {})

\* sweepTiers: the watched connection and the hot ones that are due.
Due == {c \in Conns : /\ snapshot[c] # "out"
                      /\ c \in aged
                      /\ c = inspectedId \/ c \in worst \/ snapshot[c] = "attention"}

\* tick, in a tab that is visible or not (document.hidden).
Sweep(auto) ==
    \/ auto /\ Enqueue(Due, FALSE)
    \/ UNCHANGED <<hiQueue, inflight, byHand>>

-----------------------------------------------------------------------------
QuotaInit ==
    /\ snapshot = [c \in Conns |-> "quiet"]
    /\ hiQueue = <<>> /\ inflight = {} /\ nextOkAt = {} /\ worst = {}
    /\ aged = Conns
    /\ inspectedId = NoConn
    /\ autoEnabled = FALSE /\ timer = FALSE
    /\ byHand = {}

\* The screen's list is reloaded, or the screen unmounts (all "out").
SnapshotChanges ==
    /\ \/ \E c \in Volatile, k \in Kinds : snapshot' = [snapshot EXCEPT ![c] = k]
       \/ snapshot' \in {[c \in Conns |-> "out"], [c \in Conns |-> "quiet"]}
    /\ UNCHANGED <<hiQueue, inflight, cacheVars, modeVars, byHand>>

SetInspected(id) ==
    /\ inspectedId' = id
    /\ Enqueue(IF id # NoConn /\ id # inspectedId THEN {id} ELSE {}, FALSE)
    /\ UNCHANGED <<snapshot, cacheVars, autoEnabled, timer>>

\* "Load quotas", the inspector's refresh, the bulk action, the Verify step.
Refresh(ids) ==
    /\ Enqueue(ids, TRUE)
    /\ UNCHANGED <<snapshot, cacheVars, modeVars>>

SetAuto(on) ==
    /\ autoEnabled' = on /\ timer' = on
    /\ Sweep(on)
    /\ UNCHANGED <<snapshot, cacheVars, inspectedId>>

\* The screen unmounts: only the timer goes.
Dispose ==
    /\ timer /\ timer' = FALSE
    /\ UNCHANGED <<snapshot, hiQueue, inflight, cacheVars, inspectedId, autoEnabled, byHand>>

Tick ==
    /\ timer
    /\ Sweep(autoEnabled)
    /\ UNCHANGED <<snapshot, cacheVars, modeVars>>

\* Time passes for one entry, or for one backoff.
EntryAges(c) ==
    /\ c \in Volatile
    /\ c \notin aged /\ aged' = aged \cup {c}
    /\ UNCHANGED <<snapshot, hiQueue, inflight, worst, nextOkAt, modeVars, byHand>>

BackoffEnds(c) ==
    /\ c \in nextOkAt /\ nextOkAt' = nextOkAt \ {c}
    /\ UNCHANGED <<snapshot, hiQueue, inflight, aged, worst, modeVars, byHand>>

\* A slip in FetchFails: the room it leaves is not given to the next.
FetchFailsQuietly(c) ==
    /\ c \in inflight
    /\ aged' = aged \ {c}
    /\ worst' = worst \ {c}
    /\ nextOkAt' = nextOkAt \cup {c}
    /\ inflight' = inflight \ {c} /\ hiQueue' = hiQueue
    /\ KeepByHand({})
    /\ UNCHANGED <<snapshot, modeVars>>

\* The answer came: cache it, forget the failures, make room.
FetchSucceeds(c) ==
    /\ c \in inflight
    /\ aged' = aged \ {c}
    /\ worst' \in {worst \ {c}, worst \cup ({c} \cap Volatile)}
    /\ nextOkAt' = nextOkAt \ {c}
    /\ Pump(hiQueue, inflight \ {c})
    /\ KeepByHand({})
    /\ UNCHANGED <<snapshot, modeVars>>

\* The request failed: cache the error, start a backoff, make room.
FetchFails(c) ==
    /\ c \in inflight
    /\ aged' = aged \ {c}
    /\ worst' = worst \ {c}
    /\ nextOkAt' = nextOkAt \cup {c}
    /\ Pump(hiQueue, inflight \ {c})
    /\ KeepByHand({})
    /\ UNCHANGED <<snapshot, modeVars>>

Settle(c) == FetchSucceeds(c) \/ FetchFails(c)

QuotaNext ==
    \/ SnapshotChanges \/ Dispose \/ Tick
    \/ \E id \in Volatile \cup {NoConn} : SetInspected(id)
    \/ \E ids \in (SUBSET Conns) \ {{}} : Refresh(ids)
    \/ \E on \in BOOLEAN : SetAuto(on)
    \/ \E c \in Conns : EntryAges(c) \/ BackoffEnds(c) \/ FetchSucceeds(c) \/ FetchFails(c)

\* An HTTP request resolves or rejects.
QuotaSpec == QuotaInit /\ [][QuotaNext]_quotaVars /\ \A c \in Conns : WF_quotaVars(Settle(c))

-----------------------------------------------------------------------------
(* What the store's state is for a governor of fetches. *)
phaseOf == [c \in Conns |-> IF c \in inflight THEN "fetching"
                            ELSE IF c \in Queued THEN "waiting" ELSE "idle"]

Pool == INSTANCE FetchPool WITH Max <- MAX_CONCURRENT, phase <- phaseOf

\* The governor is one: whatever users, timer, reloads and answers do, no more
\* than MAX_CONCURRENT requests of the queue run, none waits while there is
\* room, and none is started a second time while it runs (pump, queueFetch).
PoolImplemented == Pool!PoolSpec

\* The backoff is looked at when a request is queued, not when it starts; still
\* no connection that failed lately is fetched unless a user asked for it.
BackoffRespected ==
    [][\A c \in inflight' \ inflight : c \in nextOkAt' => c \in byHand']_quotaVars

\* Whatever waits in the queue is started or dropped in the end, also while
\* users and sweeps keep asking and requests keep failing.
AskedIsServed == \A c \in Conns : c \in Queued ~> c \notin Queued

\* The state's types; the queue has no repetition and nothing that runs.
QuotaTypeOK ==
    /\ snapshot \in [Conns -> Kinds]
    /\ hiQueue \in Seq(Conns)
    /\ inflight \subseteq Conns /\ nextOkAt \subseteq Conns /\ worst \subseteq Conns
    /\ aged \subseteq Conns
    /\ inspectedId \in Conns \cup {NoConn}
    /\ autoEnabled \in BOOLEAN /\ timer \in BOOLEAN
    /\ byHand \subseteq Conns

QueueSound ==
    /\ \A i, j \in 1..Len(hiQueue) : hiQueue[i] = hiQueue[j] => i = j
    /\ Queued \cap inflight = {}
=============================================================================
