------------------------------ MODULE Screens -------------------------------
(***************************************************************************)
(* What all screens of the dashboard (src/ui) share: a mounted component   *)
(* with its state, a server with the resource the screen shows, and the    *)
(* requests between them (lib/go-api.ts).  A request is sent by a handler, *)
(* served once, and answered later; the code after the await is a step of  *)
(* its own.  A request may also fail, before the server has done anything  *)
(* or after it: to the screen the two are the same.                        *)
(*                                                                         *)
(* One screen is mounted at a time.  Its module says what local and db     *)
(* hold, and gives an Init and a Next over these variables.                *)
(***************************************************************************)
EXTENDS Naturals, Sequences, FiniteSets, TLC

CONSTANTS
    None,       \* null
    MaxCalls,   \* bound: requests under way at once
    MaxClicks   \* bound: handlers of one visit that send a request

ASSUME BoundsAssumption == MaxCalls \in Nat \ {0} /\ MaxClicks \in Nat

VARIABLES
    screen,     \* the mounted screen
    local,      \* the state of its components
    calls,      \* [slot -> request], the requests not answered yet
    db          \* what the server holds

uiVars == <<screen, local, calls, db>>

Free(cs) == (1..MaxCalls) \ DOMAIN cs
Room(k) == Cardinality(Free(calls)) >= k

\* A request: an operation, what it is about, and how far it is.
Call(op, arg) == [op |-> op, arg |-> arg, at |-> "sent", got |-> None]

\* goRequest: one more request under way; the lowest free slot is its name.
Slot(cs) == CHOOSE n \in Free(cs) : \A m \in Free(cs) : n <= m
Plus(cs, c) == IF Free(cs) = {} THEN cs
               ELSE [n \in (DOMAIN cs) \cup {Slot(cs)} |-> IF n = Slot(cs) THEN c ELSE cs[n]]
Minus(cs, n) == [m \in DOMAIN cs \ {n} |-> cs[m]]
NoCalls == << >>

\* A handler runs to its next await: it changes the screen's state and its requests.
Do(l, cs) == local' = l /\ calls' = cs /\ UNCHANGED <<screen, db>>

\* The same for a handler of the user's that sends a request; local.left
\* counts how many more there may be.
Ask(l, cs) == local.left > 0 /\ Do([l EXCEPT !.left = @ - 1], cs)

Waiting(op) == {n \in DOMAIN calls : calls[n].op = op}
Outstanding(ops) == \E n \in DOMAIN calls : calls[n].op \in ops

Sent(n) == n \in DOMAIN calls /\ calls[n].at = "sent"
Served(n) == n \in DOMAIN calls /\ calls[n].at = "served"
Failed(n) == n \in DOMAIN calls /\ calls[n].at = "failed"
Settled(n) == Served(n) \/ Failed(n)

\* The server does its part: it leaves d and answers with got.
Serve(n, d, got) ==
    /\ Sent(n)
    /\ db' = d
    /\ calls' = [calls EXCEPT ![n].at = "served", ![n].got = got]
    /\ UNCHANGED <<screen, local>>

\* The server and the screen in one step: of a request that runs alone, and of
\* a piece of a stream.
Reply(l, cs, d) == local' = l /\ calls' = cs /\ db' = d /\ UNCHANGED screen

\* goRequest throws: the network, or a status that is not ok.  It may have
\* been served.
Lose(n) ==
    /\ Sent(n) \/ Served(n)
    /\ calls' = [calls EXCEPT ![n].at = "failed"]
    /\ UNCHANGED <<screen, local, db>>

Quiet(ops) == ~Outstanding(ops)

(***************************************************************************)
(* A screen that shows a list reads it again after what it changed.        *)
(* Nothing numbers the reads: the answer that comes last stays.  newest    *)
(* and drift are history: no later read was sent, and no change was missed *)
(* since it was served; the list is not from the newest read, or a change  *)
(* was missed since.  A change is missed if its answer is lost and the     *)
(* screen does not read the list then.                                     *)
(***************************************************************************)
Outdated(cs) == [m \in DOMAIN cs |-> IF cs[m].op = "load" THEN [cs[m] EXCEPT !.arg.newest = FALSE] ELSE cs[m]]
LoadThen(cs, then) == Plus(Outdated(cs), Call("load", [newest |-> TRUE, then |-> then]))
Load(cs) == LoadThen(cs, None)
Overlooked(cs) ==
    [m \in DOMAIN cs |-> IF cs[m].op = "load" /\ cs[m].at = "served" THEN [cs[m] EXCEPT !.arg.newest = FALSE] ELSE cs[m]]
DoMissing(l, cs) == Do([l EXCEPT !.drift = TRUE], Overlooked(cs))
ReadServed(n) == calls[n].op = "load" /\ Serve(n, db, db)
Read(n, ok) == n \in DOMAIN calls /\ calls[n].op = "load" /\ calls[n].at = (IF ok THEN "served" ELSE "sent")
Loaded(l, n, ok) ==
    IF ~ok THEN [l EXCEPT !.loading = FALSE, !.drift = TRUE]
    ELSE [l EXCEPT !.loading = FALSE, !.list = calls[n].got, !.drift = ~calls[n].arg.newest]
=============================================================================
