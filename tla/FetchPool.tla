----------------------------- MODULE FetchPool ------------------------------
(***************************************************************************)
(* What a governor of fetches promises: a connection is idle, waits for a  *)
(* fetch or is being fetched; at most Max are fetched at a time, none      *)
(* waits while there is room, and fetches settle one at a time.            *)
(***************************************************************************)
EXTENDS Naturals, FiniteSets

CONSTANTS Conns, Max

VARIABLE phase   \* [Conns -> {"idle", "waiting", "fetching"}]

Fetching == {c \in Conns : phase[c] = "fetching"}
Waiting  == {c \in Conns : phase[c] = "waiting"}

PoolInit == phase = [c \in Conns |-> "idle"]

\* A connection is asked for, started or dropped from the queue.
Admits(c) == phase[c] = "fetching" => phase'[c] = "fetching"

\* The fetch of c settles; what it frees is given to the others.
Settles(c) == phase[c] = "fetching" /\ phase'[c] = "idle"

PoolStep ==
    /\ phase' \in [Conns -> {"idle", "waiting", "fetching"}]
    /\ Cardinality(Fetching') <= Max
    /\ Waiting' # {} => Cardinality(Fetching') = Max
    /\ \/ \A c \in Conns : Admits(c)
       \/ \E c \in Conns : Settles(c) /\ \A d \in Conns \ {c} : Admits(d)

PoolSpec == PoolInit /\ [][PoolStep]_phase
=============================================================================
