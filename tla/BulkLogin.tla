----------------------------- MODULE BulkLogin ------------------------------
(***************************************************************************)
(* bulk-auto-login-form.tsx: a job at the server signs accounts in one     *)
(* after the other; the form starts it, or adopts the one it finds running *)
(* when it mounts, and polls its status with an interval until a status    *)
(* says that it is over.  Polls overlap and may come back in any order.    *)
(*                                                                         *)
(* local.form counts the mounted instances; seen is seenDoneRef and ref    *)
(* pollRef of each.  db: the last job of the server, which runs one at a   *)
(* time; its number is not part of what the server tells.                  *)
(***************************************************************************)
EXTENDS BrowserLogin

CONSTANTS
    Accounts,    \* bound: accounts of a job
    MaxJobs      \* bound: jobs

ASSUME JobsBound == MaxJobs \in Nat

NoJob == [job |-> 0, running |-> FALSE, done |-> 0]
NewJob(k) == [job |-> k, running |-> TRUE, done |-> 0]

BulkInit ==
    /\ screen = "bulk"
    /\ local = [form |-> 1, mounted |-> TRUE, starting |-> FALSE, status |-> None,
                ref |-> [f \in 1..Forms |-> FALSE], seen |-> [f \in 1..Forms |-> 0]]
    /\ db \in {NoJob, NewJob(1)}
    /\ calls = Plus(NoCalls, Call("adopt", 1))

-----------------------------------------------------------------------------
\* RunProgress: a button to stop a job that runs, to start over when it is done.
RunProgress == IF ~local.mounted \/ local.status = None THEN {}
               ELSE IF local.status.running THEN {"stop"} ELSE {"reset"}

\* An in-flight run is adopted, also by a form that has unmounted meanwhile.
\* (One that is over has the results of all its accounts.)
BulkAdopts(n) ==
    /\ Settled(n) /\ calls[n].op = "adopt"
    /\ LET f == calls[n].arg
           s == calls[n].got
           p == [local EXCEPT !.ref[f] = TRUE, !.seen[f] = s.done]
       IN  Do(IF Failed(n) \/ ~s.running THEN local
              ELSE OnScreen(p, f, [p EXCEPT !.status = s]),
              Minus(calls, n))

\* The button is off while a job is being started (and without accounts).
BulkStart ==
    /\ local.mounted /\ local.status = None /\ ~local.starting /\ Room(1)
    /\ Do([local EXCEPT !.starting = TRUE], Plus(calls, Call("start", local.form)))

BulkStarted(n) ==
    /\ Settled(n) /\ calls[n].op = "start"
    /\ LET f == calls[n].arg
           p == [local EXCEPT !.ref[f] = TRUE, !.seen[f] = 0]
       IN  Do(IF Failed(n) THEN OnScreen(local, f, [local EXCEPT !.starting = FALSE])
              ELSE OnScreen(p, f, [p EXCEPT !.starting = FALSE, !.status = calls[n].got]),
              Minus(calls, n))

BulkTick(f) ==
    /\ local.ref[f] /\ Room(1)
    /\ Do(local, Plus(calls, Call("poll", f)))

\* startPolling's callback: show it, tell the host of new accounts, maybe stop.
BulkPolled(n) ==
    /\ Settled(n) /\ calls[n].op = "poll"
    /\ LET f == calls[n].arg
           s == calls[n].got
           p == [local EXCEPT !.seen[f] = IF s.done > @ THEN s.done ELSE @,
                              !.ref[f] = @ /\ s.running]
       IN  Do(IF Failed(n) THEN local ELSE OnScreen(p, f, [p EXCEPT !.status = s]),
              Minus(calls, n))

\* "Stop all": the answer carries the job's status; the interval runs on.
BulkStop ==
    /\ "stop" \in RunProgress /\ Room(1)
    /\ Do(local, Plus(calls, Call("stop", local.form)))
BulkStopped(n) ==
    /\ Settled(n) /\ calls[n].op = "stop"
    /\ Do(IF Failed(n) THEN local ELSE OnScreen(local, calls[n].arg, [local EXCEPT !.status = calls[n].got]),
          Minus(calls, n))

\* "Add more".
BulkReset ==
    /\ "reset" \in RunProgress
    /\ Do([local EXCEPT !.ref[local.form] = FALSE, !.status = None], calls)

BulkUnmounts ==
    /\ local.mounted
    /\ Do([local EXCEPT !.mounted = FALSE, !.ref[local.form] = FALSE, !.status = None,
                        !.starting = FALSE], calls)
BulkMounts ==
    /\ ~local.mounted /\ local.form < Forms /\ Room(1)
    /\ Do([local EXCEPT !.mounted = TRUE, !.form = @ + 1], Plus(calls, Call("adopt", local.form + 1)))

\* The service begins a job when none runs, and tells how far the last one is;
\* told to stop, it cancels the job, which ends in its own time.  (To the form a
\* status that fails is the same as none.)
BulkServe(n) ==
    /\ Sent(n)
    /\ IF calls[n].op = "start"
       THEN ~db.running /\ db.job < MaxJobs /\ Serve(n, NewJob(db.job + 1), NewJob(db.job + 1))
       ELSE Serve(n, db, db)
BulkRefused(n) == Sent(n) /\ calls[n].op = "start" /\ Lose(n)
\* One more account is connected, or none is left: some fail or are cancelled.
BulkAdvances ==
    /\ db.running
    /\ \/ db.done < Accounts /\ db' = [db EXCEPT !.done = @ + 1]
       \/ db' = [db EXCEPT !.running = FALSE]
    /\ UNCHANGED <<screen, local, calls>>

BulkNext ==
    \/ BulkStart \/ BulkStop \/ BulkReset \/ BulkUnmounts \/ BulkMounts \/ BulkAdvances
    \/ \E f \in 1..Forms : BulkTick(f)
    \/ \E n \in DOMAIN calls : \/ BulkAdopts(n) \/ BulkStarted(n) \/ BulkPolled(n) \/ BulkStopped(n)
                                \/ BulkServe(n) \/ BulkRefused(n)

-----------------------------------------------------------------------------
\* A form that shows the job running has an interval that asks about it.
Polled == local.mounted /\ local.status # None /\ local.status.running /\ db.running => local.ref[local.form]

\* While the first job of the server runs, a form that shows it running has an
\* interval that asks about it, whether it started the job, adopted it, or was
\* told by an answer that overtook another one (startPolling, stopPolling).  Of
\* a later one this is not so: RunsArePolled.
BulkWaits == screen = "bulk" /\ db.job <= 1 => Polled

\* The host's list is reloaded "as soon as new accounts land", in every job: a
\* form that shows a job running, and is not just starting one, asks about it.
\* Not so of a second job (README, section 6).
RunsArePolled == screen = "bulk" /\ ~local.starting => Polled
=============================================================================
