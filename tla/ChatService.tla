---------------------------- MODULE ChatService ----------------------------
(***************************************************************************)
(* internal/service/chat-service.go, combo-handler.go, session-affinity.go *)
(* over TokenRefresh: concurrent chat requests, each the goroutine of      *)
(* one HTTP request.  A request walks the attempts of its route plan       *)
(* (HandleCombo); for each it selects an account, calls the upstream, and  *)
(* on a failure that another account may not share marks the account and   *)
(* selects again (executeOnProvider).                                      *)
(*                                                                         *)
(* A request stops at every point where another request can get between:   *)
(* a call of the store, of the affinity map, of a rotation counter, of the *)
(* token's issuer, of the upstream.  The steps between two such points are *)
(* one action.                                                             *)
(***************************************************************************)
EXTENDS TokenRefresh, Sequences

CONSTANTS
    Requests,    \* concurrent requests, each served once
    Plans,       \* the route plans ResolveRouteForTenant may return
    Combos,      \* combo names
    NoCombo,     \* the plan is a single model
    Sessions,    \* X-Session-Id values
    ApiKeys,     \* API key IDs
    NoKey,       \* no session, no API key, no affinity key
    Executors,   \* the providers with an executor
    Selector,    \* the refresher of ChatService's AccountSelector
    NoCreds,     \* nothing selected yet
    NoError      \* execErr = nil

\* A RouteAttempt: pin is the "@connectionId" of its qualified model.
Attempt == [model : Models, pin : Conns \cup {NoConn}, allow : AllowLists]

\* A request as HandleChat sees it once its route is resolved.
Plan == [attempts : Seq(Attempt), combo : Combos \cup {NoCombo},
         tenant : Tenants \cup {NoTenant}, session : Sessions \cup {NoKey},
         apiKey : ApiKeys \cup {NoKey}]

ASSUME ChatAssumption ==
    /\ Plans \subseteq Plan /\ Plans # {} /\ IsFiniteSet(Requests)
    /\ NoCombo \notin Combos /\ NoKey \notin Sessions \cup ApiKeys
    /\ Executors \subseteq Providers /\ Selector \in Refreshers
    /\ NoError \notin Errors

\* AffinityKey: the session header wins and is shared by all models and tenants.
AffinityKeys == ({"h"} \X Sessions) \cup ({"k"} \X ApiKeys \X Models)
AffinityKey(p, m) == IF p.session # NoKey THEN <<"h", p.session>>
                     ELSE IF p.apiKey # NoKey THEN <<"k", p.apiKey, m>>
                     ELSE NoKey

VARIABLES
    pc,           \* [Requests -> where the goroutine is]
    plan,         \* [Requests -> Plan]
    cancelled,    \* [Requests -> BOOLEAN]: ctx.Err() # nil
    combo,        \* [Requests -> HandleCombo's locals]
    loop,         \* [Requests -> executeOnProvider's locals]
    result,       \* [Requests -> ComboResult]: last result, then the answer
    stream,       \* [Requests -> who holds the upstream's response stream]
    affinity,     \* [AffinityKeys -> Conns \cup {NoConn}]: SessionAffinityStore
    comboKeys,    \* combos with a counter in ComboHandler.rotationState
    comboCounter  \* those int32 counters, 0 when absent

shared   == <<affinity, comboKeys, comboCounter>>
request  == <<pc, plan, cancelled, combo, loop, result, stream>>
chatVars == <<request, shared>>
vars     == <<chatVars, refreshVars>>

\* tried is a history variable: the accounts selected in this executeOnProvider.
FreshLoop == [exclude |-> {}, stickyTried |-> FALSE, soft |-> NoConn, key |-> NoKey,
              attempted |-> 0, conn |-> NoConn, creds |-> NoCreds, fail |-> NoError,
              lastFail |-> NoError, tried |-> {}]

Refusal(status, allowFallback, terminal) ==
    [ok |-> FALSE, status |-> status, allowFallback |-> allowFallback,
     terminal |-> terminal]
Success == [ok |-> TRUE, status |-> 200, allowFallback |-> FALSE, terminal |-> FALSE]
Aborted == Refusal(499, FALSE, FALSE)

\* The attempt at place n, counted round; HandleChat keeps one allow-list per
\* qualified model, so of two attempts on the same one the later one's serves both.
AttemptAt(attempts, n) ==
    LET here    == attempts[(n % Len(attempts)) + 1]
        Same(i) == attempts[i].model = here.model /\ attempts[i].pin = here.pin
        last    == CHOOSE i \in DOMAIN attempts :
                       Same(i) /\ \A j \in DOMAIN attempts : Same(j) => j <= i
    IN [here EXCEPT !.allow = attempts[last].allow]

\* The attempt request r is at.
Current(r) == AttemptAt(plan[r].attempts, combo[r].offset + combo[r].at)

Goto(r, label) == pc' = [pc EXCEPT ![r] = label]
Return(r, res) == result' = [result EXCEPT ![r] = res] /\ Goto(r, "result")
Answer(r, res) == result' = [result EXCEPT ![r] = res] /\ Goto(r, "done")

-----------------------------------------------------------------------------
(* HandleChat and HandleCombo *)

\* Resolve the route, read the combo strategy, rotate the models.
Arrive(r) ==
    /\ pc[r] = "idle"
    /\ \E p \in Plans :
         LET rotates == /\ p.combo # NoCombo /\ settings.comboStrategy = "round-robin"
             turns   == rotates /\ Len(p.attempts) > 1
             offset  == IF turns THEN RotationOffset(comboCounter[p.combo], Len(p.attempts))
                                 ELSE 0
         IN /\ plan' = [plan EXCEPT ![r] = p]
            /\ combo' = [combo EXCEPT ![r] = [offset |-> offset, at |-> 0,
                                              rotates |-> rotates, lastStatus |-> 0]]
            /\ comboKeys' = IF turns THEN comboKeys \cup {p.combo} ELSE comboKeys
            /\ IF p.attempts = <<>>
               THEN Answer(r, Refusal(403, FALSE, FALSE))
               ELSE Goto(r, "model") /\ UNCHANGED result
    /\ UNCHANGED <<cancelled, loop, stream, affinity, comboCounter, refreshVars>>

\* The locals with which executeOnProvider starts, and a slip in them: the accounts
\* excluded for the previous model stay excluded.
NewLoopStale(r, key) == [FreshLoop EXCEPT !.key = key, !.exclude = loop[r].exclude]
NewLoop(r, key) == [FreshLoop EXCEPT !.key = key]

\* The head of HandleCombo's loop, and executeOnProvider up to its own loop.
StartModel(r) ==
    /\ pc[r] = "model"
    /\ LET a   == Current(r)
           key == IF a.pin = NoConn /\ settings.sessionAffinity
                  THEN AffinityKey(plan[r], a.model) ELSE NoKey
           exhausted == combo[r].at = Len(plan[r].attempts)
       IN \/ /\ exhausted
             /\ Answer(r, Refusal(combo[r].lastStatus, FALSE, FALSE)) /\ UNCHANGED loop
          \/ /\ ~exhausted /\ cancelled[r]
             /\ Answer(r, Aborted) /\ UNCHANGED loop
          \/ /\ ~exhausted /\ ~cancelled[r]
             /\ loop' = [loop EXCEPT ![r] = NewLoop(r, key)]
             /\ IF a.pin # NoConn /\ ~Allowed(a.pin, a.allow)
                THEN Return(r, Refusal(403, FALSE, TRUE))
                ELSE IF ProviderOf[a.model] \notin Executors
                THEN Return(r, Refusal(400, FALSE, FALSE))
                ELSE Goto(r, "pick") /\ UNCHANGED result
    /\ UNCHANGED <<plan, cancelled, combo, stream, shared, refreshVars>>

-----------------------------------------------------------------------------
(* executeOnProvider's loop: selection *)

\* What the affinity map binds the request's session to; it is asked once.
Bound(r) == LET l == loop[r]
            IN IF l.key = NoKey \/ l.stickyTried THEN NoConn ELSE affinity[l.key]

\* The soft pin for the next selection (stickyAllowed), and a slip: any binding.
SoftPinUnrestricted(r) == Bound(r)
SoftPin(r) == IF Bound(r) # NoConn /\ Allowed(Bound(r), Current(r).allow)
              THEN Bound(r) ELSE NoConn

\* Check the context, then ask for a soft pin.
Pick(r) ==
    /\ pc[r] = "pick"
    /\ \/ /\ cancelled[r]
          /\ Return(r, Aborted) /\ UNCHANGED loop
       \/ /\ ~cancelled[r]
          /\ loop' = [loop EXCEPT ![r] = [loop[r] EXCEPT !.stickyTried = @ \/ Bound(r) # NoConn,
                                                         !.soft = SoftPin(r)]]
          /\ Goto(r, "select") /\ UNCHANGED result
    /\ UNCHANGED <<plan, cancelled, combo, stream, shared, refreshVars>>

\* A slip in Pinned: the pin of the plan forgotten.
PinnedSoftly(r) == loop[r].soft

\* The hard pin of the plan, else the soft pin of the session.
Pinned(r) == IF Current(r).pin # NoConn THEN Current(r).pin ELSE loop[r].soft

\* The connections SelectCredentials chooses from when nothing is pinned.
Pool(r) == LET a == Current(r)
           IN Available(a.model, loop[r].exclude, a.allow, plan[r].tenant)

\* A pin bypasses the strategy, and with it the rotation counter.
ReadRotation(r) == IF Pinned(r) # NoConn THEN UNCHANGED rotating
                   ELSE TouchRotation(Pool(r), Current(r).model, Current(r).allow)

\* SelectCredentialsForModel may answer connection c.
MaySelect(r, c) ==
    LET a == Current(r) IN
    IF Pinned(r) # NoConn
    THEN /\ c = Pinned(r)
         /\ PinVerdict(a.model, c, loop[r].exclude, plan[r].tenant) = "ok"
    ELSE Selects(c, Pool(r), a.model, a.allow)

\* The answer when no connection is available.
SelectionError(r) ==
    LET a == Current(r) IN
    IF Pinned(r) # NoConn
    THEN PinVerdict(a.model, Pinned(r), loop[r].exclude, plan[r].tenant)
    ELSE PoolError(a.model, loop[r].exclude, a.allow, plan[r].tenant)

\* mapSelectionErrorToComboResult
SelectionRefusal(kind) ==
    CASE kind = "no_active_credentials" -> Refusal(404, FALSE, FALSE)
      [] kind = "no_allowed_connection" -> Refusal(403, TRUE, FALSE)
      [] kind = "unsupported_model"     -> Refusal(400, TRUE, FALSE)
      [] kind \in {"rate_limited", "model_locked"} -> Refusal(429, FALSE, FALSE)
      [] OTHER                          -> Refusal(503, FALSE, FALSE)

NormalStatus(status) == IF status = 0 THEN 502 ELSE status

\* The result for an upstream failure e that ends executeOnProvider.
FailureResult(e) == Refusal(NormalStatus(e.status), IsRetryableUpstream(e), FALSE)

\* The connection serves with these credentials: count it, check its base URL.
Serves(r, c, creds) ==
    /\ loop' = [loop EXCEPT ![r] = [loop[r] EXCEPT !.conn = c, !.creds = creds,
                                                   !.attempted = @ + 1, !.tried = @ \cup {c}]]
    /\ IF creds.unsafeURL THEN Return(r, Refusal(400, FALSE, TRUE))
       ELSE Goto(r, "execute") /\ UNCHANGED result

\* No credentials: a soft pin is given up; otherwise the last upstream failure,
\* or else the selection's own error, is the result.
NoCredentials(r, refusal) ==
    LET lastFail == loop[r].lastFail IN
    IF loop[r].soft # NoConn THEN Goto(r, "unstick") /\ UNCHANGED result
    ELSE Return(r, IF lastFail # NoError THEN FailureResult(lastFail) ELSE refusal)

\* A connection is selected; its OAuth token, if it has one, may be due for renewal.
Select(r) ==
    /\ pc[r] = "select"
    /\ \E c \in Conns :
         /\ MaySelect(r, c)
         /\ \/ Serves(r, c, attrs[c])
            \/ /\ attrs[c].refreshable
               /\ loop' = [loop EXCEPT ![r] = [loop[r] EXCEPT !.conn = c, !.creds = attrs[c]]]
               /\ Goto(r, "renew") /\ UNCHANGED result
    /\ ReadRotation(r)
    /\ UNCHANGED <<plan, cancelled, combo, stream, shared, flight, config, health, now>>

SelectFails(r) ==
    /\ pc[r] = "select"
    /\ \A c \in Conns : ~MaySelect(r, c)
    /\ NoCredentials(r, SelectionRefusal(SelectionError(r)))
    /\ ReadRotation(r)
    /\ UNCHANGED <<plan, cancelled, combo, loop, stream, shared,
                   flight, config, health, now>>

\* The soft pin could not be selected: exclude it and forget the binding.
Unstick(r) ==
    /\ pc[r] = "unstick"
    /\ loop' = [loop EXCEPT ![r] = [loop[r] EXCEPT !.exclude = @ \cup {loop[r].soft},
                                                   !.soft = NoConn]]
    /\ affinity' = [affinity EXCEPT ![loop[r].key] = NoConn]
    /\ Goto(r, "pick")
    /\ UNCHANGED <<plan, cancelled, combo, result, stream,
                   comboKeys, comboCounter, refreshVars>>

-----------------------------------------------------------------------------
(* executeOnProvider's loop: the upstream's answer *)

\* What becomes of upstream failure e on the selected connection: a failure no
\* other account can mend is returned, any other cools the account first.
Judge(r, e) ==
    /\ loop' = [loop EXCEPT ![r] = [loop[r] EXCEPT !.fail = e]]
    /\ IF IsRetryableUpstream(e) THEN Goto(r, "mark") /\ UNCHANGED result
       ELSE Return(r, FailureResult(e))

\* executor.Execute returns: a stream, an aborted call (the client went away, or
\* the upstream reset the stream or timed out), or a failure.  A 401 on a
\* connection with a refresh token is retried once on that connection.
Execute(r) ==
    /\ pc[r] \in {"execute", "retry"}
    /\ \/ /\ Goto(r, "clear")
          /\ stream' = [stream EXCEPT ![r] = "open"]
          /\ UNCHANGED <<loop, result>>
       \/ Return(r, Aborted) /\ UNCHANGED <<loop, stream>>
       \/ \E e \in Errors :
          /\ IF pc[r] = "execute" /\ e.status = 401 /\ loop[r].creds.refreshable
             THEN /\ loop' = [loop EXCEPT ![r] = [loop[r] EXCEPT !.fail = e]]
                  /\ Goto(r, "refresh") /\ UNCHANGED result
             ELSE Judge(r, e)
          /\ UNCHANGED stream
    /\ UNCHANGED <<plan, cancelled, combo, shared, refreshVars>>

-----------------------------------------------------------------------------
(* Renewing the token: ForceRefresh, shared through the singleflight group *)

\* Enter the group: lead a renewal of connection c, or wait for the one under way.
JoinRefresh(r, c, label) ==
    /\ IF InFlight(Selector, c) THEN UNCHANGED flight ELSE BeginRefresh(Selector, c)
    /\ Goto(r, label)

\* ensureFreshOAuth, or (after a 401) RefreshCredentialsForOAuth: that one looks the
\* connection up again, and if it was deleted meanwhile the 401 stands.
Renew(r) ==
    /\ LET c == loop[r].conn IN
       \/ /\ pc[r] = "renew"
          /\ JoinRefresh(r, c, "renewing") /\ UNCHANGED <<loop, result>>
       \/ /\ pc[r] = "refresh" /\ c \in stored /\ attrs[c].refreshable
          /\ JoinRefresh(r, c, "refreshing") /\ UNCHANGED <<loop, result>>
       \/ /\ pc[r] = "refresh" /\ c \in stored /\ ~attrs[c].refreshable
          /\ loop' = [loop EXCEPT ![r] = [loop[r] EXCEPT !.creds = attrs[c]]]
          /\ Goto(r, "retry") /\ UNCHANGED <<flight, result>>
       \/ /\ pc[r] = "refresh" /\ c \notin stored
          /\ Judge(r, loop[r].fail) /\ UNCHANGED flight
    /\ UNCHANGED <<plan, cancelled, combo, stream, shared, selVars>>

\* The requests that wait for the renewal of c.
WaitingFor(c) == {r \in Requests : pc[r] \in {"renewing", "refreshing"} /\ loop[r].conn = c}

\* Where a waiting request goes on.
Woken(label, success) ==
    IF label = "renewing" THEN IF success THEN "renewed" ELSE "unrenewed"
                          ELSE IF success THEN "retry" ELSE "unrefreshed"

\* Every request that waits for the renewal of c goes on, with the credentials given.
Resume(c, success, creds) ==
    /\ pc' = [r \in Requests |-> IF r \in WaitingFor(c) THEN Woken(pc[r], success)
                                                      ELSE pc[r]]
    /\ loop' = [r \in Requests |-> IF r \in WaitingFor(c) /\ success
                                   THEN [loop[r] EXCEPT !.creds = creds] ELSE loop[r]]

\* The renewal of c that requests wait for ends.
EndRefresh(c) ==
    /\ \/ /\ PersistRefresh(Selector, c)
          /\ Resume(c, TRUE, flight[Selector][c].attrs)
          /\ UNCHANGED <<rotating, now>>
       \/ /\ AbandonRefresh(Selector, c)
          /\ \/ Resume(c, FALSE, NoCreds)
             \/ /\ flight[Selector][c].attrs.refreshable   \* not saved, or not due
                /\ Resume(c, TRUE, flight[Selector][c].attrs)
          /\ UNCHANGED selVars
    /\ UNCHANGED <<plan, cancelled, combo, result, stream, shared>>

\* After the renewal, during selection.  When it failed, a token that was only about
\* to expire still serves, and an expired one ends the selection (no retry elsewhere).
Renewed(r) ==
    /\ \/ /\ pc[r] \in {"renewed", "unrenewed"}
          /\ Serves(r, loop[r].conn, loop[r].creds)
       \/ /\ pc[r] = "unrenewed"
          /\ NoCredentials(r, Refusal(503, FALSE, FALSE)) /\ UNCHANGED loop
       \/ /\ pc[r] = "unrefreshed"
          /\ Judge(r, loop[r].fail)
    /\ UNCHANGED <<plan, cancelled, combo, stream, shared, refreshVars>>

-----------------------------------------------------------------------------
(* executeOnProvider's loop: the verdict *)

\* Success, step 1: lift the account's cool-down and the model's lock.
Clear(r) ==
    /\ pc[r] = "clear"
    /\ ClearError(loop[r].conn, Current(r).model)
    /\ Goto(r, "advance")
    /\ UNCHANGED <<plan, cancelled, combo, loop, result, stream, shared,
                   flight, config, rotating, now>>

\* Success, step 2: the next request starts with the next account.
Advance(r) ==
    /\ pc[r] = "advance"
    /\ AdvanceConnectionRotation(Current(r).model, Current(r).allow)
    /\ IF loop[r].key # NoKey THEN Goto(r, "bind") /\ UNCHANGED result
       ELSE Return(r, Success)
    /\ UNCHANGED <<plan, cancelled, combo, loop, stream, shared,
                   flight, config, health, now>>

\* Success, step 3: the session sticks to this connection.
Bind(r) ==
    /\ pc[r] = "bind"
    /\ affinity' = [affinity EXCEPT ![loop[r].key] = loop[r].conn]
    /\ Return(r, Success)
    /\ UNCHANGED <<plan, cancelled, combo, loop, stream,
                   comboKeys, comboCounter, refreshVars>>

\* Failure, step 1: cool the account.
Mark(r) ==
    /\ pc[r] = "mark"
    /\ MarkUnavailable(loop[r].conn, loop[r].fail, Current(r).model)
    /\ Goto(r, "spill")
    /\ UNCHANGED <<plan, cancelled, combo, loop, result, stream, shared,
                   flight, config, rotating, now>>

\* shouldStopCredentialRetry, and a slip in it: one account too many.
OutOfBudgetLate(attempted) == /\ settings.maxRetryCredentials > 0
                              /\ attempted > settings.maxRetryCredentials
OutOfBudget(attempted) == /\ settings.maxRetryCredentials > 0
                          /\ attempted >= settings.maxRetryCredentials

\* The failed account is excluded and its failure kept, and a slip: only kept.
KeepOnly(l) == [l EXCEPT !.lastFail = l.fail]
Exclude(l)  == [l EXCEPT !.exclude = @ \cup {l.conn}, !.lastFail = l.fail]

\* The affinity map once a soft pin has failed, and a slip: Put instead of Delete.
BindFailed(l)   == IF l.key # NoKey THEN [affinity EXCEPT ![l.key] = l.conn] ELSE affinity
ForgetSticky(l) == IF l.soft # NoConn THEN [affinity EXCEPT ![l.key] = NoConn] ELSE affinity

\* Failure, step 2: exclude the account; forget a soft pin, stop at a hard pin;
\* stop when the retry budget is spent, otherwise select again.
Spill(r) ==
    /\ pc[r] = "spill"
    /\ LET l == loop[r]
           hardPin == Current(r).pin # NoConn
       IN /\ loop' = [loop EXCEPT ![r] = Exclude(l)]
          /\ affinity' = ForgetSticky(l)
          /\ \/ hardPin /\ Return(r, FailureResult(l.fail))
             \/ ~hardPin /\ OutOfBudget(l.attempted) /\ Return(r, Refusal(503, TRUE, FALSE))
             \/ ~hardPin /\ ~OutOfBudget(l.attempted) /\ Goto(r, "pick") /\ UNCHANGED result
    /\ UNCHANGED <<plan, cancelled, combo, stream, comboKeys, comboCounter, refreshVars>>

-----------------------------------------------------------------------------
(* HandleCombo: what becomes of a result *)

ShouldComboFallback(status) == ~IsNonFallbackStatus(status)
TransientStatus == {502, 503, 504}
IsClientAbort(r) == cancelled[r] \/ result[r].status = 499
Ends(res) == res.terminal \/ (~res.allowFallback /\ ~ShouldComboFallback(res.status))

\* advanceRotation
AdvanceComboRotation(r) ==
    comboCounter' = IF combo[r].rotates /\ plan[r].combo \in comboKeys
                    THEN [comboCounter EXCEPT ![plan[r].combo] = Bump(@)]
                    ELSE comboCounter

\* A success goes to the HTTP handler.
Deliver(r) ==
    /\ result[r].ok
    /\ stream' = [stream EXCEPT ![r] = "handed"]
    /\ AdvanceComboRotation(r)
    /\ Goto(r, "done") /\ UNCHANGED <<combo, result>>

\* The next model's turn, and slips: the rotation advances on failures as well; a
\* model that failed for a passing reason keeps its turn.
Proceed(r) ==
    /\ combo' = [combo EXCEPT ![r] = [combo[r] EXCEPT !.at = @ + 1,
                                                      !.lastStatus = result[r].status]]
    /\ Goto(r, IF result[r].status \in TransientStatus THEN "pause" ELSE "model")
    /\ UNCHANGED <<result, stream>>
NextModelAdvancing(r) == Proceed(r) /\ AdvanceComboRotation(r)
NextModelAgain(r) ==
    IF result[r].status \in TransientStatus
    THEN Goto(r, "pause") /\ UNCHANGED <<combo, result, stream, comboCounter>>
    ELSE Proceed(r) /\ UNCHANGED comboCounter
NextModel(r)          == Proceed(r) /\ UNCHANGED comboCounter

\* handleSingle returned.  An abort ends the request whatever the result was, a
\* success is delivered, and of the failures some end the request.
HandleResult(r) ==
    /\ pc[r] = "result"
    /\ \/ /\ IsClientAbort(r)
          /\ Answer(r, Aborted) /\ UNCHANGED <<combo, stream, comboCounter>>
       \/ ~IsClientAbort(r) /\ Deliver(r)
       \/ /\ ~IsClientAbort(r) /\ ~result[r].ok /\ Ends(result[r])
          /\ Goto(r, "done") /\ UNCHANGED <<combo, result, stream, comboCounter>>
       \/ ~IsClientAbort(r) /\ ~result[r].ok /\ ~Ends(result[r]) /\ NextModel(r)
    /\ UNCHANGED <<plan, cancelled, loop, affinity, comboKeys, refreshVars>>

\* The two seconds before the next model, cut short when the client goes away.
Pause(r) ==
    /\ pc[r] = "pause"
    /\ \/ cancelled[r] /\ Answer(r, Aborted)
       \/ Goto(r, "model") /\ UNCHANGED result
    /\ UNCHANGED <<plan, cancelled, combo, loop, stream, shared, refreshVars>>

-----------------------------------------------------------------------------
(* The surroundings of a request *)

\* The client goes away while its request is served.
Cancel(r) ==
    /\ pc[r] \notin {"idle", "done"} /\ ~cancelled[r]
    /\ cancelled' = [cancelled EXCEPT ![r] = TRUE]
    /\ UNCHANGED <<pc, plan, combo, loop, result, stream, shared, refreshVars>>

\* The HTTP handler has relayed the stream and closes it, which ends the log entry.
Close(r) ==
    /\ stream[r] = "handed"
    /\ stream' = [stream EXCEPT ![r] = "closed"]
    /\ UNCHANGED <<pc, plan, cancelled, combo, loop, result, shared, refreshVars>>

\* A binding outlives its TTL; Get drops it the next time it is asked.
ExpireAffinity(k) ==
    /\ affinity[k] # NoConn
    /\ affinity' = [affinity EXCEPT ![k] = NoConn]
    /\ UNCHANGED <<request, comboKeys, comboCounter, refreshVars>>

\* The combo is deleted: ComboHandler.ClearRotation.
ClearComboRotation(k) ==
    /\ k \in comboKeys
    /\ comboKeys' = comboKeys \ {k}
    /\ comboCounter' = [comboCounter EXCEPT ![k] = 0]
    /\ UNCHANGED <<request, affinity, refreshVars>>

\* One step of the goroutine that serves r.
Serve(r) ==
    \/ Arrive(r) \/ StartModel(r) \/ Pick(r) \/ Select(r) \/ SelectFails(r) \/ Unstick(r)
    \/ Execute(r) \/ Renew(r) \/ Renewed(r) \/ Clear(r) \/ Advance(r) \/ Bind(r)
    \/ Mark(r) \/ Spill(r) \/ HandleResult(r) \/ Pause(r)

Init ==
    /\ RefreshInit
    /\ pc = [r \in Requests |-> "idle"]
    /\ plan = [r \in Requests |-> CHOOSE p \in Plans : TRUE]  \* set by Arrive
    /\ cancelled = [r \in Requests |-> FALSE]
    /\ combo = [r \in Requests |-> [offset |-> 0, at |-> 0, rotates |-> FALSE,
                                  lastStatus |-> 0]]
    /\ loop = [r \in Requests |-> FreshLoop]
    /\ result = [r \in Requests |-> Refusal(0, FALSE, FALSE)]
    /\ stream = [r \in Requests |-> "none"]
    /\ affinity = [k \in AffinityKeys |-> NoConn]
    /\ comboKeys = {}
    /\ comboCounter = [k \in Combos |-> 0]

Next ==
    \/ \E r \in Requests : Serve(r) \/ Cancel(r) \/ Close(r)
    \/ \E k \in AffinityKeys : ExpireAffinity(k)
    \/ \E k \in Combos : ClearComboRotation(k)
    \/ \E c \in Conns : EndRefresh(c)
    \/ \E i \in Refreshers \ {Selector} : Refresher(i) /\ UNCHANGED chatVars
    \/ Environment /\ UNCHANGED <<chatVars, flight>>

\* The Go scheduler runs every goroutine, and an upstream call returns at the
\* latest when the transport's response-header timeout (90 s) strikes, a renewal
\* when its HTTP client's (30 s) does.
Fairness == /\ \A r \in Requests : WF_vars(Serve(r))
            /\ \A c \in Conns : WF_vars(EndRefresh(c))

Spec == Init /\ [][Next]_vars
FairSpec == Spec /\ Fairness

-----------------------------------------------------------------------------
(* Properties *)

Labels == {"idle", "model", "pick", "select", "unstick", "renew", "renewing", "renewed",
           "unrenewed", "execute", "refresh", "refreshing", "unrefreshed", "retry", "clear",
           "advance", "bind", "mark", "spill", "result", "pause", "done"}

LoopState ==
    [exclude : SUBSET Conns, stickyTried : BOOLEAN, soft : Conns \cup {NoConn},
     key : AffinityKeys \cup {NoKey}, attempted : Nat, conn : Conns \cup {NoConn},
     creds : Attrs \cup {NoCreds}, fail : Errors \cup {NoError},
     lastFail : Errors \cup {NoError}, tried : SUBSET Conns]

\* Every variable stays in its range.
TypeOK ==
    /\ RefreshTypeOK
    /\ pc \in [Requests -> Labels]
    /\ plan \in [Requests -> Plans]
    /\ cancelled \in [Requests -> BOOLEAN]
    /\ combo \in [Requests -> [offset : Nat, at : Nat, rotates : BOOLEAN, lastStatus : Nat]]
    /\ loop \in [Requests -> LoopState]
    /\ result \in [Requests -> [ok : BOOLEAN, status : Nat, allowFallback : BOOLEAN,
                                terminal : BOOLEAN]]
    /\ stream \in [Requests -> {"none", "open", "handed", "closed"}]
    /\ affinity \in [AffinityKeys -> Conns \cup {NoConn}]
    /\ comboKeys \subseteq Combos
    /\ comboCounter \in [Combos -> (-CounterMax - 1)..CounterMax]

\* r is inside executeOnProvider: loop[r] belongs to the attempt Current(r).
InLoop(r) == pc[r] \notin {"idle", "model", "pause", "done"}

\* Within one attempt no account is selected twice, whatever other requests do to
\* its health or to the session's binding meanwhile; the retry after a token
\* refresh stays on the selected account and is not counted.
DistinctAccounts ==
    \A r \in Requests : InLoop(r) => loop[r].attempted = Cardinality(loop[r].tried)

\* An attempt uses no more accounts than some saved maxRetryCredentials allows,
\* soft pins included.
BudgetRespected ==
    \A r \in Requests : InLoop(r) =>
        \E s \in SettingsSet : \/ s.maxRetryCredentials = 0
                               \/ loop[r].attempted <= s.maxRetryCredentials

\* A connection the user pinned is the only one used: no failure, no session
\* binding and no retry moves the attempt to another one.
PinNeverSpills ==
    \A r \in Requests : InLoop(r) /\ Current(r).pin # NoConn
                          => loop[r].tried \subseteq {Current(r).pin}

\* Every connection an attempt uses is on its allow-list, also one that comes
\* from a session binding made under another route.
AllowListRespected ==
    \A r \in Requests : InLoop(r) =>
        \A c \in loop[r].tried : Allowed(c, Current(r).allow)

\* A tenant's request never tries another tenant's connection, although bindings
\* by session header are shared by all tenants.
TenantIsolated ==
    \A r \in Requests : InLoop(r) /\ plan[r].tenant # NoTenant =>
        \A c \in loop[r].tried : attrs[c].tenant = plan[r].tenant

\* Selection without a pin gives up only when it is exhausted: every account that
\* could serve at that moment has been tried, except the session's rejected pin.
\* An attempt has other ends, which are not meant: its budget, a failure that no
\* other account would mend, a token that could not be renewed.
SelectionGivesUpExhausted ==
    [][\A r \in Requests :
          pc[r] = "select" /\ pc'[r] = "result" /\ ~result'[r].terminal
             /\ Current(r).pin = NoConn
          => LET a == Current(r)
                 untried == Available(a.model, loop[r].tried, a.allow, plan[r].tenant)
             IN Cardinality(untried) <= (IF loop[r].stickyTried THEN 1 ELSE 0)]_vars

\* A combo's rotation moves on for answers a client received, and for no others.
RotationOnlyBySuccess ==
    \A k \in Combos :
        comboCounter[k] <= Cardinality({r \in Requests :
            plan[r].combo = k /\ combo[r].rotates /\ stream[r] \in {"handed", "closed"}})

\* A session is only ever bound to a connection that answered a request of that
\* session.
AffinityFollowsSuccess ==
    \A k \in AffinityKeys : affinity[k] # NoConn =>
        \E r \in Requests : /\ stream[r] # "none"
                            /\ loop[r].key = k /\ loop[r].conn = affinity[k]

\* Every request is answered, however its accounts fail and other requests
\* interfere: no selection loop runs for ever.
Served == \A r \in Requests : pc[r] = "model" ~> pc[r] = "done"

\* What the comment at the stream wrapper assumes: a stream that was opened has a
\* consumer, who closes it (and with it the request's log entry).
StreamHasConsumer ==
    \A r \in Requests : pc[r] = "done" => stream[r] # "open"

\* What the changelog says of the shared failure taxonomy: account fallback and
\* combo routing agree, so a failure that no other account can mend ends the request.
\* Not so for a status that is retryable with a text that is not (README, section 6).
ComboRoutingAgrees ==
    [][\A r \in Requests :
          /\ pc[r] = "result"
          /\ loop[r].fail # NoError /\ ~IsRetryableUpstream(loop[r].fail)
          => pc'[r] \in {"result", "done"}]_vars

\* What the API documentation says of a 503: all accounts failed.  Of the untried
\* accounts none could have served when selection ended the attempt with it.
UnavailableMeansAllTried ==
    [][\A r \in Requests :
          pc[r] \in {"select", "unrenewed"} /\ pc'[r] = "result"
             /\ result'[r].status = 503 /\ Current(r).pin = NoConn
          => LET a == Current(r)
             IN Available(a.model, {}, a.allow, plan[r].tenant)
                   \subseteq loop[r].tried \cup {loop[r].conn}]_vars
=============================================================================
