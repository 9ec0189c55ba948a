---------------------------- MODULE DeviceLogin -----------------------------
(***************************************************************************)
(* Device-code logins: kiro-connection-form.tsx (Builder ID, Identity      *)
(* Center) and qwen-connection-form.tsx.  A start request opens a session  *)
(* at the server; the form shows its code and polls it with a timer that   *)
(* re-arms itself.  Cancel, restart and unmount clear the one timer the    *)
(* ref remembers; a poll that is under way at that moment still comes back *)
(* and decides for itself whether to go on.                                *)
(*                                                                         *)
(* Time is only whether a session's deadline has passed (local.late).      *)
(* local.form counts the mounted instances of the form; a timer or answer  *)
(* of an earlier one finds its own ref and cannot reach the screen.        *)
(* Nothing else reads what the server holds, so an answer is chosen when   *)
(* it arrives.  db: the number of sessions handed out.                     *)
(***************************************************************************)
EXTENDS Screens

CONSTANTS
    Sessions,   \* bound: login sessions the server hands out, 1..k
    Forms       \* bound: times the form is mounted

\* Sessions are numbered from 1, so that 0 and null name none.
ASSUME SessionsAssumption == Sessions \subseteq Nat \ {0} /\ None \notin Sessions /\ Forms \in Nat \ {0}

\* The panels with a device code: does "Get new code" put the old session away?
BuilderIdPanel == [name |-> "builder-id", clearsOnRestart |-> TRUE]
IdcPanel       == [name |-> "idc", clearsOnRestart |-> FALSE]
QwenForm       == [name |-> "qwen", clearsOnRestart |-> FALSE]
DeviceFlows == {BuilderIdPanel, IdcPanel, QwenForm}

DeviceInit ==
    /\ screen = "device"
    /\ \E flow \in DeviceFlows :
          local = [flow |-> flow, form |-> 1, mounted |-> TRUE, loading |-> FALSE,
                   deviceCode |-> None, codeExpired |-> FALSE, polling |-> FALSE,
                   ref |-> [f \in 1..Forms |-> None], of |-> [s \in Sessions |-> 0],
                   loop |-> [s \in Sessions |-> "none"], late |-> {}]
    /\ db = 0
    /\ calls = NoCalls

-----------------------------------------------------------------------------
\* What the form shows: its start button, or DeviceCodePanel with its buttons.
Panel == local.mounted /\ (local.deviceCode # None \/ local.codeExpired)
DeviceCodePanel == IF ~Panel THEN {}
                   ELSE IF local.codeExpired THEN {"cancel", "restart"} ELSE {"cancel"}
StartButton == local.mounted /\ ~Panel /\ ~local.loading

\* clearTimeout of what the ref of form f holds: nothing if that timer has fired.
Disarm(l, f) ==
    LET s == l.ref[f] IN
    [l EXCEPT !.ref[f] = None,
              !.loop = IF s # None /\ l.loop[s] = "timer" THEN [@ EXCEPT ![s] = "over"] ELSE @]

\* A form that is gone has no screen: only its timers and its ref are left.
OnScreen(l, f, shown) == IF f = l.form /\ l.mounted THEN shown ELSE l

clearPolling(l, f) ==
    LET d == Disarm(l, f) IN
    OnScreen(d, f, [d EXCEPT !.deviceCode = None, !.polling = FALSE, !.codeExpired = FALSE])

\* A slip in Rearm: a network hiccup ends the loop.
RearmOnlyIfPending(l, s, failed) ==
    IF failed THEN [l EXCEPT !.loop[s] = "over"]
    ELSE [l EXCEPT !.loop[s] = "timer", !.ref[l.of[s]] = s]

\* setTimeout(poll) again, after a pending answer or a network hiccup.
Rearm(l, s, failed) == [l EXCEPT !.loop[s] = "timer", !.ref[l.of[s]] = s]

\* run / startLoginFlow: ask the server for a session.
AskForCode(l) ==
    /\ Room(1)
    /\ Do([l EXCEPT !.loading = TRUE], Plus(calls, Call("start", l.form)))

StartLogin == StartButton /\ AskForCode(local)

\* "Get new code".
Restart ==
    /\ "restart" \in DeviceCodePanel
    /\ AskForCode(IF local.flow.clearsOnRestart THEN clearPolling(local, local.form) ELSE local)

Cancel ==
    /\ "cancel" \in DeviceCodePanel
    /\ Do(clearPolling(local, local.form), calls)

\* startPolling: the first timer of session s, for the form f that asked.
startPolling(l, s, f) == [l EXCEPT !.loop[s] = "timer", !.of[s] = f, !.ref[f] = s]

CodeArrives(n) ==
    /\ Sent(n) /\ calls[n].op = "start" /\ db + 1 \in Sessions
    /\ LET f == calls[n].arg
           p == startPolling(local, db + 1, f)
       IN  local' = OnScreen(p, f, [p EXCEPT !.deviceCode = db + 1, !.polling = TRUE, !.loading = FALSE])
    /\ calls' = Minus(calls, n) /\ db' = db + 1 /\ screen' = screen

CodeFails(n) ==
    /\ Sent(n) /\ calls[n].op = "start"
    /\ Do(OnScreen(local, calls[n].arg, [local EXCEPT !.loading = FALSE]), Minus(calls, n))

\* A slip in TimerFires: the deadline is not looked at.
TimerNeverExpires(s) ==
    /\ local.loop[s] = "timer" /\ Room(1)
    /\ Do([local EXCEPT !.loop[s] = "asked"], Plus(calls, Call("poll", s)))

\* poll: the timer fires; past the deadline it ends the loop and says so.
TimerFires(s) ==
    /\ local.loop[s] = "timer"
    /\ LET over == [local EXCEPT !.loop[s] = "over"] IN
       IF s \in local.late
       THEN Do(OnScreen(over, local.of[s], [over EXCEPT !.polling = FALSE, !.codeExpired = TRUE]), calls)
       ELSE Room(1) /\ Do([local EXCEPT !.loop[s] = "asked"], Plus(calls, Call("poll", s)))

\* What poll does with its answer: pending, success, denied, or an exception.
PollAnswers(n, status) ==
    /\ Sent(n) /\ calls[n].op = "poll"
    /\ LET s == calls[n].arg
           over == [local EXCEPT !.loop[s] = "over"]
       IN  Do(IF status \in {"pending", "throws"} THEN Rearm(local, s, status = "throws")
              ELSE clearPolling(over, local.of[s]),   \* and onSuccess or onError
              Minus(calls, n))

\* The dialog closes, or another provider is chosen; and opens again.  (Another
\* method of the provider only hides the panel: the form stays as it is.)
FormUnmounts ==
    /\ local.mounted
    /\ Do([Disarm(local, local.form) EXCEPT !.mounted = FALSE, !.loading = FALSE, !.deviceCode = None,
                                            !.polling = FALSE, !.codeExpired = FALSE], calls)
FormMounts ==
    /\ ~local.mounted /\ local.form < Forms
    /\ Do([local EXCEPT !.mounted = TRUE, !.form = @ + 1], calls)

DeadlinePasses(s) ==
    /\ local.loop[s] \in {"timer", "asked"} /\ s \notin local.late
    /\ Do([local EXCEPT !.late = @ \cup {s}], calls)

PollStatus == {"pending", "success", "error", "throws"}

DeviceNext ==
    \/ StartLogin \/ Restart \/ Cancel \/ FormUnmounts \/ FormMounts
    \/ \E s \in Sessions : TimerFires(s) \/ DeadlinePasses(s)
    \/ \E n \in DOMAIN calls : \/ CodeArrives(n) \/ CodeFails(n)
                                \/ \E status \in PollStatus : PollAnswers(n, status)

\* Timers fire and time passes.
DeviceFairness ==
    /\ \A s \in Sessions : WF_uiVars(screen = "device" /\ TimerFires(s))
    /\ WF_uiVars(screen = "device" /\ \E s \in Sessions : DeadlinePasses(s))
DeviceAnswers(n) ==
    screen = "device" /\ (CodeArrives(n) \/ CodeFails(n) \/ \E status \in PollStatus : PollAnswers(n, status))

-----------------------------------------------------------------------------
Looping(s) == local.loop[s] \in {"timer", "asked"}

\* While the panel shows its waiting spinner, a loop is asking about the very
\* session whose code is shown, whatever was cancelled, restarted, answered
\* late or lost before (startPolling, clearPolling).
WaitingHasLoop ==
    screen = "device" /\ local.mounted /\ local.polling =>
       local.deviceCode # None /\ Looping(local.deviceCode)

\* Every polling loop ends, also one that nobody can cancel any more because
\* its form is gone or another session's timer has taken the ref (the deadline
\* in startPolling's closure).  No more logins than Sessions are started, so in
\* the end none is left.
PollingEnds ==
    (screen = "device" /\ \E s \in Sessions : Looping(s)) ~> (screen = "device" /\ \A s \in Sessions : ~Looping(s))

=============================================================================
