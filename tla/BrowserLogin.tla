---------------------------- MODULE BrowserLogin ----------------------------
(***************************************************************************)
(* Logins in the browser: openai-connection-form.tsx, which polls with an  *)
(* interval whose callback is asynchronous, so that polls overlap, and     *)
(* xai-connection-form.tsx and the social panel of the Kiro form, which    *)
(* wait for the callback URL to be pasted.                                 *)
(*                                                                         *)
(* As in DeviceLogin, local.form counts the mounted instances and late the *)
(* sessions whose deadline has passed.  A form has at most one interval,   *)
(* and its deadline ref is that interval's.                                *)
(***************************************************************************)
EXTENDS DeviceLogin

OpenAIForm  == [name |-> "openai", polls |-> TRUE]
XaiForm     == [name |-> "xai", polls |-> FALSE]
SocialPanel == [name |-> "social", polls |-> FALSE]

BrowserInit ==
    /\ screen = "browser"
    /\ \E flow \in {OpenAIForm, XaiForm, SocialPanel} :
          local = [flow |-> flow, form |-> 1, mounted |-> TRUE, starting |-> FALSE, session |-> None,
                   callback |-> FALSE, tried |-> FALSE, pollTimedOut |-> FALSE,
                   ref |-> [f \in 1..Forms |-> None], of |-> [s \in Sessions |-> 0],
                   late |-> {}]
    /\ db = 0
    /\ calls = NoCalls

-----------------------------------------------------------------------------
\* OAuthWaitingPanel: its buttons, and whether it says it is waiting.
OAuthWaitingPanel == IF ~local.mounted \/ local.session = None THEN {}
                     ELSE {"cancel", "paste"} \cup
                          (IF local.callback /\ ~local.starting THEN {"submit"} ELSE {})
AutoWaiting == local.mounted /\ local.flow.polls /\ local.session # None /\ ~local.pollTimedOut

\* clearSession of form f: the interval goes, whichever session it asks about.
clearSession(l, f) ==
    LET d == [l EXCEPT !.ref[f] = None] IN
    OnScreen(d, f, [d EXCEPT !.session = None, !.callback = FALSE, !.tried = FALSE,
                             !.pollTimedOut = FALSE])

\* startLogin, and the start buttons of the other two.
BrowserStart ==
    /\ local.mounted /\ local.session = None /\ ~local.starting /\ Room(1)
    /\ Do([local EXCEPT !.starting = TRUE, !.pollTimedOut = FALSE],
          Plus(calls, Call("start", local.form)))

\* The session is there; of OpenAI the interval starts, mounted or not.
BrowserSession(n) ==
    /\ Sent(n) /\ calls[n].op = "start" /\ db + 1 \in Sessions
    /\ LET f == calls[n].arg
           s == db + 1
           p == IF local.flow.polls THEN [local EXCEPT !.ref[f] = s, !.of[s] = f] ELSE local
       IN  local' = OnScreen(p, f, [p EXCEPT !.session = s, !.starting = FALSE])
    /\ calls' = Minus(calls, n) /\ db' = db + 1 /\ screen' = screen

BrowserStartFails(n) ==
    /\ Sent(n) /\ calls[n].op = "start"
    /\ Do(OnScreen(local, calls[n].arg, [local EXCEPT !.starting = FALSE]), Minus(calls, n))

\* The interval of form f: past the deadline it stops itself, else it polls.
IntervalTicks(f) ==
    /\ local.ref[f] # None
    /\ LET stopped == [local EXCEPT !.ref[f] = None] IN
       IF local.ref[f] \in local.late
       THEN Do(OnScreen(stopped, f, [stopped EXCEPT !.pollTimedOut = TRUE]), calls)
       ELSE Room(1) /\ Do(local, Plus(calls, Call("poll", local.ref[f])))

\* A poll comes back, maybe of a session that was cancelled meanwhile.
IntervalAnswers(n, status) ==
    /\ Sent(n) /\ calls[n].op = "poll"
    /\ Do(IF status \in {"pending", "throws"} THEN local
          ELSE clearSession(local, local.of[calls[n].arg]),   \* and onSuccess or onError
          Minus(calls, n))

PasteCallback ==
    /\ "paste" \in OAuthWaitingPanel /\ ~local.callback
    /\ Do([local EXCEPT !.callback = TRUE], calls)

\* submitCallback: the interval stops before the exchange is asked for.
submitCallback ==
    /\ "submit" \in OAuthWaitingPanel /\ Room(1)
    /\ Do([local EXCEPT !.starting = TRUE, !.tried = TRUE, !.ref[local.form] = None],
          Plus(calls, Call("exchange", local.form)))

\* Its answer closes the session of OpenAI; an exception, and the other two
\* forms, leave the panel as it is.
CallbackAnswers(n, status) ==
    /\ Sent(n) /\ calls[n].op = "exchange"
    /\ LET f == calls[n].arg
           d == IF local.flow.polls /\ status # "throws" THEN clearSession(local, f) ELSE local
       IN  Do(OnScreen(d, f, [d EXCEPT !.starting = FALSE]), Minus(calls, n))

BrowserCancel ==
    /\ "cancel" \in OAuthWaitingPanel
    /\ Do(clearSession(local, local.form), calls)

BrowserUnmounts ==
    /\ local.mounted
    /\ Do([clearSession(local, local.form) EXCEPT !.mounted = FALSE, !.starting = FALSE], calls)
BrowserMounts ==
    /\ ~local.mounted /\ local.form < Forms
    /\ Do([local EXCEPT !.mounted = TRUE, !.form = @ + 1], calls)

BrowserDeadline(s) ==
    /\ \E f \in 1..Forms : local.ref[f] = s
    /\ s \notin local.late /\ Do([local EXCEPT !.late = @ \cup {s}], calls)

BrowserNext ==
    \/ BrowserStart \/ PasteCallback \/ submitCallback \/ BrowserCancel
    \/ BrowserUnmounts \/ BrowserMounts
    \/ \E f \in 1..Forms : IntervalTicks(f)
    \/ \E s \in Sessions : BrowserDeadline(s)
    \/ \E n \in DOMAIN calls : \/ BrowserSession(n) \/ BrowserStartFails(n)
                                \/ \E status \in PollStatus :
                                      CallbackAnswers(n, status) \/ IntervalAnswers(n, status)

-----------------------------------------------------------------------------
BrowserPolls(s) == \E f \in 1..Forms : local.ref[f] = s

\* Until a callback is submitted, "Waiting for authorization" is backed by an
\* interval that asks about the session shown, whichever polls of other sessions
\* and forms are answered.  Submitting stops the interval for good: see
\* WaitingIsBacked.
BrowserWaits == screen = "browser" => (AutoWaiting /\ ~local.tried => BrowserPolls(local.session))

\* "Transient errors keep the interval running; deadline stops it": a panel
\* that waits has an interval, or the exchange it asked for is under way.  Not so
\* after a callback whose request failed (README, section 6).
WaitingIsBacked ==
    screen = "browser" => (AutoWaiting => BrowserPolls(local.session) \/ Outstanding({"exchange"}))
=============================================================================
