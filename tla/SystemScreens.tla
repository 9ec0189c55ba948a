--------------------------- MODULE SystemScreens ----------------------------
(***************************************************************************)
(* The screens about the proxy itself: its settings, the coding tools that *)
(* it configures, and the tunnel (settings-screen.tsx, tools-screen.tsx,   *)
(* tunnel-screen.tsx).  Each is a scene with a state and actions of its    *)
(* own; db holds what the server has of it.                                *)
(***************************************************************************)
EXTENDS Screens

(* Settings: one form, read once, edited, and saved as a whole.  Kept of   *)
(* it: the strategy for accounts and a provider's own, the compression of  *)
(* tool results, and the default models of a provider.                     *)

CONNECTION_STRATEGIES == {"fill-first", "round-robin"}
USE_DEFAULT == "__default__"
BuiltIn == <<"m1">>
DEFAULT_SETTINGS == [strategy |-> "fill-first", own |-> USE_DEFAULT, compress |-> FALSE, min |-> 500, models |-> None]

\* What is typed into the list of models: an empty list and the built-in one
\* are no list of one's own.
handleModelsChange(list) == IF list \in {<<>>, BuiltIn} THEN None ELSE list
rows(form) == [models |-> IF form.models = None THEN BuiltIn ELSE form.models, isCustom |-> form.models # None]

SelectStrategy(form)  == {[form EXCEPT !.strategy = s] : s \in CONNECTION_STRATEGIES}
SelectOverride(form)  == {[form EXCEPT !.own = s] : s \in CONNECTION_STRATEGIES \cup {USE_DEFAULT}}
EditCompression(form) == {[form EXCEPT !.compress = ~@]}
                         \cup {[form EXCEPT !.min = m] : m \in IF form.compress THEN {1, 500} ELSE {}}
EditModels(form)      == {[form EXCEPT !.models = handleModelsChange(l)] : l \in {<<>>, BuiltIn, <<"m1", "m2">>}}
updateField(form)     == SelectStrategy(form) \cup SelectOverride(form) \cup EditCompression(form) \cup EditModels(form)

\* told is history: some answer has reached the screen, and that of no save was
\* lost since.
SettingsInit ==
    /\ screen = "settings"
    /\ db \in {DEFAULT_SETTINGS, [DEFAULT_SETTINGS EXCEPT !.own = "round-robin", !.models = <<"m2">>]}
    /\ local = [left |-> MaxClicks, settings |-> DEFAULT_SETTINGS, saved |-> DEFAULT_SETTINGS,
                loading |-> TRUE, saving |-> FALSE, told |-> FALSE]
    /\ calls = Plus(NoCalls, Call("settings", None))

hasChanges == local.settings # local.saved
EditSettings ==
    /\ local.left > 0 /\ ~local.loading
    /\ \E form \in updateField(local.settings) : Do([local EXCEPT !.settings = form], calls)
handleSave ==
    /\ hasChanges /\ ~local.saving /\ Room(1)
    /\ Ask([local EXCEPT !.saving = TRUE], Plus(calls, Call("save", local.settings)))
handleDiscard ==
    /\ hasChanges /\ ~local.saving
    /\ Do([local EXCEPT !.settings = local.saved], calls)

\* fetchSettings, and what comes after the await of handleSave: form and
\* saved become what the server says, over any edit made meanwhile.  If the
\* answer to a save is lost, the form stays as it is with its changes.
SettingsAnswer(n) ==
    /\ Sent(n) /\ calls[n].op \in {"settings", "save"}
    /\ \E ok, done \in BOOLEAN :
          LET form == IF calls[n].op = "save" THEN calls[n].arg ELSE db
              l == IF ok THEN [local EXCEPT !.settings = form, !.saved = form, !.told = TRUE]
                   ELSE [local EXCEPT !.told = @ /\ ~(done /\ calls[n].op = "save")]
          IN  /\ ok => done
              /\ Reply([l EXCEPT !.loading = FALSE, !.saving = FALSE], Minus(calls, n), IF done THEN form ELSE db)

SettingsNext ==
    \/ EditSettings \/ handleSave \/ handleDiscard
    \/ \E n \in DOMAIN calls : SettingsAnswer(n)

-----------------------------------------------------------------------------
(* Tools: a list of tools found on the machine; one button at a time.      *)

Installed == {"claude", "codex"}
ASSUME ButtonsAssumption == None \notin {"configure", "reset"} \X (Installed \cup {"all"}) /\ None # "done"

ToolsInit ==
    /\ screen = "tools"
    /\ db \in [Installed -> BOOLEAN]
    /\ local = [left |-> MaxClicks, list |-> None, loading |-> TRUE, busy |-> None, drift |-> TRUE]
    /\ calls = Load(NoCalls)

\* The buttons of the rows and of the summary card, while nothing is under way.
ShownTools == IF local.list = None THEN {} ELSE Installed
ToolButtons ==
    {<<"configure", t>> : t \in ShownTools} \cup {<<"reset", t>> : t \in {u \in ShownTools : local.list[u]}}
SummaryButtons ==
    (IF ShownTools # {} THEN {<<"configure", "all">>} ELSE {})
    \cup (IF \E t \in ShownTools : local.list[t] THEN {<<"reset", "all">>} ELSE {})
handleConfigure ==
    /\ ~local.loading /\ local.busy = None /\ Room(1)
    /\ \E b \in ToolButtons \cup SummaryButtons : Ask([local EXCEPT !.busy = b], Plus(calls, Call("tool", b)))
RefreshTools == ~local.loading /\ local.busy = None /\ Room(1) /\ Ask(local, Load(calls))

\* One tool is changed; of all of them, any may be.  Or the request fails, with
\* that done or not, and the list is not read.
ToolAnswers(n) ==
    /\ Sent(n) /\ calls[n].op = "tool"
    /\ LET b == calls[n].arg
           some == IF b[2] = "all" THEN SUBSET Installed ELSE {{b[2]}}
           Done(S) == [t \in Installed |-> IF t \in S THEN b[1] = "configure" ELSE db[t]]
       IN  \/ Do([local EXCEPT !.busy = None], Minus(calls, n))
           \/ \E S \in some : \/ Reply(local, LoadThen(Minus(calls, n), "done"), Done(S))
                              \/ Reply([local EXCEPT !.busy = None, !.drift = TRUE], Overlooked(Minus(calls, n)), Done(S))

\* fetchTools catches its own failure; the buttons come back after it.
ToolsLoaded(n) ==
    \E ok \in BOOLEAN :
        /\ Read(n, ok)
        /\ LET l == Loaded(local, n, ok) IN
           Do(IF calls[n].arg.then = "done" THEN [l EXCEPT !.busy = None] ELSE l, Minus(calls, n))

ToolsNext ==
    \/ handleConfigure \/ RefreshTools
    \/ \E n \in DOMAIN calls : ReadServed(n) \/ ToolAnswers(n) \/ ToolsLoaded(n)

-----------------------------------------------------------------------------
(* Tunnel: started and stopped by the server in its own time; the screen   *)
(* polls for it after Start, every 2 s and for 90 s at most.               *)

TunnelInit ==
    /\ screen = "tunnel"
    /\ db \in {"off", "starting", "up", "failed"}
    /\ local = [left |-> MaxClicks, status |-> None, loading |-> TRUE, busy |-> FALSE, poll |-> FALSE]
    /\ calls = Plus(NoCalls, Call("status", None))

\* The tunnel comes up, or does not, or dies.
TunnelMoves ==
    /\ local.left > 0
    /\ \/ db = "starting" /\ db' \in {"up", "failed"}
       \/ db = "up" /\ db' = "off"
    /\ UNCHANGED <<screen, local, calls>>

\* The one button of the card.
TunnelButton == IF local.status = "up" THEN "Stop Tunnel" ELSE IF local.status = "starting" THEN "Cancel" ELSE "Start Tunnel"
TunnelCard == [tone |-> IF local.status = "up" THEN "green" ELSE IF local.status = "starting" THEN "yellow" ELSE "muted",
               alert |-> local.status = "failed", url |-> local.status = "up", button |-> TunnelButton]

handleEnable ==
    /\ ~local.loading /\ ~local.busy /\ TunnelCard.button = "Start Tunnel" /\ Room(1)
    /\ Ask([local EXCEPT !.busy = TRUE], Plus(calls, Call("enable", None)))
stopPolling(l) == [l EXCEPT !.poll = FALSE]
handleDisable ==
    /\ ~local.loading /\ ~local.busy /\ TunnelCard.button # "Start Tunnel" /\ Room(1)
    /\ Ask([stopPolling(local) EXCEPT !.busy = TRUE], Plus(calls, Call("disable", None)))
RefreshStatus == ~local.loading /\ ~local.busy /\ Room(1) /\ Ask(local, Plus(calls, Call("status", None)))

\* startPolling: an interval that does not wait for its last answer, and a
\* timer that ends it and looks once more.
PollFires == local.poll /\ Room(1) /\ Do(local, Plus(calls, Call("poll", None)))
SafetyFires == local.poll /\ Room(1) /\ Do(stopPolling(local), Plus(calls, Call("status", None)))

SwitchServed(n) ==
    \/ calls[n].op = "enable" /\ Serve(n, IF db # "up" THEN "starting" ELSE db, None)
    \/ calls[n].op = "disable" /\ Serve(n, "off", None)
EnableAnswers(n) ==
    /\ n \in DOMAIN calls /\ calls[n].op = "enable"
    /\ \/ Served(n) /\ Do([local EXCEPT !.busy = FALSE, !.poll = TRUE, !.status = IF @ = None THEN None ELSE "starting"],
                         Minus(calls, n))
       \/ Do([local EXCEPT !.busy = FALSE], Minus(calls, n))
DisableAnswers(n) ==
    /\ n \in DOMAIN calls /\ calls[n].op = "disable"
    /\ \/ Served(n) /\ Do([local EXCEPT !.busy = FALSE, !.status = IF @ = None THEN None ELSE "off"], Minus(calls, n))
       \/ Do([local EXCEPT !.busy = FALSE], Minus(calls, n))

StatusServed(n) == n \in DOMAIN calls /\ calls[n].op \in {"status", "poll"} /\ Serve(n, db, db)
Final(status) == status \in {"up", "failed"}
\* fetchStatus; a poll that tells of the outcome is the last one.
StatusAnswers(n) ==
    /\ n \in DOMAIN calls /\ calls[n].op \in {"status", "poll"}
    /\ \/ Served(n) /\ LET l == [local EXCEPT !.status = calls[n].got, !.loading = FALSE] IN
                       Do(IF calls[n].op = "poll" /\ Final(calls[n].got) THEN stopPolling(l) ELSE l, Minus(calls, n))
       \/ Sent(n) /\ Do([local EXCEPT !.loading = FALSE], Minus(calls, n))

TunnelNext ==
    \/ TunnelMoves \/ handleEnable \/ handleDisable \/ RefreshStatus \/ PollFires \/ SafetyFires
    \/ \E n \in DOMAIN calls : SwitchServed(n) \/ EnableAnswers(n) \/ DisableAnswers(n) \/ StatusServed(n) \/ StatusAnswers(n)

-----------------------------------------------------------------------------
\* Once something was read or saved, a form without "Unsaved changes" is what
\* the server has, unless the answer to a save was lost since; a list of models
\* is called custom exactly when it is not the built-in one; and the buttons of
\* settings, tools and tunnel come back when, and only when, the request that
\* took them away is answered and, for tools, the list was read again.
SystemSettles ==
    /\ screen = "settings" =>
          /\ local.told /\ ~hasChanges /\ ~local.saving => local.settings = db
          /\ local.saving <=> Outstanding({"save"})
          /\ rows(local.settings).isCustom <=> rows(local.settings).models # BuiltIn
    /\ screen = "tools" =>
          local.busy # None <=> Outstanding({"tool"}) \/ \E n \in Waiting("load") : calls[n].arg.then = "done"
    /\ screen = "tunnel" =>
          /\ local.busy <=> Outstanding({"enable", "disable"})
          /\ Cardinality(Waiting("enable") \cup Waiting("disable")) <= 1
=============================================================================
