----------------------------- MODULE Dashboard ------------------------------
(***************************************************************************)
(* The dashboard (src/ui): its screens and dialogs, one mounted at a time. *)
(* A scene is a screen, or a part of one, with its requests under way; the *)
(* pure rules are a scene in which nothing happens.                        *)
(***************************************************************************)
EXTENDS AppShell, BulkLogin, AddConnection, ConnectionsScreen, UiRules,
        AdminScreens, Playground, Pictures, Logs, SystemScreens

CONSTANT Scenes    \* the scenes a run looks at

Init ==
    \/ "shell" \in Scenes /\ ShellInit
    \/ "device" \in Scenes /\ DeviceInit
    \/ "browser" \in Scenes /\ BrowserInit
    \/ "bulk" \in Scenes /\ BulkInit
    \/ "add" \in Scenes /\ AddInit
    \/ "connections" \in Scenes /\ ConnectionsInit
    \/ "cards" \in Scenes /\ CardsInit
    \/ "rules" \in Scenes /\ RulesInit
    \/ "admin" \in Scenes /\ AdminInit
    \/ "chat" \in Scenes /\ ChatInit
    \/ "pictures" \in Scenes /\ PicturesInit
    \/ "logs" \in Scenes /\ (LogsInit \/ ConsoleInit \/ FeedInit)
    \/ "system" \in Scenes /\ (SettingsInit \/ ToolsInit \/ TunnelInit)

Next ==
    \/ screen = "shell" /\ ShellNext
    \/ screen = "device" /\ DeviceNext
    \/ screen = "browser" /\ BrowserNext
    \/ screen = "bulk" /\ BulkNext
    \/ screen = "add" /\ AddNext
    \/ screen = "connections" /\ ConnectionsNext
    \/ screen = "cards" /\ CardsNext
    \/ screen = "admin" /\ AdminNext
    \/ screen = "chat" /\ ChatNext
    \/ screen = "pictures" /\ PicturesNext
    \/ screen = "logs" /\ LogsNext
    \/ screen = "console" /\ ConsoleNext
    \/ screen = "feed" /\ FeedNext
    \/ screen = "settings" /\ SettingsNext
    \/ screen = "tools" /\ ToolsNext
    \/ screen = "tunnel" /\ TunnelNext

\* A request is answered or fails, the event loop of the page runs what waits
\* for it, and a stream of the chat ends, whatever its pieces.
AnswerFairness ==
    \A n \in 1..MaxCalls :
        WF_uiVars(\/ DeviceAnswers(n) \/ ConnectionsAnswers(n)
                  \/ screen = "chat" /\ n \in DOMAIN calls /\ (StreamEnds(n) \/ StreamFails(n)))

Spec == Init /\ [][Next]_uiVars
FairSpec == Spec /\ DeviceFairness /\ AnswerFairness

-----------------------------------------------------------------------------
ConnectionsRest == local.busy = None /\ (local.dialog.kind # "none" => ~local.dialog.busy /\ local.dialog.apply # "running")
AdminRests ==
    /\ local.busy = {} /\ local.rows = {} /\ ~local.loading
    /\ local.keys.of # None => ~local.keys.loading

\* Once every request of a screen is answered, nothing is left of it: no
\* button turned off, no dialog busy, no row or group spinning; and the list is
\* what the server holds, unless its newest read failed or was overtaken, or the
\* answer to a change was lost since: after every change that is answered a read
\* is sent, after one whose answer is lost by most handlers not.
ListsSettle ==
    /\ calls = NoCalls =>
          /\ screen \in {"connections", "admin", "tools"} /\ ~local.drift => local.list = db
          /\ screen = "connections" => ConnectionsRest
          /\ screen = "admin" => AdminRests
    /\ CardsSettle
    /\ SystemSettles

\* What waits its turn gets it, whichever requests fail on the way and whatever
\* is clicked meanwhile: a bulk run over connections ends and frees the action
\* bar, and the prompts of the playground (there are Prompts of them) are all
\* sent or cleared.
Unfinished == BulkRuns \/ PromptsWait
QueuesDrain == Unfinished ~> ~Unfinished

\* Login panels wait only for what somebody asks about (WaitingHasLoop for
\* device codes, BrowserWaits for the browser flow, BulkWaits for a job).
LoginsWait == WaitingHasLoop /\ BrowserWaits /\ BulkWaits

\* What is shown under a title belongs to it: the keys of a tenant, the rows of
\* the filters, the lines of the stream (TenantKeysOwn, LogsMatch, ConsoleKeeps).
AnswersOwn == TenantKeysOwn /\ LogsMatch /\ ConsoleKeeps
=============================================================================
