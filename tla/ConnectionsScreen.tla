------------------------- MODULE ConnectionsScreen --------------------------
(***************************************************************************)
(* connections-screen.tsx and the dialogs it opens.  Every change is a     *)
(* request per connection, one after the other, and then a read of the     *)
(* whole list; what a row or card offers depends on the list as it is      *)
(* shown.  The filter is free, so an action takes any pool of connections  *)
(* that the search may leave.                                              *)
(*                                                                         *)
(* db: the connections of the server; a deleted one is None.  local.list   *)
(* is the list as it was read.                                             *)
(***************************************************************************)
EXTENDS Screens, ConnectionStatus

CONSTANTS
    Rows,        \* [connection -> the signal it starts with]
    Handled      \* bound: connections handled one at a time

Ids == DOMAIN Rows
Row(sig) == [isActive |-> TRUE, limited |-> sig = "limited", expired |-> sig = "expired",
             backoff |-> FALSE, error |-> sig = "error", locked |-> FALSE]
Filtered == {Ids, Handled}    \* bound: what the filters above the list let through
NoDialog == [kind |-> "none"]
\* apply: over the dialog of the models, the one that copies them to others.
Dialog(kind, arg) == [kind |-> kind, arg |-> arg, busy |-> FALSE, apply |-> "closed"]

ConnectionsInit ==
    /\ screen = "connections"
    /\ db = [c \in Ids |-> Row(Rows[c])]
    /\ local = [left |-> MaxClicks, list |-> [c \in Ids |-> None], loading |-> TRUE, error |-> FALSE, drift |-> TRUE,
                selecting |-> FALSE, selected |-> {}, busy |-> None, dialog |-> NoDialog]
    /\ calls = Load(NoCalls)

-----------------------------------------------------------------------------
Listed == {c \in Ids : local.list[c] # None}
Here == local.left > 0    \* bound: the user has clicks left
Modal == local.dialog.kind # "none"
Idle == Here /\ ~Modal /\ Room(1)
selectedConns == local.selected \cap Listed
Lowest(S) == CHOOSE c \in S : \A d \in S : c <= d

\* What the server makes of an operation on a connection.
Effect(c, op) ==
    CASE op \in {"enable", "disable"} -> [c EXCEPT !.isActive = op = "enable"]
      [] op = "clear-errors" -> [c EXCEPT !.error = FALSE]
      [] op = "reset-cooldowns" -> [c EXCEPT !.limited = FALSE, !.backoff = FALSE]
      [] op \in {"delete", "cleanup"} -> None
      [] OTHER -> c     \* the connection's name, key or models; a test

\* Handlers of one connection: inspector, card, dialogs.
One(op, c) == Call("one", [op |-> op, id |-> c])
Under(op) == \E n \in Waiting("one") : calls[n].arg.op = op

handleToggle(c) ==
    /\ Idle /\ c \in Listed /\ ~Under("enable") /\ ~Under("disable")
    /\ Ask(local, Plus(calls, One(IF local.list[c].isActive THEN "disable" ELSE "enable", c)))
handleTest(c) ==
    /\ Idle /\ c \in Listed /\ ~Under("test") /\ Ask(local, Plus(calls, One("test", c)))
handleRename(c) ==
    /\ Idle /\ c \in Listed /\ ~Under("rename") /\ Ask(local, Plus(calls, One("rename", c)))
clearIssue(c, op) ==
    /\ Idle /\ c \in Listed /\ IsTarget(local.list[c], op)
    /\ Ask(local, Plus(calls, One(op, c)))

\* Edit connection, edit models, remove: a dialog with a request of its own.
OpenDialog(kind, c) ==
    /\ Idle /\ c \in Listed /\ kind \in {"edit", "models", "delete"}
    /\ Do([local EXCEPT !.dialog = Dialog(kind, c)], calls)
SubmitDialog ==
    LET d == local.dialog IN
    /\ d.kind \in {"edit", "models", "delete"} /\ ~d.busy /\ d.apply = "closed" /\ Room(1)
    /\ Ask([local EXCEPT !.dialog.busy = TRUE], Plus(calls, One(d.kind, d.arg)))
\* Escape, a click outside, Cancel: not while a run of the dialog goes on.
CloseDialog ==
    /\ Here /\ Modal /\ Room(1)
    /\ local.dialog.kind \in {"bulkDelete", "bulkModels"} => local.busy = None
    /\ local.dialog.kind = "migrate" => ~local.dialog.busy
    /\ local.dialog.apply # "running"
    /\ Do([local EXCEPT !.dialog = IF @.apply = "open" THEN [@ EXCEPT !.apply = "closed"] ELSE NoDialog],
          IF local.dialog.kind = "add" THEN Load(calls) ELSE calls)

\* The server does it; nothing is done to what is gone.
ChangeServed(n) ==
    LET a == calls[n].arg IN
    /\ calls[n].op \in {"one", "run"}
    /\ a.op = "import" \/ db[a.id] # None
    /\ Serve(n, [db EXCEPT ![a.id] = IF @ = None THEN Row("ok") ELSE Effect(@, a.op)], None)

\* A slip in OneAnswers: a connection's switch leaves the list as it is.
NoReload(n) ==
    /\ n \in DOMAIN calls /\ calls[n].op = "one"
    /\ \E ok \in {Served(n), FALSE} :
        LET op == calls[n].arg.op IN
        Do([local EXCEPT !.dialog = IF ok /\ op = @.kind THEN NoDialog ELSE @],
           IF ok /\ op \notin {"enable", "disable"} THEN Load(Minus(calls, n)) ELSE Minus(calls, n))

\* The answer: the list is read again, and the dialog of that kind goes, even
\* if it was opened again for another connection.  A failed test reloads too;
\* what else fails does not, though it may have been done.
OneAnswers(n) ==
    /\ n \in DOMAIN calls /\ calls[n].op = "one"
    /\ \E ok \in {Served(n), FALSE} :
        LET op == calls[n].arg.op
            mine == op = local.dialog.kind
            d == IF ok /\ mine THEN NoDialog
                 ELSE IF mine /\ local.dialog.arg = calls[n].arg.id THEN [local.dialog EXCEPT !.busy = FALSE]
                 ELSE local.dialog
            l == [local EXCEPT !.dialog = d]
        IN  IF ok \/ op = "test" THEN Do(l, LoadThen(Minus(calls, n), IF op = "delete" THEN "delete" ELSE None))
            ELSE IF Served(n) THEN DoMissing(l, Minus(calls, n))
            ELSE Do(l, Minus(calls, n))

-----------------------------------------------------------------------------
\* Bulk selection.
Select ==
    /\ Here /\ ~Modal
    /\ \/ ~local.selecting /\ Do([local EXCEPT !.selecting = TRUE], calls)
       \/ local.selecting /\ Do([local EXCEPT !.selecting = FALSE, !.selected = {}], calls)
toggleSelect(c) ==
    /\ Here /\ ~Modal /\ local.selecting /\ c \in Listed
    /\ Do([local EXCEPT !.selected = IF c \in @ THEN @ \ {c} ELSE @ \cup {c}], calls)

\* BulkActionBar: what of it is enabled.
BarShown == local.selecting /\ Listed # {}
BarActs == Here /\ ~Modal /\ BarShown /\ local.busy = None /\ local.selected # {} /\ Room(1)
toggleSelectAll(visible) ==
    /\ Here /\ ~Modal /\ BarShown /\ local.busy = None /\ visible # {}
    /\ Do([local EXCEPT !.selected = IF visible \subseteq @ THEN @ \ visible ELSE @ \cup visible], calls)

\* runOverTargets and its like: one request at a time over the targets that
\* were picked when it began.  asked is what the user agreed to (of a copy of
\* models: the connection whose dialog it came from).
Run(op, S, asked) == Call("run", [op |-> op, id |-> Lowest(S), rest |-> S \ {Lowest(S)}, asked |-> asked])
RunOver(l, op, S, asked) ==
    IF S = {} THEN Do(l, calls)
    ELSE Ask(CASE op = "migrate" -> [l EXCEPT !.dialog.busy = TRUE]
               [] op = "apply" -> [l EXCEPT !.dialog.apply = "running"]
               [] OTHER -> [l EXCEPT !.busy = op],
             Plus(calls, Run(op, S, asked)))

\* A slip in RunGoesOn: the first exception leaves the loop.
RunThrows(n) ==
    /\ n \in DOMAIN calls /\ calls[n].op = "run"
    /\ \E ok \in {Served(n), FALSE} :
        LET a == calls[n].arg IN
        IF ok /\ a.rest # {} THEN Do(local, Plus(Minus(calls, n), Run(a.op, a.rest, a.asked)))
        ELSE Do(IF ok THEN [local EXCEPT !.busy = None] ELSE local, Minus(calls, n))

\* The next target, whether or not this one failed; after the last one the
\* bar is free, the selection may be dropped, and the list is read again.
RunGoesOn(n) ==
    /\ n \in DOMAIN calls /\ calls[n].op = "run"
    /\ LET a == calls[n].arg
           keeps == a.op \in {"clear-errors", "reset-cooldowns"}
           l == IF a.op = "apply"   \* the dialog of the models may have closed or be another's
                THEN IF local.dialog.kind = "models" /\ a.asked = {local.dialog.arg} /\ local.dialog.apply = "running"
                     THEN [local EXCEPT !.dialog.apply = "closed"] ELSE local
                ELSE IF a.op = "migrate" THEN [local EXCEPT !.dialog.busy = FALSE]
                ELSE [local EXCEPT !.busy = None, !.selected = IF keeps THEN @ ELSE {}]
        IN  IF a.rest # {} THEN Do(local, Plus(Minus(calls, n), Run(a.op, a.rest, a.asked)))
            ELSE Do(l, LoadThen(Minus(calls, n), IF a.op = "delete" THEN "bulkDelete" ELSE None))

handleBulkAction(op) ==
    /\ BarActs
    /\ CASE op \in {"enable", "disable"} -> RunOver(local, op, selectedConns, {})
         [] op \in {"bulkModels", "migrate", "bulkDelete"} -> Do([local EXCEPT !.dialog = Dialog(op, {})], calls)

\* BulkModelsModal closes and starts; ModelMigrationModal and
\* BulkApplyModelsModal stay; BulkDeleteDialog stays until the list is read.
ConfirmBulk ==
    LET d == local.dialog IN
    /\ Here /\ Modal /\ Room(1)
    /\ \/ d.kind = "bulkModels" /\ local.busy = None
          /\ RunOver([local EXCEPT !.dialog = NoDialog], "copy", selectedConns, {})
       \/ d.kind = "bulkDelete" /\ local.busy = None
          /\ IF selectedConns = {} THEN Do([local EXCEPT !.dialog = NoDialog], calls)
             ELSE RunOver(local, "delete", selectedConns, selectedConns)
       \/ d.kind = "migrate" /\ ~d.busy /\ selectedConns # {} /\ RunOver(local, "migrate", selectedConns, {})
       \/ d.kind = "models" /\ d.apply = "closed" /\ Listed \ {d.arg} # {}
          /\ Do([local EXCEPT !.dialog.apply = "open"], calls)
       \/ d.kind = "models" /\ d.apply = "open"
          /\ \E S \in SUBSET (Listed \ {d.arg}) : S # {} /\ RunOver(local, "apply", S, {d.arg})

-----------------------------------------------------------------------------
\* The Issues chip: its actions do not wait for a run that goes on.
Targets(op, pool) == {c \in pool \cap Listed : IsTarget(local.list[c], op)}
handleQuickAction(op, pool) ==
    /\ Idle /\ Targets(op, pool) # {}
    /\ op # "cleanup" /\ RunOver(local, op, Targets(op, pool), {})

\* BulkCleanupDialog: the reasons with a connection, and which are ticked.
InGroup(pool, g) == {c \in pool \cap Listed : CleanupGroup(local.list[c]) = g}
GroupsOf(pool) == {g \in {"expired", "rate-limited", "error"} : InGroup(pool, g) # {}}
OpenCleanup(pool) ==
    /\ Idle /\ Targets("cleanup", pool) # {}
    /\ Do([local EXCEPT !.dialog = Dialog("cleanup", [pool |-> pool, checked |-> GroupsOf(pool) \ {"rate-limited"}])],
          calls)
TickGroup(g) ==
    /\ Here /\ local.dialog.kind = "cleanup" /\ g \in GroupsOf(local.dialog.arg.pool)
    /\ Do([local EXCEPT !.dialog.arg.checked = IF g \in @ THEN @ \ {g} ELSE @ \cup {g}], calls)

\* handleCleanupConfirm is not given the ids the dialog passes: it deletes
\* every group of the filtered list.
handleCleanupConfirm ==
    /\ local.dialog.kind = "cleanup" /\ Room(1)
    /\ LET a == local.dialog.arg
           ticked == UNION {InGroup(a.pool, g) : g \in a.checked}
           all == UNION {InGroup(a.pool, g) : g \in GroupsOf(a.pool)}
       IN  ticked # {} /\ RunOver([local EXCEPT !.dialog = NoDialog], "cleanup", all, ticked)

-----------------------------------------------------------------------------
\* load: Retry, the import of a file, the add dialog (which reads the list
\* when something was created and when it closes).
ListBody == IF local.loading THEN "loading" ELSE IF local.error THEN "error"
            ELSE IF Listed = {} THEN "none yet" ELSE "list"
RetryLoad == Idle /\ ListBody = "error" /\ Quiet({"load"}) /\ Ask(local, Load(calls))
handleImportFile == Idle /\ ~Under("import") /\ \E c \in Handled : Ask(local, Plus(calls, One("import", c)))
OpenAdd == Idle /\ Ask([local EXCEPT !.dialog = Dialog("add", None)], calls)    \* a read when it closes
onCreated == local.dialog.kind = "add" /\ Room(1) /\ ~Under("import")
             /\ \E c \in Handled : Ask(local, Plus(calls, One("import", c)))

LoadAnswers(n) ==
    \E ok \in BOOLEAN :
        /\ Read(n, ok)
        /\ LET l == [Loaded(local, n, ok) EXCEPT !.error = ~ok] IN
           Do(IF calls[n].arg.then = l.dialog.kind THEN [l EXCEPT !.dialog = NoDialog] ELSE l, Minus(calls, n))

\* quotaStore.onSuccess: a healthy quota answer cleans the row on the screen.
QuotaHeals(c) ==
    /\ Here /\ c \in Listed
    /\ LET healed == [local.list[c] EXCEPT !.error = FALSE, !.limited = FALSE, !.backoff = FALSE] IN
       /\ healed # local.list[c]
       /\ Do([local EXCEPT !.list[c] = healed, !.drift = TRUE], calls)

ConnectionsAnswer(n) == OneAnswers(n) \/ RunGoesOn(n) \/ LoadAnswers(n)

ConnectionsNext ==
    \/ Select \/ SubmitDialog \/ CloseDialog \/ ConfirmBulk \/ handleCleanupConfirm
    \/ RetryLoad \/ handleImportFile \/ OpenAdd \/ onCreated
    \/ \E c \in Handled : \/ handleToggle(c) \/ handleTest(c) \/ handleRename(c) \/ QuotaHeals(c)
                          \/ \E op \in {"clear-errors", "reset-cooldowns"} : clearIssue(c, op)
                          \/ \E kind \in {"edit", "models", "delete"} : OpenDialog(kind, c)
    \/ \E c \in Ids : toggleSelect(c)
    \/ \E op \in {"enable", "disable", "bulkModels", "migrate", "bulkDelete"} : handleBulkAction(op)
    \/ \E pool \in Filtered : \/ toggleSelectAll(pool \cap Listed) \/ OpenCleanup(pool)
                              \/ \E op \in {"clear-errors", "reset-cooldowns"} : handleQuickAction(op, pool)
    \/ \E g \in {"expired", "rate-limited", "error"} : TickGroup(g)
    \/ \E n \in DOMAIN calls : ReadServed(n) \/ ChangeServed(n) \/ ConnectionsAnswer(n)

ConnectionsAnswers(n) ==
    screen = "connections" /\ n \in DOMAIN calls /\ (ReadServed(n) \/ ConnectionsAnswer(n))

-----------------------------------------------------------------------------
\* A bulk run turns the action bar off until it has gone through its targets.
BulkRuns == screen = "connections" /\ local.busy # None

\* The cleanup dialog lists the broken connections "grouped by reason so
\* borderline cases can be excluded before an irreversible bulk delete": what
\* was not ticked is not deleted.
CleanupRespectsChoice ==
    screen = "connections" =>
        \A n \in Waiting("run") : calls[n].arg.op = "cleanup" =>
            {calls[n].arg.id} \cup calls[n].arg.rest \subseteq calls[n].arg.asked
=============================================================================
