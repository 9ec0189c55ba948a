---------------------------- MODULE AdminScreens -----------------------------
(***************************************************************************)
(* The screens that list what the server holds and change it in dialogs:   *)
(* API keys, tenants, profiles, combos, models with their aliases.  They   *)
(* share a shape, and differ in when a dialog closes, when the flag falls  *)
(* that turns its button off, and whether there is such a flag: a dialog   *)
(* is a record of just that.  A dialog's state and flag outlive its being  *)
(* closed, for its component stays mounted.                                *)
(*                                                                         *)
(* db: the items of the server, each absent or in one of two versions.     *)
(***************************************************************************)
EXTENDS Screens

CONSTANT Items    \* bound: the items a list can have, 1..k

Pages == {"keys", "tenants", "profiles", "combos", "models"}

\* closes: at the answer of the request, when the list was read again after
\* it, at both, or never.  frees: when the flag falls that guards the button.
OnAnswer(page, op) == [page |-> page, op |-> op, guarded |-> TRUE, closes |-> {"answer"}, frees |-> "load", forgets |-> FALSE]

\* Enter in the name's field does not look at the flag.
GenerateDialog      == [OnAnswer("keys", "create") EXCEPT !.guarded = FALSE]
EditKeyDialog       == [OnAnswer("keys", "update") EXCEPT !.closes = {"load"}]
DeleteKeyAlert      == OnAnswer("keys", "delete")
CreateTenantDialog  == [OnAnswer("tenants", "create") EXCEPT !.closes = {"load"}]
EditTenantDialog    == [OnAnswer("tenants", "update") EXCEPT !.closes = {"answer", "load"}]
TenantKeyDialog     == [OnAnswer("tenants", "update") EXCEPT !.closes = {}]
DeleteTenantAlert   == OnAnswer("tenants", "delete")
\* onSuccess is not awaited.
CreateProfileDialog == [OnAnswer("profiles", "create") EXCEPT !.frees = "answer"]
PresetDialog        == [OnAnswer("profiles", "create") EXCEPT !.frees = "answer"]
EditProfileDialog   == [OnAnswer("profiles", "update") EXCEPT !.frees = "answer"]
DeleteProfileAlert  == OnAnswer("profiles", "delete")
ComboDialog         == OnAnswer("combos", "save")
DeleteComboAlert    == OnAnswer("combos", "delete")
\* Closing it resets all of it, the flag as well.
AliasDialog         == [OnAnswer("models", "create") EXCEPT !.forgets = TRUE]
DeleteAliasAlert    == OnAnswer("models", "delete")

Dialogs ==
    [generate |-> GenerateDialog, editKey |-> EditKeyDialog, deleteKey |-> DeleteKeyAlert,
     createTenant |-> CreateTenantDialog, editTenant |-> EditTenantDialog,
     tenantKey |-> TenantKeyDialog, deleteTenant |-> DeleteTenantAlert,
     createProfile |-> CreateProfileDialog, preset |-> PresetDialog,
     editProfile |-> EditProfileDialog, deleteProfile |-> DeleteProfileAlert,
     combo |-> ComboDialog, deleteCombo |-> DeleteComboAlert,
     alias |-> AliasDialog, deleteAlias |-> DeleteAliasAlert]

\* The buttons above a list that open a dialog, and those of a row.
HeaderOf(page) == {k \in DOMAIN Dialogs : Dialogs[k].page = page /\ Dialogs[k].op \in {"create", "save"}}
KeysTable   == {"editKey", "deleteKey"}
KeysMobile  == {"editKey", "deleteKey"}
TenantsRow  == {"tenantKey", "editTenant", "deleteTenant"}
ProfileCard == {"editProfile", "deleteProfile"}
CombosTab   == {"combo", "deleteCombo"}
AliasesList == {"deleteAlias"}
RowOf(page) == CASE page = "keys" -> KeysTable \cup KeysMobile
                 [] page = "tenants" -> TenantsRow
                 [] page = "profiles" -> ProfileCard
                 [] page = "combos" -> CombosTab
                 [] page = "models" -> AliasesList

\* Buttons of a row that ask for no confirmation: a tenant's status has no
\* flag, profiles have one flag for all, models one each.
RowButtons == [tenants |-> "status", profiles |-> "activate", models |-> "test"]

\* null is no request of a dialog or a button.
ASSUME JobsAssumption ==
    \A w \in DOMAIN Dialogs \cup {RowButtons[page] : page \in DOMAIN RowButtons}, id \in Items \cup {None} :
       None # [what |-> w, id |-> id]

\* The list when a read of it fails: two of the screens empty it.
Emptied(page) == page \in {"combos", "models"}
Nothing == [i \in Items |-> "absent"]

NoForm == [kind |-> "none", id |-> None, dirty |-> FALSE, asking |-> FALSE]
NoKeys == [of |-> None, shown |-> None, loading |-> FALSE, failed |-> FALSE]

AdminInit ==
    /\ screen = "admin"
    /\ db \in {Nothing, [i \in Items |-> "v0"]}
    /\ \E page \in Pages :
          local = [page |-> page, left |-> MaxClicks, list |-> Nothing, loading |-> TRUE, drift |-> TRUE,
                   form |-> NoForm, busy |-> {}, rows |-> {}, secret |-> None, owed |-> {}, newKey |-> None, met |-> FALSE, keys |-> NoKeys]
    /\ calls = Load(NoCalls)

-----------------------------------------------------------------------------
Offered(i) == ~local.loading /\ local.list[i] # "absent"
Bare == local.left > 0 /\ local.form = NoForm /\ local.secret = None /\ local.keys.of = None

OpenForm(kind, id) ==
    /\ Bare
    /\ \/ id = None /\ kind \in HeaderOf(local.page)
       \/ id \in Items /\ Offered(id) /\ kind \in RowOf(local.page)
    /\ Do([local EXCEPT !.form = [NoForm EXCEPT !.kind = kind, !.id = id]], calls)

\* requestDialogOpenChange: what was typed into a combo is not thrown away unasked.
TypeInCombo == /\ local.form.kind = "combo" /\ ~local.form.dirty /\ ~local.form.asking
               /\ Do([local EXCEPT !.form.dirty = TRUE], calls)
Asks == local.form.dirty /\ "combo" \notin local.busy /\ ~local.form.asking
CloseForm ==
    /\ local.form # NoForm /\ local.left > 0
    /\ LET k == local.form.kind IN
       IF Asks THEN Do([local EXCEPT !.form.asking = TRUE], calls)
       ELSE Do([local EXCEPT !.form = NoForm, !.busy = IF Dialogs[k].forgets THEN @ \ {k} ELSE @,
                             !.newKey = IF k = "tenantKey" THEN None ELSE @], calls)
\* Escape or a click outside of TenantKeyDialog, not its buttons: the key it
\* holds (generatedKey, newKey here) stays.  met is history: it was on the screen.
EscapeKeyDialog ==
    /\ local.form.kind = "tenantKey" /\ local.left > 0
    /\ Do([local EXCEPT !.form = NoForm, !.met = local.newKey # None], calls)
KeepEditing == local.form.asking /\ Do([local EXCEPT !.form.asking = FALSE], calls)

Doing(k, id) == Call("do", [what |-> k, id |-> id])

\* A slip in SubmitForm: the button stays on while its request runs.
SubmitTwice ==
    LET k == local.form.kind IN
    /\ local.form # NoForm /\ ~local.form.asking /\ local.secret = None /\ Room(1)
    /\ Ask([local EXCEPT !.busy = @ \cup {k}], Plus(calls, Doing(k, local.form.id)))

SubmitForm ==
    LET k == local.form.kind IN
    /\ local.form # NoForm /\ ~local.form.asking /\ local.secret = None /\ Room(1)
    /\ Dialogs[k].guarded => k \notin local.busy
    /\ k = "tenantKey" => local.newKey = None
    /\ Ask([local EXCEPT !.busy = @ \cup {k}], Plus(calls, Doing(k, local.form.id)))

PressRow(i) ==
    /\ local.page \in DOMAIN RowButtons /\ Bare /\ Offered(i) /\ Room(1)
    /\ i \notin local.rows
    /\ Ask([local EXCEPT !.rows = CASE local.page = "models" -> @ \cup {i}
                                    [] local.page = "profiles" -> {i}
                                    [] OTHER -> {}],
           Plus(calls, Doing(RowButtons[local.page], i)))

-----------------------------------------------------------------------------
Fresh == {i \in Items : db[i] = "absent" /\ \A j \in Items : j < i => db[j] # "absent"}
Flip(v) == IF v = "v0" THEN "v1" ELSE "v0"

\* The server does it: what it holds then, and the item it is about.
Outcomes(what, id) ==
    LET op == IF what \in DOMAIN Dialogs THEN Dialogs[what].op ELSE what
        creates == op = "create" \/ (op = "save" /\ id = None)
    IN  IF creates THEN {<<[db EXCEPT ![i] = "v0"], i>> : i \in Fresh}
        ELSE IF db[id] = "absent" THEN {}
        ELSE {<<CASE op = "delete" -> [db EXCEPT ![id] = "absent"]
                  [] op = "test" -> db
                  [] OTHER -> [db EXCEPT ![id] = Flip(@)], id>>}

\* A dialog at a point of its request's course; the one on the screen may have
\* been opened for something else meanwhile.
At(point, l, what) ==
    IF what \notin DOMAIN Dialogs THEN l
    ELSE [l EXCEPT !.form = IF @.kind = what /\ point \in Dialogs[what].closes THEN NoForm ELSE @,
                   !.busy = IF point = Dialogs[what].frees THEN @ \ {what} ELSE @]

\* handleGenerate shows the key at once; handleCreate and handleGenerateKey after
\* the list was read, the latter in its dialog, open or not.
Reveal(l, id) == [l EXCEPT !.secret = id, !.owed = @ \ {id}]
Hold(l, id) == [l EXCEPT !.newKey = id, !.met = FALSE]
Acted(l, what, id) ==
    LET a == At("answer", l, what)
    IN  CASE what = "generate" -> Reveal(a, id)
          [] what = "createTenant" -> [a EXCEPT !.owed = @ \cup {id}]
          [] OTHER -> a

FreeRow(l, id) == [l EXCEPT !.rows = IF local.page = "models" THEN @ \ {id} ELSE {}]

DoServed(n) ==
    /\ calls[n].op = "do"
    /\ \E out \in Outcomes(calls[n].arg.what, calls[n].arg.id) : Serve(n, out[1], out[2])

\* A toast, and no read: what was done nevertheless is not on the screen.
DoFails(n) ==
    /\ n \in DOMAIN calls /\ calls[n].op = "do"
    /\ LET a == calls[n].arg
           l == IF a.what \in DOMAIN Dialogs THEN [local EXCEPT !.busy = @ \ {a.what}] ELSE FreeRow(local, a.id)
       IN  IF Served(n) THEN DoMissing(l, Minus(calls, n)) ELSE Do(l, Minus(calls, n))

DoSucceeds(n) ==
    /\ Served(n) /\ calls[n].op = "do"
    /\ LET a == calls[n].arg
           s == Acted(local, a.what, calls[n].got)
       IN  IF a.what = "test" THEN Do(FreeRow(s, a.id), Minus(calls, n))
           ELSE Do([s EXCEPT !.loading = TRUE], LoadThen(Minus(calls, n), [what |-> a.what, id |-> calls[n].got]))

\* load, fetchData, fetchTenants, fetchAll; and what its caller does then.
AdminLoaded(n) ==
    \E ok \in BOOLEAN :
        /\ Read(n, ok)
        /\ LET then == calls[n].arg.then
               read == Loaded(local, n, ok)
               l == IF ~ok /\ Emptied(local.page) THEN [read EXCEPT !.list = Nothing] ELSE read
           IN  Do(IF then = None THEN l
                  ELSE IF then.what = "createTenant" THEN Reveal(At("load", l, then.what), then.id)
                  ELSE IF then.what = "tenantKey" THEN Hold(At("load", l, then.what), then.id)
                  ELSE IF then.what \in DOMAIN Dialogs THEN At("load", l, then.what)
                  ELSE FreeRow(l, then.id),
                  Minus(calls, n))

\* RoutingErrorState offers to try again.
RetryAll ==
    /\ Emptied(local.page) /\ Bare /\ ~local.loading /\ local.drift /\ Room(1)
    /\ Ask([local EXCEPT !.loading = TRUE], Load(calls))

\* "Done", Escape or a click outside of the dialog with the key.
DismissSecret == local.secret # None /\ Do([local EXCEPT !.secret = None], calls)

-----------------------------------------------------------------------------
\* tenant-keys-dialog.tsx: each opening reads the keys; closing it, or opening
\* it for another tenant, cancels what is under way.
Cancelled(cs) == [m \in DOMAIN cs |-> IF cs[m].op = "keys" THEN [cs[m] EXCEPT !.arg.live = FALSE] ELSE cs[m]]
OpenKeys(t) ==
    /\ local.page = "tenants" /\ Bare /\ Offered(t) /\ Room(1)
    /\ Ask([local EXCEPT !.keys.of = t, !.keys.loading = TRUE, !.keys.failed = FALSE],
           Plus(Cancelled(calls), Call("keys", [of |-> t, live |-> TRUE])))
CloseKeys ==
    /\ local.keys.of # None
    /\ Do([local EXCEPT !.keys.of = None], Cancelled(calls))

\* A slip in KeysAnswer: nobody asks whether it was cancelled.
KeysAlwaysTaken(n) ==
    /\ Sent(n) /\ calls[n].op = "keys"
    /\ Do([local EXCEPT !.keys.shown = calls[n].arg.of, !.keys.loading = FALSE], Minus(calls, n))

KeysAnswer(n) ==
    /\ Sent(n) /\ calls[n].op = "keys"
    /\ \E ok \in BOOLEAN :
          Do(IF ~calls[n].arg.live THEN local
             ELSE [local EXCEPT !.keys.shown = IF ok THEN calls[n].arg.of ELSE @,
                                !.keys.loading = FALSE, !.keys.failed = ~ok],
             Minus(calls, n))

AdminAnswers(n) == DoServed(n) \/ DoFails(n) \/ DoSucceeds(n) \/ AdminLoaded(n) \/ KeysAnswer(n) \/ ReadServed(n)

AdminNext ==
    \/ TypeInCombo \/ CloseForm \/ EscapeKeyDialog \/ KeepEditing \/ SubmitForm \/ RetryAll \/ DismissSecret \/ CloseKeys
    \/ \E kind \in DOMAIN Dialogs, id \in Items \cup {None} : OpenForm(kind, id)
    \/ \E i \in Items : PressRow(i) \/ OpenKeys(i)
    \/ \E n \in DOMAIN calls : AdminAnswers(n)

-----------------------------------------------------------------------------
\* The default key of a tenant is "shown once after tenant creation" and "cannot
\* be recovered later": every one that reached the dashboard is put before the
\* admin, and none is replaced by another one before it was dismissed, however
\* often the dialog is closed and opened while a creation runs (handleCreate).
SecretsShown ==
    /\ [](screen = "admin" /\ local.page = "tenants" /\ calls = NoCalls => local.owed = {})
    /\ [][screen = "admin" /\ local.page = "tenants" /\ local.secret # None
             => local'.secret \in {local.secret, None}]_uiVars

\* "Copy the key now -- it will not be shown again": the key of a tenant that
\* was on the screen when its dialog was closed is not in the dialog later.
KeyNotShownAgain ==
    screen = "admin" /\ local.form.kind = "tenantKey" /\ local.newKey # None => ~local.met

\* The keys in the dialog are the keys of the tenant in its title, whatever
\* answer of an earlier opening comes late (the cancelled flag).
TenantKeysOwn ==
    screen = "admin" /\ local.keys.of # None /\ ~local.keys.loading /\ ~local.keys.failed =>
        local.keys.shown = local.keys.of
=============================================================================
