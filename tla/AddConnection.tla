--------------------------- MODULE AddConnection ----------------------------
(***************************************************************************)
(* add-connection-modal.tsx and the forms in it that create a connection   *)
(* with one request: ApiKeyConnectionForm through the modal's onCreate,    *)
(* and the import panels (Kiro scan, file, paste and API key; Grok and     *)
(* Command Code files) with a request of their own.  Closing the dialog    *)
(* unmounts the form but not the modal, whose state and whose answers live *)
(* on; connection-result-panel.tsx verifies what was created.              *)
(*                                                                         *)
(* db: what the server knows of each connection.                           *)
(***************************************************************************)
EXTENDS Screens

CONSTANT Accts    \* bound: connections that can be created, 1..k

\* Two kinds of provider: one with the generic form, one that imports.
Catalog == {"keyed", "importer"}

Unnamed == 0    \* an answer without the id of a connection
NoPanel == [id |-> None, testing |-> FALSE, found |-> "none"]

AddInit ==
    /\ screen = "add"
    /\ local = [open |-> FALSE, selected |-> None, result |-> None,
                loading |-> FALSE, busy |-> FALSE, form |-> 1, name |-> FALSE,
                panel |-> NoPanel, untold |-> {}]
    /\ db = [c \in Accts |-> "none"]
    /\ calls = NoCalls

-----------------------------------------------------------------------------
FormShown(p) == local.open /\ local.selected = p

\* Another provider's form, or none: the old one is gone with its state, but
\* for the name, which is in a ref of the modal until the next form clears it.
Reform(l, p) == IF p = l.selected THEN l
                ELSE [l EXCEPT !.selected = p, !.form = 3 - @, !.busy = FALSE, !.name = IF p = None THEN @ ELSE FALSE]

\* Verify: the panel is there while there is a result and a provider, and it
\* tests the connection once by itself.
WithPanel(l, cs) ==
    LET shown == l.open /\ l.selected # None /\ l.result # None
        fresh == [NoPanel EXCEPT !.id = l.result, !.testing = l.result \in Accts]
    IN  IF ~shown THEN Do([l EXCEPT !.panel = NoPanel], cs)
        ELSE IF l.panel.id # None THEN Do([l EXCEPT !.panel.id = l.result], cs)
        ELSE Do([l EXCEPT !.panel = fresh],
                IF l.result \in Accts THEN Plus(cs, Call("test", l.result)) ELSE cs)

\* A slip in OpenModal: what runs is forgotten with the rest.
OpenFresh(p) ==
    /\ ~local.open
    /\ WithPanel([Reform(local, p) EXCEPT !.open = TRUE, !.result = None, !.loading = FALSE,
                                          !.name = IF p = None THEN @ ELSE FALSE], calls)

\* Opening resets the selection, the result and the error, not loading.
OpenModal(p) ==
    /\ ~local.open
    /\ WithPanel([Reform(local, p) EXCEPT !.open = TRUE, !.result = None,
                                          !.name = IF p = None THEN @ ELSE FALSE], calls)

\* "Go to Connections", the cross, Escape, a click outside.  The name stays in
\* its ref, for an answer that is still to come.
CloseModal ==
    /\ local.open
    /\ WithPanel([local EXCEPT !.open = FALSE, !.form = 3 - @, !.busy = FALSE], calls)

chooseProvider(p) ==
    /\ FormShown(None)
    /\ WithPanel(Reform(local, p), calls)

handleBack ==
    /\ local.open /\ ~local.loading
    /\ IF local.result # None THEN WithPanel([local EXCEPT !.result = None], calls)
       ELSE local.selected # None /\ WithPanel(Reform(local, None), calls)

AccountNameSection ==
    /\ local.open /\ local.selected # None /\ ~local.name
    /\ Do([local EXCEPT !.name = TRUE], calls)

\* handleCreateConnection, from a form whose button and Enter key are off
\* while the modal is loading.
ApiKeySubmit ==
    /\ FormShown("keyed") /\ ~local.loading /\ Room(1)
    /\ Do([local EXCEPT !.loading = TRUE], Plus(calls, Call("create", local.name)))

\* Scan, file, paste or key of an import panel: run() of the form itself.
ImportSubmit ==
    /\ FormShown("importer") /\ ~local.busy /\ Room(1)
    /\ Do([local EXCEPT !.busy = TRUE], Plus(calls, Call("import", local.form)))

ShowResult(l, id, cs) == WithPanel([l EXCEPT !.result = id, !.untold = @ \ {id}], cs)

\* handleSuccess and finalizeResult: a name typed in the form, if any is typed
\* now, is given to what the server created, and then the host is told.
handleSuccess(l, id, cs) ==
    IF id \in Accts /\ db[id] # "named" /\ l.name
    THEN Do([l EXCEPT !.untold = @ \cup {id}], Plus(cs, Call("rename", id)))
    ELSE ShowResult(l, id, cs)

CreateAnswers(n) ==
    /\ Settled(n) /\ calls[n].op = "create"
    /\ LET l == [local EXCEPT !.loading = FALSE] IN
       IF Failed(n) THEN Do(l, Minus(calls, n))   \* and the error strip
       ELSE handleSuccess(l, calls[n].got, Minus(calls, n))

\* Command Code's answer names no connection; Kiro's and Grok's do.
ImportAnswers(n) ==
    /\ Settled(n) /\ calls[n].op = "import"
    /\ LET l == IF calls[n].arg = local.form THEN [local EXCEPT !.busy = FALSE] ELSE local IN
       IF Failed(n) THEN Do(l, Minus(calls, n))   \* and the error strip
       ELSE \E id \in {calls[n].got, Unnamed} : handleSuccess(l, id, Minus(calls, n))

\* "Renaming is cosmetic": a failure changes nothing.
RenameAnswers(n) ==
    /\ Settled(n) /\ calls[n].op = "rename"
    /\ ShowResult(local, calls[n].arg, Minus(calls, n))

-----------------------------------------------------------------------------
\* connection-result-panel.tsx: test again, detect models, save them.
RunTest ==
    /\ local.panel.id \in Accts /\ ~local.panel.testing /\ Room(1)
    /\ Do([local EXCEPT !.panel.testing = TRUE], Plus(calls, Call("test", local.panel.id)))
detectModels ==
    /\ local.panel.id \in Accts /\ local.panel.found = "none" /\ Room(1)
    /\ Do([local EXCEPT !.panel.found = "detecting"], Plus(calls, Call("detect", local.panel.id)))
saveModels ==
    /\ local.panel.found = "models" /\ Room(1)
    /\ Do([local EXCEPT !.panel.found = "saving"], Plus(calls, Call("save", local.panel.id)))

\* An answer of any of the three, good or bad; there may be no panel any more.
VerifyAnswers(n) ==
    /\ Sent(n)
    /\ LET p == local.panel
           Done(q) == Do(IF p.id = None THEN local ELSE [local EXCEPT !.panel = q], Minus(calls, n))
       IN  \/ calls[n].op = "test" /\ Done([p EXCEPT !.testing = FALSE])
           \/ calls[n].op = "detect" /\ \E found \in {"none", "models"} : Done([p EXCEPT !.found = found])
           \/ calls[n].op = "save" /\ Done([p EXCEPT !.found = "models"])

\* "Add another connection".
AddAnother ==
    /\ local.panel.id # None
    /\ WithPanel([local EXCEPT !.result = None], calls)

\* The server creates a connection, under the name sent with it, or renames it.
AddServe(n) ==
    LET fresh == {c \in Accts : db[c] = "none" /\ \A d \in Accts : d < c => db[d] # "none"} IN
    CASE calls[n].op = "create" -> \E c \in fresh :
                Serve(n, [db EXCEPT ![c] = IF calls[n].arg THEN "named" ELSE "unnamed"], c)
      [] calls[n].op = "import" -> \E c \in fresh : Serve(n, [db EXCEPT ![c] = "unnamed"], c)
      [] calls[n].op = "rename" -> Serve(n, [db EXCEPT ![calls[n].arg] = "named"], None)
      [] OTHER -> FALSE

AddNext ==
    \/ CloseModal \/ handleBack \/ AccountNameSection \/ ApiKeySubmit \/ ImportSubmit
    \/ RunTest \/ detectModels \/ saveModels \/ AddAnother
    \/ \E p \in Catalog \cup {None} : OpenModal(p)
    \/ \E p \in Catalog : chooseProvider(p)
    \/ \E n \in DOMAIN calls : \/ CreateAnswers(n) \/ ImportAnswers(n) \/ RenameAnswers(n)
                                \/ VerifyAnswers(n) \/ AddServe(n)
                                \/ (calls[n].op \in {"create", "import", "rename"} /\ Lose(n))

-----------------------------------------------------------------------------
\* However often the dialog is closed and opened again while a key is checked,
\* the key form never has two creations under way (the modal outlives its
\* content and keeps loading), and once the answers are in, the host was told
\* of every connection the modal was told of, renamed or not.
OnboardingSound ==
    screen = "add" =>
       /\ Cardinality(Waiting("create")) <= 1
       /\ Quiet({"rename"}) => local.untold = {}
=============================================================================
