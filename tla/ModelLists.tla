----------------------------- MODULE ModelLists -----------------------------
(***************************************************************************)
(* The model lists of connections: connections/model-ops.ts (the migration *)
(* wizard's dry run and its real apply), the prefixes that the dialogs add *)
(* to show a list and strip to store it, and legacy-models.ts.             *)
(*                                                                         *)
(* A model's name is the sequence of its parts between slashes; a stored   *)
(* list, which is used as a set, is a set of them.  Text is already split  *)
(* and trimmed, and a name has no empty part.                              *)
(***************************************************************************)
EXTENDS Naturals, Sequences, FiniteSets

\* stripModelForConnection, stripPrefix: the first part goes, the connection's
\* own prefix or any other.
Strip(m) == IF Len(m) > 1 THEN Tail(m) ELSE m
Stripped(models) == {Strip(m) : m \in models}

\* EditModelsModal, BulkModelsModal: a list as the dialog shows it.
withPrefix(m, prefix) == IF Len(m) > 1 THEN m ELSE <<prefix>> \o m

\* What opening the dialog and saving it unchanged leaves of a stored list.
ReSaved(stored, prefix) == Stripped({withPrefix(m, prefix) : m \in stored})

\* Nothing is left to strip, so a name can be stored again as it is.
Plain(models) == \A m \in models : Strip(m) = m

-----------------------------------------------------------------------------
\* ops: add and remove are sets of names, as they were typed; renames is the
\* sequence of the rows [from, to], the last of which counts for a name (Map).
RowsOf(m, renames) == {i \in DOMAIN renames : Strip(renames[i].from) = m}
LastOf(S) == CHOOSE i \in S : \A j \in S : j <= i
Renamed(m, renames) ==
    IF RowsOf(m, renames) = {} THEN m ELSE Strip(renames[LastOf(RowsOf(m, renames))].to)

\* A slip in Applied: what is added is renamed too.
AppliedInOneGo(stored, ops) ==
    {Renamed(m, ops.renames) : m \in (Stripped(stored) \ Stripped(ops.remove)) \cup Stripped(ops.add)}

\* applyModelOps: strip what is stored (normalizeStored), remove, rename, add.
Applied(stored, ops) ==
    {Renamed(m, ops.renames) : m \in Stripped(stored) \ Stripped(ops.remove)} \cup Stripped(ops.add)

\* The names a row renames, as typed; those of the rows that find nothing.
Froms(ops) == {ops.renames[i].from : i \in DOMAIN ops.renames}
Conflicts(stored, ops) == {m \in Froms(ops) : Strip(m) \notin Stripped(stored) \cup Stripped(ops.remove)}

\* What the operations take away and what they bring; whether these are apart.
Takes(ops)  == Stripped(ops.remove) \cup Stripped(Froms(ops))
Brings(ops) == Stripped(ops.add) \cup {Strip(ops.renames[i].to) : i \in DOMAIN ops.renames}
Separate(ops) == Takes(ops) \cap Brings(ops) = {}

\* SupportsModel, wildcards left out: an empty list serves every model.
Serves(models, m) == models = {} \/ m \in models

-----------------------------------------------------------------------------
\* BulkModelsModal starts from what the selected connections share, if they
\* are of one provider; lists is the sequence of their stored lists.
Shared(lists) == {m \in lists[1] : \A i \in DOMAIN lists : m \in lists[i]}
BulkPrefill(lists, sameProvider) == IF sameProvider /\ lists # <<>> THEN Shared(lists) ELSE {}
BulkCanApply(mode, lines) == mode = "clear" \/ lines # {}

\* legacy-models.ts: stored models that the registry no longer has.
buildKnownModelIndex(registry) == Stripped(registry)
findLegacyModels(stored, known) == {m \in stored : Strip(m) \notin known}
=============================================================================
