------------------------------ MODULE UiRules -------------------------------
(***************************************************************************)
(* The rules of the dashboard that are pure functions, over inputs chosen  *)
(* at the start: the status of a connection, an update of model lists, the *)
(* steps of a combo, the groups and the window of a long list.  Nothing    *)
(* happens then.                                                           *)
(***************************************************************************)
EXTENDS ConnectionCards, ModelLists, ComboSteps, ModelChoice

CONSTANTS
    Names,        \* bound: the last part of a model's name
    MaxOps,       \* bound: models that are added, and that are removed
    MaxListed,    \* bound: targets of a combo, models, groups of a list
    MaxRows,      \* bound: rows of a group
    ScrollTops,   \* where the list may be scrolled to
    ViewHeights   \* heights of its viewport

ASSUME ViewAssumption == ScrollTops \subseteq Nat /\ ViewHeights \subseteq Nat

\* Models' names: of one part, with a vendor's name, as they are typed.
Single == {<<n>> : n \in Names}
Storable == Single \cup {<<"v">> \o m : m \in Single}
Typed == Storable \cup {<<"p">> \o m : m \in Storable}

Some(S, k) == {T \in SUBSET S : Cardinality(T) <= k}
SomeOps == [add : Some(Typed, MaxOps), remove : Some(Storable, MaxOps),
            renames : UNION {[1..k -> [from : Storable, to : Single]] : k \in 0..(MaxOps + 1)}]

\* Targets as combos have them: some with a slash in the model, some with the
\* long name of a provider, some with no provider.
SomeTargets ==
    [path : {<<"m">>} \cup {<<p>> \o m : p \in {"kr", "kiro", "cmc", "cmd"}, m \in {<<"m">>, <<"v", "m">>}},
     account : {NoAccount, "c1"}]

\* Models as the server lists them: combos and aliases by name, those of a
\* custom connection with the prefix they are routed by, others with the prefix
\* of their provider.
ComboModel == [id |-> <<"team">>, provider |-> "combo", routePrefix |-> Blank, vision |-> FALSE, chats |-> TRUE]
RoutedModels ==
    {[id |-> <<"work">> \o m, provider |-> "work", routePrefix |-> "work", vision |-> v, chats |-> TRUE] :
        m \in {<<"m">>, <<"v", "m">>}, v \in BOOLEAN}
OwnModels ==
    {[id |-> <<p>> \o m, provider |-> p, routePrefix |-> Blank, vision |-> FALSE, chats |-> c] :
        p \in {"cmc", "glm"}, m \in {<<"m">>, <<"v", "m">>}, c \in BOOLEAN}
SomeModels == {ComboModel} \cup RoutedModels \cup OwnModels

\* Accounts that can be pinned, or could be once.
SomeAccounts ==
    {[id |-> "c1", provider |-> "commandcode", routePrefix |-> Blank, isActive |-> TRUE, models |-> {<<"v", "m">>}],
     [id |-> "c2", provider |-> "openai-compatible", routePrefix |-> "work", isActive |-> TRUE, models |-> {<<"m">>}],
     [id |-> "c3", provider |-> "kiro", routePrefix |-> Blank, isActive |-> TRUE, models |-> {}],
     [id |-> "c4", provider |-> "glm", routePrefix |-> Blank, isActive |-> FALSE, models |-> {}]}

RulesInit ==
    /\ screen = "rules"
    /\ \/ \E c \in StatusInput : local = [about |-> "status", c |-> c]
       \/ \E S \in SUBSET Storable, o \in SomeOps : local = [about |-> "models", stored |-> S, ops |-> o]
       \/ \E k \in 0..MaxListed : \E targets \in [1..k -> SomeTargets] : local = [about |-> "combo", targets |-> targets]
       \/ \E k \in 0..MaxListed : \E models \in [1..k -> SomeModels] : local = [about |-> "choice", models |-> models]
       \/ \E k \in 0..MaxListed : \E conns \in ListConns(k) : local = [about |-> "rows", conns |-> conns]
       \/ \E k \in 1..MaxListed : \E rows \in [1..k -> 0..MaxRows] : local = [about |-> "list", rows |-> rows]
    /\ db = None
    /\ calls = NoCalls

-----------------------------------------------------------------------------
\* Whether a view shows a connection as one with a problem.
ChipMarks(c)      == SignalChip(c) \notin {"none", "Idle"}
DotMarks(c)       == StatusDot(c) \notin {"emerald", "muted"}
CardMarks(c)      == CardBadge(c) \notin {"Active", "Idle"}
InspectorMarks(c) == InspectorPanel(c) \/ ~(InspectorBadges(c) \subseteq {"Active", "Idle"})
SheetMarks(c)     == SheetAttention(c) \/ ~(SheetBadges(c) \subseteq {"Active", "Inactive"})
DashboardMarks(c) == DashboardCounts({c}).throttled + DashboardCounts({c}).broken > 0

\* The chip, the dot, the filter, the bucket, the palette, the cleanup dialog,
\* the order and the reasons agree on which connections have a problem and which
\* is the worst one.  The other views differ from these in two ways and no more:
\* the card, the sheet, the dashboard and the score do not know of locked
\* models, and the inspector, the sheet and the dashboard also speak of inactive
\* connections.  A cooldown can be reset from the card if and only if the quick
\* action of the Issues chip would reset it, from the inspector only if its panel
\* is open, which a backoff alone does not do; errors can be cleared alike.
AttentionAgrees ==
    screen = "rules" /\ local.about = "status" =>
        LET c == local.c
            ill == needsAttention(c)
            worst == IF ill THEN RANK_LABELS[attentionRank(c) + 1] ELSE "none"
            more == ill /\ worst # "model-locks" IN
        /\ ChipMarks(c) <=> ill
        /\ DotMarks(c) <=> ill
        /\ InFilter(c, "issues") <=> ill
        /\ "!" \in PaletteMark(c) <=> ill
        /\ CleanupGroup(c) # "none" <=> ill
        /\ healthBucket(c) = "attention" <=> ill
        /\ ill <=> attentionRank(c) < 5
        /\ attentionReasons(c) = <<>> <=> ~ill
        /\ ill => Head(attentionReasons(c)) = worst
        /\ CleanupGroup(c) \in {"expired", "rate-limited"} => CleanupGroup(c) = worst
        /\ CardMarks(c) <=> more
        /\ SheetMarks(c) <=> DashboardMarks(c)
        /\ InspectorMarks(c) <=> SheetMarks(c) \/ hasLocks(c)
        /\ c.isActive => (InspectorMarks(c) <=> ill) /\ (SheetMarks(c) <=> more) /\ (Penalty(c) > 0 <=> more)
        /\ "reset" \in CardMenu(c) <=> IsTarget(c, "reset-cooldowns")
        /\ "reset" \in InspectorRepairs(c) <=> IsTarget(c, "reset-cooldowns") /\ InspectorPanel(c)
        /\ "clear" \in InspectorRepairs(c) <=> IsTarget(c, "clear-errors")

\* connection-status.ts: the list, the chips, the inspector and the dashboard
\* can never disagree on which connections have a problem, at least of those
\* that are active.  Not so (README, section 6): AttentionAgrees states how they
\* differ.
ViewsNeverDisagree ==
    screen = "rules" /\ local.about = "status" /\ local.c.isActive =>
        /\ InFilter(local.c, "issues") <=> ChipMarks(local.c)
        /\ ChipMarks(local.c) <=> InspectorMarks(local.c)
        /\ InspectorMarks(local.c) <=> DashboardMarks(local.c)

\* A migration that was partly applied can be retried on all targets: unless
\* the outcome of one operation is the input of another, or what it leaves has
\* a vendor's name that would be stripped, applying it a second time changes
\* nothing, names as conflicts the models it has renamed, and leaves none that
\* it removes for the registry to report.  All that is to be added is there
\* afterwards, nothing else has come, and what no operation names is lost in
\* nothing but its vendor.  A dialog that is opened and saved does to a list
\* what a migration of other models does, which is nothing if no vendor is in
\* it; and what the bulk dialog proposes opens no connection to a model that it
\* did not serve by that name or with a vendor.
ModelListsSound ==
    screen = "rules" /\ local.about = "models" =>
        LET ops == local.ops
            kept == Stripped(local.stored)
            after == Applied(local.stored, ops)
            known == buildKnownModelIndex({withPrefix(m, "p") : m \in Single \ Stripped(ops.remove)})
            shared == BulkPrefill(<<local.stored, after>>, TRUE)
        IN
        /\ Stripped(ops.add) \cup (kept \ Takes(ops)) \subseteq after
        /\ after \subseteq kept \cup Brings(ops)
        /\ Separate(ops) /\ Plain(after) =>
              /\ Applied(after, ops) = after
              /\ Conflicts(after, ops) = {m \in Froms(ops) : Strip(m) \notin Stripped(ops.remove)}
              /\ findLegacyModels(after, known) = {}
        /\ ReSaved(local.stored, "p") = Applied(local.stored, [add |-> {}, remove |-> {}, renames |-> <<>>])
        /\ Plain(local.stored) => ReSaved(local.stored, "p") = local.stored
        /\ BulkCanApply("replace", shared) =>
              \A m \in Storable : Serves(ReSaved(shared, "q"), m) => Serves(kept, m) /\ Serves(Stripped(after), m)

\* model-migration-modal.tsx: only the declared operations touch a list.
\* Not so of stored names with a vendor in them (README, section 6).
MigrationTouchesDeclaredOnly ==
    screen = "rules" /\ local.about = "models" /\ Takes(local.ops) \cup Brings(local.ops) # {} =>
        \A m \in local.stored : Strip(m) \notin Takes(local.ops) => m \in Applied(local.stored, local.ops)

\* A combo that is opened shows as changed only if a target lacks its provider
\* or names it in another way than the editor does; opened again after it was
\* saved, it has the same steps and nothing to save.  After every use of the
\* editor the steps are saved in the order they are shown in: each has its
\* place as its number, so that one added or moved later comes where it is put
\* (serializedFormSteps sorts by that number).  The form offers only accounts
\* whose pin the list does not call bad and which are of the provider that the
\* saved step is read back with.
\* The playground, after any change of the choice, sends to a model of its list
\* and lets pictures in if that model takes them, and the editor of combos
\* reads the target as the playground meant it.  The choice made for the user
\* when the models arrive is one of those the server has sent, and is in the
\* list unless that model only makes pictures.
TargetsSound ==
    /\ screen = "rules" /\ local.about = "combo" =>
          LET targets == local.targets
              steps == openEditDialog(targets)
              saved == serializedFormSteps(steps)
              new == [provider |-> "cmc", model |-> <<"m">>, account |-> NoAccount, order |-> 0] IN
          /\ isDirty(steps, targets) <=> \E i \in DOMAIN targets : serializeStep(parseModelString(targets[i], i)) # targets[i]
          /\ openEditDialog(saved) = steps /\ ~isDirty(steps, saved)
          /\ \A s \in Edits(steps, new) :
                /\ \A i \in DOMAIN s : s[i].order = i
                /\ serializedFormSteps(s) = [i \in DOMAIN s |-> serializeStep(s[i])]
          /\ \A p \in {"cmc", "glm", "kiro", "work"} : \A a \in availableAccounts(SomeAccounts, p) :
                LET step == [new EXCEPT !.provider = p, !.account = a.id] IN
                /\ canAdd(p, step.model, "pinned", a.id) /\ ~hasBadPin(step, SomeAccounts)
                /\ OfProvider(a, parseModelString(serializeStep(step), 1).provider)
                /\ \A i \in DOMAIN steps : ~hasBadPin(handleSwitchStepToAuto(steps, i)[i], SomeAccounts \ {a})
    /\ screen = "rules" /\ local.about = "choice" =>
          LET list == chatModels(local.models)
              first == initializeSelection(local.models)
              provider == {handleProviderChange(list, displayProvider(list[i])) : i \in DOMAIN list}
              model == UNION {{setSelectedModel(c, getSelectableModelValue(m)) : m \in availableModels(list, c)} :
                              c \in provider}
              account == UNION {{setSelectedAccount(c, a.id) : a \in pinnableAccounts(SomeAccounts, c)} :
                                c \in {d \in model : OffersAccounts(d)}}
              SentTo(c, models) ==
                  LET target == buildPlaygroundModelId(c.provider, c.model, c.account) IN
                  /\ \E i \in DOMAIN models : /\ target.path = models[i].id
                                              /\ c.provider \notin Special /\ models[i].chats =>
                                                    models[i].vision = supportsImages(list, c)
                  /\ target.account = c.account
                  /\ c.provider \notin Special =>
                        parseRoutingTarget(target) = [provider |-> c.provider, model |-> c.model, account |-> c.account]
          IN  /\ \A c \in provider \cup model \cup account : SentTo(c, list)
              /\ first # NoChoice => SentTo(first, IF local.models[1].chats THEN list ELSE local.models)

\* playground-screen.tsx: a model that only makes pictures is not one to chat
\* with, so the choice made at the start is one of the list.  Not so (README,
\* section 6).
FirstChoiceIsListed ==
    screen = "rules" /\ local.about = "choice" =>
        LET list == chatModels(local.models)
            first == initializeSelection(local.models) IN
        first # NoChoice => \E i \in DOMAIN list : Chosen(list[i], displayProvider(list[i])) = first

\* Wherever the list is scrolled to, every item in the viewport is drawn; and
\* the list has every connection once, under headers that count right
\* (RailShowsAll).
ListShowsAll ==
    /\ screen = "rules" /\ local.about = "list" =>
          LET items == Flat(local.rows) IN
          \A scrollTop \in ScrollTops, viewportH \in ViewHeights :
              InView(items, scrollTop, viewportH) \subseteq Drawn(items, scrollTop, viewportH)
    /\ screen = "rules" /\ local.about = "rows" => RailShowsAll(local.conns)
=============================================================================
