-------------------------- MODULE ConnectionCards ---------------------------
(***************************************************************************)
(* The connections in groups: the rail of the list view and the workspace  *)
(* of the cards view (connections-screen.tsx, connection-list.tsx,         *)
(* connection-group.tsx), and the quotas of the cards view, which are      *)
(* fetched per group (use-quota-fetch.ts).                                 *)
(***************************************************************************)
EXTENDS Screens, ConnectionStatus, SequencesExt

\* The providers of PROVIDER_ORDER, and one a custom connection brings, which
\* comes after them.
PROVIDER_ORDER == <<"kiro", "openai">>
Providers == {"kiro", "openai", "custom"}
Known(p) == \E i \in DOMAIN PROVIDER_ORDER : PROVIDER_ORDER[i] = p
PlaceOf(p) == IF Known(p) THEN CHOOSE i \in DOMAIN PROVIDER_ORDER : PROVIDER_ORDER[i] = p ELSE Len(PROVIDER_ORDER) + 1

\* A connection of the list: its name, which breaks ties, is its number.
SomeStatus == [isActive : BOOLEAN, limited : BOOLEAN, error : BOOLEAN,
               expired : {FALSE}, backoff : {FALSE}, locked : {FALSE}]
ListConns(k) == {{[name |-> i, provider |-> p[i], at |-> s[i]] : i \in 1..k} :
                    p \in [1..k -> Providers], s \in [1..k -> {t \in SomeStatus : t.isActive \/ ~t.error}]}

filteredConns(conns, status) == {c \in conns : InFilter(c.at, status)}
stats(conns) == [v \in {"all", "active", "inactive", "issues"} |-> Cardinality(filteredConns(conns, v))]

\* What a sort makes of a set: ahead says of each element which come before it.
InOrder(ahead) ==
    [k \in 1..Cardinality(DOMAIN ahead) |-> CHOOSE a \in DOMAIN ahead : Cardinality(ahead[a]) = k - 1]
Worse(d, c) == \/ attentionRank(d.at) < attentionRank(c.at)
               \/ attentionRank(d.at) = attentionRank(c.at) /\ d.name < c.name
Ranked(conns) == InOrder([c \in conns |-> {d \in conns : Worse(d, c)}])
Group(id, conns) == [id |-> id, items |-> Ranked(conns), issueCount |-> Cardinality({c \in conns : needsAttention(c.at)})]
Provided(conns, p) == {c \in conns : c.provider = p}

\* The groups of these providers.
GroupsFor(conns, ids) ==
    LET order == InOrder([p \in ids |-> {q \in ids : PlaceOf(q) < PlaceOf(p)}])
    IN  [i \in DOMAIN order |-> Group(order[i], Provided(conns, order[i]))]

\* A slip in ByProvider: only the providers of PROVIDER_ORDER.
ByOrder(conns) == GroupsFor(conns, {p \in {c.provider : c \in conns} : Known(p)})

\* The known providers that have a connection, and then the others.
ByProvider(conns) == GroupsFor(conns, {c.provider : c \in conns})

railGroups(conns, layout) == IF layout = "status" THEN <<Group("__flat__", conns)>> ELSE ByProvider(conns)
\* The cards view is given all connections, whatever the filter says.
CardGroups(conns) == ByProvider(conns)

\* What the header of a group says, in the rail and in the cards view.
ItemsOf(group) == {group.items[j] : j \in DOMAIN group.items}
NamesOf(conns) == {c.name : c \in conns}
GroupHeader(group) == [acc |-> Len(group.items), issues |-> group.issueCount]
ConnectionGroup(group, selected) ==
    LET active == Cardinality(filteredConns(ItemsOf(group), "active")) IN
    [acc |-> Len(group.items), active |-> active, inactive |-> Len(group.items) - active,
     selected |-> Cardinality(NamesOf(ItemsOf(group)) \cap selected), quotas |-> active > 0]

\* The box of a group's header, and what a click makes of the selection.
AllSelected(group, selected) == group.items # <<>> /\ NamesOf(ItemsOf(group)) \subseteq selected
TickHeader(group, selected) ==
    IF AllSelected(group, selected) THEN selected \ NamesOf(ItemsOf(group)) ELSE selected \cup NamesOf(ItemsOf(group))
allVisibleSelected(conns, selected) == conns # {} /\ NamesOf(conns) \subseteq selected

\* What is left when the boxes of the groups are clicked one after the other.
Ticked(groups) ==
    LET after[i \in 0..Len(groups)] == IF i = 0 THEN {} ELSE TickHeader(groups[i], after[i - 1])
    IN  after[Len(groups)]
SumOf(counts) ==
    LET sum[i \in 0..Len(counts)] == IF i = 0 THEN 0 ELSE sum[i - 1] + counts[i]
    IN  sum[Len(counts)]

\* Whatever the filter and the layout, the rail shows each connection that the
\* filter lets through once, the worst first in each group, with the groups of
\* known providers first; the counts and warnings of the headers add up to what
\* the chips of the filter count; and once the boxes of all headers are ticked,
\* the bar sees the whole list as selected.
RailShowsAll(conns) ==
    \A status \in {"all", "active", "inactive", "issues"}, layout \in {"provider", "status"} :
        LET shown == filteredConns(conns, status)
            groups == railGroups(shown, layout)
            ticked == Ticked(groups)
        IN  /\ \A c \in shown : \E i \in DOMAIN groups : \E j \in DOMAIN groups[i].items :
                  /\ groups[i].items[j] = c
                  /\ \A h \in DOMAIN groups : \A k \in DOMAIN groups[h].items :
                        groups[h].items[k] = c => h = i /\ k = j
            /\ \A i \in DOMAIN groups :
                  /\ ItemsOf(groups[i]) \subseteq shown
                  /\ \A j \in 1..(Len(groups[i].items) - 1) :
                        compareByAttention(groups[i].items[j].at, groups[i].items[j + 1].at)
                  /\ layout = "provider" => groups[i].items # <<>>
                  /\ layout = "provider" /\ i > 1 /\ Known(groups[i].id) => Known(groups[i - 1].id)
            /\ SumOf([i \in DOMAIN groups |-> GroupHeader(groups[i]).issues]) = stats(shown)["issues"]
            /\ SumOf([i \in DOMAIN groups |-> GroupHeader(groups[i]).acc]) = stats(shown)["all"]
            /\ shown # {} => allVisibleSelected(shown, ticked)
            /\ status = "all" => LET cards == CardGroups(conns) IN
                  /\ layout = "provider" => groups = cards
                  /\ SumOf([i \in DOMAIN cards |-> ConnectionGroup(cards[i], ticked).selected]) = stats(conns)["all"]
                  /\ SumOf([i \in DOMAIN cards |-> ConnectionGroup(cards[i], ticked).active]) = stats(conns)["active"]
                  /\ SumOf([i \in DOMAIN cards |-> ConnectionGroup(cards[i], ticked).inactive]) = stats(conns)["inactive"]

-----------------------------------------------------------------------------
(* The quotas of the cards view.  db has nothing; local.list is the        *)
(* connections, each with its group and whether it is active and limited;  *)
(* the requests of one batch are settled together.                         *)

CardIds == 1..3
GroupOf(c) == IF c = 1 THEN "kiro" ELSE "openai"
Groups == {GroupOf(c) : c \in CardIds}

CardsInit ==
    /\ screen = "cards"
    /\ db = None
    /\ \E active \in SUBSET CardIds, auto \in BOOLEAN :
          local = [left |-> MaxClicks, auto |-> auto, fetched |-> {}, fetching |-> {}, flight |-> FALSE,
                   result |-> [c \in CardIds |-> None],
                   list |-> [c \in CardIds |-> [active |-> c \in active, limited |-> TRUE]]]
    /\ calls = NoCalls

ActiveIn(l, groups) == {c \in CardIds : l.list[c].active /\ GroupOf(c) \in groups}

\* The controls of a group: the quota button only while nothing is fetched.
QuotaButton(g) == ActiveIn(local, {g}) # {} /\ g \notin local.fetching
QuotaButtonSays(g) == IF g \in local.fetched THEN "Refresh quotas" ELSE "Load quotas"
CardShows(c) == local.result[c]

StartGroup(l, cs, g) == Plus(cs, Call("group", [group |-> g, ids |-> ActiveIn(l, {g})]))
\* Several groups, in the order of the view.
StartIf(l, cs, g, groups) == IF g \in groups THEN StartGroup(l, cs, g) ELSE cs
StartGroups(l, cs, groups) == StartIf(l, StartIf(l, cs, "kiro", groups), "openai", groups)
handleFetchGroupQuota(g) ==
    /\ QuotaButton(g) /\ Room(1)
    /\ Ask([local EXCEPT !.fetching = @ \cup {g}], StartGroup(local, calls, g))

\* refreshFetchedGroupsQuota: one at a time; without an active connection the
\* try block returns, and finally clears the flag.
Refreshes(l) == l.auto /\ l.fetched # {} /\ ~l.flight /\ ActiveIn(l, l.fetched) # {}

\* The effect of the fetched groups and the list: when either changes a
\* refresh starts at once, and every 30 s after that.
StartRefresh(l, cs) ==
    IF Refreshes(l) THEN Do([l EXCEPT !.flight = TRUE], Plus(cs, Call("refresh", ActiveIn(l, l.fetched))))
    ELSE Do(l, cs)
IntervalFires == local.auto /\ Room(1) /\ Refreshes(local) /\ StartRefresh(local, calls)

\* Quota-auto goes on: the groups that were never fetched are.
Unfetched(l) == {g \in Groups : g \notin l.fetched \cup l.fetching /\ ActiveIn(l, {g}) # {}}
setQuotaAuto ==
    /\ local.left > 0
    /\ LET l == [local EXCEPT !.auto = ~@, !.left = @ - 1] IN
       IF ~l.auto THEN Do(l, calls)
       ELSE /\ Room(Cardinality(Unfetched(l)) + (IF Refreshes(l) THEN 1 ELSE 0))
            /\ StartRefresh([l EXCEPT !.fetching = @ \cup Unfetched(l)],
                            StartGroups(l, calls, Unfetched(l)))

\* A batch is settled: what it says of each connection; a fine one heals the row.
Answers == {"fine", "limited", "failed"}
ASSUME AnswersAssumption == None \notin Answers
Told(ids) == [ids -> Answers]
Merge(l, got) ==
    [l EXCEPT !.result = [c \in CardIds |-> IF c \in DOMAIN got THEN got[c] ELSE @[c]],
              !.list = [c \in CardIds |-> IF c \in DOMAIN got /\ got[c] = "fine"
                                          THEN [@[c] EXCEPT !.limited = FALSE] ELSE @[c]]]
GroupAnswers(n) ==
    /\ Sent(n) /\ calls[n].op = "group"
    /\ \E got \in Told(calls[n].arg.ids) :
          LET g == calls[n].arg.group IN
          StartRefresh([Merge(local, got) EXCEPT !.fetching = @ \ {g}, !.fetched = @ \cup {g}], Minus(calls, n))

\* Of a refresh the failures are dropped; any success makes a new list.
RefreshAnswers(n) ==
    /\ Sent(n) /\ calls[n].op = "refresh"
    /\ \E told \in Told(calls[n].arg) :
          LET got == [c \in {d \in DOMAIN told : told[d] # "failed"} |-> told[c]]
              l == [Merge(local, got) EXCEPT !.flight = FALSE] IN
          IF got = << >> THEN Do(l, Minus(calls, n)) ELSE StartRefresh(l, Minus(calls, n))

\* The list is read again, after a change to a connection.
CardsReload(c) ==
    /\ local.left > 0 /\ Room(1)
    /\ StartRefresh([local EXCEPT !.list[c].active = ~@, !.left = @ - 1], calls)

CardsNext ==
    \/ IntervalFires \/ setQuotaAuto
    \/ \E g \in Groups : handleFetchGroupQuota(g)
    \/ \E c \in CardIds : CardsReload(c)
    \/ \E n \in DOMAIN calls : GroupAnswers(n) \/ RefreshAnswers(n)

\* A group spins exactly while its batch is under way, no two batches are for
\* the same group, and no two refreshes overlap or the flag that prevents it
\* outlives the refresh ("finally"), after which quotas would never refresh
\* again; and a group whose button says Refresh has an answer to show on every
\* card that was active when it was asked.
CardsSettle ==
    screen = "cards" =>
        /\ local.fetching = {calls[n].arg.group : n \in Waiting("group")}
        /\ Cardinality(local.fetching) = Cardinality(Waiting("group"))
        /\ Cardinality(Waiting("refresh")) = (IF local.flight THEN 1 ELSE 0)
        /\ \A g \in local.fetched : QuotaButtonSays(g) = "Refresh quotas"
                                    /\ \E c \in CardIds : GroupOf(c) = g /\ CardShows(c) # None
=============================================================================
