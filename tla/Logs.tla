-------------------------------- MODULE Logs ---------------------------------
(***************************************************************************)
(* The request log: the table (logs-screen.tsx), its filters, its stream   *)
(* and its details; the console (console-viewer.tsx); the live feed        *)
(* (live-feed.tsx).  The stream is that of apiLogStream: it subscribes,    *)
(* lists, and then passes on what was written since it subscribed.         *)
(*                                                                         *)
(* Entries are numbered in the order they are written; db is the last.  A  *)
(* filter is a selection (the range, the provider, ...) and a search text. *)
(* A stream whose first list the store refuses is not modelled.            *)
(***************************************************************************)
EXTENDS Screens, SequencesExt

CONSTANTS
    Entries,    \* bound: entries written during the visit
    ListLimit,  \* entries in a list; a stream is at most as far behind
    MaxShown     \* 1000 rows of the table, MAX_LINES of the console

ASSUME LimitsAssumption == ListLimit \in Nat \ {0} /\ MaxShown \in Nat /\ MaxShown >= ListLimit

PageSize == 1
Filters == [sel : {"all", "some"}, q : {"", "text"}]
DEFAULT_FILTERS == [sel |-> "all", q |-> ""]
InSelection(f, e) == f.sel = "all" \/ e % 2 = 1
Admits(f, e) == InSelection(f, e) /\ (f.q = "" \/ e > 1)

\* What the server lists for a filter: the newest entries, the newest first.
Found(f, last) == {e \in 1..last : Admits(f, e)}
Newer(es, e) == Cardinality({d \in es : d > e})
ListedLogs(f, last) ==
    LET found == Found(f, last)
        size == IF Cardinality(found) < ListLimit THEN Cardinality(found) ELSE ListLimit
    IN  [i \in 1..size |-> CHOOSE e \in found : Newer(found, e) = i - 1]

-----------------------------------------------------------------------------
(* A stream: the one of a table or a console, None when there is none.     *)
ConnectSSE(f) == [of |-> f, at |-> "asked", list |-> <<>>, chan |-> <<>>]

\* An entry is written; the streams that are subscribed are told, by selection only.
Written ==
    LET s == local.stream IN
    /\ db < Entries
    /\ s # None => Len(s.chan) < ListLimit
    /\ db' = db + 1
    /\ local' = IF s = None \/ s.at = "asked" \/ ~InSelection(s.of, db + 1) THEN local
                ELSE [local EXCEPT !.stream.chan = Append(@, db + 1)]
    /\ UNCHANGED <<screen, calls>>

StreamSubscribes ==
    /\ local.stream # None /\ local.stream.at = "asked"
    /\ Do([local EXCEPT !.stream.at = "subscribed"], calls)
StreamLists ==
    /\ local.stream # None /\ local.stream.at = "subscribed"
    /\ Do([local EXCEPT !.stream.at = "listed", !.stream.list = ListedLogs(local.stream.of, db)], calls)

\* consumeSSE rejects and a timer connects again, or it returns and nothing does.
LogStreamFails == local.stream # None /\ Do([local EXCEPT !.stream = None, !.retry = TRUE], calls)
LogStreamEnds == local.stream # None /\ Do([local EXCEPT !.stream = None], calls)

ServerWrites == Written \/ StreamSubscribes \/ StreamLists

-----------------------------------------------------------------------------
(* The table. *)
\* fetchLogs: the newest request is the one that counts.
FetchLogs(l, cs) ==
    Plus([m \in DOMAIN cs |-> IF cs[m].op = "logs" THEN [cs[m] EXCEPT !.arg.newest = FALSE] ELSE cs[m]],
         Call("logs", [of |-> l.debounced, newest |-> TRUE]))

\* The screen opens with two equal filters that are not one object: it fetches twice.
LogsInit ==
    /\ screen = "logs"
    /\ local = [left |-> MaxClicks, filters |-> DEFAULT_FILTERS, debounced |-> DEFAULT_FILTERS, timer |-> FALSE,
                rows |-> <<>>, of |-> DEFAULT_FILTERS, failed |-> FALSE, page |-> 1,
                loading |-> TRUE, refreshing |-> FALSE, live |-> FALSE, stream |-> None, retry |-> FALSE,
                selected |-> None, full |-> None]
    /\ calls = FetchLogs(local, FetchLogs(local, NoCalls))
    /\ db = 0

HasActiveFilters(l) == l.filters # DEFAULT_FILTERS

\* What can be used above the table.
FilterBar(l) ==
    {"filters", "live"} \cup (IF HasActiveFilters(l) THEN {"clear"} ELSE {})
                        \cup (IF l.refreshing \/ l.live THEN {} ELSE {"refresh"})

\* setDebouncedFilters: fetches, and connects again when live; the latter ends the loading.
Apply(l, f) == [l EXCEPT !.filters = f, !.debounced = f, !.timer = FALSE, !.loading = ~l.live,
                         !.retry = FALSE, !.stream = IF l.live THEN ConnectSSE(f) ELSE None]

\* A selection counts at once, a text once it has not changed for 300 ms.
EditFilters(f) ==
    /\ "filters" \in FilterBar(local) /\ f # local.filters /\ Room(1)
    /\ IF f.q = local.debounced.q
       THEN LET l == Apply(local, f) IN Ask(l, FetchLogs(l, calls))
       ELSE Ask([local EXCEPT !.filters = f, !.timer = TRUE], calls)
DebounceFires ==
    /\ local.timer /\ Room(1)
    /\ LET l == Apply(local, local.filters) IN Do(l, FetchLogs(l, calls))
ClearFilters ==
    /\ "clear" \in FilterBar(local) /\ Room(1)
    /\ LET l == Apply(local, DEFAULT_FILTERS) IN Ask(l, FetchLogs(l, calls))
handleRefresh ==
    /\ "refresh" \in FilterBar(local) /\ Room(1)
    /\ Ask([local EXCEPT !.refreshing = TRUE, !.loading = TRUE], FetchLogs(local, calls))
setLive ==
    Ask([local EXCEPT !.live = ~@, !.retry = FALSE, !.loading = @ /\ local.live,
                      !.stream = IF local.live THEN None ELSE ConnectSSE(local.debounced)], calls)
RetryFires == local.retry /\ Do([local EXCEPT !.retry = FALSE, !.stream = ConnectSSE(local.debounced)], calls)

Showing(l) == LET from == (l.page - 1) * PageSize + 1
              IN  SubSeq(l.rows, from, IF from + PageSize - 1 < Len(l.rows) THEN from + PageSize - 1 ELSE Len(l.rows))
LogsTable(l) == [kind |-> IF l.loading THEN "skeleton" ELSE IF Showing(l) = <<>> THEN "empty" ELSE "rows",
                 rows |-> IF l.loading THEN <<>> ELSE Showing(l)]
ChangePage(p) ==
    /\ LogsTable(local).kind = "rows" /\ p \in {local.page - 1, local.page + 1}
    /\ p >= 1 /\ (p - 1) * PageSize < Len(local.rows)
    /\ Do([local EXCEPT !.page = p], calls)

\* The details are those of the selected row, as long as it is listed.
Relisted(l, rows) ==
    [l EXCEPT !.rows = rows, !.full = IF l.selected # None /\ Contains(rows, l.selected) THEN @ ELSE None]

LogsAnswer(n) ==
    /\ n \in DOMAIN calls /\ calls[n].op = "logs" /\ Settled(n)
    /\ Do(IF ~calls[n].arg.newest THEN local
          ELSE LET l == [local EXCEPT !.loading = FALSE, !.refreshing = FALSE] IN
               IF Failed(n) THEN [l EXCEPT !.failed = TRUE]
               ELSE [Relisted(l, calls[n].got) EXCEPT !.of = calls[n].arg.of, !.failed = FALSE, !.page = 1],
          Minus(calls, n))

\* handlePayload: a list replaces the rows, an entry joins them once.
StreamSends ==
    LET s == local.stream IN
    /\ s # None /\ s.at \in {"listed", "open"}
    /\ \/ /\ s.at = "listed"
          /\ Do([Relisted(local, s.list) EXCEPT !.of = s.of, !.page = 1, !.stream.at = "open", !.stream.list = <<>>], calls)
       \/ /\ s.at = "open" /\ s.chan # <<>>
          /\ LET e == Head(s.chan)
                 next == SubSeq(<<e>> \o local.rows, 1, IF Len(local.rows) < MaxShown THEN Len(local.rows) + 1 ELSE MaxShown)
             IN  Do([Relisted(local, IF Contains(local.rows, e) THEN local.rows ELSE next)
                        EXCEPT !.stream.chan = Tail(@)], calls)

\* The sheet with the details of one entry; its request is never taken back, and
\* its answer is shown whichever entry the sheet was opened for meanwhile.
OpenDetail(e) ==
    /\ local.selected = None /\ Contains(LogsTable(local).rows, e) /\ Room(1)
    /\ Ask([local EXCEPT !.selected = e], Plus(calls, Call("detail", e)))
CloseDetail == local.selected # None /\ Do([local EXCEPT !.selected = None, !.full = None], calls)
DetailAnswers(n) ==
    /\ Sent(n) /\ calls[n].op = "detail"
    /\ Do([local EXCEPT !.full = calls[n].arg], Minus(calls, n))

LogsNext ==
    \/ ServerWrites \/ LogStreamFails \/ LogStreamEnds \/ StreamSends \/ RetryFires
    \/ DebounceFires \/ ClearFilters \/ handleRefresh \/ setLive \/ CloseDetail
    \/ \E f \in Filters : EditFilters(f)
    \/ \E p \in 1..MaxShown : ChangePage(p)
    \/ \E e \in 1..Entries : OpenDetail(e)
    \/ \E n \in DOMAIN calls : \/ LogsAnswer(n) \/ DetailAnswers(n)
                               \/ calls[n].op = "logs" /\ (Serve(n, db, ListedLogs(calls[n].arg.of, db)) \/ Lose(n))

-----------------------------------------------------------------------------
(* The console: every change of paused connects again, and a list replaces *)
(* the lines even then.  seen and base are history: what the console was   *)
(* ever sent, less what was cleared; the last entry when the server last   *)
(* listed for it.                                                          *)
ConsoleInit ==
    /\ screen = "console"
    /\ local = [left |-> MaxClicks, lines |-> <<>>, paused |-> FALSE, buffer |-> <<>>, retry |-> FALSE,
                stream |-> ConnectSSE(DEFAULT_FILTERS), seen |-> {}, base |-> 0]
    /\ calls = NoCalls
    /\ db = 0

LastLines(ls) == SubSeq(ls, IF Len(ls) > MaxShown THEN Len(ls) - MaxShown + 1 ELSE 1, Len(ls))

ConsoleReads ==
    LET s == local.stream IN
    /\ s # None /\ s.at \in {"listed", "open"}
    /\ \/ /\ s.at = "listed"
          /\ Do([local EXCEPT !.lines = LastLines(Reverse(s.list)), !.seen = @ \cup ToSet(s.list),
                              !.base = IF s.list = <<>> THEN 0 ELSE Head(s.list),
                              !.stream.at = "open", !.stream.list = <<>>], calls)
       \/ /\ s.at = "open" /\ s.chan # <<>>
          /\ LET e == Head(s.chan)
                 l == [local EXCEPT !.stream.chan = Tail(@), !.seen = @ \cup {e}]
             IN  Do(IF l.paused THEN [l EXCEPT !.buffer = Append(@, e)]
                    ELSE [l EXCEPT !.lines = LastLines(Append(@, e))], calls)

handleTogglePause ==
    Ask([local EXCEPT !.paused = ~@, !.buffer = <<>>, !.retry = FALSE, !.stream = ConnectSSE(DEFAULT_FILTERS),
                      !.lines = IF local.paused THEN LastLines(@ \o local.buffer) ELSE @], calls)
ClearConsole == Ask([local EXCEPT !.lines = <<>>, !.buffer = <<>>, !.seen = {}], calls)
ConsoleRetries == local.retry /\ Do([local EXCEPT !.retry = FALSE, !.stream = ConnectSSE(DEFAULT_FILTERS)], calls)

ConsoleNext ==
    \/ ServerWrites \/ LogStreamFails \/ LogStreamEnds
    \/ ConsoleReads \/ handleTogglePause \/ ClearConsole \/ ConsoleRetries

-----------------------------------------------------------------------------
(* The live feed asks every three seconds, whether or not it was answered. *)
FeedInit ==
    /\ screen = "feed"
    /\ local = [left |-> MaxClicks, entries |-> <<>>, paused |-> FALSE, stream |-> None]
    /\ calls = Plus(NoCalls, Call("feed", None))
    /\ db = 0

Poll == ~local.paused /\ Room(1) /\ Do(local, Plus(calls, Call("feed", None)))
FeedAnswers(n) ==
    /\ n \in DOMAIN calls /\ Settled(n)
    /\ Do(IF Served(n) THEN [local EXCEPT !.entries = calls[n].got] ELSE local, Minus(calls, n))
PauseFeed ==
    /\ local.paused => Room(1)
    /\ Ask([local EXCEPT !.paused = ~@], IF local.paused THEN Plus(calls, Call("feed", None)) ELSE calls)
ClearFeed == local.entries # <<>> /\ Ask([local EXCEPT !.entries = <<>>], calls)

FeedNext ==
    \/ Written \/ Poll \/ PauseFeed \/ ClearFeed
    \/ \E n \in DOMAIN calls : FeedAnswers(n) \/ Serve(n, db, ListedLogs(DEFAULT_FILTERS, db)) \/ Lose(n)

-----------------------------------------------------------------------------
NewestFirst(s) == \A i, j \in DOMAIN s : i < j => s[i] > s[j]

\* The table holds what its filters select: the rows are those of the filters
\* that were last applied as soon as the newest request is answered, whichever
\* other answers, lists and entries of a stream come in between; no entry is
\* there twice, nor out of order unless a text is searched for (a stream does
\* not look at it), the page that is shown exists, and a stream of
\* other filters is never read.
LogsMatch ==
    screen = "logs" =>
        /\ IsInjective(local.rows) /\ (local.of.q = "" => NewestFirst(local.rows))
        /\ \A i \in DOMAIN local.rows : InSelection(local.of, local.rows[i])
        /\ local.of = local.debounced \/ local.failed
           \/ \E n \in Waiting("logs") : calls[n].arg.newest /\ calls[n].arg.of = local.debounced
        /\ local.rows # <<>> => Showing(local) # <<>>
        /\ Len(local.rows) <= MaxShown
        /\ local.stream # None => local.live /\ local.stream.of = local.debounced

\* A pause begins and ends with a new list of the server, which replaces the
\* lines.  Only lines that such a list is too short for are lost by that: any
\* other that was sent and not cleared is among the lines or waits for the end
\* of the pause, unless the console is full.
ConsoleKeeps ==
    /\ screen = "console" =>
          /\ \A e \in local.seen : \/ Contains(local.lines \o local.buffer, e)
                                   \/ e + ListLimit <= local.base
                                   \/ Len(local.lines) = MaxShown
          /\ Len(local.lines) <= MaxShown
    /\ screen = "feed" => NewestFirst(local.entries)
=============================================================================
