# dntproxy in TLA+

dntproxy is a local proxy that serves OpenAI- and Anthropic-style requests from a
pool of provider accounts, with a dashboard to look after them. Its own logic, as
opposed to format translation and I/O, is in two places. The service decides which
account and which model answers a request, what a failure costs the account that met
it, and how concurrent requests, token renewals and operators share the one record of
an account. The dashboard keeps many small conversations with that service going at
once: lists, dialogs, polls, streams and bulk runs whose answers come late, overtake
each other or fail. These modules model both from the source under `src/internal` and
`src/ui/src`, check them with TLC, and prove the most important part with TLAPS.
"map" in `PROJECT.json` ties each definition to the lines of code it stands for.

## 1. Inventory

### The service (Go)

| Component | State it keeps | Operations | Hard behaviour | What makes it correct |
|---|---|---|---|---|
| Failure taxonomy, cool-down policy (`domain/fallback.go`, `upstream-class.go`, `retry-after.go`) | none | ClassifyUpstream, CheckFallbackError, GetQuotaCooldown, CooldownUntil | order of phrase groups, caps, truncation to seconds | level and duration stay bounded |
| AccountSelector (`service/account-selector.go`) | rotation counters; health fields of the stored connections | SelectCredentials(ForModel), MarkUnavailable, ClearError, AdvanceConnectionRotation, RefreshCredentialsForOAuth | concurrent callers, stale reads, 32-bit counters | bounded cool-downs, failures charged to the right level, fair rotation |
| ChatService (`chat-service.go`, `-error-routing.go`) | locals per request | HandleChat, executeOnProvider | retry loop interleaved with other requests, renewals and aborts | no account twice, budget, pins, allow-lists, tenants, termination |
| ComboHandler (`combo-handler.go`) | rotation counter per combo | HandleCombo, ClearRotation | abort at any step, deletion of the combo, counter wrap | rotation only by success, every request answered |
| SessionAffinityStore (`session-affinity.go`) | map key -> connection, expiry | Get, Put, Delete | bindings made by other requests, routes, tenants | a binding is a hint and never widens access |
| TokenRefreshService (`auth/token-refresh.go`), `RunOAuthAutoRefresh`, usage and test pages | singleflight group per instance | CheckAndRefresh, ForceRefresh | several instances, stale write-back | a renewal changes tokens only; waiters are woken |
| JsonDB (`storage/json-db.go`) | file, lock, 2 s cache | Load, Save, Update, UpdateConnection | other processes, Load-modify-Save callers, bootstrap write | no lost update |
| Chat and messages handlers, relay (`http/chat-handler.go`, `messages-handler.go`) | per stream: reader goroutine, timer | relay, close | data, timeout and client at once | stream closed exactly once |
| Model access (`model-access-*.go`, `model-resolver.go`) | none | BuildPool, ResolveRoute | merging of restrictions | a restriction is never lost |
| Request log, AsyncWriter (`logger/`) | queue, batch, price cache | Enqueue, loop, Close | shutdown against enqueue, full queue | no entry lost without notice |
| ModelCache (`model-cache.go`) | map with TTL, singleflight | GetOrFetch, Invalidate | invalidation during a fetch | no stale list after an invalidation |
| Tunnel (`tunnel-service.go`, `adapter/tunnel`) | child process, state and PID files | Enable, Disable, exit, URL detected | exit of an old child, late URL | at most one child, setting agrees with it |
| Auto-login (`service/autologin`) | job, sessions, pending callbacks | Start, Stop, workers, callback | Stop against starting workers | no browser outlives a stopped job |
| Keys, tenants, aliases, profiles, backup, OAuth flows | configuration | sequential edits | Load-modify-Save | see JsonDB |
| Executors, translators, compressor, image endpoints, usage, tools, CLI | none shared | I/O, translation | - | not a subject for a model checker |

An HTTP handler resolves a route plan (ModelAccess) and calls ChatService.HandleChat
on its goroutine. HandleChat runs HandleCombo over the attempts; each attempt runs
executeOnProvider, which calls the selector (and through it the token service), the
executor, and then the selector again with the verdict. All of them meet in the store,
the affinity map and the rotation counters. The dashboard's endpoints edit the same
store, and the background loop renews tokens in it.

### The dashboard (TypeScript, React)

| Component | State it keeps | Operations | Hard behaviour | What makes it correct |
|---|---|---|---|---|
| Shell and login gate (`App.tsx`, `login-screen.tsx`, `lib/go-api.ts`) | key in local storage, session, gate, route | bootstrap, login, logout, navigation, 401 handling | a 401 for an old key after a new login; a revoked key | gate, session and key agree; an admin's screen only for admins |
| Device-code logins (`kiro-` and `qwen-connection-form.tsx`) | code, timer in a ref | start, restart, cancel, poll, unmount | a poll under way while its timer is cleared; a loop nobody can cancel | a spinner has a loop behind it; every loop ends |
| Browser logins (`openai-`, `xai-connection-form.tsx`, social panel) | session, interval, deadline | start, poll, paste the callback, cancel | overlapping polls, answers of a cancelled session | as above |
| Bulk auto-login (`bulk-auto-login-form.tsx`) | status, interval, accounts seen | start, adopt, poll, stop | overlapping polls | the form tells its host of the accounts it saw |
| Add dialog (`add-connection-modal.tsx`, key form, import panels, verify panel) | selection, result, loading, panel | create, import, rename, test, detect | closing does not unmount the modal; answers after closing | one creation at a time, the host learns of every connection |
| Connections screen (`connections-screen.tsx`, its dialogs) | list, dialog, selection, bulk run | per-connection changes, bulk runs, cleanup, import | reads overtaking each other, one failing request of a run | the list settles, a run ends, nothing unasked for is deleted |
| Cards and their quotas (`use-quota-fetch.ts`, cards view) | groups fetching and fetched, refresh flag | load a group, refresh, Quota-auto | batches against reloads, the flag after an early return | no group spins for ever, no two batches of a group |
| Quota store (`quota-store.ts`) | queue, in-flight set, cache, backoff, timer | queue, pump, sweep, inspect, refresh | all of them and every answer enqueue and start | a cap, no idle room, no double fetch, backoff, progress |
| Status, model-list and routing rules (`connection-status.ts` and its views, `model-ops.ts`, `legacy-models.ts`, combo and playground helpers, the virtual list) | none | pure functions | the same rule written several times; orders of operations; boundaries of a window | the copies agree, nothing is lost or shown twice |
| Administration (`tenants-`, `keys-`, `profiles-`, `routing-` and `models` screens) | list, dialogs, busy flags, secrets | create, edit, delete, press a row's button | dialogs closed and reopened while a request runs | a secret shown once is shown, buttons come back |
| Playground (`playground-screen.tsx`, `use-chat-queue.ts`, `use-chat-stream.ts`, `attachment-input.tsx`, `image-generator.tsx`) | messages, queue, one buffer, frame and abort controller | send, stream, clear, choose, attach, generate | pieces, frames, ends and clears sharing a buffer | every prompt sent once in order, no piece lost or misplaced |
| Request log, console, live feed (`logs-screen.tsx`, `log-detail-sheet.tsx`, `console-viewer.tsx`, `live-feed.tsx`) | rows, filters, stream, page, selection | filter, search, page, open, pause, clear | fetch, stream and debounce at once | what is shown belongs to what was asked for |
| Settings, tools, tunnel screens | form, tools list, tunnel status | load, edit, save, toggle, start, stop, poll | edits during a save, overlapping polls | "saved" means saved, buttons come back |
| Backup, usage, overview pages, widgets | one request or one flag each | - | - | not modelled |

Every screen talks to the service through `goRequest` and keeps what it was told; the
handlers run on one thread, but only to the next `await`. Screens share the session
and the key (shell), the add dialog and the quota store (connections screen), the list
rules (everything that shows a connection), and the server.

## 2. The modules

    Fallback               what a failure means: pure operators
    AccountSelector        EXTENDS Fallback: stored connections, their health, rotation,
                           operator, clock
    TokenRefresh           EXTENDS AccountSelector: renewals by several services
    ChatService            EXTENDS TokenRefresh: concurrent requests over all of the above
    FetchPool              abstract: what a governor of concurrent fetches promises
    QuotaStore             the dashboard's quota store; implements FetchPool

    Screens                what all screens share: a mounted component, its requests, a server
    AppShell               login gate, session, navigation
    DeviceLogin            device-code logins
    BrowserLogin           EXTENDS DeviceLogin: browser logins with a callback
    BulkLogin              EXTENDS BrowserLogin: the auto-login job as its form sees it
    AddConnection          the add dialog
    ConnectionStatus, ModelLists, ComboSteps, ModelChoice   pure rules
    ConnectionCards        groups of connections, the cards view and its quotas
    ConnectionsScreen      the connections screen and its dialogs
    UiRules                the properties of the pure rules, over all small inputs
    AdminScreens           keys, tenants, profiles, combos, models
    Playground, Pictures   the chat of the playground; attachments and image requests
    Logs                   request log, console, live feed
    SystemScreens          settings, tools, tunnel
    Dashboard              EXTENDS all of them: one scene at a time

    AccountSelectorProofs, ChatServiceProofs                 theorems on the service
    QuotaStoreProofs, LoginProofs, ScreenProofs, LogProofs,
    SettleProofs, RuleProofs                                 theorems on the dashboard
    MCSelector, MCRefresh, MCChat, MCQuota, MCDashboard      constants for TLC

### The service

**Fallback.** The code judges an HTTP status and an error text. The text matters
through the groups of phrases it is searched for, so a failure is a record of status,
set of groups (`hints`) and embedded Retry-After. Order of tests, classes, durations
and levels are the code's. A phrase list stands for one member of `Hints`.

**AccountSelector.** A connection record is split into what operators edit (`attrs`)
and health (`rateLimitedUntil`, `backoffLevel`, `modelLocks`). Every writer of the
code uses `store.Update`, whose callback runs under the store's mutex and file lock:
one action per callback. Every reader is one `Load` of a cached copy that `Update`
replaces: one step per read. Times are milliseconds, 0 stands for an empty
timestamp, and `CooldownUntil` cuts the fraction of a second as RFC 3339 does.
Rotation counters have the width of the code's int32 (`CounterMax`), wrap, and are
read through Go's `%`, whose remainder may be negative. `SelNext` lets arbitrary
callers mark, clear and rotate in any order, which contains what concurrent requests do.

**TokenRefresh.** A renewal has two steps: read the record (and call the issuer), and
write the whole record back. A singleflight group admits one renewal per connection
*within one* service. The selector, the background loop, and the dashboard's pages
construct their own services, so several renewals of one connection can overlap.
Tokens are abstracted.

**ChatService.** `pc[r]` is the point at which the goroutine of request `r` stands. It
stops wherever another request can get in between: each call of the store, the
affinity map, a counter, the issuer, the upstream.

| pc | code |
|---|---|
| idle, model | HandleChat to the head of HandleCombo's loop |
| pick | head of executeOnProvider's loop: context, affinity lookup |
| select, unstick | SelectCredentialsForModel; giving up a soft pin |
| renew, renewing, renewed, unrenewed | ensureFreshOAuth |
| execute, refresh, refreshing, retry, unrefreshed | the upstream call, and the one retry after a 401 |
| clear, advance, bind | success: ClearError, AdvanceConnectionRotation, affinity Put |
| mark, spill | failure: MarkUnavailable, exclusion, budget |
| result, pause, done | HandleCombo's judgement |

`stream[r]` records who holds the upstream's response: opened by the executor,
handed to the HTTP handler, closed. `loop[r].tried` is a history variable.

### The dashboard

**QuotaStore** follows `quota-store.ts` function by function. `Pump` is the loop of
`pump`: it shifts the queue until the cap is reached or the queue is empty, and an id
that is no longer listed or is already being fetched uses up a shift only. A request
by hand (`Refresh`), the inspector, the sweep and each answer are actions that end in
it. Of ages, backoffs and usage only the predicate the code asks of them is kept.
**FetchPool** says in a page what all this is for; `phaseOf` is the refinement mapping.

**Screens** is the vocabulary of all other dashboard modules. `local` is the state of
the mounted components, `calls` the requests under way, `db` what the server holds. A
handler runs to its next `await` in one action (`Do`; `Ask` when it is the user's and
sends a request); the server serves a request once (`Serve`); it fails, before that or
after it (`Lose`), and the screen cannot tell which;
the code after the `await` is an action of its own, which may come after the component
that asked has closed, or was opened again for something else. Requests are answered
in any order. `newest` and `drift` are history: whether a later read of the list was
sent, and whether the list shown is not from the newest read, or a change was missed:
the server has made it, its answer is lost, and the screen's `catch` does not read the
list (`DoMissing`; `connection-inspector.tsx:93-104`, `tenants-screen.tsx:110-181`).

**AppShell**: what is shown is computed from `ready`, `auth`, `session` and the route
as App.tsx does; `db` is what each key is worth. **DeviceLogin**, **BrowserLogin**,
**BulkLogin**: `form` counts the mounted instances of a form, for its timers and
answers outlive it; `ref` is what its timer ref holds; time is whether a session's
deadline has passed. `BulkLogin`'s server runs one auto-login job after another. **AddConnection**: the modal outlives its content. **ConnectionsScreen**:
a bulk run is one request whose continuation is the next target (`RunGoesOn`).
**AdminScreens**: five screens differ in when a dialog closes, when its flag falls and
whether it has one, so `Dialogs` is a table of records and the actions are shared.
The key of `TenantKeyDialog` (`newKey`) outlives a close by Escape (`EscapeKeyDialog`).
**Playground**: one buffer, one frame and one abort controller for all turns.
**Logs**: `apiLogStream` subscribes, lists, then passes on what was written since; the
console connects anew when a pause begins and when it ends.
**UiRules** and its four modules have no behaviour: a state is an input, and the
properties relate the functions of the code to each other over all inputs of a size.
A model's name is the sequence of its parts between slashes, so that what the code adds,
strips and splits at slashes is what the model does.

**Dashboard** composes them. The screens are never mounted together, so `Next` has one
disjunct per screen and `Scenes` names those a run looks at.

## 3. The runs

| Run | Question | Bounds |
|---|---|---|
| selector | Do cool-downs, locks, backoff and rotation stay right under any order of failures, successes, dashboard writes and clock steps? | 3 accounts, 2 models, 2 tenants, 4 failures (client error, rate limit, hard quota, outage), 2 settings |
| refresh | Do stale write-backs of two services leave health bounded and whole? | 1 account, 1 model, 2 services, 2 settings |
| chat | Do two requests of one session, with different tenants and allow-lists, respect accounts, budget and isolation? | 2 requests, 3 accounts, failures 429, 401, 400 |
| combo | Does a combo with a pinned model rotate and end correctly? Is every request answered? | 2 requests, 3 plans, failures 502, 400, a second refresher |
| quota | Is the quota store a governor of fetches, and is everything queued served? | 3 connections, cap 2, one of them volatile |
| dashboard | Do the screens come to rest, agree with the server and with each other, and show what they were asked for, whatever order answers come in? | 2 requests under way, 2 requests of the user's per visit; 3 log entries, lists of 1, tables of 2; more below |
| blip, renewal, abort, expired, cleanup, tenant_key | Does the code do what the quoted statement says? It does not; see section 6 | as the runs above, one request, or one screen |

### Why the bounds suffice

*Service.* The selector's run caps cool-downs at two seconds (`maxCooldownSeconds`, a
real setting), which folds durations of 1 s to 1 h to two values, and moves the clock
by 1700 ms, no whole number of seconds, so cool-downs expire after one or two steps
and truncation shows. The clock starts past the first second
(`FirstInstant`) and `MaxNow` ends it. `CounterMax = 1` makes a counter wrap
after two successes. Three accounts are the least for which a rotation, an exclusion
and a remaining candidate differ. `Operated` is the set of connections the dashboard
acts on; two in the selector's run, one in chat, none in combo, where the second
refresher disturbs instead. Time stands still in the chat runs: a cool-down then ends
by a success, a reset or a write-back, and the selector's run has the clock. The chat
run uses symmetry over requests (safety only); the combo run, which has liveness, does
not.

*Quota store.* With three connections and a cap of two the queue fills, and one answer
can make room for another. `Volatile` bounds which connections change their status,
age and get hot: one does, so that all three can be asked for at once without a
product of their ages.

*Dashboard.* Two requests (`MaxCalls`) are what it takes for one answer to overtake
another, and two handlers that send one (`MaxClicks`) for a second click, a reopened
dialog or a change during a reload; where a race needs a third request, the screen
sends it itself (the read after a change, the next target of a run, a poll). The add
dialog of the connections screen costs a click, for it ends in a read of the list.
Two sessions and two instances of a form let a late answer belong to an older one, and two
auto-login jobs (`MaxJobs`) a late status to the first. Two
connections, one limited and one expired (`DashRows`), fill two groups of the cleanup
dialog; `Handled` is the one a filter lets through. Three prompts of two pieces each,
kept in four messages, make prompts wait, pieces meet a frame or the end of a stream,
and the list overflow. `Selections` are two models, of which one takes a mask and fewer
pictures. Limits of sizes, entries and lines are one to three, so that each is reached
and passed; a list of the server is shorter than a table (`ListLimit`, `MaxShown`; 200
and 2000 in the code), so a new list can be too short for the lines it replaces. The pure
rules are checked over every status record, lists of up to three
connections, models or targets, all lists over two names with and without a vendor and
all operations on one of them, and windows of
lists of up to three groups of four rows (`MaxListed`, `MaxRows`), which are more than
twice as high as the higher of two viewports and are scrolled past their end (`DashTops`).

`CHECK_DEADLOCK FALSE` everywhere: all requests served and the clock, or the user's
clicks, at their bound is a legal end.

*Actions by run.* `UpdateSettings` acts in selector and refresh, `UpdateConnection` in
selector and refresh, pins, combos and counters in combo, renewals that requests wait
for in both chat runs; every action of the dashboard in dashboard.

### Fairness

- ChatService: weak fairness on each request's step. The Go scheduler runs every
  goroutine, and the upstream call returns at the latest after the transport's
  response-header timeout (90 s, `shared/utils.go:56`). Weak fairness on the end of a
  renewal: the issuers' HTTP clients time out after 30 s. Neither the operator, the
  clock, clients, nor other refreshers are assumed to act. `Served` holds without any
  assumption that an upstream ever answers well.
- QuotaStore: every fetch settles. Users, sweeps and the clock need not act.
- Dashboard: a timer that is set fires and time passes (`DeviceFairness`); a request is
  answered or fails, the event loop runs what waits for it, and a stream ends or fails
  (`AnswerFairness`, one condition per request for all screens, of which a behaviour
  has one). Users owe nothing, and any request may fail every time.

## 4. The properties

The service:

- *CooldownBounded*, *CopiesBounded*: no header, override, backoff or stale copy
  sidelines an account past the longest penalty of settings the operator saved.
- *HealthNotTorn*, *BackoffFallsOnlyByReset*: backoff and cool-down are set and
  lifted together, whoever writes.
- *ModelFaultIsolated*, *SuccessRestores*: failure and recovery of one model leave
  the account's other models as they are.
- *PinAgreesWithPool*: the two copies of the availability rules agree.
- *RoundRobinServesAll*: exactly one choice at every counter value, a fair cycle
  between wraps.
- *DistinctAccounts*, *BudgetRespected*, *PinNeverSpills*, *AllowListRespected*,
  *TenantIsolated*: which accounts an attempt may try.
- *AffinityFollowsSuccess*, *RotationOnlyBySuccess*: shared state moves only for
  answers that were received.
- *SelectionGivesUpExhausted*, *Served*: selection gives up only when every account that
  could serve has been tried (a renewal that fails ends a request earlier: section 6),
  and every request ends.
- *SelTypeOK*, *RefreshTypeOK*, *TypeOK*: the type invariants.

The quota store:

- *PoolImplemented*: it is a governor of fetches (refinement of `FetchPool`): at most
  the cap runs, nothing waits while there is room, nothing is started twice.
- *QueueSound*: nothing waits twice, or while it is fetched.
- *BackoffRespected*: although the backoff is looked at only when a request is queued,
  no fetch starts against it unless a user asked.
- *AskedIsServed*: what waits is started or dropped in the end, however many ask.

The dashboard:

- *GateConsistent*: session, gate and stored key agree whatever 401 comes late.
- *LoginsWait*: a login panel that says it waits has a loop that asks about the very
  session it shows, until a callback is submitted, and about the first job of the
  server; what is not so after that, section 6 has as *WaitingIsBacked* and
  *RunsArePolled*. *PollingEnds*: every loop ends, also one whose form is gone.
- *OnboardingSound*: one creation at a time, and no new connection nobody is told of.
- *ListsSettle*: once all is answered, no button is off, no dialog busy, nothing
  spins, and the list is what the server holds unless its newest read failed or was
  overtaken, or the answer to a change was lost: so after every change whose answer
  arrived a read was sent.
- *QueuesDrain*: a bulk run ends, a waiting prompt is sent, whichever requests fail.
- *AttentionAgrees*: eight copies of the status rule agree, and the other five differ
  from them in locked models and inactive connections only.
- *ModelListsSound*: a migration can be retried, unless what comes out of it is an input
  of it or has a vendor that would be stripped, and takes nothing that it does not name
  but vendors' names; a dialog that is opened and saved does the same.
- *TargetsSound*, *ListShowsAll*: what a combo or the playground sends is what was shown;
  no row of the list is lost or doubled.
- *AnswersOwn*: keys and rows belong to what is asked about, and the console loses only
  lines that the list of a new connection is too short for.
- *TurnsInOrder*: prompts are sent once, in order, with whole answers as history, and
  no piece is lost or reaches another turn.
- *PicturesFit*: the attachments of a prompt and of an image request keep the limits on
  their number and total size.
- *SecretsShown*: the key made with a new tenant is put before the admin.

The properties of the runs that find a violation are in section 6. Each of the others
has a mutant in `PROJECT.json`, a slip defined beside the definition it
replaces, under which TLC finds the property violated.

## 5. Proofs

Every theorem holds for all values of the constants that satisfy the named
assumptions of its module; no theorem assumes anything else.

| Module | Theorems | From |
|---|---|---|
| AccountSelectorProofs | `SelectorTyped`, `SelectorCooldownBounded`, `SelectorHealthNotTorn`, `SelectorBackoffFallsOnlyByReset`, `SelectorModelFaultIsolated`, `SelectorSuccessRestores`, `SelectorPinAgreesWithPool`, `SelectorRoundRobinServesAll` | `ConstantsAssumption` |
| ChatServiceProofs (renewals) | `RefreshTyped`, `RefreshCopiesBounded`, `RefreshCooldownBounded`, `RefreshHealthNotTorn` | and `FlightAssumption` |
| ChatServiceProofs (requests) | `ChatTypeCorrect`, `NoAccountTwice`, `RetryBudgetKept`, `PinKept`, `AllowListKept`, `BindingsAreEarned`, `RotationIsEarned`, `SelectionGivesUpLate`, `TenantsApart`, `HealthWhole` | and `ChatAssumption` |
| QuotaStoreProofs | `QuotaTypeCorrect`, `QueueIsSound`, `BackoffIsRespected`, `StoreImplementsPool` | `ConnsAssumption`, `CapAssumption`, `VolatileAssumption` |
| LoginProofs | `GateAgrees`, `LoginsAreAnswered` | `BoundsAssumption`, `KeysAssumption`, `SessionsAssumption` |
| ScreenProofs | `OnboardingIsSound`, `SecretsAreShown`, `TenantKeysAreOwn`, `AdminSettles`, `TurnsGoInOrder` | and `JobsAssumption`, `TurnsAssumption` |
| SettleProofs | `ListsAlwaysSettle` | and `AnswersAssumption`, `ButtonsAssumption` |
| LogProofs | `AnswersAreOwn` | and `LimitsAssumption` |
| RuleProofs | `ViewsAgree`, `ModelListsAreSound`, `TargetsAreSound`, `PicturesAlwaysFit`, `ListsAreWhole` | those of LoginProofs, `SizesAssumption` and `ViewAssumption` |

*Assumptions.* Constants have the types the code gives them; orders are injective;
failures carry a Retry-After already capped by `ParseRetryAfterHeader`; there are
finitely many requests and connections and a cap of at least one; the
selector's token service is one of the refreshers; there is a plan to serve. Of the
dashboard: `None` (JavaScript's null) is none of the keys, sessions, jobs, answers and
buttons it stands beside, sessions are
numbered, there is a form, a request can be under way, the
log's table has room for at least one list, and the playground's list keeps at least
one message (the code keeps 80); the limits on pictures and the
offsets and heights of a list's window are natural numbers.

*Selector.* Lemmas on `Fallback` bound the level and the duration of each verdict
(`QuotaCooldownRange` to `PenaltyRange`), so after override and clamp a penalty is
at most `PenaltyBound(settings)`. `CooldownBounded` is not inductive: it says that
each deadline is within the bound of *some* saved settings, and nothing in it says
that the settings in force are saved ones. `SelInv` adds that, and the types that
arithmetic needs. `HealthStep` covers every step that only lowers deadlines or lets
the clock move; `MarkStep` is the one that raises them. The action property needs
that the verdict of `CheckFallbackError` never lowers the level (`VerdictKeepsLevel`),
which uses the type invariant: at the cap, `level + 1` is cut back to the level
itself. `PinAgreesWithPool` is a fact about the two filters in any state.
`HealthNotTorn` is a part of `SelInv`, and so is that the clock is past the first
second of the epoch: before it, a cool-down would be cut to the empty timestamp. The
two action properties on models say what one verdict writes; they need the types.

*Rotation.* `RoundRobinServesAll` asks where the accounts stand in the order of the
pool. The model orders them by their sort keys, so `AccountSelectorProofs` defines the rank
of an account in a finite set with an injective key and shows that ranks are
exactly the numbers below the size of the set (`RanksAreAllTaken`). The offset of a
counter is the remainder of Go's `%`, also of a negative one (`OffsetIsRemainder`), and
n successive counters have all n remainders (`OffsetsCoverPlaces`).

*Renewals.* A renewal writes back a record it read before, so a bound on the store
alone is not inductive. `RefreshInv` is `SelInv` and `FlightOK`: each copy that is
held is a record that would be good in the store *now*. A good record stays good as
time passes (`BoundedGrows`), and writing one back keeps `SelInv` (`WriteBackStep`).

*Chat.* None of the properties of an attempt is inductive, for what makes an account
unused when it is chosen was established several steps earlier, with other requests'
steps in between. `SoundAt(label, l, a)` says, by the place of the goroutine, what
holds of the locals `l` of attempt `a`: the accounts tried are finite, counted, allowed
and the pinned one if there is a pin; while it asks for an account they are all
excluded and there is room in the budget; a chosen one is neither excluded nor
disallowed; after use it is tried, and excluded before the loop turns (`SpillStep`);
a waiter's renewal is in flight. `ChatInv` is `RefreshInv`, the types and `SoundAt` for
every request. The locals are private, so a step of another request disturbs none of
this but "in flight" (`OthersStaySound`), and the one step that ends a renewal moves
all who wait for it (`EndRefreshStep`). There is a lemma for every action, most of
them by `MoveStep`, which asks only where the step leads and with which locals.
The budget is compared with *some* saved settings, because the operator may lower it
while an attempt runs.

`SelectionGivesUpLate` needs to know why an account is excluded: `HuntInv` says that what an
attempt excludes it has tried, but for the session's rejected pin. `TenantsApart` rests on `TenantInv`: what
is tried or chosen belongs to the request's tenant, and so does each copy a renewal will
write back; no operator's edit in the code moves a connection to another tenant, and
the model has none that does.

`AnswerInv` is a second invariant above it, for what sessions and rotations
owe to answers: every binding has a witness, a request past its last step that
answered that session with that account; and a combo's counter never exceeds the
number of requests that were answered in its turn. Steps that change neither are
quiet (`OwnIsQuiet`, `QuietAnswers`); the four others have a lemma each.

*Quota store.* `Governed` is what `queueFetch` and `pump` keep together: the queue has
no repetition and nothing that runs, at most the cap runs, and if anything waits
exactly the cap runs. `PumpGoverns` proves it of the loop as a whole, from any queue
that has just been appended to or any fetch that has just settled. `WaitsByRight`, that
what waits in spite of a backoff was asked for by hand, carries the backoff's promise
from the queue to the start. The refinement shows that each action is a step
of `FetchPool` under `phaseOf`, or leaves it unchanged.

*Screens.* `Dashboard`'s steps are those of the one screen that is mounted, and it never
changes (`OneScreen`, from a lemma per screen), so each screen has an invariant of its
own. `ShellInv`, `DeviceInv`, `BrowserInv` and `BulkInv` say of each request under way
what it was sent for and for which instance of a form, and of each spinner which loop,
interval or poll stands behind it; no bound on sessions, forms, accounts or jobs is used.
An answer about a job that has ended says so truly as long as there is no second job
(`BulkCall`), which is why only the first is promised its interval.
`AddInv` ties the flag of the key form to its one creation and the connections not yet
reported to the renamings under way.

*Administration.* Five screens share actions, and any number of their requests may be
under way. `AdminOk` gives every flag a witness: a busy dialog, a spinning row, a list
that loads, a key that is owed to the admin each have a request that will free them, at
most one tenant is being created, and the list is what the server holds, or a newer read
is under way, or the answer to a change is, or the list is marked as overtaken, failed
or behind a lost answer (`UpToDate`). Answers remove
requests and send others; `Become` says which requests went and came, `Like` that the
others differ at most in what they were answered, and one lemma per part of the
invariant (`BusyBecome`, `RowsBecome`, `LoadBecomes`, `OwedBecome`, `CreationBecomes`)
carries it over such a change. Each action then has only to name the request that
takes over, which for a change is the read that follows it.

*Playground.* All turns share a buffer, a frame and a list that drops its oldest
messages, so `TurnsInOrder` holds only because of what `ChatOk` keeps. While a turn
streams (`TurnRuns`) it is the last that was sent and comes before all that wait, it
has the one request under way, the frame is its own, and its answer in the list
followed by the buffer is what came so far (`AnswerOk`); every other answer is the
error's text or all that came of its turn (`Finished`); and a prompt that is not marked
as queued comes before the queue (`PromptOk`), which is why the history of a turn, all
before its own prompt, holds nothing that is still to be answered. The end of a turn
clears its state and lets the next one out in one step, where `ChatOk` does not hold in
the middle: `Between` says what does, `TurnEnds` and `RestsBetween` lead there, and
`TurnStarts` leads from there through `processQueue` back to `ChatOk`. `FlushedIs`,
`DoneIs` and `ErrorIs` say what the three updates of the list make of each message. The
number of prompts and the list's limit are any, so a prompt or an answer may leave the
list while its turn streams.

*What settles.* `ListsSettle` speaks of states with no request under way, and of how they
were reached it says nothing, so `SettleInv` says, for every state, what each thing that
waits is waiting for. Of the connections screen (`ConnOk`): a dialog that is busy has
the request it sent, the bar of bulk actions a run that will free it, and the list is
what the server holds, or a newer read is under way, or a run is, which ends in a read
(`ListHeld`), but for a list that is marked as not the server's. Of the cards (`CardsOk`): a group spins exactly while its one batch is
under way, the automatic refresh while its own is, and a group counts as fetched only
with an answer to show. Of the settings, tools and tunnel: the flag that turns
the buttons off is up exactly while its one request is under way. Requests are numbered slots that are reused, so
`Turn` says of a step which requests went, which came, and that the others are the same
but for what they were answered (`Kindred`); a lemma per part of the invariant carries
it over any such turn, and each action has only to give its own. That a click
finds room for the batches of all groups needs their number, which is the number of
providers the model has cards of, two. `ListsAlwaysSettle` puts these and `AdminSettles`
together.

*Request log.* That rows are those of the filters in force, each once and in order, is not
inductive: a list and the stream bring the same entries by two ways, and an entry that
was dropped at the end of a full table could come back on top of newer ones. `LogsInv`
adds what excludes this. What a stream has not been read of is exactly what was written
to its selection since it subscribed (`Unread`), and it is no longer than a list. A list
holds the newest entries that its filters admit (`ListedIs`: entries are ranked by the
number of newer ones, as accounts are above), so each unread entry is on the list that
is shown or newer than all of it (`UnreadIsListed`), and stays so as rows are read
(`BehindRead`), entries are written (`BehindWritten`) and the answers of requests replace
the rows (`LogsAnswerStep`). `ServerMoves` says what a step of the server makes of any
stream; the console uses it too. Its `SeenKept` holds because lines go only when the
console is full (`LastLinesAre`), or when a new connection replaces them by a list that
has the newest entries up to `base`.

*Pictures.* The operators that add up sizes, filter files and open readers go through a
list and carry a value along, as the code's loops do, and the model writes them as
recursive functions over the places of the list. `Recursion` shows that such a function
exists and obeys its equation, `Stepped` that what every step keeps holds at the end; both
take the steps as a function, so that they can be cited, and rest on the least element
that every set of naturals has. With them `BytesAdd` adds up the bytes of two lists in one,
and `AcceptedFit` and `CompatibleIs` bound what is let in. `PicturesFit` speaks of the
lists; that they stay within their limits when files are read late needs what `AttachCall`
says of a reader under way: the list that it started from is still the one shown or the
files will be put to that list, with which they fit. An image request is what
`handleGenerate`'s guard let through, for the model of that moment (`RequestFits`).

*Rules.* The inputs of the pure rules are chosen at the start and stay (`InputStays`), so
their properties are facts about every input. `StatusAgrees` follows the reasons of a
status from the first that holds; `ModelListsAre` follows every model through what is
stripped, removed, renamed and added, once and again, for any last parts of names and any
number of operations. That the steps of a combo are saved in the order that is shown rests on
`Numbered`: each step's number is its place, which the editor keeps in every use
(`EditsAre`), so sorting by it changes nothing (`SavedInOrder`). A choice of the playground
is good (`GoodChoice`) if the list has its model; every change of the choice leaves it so.

*Lists.* A sort is what it makes of a set: each element has the place that the number of
those ahead of it gives (`InOrder`), and for a strict order these places are a bijection,
by the pigeonhole (`OrderIs`); names tell connections apart, so severity and name are one.
Groups are parts of the list (`Parted`), and all that headers count is the size of a part
within a filter, so that the sums agree (`PartsAddUp`, `HeadersAddUp`) and a header's box
always adds its group to the selection (`TickedIs`). The window takes `WindowSize` items
from the first that is not above it. `WindowShows` gives headers the room of a row
(`Spot`): of items 44 pixels apart, no more than that can begin between the top of the
viewport and its end, whatever the mixture of headers and rows above.

*Only model-checked.*

- Liveness (`Served`, `AskedIsServed`, `PollingEnds`, `QueuesDrain`): out of the
  prover's reach.

## 6. Where code and documents disagree

With a run that shows it:

1. *renewal*: a renewal replaces the whole record by the copy it read before the
   issuer's answer (`token-refresh.go:241-254`), so a deactivation or cool-down set
   meanwhile is undone.
2. *abort*: a client that leaves just after the upstream answered makes
   `HandleCombo` drop the open stream; nobody closes it and its log entry never ends.
3. *expired*: one expired token that cannot be renewed ends the request with 503
   although other accounts are available.
4. *blip*: with `transientCooldownSeconds` set, a truncated stream cools the account.
5. *cleanup*: the dialog hands over the ids of the ticked groups, the screen's handler
   takes no argument and deletes every group of the filtered list.
6. *tenant_key*: "Copy the key now, it will not be shown again", but Escape or a click
   outside leaves the key in the dialog (`tenant-key-dialog.tsx:36-41`, `:60`): it is
   shown again, under the title of whichever tenant the dialog is opened for, for which
   no key can then be generated.

Stated as a property that does not hold, and that no run repeats. TLC refutes each as
the only INVARIANT of a copy of `MCTenantKey.cfg` with the scene named (the first: as
the only PROPERTY of a copy of `MCCombo.cfg` with `Errors <- TaxonomyErrors`):

- `ComboRoutingAgrees` (ChatService): `HandleCombo` judges by the status only
  (`combo-handler.go:98`, `:182`), against the shared taxonomy by which "account fallback
  and combo routing agree" (`project-changelog.md:5`).
- `ViewsNeverDisagree` (UiRules, scene rules): by `connection-status.ts:4-6` the list,
  chips, inspector and health dashboard "can never disagree". The health dashboard
  (`connection-health-dashboard.tsx:19-25`), the card, the sheet and the score do not
  know of locked models; the inspector has badges for locks and backoff, but its panel
  of repairs (`connection-inspector.tsx:194`) opens for a cool-down, an expired token or
  an error only; and dashboard, sheet and inspector count inactive connections too.
  `AttentionAgrees` states these differences exactly.
- `MigrationTouchesDeclaredOnly` (UiRules, scene rules): "only the declared operations
  touch it" (`model-migration-modal.tsx:20-22`), but `applyModelOps` strips what stands
  before the first slash of every stored name (`model-ops.ts:15-17`, `:26`), so
  "vendor/model" becomes "model", which `SupportsModel` (`provider.go:48-66`) does not
  match with the vendor's name. `EditModelsModal.tsx:43-49` and `:93-97` lose it too when
  the dialog is opened and saved.
- `FirstChoiceIsListed` (UiRules, scene rules): "chat models exclude image-generation-only
  models" (`playground-screen.tsx:40`), but the first choice is made from all models
  (`:73-76`), so the chat may start with a model that its own list does not offer.
- `WaitingIsBacked` (BrowserLogin, scene browser): "Transient errors keep the interval
  running" (`openai-connection-form.tsx:98`), but `submitCallback` stops it before it
  asks (`:114-115`), and a failed request neither starts it again nor closes the session
  (`:124-128`): the panel waits, and nothing asks.
- `RunsArePolled` (BulkLogin, scene bulk): the list is reloaded "as soon as new accounts
  land" (`bulk-auto-login-form.tsx:18`), but any "not running" stops the interval
  (`:53`), also a late one about the first job after the second was started; the answer
  to "Stop all", given before the job has ended, then shows that job as running. What it
  still connects goes unnoticed until the form is opened again.

Seen while modelling, and part of the models as they are, but without a statement in
the repository to hold against them:

- Logins: a poll under way when its login is cancelled re-arms its timer; when that
  session's deadline passes, the panel says its code expired, "polling stopped"
  (`DeviceCodePanel.tsx:15`), while the loop of a newer code runs. The answer to
  "Stop all" shows a job as running that has ended meanwhile.
- Connections: a late older read of the list replaces a newer one; a change whose answer
  is lost is not read back (`connection-inspector.tsx:93-104`, `:122-130`). The answer
  of one dialog closes another of its kind. Quick actions do not wait for a bulk run. The
  cards view ignores the filters; its badge ignores model locks; with Quota-auto on,
  each success makes a new list and each new list refreshes again
  (`use-quota-fetch.ts:94-156`). The selection counts deleted connections.
- Model lists: removing the last model of a list opens the connection to all; renames
  in a chain are applied again by a retry. The combo editor offers no account for a
  connection whose route prefix is the step's provider (`combo-step-form.tsx:47-52`),
  the playground does (`model-selector.tsx:73-78`).
- Administration: Enter in the key dialog does not look at its busy flag
  (`generate-dialog.tsx:86-88`). The lists of keys, tenants, profiles and settings are
  not read again when a change fails, which it may have done after it was served
  (`tenants-screen.tsx:110-181`). The dialog of a tenant's keys shows the previous
  tenant's after a failed read that follows a successful one. A combo target without
  a slash is saved with an empty provider.
- Playground: an error's text is sent as history of later turns; a change of the
  model keeps the pinned account; two overlapping picks of files lose the first
  (`attachment-input.tsx:78`). Accounts are matched by a model's name less what stands
  before its first slash, also if that is not a provider (`model-selector.tsx:85`).
- Logs: an answered read drops entries the stream brought meanwhile
  (`logs-screen.tsx:139-163`); what the stream brings is selected without the search
  text (`log-handler.go:107-116`); a stream that ends cleanly is not reopened; a late
  answer fills the details of another entry (`log-detail-sheet.tsx:41-47`). A pause of
  the console connects again when it begins and when it ends, and the 200 lines of the
  new list replace up to 2000 (`console-viewer.tsx:107-109`, `:151`; `log-handler.go:144`).
- Settings and tunnel: a failed read leaves the defaults editable and savable; edits
  made during a save are dropped; polls of the tunnel overlap.

## 7. What is left out, and why

*Simplifications of what is modelled.*

- Service: adding a connection (its ID is fresh, nothing refers to it yet); display
  fields such as LastError; the "__all" model lock, which is read but never written;
  per-combo strategies are folded into `comboStrategy`; errors of the disk, except a
  renewed token that could not be saved. `maxRetryCredentials`, the cool-down settings
  and session affinity can be edited only in the file today, the strategies also by
  `apiUpdateSettings`; `UpdateSettings` covers both.
- Dashboard: texts, layout, formatting and the state of widgets. Where one request runs
  at a time, it is served and answered in one step (`Reply`). In the login forms nothing else reads what the server holds, so an answer
  is chosen when it arrives. An abort of the playground's stream runs the rejected
  promise in the step of the click, for nothing can run in between. The "@auto" suffix of a combo's target.
  A stream whose first list the store refuses. Most of the settings' fields are one
  version.

*Components without a model.*

- JsonDB's cache, file lock and bootstrap, and the callers that load, change and save:
  every write that bears on account choice is an atomic `Update`. The renewals' model
  has the one lost update that does, the write-back of a whole record.
- Refresh-token generations and a crash between issue and save: the issuers' rules are
  not in the repository.
- The relay (reader goroutine, read timeout), the asynchronous log writer at shutdown,
  the tunnel's child process, the auto-login's browsers, the model cache: small
  protocols with goroutines and the operating system, each a candidate for a module;
  their hazards are listed in `PROJECT.json` where no property covers them.
- Route resolution: a plan (attempts, pins, allow-lists) is an input of ChatService.
- Log queries, backup and import, keys, profiles and tenants on the server, tools:
  sequential edits, SQL and parsing. Executors, translators, the compressor and image
  endpoints: translation and I/O whose outcome is a parameter. Start-up and
  self-update: I/O. Backup, usage and overview pages and widgets of the dashboard: one
  request or one flag each.

*Hazards not followed up*, besides those above: a late success lifts the long
hard-quota cool-down another request set after it (`account-selector.go:577`); a
deadline of the upstream call counts as an abort by the client
(`shared/utils.go:71`); image requests build a selector each, so their round-robin
starts at zero every time (`image-handler.go:451`); a second process on the same file
sees it up to the cache's lifetime late (`json-db.go:82`).

## 8. Running it

`tlc -config MCSelector.cfg MCSelector` and so on, with the module and configuration
that `PROJECT.json` pairs under "runs"; the longest, dashboard, visits 880 000 states
in a few minutes. `tlapm M.tla` checks the proofs of a module; SettleProofs and
ChatServiceProofs take the longest, some minutes each. In modules with theorems and all that they
extend there are no RECURSIVE operators, which the provers' SMT translation does not
accept: recursion is by folds or recursive functions.
