---------------------------- MODULE LoginProofs -----------------------------
(***************************************************************************)
(* Proofs about the dashboard's gate, its logins and the dialog that adds  *)
(* a connection.  One screen is mounted at a time, so an invariant of a    *)
(* screen has only the steps of that screen to survive.                    *)
(***************************************************************************)
EXTENDS Dashboard, FiniteSetTheorems, TLAPS

-----------------------------------------------------------------------------
(* No step leaves the screen that is mounted. *)

LEMMA ShellKept == ShellNext => UNCHANGED screen
BY ZenonT(60) DEF ShellNext, Bootstrap, ScreenAsks, Logout, Redirect, LoginSubmit, KeyRevoked, Sidebar, Reload,
   MobileMenu, BootstrapAnswers, LoginAnswers, ScreenIsAnswered, ShellServe, Lose, Do, Serve

LEMMA DeviceKept == DeviceNext => UNCHANGED screen
BY ZenonT(60) DEF DeviceNext, StartLogin, Restart, Cancel, FormUnmounts, FormMounts, TimerFires, DeadlinePasses,
   CodeArrives, CodeFails, PollAnswers, AskForCode, Do

LEMMA BrowserKept == BrowserNext => UNCHANGED screen
BY ZenonT(60) DEF BrowserNext, BrowserStart, PasteCallback, submitCallback, BrowserCancel, BrowserUnmounts,
   BrowserMounts, IntervalTicks, BrowserDeadline, BrowserSession, BrowserStartFails, CallbackAnswers,
   IntervalAnswers, Do

LEMMA BulkKept == BulkNext => UNCHANGED screen
BY ZenonT(60) DEF BulkNext, BulkStart, BulkStop, BulkReset, BulkUnmounts, BulkMounts, BulkAdvances, BulkTick,
   BulkAdopts, BulkStarted, BulkPolled, BulkStopped, BulkServe, BulkRefused, Lose, Do, Serve

LEMMA AddKept == AddNext => UNCHANGED screen
BY ZenonT(60) DEF AddNext, CloseModal, handleBack, AccountNameSection, ApiKeySubmit, ImportSubmit,
   RunTest, detectModels, saveModels, AddAnother, OpenModal, chooseProvider, CreateAnswers,
   ImportAnswers, RenameAnswers, VerifyAnswers, AddServe, Lose, Do, Serve, WithPanel, handleSuccess, ShowResult

LEMMA ConnectionsKept == ConnectionsNext => UNCHANGED screen
BY ZenonT(60) DEF ConnectionsNext, Select, SubmitDialog, CloseDialog, ConfirmBulk, handleCleanupConfirm, RetryLoad,
   handleImportFile, OpenAdd, onCreated, handleToggle, handleTest, handleRename, QuotaHeals, clearIssue,
   OpenDialog, toggleSelect, handleBulkAction, toggleSelectAll, OpenCleanup, handleQuickAction, TickGroup,
   ReadServed, ChangeServed, ConnectionsAnswer, OneAnswers, RunGoesOn, LoadAnswers, RunOver, Ask, Do, DoMissing,
   Serve

LEMMA CardsKept == CardsNext => UNCHANGED screen
BY ZenonT(60) DEF CardsNext, IntervalFires, setQuotaAuto, handleFetchGroupQuota, CardsReload, GroupAnswers,
   RefreshAnswers, StartRefresh, Ask, Do

LEMMA AdminKept == AdminNext => UNCHANGED screen
BY ZenonT(60) DEF AdminNext, TypeInCombo, CloseForm, KeepEditing, SubmitForm, RetryAll, DismissSecret, CloseKeys,
   OpenForm, EscapeKeyDialog, PressRow, OpenKeys, AdminAnswers, DoServed, DoFails, DoSucceeds, AdminLoaded,
   KeysAnswer, ReadServed, Ask, Do, DoMissing, Serve

LEMMA ChatKept == ChatNext => UNCHANGED screen
BY ZenonT(60) DEF ChatNext, handleSend, LockOpens, FrameFires, handleClear, ClearLogs, Choose, ChatAnswers,
   PieceArrives, StreamEnds, StreamFails, Ask, Reply, Do

LEMMA PicturesKept == PicturesNext => UNCHANGED screen
BY ZenonT(60) DEF PicturesNext, SendAttached, handleGenerate, Generate, clearImages, AttachFiles, handleFilePick,
   handlePaste, handleMaskPick, removeAttachment, removeImage, handleModelChange, setMode, PicturesAnswer,
   FilesRead, ModelsArrive, PictureRead, ImageAnswers, Ask, Do

LEMMA SettingsKept == SettingsNext => UNCHANGED screen
BY ZenonT(60) DEF SettingsNext, EditSettings, handleSave, handleDiscard, SettingsAnswer, Ask, Reply, Do

LEMMA ToolsKept == ToolsNext => UNCHANGED screen
BY ZenonT(60) DEF ToolsNext, handleConfigure, RefreshTools, ReadServed, ToolAnswers, ToolsLoaded, Ask, Reply, Do, Serve

LEMMA TunnelKept == TunnelNext => UNCHANGED screen
BY ZenonT(60) DEF TunnelNext, TunnelMoves, handleEnable, handleDisable, RefreshStatus, PollFires, SafetyFires,
   SwitchServed, EnableAnswers, DisableAnswers, StatusServed, StatusAnswers, Ask, Do, Serve

LEMMA FeedKept == FeedNext => UNCHANGED screen
BY ZenonT(60) DEF FeedNext, Written, Poll, PauseFeed, ClearFeed, FeedAnswers, Lose, Serve, Ask, Do

LEMMA ConsoleKept == ConsoleNext => UNCHANGED screen
BY ZenonT(60) DEF ConsoleNext, ServerWrites, Written, StreamSubscribes, StreamLists, LogStreamFails, LogStreamEnds,
   ConsoleReads, handleTogglePause, ClearConsole, ConsoleRetries, Ask, Do

LEMMA LogsKept == LogsNext => UNCHANGED screen
BY ZenonT(60) DEF LogsNext, ServerWrites, Written, StreamSubscribes, StreamLists, LogStreamFails, LogStreamEnds,
   StreamSends, RetryFires, DebounceFires, ClearFilters, handleRefresh, setLive, CloseDetail, EditFilters,
   ChangePage, OpenDetail, LogsAnswer, DetailAnswers, Lose, Serve, Ask, Do

LEMMA OneScreen == [Next]_uiVars => UNCHANGED screen
BY Zenon, ShellKept, DeviceKept, BrowserKept, BulkKept, AddKept, ConnectionsKept, CardsKept, AdminKept, ChatKept,
   PicturesKept, LogsKept, ConsoleKept, FeedKept, SettingsKept, ToolsKept, TunnelKept DEF Next, uiVars

-----------------------------------------------------------------------------
(* Requests under way. *)

\* A request is added to those there were, in the place of at most one.
LEMMA PlusCalls ==
    ASSUME NEW cs, NEW c
    PROVE  /\ \A n \in DOMAIN Plus(cs, c) : Plus(cs, c)[n] = c \/ (n \in DOMAIN cs /\ Plus(cs, c)[n] = cs[n])
           /\ \A m, n \in DOMAIN Plus(cs, c) :
                 m # n => \/ m \in DOMAIN cs /\ Plus(cs, c)[m] = cs[m]
                          \/ n \in DOMAIN cs /\ Plus(cs, c)[n] = cs[n]
BY DEF Plus

\* A non-empty set of numbers has a least one.
LEMMA LeastOf == ASSUME NEW T, T \subseteq Nat /\ T # {} PROVE \E x \in T : \A y \in T : x <= y
<1>1. PICK t \in T : \A u \in T : ~(<<u, t>> \in OpToRel(<, Nat))
  BY NatLessThanWellFounded, WFMin
<1>2. ASSUME NEW u \in T PROVE t <= u
  <2>1. u \in Nat /\ t \in Nat
    BY <1>1
  <2>2. u < t => <<u, t>> \in Nat \X Nat /\ <<u, t>>[1] < <<u, t>>[2]
    BY <2>1
  <2>3. ~(u < t)
    BY <1>1, <2>2 DEF OpToRel
  <2> QED BY <2>1, <2>3
<1> QED BY <1>2

LEMMA SlotIsFree == ASSUME NEW cs, Free(cs) # {} PROVE Slot(cs) \in Free(cs)
<1>1. Free(cs) \subseteq Nat
  BY BoundsAssumption DEF Free
<1>2. \E n \in Free(cs) : \A m \in Free(cs) : n <= m
  BY <1>1, LeastOf
<1> QED BY <1>2 DEF Slot

LEMMA PlusKeeps ==
    ASSUME NEW cs, NEW c
    PROVE  /\ DOMAIN cs \subseteq DOMAIN Plus(cs, c)
           /\ \A n \in DOMAIN cs : Plus(cs, c)[n] = cs[n]
           /\ DOMAIN cs \subseteq 1..MaxCalls => DOMAIN Plus(cs, c) \subseteq 1..MaxCalls
           /\ Free(cs) # {} => \E n \in DOMAIN Plus(cs, c) : Plus(cs, c)[n] = c
<1>1. CASE Free(cs) = {}
  BY <1>1 DEF Plus
<1>2. CASE Free(cs) # {}
  <2> DEFINE s == Slot(cs)
  <2>1. s \in 1..MaxCalls /\ s \notin DOMAIN cs
    BY <1>2, SlotIsFree DEF Free
  <2>2. Plus(cs, c) = [n \in (DOMAIN cs) \cup {s} |-> IF n = s THEN c ELSE cs[n]]
    BY <1>2 DEF Plus
  <2> HIDE DEF s
  <2> QED BY <2>1, <2>2
<1> QED BY <1>1, <1>2

LEMMA MinusCalls ==
    ASSUME NEW cs, NEW k
    PROVE  \A n \in DOMAIN Minus(cs, k) : n \in DOMAIN cs /\ n # k /\ Minus(cs, k)[n] = cs[n]
BY DEF Minus

LEMMA NoCallsEmpty == DOMAIN NoCalls = {}
BY DEF NoCalls

\* A request is a record, whatever becomes of it; what it is and whom it is
\* about stays.
IsCall(c) == c = [op |-> c.op, arg |-> c.arg, at |-> c.at, got |-> c.got]
AreCalls == \A n \in DOMAIN calls : IsCall(calls[n])
SameCall(e, c) == IsCall(e) /\ e.op = c.op /\ e.arg = c.arg

LEMMA CallFields ==
    ASSUME NEW op, NEW arg, NEW at, NEW got, NEW e, e = [op |-> op, arg |-> arg, at |-> at, got |-> got]
    PROVE  IsCall(e) /\ e.op = op /\ e.arg = arg /\ e.at = at /\ e.got = got
BY DEF IsCall

LEMMA CallSent ==
    ASSUME NEW op, NEW arg
    PROVE  LET c == Call(op, arg) IN IsCall(c) /\ c.op = op /\ c.arg = arg /\ c.at = "sent"
BY DEF IsCall, Call

LEMMA CallServed ==
    ASSUME NEW c, IsCall(c), NEW got, NEW e, e = [c EXCEPT !.at = "served", !.got = got]
    PROVE  SameCall(e, c) /\ e.at = "served" /\ e.got = got
<1>1. c = [op |-> c.op, arg |-> c.arg, at |-> c.at, got |-> c.got]
  BY Zenon DEF IsCall
<1>2. e = [op |-> c.op, arg |-> c.arg, at |-> "served", got |-> got]
  BY <1>1
<1> QED BY Zenon, <1>2, CallFields DEF SameCall

LEMMA CallFailed ==
    ASSUME NEW c, IsCall(c), NEW e, e = [c EXCEPT !.at = "failed"]
    PROVE  SameCall(e, c) /\ e.at = "failed" /\ e.got = c.got
<1>1. c = [op |-> c.op, arg |-> c.arg, at |-> c.at, got |-> c.got]
  BY Zenon DEF IsCall
<1>2. e = [op |-> c.op, arg |-> c.arg, at |-> "failed", got |-> c.got]
  BY <1>1
<1> QED BY Zenon, <1>2, CallFields DEF SameCall

LEMMA ServeCalls ==
    ASSUME NEW n, NEW d, NEW got, Serve(n, d, got), AreCalls
    PROVE  /\ n \in DOMAIN calls /\ DOMAIN calls' = DOMAIN calls
           /\ \A m \in DOMAIN calls : SameCall(calls'[m], calls[m]) /\ (m # n => calls'[m] = calls[m])
           /\ calls'[n].at = "served" /\ calls'[n].got = got
           /\ db' = d /\ local' = local
<1>1. /\ n \in DOMAIN calls /\ DOMAIN calls' = DOMAIN calls
      /\ calls'[n] = [calls[n] EXCEPT !.at = "served", !.got = got]
      /\ \A m \in DOMAIN calls : m # n => calls'[m] = calls[m]
      /\ db' = d /\ local' = local
  BY DEF Serve, Sent
<1>2. SameCall(calls'[n], calls[n]) /\ calls'[n].at = "served" /\ calls'[n].got = got
  <2>1. IsCall(calls[n])
    BY Zenon, <1>1 DEF AreCalls
  <2>2. calls'[n] = [calls[n] EXCEPT !.at = "served", !.got = got]
    BY <1>1
  <2>3. \A e : e = [calls[n] EXCEPT !.at = "served", !.got = got]
               => SameCall(e, calls[n]) /\ e.at = "served" /\ e.got = got
    BY <2>1, CallServed
  <2> QED BY <2>2, <2>3
<1>3. ASSUME NEW m \in DOMAIN calls, m # n PROVE SameCall(calls'[m], calls[m])
  <2>1. calls'[m] = calls[m]
    BY <1>1, <1>3
  <2> QED BY Zenon, <2>1 DEF AreCalls, SameCall
<1> QED BY Zenon, <1>1, <1>2, <1>3

LEMMA LoseCalls ==
    ASSUME NEW n, Lose(n), AreCalls
    PROVE  /\ n \in DOMAIN calls /\ DOMAIN calls' = DOMAIN calls
           /\ \A m \in DOMAIN calls : SameCall(calls'[m], calls[m]) /\ (m # n => calls'[m] = calls[m])
           /\ calls'[n].at = "failed" /\ db' = db /\ local' = local
<1>1. /\ n \in DOMAIN calls /\ DOMAIN calls' = DOMAIN calls
      /\ calls'[n] = [calls[n] EXCEPT !.at = "failed"]
      /\ \A m \in DOMAIN calls : m # n => calls'[m] = calls[m]
      /\ db' = db /\ local' = local
  BY DEF Lose, Sent, Served
<1>2. SameCall(calls'[n], calls[n]) /\ calls'[n].at = "failed"
  BY Zenon, <1>1, CallFailed DEF AreCalls
<1>3. ASSUME NEW m \in DOMAIN calls, m # n PROVE SameCall(calls'[m], calls[m])
  <2>1. calls'[m] = calls[m]
    BY <1>1, <1>3
  <2> QED BY Zenon, <2>1 DEF AreCalls, SameCall
<1> QED BY Zenon, <1>1, <1>2, <1>3

-----------------------------------------------------------------------------
(* The shell and its gate. *)

ShellState == [key : Keys \cup {None}, session : [of : Keys, isAdmin : BOOLEAN] \cup {None}, auth : BOOLEAN,
               ready : BOOLEAN, route : appRoutes, loading : BOOLEAN, error : BOOLEAN, menu : BOOLEAN]

\* Until the page knows whose its key is, its one request asks just that.
Asking ==
    /\ ~local.auth /\ local.session = None
    /\ \A n \in DOMAIN calls : calls[n].op = "session" /\ calls[n].arg = local.key /\ local.key # None
    /\ \A m, n \in DOMAIN calls : m = n

\* From then on a session goes with the key that is stored.
SessionOfKey(l) == (l.auth <=> l.session # None) /\ (l.auth => l.session.of = l.key)
Answered ==
    /\ SessionOfKey(local)
    /\ \A n \in DOMAIN calls : calls[n].op # "session"
    /\ \A n \in DOMAIN calls : calls[n].op = "validate" => calls[n].arg \in Keys

ShellInv ==
    /\ local \in ShellState
    /\ AreCalls
    /\ IF local.ready THEN Answered ELSE Asking

LEMMA NotRoutes == "loading" \notin appRoutes /\ "login" \notin appRoutes
BY DEF appRoutes, navItems, adminNavItems

LEMMA FirstRoutes == {"/", "/tenants", "/profiles"} \subseteq appRoutes
BY DEF appRoutes, navItems, adminNavItems

LEMMA ShellStarts == ShellInit => ShellInv
BY NoCallsEmpty, FirstRoutes DEF ShellInit, ShellInv, AreCalls, ShellState, Asking, AppState

LEMMA ShellSteps == ASSUME ShellInv, ShellNext PROVE ShellInv'
<1> USE DEF ShellInv, AreCalls
<1>1. CASE Bootstrap
  <2>1. CASE local.key = None
    BY <1>1, <2>1 DEF Bootstrap, Do, Asking, Answered, SessionOfKey, ShellState
  <2>2. CASE local.key # None
    <3>1. local' = local /\ calls' = Plus(calls, Call("session", local.key)) /\ ~local.ready
      BY <1>1, <2>2 DEF Bootstrap, Do
    <3>2. DOMAIN calls = {}
      BY <1>1, <3>1 DEF Bootstrap, Quiet, Outstanding, Asking
    <3>3. \A n \in DOMAIN calls' : calls'[n] = Call("session", local.key)
      BY <3>1, <3>2, PlusCalls
    <3>4. \A m, n \in DOMAIN calls' : m = n
      BY <3>1, <3>2, PlusCalls
    <3> QED BY <2>2, <3>1, <3>3, <3>4, CallSent DEF Asking
  <2> QED BY <2>1, <2>2
<1>2. ASSUME NEW n \in DOMAIN calls, BootstrapAnswers(n) PROVE ShellInv'
  <2>1. ~local.ready /\ calls[n].arg = local.key /\ local.key \in Keys
    BY <1>2 DEF BootstrapAnswers, Answered, Asking, ShellState
  <2>2. calls' = Minus(calls, n) /\ DOMAIN calls' = {}
    BY <1>2, <2>1, MinusCalls DEF BootstrapAnswers, Do, Asking
  <2>3. SessionInfo(local.key, calls[n].got) \in [of : Keys, isAdmin : BOOLEAN] /\ SessionInfo(local.key, calls[n].got).of = local.key
    BY <2>1 DEF SessionInfo
  <2>4. local' \in ShellState /\ local'.ready /\ SessionOfKey(local')
    <3>1. CASE Failed(n)
      BY <1>2, <2>1, <3>1 DEF BootstrapAnswers, Do, Asking, ShellState, SessionOfKey
    <3>2. CASE ~Failed(n) /\ calls[n].got = "nobody"
      BY <1>2, <2>1, <3>2 DEF BootstrapAnswers, Do, Asking, ShellState, SessionOfKey
    <3>3. CASE ~Failed(n) /\ calls[n].got # "nobody"
      <4> DEFINE s == SessionInfo(local.key, calls[n].got)
      <4>1. local' = [local EXCEPT !.ready = TRUE, !.auth = TRUE, !.session = s]
        BY <1>2, <3>3 DEF BootstrapAnswers, Do
      <4> HIDE DEF s
      <4> QED BY <2>1, <2>3, <4>1, KeysAssumption DEF s, ShellState, SessionOfKey
    <3> QED BY <3>1, <3>2, <3>3
  <2> QED BY <2>2, <2>4 DEF Answered
<1>3. ASSUME NEW k \in Keys, LoginSubmit(k) PROVE ShellInv'
  <2>1. local.ready /\ local' = [local EXCEPT !.loading = TRUE, !.error = FALSE] /\ calls' = Plus(calls, Call("validate", k))
    BY <1>3 DEF LoginSubmit, Do, Shown
  <2>2. \A n \in DOMAIN calls' : calls'[n] = Call("validate", k) \/ (n \in DOMAIN calls /\ calls'[n] = calls[n])
    BY <2>1, PlusCalls
  <2>3. local' \in ShellState /\ local'.ready /\ SessionOfKey(local')
    BY <2>1 DEF ShellState, SessionOfKey, Answered
  <2> QED BY <2>1, <2>2, <2>3, CallSent DEF Answered
<1>4. ASSUME NEW n \in DOMAIN calls, LoginAnswers(n) PROVE ShellInv'
  <2>1. local.ready /\ calls[n].arg \in Keys
    BY <1>4 DEF LoginAnswers, Asking, Answered
  <2>2. calls' = Minus(calls, n)
    BY <1>4 DEF LoginAnswers, Do
  <2>3. local' \in ShellState /\ local'.ready /\ SessionOfKey(local')
    <3> DEFINE s == SessionInfo(calls[n].arg, calls[n].got)
    <3>1. s \in [of : Keys, isAdmin : BOOLEAN] /\ s.of = calls[n].arg
      BY <2>1 DEF SessionInfo
    <3>2. \/ local' = [local EXCEPT !.loading = FALSE, !.key = calls[n].arg, !.auth = TRUE, !.session = s]
          \/ local' = [local EXCEPT !.loading = FALSE, !.error = TRUE]
      BY <1>4 DEF LoginAnswers, Do
    <3> HIDE DEF s
    <3> QED BY <2>1, <3>1, <3>2, KeysAssumption DEF ShellState, SessionOfKey, Answered
  <2> QED BY <2>1, <2>2, <2>3, MinusCalls DEF Answered
<1>5. CASE ScreenAsks
  <2>1. local.ready /\ local' = local /\ calls' = Plus(calls, Call("page", local.key))
    BY <1>5 DEF ScreenAsks, Do, Shown
  <2>2. \A n \in DOMAIN calls' : calls'[n] = Call("page", local.key) \/ (n \in DOMAIN calls /\ calls'[n] = calls[n])
    BY <2>1, PlusCalls
  <2> QED BY <2>1, <2>2, CallSent DEF Answered
<1>6. ASSUME NEW n \in DOMAIN calls, ScreenIsAnswered(n) PROVE ShellInv'
  <2>1. local.ready /\ calls' = Minus(calls, n)
    BY <1>6 DEF ScreenIsAnswered, Do, Asking
  <2>2. local' = local \/ local' = [local EXCEPT !.key = None, !.auth = FALSE, !.session = None]
    BY <1>6 DEF ScreenIsAnswered, Do, notifyUnauthorized, showLogin
  <2>3. local' \in ShellState /\ local'.ready /\ SessionOfKey(local')
    BY <2>1, <2>2 DEF ShellState, SessionOfKey, Answered
  <2> QED BY <2>1, <2>3, MinusCalls DEF Answered
<1>7. CASE Logout
  <2>1. local.ready /\ calls' = calls /\ local' = [local EXCEPT !.auth = FALSE, !.session = None, !.key = None, !.menu = FALSE]
    BY <1>7 DEF Logout, Do, Shown, handleLogout, showLogin
  <2> QED BY <2>1 DEF ShellState, SessionOfKey, Answered
<1>8. ASSUME NEW path \in appRoutes, Sidebar(path) \/ Reload(path) PROVE ShellInv'
  <2>2. CASE Sidebar(path)
    BY <2>2 DEF Sidebar, Do, Shown, ShellState, SessionOfKey, Answered
  <2>3. CASE Reload(path)
    BY <2>3, NoCallsEmpty DEF Reload, Do, ShellState, Asking
  <2> QED BY <1>8, <2>2, <2>3
<1>9. CASE Redirect
  <2>1. local.ready /\ Shown \in appRoutes /\ calls' = calls /\ local' = [local EXCEPT !.route = Shown]
    BY <1>9, NotRoutes DEF Redirect, Do, Shown
  <2> QED BY <2>1 DEF ShellState, SessionOfKey, Answered
<1>10. ASSUME NEW open \in BOOLEAN, MobileMenu(open) PROVE ShellInv'
  BY <1>10 DEF MobileMenu, Do, Shown, ShellState, SessionOfKey, Answered
<1>11. ASSUME NEW n \in DOMAIN calls, ShellServe(n) PROVE ShellInv'
  <2>1. PICK got : Serve(n, db, got)
    BY <1>11 DEF ShellServe
  <2> QED BY <2>1, ServeCalls DEF SameCall, Asking, Answered
<1>12. ASSUME NEW n \in DOMAIN calls, Lose(n) PROVE ShellInv'
  BY <1>12, LoseCalls DEF SameCall, Asking, Answered
<1>13. ASSUME NEW k \in Keys, KeyRevoked(k) PROVE ShellInv'
  BY <1>13 DEF KeyRevoked, Asking, Answered
<1> QED BY Zenon, <1>1, <1>2, <1>3, <1>4, <1>5, <1>6, <1>7, <1>8, <1>9, <1>10, <1>11, <1>12, <1>13 DEF ShellNext

\* The gate and the credentials agree, whatever answers come late (App.tsx,
\* notifyUnauthorized): the screens are up exactly while there is a session of
\* the key that is stored, an admin's screen only in an admin's session.
THEOREM GateAgrees == Spec => []GateConsistent
<1> DEFINE I == screen = "shell" => ShellInv
<1>1. Init => I
  BY ShellStarts DEF Init, DeviceInit, BrowserInit, BulkInit, AddInit, ConnectionsInit, CardsInit, RulesInit,
     AdminInit, ChatInit, PicturesInit, LogsInit, ConsoleInit, FeedInit, SettingsInit, ToolsInit, TunnelInit
<1>2. I /\ [Next]_uiVars => I'
  <2> SUFFICES ASSUME I, [Next]_uiVars, screen' = "shell" PROVE ShellInv'
    OBVIOUS
  <2>1. screen = "shell"
    BY OneScreen
  <2>2. CASE ShellNext
    BY <2>1, <2>2, ShellSteps
  <2>3. CASE UNCHANGED uiVars
    BY <2>1, <2>3 DEF uiVars, ShellInv, AreCalls, Asking, Answered
  <2> QED BY <2>1, <2>2, <2>3 DEF Next
<1>3. I => GateConsistent
  BY DEF ShellInv, GateConsistent, Answered, SessionOfKey, Shown, RequireAdmin, IsAdmin, TenantBadge, adminNavItems
<1> QED BY <1>1, <1>2, <1>3, PTL DEF Spec

-----------------------------------------------------------------------------
(* Device codes. *)

DeviceState == [flow : DeviceFlows, form : 1..Forms, mounted : BOOLEAN, loading : BOOLEAN,
                deviceCode : Sessions \cup {None}, codeExpired : BOOLEAN, polling : BOOLEAN,
                ref : [1..Forms -> Sessions \cup {None}], of : [Sessions -> 0..Forms],
                loop : [Sessions -> {"none", "timer", "asked", "over"}], late : SUBSET Sessions]

\* A ref names a session of its own form, and so does the screen; a loop has a
\* form.
Linked(l) ==
    /\ \A f \in 1..Forms : l.ref[f] # None => l.of[l.ref[f]] = f
    /\ \A s \in Sessions : l.loop[s] # "none" => l.of[s] # 0
    /\ l.mounted /\ l.deviceCode # None => l.of[l.deviceCode] = l.form
    /\ ~l.mounted => ~l.polling /\ l.deviceCode = None

\* The spinner has a loop.
Backed(l) == l.mounted /\ l.polling => l.deviceCode # None /\ l.loop[l.deviceCode] \in {"timer", "asked"}

DeviceCalls ==
    /\ \A n \in DOMAIN calls : calls[n].op = "start" => calls[n].arg \in 1..Forms
    /\ \A n \in DOMAIN calls : calls[n].op = "poll" => calls[n].arg \in Sessions /\ local.of[calls[n].arg] # 0

DeviceInv ==
    /\ local \in DeviceState /\ Linked(local) /\ Backed(local)
    /\ db \in Nat /\ \A s \in Sessions : local.of[s] # 0 => s <= db
    /\ DeviceCalls

LEMMA DeviceStarts == DeviceInit => DeviceInv
BY NoCallsEmpty, SessionsAssumption DEF DeviceInit, DeviceInv, DeviceCalls, DeviceState, Linked, Backed

\* Disarming a ref ends at most the loop that the ref names.
LEMMA DisarmKeeps ==
    ASSUME NEW l \in DeviceState, Linked(l), NEW f \in 1..Forms, NEW d, d = Disarm(l, f)
    PROVE  /\ d \in DeviceState
           /\ d.flow = l.flow /\ d.form = l.form /\ d.mounted = l.mounted /\ d.loading = l.loading
           /\ d.deviceCode = l.deviceCode /\ d.polling = l.polling /\ d.of = l.of /\ d.late = l.late
           /\ d.ref[f] = None /\ \A g \in 1..Forms : g # f => d.ref[g] = l.ref[g]
           /\ \A s \in Sessions : d.loop[s] = l.loop[s] \/ (l.of[s] = f /\ l.loop[s] # "none" /\ d.loop[s] = "over")
<1> DEFINE s == l.ref[f]
           r == [l.ref EXCEPT ![f] = None]
           k == IF s # None /\ l.loop[s] = "timer" THEN [l.loop EXCEPT ![s] = "over"] ELSE l.loop
<1>1. d = [l EXCEPT !.ref = r, !.loop = k]
  BY DEF Disarm, DeviceState
<1>2. /\ r \in [1..Forms -> Sessions \cup {None}] /\ r[f] = None
      /\ \A g \in 1..Forms : g # f => r[g] = l.ref[g]
  BY DEF DeviceState
<1>3. s # None => s \in Sessions /\ l.of[s] = f
  BY DEF DeviceState, Linked
<1>4. /\ k \in [Sessions -> {"none", "timer", "asked", "over"}]
      /\ \A t \in Sessions : k[t] = l.loop[t] \/ (l.of[t] = f /\ l.loop[t] # "none" /\ k[t] = "over")
  BY <1>3 DEF DeviceState
<1> HIDE DEF r, k
<1>5. d \in DeviceState /\ d.ref = r /\ d.loop = k
  BY <1>1, <1>2, <1>4 DEF DeviceState
<1>6. /\ d.flow = l.flow /\ d.form = l.form /\ d.mounted = l.mounted /\ d.loading = l.loading
      /\ d.deviceCode = l.deviceCode /\ d.polling = l.polling /\ d.of = l.of /\ d.late = l.late
  BY <1>1 DEF DeviceState
<1> QED BY <1>2, <1>4, <1>5, <1>6

\* Clearing a form's polling leaves no spinner on the screen without its loop,
\* if only that form's was without.
LEMMA clearPollingKeeps ==
    ASSUME NEW l \in DeviceState, Linked(l), NEW f \in 1..Forms, l.form # f => Backed(l), NEW c, c = clearPolling(l, f)
    PROVE  c \in DeviceState /\ Linked(c) /\ Backed(c) /\ c.of = l.of
<1> DEFINE d == Disarm(l, f)
<1>1. /\ d \in DeviceState
      /\ d.flow = l.flow /\ d.form = l.form /\ d.mounted = l.mounted /\ d.loading = l.loading
      /\ d.deviceCode = l.deviceCode /\ d.polling = l.polling /\ d.of = l.of /\ d.late = l.late
      /\ d.ref[f] = None /\ \A g \in 1..Forms : g # f => d.ref[g] = l.ref[g]
      /\ \A s \in Sessions : d.loop[s] = l.loop[s] \/ (l.of[s] = f /\ l.loop[s] # "none" /\ d.loop[s] = "over")
  BY DisarmKeeps
<1>2. c = IF f = l.form /\ l.mounted THEN [d EXCEPT !.deviceCode = None, !.polling = FALSE, !.codeExpired = FALSE] ELSE d
  BY <1>1 DEF clearPolling, OnScreen
<1> HIDE DEF d
<1>3. Linked(d)
  BY <1>1 DEF Linked, DeviceState
<1>4. CASE f = l.form /\ l.mounted
  <2>1. c = [d EXCEPT !.deviceCode = None, !.polling = FALSE, !.codeExpired = FALSE]
    BY <1>2, <1>4
  <2>2. c \in DeviceState /\ c.of = d.of /\ c.ref = d.ref /\ c.loop = d.loop /\ c.mounted /\ c.deviceCode = None /\ ~c.polling
    BY <1>1, <1>4, <2>1 DEF DeviceState
  <2> QED BY <1>1, <1>3, <2>2 DEF Linked, Backed
<1>5. CASE ~(f = l.form /\ l.mounted)
  BY <1>1, <1>2, <1>3, <1>5 DEF Linked, Backed, DeviceState
<1> QED BY <1>4, <1>5

LEMMA AskForCodeKeeps ==
    ASSUME DeviceInv, NEW l \in DeviceState, Linked(l), Backed(l), l.of = local.of, AskForCode(l)
    PROVE  DeviceInv'
<1>1. local' = [l EXCEPT !.loading = TRUE] /\ calls' = Plus(calls, Call("start", l.form)) /\ db' = db
  BY DEF AskForCode, Do
<1>2. local' \in DeviceState /\ Linked(local') /\ Backed(local') /\ local'.of = local.of
  BY <1>1 DEF DeviceState, Linked, Backed
<1>3. \A n \in DOMAIN calls' : calls'[n] = Call("start", l.form) \/ (n \in DOMAIN calls /\ calls'[n] = calls[n])
  BY <1>1, PlusCalls
<1>4. l.form \in 1..Forms
  BY DEF DeviceState
<1>5. DeviceCalls'
  BY <1>2, <1>3, <1>4, CallSent DEF DeviceInv, DeviceCalls
<1> QED BY <1>1, <1>2, <1>5 DEF DeviceInv

\* A step of the screen that starts no loop of a session and no request.
LEMMA DeviceDone ==
    ASSUME DeviceInv, local' \in DeviceState, Linked(local'), Backed(local'), local'.of = local.of, db' = db,
           calls' = calls \/ \E n : calls' = Minus(calls, n)
    PROVE  DeviceInv'
<1>1. \A n \in DOMAIN calls' : n \in DOMAIN calls /\ calls'[n] = calls[n]
  BY MinusCalls
<1> QED BY <1>1 DEF DeviceInv, DeviceCalls

LEMMA DeviceSteps == ASSUME DeviceInv, DeviceNext PROVE DeviceInv'
<1> USE DEF DeviceInv
<1>0. local.form \in 1..Forms /\ \A s \in Sessions : local.of[s] # 0 => local.of[s] \in 1..Forms
  BY SessionsAssumption DEF DeviceState
<1>1. CASE StartLogin
  BY <1>1, AskForCodeKeeps DEF StartLogin
<1>2. CASE Restart
  <2> DEFINE c == clearPolling(local, local.form)
  <2>1. c \in DeviceState /\ Linked(c) /\ Backed(c) /\ c.of = local.of
    BY <1>0, clearPollingKeeps
  <2>2. AskForCode(c) \/ AskForCode(local)
    BY <1>2 DEF Restart
  <2> HIDE DEF c
  <2> QED BY <2>1, <2>2, AskForCodeKeeps
<1>3. CASE Cancel
  <2>1. local' = clearPolling(local, local.form) /\ calls' = calls /\ db' = db
    BY <1>3 DEF Cancel, Do
  <2> QED BY <1>0, <2>1, clearPollingKeeps, DeviceDone
<1>4. CASE FormUnmounts
  <2> DEFINE d == Disarm(local, local.form)
  <2>1. /\ d \in DeviceState /\ d.of = local.of
        /\ d.ref[local.form] = None /\ \A g \in 1..Forms : g # local.form => d.ref[g] = local.ref[g]
        /\ \A s \in Sessions : d.loop[s] = local.loop[s] \/ (local.loop[s] # "none" /\ d.loop[s] = "over")
    BY <1>0, DisarmKeeps
  <2>2. /\ local' = [d EXCEPT !.mounted = FALSE, !.loading = FALSE, !.deviceCode = None, !.polling = FALSE, !.codeExpired = FALSE]
        /\ calls' = calls /\ db' = db
    BY <1>4 DEF FormUnmounts, Do
  <2> HIDE DEF d
  <2>3. /\ local' \in DeviceState /\ local'.of = d.of /\ local'.ref = d.ref /\ local'.loop = d.loop
        /\ ~local'.mounted /\ ~local'.polling /\ local'.deviceCode = None
    BY <2>1, <2>2 DEF DeviceState
  <2>4. Linked(local') /\ Backed(local')
    BY <2>1, <2>3 DEF Linked, Backed
  <2> QED BY <2>1, <2>2, <2>3, <2>4, DeviceDone
<1>5. CASE FormMounts
  <2>1. /\ ~local.mounted /\ local.form < Forms /\ calls' = calls /\ db' = db
        /\ local' = [local EXCEPT !.mounted = TRUE, !.form = local.form + 1]
    BY <1>5 DEF FormMounts, Do
  <2>2. local.form + 1 \in 1..Forms
    BY <1>0, <2>1, SessionsAssumption
  <2>3. local' \in DeviceState /\ Linked(local') /\ Backed(local') /\ local'.of = local.of
    BY <2>1, <2>2 DEF DeviceState, Linked, Backed
  <2> QED BY <2>1, <2>3, DeviceDone
<1>6. ASSUME NEW s \in Sessions, TimerFires(s) PROVE DeviceInv'
  <2> DEFINE f == local.of[s]
  <2>1. local.loop[s] = "timer" /\ f \in 1..Forms /\ db' = db
    BY <1>6, <1>0 DEF TimerFires, Do, Linked
  <2>2. CASE s \in local.late
    <3> DEFINE over == [local EXCEPT !.loop[s] = "over"]
    <3>1. local' = OnScreen(over, f, [over EXCEPT !.polling = FALSE, !.codeExpired = TRUE]) /\ calls' = calls
      BY <1>6, <2>2 DEF TimerFires, Do
    <3>2. over \in DeviceState /\ over.of = local.of /\ over.form = local.form /\ over.mounted = local.mounted /\ Linked(over)
      BY <2>1 DEF DeviceState, Linked
    <3>3. f # local.form => Backed(over)
      BY <2>1 DEF DeviceState, Linked, Backed
    <3>4. CASE f = local.form /\ local.mounted
      <4>1. local' = [over EXCEPT !.polling = FALSE, !.codeExpired = TRUE]
        BY <3>1, <3>2, <3>4 DEF OnScreen
      <4> HIDE DEF over
      <4>2. local' \in DeviceState /\ Linked(local') /\ Backed(local') /\ local'.of = local.of
        BY <3>2, <4>1 DEF DeviceState, Linked, Backed
      <4> QED BY <2>1, <3>1, <4>2, DeviceDone
    <3>5. CASE ~(f = local.form /\ local.mounted)
      <4>1. local' = over
        BY <3>1, <3>2, <3>5 DEF OnScreen
      <4>2. Backed(over)
        BY <3>2, <3>3, <3>5 DEF Backed
      <4> HIDE DEF over
      <4> QED BY <2>1, <3>1, <3>2, <4>1, <4>2, DeviceDone
    <3> QED BY <3>4, <3>5
  <2>3. CASE s \notin local.late
    <3>1. local' = [local EXCEPT !.loop[s] = "asked"] /\ calls' = Plus(calls, Call("poll", s))
      BY <1>6, <2>3 DEF TimerFires, Do
    <3>2. local' \in DeviceState /\ Linked(local') /\ Backed(local') /\ local'.of = local.of
      BY <2>1, <3>1 DEF DeviceState, Linked, Backed
    <3>3. \A n \in DOMAIN calls' : calls'[n] = Call("poll", s) \/ (n \in DOMAIN calls /\ calls'[n] = calls[n])
      BY <3>1, PlusCalls
    <3>4. DeviceCalls'
      BY <2>1, <3>2, <3>3, CallSent DEF DeviceCalls
    <3> QED BY <2>1, <3>2, <3>4
  <2> QED BY <2>2, <2>3
<1>7. ASSUME NEW s \in Sessions, DeadlinePasses(s) PROVE DeviceInv'
  <2>1. local' = [local EXCEPT !.late = local.late \cup {s}] /\ calls' = calls /\ db' = db
    BY <1>7 DEF DeadlinePasses, Do
  <2>2. local' \in DeviceState /\ Linked(local') /\ Backed(local') /\ local'.of = local.of
    BY <2>1 DEF DeviceState, Linked, Backed
  <2> QED BY <2>1, <2>2, DeviceDone
<1>8. ASSUME NEW n \in DOMAIN calls, CodeArrives(n) PROVE DeviceInv'
  <2> DEFINE f == calls[n].arg
             s == db + 1
             p == startPolling(local, s, f)
  <2>1. f \in 1..Forms /\ s \in Sessions /\ calls' = Minus(calls, n) /\ db' = s
    BY <1>8 DEF CodeArrives, DeviceCalls
  <2>2. local.of[s] = 0
    BY <2>1 DEF DeviceState
  <2>3. /\ p \in DeviceState /\ p.form = local.form /\ p.mounted = local.mounted
        /\ p.deviceCode = local.deviceCode /\ p.polling = local.polling
        /\ p.loop = [local.loop EXCEPT ![s] = "timer"] /\ p.of = [local.of EXCEPT ![s] = f] /\ p.ref = [local.ref EXCEPT ![f] = s]
    <3>1. p = [local EXCEPT !.loop = [local.loop EXCEPT ![s] = "timer"], !.of = [local.of EXCEPT ![s] = f],
                            !.ref = [local.ref EXCEPT ![f] = s]]
      BY <2>1 DEF startPolling, DeviceState
    <3>2. /\ [local.loop EXCEPT ![s] = "timer"] \in [Sessions -> {"none", "timer", "asked", "over"}]
          /\ [local.of EXCEPT ![s] = f] \in [Sessions -> 0..Forms]
          /\ [local.ref EXCEPT ![f] = s] \in [1..Forms -> Sessions \cup {None}]
      BY <2>1, SessionsAssumption DEF DeviceState
    <3> QED BY <3>1, <3>2 DEF DeviceState
  <2>4. local' = OnScreen(p, f, [p EXCEPT !.deviceCode = s, !.polling = TRUE, !.loading = FALSE])
    BY <1>8 DEF CodeArrives
  <2> HIDE DEF p
  <2>5. Linked(p) /\ Backed(p)
    BY <2>1, <2>2, <2>3, SessionsAssumption DEF Linked, Backed, DeviceState
  <2>6. /\ local' \in DeviceState /\ local'.of = p.of /\ Linked(local') /\ Backed(local')
    <3>1. CASE f = p.form /\ p.mounted
      <4>1. local' = [p EXCEPT !.deviceCode = s, !.polling = TRUE, !.loading = FALSE]
        BY <2>4, <3>1 DEF OnScreen
      <4>2. /\ local' \in DeviceState /\ local'.of = p.of /\ local'.ref = p.ref /\ local'.loop = p.loop
            /\ local'.form = p.form /\ local'.mounted = p.mounted /\ local'.deviceCode = s
        BY <2>1, <2>3, <4>1 DEF DeviceState
      <4>3. p.of[s] = f /\ p.loop[s] = "timer" /\ s # None
        BY <2>1, <2>3, SessionsAssumption DEF DeviceState
      <4> QED BY <2>5, <3>1, <4>2, <4>3 DEF Linked, Backed
    <3>2. CASE ~(f = p.form /\ p.mounted)
      BY <2>3, <2>4, <2>5, <3>2 DEF OnScreen
    <3> QED BY <3>1, <3>2
  <2>7. \A t \in Sessions : local.of[t] # 0 => local'.of[t] # 0
    BY <2>1, <2>3, <2>6 DEF DeviceState
  <2>8. \A t \in Sessions : local'.of[t] # 0 => t <= db'
    BY <2>1, <2>3, <2>6, SessionsAssumption DEF DeviceState
  <2>9. DeviceCalls'
    BY <2>1, <2>7, MinusCalls DEF DeviceCalls
  <2> QED BY <2>1, <2>6, <2>8, <2>9
<1>9. ASSUME NEW n \in DOMAIN calls, CodeFails(n) PROVE DeviceInv'
  <2>1. /\ local' = local \/ local' = [local EXCEPT !.loading = FALSE]
        /\ calls' = Minus(calls, n) /\ db' = db
    BY <1>9 DEF CodeFails, Do, OnScreen
  <2>2. local' \in DeviceState /\ Linked(local') /\ Backed(local') /\ local'.of = local.of
    BY <2>1 DEF DeviceState, Linked, Backed
  <2> QED BY <2>1, <2>2, DeviceDone
<1>10. ASSUME NEW n \in DOMAIN calls, NEW status \in PollStatus, PollAnswers(n, status) PROVE DeviceInv'
  <2> DEFINE s == calls[n].arg
             f == local.of[s]
  <2>1. s \in Sessions /\ f \in 1..Forms /\ calls' = Minus(calls, n) /\ db' = db
    BY <1>10, <1>0 DEF PollAnswers, Do, DeviceCalls
  <2>2. CASE status \in {"pending", "throws"}
    <3> DEFINE k == [local.loop EXCEPT ![s] = "timer"]
               r == [local.ref EXCEPT ![f] = s]
    <3>1. local' = [local EXCEPT !.loop = k, !.ref = r]
      BY <1>10, <2>1, <2>2 DEF PollAnswers, Do, Rearm, DeviceState
    <3>2. /\ k \in [Sessions -> {"none", "timer", "asked", "over"}] /\ k[s] = "timer" /\ \A t \in Sessions : t # s => k[t] = local.loop[t]
          /\ r \in [1..Forms -> Sessions \cup {None}] /\ r[f] = s /\ \A g \in 1..Forms : g # f => r[g] = local.ref[g]
      BY <2>1 DEF DeviceState
    <3> HIDE DEF k, r
    <3>3. /\ local' \in DeviceState /\ local'.of = local.of /\ local'.loop = k /\ local'.ref = r
          /\ local'.form = local.form /\ local'.mounted = local.mounted
          /\ local'.deviceCode = local.deviceCode /\ local'.polling = local.polling
      BY <3>1, <3>2 DEF DeviceState
    <3>4. \A g \in 1..Forms : r[g] # None => local.of[r[g]] = g
      BY <3>2 DEF Linked
    <3>5. \A t \in Sessions : k[t] # "none" => local.of[t] # 0
      BY <2>1, <3>2 DEF Linked
    <3>6. local.deviceCode \in Sessions \cup {None}
      BY DEF DeviceState
    <3>7. Linked(local')
      BY <3>3, <3>4, <3>5 DEF Linked
    <3>8. Backed(local')
      BY <3>2, <3>3, <3>6 DEF Backed
    <3> QED BY <2>1, <3>3, <3>7, <3>8, DeviceDone
  <2>3. CASE status \notin {"pending", "throws"}
    <3> DEFINE over == [local EXCEPT !.loop[s] = "over"]
    <3>1. local' = clearPolling(over, f)
      BY <1>10, <2>3 DEF PollAnswers, Do
    <3>2. /\ over \in DeviceState /\ over.of = local.of /\ over.form = local.form /\ over.mounted = local.mounted
          /\ over.ref = local.ref /\ over.deviceCode = local.deviceCode /\ over.polling = local.polling
          /\ over.loop[s] = "over" /\ \A t \in Sessions : t # s => over.loop[t] = local.loop[t]
      BY <2>1 DEF DeviceState
    <3>3. Linked(over)
      BY <2>1, <3>2 DEF Linked
    <3>5. local.deviceCode \in Sessions \cup {None}
      BY DEF DeviceState
    <3>6. over.form # f => Backed(over)
      BY <2>1, <3>2, <3>5 DEF Linked, Backed
    <3> HIDE DEF over
    <3>4. local' \in DeviceState /\ Linked(local') /\ Backed(local') /\ local'.of = local.of
      BY <2>1, <3>1, <3>2, <3>3, <3>6, clearPollingKeeps
    <3> QED BY <2>1, <3>4, DeviceDone
  <2> QED BY <2>2, <2>3
<1> QED BY Zenon, <1>1, <1>2, <1>3, <1>4, <1>5, <1>6, <1>7, <1>8, <1>9, <1>10 DEF DeviceNext

-----------------------------------------------------------------------------
(* Logins in the browser. *)

BrowserState == [flow : {OpenAIForm, XaiForm, SocialPanel}, form : 1..Forms, mounted : BOOLEAN, starting : BOOLEAN,
                 session : Sessions \cup {None}, callback : BOOLEAN, tried : BOOLEAN, pollTimedOut : BOOLEAN,
                 ref : [1..Forms -> Sessions \cup {None}], of : [Sessions -> 0..Forms], late : SUBSET Sessions]

\* The panel waits for the session that its own form's interval asks about;
\* a form that is gone has no session.
AsksItself(l) ==
    /\ l.mounted /\ l.flow.polls /\ l.session # None /\ ~l.pollTimedOut /\ ~l.tried => l.ref[l.form] = l.session
    /\ ~l.mounted => l.session = None

BrowserInv ==
    /\ local \in BrowserState /\ AsksItself(local)
    /\ \A n \in DOMAIN calls : calls[n].op = "start" => calls[n].arg \in 1..Forms

LEMMA BrowserStarts == BrowserInit => BrowserInv
BY NoCallsEmpty, SessionsAssumption DEF BrowserInit, BrowserInv, BrowserState, AsksItself

\* The session of any form is cleared.
LEMMA clearSessionKeeps ==
    ASSUME NEW l \in BrowserState, AsksItself(l), NEW f, NEW c, c = clearSession(l, f)
    PROVE  /\ c \in BrowserState /\ AsksItself(c) /\ c.form = l.form /\ c.mounted = l.mounted
           /\ f = l.form => c.session = None
<1> DEFINE r == [l.ref EXCEPT ![f] = None]
           d == [l EXCEPT !.ref = r]
<1>1. r \in [1..Forms -> Sessions \cup {None}] /\ \A g \in 1..Forms : g # f => r[g] = l.ref[g]
  BY DEF BrowserState
<1>2. c = OnScreen(d, f, [d EXCEPT !.session = None, !.callback = FALSE, !.tried = FALSE, !.pollTimedOut = FALSE])
  BY DEF clearSession, BrowserState
<1> HIDE DEF r
<1>3. /\ d \in BrowserState /\ d.ref = r /\ d.form = l.form /\ d.mounted = l.mounted /\ d.session = l.session
      /\ d.flow = l.flow /\ d.pollTimedOut = l.pollTimedOut /\ d.tried = l.tried
  BY <1>1 DEF BrowserState
<1> HIDE DEF d
<1>4. CASE f = l.form /\ l.mounted
  <2>1. c = [d EXCEPT !.session = None, !.callback = FALSE, !.tried = FALSE, !.pollTimedOut = FALSE]
    BY <1>2, <1>3, <1>4 DEF OnScreen
  <2> QED BY <1>3, <1>4, <2>1 DEF BrowserState, AsksItself
<1>5. CASE ~(f = l.form /\ l.mounted)
  <2>1. c = d
    BY <1>2, <1>3, <1>5 DEF OnScreen
  <2>2. l.form \in 1..Forms
    BY DEF BrowserState
  <2> QED BY <1>1, <1>3, <1>5, <2>1, <2>2 DEF AsksItself
<1> QED BY <1>4, <1>5

\* A step that asks for no new session.
LEMMA BrowserDone ==
    ASSUME BrowserInv, local' \in BrowserState, AsksItself(local'),
           \/ calls' = calls
           \/ \E n : calls' = Minus(calls, n)
           \/ \E op, arg : calls' = Plus(calls, Call(op, arg)) /\ (op = "start" => arg \in 1..Forms)
    PROVE  BrowserInv'
<1>1. CASE calls' = calls \/ \E n : calls' = Minus(calls, n)
  BY <1>1, MinusCalls DEF BrowserInv
<1>2. CASE \E op, arg : calls' = Plus(calls, Call(op, arg)) /\ (op = "start" => arg \in 1..Forms)
  <2>1. PICK op, arg : calls' = Plus(calls, Call(op, arg)) /\ (op = "start" => arg \in 1..Forms)
    BY <1>2
  <2>2. \A n \in DOMAIN calls' : calls'[n] = Call(op, arg) \/ (n \in DOMAIN calls /\ calls'[n] = calls[n])
    BY <2>1, PlusCalls
  <2> QED BY <2>1, <2>2, CallSent DEF BrowserInv
<1> QED BY <1>1, <1>2

LEMMA BrowserSteps == ASSUME BrowserInv, BrowserNext PROVE BrowserInv'
<1>0. local \in BrowserState /\ AsksItself(local) /\ local.form \in 1..Forms
  BY DEF BrowserInv, BrowserState
<1>1. CASE BrowserStart
  <2>1. /\ local' = [local EXCEPT !.starting = TRUE, !.pollTimedOut = FALSE] /\ local.session = None
        /\ calls' = Plus(calls, Call("start", local.form))
    BY <1>1 DEF BrowserStart, Do
  <2>2. local' \in BrowserState /\ AsksItself(local')
    BY <1>0, <2>1 DEF BrowserState, AsksItself
  <2> QED BY <1>0, <2>1, <2>2, BrowserDone
<1>2. CASE PasteCallback
  <2>1. local' = [local EXCEPT !.callback = TRUE] /\ calls' = calls
    BY <1>2 DEF PasteCallback, Do
  <2>2. local' \in BrowserState /\ AsksItself(local')
    BY <1>0, <2>1 DEF BrowserState, AsksItself
  <2> QED BY <2>1, <2>2, BrowserDone
<1>3. CASE submitCallback
  <2> DEFINE r == [local.ref EXCEPT ![local.form] = None]
  <2>1. local' = [local EXCEPT !.starting = TRUE, !.tried = TRUE, !.ref = r] /\ calls' = Plus(calls, Call("exchange", local.form))
    BY <1>0, <1>3 DEF submitCallback, Do, BrowserState
  <2>2. r \in [1..Forms -> Sessions \cup {None}]
    BY <1>0 DEF BrowserState
  <2> HIDE DEF r
  <2>3. local' \in BrowserState /\ AsksItself(local')
    BY <1>0, <2>1, <2>2 DEF BrowserState, AsksItself
  <2> QED BY <2>1, <2>3, BrowserDone
<1>4. CASE BrowserCancel
  <2>1. local' = clearSession(local, local.form) /\ calls' = calls
    BY <1>4 DEF BrowserCancel, Do
  <2> QED BY <1>0, <2>1, clearSessionKeeps, BrowserDone
<1>5. CASE BrowserUnmounts
  <2> DEFINE c == clearSession(local, local.form)
  <2>1. local' = [c EXCEPT !.mounted = FALSE, !.starting = FALSE] /\ calls' = calls
    BY <1>5 DEF BrowserUnmounts, Do
  <2>2. c \in BrowserState /\ c.session = None
    BY <1>0, clearSessionKeeps
  <2> HIDE DEF c
  <2>3. local' \in BrowserState /\ AsksItself(local')
    BY <2>1, <2>2 DEF BrowserState, AsksItself
  <2> QED BY <2>1, <2>3, BrowserDone
<1>6. CASE BrowserMounts
  <2>1. ~local.mounted /\ local.form < Forms /\ local' = [local EXCEPT !.mounted = TRUE, !.form = local.form + 1] /\ calls' = calls
    BY <1>6 DEF BrowserMounts, Do
  <2>2. local.form + 1 \in 1..Forms
    BY <1>0, <2>1, SessionsAssumption
  <2>3. local' \in BrowserState /\ AsksItself(local')
    BY <1>0, <2>1, <2>2 DEF BrowserState, AsksItself
  <2> QED BY <2>1, <2>3, BrowserDone
<1>7. ASSUME NEW f \in 1..Forms, IntervalTicks(f) PROVE BrowserInv'
  <2>1. CASE local.ref[f] \in local.late
    <3> DEFINE r == [local.ref EXCEPT ![f] = None]
               d == [local EXCEPT !.ref = r]
    <3>1. local' = OnScreen(d, f, [d EXCEPT !.pollTimedOut = TRUE]) /\ calls' = calls
      BY <1>0, <1>7, <2>1 DEF IntervalTicks, Do, BrowserState
    <3>2. r \in [1..Forms -> Sessions \cup {None}] /\ \A g \in 1..Forms : g # f => r[g] = local.ref[g]
      BY <1>0 DEF BrowserState
    <3> HIDE DEF r
    <3>3. /\ d \in BrowserState /\ d.ref = r /\ d.form = local.form /\ d.mounted = local.mounted /\ d.session = local.session
          /\ d.flow = local.flow /\ d.pollTimedOut = local.pollTimedOut /\ d.tried = local.tried
      BY <1>0, <3>2 DEF BrowserState
    <3> HIDE DEF d
    <3>4. CASE f = local.form /\ local.mounted
      <4>1. local' = [d EXCEPT !.pollTimedOut = TRUE]
        BY <3>1, <3>3, <3>4 DEF OnScreen
      <4>2. local' \in BrowserState /\ AsksItself(local')
        BY <3>3, <3>4, <4>1 DEF BrowserState, AsksItself
      <4> QED BY <3>1, <4>2, BrowserDone
    <3>5. CASE ~(f = local.form /\ local.mounted)
      <4>1. local' = d
        BY <3>1, <3>3, <3>5 DEF OnScreen
      <4>2. AsksItself(d)
        BY <1>0, <3>2, <3>3, <3>5 DEF AsksItself
      <4> QED BY <3>1, <3>3, <4>1, <4>2, BrowserDone
    <3> QED BY <3>4, <3>5
  <2>2. CASE local.ref[f] \notin local.late
    <3>1. local' = local /\ calls' = Plus(calls, Call("poll", local.ref[f]))
      BY <1>7, <2>2 DEF IntervalTicks, Do
    <3> QED BY <1>0, <3>1, BrowserDone
  <2> QED BY <2>1, <2>2
<1>8. ASSUME NEW s \in Sessions, BrowserDeadline(s) PROVE BrowserInv'
  <2>1. local' = [local EXCEPT !.late = local.late \cup {s}] /\ calls' = calls
    BY <1>8 DEF BrowserDeadline, Do
  <2>2. local' \in BrowserState /\ AsksItself(local')
    BY <1>0, <2>1 DEF BrowserState, AsksItself
  <2> QED BY <2>1, <2>2, BrowserDone
<1>9. ASSUME NEW n \in DOMAIN calls, BrowserSession(n) PROVE BrowserInv'
  <2> DEFINE f == calls[n].arg
             s == db + 1
             p == IF local.flow.polls THEN [local EXCEPT !.ref[f] = s, !.of[s] = f] ELSE local
  <2>1. f \in 1..Forms /\ s \in Sessions /\ calls' = Minus(calls, n)
    BY <1>9 DEF BrowserSession, BrowserInv
  <2>2. local' = OnScreen(p, f, [p EXCEPT !.session = s, !.starting = FALSE])
    BY <1>9 DEF BrowserSession
  <2>3. /\ p \in BrowserState /\ p.form = local.form /\ p.mounted = local.mounted /\ p.session = local.session
        /\ p.flow = local.flow /\ p.pollTimedOut = local.pollTimedOut /\ p.tried = local.tried
        /\ (p.flow.polls => p.ref[f] = s) /\ \A g \in 1..Forms : g # f => p.ref[g] = local.ref[g]
    <3>1. CASE local.flow.polls
      <4> DEFINE r == [local.ref EXCEPT ![f] = s]
                 o == [local.of EXCEPT ![s] = f]
      <4>1. p = [local EXCEPT !.ref = r, !.of = o]
        BY <1>0, <3>1 DEF BrowserState
      <4>2. /\ r \in [1..Forms -> Sessions \cup {None}] /\ r[f] = s /\ \A g \in 1..Forms : g # f => r[g] = local.ref[g]
            /\ o \in [Sessions -> 0..Forms]
        BY <1>0, <2>1, SessionsAssumption DEF BrowserState
      <4> HIDE DEF r, o
      <4> QED BY <1>0, <4>1, <4>2 DEF BrowserState
    <3>2. CASE ~local.flow.polls
      BY <1>0, <3>2
    <3> QED BY <3>1, <3>2
  <2> HIDE DEF p
  <2>4. CASE f = local.form /\ local.mounted
    <3>1. local' = [p EXCEPT !.session = s, !.starting = FALSE]
      BY <2>2, <2>3, <2>4 DEF OnScreen
    <3>2. local' \in BrowserState /\ AsksItself(local')
      BY <2>1, <2>3, <2>4, <3>1 DEF BrowserState, AsksItself
    <3> QED BY <2>1, <3>2, BrowserDone
  <2>5. CASE ~(f = local.form /\ local.mounted)
    <3>1. local' = p
      BY <2>2, <2>3, <2>5 DEF OnScreen
    <3>2. AsksItself(p)
      BY <1>0, <2>3, <2>5 DEF AsksItself
    <3> QED BY <2>1, <2>3, <3>1, <3>2, BrowserDone
  <2> QED BY <2>4, <2>5
<1>10. ASSUME NEW n \in DOMAIN calls, BrowserStartFails(n) PROVE BrowserInv'
  <2>1. (local' = local \/ local' = [local EXCEPT !.starting = FALSE]) /\ calls' = Minus(calls, n)
    BY <1>10 DEF BrowserStartFails, Do, OnScreen
  <2>2. local' \in BrowserState /\ AsksItself(local')
    BY <1>0, <2>1 DEF BrowserState, AsksItself
  <2> QED BY <2>1, <2>2, BrowserDone
<1>11. ASSUME NEW n \in DOMAIN calls, NEW status \in PollStatus, CallbackAnswers(n, status) PROVE BrowserInv'
  <2> DEFINE f == calls[n].arg
             d == IF local.flow.polls /\ status # "throws" THEN clearSession(local, f) ELSE local
  <2>1. local' = OnScreen(d, f, [d EXCEPT !.starting = FALSE]) /\ calls' = Minus(calls, n)
    BY <1>11 DEF CallbackAnswers, Do
  <2>2. d \in BrowserState /\ AsksItself(d)
    BY <1>0, clearSessionKeeps
  <2> HIDE DEF d
  <2>3. local' = d \/ local' = [d EXCEPT !.starting = FALSE]
    BY <2>1 DEF OnScreen
  <2>4. local' \in BrowserState /\ AsksItself(local')
    BY <2>2, <2>3 DEF BrowserState, AsksItself
  <2> QED BY <2>1, <2>4, BrowserDone
<1>12. ASSUME NEW n \in DOMAIN calls, NEW status \in PollStatus, IntervalAnswers(n, status) PROVE BrowserInv'
  <2>1. (local' = local \/ local' = clearSession(local, local.of[calls[n].arg])) /\ calls' = Minus(calls, n)
    BY <1>12 DEF IntervalAnswers, Do
  <2>2. local' \in BrowserState /\ AsksItself(local')
    BY <1>0, <2>1, clearSessionKeeps
  <2> QED BY <2>1, <2>2, BrowserDone
<1> QED BY Zenon, <1>1, <1>2, <1>3, <1>4, <1>5, <1>6, <1>7, <1>8, <1>9, <1>10, <1>11, <1>12 DEF BrowserNext

-----------------------------------------------------------------------------
(* The bulk job. *)

Jobs == [job : Nat, running : BOOLEAN, done : Nat]

BulkState == [form : 1..Forms, mounted : BOOLEAN, starting : BOOLEAN, status : Jobs \cup {None},
              ref : [1..Forms -> BOOLEAN], seen : [1..Forms -> Nat]]

\* A job runs once: while no other was begun, a status that says it is over is
\* right for ever.
NotAheadOf(x, d) ==
    /\ x \in Jobs /\ (x.running => x.job # 0)
    /\ x.job <= d.job
    /\ x.job # 0 /\ ~x.running /\ d.job <= 1 => ~d.running

\* What the requests under way know of the job.
BulkCall(c, d) ==
    /\ c.op \in {"adopt", "start", "poll", "stop"}
    /\ c.op \in {"poll", "stop"} => d.job # 0
    /\ c.at = "served" => NotAheadOf(c.got, d)
    /\ c.at = "served" /\ c.op # "adopt" => c.got.job # 0
    /\ c.at = "failed" => c.op = "start"

BulkScreen(l, d) ==
    /\ l \in BulkState
    /\ \A g \in 1..Forms : l.ref[g] => g <= l.form /\ d.job # 0
    /\ l.status # None => NotAheadOf(l.status, d) /\ l.status.job # 0
    /\ ~l.mounted => l.status = None
    /\ d.job <= 1 /\ l.mounted /\ l.status # None /\ d.running => l.ref[l.form]

BulkInv ==
    /\ db \in Jobs /\ (db.running => db.job # 0)
    /\ AreCalls
    /\ \A n \in DOMAIN calls : BulkCall(calls[n], db) /\ calls[n].arg \in 1..local.form
    /\ BulkScreen(local, db)
    /\ \A n \in DOMAIN calls :
          calls[n].op \in {"poll", "stop"} /\ calls[n].arg = local.form /\ local.mounted /\ db.running /\ db.job <= 1 =>
              local.ref[local.form]

LEMMA BulkCallSent ==
    ASSUME NEW op \in {"adopt", "start", "poll", "stop"}, NEW arg, NEW d, op \in {"poll", "stop"} => d.job # 0
    PROVE  BulkCall(Call(op, arg), d)
BY CallSent DEF BulkCall

LEMMA FormsNumbered == 1 \in 1..Forms /\ \A f \in 1..Forms : f \in Nat /\ f \in 1..f /\ 1..f \subseteq 1..Forms
BY SessionsAssumption

LEMMA JobsBegin ==
    /\ NoJob \in Jobs /\ ~NoJob.running /\ NoJob.job = 0
    /\ \A k \in Nat : NewJob(k) \in Jobs /\ NewJob(k).running /\ NewJob(k).job = k
BY DEF NoJob, NewJob, Jobs

LEMMA JobMoves ==
    /\ \A j \in Jobs : j.done \in Nat /\ j.job \in Nat
    /\ \A j \in Jobs, k \in Nat : [j EXCEPT !.done = k] \in Jobs /\ [j EXCEPT !.done = k].job = j.job
                                                           /\ [j EXCEPT !.done = k].running = j.running
    /\ \A j \in Jobs : [j EXCEPT !.running = FALSE] \in Jobs /\ [j EXCEPT !.running = FALSE].job = j.job
                                                           /\ ~[j EXCEPT !.running = FALSE].running
<1>1. \A j \in Jobs : j.done \in Nat /\ j.job \in Nat
  BY DEF Jobs
<1>2. \A j \in Jobs, k \in Nat : [j EXCEPT !.done = k] \in Jobs /\ [j EXCEPT !.done = k].job = j.job
                                                           /\ [j EXCEPT !.done = k].running = j.running
  BY DEF Jobs
<1>3. \A j \in Jobs : [j EXCEPT !.running = FALSE] \in Jobs /\ [j EXCEPT !.running = FALSE].job = j.job
                                                           /\ ~[j EXCEPT !.running = FALSE].running
  BY DEF Jobs
<1> QED BY <1>1, <1>2, <1>3

LEMMA BulkStarts == BulkInit => BulkInv
<1> SUFFICES ASSUME BulkInit PROVE BulkInv
  OBVIOUS
<1>1. \A n \in DOMAIN calls : calls[n] = Call("adopt", 1)
  BY PlusCalls, NoCallsEmpty DEF BulkInit
<1>2. db \in Jobs /\ (db.running => db.job # 0)
  <2>1. db = NoJob \/ db = NewJob(1)
    BY DEF BulkInit
  <2> QED BY <2>1, JobsBegin
<1>3. BulkScreen(local, db)
  BY FormsNumbered DEF BulkInit, BulkScreen, BulkState
<1>4. \A n \in DOMAIN calls : IsCall(calls[n]) /\ BulkCall(calls[n], db) /\ calls[n].arg = 1 /\ calls[n].op = "adopt"
  BY <1>1, CallSent, BulkCallSent
<1>5. local.form = 1
  BY DEF BulkInit
<1> QED BY <1>2, <1>3, <1>4, <1>5, FormsNumbered DEF BulkInv, AreCalls

\* Steps of the form: it may answer a request, or send one.
LEMMA BulkDone ==
    ASSUME BulkInv, db' = db, BulkScreen(local', db), local'.form = local.form,
           local'.mounted => local.mounted,
           local'.mounted /\ db.running /\ db.job <= 1 /\ local.ref[local.form] => local'.ref[local.form],
           \/ calls' = calls
           \/ \E n : calls' = Minus(calls, n)
           \/ \E op \in {"adopt", "start", "poll", "stop"}, arg \in 1..local.form :
                 /\ calls' = Plus(calls, Call(op, arg))
                 /\ op \in {"poll", "stop"} => db.job # 0
                 /\ op \in {"poll", "stop"} /\ local'.mounted /\ db.running /\ db.job <= 1 /\ arg = local.form => local'.ref[arg]
    PROVE  BulkInv'
<1> USE DEF BulkInv, AreCalls
<1>1. CASE calls' = calls \/ \E n : calls' = Minus(calls, n)
  <2>1. \A n \in DOMAIN calls' : n \in DOMAIN calls /\ calls'[n] = calls[n]
    BY <1>1, MinusCalls
  <2> QED BY <2>1
<1>2. CASE \E op \in {"adopt", "start", "poll", "stop"}, arg \in 1..local.form :
                 /\ calls' = Plus(calls, Call(op, arg))
                 /\ op \in {"poll", "stop"} => db.job # 0
                 /\ op \in {"poll", "stop"} /\ local'.mounted /\ db.running /\ db.job <= 1 /\ arg = local.form => local'.ref[arg]
  <2>1. PICK op \in {"adopt", "start", "poll", "stop"}, arg \in 1..local.form :
                 /\ calls' = Plus(calls, Call(op, arg))
                 /\ op \in {"poll", "stop"} => db.job # 0
                 /\ op \in {"poll", "stop"} /\ local'.mounted /\ db.running /\ db.job <= 1 /\ arg = local.form => local'.ref[arg]
    BY <1>2
  <2> DEFINE c == Call(op, arg)
  <2>2. \A n \in DOMAIN calls' : calls'[n] = c \/ (n \in DOMAIN calls /\ calls'[n] = calls[n])
    BY <2>1, PlusCalls
  <2>3. IsCall(c) /\ c.op = op /\ c.arg = arg /\ BulkCall(c, db)
    BY <2>1, CallSent, BulkCallSent
  <2> HIDE DEF c
  <2> QED BY <2>1, <2>2, <2>3
<1> QED BY <1>1, <1>2

LEMMA BulkSteps == ASSUME BulkInv, BulkNext PROVE BulkInv'
<1>0. /\ BulkScreen(local, db) /\ local \in BulkState /\ local.form \in 1..Forms /\ db \in Jobs
      /\ \A n \in DOMAIN calls : calls[n].arg \in 1..local.form /\ calls[n].arg \in 1..Forms /\ BulkCall(calls[n], db)
  BY FormsNumbered DEF BulkInv, BulkScreen, BulkState
<1>1. CASE BulkStart
  <2>1. /\ local' = [local EXCEPT !.starting = TRUE] /\ db' = db
        /\ calls' = Plus(calls, Call("start", local.form))
    BY <1>1 DEF BulkStart, Do
  <2>2. BulkScreen(local', db) /\ local'.form = local.form /\ local'.mounted = local.mounted /\ local'.ref = local.ref
    BY <1>0, <2>1 DEF BulkScreen, BulkState
  <2>3. local.form \in 1..local.form
    BY <1>0, FormsNumbered
  <2> QED BY <2>1, <2>2, <2>3, BulkDone
<1>2. CASE BulkStop
  <2>1. /\ local' = local /\ db' = db /\ calls' = Plus(calls, Call("stop", local.form)) /\ local.status # None
        /\ local.mounted
    BY <1>2 DEF BulkStop, Do, RunProgress
  <2>2. db.job # 0 /\ (db.running /\ db.job <= 1 => local.ref[local.form])
    BY <1>0, <2>1, JobMoves DEF BulkScreen, NotAheadOf
  <2>3. local.form \in 1..local.form
    BY <1>0, FormsNumbered
  <2> QED BY <1>0, <2>1, <2>2, <2>3, BulkDone
<1>3. CASE BulkReset
  <2> DEFINE r == [local.ref EXCEPT ![local.form] = FALSE]
  <2>1. local' = [local EXCEPT !.ref = r, !.status = None] /\ db' = db /\ calls' = calls
    BY <1>0, <1>3 DEF BulkReset, Do, BulkState
  <2>2. local.mounted /\ local.status # None /\ ~local.status.running
    BY <1>3 DEF BulkReset, RunProgress
  <2>3. db.job <= 1 => ~db.running
    BY <1>0, <2>2 DEF BulkScreen, NotAheadOf
  <2>4. r \in [1..Forms -> BOOLEAN] /\ \A g \in 1..Forms : r[g] => local.ref[g]
    BY <1>0 DEF BulkState
  <2> HIDE DEF r
  <2>5. BulkScreen(local', db) /\ local'.form = local.form /\ local'.mounted = local.mounted
    BY <1>0, <2>1, <2>3, <2>4 DEF BulkScreen, BulkState
  <2> QED BY <2>1, <2>3, <2>5, BulkDone
<1>4. CASE BulkUnmounts
  <2> DEFINE r == [local.ref EXCEPT ![local.form] = FALSE]
  <2>1. local' = [local EXCEPT !.mounted = FALSE, !.ref = r, !.status = None, !.starting = FALSE] /\ db' = db /\ calls' = calls
    BY <1>0, <1>4 DEF BulkUnmounts, Do, BulkState
  <2>2. r \in [1..Forms -> BOOLEAN] /\ \A g \in 1..Forms : r[g] => local.ref[g]
    BY <1>0 DEF BulkState
  <2> HIDE DEF r
  <2>3. BulkScreen(local', db) /\ local'.form = local.form /\ ~local'.mounted
    BY <1>0, <2>1, <2>2 DEF BulkScreen, BulkState
  <2> QED BY <2>1, <2>3, BulkDone
<1>5. CASE BulkMounts
  <2> DEFINE f == local.form + 1
             c == Call("adopt", f)
  <2>1. /\ ~local.mounted /\ local.form < Forms /\ db' = db
        /\ local' = [local EXCEPT !.mounted = TRUE, !.form = f] /\ calls' = Plus(calls, c)
    BY <1>5 DEF BulkMounts, Do
  <2>2. f \in 1..Forms /\ f \in 1..f /\ f \notin 1..local.form /\ 1..local.form \subseteq 1..f /\ \A g \in 1..Forms : g <= local.form => g <= f
    BY <1>0, <2>1, SessionsAssumption
  <2>3. \A n \in DOMAIN calls' : calls'[n] = c \/ (n \in DOMAIN calls /\ calls'[n] = calls[n])
    BY <2>1, PlusCalls
  <2>4. IsCall(c) /\ c.op = "adopt" /\ c.arg = f /\ BulkCall(c, db)
    BY CallSent, BulkCallSent
  <2> HIDE DEF f, c
  <2>5. BulkScreen(local', db) /\ local'.form = f
    BY <1>0, <2>1, <2>2 DEF BulkScreen, BulkState
  <2> QED BY <1>0, <2>1, <2>2, <2>3, <2>4, <2>5 DEF BulkInv, AreCalls
<1>6. CASE BulkAdvances
  <2>0. /\ db.running /\ local' = local /\ calls' = calls /\ db.job # 0
        /\ db' = [db EXCEPT !.done = db.done + 1] \/ db' = [db EXCEPT !.running = FALSE]
    BY <1>6 DEF BulkAdvances, BulkInv
  <2> DEFINE k == db.done + 1
  <2>01. k \in Nat
    BY <1>0, JobMoves
  <2>02. db' = [db EXCEPT !.done = k] \/ db' = [db EXCEPT !.running = FALSE]
    BY <2>0
  <2> HIDE DEF k
  <2>1. /\ db.running /\ local' = local /\ calls' = calls
        /\ db' \in Jobs /\ db'.job = db.job /\ db.job # 0
    <3>1. CASE db' = [db EXCEPT !.done = k]
      BY <1>0, <2>0, <2>01, <3>1, JobMoves
    <3>2. CASE db' = [db EXCEPT !.running = FALSE]
      BY <1>0, <2>0, <3>2, JobMoves
    <3> QED BY <2>02, <3>1, <3>2
  <2>2. \A x : NotAheadOf(x, db) => NotAheadOf(x, db')
    BY <2>1 DEF NotAheadOf
  <2>3. BulkScreen(local', db')
    BY <1>0, <2>1, <2>2 DEF BulkScreen
  <2>4. \A n \in DOMAIN calls : BulkCall(calls[n], db')
    BY <1>0, <2>1, <2>2 DEF BulkCall
  <2> QED BY <1>0, <2>1, <2>3, <2>4 DEF BulkInv, AreCalls
<1>7. ASSUME NEW f \in 1..Forms, BulkTick(f) PROVE BulkInv'
  <2>1. local.ref[f] /\ local' = local /\ db' = db /\ calls' = Plus(calls, Call("poll", f))
    BY <1>7 DEF BulkTick, Do
  <2>2. f \in 1..local.form /\ db.job # 0
    BY <1>0, <2>1, SessionsAssumption DEF BulkScreen
  <2> QED BY <1>0, <2>1, <2>2, BulkDone
<1>8. ASSUME NEW n \in DOMAIN calls, BulkAdopts(n) PROVE BulkInv'
  <2> DEFINE f == calls[n].arg
             s == calls[n].got
             r == [local.ref EXCEPT ![f] = TRUE]
             e == [local.seen EXCEPT ![f] = s.done]
             p == [local EXCEPT !.ref = r, !.seen = e]
  <2>1. /\ calls' = Minus(calls, n) /\ db' = db
        /\ \/ local' = local
           \/ /\ calls[n].at = "served" /\ calls[n].op = "adopt" /\ s.running
              /\ local' = OnScreen(p, f, [p EXCEPT !.status = s])
    BY <1>0, <1>8 DEF BulkAdopts, Do, Settled, Served, Failed, BulkState
  <2>2. CASE local' = local
    BY <1>0, <2>1, <2>2, BulkDone
  <2>3. CASE local' # local
    <3>1. NotAheadOf(s, db) /\ s.job # 0 /\ s \in Jobs /\ db.job # 0
      BY <1>0, <2>1, <2>3, JobMoves DEF BulkCall, NotAheadOf
    <3>2. /\ r \in [1..Forms -> BOOLEAN] /\ e \in [1..Forms -> Nat]
          /\ r[f] /\ \A g \in 1..Forms : (r[g] => local.ref[g] \/ g = f) /\ (local.ref[g] => r[g])
      BY <1>0, <3>1 DEF BulkState, Jobs
    <3> HIDE DEF r, e
    <3>3. p \in BulkState /\ p.ref = r /\ p.form = local.form /\ p.mounted = local.mounted /\ p.status = local.status
      BY <1>0, <3>2 DEF BulkState
    <3>4. f <= local.form
      BY <1>0, SessionsAssumption
    <3> HIDE DEF p, f
    <3>5. BulkScreen(p, db)
      BY <1>0, <3>1, <3>2, <3>3, <3>4 DEF BulkScreen
    <3>6. local' = p \/ (f = p.form /\ p.mounted /\ local' = [p EXCEPT !.status = s])
      BY <2>1, <2>3 DEF OnScreen
    <3>7. BulkScreen(local', db) /\ local'.form = p.form /\ local'.mounted = p.mounted /\ local'.ref = p.ref
      BY <3>1, <3>2, <3>3, <3>5, <3>6 DEF BulkScreen, BulkState
    <3> QED BY <1>0, <2>1, <3>2, <3>3, <3>7, BulkDone
  <2> QED BY <2>2, <2>3
<1>9. ASSUME NEW n \in DOMAIN calls, BulkStarted(n) PROVE BulkInv'
  <2> DEFINE f == calls[n].arg
             s == calls[n].got
             r == [local.ref EXCEPT ![f] = TRUE]
             e == [local.seen EXCEPT ![f] = 0]
             p == [local EXCEPT !.ref = r, !.seen = e]
  <2>1. /\ calls' = Minus(calls, n) /\ db' = db
        /\ \/ local' = local \/ local' = [local EXCEPT !.starting = FALSE]
           \/ /\ calls[n].at = "served" /\ calls[n].op = "start"
              /\ local' = OnScreen(p, f, [p EXCEPT !.starting = FALSE, !.status = s])
    BY <1>0, <1>9 DEF BulkStarted, Do, Settled, Served, Failed, BulkState, OnScreen
  <2>2. CASE local' = local \/ local' = [local EXCEPT !.starting = FALSE]
    <3>1. BulkScreen(local', db) /\ local'.form = local.form /\ local'.mounted = local.mounted /\ local'.ref = local.ref
      BY <1>0, <2>2 DEF BulkScreen, BulkState
    <3> QED BY <2>1, <3>1, BulkDone
  <2>3. CASE ~(local' = local \/ local' = [local EXCEPT !.starting = FALSE])
    <3>1. NotAheadOf(s, db) /\ s.job # 0 /\ s \in Jobs /\ db.job # 0
      BY <1>0, <2>1, <2>3, JobMoves DEF BulkCall, NotAheadOf
    <3>2. /\ r \in [1..Forms -> BOOLEAN] /\ e \in [1..Forms -> Nat]
          /\ r[f] /\ \A g \in 1..Forms : (r[g] => local.ref[g] \/ g = f) /\ (local.ref[g] => r[g])
      BY <1>0 DEF BulkState
    <3> HIDE DEF r, e
    <3>3. p \in BulkState /\ p.ref = r /\ p.form = local.form /\ p.mounted = local.mounted /\ p.status = local.status
      BY <1>0, <3>2 DEF BulkState
    <3>4. f <= local.form
      BY <1>0, SessionsAssumption
    <3> HIDE DEF p, f
    <3>5. BulkScreen(p, db)
      BY <1>0, <3>1, <3>2, <3>3, <3>4 DEF BulkScreen
    <3>6. local' = p \/ (f = p.form /\ p.mounted /\ local' = [p EXCEPT !.starting = FALSE, !.status = s])
      BY <2>1, <2>3 DEF OnScreen
    <3>7. BulkScreen(local', db) /\ local'.form = p.form /\ local'.mounted = p.mounted /\ local'.ref = p.ref
      BY <3>1, <3>2, <3>3, <3>5, <3>6 DEF BulkScreen, BulkState
    <3> QED BY <1>0, <2>1, <3>2, <3>3, <3>7, BulkDone
  <2> QED BY <2>2, <2>3
<1>10. ASSUME NEW n \in DOMAIN calls, BulkPolled(n) PROVE BulkInv'
  <2> DEFINE f == calls[n].arg
             s == calls[n].got
             r == [local.ref EXCEPT ![f] = local.ref[f] /\ s.running]
             e == [local.seen EXCEPT ![f] = IF s.done > local.seen[f] THEN s.done ELSE local.seen[f]]
             p == [local EXCEPT !.seen = e, !.ref = r]
  <2>1. /\ calls' = Minus(calls, n) /\ db' = db
        /\ \/ local' = local
           \/ /\ calls[n].at = "served" /\ calls[n].op = "poll"
              /\ local' = OnScreen(p, f, [p EXCEPT !.status = s])
    BY <1>0, <1>10 DEF BulkPolled, Do, Settled, Served, Failed, BulkState
  <2>2. CASE local' = local
    BY <1>0, <2>1, <2>2, BulkDone
  <2>3. CASE local' # local
    <3>1. NotAheadOf(s, db) /\ s.job # 0 /\ s \in Jobs /\ db.job # 0 /\ calls[n].op = "poll"
      BY <1>0, <2>1, <2>3, JobMoves DEF BulkCall, NotAheadOf
    <3>2. /\ r \in [1..Forms -> BOOLEAN] /\ e \in [1..Forms -> Nat]
          /\ \A g \in 1..Forms : (r[g] => local.ref[g]) /\ (local.ref[g] /\ g # f => r[g])
          /\ local.ref[f] /\ s.running => r[f]
      BY <1>0, <3>1 DEF BulkState, Jobs
    <3> HIDE DEF r, e
    <3>3. p \in BulkState /\ p.ref = r /\ p.form = local.form /\ p.mounted = local.mounted /\ p.status = local.status
      BY <1>0, <3>2 DEF BulkState
    <3>4. db.running /\ db.job <= 1 => s.running
      BY <3>1 DEF NotAheadOf
    <3>5. local.mounted /\ db.running /\ db.job <= 1 /\ f = local.form => local.ref[f]
      BY <3>1 DEF BulkInv
    <3> HIDE DEF p, f, s
    <3>6. BulkScreen(p, db)
      BY <1>0, <3>1, <3>2, <3>3, <3>4, <3>5 DEF BulkScreen
    <3>7. local' = p \/ (f = p.form /\ p.mounted /\ local' = [p EXCEPT !.status = s])
      BY <2>1, <2>3 DEF OnScreen
    <3>8. /\ local' \in BulkState /\ local'.form = p.form /\ local'.mounted = p.mounted /\ local'.ref = p.ref
          /\ local'.status = p.status \/ (f = p.form /\ p.mounted /\ local'.status = s)
      BY <3>1, <3>3, <3>7 DEF BulkState
    <3>9. db.running /\ db.job <= 1 /\ local.mounted /\ f = local.form => r[f]
      BY <3>2, <3>4, <3>5
    <3>10. BulkScreen(local', db)
      BY <3>1, <3>3, <3>6, <3>8, <3>9 DEF BulkScreen
    <3>11. local.mounted /\ db.running /\ db.job <= 1 /\ local.ref[local.form] => local'.ref[local.form]
      BY <1>0, <3>2, <3>3, <3>4, <3>8
    <3> QED BY <2>1, <3>3, <3>8, <3>10, <3>11, BulkDone
  <2> QED BY <2>2, <2>3
<1>11. ASSUME NEW n \in DOMAIN calls, BulkStopped(n) PROVE BulkInv'
  <2> DEFINE s == calls[n].got
  <2>1. /\ calls' = Minus(calls, n) /\ db' = db
        /\ \/ local' = local
           \/ /\ calls[n].at = "served" /\ calls[n].op = "stop" /\ local.mounted /\ calls[n].arg = local.form
              /\ local' = [local EXCEPT !.status = s]
    BY <1>0, <1>11 DEF BulkStopped, Do, Settled, Served, Failed, OnScreen
  <2>2. CASE local' = local
    BY <1>0, <2>1, <2>2, BulkDone
  <2>3. CASE local' # local
    <3>1. /\ NotAheadOf(s, db) /\ s.job # 0 /\ s \in Jobs
          /\ db.running /\ db.job <= 1 => local.ref[local.form]
      BY <1>0, <2>1, <2>3 DEF BulkCall, NotAheadOf, BulkInv
    <3> HIDE DEF s
    <3>2. BulkScreen(local', db) /\ local'.form = local.form /\ local'.mounted = local.mounted /\ local'.ref = local.ref
      BY <1>0, <2>1, <2>3, <3>1 DEF BulkScreen, BulkState
    <3> QED BY <2>1, <3>1, <3>2, BulkDone
  <2> QED BY <2>2, <2>3
<1>12. ASSUME NEW n \in DOMAIN calls, BulkServe(n) PROVE BulkInv'
  <2>0. AreCalls /\ Sent(n) /\ calls[n].at = "sent" /\ (db.running => db.job # 0)
    BY <1>12 DEF BulkInv, BulkServe, Sent
  <2>1. CASE calls[n].op = "start"
    <3> DEFINE d == NewJob(db.job + 1)
    <3>0. ~db.running /\ Serve(n, d, d)
      BY <1>12, <2>1 DEF BulkServe
    <3>1. d \in Jobs /\ d.running /\ d.job = db.job + 1 /\ db.job \in Nat
      BY <1>0, JobsBegin, JobMoves
    <3> HIDE DEF d
    <3>2. \A x : NotAheadOf(x, db) => NotAheadOf(x, d)
      BY <3>1, JobMoves DEF NotAheadOf
    <3>a. NotAheadOf(d, d) /\ d.job # 0
      BY <3>1 DEF NotAheadOf
    <3>3. BulkScreen(local, d)
      BY <1>0, <3>0, <3>1, <3>2, JobMoves DEF BulkScreen, NotAheadOf
    <3>4. \A m \in DOMAIN calls : BulkCall(calls[m], d) /\ (d.job <= 1 => calls[m].op \notin {"poll", "stop"})
      BY <1>0, <3>1, <3>2 DEF BulkCall
    <3>5. /\ db' = d /\ local' = local /\ DOMAIN calls' = DOMAIN calls
          /\ \A m \in DOMAIN calls : SameCall(calls'[m], calls[m]) /\ (m # n => calls'[m] = calls[m])
          /\ calls'[n].at = "served" /\ calls'[n].got = d
      BY <2>0, <3>0, ServeCalls
    <3>6. \A m \in DOMAIN calls : BulkCall(calls'[m], d)
      <4> SUFFICES ASSUME NEW m \in DOMAIN calls PROVE BulkCall(calls'[m], d)
        OBVIOUS
      <4>1. CASE m # n
        BY <3>4, <3>5, <4>1
      <4>2. CASE m = n
        BY <2>1, <3>1, <3>4, <3>5, <3>a, <4>2 DEF BulkCall, SameCall
      <4> QED BY <4>1, <4>2
    <3> QED BY <1>0, <2>0, <3>1, <3>3, <3>4, <3>5, <3>6, <3>a DEF BulkInv, AreCalls, SameCall
  <2>2. CASE calls[n].op # "start"
    <3>1. Serve(n, db, db)
      BY <1>12, <2>2 DEF BulkServe
    <3>2. NotAheadOf(db, db)
      BY <1>0, <2>0, JobMoves DEF NotAheadOf
    <3>3. /\ db' = db /\ local' = local /\ DOMAIN calls' = DOMAIN calls
          /\ \A m \in DOMAIN calls : SameCall(calls'[m], calls[m]) /\ (m # n => calls'[m] = calls[m])
          /\ calls'[n].at = "served" /\ calls'[n].got = db
      BY <2>0, <3>1, ServeCalls
    <3>4. \A m \in DOMAIN calls : BulkCall(calls'[m], db)
      <4> SUFFICES ASSUME NEW m \in DOMAIN calls PROVE BulkCall(calls'[m], db)
        OBVIOUS
      <4>1. BulkCall(calls[m], db)
        BY <1>0
      <4>2. CASE m # n
        BY <3>3, <4>1, <4>2
      <4>3. CASE m = n
        <5>1. calls'[m].op = calls[m].op /\ calls'[m].at = "served" /\ calls'[m].got = db
          BY <3>3, <4>3 DEF SameCall
        <5> QED BY <2>2, <3>2, <4>1, <4>3, <5>1 DEF BulkCall
      <4> QED BY <4>2, <4>3
    <3> QED BY <1>0, <2>0, <3>3, <3>4 DEF BulkInv, AreCalls, SameCall
  <2> QED BY <2>1, <2>2
<1>13. ASSUME NEW n \in DOMAIN calls, BulkRefused(n) PROVE BulkInv'
  <2>1. AreCalls /\ Lose(n) /\ calls[n].op = "start"
    BY <1>13 DEF BulkRefused, BulkInv
  <2>2. /\ db' = db /\ local' = local /\ DOMAIN calls' = DOMAIN calls /\ calls'[n].at = "failed"
        /\ \A m \in DOMAIN calls : SameCall(calls'[m], calls[m]) /\ (m # n => calls'[m] = calls[m])
    BY <2>1, LoseCalls
  <2>3. BulkCall(calls'[n], db)
    BY <2>1, <2>2 DEF BulkCall, SameCall
  <2>4. \A m \in DOMAIN calls : BulkCall(calls'[m], db)
    BY <1>0, <2>2, <2>3
  <2> QED BY <2>2, <2>4 DEF BulkInv, AreCalls, SameCall
<1> QED BY Zenon, <1>1, <1>2, <1>3, <1>4, <1>5, <1>6, <1>7, <1>8, <1>9, <1>10, <1>11, <1>12, <1>13 DEF BulkNext

-----------------------------------------------------------------------------
\* A login panel that shows its spinner is backed by something that asks about
\* just what it shows: a loop for the device code on the screen; an interval for
\* the browser session, until a callback is submitted; an interval of the form
\* for the job, of the first one (startPolling, clearPolling, clearSession,
\* stopPolling).  The rest of it is not so: WaitingIsBacked, RunsArePolled.
THEOREM LoginsAreAnswered == Spec => []LoginsWait
<1> DEFINE I == /\ screen = "device" => DeviceInv
                /\ screen = "browser" => BrowserInv
                /\ screen = "bulk" => BulkInv
<1>1. Init => I
  BY DeviceStarts, BrowserStarts, BulkStarts DEF Init, ShellInit, DeviceInit, BrowserInit, BulkInit, AddInit,
     ConnectionsInit, CardsInit, RulesInit, AdminInit, ChatInit, PicturesInit, LogsInit, ConsoleInit, FeedInit,
     SettingsInit, ToolsInit, TunnelInit
<1>2. I /\ [Next]_uiVars => I'
  <2> SUFFICES ASSUME I, [Next]_uiVars PROVE I'
    OBVIOUS
  <2>1. screen' = screen
    BY OneScreen
  <2>2. ASSUME screen = "device" PROVE DeviceInv'
    <3>1. CASE DeviceNext
      BY <2>2, <3>1, DeviceSteps
    <3>2. CASE UNCHANGED uiVars
      BY <2>2, <3>2 DEF uiVars, DeviceInv, DeviceCalls
    <3> QED BY <2>2, <3>1, <3>2 DEF Next
  <2>3. ASSUME screen = "browser" PROVE BrowserInv'
    <3>1. CASE BrowserNext
      BY <2>3, <3>1, BrowserSteps
    <3>2. CASE UNCHANGED uiVars
      BY <2>3, <3>2 DEF uiVars, BrowserInv
    <3> QED BY <2>3, <3>1, <3>2 DEF Next
  <2>4. ASSUME screen = "bulk" PROVE BulkInv'
    <3>1. CASE BulkNext
      BY <2>4, <3>1, BulkSteps
    <3>2. CASE UNCHANGED uiVars
      BY <2>4, <3>2 DEF uiVars, BulkInv, AreCalls
    <3> QED BY <2>4, <3>1, <3>2 DEF Next
  <2> QED BY <2>1, <2>2, <2>3, <2>4
<1>3. I => LoginsWait
  <2>1. I => WaitingHasLoop
    BY DEF WaitingHasLoop, DeviceInv, Backed, Looping
  <2>2. I => BrowserWaits
    BY DEF BrowserWaits, AutoWaiting, BrowserPolls, BrowserInv, BrowserState, AsksItself
  <2>3. I => BulkWaits
    BY DEF BulkWaits, BulkInv, BulkScreen, Polled
  <2> QED BY <2>1, <2>2, <2>3 DEF LoginsWait
<1> QED BY <1>1, <1>2, <1>3, PTL DEF Spec

=============================================================================
