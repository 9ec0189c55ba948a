---------------------------- MODULE SettleProofs -----------------------------
(***************************************************************************)
(* What is left of a screen when its requests are answered: the settings,  *)
(* the tools, the tunnel, the quotas of the cards and the connections.     *)
(***************************************************************************)
EXTENDS ScreenProofs, FunctionTheorems

\* The names of requests are the slots; each request is a record.
Named(cs) == DOMAIN cs \subseteq 1..MaxCalls /\ \A n \in DOMAIN cs : IsCall(cs[n])

LEMMA NamedPlus ==
    ASSUME NEW cs, Named(cs), NEW op, NEW arg
    PROVE  LET c == Call(op, arg)
               ds == Plus(cs, c) IN
           /\ Named(ds)
           /\ c.op = op /\ c.arg = arg /\ c.at = "sent"
           /\ \A n \in DOMAIN ds : ds[n] = c \/ (n \in DOMAIN cs /\ ds[n] = cs[n])
           /\ \A m, n \in DOMAIN ds : m # n => (m \in DOMAIN cs /\ ds[m] = cs[m]) \/ (n \in DOMAIN cs /\ ds[n] = cs[n])
           /\ \A n \in DOMAIN cs : n \in DOMAIN ds /\ ds[n] = cs[n]
           /\ Free(cs) # {} => \E n \in DOMAIN ds : ds[n] = c
<1> DEFINE c == Call(op, arg)
           ds == Plus(cs, c)
<1>1. IsCall(c) /\ c.op = op /\ c.arg = arg /\ c.at = "sent"
  BY CallSent
<1> HIDE DEF c
<1>2. /\ \A n \in DOMAIN ds : ds[n] = c \/ (n \in DOMAIN cs /\ ds[n] = cs[n])
      /\ \A m, n \in DOMAIN ds : m # n => (m \in DOMAIN cs /\ ds[m] = cs[m]) \/ (n \in DOMAIN cs /\ ds[n] = cs[n])
  BY PlusCalls
<1>3. /\ \A n \in DOMAIN cs : n \in DOMAIN ds /\ ds[n] = cs[n]
      /\ DOMAIN cs \subseteq 1..MaxCalls => DOMAIN ds \subseteq 1..MaxCalls
      /\ Free(cs) # {} => \E n \in DOMAIN ds : ds[n] = c
  BY PlusKeeps
<1> HIDE DEF ds
<1>4. Named(ds)
  BY <1>1, <1>2, <1>3 DEF Named
<1> QED BY <1>1, <1>2, <1>3, <1>4 DEF ds, c

LEMMA NamedMinus ==
    ASSUME NEW cs, Named(cs), NEW n \in DOMAIN cs
    PROVE  LET ds == Minus(cs, n) IN
           Named(ds) /\ DOMAIN ds = DOMAIN cs \ {n} /\ (\A m \in DOMAIN ds : ds[m] = cs[m]) /\ Free(ds) # {}
<1> DEFINE ds == Minus(cs, n)
<1>1. DOMAIN ds = DOMAIN cs \ {n} /\ \A m \in DOMAIN ds : ds[m] = cs[m]
  BY DEF Minus
<1>2. Free(ds) # {}
  BY MinusIsFree DEF Named
<1> HIDE DEF ds
<1>3. Named(ds)
  BY <1>1 DEF Named
<1> QED BY <1>1, <1>2, <1>3 DEF ds

-----------------------------------------------------------------------------
(* The settings: one request at a time. *)

IsForm(f) ==
    /\ f = [strategy |-> f.strategy, own |-> f.own, compress |-> f.compress, min |-> f.min, models |-> f.models]
    /\ f.models = None \/ f.models # BuiltIn
IsSettings(l) ==
    /\ l = [left |-> l.left, settings |-> l.settings, saved |-> l.saved,
            loading |-> l.loading, saving |-> l.saving, told |-> l.told]
    /\ IsForm(l.settings) /\ IsForm(l.saved)

\* While the settings are read the form is as it was made, and nothing is
\* saved; what was told of is what the server holds.
SettingsCalls(loading, saving, cs) ==
    /\ Named(cs)
    /\ \A n \in DOMAIN cs : (cs[n].op = "settings" /\ loading) \/ (cs[n].op = "save" /\ IsForm(cs[n].arg))
    /\ saving <=> \E n \in DOMAIN cs : cs[n].op = "save"
    /\ \A m, n \in DOMAIN cs : m = n
SettingsOk(l, cs, d) ==
    /\ IsSettings(l) /\ IsForm(d)
    /\ SettingsCalls(l.loading, l.saving, cs)
    /\ l.loading => l.settings = l.saved /\ ~l.saving
    /\ l.told => l.saved = d

LEMMA FormsEdited ==
    ASSUME NEW f, IsForm(f), NEW g \in updateField(f)
    PROVE  IsForm(g)
<1>0. f = [strategy |-> f.strategy, own |-> f.own, compress |-> f.compress, min |-> f.min, models |-> f.models]
      /\ (f.models = None \/ f.models # BuiltIn)
  BY Zenon DEF IsForm
<1> DEFINE F(s, o, c, k, m) == [strategy |-> s, own |-> o, compress |-> c, min |-> k, models |-> m]
<1>1. \A s, o, c, k, m : m = None \/ m # BuiltIn => IsForm(F(s, o, c, k, m))
  BY DEF IsForm
<1> DEFINE A1 == \E s : g = [f EXCEPT !.strategy = s]
           A2 == \E o : g = [f EXCEPT !.own = o]
           A3 == \E c : g = [f EXCEPT !.compress = c]
           A4 == \E k : g = [f EXCEPT !.min = k]
           A5 == \E m : (m = None \/ m # BuiltIn) /\ g = [f EXCEPT !.models = m]
<1>2. A1 \/ A2 \/ A3 \/ A4 \/ A5
  <2>1. \A l : handleModelsChange(l) = None \/ handleModelsChange(l) # BuiltIn
    BY DEF handleModelsChange
  <2>2. CASE g \in SelectStrategy(f) \cup SelectOverride(f)
    BY <2>2 DEF SelectStrategy, SelectOverride
  <2>3. CASE g \in EditCompression(f)
    <3> DEFINE c == ~f.compress
    <3>1. g = [f EXCEPT !.compress = c] \/ \E k : g = [f EXCEPT !.min = k]
      BY <2>3 DEF EditCompression
    <3> HIDE DEF c
    <3> QED BY <3>1
  <2>4. CASE g \in EditModels(f)
    BY <2>1, <2>4 DEF EditModels
  <2> QED BY <2>2, <2>3, <2>4 DEF updateField
<1>3. CASE A1
  <2>1. PICK s : g = [f EXCEPT !.strategy = s]
    BY <1>3
  <2>2. g = F(s, f.own, f.compress, f.min, f.models)
    BY <1>0, <2>1
  <2> QED BY Zenon, <1>0, <1>1, <2>2
<1>4. CASE A2
  <2>1. PICK o : g = [f EXCEPT !.own = o]
    BY <1>4
  <2>2. g = F(f.strategy, o, f.compress, f.min, f.models)
    BY <1>0, <2>1
  <2> QED BY Zenon, <1>0, <1>1, <2>2
<1>5. CASE A3
  <2>1. PICK c : g = [f EXCEPT !.compress = c]
    BY <1>5
  <2>2. g = F(f.strategy, f.own, c, f.min, f.models)
    BY <1>0, <2>1
  <2> QED BY Zenon, <1>0, <1>1, <2>2
<1>6. CASE A4
  <2>1. PICK k : g = [f EXCEPT !.min = k]
    BY <1>6
  <2>2. g = F(f.strategy, f.own, f.compress, k, f.models)
    BY <1>0, <2>1
  <2> QED BY Zenon, <1>0, <1>1, <2>2
<1>7. CASE A5
  <2>1. PICK m : (m = None \/ m # BuiltIn) /\ g = [f EXCEPT !.models = m]
    BY <1>7
  <2>2. g = F(f.strategy, f.own, f.compress, f.min, m)
    BY <1>0, <2>1
  <2>3. m = None \/ m # BuiltIn
    BY <2>1
  <2> HIDE DEF F
  <2> QED BY Zenon, <1>1, <2>2, <2>3
<1> HIDE DEF F, A1, A2, A3, A4, A5
<1> QED BY <1>2, <1>3, <1>4, <1>5, <1>6, <1>7

SettingsRecord(c, f, s, lo, sa, t) == [left |-> c, settings |-> f, saved |-> s, loading |-> lo, saving |-> sa, told |-> t]
LEMMA SettingsFields ==
    ASSUME NEW c, NEW f, NEW s, NEW lo, NEW sa, NEW t, NEW l, l = SettingsRecord(c, f, s, lo, sa, t), IsForm(f), IsForm(s)
    PROVE  IsSettings(l) /\ l.settings = f /\ l.saved = s /\ l.loading = lo /\ l.saving = sa /\ l.told = t
BY DEF IsSettings, SettingsRecord

LEMMA SettingsStart == SettingsInit => SettingsOk(local, calls, db)
<1> SUFFICES ASSUME SettingsInit PROVE SettingsOk(local, calls, db)
  OBVIOUS
<1>1. /\ IsForm(DEFAULT_SETTINGS) /\ IsForm(db)
  <2>1. IsForm([DEFAULT_SETTINGS EXCEPT !.own = "round-robin", !.models = <<"m2">>])
    <3> DEFINE m == <<"m2">>
               g == [DEFAULT_SETTINGS EXCEPT !.own = "round-robin", !.models = m]
    <3>1. m # BuiltIn
      <4>1. <<"m2">>[1] # <<"m1">>[1]
        OBVIOUS
      <4> QED BY <4>1 DEF BuiltIn
    <3> HIDE DEF m
    <3> DEFINE d == DEFAULT_SETTINGS
    <3>2. d = [strategy |-> d.strategy, own |-> d.own, compress |-> d.compress, min |-> d.min, models |-> d.models]
      BY DEF DEFAULT_SETTINGS
    <3> HIDE DEF d
    <3>3. \A o, e : e = [d EXCEPT !.own = o, !.models = m] => IsForm(e)
      <4> TAKE o, e
      <4> HAVE e = [d EXCEPT !.own = o, !.models = m]
      <4>1. e = [strategy |-> d.strategy, own |-> o, compress |-> d.compress, min |-> d.min, models |-> m]
        BY <3>2
      <4> QED BY <3>1, <4>1 DEF IsForm
    <3> QED BY <3>3 DEF d, m
  <2>2. IsForm(DEFAULT_SETTINGS)
    BY DEF IsForm, DEFAULT_SETTINGS
  <2> QED BY Zenon, <2>1, <2>2 DEF SettingsInit
<1>2. /\ local = [left |-> MaxClicks, settings |-> DEFAULT_SETTINGS, saved |-> DEFAULT_SETTINGS,
                  loading |-> TRUE, saving |-> FALSE, told |-> FALSE]
      /\ calls = Plus(NoCalls, Call("settings", None))
  BY DEF SettingsInit
<1>3. SettingsCalls(TRUE, FALSE, calls)
  <2> DEFINE c == Call("settings", None)
  <2>1. Named(NoCalls)
    BY NoCallsEmpty DEF Named
  <2>2. Named(calls) /\ c.op = "settings" /\ \A n \in DOMAIN calls : calls[n] = c
    BY <1>2, <2>1, NoCallsEmpty, NamedPlus
  <2>3. \A m, n \in DOMAIN calls : m = n
    BY <1>2, <2>1, NoCallsEmpty, NamedPlus
  <2> HIDE DEF c
  <2> QED BY <2>2, <2>3 DEF SettingsCalls
<1>4. IsSettings(local) /\ local.loading = TRUE /\ local.saving = FALSE /\ local.told = FALSE /\ local.settings = local.saved
  BY <1>1, <1>2 DEF IsSettings
<1> QED BY <1>1, <1>3, <1>4 DEF SettingsOk

LEMMA SettingsStep == ASSUME SettingsOk(local, calls, db), SettingsNext PROVE SettingsOk(local', calls', db')
<1>0. /\ local = SettingsRecord(local.left, local.settings, local.saved, local.loading, local.saving, local.told)
      /\ IsForm(local.settings) /\ IsForm(local.saved) /\ IsForm(db)
      /\ SettingsCalls(local.loading, local.saving, calls)
      /\ local.loading => local.settings = local.saved /\ ~local.saving
      /\ local.told => local.saved = db
  BY Zenon DEF SettingsOk, IsSettings, SettingsRecord
<1>2. CASE EditSettings
  <2>1. PICK form \in updateField(local.settings) : local' = [local EXCEPT !.settings = form]
    BY <1>2 DEF EditSettings, Do
  <2>2. local' = SettingsRecord(local.left, form, local.saved, local.loading, local.saving, local.told)
    BY <1>0, <2>1 DEF SettingsRecord
  <2>3. IsForm(form)
    BY <1>0, FormsEdited
  <2>4. calls' = calls /\ db' = db /\ ~local.loading
    BY <1>2 DEF EditSettings, Do
  <2> QED BY <1>0, <2>2, <2>3, <2>4, SettingsFields DEF SettingsOk
<1>3. CASE handleSave
  <2> DEFINE k == local.left - 1
             c == Call("save", local.settings)
  <2>1. /\ local' = [[local EXCEPT !.saving = TRUE] EXCEPT !.left = k]
        /\ calls' = Plus(calls, c) /\ db' = db
        /\ hasChanges /\ ~local.saving /\ Room(1)
    BY <1>0, <1>3 DEF handleSave, Ask, Do
  <2> HIDE DEF k
  <2>2. local' = SettingsRecord(k, local.settings, local.saved, local.loading, TRUE, local.told)
    BY <1>0, <2>1 DEF SettingsRecord
  <2>3. ~local.loading /\ DOMAIN calls = {} /\ Named(calls)
    BY <1>0, <2>1 DEF hasChanges, SettingsCalls
  <2>4. c.op = "save" /\ c.arg = local.settings /\ Named(calls') /\ (\A n \in DOMAIN calls' : calls'[n] = c)
        /\ (\A m, n \in DOMAIN calls' : m = n) /\ \E n \in DOMAIN calls' : calls'[n] = c
    BY <2>1, <2>3, NamedPlus, RoomIsFree
  <2> HIDE DEF c
  <2>5. SettingsCalls(local.loading, TRUE, calls')
    BY <1>0, <2>3, <2>4 DEF SettingsCalls
  <2>6. /\ IsSettings(local') /\ local'.settings = local.settings /\ local'.saved = local.saved
        /\ local'.loading = local.loading /\ local'.saving = TRUE /\ local'.told = local.told
    BY <1>0, <2>2 DEF SettingsRecord, IsSettings
  <2> QED BY <1>0, <2>1, <2>3, <2>5, <2>6 DEF SettingsOk
<1>4. CASE handleDiscard
  <2>1. local' = [local EXCEPT !.settings = local.saved] /\ calls' = calls /\ db' = db
    BY <1>4 DEF handleDiscard, Do
  <2>2. local' = SettingsRecord(local.left, local.saved, local.saved, local.loading, local.saving, local.told)
    BY <1>0, <2>1 DEF SettingsRecord
  <2> QED BY <1>0, <2>1, <2>2, SettingsFields DEF SettingsOk
<1>5. ASSUME NEW n \in DOMAIN calls, SettingsAnswer(n) PROVE SettingsOk(local', calls', db')
  <2> DEFINE form == IF calls[n].op = "save" THEN calls[n].arg ELSE db
  <2>1. /\ calls' = Minus(calls, n)
        /\ \/ /\ local' = [[local EXCEPT !.settings = form, !.saved = form, !.told = TRUE] EXCEPT !.loading = FALSE, !.saving = FALSE]
              /\ db' = form
           \/ \E done \in BOOLEAN :
                 LET t == local.told /\ ~(done /\ calls[n].op = "save")
                 IN  /\ local' = [[local EXCEPT !.told = t] EXCEPT !.loading = FALSE, !.saving = FALSE]
                     /\ db' = IF done THEN form ELSE db
    BY <1>5 DEF SettingsAnswer, Reply
  <2>2. IsForm(form) /\ DOMAIN calls = {n} /\ Named(calls)
    BY <1>0 DEF SettingsCalls
  <2>3. Named(calls') /\ DOMAIN calls' = {}
    <3> DEFINE ds == Minus(calls, n)
    <3>1. calls' = ds
      BY <2>1
    <3>2. Named(ds) /\ DOMAIN ds = DOMAIN calls \ {n}
      BY <2>2, NamedMinus
    <3> HIDE DEF form, ds
    <3> QED BY <2>2, <3>1, <3>2
  <2>4. SettingsCalls(FALSE, FALSE, calls')
    BY <2>3 DEF SettingsCalls
  <2>7. calls[n].op # "save" => form = db
    OBVIOUS
  <2> HIDE DEF form
  <2>5. CASE local' = [[local EXCEPT !.settings = form, !.saved = form, !.told = TRUE] EXCEPT !.loading = FALSE, !.saving = FALSE]
             /\ db' = form
    <3>1. local' = SettingsRecord(local.left, form, form, FALSE, FALSE, TRUE)
      BY <1>0, <2>5 DEF SettingsRecord
    <3>2. IsSettings(local') /\ local'.settings = form /\ local'.saved = form /\ local'.loading = FALSE /\ local'.saving = FALSE
      BY <2>2, <3>1 DEF SettingsRecord, IsSettings
    <3> QED BY <2>2, <2>4, <2>5, <3>2 DEF SettingsOk
  <2>6. ASSUME NEW done \in BOOLEAN, NEW t, t = (local.told /\ ~(done /\ calls[n].op = "save")),
               local' = [[local EXCEPT !.told = t] EXCEPT !.loading = FALSE, !.saving = FALSE],
               db' = IF done THEN form ELSE db
        PROVE  SettingsOk(local', calls', db')
    <3>1. local' = SettingsRecord(local.left, local.settings, local.saved, FALSE, FALSE, t)
      BY <1>0, <2>6 DEF SettingsRecord
    <3>2. /\ IsSettings(local') /\ local'.saved = local.saved /\ local'.loading = FALSE /\ local'.saving = FALSE
          /\ local'.told = t
      BY <1>0, <3>1 DEF SettingsRecord, IsSettings
    <3>3. IsForm(db')
      BY <1>0, <2>2, <2>6
    <3>4. t => local.saved = db'
      BY <1>0, <2>6, <2>7
    <3> QED BY <2>4, <3>2, <3>3, <3>4 DEF SettingsOk
  <2> QED BY <2>1, <2>5, <2>6
<1> QED BY <1>2, <1>3, <1>4, <1>5 DEF SettingsNext

\* The settings keep their promise.
LEMMA SettingsSettle ==
    ASSUME SettingsOk(local, calls, db)
    PROVE  /\ local.told /\ ~hasChanges /\ ~local.saving => local.settings = db
           /\ local.saving <=> Outstanding({"save"})
           /\ rows(local.settings).isCustom <=> rows(local.settings).models # BuiltIn
<1>1. local.told /\ ~hasChanges => local.settings = db
  BY DEF SettingsOk, hasChanges
<1>2. local.saving <=> Outstanding({"save"})
  BY DEF SettingsOk, SettingsCalls, Outstanding
<1>3. rows(local.settings).isCustom <=> rows(local.settings).models # BuiltIn
  BY DEF SettingsOk, IsSettings, IsForm, rows
<1> QED BY <1>1, <1>2, <1>3

-----------------------------------------------------------------------------
(* The tunnel: its button is off while, and only while, it is switched. *)

Switches(c) == c.op \in {"enable", "disable"}
TunnelCalls(busy, cs) ==
    /\ Named(cs)
    /\ busy <=> \E n \in DOMAIN cs : Switches(cs[n])
    /\ \A m, n \in DOMAIN cs : Switches(cs[m]) /\ Switches(cs[n]) => m = n
IsTunnel(l) == l = [left |-> l.left, status |-> l.status, loading |-> l.loading, busy |-> l.busy, poll |-> l.poll]
TunnelOk(l, cs) == IsTunnel(l) /\ TunnelCalls(l.busy, cs)

LEMMA TunnelPlus ==
    ASSUME NEW busy, NEW cs, TunnelCalls(busy, cs), NEW op
    PROVE  LET ds == Plus(cs, Call(op, None)) IN
           /\ op \notin {"enable", "disable"} => TunnelCalls(busy, ds)
           /\ op \in {"enable", "disable"} /\ ~busy /\ Free(cs) # {} => TunnelCalls(TRUE, ds)
<1> DEFINE c == Call(op, None)
           ds == Plus(cs, c)
<1>1. /\ Named(ds) /\ c.op = op
      /\ \A n \in DOMAIN ds : ds[n] = c \/ (n \in DOMAIN cs /\ ds[n] = cs[n])
      /\ \A m, n \in DOMAIN ds : m # n => (m \in DOMAIN cs /\ ds[m] = cs[m]) \/ (n \in DOMAIN cs /\ ds[n] = cs[n])
      /\ \A n \in DOMAIN cs : n \in DOMAIN ds /\ ds[n] = cs[n]
      /\ Free(cs) # {} => \E n \in DOMAIN ds : ds[n] = c
  BY NamedPlus DEF TunnelCalls
<1> HIDE DEF c, ds
<1>2. op \notin {"enable", "disable"} => TunnelCalls(busy, ds)
  BY <1>1 DEF TunnelCalls, Switches
<1>3. op \in {"enable", "disable"} /\ ~busy /\ Free(cs) # {} => TunnelCalls(TRUE, ds)
  BY <1>1 DEF TunnelCalls, Switches
<1> QED BY <1>2, <1>3 DEF ds, c

LEMMA TunnelSwitched ==
    ASSUME NEW cs, TunnelCalls(FALSE, cs), NEW op \in {"enable", "disable"}, Free(cs) # {}
    PROVE  TunnelCalls(TRUE, Plus(cs, Call(op, None)))
<1>1. ~FALSE
  OBVIOUS
<1> QED BY <1>1, TunnelPlus

LEMMA TunnelMinus ==
    ASSUME NEW busy, NEW cs, TunnelCalls(busy, cs), NEW n \in DOMAIN cs
    PROVE  /\ ~Switches(cs[n]) => TunnelCalls(busy, Minus(cs, n))
           /\ Switches(cs[n]) => TunnelCalls(FALSE, Minus(cs, n))
<1> DEFINE ds == Minus(cs, n)
<1>1. Named(ds) /\ DOMAIN ds = DOMAIN cs \ {n} /\ (\A m \in DOMAIN ds : ds[m] = cs[m])
  BY NamedMinus DEF TunnelCalls
<1> HIDE DEF ds
<1>2. ~Switches(cs[n]) => TunnelCalls(busy, ds)
  BY <1>1 DEF TunnelCalls
<1>3. Switches(cs[n]) => TunnelCalls(FALSE, ds)
  BY <1>1 DEF TunnelCalls
<1> QED BY <1>2, <1>3 DEF ds

TunnelRecord(c, s, lo, b, p) == [left |-> c, status |-> s, loading |-> lo, busy |-> b, poll |-> p]
LEMMA TunnelMoved ==
    ASSUME TunnelOk(local, calls), TunnelNext
    PROVE  \/ calls' = calls /\ local' = local
           \/ \E c, s, lo, p, op :
                 /\ local' = TunnelRecord(c, s, lo, local.busy, p) /\ op \notin {"enable", "disable"}
                 /\ calls' = Plus(calls, Call(op, None))
           \/ \E c, s, lo, p, op :
                 /\ local' = TunnelRecord(c, s, lo, TRUE, p) /\ op \in {"enable", "disable"}
                 /\ calls' = Plus(calls, Call(op, None)) /\ ~local.busy /\ Room(1)
           \/ \E n \in DOMAIN calls : \E c, s, lo, p :
                 /\ Switches(calls[n]) /\ local' = TunnelRecord(c, s, lo, FALSE, p) /\ calls' = Minus(calls, n)
           \/ \E n \in DOMAIN calls : \E c, s, lo, p :
                 /\ ~Switches(calls[n]) /\ local' = TunnelRecord(c, s, lo, local.busy, p) /\ calls' = Minus(calls, n)
           \/ \E n \in DOMAIN calls : \E d, got : Serve(n, d, got)
<1> DEFINE k == local.left - 1
<1>0. local = TunnelRecord(local.left, local.status, local.loading, local.busy, local.poll)
  BY Zenon DEF TunnelOk, IsTunnel, TunnelRecord
<1>1. CASE TunnelMoves
  BY <1>1 DEF TunnelMoves
<1>2. CASE handleEnable
  <2>1. /\ local' = [[local EXCEPT !.busy = TRUE] EXCEPT !.left = k]
        /\ calls' = Plus(calls, Call("enable", None)) /\ ~local.busy /\ Room(1)
    BY <1>0, <1>2 DEF handleEnable, Ask, Do, TunnelRecord
  <2> HIDE DEF k
  <2>2. local' = TunnelRecord(k, local.status, local.loading, TRUE, local.poll)
    BY <1>0, <2>1 DEF TunnelRecord
  <2> QED BY <2>1, <2>2
<1>3. CASE handleDisable
  <2>1. /\ local' = [[[local EXCEPT !.poll = FALSE] EXCEPT !.busy = TRUE] EXCEPT !.left = k]
        /\ calls' = Plus(calls, Call("disable", None)) /\ ~local.busy /\ Room(1)
    BY <1>0, <1>3 DEF handleDisable, stopPolling, Ask, Do, TunnelRecord
  <2> HIDE DEF k
  <2>2. local' = TunnelRecord(k, local.status, local.loading, TRUE, FALSE)
    BY <1>0, <2>1 DEF TunnelRecord
  <2> QED BY <2>1, <2>2
<1>4. CASE RefreshStatus
  <2>1. local' = [local EXCEPT !.left = k] /\ calls' = Plus(calls, Call("status", None))
    BY <1>4 DEF RefreshStatus, Ask, Do
  <2> HIDE DEF k
  <2>2. local' = TunnelRecord(k, local.status, local.loading, local.busy, local.poll)
    BY <1>0, <2>1 DEF TunnelRecord
  <2> QED BY <2>1, <2>2
<1>5. CASE PollFires
  <2>1. local' = local /\ calls' = Plus(calls, Call("poll", None))
    BY <1>5 DEF PollFires, Do
  <2> QED BY <1>0, <2>1
<1>6. CASE SafetyFires
  <2>1. local' = [local EXCEPT !.poll = FALSE] /\ calls' = Plus(calls, Call("status", None))
    BY <1>6 DEF SafetyFires, stopPolling, Do
  <2>2. local' = TunnelRecord(local.left, local.status, local.loading, local.busy, FALSE)
    BY <1>0, <2>1 DEF TunnelRecord
  <2> QED BY <2>1, <2>2
<1>7. ASSUME NEW n \in DOMAIN calls, EnableAnswers(n)
      PROVE  \E c, s, lo, p : Switches(calls[n]) /\ local' = TunnelRecord(c, s, lo, FALSE, p) /\ calls' = Minus(calls, n)
  <2> DEFINE s == IF local.status = None THEN None ELSE "starting"
  <2>1. /\ Switches(calls[n]) /\ calls' = Minus(calls, n)
        /\ \/ local' = [local EXCEPT !.busy = FALSE, !.poll = TRUE, !.status = s]
           \/ local' = [local EXCEPT !.busy = FALSE]
    BY <1>0, <1>7 DEF EnableAnswers, Do, Switches, TunnelRecord
  <2> HIDE DEF s
  <2>2. \/ local' = TunnelRecord(local.left, s, local.loading, FALSE, TRUE)
        \/ local' = TunnelRecord(local.left, local.status, local.loading, FALSE, local.poll)
    BY <1>0, <2>1 DEF TunnelRecord
  <2> QED BY <2>1, <2>2
<1>8. ASSUME NEW n \in DOMAIN calls, DisableAnswers(n)
      PROVE  \E c, s, lo, p : Switches(calls[n]) /\ local' = TunnelRecord(c, s, lo, FALSE, p) /\ calls' = Minus(calls, n)
  <2> DEFINE s == IF local.status = None THEN None ELSE "off"
  <2>1. /\ Switches(calls[n]) /\ calls' = Minus(calls, n)
        /\ \/ local' = [local EXCEPT !.busy = FALSE, !.status = s]
           \/ local' = [local EXCEPT !.busy = FALSE]
    BY <1>0, <1>8 DEF DisableAnswers, Do, Switches, TunnelRecord
  <2> HIDE DEF s
  <2>2. \/ local' = TunnelRecord(local.left, s, local.loading, FALSE, local.poll)
        \/ local' = TunnelRecord(local.left, local.status, local.loading, FALSE, local.poll)
    BY <1>0, <2>1 DEF TunnelRecord
  <2> QED BY <2>1, <2>2
<1>9. ASSUME NEW n \in DOMAIN calls, StatusAnswers(n)
      PROVE  \E c, s, lo, p : ~Switches(calls[n]) /\ local' = TunnelRecord(c, s, lo, local.busy, p) /\ calls' = Minus(calls, n)
  <2>1. ~Switches(calls[n]) /\ calls' = Minus(calls, n)
    BY <1>9 DEF StatusAnswers, Do, Switches
  <2>2. \/ \E s : local' = [local EXCEPT !.status = s, !.loading = FALSE]
        \/ \E s : local' = [[local EXCEPT !.status = s, !.loading = FALSE] EXCEPT !.poll = FALSE]
        \/ local' = [local EXCEPT !.loading = FALSE]
    BY <1>9 DEF StatusAnswers, Do, stopPolling
  <2>3. \E s, p : local' = TunnelRecord(local.left, s, FALSE, local.busy, p)
    <3>1. CASE \E s : local' = [local EXCEPT !.status = s, !.loading = FALSE]
      BY <1>0, <3>1 DEF TunnelRecord
    <3>2. CASE \E s : local' = [[local EXCEPT !.status = s, !.loading = FALSE] EXCEPT !.poll = FALSE]
      BY <1>0, <3>2 DEF TunnelRecord
    <3>3. CASE local' = [local EXCEPT !.loading = FALSE]
      BY <1>0, <3>3 DEF TunnelRecord
    <3> QED BY <2>2, <3>1, <3>2, <3>3
  <2> QED BY <2>1, <2>3
<1>10. ASSUME NEW n \in DOMAIN calls, SwitchServed(n) \/ StatusServed(n) PROVE \E d, got : Serve(n, d, got)
  <2>1. CASE SwitchServed(n)
    BY <2>1 DEF SwitchServed
  <2>2. CASE StatusServed(n)
    BY <2>2 DEF StatusServed
  <2> QED BY <1>10, <2>1, <2>2
<1> QED BY <1>1, <1>2, <1>3, <1>4, <1>5, <1>6, <1>7, <1>8, <1>9, <1>10 DEF TunnelNext

LEMMA TunnelFields ==
    ASSUME NEW c, NEW s, NEW lo, NEW b, NEW p, NEW cs, TunnelCalls(b, cs)
    PROVE  TunnelOk(TunnelRecord(c, s, lo, b, p), cs)
<1> DEFINE l == TunnelRecord(c, s, lo, b, p)
<1>1. IsTunnel(l) /\ l.busy = b
  BY DEF IsTunnel, TunnelRecord
<1> HIDE DEF l
<1>2. TunnelOk(l, cs)
  BY <1>1 DEF TunnelOk
<1> QED BY <1>2 DEF l

LEMMA TunnelStep == ASSUME TunnelOk(local, calls), TunnelNext PROVE TunnelOk(local', calls')
<1>0. TunnelCalls(local.busy, calls)
  BY DEF TunnelOk
<1>1. ASSUME NEW c, NEW s, NEW lo, NEW p, NEW op, local' = TunnelRecord(c, s, lo, local.busy, p),
             op \notin {"enable", "disable"}, calls' = Plus(calls, Call(op, None))
      PROVE  TunnelOk(local', calls')
  BY <1>0, <1>1, TunnelPlus, TunnelFields
<1>2. ASSUME NEW c, NEW s, NEW lo, NEW p, NEW op, local' = TunnelRecord(c, s, lo, TRUE, p),
             op \in {"enable", "disable"}, calls' = Plus(calls, Call(op, None)), ~local.busy, Room(1)
      PROVE  TunnelOk(local', calls')
  <2>1. TunnelCalls(TRUE, calls')
    <3>1. Free(calls) # {}
      BY <1>2, RoomIsFree
    <3>2. TunnelCalls(FALSE, calls)
      BY <1>0, <1>2 DEF TunnelCalls
    <3>3. TunnelCalls(TRUE, Plus(calls, Call(op, None)))
      BY Zenon, <1>2, <3>1, <3>2, TunnelSwitched
    <3> QED BY Zenon, <1>2, <3>3
  <2> QED BY Zenon, <1>2, <2>1, TunnelFields
<1>3. ASSUME NEW n \in DOMAIN calls, NEW c, NEW s, NEW lo, NEW p, Switches(calls[n]),
             local' = TunnelRecord(c, s, lo, FALSE, p), calls' = Minus(calls, n)
      PROVE  TunnelOk(local', calls')
  <2>1. TunnelCalls(FALSE, calls')
    BY <1>0, <1>3, TunnelMinus
  <2> QED BY Zenon, <1>3, <2>1, TunnelFields
<1>4. ASSUME NEW n \in DOMAIN calls, NEW c, NEW s, NEW lo, NEW p, ~Switches(calls[n]),
             local' = TunnelRecord(c, s, lo, local.busy, p), calls' = Minus(calls, n)
      PROVE  TunnelOk(local', calls')
  BY <1>0, <1>4, TunnelMinus, TunnelFields
<1>5. ASSUME NEW n \in DOMAIN calls, NEW d, NEW got, Serve(n, d, got) PROVE TunnelOk(local', calls')
  <2>1. AreCalls
    BY <1>0 DEF TunnelCalls, Named, AreCalls
  <2>2. /\ DOMAIN calls' = DOMAIN calls /\ local' = local
        /\ \A m \in DOMAIN calls : SameCall(calls'[m], calls[m])
    BY <1>5, <2>1, ServeCalls
  <2>3. TunnelCalls(local.busy, calls')
    BY <1>0, <2>2 DEF TunnelCalls, Named, SameCall, Switches
  <2> QED BY <2>2, <2>3 DEF TunnelOk
<1> QED BY Zenon, <1>1, <1>2, <1>3, <1>4, <1>5, TunnelMoved

LEMMA TunnelStart == TunnelInit => TunnelOk(local, calls)
<1> SUFFICES ASSUME TunnelInit PROVE TunnelOk(local, calls)
  OBVIOUS
<1>1. local = TunnelRecord(MaxClicks, None, TRUE, FALSE, FALSE) /\ calls = Plus(NoCalls, Call("status", None))
  BY DEF TunnelInit, TunnelRecord
<1>2. TunnelCalls(FALSE, NoCalls)
  BY NoCallsEmpty DEF TunnelCalls, Named
<1>3. TunnelCalls(FALSE, calls)
  BY <1>1, <1>2, TunnelPlus
<1> QED BY Zenon, <1>1, <1>3, TunnelFields

LEMMA TunnelSettles ==
    ASSUME TunnelOk(local, calls)
    PROVE  /\ local.busy <=> Outstanding({"enable", "disable"})
           /\ Cardinality(Waiting("enable") \cup Waiting("disable")) <= 1
<1>1. local.busy <=> Outstanding({"enable", "disable"})
  BY DEF TunnelOk, TunnelCalls, Switches, Outstanding
<1> DEFINE S == Waiting("enable") \cup Waiting("disable")
<1>2. \A m, n \in S : m = n
  BY DEF TunnelOk, TunnelCalls, Switches, Waiting
<1> HIDE DEF S
<1>3. S = {} \/ \E n \in S : S = {n}
  BY <1>2
<1>4. Cardinality(S) <= 1
  <2>1. CASE S = {}
    <3>1. Cardinality(S) = 0
      BY <2>1, FS_EmptySet
    <3> QED BY <3>1
  <2>2. ASSUME NEW n \in S, S = {n} PROVE Cardinality(S) <= 1
    <3>1. Cardinality(S) = 1
      BY <2>2, FS_Singleton
    <3> QED BY <3>1
  <2> QED BY <1>3, <2>1, <2>2
<1> QED BY <1>1, <1>4 DEF S

-----------------------------------------------------------------------------
(* Screens that read their list again: from the requests cs to ds, those   *)
(* of gone are answered and those of come are sent; a read may age.        *)

Kindred(e, c) ==
    /\ e.op = c.op
    /\ c.op # "load" => e.arg = c.arg
    /\ c.op = "load" => e.arg.then = c.arg.then
Turn(cs, ds, gone, come) ==
    /\ \A m \in (DOMAIN cs) \ gone : m \in DOMAIN ds /\ Kindred(ds[m], cs[m])
    /\ \A m \in DOMAIN ds : (\E c \in come : Kindred(ds[m], c)) \/ (m \in (DOMAIN cs) \ gone /\ Kindred(ds[m], cs[m]))
    /\ \A m, n \in DOMAIN ds : m # n => m \in (DOMAIN cs) \ gone \/ n \in (DOMAIN cs) \ gone
    /\ \A c \in come : \E m \in DOMAIN ds : Kindred(ds[m], c)
Listing(cs) == DOMAIN cs \subseteq 1..MaxCalls /\ AreReads(cs)

LEMMA TurnTwice ==
    ASSUME NEW cs, NEW ds, NEW es, NEW gone, NEW come, Turn(cs, ds, gone, {}), Turn(ds, es, {}, come)
    PROVE  Turn(cs, es, gone, come)
BY DEF Turn, Kindred

LEMMA TurnPlus ==
    ASSUME NEW cs, Listing(cs), Free(cs) # {}, NEW op, op # "load", NEW arg
    PROVE  LET c == Call(op, arg)
               ds == Plus(cs, c)
           IN  /\ Listing(ds) /\ Turn(cs, ds, {}, {c}) /\ c.op = op /\ c.arg = arg
               /\ \A list, drift, d : UpToDate(list, drift, cs, d) => UpToDate(list, drift, ds, d)
<1> DEFINE c == Call(op, arg)
           ds == Plus(cs, c)
<1>1. c.op = op /\ c.arg = arg
  BY CallSent
<1>2. AreReads(ds)
  BY AreReadsPlus DEF Listing
<1>3. \A list, drift, d : UpToDate(list, drift, cs, d) => UpToDate(list, drift, ds, d)
  BY UpToDatePlus
<1> HIDE DEF c
<1>4. /\ \A n \in DOMAIN ds : ds[n] = c \/ (n \in DOMAIN cs /\ ds[n] = cs[n])
      /\ \A m, n \in DOMAIN ds : m # n => (m \in DOMAIN cs /\ ds[m] = cs[m]) \/ (n \in DOMAIN cs /\ ds[n] = cs[n])
      /\ \A n \in DOMAIN cs : n \in DOMAIN ds /\ ds[n] = cs[n]
      /\ \E n \in DOMAIN ds : ds[n] = c
      /\ DOMAIN cs \subseteq 1..MaxCalls => DOMAIN ds \subseteq 1..MaxCalls
  BY PlusCalls, PlusKeeps
<1> HIDE DEF ds
<1>5. Listing(ds)
  BY <1>2, <1>4 DEF Listing
<1>6. Turn(cs, ds, {}, {c})
  BY <1>4 DEF Turn, Kindred
<1> QED BY <1>1, <1>3, <1>5, <1>6 DEF ds, c

LEMMA TurnMinus ==
    ASSUME NEW cs, Listing(cs), NEW n \in DOMAIN cs
    PROVE  LET ds == Minus(cs, n) IN
           /\ Listing(ds) /\ Turn(cs, ds, {n}, {}) /\ Free(ds) # {}
           /\ cs[n].op # "load" /\ ~Wrote(cs[n]) =>
                \A list, drift, d : UpToDate(list, drift, cs, d) => UpToDate(list, drift, ds, d)
<1> DEFINE ds == Minus(cs, n)
<1>1. AreReads(ds) /\ Free(ds) # {}
  BY AreReadsMinus, MinusIsFree DEF Listing
<1>2. cs[n].op # "load" /\ ~Wrote(cs[n]) =>
        \A list, drift, d : UpToDate(list, drift, cs, d) => UpToDate(list, drift, ds, d)
  BY UpToDateMinus
<1>3. DOMAIN ds = DOMAIN cs \ {n} /\ \A m \in DOMAIN ds : ds[m] = cs[m]
  BY DEF Minus
<1> HIDE DEF ds
<1>4. Listing(ds)
  BY <1>1, <1>3 DEF Listing
<1>5. Turn(cs, ds, {n}, {})
  BY <1>3 DEF Turn, Kindred
<1> QED BY <1>1, <1>2, <1>4, <1>5 DEF ds

LEMMA TurnLoad ==
    ASSUME NEW cs, Listing(cs), Free(cs) # {}, NEW then
    PROVE  LET c == Call("load", [newest |-> TRUE, then |-> then])
               ds == LoadThen(cs, then)
           IN  /\ Listing(ds) /\ Turn(cs, ds, {}, {c})
               /\ \A list, drift, d : UpToDate(list, drift, ds, d)
               /\ c.op = "load" /\ c.arg.then = then
<1> DEFINE a == [newest |-> TRUE, then |-> then]
           c == Call("load", a)
           ds == LoadThen(cs, then)
<1>1. a.then = then
  OBVIOUS
<1> HIDE DEF a
<1>2. c.op = "load" /\ c.arg.then = then
  BY <1>1, CallSent
<1>3. \A list, drift, d : UpToDate(list, drift, ds, d)
  BY ReadAfter DEF Listing
<1>4. /\ AreReads(ds)
      /\ DOMAIN cs \subseteq DOMAIN ds /\ \A m \in DOMAIN cs : Older(ds[m], cs[m])
      /\ \A m \in DOMAIN ds : NewRead(ds[m], then) \/ (m \in DOMAIN cs /\ Older(ds[m], cs[m]))
      /\ \A m, n \in DOMAIN ds : m # n => (m \in DOMAIN cs /\ Older(ds[m], cs[m])) \/ (n \in DOMAIN cs /\ Older(ds[n], cs[n]))
      /\ DOMAIN ds \subseteq 1..MaxCalls
      /\ \E n \in DOMAIN ds : NewRead(ds[n], then)
  BY LoadThenCalls DEF Listing
<1> HIDE DEF c, ds
<1>5. /\ \A m : NewRead(ds[m], then) => Kindred(ds[m], c)
      /\ \A m : Older(ds[m], cs[m]) => Kindred(ds[m], cs[m])
  BY <1>2 DEF NewRead, Older, Kindred
<1>6. Turn(cs, ds, {}, {c})
  <2>1. \A m \in DOMAIN cs : m \in DOMAIN ds /\ Kindred(ds[m], cs[m])
    BY <1>4, <1>5
  <2>2. \A m \in DOMAIN ds : Kindred(ds[m], c) \/ (m \in DOMAIN cs /\ Kindred(ds[m], cs[m]))
    BY <1>4, <1>5
  <2>3. \A m, n \in DOMAIN ds : m # n => m \in DOMAIN cs \/ n \in DOMAIN cs
    BY <1>4
  <2>4. \E m \in DOMAIN ds : Kindred(ds[m], c)
    BY <1>4, <1>5
  <2> QED BY <2>1, <2>2, <2>3, <2>4 DEF Turn
<1>7. Listing(ds)
  BY <1>4 DEF Listing
<1> QED BY <1>2, <1>3, <1>6, <1>7 DEF ds, c, a

LEMMA TurnServed ==
    ASSUME Listing(calls), NEW n \in DOMAIN calls, ReadServed(n)
    PROVE  /\ Listing(calls') /\ Turn(calls, calls', {}, {}) /\ local' = local /\ db' = db
           /\ \A list, drift : UpToDate(list, drift, calls, db) => UpToDate(list, drift, calls', db)
<1>1. calls[n].op = "load" /\ Serve(n, db, db) /\ AreCalls
  BY DEF ReadServed, Listing, AreReads, AreCalls
<1>2. /\ DOMAIN calls' = DOMAIN calls
      /\ \A m \in DOMAIN calls : SameCall(calls'[m], calls[m]) /\ (m # n => calls'[m] = calls[m])
      /\ calls'[n].got = db /\ db' = db /\ local' = local
  BY <1>1, ServeCalls
<1>3. Listing(calls')
  BY <1>2 DEF Listing, AreReads, SameCall
<1>4. Turn(calls, calls', {}, {})
  BY <1>2 DEF Turn, Kindred, SameCall
<1>5. \A list, drift : UpToDate(list, drift, calls, db) => UpToDate(list, drift, calls', db)
  <2>1. \A m \in DOMAIN calls : Wrote(calls[m]) => Wrote(calls'[m])
    BY <1>1, <1>2 DEF Wrote
  <2> QED BY <1>1, <1>2, <2>1 DEF UpToDate, SameCall
<1> QED BY <1>2, <1>3, <1>4, <1>5

\* A change is served: the screen does not know of it yet.
LEMMA TurnChanged ==
    ASSUME Listing(calls), NEW n \in DOMAIN calls, calls[n].op \notin {"load", "do"}, NEW d, Serve(n, d, None)
    PROVE  /\ Listing(calls') /\ Turn(calls, calls', {}, {}) /\ local' = local
           /\ \A list, drift : UpToDate(list, drift, calls', db')
<1>1. AreCalls
  BY DEF Listing, AreReads, AreCalls
<1>2. /\ DOMAIN calls' = DOMAIN calls
      /\ \A m \in DOMAIN calls : SameCall(calls'[m], calls[m]) /\ (m # n => calls'[m] = calls[m])
      /\ calls'[n].at = "served" /\ local' = local
  BY <1>1, ServeCalls
<1>3. Listing(calls')
  BY <1>2 DEF Listing, AreReads, SameCall
<1>4. Turn(calls, calls', {}, {})
  BY <1>2 DEF Turn, Kindred, SameCall
<1>5. Wrote(calls'[n])
  BY <1>2 DEF Wrote, SameCall
<1>6. \A list, drift : UpToDate(list, drift, calls', db')
  BY <1>2, <1>5 DEF UpToDate
<1> QED BY <1>2, <1>3, <1>4, <1>6

\* The answer to a change is lost, and the list is not read.
LEMMA TurnMissed ==
    ASSUME NEW cs, Listing(cs), NEW n \in DOMAIN cs
    PROVE  LET ds == Overlooked(Minus(cs, n)) IN
           /\ Listing(ds) /\ Turn(cs, ds, {n}, {}) /\ Free(ds) # {}
           /\ \A list, d : UpToDate(list, TRUE, ds, d)
<1> DEFINE ds == Minus(cs, n)
           es == Overlooked(ds)
<1>1. Listing(ds) /\ Turn(cs, ds, {n}, {}) /\ Free(ds) # {}
  BY TurnMinus
<1> HIDE DEF ds
<1>2. /\ AreReads(es) /\ DOMAIN es = DOMAIN ds
      /\ \A m \in DOMAIN ds : Older(es[m], ds[m]) \/ es[m] = ds[m]
      /\ \A list, d : UpToDate(list, TRUE, es, d)
  BY <1>1, MissedCalls DEF Listing
<1> HIDE DEF es
<1>3. \A m \in DOMAIN ds : Kindred(es[m], ds[m])
  BY <1>2 DEF Older, Kindred
<1>4. Turn(ds, es, {}, {})
  BY <1>2, <1>3 DEF Turn
<1>5. Listing(es) /\ Turn(cs, es, {n}, {}) /\ Free(es) # {}
  BY <1>1, <1>2, <1>4, TurnTwice DEF Listing, Free
<1> QED BY <1>2, <1>5 DEF es, ds

\* A request is answered and the list is read again.
LEMMA TurnReload ==
    ASSUME NEW cs, Listing(cs), NEW n \in DOMAIN cs, NEW then
    PROVE  LET ds == LoadThen(Minus(cs, n), then) IN
           /\ Listing(ds) /\ Turn(cs, ds, {n}, {Call("load", [newest |-> TRUE, then |-> then])})
           /\ \A list, drift, d : UpToDate(list, drift, ds, d)
<1> DEFINE ds == Minus(cs, n)
           es == LoadThen(ds, then)
           c == Call("load", [newest |-> TRUE, then |-> then])
<1>1. Listing(ds) /\ Turn(cs, ds, {n}, {}) /\ Free(ds) # {}
  BY TurnMinus
<1> HIDE DEF ds
<1>2. Listing(es) /\ Turn(ds, es, {}, {c}) /\ \A list, drift, d : UpToDate(list, drift, es, d)
  BY <1>1, TurnLoad
<1> HIDE DEF es, c
<1>3. Turn(cs, es, {n}, {c})
  BY <1>1, <1>2, TurnTwice
<1> QED BY <1>2, <1>3 DEF es, ds, c

-----------------------------------------------------------------------------
(* The tools: one button at a time, until the list was read again. *)

ToolPending(c) == c.op = "tool" \/ (c.op = "load" /\ c.arg.then = "done")
ToolCalls(busy, cs) ==
    /\ busy # None <=> \E n \in DOMAIN cs : ToolPending(cs[n])
    /\ \A m, n \in DOMAIN cs : ToolPending(cs[m]) /\ ToolPending(cs[n]) => m = n
ToolsRecord(c, i, lo, b, dr) == [left |-> c, list |-> i, loading |-> lo, busy |-> b, drift |-> dr]
IsTools(l) == l = ToolsRecord(l.left, l.list, l.loading, l.busy, l.drift)
ToolsOk(l, cs, d) ==
    /\ IsTools(l) /\ Listing(cs)
    /\ UpToDate(l.list, l.drift, cs, d)
    /\ ToolCalls(l.busy, cs)

LEMMA ToolsFields ==
    ASSUME NEW c, NEW i, NEW lo, NEW b, NEW dr, NEW cs, NEW d, NEW l, l = ToolsRecord(c, i, lo, b, dr),
           Listing(cs), UpToDate(i, dr, cs, d), ToolCalls(b, cs)
    PROVE  ToolsOk(l, cs, d)
<1>1. IsTools(l) /\ l.list = i /\ l.drift = dr /\ l.busy = b
  BY DEF IsTools, ToolsRecord
<1> QED BY <1>1 DEF ToolsOk

LEMMA ToolsFreed ==
    ASSUME NEW l, IsTools(l), NEW e, e = [l EXCEPT !.busy = None]
    PROVE  IsTools(e) /\ e.list = l.list /\ e.drift = l.drift /\ e.busy = None
BY DEF IsTools, ToolsRecord

LEMMA PendingKindred == ASSUME NEW e, NEW c, Kindred(e, c) PROVE ToolPending(e) <=> ToolPending(c)
BY DEF Kindred, ToolPending

LEMMA ToolTurn ==
    ASSUME NEW busy, NEW cs, NEW ds, NEW gone, NEW come, NEW then,
           ToolCalls(busy, cs), Turn(cs, ds, gone, come), gone \subseteq DOMAIN cs,
           \/ \* what is sent and answered does not matter to the button
              then = busy /\ (\A c \in come : ~ToolPending(c)) /\ \A n \in gone : ~ToolPending(cs[n])
           \/ \* what mattered is answered
              then = None /\ (\A c \in come : ~ToolPending(c)) /\ \E n \in gone : ToolPending(cs[n])
           \/ \* it is handed over
              then = busy /\ (\E c \in come : ToolPending(c)) /\ \E n \in gone : ToolPending(cs[n])
           \/ \* it is sent
              then # None /\ busy = None /\ \E c \in come : ToolPending(c)
    PROVE  ToolCalls(then, ds)
<1>1. /\ \A m \in DOMAIN ds : \/ \E c \in come : ToolPending(ds[m]) <=> ToolPending(c)
                              \/ m \in (DOMAIN cs) \ gone /\ (ToolPending(ds[m]) <=> ToolPending(cs[m]))
      /\ \A m \in (DOMAIN cs) \ gone : m \in DOMAIN ds /\ (ToolPending(ds[m]) <=> ToolPending(cs[m]))
      /\ \A m, n \in DOMAIN ds : m # n => m \in (DOMAIN cs) \ gone \/ n \in (DOMAIN cs) \ gone
      /\ \A c \in come : \E m \in DOMAIN ds : ToolPending(ds[m]) <=> ToolPending(c)
  BY PendingKindred DEF Turn
<1>2. CASE (\A c \in come : ~ToolPending(c)) /\ \A n \in gone : ~ToolPending(cs[n])
  BY <1>1, <1>2 DEF ToolCalls
<1>3. CASE (\A c \in come : ~ToolPending(c)) /\ \E n \in gone : ToolPending(cs[n])
  BY <1>1, <1>3 DEF ToolCalls
<1>4. CASE (\E c \in come : ToolPending(c)) /\ (busy = None \/ \E n \in gone : ToolPending(cs[n]))
  <2>1. \A m \in (DOMAIN cs) \ gone : ~ToolPending(cs[m])
    BY <1>4 DEF ToolCalls
  <2>2. \E m \in DOMAIN ds : ToolPending(ds[m])
    BY <1>1, <1>4
  <2>3. \A m, n \in DOMAIN ds : ToolPending(ds[m]) /\ ToolPending(ds[n]) => m = n
    BY <1>1, <2>1
  <2>4. then # None
    BY <1>4 DEF ToolCalls
  <2> QED BY <2>2, <2>3, <2>4 DEF ToolCalls
<1> QED BY <1>2, <1>3, <1>4

LEMMA NoLoadPends == ASSUME NEW then, then # "done" PROVE ~ToolPending(Call("load", [newest |-> TRUE, then |-> then]))
<1> DEFINE a == [newest |-> TRUE, then |-> then]
           c == Call("load", a)
<1>1. a.then = then
  OBVIOUS
<1> HIDE DEF a
<1>2. c.op = "load" /\ c.arg = a
  BY CallSent
<1> HIDE DEF c
<1>3. ~ToolPending(c)
  BY <1>1, <1>2 DEF ToolPending
<1> QED BY <1>3 DEF c, a

LEMMA DonePends == ToolPending(Call("load", [newest |-> TRUE, then |-> "done"]))
<1> DEFINE a == [newest |-> TRUE, then |-> "done"]
           c == Call("load", a)
<1>1. a.then = "done"
  OBVIOUS
<1> HIDE DEF a
<1>2. c.op = "load" /\ c.arg = a
  BY CallSent
<1> HIDE DEF c
<1>3. ToolPending(c)
  BY <1>1, <1>2 DEF ToolPending
<1> QED BY <1>3 DEF c, a

LEMMA ConfigureStep == ASSUME ToolsOk(local, calls, db), handleConfigure PROVE ToolsOk(local', calls', db')
<1> DEFINE k == local.left - 1
<1>0. /\ local = ToolsRecord(local.left, local.list, local.loading, local.busy, local.drift)
      /\ Listing(calls) /\ UpToDate(local.list, local.drift, calls, db) /\ ToolCalls(local.busy, calls)
  BY Zenon DEF ToolsOk, IsTools
<1>1. PICK b \in ToolButtons \cup SummaryButtons :
         /\ local' = [[local EXCEPT !.busy = b] EXCEPT !.left = k]
         /\ calls' = Plus(calls, Call("tool", b)) /\ db' = db
  BY <1>0 DEF handleConfigure, Ask, Do, ToolsRecord
<1>2. local.busy = None /\ Free(calls) # {}
  BY RoomIsFree DEF handleConfigure
<1>3. b # None
  <2>1. b \in {"configure", "reset"} \X (Installed \cup {"all"})
    BY DEF ToolButtons, SummaryButtons, ShownTools
  <2> QED BY <2>1, ButtonsAssumption
<1> HIDE DEF k
<1>4. local' = ToolsRecord(k, local.list, local.loading, b, local.drift)
  BY <1>0, <1>1 DEF ToolsRecord
<1> DEFINE c == Call("tool", b)
<1>5. /\ Listing(calls') /\ Turn(calls, calls', {}, {c}) /\ c.op = "tool"
      /\ UpToDate(local.list, local.drift, calls', db)
  BY <1>0, <1>1, <1>2, TurnPlus
<1> HIDE DEF c
<1>6. ToolPending(c)
  BY <1>5 DEF ToolPending
<1>7. ToolCalls(b, calls')
  <2>1. {} \subseteq DOMAIN calls /\ \E e \in {c} : ToolPending(e)
    BY <1>6
  <2> QED BY <1>0, <1>2, <1>3, <1>5, <2>1, ToolTurn
<1> QED BY <1>1, <1>4, <1>5, <1>7, ToolsFields

LEMMA RefreshToolsStep == ASSUME ToolsOk(local, calls, db), RefreshTools PROVE ToolsOk(local', calls', db')
<1> DEFINE k == local.left - 1
           c == Call("load", [newest |-> TRUE, then |-> None])
<1>0. /\ local = ToolsRecord(local.left, local.list, local.loading, local.busy, local.drift)
      /\ Listing(calls) /\ UpToDate(local.list, local.drift, calls, db) /\ ToolCalls(local.busy, calls)
  BY Zenon DEF ToolsOk, IsTools
<1>1. local' = [local EXCEPT !.left = k] /\ calls' = LoadThen(calls, None) /\ db' = db /\ Free(calls) # {}
  BY RoomIsFree DEF RefreshTools, Ask, Do, Load
<1>2. ~ToolPending(c)
  BY NoLoadPends, ButtonsAssumption
<1> HIDE DEF k
<1>3. local' = ToolsRecord(k, local.list, local.loading, local.busy, local.drift)
  BY <1>0, <1>1 DEF ToolsRecord
<1>4. Listing(calls') /\ Turn(calls, calls', {}, {c}) /\ UpToDate(local.list, local.drift, calls', db)
  BY <1>0, <1>1, TurnLoad
<1> HIDE DEF c
<1>5. ToolCalls(local.busy, calls')
  <2>1. {} \subseteq DOMAIN calls /\ (\A e \in {c} : ~ToolPending(e)) /\ \A n \in {} : ~ToolPending(calls[n])
    BY <1>2
  <2> QED BY <1>0, <1>4, <2>1, ToolTurn
<1> QED BY <1>1, <1>3, <1>4, <1>5, ToolsFields

LEMMA ToolAnswersStep ==
    ASSUME ToolsOk(local, calls, db), NEW n \in DOMAIN calls, ToolAnswers(n) PROVE ToolsOk(local', calls', db')
<1> DEFINE c == Call("load", [newest |-> TRUE, then |-> "done"])
<1>0. /\ local = ToolsRecord(local.left, local.list, local.loading, local.busy, local.drift)
      /\ Listing(calls) /\ UpToDate(local.list, local.drift, calls, db) /\ ToolCalls(local.busy, calls)
  BY Zenon DEF ToolsOk, IsTools
<1>1. /\ calls[n].op = "tool"
      /\ \/ local' = [local EXCEPT !.busy = None] /\ calls' = Minus(calls, n) /\ db' = db
         \/ local' = local /\ calls' = LoadThen(Minus(calls, n), "done")
         \/ local' = [local EXCEPT !.busy = None, !.drift = TRUE] /\ calls' = Overlooked(Minus(calls, n))
      /\ ~Wrote(calls[n])
  BY DEF ToolAnswers, Reply, Do, Sent, Wrote
<1>2. ToolPending(calls[n]) /\ {n} \subseteq DOMAIN calls /\ \E m \in {n} : ToolPending(calls[m])
  BY <1>1 DEF ToolPending
<1>3. CASE local' = [local EXCEPT !.busy = None] /\ calls' = Minus(calls, n) /\ db' = db
  <2>1. local' = ToolsRecord(local.left, local.list, local.loading, None, local.drift)
    BY <1>0, <1>3 DEF ToolsRecord
  <2>2. Listing(calls') /\ Turn(calls, calls', {n}, {}) /\ UpToDate(local.list, local.drift, calls', db)
    BY <1>0, <1>1, <1>3, TurnMinus
  <2>3. ToolCalls(None, calls')
    <3>1. \A e \in {} : ~ToolPending(e)
      OBVIOUS
    <3> QED BY <1>0, <1>2, <2>2, <3>1, ToolTurn
  <2> QED BY <1>3, <2>1, <2>2, <2>3, ToolsFields
<1>4. CASE local' = local /\ calls' = LoadThen(Minus(calls, n), "done")
  <2>1. Listing(calls') /\ Turn(calls, calls', {n}, {c}) /\ UpToDate(local.list, local.drift, calls', db')
    BY <1>0, <1>4, TurnReload
  <2>2. \E e \in {c} : ToolPending(e)
    BY DonePends
  <2> HIDE DEF c
  <2>3. ToolCalls(local.busy, calls')
    BY <1>0, <1>2, <2>1, <2>2, ToolTurn
  <2>4. local' = ToolsRecord(local.left, local.list, local.loading, local.busy, local.drift)
    BY <1>0, <1>4
  <2> QED BY <2>1, <2>3, <2>4, ToolsFields
<1>5. CASE local' = [local EXCEPT !.busy = None, !.drift = TRUE] /\ calls' = Overlooked(Minus(calls, n))
  <2> DEFINE t == TRUE
  <2>0. local' = [local EXCEPT !.busy = None, !.drift = t]
    BY <1>5
  <2> HIDE DEF t
  <2>1. local' = ToolsRecord(local.left, local.list, local.loading, None, t)
    BY <1>0, <2>0 DEF ToolsRecord
  <2>2. Listing(calls') /\ Turn(calls, calls', {n}, {}) /\ UpToDate(local.list, TRUE, calls', db')
    BY <1>0, <1>1, <1>5, TurnMissed
  <2>3. ToolCalls(None, calls')
    <3>1. \A e \in {} : ~ToolPending(e)
      OBVIOUS
    <3> QED BY <1>0, <1>2, <2>2, <3>1, ToolTurn
  <2>4. UpToDate(local.list, t, calls', db')
    BY <2>2 DEF t
  <2> QED BY <2>1, <2>2, <2>3, <2>4, ToolsFields
<1> QED BY <1>1, <1>3, <1>4, <1>5

\* What the list is after an answer.
LEMMA TurnLoaded ==
    ASSUME Listing(calls), NEW n, NEW ok \in BOOLEAN, Read(n, ok), NEW list, NEW drift, UpToDate(list, drift, calls, db)
    PROVE  /\ n \in DOMAIN calls /\ calls[n].op = "load"
           /\ Listing(Minus(calls, n)) /\ Turn(calls, Minus(calls, n), {n}, {})
           /\ ok  => UpToDate(calls[n].got, ~calls[n].arg.newest, Minus(calls, n), db)
           /\ ~ok => UpToDate(list, TRUE, Minus(calls, n), db)
<1>1. n \in DOMAIN calls /\ calls[n].op = "load" /\ (ok => calls[n].at = "served")
  BY DEF Read
<1>2. Listing(Minus(calls, n)) /\ Turn(calls, Minus(calls, n), {n}, {})
  BY <1>1, TurnMinus
<1>3. /\ ok  => UpToDate(calls[n].got, ~calls[n].arg.newest, Minus(calls, n), db)
      /\ ~ok => UpToDate(list, TRUE, Minus(calls, n), db)
  BY <1>1, UpToDateMinus
<1> QED BY <1>1, <1>2, <1>3

LEMMA ToolsLoadedStep ==
    ASSUME ToolsOk(local, calls, db), NEW n \in DOMAIN calls, ToolsLoaded(n) PROVE ToolsOk(local', calls', db')
<1>0. /\ local = ToolsRecord(local.left, local.list, local.loading, local.busy, local.drift)
      /\ Listing(calls) /\ UpToDate(local.list, local.drift, calls, db) /\ ToolCalls(local.busy, calls)
  BY Zenon DEF ToolsOk, IsTools
<1> DEFINE b == IF calls[n].arg.then = "done" THEN None ELSE local.busy
           fresh == ~calls[n].arg.newest
<1>1. PICK ok \in BOOLEAN :
         /\ Read(n, ok) /\ db' = db /\ calls' = Minus(calls, n)
         /\ local' = IF calls[n].arg.then = "done" THEN [Loaded(local, n, ok) EXCEPT !.busy = None] ELSE Loaded(local, n, ok)
  BY DEF ToolsLoaded, Do
<1>2. /\ calls[n].op = "load" /\ Listing(calls') /\ Turn(calls, calls', {n}, {})
      /\ ok  => UpToDate(calls[n].got, fresh, calls', db)
      /\ ~ok => UpToDate(local.list, TRUE, calls', db)
  BY <1>0, <1>1, TurnLoaded
<1>3. ToolCalls(b, calls')
  <2>1. {n} \subseteq DOMAIN calls /\ \A e \in {} : ~ToolPending(e)
    OBVIOUS
  <2>2. calls[n].arg.then = "done" <=> ToolPending(calls[n])
    BY <1>2 DEF ToolPending
  <2>3. CASE ToolPending(calls[n])
    <3>1. b = None /\ \E m \in {n} : ToolPending(calls[m])
      BY <2>2, <2>3
    <3> HIDE DEF b
    <3> QED BY <1>0, <1>2, <2>1, <3>1, ToolTurn
  <2>4. CASE ~ToolPending(calls[n])
    <3>1. b = local.busy /\ \A m \in {n} : ~ToolPending(calls[m])
      BY <2>2, <2>4
    <3> HIDE DEF b
    <3> QED BY <1>0, <1>2, <2>1, <3>1, ToolTurn
  <2> QED BY <2>3, <2>4
<1> DEFINE r == Loaded(local, n, ok)
           f == FALSE
           t == TRUE
<1>4. IsTools(r) /\ r.busy = local.busy /\ UpToDate(r.list, r.drift, calls', db)
  <2>1. IsTools(local)
    BY DEF ToolsOk
  <2>2. CASE ok
    <3>1. r = [local EXCEPT !.loading = f, !.list = calls[n].got, !.drift = fresh]
      BY <2>2 DEF Loaded
    <3> HIDE DEF r, f, fresh
    <3>2. IsTools(r) /\ r.busy = local.busy /\ r.list = calls[n].got /\ r.drift = fresh
      BY <2>1, <3>1 DEF IsTools, ToolsRecord
    <3> QED BY <1>2, <2>2, <3>2
  <2>3. CASE ~ok
    <3>1. r = [local EXCEPT !.loading = f, !.drift = t] /\ UpToDate(local.list, t, calls', db)
      BY <1>2, <2>3 DEF Loaded
    <3> HIDE DEF r, f, t
    <3>2. IsTools(r) /\ r.busy = local.busy /\ r.list = local.list /\ r.drift = t
      BY <2>1, <3>1 DEF IsTools, ToolsRecord
    <3> QED BY <3>1, <3>2
  <2> QED BY <2>2, <2>3
<1> HIDE DEF r
<1>5. IsTools(local') /\ local'.busy = b /\ local'.list = r.list /\ local'.drift = r.drift
  <2>1. CASE calls[n].arg.then = "done"
    <3>1. local' = [r EXCEPT !.busy = None]
      BY <1>1, <2>1 DEF r
    <3> QED BY <1>4, <2>1, <3>1, ToolsFreed
  <2>2. CASE calls[n].arg.then # "done"
    <3>1. local' = r
      BY <1>1, <2>2 DEF r
    <3> QED BY <1>4, <2>2, <3>1
  <2> QED BY <2>1, <2>2
<1> HIDE DEF b
<1> QED BY <1>1, <1>2, <1>3, <1>4, <1>5 DEF ToolsOk

LEMMA ToolsStep == ASSUME ToolsOk(local, calls, db), ToolsNext PROVE ToolsOk(local', calls', db')
<1>1. ASSUME NEW n \in DOMAIN calls, ReadServed(n) PROVE ToolsOk(local', calls', db')
  <2>0. Listing(calls) /\ UpToDate(local.list, local.drift, calls, db) /\ ToolCalls(local.busy, calls) /\ IsTools(local)
    BY DEF ToolsOk
  <2>1. /\ Listing(calls') /\ Turn(calls, calls', {}, {}) /\ local' = local /\ db' = db
        /\ UpToDate(local.list, local.drift, calls', db)
    BY <1>1, <2>0, TurnServed
  <2>2. ToolCalls(local.busy, calls')
    <3>1. {} \subseteq DOMAIN calls /\ (\A e \in {} : ~ToolPending(e)) /\ \A m \in {} : ~ToolPending(calls[m])
      OBVIOUS
    <3> QED BY <2>0, <2>1, <3>1, ToolTurn
  <2> QED BY <2>0, <2>1, <2>2 DEF ToolsOk
<1> QED BY <1>1, ConfigureStep, RefreshToolsStep, ToolAnswersStep, ToolsLoadedStep DEF ToolsNext

LEMMA NothingUnderWay == Listing(NoCalls) /\ Free(NoCalls) # {}
<1>1. 1 \in Free(NoCalls)
  BY NoCallsEmpty, BoundsAssumption DEF Free
<1> QED BY <1>1, NoCallsEmpty DEF Listing, AreReads

LEMMA ToolsStart == ToolsInit => ToolsOk(local, calls, db)
<1> SUFFICES ASSUME ToolsInit PROVE ToolsOk(local, calls, db)
  OBVIOUS
<1> DEFINE c == Call("load", [newest |-> TRUE, then |-> None])
<1>1. local = ToolsRecord(MaxClicks, None, TRUE, None, TRUE) /\ calls = LoadThen(NoCalls, None)
  BY DEF ToolsInit, ToolsRecord, Load
<1>2. Listing(calls) /\ Turn(NoCalls, calls, {}, {c}) /\ UpToDate(None, TRUE, calls, db)
  BY <1>1, NothingUnderWay, TurnLoad
<1>3. ~ToolPending(c)
  BY NoLoadPends, ButtonsAssumption
<1> HIDE DEF c
<1>4. ToolCalls(None, calls)
  <2>1. ToolCalls(None, NoCalls)
    BY NoCallsEmpty DEF ToolCalls
  <2>2. {} \subseteq DOMAIN NoCalls /\ (\A e \in {c} : ~ToolPending(e)) /\ \A m \in {} : ~ToolPending(NoCalls[m])
    BY <1>3
  <2> QED BY <1>2, <2>1, <2>2, ToolTurn
<1> QED BY <1>1, <1>2, <1>4, ToolsFields

LEMMA ToolsSettle ==
    ASSUME ToolsOk(local, calls, db)
    PROVE  /\ local.busy # None <=> Outstanding({"tool"}) \/ \E n \in Waiting("load") : calls[n].arg.then = "done"
           /\ calls = NoCalls /\ ~local.drift => local.list = db
<1>1. local.busy # None <=> Outstanding({"tool"}) \/ \E n \in Waiting("load") : calls[n].arg.then = "done"
  BY DEF ToolsOk, ToolCalls, ToolPending, Outstanding, Waiting
<1>2. calls = NoCalls /\ ~local.drift => local.list = db
  BY NoCallsEmpty DEF ToolsOk, UpToDate
<1> QED BY <1>1, <1>2

-----------------------------------------------------------------------------
(* The quotas of the cards: a group spins while its batch is under way,    *)
(* and there is one refresh at a time.                                     *)

IsBatch(a) == a.ids # {} /\ \A c \in a.ids : c \in CardIds /\ GroupOf(c) = a.group
CardCalls(fetching, flight, cs) ==
    /\ Named(cs)
    /\ \A n \in DOMAIN cs : cs[n].op = "group" => IsBatch(cs[n].arg) /\ cs[n].arg.group \in fetching
    /\ \A g \in fetching : \E n \in DOMAIN cs : cs[n].op = "group" /\ cs[n].arg.group = g
    /\ \A m, n \in DOMAIN cs : cs[m].op = "group" /\ cs[n].op = "group" /\ cs[m].arg.group = cs[n].arg.group => m = n
    /\ flight <=> \E n \in DOMAIN cs : cs[n].op = "refresh"
    /\ \A m, n \in DOMAIN cs : cs[m].op = "refresh" /\ cs[n].op = "refresh" => m = n
CardsRecord(c, a, fd, fg, fl, r, i) ==
    [left |-> c, auto |-> a, fetched |-> fd, fetching |-> fg, flight |-> fl, result |-> r, list |-> i]
IsCards(l) == l = CardsRecord(l.left, l.auto, l.fetched, l.fetching, l.flight, l.result, l.list)
\* A group that was fetched has something to show.
HasShown(fetched, result) == \A g \in fetched : \E c \in CardIds : GroupOf(c) = g /\ result[c] # None
CardsOk(l, cs) == IsCards(l) /\ CardCalls(l.fetching, l.flight, cs) /\ HasShown(l.fetched, l.result)

LEMMA CardsFields ==
    ASSUME NEW c, NEW a, NEW fd, NEW fg, NEW fl, NEW r, NEW i, NEW cs, NEW l, l = CardsRecord(c, a, fd, fg, fl, r, i),
           CardCalls(fg, fl, cs), HasShown(fd, r)
    PROVE  CardsOk(l, cs)
<1>1. IsCards(l) /\ l.fetching = fg /\ l.flight = fl /\ l.fetched = fd /\ l.result = r
  BY DEF IsCards, CardsRecord
<1> QED BY <1>1 DEF CardsOk

\* One request more takes one slot.
LEMMA FreeSlots ==
    ASSUME NEW cs
    PROVE  /\ Cardinality(Free(cs)) \in Nat
           /\ Cardinality(Free(cs)) >= 1 => Free(cs) # {}
           /\ Free(cs) # {} => \A c : Cardinality(Free(Plus(cs, c))) = Cardinality(Free(cs)) - 1
<1>1. IsFiniteSet(Free(cs)) /\ Cardinality(Free(cs)) \in Nat
  <2>1. IsFiniteSet(1..MaxCalls)
    BY FS_Interval, BoundsAssumption
  <2>2. IsFiniteSet(Free(cs))
    BY <2>1, FS_Subset DEF Free
  <2> QED BY <2>2, FS_CardinalityType
<1>2. Cardinality(Free(cs)) >= 1 => Free(cs) # {}
  BY FS_EmptySet
<1>3. ASSUME Free(cs) # {}, NEW c PROVE Cardinality(Free(Plus(cs, c))) = Cardinality(Free(cs)) - 1
  <2>1. Slot(cs) \in Free(cs)
    BY <1>3, SlotIsFree
  <2>2. DOMAIN Plus(cs, c) = DOMAIN cs \cup {Slot(cs)}
    BY <1>3 DEF Plus
  <2>3. Free(Plus(cs, c)) = Free(cs) \ {Slot(cs)}
    BY <2>2 DEF Free
  <2> QED BY <1>1, <2>1, <2>3, FS_RemoveElement
<1> QED BY <1>1, <1>2, <1>3

LEMMA BatchStarts ==
    ASSUME NEW fetching, NEW flight, NEW cs, CardCalls(fetching, flight, cs), Free(cs) # {},
           NEW a, IsBatch(a), a.group \notin fetching
    PROVE  CardCalls(fetching \cup {a.group}, flight, Plus(cs, Call("group", a)))
<1> DEFINE c == Call("group", a)
           ds == Plus(cs, c)
<1>1. /\ Named(ds) /\ c.op = "group" /\ c.arg = a
      /\ \A n \in DOMAIN ds : ds[n] = c \/ (n \in DOMAIN cs /\ ds[n] = cs[n])
      /\ \A m, n \in DOMAIN ds : m # n => (m \in DOMAIN cs /\ ds[m] = cs[m]) \/ (n \in DOMAIN cs /\ ds[n] = cs[n])
      /\ \A n \in DOMAIN cs : n \in DOMAIN ds /\ ds[n] = cs[n]
      /\ \E n \in DOMAIN ds : ds[n] = c
  BY NamedPlus DEF CardCalls
<1> HIDE DEF c, ds
<1> DEFINE g == a.group
           fg == fetching \cup {g}
<1>2. \A n \in DOMAIN ds : ds[n].op = "group" => IsBatch(ds[n].arg) /\ ds[n].arg.group \in fg
  BY <1>1 DEF CardCalls
<1>3. \A h \in fg : \E n \in DOMAIN ds : ds[n].op = "group" /\ ds[n].arg.group = h
  BY <1>1 DEF CardCalls
<1>4. \A m, n \in DOMAIN ds : ds[m].op = "group" /\ ds[n].op = "group" /\ ds[m].arg.group = ds[n].arg.group => m = n
  <2> SUFFICES ASSUME NEW m \in DOMAIN ds, NEW n \in DOMAIN ds, m # n, ds[m].op = "group", ds[n].op = "group",
                      ds[m].arg.group = ds[n].arg.group
               PROVE  FALSE
    OBVIOUS
  <2>1. \/ m \in DOMAIN cs /\ ds[m] = cs[m] /\ ds[n] = c
        \/ n \in DOMAIN cs /\ ds[n] = cs[n] /\ ds[m] = c
        \/ m \in DOMAIN cs /\ ds[m] = cs[m] /\ n \in DOMAIN cs /\ ds[n] = cs[n]
    BY <1>1
  <2> QED BY <1>1, <2>1 DEF CardCalls
<1>5. /\ flight <=> \E n \in DOMAIN ds : ds[n].op = "refresh"
      /\ \A m, n \in DOMAIN ds : ds[m].op = "refresh" /\ ds[n].op = "refresh" => m = n
  BY <1>1 DEF CardCalls
<1>6. CardCalls(fg, flight, ds)
  BY <1>1, <1>2, <1>3, <1>4, <1>5 DEF CardCalls
<1> QED BY <1>6 DEF ds, c

LEMMA RefreshSent ==
    ASSUME NEW fetching, NEW cs, CardCalls(fetching, FALSE, cs), Free(cs) # {}, NEW a
    PROVE  CardCalls(fetching, TRUE, Plus(cs, Call("refresh", a)))
<1> DEFINE c == Call("refresh", a)
           ds == Plus(cs, c)
<1>1. /\ Named(ds) /\ c.op = "refresh" /\ c.arg = a
      /\ \A n \in DOMAIN ds : ds[n] = c \/ (n \in DOMAIN cs /\ ds[n] = cs[n])
      /\ \A m, n \in DOMAIN ds : m # n => (m \in DOMAIN cs /\ ds[m] = cs[m]) \/ (n \in DOMAIN cs /\ ds[n] = cs[n])
      /\ \A n \in DOMAIN cs : n \in DOMAIN ds /\ ds[n] = cs[n]
      /\ \E n \in DOMAIN ds : ds[n] = c
  BY NamedPlus DEF CardCalls
<1> HIDE DEF c, ds
<1>2. \A n \in DOMAIN ds : ds[n].op = "group" => n \in DOMAIN cs /\ ds[n] = cs[n]
  BY <1>1
<1>3. /\ \A n \in DOMAIN ds : ds[n].op = "group" => IsBatch(ds[n].arg) /\ ds[n].arg.group \in fetching
      /\ \A g \in fetching : \E n \in DOMAIN ds : ds[n].op = "group" /\ ds[n].arg.group = g
      /\ \A m, n \in DOMAIN ds : ds[m].op = "group" /\ ds[n].op = "group" /\ ds[m].arg.group = ds[n].arg.group => m = n
  BY <1>1, <1>2 DEF CardCalls
<1>4. /\ \E n \in DOMAIN ds : ds[n].op = "refresh"
      /\ \A m, n \in DOMAIN ds : ds[m].op = "refresh" /\ ds[n].op = "refresh" => m = n
  BY <1>1 DEF CardCalls
<1>5. CardCalls(fetching, TRUE, ds)
  BY <1>1, <1>3, <1>4 DEF CardCalls
<1> QED BY <1>5 DEF ds, c

LEMMA CardAnswered ==
    ASSUME NEW fetching, NEW flight, NEW cs, CardCalls(fetching, flight, cs), NEW n \in DOMAIN cs
    PROVE  /\ cs[n].op = "group" => CardCalls(fetching \ {cs[n].arg.group}, flight, Minus(cs, n))
           /\ cs[n].op = "refresh" => CardCalls(fetching, FALSE, Minus(cs, n))
           /\ Free(Minus(cs, n)) # {}
<1> DEFINE ds == Minus(cs, n)
<1>1. Named(ds) /\ DOMAIN ds = DOMAIN cs \ {n} /\ (\A m \in DOMAIN ds : ds[m] = cs[m]) /\ Free(ds) # {}
  BY NamedMinus DEF CardCalls
<1> HIDE DEF ds
<1>2. ASSUME cs[n].op = "group" PROVE CardCalls(fetching \ {cs[n].arg.group}, flight, ds)
  BY <1>1, <1>2 DEF CardCalls
<1>3. ASSUME cs[n].op = "refresh" PROVE CardCalls(fetching, FALSE, ds)
  BY <1>1, <1>3 DEF CardCalls
<1> QED BY <1>1, <1>2, <1>3 DEF ds

\* The refresh that may follow a change of the list or of the fetched groups.
LEMMA RefreshFollows ==
    ASSUME NEW l, NEW cs, CardsOk(l, cs), Refreshes(l) => Free(cs) # {}, StartRefresh(l, cs)
    PROVE  CardsOk(local', calls') /\ db' = db
<1>1. CASE ~Refreshes(l)
  <2>1. local' = l /\ calls' = cs /\ db' = db
    BY <1>1 DEF StartRefresh, Do
  <2> QED BY <2>1
<1>2. CASE Refreshes(l)
  <2> DEFINE a == ActiveIn(l, l.fetched)
  <2>1. local' = [l EXCEPT !.flight = TRUE] /\ calls' = Plus(cs, Call("refresh", a)) /\ db' = db
    BY <1>2 DEF StartRefresh, Do
  <2>2. ~l.flight /\ Free(cs) # {}
    BY <1>2 DEF Refreshes
  <2> HIDE DEF a
  <2>3. local' = CardsRecord(l.left, l.auto, l.fetched, l.fetching, TRUE, l.result, l.list) /\ HasShown(l.fetched, l.result)
    BY <2>1 DEF CardsOk, IsCards, CardsRecord
  <2>4. CardCalls(l.fetching, FALSE, cs)
    BY <2>2 DEF CardsOk, CardCalls
  <2>5. CardCalls(l.fetching, TRUE, calls')
    BY Zenon, <2>1, <2>2, <2>4, RefreshSent
  <2> QED BY Zenon, <2>1, <2>3, <2>5, CardsFields
<1> QED BY <1>1, <1>2

\* What a batch says replaces what was said; nothing that was shown goes.
LEMMA MergeShows ==
    ASSUME NEW l, IsCards(l), NEW got, \A c \in DOMAIN got : got[c] \in Answers
    PROVE  LET m == Merge(l, got) IN
           /\ \E r, i : m = CardsRecord(l.left, l.auto, l.fetched, l.fetching, l.flight, r, i)
           /\ IsCards(m)
           /\ \A c \in CardIds : l.result[c] # None \/ c \in DOMAIN got => m.result[c] # None
<1> DEFINE r == [c \in CardIds |-> IF c \in DOMAIN got THEN got[c] ELSE l.result[c]]
           i == [c \in CardIds |-> IF c \in DOMAIN got /\ got[c] = "fine" THEN [l.list[c] EXCEPT !.limited = FALSE] ELSE l.list[c]]
           m == Merge(l, got)
<1>1. m = [l EXCEPT !.result = r, !.list = i]
  BY DEF Merge
<1>2. \A c \in CardIds : l.result[c] # None \/ c \in DOMAIN got => r[c] # None
  BY AnswersAssumption
<1> HIDE DEF r, i, m
<1>3. m = CardsRecord(l.left, l.auto, l.fetched, l.fetching, l.flight, r, i)
  BY <1>1 DEF IsCards, CardsRecord
<1>4. IsCards(m) /\ m.result = r
  BY <1>3 DEF IsCards, CardsRecord
<1> QED BY <1>2, <1>3, <1>4 DEF m

LEMMA GroupStarts ==
    ASSUME NEW fetching, NEW flight, NEW cs, CardCalls(fetching, flight, cs), Free(cs) # {},
           NEW l, NEW g, g \notin fetching, ActiveIn(l, {g}) # {}
    PROVE  CardCalls(fetching \cup {g}, flight, StartGroup(l, cs, g))
<1> DEFINE a == [group |-> g, ids |-> ActiveIn(l, {g})]
<1>1. a.group = g /\ IsBatch(a)
  BY DEF IsBatch, ActiveIn
<1>2. StartGroup(l, cs, g) = Plus(cs, Call("group", a))
  BY DEF StartGroup
<1> HIDE DEF a
<1>3. CardCalls(fetching \cup {a.group}, flight, Plus(cs, Call("group", a)))
  BY <1>1, BatchStarts
<1> QED BY <1>1, <1>2, <1>3

\* One of several groups: it takes a slot if it is asked for.
LEMMA StartIfCalls ==
    ASSUME NEW fetching, NEW flight, NEW cs, CardCalls(fetching, flight, cs), NEW l, NEW g, NEW groups, g \notin fetching,
           g \in groups => ActiveIn(l, {g}) # {} /\ Free(cs) # {}
    PROVE  LET ds == StartIf(l, cs, g, groups) IN
           /\ CardCalls(fetching \cup ({g} \cap groups), flight, ds)
           /\ g \in groups => Cardinality(Free(ds)) = Cardinality(Free(cs)) - 1
           /\ g \notin groups => ds = cs
<1>1. CASE g \in groups
  <2> DEFINE ds == StartGroup(l, cs, g)
  <2>1. StartIf(l, cs, g, groups) = ds /\ {g} \cap groups = {g}
    BY <1>1 DEF StartIf
  <2>2. CardCalls(fetching \cup {g}, flight, ds)
    BY <1>1, GroupStarts
  <2>3. Cardinality(Free(ds)) = Cardinality(Free(cs)) - 1
    BY <1>1, FreeSlots DEF StartGroup
  <2> HIDE DEF ds
  <2> QED BY <1>1, <2>1, <2>2, <2>3
<1>2. CASE g \notin groups
  <2>1. StartIf(l, cs, g, groups) = cs /\ fetching \cup ({g} \cap groups) = fetching
    BY <1>2 DEF StartIf
  <2> QED BY <1>2, <2>1
<1> QED BY <1>1, <1>2

LEMMA GroupsAreTwo == Groups \subseteq {"kiro", "openai"}
BY DEF Groups, GroupOf

LEMMA CountTwo ==
    ASSUME NEW S, S \subseteq {"kiro", "openai"}
    PROVE  Cardinality(S) = (IF "kiro" \in S THEN 1 ELSE 0) + (IF "openai" \in S THEN 1 ELSE 0)
<1>1. CASE S = {}
  <2>1. Cardinality(S) = 0
    BY <1>1, FS_EmptySet
  <2> QED BY <1>1, <2>1
<1>2. CASE S = {"kiro"}
  <2>1. Cardinality(S) = 1
    BY <1>2, FS_Singleton
  <2> QED BY <1>2, <2>1
<1>3. CASE S = {"openai"}
  <2>1. Cardinality(S) = 1
    BY <1>3, FS_Singleton
  <2> QED BY <1>3, <2>1
<1>4. CASE S = {"kiro", "openai"}
  <2>1. S = {"kiro"} \cup {"openai"} /\ "openai" \notin {"kiro"}
    BY <1>4
  <2>2. IsFiniteSet({"kiro"}) /\ Cardinality({"kiro"}) = 1
    BY FS_Singleton
  <2>3. Cardinality(S) = 2
    BY <2>1, <2>2, FS_AddElement
  <2> QED BY <1>4, <2>3
<1> QED BY <1>1, <1>2, <1>3, <1>4

\* All groups of a set start, and as much room is left as was asked for.
LEMMA GroupsStart ==
    ASSUME NEW fetching, NEW flight, NEW cs, CardCalls(fetching, flight, cs), NEW l, NEW groups, NEW r \in Nat,
           groups \subseteq {"kiro", "openai"}, groups \cap fetching = {}, \A g \in groups : ActiveIn(l, {g}) # {},
           Cardinality(Free(cs)) >= Cardinality(groups) + r
    PROVE  /\ CardCalls(fetching \cup groups, flight, StartGroups(l, cs, groups))
           /\ r >= 1 => Free(StartGroups(l, cs, groups)) # {}
<1> DEFINE ds == StartIf(l, cs, "kiro", groups)
           fg == fetching \cup ({"kiro"} \cap groups)
           es == StartIf(l, ds, "openai", groups)
           gg == fg \cup ({"openai"} \cap groups)
           a == IF "kiro" \in groups THEN 1 ELSE 0
           b == IF "openai" \in groups THEN 1 ELSE 0
<1>1. Cardinality(groups) = a + b /\ a \in Nat /\ b \in Nat
  BY CountTwo
<1>2. Cardinality(Free(cs)) \in Nat /\ Cardinality(Free(cs)) >= a + b + r
  BY <1>1, FreeSlots
<1>3. CardCalls(fg, flight, ds) /\ Cardinality(Free(ds)) = Cardinality(Free(cs)) - a
  <2>1. CASE "kiro" \in groups
    <3>1. Free(cs) # {} /\ "kiro" \notin fetching /\ ActiveIn(l, {"kiro"}) # {}
      BY <1>1, <1>2, <2>1, FreeSlots
    <3>2. CardCalls(fg, flight, ds) /\ Cardinality(Free(ds)) = Cardinality(Free(cs)) - 1
      BY <2>1, <3>1, StartIfCalls
    <3> QED BY <2>1, <3>2
  <2>2. CASE "kiro" \notin groups
    <3>1. ds = cs /\ fg = fetching /\ a = 0
      BY <2>2 DEF StartIf
    <3> HIDE DEF ds, fg, a
    <3> QED BY <1>2, <3>1
  <2> QED BY <2>1, <2>2
<1> HIDE DEF ds
<1>4. Cardinality(Free(ds)) \in Nat /\ Cardinality(Free(ds)) >= b + r
  BY <1>1, <1>2, <1>3
<1>5. CardCalls(gg, flight, es) /\ Cardinality(Free(es)) = Cardinality(Free(ds)) - b
  <2>1. CASE "openai" \in groups
    <3>1. Free(ds) # {} /\ "openai" \notin fg /\ ActiveIn(l, {"openai"}) # {}
      BY <1>1, <1>4, <2>1, FreeSlots
    <3> HIDE DEF fg
    <3>2. CardCalls(gg, flight, es) /\ Cardinality(Free(es)) = Cardinality(Free(ds)) - 1
      BY <1>3, <2>1, <3>1, StartIfCalls
    <3> QED BY <2>1, <3>2
  <2>2. CASE "openai" \notin groups
    <3>1. es = ds /\ gg = fg /\ b = 0
      BY <2>2 DEF StartIf
    <3> HIDE DEF es, gg, b
    <3> QED BY <1>3, <1>4, <3>1
  <2> QED BY <2>1, <2>2
<1>6. gg = fetching \cup groups
  OBVIOUS
<1>7. es = StartGroups(l, cs, groups)
  BY DEF StartGroups, ds
<1> HIDE DEF es, gg, a, b
<1>8. r >= 1 => Cardinality(Free(es)) >= 1
  BY <1>1, <1>4, <1>5
<1> QED BY <1>5, <1>6, <1>7, <1>8, FreeSlots

LEMMA CardsStart == CardsInit => CardsOk(local, calls)
<1> SUFFICES ASSUME CardsInit PROVE CardsOk(local, calls)
  OBVIOUS
<1> DEFINE r == [c \in CardIds |-> None]
<1>1. PICK active, auto :
         local = CardsRecord(MaxClicks, auto, {}, {}, FALSE, r, [c \in CardIds |-> [active |-> c \in active, limited |-> TRUE]])
  BY DEF CardsInit, CardsRecord
<1>2. calls = NoCalls
  BY DEF CardsInit
<1> HIDE DEF r
<1>3. CardCalls({}, FALSE, calls) /\ HasShown({}, r)
  BY <1>2, NoCallsEmpty DEF CardCalls, Named, HasShown
<1> QED BY Zenon, <1>1, <1>3, CardsFields

LEMMA IntervalStep == ASSUME CardsOk(local, calls), IntervalFires PROVE CardsOk(local', calls')
<1>1. Free(calls) # {} /\ StartRefresh(local, calls)
  BY RoomIsFree DEF IntervalFires
<1> QED BY Zenon, <1>1, RefreshFollows

LEMMA ReloadStep == ASSUME CardsOk(local, calls), NEW c \in CardIds, CardsReload(c) PROVE CardsOk(local', calls')
<1> DEFINE k == local.left - 1
           i == [local.list EXCEPT ![c].active = ~@]
           l == [local EXCEPT !.list = i, !.left = k]
<1>1. Free(calls) # {} /\ StartRefresh(l, calls)
  BY RoomIsFree DEF CardsReload
<1>0. local = CardsRecord(local.left, local.auto, local.fetched, local.fetching, local.flight, local.result, local.list)
  BY DEF CardsOk, IsCards
<1> HIDE DEF k, i
<1>2. l = [local EXCEPT !.list = i, !.left = k]
  OBVIOUS
<1> HIDE DEF l
<1>3. l = CardsRecord(k, local.auto, local.fetched, local.fetching, local.flight, local.result, i)
  BY <1>0, <1>2 DEF CardsRecord
<1>4. CardsOk(l, calls)
  BY <1>3, CardsFields DEF CardsOk
<1> QED BY Zenon, <1>1, <1>4, RefreshFollows

LEMMA FetchGroupStep == ASSUME CardsOk(local, calls), NEW g, handleFetchGroupQuota(g) PROVE CardsOk(local', calls')
<1> DEFINE k == local.left - 1
           fg == local.fetching \cup {g}
<1>0. local = CardsRecord(local.left, local.auto, local.fetched, local.fetching, local.flight, local.result, local.list)
  BY DEF CardsOk, IsCards
<1>1. /\ local' = [[local EXCEPT !.fetching = fg] EXCEPT !.left = k]
      /\ calls' = StartGroup(local, calls, g)
  BY <1>0 DEF handleFetchGroupQuota, Ask, Do, CardsRecord
<1>2. Free(calls) # {} /\ g \notin local.fetching /\ ActiveIn(local, {g}) # {}
  BY RoomIsFree DEF handleFetchGroupQuota, QuotaButton
<1>3. CardCalls(fg, local.flight, calls')
  BY <1>1, <1>2, GroupStarts DEF CardsOk
<1> HIDE DEF k, fg
<1>4. local' = CardsRecord(k, local.auto, local.fetched, fg, local.flight, local.result, local.list)
  BY <1>0, <1>1 DEF CardsRecord
<1> QED BY <1>3, <1>4, CardsFields DEF CardsOk

LEMMA QuotaAutoStep == ASSUME CardsOk(local, calls), setQuotaAuto PROVE CardsOk(local', calls')
<1> DEFINE k == local.left - 1
           a == ~local.auto
           l == [local EXCEPT !.auto = a, !.left = k]
           U == Unfetched(l)
           r == IF Refreshes(l) THEN 1 ELSE 0
           fg == local.fetching \cup U
           m == [l EXCEPT !.fetching = fg]
           cs == StartGroups(l, calls, U)
<1> HIDE DEF k, a
<1>0. local = CardsRecord(local.left, local.auto, local.fetched, local.fetching, local.flight, local.result, local.list)
  BY DEF CardsOk, IsCards
<1>1. l = CardsRecord(k, a, local.fetched, local.fetching, local.flight, local.result, local.list)
  <2>1. l = [local EXCEPT !.auto = a, !.left = k]
    OBVIOUS
  <2> HIDE DEF l
  <2> QED BY <1>0, <2>1 DEF CardsRecord
<1>2. /\ l.fetching = local.fetching /\ l.flight = local.flight
      /\ l.fetched = local.fetched /\ l.result = local.result
  BY <1>1 DEF CardsRecord
<1>3. \/ local' = l /\ calls' = calls
      \/ Room(Cardinality(U) + r) /\ StartRefresh(m, cs)
  BY <1>2 DEF setQuotaAuto, Do, k, a
<1> HIDE DEF l
<1>4. CASE local' = l /\ calls' = calls
  BY <1>1, <1>4, CardsFields DEF CardsOk
<1>5. CASE Room(Cardinality(U) + r) /\ StartRefresh(m, cs)
  <2>1. U \subseteq {"kiro", "openai"} /\ U \cap local.fetching = {} /\ \A g \in U : ActiveIn(l, {g}) # {}
    BY <1>2, GroupsAreTwo DEF Unfetched
  <2>2. r \in Nat /\ (Refreshes(l) => r >= 1)
    OBVIOUS
  <2> HIDE DEF U, r
  <2>3. Cardinality(Free(calls)) >= Cardinality(U) + r
    BY <1>5 DEF Room
  <2>4. CardCalls(fg, local.flight, cs) /\ (r >= 1 => Free(cs) # {})
    <3>1. CardCalls(local.fetching, local.flight, calls)
      BY DEF CardsOk
    <3> DEFINE f == local.flight
               h == local.fetching
    <3>2. CardCalls(h, f, calls) /\ U \cap h = {}
      BY <2>1, <3>1
    <3> HIDE DEF f, h
    <3>3. CardCalls(h \cup U, f, cs) /\ (r >= 1 => Free(cs) # {})
      BY <2>1, <2>2, <2>3, <3>2, GroupsStart
    <3> QED BY <3>3 DEF f, h
  <2> HIDE DEF cs, fg
  <2>5. m = CardsRecord(k, a, local.fetched, fg, local.flight, local.result, local.list)
    BY <1>1 DEF CardsRecord
  <2>6. Refreshes(m) => Refreshes(l)
    BY <1>1, <2>5 DEF Refreshes, ActiveIn, CardsRecord
  <2> HIDE DEF m
  <2>7. CardsOk(m, cs)
    BY <2>4, <2>5, CardsFields DEF CardsOk
  <2> QED BY <1>5, <2>2, <2>4, <2>6, <2>7, RefreshFollows
<1> QED BY <1>3, <1>4, <1>5

LEMMA GroupAnswersStep ==
    ASSUME CardsOk(local, calls), NEW n \in DOMAIN calls, GroupAnswers(n) PROVE CardsOk(local', calls')
<1>1. PICK got \in Told(calls[n].arg.ids) :
         LET g == calls[n].arg.group IN
         StartRefresh([Merge(local, got) EXCEPT !.fetching = @ \ {g}, !.fetched = @ \cup {g}], Minus(calls, n))
  BY DEF GroupAnswers
<1> DEFINE g == calls[n].arg.group
           m == Merge(local, got)
           fg == local.fetching \ {g}
           fd == local.fetched \cup {g}
           l == [m EXCEPT !.fetching = m.fetching \ {g}, !.fetched = m.fetched \cup {g}]
           cs == Minus(calls, n)
<1>2. IsBatch(calls[n].arg) /\ CardCalls(fg, local.flight, cs) /\ Free(cs) # {}
  <2>1. CardCalls(local.fetching, local.flight, calls) /\ calls[n].op = "group"
    BY DEF CardsOk, GroupAnswers
  <2>2. IsBatch(calls[n].arg)
    BY <2>1 DEF CardCalls
  <2> DEFINE f == local.flight
             h == local.fetching
  <2>3. CardCalls(h, f, calls)
    BY <2>1
  <2> HIDE DEF f, h
  <2>4. CardCalls(h \ {g}, f, cs) /\ Free(cs) # {}
    BY <2>1, <2>3, CardAnswered
  <2> QED BY <2>2, <2>4 DEF f, h
<1>3. DOMAIN got = calls[n].arg.ids /\ \A c \in DOMAIN got : got[c] \in Answers
  BY DEF Told
<1>4. /\ \E r, i : m = CardsRecord(local.left, local.auto, local.fetched, local.fetching, local.flight, r, i)
      /\ \A c \in CardIds : local.result[c] # None \/ c \in DOMAIN got => m.result[c] # None
  BY <1>3, MergeShows DEF CardsOk
<1>5. StartRefresh(l, cs)
  BY <1>1
<1> HIDE DEF m, cs, g
<1>6. l = CardsRecord(local.left, local.auto, fd, fg, local.flight, m.result, m.list)
  <2> DEFINE x == m.fetching \ {g}
             y == m.fetched \cup {g}
  <2>1. l = [m EXCEPT !.fetching = x, !.fetched = y] /\ x = fg /\ y = fd
    BY <1>4 DEF CardsRecord
  <2> HIDE DEF l, x, y, fd, fg
  <2>2. m = CardsRecord(local.left, local.auto, local.fetched, local.fetching, local.flight, m.result, m.list)
    BY <1>4 DEF CardsRecord
  <2>3. l = CardsRecord(local.left, local.auto, y, x, local.flight, m.result, m.list)
    <3> DEFINE c == local.left
               a == local.auto
               fe == local.fetched
               ft == local.fetching
               fl == local.flight
               r == m.result
               i == m.list
    <3>1. m = CardsRecord(c, a, fe, ft, fl, r, i)
      BY <2>2
    <3>2. l = [m EXCEPT !.fetching = x, !.fetched = y]
      BY <2>1
    <3> HIDE DEF c, a, fe, ft, fl, r, i
    <3>3. l = CardsRecord(c, a, y, x, fl, r, i)
      BY <3>1, <3>2 DEF CardsRecord
    <3> QED BY <3>3 DEF c, a, fl, r, i
  <2> QED BY <2>1, <2>3
<1>7. HasShown(fd, m.result)
  BY <1>2, <1>3, <1>4 DEF HasShown, IsBatch, CardsOk, g
<1> HIDE DEF l, fd, fg
<1>8. CardsOk(l, cs)
  BY <1>2, <1>6, <1>7, CardsFields
<1> QED BY Zenon, <1>2, <1>5, <1>8, RefreshFollows

LEMMA RefreshAnswersStep ==
    ASSUME CardsOk(local, calls), NEW n \in DOMAIN calls, RefreshAnswers(n) PROVE CardsOk(local', calls')
<1>1. PICK told \in Told(calls[n].arg) :
         LET got == [c \in {d \in DOMAIN told : told[d] # "failed"} |-> told[c]]
             l == [Merge(local, got) EXCEPT !.flight = FALSE] IN
         IF got = << >> THEN Do(l, Minus(calls, n)) ELSE StartRefresh(l, Minus(calls, n))
  BY DEF RefreshAnswers
<1> DEFINE got == [c \in {d \in DOMAIN told : told[d] # "failed"} |-> told[c]]
           m == Merge(local, got)
           l == [m EXCEPT !.flight = FALSE]
           cs == Minus(calls, n)
<1>2. CardCalls(local.fetching, FALSE, cs) /\ Free(cs) # {}
  <2>1. CardCalls(local.fetching, local.flight, calls) /\ calls[n].op = "refresh"
    BY DEF CardsOk, RefreshAnswers
  <2> QED BY Zenon, <2>1, CardAnswered
<1>3. \A c \in DOMAIN got : got[c] \in Answers
  BY DEF Told
<1>4. (local' = l /\ calls' = cs) \/ StartRefresh(l, cs)
  BY <1>1 DEF Do
<1> HIDE DEF got, cs
<1>5. /\ \E r, i : m = CardsRecord(local.left, local.auto, local.fetched, local.fetching, local.flight, r, i)
      /\ \A c \in CardIds : local.result[c] # None \/ c \in DOMAIN got => m.result[c] # None
  BY <1>3, MergeShows DEF CardsOk
<1> HIDE DEF m
<1>6. l = CardsRecord(local.left, local.auto, local.fetched, local.fetching, FALSE, m.result, m.list)
  <2> DEFINE f == FALSE
  <2>1. l = [m EXCEPT !.flight = f]
    OBVIOUS
  <2> HIDE DEF l, f
  <2>2. l = CardsRecord(local.left, local.auto, local.fetched, local.fetching, f, m.result, m.list)
    BY <1>5, <2>1 DEF CardsRecord
  <2> QED BY <2>2 DEF f
<1>7. HasShown(local.fetched, m.result)
  BY <1>5 DEF HasShown, CardsOk
<1> HIDE DEF l
<1>8. CardsOk(l, cs)
  BY Zenon, <1>2, <1>6, <1>7, CardsFields
<1>9. CASE local' = l /\ calls' = cs
  BY <1>8, <1>9
<1>10. CASE StartRefresh(l, cs)
  BY Zenon, <1>2, <1>8, <1>10, RefreshFollows
<1> QED BY <1>4, <1>9, <1>10

LEMMA CardsStep == ASSUME CardsOk(local, calls), CardsNext PROVE CardsOk(local', calls')
BY IntervalStep, QuotaAutoStep, FetchGroupStep, ReloadStep, GroupAnswersStep, RefreshAnswersStep DEF CardsNext

LEMMA CardsSettled ==
    ASSUME CardsOk(local, calls)
    PROVE  /\ local.fetching = {calls[n].arg.group : n \in Waiting("group")}
           /\ Cardinality(local.fetching) = Cardinality(Waiting("group"))
           /\ Cardinality(Waiting("refresh")) = (IF local.flight THEN 1 ELSE 0)
           /\ \A g \in local.fetched : QuotaButtonSays(g) = "Refresh quotas"
                                       /\ \E c \in CardIds : GroupOf(c) = g /\ CardShows(c) # None
<1> DEFINE S == Waiting("group")
           R == Waiting("refresh")
           F == [n \in S |-> calls[n].arg.group]
<1>1. local.fetching = {calls[n].arg.group : n \in S}
  BY DEF CardsOk, CardCalls, Waiting
<1>2. Cardinality(local.fetching) = Cardinality(S)
  <2>1. F \in Bijection(S, local.fetching)
    <3>1. F \in [S -> local.fetching] /\ (\A t \in local.fetching : \E s \in S : F[s] = t)
      BY <1>1
    <3>2. \A m, n \in S : F[m] = F[n] => m = n
      BY DEF CardsOk, CardCalls, Waiting
    <3> HIDE DEF F, S
    <3> QED BY <3>1, <3>2, Fun_IsBij
  <2>2. IsFiniteSet(S)
    <3>1. IsFiniteSet(1..MaxCalls)
      BY FS_Interval, BoundsAssumption
    <3>2. S \subseteq 1..MaxCalls
      BY DEF CardsOk, CardCalls, Named, Waiting
    <3> QED BY <3>1, <3>2, FS_Subset
  <2> HIDE DEF F, S
  <2> QED BY <2>1, <2>2, FS_Bijection DEF ExistsBijection
<1>3. Cardinality(R) = (IF local.flight THEN 1 ELSE 0)
  <2>1. (\A m, n \in R : m = n) /\ (local.flight <=> R # {})
    BY DEF CardsOk, CardCalls, Waiting
  <2> HIDE DEF R
  <2>2. R = {} \/ \E n \in R : R = {n}
    BY <2>1
  <2>3. CASE R = {}
    <3>1. Cardinality(R) = 0
      BY <2>3, FS_EmptySet
    <3> QED BY <2>1, <2>3, <3>1
  <2>4. ASSUME NEW n \in R, R = {n} PROVE Cardinality(R) = (IF local.flight THEN 1 ELSE 0)
    <3>1. Cardinality(R) = 1
      BY <2>4, FS_Singleton
    <3> QED BY <2>1, <3>1
  <2> QED BY <2>2, <2>3, <2>4
<1>4. \A g \in local.fetched : QuotaButtonSays(g) = "Refresh quotas"
                               /\ \E c \in CardIds : GroupOf(c) = g /\ CardShows(c) # None
  BY DEF CardsOk, HasShown, QuotaButtonSays, CardShows
<1> QED BY <1>1, <1>2, <1>3, <1>4 DEF S, R

-----------------------------------------------------------------------------
(* The connections: what the screen waits for is under way.  While a run   *)
(* over several connections goes on, the list may be behind the server.    *)

IsRun(c, op) == c.op = "run" /\ c.arg.op = op
IsCopy(c, asked) == IsRun(c, "apply") /\ c.arg.asked = asked
IsOne(c, op, id) == c.op = "one" /\ c.arg.op = op /\ c.arg.id = id
HoldsBar(c) == c.op = "run" /\ c.arg.op \notin {"apply", "migrate"}

ListHeld(list, drift, cs, d) == (\E n \in DOMAIN cs : cs[n].op = "run") \/ UpToDate(list, drift, cs, d)
BarHeld(busy, cs) == busy # None => \E n \in DOMAIN cs : HoldsBar(cs[n])
DialogHeld(d, cs) ==
    d.kind # "none" =>
        /\ d.busy => \/ d.kind \in {"edit", "models", "delete"} /\ \E n \in DOMAIN cs : IsOne(cs[n], d.kind, d.arg)
                     \/ d.kind = "migrate" /\ \E n \in DOMAIN cs : IsRun(cs[n], "migrate")
        /\ d.apply = "running" => d.kind = "models" /\ \E n \in DOMAIN cs : IsCopy(cs[n], {d.arg})

DialogRecord(k, a, b, p) == [kind |-> k, arg |-> a, busy |-> b, apply |-> p]
IsDialog(d) == d = NoDialog \/ (d.kind # "none" /\ d = DialogRecord(d.kind, d.arg, d.busy, d.apply))
ConnRecord(c, i, lo, e, dr, se, sd, b, d) ==
    [left |-> c, list |-> i, loading |-> lo, error |-> e, drift |-> dr, selecting |-> se, selected |-> sd, busy |-> b, dialog |-> d]
IsConn(l) ==
    l = ConnRecord(l.left, l.list, l.loading, l.error, l.drift, l.selecting, l.selected, l.busy, l.dialog)
ConnOk(l, cs, d) ==
    /\ IsConn(l) /\ IsDialog(l.dialog) /\ Listing(cs)
    /\ ListHeld(l.list, l.drift, cs, d)
    /\ BarHeld(l.busy, cs)
    /\ DialogHeld(l.dialog, cs)

LEMMA ConnFields ==
    ASSUME NEW c, NEW i, NEW lo, NEW e, NEW dr, NEW se, NEW sd, NEW b, NEW g, NEW l,
           l = ConnRecord(c, i, lo, e, dr, se, sd, b, g)
    PROVE  /\ IsConn(l) /\ l.left = c /\ l.list = i /\ l.drift = dr /\ l.busy = b /\ l.dialog = g
           /\ l.loading = lo /\ l.error = e /\ l.selecting = se /\ l.selected = sd
BY DEF IsConn, ConnRecord

LEMMA NoDialogHeld == IsDialog(NoDialog) /\ \A cs : DialogHeld(NoDialog, cs)
BY DEF IsDialog, DialogHeld, NoDialog

LEMMA DialogFields ==
    ASSUME NEW k, k # "none", NEW a, NEW b, NEW p, NEW g, g = DialogRecord(k, a, b, p)
    PROVE  IsDialog(g) /\ g.kind = k /\ g.arg = a /\ g.busy = b /\ g.apply = p
BY DEF IsDialog, DialogRecord

LEMMA DialogOpens == ASSUME NEW k, k # "none", NEW a PROVE IsDialog(Dialog(k, a)) /\ \A cs : DialogHeld(Dialog(k, a), cs)
<1> DEFINE g == Dialog(k, a)
<1>1. IsDialog(g) /\ g.busy = FALSE /\ g.apply = "closed"
  BY DEF IsDialog, DialogRecord, Dialog
<1> HIDE DEF g
<1>2. \A cs : DialogHeld(g, cs)
  BY <1>1 DEF DialogHeld
<1> QED BY <1>1, <1>2 DEF g

\* What e and c make the screen wait for is the same.
Alike(e, c) ==
    /\ HoldsBar(e) <=> HoldsBar(c)
    /\ e.op = "run" <=> c.op = "run"
    /\ \A k : IsRun(e, k) <=> IsRun(c, k)
    /\ \A a : IsCopy(e, a) <=> IsCopy(c, a)
    /\ \A k, a : IsOne(e, k, a) <=> IsOne(c, k, a)

LEMMA KindredHeld == ASSUME NEW e, NEW c, Kindred(e, c) PROVE Alike(e, c)
BY DEF Kindred, Alike, HoldsBar, IsRun, IsCopy, IsOne

LEMMA HeldCarries ==
    ASSUME NEW cs, NEW ds, \A n \in DOMAIN cs : \E m \in DOMAIN ds : Alike(ds[m], cs[n])
    PROVE  /\ \A b : BarHeld(b, cs) => BarHeld(b, ds)
           /\ \A g : DialogHeld(g, cs) => DialogHeld(g, ds)
           /\ (\E n \in DOMAIN cs : cs[n].op = "run") => \E n \in DOMAIN ds : ds[n].op = "run"
<1>1. \A b : BarHeld(b, cs) => BarHeld(b, ds)
  BY DEF BarHeld, Alike
<1>2. ASSUME NEW g, DialogHeld(g, cs) PROVE DialogHeld(g, ds)
  <2>1. (\E n \in DOMAIN cs : IsOne(cs[n], g.kind, g.arg)) => \E n \in DOMAIN ds : IsOne(ds[n], g.kind, g.arg)
    BY DEF Alike
  <2>2. (\E n \in DOMAIN cs : IsRun(cs[n], "migrate")) => \E n \in DOMAIN ds : IsRun(ds[n], "migrate")
    BY DEF Alike
  <2>3. (\E n \in DOMAIN cs : IsCopy(cs[n], {g.arg})) => \E n \in DOMAIN ds : IsCopy(ds[n], {g.arg})
    BY DEF Alike
  <2> QED BY Zenon, <1>2, <2>1, <2>2, <2>3 DEF DialogHeld
<1>3. (\E n \in DOMAIN cs : cs[n].op = "run") => \E n \in DOMAIN ds : ds[n].op = "run"
  BY DEF Alike
<1> QED BY <1>1, <1>2, <1>3

\* What is waited for stays while requests come, and what is sent is there.
LEMMA HeldGrows ==
    ASSUME NEW cs, NEW ds, NEW come, Turn(cs, ds, {}, come)
    PROVE  /\ \A b : BarHeld(b, cs) => BarHeld(b, ds)
           /\ \A g : DialogHeld(g, cs) => DialogHeld(g, ds)
           /\ (\E n \in DOMAIN cs : cs[n].op = "run") => \E n \in DOMAIN ds : ds[n].op = "run"
<1>1. \A n \in DOMAIN cs : \E m \in DOMAIN ds : Alike(ds[m], cs[n])
  BY KindredHeld DEF Turn
<1> QED BY <1>1, HeldCarries

LEMMA HeldComes ==
    ASSUME NEW cs, NEW ds, NEW gone, NEW c, Turn(cs, ds, gone, {c})
    PROVE  /\ HoldsBar(c) => \A b : BarHeld(b, ds)
           /\ c.op = "run" => \E n \in DOMAIN ds : ds[n].op = "run"
           /\ \A k : IsRun(c, k) => \E n \in DOMAIN ds : IsRun(ds[n], k)
           /\ \A a : IsCopy(c, a) => \E n \in DOMAIN ds : IsCopy(ds[n], a)
           /\ \A k, a : IsOne(c, k, a) => \E n \in DOMAIN ds : IsOne(ds[n], k, a)
<1>1. \E m \in DOMAIN ds : Kindred(ds[m], c)
  BY DEF Turn
<1>2. PICK m \in DOMAIN ds : Alike(ds[m], c)
  BY <1>1, KindredHeld
<1> QED BY <1>2 DEF BarHeld, Alike

\* A handler that sends at most one request leaves the screen in order, if it
\* waits for nothing but what was under way and what it sends.
LEMMA ConnStays ==
    ASSUME NEW l, ConnOk(l, calls, db), NEW come, Turn(calls, calls', {}, come), Listing(calls'), db' = db,
           \A list, drift : UpToDate(list, drift, calls, db) => UpToDate(list, drift, calls', db),
           IsConn(local'), local'.list = l.list, local'.drift = l.drift,
           local'.busy = l.busy \/ BarHeld(local'.busy, calls'),
           local'.dialog = l.dialog \/ (IsDialog(local'.dialog) /\ DialogHeld(local'.dialog, calls'))
    PROVE  ConnOk(local', calls', db')
<1>1. ListHeld(local'.list, local'.drift, calls', db')
  BY HeldGrows DEF ConnOk, ListHeld
<1>2. BarHeld(local'.busy, calls')
  BY HeldGrows DEF ConnOk
<1>3. DialogHeld(local'.dialog, calls') /\ IsDialog(local'.dialog)
  BY HeldGrows DEF ConnOk
<1> QED BY <1>1, <1>2, <1>3 DEF ConnOk

LEMMA TurnSame == ASSUME NEW cs PROVE Turn(cs, cs, {}, {})
BY DEF Turn, Kindred

LEMMA ConnIdle ==
    ASSUME ConnOk(local, calls, db), calls' = calls, db' = db,
           IsConn(local'), local'.list = local.list, local'.drift = local.drift, local'.busy = local.busy,
           local'.dialog = local.dialog \/ (IsDialog(local'.dialog) /\ DialogHeld(local'.dialog, calls))
    PROVE  ConnOk(local', calls', db')
<1>1. Turn(calls, calls', {}, {}) /\ Listing(calls')
  BY TurnSame DEF ConnOk
<1> QED BY <1>1, ConnStays

LEMMA OneSent == ASSUME NEW op, NEW id PROVE LET c == One(op, id) IN c.op = "one" /\ IsOne(c, op, id)
<1> DEFINE a == [op |-> op, id |-> id]
           c == Call("one", a)
<1>1. a.op = op /\ a.id = id
  OBVIOUS
<1> HIDE DEF a
<1>2. c.op = "one" /\ c.arg = a
  BY CallSent
<1> HIDE DEF c
<1>3. IsOne(c, op, id)
  BY <1>1, <1>2 DEF IsOne
<1> QED BY <1>2, <1>3 DEF One, c, a

LEMMA RunSent ==
    ASSUME NEW op, NEW S, NEW asked
    PROVE  LET c == Run(op, S, asked) IN c.op = "run" /\ IsRun(c, op) /\ c.arg.asked = asked /\ c.arg.op = op
<1> DEFINE a == [op |-> op, id |-> Lowest(S), rest |-> S \ {Lowest(S)}, asked |-> asked]
           c == Call("run", a)
<1>1. a.op = op /\ a.asked = asked
  OBVIOUS
<1> HIDE DEF a
<1>2. c.op = "run" /\ c.arg = a
  BY CallSent
<1> HIDE DEF c
<1>3. IsRun(c, op) /\ c.arg.asked = asked /\ c.arg.op = op
  BY <1>1, <1>2 DEF IsRun
<1> QED BY <1>2, <1>3 DEF Run, c, a

\* One request of a handler.
LEMMA OneGoes ==
    ASSUME ConnOk(local, calls, db), Free(calls) # {}, NEW op, NEW id
    PROVE  LET c == One(op, id)
               ds == Plus(calls, c)
           IN  /\ Listing(ds) /\ Turn(calls, ds, {}, {c}) /\ IsOne(c, op, id)
               /\ \A list, drift : UpToDate(list, drift, calls, db) => UpToDate(list, drift, ds, db)
<1> DEFINE a == [op |-> op, id |-> id]
           c == Call("one", a)
           ds == Plus(calls, c)
<1>1. IsOne(c, op, id)
  BY OneSent DEF One
<1> HIDE DEF a
<1>2. /\ Listing(ds) /\ Turn(calls, ds, {}, {c})
      /\ \A list, drift, d : UpToDate(list, drift, calls, d) => UpToDate(list, drift, ds, d)
  BY TurnPlus DEF ConnOk
<1> QED BY <1>1, <1>2 DEF One, a

LEMMA RunGoes ==
    ASSUME NEW cs, Listing(cs), Free(cs) # {}, NEW op, NEW S, NEW asked
    PROVE  LET c == Run(op, S, asked)
               ds == Plus(cs, c)
           IN  /\ Listing(ds) /\ Turn(cs, ds, {}, {c})
               /\ \A list, drift, d : UpToDate(list, drift, cs, d) => UpToDate(list, drift, ds, d)
<1> DEFINE a == [op |-> op, id |-> Lowest(S), rest |-> S \ {Lowest(S)}, asked |-> asked]
           c == Call("run", a)
           ds == Plus(cs, c)
<1> HIDE DEF a
<1>2. /\ Listing(ds) /\ Turn(cs, ds, {}, {c})
      /\ \A list, drift, d : UpToDate(list, drift, cs, d) => UpToDate(list, drift, ds, d)
  BY TurnPlus
<1> QED BY <1>2 DEF Run, a

LEMMA OneAsked ==
    ASSUME ConnOk(local, calls, db), Free(calls) # {}, NEW op, NEW id, Ask(local, Plus(calls, One(op, id)))
    PROVE  ConnOk(local', calls', db')
<1> DEFINE k == local.left - 1
           c == One(op, id)
<1>0. local = ConnRecord(local.left, local.list, local.loading, local.error, local.drift,
                         local.selecting, local.selected, local.busy, local.dialog)
  BY DEF ConnOk, IsConn
<1>1. local' = [local EXCEPT !.left = k] /\ calls' = Plus(calls, c) /\ db' = db
  BY DEF Ask, Do
<1>2. /\ Listing(calls') /\ Turn(calls, calls', {}, {c})
      /\ \A list, drift : UpToDate(list, drift, calls, db) => UpToDate(list, drift, calls', db)
  BY <1>1, OneGoes
<1> HIDE DEF k, c
<1>3. local' = ConnRecord(k, local.list, local.loading, local.error, local.drift,
                          local.selecting, local.selected, local.busy, local.dialog)
  BY <1>0, <1>1 DEF ConnRecord
<1>4. /\ IsConn(local') /\ local'.list = local.list /\ local'.drift = local.drift /\ local'.busy = local.busy
      /\ local'.dialog = local.dialog
  BY <1>3, ConnFields
<1> QED BY <1>1, <1>2, <1>4, ConnStays

LEMMA OneSteps ==
    ASSUME ConnOk(local, calls, db),
           \/ \E c \in Handled : \/ handleToggle(c) \/ handleTest(c) \/ handleRename(c)
                                 \/ \E op \in {"clear-errors", "reset-cooldowns"} : clearIssue(c, op)
           \/ handleImportFile \/ onCreated
    PROVE  ConnOk(local', calls', db')
<1>1. Free(calls) # {}
  BY RoomIsFree DEF handleToggle, handleTest, handleRename, clearIssue, handleImportFile, onCreated, Idle
<1>2. \E op, id : Ask(local, Plus(calls, One(op, id)))
  BY Zenon DEF handleToggle, handleTest, handleRename, clearIssue, handleImportFile, onCreated
<1> QED BY <1>1, <1>2, OneAsked

LEMMA SubmitDialogStep == ASSUME ConnOk(local, calls, db), SubmitDialog PROVE ConnOk(local', calls', db')
<1> DEFINE k == local.left - 1
           d == local.dialog
           c == One(d.kind, d.arg)
           t == TRUE
           g == [d EXCEPT !.busy = t]
<1>0. local = ConnRecord(local.left, local.list, local.loading, local.error, local.drift,
                         local.selecting, local.selected, local.busy, d)
  BY DEF ConnOk, IsConn
<1>1. local' = [[local EXCEPT !.dialog = g] EXCEPT !.left = k] /\ calls' = Plus(calls, c) /\ db' = db
  BY <1>0 DEF SubmitDialog, Ask, Do, ConnRecord
<1>2. d.kind \in {"edit", "models", "delete"} /\ d.apply = "closed" /\ Free(calls) # {} /\ IsDialog(d)
  BY RoomIsFree DEF SubmitDialog, ConnOk
<1>3. /\ Listing(calls') /\ Turn(calls, calls', {}, {c}) /\ IsOne(c, d.kind, d.arg)
      /\ \A list, drift : UpToDate(list, drift, calls, db) => UpToDate(list, drift, calls', db)
  BY <1>1, <1>2, OneGoes
<1>4. d = DialogRecord(d.kind, d.arg, d.busy, d.apply) /\ d.kind # "none"
  BY <1>2 DEF IsDialog, NoDialog
<1> HIDE DEF k, c, d
<1>5. g = DialogRecord(d.kind, d.arg, t, "closed")
  <2>1. g = [d EXCEPT !.busy = t]
    OBVIOUS
  <2> HIDE DEF g, t
  <2> QED BY <1>2, <1>4, <2>1 DEF DialogRecord
<1> HIDE DEF g, t
<1>6. IsDialog(g) /\ g.kind = d.kind /\ g.arg = d.arg /\ g.apply = "closed"
  BY <1>4, <1>5, DialogFields
<1>7. DialogHeld(g, calls')
  <2>1. \E n \in DOMAIN calls' : IsOne(calls'[n], g.kind, g.arg)
    BY <1>3, <1>6, HeldComes
  <2> QED BY <1>2, <1>6, <2>1 DEF DialogHeld
<1>8. local' = ConnRecord(k, local.list, local.loading, local.error, local.drift,
                          local.selecting, local.selected, local.busy, g)
  BY <1>0, <1>1 DEF ConnRecord
<1>9. /\ IsConn(local') /\ local'.list = local.list /\ local'.drift = local.drift /\ local'.busy = local.busy
      /\ local'.dialog = g
  BY <1>8, ConnFields
<1> QED BY <1>1, <1>3, <1>6, <1>7, <1>9, ConnStays

\* A handler that only changes the dialog.
LEMMA DialogChanged ==
    ASSUME ConnOk(local, calls, db), NEW g, IsDialog(g), DialogHeld(g, calls), Do([local EXCEPT !.dialog = g], calls)
    PROVE  ConnOk(local', calls', db')
<1>0. local = ConnRecord(local.left, local.list, local.loading, local.error, local.drift,
                         local.selecting, local.selected, local.busy, local.dialog)
  BY DEF ConnOk, IsConn
<1>1. local' = [local EXCEPT !.dialog = g] /\ calls' = calls /\ db' = db
  BY DEF Do
<1>2. local' = ConnRecord(local.left, local.list, local.loading, local.error, local.drift,
                          local.selecting, local.selected, local.busy, g)
  BY <1>0, <1>1 DEF ConnRecord
<1>3. /\ IsConn(local') /\ local'.list = local.list /\ local'.drift = local.drift /\ local'.busy = local.busy
      /\ local'.dialog = g
  BY <1>2, ConnFields
<1> QED BY <1>1, <1>3, ConnIdle

LEMMA OpenSteps ==
    ASSUME ConnOk(local, calls, db),
           \/ \E c \in Handled, kind \in {"edit", "models", "delete"} : OpenDialog(kind, c)
           \/ \E pool \in Filtered : OpenCleanup(pool)
    PROVE  ConnOk(local', calls', db')
<1>1. \E k, a : k # "none" /\ Do([local EXCEPT !.dialog = Dialog(k, a)], calls)
  BY DEF OpenDialog, OpenCleanup
<1> QED BY <1>1, DialogOpens, DialogChanged

LEMMA SelectSteps ==
    ASSUME ConnOk(local, calls, db),
           \/ Select \/ \E c \in Ids : toggleSelect(c)
           \/ \E pool \in Filtered : toggleSelectAll(pool \cap Listed)
    PROVE  ConnOk(local', calls', db')
<1>0. local = ConnRecord(local.left, local.list, local.loading, local.error, local.drift,
                         local.selecting, local.selected, local.busy, local.dialog)
  BY DEF ConnOk, IsConn
<1>1. calls' = calls /\ db' = db
  BY DEF Select, toggleSelect, toggleSelectAll, Do
<1>2. \E se, sd : local' = ConnRecord(local.left, local.list, local.loading, local.error, local.drift, se, sd, local.busy, local.dialog)
  <2>1. CASE Select
    <3> DEFINE t == TRUE
               f == FALSE
               e == {}
    <3>1. local' = [local EXCEPT !.selecting = t] \/ local' = [local EXCEPT !.selecting = f, !.selected = e]
      BY <2>1 DEF Select, Do
    <3> HIDE DEF t, f, e
    <3> QED BY <1>0, <3>1 DEF ConnRecord
  <2>2. ASSUME NEW c \in Ids, toggleSelect(c)
        PROVE  \E sd : local' = [local EXCEPT !.selected = sd]
    BY <2>2 DEF toggleSelect, Do
  <2>3. ASSUME NEW pool \in Filtered, toggleSelectAll(pool \cap Listed)
        PROVE  \E sd : local' = [local EXCEPT !.selected = sd]
    BY <2>3 DEF toggleSelectAll, Do
  <2>4. ASSUME NEW sd, local' = [local EXCEPT !.selected = sd]
        PROVE  local' = ConnRecord(local.left, local.list, local.loading, local.error, local.drift, local.selecting, sd, local.busy, local.dialog)
    BY <1>0, <2>4 DEF ConnRecord
  <2> QED BY <2>1, <2>2, <2>3, <2>4
<1>3. /\ IsConn(local') /\ local'.list = local.list /\ local'.drift = local.drift /\ local'.busy = local.busy
      /\ local'.dialog = local.dialog
  BY <1>2, ConnFields
<1> QED BY <1>1, <1>3, ConnIdle

LEMMA TickStep == ASSUME ConnOk(local, calls, db), NEW x, TickGroup(x) PROVE ConnOk(local', calls', db')
<1> DEFINE d == local.dialog
           a == [d.arg EXCEPT !.checked = IF x \in @ THEN @ \ {x} ELSE @ \cup {x}]
           g == [d EXCEPT !.arg = a]
<1>1. Do([local EXCEPT !.dialog = g], calls) /\ d.kind = "cleanup"
  BY DEF TickGroup
<1>2. IsDialog(d) /\ DialogHeld(d, calls)
  BY DEF ConnOk
<1> HIDE DEF a, d
<1>3. d = DialogRecord(d.kind, d.arg, d.busy, d.apply) /\ d.kind # "none"
  BY <1>1, <1>2 DEF IsDialog, NoDialog
<1>4. g = DialogRecord(d.kind, a, d.busy, d.apply)
  BY <1>3 DEF DialogRecord
<1> HIDE DEF g
<1>5. IsDialog(g) /\ g.kind = "cleanup" /\ g.busy = d.busy /\ g.apply = d.apply
  BY <1>1, <1>3, <1>4, DialogFields
<1>6. DialogHeld(g, calls)
  BY <1>1, <1>2, <1>5 DEF DialogHeld
<1> QED BY <1>1, <1>5, <1>6, DialogChanged

LEMMA LoadGoes ==
    ASSUME ConnOk(local, calls, db), Free(calls) # {}, calls' = Load(calls), db' = db,
           IsConn(local'), local'.list = local.list, local'.drift = local.drift, local'.busy = local.busy,
           local'.dialog = local.dialog \/ (IsDialog(local'.dialog) /\ \A cs : DialogHeld(local'.dialog, cs))
    PROVE  ConnOk(local', calls', db')
<1> DEFINE c == Call("load", [newest |-> TRUE, then |-> None])
<1>1. Listing(calls') /\ Turn(calls, calls', {}, {c}) /\ \A list, drift : UpToDate(list, drift, calls', db)
  BY TurnLoad DEF Load, ConnOk
<1> HIDE DEF c
<1> QED BY <1>1, ConnStays

LEMMA RetryLoadStep == ASSUME ConnOk(local, calls, db), RetryLoad PROVE ConnOk(local', calls', db')
<1> DEFINE k == local.left - 1
<1>0. local = ConnRecord(local.left, local.list, local.loading, local.error, local.drift,
                         local.selecting, local.selected, local.busy, local.dialog)
  BY DEF ConnOk, IsConn
<1>1. local' = [local EXCEPT !.left = k] /\ calls' = Load(calls) /\ db' = db /\ Free(calls) # {}
  BY RoomIsFree DEF RetryLoad, Idle, Ask, Do
<1> HIDE DEF k
<1>2. local' = ConnRecord(k, local.list, local.loading, local.error, local.drift,
                          local.selecting, local.selected, local.busy, local.dialog)
  BY <1>0, <1>1 DEF ConnRecord
<1>3. /\ IsConn(local') /\ local'.list = local.list /\ local'.drift = local.drift /\ local'.busy = local.busy
      /\ local'.dialog = local.dialog
  BY <1>2, ConnFields
<1> QED BY <1>1, <1>3, LoadGoes

LEMMA OpenAddStep == ASSUME ConnOk(local, calls, db), OpenAdd PROVE ConnOk(local', calls', db')
<1> DEFINE k == local.left - 1
           g == Dialog("add", None)
<1>0. local = ConnRecord(local.left, local.list, local.loading, local.error, local.drift,
                         local.selecting, local.selected, local.busy, local.dialog)
  BY DEF ConnOk, IsConn
<1>1. local' = [[local EXCEPT !.dialog = g] EXCEPT !.left = k] /\ calls' = calls /\ db' = db
  BY <1>0 DEF OpenAdd, Ask, Do, ConnRecord
<1>2. IsDialog(g) /\ DialogHeld(g, calls)
  BY DialogOpens
<1> HIDE DEF k, g
<1>3. local' = ConnRecord(k, local.list, local.loading, local.error, local.drift,
                          local.selecting, local.selected, local.busy, g)
  BY <1>0, <1>1 DEF ConnRecord
<1>4. /\ IsConn(local') /\ local'.list = local.list /\ local'.drift = local.drift /\ local'.busy = local.busy
      /\ local'.dialog = g
  BY <1>3, ConnFields
<1> QED BY <1>1, <1>2, <1>4, ConnIdle

LEMMA CloseDialogStep == ASSUME ConnOk(local, calls, db), CloseDialog PROVE ConnOk(local', calls', db')
<1> DEFINE d == local.dialog
           s == "closed"
           e == [d EXCEPT !.apply = s]
           g == IF d.apply = "open" THEN e ELSE NoDialog
<1>0. local = ConnRecord(local.left, local.list, local.loading, local.error, local.drift,
                         local.selecting, local.selected, local.busy, d)
  BY DEF ConnOk, IsConn
<1>1. /\ local' = [local EXCEPT !.dialog = g] /\ db' = db
      /\ calls' = calls \/ (calls' = Load(calls) /\ d.kind = "add")
      /\ d.kind # "none" /\ Free(calls) # {}
  BY RoomIsFree DEF CloseDialog, Do, Modal
<1>2. IsDialog(d) /\ DialogHeld(d, calls)
  BY DEF ConnOk
<1> HIDE DEF d
<1>3. d = DialogRecord(d.kind, d.arg, d.busy, d.apply)
  BY <1>1, <1>2 DEF IsDialog, NoDialog
<1>4. e = DialogRecord(d.kind, d.arg, d.busy, s)
  BY <1>3 DEF DialogRecord
<1> HIDE DEF e
<1>5. IsDialog(e) /\ e.kind = d.kind /\ e.arg = d.arg /\ e.busy = d.busy /\ e.apply = s
  BY <1>1, <1>4, DialogFields
<1>6. DialogHeld(e, calls)
  BY <1>1, <1>2, <1>5 DEF DialogHeld
<1>7. IsDialog(g) /\ DialogHeld(g, calls)
  BY <1>5, <1>6, NoDialogHeld
<1> HIDE DEF g
<1>8. local' = ConnRecord(local.left, local.list, local.loading, local.error, local.drift,
                          local.selecting, local.selected, local.busy, g)
  BY <1>0, <1>1 DEF ConnRecord
<1>9. /\ IsConn(local') /\ local'.list = local.list /\ local'.drift = local.drift /\ local'.busy = local.busy
      /\ local'.dialog = g
  BY <1>8, ConnFields
<1>10. CASE calls' = calls
  BY <1>1, <1>7, <1>9, <1>10, ConnIdle
<1>11. CASE calls' = Load(calls)
  <2> DEFINE c == Call("load", [newest |-> TRUE, then |-> None])
  <2>1. Listing(calls') /\ Turn(calls, calls', {}, {c}) /\ \A list, drift : UpToDate(list, drift, calls', db)
    BY <1>1, <1>11, TurnLoad DEF Load, ConnOk
  <2> HIDE DEF c
  <2>2. DialogHeld(g, calls')
    BY <1>7, <2>1, HeldGrows
  <2> QED BY <1>1, <1>7, <1>9, <2>1, <2>2, ConnStays
<1> QED BY <1>1, <1>10, <1>11

\* A run over connections begins.
LEMMA RunStarts ==
    ASSUME NEW l, ConnOk(l, calls, db), Free(calls) # {}, NEW op, NEW S, NEW asked, RunOver(l, op, S, asked),
           op = "migrate" => l.dialog.kind = "migrate",
           op = "apply" => l.dialog.kind = "models" /\ asked = {l.dialog.arg}
    PROVE  ConnOk(local', calls', db')
<1> DEFINE k == l.left - 1
           c == Run(op, S, asked)
           d == l.dialog
           t == TRUE
           s == "running"
           g == [d EXCEPT !.busy = t]
           h == [d EXCEPT !.apply = s]
<1>0. /\ l = ConnRecord(l.left, l.list, l.loading, l.error, l.drift, l.selecting, l.selected, l.busy, d)
      /\ IsDialog(d) /\ DialogHeld(d, calls) /\ Listing(calls)
  BY DEF ConnOk, IsConn
<1>1. CASE S = {}
  BY <1>1 DEF RunOver, Do
<1>2. CASE S # {}
  <2>1. /\ calls' = Plus(calls, c) /\ db' = db
        /\ \/ op = "migrate" /\ local' = [[l EXCEPT !.dialog = g] EXCEPT !.left = k]
           \/ op = "apply" /\ local' = [[l EXCEPT !.dialog = h] EXCEPT !.left = k]
           \/ op \notin {"migrate", "apply"} /\ local' = [[l EXCEPT !.busy = op] EXCEPT !.left = k]
    <3>1. CASE op = "migrate"
      BY <1>0, <1>2, <3>1 DEF RunOver, Ask, Do, ConnRecord
    <3>2. CASE op = "apply"
      BY <1>0, <1>2, <3>2 DEF RunOver, Ask, Do, ConnRecord
    <3>3. CASE op \notin {"migrate", "apply"}
      BY <1>0, <1>2, <3>3 DEF RunOver, Ask, Do, ConnRecord
    <3> QED BY <3>1, <3>2, <3>3
  <2>2. IsRun(c, op) /\ c.arg.asked = asked /\ c.op = "run" /\ c.arg.op = op
    BY RunSent
  <2>3. /\ Listing(calls') /\ Turn(calls, calls', {}, {c})
        /\ \A list, drift : UpToDate(list, drift, calls, db) => UpToDate(list, drift, calls', db)
    BY <1>0, <2>1, RunGoes
  <2> HIDE DEF k, c
  <2>4. CASE op = "migrate" /\ local' = [[l EXCEPT !.dialog = g] EXCEPT !.left = k]
    <3>1. d.kind = "migrate" /\ d.kind # "none" /\ d = DialogRecord(d.kind, d.arg, d.busy, d.apply)
      BY <1>0, <2>4 DEF IsDialog, NoDialog
    <3> HIDE DEF d
    <3>2. g = [d EXCEPT !.busy = t]
      OBVIOUS
    <3>3. local' = [[l EXCEPT !.dialog = g] EXCEPT !.left = k]
      BY <2>4
    <3> HIDE DEF g, t
    <3>4. g = DialogRecord(d.kind, d.arg, t, d.apply)
      BY <3>1, <3>2 DEF DialogRecord
    <3>5. IsDialog(g) /\ g.kind = "migrate" /\ g.arg = d.arg /\ g.apply = d.apply
      BY <3>1, <3>4, DialogFields
    <3>6. DialogHeld(g, calls')
      <4>1. \E n \in DOMAIN calls' : IsRun(calls'[n], "migrate")
        BY <2>2, <2>3, <2>4, HeldComes
      <4>2. DialogHeld(d, calls')
        BY <1>0, <2>3, HeldGrows
      <4> QED BY <3>1, <3>5, <4>1, <4>2 DEF DialogHeld
    <3>7. local' = ConnRecord(k, l.list, l.loading, l.error, l.drift, l.selecting, l.selected, l.busy, g)
      BY <1>0, <3>3 DEF ConnRecord
    <3>8. IsConn(local') /\ local'.list = l.list /\ local'.drift = l.drift /\ local'.busy = l.busy /\ local'.dialog = g
      BY <3>7, ConnFields
    <3> QED BY <2>1, <2>3, <3>5, <3>6, <3>8, ConnStays
  <2>5. CASE op = "apply" /\ local' = [[l EXCEPT !.dialog = h] EXCEPT !.left = k]
    <3>1. /\ d.kind = "models" /\ d.kind # "none" /\ d = DialogRecord(d.kind, d.arg, d.busy, d.apply)
          /\ asked = {d.arg}
      BY <1>0, <2>5 DEF IsDialog, NoDialog
    <3> HIDE DEF d
    <3>2. h = [d EXCEPT !.apply = s]
      OBVIOUS
    <3>3. local' = [[l EXCEPT !.dialog = h] EXCEPT !.left = k]
      BY <2>5
    <3> HIDE DEF h, s
    <3>4. h = DialogRecord(d.kind, d.arg, d.busy, s)
      BY <3>1, <3>2 DEF DialogRecord
    <3>5. IsDialog(h) /\ h.kind = "models" /\ h.arg = d.arg /\ h.busy = d.busy
      BY <3>1, <3>4, DialogFields
    <3>6. DialogHeld(h, calls')
      <4>1. IsCopy(c, {d.arg})
        BY <2>2, <2>5, <3>1 DEF IsCopy
      <4>2. \E n \in DOMAIN calls' : IsCopy(calls'[n], {d.arg})
        BY <2>3, <4>1, HeldComes
      <4>3. DialogHeld(d, calls')
        BY <1>0, <2>3, HeldGrows
      <4> QED BY <3>1, <3>5, <4>2, <4>3 DEF DialogHeld
    <3>7. local' = ConnRecord(k, l.list, l.loading, l.error, l.drift, l.selecting, l.selected, l.busy, h)
      BY <1>0, <3>3 DEF ConnRecord
    <3>8. IsConn(local') /\ local'.list = l.list /\ local'.drift = l.drift /\ local'.busy = l.busy /\ local'.dialog = h
      BY <3>7, ConnFields
    <3> QED BY <2>1, <2>3, <3>5, <3>6, <3>8, ConnStays
  <2>6. CASE op \notin {"migrate", "apply"} /\ local' = [[l EXCEPT !.busy = op] EXCEPT !.left = k]
    <3>1. HoldsBar(c)
      BY <2>2, <2>6 DEF HoldsBar
    <3>2. BarHeld(op, calls')
      BY <2>3, <3>1, HeldComes
    <3>3. local' = ConnRecord(k, l.list, l.loading, l.error, l.drift, l.selecting, l.selected, op, d)
      BY <1>0, <2>6 DEF ConnRecord
    <3>4. IsConn(local') /\ local'.list = l.list /\ local'.drift = l.drift /\ local'.busy = op /\ local'.dialog = d
      BY <3>3, ConnFields
    <3> QED BY <2>1, <2>3, <3>2, <3>4, ConnStays
  <2> QED BY <2>1, <2>4, <2>5, <2>6
<1> QED BY <1>1, <1>2

LEMMA DialogGone == ASSUME ConnOk(local, calls, db) PROVE ConnOk([local EXCEPT !.dialog = NoDialog], calls, db)
<1> DEFINE l == [local EXCEPT !.dialog = NoDialog]
<1>0. local = ConnRecord(local.left, local.list, local.loading, local.error, local.drift,
                         local.selecting, local.selected, local.busy, local.dialog)
  BY DEF ConnOk, IsConn
<1> DEFINE g == NoDialog
<1>1. IsDialog(g) /\ DialogHeld(g, calls)
  BY NoDialogHeld
<1>2. l = [local EXCEPT !.dialog = g]
  OBVIOUS
<1> HIDE DEF g, l
<1>3. l = ConnRecord(local.left, local.list, local.loading, local.error, local.drift,
                     local.selecting, local.selected, local.busy, g)
  BY <1>0, <1>2 DEF ConnRecord
<1>4. IsConn(l) /\ l.list = local.list /\ l.drift = local.drift /\ l.busy = local.busy /\ l.dialog = g
  BY <1>3, ConnFields
<1>5. ConnOk(l, calls, db)
  BY <1>1, <1>4 DEF ConnOk
<1> QED BY <1>5 DEF l

LEMMA BulkActionSteps ==
    ASSUME ConnOk(local, calls, db),
           \/ \E op \in {"enable", "disable", "bulkModels", "migrate", "bulkDelete"} : handleBulkAction(op)
           \/ \E pool \in Filtered, op \in {"clear-errors", "reset-cooldowns"} : handleQuickAction(op, pool)
    PROVE  ConnOk(local', calls', db')
<1>1. ASSUME NEW op \in {"enable", "disable"}, handleBulkAction(op) PROVE ConnOk(local', calls', db')
  <2>1. Free(calls) # {} /\ RunOver(local, op, selectedConns, {})
    BY <1>1, RoomIsFree DEF handleBulkAction, BarActs
  <2> QED BY <1>1, <2>1, RunStarts
<1>2. ASSUME NEW op \in {"bulkModels", "migrate", "bulkDelete"}, handleBulkAction(op) PROVE ConnOk(local', calls', db')
  <2>1. op # "none" /\ Do([local EXCEPT !.dialog = Dialog(op, {})], calls)
    BY <1>2 DEF handleBulkAction
  <2> QED BY <2>1, DialogOpens, DialogChanged
<1>3. ASSUME NEW pool \in Filtered, NEW op \in {"clear-errors", "reset-cooldowns"}, handleQuickAction(op, pool)
      PROVE  ConnOk(local', calls', db')
  <2>1. Free(calls) # {} /\ RunOver(local, op, Targets(op, pool), {})
    BY <1>3, RoomIsFree DEF handleQuickAction, Idle
  <2> QED BY <1>3, <2>1, RunStarts
<1> QED BY <1>1, <1>2, <1>3

LEMMA CleanupStep == ASSUME ConnOk(local, calls, db), handleCleanupConfirm PROVE ConnOk(local', calls', db')
<1> DEFINE l == [local EXCEPT !.dialog = NoDialog]
<1>1. Free(calls) # {} /\ \E S, asked : RunOver(l, "cleanup", S, asked)
  BY RoomIsFree DEF handleCleanupConfirm
<1>2. ConnOk(l, calls, db)
  BY DialogGone
<1> HIDE DEF l
<1> QED BY <1>1, <1>2, RunStarts

LEMMA ConfirmStep == ASSUME ConnOk(local, calls, db), ConfirmBulk PROVE ConnOk(local', calls', db')
<1> DEFINE d == local.dialog
           l == [local EXCEPT !.dialog = NoDialog]
           s == "open"
           h == [d EXCEPT !.apply = s]
<1>1. /\ Free(calls) # {}
      /\ \/ RunOver(l, "copy", selectedConns, {})
         \/ Do([local EXCEPT !.dialog = NoDialog], calls)
         \/ RunOver(local, "delete", selectedConns, selectedConns)
         \/ d.kind = "migrate" /\ RunOver(local, "migrate", selectedConns, {})
         \/ d.kind = "models" /\ Do([local EXCEPT !.dialog = h], calls)
         \/ d.kind = "models" /\ \E S : RunOver(local, "apply", S, {d.arg})
  BY RoomIsFree DEF ConfirmBulk
<1>2. CASE RunOver(l, "copy", selectedConns, {})
  <2>1. ConnOk(l, calls, db)
    BY DialogGone
  <2> HIDE DEF l
  <2> QED BY <1>1, <1>2, <2>1, RunStarts
<1>3. CASE Do([local EXCEPT !.dialog = NoDialog], calls)
  BY <1>3, NoDialogHeld, DialogChanged
<1>4. CASE RunOver(local, "delete", selectedConns, selectedConns)
  BY <1>1, <1>4, RunStarts
<1>5. CASE d.kind = "migrate" /\ RunOver(local, "migrate", selectedConns, {})
  BY <1>1, <1>5, RunStarts
<1>6. CASE d.kind = "models" /\ Do([local EXCEPT !.dialog = h], calls)
  <2>1. IsDialog(d) /\ DialogHeld(d, calls) /\ d.kind # "none"
    BY <1>6 DEF ConnOk
  <2>2. Do([local EXCEPT !.dialog = h], calls) /\ h = [d EXCEPT !.apply = s]
    BY <1>6
  <2> HIDE DEF d, h
  <2>3. d = DialogRecord(d.kind, d.arg, d.busy, d.apply)
    BY <2>1 DEF IsDialog, NoDialog
  <2>4. h = DialogRecord(d.kind, d.arg, d.busy, s)
    BY <2>2, <2>3 DEF DialogRecord
  <2>5. IsDialog(h) /\ h.kind = d.kind /\ h.arg = d.arg /\ h.busy = d.busy /\ h.apply = s
    BY <2>1, <2>4, DialogFields
  <2>6. DialogHeld(h, calls)
    BY <2>1, <2>5 DEF DialogHeld
  <2> QED BY <2>2, <2>5, <2>6, DialogChanged
<1>7. CASE d.kind = "models" /\ \E S : RunOver(local, "apply", S, {d.arg})
  BY <1>1, <1>7, RunStarts
<1> QED BY <1>1, <1>2, <1>3, <1>4, <1>5, <1>6, <1>7

\* A request is answered that nothing waits for.
LEMMA HeldLeaves ==
    ASSUME NEW cs, NEW ds, NEW n, NEW come, Turn(cs, ds, {n}, come)
    PROVE  /\ ~HoldsBar(cs[n]) => \A b : BarHeld(b, cs) => BarHeld(b, ds)
           /\ cs[n].op # "run" /\ (\E m \in DOMAIN cs : cs[m].op = "run") => \E m \in DOMAIN ds : ds[m].op = "run"
           /\ \A g : /\ DialogHeld(g, cs)
                     /\ g.kind # "none" => /\ g.busy => ~IsOne(cs[n], g.kind, g.arg)
                                           /\ g.busy => ~IsRun(cs[n], "migrate")
                                           /\ g.apply = "running" => ~IsCopy(cs[n], {g.arg})
                     => DialogHeld(g, ds)
<1>1. \A m \in DOMAIN cs : m # n => m \in DOMAIN ds /\ Alike(ds[m], cs[m])
  BY KindredHeld DEF Turn
<1>2. ~HoldsBar(cs[n]) => \A b : BarHeld(b, cs) => BarHeld(b, ds)
  BY <1>1 DEF BarHeld, Alike
<1>3. cs[n].op # "run" /\ (\E m \in DOMAIN cs : cs[m].op = "run") => \E m \in DOMAIN ds : ds[m].op = "run"
  BY <1>1 DEF Alike
<1>4. ASSUME NEW g, DialogHeld(g, cs), g.kind # "none",
             g.busy => ~IsOne(cs[n], g.kind, g.arg), g.busy => ~IsRun(cs[n], "migrate"),
             g.apply = "running" => ~IsCopy(cs[n], {g.arg})
      PROVE  DialogHeld(g, ds)
  <2>1. ~IsOne(cs[n], g.kind, g.arg) /\ (\E m \in DOMAIN cs : IsOne(cs[m], g.kind, g.arg)) => \E m \in DOMAIN ds : IsOne(ds[m], g.kind, g.arg)
    BY <1>1 DEF Alike
  <2>2. ~IsRun(cs[n], "migrate") /\ (\E m \in DOMAIN cs : IsRun(cs[m], "migrate")) => \E m \in DOMAIN ds : IsRun(ds[m], "migrate")
    BY <1>1 DEF Alike
  <2>3. ~IsCopy(cs[n], {g.arg}) /\ (\E m \in DOMAIN cs : IsCopy(cs[m], {g.arg})) => \E m \in DOMAIN ds : IsCopy(ds[m], {g.arg})
    BY <1>1 DEF Alike
  <2> QED BY Zenon, <1>4, <2>1, <2>2, <2>3 DEF DialogHeld
<1>5. ASSUME NEW g, g.kind = "none" PROVE DialogHeld(g, ds)
  BY <1>5 DEF DialogHeld
<1> QED BY Zenon, <1>2, <1>3, <1>4, <1>5

LEMMA ReadLeaves ==
    ASSUME NEW cs, NEW ds, NEW n, NEW come, Turn(cs, ds, {n}, come), cs[n].op = "load"
    PROVE  /\ \A b : BarHeld(b, cs) => BarHeld(b, ds)
           /\ \A g : DialogHeld(g, cs) => DialogHeld(g, ds)
           /\ (\E m \in DOMAIN cs : cs[m].op = "run") => \E m \in DOMAIN ds : ds[m].op = "run"
<1>1. \A m \in DOMAIN cs : HoldsBar(cs[m]) \/ cs[m].op \in {"run", "one"} => m # n
  BY DEF HoldsBar
<1>2. \A m \in DOMAIN cs : m # n => m \in DOMAIN ds /\ Alike(ds[m], cs[m])
  BY KindredHeld DEF Turn
<1>3. \A b : BarHeld(b, cs) => BarHeld(b, ds)
  BY <1>1, <1>2 DEF BarHeld, Alike
<1>4. (\E m \in DOMAIN cs : cs[m].op = "run") => \E m \in DOMAIN ds : ds[m].op = "run"
  BY <1>1, <1>2 DEF Alike
<1>5. ASSUME NEW g, DialogHeld(g, cs) PROVE DialogHeld(g, ds)
  <2>1. ~IsOne(cs[n], g.kind, g.arg) /\ ~IsRun(cs[n], "migrate") /\ ~IsCopy(cs[n], {g.arg})
    BY DEF IsOne, IsRun, IsCopy
  <2> QED BY <1>5, <2>1, HeldLeaves
<1> QED BY <1>3, <1>4, <1>5

\* What is left of the screen when an answer has changed its dialog, and the
\* bar or the selection.
LEMMA ConnAnswered ==
    ASSUME ConnOk(local, calls, db), Listing(calls'), NEW dr, ListHeld(local.list, dr, calls', db'),
           NEW b, NEW g, NEW sd, IsDialog(g), BarHeld(b, calls'), DialogHeld(g, calls'),
           local' = ConnRecord(local.left, local.list, local.loading, local.error, dr, local.selecting, sd, b, g)
    PROVE  ConnOk(local', calls', db')
<1>1. IsConn(local') /\ local'.list = local.list /\ local'.drift = dr /\ local'.busy = b /\ local'.dialog = g
  BY ConnFields
<1> QED BY <1>1 DEF ConnOk

\* The dialog is not busy any more; if there is none, nothing changes.
LEMMA DialogFreed ==
    ASSUME NEW d, IsDialog(d), NEW f, f = FALSE
    PROVE  LET g == [d EXCEPT !.busy = f] IN
           IsDialog(g) /\ g.kind = d.kind /\ (d.kind # "none" => g.arg = d.arg /\ g.busy = f /\ g.apply = d.apply)
<1> DEFINE g == [d EXCEPT !.busy = f]
<1>1. CASE d = NoDialog
  <2>1. g = NoDialog
    BY <1>1 DEF NoDialog
  <2> HIDE DEF g
  <2>2. IsDialog(g) /\ g.kind = d.kind /\ d.kind = "none"
    BY <1>1, <2>1 DEF IsDialog, NoDialog
  <2> QED BY <2>2 DEF g
<1>2. CASE d # NoDialog
  <2>1. d.kind # "none" /\ d = DialogRecord(d.kind, d.arg, d.busy, d.apply)
    BY <1>2 DEF IsDialog
  <2>2. g = [d EXCEPT !.busy = f]
    OBVIOUS
  <2> HIDE DEF g
  <2>3. g = DialogRecord(d.kind, d.arg, f, d.apply)
    BY <2>1, <2>2 DEF DialogRecord
  <2>4. IsDialog(g) /\ g.kind = d.kind /\ g.arg = d.arg /\ g.busy = f /\ g.apply = d.apply
    BY <2>1, <2>3, DialogFields
  <2> QED BY <2>4 DEF g
<1> QED BY <1>1, <1>2

LEMMA OneAnswersStep ==
    ASSUME ConnOk(local, calls, db), NEW n \in DOMAIN calls, OneAnswers(n) PROVE ConnOk(local', calls', db')
<1> DEFINE op == calls[n].arg.op
           id == calls[n].arg.id
           d == local.dialog
           then == IF op = "delete" THEN "delete" ELSE None
           f == FALSE
           e == [d EXCEPT !.busy = f]
<1>0. /\ local = ConnRecord(local.left, local.list, local.loading, local.error, local.drift,
                            local.selecting, local.selected, local.busy, d)
      /\ Listing(calls) /\ IsDialog(d) /\ DialogHeld(d, calls) /\ BarHeld(local.busy, calls)
      /\ ListHeld(local.list, local.drift, calls, db)
  BY DEF ConnOk, IsConn
<1> DEFINE t == TRUE
<1>1. PICK ok \in {Served(n), FALSE} :
        LET mine == op = d.kind
            g == IF ok /\ mine THEN NoDialog ELSE IF mine /\ d.arg = id THEN [d EXCEPT !.busy = FALSE] ELSE d
            l == [local EXCEPT !.dialog = g]
        IN  IF ok \/ op = "test" THEN Do(l, LoadThen(Minus(calls, n), then))
            ELSE IF Served(n) THEN DoMissing(l, Minus(calls, n)) ELSE Do(l, Minus(calls, n))
  BY DEF OneAnswers
<1> DEFINE g == IF ok /\ op = d.kind THEN NoDialog ELSE IF op = d.kind /\ d.arg = id THEN e ELSE d
<1>2. /\ \/ calls' = LoadThen(Minus(calls, n), then) /\ local' = [local EXCEPT !.dialog = g]
         \/ calls' = Overlooked(Minus(calls, n)) /\ local' = [[local EXCEPT !.dialog = g] EXCEPT !.drift = t]
         \/ ~Served(n) /\ calls' = Minus(calls, n) /\ local' = [local EXCEPT !.dialog = g]
      /\ db' = db /\ calls[n].op = "one"
  <2> HIDE DEF then
  <2>1. /\ \/ Do([local EXCEPT !.dialog = g], LoadThen(Minus(calls, n), then))
           \/ DoMissing([local EXCEPT !.dialog = g], Minus(calls, n))
           \/ ~Served(n) /\ Do([local EXCEPT !.dialog = g], Minus(calls, n))
        /\ calls[n].op = "one"
    BY <1>1 DEF OneAnswers
  <2> HIDE DEF g
  <2> QED BY Zenon, <2>1 DEF Do, DoMissing, t
<1>3. IsDialog(g) /\ DialogHeld(g, calls) /\ (g.kind # "none" /\ g.busy => ~IsOne(calls[n], g.kind, g.arg))
  <2>1. CASE ok /\ op = d.kind
    <3>1. g = NoDialog
      BY <2>1
    <3> HIDE DEF g
    <3> QED BY <3>1, NoDialogHeld DEF NoDialog
  <2>2. CASE ~(ok /\ op = d.kind) /\ op = d.kind /\ d.arg = id
    <3>1. g = e
      BY <2>2
    <3>2. IsDialog(e) /\ e.kind = d.kind /\ (d.kind # "none" => e.arg = d.arg /\ e.busy = f /\ e.apply = d.apply)
      BY <1>0, DialogFreed
    <3> HIDE DEF g, e, d
    <3>3. DialogHeld(e, calls)
      BY <1>0, <3>2 DEF DialogHeld
    <3> QED BY <3>1, <3>2, <3>3
  <2>3. CASE ~(op = d.kind /\ d.arg = id) /\ ~(ok /\ op = d.kind)
    <3>1. g = d /\ ~IsOne(calls[n], d.kind, d.arg)
      BY <2>3 DEF IsOne
    <3> HIDE DEF g, d
    <3> QED BY <1>0, <3>1
  <2> QED BY <2>1, <2>2, <2>3
<1> HIDE DEF g, then, d, t
<1>4. /\ local' = [local EXCEPT !.dialog = g] =>
            local' = ConnRecord(local.left, local.list, local.loading, local.error, local.drift,
                                local.selecting, local.selected, local.busy, g)
      /\ local' = [[local EXCEPT !.dialog = g] EXCEPT !.drift = t] =>
            local' = ConnRecord(local.left, local.list, local.loading, local.error, t,
                                local.selecting, local.selected, local.busy, g)
  BY <1>0 DEF ConnRecord
<1>5. /\ ~HoldsBar(calls[n]) /\ calls[n].op # "run" /\ calls[n].op # "load"
      /\ ~IsRun(calls[n], "migrate") /\ \A a : ~IsCopy(calls[n], a)
  BY <1>2 DEF HoldsBar, IsRun, IsCopy
<1>6. CASE calls' = LoadThen(Minus(calls, n), then) /\ local' = [local EXCEPT !.dialog = g]
  <2> DEFINE c == Call("load", [newest |-> TRUE, then |-> then])
  <2>1. Listing(calls') /\ Turn(calls, calls', {n}, {c}) /\ \A list, drift, x : UpToDate(list, drift, calls', x)
    BY <1>0, <1>6, TurnReload
  <2> HIDE DEF c
  <2>2. ListHeld(local.list, local.drift, calls', db')
    BY <2>1 DEF ListHeld
  <2>3. BarHeld(local.busy, calls') /\ DialogHeld(g, calls')
    BY <1>0, <1>3, <1>5, <2>1, HeldLeaves
  <2> QED BY <1>3, <1>4, <1>6, <2>1, <2>2, <2>3, ConnAnswered
<1>8. CASE calls' = Overlooked(Minus(calls, n)) /\ local' = [[local EXCEPT !.dialog = g] EXCEPT !.drift = t]
  <2>1. Listing(calls') /\ Turn(calls, calls', {n}, {}) /\ \A list, x : UpToDate(list, TRUE, calls', x)
    BY <1>0, <1>8, TurnMissed
  <2>2. ListHeld(local.list, t, calls', db')
    BY <2>1 DEF ListHeld, t
  <2>3. BarHeld(local.busy, calls') /\ DialogHeld(g, calls')
    BY <1>0, <1>3, <1>5, <2>1, HeldLeaves
  <2> QED BY <1>3, <1>4, <1>8, <2>1, <2>2, <2>3, ConnAnswered
<1>7. CASE ~Served(n) /\ calls' = Minus(calls, n) /\ local' = [local EXCEPT !.dialog = g]
  <2>0. ~Wrote(calls[n])
    BY <1>7 DEF Served, Wrote
  <2>1. /\ Listing(calls') /\ Turn(calls, calls', {n}, {})
        /\ \A list, drift, x : UpToDate(list, drift, calls, x) => UpToDate(list, drift, calls', x)
    BY <1>0, <1>5, <1>7, <2>0, TurnMinus
  <2>2. ListHeld(local.list, local.drift, calls', db')
    BY <1>0, <1>2, <1>5, <2>1, HeldLeaves DEF ListHeld
  <2>3. BarHeld(local.busy, calls') /\ DialogHeld(g, calls')
    BY <1>0, <1>3, <1>5, <2>1, HeldLeaves
  <2> QED BY <1>3, <1>4, <1>7, <2>1, <2>2, <2>3, ConnAnswered
<1> QED BY <1>2, <1>6, <1>7, <1>8

\* The next connection of a run.
LEMMA RunContinues ==
    ASSUME ConnOk(local, calls, db), NEW n \in DOMAIN calls, calls[n].op = "run", local' = local,
           NEW S, calls' = Plus(Minus(calls, n), Run(calls[n].arg.op, S, calls[n].arg.asked))
    PROVE  ConnOk(local', calls', db')
<1> DEFINE ds == Minus(calls, n)
           c == Run(calls[n].arg.op, S, calls[n].arg.asked)
<1>1. Listing(ds) /\ Turn(calls, ds, {n}, {}) /\ Free(ds) # {}
  BY TurnMinus DEF ConnOk
<1>2. Listing(calls') /\ Turn(ds, calls', {}, {c})
  BY <1>1, RunGoes
<1>3. c.op = "run" /\ IsRun(c, calls[n].arg.op) /\ c.arg.asked = calls[n].arg.asked /\ c.arg.op = calls[n].arg.op
  BY RunSent
<1>4. calls' = Plus(ds, c)
  OBVIOUS
<1> HIDE DEF ds, c
<1>5. Turn(calls, calls', {n}, {c})
  BY <1>1, <1>2, TurnTwice
<1>6. Alike(c, calls[n])
  BY <1>3 DEF Alike, HoldsBar, IsRun, IsCopy, IsOne
<1>7. \A m \in DOMAIN calls : \E k \in DOMAIN calls' : Alike(calls'[k], calls[m])
  <2>1. \A m \in DOMAIN calls : m # n => m \in DOMAIN calls' /\ Alike(calls'[m], calls[m])
    BY <1>5, KindredHeld DEF Turn
  <2>2. PICK k \in DOMAIN calls' : Alike(calls'[k], c)
    BY <1>5, KindredHeld DEF Turn
  <2>3. Alike(calls'[k], calls[n])
    BY <1>6, <2>2 DEF Alike
  <2> QED BY <2>1, <2>3
<1>8. BarHeld(local.busy, calls') /\ DialogHeld(local.dialog, calls') /\ \E m \in DOMAIN calls' : calls'[m].op = "run"
  BY <1>7, HeldCarries DEF ConnOk
<1> QED BY <1>2, <1>8 DEF ConnOk, ListHeld

\* The last connection of a run.
LEMMA RunEnds ==
    ASSUME ConnOk(local, calls, db), NEW n \in DOMAIN calls, calls[n].op = "run",
           NEW then, calls' = LoadThen(Minus(calls, n), then),
           NEW b, NEW g, NEW sd, IsDialog(g), DialogHeld(g, calls),
           local' = ConnRecord(local.left, local.list, local.loading, local.error, local.drift, local.selecting, sd, b, g),
           b = None \/ (b = local.busy /\ ~HoldsBar(calls[n])),
           g.kind # "none" => /\ g.busy => ~IsRun(calls[n], "migrate")
                              /\ g.apply = "running" => ~IsCopy(calls[n], {g.arg})
    PROVE  ConnOk(local', calls', db')
<1> DEFINE c == Call("load", [newest |-> TRUE, then |-> then])
<1>1. Listing(calls') /\ Turn(calls, calls', {n}, {c}) /\ \A list, drift, x : UpToDate(list, drift, calls', x)
  BY TurnReload DEF ConnOk
<1> HIDE DEF c
<1>2. ListHeld(local.list, local.drift, calls', db')
  BY <1>1 DEF ListHeld
<1>3. BarHeld(b, calls')
  <2>1. CASE b = None
    BY <2>1 DEF BarHeld
  <2>2. CASE b = local.busy /\ ~HoldsBar(calls[n])
    BY <1>1, <2>2, HeldLeaves DEF ConnOk
  <2> QED BY <2>1, <2>2
<1>4. DialogHeld(g, calls')
  <2>1. ~IsOne(calls[n], g.kind, g.arg)
    BY DEF IsOne
  <2> QED BY <1>1, <2>1, HeldLeaves
<1> QED BY <1>1, <1>2, <1>3, <1>4, ConnAnswered

LEMMA RunGoesOnStep ==
    ASSUME ConnOk(local, calls, db), NEW n \in DOMAIN calls, RunGoesOn(n) PROVE ConnOk(local', calls', db')
<1> DEFINE a == calls[n].arg
           d == local.dialog
           then == IF a.op = "delete" THEN "bulkDelete" ELSE None
           s == "closed"
           f == FALSE
           mine == d.kind = "models" /\ a.asked = {d.arg} /\ d.apply = "running"
           sd == IF a.op \in {"clear-errors", "reset-cooldowns"} THEN local.selected ELSE {}
           h == [d EXCEPT !.apply = s]
           e == [d EXCEPT !.busy = f]
<1>0. /\ local = ConnRecord(local.left, local.list, local.loading, local.error, local.drift,
                            local.selecting, local.selected, local.busy, d)
      /\ IsDialog(d) /\ DialogHeld(d, calls)
  BY DEF ConnOk, IsConn
<1>1. calls[n].op = "run"
  BY DEF RunGoesOn
<1>2. \/ local' = local /\ calls' = Plus(Minus(calls, n), Run(a.op, a.rest, a.asked))
      \/ /\ calls' = LoadThen(Minus(calls, n), then)
         /\ \/ a.op = "apply" /\ mine /\ local' = [local EXCEPT !.dialog = h]
            \/ a.op = "apply" /\ ~mine /\ local' = local
            \/ a.op = "migrate" /\ local' = [local EXCEPT !.dialog = e]
            \/ a.op \notin {"apply", "migrate"} /\ local' = [local EXCEPT !.busy = None, !.selected = sd]
  BY Zenon DEF RunGoesOn, Do
<1>3. CASE local' = local /\ calls' = Plus(Minus(calls, n), Run(a.op, a.rest, a.asked))
  BY <1>1, <1>3, RunContinues
<1>4. CASE calls' = LoadThen(Minus(calls, n), then) /\ a.op = "apply" /\ mine /\ local' = [local EXCEPT !.dialog = h]
  <2>1. d.kind # "none" /\ d = DialogRecord(d.kind, d.arg, d.busy, d.apply) /\ h = [d EXCEPT !.apply = s]
    BY <1>0, <1>4 DEF IsDialog, NoDialog
  <2>2. ~HoldsBar(calls[n]) /\ ~IsRun(calls[n], "migrate")
    BY <1>4 DEF HoldsBar, IsRun
  <2>3. calls' = LoadThen(Minus(calls, n), then) /\ local' = [local EXCEPT !.dialog = h]
    BY <1>4
  <2> HIDE DEF h, d, then
  <2>4. h = DialogRecord(d.kind, d.arg, d.busy, s)
    BY <2>1 DEF DialogRecord
  <2>5. IsDialog(h) /\ h.kind = d.kind /\ h.arg = d.arg /\ h.busy = d.busy /\ h.apply = s
    BY <2>1, <2>4, DialogFields
  <2>6. DialogHeld(h, calls)
    BY <1>0, <2>1, <2>5 DEF DialogHeld
  <2>7. local' = ConnRecord(local.left, local.list, local.loading, local.error, local.drift, local.selecting,
                            local.selected, local.busy, h)
    BY <1>0, <2>3 DEF ConnRecord
  <2> QED BY <1>1, <2>2, <2>3, <2>5, <2>6, <2>7, RunEnds
<1>5. CASE calls' = LoadThen(Minus(calls, n), then) /\ a.op = "apply" /\ ~mine /\ local' = local
  <2>1. ~HoldsBar(calls[n]) /\ ~IsRun(calls[n], "migrate")
    BY <1>5 DEF HoldsBar, IsRun
  <2>2. d.kind # "none" /\ d.apply = "running" => ~IsCopy(calls[n], {d.arg})
    BY <1>0, <1>5 DEF DialogHeld, IsCopy
  <2>3. calls' = LoadThen(Minus(calls, n), then)
    BY <1>5
  <2> HIDE DEF then, d
  <2>4. local' = ConnRecord(local.left, local.list, local.loading, local.error, local.drift, local.selecting,
                            local.selected, local.busy, d)
    BY <1>0, <1>5
  <2> QED BY <1>0, <1>1, <2>1, <2>2, <2>3, <2>4, RunEnds
<1>6. CASE calls' = LoadThen(Minus(calls, n), then) /\ a.op = "migrate" /\ local' = [local EXCEPT !.dialog = e]
  <2>1. ~HoldsBar(calls[n]) /\ \A x : ~IsCopy(calls[n], x)
    BY <1>6 DEF HoldsBar, IsCopy, IsRun
  <2>2. IsDialog(e) /\ e.kind = d.kind /\ (d.kind # "none" => e.arg = d.arg /\ e.busy = f /\ e.apply = d.apply)
    BY <1>0, DialogFreed
  <2>3. calls' = LoadThen(Minus(calls, n), then) /\ local' = [local EXCEPT !.dialog = e]
    BY <1>6
  <2> HIDE DEF then, d, e
  <2>4. DialogHeld(e, calls)
    BY <1>0, <2>2 DEF DialogHeld
  <2>5. local' = ConnRecord(local.left, local.list, local.loading, local.error, local.drift, local.selecting,
                            local.selected, local.busy, e)
    BY <1>0, <2>3 DEF ConnRecord
  <2> QED BY <1>1, <2>1, <2>2, <2>3, <2>4, <2>5, RunEnds
<1>7. CASE /\ calls' = LoadThen(Minus(calls, n), then)
           /\ a.op \notin {"apply", "migrate"} /\ local' = [local EXCEPT !.busy = None, !.selected = sd]
  <2>1. ~IsRun(calls[n], "migrate") /\ \A x : ~IsCopy(calls[n], x)
    BY <1>7 DEF IsCopy, IsRun
  <2> DEFINE b == None
  <2>2. calls' = LoadThen(Minus(calls, n), then) /\ local' = [local EXCEPT !.busy = b, !.selected = sd] /\ b = None
    BY <1>7
  <2> HIDE DEF then, sd, b
  <2>3. local' = ConnRecord(local.left, local.list, local.loading, local.error, local.drift, local.selecting,
                            sd, b, d)
    BY <1>0, <2>2 DEF ConnRecord
  <2> HIDE DEF d
  <2> QED BY <1>0, <1>1, <2>1, <2>2, <2>3, RunEnds
<1> QED BY <1>2, <1>3, <1>4, <1>5, <1>6, <1>7

LEMMA LoadAnswersStep ==
    ASSUME ConnOk(local, calls, db), NEW n \in DOMAIN calls, LoadAnswers(n) PROVE ConnOk(local', calls', db')
<1>0. /\ local = ConnRecord(local.left, local.list, local.loading, local.error, local.drift,
                            local.selecting, local.selected, local.busy, local.dialog)
      /\ Listing(calls) /\ IsDialog(local.dialog) /\ DialogHeld(local.dialog, calls) /\ BarHeld(local.busy, calls)
      /\ ListHeld(local.list, local.drift, calls, db)
  BY DEF ConnOk, IsConn
<1>1. PICK ok \in BOOLEAN :
         /\ Read(n, ok) /\ calls' = Minus(calls, n) /\ db' = db
         /\ LET l == [Loaded(local, n, ok) EXCEPT !.error = ~ok] IN
            local' = IF calls[n].arg.then = l.dialog.kind THEN [l EXCEPT !.dialog = NoDialog] ELSE l
  BY DEF LoadAnswers, Do
<1> DEFINE f == FALSE
           t == TRUE
           no == ~ok
           fresh == ~calls[n].arg.newest
           got == calls[n].got
           i == IF ok THEN got ELSE local.list
           dr == IF ok THEN fresh ELSE t
           r == Loaded(local, n, ok)
           l == [r EXCEPT !.error = no]
           g == NoDialog
<1>2. /\ calls[n].op = "load" /\ Listing(calls') /\ Turn(calls, calls', {n}, {})
      /\ ok  => Read(n, ok) /\ calls[n].at = "served"
  BY <1>0, <1>1, TurnMinus DEF Read
<1>3. ListHeld(i, dr, calls', db')
  <2>1. ~HoldsBar(calls[n]) /\ calls[n].op # "run"
    BY <1>2 DEF HoldsBar
  <2>2. CASE \E m \in DOMAIN calls : calls[m].op = "run"
    <3>1. \E m \in DOMAIN calls' : calls'[m].op = "run"
      BY <1>2, <2>1, <2>2, HeldLeaves
    <3> QED BY <3>1 DEF ListHeld
  <2>3. CASE UpToDate(local.list, local.drift, calls, db)
    <3>1. (ok => UpToDate(got, fresh, calls', db)) /\ UpToDate(local.list, TRUE, calls', db)
      BY <1>1, <1>2, <2>3, UpToDateMinus
    <3> HIDE DEF got, fresh
    <3>2. UpToDate(i, dr, calls', db)
      <4>1. CASE ok
        BY <3>1, <4>1
      <4>2. CASE ~ok
        BY <3>1, <4>2
      <4> QED BY <4>1, <4>2
    <3> QED BY <1>1, <3>2 DEF ListHeld
  <2> QED BY <1>0, <2>2, <2>3 DEF ListHeld
<1>4. r = [local EXCEPT !.loading = f, !.list = i, !.drift = dr]
  <2>1. CASE ok
    BY <2>1 DEF Loaded
  <2>2. CASE ~ok
    <3>1. r = [local EXCEPT !.loading = f, !.drift = t] /\ i = local.list /\ dr = t
      BY <2>2 DEF Loaded
    <3> HIDE DEF r, f, t, i, dr
    <3> QED BY <1>0, <3>1 DEF ConnRecord
  <2> QED BY <2>1, <2>2
<1>5. \/ local' = [l EXCEPT !.dialog = g] /\ calls[n].arg.then = l.dialog.kind
      \/ local' = l
  BY <1>1
<1> HIDE DEF r, f, t, no, i, dr
<1>6. r = ConnRecord(local.left, i, f, local.error, dr, local.selecting, local.selected, local.busy, local.dialog)
  BY <1>0, <1>4 DEF ConnRecord
<1>7. l = ConnRecord(local.left, i, f, no, dr, local.selecting, local.selected, local.busy, local.dialog)
  <2>1. l = [r EXCEPT !.error = no]
    OBVIOUS
  <2> HIDE DEF l
  <2> QED BY <1>6, <2>1 DEF ConnRecord
<1> HIDE DEF l, g
<1>8. \E x : /\ local' = ConnRecord(local.left, i, f, no, dr, local.selecting, local.selected, local.busy, x)
             /\ x \in {local.dialog, g}
  BY <1>5, <1>7 DEF ConnRecord
<1>9. BarHeld(local.busy, calls') /\ DialogHeld(local.dialog, calls')
  BY <1>0, <1>2, ReadLeaves
<1>10. IsDialog(g) /\ DialogHeld(g, calls')
  BY NoDialogHeld DEF g
<1>11. /\ IsConn(local') /\ local'.list = i /\ local'.drift = dr /\ local'.busy = local.busy
       /\ local'.dialog \in {local.dialog, g}
  BY <1>8, ConnFields
<1> QED BY <1>0, <1>2, <1>3, <1>9, <1>10, <1>11 DEF ConnOk

LEMMA QuotaHealsStep == ASSUME ConnOk(local, calls, db), NEW c, QuotaHeals(c) PROVE ConnOk(local', calls', db')
<1> DEFINE healed == [local.list[c] EXCEPT !.error = FALSE, !.limited = FALSE, !.backoff = FALSE]
           i == [local.list EXCEPT ![c] = healed]
           t == TRUE
<1>0. local = ConnRecord(local.left, local.list, local.loading, local.error, local.drift,
                         local.selecting, local.selected, local.busy, local.dialog)
  BY DEF ConnOk, IsConn
<1>1. local' = [local EXCEPT !.list = i, !.drift = t] /\ calls' = calls /\ db' = db
  BY DEF QuotaHeals, Do
<1>2. ListHeld(i, t, calls, db)
  BY DEF ConnOk, ListHeld, UpToDate
<1> HIDE DEF i, t
<1>3. local' = ConnRecord(local.left, i, local.loading, local.error, t,
                          local.selecting, local.selected, local.busy, local.dialog)
  BY <1>0, <1>1 DEF ConnRecord
<1>4. /\ IsConn(local') /\ local'.list = i /\ local'.drift = t /\ local'.busy = local.busy /\ local'.dialog = local.dialog
  BY <1>3, ConnFields
<1> QED BY <1>1, <1>2, <1>4 DEF ConnOk

LEMMA ConnServed ==
    ASSUME ConnOk(local, calls, db), NEW n \in DOMAIN calls, ReadServed(n) PROVE ConnOk(local', calls', db')
<1>1. Listing(calls)
  BY DEF ConnOk
<1>2. /\ Listing(calls') /\ Turn(calls, calls', {}, {}) /\ local' = local /\ db' = db
      /\ \A list, drift : UpToDate(list, drift, calls, db) => UpToDate(list, drift, calls', db)
  BY <1>1, TurnServed
<1>3. IsConn(local')
  BY <1>2 DEF ConnOk
<1> QED BY <1>2, <1>3, ConnStays

LEMMA ChangeServedStep ==
    ASSUME ConnOk(local, calls, db), NEW n \in DOMAIN calls, ChangeServed(n) PROVE ConnOk(local', calls', db')
<1>1. Listing(calls) /\ IsConn(local) /\ IsDialog(local.dialog) /\ BarHeld(local.busy, calls) /\ DialogHeld(local.dialog, calls)
  BY DEF ConnOk
<1>2. PICK d : calls[n].op \in {"one", "run"} /\ Serve(n, d, None)
  BY DEF ChangeServed
<1>3. /\ Listing(calls') /\ Turn(calls, calls', {}, {}) /\ local' = local
      /\ \A list, drift : UpToDate(list, drift, calls', db')
  BY <1>1, <1>2, TurnChanged
<1>4. BarHeld(local.busy, calls') /\ DialogHeld(local.dialog, calls')
  BY <1>1, <1>3, HeldGrows
<1> QED BY <1>1, <1>3, <1>4 DEF ConnOk, ListHeld

LEMMA ConnStep == ASSUME ConnOk(local, calls, db), ConnectionsNext PROVE ConnOk(local', calls', db')
<1>1. ASSUME NEW n \in DOMAIN calls, ReadServed(n) \/ ChangeServed(n) \/ ConnectionsAnswer(n)
      PROVE ConnOk(local', calls', db')
  BY <1>1, ConnServed, ChangeServedStep, OneAnswersStep, RunGoesOnStep, LoadAnswersStep DEF ConnectionsAnswer
<1>2. ASSUME NEW c \in Handled,
             \/ handleToggle(c) \/ handleTest(c) \/ handleRename(c) \/ QuotaHeals(c)
             \/ \E op \in {"clear-errors", "reset-cooldowns"} : clearIssue(c, op)
             \/ \E kind \in {"edit", "models", "delete"} : OpenDialog(kind, c)
      PROVE  ConnOk(local', calls', db')
  BY Zenon, <1>2, OneSteps, QuotaHealsStep, OpenSteps
<1>3. ASSUME NEW pool \in Filtered,
             \/ toggleSelectAll(pool \cap Listed) \/ OpenCleanup(pool)
             \/ \E op \in {"clear-errors", "reset-cooldowns"} : handleQuickAction(op, pool)
      PROVE  ConnOk(local', calls', db')
  BY Zenon, <1>3, SelectSteps, OpenSteps, BulkActionSteps
<1>4. ASSUME Select \/ \E c \in Ids : toggleSelect(c) PROVE ConnOk(local', calls', db')
  BY Zenon, <1>4, SelectSteps
<1>5. ASSUME NEW op \in {"enable", "disable", "bulkModels", "migrate", "bulkDelete"}, handleBulkAction(op)
      PROVE  ConnOk(local', calls', db')
  BY Zenon, <1>5, BulkActionSteps
<1>6. ASSUME handleImportFile \/ onCreated PROVE ConnOk(local', calls', db')
  BY Zenon, <1>6, OneSteps
<1> QED BY Zenon, <1>1, <1>2, <1>3, <1>4, <1>5, <1>6, SubmitDialogStep, CloseDialogStep, ConfirmStep,
           CleanupStep,
       RetryLoadStep, OpenAddStep, TickStep DEF ConnectionsNext

LEMMA ConnStart == ConnectionsInit => ConnOk(local, calls, db)
<1> SUFFICES ASSUME ConnectionsInit PROVE ConnOk(local, calls, db)
  OBVIOUS
<1> DEFINE i == [c \in Ids |-> None]
           e == {}
           g == NoDialog
           c == Call("load", [newest |-> TRUE, then |-> None])
<1>1. local = ConnRecord(MaxClicks, i, TRUE, FALSE, TRUE, FALSE, e, None, g) /\ calls = LoadThen(NoCalls, None)
  BY DEF ConnectionsInit, ConnRecord, Load
<1>2. Listing(calls) /\ UpToDate(i, TRUE, calls, db)
  BY <1>1, NothingUnderWay, TurnLoad
<1>3. IsDialog(g) /\ DialogHeld(g, calls) /\ BarHeld(None, calls)
  BY NoDialogHeld DEF BarHeld
<1> HIDE DEF i, g, e
<1>4. IsConn(local) /\ local.list = i /\ local.drift = TRUE /\ local.busy = None /\ local.dialog = g
  BY <1>1 DEF IsConn, ConnRecord
<1> QED BY <1>2, <1>3, <1>4 DEF ConnOk, ListHeld

LEMMA ConnSettled ==
    ASSUME ConnOk(local, calls, db), calls = NoCalls
    PROVE  ConnectionsRest /\ (~local.drift => local.list = db)
<1>1. DOMAIN calls = {}
  BY NoCallsEmpty
<1>2. ~local.drift => local.list = db
  BY <1>1 DEF ConnOk, ListHeld, UpToDate
<1>3. local.busy = None
  BY <1>1 DEF ConnOk, BarHeld
<1>4. local.dialog.kind # "none" => ~local.dialog.busy /\ local.dialog.apply # "running"
  BY <1>1 DEF ConnOk, DialogHeld
<1> QED BY <1>2, <1>3, <1>4 DEF ConnectionsRest

-----------------------------------------------------------------------------
(* All of them. *)

SettleInv ==
    /\ screen = "connections" => ConnOk(local, calls, db)
    /\ screen = "cards" => CardsOk(local, calls)
    /\ screen = "settings" => SettingsOk(local, calls, db)
    /\ screen = "tools" => ToolsOk(local, calls, db)
    /\ screen = "tunnel" => TunnelOk(local, calls)

LEMMA SettleStarts == Init => SettleInv
<1> SUFFICES ASSUME Init PROVE SettleInv
  OBVIOUS
<1>1. screen = "connections" => ConnectionsInit
  BY DEF Init, ShellInit, DeviceInit, BrowserInit, BulkInit, AddInit, CardsInit, RulesInit, AdminInit,
     ChatInit, PicturesInit, LogsInit, ConsoleInit, FeedInit, SettingsInit, ToolsInit, TunnelInit
<1>2. screen = "cards" => CardsInit
  BY DEF Init, ShellInit, DeviceInit, BrowserInit, BulkInit, AddInit, ConnectionsInit, RulesInit, AdminInit,
     ChatInit, PicturesInit, LogsInit, ConsoleInit, FeedInit, SettingsInit, ToolsInit, TunnelInit
<1>3. screen = "settings" => SettingsInit
  BY DEF Init, ShellInit, DeviceInit, BrowserInit, BulkInit, AddInit, ConnectionsInit, CardsInit,
     RulesInit, AdminInit,
     ChatInit, PicturesInit, LogsInit, ConsoleInit, FeedInit, ToolsInit, TunnelInit
<1>4. screen = "tools" => ToolsInit
  BY DEF Init, ShellInit, DeviceInit, BrowserInit, BulkInit, AddInit, ConnectionsInit, CardsInit,
     RulesInit, AdminInit,
     ChatInit, PicturesInit, LogsInit, ConsoleInit, FeedInit, SettingsInit, TunnelInit
<1>5. screen = "tunnel" => TunnelInit
  BY DEF Init, ShellInit, DeviceInit, BrowserInit, BulkInit, AddInit, ConnectionsInit, CardsInit,
     RulesInit, AdminInit,
     ChatInit, PicturesInit, LogsInit, ConsoleInit, FeedInit, SettingsInit, ToolsInit
<1> QED BY <1>1, <1>2, <1>3, <1>4, <1>5, ConnStart, CardsStart, SettingsStart, ToolsStart, TunnelStart
           DEF SettleInv

LEMMA SettleSteps == SettleInv /\ [Next]_uiVars => SettleInv'
<1> SUFFICES ASSUME SettleInv, [Next]_uiVars PROVE SettleInv'
  OBVIOUS
<1>0. screen' = screen
  BY OneScreen
<1>1. CASE UNCHANGED uiVars
  BY <1>1 DEF SettleInv, uiVars
<1>2. CASE Next
  <2>1. screen = "connections" => ConnOk(local', calls', db')
    BY <1>2, ConnStep DEF Next, SettleInv
  <2>2. screen = "cards" => CardsOk(local', calls')
    BY <1>2, CardsStep DEF Next, SettleInv
  <2>3. screen = "settings" => SettingsOk(local', calls', db')
    BY <1>2, SettingsStep DEF Next, SettleInv
  <2>4. screen = "tools" => ToolsOk(local', calls', db')
    BY <1>2, ToolsStep DEF Next, SettleInv
  <2>5. screen = "tunnel" => TunnelOk(local', calls')
    BY <1>2, TunnelStep DEF Next, SettleInv
  <2> QED BY <1>0, <2>1, <2>2, <2>3, <2>4, <2>5 DEF SettleInv
<1> QED BY <1>1, <1>2

\* On every screen that lists, changes or fetches something, once its requests
\* are answered no button is off, no dialog busy, no row and no group spinning,
\* and the list is what the server holds unless its newest read failed or was
\* overtaken, or the answer to a change that the server had made was lost and
\* the screen did not read the list then (connections-screen.tsx, use-quota-fetch.ts, settings-screen.tsx,
\* tools-screen.tsx, tunnel-screen.tsx and the administration screens).
THEOREM ListsAlwaysSettle == Spec => []ListsSettle
<1> DEFINE AdminDone == screen = "admin" /\ calls = NoCalls => AdminRests /\ (~local.drift => local.list = db)
<1>1. Spec => []SettleInv
  BY SettleStarts, SettleSteps, PTL DEF Spec
<1>2. SettleInv /\ AdminDone => ListsSettle
  <2> SUFFICES ASSUME SettleInv, AdminDone PROVE ListsSettle
    OBVIOUS
  <2>1. screen = "connections" /\ calls = NoCalls => ConnectionsRest /\ (~local.drift => local.list = db)
    BY ConnSettled DEF SettleInv
  <2>2. screen = "tools" /\ calls = NoCalls /\ ~local.drift => local.list = db
    BY ToolsSettle DEF SettleInv
  <2>3. CardsSettle
    BY CardsSettled DEF SettleInv, CardsSettle
  <2>4. SystemSettles
    BY SettingsSettle, ToolsSettle, TunnelSettles DEF SettleInv, SystemSettles
  <2> QED BY <2>1, <2>2, <2>3, <2>4 DEF ListsSettle
<1> QED BY <1>1, <1>2, AdminSettles, PTL
=============================================================================
