---------------------------- MODULE ScreenProofs -----------------------------
(***************************************************************************)
(* More screens of the dashboard: adding a connection, the screens that    *)
(* list and change what the server holds, and the playground's chat.       *)
(***************************************************************************)
EXTENDS LoginProofs, SequenceTheorems

-----------------------------------------------------------------------------
(* Requests keep their place while others come and go. *)

LEMMA RoomIsFree == Room(1) => Free(calls) # {}
<1> SUFFICES ASSUME Room(1), Free(calls) = {} PROVE FALSE
  OBVIOUS
<1>1. Cardinality(Free(calls)) = 0
  BY FS_EmptySet
<1> QED BY <1>1 DEF Room

\* A place that is given up is free.
LEMMA MinusIsFree == ASSUME NEW cs, NEW n \in 1..MaxCalls PROVE Free(Minus(cs, n)) # {}
<1>1. n \in Free(Minus(cs, n))
  BY DEF Free, Minus
<1> QED BY <1>1

-----------------------------------------------------------------------------
(* Lists that are read again after every change. *)

IsRead(a) == a = [newest |-> a.newest, then |-> a.then]
AreReads(cs) == \A n \in DOMAIN cs : IsCall(cs[n]) /\ (cs[n].op = "load" => IsRead(cs[n].arg))

\* e is what c becomes when another read is sent; a read that is just sent.
Older(e, c) ==
    /\ IsCall(e) /\ e.op = c.op /\ e.at = c.at /\ e.got = c.got
    /\ c.op = "load" => IsRead(e.arg) /\ e.arg.then = c.arg.then /\ e.arg.newest = FALSE
    /\ c.op # "load" => e = c
NewRead(c, then) == IsCall(c) /\ c.op = "load" /\ c.at = "sent" /\ IsRead(c.arg) /\ c.arg.newest = TRUE /\ c.arg.then = then

LEMMA ReadFields ==
    ASSUME NEW newest, NEW then, NEW a, a = [newest |-> newest, then |-> then]
    PROVE  IsRead(a) /\ a.newest = newest /\ a.then = then
BY DEF IsRead

LEMMA ReadAged ==
    ASSUME NEW b, IsRead(b), NEW a, a = [b EXCEPT !.newest = FALSE]
    PROVE  IsRead(a) /\ a.newest = FALSE /\ a.then = b.then
<1>1. b = [newest |-> b.newest, then |-> b.then]
  BY Zenon DEF IsRead
<1>2. a = [newest |-> FALSE, then |-> b.then]
  BY <1>1
<1> QED BY Zenon, <1>2, ReadFields

LEMMA CallArg ==
    ASSUME NEW c, IsCall(c), NEW a, NEW e, e = [c EXCEPT !.arg = a]
    PROVE  IsCall(e) /\ e.op = c.op /\ e.arg = a /\ e.at = c.at /\ e.got = c.got
<1>1. c = [op |-> c.op, arg |-> c.arg, at |-> c.at, got |-> c.got]
  BY Zenon DEF IsCall
<1>2. e = [op |-> c.op, arg |-> a, at |-> c.at, got |-> c.got]
  BY <1>1
<1> QED BY Zenon, <1>2, CallFields

LEMMA OlderRead ==
    ASSUME NEW c, IsCall(c), IsRead(c.arg), NEW e, e = [c EXCEPT !.arg.newest = FALSE], c.op = "load"
    PROVE  Older(e, c)
<1> DEFINE a == [c.arg EXCEPT !.newest = FALSE]
<1>1. IsRead(a) /\ a.newest = FALSE /\ a.then = c.arg.then
  <2>1. \A b : b = [c.arg EXCEPT !.newest = FALSE] => IsRead(b) /\ b.newest = FALSE /\ b.then = c.arg.then
    BY ReadAged
  <2> QED BY Zenon, <2>1
<1>2. e = [c EXCEPT !.arg = a]
  OBVIOUS
<1> HIDE DEF a
<1>3. IsCall(e) /\ e.op = c.op /\ e.arg = a /\ e.at = c.at /\ e.got = c.got
  BY <1>2, CallArg
<1> QED BY <1>1, <1>3 DEF Older

LEMMA OutdatedCalls ==
    ASSUME NEW cs, AreReads(cs)
    PROVE  DOMAIN Outdated(cs) = DOMAIN cs /\ \A m \in DOMAIN cs : Older(Outdated(cs)[m], cs[m])
<1>1. DOMAIN Outdated(cs) = DOMAIN cs
  BY DEF Outdated
<1>2. ASSUME NEW m \in DOMAIN cs PROVE Older(Outdated(cs)[m], cs[m])
  <2>1. IsCall(cs[m]) /\ (cs[m].op = "load" => IsRead(cs[m].arg))
    BY DEF AreReads
  <2>2. CASE cs[m].op = "load"
    <3>1. Outdated(cs)[m] = [cs[m] EXCEPT !.arg.newest = FALSE]
      BY <2>2 DEF Outdated
    <3>2. \A e : e = [cs[m] EXCEPT !.arg.newest = FALSE] => Older(e, cs[m])
      BY <2>1, <2>2, OlderRead
    <3> QED BY <3>1, <3>2
  <2>3. CASE cs[m].op # "load"
    <3>1. Outdated(cs)[m] = cs[m]
      BY <2>3 DEF Outdated
    <3> QED BY <2>1, <2>3, <3>1 DEF Older
  <2> QED BY <2>2, <2>3
<1> QED BY <1>1, <1>2

LEMMA LoadThenCalls ==
    ASSUME NEW cs, AreReads(cs), NEW then
    PROVE  LET ds == LoadThen(cs, then) IN
           /\ AreReads(ds)
           /\ DOMAIN cs \subseteq DOMAIN ds /\ \A m \in DOMAIN cs : Older(ds[m], cs[m])
           /\ \A m \in DOMAIN ds : NewRead(ds[m], then) \/ (m \in DOMAIN cs /\ Older(ds[m], cs[m]))
           /\ \A m, n \in DOMAIN ds : m # n => (m \in DOMAIN cs /\ Older(ds[m], cs[m])) \/ (n \in DOMAIN cs /\ Older(ds[n], cs[n]))
           /\ DOMAIN cs \subseteq 1..MaxCalls => DOMAIN ds \subseteq 1..MaxCalls
           /\ Free(cs) # {} => \E n \in DOMAIN ds : NewRead(ds[n], then)
<1> DEFINE os == Outdated(cs)
           a == [newest |-> TRUE, then |-> then]
           c == Call("load", a)
           ds == Plus(os, c)
<1>1. DOMAIN os = DOMAIN cs /\ \A m \in DOMAIN cs : Older(os[m], cs[m])
  BY OutdatedCalls
<1>2. IsRead(a) /\ a.newest = TRUE /\ a.then = then
  BY ReadFields
<1> HIDE DEF a
<1>3. NewRead(c, then)
  BY <1>2, CallSent DEF NewRead
<1> HIDE DEF os, c
<1>4. /\ \A n \in DOMAIN ds : ds[n] = c \/ (n \in DOMAIN os /\ ds[n] = os[n])
      /\ \A m, n \in DOMAIN ds : m # n => (m \in DOMAIN os /\ ds[m] = os[m]) \/ (n \in DOMAIN os /\ ds[n] = os[n])
      /\ DOMAIN os \subseteq DOMAIN ds /\ \A n \in DOMAIN os : ds[n] = os[n]
      /\ DOMAIN os \subseteq 1..MaxCalls => DOMAIN ds \subseteq 1..MaxCalls
      /\ Free(os) # {} => \E n \in DOMAIN ds : ds[n] = c
  BY PlusCalls, PlusKeeps
<1>5. Free(os) = Free(cs)
  BY <1>1 DEF Free
<1>6. LoadThen(cs, then) = ds
  BY DEF LoadThen, os, c, a
<1> HIDE DEF ds
<1>7. AreReads(ds)
  BY <1>1, <1>3, <1>4 DEF AreReads, Older, NewRead
<1>8. DOMAIN cs \subseteq DOMAIN ds /\ \A m \in DOMAIN cs : Older(ds[m], cs[m])
  BY <1>1, <1>4
<1>9. \A m \in DOMAIN ds : NewRead(ds[m], then) \/ (m \in DOMAIN cs /\ Older(ds[m], cs[m]))
  BY <1>1, <1>3, <1>4
<1>10. \A m, n \in DOMAIN ds : m # n => (m \in DOMAIN cs /\ Older(ds[m], cs[m])) \/ (n \in DOMAIN cs /\ Older(ds[n], cs[n]))
  <2> SUFFICES ASSUME NEW m \in DOMAIN ds, NEW n \in DOMAIN ds, m # n
               PROVE  (m \in DOMAIN cs /\ Older(ds[m], cs[m])) \/ (n \in DOMAIN cs /\ Older(ds[n], cs[n]))
    OBVIOUS
  <2>1. (m \in DOMAIN os /\ ds[m] = os[m]) \/ (n \in DOMAIN os /\ ds[n] = os[n])
    BY <1>4
  <2> QED BY <1>1, <2>1
<1>11. DOMAIN cs \subseteq 1..MaxCalls => DOMAIN ds \subseteq 1..MaxCalls
  BY <1>1, <1>4
<1>12. Free(cs) # {} => \E n \in DOMAIN ds : NewRead(ds[n], then)
  BY <1>3, <1>4, <1>5
<1> QED BY Zenon, <1>6, <1>7, <1>8, <1>9, <1>10, <1>11, <1>12

\* The newest read, once served, has what the server holds; and a list that is
\* said to be fresh is, or is about to be read; unless the server has done what
\* the screen does not know of yet.
Wrote(c) == c.op # "load" /\ c.at = "served" /\ (c.op = "do" => c.arg.what # "test")
UpToDate(list, drift, cs, d) ==
    \/ \E n \in DOMAIN cs : Wrote(cs[n])
    \/ /\ \A n \in DOMAIN cs : cs[n].op = "load" /\ cs[n].arg.newest /\ cs[n].at = "served" => cs[n].got = d
       /\ ~drift => list = d \/ \E n \in DOMAIN cs : cs[n].op = "load"

\* Whatever is changed, a read was sent after it.
LEMMA ReadAfter ==
    ASSUME NEW cs, AreReads(cs), NEW then, Free(cs) # {}, NEW list, NEW drift, NEW d
    PROVE  UpToDate(list, drift, LoadThen(cs, then), d)
<1>1. /\ \A m \in DOMAIN LoadThen(cs, then) : \/ NewRead(LoadThen(cs, then)[m], then)
                                              \/ m \in DOMAIN cs /\ Older(LoadThen(cs, then)[m], cs[m])
      /\ \E n \in DOMAIN LoadThen(cs, then) : NewRead(LoadThen(cs, then)[n], then)
  BY LoadThenCalls
<1> DEFINE ds == LoadThen(cs, then)
<1> HIDE DEF ds
<1>2. \A m \in DOMAIN ds : ds[m].op = "load" => ~(ds[m].arg.newest /\ ds[m].at = "served")
  BY <1>1 DEF ds, NewRead, Older
<1> QED BY <1>1, <1>2 DEF ds, NewRead, UpToDate

LEMMA UpToDatePlus ==
    ASSUME NEW list, NEW drift, NEW cs, NEW d, UpToDate(list, drift, cs, d), NEW op, NEW arg, op # "load"
    PROVE  UpToDate(list, drift, Plus(cs, Call(op, arg)), d)
<1> DEFINE c == Call(op, arg)
           ds == Plus(cs, c)
<1>1. c.op = op
  BY CallSent
<1> HIDE DEF c
<1>2. /\ \A n \in DOMAIN ds : ds[n] = c \/ (n \in DOMAIN cs /\ ds[n] = cs[n])
      /\ DOMAIN cs \subseteq DOMAIN ds /\ \A n \in DOMAIN cs : ds[n] = cs[n]
  BY PlusCalls, PlusKeeps
<1> HIDE DEF ds
<1>3. UpToDate(list, drift, ds, d)
  BY <1>1, <1>2 DEF UpToDate
<1> QED BY <1>3 DEF ds, c

\* An answer of another kind; the answer of a read, good or bad.
LEMMA UpToDateMinus ==
    ASSUME NEW list, NEW drift, NEW cs, NEW d, UpToDate(list, drift, cs, d), NEW n \in DOMAIN cs
    PROVE  /\ cs[n].op # "load" /\ ~Wrote(cs[n]) => UpToDate(list, drift, Minus(cs, n), d)
           /\ cs[n].op = "load" => \A any : UpToDate(any, TRUE, Minus(cs, n), d)
           /\ cs[n].op = "load" /\ cs[n].at = "served"
                 => UpToDate(cs[n].got, ~cs[n].arg.newest, Minus(cs, n), d)
<1> DEFINE ds == Minus(cs, n)
<1>1. DOMAIN ds = DOMAIN cs \ {n} /\ \A m \in DOMAIN ds : ds[m] = cs[m]
  BY DEF Minus
<1> HIDE DEF ds
<1>2. /\ cs[n].op # "load" /\ ~Wrote(cs[n]) => UpToDate(list, drift, ds, d)
      /\ cs[n].op = "load" => \A any : UpToDate(any, TRUE, ds, d)
      /\ cs[n].op = "load" /\ cs[n].at = "served" => UpToDate(cs[n].got, ~cs[n].arg.newest, ds, d)
  BY <1>1 DEF UpToDate, Wrote
<1> QED BY <1>2 DEF ds

\* What was missed: the reads that were served before it age.
LEMMA MissedCalls ==
    ASSUME NEW cs, AreReads(cs)
    PROVE  /\ AreReads(Overlooked(cs)) /\ DOMAIN Overlooked(cs) = DOMAIN cs
           /\ \A m \in DOMAIN cs : Older(Overlooked(cs)[m], cs[m]) \/ Overlooked(cs)[m] = cs[m]
           /\ \A list, d : UpToDate(list, TRUE, Overlooked(cs), d)
<1> DEFINE ds == Overlooked(cs)
<1>1. DOMAIN ds = DOMAIN cs
  BY DEF Overlooked
<1>2. ASSUME NEW m \in DOMAIN cs
      PROVE  /\ Older(ds[m], cs[m]) \/ ds[m] = cs[m]
             /\ ds[m].op = "load" => ~(ds[m].arg.newest /\ ds[m].at = "served")
  <2>1. IsCall(cs[m]) /\ (cs[m].op = "load" => IsRead(cs[m].arg))
    BY DEF AreReads
  <2>2. CASE cs[m].op = "load" /\ cs[m].at = "served"
    <3>1. ds[m] = [cs[m] EXCEPT !.arg.newest = FALSE]
      BY <2>2 DEF Overlooked
    <3>2. \A e : e = [cs[m] EXCEPT !.arg.newest = FALSE] => Older(e, cs[m])
      BY <2>1, <2>2, OlderRead
    <3> HIDE DEF ds
    <3>3. Older(ds[m], cs[m])
      BY <3>1, <3>2
    <3> QED BY <2>2, <3>3 DEF Older
  <2>3. CASE ~(cs[m].op = "load" /\ cs[m].at = "served")
    <3>1. ds[m] = cs[m]
      BY <2>3 DEF Overlooked
    <3> QED BY <2>3, <3>1
  <2> QED BY <2>2, <2>3
<1> HIDE DEF ds
<1>3. AreReads(ds)
  BY <1>1, <1>2 DEF AreReads, Older
<1>4. \A list, d : UpToDate(list, TRUE, ds, d)
  BY <1>1, <1>2 DEF UpToDate
<1> QED BY <1>1, <1>2, <1>3, <1>4 DEF ds

LEMMA AreReadsMinus == ASSUME NEW cs, AreReads(cs), NEW n PROVE AreReads(Minus(cs, n))
BY MinusCalls DEF AreReads

LEMMA AreReadsPlus ==
    ASSUME NEW cs, AreReads(cs), NEW op, NEW arg, op # "load"
    PROVE  AreReads(Plus(cs, Call(op, arg)))
<1>1. IsCall(Call(op, arg)) /\ Call(op, arg).op = op
  BY CallSent
<1> QED BY <1>1, PlusCalls DEF AreReads

-----------------------------------------------------------------------------
(* Adding a connection. *)

Panels == [id : Accts \cup {None, Unnamed}, testing : BOOLEAN,
           found : {"none", "detecting", "models", "saving"}]
AddState == [open : BOOLEAN, selected : Catalog \cup {None}, result : Accts \cup {None, Unnamed},
             loading : BOOLEAN, busy : BOOLEAN, form : 1..2, name : BOOLEAN,
             panel : Panels, untold : SUBSET Accts]

\* One creation of the key form at most, and while it is under way the modal is
\* loading; who is to be told of a connection waits for its renaming.
AddCalls(loading, untold, cs) ==
    /\ DOMAIN cs \subseteq 1..MaxCalls
    /\ \A m, n \in DOMAIN cs : cs[m].op = "create" /\ cs[n].op = "create" => m = n
    /\ \A n \in DOMAIN cs : cs[n].op = "create" => loading
    /\ \A id \in untold : \E n \in DOMAIN cs : cs[n].op = "rename" /\ cs[n].arg = id
    /\ \A n \in DOMAIN cs : cs[n].op = "rename" => cs[n].arg \in Accts
    /\ \A n \in DOMAIN cs : cs[n].op \in {"create", "import"} /\ cs[n].at = "served" => cs[n].got \in Accts

AddInv ==
    /\ local \in AddState
    /\ AreCalls
    /\ AddCalls(local.loading, local.untold, calls)

LEMMA AddStarts == AddInit => AddInv
BY NoCallsEmpty DEF AddInit, AddInv, AddState, Panels, NoPanel, AddCalls, AreCalls, Unnamed

\* Other requests may come, and go.
LEMMA AddCallsPlus ==
    ASSUME NEW loading, NEW untold, NEW cs, AddCalls(loading, untold, cs), NEW op, NEW arg,
           op = "create" => loading /\ \A n \in DOMAIN cs : cs[n].op # "create",
           op = "rename" => arg \in Accts
    PROVE  AddCalls(loading, untold, Plus(cs, Call(op, arg)))
<1> DEFINE c == Call(op, arg)
           ds == Plus(cs, c)
<1>1. c.op = op /\ c.arg = arg /\ c.at = "sent"
  BY CallSent
<1> HIDE DEF c
<1>2. /\ \A n \in DOMAIN ds : ds[n] = c \/ (n \in DOMAIN cs /\ ds[n] = cs[n])
      /\ \A m, n \in DOMAIN ds : m # n => (m \in DOMAIN cs /\ ds[m] = cs[m]) \/ (n \in DOMAIN cs /\ ds[n] = cs[n])
      /\ DOMAIN cs \subseteq DOMAIN ds /\ \A n \in DOMAIN cs : ds[n] = cs[n]
      /\ DOMAIN cs \subseteq 1..MaxCalls => DOMAIN ds \subseteq 1..MaxCalls
  BY PlusCalls, PlusKeeps
<1> HIDE DEF ds
<1>3. AddCalls(loading, untold, ds)
  BY <1>1, <1>2 DEF AddCalls
<1> QED BY <1>3 DEF ds, c

LEMMA AddCallsMinus ==
    ASSUME NEW loading, NEW untold, NEW cs, AddCalls(loading, untold, cs), NEW n \in DOMAIN cs
    PROVE  /\ cs[n].op \notin {"create", "rename"} => AddCalls(loading, untold, Minus(cs, n))
           /\ cs[n].op = "create" => AddCalls(FALSE, untold, Minus(cs, n))
           /\ cs[n].op = "rename" => AddCalls(loading, untold \ {cs[n].arg}, Minus(cs, n))
<1> DEFINE ds == Minus(cs, n)
<1>1. DOMAIN ds = DOMAIN cs \ {n} /\ \A m \in DOMAIN ds : ds[m] = cs[m]
  BY DEF Minus
<1> HIDE DEF ds
<1>2. /\ cs[n].op \notin {"create", "rename"} => AddCalls(loading, untold, ds)
      /\ cs[n].op = "create" => AddCalls(FALSE, untold, ds)
      /\ cs[n].op = "rename" => AddCalls(loading, untold \ {cs[n].arg}, ds)
  BY <1>1 DEF AddCalls
<1> QED BY <1>2 DEF ds

LEMMA ReformKeeps ==
    ASSUME NEW l \in AddState, NEW p \in Catalog \cup {None}
    PROVE  /\ Reform(l, p) \in AddState
           /\ Reform(l, p).loading = l.loading /\ Reform(l, p).untold = l.untold
<1>1. CASE p = l.selected
  BY <1>1 DEF Reform
<1>2. CASE p # l.selected
  <2> DEFINE f == 3 - l.form
             u == IF p = None THEN l.name ELSE FALSE
             e == [l EXCEPT !.selected = p, !.form = f, !.busy = FALSE, !.name = u]
  <2>0. l.form \in 1..2 /\ l.name \in BOOLEAN
    BY DEF AddState
  <2>1. f \in 1..2
    BY <2>0
  <2>4. u \in BOOLEAN
    BY <2>0
  <2> HIDE DEF f, u
  <2>2. e \in AddState /\ e.loading = l.loading /\ e.untold = l.untold
    BY <2>1, <2>4 DEF AddState
  <2>3. Reform(l, p) = e
    BY <1>2 DEF Reform, f, u
  <2> HIDE DEF e
  <2> QED BY <2>2, <2>3
<1> QED BY <1>1, <1>2

\* The panel comes and goes with what is shown; it may send a test.
LEMMA WithPanelKeeps ==
    ASSUME NEW l \in AddState, NEW cs, WithPanel(l, cs)
    PROVE  /\ local' \in AddState /\ local'.loading = l.loading /\ local'.untold = l.untold
           /\ calls' = cs \/ \E arg : calls' = Plus(cs, Call("test", arg))
<1> DEFINE t == l.result \in Accts
           fresh == [NoPanel EXCEPT !.id = l.result, !.testing = t]
           kept == [l.panel EXCEPT !.id = l.result]
<1>1. fresh \in Panels /\ kept \in Panels /\ NoPanel \in Panels
  <2>1. l.panel \in Panels /\ l.result \in Accts \cup {None, Unnamed}
    BY DEF AddState
  <2>2. t \in BOOLEAN
    OBVIOUS
  <2> HIDE DEF t
  <2>3. fresh \in Panels
    BY <2>1, <2>2 DEF Panels, NoPanel
  <2> HIDE DEF fresh
  <2> QED BY <2>1, <2>3 DEF Panels, NoPanel
<1>2. /\ \E q \in {fresh, kept, NoPanel} : local' = [l EXCEPT !.panel = q]
      /\ calls' = cs \/ \E arg : calls' = Plus(cs, Call("test", arg))
  BY DEF WithPanel, Do
<1> HIDE DEF fresh, kept
<1>3. PICK q \in Panels : local' = [l EXCEPT !.panel = q]
  BY <1>1, <1>2
<1>4. local' \in AddState /\ local'.loading = l.loading /\ local'.untold = l.untold
  BY <1>3 DEF AddState
<1> QED BY <1>2, <1>4

LEMMA WithPanelDone ==
    ASSUME NEW l \in AddState, NEW cs, WithPanel(l, cs), AddCalls(l.loading, l.untold, cs), \A n \in DOMAIN cs : IsCall(cs[n])
    PROVE  AddInv'
<1>1. /\ local' \in AddState /\ local'.loading = l.loading /\ local'.untold = l.untold
      /\ calls' = cs \/ \E arg : calls' = Plus(cs, Call("test", arg))
  BY WithPanelKeeps
<1>2. CASE calls' = cs
  BY <1>1, <1>2 DEF AddInv, AreCalls
<1>3. ASSUME NEW arg, calls' = Plus(cs, Call("test", arg)) PROVE AddInv'
  <2>1. AddCalls(l.loading, l.untold, calls')
    BY <1>3, AddCallsPlus
  <2>2. \A n \in DOMAIN calls' : IsCall(calls'[n])
    BY <1>3, PlusCalls, CallSent
  <2> QED BY <1>1, <2>1, <2>2 DEF AddInv, AreCalls
<1> QED BY <1>1, <1>2, <1>3

\* Steps that send at most one more request.
LEMMA AddDone ==
    ASSUME AddInv, local' \in AddState, local'.untold = local.untold,
           NEW op, NEW arg, calls' \in {calls, Plus(calls, Call(op, arg))},
           op \notin {"create", "rename"}, local'.loading = local.loading
    PROVE  AddInv'
<1>1. CASE calls' = calls
  BY <1>1 DEF AddInv, AreCalls
<1>2. CASE calls' = Plus(calls, Call(op, arg))
  <2>1. AddCalls(local.loading, local.untold, calls')
    BY <1>2, AddCallsPlus DEF AddInv
  <2>2. \A n \in DOMAIN calls' : IsCall(calls'[n])
    BY <1>2, PlusCalls, CallSent DEF AddInv, AreCalls
  <2> QED BY <2>1, <2>2 DEF AddInv, AreCalls
<1> QED BY <1>1, <1>2

\* What the modal is told of is shown, or is renamed first.
LEMMA handleSuccessDone ==
    ASSUME NEW l \in AddState, NEW id \in Accts \cup {Unnamed}, NEW n \in DOMAIN calls, AreCalls,
           AddCalls(l.loading, l.untold, Minus(calls, n)), n \in 1..MaxCalls, handleSuccess(l, id, Minus(calls, n))
    PROVE  AddInv'
<1> DEFINE cs == Minus(calls, n)
<1>1. /\ n \in Free(cs) /\ \A m \in DOMAIN cs : IsCall(cs[m])
  BY DEF Minus, Free, AreCalls
<1>2. AddCalls(l.loading, l.untold, cs)
  OBVIOUS
<1>3. \/ ShowResult(l, id, cs)
      \/ /\ id \in Accts /\ local' = [l EXCEPT !.untold = l.untold \cup {id}] /\ calls' = Plus(cs, Call("rename", id))
  BY DEF handleSuccess, Do
<1> HIDE DEF cs
<1>4. CASE ShowResult(l, id, cs)
  <2> DEFINE u == l.untold \ {id}
             k == [l EXCEPT !.result = id, !.untold = u]
  <2>1. u \in SUBSET Accts
    BY DEF AddState
  <2>2. AddCalls(l.loading, u, cs)
    BY <1>2 DEF AddCalls
  <2>3. WithPanel(k, cs)
    BY <1>4 DEF ShowResult, AddState
  <2> HIDE DEF u
  <2>4. k \in AddState /\ k.loading = l.loading /\ k.untold = u
    BY <2>1 DEF AddState
  <2> HIDE DEF k
  <2> QED BY <1>1, <2>2, <2>3, <2>4, WithPanelDone
<1>5. CASE id \in Accts /\ local' = [l EXCEPT !.untold = l.untold \cup {id}] /\ calls' = Plus(cs, Call("rename", id))
  <2> DEFINE u == l.untold \cup {id}
  <2>1. u \in SUBSET Accts
    BY <1>5 DEF AddState
  <2>2. AddCalls(l.loading, l.untold, calls')
    BY <1>2, <1>5, AddCallsPlus
  <2>3. \E m \in DOMAIN calls' : calls'[m] = Call("rename", id)
    BY <1>1, <1>5, PlusKeeps
  <2>4. \E m \in DOMAIN calls' : calls'[m].op = "rename" /\ calls'[m].arg = id
    BY <2>3, CallSent
  <2>5. AddCalls(l.loading, u, calls')
    BY <2>2, <2>4 DEF AddCalls
  <2>6. local' = [l EXCEPT !.untold = u]
    BY <1>5
  <2> HIDE DEF u
  <2>7. local' \in AddState /\ local'.loading = l.loading /\ local'.untold = u
    BY <2>1, <2>6 DEF AddState
  <2>8. \A m \in DOMAIN calls' : IsCall(calls'[m])
    BY <1>1, <1>5, PlusCalls, CallSent
  <2> QED BY <2>5, <2>7, <2>8 DEF AddInv, AreCalls
<1> QED BY <1>3, <1>4, <1>5

LEMMA AddSteps == ASSUME AddInv, AddNext PROVE AddInv'
<1>0. /\ local \in AddState /\ AreCalls /\ DOMAIN calls \subseteq 1..MaxCalls
      /\ AddCalls(local.loading, local.untold, calls)
      /\ \A n \in DOMAIN calls : calls[n].op = "rename" => calls[n].arg \in Accts
      /\ \A n \in DOMAIN calls :
            calls[n].op \in {"create", "import"} /\ calls[n].at = "served" => calls[n].got \in Accts
  BY DEF AddInv, AddCalls
<1>a. \A n \in DOMAIN calls : IsCall(calls[n])
  BY <1>0 DEF AreCalls
<1>1. ASSUME NEW p \in Catalog \cup {None}, OpenModal(p) PROVE AddInv'
  <2> DEFINE r == Reform(local, p)
             u == IF p = None THEN r.name ELSE FALSE
             l == [r EXCEPT !.open = TRUE, !.result = None, !.name = u]
  <2>1. r \in AddState /\ r.loading = local.loading /\ r.untold = local.untold
    BY <1>0, ReformKeeps
  <2>2. WithPanel(l, calls)
    BY <1>1 DEF OpenModal
  <2> HIDE DEF r
  <2>4. u \in BOOLEAN
    BY <2>1 DEF AddState
  <2> HIDE DEF u
  <2>3. l \in AddState /\ l.loading = local.loading /\ l.untold = local.untold
    BY <2>1, <2>4 DEF AddState
  <2> HIDE DEF l
  <2> QED BY <1>0, <1>a, <2>2, <2>3, WithPanelDone
<1>2. CASE CloseModal
  <2> DEFINE f == 3 - local.form
             l == [local EXCEPT !.open = FALSE, !.form = f, !.busy = FALSE]
  <2>1. f \in 1..2
    BY <1>0 DEF AddState
  <2>2. WithPanel(l, calls)
    BY <1>2 DEF CloseModal
  <2> HIDE DEF f
  <2>3. l \in AddState /\ l.loading = local.loading /\ l.untold = local.untold
    BY <1>0, <2>1 DEF AddState
  <2> HIDE DEF l
  <2> QED BY <1>0, <1>a, <2>2, <2>3, WithPanelDone
<1>3. ASSUME NEW p \in Catalog, chooseProvider(p) PROVE AddInv'
  <2>1. WithPanel(Reform(local, p), calls)
    BY <1>3 DEF chooseProvider
  <2> QED BY <1>0, <1>a, <2>1, ReformKeeps, WithPanelDone
<1>4. CASE handleBack
  <2>1. WithPanel([local EXCEPT !.result = None], calls) \/ WithPanel(Reform(local, None), calls)
    BY <1>4 DEF handleBack
  <2>2. [local EXCEPT !.result = None] \in AddState /\ [local EXCEPT !.result = None].loading = local.loading
        /\ [local EXCEPT !.result = None].untold = local.untold
    BY <1>0 DEF AddState
  <2> QED BY <1>0, <1>a, <2>1, <2>2, ReformKeeps, WithPanelDone
<1>5. CASE AccountNameSection
  <2>1. local' = [local EXCEPT !.name = TRUE] /\ calls' = calls
    BY <1>5 DEF AccountNameSection, Do
  <2>2. local' \in AddState /\ local'.loading = local.loading /\ local'.untold = local.untold
    BY <1>0, <2>1 DEF AddState
  <2> QED BY <2>1, <2>2, AddDone
<1>6. CASE ApiKeySubmit
  <2> DEFINE c == Call("create", local.name)
  <2>1. ~local.loading /\ local' = [local EXCEPT !.loading = TRUE] /\ calls' = Plus(calls, c)
    BY <1>6 DEF ApiKeySubmit, Do
  <2>2. local' \in AddState /\ local'.loading = TRUE /\ local'.untold = local.untold
    BY <1>0, <2>1 DEF AddState
  <2>3. AddCalls(TRUE, local.untold, calls) /\ \A n \in DOMAIN calls : calls[n].op # "create"
    BY <1>0, <2>1 DEF AddCalls
  <2>4. AddCalls(TRUE, local.untold, calls')
    BY <2>1, <2>3, AddCallsPlus
  <2>5. \A n \in DOMAIN calls' : IsCall(calls'[n])
    BY <1>a, <2>1, PlusCalls, CallSent
  <2> QED BY <2>2, <2>4, <2>5 DEF AddInv, AreCalls
<1>7. CASE ImportSubmit
  <2>1. local' = [local EXCEPT !.busy = TRUE] /\ calls' = Plus(calls, Call("import", local.form))
    BY <1>7 DEF ImportSubmit, Do
  <2>2. local' \in AddState /\ local'.loading = local.loading /\ local'.untold = local.untold
    BY <1>0, <2>1 DEF AddState
  <2> QED BY <2>1, <2>2, AddDone
<1>8. CASE RunTest \/ detectModels \/ saveModels
  <2>1. PICK q \in Panels, op \in {"test", "detect", "save"} :
           local' = [local EXCEPT !.panel = q] /\ calls' = Plus(calls, Call(op, local.panel.id))
    <3>1. CASE RunTest
      <4> DEFINE q == [local.panel EXCEPT !.testing = TRUE]
      <4>1. q \in Panels
        BY <1>0 DEF AddState, Panels
      <4>2. local' = [local EXCEPT !.panel = q] /\ calls' = Plus(calls, Call("test", local.panel.id))
        BY <1>0, <3>1 DEF RunTest, Do, AddState
      <4> QED BY <4>1, <4>2
    <3>2. CASE detectModels
      <4> DEFINE q == [local.panel EXCEPT !.found = "detecting"]
      <4>1. q \in Panels
        BY <1>0 DEF AddState, Panels
      <4>2. local' = [local EXCEPT !.panel = q] /\ calls' = Plus(calls, Call("detect", local.panel.id))
        BY <1>0, <3>2 DEF detectModels, Do, AddState
      <4> QED BY <4>1, <4>2
    <3>3. CASE saveModels
      <4> DEFINE q == [local.panel EXCEPT !.found = "saving"]
      <4>1. q \in Panels
        BY <1>0 DEF AddState, Panels
      <4>2. local' = [local EXCEPT !.panel = q] /\ calls' = Plus(calls, Call("save", local.panel.id))
        BY <1>0, <3>3 DEF saveModels, Do, AddState
      <4> QED BY <4>1, <4>2
    <3> QED BY <1>8, <3>1, <3>2, <3>3
  <2>2. local' \in AddState /\ local'.loading = local.loading /\ local'.untold = local.untold
    BY <1>0, <2>1 DEF AddState
  <2> QED BY <2>1, <2>2, AddDone
<1>9. CASE AddAnother
  <2>1. WithPanel([local EXCEPT !.result = None], calls)
    BY <1>9 DEF AddAnother
  <2>2. [local EXCEPT !.result = None] \in AddState /\ [local EXCEPT !.result = None].loading = local.loading
        /\ [local EXCEPT !.result = None].untold = local.untold
    BY <1>0 DEF AddState
  <2> QED BY <1>0, <1>a, <2>1, <2>2, WithPanelDone
<1>10. ASSUME NEW n \in DOMAIN calls, CreateAnswers(n) PROVE AddInv'
  <2> DEFINE l == [local EXCEPT !.loading = FALSE]
  <2>1. /\ calls[n].op = "create"
        /\ \/ Do(l, Minus(calls, n))
           \/ Served(n) /\ handleSuccess(l, calls[n].got, Minus(calls, n))
    BY <1>10 DEF CreateAnswers, Settled
  <2>2. l \in AddState /\ l.loading = FALSE /\ l.untold = local.untold
    BY <1>0 DEF AddState
  <2> HIDE DEF l
  <2>3. AddCalls(l.loading, l.untold, Minus(calls, n))
    BY <1>0, <2>1, <2>2, AddCallsMinus
  <2>4. CASE Do(l, Minus(calls, n))
    <3>1. local' = l /\ calls' = Minus(calls, n) /\ \A m \in DOMAIN calls' : IsCall(calls'[m])
      BY <1>a, <2>4, MinusCalls DEF Do
    <3> QED BY <2>2, <2>3, <3>1 DEF AddInv, AreCalls
  <2>5. CASE Served(n) /\ handleSuccess(l, calls[n].got, Minus(calls, n))
    <3>1. calls[n].got \in Accts \cup {Unnamed}
      BY <1>0, <2>1, <2>5 DEF Served
    <3> QED BY <1>0, <2>2, <2>3, <2>5, <3>1, handleSuccessDone
  <2> QED BY <2>1, <2>4, <2>5
<1>11. ASSUME NEW n \in DOMAIN calls, ImportAnswers(n) PROVE AddInv'
  <2>1. PICK l \in {local, [local EXCEPT !.busy = FALSE]} :
        /\ calls[n].op = "import"
        /\ \/ Do(l, Minus(calls, n))
           \/ Served(n) /\ \E id \in {calls[n].got, Unnamed} : handleSuccess(l, id, Minus(calls, n))
    BY <1>11 DEF ImportAnswers, Settled
  <2>2. l \in AddState /\ l.loading = local.loading /\ l.untold = local.untold
    BY <1>0, <2>1 DEF AddState
  <2>3. AddCalls(l.loading, l.untold, Minus(calls, n))
    BY <1>0, <2>1, <2>2, AddCallsMinus
  <2>4. CASE Do(l, Minus(calls, n))
    <3>1. local' = l /\ calls' = Minus(calls, n) /\ \A m \in DOMAIN calls' : IsCall(calls'[m])
      BY <1>a, <2>4, MinusCalls DEF Do
    <3> QED BY <2>2, <2>3, <3>1 DEF AddInv, AreCalls
  <2>5. ASSUME Served(n), NEW id \in {calls[n].got, Unnamed}, handleSuccess(l, id, Minus(calls, n)) PROVE AddInv'
    <3>1. id \in Accts \cup {Unnamed}
      BY <1>0, <2>1, <2>5 DEF Served
    <3> QED BY <1>0, <2>2, <2>3, <2>5, <3>1, handleSuccessDone
  <2> QED BY <2>1, <2>4, <2>5
<1>12. ASSUME NEW n \in DOMAIN calls, RenameAnswers(n) PROVE AddInv'
  <2> DEFINE id == calls[n].arg
             u == local.untold \ {id}
             k == [local EXCEPT !.result = id, !.untold = u]
  <2>1. calls[n].op = "rename" /\ WithPanel(k, Minus(calls, n))
    BY <1>0, <1>12 DEF RenameAnswers, ShowResult, AddState
  <2>2. id \in Accts /\ u \in SUBSET Accts
    BY <1>0, <2>1 DEF AddState
  <2>3. AddCalls(local.loading, u, Minus(calls, n))
    BY <1>0, <2>1, AddCallsMinus
  <2>4. \A m \in DOMAIN Minus(calls, n) : IsCall(Minus(calls, n)[m])
    BY <1>a, MinusCalls
  <2> HIDE DEF id, u
  <2>5. k \in AddState /\ k.loading = local.loading /\ k.untold = u
    BY <1>0, <2>2 DEF AddState
  <2> HIDE DEF k
  <2> QED BY <2>1, <2>3, <2>4, <2>5, WithPanelDone
<1>13. ASSUME NEW n \in DOMAIN calls, VerifyAnswers(n) PROVE AddInv'
  <2>1. /\ calls[n].op \notin {"create", "rename"} /\ calls' = Minus(calls, n)
        /\ local' = local \/ \E q \in Panels : local' = [local EXCEPT !.panel = q]
    <3> DEFINE p == local.panel
    <3>1. \A b \in BOOLEAN, found \in {"none", "models"} :
             [p EXCEPT !.testing = FALSE] \in Panels /\ [p EXCEPT !.found = found] \in Panels
      BY <1>0 DEF AddState, Panels
    <3> QED BY <1>13, <3>1 DEF VerifyAnswers, Do
  <2>2. local' \in AddState /\ local'.loading = local.loading /\ local'.untold = local.untold
    BY <1>0, <2>1 DEF AddState
  <2>3. AddCalls(local.loading, local.untold, Minus(calls, n))
    BY <1>0, <2>1, AddCallsMinus
  <2>4. \A m \in DOMAIN calls' : IsCall(calls'[m])
    BY <1>a, <2>1, MinusCalls
  <2> QED BY <2>1, <2>2, <2>3, <2>4 DEF AddInv, AreCalls
<1>14. ASSUME NEW n \in DOMAIN calls, AddServe(n) \/ Lose(n) PROVE AddInv'
  <2>1. /\ local' = local /\ DOMAIN calls' = DOMAIN calls
        /\ \A m \in DOMAIN calls : SameCall(calls'[m], calls[m]) /\ (m # n => calls'[m] = calls[m])
        /\ calls[n].op \in {"create", "import"} /\ calls'[n].at = "served" => calls'[n].got \in Accts
    <3>1. CASE AddServe(n)
      <4>1. PICK d, got : Serve(n, d, got) /\ (calls[n].op \in {"create", "import"} => got \in Accts)
        BY <3>1 DEF AddServe
      <4> QED BY <1>0, <4>1, ServeCalls
    <3>2. CASE Lose(n)
      BY <1>0, <3>2, LoseCalls
    <3> QED BY <1>14, <3>1, <3>2
  <2>2. AddCalls(local.loading, local.untold, calls')
    BY <1>0, <2>1 DEF AddCalls, SameCall
  <2>3. \A m \in DOMAIN calls' : IsCall(calls'[m])
    BY <2>1 DEF SameCall
  <2> QED BY <1>0, <2>1, <2>2, <2>3 DEF AddInv, AreCalls
<1> QED BY Zenon, <1>1, <1>2, <1>3, <1>4, <1>5, <1>6, <1>7, <1>8, <1>9, <1>10, <1>11, <1>12, <1>13, <1>14 DEF AddNext

\* However often the dialog is closed and opened again, the key form has one
\* creation under way at most, and once the renamings are answered the host has
\* been told of every connection (handleCreateConnection, finalizeResult).
THEOREM OnboardingIsSound == Spec => []OnboardingSound
<1> DEFINE I == screen = "add" => AddInv
<1>1. Init => I
  BY AddStarts DEF Init, ShellInit, DeviceInit, BrowserInit, BulkInit, ConnectionsInit, CardsInit, RulesInit,
     AdminInit, ChatInit, PicturesInit, LogsInit, ConsoleInit, FeedInit, SettingsInit, ToolsInit, TunnelInit
<1>2. I /\ [Next]_uiVars => I'
  <2> SUFFICES ASSUME I, [Next]_uiVars, screen' = "add" PROVE AddInv'
    OBVIOUS
  <2>1. screen = "add"
    BY OneScreen
  <2>2. CASE AddNext
    BY <2>1, <2>2, AddSteps
  <2>3. CASE UNCHANGED uiVars
    BY <2>1, <2>3 DEF uiVars, AddInv, AreCalls
  <2> QED BY <2>1, <2>2, <2>3 DEF Next
<1>3. I => OnboardingSound
  <2> SUFFICES ASSUME I, screen = "add"
               PROVE  Cardinality(Waiting("create")) <= 1 /\ (Quiet({"rename"}) => local.untold = {})
    BY DEF OnboardingSound
  <2>1. \A m, n \in Waiting("create") : m = n
    BY DEF AddInv, AddCalls, Waiting
  <2>2. Waiting("create") = {} \/ \E n : Waiting("create") = {n}
    BY <2>1
  <2>3. Cardinality(Waiting("create")) <= 1
    <3>1. CASE Waiting("create") = {}
      BY <3>1, FS_EmptySet
    <3>2. ASSUME NEW n, Waiting("create") = {n} PROVE Cardinality(Waiting("create")) <= 1
      BY <3>2, FS_Singleton
    <3> QED BY <2>2, <3>1, <3>2
  <2>4. Quiet({"rename"}) => local.untold = {}
    BY DEF AddInv, AddCalls, AddState, Quiet, Outstanding
  <2> QED BY <2>3, <2>4
<1> QED BY <1>1, <1>2, <1>3, PTL DEF Spec

-----------------------------------------------------------------------------
(* The screens that list and change what the server holds. *)

Versions == {"absent", "v0", "v1"}
FormState == [kind : DOMAIN Dialogs \cup {"none"}, id : Items \cup {None}, dirty : BOOLEAN, asking : BOOLEAN]
KeysState == [of : Items \cup {None}, shown : Items \cup {None}, loading : BOOLEAN, failed : BOOLEAN]
AdminState ==
    [page : Pages, left : 0..MaxClicks, list : [Items -> Versions], loading : BOOLEAN, drift : BOOLEAN,
     form : FormState, busy : SUBSET DOMAIN Dialogs, rows : SUBSET Items, secret : Items \cup {None},
     owed : SUBSET Items, newKey : Items \cup {None}, met : BOOLEAN, keys : KeysState]

\* A dialog is opened on the page that it belongs to.
FormOfPage(l) == l.form = NoForm \/ (l.form.kind \in DOMAIN Dialogs /\ Dialogs[l.form.kind].page = l.page)

\* What a request does for the user: by itself, or as the read that follows it.
Job(w, id) == [what |-> w, id |-> id]
Work(a, page) ==
    /\ a = Job(a.what, a.id) /\ a.id \in Items \cup {None}
    /\ \/ a.what \in DOMAIN Dialogs /\ Dialogs[a.what].page = page
       \/ a.what \in {"status", "activate", "test"} /\ a.id \in Items
Does(c, w) == c.op = "do" /\ c.arg.what = w
Follows(c, w) == c.op = "load" /\ c.arg.then # None /\ c.arg.then.what = w
Works(page, cs) ==
    \A n \in DOMAIN cs : /\ cs[n].op \in {"do", "load", "keys"}
                         /\ cs[n].op = "do" => Work(cs[n].arg, page)
                         /\ cs[n].op = "load" /\ cs[n].arg.then # None => Work(cs[n].arg.then, page)
\* What the server tells of what it has done: the item that it is about.
GotRight(c) ==
    c.op = "do" /\ c.at = "served" =>
        /\ c.got \in Items \cup {None}
        /\ c.arg.what \in {"createTenant", "generate"} => c.got \in Items
        /\ c.arg.what \in {"status", "activate", "test"} => c.got = c.arg.id
Shape(cs) ==
    /\ \A n \in DOMAIN cs : GotRight(cs[n])
    /\ DOMAIN cs \subseteq 1..MaxCalls /\ AreReads(cs)
    /\ \A n \in DOMAIN cs : cs[n].op = "keys" => cs[n].arg = [of |-> cs[n].arg.of, live |-> cs[n].arg.live]
    /\ \A n \in DOMAIN cs : cs[n].op = "load" /\ cs[n].at = "served" => cs[n].got \in [Items -> Versions]

\* A flag is up, a row spins, a list loads: a request is under way for it.
Frees(c, k) == Does(c, k) \/ (Follows(c, k) /\ Dialogs[k].frees = "load")
BusyHas(busy, cs) == \A k \in busy : \E n \in DOMAIN cs : Frees(cs[n], k)
ForRow(c, i) ==
    \/ c.op = "do" /\ c.arg.what \notin DOMAIN Dialogs /\ c.arg.id = i
    \/ c.op = "load" /\ c.arg.then # None /\ c.arg.then.what \notin DOMAIN Dialogs /\ c.arg.then.id = i
RowsHave(spinning, cs) == \A i \in spinning : \E n \in DOMAIN cs : ForRow(cs[n], i)
LoadHas(loading, cs) == loading => \E n \in DOMAIN cs : cs[n].op = "load"
KeysHave(k, cs) ==
    /\ \A n \in DOMAIN cs : cs[n].op = "keys" /\ cs[n].arg.live => cs[n].arg.of = k.of
    /\ k.of # None /\ k.loading => \E n \in DOMAIN cs : cs[n].op = "keys" /\ cs[n].arg.live
    /\ k.of # None /\ ~k.loading /\ ~k.failed => k.shown = k.of

\* One creation of a tenant at a time, no secret before the admin meanwhile;
\* and one that is owed comes with the list.
Creating(c) == Does(c, "createTenant") \/ Follows(c, "createTenant")
OneCreation(busy, secret, cs) ==
    /\ \A m, n \in DOMAIN cs : Creating(cs[m]) /\ Creating(cs[n]) => m = n
    /\ \A n \in DOMAIN cs : Creating(cs[n]) => "createTenant" \in busy /\ secret = None
OwedHave(owed, cs) == \A i \in owed : \E n \in DOMAIN cs : Follows(cs[n], "createTenant") /\ cs[n].arg.then.id = i

AdminOk(l, cs, d) ==
    /\ l \in AdminState /\ FormOfPage(l) /\ d \in [Items -> Versions]
    /\ Shape(cs) /\ Works(l.page, cs)
    /\ UpToDate(l.list, l.drift, cs, d)
    /\ BusyHas(l.busy, cs) /\ RowsHave(l.rows, cs) /\ LoadHas(l.loading, cs)
    /\ KeysHave(l.keys, cs)
    /\ OneCreation(l.busy, l.secret, cs) /\ OwedHave(l.owed, cs)

LEMMA DialogsOfPages ==
    /\ "createTenant" \in DOMAIN Dialogs /\ Dialogs["createTenant"].page = "tenants"
    /\ Dialogs["createTenant"].frees = "load" /\ ~Dialogs["createTenant"].forgets /\ Dialogs["createTenant"].guarded
    /\ {"generate", "tenantKey"} \subseteq DOMAIN Dialogs /\ Dialogs["generate"].page = "keys"
    /\ \A k \in DOMAIN Dialogs : Dialogs[k].frees \in {"answer", "load"}
    /\ Dialogs["createTenant"].op = "create" /\ Dialogs["generate"].op = "create"
    /\ {"status", "activate", "test", "none"} \cap DOMAIN Dialogs = {}
    /\ \A page \in Pages : \A k \in HeaderOf(page) \cup RowOf(page) : k \in DOMAIN Dialogs /\ Dialogs[k].page = page
<1> DEFINE Titles == {"generate", "editKey", "deleteKey", "createTenant", "editTenant", "tenantKey", "deleteTenant",
                     "createProfile", "preset", "editProfile", "deleteProfile", "combo", "deleteCombo", "alias",
                     "deleteAlias"}
<1>1. DOMAIN Dialogs = Titles
  BY DEF Dialogs
<1>2. /\ Dialogs["createTenant"].page = "tenants"
      /\ Dialogs["createTenant"].frees = "load" /\ ~Dialogs["createTenant"].forgets /\ Dialogs["createTenant"].guarded
      /\ Dialogs["generate"].page = "keys"
      /\ Dialogs["createTenant"].op = "create" /\ Dialogs["generate"].op = "create"
  BY DEF Dialogs, CreateTenantDialog, GenerateDialog, OnAnswer
<1>6. ASSUME NEW k \in DOMAIN Dialogs PROVE Dialogs[k].frees \in {"answer", "load"}
  <2>1. Dialogs[k] \in {GenerateDialog, EditKeyDialog, DeleteKeyAlert, CreateTenantDialog, EditTenantDialog, TenantKeyDialog,
                        DeleteTenantAlert, CreateProfileDialog, PresetDialog, EditProfileDialog, DeleteProfileAlert,
                        ComboDialog, DeleteComboAlert, AliasDialog, DeleteAliasAlert}
    BY <1>6 DEF Dialogs
  <2>2. /\ GenerateDialog.frees = "load" /\ EditKeyDialog.frees = "load" /\ DeleteKeyAlert.frees = "load"
        /\ CreateTenantDialog.frees = "load" /\ EditTenantDialog.frees = "load" /\ TenantKeyDialog.frees = "load"
        /\ DeleteTenantAlert.frees = "load" /\ DeleteProfileAlert.frees = "load"
    BY DEF GenerateDialog, EditKeyDialog, DeleteKeyAlert, CreateTenantDialog, EditTenantDialog, TenantKeyDialog,
           DeleteTenantAlert, DeleteProfileAlert, OnAnswer
  <2>3. /\ CreateProfileDialog.frees = "answer" /\ PresetDialog.frees = "answer" /\ EditProfileDialog.frees = "answer"
        /\ ComboDialog.frees = "load" /\ DeleteComboAlert.frees = "load" /\ AliasDialog.frees = "load"
        /\ DeleteAliasAlert.frees = "load"
    BY DEF CreateProfileDialog, PresetDialog, EditProfileDialog, ComboDialog, DeleteComboAlert, AliasDialog,
           DeleteAliasAlert, OnAnswer
  <2> QED BY <2>1, <2>2, <2>3
<1>3. /\ Dialogs["editKey"].page = "keys" /\ Dialogs["deleteKey"].page = "keys"
      /\ Dialogs["editTenant"].page = "tenants" /\ Dialogs["tenantKey"].page = "tenants" /\ Dialogs["deleteTenant"].page = "tenants"
      /\ Dialogs["editProfile"].page = "profiles" /\ Dialogs["deleteProfile"].page = "profiles"
      /\ Dialogs["combo"].page = "combos" /\ Dialogs["deleteCombo"].page = "combos"
      /\ Dialogs["deleteAlias"].page = "models"
  BY DEF Dialogs, EditKeyDialog, DeleteKeyAlert, EditTenantDialog, TenantKeyDialog, DeleteTenantAlert, EditProfileDialog,
         DeleteProfileAlert, ComboDialog, DeleteComboAlert, DeleteAliasAlert, OnAnswer
<1>4. \A page \in Pages : \A k \in HeaderOf(page) : k \in DOMAIN Dialogs /\ Dialogs[k].page = page
  BY DEF HeaderOf
<1>5. ASSUME NEW page \in Pages, NEW k \in RowOf(page) PROVE k \in DOMAIN Dialogs /\ Dialogs[k].page = page
  BY <1>1, <1>3 DEF RowOf, Pages, KeysTable, KeysMobile, TenantsRow, ProfileCard, CombosTab, AliasesList
<1> QED BY <1>1, <1>2, <1>4, <1>5, <1>6

\* The requests cs become ds: those of gone are answered, those of come are
\* sent, and of the others a read may age and one for keys may be cancelled.
Like(e, c) ==
    /\ e.op = c.op
    /\ c.op = "do" => e.arg = c.arg
    /\ c.op = "load" => e.arg.then = c.arg.then
Become(cs, ds, gone, come) ==
    /\ \A m \in (DOMAIN cs) \ gone : m \in DOMAIN ds /\ Like(ds[m], cs[m])
    /\ \A m \in DOMAIN ds : (\E c \in come : Like(ds[m], c)) \/ (m \in (DOMAIN cs) \ gone /\ Like(ds[m], cs[m]))
    /\ \A m, n \in DOMAIN ds : m # n => m \in (DOMAIN cs) \ gone \/ n \in (DOMAIN cs) \ gone
    /\ \A c \in come : \E m \in DOMAIN ds : Like(ds[m], c)

LEMMA LikeMeans ==
    ASSUME NEW e, NEW c, Like(e, c)
    PROVE  /\ \A w : (Does(e, w) <=> Does(c, w)) /\ (Follows(e, w) <=> Follows(c, w)) /\ (Frees(e, w) <=> Frees(c, w))
           /\ \A i : ForRow(e, i) <=> ForRow(c, i)
           /\ Creating(e) <=> Creating(c)
           /\ c.op = "load" => e.arg.then = c.arg.then
BY DEF Like, Does, Follows, Frees, ForRow, Creating

LEMMA WorksBecome ==
    ASSUME NEW page, NEW cs, NEW ds, NEW gone, NEW come, Works(page, cs), Become(cs, ds, gone, come),
           \A c \in come : /\ c.op \in {"do", "load", "keys"}
                           /\ c.op = "do" => Work(c.arg, page)
                           /\ c.op = "load" /\ c.arg.then # None => Work(c.arg.then, page)
    PROVE  Works(page, ds)
BY DEF Works, Become, Like

LEMMA BusyBecome ==
    ASSUME NEW busy, NEW cs, NEW ds, NEW gone, NEW come, BusyHas(busy, cs), Become(cs, ds, gone, come), NEW left,
           \A k \in left : \/ k \in busy /\ \A n \in DOMAIN cs : n \in gone => ~Frees(cs[n], k)
                           \/ \E c \in come : Frees(c, k)
    PROVE  BusyHas(left, ds)
<1> SUFFICES ASSUME NEW k \in left PROVE \E n \in DOMAIN ds : Frees(ds[n], k)
  BY DEF BusyHas
<1>1. CASE k \in busy /\ \A n \in DOMAIN cs : n \in gone => ~Frees(cs[n], k)
  <2>1. PICK n \in DOMAIN cs : Frees(cs[n], k)
    BY <1>1 DEF BusyHas
  <2>2. n \in DOMAIN ds /\ Like(ds[n], cs[n])
    BY <1>1, <2>1 DEF Become
  <2> QED BY <2>1, <2>2, LikeMeans
<1>2. ASSUME NEW c \in come, Frees(c, k) PROVE \E n \in DOMAIN ds : Frees(ds[n], k)
  BY <1>2, LikeMeans DEF Become
<1> QED BY <1>1, <1>2

LEMMA RowsBecome ==
    ASSUME NEW spinning, NEW cs, NEW ds, NEW gone, NEW come, RowsHave(spinning, cs), Become(cs, ds, gone, come), NEW left,
           \A i \in left : \/ i \in spinning /\ \A n \in DOMAIN cs : n \in gone => ~ForRow(cs[n], i)
                           \/ \E c \in come : ForRow(c, i)
    PROVE  RowsHave(left, ds)
<1> SUFFICES ASSUME NEW i \in left PROVE \E n \in DOMAIN ds : ForRow(ds[n], i)
  BY DEF RowsHave
<1>1. CASE i \in spinning /\ \A n \in DOMAIN cs : n \in gone => ~ForRow(cs[n], i)
  <2>1. PICK n \in DOMAIN cs : ForRow(cs[n], i)
    BY <1>1 DEF RowsHave
  <2>2. n \in DOMAIN ds /\ Like(ds[n], cs[n])
    BY <1>1, <2>1 DEF Become
  <2> QED BY <2>1, <2>2, LikeMeans
<1>2. ASSUME NEW c \in come, ForRow(c, i) PROVE \E n \in DOMAIN ds : ForRow(ds[n], i)
  BY <1>2, LikeMeans DEF Become
<1> QED BY <1>1, <1>2

LEMMA LoadBecomes ==
    ASSUME NEW loading, NEW cs, NEW ds, NEW gone, NEW come, LoadHas(loading, cs), Become(cs, ds, gone, come),
           NEW still, still => \/ loading /\ \A n \in DOMAIN cs : n \in gone => cs[n].op # "load"
                               \/ \E c \in come : c.op = "load"
    PROVE  LoadHas(still, ds)
<1> SUFFICES ASSUME still PROVE \E n \in DOMAIN ds : ds[n].op = "load"
  BY DEF LoadHas
<1>1. CASE loading /\ \A n \in DOMAIN cs : n \in gone => cs[n].op # "load"
  BY <1>1 DEF LoadHas, Become, Like
<1>2. CASE \E c \in come : c.op = "load"
  BY <1>2 DEF Become, Like
<1> QED BY <1>1, <1>2

LEMMA OwedBecome ==
    ASSUME NEW owed, NEW cs, NEW ds, NEW gone, NEW come, OwedHave(owed, cs), Become(cs, ds, gone, come), NEW left,
           \A i \in left :
              \/ i \in owed /\ \A n \in DOMAIN cs : n \in gone => ~(Follows(cs[n], "createTenant") /\ cs[n].arg.then.id = i)
              \/ \E c \in come : Follows(c, "createTenant") /\ c.arg.then.id = i
    PROVE  OwedHave(left, ds)
<1> SUFFICES ASSUME NEW i \in left PROVE \E n \in DOMAIN ds : Follows(ds[n], "createTenant") /\ ds[n].arg.then.id = i
  BY DEF OwedHave
<1>1. CASE i \in owed /\ \A n \in DOMAIN cs : n \in gone => ~(Follows(cs[n], "createTenant") /\ cs[n].arg.then.id = i)
  <2>1. PICK n \in DOMAIN cs : Follows(cs[n], "createTenant") /\ cs[n].arg.then.id = i
    BY <1>1 DEF OwedHave
  <2>2. n \in DOMAIN ds /\ Like(ds[n], cs[n])
    BY <1>1, <2>1 DEF Become
  <2> QED BY <2>1, <2>2 DEF Like, Follows
<1>2. ASSUME NEW c \in come, Follows(c, "createTenant"), c.arg.then.id = i
      PROVE  \E n \in DOMAIN ds : Follows(ds[n], "createTenant") /\ ds[n].arg.then.id = i
  BY <1>2 DEF Become, Like, Follows
<1> QED BY <1>1, <1>2

LEMMA CreationBecomes ==
    ASSUME NEW busy, NEW secret, NEW cs, NEW ds, NEW gone, NEW come, OneCreation(busy, secret, cs), Become(cs, ds, gone, come),
           NEW left, NEW shown,
           \/ /\ \A c \in come : ~Creating(c)
              /\ \/ \A n \in (DOMAIN cs) \ gone : ~Creating(cs[n])
                 \/ ("createTenant" \in busy => "createTenant" \in left) /\ (secret = None => shown = None)
           \/ "createTenant" \in left /\ shown = None /\ \A n \in (DOMAIN cs) \ gone : ~Creating(cs[n])
    PROVE  OneCreation(left, shown, ds)
<1>1. \A m \in DOMAIN ds : \/ \E c \in come : Like(ds[m], c)
                           \/ m \in (DOMAIN cs) \ gone /\ (Creating(ds[m]) <=> Creating(cs[m]))
  BY LikeMeans DEF Become
<1>2. \A m \in DOMAIN ds : Creating(ds[m]) => \/ \E c \in come : Creating(c)
                                              \/ m \in (DOMAIN cs) \ gone /\ Creating(cs[m])
  BY <1>1, LikeMeans
<1>3. \A m, n \in DOMAIN ds : m # n => m \in (DOMAIN cs) \ gone \/ n \in (DOMAIN cs) \ gone
  BY DEF Become
<1>4. \A m \in (DOMAIN cs) \ gone : m \in DOMAIN ds => (Creating(ds[m]) <=> Creating(cs[m]))
  BY LikeMeans DEF Become
<1> QED BY <1>2, <1>3, <1>4 DEF OneCreation

LEMMA BecomeThenBecome ==
    ASSUME NEW cs, NEW ds, NEW es, NEW gone, NEW come, Become(cs, ds, gone, {}), Become(ds, es, {}, come)
    PROVE  Become(cs, es, gone, come)
BY DEF Become, Like

LEMMA BecomeSame == ASSUME NEW cs, NEW ds, DOMAIN ds = DOMAIN cs, \A m \in DOMAIN cs : Like(ds[m], cs[m])
                    PROVE Become(cs, ds, {}, {})
BY DEF Become

LEMMA BecomePlus ==
    ASSUME NEW cs, Free(cs) # {}, NEW c PROVE Become(cs, Plus(cs, c), {}, {c})
<1> DEFINE ds == Plus(cs, c)
<1>1. /\ \A n \in DOMAIN ds : ds[n] = c \/ (n \in DOMAIN cs /\ ds[n] = cs[n])
      /\ \A m, n \in DOMAIN ds : m # n => (m \in DOMAIN cs /\ ds[m] = cs[m]) \/ (n \in DOMAIN cs /\ ds[n] = cs[n])
      /\ \A n \in DOMAIN cs : n \in DOMAIN ds /\ ds[n] = cs[n]
      /\ \E n \in DOMAIN ds : ds[n] = c
  BY PlusCalls, PlusKeeps
<1> HIDE DEF ds
<1>2. Become(cs, ds, {}, {c})
  BY <1>1 DEF Become, Like
<1> QED BY <1>2 DEF ds

LEMMA BecomeMinus == ASSUME NEW cs, NEW n PROVE Become(cs, Minus(cs, n), {n}, {})
BY DEF Become, Like, Minus

LEMMA BecomeRead ==
    ASSUME NEW cs, AreReads(cs), Free(cs) # {}, NEW then
    PROVE  Become(cs, LoadThen(cs, then), {}, {Call("load", [newest |-> TRUE, then |-> then])})
<1> DEFINE a == [newest |-> TRUE, then |-> then]
           c == Call("load", a)
           ds == LoadThen(cs, then)
<1>1. a.then = then
  OBVIOUS
<1> HIDE DEF a
<1>2. c.op = "load" /\ c.arg.then = then
  BY <1>1, CallSent
<1> HIDE DEF c
<1>3. /\ DOMAIN cs \subseteq DOMAIN ds /\ \A m \in DOMAIN cs : Older(ds[m], cs[m])
      /\ \A m \in DOMAIN ds : NewRead(ds[m], then) \/ (m \in DOMAIN cs /\ Older(ds[m], cs[m]))
      /\ \A m, n \in DOMAIN ds : m # n => (m \in DOMAIN cs /\ Older(ds[m], cs[m])) \/ (n \in DOMAIN cs /\ Older(ds[n], cs[n]))
      /\ \E n \in DOMAIN ds : NewRead(ds[n], then)
  BY LoadThenCalls
<1> HIDE DEF ds
<1>4. \A m : NewRead(ds[m], then) => Like(ds[m], c)
  BY <1>2 DEF Like, NewRead
<1>5. \A m : Older(ds[m], cs[m]) => Like(ds[m], cs[m])
  BY DEF Like, Older
<1>6. Become(cs, ds, {}, {c})
  <2>1. \A m \in DOMAIN ds : Like(ds[m], c) \/ (m \in DOMAIN cs /\ Like(ds[m], cs[m]))
    BY <1>3, <1>4, <1>5
  <2>2. \A m \in DOMAIN cs : m \in DOMAIN ds /\ Like(ds[m], cs[m])
    BY <1>3, <1>5
  <2>3. \E m \in DOMAIN ds : Like(ds[m], c)
    BY <1>3, <1>4
  <2>4. \A m, n \in DOMAIN ds : m # n => m \in DOMAIN cs \/ n \in DOMAIN cs
    BY <1>3
  <2> QED BY <2>1, <2>2, <2>3, <2>4 DEF Become
<1> QED BY <1>6 DEF ds, c, a

\* The dialog with a tenant's keys is told of no other request.
KeysSame(cs, ds) ==
    /\ \A n \in DOMAIN cs : cs[n].op = "keys" => n \in DOMAIN ds /\ ds[n].op = "keys" /\ ds[n].arg = cs[n].arg
    /\ \A n \in DOMAIN ds : ds[n].op = "keys" => n \in DOMAIN cs /\ cs[n].op = "keys" /\ ds[n].arg = cs[n].arg
LEMMA KeysStay == ASSUME NEW k, NEW cs, NEW ds, KeysHave(k, cs), KeysSame(cs, ds) PROVE KeysHave(k, ds)
BY DEF KeysHave, KeysSame
LEMMA KeysSameTwice == ASSUME NEW cs, NEW ds, NEW es, KeysSame(cs, ds), KeysSame(ds, es) PROVE KeysSame(cs, es)
BY DEF KeysSame

LEMMA JobFields ==
    ASSUME NEW w, NEW id
    PROVE  /\ Job(w, id).what = w /\ Job(w, id).id = id /\ Job(w, id) = Job(Job(w, id).what, Job(w, id).id)
           /\ LET c == Call("do", Job(w, id)) IN
              /\ c.op = "do" /\ c.arg = Job(w, id)
              /\ \A v : Does(c, v) <=> v = w
              /\ \A v : Frees(c, v) <=> v = w
              /\ \A i : ForRow(c, i) <=> w \notin DOMAIN Dialogs /\ i = id
              /\ Creating(c) <=> w = "createTenant"
<1>1. Job(w, id).what = w /\ Job(w, id).id = id /\ Job(w, id) = Job(Job(w, id).what, Job(w, id).id)
  BY DEF Job
<1> DEFINE j == Job(w, id)
<1> HIDE DEF j
<1>2. j.what = w /\ j.id = id
  BY <1>1 DEF j
<1> DEFINE c == Call("do", j)
<1>3. c.op = "do" /\ c.arg = j
  BY CallSent
<1> HIDE DEF c
<1>4. /\ \A v : Does(c, v) <=> v = w
      /\ \A v : Frees(c, v) <=> v = w
      /\ \A i : ForRow(c, i) <=> w \notin DOMAIN Dialogs /\ i = id
      /\ Creating(c) <=> w = "createTenant"
  BY <1>2, <1>3 DEF Does, Frees, Follows, ForRow, Creating
<1> QED BY <1>1, <1>3, <1>4 DEF c, j

\* One more request for a dialog or a button.
LEMMA JobSends ==
    ASSUME NEW cs, Shape(cs), Free(cs) # {}, NEW w, NEW id
    PROVE  LET c == Call("do", Job(w, id))
               ds == Plus(cs, c)
           IN  /\ Shape(ds) /\ Become(cs, ds, {}, {c}) /\ KeysSame(cs, ds)
               /\ \A list, drift, d : UpToDate(list, drift, cs, d) => UpToDate(list, drift, ds, d)
<1> DEFINE c == Call("do", Job(w, id))
           ds == Plus(cs, c)
<1>1. c.op = "do" /\ c.at = "sent" /\ GotRight(c)
  BY CallSent DEF GotRight
<1>2. Become(cs, ds, {}, {c})
  BY BecomePlus
<1>3. AreReads(ds)
  BY AreReadsPlus DEF Shape
<1>4. \A list, drift, d : UpToDate(list, drift, cs, d) => UpToDate(list, drift, ds, d)
  BY UpToDatePlus
<1> HIDE DEF c
<1>5. /\ \A n \in DOMAIN ds : ds[n] = c \/ (n \in DOMAIN cs /\ ds[n] = cs[n])
      /\ \A n \in DOMAIN cs : n \in DOMAIN ds /\ ds[n] = cs[n]
      /\ DOMAIN cs \subseteq 1..MaxCalls => DOMAIN ds \subseteq 1..MaxCalls
  BY PlusCalls, PlusKeeps
<1> HIDE DEF ds
<1>6. Shape(ds) /\ KeysSame(cs, ds)
  BY <1>1, <1>3, <1>5 DEF Shape, KeysSame
<1> QED BY <1>2, <1>4, <1>6 DEF ds, c

\* A request is answered.
LEMMA JobAnswered ==
    ASSUME NEW cs, Shape(cs), NEW n \in DOMAIN cs
    PROVE  LET ds == Minus(cs, n) IN
           /\ Shape(ds) /\ Become(cs, ds, {n}, {}) /\ Free(ds) # {}
           /\ cs[n].op # "keys" => KeysSame(cs, ds)
           /\ cs[n].op # "load" /\ ~Wrote(cs[n])
                 => \A list, drift, d : UpToDate(list, drift, cs, d) => UpToDate(list, drift, ds, d)
<1> DEFINE ds == Minus(cs, n)
<1>1. Become(cs, ds, {n}, {})
  BY BecomeMinus
<1>2. AreReads(ds)
  BY AreReadsMinus DEF Shape
<1>3. Free(ds) # {}
  BY MinusIsFree DEF Shape
<1>4. cs[n].op # "load" /\ ~Wrote(cs[n])
         => \A list, drift, d : UpToDate(list, drift, cs, d) => UpToDate(list, drift, ds, d)
  BY UpToDateMinus
<1>5. DOMAIN ds = DOMAIN cs \ {n} /\ \A m \in DOMAIN ds : ds[m] = cs[m]
  BY DEF Minus
<1> HIDE DEF ds
<1>6. Shape(ds) /\ (cs[n].op # "keys" => KeysSame(cs, ds))
  BY <1>2, <1>5 DEF Shape, KeysSame
<1> QED BY <1>1, <1>3, <1>4, <1>6 DEF ds

\* The list is read again.
LEMMA ReadSends ==
    ASSUME NEW cs, Shape(cs), Free(cs) # {}, NEW then
    PROVE  LET c == Call("load", [newest |-> TRUE, then |-> then])
               ds == LoadThen(cs, then)
           IN  /\ Shape(ds) /\ Become(cs, ds, {}, {c}) /\ KeysSame(cs, ds)
               /\ \A list, drift, d : UpToDate(list, drift, ds, d)
               /\ c.op = "load" /\ c.arg.then = then
<1> DEFINE a == [newest |-> TRUE, then |-> then]
           c == Call("load", a)
           ds == LoadThen(cs, then)
<1>0. AreReads(cs) /\ DOMAIN cs \subseteq 1..MaxCalls
  BY DEF Shape
<1>1. Become(cs, ds, {}, {c})
  BY <1>0, BecomeRead
<1>2. \A list, drift, d : UpToDate(list, drift, ds, d)
  BY <1>0, ReadAfter
<1>3. /\ AreReads(ds)
      /\ DOMAIN cs \subseteq DOMAIN ds /\ \A m \in DOMAIN cs : Older(ds[m], cs[m])
      /\ \A m \in DOMAIN ds : NewRead(ds[m], then) \/ (m \in DOMAIN cs /\ Older(ds[m], cs[m]))
      /\ DOMAIN ds \subseteq 1..MaxCalls
  BY <1>0, LoadThenCalls
<1>4. a.then = then
  OBVIOUS
<1> HIDE DEF a
<1>5. c.op = "load" /\ c.arg.then = then
  BY <1>4, CallSent
<1> HIDE DEF c, ds
<1>7. \A m \in DOMAIN ds : GotRight(ds[m])
  BY <1>3 DEF Shape, Older, NewRead, GotRight
<1>6. Shape(ds) /\ KeysSame(cs, ds)
  BY <1>3, <1>7 DEF Shape, KeysSame, Older, NewRead
<1> QED BY <1>1, <1>2, <1>5, <1>6 DEF ds, c, a

\* Something was done, and its answer is lost.
LEMMA MissLeaves ==
    ASSUME NEW cs, Shape(cs)
    PROVE  LET ds == Overlooked(cs) IN
           /\ Shape(ds) /\ Become(cs, ds, {}, {}) /\ KeysSame(cs, ds)
           /\ \A list, d : UpToDate(list, TRUE, ds, d)
<1> DEFINE ds == Overlooked(cs)
<1>1. /\ AreReads(ds) /\ DOMAIN ds = DOMAIN cs
      /\ \A m \in DOMAIN cs : Older(ds[m], cs[m]) \/ ds[m] = cs[m]
      /\ \A list, d : UpToDate(list, TRUE, ds, d)
  BY MissedCalls DEF Shape
<1> HIDE DEF ds
<1>2. Become(cs, ds, {}, {})
  <2>1. \A m \in DOMAIN cs : Like(ds[m], cs[m])
    BY <1>1 DEF Like, Older
  <2> QED BY <1>1, <2>1, BecomeSame
<1>3. \A m \in DOMAIN ds : GotRight(ds[m])
  BY <1>1 DEF Shape, Older, GotRight
<1>4. Shape(ds) /\ KeysSame(cs, ds)
  BY <1>1, <1>3 DEF Shape, KeysSame, Older
<1> QED BY <1>1, <1>2, <1>4 DEF ds

LEMMA NoneIsNoJob ==
    ASSUME NEW a, NEW page, Work(a, page) PROVE a # None
BY JobsAssumption DEF Work, Job, RowButtons

\* A dialog at a point of its request's course changes only its form and its flag.
SameRest(e, l) ==
    /\ e.page = l.page /\ e.left = l.left /\ e.list = l.list /\ e.loading = l.loading /\ e.drift = l.drift
    /\ e.rows = l.rows /\ e.secret = l.secret /\ e.owed = l.owed /\ e.keys = l.keys
LEMMA AtKeeps ==
    ASSUME NEW l \in AdminState, FormOfPage(l), NEW point, NEW w
    PROVE  LET e == At(point, l, w) IN
           /\ e \in AdminState /\ FormOfPage(e) /\ SameRest(e, l)
           /\ e.busy = IF w \in DOMAIN Dialogs /\ point = Dialogs[w].frees THEN l.busy \ {w} ELSE l.busy
<1>1. CASE w \notin DOMAIN Dialogs
  BY <1>1 DEF At, SameRest
<1>2. CASE w \in DOMAIN Dialogs
  <2> DEFINE f == IF l.form.kind = w /\ point \in Dialogs[w].closes THEN NoForm ELSE l.form
             b == IF point = Dialogs[w].frees THEN l.busy \ {w} ELSE l.busy
             e == [l EXCEPT !.form = f, !.busy = b]
  <2>1. At(point, l, w) = e
    BY <1>2 DEF At
  <2>2. NoForm \in FormState
    BY DEF NoForm, FormState
  <2>3. f \in FormState /\ b \in SUBSET DOMAIN Dialogs /\ (f = NoForm \/ f = l.form)
    BY <2>2 DEF AdminState
  <2>4. b = IF w \in DOMAIN Dialogs /\ point = Dialogs[w].frees THEN l.busy \ {w} ELSE l.busy
    BY <1>2
  <2> HIDE DEF f, b
  <2>5. e \in AdminState /\ SameRest(e, l) /\ e.busy = b /\ e.form = f
    BY <2>3 DEF AdminState, SameRest
  <2>6. FormOfPage(e)
    BY <2>3, <2>5 DEF FormOfPage, SameRest
  <2> QED BY <2>1, <2>4, <2>5, <2>6
<1> QED BY <1>1, <1>2

\* Steps that send nothing and are told nothing: dialogs open and close, keys
\* and secrets are put away.
LEMMA AdminStays ==
    ASSUME AdminOk(local, calls, db), calls' = calls, db' = db, local' \in AdminState, FormOfPage(local'),
           local'.page = local.page, local'.list = local.list, local'.loading = local.loading, local'.drift = local.drift,
           local'.rows = local.rows, local'.owed = local.owed, local'.keys = local.keys,
           local'.busy \subseteq local.busy, "createTenant" \in local.busy => "createTenant" \in local'.busy,
           local'.secret \in {local.secret, None}
    PROVE  AdminOk(local', calls', db')
<1>1. BusyHas(local'.busy, calls)
  BY DEF AdminOk, BusyHas
<1>2. OneCreation(local'.busy, local'.secret, calls)
  BY DEF AdminOk, OneCreation
<1> QED BY <1>1, <1>2 DEF AdminOk

LEMMA FormSteps ==
    ASSUME AdminOk(local, calls, db),
           \/ TypeInCombo \/ CloseForm \/ EscapeKeyDialog \/ KeepEditing \/ DismissSecret
           \/ \E kind \in DOMAIN Dialogs, id \in Items \cup {None} : OpenForm(kind, id)
    PROVE  AdminOk(local', calls', db')
<1>0. local \in AdminState /\ FormOfPage(local) /\ local.form \in FormState
  BY DEF AdminOk, AdminState
<1>1. ASSUME NEW f \in FormState, NEW b \in SUBSET local.busy, "createTenant" \in local.busy => "createTenant" \in b,
             f = NoForm \/ (f.kind \in DOMAIN Dialogs /\ Dialogs[f.kind].page = local.page),
             local' = [local EXCEPT !.form = f, !.busy = b], calls' = calls, db' = db
      PROVE  AdminOk(local', calls', db')
  <2>1. /\ local' \in AdminState /\ local'.form = f /\ local'.busy = b
        /\ local'.page = local.page /\ local'.list = local.list /\ local'.loading = local.loading
        /\ local'.drift = local.drift /\ local'.rows = local.rows /\ local'.owed = local.owed
        /\ local'.keys = local.keys /\ local'.secret = local.secret
    BY <1>0, <1>1 DEF AdminState
  <2>2. FormOfPage(local')
    BY <1>1, <2>1 DEF FormOfPage
  <2> QED BY <1>1, <2>1, <2>2, AdminStays
<1>2. local = [local EXCEPT !.busy = local.busy]
  BY <1>0 DEF AdminState
<1>3. ASSUME NEW f \in FormState, f = NoForm \/ (f.kind \in DOMAIN Dialogs /\ Dialogs[f.kind].page = local.page),
             local' = [local EXCEPT !.form = f], calls' = calls, db' = db
      PROVE  AdminOk(local', calls', db')
  <2>1. local' = [local EXCEPT !.form = f, !.busy = local.busy]
    BY <1>0, <1>3 DEF AdminState
  <2> QED BY <1>1, <1>3, <2>1
<1>4. NoForm \in FormState
  BY DEF NoForm, FormState
<1>5. CASE TypeInCombo
  <2> DEFINE f == [local.form EXCEPT !.dirty = TRUE]
  <2>1. f \in FormState /\ f.kind = local.form.kind
    BY <1>0 DEF FormState
  <2>2. local' = [local EXCEPT !.form = f] /\ calls' = calls /\ db' = db /\ local.form # NoForm
    BY <1>5 DEF TypeInCombo, Do, NoForm
  <2> HIDE DEF f
  <2> QED BY <1>0, <1>3, <2>1, <2>2 DEF FormOfPage
<1>6. CASE KeepEditing
  <2> DEFINE f == [local.form EXCEPT !.asking = FALSE]
  <2>1. f \in FormState /\ f.kind = local.form.kind
    BY <1>0 DEF FormState
  <2>2. local' = [local EXCEPT !.form = f] /\ calls' = calls /\ db' = db /\ local.form # NoForm
    BY <1>6 DEF KeepEditing, Do, NoForm
  <2> HIDE DEF f
  <2> QED BY <1>0, <1>3, <2>1, <2>2 DEF FormOfPage
<1>7. CASE CloseForm
  <2> DEFINE k == local.form.kind
             b == IF Dialogs[k].forgets THEN local.busy \ {k} ELSE local.busy
             f == [local.form EXCEPT !.asking = TRUE]
             h == IF k = "tenantKey" THEN None ELSE local.newKey
  <2>1. /\ calls' = calls /\ db' = db /\ local.form # NoForm
        /\ local' = [local EXCEPT !.form = f] \/ local' = [local EXCEPT !.form = NoForm, !.busy = b, !.newKey = h]
    BY <1>7 DEF CloseForm, Do
  <2>6. h \in Items \cup {None}
    BY <1>0 DEF AdminState
  <2>2. f \in FormState /\ f.kind = local.form.kind
    BY <1>0 DEF FormState
  <2>3. b \in SUBSET local.busy /\ ("createTenant" \in local.busy => "createTenant" \in b)
    BY DialogsOfPages
  <2> HIDE DEF f, b, h
  <2>4. CASE local' = [local EXCEPT !.form = f]
    BY <1>0, <1>3, <2>1, <2>2, <2>4 DEF FormOfPage
  <2>5. CASE local' = [local EXCEPT !.form = NoForm, !.busy = b, !.newKey = h]
    <3>1. /\ local' \in AdminState /\ local'.form = NoForm /\ local'.busy = b
          /\ local'.page = local.page /\ local'.list = local.list /\ local'.loading = local.loading
          /\ local'.drift = local.drift /\ local'.rows = local.rows /\ local'.owed = local.owed
          /\ local'.keys = local.keys /\ local'.secret = local.secret
      BY <1>0, <1>4, <2>3, <2>5, <2>6 DEF AdminState
    <3> QED BY <2>1, <2>3, <3>1, AdminStays DEF FormOfPage
  <2> QED BY <2>1, <2>4, <2>5
<1>8. ASSUME NEW kind \in DOMAIN Dialogs, NEW id \in Items \cup {None}, OpenForm(kind, id) PROVE AdminOk(local', calls', db')
  <2> DEFINE f == [NoForm EXCEPT !.kind = kind, !.id = id]
  <2>1. f \in FormState /\ f.kind = kind
    BY DEF NoForm, FormState
  <2>2. local' = [local EXCEPT !.form = f] /\ calls' = calls /\ db' = db /\ kind \in HeaderOf(local.page) \cup RowOf(local.page)
    BY <1>8 DEF OpenForm, Do
  <2>3. Dialogs[kind].page = local.page
    BY <1>0, <2>2, DialogsOfPages DEF AdminState
  <2> HIDE DEF f
  <2> QED BY <1>3, <2>1, <2>2, <2>3
<1>9. CASE DismissSecret
  <2>1. local' = [local EXCEPT !.secret = None] /\ calls' = calls /\ db' = db
    BY <1>9 DEF DismissSecret, Do
  <2>2. /\ local' \in AdminState /\ local'.form = local.form /\ local'.busy = local.busy
        /\ local'.page = local.page /\ local'.list = local.list /\ local'.loading = local.loading
        /\ local'.drift = local.drift /\ local'.rows = local.rows /\ local'.owed = local.owed
        /\ local'.keys = local.keys /\ local'.secret = None
    BY <1>0, <2>1 DEF AdminState
  <2> QED BY <1>0, <2>1, <2>2, AdminStays DEF FormOfPage
<1>10. CASE EscapeKeyDialog
  <2> DEFINE g == local.newKey # None
  <2>1. local' = [local EXCEPT !.form = NoForm, !.met = g] /\ calls' = calls /\ db' = db
    BY <1>10 DEF EscapeKeyDialog, Do
  <2>3. g \in BOOLEAN
    OBVIOUS
  <2> HIDE DEF g
  <2>2. /\ local' \in AdminState /\ local'.form = NoForm /\ local'.busy = local.busy
        /\ local'.page = local.page /\ local'.list = local.list /\ local'.loading = local.loading
        /\ local'.drift = local.drift /\ local'.rows = local.rows /\ local'.owed = local.owed
        /\ local'.keys = local.keys /\ local'.secret = local.secret
    BY <1>0, <1>4, <2>1, <2>3 DEF AdminState
  <2> QED BY <2>1, <2>2, AdminStays DEF FormOfPage
<1> QED BY <1>5, <1>6, <1>7, <1>8, <1>9, <1>10

LEMMA SubmitStep == ASSUME AdminOk(local, calls, db), SubmitForm PROVE AdminOk(local', calls', db')
<1> DEFINE k == local.form.kind
           id == local.form.id
           c == Call("do", Job(k, id))
           b == local.busy \cup {k}
           left == local.left - 1
<1>0. local \in AdminState /\ FormOfPage(local) /\ Shape(calls)
  BY DEF AdminOk
<1>1. /\ local.form # NoForm /\ local.secret = None /\ Room(1) /\ local.left > 0
      /\ Dialogs[k].guarded => k \notin local.busy
      /\ local' = [local EXCEPT !.busy = b, !.left = left] /\ calls' = Plus(calls, c) /\ db' = db
  BY <1>0 DEF SubmitForm, Ask, Do, Doing, Job, AdminState
<1>2. k \in DOMAIN Dialogs /\ Dialogs[k].page = local.page /\ id \in Items \cup {None}
  BY <1>0, <1>1 DEF FormOfPage, AdminState, FormState
<1>3. left \in 0..MaxClicks
  BY <1>0, <1>1, BoundsAssumption DEF AdminState
<1>4. b \in SUBSET DOMAIN Dialogs
  BY <1>0, <1>2 DEF AdminState
<1>5. /\ Shape(calls') /\ Become(calls, calls', {}, {c}) /\ KeysSame(calls, calls')
      /\ UpToDate(local.list, local.drift, calls', db)
  BY <1>0, <1>1, RoomIsFree, JobSends DEF AdminOk
<1>6. c.op = "do" /\ c.arg = Job(k, id) /\ (\A v : Frees(c, v) <=> v = k) /\ (Creating(c) <=> k = "createTenant")
  BY JobFields
<1>7. Work(Job(k, id), local.page)
  BY <1>2, JobFields DEF Work
<1>8. b = local.busy \cup {k}
  OBVIOUS
<1> HIDE DEF c, left, b
<1>9. /\ local' \in AdminState /\ local'.form = local.form /\ local'.busy = b
      /\ local'.page = local.page /\ local'.list = local.list /\ local'.loading = local.loading
      /\ local'.drift = local.drift /\ local'.rows = local.rows /\ local'.owed = local.owed
      /\ local'.keys = local.keys /\ local'.secret = local.secret
  BY <1>0, <1>1, <1>3, <1>4 DEF AdminState
<1> HIDE DEF k, id
<1>10. Works(local.page, calls')
  BY <1>5, <1>6, <1>7, WorksBecome DEF AdminOk
<1>11. BusyHas(b, calls')
  BY <1>5, <1>6, <1>8, BusyBecome DEF AdminOk
<1>12. RowsHave(local.rows, calls') /\ LoadHas(local.loading, calls') /\ OwedHave(local.owed, calls')
  BY <1>5, RowsBecome, LoadBecomes, OwedBecome DEF AdminOk
<1>13. KeysHave(local.keys, calls')
  BY <1>5, KeysStay DEF AdminOk
<1>14. OneCreation(b, local.secret, calls')
  <2>1. OneCreation(local.busy, local.secret, calls)
    BY DEF AdminOk
  <2>2. k = "createTenant" => \A n \in DOMAIN calls : ~Creating(calls[n])
    BY <1>1, <2>1, DialogsOfPages DEF OneCreation
  <2>3. \A x \in {c} : ~Creating(x) \/ k = "createTenant"
    BY <1>6
  <2> QED BY <1>1, <1>5, <1>8, <2>1, <2>2, <2>3, CreationBecomes
<1> QED BY <1>0, <1>1, <1>5, <1>9, <1>10, <1>11, <1>12, <1>13, <1>14 DEF AdminOk, FormOfPage

LEMMA PressStep == ASSUME AdminOk(local, calls, db), NEW i \in Items, PressRow(i) PROVE AdminOk(local', calls', db')
<1> DEFINE w == RowButtons[local.page]
           c == Call("do", Job(w, i))
           r == CASE local.page = "models" -> local.rows \cup {i}
                  [] local.page = "profiles" -> {i}
                  [] OTHER -> {}
           left == local.left - 1
<1>0. local \in AdminState /\ FormOfPage(local) /\ Shape(calls)
  BY DEF AdminOk
<1>1. /\ local.page \in DOMAIN RowButtons /\ Room(1) /\ local.left > 0
      /\ local' = [local EXCEPT !.rows = r, !.left = left] /\ calls' = Plus(calls, c) /\ db' = db
  BY <1>0 DEF PressRow, Ask, Do, Doing, Job, AdminState
<1>2. w \in {"status", "activate", "test"}
  BY <1>1 DEF RowButtons
<1>3. left \in 0..MaxClicks
  BY <1>0, <1>1, BoundsAssumption DEF AdminState
<1>4. r \in SUBSET Items /\ r \subseteq local.rows \cup {i}
  BY <1>0 DEF AdminState
<1>5. /\ Shape(calls') /\ Become(calls, calls', {}, {c}) /\ KeysSame(calls, calls')
      /\ UpToDate(local.list, local.drift, calls', db)
  BY <1>0, <1>1, RoomIsFree, JobSends DEF AdminOk
<1>6. w \notin DOMAIN Dialogs /\ w # "createTenant"
  BY <1>2, DialogsOfPages
<1>7. c.op = "do" /\ c.arg = Job(w, i) /\ ForRow(c, i) /\ ~Creating(c)
  BY <1>6, JobFields
<1>8. Work(Job(w, i), local.page)
  BY <1>2, JobFields DEF Work
<1> HIDE DEF c, left, r
<1>9. /\ local' \in AdminState /\ local'.form = local.form /\ local'.busy = local.busy
      /\ local'.page = local.page /\ local'.list = local.list /\ local'.loading = local.loading
      /\ local'.drift = local.drift /\ local'.rows = r /\ local'.owed = local.owed
      /\ local'.keys = local.keys /\ local'.secret = local.secret
  BY <1>0, <1>1, <1>3, <1>4 DEF AdminState
<1> HIDE DEF w
<1>10. Works(local.page, calls')
  BY <1>5, <1>7, <1>8, WorksBecome DEF AdminOk
<1>11. RowsHave(r, calls')
  BY <1>4, <1>5, <1>7, RowsBecome DEF AdminOk
<1>12. BusyHas(local.busy, calls') /\ LoadHas(local.loading, calls') /\ OwedHave(local.owed, calls')
  BY <1>5, BusyBecome, LoadBecomes, OwedBecome DEF AdminOk
<1>13. KeysHave(local.keys, calls')
  BY <1>5, KeysStay DEF AdminOk
<1>14. OneCreation(local.busy, local.secret, calls')
  BY <1>5, <1>7, CreationBecomes DEF AdminOk
<1> QED BY <1>0, <1>1, <1>5, <1>9, <1>10, <1>11, <1>12, <1>13, <1>14 DEF AdminOk, FormOfPage

LEMMA RetryStep == ASSUME AdminOk(local, calls, db), RetryAll PROVE AdminOk(local', calls', db')
<1> DEFINE c == Call("load", [newest |-> TRUE, then |-> None])
           left == local.left - 1
<1>0. local \in AdminState /\ FormOfPage(local) /\ Shape(calls)
  BY DEF AdminOk
<1>1. /\ Room(1) /\ local.left > 0 /\ local' = [local EXCEPT !.loading = TRUE, !.left = left]
      /\ calls' = LoadThen(calls, None) /\ db' = db
  BY <1>0 DEF RetryAll, Ask, Do, Load, AdminState
<1>2. left \in 0..MaxClicks
  BY <1>0, <1>1, BoundsAssumption DEF AdminState
<1>3. /\ Shape(calls') /\ Become(calls, calls', {}, {c}) /\ KeysSame(calls, calls')
      /\ UpToDate(local.list, local.drift, calls', db) /\ c.op = "load" /\ c.arg.then = None
  BY <1>0, <1>1, RoomIsFree, ReadSends
<1> HIDE DEF c, left
<1>4. ~Creating(c)
  BY <1>3 DEF Creating, Does, Follows
<1>5. /\ local' \in AdminState /\ local'.form = local.form /\ local'.busy = local.busy
      /\ local'.page = local.page /\ local'.list = local.list /\ local'.loading = TRUE
      /\ local'.drift = local.drift /\ local'.rows = local.rows /\ local'.owed = local.owed
      /\ local'.keys = local.keys /\ local'.secret = local.secret
  BY <1>0, <1>1, <1>2 DEF AdminState
<1>6. Works(local.page, calls')
  BY <1>3, WorksBecome DEF AdminOk
<1>7. LoadHas(TRUE, calls')
  BY <1>3 DEF Become, Like, LoadHas
<1>8. BusyHas(local.busy, calls') /\ RowsHave(local.rows, calls') /\ OwedHave(local.owed, calls')
  BY <1>3, BusyBecome, RowsBecome, OwedBecome DEF AdminOk
<1>9. KeysHave(local.keys, calls')
  BY <1>3, KeysStay DEF AdminOk
<1>10. OneCreation(local.busy, local.secret, calls')
  BY <1>3, <1>4, CreationBecomes DEF AdminOk
<1> QED BY <1>0, <1>1, <1>3, <1>5, <1>6, <1>7, <1>8, <1>9, <1>10 DEF AdminOk, FormOfPage

\* The answer of a request whose screen goes on as e, with nothing else sent.
LEMMA AnswerStep ==
    ASSUME AdminOk(local, calls, db), NEW n \in DOMAIN calls, calls[n].op # "load", calls[n].op # "keys", db' = db,
           \/ ~Wrote(calls[n]) /\ calls' = Minus(calls, n) /\ local'.drift = local.drift
           \/ calls' = Overlooked(Minus(calls, n)) /\ local'.drift = TRUE,
           local' \in AdminState, FormOfPage(local'), local'.page = local.page, local'.list = local.list,
           local'.loading = local.loading, local'.keys = local.keys,
           local'.secret = local.secret, local'.owed = local.owed,
           local'.busy \subseteq local.busy, \A k \in local'.busy : ~Frees(calls[n], k),
           "createTenant" \in local.busy => "createTenant" \in local'.busy \/ Creating(calls[n]),
           local'.rows \subseteq local.rows, \A i \in local'.rows : ~ForRow(calls[n], i)
    PROVE  AdminOk(local', calls', db')
<1>1. /\ Shape(calls') /\ Become(calls, calls', {n}, {}) /\ KeysSame(calls, calls')
      /\ UpToDate(local.list, local'.drift, calls', db)
  <2> DEFINE m == Minus(calls, n)
  <2>1. Shape(m) /\ Become(calls, m, {n}, {}) /\ KeysSame(calls, m)
    BY JobAnswered DEF AdminOk
  <2>2. ~Wrote(calls[n]) => UpToDate(local.list, local.drift, m, db)
    BY JobAnswered DEF AdminOk
  <2> HIDE DEF m
  <2>3. CASE ~Wrote(calls[n]) /\ calls' = m /\ local'.drift = local.drift
    BY <2>1, <2>2, <2>3
  <2>4. CASE calls' = Overlooked(m) /\ local'.drift = TRUE
    <3>1. Shape(calls') /\ Become(m, calls', {}, {}) /\ KeysSame(m, calls') /\ UpToDate(local.list, TRUE, calls', db)
      BY <2>1, <2>4, MissLeaves
    <3>2. Become(calls, calls', {n}, {})
      BY <2>1, <3>1, BecomeThenBecome
    <3> QED BY <2>1, <2>4, <3>1, <3>2, KeysSameTwice
  <2> QED BY <2>3, <2>4 DEF m
<1>2. Works(local.page, calls') /\ LoadHas(local.loading, calls')
  BY <1>1, WorksBecome, LoadBecomes DEF AdminOk
<1>3. BusyHas(local'.busy, calls')
  BY <1>1, BusyBecome DEF AdminOk
<1>4. RowsHave(local'.rows, calls')
  BY <1>1, RowsBecome DEF AdminOk
<1>5. OwedHave(local.owed, calls')
  BY <1>1, OwedBecome DEF AdminOk, Follows
<1>6. KeysHave(local.keys, calls')
  BY <1>1, KeysStay DEF AdminOk
<1>7. OneCreation(local'.busy, local.secret, calls')
  <2>1. OneCreation(local.busy, local.secret, calls)
    BY DEF AdminOk
  <2>2. CASE Creating(calls[n])
    <3>1. \A m \in (DOMAIN calls) \ {n} : ~Creating(calls[m])
      BY <2>1, <2>2 DEF OneCreation
    <3> QED BY <1>1, <2>1, <3>1, CreationBecomes
  <2>3. CASE ~Creating(calls[n])
    BY <1>1, <2>1, <2>3, CreationBecomes
  <2> QED BY <2>2, <2>3
<1> QED BY <1>1, <1>2, <1>3, <1>4, <1>5, <1>6, <1>7 DEF AdminOk

LEMMA FreeRowKeeps ==
    ASSUME NEW l \in AdminState, NEW i
    PROVE  LET e == FreeRow(l, i) IN
           /\ e \in AdminState /\ e.page = l.page /\ e.left = l.left /\ e.list = l.list /\ e.loading = l.loading
           /\ e.drift = l.drift /\ e.secret = l.secret /\ e.owed = l.owed /\ e.keys = l.keys /\ e.busy = l.busy
           /\ e.form = l.form /\ e.rows \subseteq l.rows \ {i}
<1> DEFINE r == IF local.page = "models" THEN l.rows \ {i} ELSE {}
           e == [l EXCEPT !.rows = r]
<1>1. r \in SUBSET Items /\ r \subseteq l.rows \ {i}
  BY DEF AdminState
<1>2. FreeRow(l, i) = e
  BY DEF FreeRow, AdminState
<1> HIDE DEF r
<1>3. /\ e \in AdminState /\ e.page = l.page /\ e.left = l.left /\ e.list = l.list /\ e.loading = l.loading
      /\ e.drift = l.drift /\ e.secret = l.secret /\ e.owed = l.owed /\ e.keys = l.keys /\ e.busy = l.busy
      /\ e.form = l.form /\ e.rows = r
  BY <1>1 DEF AdminState
<1> QED BY <1>1, <1>2, <1>3

\* What a request for a dialog or a button is about.
LEMMA JobOf ==
    ASSUME NEW c, c.op = "do", NEW page, Work(c.arg, page)
    PROVE  /\ c.arg.id \in Items \cup {None}
           /\ \A v : (Does(c, v) <=> v = c.arg.what) /\ (Frees(c, v) <=> v = c.arg.what)
           /\ \A i : ForRow(c, i) <=> c.arg.what \notin DOMAIN Dialogs /\ i = c.arg.id
           /\ Creating(c) <=> c.arg.what = "createTenant"
           /\ c.arg.what \in DOMAIN Dialogs => Dialogs[c.arg.what].page = page
           /\ c.arg.what \notin DOMAIN Dialogs => c.arg.what \in {"status", "activate", "test"} /\ c.arg.id \in Items
<1> DEFINE w == c.arg.what
           j == c.arg.id
<1>1. /\ j \in Items \cup {None}
      /\ (w \in DOMAIN Dialogs /\ Dialogs[w].page = page) \/ (w \in {"status", "activate", "test"} /\ j \in Items)
  BY DEF Work
<1>2. \A v : (Does(c, v) <=> v = w) /\ ~Follows(c, v)
  BY DEF Does, Follows
<1>3. \A i : ForRow(c, i) <=> (w \notin DOMAIN Dialogs /\ i = j)
  BY DEF ForRow
<1> HIDE DEF w, j
<1>4. /\ \A v : Frees(c, v) <=> v = w
      /\ Creating(c) <=> w = "createTenant"
  BY <1>2 DEF Frees, Creating
<1>5. w \notin DOMAIN Dialogs => w \in {"status", "activate", "test"} /\ j \in Items
  BY <1>1
<1>6. w \in DOMAIN Dialogs => Dialogs[w].page = page
  BY <1>1, DialogsOfPages
<1> QED BY <1>1, <1>2, <1>3, <1>4, <1>5, <1>6 DEF w, j

LEMMA DoFailsStep == ASSUME AdminOk(local, calls, db), NEW n \in DOMAIN calls, DoFails(n) PROVE AdminOk(local', calls', db')
<1> DEFINE w == calls[n].arg.what
           i == calls[n].arg.id
           b == IF w \in DOMAIN Dialogs THEN local.busy \ {w} ELSE local.busy
           e == IF w \in DOMAIN Dialogs THEN [local EXCEPT !.busy = local.busy \ {w}] ELSE FreeRow(local, i)
           t == IF Served(n) THEN TRUE ELSE local.drift
<1>0. local \in AdminState /\ FormOfPage(local) /\ Works(local.page, calls)
  BY DEF AdminOk
<1>1. /\ calls[n].op = "do" /\ db' = db
      /\ \/ ~Served(n) /\ calls' = Minus(calls, n) /\ local' = e
         \/ Served(n) /\ calls' = Overlooked(Minus(calls, n)) /\ local' = [e EXCEPT !.drift = TRUE]
  BY <1>0 DEF DoFails, Do, DoMissing, AdminState
<1>2. Work(calls[n].arg, local.page)
  BY <1>0, <1>1 DEF Works
<1>3. /\ \A v : Frees(calls[n], v) <=> v = w
      /\ \A j : ForRow(calls[n], j) <=> w \notin DOMAIN Dialogs /\ j = i
      /\ Creating(calls[n]) <=> w = "createTenant"
  <2> HIDE DEF b, e, t
  <2> QED BY <1>1, <1>2, JobOf
<1>4. /\ e \in AdminState /\ e.form = local.form /\ e.busy = b
      /\ e.page = local.page /\ e.list = local.list /\ e.loading = local.loading
      /\ e.drift = local.drift /\ e.owed = local.owed
      /\ e.keys = local.keys /\ e.secret = local.secret
      /\ e.rows \subseteq local.rows /\ (w \notin DOMAIN Dialogs => i \notin e.rows)
  <2>1. CASE w \in DOMAIN Dialogs
    <3>1. e = [local EXCEPT !.busy = local.busy \ {w}] /\ b = local.busy \ {w}
      BY <2>1
    <3> HIDE DEF e, b
    <3> QED BY <1>0, <2>1, <3>1 DEF AdminState
  <2>2. CASE w \notin DOMAIN Dialogs
    <3>1. e = FreeRow(local, i) /\ b = local.busy
      BY <2>2
    <3> HIDE DEF e, b, w, i
    <3> QED BY <1>0, <3>1, FreeRowKeeps
  <2> QED BY <2>1, <2>2
<1>5. b \subseteq local.busy /\ w \notin b /\ \A k \in local.busy : k # w => k \in b
  BY <1>0, DialogsOfPages DEF AdminState
<1>6. Served(n) => t = TRUE
  OBVIOUS
<1>7. ~Served(n) => t = local.drift
  OBVIOUS
<1> HIDE DEF w, i, b, e, t
<1>8. /\ local' \in AdminState /\ local'.form = local.form /\ local'.busy = b
      /\ local'.page = local.page /\ local'.list = local.list /\ local'.loading = local.loading
      /\ local'.drift = t /\ local'.owed = local.owed
      /\ local'.keys = local.keys /\ local'.secret = local.secret
      /\ local'.rows \subseteq local.rows /\ (w \notin DOMAIN Dialogs => i \notin local'.rows)
  <2>1. CASE Served(n)
    <3>1. local' = [e EXCEPT !.drift = TRUE]
      BY <1>1, <2>1
    <3> QED BY <1>4, <1>6, <2>1, <3>1 DEF AdminState
  <2>2. CASE ~Served(n)
    <3>1. local' = e
      BY <1>1, <2>2
    <3> QED BY <1>4, <1>7, <2>2, <3>1
  <2> QED BY <2>1, <2>2
<1>9. FormOfPage(local')
  BY <1>0, <1>8 DEF FormOfPage
<1>10. ~Served(n) => ~Wrote(calls[n])
  BY DEF Wrote, Served
<1> QED BY <1>1, <1>3, <1>5, <1>6, <1>7, <1>8, <1>9, <1>10, AnswerStep

\* What the server answers a request with.
LEMMA OutcomesAre ==
    ASSUME db \in [Items -> Versions], NEW w, NEW id \in Items \cup {None}, NEW out \in Outcomes(w, id)
    PROVE  /\ out[1] \in [Items -> Versions] /\ out[2] \in Items \cup {None}
           /\ w = "test" => out[1] = db
           /\ w \in {"createTenant", "generate"} => out[2] \in Items
           /\ w \in {"status", "activate", "test"} => out[2] = id
<1> DEFINE op == IF w \in DOMAIN Dialogs THEN Dialogs[w].op ELSE w
           creates == op = "create" \/ (op = "save" /\ id = None)
<1>1. /\ w \in {"createTenant", "generate"} => creates
      /\ w \in {"status", "activate", "test"} => ~creates
  BY DialogsOfPages
<1>2. \/ creates /\ \E i \in Fresh : out = <<[db EXCEPT ![i] = "v0"], i>>
      \/ /\ ~creates
         /\ out = <<CASE op = "delete" -> [db EXCEPT ![id] = "absent"]
                      [] op = "test" -> db
                      [] OTHER -> [db EXCEPT ![id] = Flip(@)], id>>
  BY DEF Outcomes
<1>6. w = "test" => op = "test"
  BY DialogsOfPages
<1> HIDE DEF creates, op
<1>3. \A i : [db EXCEPT ![i] = "v0"] \in [Items -> Versions] /\ [db EXCEPT ![i] = "absent"] \in [Items -> Versions]
             /\ [db EXCEPT ![i] = Flip(@)] \in [Items -> Versions]
  BY DEF Versions, Flip
<1>4. CASE creates
  <2>1. PICK i \in Fresh : out = <<[db EXCEPT ![i] = "v0"], i>>
    BY <1>2, <1>4
  <2>2. i \in Items /\ out[1] = [db EXCEPT ![i] = "v0"] /\ out[2] = i
    BY <2>1 DEF Fresh
  <2> QED BY <1>1, <1>3, <1>4, <2>2
<1>5. CASE ~creates
  <2> DEFINE v == CASE op = "delete" -> [db EXCEPT ![id] = "absent"]
                    [] op = "test" -> db
                    [] OTHER -> [db EXCEPT ![id] = Flip(@)]
  <2>1. v \in [Items -> Versions]
    BY <1>3
  <2>4. w = "test" => v = db
    BY <1>6
  <2>2. out = <<v, id>>
    BY <1>2, <1>5
  <2> HIDE DEF v
  <2>3. out[1] = v /\ out[2] = id
    BY <2>2
  <2> QED BY <1>1, <1>5, <2>1, <2>3, <2>4
<1> QED BY <1>4, <1>5

\* The screen once a request of its own is done: its dialog, the new key.
LEMMA DoneKeeps ==
    ASSUME NEW l \in AdminState, FormOfPage(l), NEW w, NEW id \in Items \cup {None},
           w \in {"createTenant", "generate"} => id \in Items, NEW e, e = Acted(l, w, id)
    PROVE  /\ e \in AdminState /\ FormOfPage(e)
           /\ e.page = l.page /\ e.left = l.left /\ e.list = l.list /\ e.loading = l.loading /\ e.drift = l.drift
           /\ e.rows = l.rows /\ e.keys = l.keys
           /\ w \in DOMAIN Dialogs /\ Dialogs[w].frees = "answer" => e.busy = l.busy \ {w}
           /\ w \notin DOMAIN Dialogs \/ Dialogs[w].frees # "answer" => e.busy = l.busy
           /\ w = "generate" => e.secret = id
           /\ w # "generate" => e.secret = l.secret
           /\ e.owed \subseteq IF w = "createTenant" THEN l.owed \cup {id} ELSE l.owed
<1> DEFINE a == At("answer", l, w)
<1>1. /\ a \in AdminState /\ FormOfPage(a) /\ SameRest(a, l)
      /\ a.busy = IF w \in DOMAIN Dialogs /\ "answer" = Dialogs[w].frees THEN l.busy \ {w} ELSE l.busy
  BY AtKeeps
<1>2. Acted(l, w, id) = CASE w = "generate" -> Reveal(a, id)
                         [] w = "createTenant" -> [a EXCEPT !.owed = @ \cup {id}]
                         [] OTHER -> a
  BY DEF Acted
<1> HIDE DEF a
<1>3. CASE w = "generate"
  <2> DEFINE o == a.owed \ {id}
             f == [a EXCEPT !.secret = id, !.owed = o]
  <2>1. Acted(l, w, id) = f
    BY <1>1, <1>2, <1>3 DEF Reveal, AdminState
  <2>2. o \in SUBSET Items /\ o \subseteq l.owed
    BY <1>1 DEF AdminState, SameRest
  <2> HIDE DEF o
  <2>3. f \in AdminState /\ SameRest([f EXCEPT !.secret = l.secret, !.owed = l.owed], l) /\ f.form = a.form
        /\ f.busy = a.busy /\ f.secret = id /\ f.owed = o
    BY <1>1, <2>2 DEF AdminState, SameRest
  <2>4. /\ f.page = l.page /\ f.left = l.left /\ f.list = l.list /\ f.loading = l.loading /\ f.drift = l.drift
        /\ f.rows = l.rows /\ f.keys = l.keys
    BY <1>1 DEF AdminState, SameRest
  <2> HIDE DEF f
  <2> QED BY <1>1, <1>3, <2>1, <2>2, <2>3, <2>4 DEF FormOfPage, SameRest
<1>4. CASE w = "createTenant"
  <2> DEFINE o == a.owed \cup {id}
             f == [a EXCEPT !.owed = o]
  <2>1. Acted(l, w, id) = f
    BY <1>1, <1>2, <1>4 DEF AdminState
  <2>2. o \in SUBSET Items /\ o \subseteq l.owed \cup {id}
    BY <1>1, <1>4 DEF AdminState, SameRest
  <2> HIDE DEF o
  <2>3. f \in AdminState /\ f.form = a.form /\ f.busy = a.busy /\ f.secret = l.secret /\ f.owed = o
    BY <1>1, <2>2 DEF AdminState, SameRest
  <2>4. /\ f.page = l.page /\ f.left = l.left /\ f.list = l.list /\ f.loading = l.loading /\ f.drift = l.drift
        /\ f.rows = l.rows /\ f.keys = l.keys
    BY <1>1 DEF AdminState, SameRest
  <2> HIDE DEF f
  <2> QED BY <1>1, <1>4, <2>1, <2>2, <2>3, <2>4 DEF FormOfPage, SameRest
<1>5. CASE w \notin {"generate", "createTenant"}
  <2>1. Acted(l, w, id) = a
    BY <1>2, <1>5
  <2> QED BY <1>1, <1>5, <2>1 DEF SameRest
<1> QED BY <1>3, <1>4, <1>5

LEMMA TestStep ==
    ASSUME AdminOk(local, calls, db), NEW n \in DOMAIN calls, calls[n].op = "do", calls[n].arg.what = "test",
           Do(FreeRow(local, calls[n].arg.id), Minus(calls, n))
    PROVE  AdminOk(local', calls', db')
<1> DEFINE i == calls[n].arg.id
<1>0. local \in AdminState /\ FormOfPage(local) /\ Works(local.page, calls) /\ "test" \notin DOMAIN Dialogs
  BY DialogsOfPages DEF AdminOk
<1>1. Work(calls[n].arg, local.page)
  BY <1>0 DEF Works
<1>2. /\ \A v : Frees(calls[n], v) <=> v = "test"
      /\ \A j : ForRow(calls[n], j) => j = i
  <2>1. /\ \A v : Frees(calls[n], v) <=> v = calls[n].arg.what
        /\ \A j : ForRow(calls[n], j) <=> calls[n].arg.what \notin DOMAIN Dialogs /\ j = i
    BY <1>1, JobOf
  <2> QED BY <2>1
<1>3. calls' = Minus(calls, n) /\ db' = db /\ local' = FreeRow(local, i)
  BY DEF Do
<1> HIDE DEF i
<1>4. /\ local' \in AdminState /\ local'.page = local.page /\ local'.list = local.list /\ local'.loading = local.loading
      /\ local'.drift = local.drift /\ local'.secret = local.secret /\ local'.owed = local.owed /\ local'.keys = local.keys
      /\ local'.busy = local.busy /\ local'.form = local.form /\ local'.rows \subseteq local.rows \ {i}
  BY <1>0, <1>3, FreeRowKeeps
<1>5. FormOfPage(local') /\ \A k \in local.busy : k # "test"
  BY <1>0, <1>4 DEF FormOfPage, AdminState
<1>6. ~Wrote(calls[n])
  BY DEF Wrote
<1> QED BY <1>2, <1>3, <1>4, <1>5, <1>6, AnswerStep

LEMMA DoneStep ==
    ASSUME AdminOk(local, calls, db), NEW n \in DOMAIN calls, calls[n].op = "do", NEW w, w = calls[n].arg.what,
           NEW d \in [Items -> Versions], NEW id \in Items \cup {None},
           w \in {"createTenant", "generate"} => id \in Items,
           w \in {"status", "activate", "test"} => id = calls[n].arg.id,
           local' = [Acted(local, w, id) EXCEPT !.loading = TRUE],
           calls' = LoadThen(Minus(calls, n), Job(w, id)), db' = d
    PROVE  AdminOk(local', calls', db')
<1> DEFINE c == Call("load", [newest |-> TRUE, then |-> Job(w, id)])
           i == calls[n].arg.id
           b == IF w \in DOMAIN Dialogs /\ Dialogs[w].frees = "answer" THEN local.busy \ {w} ELSE local.busy
           s == IF w = "generate" THEN id ELSE local.secret
           o == IF w = "createTenant" THEN local.owed \cup {id} ELSE local.owed
           e == Acted(local, w, id)
<1>0. local \in AdminState /\ FormOfPage(local) /\ Works(local.page, calls) /\ Shape(calls)
  BY DEF AdminOk
<1>1. Work(calls[n].arg, local.page)
  BY <1>0 DEF Works
<1>2. /\ \A v : Frees(calls[n], v) <=> v = w
      /\ \A j : ForRow(calls[n], j) <=> w \notin DOMAIN Dialogs /\ j = i
      /\ Creating(calls[n]) <=> w = "createTenant"
      /\ w \in DOMAIN Dialogs => Dialogs[w].page = local.page
      /\ w \notin DOMAIN Dialogs => w \in {"status", "activate", "test"} /\ i \in Items
  <2> HIDE DEF c, b, s, o, e
  <2>1. \A v : Frees(calls[n], v) <=> v = calls[n].arg.what
    BY <1>1, JobOf
  <2>2. \A j : ForRow(calls[n], j) <=> calls[n].arg.what \notin DOMAIN Dialogs /\ j = calls[n].arg.id
    BY <1>1, JobOf
  <2>3. Creating(calls[n]) <=> calls[n].arg.what = "createTenant"
    BY <1>1, JobOf
  <2>4. calls[n].arg.what \in DOMAIN Dialogs => Dialogs[calls[n].arg.what].page = local.page
    BY <1>1, JobOf
  <2>5. calls[n].arg.what \notin DOMAIN Dialogs
        => calls[n].arg.what \in {"status", "activate", "test"} /\ calls[n].arg.id \in Items
    BY <1>1, JobOf
  <2> QED BY <2>1, <2>2, <2>3, <2>4, <2>5
<1>3. /\ e \in AdminState /\ FormOfPage(e)
      /\ e.page = local.page /\ e.left = local.left /\ e.list = local.list /\ e.loading = local.loading /\ e.drift = local.drift
      /\ e.rows = local.rows /\ e.keys = local.keys /\ e.busy = b /\ e.secret = s /\ e.owed \subseteq o
  <2>1. /\ w \in DOMAIN Dialogs /\ Dialogs[w].frees = "answer" => b = local.busy \ {w}
        /\ w \notin DOMAIN Dialogs \/ Dialogs[w].frees # "answer" => b = local.busy
        /\ w = "generate" => s = id
        /\ w # "generate" => s = local.secret
        /\ o = IF w = "createTenant" THEN local.owed \cup {id} ELSE local.owed
        /\ e = Acted(local, w, id)
    OBVIOUS
  <2> HIDE DEF c, i, b, s, o, e
  <2>2. /\ e \in AdminState /\ FormOfPage(e)
        /\ e.page = local.page /\ e.left = local.left /\ e.list = local.list /\ e.loading = local.loading
        /\ e.drift = local.drift /\ e.rows = local.rows /\ e.keys = local.keys
    BY <1>0, <2>1, DoneKeeps
  <2>3. e.busy = b
    <3>1. /\ w \in DOMAIN Dialogs /\ Dialogs[w].frees = "answer" => e.busy = local.busy \ {w}
          /\ w \notin DOMAIN Dialogs \/ Dialogs[w].frees # "answer" => e.busy = local.busy
      BY <1>0, <2>1, DoneKeeps
    <3> QED BY Zenon, <2>1, <3>1
  <2>4. e.secret = s
    BY <1>0, <2>1, DoneKeeps
  <2>5. e.owed \subseteq o
    BY <1>0, <2>1, DoneKeeps
  <2> QED BY <2>2, <2>3, <2>4, <2>5
<1> HIDE DEF e
<1>4. /\ local' \in AdminState /\ local'.form = e.form /\ local'.page = local.page /\ local'.list = local.list
      /\ local'.loading = TRUE /\ local'.drift = local.drift /\ local'.rows = local.rows /\ local'.keys = local.keys
      /\ local'.busy = b /\ local'.secret = s /\ local'.owed \subseteq o
  BY <1>3 DEF AdminState, e
<1>5. FormOfPage(local')
  BY <1>3, <1>4 DEF FormOfPage
<1>6. Work(Job(w, id), local.page) /\ Job(w, id).what = w /\ Job(w, id).id = id
  BY <1>2, JobFields DEF Work
<1>7. Job(w, id) # None
  BY <1>6, NoneIsNoJob
<1>8. /\ Shape(calls') /\ KeysSame(calls, calls') /\ Become(calls, calls', {n}, {c})
      /\ UpToDate(local.list, local.drift, calls', d) /\ c.op = "load" /\ c.arg.then = Job(w, id)
  <2> DEFINE m == Minus(calls, n)
  <2>1. Shape(m) /\ Become(calls, m, {n}, {}) /\ Free(m) # {} /\ KeysSame(calls, m)
    BY <1>0, JobAnswered
  <2> HIDE DEF m
  <2>2. calls' = LoadThen(m, Job(w, id))
    BY DEF m
  <2>3. /\ Shape(calls') /\ Become(m, calls', {}, {c}) /\ KeysSame(m, calls')
        /\ UpToDate(local.list, local.drift, calls', d) /\ c.op = "load" /\ c.arg.then = Job(w, id)
    BY <2>1, <2>2, ReadSends
  <2> QED BY <2>1, <2>3, BecomeThenBecome, KeysSameTwice
<1> HIDE DEF c
<1>9. /\ \A v : Follows(c, v) <=> v = w
      /\ Creating(c) <=> w = "createTenant"
      /\ w \notin DOMAIN Dialogs => ForRow(c, id)
      /\ Frees(c, w) <=> Dialogs[w].frees = "load"
  BY <1>6, <1>7, <1>8 DEF Follows, Does, Creating, ForRow, Frees
<1> HIDE DEF i
<1>10. Works(local.page, calls')
  BY <1>0, <1>6, <1>8, WorksBecome
<1>11. BusyHas(b, calls')
  <2>1. w \in b => Frees(c, w)
    BY <1>0, <1>9, DialogsOfPages DEF AdminState
  <2>2. \A k \in b : k \in local.busy
    OBVIOUS
  <2> HIDE DEF b
  <2> QED BY <1>2, <1>8, <2>1, <2>2, BusyBecome DEF AdminOk
<1>12. RowsHave(local.rows, calls')
  <2>1. w \notin DOMAIN Dialogs => id = i
    BY <1>2 DEF i
  <2> QED BY <1>2, <1>8, <1>9, <2>1, RowsBecome DEF AdminOk
<1>13. LoadHas(TRUE, calls')
  BY <1>8 DEF LoadHas, Become, Like
<1>14. KeysHave(local.keys, calls')
  BY <1>8, KeysStay DEF AdminOk
<1>15. OneCreation(b, s, calls')
  <2>1. OneCreation(local.busy, local.secret, calls)
    BY DEF AdminOk
  <2>2. CASE w = "createTenant"
    <3>1. "createTenant" \in local.busy /\ local.secret = None /\ \A m \in (DOMAIN calls) \ {n} : ~Creating(calls[m])
      BY <1>2, <2>1, <2>2 DEF OneCreation
    <3>2. "createTenant" \in b /\ s = None
      BY <2>2, <3>1, DialogsOfPages
    <3> QED BY <1>8, <2>1, <3>1, <3>2, CreationBecomes
  <2>3. CASE w = "generate"
    <3>1. local.page = "keys"
      BY <1>2, <2>3, DialogsOfPages
    <3>2. \A m \in DOMAIN calls : ~Creating(calls[m])
      BY <1>0, <3>1, DialogsOfPages DEF Works, Work, Creating, Does, Follows
    <3>3. \A x \in {c} : ~Creating(x)
      BY <1>9, <2>3
    <3> HIDE DEF b, s
    <3> QED BY <1>8, <2>1, <3>2, <3>3, CreationBecomes
  <2>4. CASE w \notin {"createTenant", "generate"}
    <3>1. ("createTenant" \in local.busy => "createTenant" \in b) /\ s = local.secret
      BY <2>4
    <3>2. \A x \in {c} : ~Creating(x)
      BY <1>9, <2>4
    <3> HIDE DEF b, s
    <3> QED BY <1>8, <2>1, <3>1, <3>2, CreationBecomes
  <2> QED BY <2>2, <2>3, <2>4
<1>16. OwedHave(o, calls')
  <2>1. \A v : ~Follows(calls[n], v)
    BY DEF Follows
  <2>2. \A j \in o : j \in local.owed \/ (w = "createTenant" /\ j = id)
    OBVIOUS
  <2>3. w = "createTenant" => Follows(c, "createTenant") /\ c.arg.then.id = id
    BY <1>6, <1>8, <1>9
  <2> HIDE DEF o
  <2> QED BY <1>8, <2>1, <2>2, <2>3, OwedBecome DEF AdminOk
<1>17. OwedHave(local'.owed, calls')
  BY <1>4, <1>16 DEF OwedHave
<1> QED BY <1>4, <1>5, <1>8, <1>10, <1>11, <1>12, <1>13, <1>14, <1>15, <1>17 DEF AdminOk

LEMMA DoSucceedsStep ==
    ASSUME AdminOk(local, calls, db), NEW n \in DOMAIN calls, DoSucceeds(n) PROVE AdminOk(local', calls', db')
<1> DEFINE w == calls[n].arg.what
           i == calls[n].arg.id
           g == calls[n].got
<1>0. local \in AdminState /\ FormOfPage(local) /\ Works(local.page, calls) /\ db \in [Items -> Versions]
  BY DEF AdminOk
<1>1. /\ calls[n].op = "do" /\ calls[n].at = "served"
      /\ IF w = "test" THEN Do(FreeRow(Acted(local, w, g), i), Minus(calls, n))
         ELSE Do([Acted(local, w, g) EXCEPT !.loading = TRUE], LoadThen(Minus(calls, n), Job(w, g)))
  BY DEF DoSucceeds, Job, Served
<1>2. /\ g \in Items \cup {None}
      /\ w \in {"createTenant", "generate"} => g \in Items
      /\ w \in {"status", "activate", "test"} => g = i
  BY <1>1 DEF AdminOk, Shape, GotRight
<1>5. CASE w = "test"
  <2>1. Acted(local, w, g) = local
    BY <1>5, DialogsOfPages DEF Acted, At
  <2> QED BY <1>1, <1>5, <2>1, TestStep
<1>6. CASE w # "test"
  <2>1. /\ local' = [Acted(local, w, g) EXCEPT !.loading = TRUE]
        /\ calls' = LoadThen(Minus(calls, n), Job(w, g)) /\ db' = db
    BY <1>1, <1>6 DEF Do
  <2> HIDE DEF w
  <2>2. w = calls[n].arg.what
    BY DEF w
  <2> QED BY <1>0, <1>1, <1>2, <2>1, <2>2, DoneStep
<1> QED BY <1>5, <1>6

\* The server does what it is asked for; the screen knows nothing of it yet.
LEMMA DoServedStep ==
    ASSUME AdminOk(local, calls, db), NEW n \in DOMAIN calls, DoServed(n) PROVE AdminOk(local', calls', db')
<1> DEFINE w == calls[n].arg.what
           i == calls[n].arg.id
<1>0. /\ local \in AdminState /\ FormOfPage(local) /\ Shape(calls) /\ db \in [Items -> Versions]
      /\ Works(local.page, calls) /\ UpToDate(local.list, local.drift, calls, db)
  BY DEF AdminOk
<1>1. PICK out \in Outcomes(w, i) : calls[n].op = "do" /\ Serve(n, out[1], out[2]) /\ AreCalls
  BY <1>0 DEF DoServed, Shape, AreReads, AreCalls
<1>2. Work(calls[n].arg, local.page) /\ i \in Items \cup {None}
  BY <1>0, <1>1, JobOf DEF Works
<1>3. /\ out[1] \in [Items -> Versions] /\ out[2] \in Items \cup {None}
      /\ w \in {"createTenant", "generate"} => out[2] \in Items
      /\ w \in {"status", "activate", "test"} => out[2] = i
      /\ w = "test" => out[1] = db
  BY <1>0, <1>2, OutcomesAre
<1>4. /\ DOMAIN calls' = DOMAIN calls
      /\ \A m \in DOMAIN calls : SameCall(calls'[m], calls[m]) /\ (m # n => calls'[m] = calls[m])
      /\ calls'[n].at = "served" /\ calls'[n].got = out[2] /\ db' = out[1] /\ local' = local
  BY <1>1, ServeCalls
<1>5. calls'[n].op = "do" /\ calls'[n].arg = calls[n].arg
  BY <1>1, <1>4 DEF SameCall
<1>6. Become(calls, calls', {}, {})
  <2>1. \A m \in DOMAIN calls : Like(calls'[m], calls[m])
    BY <1>4 DEF SameCall, Like
  <2> QED BY <1>4, <2>1, BecomeSame
<1>7. \A m \in DOMAIN calls' : GotRight(calls'[m])
  <2>1. GotRight(calls'[n])
    BY <1>3, <1>4, <1>5 DEF GotRight
  <2>2. \A m \in DOMAIN calls : GotRight(calls[m])
    BY <1>0 DEF Shape
  <2> QED BY <1>4, <2>1, <2>2
<1>8. Shape(calls') /\ KeysSame(calls, calls')
  <2> HIDE DEF w, i
  <2>1. AreReads(calls')
    BY <1>0, <1>4 DEF Shape, AreReads, SameCall
  <2>2. KeysSame(calls, calls')
    BY <1>4 DEF SameCall, KeysSame
  <2>3. \A m \in DOMAIN calls' : calls'[m].op = "keys" => calls'[m].arg = [of |-> calls'[m].arg.of, live |-> calls'[m].arg.live]
    BY <1>0, <1>4 DEF Shape, SameCall
  <2>4. \A m \in DOMAIN calls' : calls'[m].op = "load" /\ calls'[m].at = "served" => calls'[m].got \in [Items -> Versions]
    BY <1>0, <1>4, <1>5 DEF Shape
  <2>5. DOMAIN calls' \subseteq 1..MaxCalls
    BY <1>0, <1>4 DEF Shape
  <2> QED BY <1>7, <2>1, <2>2, <2>3, <2>4, <2>5 DEF Shape
<1>9. UpToDate(local.list, local.drift, calls', db')
  <2>1. CASE w # "test"
    <3>1. Wrote(calls'[n]) /\ n \in DOMAIN calls'
      BY <1>4, <1>5, <2>1 DEF Wrote
    <3> QED BY <3>1 DEF UpToDate
  <2>2. CASE w = "test"
    <3>1. db' = db /\ ~Wrote(calls[n])
      BY <1>1, <1>3, <1>4, <2>2 DEF Wrote
    <3>2. \A m \in DOMAIN calls : m # n => calls'[m] = calls[m]
      BY <1>4
    <3> QED BY <1>0, <1>1, <1>4, <1>5, <3>1, <3>2 DEF UpToDate
  <2> QED BY <2>1, <2>2
<1>10. Works(local.page, calls') /\ LoadHas(local.loading, calls')
  BY <1>6, WorksBecome, LoadBecomes DEF AdminOk
<1>11. BusyHas(local.busy, calls') /\ RowsHave(local.rows, calls') /\ OwedHave(local.owed, calls')
  BY <1>6, BusyBecome, RowsBecome, OwedBecome DEF AdminOk
<1>12. OneCreation(local.busy, local.secret, calls')
  BY <1>6, CreationBecomes DEF AdminOk
<1>13. KeysHave(local.keys, calls')
  BY <1>8, KeysStay DEF AdminOk
<1> QED BY <1>0, <1>3, <1>4, <1>8, <1>9, <1>10, <1>11, <1>12, <1>13 DEF AdminOk

\* The list is read; e is the screen with it, before the caller of the read goes on.
LEMMA LoadedStep ==
    ASSUME AdminOk(local, calls, db), NEW n \in DOMAIN calls, calls[n].op = "load", db' = db, calls' = Minus(calls, n),
           local' \in AdminState, FormOfPage(local'), local'.page = local.page, local'.loading = FALSE,
           UpToDate(local'.list, local'.drift, Minus(calls, n), db), local'.keys = local.keys,
           local'.busy \subseteq local.busy, \A k \in local'.busy : ~Frees(calls[n], k),
           "createTenant" \in local.busy => "createTenant" \in local'.busy \/ Creating(calls[n]),
           local'.rows \subseteq local.rows, \A i \in local'.rows : ~ForRow(calls[n], i),
           local'.secret = local.secret \/ Creating(calls[n]),
           local'.owed \subseteq local.owed,
           \A i \in local'.owed : ~(Follows(calls[n], "createTenant") /\ calls[n].arg.then.id = i)
    PROVE  AdminOk(local', calls', db')
<1>1. /\ Shape(calls') /\ Become(calls, calls', {n}, {}) /\ KeysSame(calls, calls')
  BY JobAnswered DEF AdminOk
<1>2. Works(local.page, calls') /\ LoadHas(FALSE, calls')
  BY <1>1, WorksBecome DEF AdminOk, LoadHas
<1>3. BusyHas(local'.busy, calls')
  BY <1>1, BusyBecome DEF AdminOk
<1>4. RowsHave(local'.rows, calls')
  BY <1>1, RowsBecome DEF AdminOk
<1>5. OwedHave(local'.owed, calls')
  BY <1>1, OwedBecome DEF AdminOk
<1>6. KeysHave(local.keys, calls')
  BY <1>1, KeysStay DEF AdminOk
<1>7. OneCreation(local'.busy, local'.secret, calls')
  <2>1. OneCreation(local.busy, local.secret, calls)
    BY DEF AdminOk
  <2>2. CASE Creating(calls[n])
    <3>1. \A m \in (DOMAIN calls) \ {n} : ~Creating(calls[m])
      BY <2>1, <2>2 DEF OneCreation
    <3> QED BY <1>1, <2>1, <3>1, CreationBecomes
  <2>3. CASE ~Creating(calls[n])
    BY <1>1, <2>1, <2>3, CreationBecomes
  <2> QED BY <2>2, <2>3
<1> QED BY <1>1, <1>2, <1>3, <1>4, <1>5, <1>6, <1>7 DEF AdminOk

LEMMA AdminLoadedStep ==
    ASSUME AdminOk(local, calls, db), NEW n \in DOMAIN calls, AdminLoaded(n) PROVE AdminOk(local', calls', db')
<1> DEFINE a == calls[n].arg
           w == a.then.what
           i == a.then.id
<1>0. /\ local \in AdminState /\ FormOfPage(local) /\ Works(local.page, calls) /\ Shape(calls)
      /\ UpToDate(local.list, local.drift, calls, db)
  BY DEF AdminOk
<1>1. PICK ok \in BOOLEAN :
         /\ Read(n, ok)
         /\ LET read == Loaded(local, n, ok)
                l == IF ~ok /\ Emptied(local.page) THEN [read EXCEPT !.list = Nothing] ELSE read
            IN  Do(IF a.then = None THEN l
                   ELSE IF w = "createTenant" THEN Reveal(At("load", l, w), i)
                   ELSE IF w = "tenantKey" THEN Hold(At("load", l, w), i)
                   ELSE IF w \in DOMAIN Dialogs THEN At("load", l, w)
                   ELSE FreeRow(l, i),
                   Minus(calls, n))
  BY DEF AdminLoaded
<1> DEFINE read == Loaded(local, n, ok)
           l == IF ~ok /\ Emptied(local.page) THEN [read EXCEPT !.list = Nothing] ELSE read
<1>2. calls[n].op = "load" /\ calls' = Minus(calls, n) /\ db' = db /\ IsRead(a) /\ (ok => calls[n].at = "served")
  BY <1>0, <1>1 DEF Read, Do, Shape, AreReads
<1>3. ok => calls[n].got \in [Items -> Versions]
  BY <1>0, <1>2 DEF Shape
<1>4. /\ l \in AdminState /\ l.form = local.form /\ l.busy = local.busy /\ l.page = local.page /\ l.loading = FALSE
      /\ l.rows = local.rows /\ l.owed = local.owed /\ l.keys = local.keys /\ l.secret = local.secret
      /\ UpToDate(l.list, l.drift, Minus(calls, n), db)
  <2>1. CASE ok
    <3> DEFINE drift == ~a.newest
    <3>1. l = [local EXCEPT !.loading = FALSE, !.list = calls[n].got, !.drift = drift]
      BY <2>1 DEF Loaded
    <3>2. UpToDate(calls[n].got, drift, Minus(calls, n), db)
      BY <1>0, <1>2, <2>1, UpToDateMinus
    <3>3. drift \in BOOLEAN
      OBVIOUS
    <3> HIDE DEF l, drift
    <3> QED BY <1>0, <1>3, <2>1, <3>1, <3>2, <3>3 DEF AdminState
  <2>2. CASE ~ok
    <3>1. Nothing \in [Items -> Versions]
      BY DEF Nothing, Versions
    <3>2. PICK list \in [Items -> Versions] : l = [local EXCEPT !.loading = FALSE, !.drift = TRUE, !.list = list]
      <4>1. read = [local EXCEPT !.loading = FALSE, !.drift = TRUE]
        BY <2>2 DEF Loaded
      <4>2. CASE Emptied(local.page)
        <5>1. l = [read EXCEPT !.list = Nothing]
          BY <2>2, <4>2
        <5>2. l = [local EXCEPT !.loading = FALSE, !.drift = TRUE, !.list = Nothing]
          BY <1>0, <4>1, <5>1 DEF AdminState
        <5> QED BY <3>1, <5>2
      <4>3. CASE ~Emptied(local.page)
        <5>1. l = read
          BY <2>2, <4>3
        <5>2. l = [local EXCEPT !.loading = FALSE, !.drift = TRUE, !.list = local.list] /\ local.list \in [Items -> Versions]
          BY <1>0, <4>1, <5>1 DEF AdminState
        <5> QED BY <5>2
      <4> QED BY <4>2, <4>3
    <3>3. UpToDate(list, TRUE, Minus(calls, n), db)
      BY <1>0, <1>2, UpToDateMinus
    <3> HIDE DEF l
    <3> QED BY <1>0, <3>2, <3>3 DEF AdminState
  <2> QED BY <2>1, <2>2
<1>5. /\ a.then = None => local' = l
      /\ a.then # None => /\ w = "createTenant" => local' = Reveal(At("load", l, w), i)
                          /\ w = "tenantKey" => local' = Hold(At("load", l, w), i)
                          /\ w \notin {"createTenant", "tenantKey"} /\ w \in DOMAIN Dialogs => local' = At("load", l, w)
                          /\ w \notin DOMAIN Dialogs => local' = FreeRow(l, i)
  BY <1>1, DialogsOfPages DEF Do
<1> HIDE DEF l
<1>6. FormOfPage(l)
  BY <1>0, <1>4 DEF FormOfPage
<1>7. CASE a.then = None
  <2>1. (\A v : ~Frees(calls[n], v) /\ ~ForRow(calls[n], v) /\ ~Follows(calls[n], v)) /\ ~Creating(calls[n])
    BY <1>2, <1>7 DEF Frees, ForRow, Follows, Does, Creating
  <2> QED BY <1>2, <1>4, <1>5, <1>6, <1>7, <2>1, LoadedStep
<1>8. CASE a.then # None
  <2>1. /\ \A v : Follows(calls[n], v) <=> v = w
        /\ \A v : Frees(calls[n], v) <=> (v = w /\ Dialogs[w].frees = "load")
        /\ \A j : ForRow(calls[n], j) <=> (w \notin DOMAIN Dialogs /\ j = i)
        /\ Creating(calls[n]) <=> w = "createTenant"
    <3>1. \A v : (Follows(calls[n], v) <=> v = w) /\ ~Does(calls[n], v)
      BY <1>2, <1>8 DEF Follows, Does
    <3>2. \A j : ForRow(calls[n], j) <=> (w \notin DOMAIN Dialogs /\ j = i)
      BY <1>2, <1>8 DEF ForRow
    <3> HIDE DEF w, i
    <3> QED BY <3>1, <3>2 DEF Frees, Creating
  <2>2. Work(a.then, local.page)
    BY <1>0, <1>2, <1>8 DEF Works
  <2>3. i \in Items \cup {None} /\ calls[n].arg.then.id = i
    BY <2>2 DEF Work
  <2> HIDE DEF w, i, a
  <2>4. CASE w \in DOMAIN Dialogs
    <3> DEFINE e == At("load", l, w)
    <3>1. /\ e \in AdminState /\ FormOfPage(e) /\ SameRest(e, l)
          /\ e.busy = IF w \in DOMAIN Dialogs /\ "load" = Dialogs[w].frees THEN l.busy \ {w} ELSE l.busy
      BY <1>4, <1>6, AtKeeps
    <3>2. e.busy \subseteq l.busy /\ (\A k \in e.busy : ~Frees(calls[n], k)) /\ \A k \in l.busy : k # w => k \in e.busy
      <4>1. Dialogs[w].frees = "load" => e.busy = l.busy \ {w}
        BY <2>4, <3>1
      <4>2. Dialogs[w].frees # "load" => e.busy = l.busy
        BY <3>1
      <4> HIDE DEF e
      <4> QED BY <2>1, <4>1, <4>2
    <3> HIDE DEF e
    <3>3. CASE w \notin {"createTenant", "tenantKey"}
      <4>1. local' = e
        BY <1>5, <1>8, <2>4, <3>3 DEF e
      <4> QED BY <1>2, <1>4, <2>1, <2>4, <3>1, <3>2, <3>3, <4>1, LoadedStep DEF SameRest
    <3>5. CASE w = "tenantKey"
      <4> DEFINE f == FALSE
      <4>1. local' = [e EXCEPT !.newKey = i, !.met = f]
        BY <1>5, <1>8, <3>5 DEF e, Hold
      <4>2. f \in BOOLEAN
        OBVIOUS
      <4> HIDE DEF f
      <4>3. local' \in AdminState /\ SameRest(local', e) /\ local'.form = e.form /\ local'.busy = e.busy
        BY <2>3, <3>1, <4>1, <4>2 DEF AdminState, SameRest
      <4>4. FormOfPage(local') /\ SameRest(local', l)
        BY <3>1, <4>3 DEF FormOfPage, SameRest
      <4>5. w # "createTenant"
        BY <3>5
      <4> QED BY <1>2, <1>4, <2>1, <2>4, <3>2, <4>3, <4>4, <4>5, LoadedStep DEF SameRest
    <3>4. CASE w = "createTenant"
      <4> DEFINE o == e.owed \ {i}
                 f == [e EXCEPT !.secret = i, !.owed = o]
      <4>1. local' = f
        BY <1>5, <1>8, <3>1, <3>4 DEF e, Reveal, AdminState
      <4>2. o \in SUBSET Items /\ o \subseteq local.owed /\ i \notin o
        BY <1>4, <3>1 DEF AdminState, SameRest
      <4> HIDE DEF o
      <4>3. /\ f \in AdminState /\ f.form = e.form /\ f.busy = e.busy /\ f.page = e.page /\ f.loading = e.loading
            /\ f.list = e.list /\ f.drift = e.drift /\ f.rows = e.rows /\ f.keys = e.keys /\ f.owed = o
        BY <2>3, <3>1, <4>2 DEF AdminState
      <4> HIDE DEF f
      <4>4. FormOfPage(f)
        BY <3>1, <4>3 DEF FormOfPage
      <4> QED BY <1>2, <1>4, <2>1, <2>3, <2>4, <3>1, <3>2, <3>4, <4>1, <4>2, <4>3, <4>4, LoadedStep DEF SameRest
    <3> QED BY <3>3, <3>4, <3>5
  <2>5. CASE w \notin DOMAIN Dialogs
    <3>1. local' = FreeRow(l, i)
      BY <1>5, <1>8, <2>5
    <3>2. /\ local' \in AdminState /\ local'.page = l.page /\ local'.list = l.list /\ local'.loading = l.loading
          /\ local'.drift = l.drift /\ local'.secret = l.secret /\ local'.owed = l.owed /\ local'.keys = l.keys
          /\ local'.busy = l.busy /\ local'.form = l.form /\ local'.rows \subseteq l.rows \ {i}
      BY <1>4, <3>1, FreeRowKeeps
    <3>3. FormOfPage(local') /\ w # "createTenant" /\ \A k \in l.busy : k # w
      BY <1>4, <1>6, <2>5, <3>2, DialogsOfPages DEF FormOfPage, AdminState
    <3> QED BY <1>2, <1>4, <2>1, <2>5, <3>2, <3>3, LoadedStep
  <2> QED BY <2>4, <2>5
<1> QED BY <1>7, <1>8

-----------------------------------------------------------------------------
\* The keys of a tenant: what is under way is cancelled.
IsAsk(a) == a = [of |-> a.of, live |-> a.live]
LEMMA AskAged ==
    ASSUME NEW b, IsAsk(b), NEW a, a = [b EXCEPT !.live = FALSE]
    PROVE  IsAsk(a) /\ a.live = FALSE
<1>1. b = [of |-> b.of, live |-> b.live]
  BY Zenon DEF IsAsk
<1>2. a = [of |-> b.of, live |-> FALSE]
  BY <1>1
<1> QED BY <1>2 DEF IsAsk

LEMMA AskCancelled ==
    ASSUME NEW c, IsCall(c), IsAsk(c.arg), NEW e, e = [c EXCEPT !.arg.live = FALSE]
    PROVE  IsCall(e) /\ e.op = c.op /\ IsAsk(e.arg) /\ e.arg.live = FALSE /\ e.at = c.at /\ e.got = c.got
<1> DEFINE a == [c.arg EXCEPT !.live = FALSE]
<1>1. IsAsk(a) /\ a.live = FALSE
  <2>1. \A b : b = [c.arg EXCEPT !.live = FALSE] => IsAsk(b) /\ b.live = FALSE
    BY AskAged
  <2> QED BY Zenon, <2>1
<1>2. e = [c EXCEPT !.arg = a]
  OBVIOUS
<1> HIDE DEF a
<1>3. IsCall(e) /\ e.op = c.op /\ e.arg = a /\ e.at = c.at /\ e.got = c.got
  <2>1. \A f : f = [c EXCEPT !.arg = a] => IsCall(f) /\ f.op = c.op /\ f.arg = a /\ f.at = c.at /\ f.got = c.got
    BY CallArg
  <2> QED BY Zenon, <1>2, <2>1
<1> QED BY <1>1, <1>3

LEMMA CancelledCalls ==
    ASSUME NEW cs, Shape(cs)
    PROVE  LET ds == Cancelled(cs) IN
           /\ Shape(ds) /\ Become(cs, ds, {}, {}) /\ Free(ds) = Free(cs)
           /\ \A n \in DOMAIN ds : ds[n].op = "keys" => ~ds[n].arg.live
           /\ \A list, drift, d : UpToDate(list, drift, cs, d) => UpToDate(list, drift, ds, d)
<1> DEFINE ds == Cancelled(cs)
<1>1. DOMAIN ds = DOMAIN cs
  BY DEF Cancelled
<1>2. ASSUME NEW m \in DOMAIN cs
      PROVE  /\ IsCall(ds[m]) /\ ds[m].op = cs[m].op
             /\ cs[m].op # "keys" => ds[m] = cs[m]
             /\ ds[m].at = cs[m].at
             /\ cs[m].op = "keys" => IsAsk(ds[m].arg) /\ ds[m].arg.live = FALSE
  <2>1. IsCall(cs[m]) /\ (cs[m].op = "keys" => IsAsk(cs[m].arg))
    BY Zenon DEF Shape, AreReads, IsAsk
  <2>2. CASE cs[m].op = "keys"
    <3>1. ds[m] = [cs[m] EXCEPT !.arg.live = FALSE]
      BY <2>2 DEF Cancelled
    <3>2. \A e : e = [cs[m] EXCEPT !.arg.live = FALSE]
                 => IsCall(e) /\ e.op = cs[m].op /\ e.at = cs[m].at /\ IsAsk(e.arg) /\ e.arg.live = FALSE
      BY <2>1, <2>2, AskCancelled
    <3> QED BY <2>2, <3>1, <3>2
  <2>3. CASE cs[m].op # "keys"
    BY <2>1, <2>3 DEF Cancelled
  <2> QED BY <2>2, <2>3
<1> HIDE DEF ds
<1>8. \A m \in DOMAIN cs : cs[m].op = "keys" => GotRight(ds[m])
  BY <1>2 DEF GotRight
<1>9. \A m \in DOMAIN ds : GotRight(ds[m])
  BY <1>1, <1>2, <1>8 DEF Shape
<1>3. Shape(ds)
  BY <1>1, <1>2, <1>9 DEF Shape, AreReads, IsAsk
<1>4. Become(cs, ds, {}, {})
  <2>1. \A m \in DOMAIN cs : Like(ds[m], cs[m])
    BY <1>2 DEF Like
  <2> QED BY <1>1, <2>1, BecomeSame
<1>5. Free(ds) = Free(cs)
  BY <1>1 DEF Free
<1>6. \A n \in DOMAIN ds : ds[n].op = "keys" => ~ds[n].arg.live
  BY <1>1, <1>2
<1>10. \A m \in DOMAIN cs : Wrote(cs[m]) => Wrote(ds[m])
  BY <1>2 DEF Wrote
<1>7. \A list, drift, d : UpToDate(list, drift, cs, d) => UpToDate(list, drift, ds, d)
  BY <1>1, <1>2, <1>10 DEF UpToDate
<1> QED BY <1>3, <1>4, <1>5, <1>6, <1>7 DEF ds

\* Steps of the dialog with the keys leave the rest of the screen alone.
KeysMove(k, left, gone, come) ==
    /\ Become(calls, calls', gone, come) /\ Shape(calls') /\ db' = db
    /\ (\A c \in come : c.op = "keys") /\ \A n \in gone : calls[n].op = "keys"
    /\ UpToDate(local.list, local.drift, calls', db)
    /\ k \in KeysState /\ left \in 0..MaxClicks /\ local' = [local EXCEPT !.keys = k, !.left = left]
    /\ KeysHave(k, calls')
LEMMA KeysStep ==
    ASSUME AdminOk(local, calls, db), NEW k, NEW left, NEW gone, NEW come, KeysMove(k, left, gone, come)
    PROVE  AdminOk(local', calls', db')
<1>0. local \in AdminState /\ FormOfPage(local)
  BY DEF AdminOk
<1>m. /\ Become(calls, calls', gone, come) /\ Shape(calls') /\ db' = db
      /\ (\A c \in come : c.op = "keys") /\ \A n \in gone : calls[n].op = "keys"
      /\ UpToDate(local.list, local.drift, calls', db)
      /\ k \in KeysState /\ left \in 0..MaxClicks /\ local' = [local EXCEPT !.keys = k, !.left = left]
      /\ KeysHave(k, calls')
  BY DEF KeysMove
<1>1. /\ local' \in AdminState /\ local'.form = local.form /\ local'.busy = local.busy
      /\ local'.page = local.page /\ local'.list = local.list /\ local'.loading = local.loading
      /\ local'.drift = local.drift /\ local'.rows = local.rows /\ local'.owed = local.owed
      /\ local'.keys = k /\ local'.secret = local.secret
  BY <1>0, <1>m DEF AdminState
<1>2. /\ \A c \in come : ~Creating(c)
      /\ \A n \in DOMAIN calls : n \in gone =>
            (\A v : ~Frees(calls[n], v) /\ ~ForRow(calls[n], v) /\ ~Follows(calls[n], v)) /\ ~Creating(calls[n])
  BY <1>m DEF Frees, ForRow, Follows, Does, Creating
<1>3. Works(local.page, calls') /\ LoadHas(local.loading, calls')
  BY <1>m, WorksBecome, LoadBecomes DEF AdminOk
<1>4. BusyHas(local.busy, calls') /\ RowsHave(local.rows, calls') /\ OwedHave(local.owed, calls')
  BY <1>m, <1>2, BusyBecome, RowsBecome, OwedBecome DEF AdminOk
<1>5. OneCreation(local.busy, local.secret, calls')
  BY <1>m, <1>2, CreationBecomes DEF AdminOk
<1> QED BY <1>m, <1>0, <1>1, <1>3, <1>4, <1>5 DEF AdminOk, FormOfPage

LEMMA OpenKeysStep == ASSUME AdminOk(local, calls, db), NEW t \in Items, OpenKeys(t) PROVE AdminOk(local', calls', db')
<1> DEFINE k == [local.keys EXCEPT !.of = t, !.loading = TRUE, !.failed = FALSE]
           left == local.left - 1
           a == [of |-> t, live |-> TRUE]
           c == Call("keys", a)
           ds == Cancelled(calls)
<1>0. local \in AdminState /\ Shape(calls) /\ local.keys \in KeysState
  BY DEF AdminOk, AdminState
<1>1. Room(1) /\ local.left > 0 /\ local' = [local EXCEPT !.keys = k, !.left = left] /\ calls' = Plus(ds, c) /\ db' = db
  BY <1>0 DEF OpenKeys, Ask, Do, AdminState
<1>2. left \in 0..MaxClicks
  BY <1>0, <1>1, BoundsAssumption DEF AdminState
<1>3. k \in KeysState /\ k.of = t /\ k.loading = TRUE
  BY <1>0 DEF KeysState
<1>4. IsAsk(a) /\ a.of = t /\ a.live = TRUE
  BY DEF IsAsk
<1> HIDE DEF a
<1>5. IsCall(c) /\ c.op = "keys" /\ c.arg = a /\ c.at = "sent"
  BY CallSent
<1>6. /\ Shape(ds) /\ Become(calls, ds, {}, {}) /\ Free(ds) # {}
      /\ \A n \in DOMAIN ds : ds[n].op = "keys" => ~ds[n].arg.live
      /\ UpToDate(local.list, local.drift, ds, db)
  BY <1>0, <1>1, RoomIsFree, CancelledCalls DEF AdminOk
<1> HIDE DEF ds
<1>7. UpToDate(local.list, local.drift, calls', db) /\ AreReads(calls')
  BY <1>1, <1>6, UpToDatePlus, AreReadsPlus DEF Shape
<1> HIDE DEF c, k, left
<1>8. Become(ds, calls', {}, {c})
  BY <1>1, <1>6, BecomePlus
<1>9. Become(calls, calls', {}, {c})
  BY <1>6, <1>8, BecomeThenBecome
<1>10. /\ \A n \in DOMAIN calls' : calls'[n] = c \/ (n \in DOMAIN ds /\ calls'[n] = ds[n])
       /\ DOMAIN ds \subseteq 1..MaxCalls => DOMAIN calls' \subseteq 1..MaxCalls
       /\ \E n \in DOMAIN calls' : calls'[n] = c
  BY <1>1, <1>6, PlusCalls, PlusKeeps
<1>15. \A n \in DOMAIN calls' : GotRight(calls'[n])
  BY <1>5, <1>6, <1>10 DEF Shape, GotRight
<1>11. Shape(calls')
  BY <1>4, <1>5, <1>6, <1>7, <1>10, <1>15 DEF Shape, IsAsk
<1>12. KeysHave(k, calls')
  BY <1>3, <1>4, <1>5, <1>6, <1>10 DEF KeysHave
<1>13. (\A x \in {c} : x.op = "keys") /\ \A n \in {} : calls[n].op = "keys"
  BY <1>5
<1>14. KeysMove(k, left, {}, {c})
  BY <1>1, <1>2, <1>3, <1>7, <1>9, <1>11, <1>12, <1>13 DEF KeysMove
<1> QED BY <1>14, KeysStep

LEMMA CloseKeysStep == ASSUME AdminOk(local, calls, db), CloseKeys PROVE AdminOk(local', calls', db')
<1> DEFINE k == [local.keys EXCEPT !.of = None]
<1>0. local \in AdminState /\ Shape(calls) /\ local.keys \in KeysState /\ local.left \in 0..MaxClicks
  BY DEF AdminOk, AdminState
<1>1. local' = [local EXCEPT !.keys = k, !.left = local.left] /\ calls' = Cancelled(calls) /\ db' = db
  BY <1>0 DEF CloseKeys, Do, AdminState
<1>2. k \in KeysState /\ k.of = None
  BY <1>0 DEF KeysState
<1> HIDE DEF k
<1>3. /\ Shape(calls') /\ Become(calls, calls', {}, {})
      /\ \A n \in DOMAIN calls' : calls'[n].op = "keys" => ~calls'[n].arg.live
      /\ UpToDate(local.list, local.drift, calls', db)
  BY <1>0, <1>1, CancelledCalls DEF AdminOk
<1>4. KeysHave(k, calls')
  BY <1>2, <1>3 DEF KeysHave
<1>5. (\A c \in {} : c.op = "keys") /\ \A n \in {} : calls[n].op = "keys"
  OBVIOUS
<1>6. KeysMove(k, local.left, {}, {})
  BY <1>0, <1>1, <1>2, <1>3, <1>4, <1>5 DEF KeysMove
<1> QED BY <1>6, KeysStep

LEMMA KeysAnswerStep ==
    ASSUME AdminOk(local, calls, db), NEW n \in DOMAIN calls, KeysAnswer(n) PROVE AdminOk(local', calls', db')
<1>0. local \in AdminState /\ Shape(calls) /\ local.keys \in KeysState /\ local.left \in 0..MaxClicks /\ KeysHave(local.keys, calls)
  BY DEF AdminOk, AdminState
<1>1. PICK ok \in BOOLEAN :
         /\ calls[n].op = "keys" /\ ~Wrote(calls[n]) /\ calls' = Minus(calls, n) /\ db' = db
         /\ local' = IF ~calls[n].arg.live THEN local
                     ELSE [local EXCEPT !.keys.shown = IF ok THEN calls[n].arg.of ELSE @,
                                        !.keys.loading = FALSE, !.keys.failed = ~ok]
  BY DEF KeysAnswer, Do, Sent, Wrote
<1>2. Shape(calls') /\ Become(calls, calls', {n}, {}) /\ UpToDate(local.list, local.drift, calls', db)
  BY <1>0, <1>1, JobAnswered DEF AdminOk
<1>3. \A m \in DOMAIN calls' : m \in DOMAIN calls /\ m # n /\ calls'[m] = calls[m]
  BY <1>1, MinusCalls
<1>6. (\A c \in {} : c.op = "keys") /\ \A m \in {n} : calls[m].op = "keys"
  BY <1>1
<1>4. CASE ~calls[n].arg.live
  <2>1. local' = [local EXCEPT !.keys = local.keys, !.left = local.left]
    BY <1>0, <1>1, <1>4 DEF AdminState
  <2>2. \A m \in DOMAIN calls : m # n => m \in DOMAIN calls' /\ calls'[m] = calls[m]
    BY <1>1 DEF Minus
  <2>3. KeysHave(local.keys, calls')
    BY <1>0, <1>3, <1>4, <2>2 DEF KeysHave
  <2>4. KeysMove(local.keys, local.left, {n}, {})
    BY <1>0, <1>1, <1>2, <1>6, <2>1, <2>3 DEF KeysMove
  <2> QED BY <2>4, KeysStep
<1>5. CASE calls[n].arg.live
  <2> DEFINE s == IF ok THEN calls[n].arg.of ELSE local.keys.shown
             failed == ~ok
             k == [local.keys EXCEPT !.shown = s, !.loading = FALSE, !.failed = failed]
  <2>1. calls[n].arg.of = local.keys.of
    BY <1>0, <1>1, <1>5 DEF KeysHave
  <2>2. s \in Items \cup {None} /\ failed \in BOOLEAN /\ (~failed => s = local.keys.of)
    BY <1>0, <2>1 DEF KeysState
  <2>3. local' = [local EXCEPT !.keys = k, !.left = local.left]
    BY <1>0, <1>1, <1>5 DEF AdminState
  <2> HIDE DEF s, failed
  <2>4. k \in KeysState /\ k.of = local.keys.of /\ k.loading = FALSE /\ k.failed = failed /\ k.shown = s
    BY <1>0, <2>2 DEF KeysState
  <2> HIDE DEF k
  <2>5. KeysHave(k, calls')
    BY <1>0, <1>3, <2>2, <2>4 DEF KeysHave
  <2>6. KeysMove(k, local.left, {n}, {})
    BY <1>0, <1>1, <1>2, <1>6, <2>3, <2>4, <2>5 DEF KeysMove
  <2> QED BY <2>6, KeysStep
<1> QED BY <1>4, <1>5

LEMMA AdminReadStep ==
    ASSUME AdminOk(local, calls, db), NEW n \in DOMAIN calls, ReadServed(n) PROVE AdminOk(local', calls', db')
<1>0. /\ local \in AdminState /\ FormOfPage(local) /\ Shape(calls) /\ db \in [Items -> Versions]
      /\ UpToDate(local.list, local.drift, calls, db)
  BY DEF AdminOk
<1>1. calls[n].op = "load" /\ Serve(n, db, db) /\ AreCalls
  BY <1>0 DEF ReadServed, Shape, AreReads, AreCalls
<1>2. /\ DOMAIN calls' = DOMAIN calls
      /\ \A m \in DOMAIN calls : SameCall(calls'[m], calls[m]) /\ (m # n => calls'[m] = calls[m])
      /\ calls'[n].got = db /\ db' = db /\ local' = local
  BY <1>1, ServeCalls
<1>3. Become(calls, calls', {}, {})
  <2>1. \A m \in DOMAIN calls : Like(calls'[m], calls[m])
    BY <1>2 DEF SameCall, Like
  <2> QED BY <1>2, <2>1, BecomeSame
<1>9. \A m \in DOMAIN calls' : GotRight(calls'[m])
  BY <1>0, <1>1, <1>2 DEF Shape, SameCall, GotRight
<1>10. \A m \in DOMAIN calls : Wrote(calls[m]) => Wrote(calls'[m])
  BY <1>1, <1>2 DEF Wrote
<1>11. UpToDate(local.list, local.drift, calls', db)
  BY <1>0, <1>1, <1>2, <1>10 DEF SameCall, UpToDate
<1>4. Shape(calls') /\ KeysSame(calls, calls') /\ UpToDate(local.list, local.drift, calls', db)
  BY <1>0, <1>1, <1>2, <1>9, <1>11 DEF Shape, AreReads, SameCall, KeysSame
<1>5. Works(local.page, calls') /\ LoadHas(local.loading, calls')
  BY <1>3, WorksBecome, LoadBecomes DEF AdminOk
<1>6. BusyHas(local.busy, calls') /\ RowsHave(local.rows, calls') /\ OwedHave(local.owed, calls')
  BY <1>3, BusyBecome, RowsBecome, OwedBecome DEF AdminOk
<1>7. OneCreation(local.busy, local.secret, calls')
  BY <1>3, CreationBecomes DEF AdminOk
<1>8. KeysHave(local.keys, calls')
  BY <1>4, KeysStay DEF AdminOk
<1> QED BY <1>0, <1>2, <1>4, <1>5, <1>6, <1>7, <1>8 DEF AdminOk

LEMMA AdminStarts == AdminInit => AdminOk(local, calls, db)
<1> SUFFICES ASSUME AdminInit PROVE AdminOk(local, calls, db)
  OBVIOUS
<1> DEFINE c == Call("load", [newest |-> TRUE, then |-> None])
<1>1. PICK page \in Pages :
         local = [page |-> page, left |-> MaxClicks, list |-> Nothing, loading |-> TRUE, drift |-> TRUE,
                  form |-> NoForm, busy |-> {}, rows |-> {}, secret |-> None, owed |-> {}, newKey |-> None, met |-> FALSE,
                  keys |-> NoKeys]
  BY DEF AdminInit
<1>2. db \in [Items -> Versions] /\ Nothing \in [Items -> Versions] /\ calls = LoadThen(NoCalls, None)
  BY DEF AdminInit, Versions, Nothing, Load
<1>3. NoForm \in FormState /\ NoKeys \in KeysState /\ MaxClicks \in 0..MaxClicks
  BY BoundsAssumption DEF NoForm, FormState, NoKeys, KeysState
<1>4. /\ local \in AdminState /\ local.page = page /\ local.list = Nothing /\ local.loading = TRUE /\ local.drift = TRUE
      /\ local.form = NoForm /\ local.busy = {} /\ local.rows = {} /\ local.secret = None /\ local.owed = {} /\ local.keys = NoKeys
  BY <1>1, <1>2, <1>3 DEF AdminState
<1>5. Shape(NoCalls) /\ Free(NoCalls) # {}
  <2>1. Shape(NoCalls)
    BY NoCallsEmpty DEF Shape, AreReads
  <2>2. 1 \in Free(NoCalls)
    BY NoCallsEmpty, BoundsAssumption DEF Free
  <2> QED BY <2>1, <2>2
<1>6. /\ Shape(calls) /\ Become(NoCalls, calls, {}, {c})
      /\ UpToDate(local.list, local.drift, calls, db) /\ c.op = "load" /\ c.arg.then = None
  BY <1>2, <1>5, ReadSends
<1> HIDE DEF c
<1>7. /\ \A m \in DOMAIN calls : Like(calls[m], c)
      /\ \A m, n \in DOMAIN calls : m = n
      /\ \E m \in DOMAIN calls : Like(calls[m], c)
  BY <1>6, NoCallsEmpty DEF Become
<1>8. \A m \in DOMAIN calls : calls[m].op = "load" /\ calls[m].arg.then = None
  BY <1>6, <1>7 DEF Like
<1>9. Works(page, calls) /\ BusyHas({}, calls) /\ RowsHave({}, calls) /\ LoadHas(TRUE, calls) /\ OwedHave({}, calls)
  BY <1>7, <1>8 DEF Works, BusyHas, RowsHave, LoadHas, OwedHave
<1>10. KeysHave(NoKeys, calls) /\ OneCreation({}, None, calls)
  BY <1>8 DEF KeysHave, NoKeys, OneCreation, Creating, Does, Follows
<1> QED BY <1>2, <1>4, <1>6, <1>9, <1>10 DEF AdminOk, FormOfPage

LEMMA AdminSteps == ASSUME AdminOk(local, calls, db), AdminNext PROVE AdminOk(local', calls', db')
<1>1. ASSUME NEW n \in DOMAIN calls, AdminAnswers(n) PROVE AdminOk(local', calls', db')
  BY <1>1, DoServedStep, DoFailsStep, DoSucceedsStep, AdminLoadedStep, KeysAnswerStep, AdminReadStep DEF AdminAnswers
<1>2. ASSUME NEW i \in Items, PressRow(i) \/ OpenKeys(i) PROVE AdminOk(local', calls', db')
  BY <1>2, PressStep, OpenKeysStep
<1>3. ASSUME SubmitForm \/ RetryAll \/ CloseKeys PROVE AdminOk(local', calls', db')
  BY <1>3, SubmitStep, RetryStep, CloseKeysStep
<1> QED BY Zenon, <1>1, <1>2, <1>3, FormSteps DEF AdminNext

LEMMA AdminHolds == Spec => [](screen = "admin" => AdminOk(local, calls, db))
<1> DEFINE I == screen = "admin" => AdminOk(local, calls, db)
<1>1. Init => I
  BY AdminStarts DEF Init, ShellInit, DeviceInit, BrowserInit, BulkInit, AddInit, ConnectionsInit, CardsInit, RulesInit,
     ChatInit, PicturesInit, LogsInit, ConsoleInit, FeedInit, SettingsInit, ToolsInit, TunnelInit
<1>2. I /\ [Next]_uiVars => I'
  <2> SUFFICES ASSUME I, [Next]_uiVars, screen' = "admin" PROVE AdminOk(local', calls', db')
    OBVIOUS
  <2>1. screen = "admin"
    BY OneScreen
  <2>2. CASE AdminNext
    BY <2>1, <2>2, AdminSteps
  <2>3. CASE UNCHANGED uiVars
    BY <2>1, <2>3 DEF uiVars
  <2> QED BY <2>1, <2>2, <2>3 DEF Next
<1> QED BY <1>1, <1>2, PTL DEF Spec

\* The keys in the dialog are those of the tenant in its title, whatever answer
\* of an earlier opening comes late (the cancelled flag of tenant-keys-dialog.tsx).
THEOREM TenantKeysAreOwn == Spec => []TenantKeysOwn
<1>1. (screen = "admin" => AdminOk(local, calls, db)) => TenantKeysOwn
  BY DEF TenantKeysOwn, AdminOk, KeysHave
<1> QED BY <1>1, AdminHolds, PTL

\* Once the requests of an administration screen are answered, no button is
\* off, no row spins and the list is what the server holds, unless the newest
\* read of it failed or was overtaken, or the answer to a change the server had
\* made was lost (load, fetchData, fetchTenants, fetchAll and the catch blocks
\* of the handlers, which do not read the list).
THEOREM AdminSettles == Spec => [](screen = "admin" /\ calls = NoCalls => AdminRests /\ (~local.drift => local.list = db))
<1>1. ASSUME AdminOk(local, calls, db), calls = NoCalls PROVE AdminRests /\ (~local.drift => local.list = db)
  <2>1. DOMAIN calls = {}
    BY <1>1, NoCallsEmpty
  <2>2. ~local.loading /\ (local.keys.of # None => ~local.keys.loading) /\ (~local.drift => local.list = db)
    BY <1>1, <2>1 DEF AdminOk, LoadHas, KeysHave, UpToDate
  <2>3. local.busy = {} /\ local.rows = {}
    BY <1>1, <2>1 DEF AdminOk, BusyHas, RowsHave
  <2> QED BY <2>2, <2>3 DEF AdminRests
<1> QED BY <1>1, AdminHolds, PTL

LEMMA SecretStays ==
    ASSUME AdminOk(local, calls, db), AdminNext, local.page = "tenants", local.secret # None
    PROVE  local'.secret \in {local.secret, None}
<1>0. local \in AdminState /\ FormOfPage(local) /\ Works(local.page, calls) /\ \A n \in DOMAIN calls : ~Creating(calls[n])
  BY DEF AdminOk, OneCreation
<1>1. CASE TypeInCombo \/ KeepEditing \/ CloseForm \/ EscapeKeyDialog
  BY <1>0, <1>1 DEF TypeInCombo, KeepEditing, CloseForm, EscapeKeyDialog, Do, AdminState
<1>2. CASE DismissSecret \/ CloseKeys
  BY <1>0, <1>2 DEF DismissSecret, CloseKeys, Do, AdminState
<1>3. CASE SubmitForm \/ RetryAll
  BY <1>3 DEF SubmitForm, RetryAll, Bare
<1>4. ASSUME NEW kind \in DOMAIN Dialogs, NEW id \in Items \cup {None}, OpenForm(kind, id) PROVE FALSE
  BY <1>4 DEF OpenForm, Bare
<1>5. ASSUME NEW i \in Items, PressRow(i) \/ OpenKeys(i) PROVE FALSE
  BY <1>5 DEF PressRow, OpenKeys, Bare
<1>6. ASSUME NEW n \in DOMAIN calls, ReadServed(n) \/ DoServed(n) \/ KeysAnswer(n) PROVE local'.secret = local.secret
  BY <1>0, <1>6 DEF ReadServed, DoServed, Serve, KeysAnswer, Do, AdminState
<1>7. ASSUME NEW n \in DOMAIN calls, DoFails(n) PROVE local'.secret = local.secret
  BY <1>0, <1>7, FreeRowKeeps DEF DoFails, Do, DoMissing, AdminState
<1>8. ASSUME NEW n \in DOMAIN calls, DoSucceeds(n) PROVE local'.secret = local.secret
  <2> DEFINE w == calls[n].arg.what
             i == calls[n].arg.id
  <2> DEFINE g == calls[n].got
  <2>1. /\ calls[n].op = "do"
        /\ \/ w = "test" /\ local' = FreeRow(Acted(local, w, g), i)
           \/ local' = [Acted(local, w, g) EXCEPT !.loading = TRUE]
    BY <1>8 DEF DoSucceeds, Do
  <2>2. Work(calls[n].arg, local.page)
    BY <1>0, <2>1 DEF Works
  <2>3. w # "createTenant" /\ w # "generate"
    <3>1. (w \in DOMAIN Dialogs => Dialogs[w].page = local.page) /\ (Creating(calls[n]) <=> w = "createTenant")
      BY <2>1, <2>2, JobOf
    <3> QED BY <1>0, <3>1, DialogsOfPages
  <2> HIDE DEF w, i, g
  <2>4. Acted(local, w, g) = At("answer", local, w)
    BY <2>3 DEF Acted
  <2>5. At("answer", local, w) \in AdminState /\ At("answer", local, w).secret = local.secret
    <3>1. At("answer", local, w) \in AdminState
      BY <1>0, AtKeeps
    <3>2. At("answer", local, w).secret = local.secret
      BY DEF At
    <3> QED BY <3>1, <3>2
  <2> QED BY <2>1, <2>4, <2>5, FreeRowKeeps DEF AdminState
<1>9. ASSUME NEW n \in DOMAIN calls, AdminLoaded(n) PROVE local'.secret = local.secret
  <2> DEFINE a == calls[n].arg
             w == a.then.what
             i == a.then.id
  <2>1. PICK ok \in BOOLEAN :
           /\ Read(n, ok)
           /\ LET read == Loaded(local, n, ok)
                  l == IF ~ok /\ Emptied(local.page) THEN [read EXCEPT !.list = Nothing] ELSE read
              IN  local' = IF a.then = None THEN l
                           ELSE IF w = "createTenant" THEN Reveal(At("load", l, w), i)
                           ELSE IF w = "tenantKey" THEN Hold(At("load", l, w), i)
                           ELSE IF w \in DOMAIN Dialogs THEN At("load", l, w)
                           ELSE FreeRow(l, i)
    BY <1>9 DEF AdminLoaded, Do
  <2> DEFINE read == Loaded(local, n, ok)
             l == IF ~ok /\ Emptied(local.page) THEN [read EXCEPT !.list = Nothing] ELSE read
  <2>2. calls[n].op = "load"
    BY <2>1 DEF Read
  <2>3. a.then # None => w # "createTenant"
    BY <1>0, <2>2 DEF Creating, Follows
  <2>4. l.secret = local.secret /\ l.rows = local.rows /\ DOMAIN l = DOMAIN local
    BY <1>0 DEF Loaded, AdminState
  <2>5. local' = l \/ local' = At("load", l, w) \/ local' = FreeRow(l, i) \/ local' = Hold(At("load", l, w), i)
    BY <2>1, <2>3
  <2> HIDE DEF l
  <2>6. FreeRow(l, i).secret = l.secret /\ At("load", l, w).secret = l.secret
    BY DEF FreeRow, At
  <2>7. Hold(At("load", l, w), i).secret = At("load", l, w).secret
    BY DEF Hold
  <2> QED BY <2>4, <2>5, <2>6, <2>7
<1> QED BY Zenon, <1>1, <1>2, <1>3, <1>4, <1>5, <1>6, <1>7, <1>8, <1>9 DEF AdminNext, AdminAnswers

\* Every key of a new tenant that the server hands out is put before the admin,
\* and none is replaced before it was dismissed (handleCreate).
THEOREM SecretsAreShown == Spec => SecretsShown
<1> DEFINE I == screen = "admin" => AdminOk(local, calls, db)
<1>1. I => (screen = "admin" /\ local.page = "tenants" /\ calls = NoCalls => local.owed = {})
  <2> SUFFICES ASSUME AdminOk(local, calls, db), calls = NoCalls PROVE local.owed = {}
    OBVIOUS
  <2> QED BY NoCallsEmpty DEF AdminOk, OwedHave
<1>2. I /\ [Next]_uiVars => [screen = "admin" /\ local.page = "tenants" /\ local.secret # None
                               => local'.secret \in {local.secret, None}]_uiVars
  <2> SUFFICES ASSUME I, Next, screen = "admin", local.page = "tenants", local.secret # None
               PROVE  local'.secret \in {local.secret, None}
    OBVIOUS
  <2>1. AdminNext
    BY DEF Next
  <2> QED BY <2>1, SecretStays
<1> QED BY <1>1, <1>2, AdminHolds, PTL DEF Spec, SecretsShown

-----------------------------------------------------------------------------
(* The turns of the playground: what its list, its queue, its buffer and   *)
(* its log hold while a turn streams and between two turns.                *)

\* What is below is sequences of whatever they hold.
IsSeq(s) == Len(s) \in Nat /\ s = [i \in 1..Len(s) |-> s[i]]
Before(t, queue) == \A k \in DOMAIN queue : t < queue[k].turn

\* An answer that is not being streamed is the error's text or all that came.
Came(t, d) == [k \in 1..d[t] |-> <<t, k>>]
Finished(m, d) == m.content = Failure \/ m.content = Came(m.of, d)
Past(history, t, d) ==
    \A k \in DOMAIN history :
        /\ history[k].of \in Turns /\ history[k].of < t
        /\ history[k].role = "assistant" => Finished(history[k], d)

IsMessage(m, typed) ==
    /\ m = [of |-> m.of, role |-> m.role, status |-> m.status, content |-> m.content]
    /\ m.of \in 1..typed /\ m.role \in {"user", "assistant"}

\* The answer under way is short of what waits in the buffer.
AnswerOk(m, running, buffer, queue, d) ==
    /\ Before(m.of, queue)
    /\ IF m.of = running THEN IsSeq(m.content) /\ m.content \o buffer = Came(m.of, d) ELSE Finished(m, d)
\* A prompt that is not marked as queued comes before all that wait.
PromptOk(m, running, queue) ==
    /\ m.of = running => m.status # "done"
    /\ IF m.status = "queued" THEN \E k \in DOMAIN queue : queue[k].turn = m.of ELSE Before(m.of, queue)
MessagesOk(msgs, typed, running, buffer, queue, d) ==
    /\ IsSeq(msgs)
    /\ \A i \in DOMAIN msgs :
          /\ IsMessage(msgs[i], typed)
          /\ msgs[i].role = "assistant" => AnswerOk(msgs[i], running, buffer, queue, d)
          /\ msgs[i].role = "user" => PromptOk(msgs[i], running, queue)

QueueOk(queue, typed, asked) ==
    /\ IsSeq(queue)
    /\ \A k \in DOMAIN queue : queue[k].turn \in 1..typed /\ queue[k].with = asked[queue[k].turn]
    /\ \A j, k \in DOMAIN queue : j < k => queue[j].turn < queue[k].turn
SentOk(sent, typed, asked, d) ==
    /\ IsSeq(sent)
    /\ \A i \in DOMAIN sent : /\ sent[i].turn \in 1..typed /\ sent[i].with = asked[sent[i].turn]
                              /\ Past(sent[i].history, sent[i].turn, d)
    /\ \A i, j \in DOMAIN sent : i < j => sent[i].turn < sent[j].turn
    /\ \A t \in Turns : d[t] # 0 => \E i \in DOMAIN sent : sent[i].turn = t
LogsOk(logs, typed) ==
    /\ IsSeq(logs)
    /\ \A i \in DOMAIN logs : logs[i].turn \in 1..typed
    /\ \A i, j \in DOMAIN logs : i < j => logs[i].turn > logs[j].turn

ChatFields == {"left", "typed", "choice", "lock", "msgs", "queue", "running", "buffer", "frame", "logs", "sent", "asked"}
IsChat(l) ==
    /\ DOMAIN l = ChatFields /\ l = [f \in ChatFields |-> l[f]]
    /\ l.typed \in 0..Prompts /\ IsSeq(l.asked) /\ Len(l.asked) = l.typed
ChatBase(l, d) ==
    /\ IsChat(l) /\ d \in [Turns -> Nat]
    /\ QueueOk(l.queue, l.typed, l.asked) /\ SentOk(l.sent, l.typed, l.asked, d) /\ LogsOk(l.logs, l.typed)
    /\ IsSeq(l.buffer)

LastSent(sent, t) == (\A i \in DOMAIN sent : sent[i].turn <= t) /\ \E i \in DOMAIN sent : sent[i].turn = t
OneCall(cs, t) ==
    DOMAIN cs # {} /\ (\A m, n \in DOMAIN cs : m = n) /\ \A n \in DOMAIN cs : cs[n].op = "chat" /\ cs[n].arg = t

\* A turn streams: it is the last that was sent, and the next is none of those before.
TurnRuns(l, cs) ==
    /\ l.running \in 1..l.typed /\ Before(l.running, l.queue)
    /\ LastSent(l.sent, l.running)
    /\ \A i \in DOMAIN l.logs : l.logs[i].turn < l.running
    /\ l.frame \in {None, l.running}
    /\ OneCall(cs, l.running)
Rests(l) == l.running = None /\ l.buffer = <<>> /\ l.frame = None
ChatOk(l, cs, d) ==
    /\ ChatBase(l, d)
    /\ MessagesOk(l.msgs, l.typed, l.running, l.buffer, l.queue, d)
    /\ IF l.running = None THEN Rests(l) /\ l.queue = <<>> /\ DOMAIN cs = {} ELSE TurnRuns(l, cs)

\* Between two turns: what waits is next.
Between(l, d) ==
    /\ ChatBase(l, d) /\ Rests(l)
    /\ \A i \in DOMAIN l.sent : Before(l.sent[i].turn, l.queue)
    /\ \A i \in DOMAIN l.logs : Before(l.logs[i].turn, l.queue)
    /\ IsSeq(l.msgs)
    /\ \A i \in DOMAIN l.msgs :
          LET m == l.msgs[i] IN
          /\ IsMessage(m, l.typed)
          /\ m.role = "assistant" => Before(m.of, l.queue) /\ Finished(m, d)
          /\ m.role = "user" => IF m.status = "queued" THEN \E k \in DOMAIN l.queue : l.queue[k].turn = m.of
                                ELSE \A k \in DOMAIN l.queue : k # 1 => m.of < l.queue[k].turn
    /\ l.queue # <<>> => Past(buildApiMessages(l.msgs, l.queue[1].turn), l.queue[1].turn, d)

LEMMA SeqIs == ASSUME NEW s, IsSeq(s) PROVE DOMAIN s = 1..Len(s) /\ \E S : s \in Seq(S)
<1> DEFINE S == {s[i] : i \in 1..Len(s)}
<1>1. DOMAIN s = 1..Len(s) /\ Len(s) \in Nat /\ s \in [1..Len(s) -> S]
  BY DEF IsSeq
<1>2. s \in Seq(S)
  BY <1>1, SeqDef
<1> QED BY <1>1, <1>2

LEMMA AnySeq == ASSUME NEW S, NEW s \in Seq(S) PROVE IsSeq(s)
BY LenProperties DEF IsSeq

LEMMA FunSeq ==
    ASSUME NEW s, NEW n \in Nat, DOMAIN s = 1..n, s = [i \in 1..n |-> s[i]]
    PROVE  IsSeq(s) /\ Len(s) = n
<1> DEFINE S == {s[i] : i \in 1..n}
<1>1. s \in [1..n -> S]
  OBVIOUS
<1>2. s \in Seq(S)
  BY <1>1, SeqDef
<1> HIDE DEF S
<1>3. Len(s) \in Nat /\ DOMAIN s = 1..Len(s)
  BY <1>2, LenProperties
<1>4. Len(s) = n
  BY <1>3
<1> QED BY <1>2, <1>4, AnySeq

LEMMA NoneIs == ASSUME NEW s, IsSeq(s) PROVE IsSeq(<<>>) /\ Len(<<>>) = 0 /\ (s = <<>> <=> Len(s) = 0)
<1>1. IsSeq(<<>>) /\ Len(<<>>) = 0
  BY EmptySeq, AnySeq
<1>2. Len(s) = 0 => s = <<>>
  <2> SUFFICES ASSUME Len(s) = 0 PROVE s = <<>>
    OBVIOUS
  <2>1. PICK S : s \in Seq(S)
    BY SeqIs
  <2> QED BY <2>1, EmptySeq
<1> QED BY <1>1, <1>2

LEMMA AppendIs ==
    ASSUME NEW s, IsSeq(s), NEW x
    PROVE  /\ IsSeq(Append(s, x)) /\ Len(Append(s, x)) = Len(s) + 1
           /\ \A i \in 1..Len(s) : Append(s, x)[i] = s[i]
           /\ Append(s, x)[Len(s) + 1] = x
<1>1. PICK S : s \in Seq(S)
  BY SeqIs
<1>2. s \in Seq(S \cup {x}) /\ x \in S \cup {x}
  BY <1>1, SeqMonotonic
<1> HIDE <1>1
<1> DEFINE T == S \cup {x}
<1> HIDE DEF T
<1>3. s \in Seq(T) /\ x \in T
  BY <1>2 DEF T
<1>4. /\ Append(s, x) \in Seq(T) /\ Len(Append(s, x)) = Len(s) + 1
      /\ \A i \in 1..Len(s) : Append(s, x)[i] = s[i]
      /\ Append(s, x)[Len(s) + 1] = x
  BY <1>3, AppendProperties
<1> QED BY <1>4, AnySeq

LEMMA ConcatIs ==
    ASSUME NEW s, IsSeq(s), NEW t, IsSeq(t)
    PROVE  /\ IsSeq(s \o t) /\ Len(s \o t) = Len(s) + Len(t)
           /\ \A i \in 1..Len(s) : (s \o t)[i] = s[i]
           /\ \A i \in 1..Len(t) : (s \o t)[Len(s) + i] = t[i]
<1>1. PICK S : s \in Seq(S)
  BY SeqIs
<1>2. PICK T : t \in Seq(T)
  BY SeqIs
<1> DEFINE U == S \cup T
<1>3. s \in Seq(U) /\ t \in Seq(U)
  BY <1>1, <1>2, SeqMonotonic
<1> HIDE DEF U
<1>4. /\ s \o t \in Seq(U) /\ Len(s \o t) = Len(s) + Len(t)
      /\ \A i \in 1..Len(s) + Len(t) : (s \o t)[i] = IF i <= Len(s) THEN s[i] ELSE t[i - Len(s)]
  BY <1>3, ConcatProperties
<1>5. IsSeq(s \o t) /\ Len(s) \in Nat /\ Len(t) \in Nat
  BY <1>4, AnySeq DEF IsSeq
<1>6. ASSUME NEW i \in 1..Len(s) PROVE (s \o t)[i] = s[i]
  BY <1>4, <1>5
<1>7. ASSUME NEW i \in 1..Len(t) PROVE (s \o t)[Len(s) + i] = t[i]
  <2>1. Len(s) + i \in 1..Len(s) + Len(t) /\ ~(Len(s) + i <= Len(s)) /\ (Len(s) + i) - Len(s) = i
    BY <1>5
  <2> QED BY <1>4, <2>1
<1> QED BY <1>4, <1>5, <1>6, <1>7

LEMMA SubIs ==
    ASSUME NEW s, IsSeq(s), NEW m \in Nat \ {0}, NEW n \in Nat, n <= Len(s), m <= n + 1
    PROVE  /\ IsSeq(SubSeq(s, m, n)) /\ Len(SubSeq(s, m, n)) = n - m + 1
           /\ \A i \in 1..n - m + 1 : SubSeq(s, m, n)[i] = s[m + i - 1] /\ m + i - 1 \in 1..Len(s)
<1>0. Len(s) \in Nat /\ DOMAIN s = 1..Len(s)
  BY SeqIs DEF IsSeq
<1>1. PICK S : s \in Seq(S)
  BY SeqIs
<1>2. \A i \in m..n : s[i] \in S
  BY <1>0, <1>1, ElementOfSeq
<1>3. /\ SubSeq(s, m, n) \in Seq(S) /\ Len(SubSeq(s, m, n)) = IF m <= n THEN n - m + 1 ELSE 0
      /\ \A i \in 1..n - m + 1 : SubSeq(s, m, n)[i] = s[m + i - 1]
  BY <1>2, SubSeqProperties
<1>4. IsSeq(SubSeq(s, m, n))
  BY <1>3, AnySeq
<1> QED BY <1>0, <1>3, <1>4

LEMMA TailIs ==
    ASSUME NEW s, IsSeq(s), s # <<>>
    PROVE  /\ Head(s) = s[1] /\ Len(s) \in Nat \ {0} /\ IsSeq(Tail(s)) /\ Len(Tail(s)) = Len(s) - 1
           /\ \A i \in 1..Len(s) - 1 : Tail(s)[i] = s[i + 1]
<1>1. PICK S : s \in Seq(S)
  BY SeqIs
<1>2. Len(s) \in Nat \ {0}
  BY NoneIs DEF IsSeq
<1>3. Tail(s) \in Seq(S) /\ Len(Tail(s)) = Len(s) - 1 /\ \A i \in 1..Len(Tail(s)) : Tail(s)[i] = s[i + 1]
  BY <1>1, HeadTailProperties
<1>4. Head(s) = s[1]
  BY <1>1, <1>2
<1>5. IsSeq(Tail(s))
  BY <1>3, AnySeq
<1> QED BY <1>2, <1>3, <1>4, <1>5

\* A message as markUserStatus leaves it.
Mark(m, t, status) == IF IsPrompt(m, t) THEN [m EXCEPT !.status = status] ELSE m

LEMMA MarkIs ==
    ASSUME NEW msgs, IsSeq(msgs), NEW t, NEW status
    PROVE  LET r == markUserStatus(msgs, t, status) IN
           IsSeq(r) /\ Len(r) = Len(msgs) /\ \A i \in 1..Len(msgs) : r[i] = Mark(msgs[i], t, status)
<1> DEFINE r == markUserStatus(msgs, t, status)
<1>1. DOMAIN msgs = 1..Len(msgs) /\ Len(msgs) \in Nat
  BY SeqIs DEF IsSeq
<1>2. r = [i \in 1..Len(msgs) |-> Mark(msgs[i], t, status)]
  BY <1>1 DEF markUserStatus, Mark
<1> HIDE DEF r
<1>3. DOMAIN r = 1..Len(msgs) /\ r = [i \in 1..Len(msgs) |-> r[i]]
  BY <1>2
<1>4. IsSeq(r) /\ Len(r) = Len(msgs)
  BY <1>1, <1>3, FunSeq
<1> QED BY <1>2, <1>4 DEF r

\* The list is cut at its beginning, and never loses its last message.
LEMMA KeptIs ==
    ASSUME NEW s, IsSeq(s)
    PROVE  /\ IsSeq(Kept(s))
           /\ \E off \in Nat : /\ off <= Len(s) /\ (Len(s) > 0 => off < Len(s)) /\ Len(Kept(s)) = Len(s) - off
                               /\ \A i \in 1..Len(Kept(s)) : i + off \in 1..Len(s) /\ Kept(s)[i] = s[i + off]
<1>0. Len(s) \in Nat /\ MaxMessages \in Nat \ {0}
  BY TurnsAssumption DEF IsSeq
<1>1. CASE Len(s) <= MaxMessages
  <2>1. Kept(s) = s
    BY <1>1 DEF Kept
  <2> QED BY <1>0, <2>1
<1>2. CASE ~(Len(s) <= MaxMessages)
  <2> DEFINE off == Len(s) - MaxMessages
  <2>1. Kept(s) = SubSeq(s, off + 1, Len(s))
    BY <1>2 DEF Kept
  <2>2. off \in Nat /\ off + 1 \in Nat \ {0} /\ off < Len(s) /\ off + 1 <= Len(s) + 1 /\ Len(s) <= Len(s)
        /\ Len(s) - (off + 1) + 1 = Len(s) - off
        /\ \A i \in 1..Len(s) - off : (off + 1) + i - 1 = i + off
    BY <1>0, <1>2
  <2> HIDE DEF off
  <2> DEFINE from == off + 1
             r == SubSeq(s, from, Len(s))
  <2>5. from \in Nat \ {0} /\ Len(s) \in Nat /\ Len(s) <= Len(s) /\ from <= Len(s) + 1
    BY <1>0, <2>2
  <2> HIDE DEF from
  <2>6. /\ IsSeq(r) /\ Len(r) = Len(s) - from + 1
        /\ \A i \in 1..Len(s) - from + 1 : r[i] = s[from + i - 1] /\ from + i - 1 \in 1..Len(s)
    BY <2>5, SubIs
  <2>3. /\ IsSeq(Kept(s)) /\ Len(Kept(s)) = Len(s) - (off + 1) + 1
        /\ \A i \in 1..Len(s) - (off + 1) + 1 : Kept(s)[i] = s[(off + 1) + i - 1] /\ (off + 1) + i - 1 \in 1..Len(s)
    BY <2>1, <2>6 DEF from
  <2>4. \A i \in 1..Len(Kept(s)) : i + off \in 1..Len(s) /\ Kept(s)[i] = s[i + off]
    BY <2>2, <2>3
  <2> QED BY <1>0, <2>2, <2>3, <2>4
<1> QED BY <1>1, <1>2

LEMMA InsertIs ==
    ASSUME NEW msgs, IsSeq(msgs), NEW t
    PROVE  LET r == insertAssistantMessage(msgs, t) IN
           /\ IsSeq(r)
           /\ \A i \in DOMAIN r : \/ r[i] \in {AnswerTo(t), Prompt(t, "sending")}
                                  \/ \E j \in DOMAIN msgs : r[i] = Mark(msgs[j], t, "sending")
<1> DEFINE at == {i \in DOMAIN msgs : IsPrompt(msgs[i], t)}
           marked == markUserStatus(msgs, t, "sending")
           From(r) == \A i \in DOMAIN r : \/ r[i] \in {AnswerTo(t), Prompt(t, "sending")}
                                          \/ \E j \in DOMAIN msgs : r[i] = Mark(msgs[j], t, "sending")
<1>0. DOMAIN msgs = 1..Len(msgs) /\ Len(msgs) \in Nat
  BY SeqIs DEF IsSeq
<1>1. ASSUME NEW s, IsSeq(s), From(s) PROVE IsSeq(Kept(s)) /\ From(Kept(s))
  <2>1. IsSeq(Kept(s)) /\ \A i \in 1..Len(Kept(s)) : \E j \in 1..Len(s) : Kept(s)[i] = s[j]
    BY <1>1, KeptIs
  <2>2. DOMAIN Kept(s) = 1..Len(Kept(s)) /\ DOMAIN s = 1..Len(s)
    BY <1>1, <2>1, SeqIs
  <2> QED BY <1>1, <2>1, <2>2
<1>2. ASSUME NEW a, IsSeq(a), From(a), NEW b, IsSeq(b), From(b) PROVE IsSeq(a \o b) /\ From(a \o b)
  <2>1. /\ IsSeq(a \o b) /\ Len(a \o b) = Len(a) + Len(b)
        /\ \A i \in 1..Len(a) : (a \o b)[i] = a[i]
        /\ \A i \in 1..Len(b) : (a \o b)[Len(a) + i] = b[i]
    BY <1>2, ConcatIs
  <2>2. DOMAIN a = 1..Len(a) /\ DOMAIN b = 1..Len(b) /\ DOMAIN (a \o b) = 1..Len(a \o b) /\ Len(a) \in Nat /\ Len(b) \in Nat
    BY <1>2, <2>1, SeqIs DEF IsSeq
  <2>3. ASSUME NEW i \in DOMAIN (a \o b)
        PROVE  (i \in DOMAIN a /\ (a \o b)[i] = a[i]) \/ (\E j \in DOMAIN b : (a \o b)[i] = b[j])
    <3>1. i \in 1..Len(a) + Len(b)
      BY <2>1, <2>2
    <3>2. CASE i <= Len(a)
      BY <2>1, <2>2, <3>1, <3>2
    <3>3. CASE ~(i <= Len(a))
      <4>1. i - Len(a) \in 1..Len(b) /\ Len(a) + (i - Len(a)) = i
        BY <2>2, <3>1, <3>3
      <4> QED BY <2>1, <2>2, <4>1
    <3> QED BY <3>2, <3>3
  <2> QED BY <1>2, <2>1, <2>3
<1>3. ASSUME NEW x \in {AnswerTo(t), Prompt(t, "sending")} PROVE IsSeq(<<x>>) /\ From(<<x>>)
  <2>1. <<x>> \in Seq({x}) /\ \A i \in DOMAIN <<x>> : <<x>>[i] = x
    OBVIOUS
  <2>2. IsSeq(<<x>>)
    BY <2>1, AnySeq
  <2>3. From(<<x>>)
    BY <1>3, <2>1
  <2> QED BY <2>2, <2>3
<1>4. CASE at = {}
  <2>1. insertAssistantMessage(msgs, t) = Kept(msgs \o <<Prompt(t, "sending"), AnswerTo(t)>>)
    BY <1>4 DEF insertAssistantMessage
  <2>2. From(msgs)
    BY <1>4 DEF Mark
  <2>3. IsSeq(<<Prompt(t, "sending"), AnswerTo(t)>>) /\ From(<<Prompt(t, "sending"), AnswerTo(t)>>)
    <3> DEFINE p == Prompt(t, "sending")
               q == AnswerTo(t)
    <3>1. p \in {q, p} /\ q \in {q, p}
      OBVIOUS
    <3> HIDE DEF p, q
    <3>2. <<p, q>> \in Seq({q, p}) /\ \A i \in DOMAIN <<p, q>> : <<p, q>>[i] \in {q, p}
      OBVIOUS
    <3> QED BY <3>2, AnySeq DEF p, q
  <2> HIDE DEF From
  <2>4. IsSeq(msgs \o <<Prompt(t, "sending"), AnswerTo(t)>>) /\ From(msgs \o <<Prompt(t, "sending"), AnswerTo(t)>>)
    BY <1>2, <2>2, <2>3
  <2>5. IsSeq(insertAssistantMessage(msgs, t)) /\ From(insertAssistantMessage(msgs, t))
    BY <1>1, <2>1, <2>4
  <2> QED BY <2>5 DEF From
<1>5. CASE at # {}
  <2> DEFINE k == CHOOSE i \in at : TRUE
             a == SubSeq(marked, 1, k)
             b == SubSeq(marked, k + 1, Len(marked))
             x == <<AnswerTo(t)>>
  <2>1. k \in 1..Len(msgs)
    BY <1>0, <1>5
  <2>2. insertAssistantMessage(msgs, t) = Kept(a \o x \o b)
    BY <1>5 DEF insertAssistantMessage
  <2> HIDE DEF k
  <2>3. IsSeq(marked) /\ Len(marked) = Len(msgs) /\ \A i \in 1..Len(msgs) : marked[i] = Mark(msgs[i], t, "sending")
    BY MarkIs
  <2> HIDE DEF marked
  <2>4. IsSeq(a) /\ From(a)
    <3>1. k \in Nat /\ k <= Len(marked) /\ 1 <= k + 1 /\ k - 1 + 1 = k /\ \A i \in 1..k : 1 + i - 1 = i
      BY <1>0, <2>1, <2>3
    <3>2. IsSeq(a) /\ Len(a) = k /\ \A i \in 1..k : a[i] = marked[i] /\ i \in 1..Len(marked)
      BY <2>3, <3>1, SubIs
    <3>3. DOMAIN a = 1..k
      BY <3>2, SeqIs
    <3> QED BY <1>0, <2>3, <3>2, <3>3
  <2>5. IsSeq(b) /\ From(b)
    <3>1. k + 1 \in Nat \ {0} /\ Len(marked) \in Nat /\ Len(marked) <= Len(marked) /\ k + 1 <= Len(marked) + 1
      BY <1>0, <2>1, <2>3
    <3>2. IsSeq(b) /\ \A i \in 1..Len(b) : b[i] = marked[(k + 1) + i - 1] /\ (k + 1) + i - 1 \in 1..Len(marked)
      BY <2>3, <3>1, SubIs
    <3>3. DOMAIN b = 1..Len(b)
      BY <3>2, SeqIs
    <3> QED BY <1>0, <2>3, <3>2, <3>3
  <2>6. IsSeq(x) /\ From(x)
    BY <1>3
  <2> HIDE DEF From, a, b, x
  <2>7. IsSeq(a \o x) /\ From(a \o x)
    BY <1>2, <2>4, <2>6
  <2>8. IsSeq(a \o x \o b) /\ From(a \o x \o b)
    BY <1>2, <2>5, <2>7
  <2>9. IsSeq(insertAssistantMessage(msgs, t)) /\ From(insertAssistantMessage(msgs, t))
    BY <1>1, <2>2, <2>8
  <2> QED BY <2>9 DEF From
<1> QED BY <1>4, <1>5

\* The history of a request is of what is listed and does not wait; of a prompt
\* that stands last, of what is above it.
LEMMA HistoryIs ==
    ASSUME NEW msgs, IsSeq(msgs), NEW t
    PROVE  LET h == buildApiMessages(msgs, t) IN
           \A k \in DOMAIN h :
              /\ k \in DOMAIN msgs /\ h[k] = msgs[k] /\ msgs[k].status # "queued"
              /\ (\A i \in DOMAIN msgs : IsPrompt(msgs[i], t) <=> i = Len(msgs)) /\ Len(msgs) > 0 => k < Len(msgs)
<1> DEFINE at == {i \in DOMAIN msgs : IsPrompt(msgs[i], t)}
           above == IF at = {} THEN DOMAIN msgs ELSE 1..(CHOOSE i \in at : TRUE) - 1
           told(m) == m.status # "queued" /\ (m.role = "user" \/ m.content # <<>>)
           h == buildApiMessages(msgs, t)
<1>0. DOMAIN msgs = 1..Len(msgs) /\ Len(msgs) \in Nat
  BY SeqIs DEF IsSeq
<1>1. h = [i \in {i \in above : told(msgs[i])} |-> msgs[i]]
  BY DEF buildApiMessages
<1>2. ASSUME NEW k \in above
      PROVE  k \in DOMAIN msgs /\ ((\A i \in DOMAIN msgs : IsPrompt(msgs[i], t) <=> i = Len(msgs)) /\ Len(msgs) > 0 => k < Len(msgs))
  <2>1. CASE at = {}
    BY <1>0, <2>1
  <2>2. CASE at # {}
    <3> DEFINE c == CHOOSE i \in at : TRUE
    <3>1. c \in at /\ k \in 1..c - 1
      BY <2>2
    <3> HIDE DEF c
    <3> QED BY <1>0, <3>1
  <2> QED BY <2>1, <2>2
<1> HIDE DEF above
<1> QED BY <1>1, <1>2

LEMMA FirstCall == ASSUME NEW cs, DOMAIN cs = {}, NEW t PROVE OneCall(Plus(cs, Call("chat", t)), t)
<1> DEFINE c == Call("chat", t)
           ds == Plus(cs, c)
<1>1. 1 \in Free(cs)
  BY BoundsAssumption DEF Free
<1>2. \E n \in DOMAIN ds : ds[n] = c
  BY <1>1, PlusKeeps
<1>3. (\A m, n \in DOMAIN ds : m = n) /\ \A n \in DOMAIN ds : ds[n] = c
  BY PlusCalls
<1>4. c.op = "chat" /\ c.arg = t
  BY CallSent
<1> HIDE DEF c, ds
<1>5. OneCall(ds, t)
  BY <1>2, <1>3, <1>4 DEF OneCall
<1> QED BY <1>5 DEF ds, c

LEMMA NothingCame == ASSUME NEW t, NEW d, d[t] = 0 PROVE <<>> \o <<>> = Came(t, d) /\ IsSeq(<<>>)
<1> DEFINE s == Came(t, d)
           n == d[t]
<1>1. DOMAIN s = 1..n /\ s = [i \in 1..n |-> s[i]] /\ n \in Nat
  BY DEF Came
<1> HIDE DEF s
<1>2. IsSeq(s) /\ Len(s) = n
  <2> HIDE DEF n
  <2> QED BY <1>1, FunSeq
<1>3. s = <<>> /\ IsSeq(<<>>)
  BY <1>2, NoneIs
<1>4. <<>> \o <<>> = <<>>
  BY <1>3, ConcatIs, NoneIs
<1> QED BY <1>3, <1>4 DEF s

\* No turn is none.
LEMMA NotNone == ASSUME NEW n \in 0..Prompts, NEW t \in 1..n PROVE t # None /\ t \in Turns /\ t \in Nat
BY TurnsAssumption DEF Turns

LEMMA TailQueue ==
    ASSUME NEW queue, NEW typed \in Nat, NEW asked, QueueOk(queue, typed, asked), queue # <<>>
    PROVE  /\ DOMAIN queue = 1..Len(queue) /\ Len(queue) \in Nat \ {0} /\ Head(queue) = queue[1]
           /\ QueueOk(Tail(queue), typed, asked) /\ Before(queue[1].turn, Tail(queue))
           /\ DOMAIN Tail(queue) = 1..Len(queue) - 1
           /\ \A k \in DOMAIN Tail(queue) : Tail(queue)[k] = queue[k + 1] /\ k + 1 \in DOMAIN queue /\ k + 1 # 1
<1>0. IsSeq(queue)
  BY DEF QueueOk
<1>1. /\ DOMAIN queue = 1..Len(queue) /\ Head(queue) = queue[1] /\ Len(queue) \in Nat \ {0}
      /\ IsSeq(Tail(queue)) /\ Len(Tail(queue)) = Len(queue) - 1
      /\ \A k \in 1..Len(queue) - 1 : Tail(queue)[k] = queue[k + 1]
  BY <1>0, SeqIs, TailIs
<1>2. DOMAIN Tail(queue) = 1..Len(queue) - 1
  BY <1>1, SeqIs
<1>3. \A k \in DOMAIN Tail(queue) : Tail(queue)[k] = queue[k + 1] /\ k + 1 \in DOMAIN queue /\ k + 1 # 1
  BY <1>1, <1>2
<1>4. Before(queue[1].turn, Tail(queue))
  <2> SUFFICES ASSUME NEW k \in DOMAIN Tail(queue) PROVE queue[1].turn < Tail(queue)[k].turn
    BY DEF Before
  <2>1. 1 \in DOMAIN queue /\ k + 1 \in DOMAIN queue /\ 1 < k + 1
    BY <1>1, <1>2
  <2> QED BY <1>3, <2>1 DEF QueueOk
<1>5. QueueOk(Tail(queue), typed, asked)
  <2>1. \A k \in DOMAIN Tail(queue) : Tail(queue)[k].turn \in 1..typed /\ Tail(queue)[k].with = asked[Tail(queue)[k].turn]
    BY <1>3 DEF QueueOk
  <2>2. ASSUME NEW j \in DOMAIN Tail(queue), NEW k \in DOMAIN Tail(queue), j < k
        PROVE  Tail(queue)[j].turn < Tail(queue)[k].turn
    <3>1. j + 1 < k + 1
      BY <1>1, <1>2, <2>2
    <3> QED BY <1>3, <3>1 DEF QueueOk
  <2> QED BY <1>1, <2>1, <2>2 DEF QueueOk
<1> QED BY <1>1, <1>2, <1>3, <1>4, <1>5

LEMMA NextSent ==
    ASSUME NEW sent, NEW typed \in 0..Prompts, NEW asked, NEW d, SentOk(sent, typed, asked, d),
           NEW t \in 1..typed, \A i \in DOMAIN sent : sent[i].turn < t, NEW history, Past(history, t, d)
    PROVE  LET r == Append(sent, [turn |-> t, with |-> asked[t], history |-> history]) IN
           SentOk(r, typed, asked, d) /\ LastSent(r, t)
<1> DEFINE x == [turn |-> t, with |-> asked[t], history |-> history]
           r == Append(sent, x)
           n == Len(sent)
<1>1. x.turn = t /\ x.with = asked[t] /\ x.history = history
  OBVIOUS
<1> HIDE DEF x
<1>2. IsSeq(sent) /\ DOMAIN sent = 1..n /\ n \in Nat
  BY SeqIs DEF SentOk, IsSeq
<1>3. IsSeq(r) /\ Len(r) = n + 1 /\ (\A i \in 1..n : r[i] = sent[i]) /\ r[n + 1] = x
  BY <1>2, AppendIs
<1>4. DOMAIN r = 1..n + 1
  BY <1>3, SeqIs
<1> HIDE DEF r, n
<1>5. \A i \in DOMAIN r : (i \in DOMAIN sent /\ r[i] = sent[i]) \/ (i = n + 1 /\ r[i] = x)
  BY <1>2, <1>3, <1>4
<1>6. t \in Nat /\ \A i \in DOMAIN sent : sent[i].turn \in Nat
  BY DEF SentOk
<1>7. \A i, j \in DOMAIN r : i < j => r[i].turn < r[j].turn
  <2> SUFFICES ASSUME NEW i \in DOMAIN r, NEW j \in DOMAIN r, i < j PROVE r[i].turn < r[j].turn
    OBVIOUS
  <2>1. i \in DOMAIN sent /\ r[i] = sent[i]
    BY <1>2, <1>4, <1>5
  <2> QED BY <1>1, <1>5, <2>1 DEF SentOk
<1>8. \A u \in Turns : d[u] # 0 => \E i \in DOMAIN r : r[i].turn = u
  BY <1>2, <1>3, <1>4 DEF SentOk
<1>9. \A i \in DOMAIN r : r[i].turn \in 1..typed /\ r[i].with = asked[r[i].turn] /\ Past(r[i].history, r[i].turn, d)
  BY <1>1, <1>5 DEF SentOk
<1>10. n + 1 \in DOMAIN r /\ r[n + 1].turn = t
  BY <1>1, <1>2, <1>3, <1>4
<1>11. \A i \in DOMAIN r : r[i].turn <= t
  BY <1>1, <1>5, <1>6
<1>12. SentOk(r, typed, asked, d)
  BY <1>3, <1>7, <1>8, <1>9 DEF SentOk
<1> QED BY <1>10, <1>11, <1>12 DEF LastSent, r, x

\* The messages when turn t has started: its prompt is marked, its answer empty.
LEMMA StartMessages ==
    ASSUME NEW l, NEW d, Between(l, d), l.queue # <<>>
    PROVE  LET t == l.queue[1].turn IN
           MessagesOk(insertAssistantMessage(l.msgs, t), l.typed, t, <<>>, Tail(l.queue), d)
<1> DEFINE t == l.queue[1].turn
           r == insertAssistantMessage(l.msgs, t)
           q == Tail(l.queue)
<1>0. /\ l.typed \in 0..Prompts /\ QueueOk(l.queue, l.typed, l.asked) /\ SentOk(l.sent, l.typed, l.asked, d) /\ IsSeq(l.msgs)
      /\ \A i \in DOMAIN l.sent : Before(l.sent[i].turn, l.queue)
  BY DEF Between, ChatBase, IsChat
<1>1. /\ 1 \in DOMAIN l.queue /\ Before(t, q)
      /\ \A k \in DOMAIN q : q[k] = l.queue[k + 1] /\ k + 1 \in DOMAIN l.queue /\ k + 1 # 1
      /\ \A k \in DOMAIN l.queue : k # 1 => k - 1 \in DOMAIN q /\ q[k - 1] = l.queue[k]
  BY <1>0, TailQueue
<1>2. t \in 1..l.typed /\ t \in Turns /\ t \in Nat
  BY <1>0, <1>1, NotNone DEF QueueOk
<1>3. d[t] = 0
  <2>1. \A i \in DOMAIN l.sent : l.sent[i].turn # t
    BY <1>0, <1>1, <1>2 DEF Before, SentOk
  <2> QED BY <1>0, <1>2, <2>1 DEF SentOk
<1>4. IsSeq(r) /\ \A i \in DOMAIN r : \/ r[i] \in {AnswerTo(t), Prompt(t, "sending")}
                                      \/ \E j \in DOMAIN l.msgs : r[i] = Mark(l.msgs[j], t, "sending")
  BY <1>0, InsertIs
<1> HIDE DEF r, q
<1> DEFINE Ok(m) == /\ IsMessage(m, l.typed)
                    /\ m.role = "assistant" => AnswerOk(m, t, <<>>, q, d)
                    /\ m.role = "user" => PromptOk(m, t, q)
<1>5. Ok(AnswerTo(t))
  <2> DEFINE m == AnswerTo(t)
  <2>1. /\ m = [of |-> m.of, role |-> m.role, status |-> m.status, content |-> m.content]
        /\ m.of = t /\ m.role = "assistant" /\ m.content = <<>>
    BY DEF AnswerTo
  <2> HIDE DEF m, t
  <2> QED BY <1>1, <1>2, <1>3, <2>1, NothingCame DEF IsMessage, AnswerOk, m
<1>6. ASSUME NEW m, m = [of |-> m.of, role |-> m.role, status |-> m.status, content |-> m.content],
             m.of = t, m.role = "user", m.status = "sending"
      PROVE  Ok(m)
  <2> HIDE DEF t
  <2> QED BY <1>1, <1>2, <1>6 DEF IsMessage, PromptOk
<1>7. Ok(Prompt(t, "sending"))
  <2> DEFINE m == Prompt(t, "sending")
  <2>1. /\ m = [of |-> m.of, role |-> m.role, status |-> m.status, content |-> m.content]
        /\ m.of = t /\ m.role = "user" /\ m.status = "sending"
    BY DEF Prompt
  <2> HIDE DEF m, t, Ok
  <2> QED BY <1>6, <2>1 DEF m
<1>8. ASSUME NEW j \in DOMAIN l.msgs PROVE Ok(Mark(l.msgs[j], t, "sending"))
  <2> DEFINE m == l.msgs[j]
  <2>1. /\ IsMessage(m, l.typed)
        /\ m.role = "assistant" => Before(m.of, l.queue) /\ Finished(m, d)
        /\ m.role = "user" => IF m.status = "queued" THEN \E k \in DOMAIN l.queue : l.queue[k].turn = m.of
                              ELSE \A k \in DOMAIN l.queue : k # 1 => m.of < l.queue[k].turn
    BY DEF Between
  <2> HIDE DEF m
  <2>2. CASE IsPrompt(m, t)
    <3> DEFINE e == Mark(m, t, "sending")
    <3>1. m = [of |-> m.of, role |-> m.role, status |-> m.status, content |-> m.content] /\ m.of = t /\ m.role = "user"
      BY <2>1, <2>2 DEF IsMessage, IsPrompt
    <3>2. e = [of |-> m.of, role |-> m.role, status |-> "sending", content |-> m.content]
      BY <2>2, <3>1 DEF Mark
    <3> HIDE DEF e
    <3>3. e = [of |-> e.of, role |-> e.role, status |-> e.status, content |-> e.content]
          /\ e.of = t /\ e.role = "user" /\ e.status = "sending"
      BY <3>1, <3>2
    <3> HIDE DEF Ok, t
    <3> QED BY <1>6, <3>3 DEF e, m
  <2>3. CASE ~IsPrompt(m, t)
    <3>1. Mark(m, t, "sending") = m
      BY <2>3 DEF Mark
    <3>2. m.of \in 1..l.typed /\ m.of \in Nat
      BY <1>0, <2>1, NotNone DEF IsMessage
    <3>3. m.role = "assistant" => m.of # t
      BY <1>1, <1>2, <2>1, <3>2 DEF Before
    <3>4. m.role = "assistant" => Before(m.of, q)
      BY <1>1, <2>1 DEF Before
    <3>5. m.role = "user" => m.of # t
      BY <2>3 DEF IsPrompt
    <3>6. m.role = "user" => IF m.status = "queued" THEN \E k \in DOMAIN q : q[k].turn = m.of ELSE Before(m.of, q)
      BY <1>1, <2>1, <3>5 DEF Before
    <3> QED BY <2>1, <3>1, <3>3, <3>4, <3>5, <3>6 DEF AnswerOk, PromptOk, m
  <2> QED BY <2>2, <2>3
<1> HIDE DEF Ok
<1>9. \A i \in DOMAIN r : Ok(r[i])
  BY <1>4, <1>5, <1>7, <1>8
<1>10. MessagesOk(r, l.typed, t, <<>>, q, d)
  BY <1>4, <1>9 DEF MessagesOk, Ok
<1> QED BY <1>10 DEF r, q

\* processQueue, when nothing streams: the next turn starts, if one waits.
LEMMA TurnStarts ==
    ASSUME NEW l, NEW d, Between(l, d), NEW cs, DOMAIN cs = {}
    PROVE  ChatOk(processQueue(l, cs).l, processQueue(l, cs).cs, d)
<1>3. l.typed \in Nat
  BY TurnsAssumption DEF Between, ChatBase, IsChat
<1>0. /\ IsChat(l) /\ d \in [Turns -> Nat] /\ IsSeq(l.buffer) /\ l.typed \in 0..Prompts
      /\ QueueOk(l.queue, l.typed, l.asked) /\ SentOk(l.sent, l.typed, l.asked, d) /\ LogsOk(l.logs, l.typed)
      /\ l.running = None /\ l.buffer = <<>> /\ l.frame = None
  BY DEF Between, ChatBase, IsChat, Rests
<1>1. CASE l.queue = <<>>
  <2>1. processQueue(l, cs).l = l /\ processQueue(l, cs).cs = cs
    BY <1>1 DEF processQueue
  <2>2. ASSUME NEW t PROVE Before(t, l.queue) /\ ~\E k \in DOMAIN l.queue : l.queue[k].turn = t
    BY <1>1 DEF Before
  <2>3. MessagesOk(l.msgs, l.typed, l.running, l.buffer, l.queue, d)
    <3>1. ASSUME NEW i \in DOMAIN l.msgs
          PROVE  /\ IsMessage(l.msgs[i], l.typed)
                 /\ l.msgs[i].role = "assistant" => AnswerOk(l.msgs[i], l.running, l.buffer, l.queue, d)
                 /\ l.msgs[i].role = "user" => PromptOk(l.msgs[i], l.running, l.queue)
      <4> DEFINE m == l.msgs[i]
      <4>1. /\ IsMessage(m, l.typed)
            /\ m.role = "assistant" => Before(m.of, l.queue) /\ Finished(m, d)
            /\ m.role = "user" => IF m.status = "queued" THEN \E k \in DOMAIN l.queue : l.queue[k].turn = m.of
                                  ELSE \A k \in DOMAIN l.queue : k # 1 => m.of < l.queue[k].turn
        BY DEF Between
      <4> HIDE DEF m
      <4>2. m.of # l.running
        BY <1>0, <4>1, NotNone DEF IsMessage
      <4> QED BY <2>2, <4>1, <4>2 DEF AnswerOk, PromptOk, m
    <3> QED BY <3>1 DEF MessagesOk, Between
  <2> QED BY <1>0, <1>1, <2>1, <2>3 DEF ChatOk, ChatBase, Rests
<1>2. CASE l.queue # <<>>
  <2> DEFINE t == l.queue[1].turn
             h == buildApiMessages(l.msgs, t)
             new == [turn |-> t, with |-> l.asked[t], history |-> h]
             msgs == insertAssistantMessage(l.msgs, t)
             sent == Append(l.sent, new)
             q == Tail(l.queue)
             ds == Plus(cs, Call("chat", t))
             e == [l EXCEPT !.queue = q, !.running = t, !.msgs = msgs, !.sent = sent]
  <2>1. /\ DOMAIN l.queue = 1..Len(l.queue) /\ Len(l.queue) \in Nat \ {0} /\ Head(l.queue) = l.queue[1]
        /\ QueueOk(q, l.typed, l.asked) /\ Before(t, q)
    <3> DEFINE v == l.queue
               n == l.typed
               a == l.asked
    <3>1. QueueOk(v, n, a) /\ v # <<>> /\ n \in Nat
      BY <1>3, <1>0, <1>2
    <3> HIDE DEF v, n, a
    <3>2. /\ DOMAIN v = 1..Len(v) /\ Len(v) \in Nat \ {0} /\ Head(v) = v[1]
          /\ QueueOk(Tail(v), n, a) /\ Before(v[1].turn, Tail(v))
      BY <3>1, TailQueue
    <3> QED BY <3>2 DEF v, n, a
  <2>2. 1 \in DOMAIN l.queue /\ t \in 1..l.typed /\ l.queue[1].with = l.asked[t]
    BY <1>0, <2>1 DEF QueueOk
  <2>3. t # None /\ t \in Turns /\ t \in Nat
    BY <1>0, <2>2, NotNone
  <2>4. processQueue(l, cs).l = e /\ processQueue(l, cs).cs = ds
    <3>1. Head(l.queue).turn = t /\ Head(l.queue).with = l.asked[t]
      BY <2>1, <2>2
    <3> HIDE DEF t, ds
    <3>2. processQueue(l, cs) = [l |-> [l EXCEPT !.queue = q, !.running = t, !.msgs = msgs, !.sent = sent],
                                 cs |-> Plus(cs, Call("chat", t))]
      BY <1>0, <1>2, <3>1 DEF processQueue
    <3> HIDE DEF q, msgs, sent
    <3> QED BY <3>2 DEF ds
  <2>5. /\ \A i \in DOMAIN l.sent : l.sent[i].turn < t
        /\ \A i \in DOMAIN l.logs : l.logs[i].turn < t
        /\ Past(h, t, d)
    BY <1>2, <2>2 DEF Between, Before
  <2>6. MessagesOk(msgs, l.typed, t, l.buffer, q, d)
    BY <1>0, <1>2, StartMessages
  <2> HIDE DEF t, h, msgs, q
  <2>7. SentOk(sent, l.typed, l.asked, d) /\ LastSent(sent, t)
    BY <1>0, <2>2, <2>5, NextSent
  <2>8. OneCall(ds, t)
    BY FirstCall
  <2> HIDE DEF sent, ds
  <2>9. /\ IsChat(e) /\ e.queue = q /\ e.running = t /\ e.msgs = msgs /\ e.sent = sent
        /\ e.typed = l.typed /\ e.asked = l.asked /\ e.logs = l.logs /\ e.buffer = l.buffer /\ e.frame = l.frame
    BY <1>0 DEF IsChat, ChatFields
  <2> HIDE DEF e
  <2>11. ChatBase(e, d)
    BY <1>0, <2>1, <2>7, <2>9 DEF ChatBase
  <2>12. TurnRuns(e, ds)
    BY <1>0, <2>1, <2>2, <2>5, <2>7, <2>8, <2>9 DEF TurnRuns
  <2> QED BY <2>3, <2>4, <2>6, <2>9, <2>11, <2>12 DEF ChatOk
<1> QED BY <1>1, <1>2

LEMMA SeqSame == ASSUME NEW a, IsSeq(a), NEW b, IsSeq(b), Len(a) = Len(b), \A i \in 1..Len(a) : a[i] = b[i] PROVE a = b
<1>1. a = [i \in 1..Len(a) |-> a[i]] /\ b = [i \in 1..Len(a) |-> b[i]]
  BY DEF IsSeq
<1> QED BY <1>1

\* An empty queue or list of messages, and what is made of a list one by one.
LEMMA MapSeq ==
    ASSUME NEW s, IsSeq(s), NEW r, DOMAIN r = DOMAIN s, r = [i \in DOMAIN s |-> r[i]]
    PROVE  IsSeq(r) /\ Len(r) = Len(s)
<1>1. DOMAIN s = 1..Len(s) /\ Len(s) \in Nat
  BY SeqIs DEF IsSeq
<1> QED BY <1>1, FunSeq

LEMMA CameIs ==
    ASSUME NEW t, NEW d, d[t] \in Nat
    PROVE  IsSeq(Came(t, d)) /\ Len(Came(t, d)) = d[t] /\ \A k \in 1..d[t] : Came(t, d)[k] = <<t, k>>
<1> DEFINE s == Came(t, d)
           n == d[t]
<1>1. DOMAIN s = 1..n /\ s = [i \in 1..n |-> s[i]] /\ n \in Nat /\ \A k \in 1..n : s[k] = <<t, k>>
  BY DEF Came
<1> HIDE DEF s
<1>2. IsSeq(s) /\ Len(s) = n
  <2> HIDE DEF n
  <2> QED BY <1>1, FunSeq
<1> QED BY <1>1, <1>2 DEF s

LEMMA FailureIs == IsSeq(Failure)
<1>1. <<"failure">> \in Seq({"failure"})
  OBVIOUS
<1> QED BY <1>1, AnySeq DEF Failure

\* What arrives is appended to what came.
LEMMA PieceCame ==
    ASSUME NEW t \in Turns, NEW d \in [Turns -> Nat], NEW content, IsSeq(content), NEW buffer, IsSeq(buffer),
           content \o buffer = Came(t, d)
    PROVE  content \o Append(buffer, <<t, d[t] + 1>>) = Came(t, [d EXCEPT ![t] = @ + 1])
<1> DEFINE x == <<t, d[t] + 1>>
           b == Append(buffer, x)
           e == [d EXCEPT ![t] = @ + 1]
           n == d[t]
<1>1. n \in Nat /\ e[t] = n + 1
  OBVIOUS
<1>2. IsSeq(Came(t, d)) /\ Len(Came(t, d)) = n /\ \A k \in 1..n : Came(t, d)[k] = <<t, k>>
  BY <1>1, CameIs
<1> HIDE DEF e
<1>10. e[t] \in Nat
  BY <1>1
<1>11. IsSeq(Came(t, e)) /\ Len(Came(t, e)) = e[t] /\ \A k \in 1..e[t] : Came(t, e)[k] = <<t, k>>
  BY <1>10, CameIs
<1>3. IsSeq(Came(t, e)) /\ Len(Came(t, e)) = n + 1 /\ \A k \in 1..n + 1 : Came(t, e)[k] = <<t, k>>
  BY <1>1, <1>11
<1>4. /\ IsSeq(b) /\ Len(b) = Len(buffer) + 1
      /\ \A i \in 1..Len(buffer) : b[i] = buffer[i]
      /\ b[Len(buffer) + 1] = x
  BY AppendIs
<1>5. /\ Len(content) \in Nat /\ Len(buffer) \in Nat
      /\ IsSeq(content \o buffer) /\ Len(content \o buffer) = Len(content) + Len(buffer)
      /\ \A i \in 1..Len(content) : (content \o buffer)[i] = content[i]
      /\ \A i \in 1..Len(buffer) : (content \o buffer)[Len(content) + i] = buffer[i]
  BY ConcatIs DEF IsSeq
<1> HIDE DEF b
<1>6. /\ IsSeq(content \o b) /\ Len(content \o b) = Len(content) + Len(b)
      /\ \A i \in 1..Len(content) : (content \o b)[i] = content[i]
      /\ \A i \in 1..Len(b) : (content \o b)[Len(content) + i] = b[i]
  <2>1. IsSeq(b) /\ IsSeq(content)
    BY <1>4
  <2> QED BY ONLY <2>1, ConcatIs
<1>7. n = Len(content) + Len(buffer) /\ Len(content \o b) = n + 1
  BY <1>2, <1>4, <1>5, <1>6
<1>8. ASSUME NEW i \in 1..n + 1 PROVE (content \o b)[i] = <<t, i>>
  <2>1. CASE i <= Len(content)
    <3>1. i \in 1..Len(content) /\ i \in 1..n
      BY <1>5, <1>7, <2>1
    <3> QED BY <1>2, <1>5, <1>6, <3>1
  <2>2. CASE ~(i <= Len(content)) /\ i <= n
    <3> DEFINE k == i - Len(content)
    <3>1. k \in 1..Len(buffer) /\ k \in 1..Len(b) /\ Len(content) + k = i /\ i \in 1..n
      BY <1>4, <1>5, <1>7, <2>2
    <3> HIDE DEF k
    <3>2. (content \o b)[i] = b[k] /\ b[k] = buffer[k]
      BY <1>4, <1>6, <3>1
    <3>3. (content \o buffer)[i] = buffer[k]
      BY <1>5, <3>1
    <3> QED BY <1>2, <3>1, <3>2, <3>3
  <2>3. CASE i = n + 1
    <3> DEFINE k == Len(buffer) + 1
    <3>1. k \in 1..Len(b) /\ Len(content) + k = i
      BY <1>4, <1>5, <1>7, <2>3
    <3>2. (content \o b)[i] = b[k]
      BY <1>6, <3>1
    <3> QED BY <1>4, <2>3, <3>2
  <2>4. i <= Len(content) \/ (~(i <= Len(content)) /\ i <= n) \/ i = n + 1
    BY <1>1, <1>5
  <2> QED BY <2>1, <2>2, <2>3, <2>4
<1> HIDE DEF x
<1>9. content \o b = Came(t, e)
  <2> DEFINE r == content \o b
             v == Came(t, e)
  <2>1. IsSeq(r) /\ IsSeq(v) /\ Len(r) = Len(v) /\ Len(r) = n + 1
    BY <1>3, <1>6, <1>7
  <2>2. \A i \in 1..n + 1 : r[i] = v[i]
    BY <1>3, <1>8
  <2> HIDE DEF r, v
  <2>3. r = v
    BY <2>1, <2>2, SeqSame
  <2> QED BY <2>3 DEF r, v
<1> QED BY <1>9 DEF b, e, x

LEMMA NothingMore == ASSUME NEW s, IsSeq(s) PROVE s \o <<>> = s
<1>1. IsSeq(<<>>) /\ Len(<<>>) = 0
  BY NoneIs
<1>2. /\ IsSeq(s \o <<>>) /\ Len(s \o <<>>) = Len(s) + Len(<<>>)
      /\ \A i \in 1..Len(s) : (s \o <<>>)[i] = s[i]
  BY <1>1, ConcatIs
<1>3. Len(s \o <<>>) = Len(s)
  BY <1>1, <1>2 DEF IsSeq
<1> QED BY <1>2, <1>3, SeqSame

\* What the screen's other parts change bears on none of this.
LEMMA BaseStays ==
    ASSUME NEW l, NEW d, ChatBase(l, d), NEW e, IsChat(e), IsSeq(e.buffer),
           e.queue = l.queue, e.typed = l.typed, e.asked = l.asked, e.sent = l.sent, e.logs = l.logs
    PROVE  ChatBase(e, d)
BY DEF ChatBase

LEMMA ChatStays ==
    ASSUME NEW l, NEW cs, NEW d, ChatOk(l, cs, d), NEW e, IsChat(e), e.buffer = l.buffer, e.frame = l.frame,
           e.running = l.running, e.msgs = l.msgs,
           e.queue = l.queue, e.typed = l.typed, e.asked = l.asked, e.sent = l.sent, e.logs = l.logs
    PROVE  ChatOk(e, cs, d)
<1>1. ChatBase(e, d)
  BY BaseStays DEF ChatOk, ChatBase
<1> QED BY <1>1 DEF ChatOk, Rests, TurnRuns

LEMMA LoggedIs ==
    ASSUME NEW logs, NEW typed \in 0..Prompts, LogsOk(logs, typed), NEW t \in 1..typed, \A i \in DOMAIN logs : logs[i].turn < t,
           NEW ok
    PROVE  LET r == <<[turn |-> t, ok |-> ok]>> \o logs IN
           LogsOk(r, typed) /\ \A i \in DOMAIN r : r[i].turn <= t
<1> DEFINE x == [turn |-> t, ok |-> ok]
           one == <<x>>
           r == one \o logs
<1>1. x.turn = t
  OBVIOUS
<1> HIDE DEF x
<1>2. one \in Seq({x}) /\ Len(one) = 1 /\ one[1] = x
  OBVIOUS
<1> HIDE DEF one
<1>3. IsSeq(one) /\ IsSeq(logs) /\ Len(logs) \in Nat /\ DOMAIN logs = 1..Len(logs)
  BY <1>2, AnySeq, SeqIs DEF LogsOk, IsSeq
<1>12. /\ IsSeq(r) /\ Len(r) = Len(one) + Len(logs)
       /\ \A i \in 1..Len(one) : r[i] = one[i]
       /\ \A i \in 1..Len(logs) : r[Len(one) + i] = logs[i]
  <2>1. IsSeq(one) /\ IsSeq(logs)
    BY <1>3
  <2> QED BY ONLY <2>1, ConcatIs
<1> HIDE DEF r
<1>4. /\ IsSeq(r) /\ Len(r) = 1 + Len(logs) /\ DOMAIN r = 1..Len(r)
      /\ \A i \in 1..1 : r[i] = one[i]
      /\ \A i \in 1..Len(logs) : r[1 + i] = logs[i]
  BY <1>2, <1>12, SeqIs
<1>5. 1 \in 1..1 /\ r[1] = x
  BY <1>2, <1>4
<1>6. ASSUME NEW i \in DOMAIN r PROVE i = 1 \/ (i - 1 \in DOMAIN logs /\ r[i] = logs[i - 1])
  <2>1. i = 1 \/ (i - 1 \in 1..Len(logs) /\ 1 + (i - 1) = i)
    BY <1>3, <1>4
  <2> QED BY <1>3, <1>4, <2>1
<1>7. \A i \in DOMAIN logs : logs[i].turn \in 1..typed /\ logs[i].turn \in Nat
  BY DEF LogsOk
<1>8. t \in Nat
  OBVIOUS
<1>9. \A i \in DOMAIN r : r[i].turn \in 1..typed /\ r[i].turn <= t
  BY <1>1, <1>5, <1>6, <1>7, <1>8
<1>10. ASSUME NEW i \in DOMAIN r, NEW j \in DOMAIN r, i < j PROVE r[i].turn > r[j].turn
  <2>1. j # 1 /\ i \in Nat /\ j \in Nat
    BY <1>3, <1>4, <1>10
  <2>2. j - 1 \in DOMAIN logs /\ r[j] = logs[j - 1]
    BY <1>6, <2>1
  <2>3. CASE i = 1
    BY <1>1, <1>5, <1>7, <1>8, <2>2, <2>3
  <2>4. CASE i # 1
    <3>1. i - 1 \in DOMAIN logs /\ r[i] = logs[i - 1] /\ i - 1 < j - 1
      BY <1>6, <1>10, <2>1, <2>4
    <3> QED BY <2>2, <3>1 DEF LogsOk
  <2> QED BY <2>3, <2>4
<1>11. LogsOk(r, typed)
  BY <1>4, <1>9, <1>10 DEF LogsOk
<1> QED BY <1>9, <1>11 DEF r, one, x

\* When nothing streams, what waits is next.
LEMMA RestsBetween ==
    ASSUME NEW l, NEW d, ChatBase(l, d), Rests(l),
           \A i \in DOMAIN l.sent : Before(l.sent[i].turn, l.queue),
           \A i \in DOMAIN l.logs : Before(l.logs[i].turn, l.queue),
           MessagesOk(l.msgs, l.typed, None, <<>>, l.queue, d)
    PROVE  Between(l, d)
<1>1. l.typed \in 0..Prompts /\ IsSeq(l.queue) /\ IsSeq(l.msgs)
  BY DEF ChatBase, IsChat, QueueOk, MessagesOk
<1>2. ASSUME NEW i \in DOMAIN l.msgs
      PROVE  LET m == l.msgs[i] IN
             /\ IsMessage(m, l.typed) /\ m.of \in Turns
             /\ m.role = "assistant" => Before(m.of, l.queue) /\ Finished(m, d)
             /\ m.role = "user" => IF m.status = "queued" THEN \E k \in DOMAIN l.queue : l.queue[k].turn = m.of
                                   ELSE Before(m.of, l.queue)
  <2> DEFINE m == l.msgs[i]
  <2>1. /\ IsMessage(m, l.typed)
        /\ m.role = "assistant" => AnswerOk(m, None, <<>>, l.queue, d)
        /\ m.role = "user" => PromptOk(m, None, l.queue)
    BY DEF MessagesOk
  <2> HIDE DEF m
  <2>2. m.of # None /\ m.of \in Turns
    BY <1>1, <2>1, NotNone DEF IsMessage
  <2> QED BY <2>1, <2>2 DEF AnswerOk, PromptOk, m
<1>3. ASSUME l.queue # <<>> PROVE Past(buildApiMessages(l.msgs, l.queue[1].turn), l.queue[1].turn, d)
  <2> DEFINE t == l.queue[1].turn
             h == buildApiMessages(l.msgs, t)
  <2>1. 1 \in DOMAIN l.queue
    BY <1>1, <1>3, SeqIs, TailIs
  <2>2. \A k \in DOMAIN h : k \in DOMAIN l.msgs /\ h[k] = l.msgs[k] /\ l.msgs[k].status # "queued"
    BY <1>1, HistoryIs
  <2> HIDE DEF h
  <2> SUFFICES ASSUME NEW k \in DOMAIN h
               PROVE  h[k].of \in Turns /\ h[k].of < t /\ (h[k].role = "assistant" => Finished(h[k], d))
    BY DEF Past, h
  <2> DEFINE m == l.msgs[k]
  <2>3. /\ h[k] = m /\ m.status # "queued"
        /\ IsMessage(m, l.typed) /\ m.of \in Turns
        /\ m.role = "assistant" => Before(m.of, l.queue) /\ Finished(m, d)
        /\ m.role = "user" => IF m.status = "queued" THEN \E j \in DOMAIN l.queue : l.queue[j].turn = m.of
                              ELSE Before(m.of, l.queue)
    BY <1>2, <2>2
  <2> HIDE DEF m
  <2>4. Before(m.of, l.queue)
    BY <2>3 DEF IsMessage
  <2> QED BY <2>1, <2>3, <2>4 DEF Before
<1>4. ASSUME NEW i \in DOMAIN l.msgs
      PROVE  LET m == l.msgs[i] IN
             m.role = "user" => IF m.status = "queued" THEN \E k \in DOMAIN l.queue : l.queue[k].turn = m.of
                                ELSE \A k \in DOMAIN l.queue : k # 1 => m.of < l.queue[k].turn
  BY <1>2 DEF Before
<1> QED BY <1>1, <1>2, <1>3, <1>4 DEF Between

\* flushDelta: the answer of the turn that streams gets what the buffer holds.
LEMMA FlushedIs ==
    ASSUME NEW msgs, NEW typed \in 0..Prompts, NEW t \in 1..typed, NEW buffer, NEW queue, NEW d \in [Turns -> Nat],
           MessagesOk(msgs, typed, t, buffer, queue, d)
    PROVE  MessagesOk(withDelta(msgs, t, buffer), typed, t, <<>>, queue, d)
<1> DEFINE F(m) == IF IsAnswer(m, t) THEN [m EXCEPT !.content = @ \o buffer] ELSE m
           r == [i \in DOMAIN msgs |-> F(msgs[i])]
<1>1. IsSeq(r) /\ DOMAIN r = DOMAIN msgs
  <2>1. DOMAIN r = DOMAIN msgs /\ r = [i \in DOMAIN msgs |-> r[i]] /\ IsSeq(msgs)
    BY DEF MessagesOk
  <2> HIDE DEF r
  <2> QED BY <2>1, MapSeq
<1>2. t \in Turns /\ d[t] \in Nat
  BY NotNone
<1>3. ASSUME NEW i \in DOMAIN msgs
      PROVE  /\ IsMessage(F(msgs[i]), typed)
             /\ F(msgs[i]).role = "assistant" => AnswerOk(F(msgs[i]), t, <<>>, queue, d)
             /\ F(msgs[i]).role = "user" => PromptOk(F(msgs[i]), t, queue)
  <2> DEFINE m == msgs[i]
             e == F(m)
  <2>1. /\ IsMessage(m, typed)
        /\ m.role = "assistant" => AnswerOk(m, t, buffer, queue, d)
        /\ m.role = "user" => PromptOk(m, t, queue)
    BY DEF MessagesOk
  <2> HIDE DEF m
  <2>2. CASE IsAnswer(m, t)
    <3>1. m.of = t /\ m.role = "assistant" /\ Before(t, queue) /\ m.content \o buffer = Came(t, d)
      BY <2>1, <2>2 DEF IsAnswer, AnswerOk
    <3>2. e = [of |-> m.of, role |-> m.role, status |-> m.status, content |-> Came(t, d)]
      BY <2>1, <2>2, <3>1 DEF IsMessage
    <3> HIDE DEF e
    <3>3. e = [of |-> e.of, role |-> e.role, status |-> e.status, content |-> e.content]
          /\ e.of = t /\ e.role = "assistant" /\ e.content = Came(t, d)
      BY <3>1, <3>2
    <3>4. IsSeq(Came(t, d)) /\ Came(t, d) \o <<>> = Came(t, d)
      BY <1>2, CameIs, NothingMore
    <3>5. IsMessage(e, typed) /\ AnswerOk(e, t, <<>>, queue, d) /\ e.role # "user"
      BY <3>1, <3>3, <3>4 DEF IsMessage, AnswerOk
    <3> QED BY <3>5 DEF e, m
  <2>3. CASE ~IsAnswer(m, t)
    <3>1. e = m
      BY <2>3
    <3>2. m.role = "assistant" => m.of # t
      BY <2>3 DEF IsAnswer
    <3>3. m.role = "assistant" => AnswerOk(m, t, <<>>, queue, d)
      BY <2>1, <3>2 DEF AnswerOk
    <3> QED BY <2>1, <3>1, <3>3 DEF m
  <2> QED BY <2>2, <2>3
<1>4. \A i \in DOMAIN r : r[i] = F(msgs[i])
  OBVIOUS
<1> HIDE DEF F
<1>5. r = withDelta(msgs, t, buffer)
  BY DEF F, withDelta
<1> HIDE DEF r
<1>6. MessagesOk(r, typed, t, <<>>, queue, d)
  BY <1>1, <1>3, <1>4 DEF MessagesOk
<1> QED BY <1>5, <1>6

\* The messages of a turn that has ended, with its answer whole or an error.
LEMMA EndedIs ==
    ASSUME NEW msgs, NEW typed \in 0..Prompts, NEW t \in 1..typed, NEW queue, NEW d \in [Turns -> Nat], IsSeq(msgs),
           Before(t, queue), NEW status \in {"done", "error"},
           \A i \in DOMAIN msgs :
              /\ IsMessage(msgs[i], typed)
              /\ msgs[i].role = "assistant" => Before(msgs[i].of, queue) /\ Finished(msgs[i], d)
              /\ msgs[i].role = "user" => PromptOk(msgs[i], t, queue)
    PROVE  MessagesOk(markUserStatus(msgs, t, status), typed, None, <<>>, queue, d)
<1> DEFINE r == markUserStatus(msgs, t, status)
<1>1. IsSeq(r) /\ Len(r) = Len(msgs) /\ \A i \in 1..Len(msgs) : r[i] = Mark(msgs[i], t, status)
  BY MarkIs
<1>2. DOMAIN msgs = 1..Len(msgs) /\ DOMAIN r = DOMAIN msgs
  BY <1>1, SeqIs
<1> HIDE DEF r
<1>3. ASSUME NEW m, IsMessage(m, typed),
             m.role = "assistant" => Before(m.of, queue) /\ Finished(m, d),
             m.role = "user" => PromptOk(m, t, queue)
      PROVE  LET e == Mark(m, t, status) IN
             /\ IsMessage(e, typed)
             /\ e.role = "assistant" => AnswerOk(e, None, <<>>, queue, d)
             /\ e.role = "user" => PromptOk(e, None, queue)
  <2> DEFINE e == Mark(m, t, status)
  <2>1. m.of # None
    BY <1>3, NotNone DEF IsMessage
  <2>2. CASE IsPrompt(m, t)
    <3>1. m = [of |-> m.of, role |-> m.role, status |-> m.status, content |-> m.content] /\ m.of = t /\ m.role = "user"
      BY <1>3, <2>2 DEF IsMessage, IsPrompt
    <3>2. e = [of |-> m.of, role |-> m.role, status |-> status, content |-> m.content]
      BY <2>2, <3>1 DEF Mark
    <3> HIDE DEF e
    <3>3. e = [of |-> e.of, role |-> e.role, status |-> e.status, content |-> e.content]
          /\ e.of = t /\ e.role = "user" /\ e.status # "queued"
      BY <3>1, <3>2
    <3>4. IsMessage(e, typed) /\ PromptOk(e, None, queue) /\ e.role # "assistant"
      BY <2>1, <3>1, <3>3 DEF IsMessage, PromptOk
    <3> QED BY <3>4 DEF e
  <2>3. CASE ~IsPrompt(m, t)
    <3>1. e = m
      BY <2>3 DEF Mark
    <3>2. m.role = "assistant" => AnswerOk(m, None, <<>>, queue, d)
      BY <1>3, <2>1 DEF AnswerOk
    <3>3. m.role = "user" => PromptOk(m, None, queue)
      BY <1>3, <2>1 DEF PromptOk
    <3> HIDE DEF e
    <3> QED BY <1>3, <3>1, <3>2, <3>3 DEF e
  <2> QED BY <2>2, <2>3
<1>4. \A i \in DOMAIN r : /\ IsMessage(r[i], typed)
                          /\ r[i].role = "assistant" => AnswerOk(r[i], None, <<>>, queue, d)
                          /\ r[i].role = "user" => PromptOk(r[i], None, queue)
  <2> SUFFICES ASSUME NEW i \in DOMAIN r
               PROVE  /\ IsMessage(r[i], typed)
                      /\ r[i].role = "assistant" => AnswerOk(r[i], None, <<>>, queue, d)
                      /\ r[i].role = "user" => PromptOk(r[i], None, queue)
    OBVIOUS
  <2>1. r[i] = Mark(msgs[i], t, status) /\ i \in DOMAIN msgs
    BY <1>1, <1>2
  <2> QED BY <1>3, <2>1
<1>5. MessagesOk(r, typed, None, <<>>, queue, d)
  BY <1>1, <1>4 DEF MessagesOk
<1> QED BY <1>5 DEF r

\* A list that is whole before the end of its turn is so after it.
LEMMA DoneIs ==
    ASSUME NEW msgs, NEW typed \in 0..Prompts, NEW t \in 1..typed, NEW queue, NEW d \in [Turns -> Nat],
           Before(t, queue), MessagesOk(msgs, typed, t, <<>>, queue, d)
    PROVE  MessagesOk(markUserStatus(msgs, t, "done"), typed, None, <<>>, queue, d)
<1>1. ASSUME NEW i \in DOMAIN msgs
      PROVE  /\ IsMessage(msgs[i], typed)
             /\ msgs[i].role = "assistant" => Before(msgs[i].of, queue) /\ Finished(msgs[i], d)
             /\ msgs[i].role = "user" => PromptOk(msgs[i], t, queue)
  <2> DEFINE m == msgs[i]
  <2>1. /\ IsMessage(m, typed)
        /\ m.role = "assistant" => AnswerOk(m, t, <<>>, queue, d)
        /\ m.role = "user" => PromptOk(m, t, queue)
    BY DEF MessagesOk
  <2> HIDE DEF m
  <2>2. ASSUME m.role = "assistant" PROVE Before(m.of, queue) /\ Finished(m, d)
    <3>1. CASE m.of = t
      <4>1. IsSeq(m.content) /\ m.content \o <<>> = Came(m.of, d)
        BY <2>1, <2>2, <3>1 DEF AnswerOk
      <4>2. m.content = Came(m.of, d)
        BY <4>1, NothingMore
      <4> QED BY <2>1, <2>2, <4>2 DEF AnswerOk, Finished
    <3>2. CASE m.of # t
      BY <2>1, <2>2, <3>2 DEF AnswerOk
    <3> QED BY <3>1, <3>2
  <2> QED BY <2>1, <2>2 DEF m
<1>2. IsSeq(msgs) /\ "done" \in {"done", "error"}
  BY DEF MessagesOk
<1> QED BY <1>1, <1>2, EndedIs

\* An error stands in the place of the answer.
LEMMA ErrorIs ==
    ASSUME NEW msgs, NEW typed \in 0..Prompts, NEW t \in 1..typed, NEW buffer, NEW queue, NEW d \in [Turns -> Nat],
           Before(t, queue), MessagesOk(msgs, typed, t, buffer, queue, d)
    PROVE  MessagesOk(markUserStatus([i \in DOMAIN msgs |-> IF IsAnswer(msgs[i], t)
                                                            THEN [msgs[i] EXCEPT !.content = Failure, !.status = "error"]
                                                            ELSE msgs[i]], t, "error"), typed, None, <<>>, queue, d)
<1> DEFINE F(m) == IF IsAnswer(m, t) THEN [m EXCEPT !.content = Failure, !.status = "error"] ELSE m
           r == [i \in DOMAIN msgs |-> F(msgs[i])]
<1>1. IsSeq(r) /\ DOMAIN r = DOMAIN msgs
  <2>1. DOMAIN r = DOMAIN msgs /\ r = [i \in DOMAIN msgs |-> r[i]] /\ IsSeq(msgs)
    BY DEF MessagesOk
  <2> HIDE DEF r
  <2> QED BY <2>1, MapSeq
<1>2. ASSUME NEW i \in DOMAIN msgs
      PROVE  LET e == F(msgs[i]) IN
             /\ IsMessage(e, typed)
             /\ e.role = "assistant" => Before(e.of, queue) /\ Finished(e, d)
             /\ e.role = "user" => PromptOk(e, t, queue)
  <2> DEFINE m == msgs[i]
             e == F(m)
  <2>1. /\ IsMessage(m, typed)
        /\ m.role = "assistant" => AnswerOk(m, t, buffer, queue, d)
        /\ m.role = "user" => PromptOk(m, t, queue)
    BY DEF MessagesOk
  <2> HIDE DEF m
  <2>2. CASE IsAnswer(m, t)
    <3>1. m.of = t /\ m.role = "assistant"
      BY <2>2 DEF IsAnswer
    <3>2. e = [of |-> m.of, role |-> m.role, status |-> "error", content |-> Failure]
      <4>1. m = [of |-> m.of, role |-> m.role, status |-> m.status, content |-> m.content]
        BY <2>1 DEF IsMessage
      <4> HIDE DEF e
      <4>2. e = [m EXCEPT !.content = Failure, !.status = "error"]
        BY <2>2 DEF e
      <4> QED BY <4>1, <4>2
    <3> HIDE DEF e
    <3>3. e = [of |-> e.of, role |-> e.role, status |-> e.status, content |-> e.content]
          /\ e.of = t /\ e.role = "assistant" /\ e.content = Failure
      BY <3>1, <3>2
    <3>4. IsMessage(e, typed) /\ Before(e.of, queue) /\ Finished(e, d) /\ e.role # "user"
      BY <3>3 DEF IsMessage, Finished
    <3> QED BY <3>4 DEF e, m
  <2>3. CASE ~IsAnswer(m, t)
    <3>1. e = m
      BY <2>3
    <3>2. m.role = "assistant" => m.of # t
      BY <2>3 DEF IsAnswer
    <3>3. m.role = "assistant" => Before(m.of, queue) /\ Finished(m, d)
      BY <2>1, <3>2 DEF AnswerOk
    <3> HIDE DEF e
    <3> QED BY <2>1, <3>1, <3>3 DEF e, m
  <2> QED BY <2>2, <2>3
<1>3. \A i \in DOMAIN r : r[i] = F(msgs[i])
  OBVIOUS
<1> HIDE DEF F
<1>4. r = [i \in DOMAIN msgs |-> IF IsAnswer(msgs[i], t) THEN [msgs[i] EXCEPT !.content = Failure, !.status = "error"] ELSE msgs[i]]
  BY DEF F
<1> HIDE DEF r
<1>5. "error" \in {"done", "error"}
  OBVIOUS
<1>6. \A i \in DOMAIN r :
         /\ IsMessage(r[i], typed)
         /\ r[i].role = "assistant" => Before(r[i].of, queue) /\ Finished(r[i], d)
         /\ r[i].role = "user" => PromptOk(r[i], t, queue)
  BY <1>1, <1>2, <1>3
<1>7. MessagesOk(markUserStatus(r, t, "error"), typed, None, <<>>, queue, d)
  BY <1>1, <1>5, <1>6, EndedIs
<1> QED BY <1>4, <1>7

\* The turn that ends was the last, and the next one starts.
LEMMA TurnEnds ==
    ASSUME NEW l, NEW cs, NEW d, ChatOk(l, cs, d), NEW n \in DOMAIN cs, NEW ok, NEW e, IsChat(e),
           e.typed = l.typed, e.asked = l.asked, e.sent = l.sent, e.queue = l.queue,
           e.running = None, e.buffer = <<>>, e.frame = None,
           e.logs = <<[turn |-> l.running, ok |-> ok]>> \o l.logs,
           MessagesOk(e.msgs, l.typed, None, <<>>, l.queue, d)
    PROVE  ChatOk(processQueue(e, Minus(cs, n)).l, processQueue(e, Minus(cs, n)).cs, d)
<1> DEFINE t == l.running
<1>0. /\ l.typed \in 0..Prompts /\ d \in [Turns -> Nat] /\ TurnRuns(l, cs) /\ t \in 1..l.typed
      /\ QueueOk(l.queue, l.typed, l.asked) /\ SentOk(l.sent, l.typed, l.asked, d) /\ LogsOk(l.logs, l.typed)
  BY DEF ChatOk, ChatBase, IsChat, TurnRuns
<1>1. DOMAIN Minus(cs, n) = {}
  BY <1>0 DEF Minus, TurnRuns, OneCall
<1>2. LogsOk(e.logs, l.typed) /\ \A i \in DOMAIN e.logs : e.logs[i].turn <= t
  <2> DEFINE r == <<[turn |-> t, ok |-> ok]>> \o l.logs
  <2>1. LogsOk(r, l.typed) /\ \A i \in DOMAIN r : r[i].turn <= t
    BY <1>0, LoggedIs DEF TurnRuns
  <2>2. e.logs = r
    OBVIOUS
  <2> HIDE DEF r
  <2> QED BY <2>1, <2>2
<1>3. t \in Nat /\ (\A k \in DOMAIN l.queue : l.queue[k].turn \in Nat)
      /\ (\A i \in DOMAIN e.logs : e.logs[i].turn \in Nat) /\ \A i \in DOMAIN l.sent : l.sent[i].turn \in Nat
  BY <1>0, <1>2, NotNone DEF QueueOk, LogsOk, SentOk
<1>4. Before(t, l.queue) /\ \A i \in DOMAIN l.sent : l.sent[i].turn <= t
  BY <1>0 DEF TurnRuns, LastSent
<1>5. ASSUME NEW u \in Nat, u <= t PROVE Before(u, l.queue)
  BY <1>3, <1>4, <1>5 DEF Before
<1>6. (\A i \in DOMAIN e.logs : Before(e.logs[i].turn, e.queue)) /\ \A i \in DOMAIN e.sent : Before(e.sent[i].turn, e.queue)
  BY <1>2, <1>3, <1>4, <1>5
<1>7. IsSeq(e.buffer)
  BY NothingCame, NoneIs DEF ChatOk, ChatBase
<1>8. ChatBase(e, d) /\ Rests(e)
  BY <1>0, <1>2, <1>7 DEF ChatBase, Rests
<1>9. Between(e, d)
  BY <1>6, <1>8, RestsBetween
<1> QED BY <1>1, <1>9, TurnStarts

\* enqueueTurn: prompt t, with the choice c, waits behind the others.
Enqueues(l, c, t, x, q, a) ==
    /\ t = l.typed + 1 /\ x.turn = t /\ x.with = c
    /\ q = Append(l.queue, x) /\ a = Append(l.asked, c)
Enqueued(l, t, q, a, d) ==
    /\ t \in 1..Prompts /\ l.typed \in 0..Prompts
    /\ IsSeq(a) /\ Len(a) = t /\ QueueOk(q, t, a) /\ SentOk(l.sent, t, a, d) /\ LogsOk(l.logs, t)
    /\ DOMAIN l.queue = 1..Len(l.queue) /\ Len(l.queue) \in Nat /\ DOMAIN q = 1..Len(l.queue) + 1
    /\ (\A k \in DOMAIN l.queue : q[k] = l.queue[k]) /\ q[Len(l.queue) + 1].turn = t
    /\ \A u \in 1..l.typed : Before(u, l.queue) => Before(u, q)

LEMMA EnqueuesIs ==
    ASSUME NEW l, NEW d, ChatBase(l, d), l.typed < Prompts, NEW c, NEW t, NEW x, NEW q, NEW a, Enqueues(l, c, t, x, q, a)
    PROVE  Enqueued(l, t, q, a, d)
<1> DEFINE n == Len(l.queue)
<1>0. /\ l.typed \in 0..Prompts /\ IsSeq(l.asked) /\ Len(l.asked) = l.typed /\ IsSeq(l.queue)
      /\ QueueOk(l.queue, l.typed, l.asked) /\ SentOk(l.sent, l.typed, l.asked, d) /\ LogsOk(l.logs, l.typed)
  BY DEF ChatBase, IsChat, QueueOk
<1>1. x.turn = t /\ x.with = c /\ t = l.typed + 1 /\ a = Append(l.asked, c)
  BY DEF Enqueues
<1>2. t \in 1..Prompts /\ t \in Nat /\ \A u \in 1..l.typed : u \in 1..t /\ u < t
  BY <1>0, <1>1, TurnsAssumption
<1>3. IsSeq(a) /\ Len(a) = t /\ a[t] = c /\ \A u \in 1..l.typed : a[u] = l.asked[u]
  BY <1>0, <1>1, AppendIs
<1>4. q = Append(l.queue, x)
  BY DEF Enqueues
<1>5. IsSeq(q) /\ Len(q) = n + 1 /\ (\A i \in 1..n : q[i] = l.queue[i]) /\ q[n + 1] = x
  BY <1>0, <1>4, AppendIs
<1>6. DOMAIN l.queue = 1..n /\ n \in Nat /\ DOMAIN q = 1..n + 1
  BY <1>0, <1>5, SeqIs DEF IsSeq
<1> HIDE DEF n
<1>7. \A k \in DOMAIN q : (k \in DOMAIN l.queue /\ q[k] = l.queue[k]) \/ (k = n + 1 /\ q[k] = x)
  BY <1>5, <1>6
<1>8. \A k \in DOMAIN l.queue : l.queue[k].turn \in 1..l.typed /\ l.queue[k].with = l.asked[l.queue[k].turn]
  BY <1>0 DEF QueueOk
<1>9. QueueOk(q, t, a)
  <2>1. \A k \in DOMAIN q : q[k].turn \in 1..t /\ q[k].with = a[q[k].turn]
    <3> SUFFICES ASSUME NEW k \in DOMAIN q PROVE q[k].turn \in 1..t /\ q[k].with = a[q[k].turn]
      OBVIOUS
    <3>1. CASE k \in DOMAIN l.queue /\ q[k] = l.queue[k]
      <4> DEFINE u == l.queue[k].turn
      <4>1. u \in 1..l.typed /\ l.queue[k].with = l.asked[u] /\ q[k].turn = u /\ q[k].with = l.asked[u]
        BY <1>8, <3>1
      <4> HIDE DEF u
      <4> QED BY <1>2, <1>3, <4>1
    <3>2. CASE q[k] = x
      <4>1. t \in 1..t
        BY <1>2
      <4> QED BY <1>1, <1>3, <3>2, <4>1
    <3> QED BY <1>7, <3>1, <3>2
  <2>2. ASSUME NEW j \in DOMAIN q, NEW k \in DOMAIN q, j < k PROVE q[j].turn < q[k].turn
    <3>1. j \in DOMAIN l.queue /\ q[j] = l.queue[j]
      BY <1>6, <1>7, <2>2
    <3>2. CASE k \in DOMAIN l.queue
      BY <1>0, <1>5, <1>6, <2>2, <3>1, <3>2 DEF QueueOk
    <3>3. CASE q[k] = x
      BY <1>1, <1>2, <1>8, <3>1, <3>3
    <3> QED BY <1>7, <3>2, <3>3
  <2> QED BY <1>5, <2>1, <2>2 DEF QueueOk
<1>10. SentOk(l.sent, t, a, d)
  <2>1. \A i \in DOMAIN l.sent : l.sent[i].turn \in 1..l.typed /\ l.sent[i].with = l.asked[l.sent[i].turn]
    BY <1>0 DEF SentOk
  <2>2. \A i \in DOMAIN l.sent : l.sent[i].turn \in 1..t /\ l.sent[i].with = a[l.sent[i].turn]
    BY <1>2, <1>3, <2>1
  <2> QED BY <1>0, <2>2 DEF SentOk
<1>11. LogsOk(l.logs, t)
  BY <1>0, <1>2 DEF LogsOk
<1>12. \A u \in 1..l.typed : Before(u, l.queue) => Before(u, q)
  BY <1>1, <1>2, <1>7 DEF Before
<1>13. (\A k \in DOMAIN l.queue : q[k] = l.queue[k]) /\ q[n + 1].turn = t
  BY <1>1, <1>5, <1>6
<1> QED BY <1>0, <1>2, <1>3, <1>6, <1>9, <1>10, <1>11, <1>12, <1>13 DEF n, Enqueued

\* Its message stands last, and is the only one of its turn.
LEMMA PromptListed ==
    ASSUME NEW msgs, IsSeq(msgs), NEW typed \in 0..Prompts, \A i \in DOMAIN msgs : IsMessage(msgs[i], typed),
           NEW t, t = typed + 1, NEW p, p.of = t, p.role = "user", NEW r, r = Kept(Append(msgs, p))
    PROVE  /\ IsSeq(r) /\ Len(r) > 0
           /\ \A i \in DOMAIN r : \/ i = Len(r) /\ r[i] = p
                                  \/ i # Len(r) /\ \E j \in DOMAIN msgs : r[i] = msgs[j]
           /\ \A i \in DOMAIN r : IsPrompt(r[i], t) <=> i = Len(r)
<1> DEFINE s == Append(msgs, p)
           n == Len(msgs)
<1>1. IsSeq(s) /\ Len(s) = n + 1 /\ (\A i \in 1..n : s[i] = msgs[i]) /\ s[n + 1] = p
  BY AppendIs
<1>2. DOMAIN msgs = 1..n /\ n \in Nat
  BY SeqIs DEF IsSeq
<1>3. r = Kept(s)
  OBVIOUS
<1> HIDE DEF s, n
<1>4. PICK off \in Nat : /\ off <= Len(s) /\ (Len(s) > 0 => off < Len(s)) /\ Len(Kept(s)) = Len(s) - off
                         /\ \A i \in 1..Len(Kept(s)) : i + off \in 1..Len(s) /\ Kept(s)[i] = s[i + off]
  BY <1>1, KeptIs
<1>5. IsSeq(r) /\ DOMAIN r = 1..Len(r)
  BY <1>1, <1>3, KeptIs, SeqIs
<1>6. off < n + 1 /\ Len(r) = n + 1 - off /\ \A i \in 1..Len(r) : i + off \in 1..n + 1 /\ r[i] = s[i + off]
  BY <1>1, <1>2, <1>3, <1>4
<1>7. ASSUME NEW i \in DOMAIN r
      PROVE  \/ i = Len(r) /\ r[i] = p
             \/ i # Len(r) /\ \E j \in DOMAIN msgs : r[i] = msgs[j]
  <2>1. CASE i = Len(r)
    <3>1. i + off = n + 1
      BY <1>2, <1>6, <2>1
    <3> QED BY <1>1, <1>5, <1>6, <2>1, <3>1
  <2>2. CASE i # Len(r)
    <3>1. i + off \in 1..n
      BY <1>2, <1>5, <1>6, <2>2
    <3> QED BY <1>1, <1>2, <1>5, <1>6, <2>2, <3>1
  <2> QED BY <2>1, <2>2
<1>8. ASSUME NEW j \in DOMAIN msgs PROVE ~IsPrompt(msgs[j], t)
  BY TurnsAssumption DEF IsMessage, IsPrompt
<1>9. IsPrompt(p, t)
  BY DEF IsPrompt
<1>10. \A i \in DOMAIN r : IsPrompt(r[i], t) <=> i = Len(r)
  BY <1>7, <1>8, <1>9
<1>11. Len(r) > 0
  BY <1>2, <1>6
<1> QED BY <1>5, <1>7, <1>10, <1>11

\* handleSend, when nothing streams: the prompt's turn starts at once.
LEMMA SentAtOnce ==
    ASSUME NEW l, NEW cs, NEW d, ChatOk(l, cs, d), l.typed < Prompts, l.running = None,
           NEW t, NEW x, NEW q, NEW a, Enqueues(l, l.choice, t, x, q, a), NEW p, p = Prompt(t, "sending"), NEW r, r = Kept(Append(l.msgs, p)),
           NEW e, IsChat(e), e.typed = t, e.msgs = r, e.queue = q, e.asked = a,
           e.running = l.running, e.buffer = l.buffer, e.frame = l.frame, e.sent = l.sent, e.logs = l.logs
    PROVE  Between(e, d)
<1>0. /\ ChatBase(l, d) /\ Rests(l) /\ l.queue = <<>> /\ IsSeq(l.msgs)
      /\ MessagesOk(l.msgs, l.typed, l.running, l.buffer, l.queue, d)
  BY DEF ChatOk, MessagesOk
<1>1. /\ t \in 1..Prompts /\ l.typed \in 0..Prompts
      /\ IsSeq(a) /\ Len(a) = t /\ QueueOk(q, t, a) /\ SentOk(l.sent, t, a, d) /\ LogsOk(l.logs, t)
      /\ DOMAIN q = 1..Len(l.queue) + 1 /\ q[Len(l.queue) + 1].turn = t
  <2>1. Enqueued(l, t, q, a, d)
    BY <1>0, EnqueuesIs
  <2> QED BY <2>1 DEF Enqueued
<1>2. DOMAIN q = {1} /\ q[1].turn = t
  <2>1. Len(l.queue) = 0
    BY <1>0, NoneIs
  <2> QED BY <1>1, <2>1
<1>3. \A u \in 1..l.typed : u \in Turns /\ u # None /\ u < t
  BY <1>1, NotNone DEF Enqueues
<1>4. ASSUME NEW u \in 1..l.typed PROVE Before(u, q)
  BY <1>2, <1>3 DEF Before
<1>5. ChatBase(e, d) /\ Rests(e)
  BY <1>0, <1>1 DEF ChatBase, Rests
<1>6. /\ \A i \in DOMAIN e.sent : Before(e.sent[i].turn, q)
      /\ \A i \in DOMAIN e.logs : Before(e.logs[i].turn, q)
  BY <1>0, <1>4 DEF ChatBase, SentOk, LogsOk
<1>7. ASSUME NEW j \in DOMAIN l.msgs
      PROVE  LET m == l.msgs[j] IN
             /\ IsMessage(m, t) /\ m.of \in 1..l.typed
             /\ m.role = "assistant" => Before(m.of, q) /\ Finished(m, d)
             /\ m.role = "user" => m.status # "queued"
  <2> DEFINE m == l.msgs[j]
  <2>1. /\ IsMessage(m, l.typed)
        /\ m.role = "assistant" => AnswerOk(m, None, l.buffer, l.queue, d)
        /\ m.role = "user" => PromptOk(m, None, l.queue)
    BY <1>0 DEF MessagesOk
  <2> HIDE DEF m
  <2>2. m.of \in 1..l.typed /\ m.of # None /\ Before(m.of, q) /\ m.of \in 1..t
    BY <1>1, <1>3, <1>4, <2>1 DEF IsMessage
  <2>3. DOMAIN l.queue = {}
    BY <1>0
  <2>4. m.role = "user" => m.status # "queued"
    BY <2>1, <2>3 DEF PromptOk
  <2> QED BY <2>1, <2>2, <2>4 DEF IsMessage, AnswerOk, m
<1>8. /\ p = [of |-> p.of, role |-> p.role, status |-> p.status, content |-> p.content]
      /\ p.of = t /\ p.role = "user" /\ p.status = "sending"
  BY DEF Prompt
<1>9. /\ IsSeq(r) /\ Len(r) > 0
      /\ \A i \in DOMAIN r : \/ i = Len(r) /\ r[i] = p
                             \/ i # Len(r) /\ \E j \in DOMAIN l.msgs : r[i] = l.msgs[j]
      /\ \A i \in DOMAIN r : IsPrompt(r[i], t) <=> i = Len(r)
  <2>1. \A i \in DOMAIN l.msgs : IsMessage(l.msgs[i], l.typed)
    BY <1>0 DEF MessagesOk
  <2>2. t = l.typed + 1
    BY DEF Enqueues
  <2> QED BY <1>0, <1>1, <1>8, <2>1, <2>2, PromptListed
<1>10. IsMessage(p, t)
  BY <1>1, <1>8 DEF IsMessage
<1>11. ASSUME NEW i \in DOMAIN r
       PROVE  /\ IsMessage(r[i], t)
              /\ r[i].role = "assistant" => Before(r[i].of, q) /\ Finished(r[i], d)
              /\ r[i].role = "user" => IF r[i].status = "queued" THEN \E k \in DOMAIN q : q[k].turn = r[i].of
                                       ELSE \A k \in DOMAIN q : k # 1 => r[i].of < q[k].turn
  <2>1. CASE r[i] = p
    BY <1>2, <1>8, <1>10, <2>1
  <2>2. CASE \E j \in DOMAIN l.msgs : r[i] = l.msgs[j]
    BY <1>2, <1>7, <2>2
  <2> QED BY <1>9, <2>1, <2>2
<1>12. Past(buildApiMessages(r, t), t, d)
  <2> DEFINE h == buildApiMessages(r, t)
  <2>1. \A k \in DOMAIN h : k \in DOMAIN r /\ h[k] = r[k] /\ k < Len(r)
    BY <1>9, HistoryIs
  <2> HIDE DEF h
  <2> SUFFICES ASSUME NEW k \in DOMAIN h
               PROVE  h[k].of \in Turns /\ h[k].of < t /\ (h[k].role = "assistant" => Finished(h[k], d))
    BY DEF Past, h
  <2>2. k # Len(r) /\ k \in DOMAIN r /\ h[k] = r[k]
    <3>1. Len(r) \in Nat /\ DOMAIN r = 1..Len(r)
      BY <1>9, SeqIs DEF IsSeq
    <3> QED BY <2>1, <3>1
  <2>3. PICK j \in DOMAIN l.msgs : h[k] = l.msgs[j]
    BY <1>9, <2>2
  <2> QED BY <1>3, <1>7, <2>3
<1> QED BY <1>2, <1>5, <1>6, <1>9, <1>11, <1>12 DEF Between

\* handleSend, while another turn streams: the prompt waits.
LEMMA SentLater ==
    ASSUME NEW l, NEW cs, NEW d, ChatOk(l, cs, d), l.typed < Prompts, l.running # None,
           NEW t, NEW x, NEW q, NEW a, Enqueues(l, l.choice, t, x, q, a), NEW p, p = Prompt(t, "queued"), NEW r, r = Kept(Append(l.msgs, p)),
           NEW e, IsChat(e), e.typed = t, e.msgs = r, e.queue = q, e.asked = a,
           e.running = l.running, e.buffer = l.buffer, e.frame = l.frame, e.sent = l.sent, e.logs = l.logs
    PROVE  ChatOk(e, cs, d)
<1>0. /\ ChatBase(l, d) /\ TurnRuns(l, cs) /\ IsSeq(l.msgs) /\ l.running \in 1..l.typed /\ IsSeq(l.queue)
      /\ MessagesOk(l.msgs, l.typed, l.running, l.buffer, l.queue, d)
  BY DEF ChatOk, ChatBase, MessagesOk, TurnRuns, QueueOk
<1>1. /\ t \in 1..Prompts /\ l.typed \in 0..Prompts
      /\ IsSeq(a) /\ Len(a) = t /\ QueueOk(q, t, a) /\ SentOk(l.sent, t, a, d) /\ LogsOk(l.logs, t)
      /\ DOMAIN l.queue = 1..Len(l.queue) /\ Len(l.queue) \in Nat
      /\ DOMAIN q = 1..Len(l.queue) + 1 /\ q[Len(l.queue) + 1].turn = t
      /\ \A k \in DOMAIN l.queue : q[k] = l.queue[k]
      /\ \A u \in 1..l.typed : Before(u, l.queue) => Before(u, q)
  <2>1. Enqueued(l, t, q, a, d)
    BY <1>0, EnqueuesIs
  <2> QED BY <2>1 DEF Enqueued
<1>2. \A u \in 1..l.typed : u \in 1..t /\ u # t
  BY <1>1 DEF Enqueues
<1>3. ChatBase(e, d)
  BY <1>0, <1>1 DEF ChatBase
<1>4. TurnRuns(e, cs)
  BY <1>0, <1>1, <1>2 DEF TurnRuns
<1>5. \E k \in DOMAIN q : q[k].turn = t
  <2>1. Len(l.queue) + 1 \in DOMAIN q
    BY <1>1
  <2> QED BY <1>1, <2>1
<1>6. /\ p = [of |-> p.of, role |-> p.role, status |-> p.status, content |-> p.content]
      /\ p.of = t /\ p.role = "user" /\ p.status = "queued"
  BY DEF Prompt
<1>7. IsMessage(p, t) /\ PromptOk(p, l.running, q) /\ p.role # "assistant"
  <2>1. l.running # t
    BY <1>0, <1>2
  <2> QED BY <1>1, <1>5, <1>6, <2>1 DEF IsMessage, PromptOk
<1>8. ASSUME NEW j \in DOMAIN l.msgs
      PROVE  LET m == l.msgs[j] IN
             /\ IsMessage(m, t)
             /\ m.role = "assistant" => AnswerOk(m, l.running, l.buffer, q, d)
             /\ m.role = "user" => PromptOk(m, l.running, q)
  <2> DEFINE m == l.msgs[j]
  <2>1. /\ IsMessage(m, l.typed)
        /\ m.role = "assistant" => AnswerOk(m, l.running, l.buffer, l.queue, d)
        /\ m.role = "user" => PromptOk(m, l.running, l.queue)
    BY <1>0 DEF MessagesOk
  <2> HIDE DEF m
  <2>2. m.of \in 1..l.typed
    BY <2>1 DEF IsMessage
  <2>3. m.of \in 1..t /\ (Before(m.of, l.queue) => Before(m.of, q))
    BY <1>1, <1>2, <2>2
  <2>4. m.role = "assistant" => AnswerOk(m, l.running, l.buffer, q, d)
    BY <2>1, <2>3 DEF AnswerOk
  <2>5. (\E k \in DOMAIN l.queue : l.queue[k].turn = m.of) => \E k \in DOMAIN q : q[k].turn = m.of
    <3>1. \A k \in DOMAIN l.queue : k \in DOMAIN q
      BY <1>1
    <3> QED BY <1>1, <3>1
  <2>6. m.role = "user" => PromptOk(m, l.running, q)
    BY <2>1, <2>3, <2>5 DEF PromptOk
  <2> QED BY <2>1, <2>3, <2>4, <2>6 DEF IsMessage, m
<1>9. /\ IsSeq(r)
      /\ \A i \in DOMAIN r : r[i] = p \/ \E j \in DOMAIN l.msgs : r[i] = l.msgs[j]
  <2>1. \A i \in DOMAIN l.msgs : IsMessage(l.msgs[i], l.typed)
    BY <1>0 DEF MessagesOk
  <2>2. t = l.typed + 1 /\ p.of = t /\ p.role = "user"
    BY <1>6 DEF Enqueues
  <2>3. /\ IsSeq(r) /\ Len(r) > 0
        /\ \A i \in DOMAIN r : \/ i = Len(r) /\ r[i] = p
                               \/ i # Len(r) /\ \E j \in DOMAIN l.msgs : r[i] = l.msgs[j]
        /\ \A i \in DOMAIN r : IsPrompt(r[i], t) <=> i = Len(r)
    <3>1. IsSeq(l.msgs) /\ l.typed \in 0..Prompts /\ r = Kept(Append(l.msgs, p))
      BY <1>0, <1>1
    <3> QED BY ONLY <2>1, <2>2, <3>1, PromptListed
  <2> QED BY <2>3
<1>10. MessagesOk(r, t, l.running, l.buffer, q, d)
  <2>1. ASSUME NEW i \in DOMAIN r
        PROVE  /\ IsMessage(r[i], t)
               /\ r[i].role = "assistant" => AnswerOk(r[i], l.running, l.buffer, q, d)
               /\ r[i].role = "user" => PromptOk(r[i], l.running, q)
    BY <1>7, <1>8, <1>9
  <2> QED BY <1>9, <2>1 DEF MessagesOk
<1> QED BY <1>3, <1>4, <1>10 DEF ChatOk

\* Clicking send: the prompt's turn starts, or the prompt waits.
LEMMA SendOk == ASSUME screen = "chat", ChatOk(local, calls, db), handleSend PROVE ChatOk(local, calls, db)'
<1> DEFINE t == local.typed + 1
           status == IF local.running = None THEN "sending" ELSE "queued"
           x == [turn |-> t, with |-> local.choice]
           q == Append(local.queue, x)
           a == Append(local.asked, local.choice)
           p == Prompt(t, status)
           r == Kept(Append(local.msgs, p))
           e == [local EXCEPT !.typed = t, !.lock = TRUE, !.msgs = r, !.queue = q, !.asked = a]
<1>1. local.typed < Prompts /\ local' = processQueue(e, calls).l /\ calls' = processQueue(e, calls).cs /\ db' = db
  BY DEF handleSend, Do
<1>2. IsChat(local) /\ ChatBase(local, db)
  BY DEF ChatOk, ChatBase
<1>3. x.turn = t /\ x.with = local.choice
  OBVIOUS
<1>4. Enqueues(local, local.choice, t, x, q, a)
  <2> HIDE DEF x
  <2> QED BY <1>3 DEF Enqueues
<1> HIDE DEF x
<1>5. t \in 1..Prompts /\ IsSeq(a) /\ Len(a) = t
  <2>1. Enqueued(local, t, q, a, db)
    BY <1>1, <1>2, <1>4, EnqueuesIs
  <2> QED BY <2>1 DEF Enqueued
<1> HIDE DEF t, q, a
<1> HIDE DEF p, status
<1>6. r = Kept(Append(local.msgs, p))
  OBVIOUS
<1> HIDE DEF r
<1>7. /\ IsChat(e) /\ e.typed = t /\ e.msgs = r /\ e.queue = q /\ e.asked = a
      /\ e.running = local.running /\ e.buffer = local.buffer /\ e.frame = local.frame
      /\ e.sent = local.sent /\ e.logs = local.logs
  <2>1. local = [f \in ChatFields |-> local[f]] /\ DOMAIN local = ChatFields
    BY <1>2 DEF IsChat
  <2>2. /\ DOMAIN e = ChatFields /\ e.typed = t /\ e.msgs = r /\ e.queue = q /\ e.asked = a
        /\ e.running = local.running /\ e.buffer = local.buffer /\ e.frame = local.frame
        /\ e.sent = local.sent /\ e.logs = local.logs
    BY <2>1 DEF ChatFields
  <2>3. e = [f \in ChatFields |-> e[f]]
    BY <2>1 DEF ChatFields
  <2>4. t \in 0..Prompts
    BY <1>5
  <2> HIDE DEF e
  <2> QED BY <1>5, <2>2, <2>3, <2>4 DEF IsChat
<1> HIDE DEF e
<1>8. CASE local.running = None
  <2>1. p = Prompt(t, "sending")
    BY <1>8 DEF p, status
  <2>2. Between(e, db)
    BY <1>1, <1>4, <1>6, <1>7, <1>8, <2>1, SentAtOnce
  <2>3. DOMAIN calls = {}
    BY <1>8 DEF ChatOk
  <2>4. ChatOk(processQueue(e, calls).l, processQueue(e, calls).cs, db)
    BY <2>2, <2>3, TurnStarts
  <2> QED BY <1>1, <2>4
<1>9. CASE local.running # None
  <2>1. p = Prompt(t, "queued")
    BY <1>9 DEF p, status
  <2>2. ChatOk(e, calls, db)
    BY <1>1, <1>4, <1>6, <1>7, <1>9, <2>1, SentLater
  <2>3. processQueue(e, calls).l = e /\ processQueue(e, calls).cs = calls
    BY <1>7, <1>9 DEF processQueue
  <2> QED BY <1>1, <2>2, <2>3
<1> QED BY <1>8, <1>9

\* A frame shows what the buffer holds.
LEMMA FrameOk == ASSUME screen = "chat", ChatOk(local, calls, db), FrameFires PROVE ChatOk(local, calls, db)'
<1> DEFINE t == local.running
           r == withDelta(local.msgs, t, local.buffer)
           e == [local EXCEPT !.frame = None, !.buffer = <<>>, !.msgs = r]
<1>1. /\ IsChat(local) /\ ChatBase(local, db) /\ local.frame # None
      /\ MessagesOk(local.msgs, local.typed, t, local.buffer, local.queue, db)
  BY DEF ChatOk, ChatBase, FrameFires
<1>2. t # None /\ TurnRuns(local, calls) /\ local.frame = t
  BY <1>1 DEF ChatOk, Rests, TurnRuns
<1>3. t \in 1..local.typed /\ local.typed \in 0..Prompts /\ db \in [Turns -> Nat]
  BY <1>1, <1>2 DEF TurnRuns, IsChat, ChatBase
<1>4. MessagesOk(r, local.typed, t, <<>>, local.queue, db)
  BY <1>1, <1>3, FlushedIs
<1>5. local' = e /\ calls' = calls /\ db' = db
  <2>1. flushDelta(local, t) = e
    BY DEF flushDelta
  <2> HIDE DEF e, t
  <2> QED BY <1>2, <2>1 DEF FrameFires, Do
<1> HIDE DEF r
<1>6. IsChat(e)
  BY <1>1 DEF IsChat, ChatFields
<1>7. /\ e.buffer = <<>> /\ e.frame = None /\ e.msgs = r /\ e.running = local.running
      /\ e.queue = local.queue /\ e.typed = local.typed /\ e.asked = local.asked /\ e.sent = local.sent /\ e.logs = local.logs
  BY <1>1 DEF IsChat, ChatFields
<1> HIDE DEF e
<1>8. IsSeq(e.buffer)
  BY <1>1, <1>7, NoneIs DEF ChatBase
<1>9. ChatBase(e, db)
  BY <1>1, <1>6, <1>7, <1>8, BaseStays
<1>10. TurnRuns(e, calls)
  BY <1>2, <1>7 DEF TurnRuns
<1>11. ChatOk(e, calls, db)
  BY <1>2, <1>4, <1>7, <1>9, <1>10 DEF ChatOk
<1> QED BY <1>5, <1>11

\* What the stream brings is of the turn that streams.
LEMMA PieceOk ==
    ASSUME screen = "chat", ChatOk(local, calls, db), NEW n \in DOMAIN calls, PieceArrives(n)
    PROVE  ChatOk(local, calls, db)'
<1> DEFINE t == calls[n].arg
           x == <<t, db[t] + 1>>
           b == Append(local.buffer, x)
           e == queueDelta(local, t, x)
           d == [db EXCEPT ![t] = @ + 1]
<1>1. local' = e /\ calls' = calls /\ db' = d
  BY DEF PieceArrives, Reply
<1>2. /\ IsChat(local) /\ ChatBase(local, db) /\ db \in [Turns -> Nat] /\ IsSeq(local.buffer) /\ local.typed \in 0..Prompts
      /\ MessagesOk(local.msgs, local.typed, local.running, local.buffer, local.queue, db)
  BY DEF ChatOk, ChatBase, IsChat
<1>3. TurnRuns(local, calls) /\ local.running # None
  BY DEF ChatOk
<1>4. t = local.running /\ t \in 1..local.typed /\ t # None /\ t \in Turns /\ t \in Nat
  BY <1>2, <1>3, NotNone DEF TurnRuns, OneCall
<1>5. /\ d \in [Turns -> Nat] /\ d[t] = db[t] + 1 /\ \A u \in Turns : u # t => d[u] = db[u]
  BY <1>2, <1>4
<1>6. IsSeq(b)
  BY <1>2, AppendIs
<1>7. ASSUME NEW content, IsSeq(content), content \o local.buffer = Came(t, db)
      PROVE  content \o b = Came(t, d)
  BY <1>2, <1>4, <1>7, PieceCame
<1>8. e = [local EXCEPT !.buffer = b, !.frame = IF local.frame = None THEN t ELSE local.frame]
  BY DEF queueDelta
<1> HIDE DEF t, b, d
<1>9. IsChat(e)
  BY <1>2, <1>8 DEF IsChat, ChatFields
<1>10. /\ e.buffer = b /\ e.frame \in {t, local.frame} /\ e.msgs = local.msgs /\ e.running = local.running
       /\ e.queue = local.queue /\ e.typed = local.typed /\ e.asked = local.asked /\ e.sent = local.sent /\ e.logs = local.logs
  BY <1>2, <1>8 DEF IsChat, ChatFields
<1> HIDE DEF e
<1>11. ASSUME NEW m, m.of \in Turns, m.of # t, Finished(m, db) PROVE Finished(m, d)
  BY <1>5, <1>11 DEF Finished, Came
<1>12. SentOk(local.sent, local.typed, local.asked, d)
  <2>1. SentOk(local.sent, local.typed, local.asked, db) /\ LastSent(local.sent, t)
    BY <1>2, <1>3, <1>4 DEF ChatBase, TurnRuns
  <2>2. ASSUME NEW i \in DOMAIN local.sent PROVE Past(local.sent[i].history, local.sent[i].turn, d)
    <3> DEFINE h == local.sent[i].history
               u == local.sent[i].turn
    <3>1. Past(h, u, db) /\ u \in 1..local.typed /\ u <= t
      BY <2>1 DEF SentOk, LastSent
    <3> HIDE DEF h, u
    <3>2. ASSUME NEW k \in DOMAIN h
          PROVE  h[k].of \in Turns /\ h[k].of < u /\ (h[k].role = "assistant" => Finished(h[k], d))
      <4>1. h[k].of \in Turns /\ h[k].of < u /\ (h[k].role = "assistant" => Finished(h[k], db))
        BY <3>1 DEF Past
      <4>2. h[k].of # t
        BY <1>2, <1>4, <3>1, <4>1 DEF Turns
      <4> QED BY <1>11, <4>1, <4>2
    <3>3. Past(h, u, d)
      BY <3>2 DEF Past
    <3> QED BY <3>3 DEF h, u
  <2>3. \A u \in Turns : d[u] # 0 => \E i \in DOMAIN local.sent : local.sent[i].turn = u
    BY <1>5, <2>1 DEF SentOk, LastSent
  <2> QED BY <2>1, <2>2, <2>3 DEF SentOk
<1>13. MessagesOk(local.msgs, local.typed, t, b, local.queue, d)
  <2>1. ASSUME NEW i \in DOMAIN local.msgs, local.msgs[i].role = "assistant"
        PROVE  AnswerOk(local.msgs[i], t, b, local.queue, d)
    <3> DEFINE m == local.msgs[i]
    <3>1. AnswerOk(m, t, local.buffer, local.queue, db) /\ IsMessage(m, local.typed)
      BY <1>2, <1>4, <2>1 DEF MessagesOk
    <3> HIDE DEF m
    <3>2. m.of \in Turns
      BY <1>2, <3>1, NotNone DEF IsMessage
    <3>3. CASE m.of = t
      <4>1. Before(t, local.queue) /\ IsSeq(m.content) /\ m.content \o local.buffer = Came(t, db)
        BY <3>1, <3>3 DEF AnswerOk
      <4>2. m.content \o b = Came(t, d)
        BY <1>7, <4>1
      <4> QED BY <3>3, <4>1, <4>2 DEF AnswerOk, m
    <3>4. CASE m.of # t
      <4>1. Before(m.of, local.queue) /\ Finished(m, db)
        BY <3>1, <3>4 DEF AnswerOk
      <4>2. Finished(m, d)
        BY <1>11, <3>2, <3>4, <4>1
      <4> QED BY <3>4, <4>1, <4>2 DEF AnswerOk, m
    <3> QED BY <3>3, <3>4 DEF m
  <2> QED BY <1>2, <1>4, <2>1 DEF MessagesOk
<1>14. ChatBase(e, d)
  BY <1>2, <1>5, <1>6, <1>9, <1>10, <1>12 DEF ChatBase
<1>15. TurnRuns(e, calls)
  BY <1>3, <1>4, <1>10 DEF TurnRuns
<1>16. ChatOk(e, calls, d)
  BY <1>3, <1>4, <1>10, <1>13, <1>14, <1>15 DEF ChatOk
<1> QED BY <1>1, <1>16

\* The stream ends: all that came is shown, the prompt is done.
LEMMA EndOk ==
    ASSUME screen = "chat", ChatOk(local, calls, db), NEW n \in DOMAIN calls, StreamEnds(n)
    PROVE  ChatOk(local, calls, db)'
<1> DEFINE t == calls[n].arg
           shown == flushDelta(local, t)
           msgs == markUserStatus(shown.msgs, t, "done")
           logs == <<[turn |-> t, ok |-> TRUE]>> \o local.logs
           e == [local EXCEPT !.msgs = msgs, !.logs = logs, !.frame = None, !.buffer = <<>>, !.running = None]
<1>1. /\ IsChat(local) /\ ChatBase(local, db) /\ db \in [Turns -> Nat] /\ local.typed \in 0..Prompts
      /\ MessagesOk(local.msgs, local.typed, local.running, local.buffer, local.queue, db)
      /\ TurnRuns(local, calls)
  BY DEF ChatOk, ChatBase, IsChat
<1>2. t = local.running /\ t \in 1..local.typed /\ Before(t, local.queue)
  BY <1>1 DEF TurnRuns, OneCall
<1>3. MessagesOk(shown.msgs, local.typed, t, <<>>, local.queue, db)
  <2> DEFINE r == withDelta(local.msgs, t, local.buffer)
  <2>1. MessagesOk(r, local.typed, t, <<>>, local.queue, db)
    BY <1>1, <1>2, FlushedIs
  <2>2. shown = [local EXCEPT !.frame = None, !.buffer = <<>>, !.msgs = r]
    BY DEF flushDelta
  <2> HIDE DEF r, shown
  <2>3. shown.msgs = r
    BY <1>1, <2>2 DEF IsChat, ChatFields
  <2> QED BY <2>1, <2>3
<1>4. MessagesOk(msgs, local.typed, None, <<>>, local.queue, db)
  <2> DEFINE s == shown.msgs
  <2> HIDE DEF s, t
  <2>1. MessagesOk(markUserStatus(s, t, "done"), local.typed, None, <<>>, local.queue, db)
    BY <1>1, <1>2, <1>3, DoneIs DEF s
  <2> QED BY <2>1 DEF s
<1>5. /\ local' = processQueue(e, Minus(calls, n)).l /\ calls' = processQueue(e, Minus(calls, n)).cs /\ db' = db
  <2> DEFINE v == Logged([shown EXCEPT !.msgs = markUserStatus(@, t, "done")], t, TRUE)
             w == [v EXCEPT !.frame = None, !.buffer = <<>>, !.running = None]
             next == Finally(v, Minus(calls, n))
  <2>1. local' = next.l /\ calls' = next.cs /\ db' = db
    BY DEF StreamEnds, Do
  <2>2. next = processQueue(w, Minus(calls, n))
    BY DEF Finally
  <2> HIDE DEF next
  <2>3. w = e
    <3> DEFINE r == shown.msgs
    <3>1. shown = [local EXCEPT !.frame = None, !.buffer = <<>>, !.msgs = r] /\ shown.logs = local.logs
      BY <1>1 DEF flushDelta, IsChat, ChatFields
    <3>2. v = [shown EXCEPT !.msgs = msgs, !.logs = logs]
      <4> HIDE DEF shown
      <4> QED BY <1>1, <3>1 DEF Logged, IsChat, ChatFields
    <3> HIDE DEF r, v, msgs, logs, shown
    <3> QED BY <1>1, <3>1, <3>2 DEF IsChat, ChatFields
  <2> HIDE DEF w, e
  <2> QED BY <2>1, <2>2, <2>3
<1> HIDE DEF msgs, t
<1>6. IsChat(e)
  BY <1>1 DEF IsChat, ChatFields
<1>7. /\ e.typed = local.typed /\ e.asked = local.asked /\ e.sent = local.sent /\ e.queue = local.queue
      /\ e.running = None /\ e.buffer = <<>> /\ e.frame = None /\ e.msgs = msgs
      /\ e.logs = <<[turn |-> local.running, ok |-> TRUE]>> \o local.logs
  BY <1>1, <1>2 DEF IsChat, ChatFields
<1> HIDE DEF e
<1>8. ChatOk(processQueue(e, Minus(calls, n)).l, processQueue(e, Minus(calls, n)).cs, db)
  BY <1>4, <1>6, <1>7, TurnEnds
<1> QED BY <1>5, <1>8

\* The request fails: the error takes the place of the answer.
LEMMA FailOk ==
    ASSUME screen = "chat", ChatOk(local, calls, db), NEW n \in DOMAIN calls, StreamFails(n)
    PROVE  ChatOk(local, calls, db)'
<1> DEFINE t == calls[n].arg
           failed == [i \in DOMAIN local.msgs |->
                         IF IsAnswer(local.msgs[i], t) THEN [local.msgs[i] EXCEPT !.content = Failure, !.status = "error"]
                         ELSE local.msgs[i]]
           msgs == markUserStatus(failed, t, "error")
           logs == <<[turn |-> t, ok |-> FALSE]>> \o local.logs
           e == [local EXCEPT !.msgs = msgs, !.logs = logs, !.frame = None, !.buffer = <<>>, !.running = None]
<1>1. /\ IsChat(local) /\ ChatBase(local, db) /\ db \in [Turns -> Nat] /\ local.typed \in 0..Prompts
      /\ MessagesOk(local.msgs, local.typed, local.running, local.buffer, local.queue, db)
      /\ TurnRuns(local, calls)
  BY DEF ChatOk, ChatBase, IsChat
<1>2. t = local.running /\ t \in 1..local.typed /\ Before(t, local.queue)
  BY <1>1 DEF TurnRuns, OneCall
<1>4. MessagesOk(msgs, local.typed, None, <<>>, local.queue, db)
  BY <1>1, <1>2, ErrorIs
<1>5. /\ local' = processQueue(e, Minus(calls, n)).l /\ calls' = processQueue(e, Minus(calls, n)).cs /\ db' = db
  <2> DEFINE v == Logged([local EXCEPT !.msgs = msgs], t, FALSE)
             w == [v EXCEPT !.frame = None, !.buffer = <<>>, !.running = None]
             next == Finally(v, Minus(calls, n))
  <2>1. local' = next.l /\ calls' = next.cs /\ db' = db
    BY DEF StreamFails, Do
  <2>2. next = processQueue(w, Minus(calls, n))
    BY DEF Finally
  <2> HIDE DEF next
  <2>3. w = e
    <3> HIDE DEF msgs
    <3>1. v = [local EXCEPT !.msgs = msgs, !.logs = logs]
      BY <1>1 DEF Logged, IsChat, ChatFields
    <3> HIDE DEF v, logs
    <3> QED BY <1>1, <3>1 DEF IsChat, ChatFields
  <2> HIDE DEF w, e
  <2> QED BY <2>1, <2>2, <2>3
<1> HIDE DEF msgs, t
<1>6. IsChat(e)
  BY <1>1 DEF IsChat, ChatFields
<1>7. /\ e.typed = local.typed /\ e.asked = local.asked /\ e.sent = local.sent /\ e.queue = local.queue
      /\ e.running = None /\ e.buffer = <<>> /\ e.frame = None /\ e.msgs = msgs
      /\ e.logs = <<[turn |-> local.running, ok |-> FALSE]>> \o local.logs
  BY <1>1, <1>2 DEF IsChat, ChatFields
<1> HIDE DEF e
<1>8. ChatOk(processQueue(e, Minus(calls, n)).l, processQueue(e, Minus(calls, n)).cs, db)
  BY <1>4, <1>6, <1>7, TurnEnds
<1> QED BY <1>5, <1>8

\* The list is cleared: what streams is aborted, what waits is dropped.
LEMMA ClearOk == ASSUME screen = "chat", ChatOk(local, calls, db), handleClear PROVE ChatOk(local, calls, db)'
<1> DEFINE l == IF local.running = None THEN local ELSE Logged(local, local.running, FALSE)
           e == [l EXCEPT !.queue = <<>>, !.running = None, !.msgs = <<>>, !.buffer = <<>>, !.frame = None]
<1>1. local' = e /\ calls' = NoCalls /\ db' = db
  BY DEF handleClear, Do
<1>2. /\ IsChat(local) /\ ChatBase(local, db) /\ local.typed \in 0..Prompts
      /\ SentOk(local.sent, local.typed, local.asked, db) /\ LogsOk(local.logs, local.typed) /\ db \in [Turns -> Nat]
  BY DEF ChatOk, ChatBase, IsChat
<1>3. /\ DOMAIN l = ChatFields /\ l = [f \in ChatFields |-> l[f]]
      /\ l.typed = local.typed /\ l.asked = local.asked /\ l.sent = local.sent
      /\ l.logs = IF local.running = None THEN local.logs ELSE <<[turn |-> local.running, ok |-> FALSE]>> \o local.logs
  <2>1. CASE local.running = None
    BY <1>2, <2>1 DEF IsChat
  <2>2. CASE local.running # None
    <3> DEFINE logs == <<[turn |-> local.running, ok |-> FALSE]>> \o local.logs
    <3>1. l = [local EXCEPT !.logs = logs]
      BY <2>2 DEF Logged
    <3> HIDE DEF logs, l
    <3>2. /\ DOMAIN l = ChatFields /\ l = [f \in ChatFields |-> l[f]]
          /\ l.typed = local.typed /\ l.asked = local.asked /\ l.sent = local.sent /\ l.logs = logs
      BY <1>2, <3>1 DEF IsChat, ChatFields
    <3> QED BY <2>2, <3>2 DEF logs
  <2> QED BY <2>1, <2>2
<1>4. LogsOk(l.logs, local.typed)
  <2>1. CASE local.running = None
    BY <1>2, <1>3, <2>1
  <2>2. CASE local.running # None
    <3> DEFINE r == <<[turn |-> local.running, ok |-> FALSE]>> \o local.logs
    <3>1. local.running \in 1..local.typed /\ \A i \in DOMAIN local.logs : local.logs[i].turn < local.running
      BY <2>2 DEF ChatOk, TurnRuns
    <3>2. LogsOk(r, local.typed)
      BY <1>2, <3>1, LoggedIs
    <3>3. l.logs = r
      BY <1>3, <2>2
    <3> HIDE DEF r, l
    <3> QED BY <3>2, <3>3
  <2> QED BY <2>1, <2>2
<1> HIDE DEF l
<1>5. /\ IsChat(e) /\ e.typed = local.typed /\ e.asked = local.asked /\ e.sent = local.sent /\ e.logs = l.logs
      /\ e.queue = <<>> /\ e.running = None /\ e.msgs = <<>> /\ e.buffer = <<>> /\ e.frame = None
  <2>1. /\ DOMAIN e = ChatFields /\ e.typed = local.typed /\ e.asked = local.asked /\ e.sent = local.sent /\ e.logs = l.logs
        /\ e.queue = <<>> /\ e.running = None /\ e.msgs = <<>> /\ e.buffer = <<>> /\ e.frame = None
    BY <1>3 DEF ChatFields
  <2>2. e = [f \in ChatFields |-> e[f]]
    BY <1>3 DEF ChatFields
  <2> HIDE DEF e
  <2> QED BY <1>2, <2>1, <2>2 DEF IsChat
<1> HIDE DEF e
<1>6. IsSeq(<<>>) /\ DOMAIN <<>> = {}
  BY <1>2, NoneIs DEF ChatBase
<1>7. QueueOk(<<>>, local.typed, local.asked) /\ MessagesOk(<<>>, local.typed, None, <<>>, <<>>, db)
  BY <1>6 DEF QueueOk, MessagesOk
<1>8. ChatBase(e, db)
  BY <1>2, <1>4, <1>5, <1>6, <1>7 DEF ChatBase
<1>9. DOMAIN NoCalls = {}
  BY DEF NoCalls
<1>10. ChatOk(e, NoCalls, db)
  BY <1>5, <1>7, <1>8, <1>9 DEF ChatOk, Rests
<1> QED BY <1>1, <1>10

LEMMA ChatStarts == ASSUME ChatInit PROVE ChatOk(local, calls, db)
<1> DEFINE c == CHOOSE x \in Selections : TRUE
<1> HIDE DEF c
<1>1. /\ local = [left |-> 1, typed |-> 0, choice |-> c, lock |-> FALSE,
                  msgs |-> <<>>, queue |-> <<>>, running |-> None, buffer |-> <<>>, frame |-> None,
                  logs |-> <<>>, sent |-> <<>>, asked |-> <<>>]
      /\ DOMAIN calls = {} /\ db = [t \in Turns |-> 0]
  BY DEF ChatInit, NoCalls, c
<1>2. IsSeq(<<>>) /\ Len(<<>>) = 0 /\ DOMAIN <<>> = {}
  <2>1. <<>> \in Seq({}) /\ Len(<<>>) = 0 /\ DOMAIN <<>> = {}
    OBVIOUS
  <2> QED BY <2>1, AnySeq
<1>3. IsChat(local)
  <2>1. local = [f \in ChatFields |-> local[f]] /\ DOMAIN local = ChatFields
    BY <1>1 DEF ChatFields
  <2>2. local.typed = 0 /\ local.asked = <<>>
    BY <1>1
  <2>3. 0 \in 0..Prompts
    BY TurnsAssumption
  <2> QED BY <1>2, <2>1, <2>2, <2>3 DEF IsChat
<1>4. /\ local.typed = 0 /\ local.asked = <<>> /\ local.msgs = <<>> /\ local.queue = <<>> /\ local.running = None
      /\ local.buffer = <<>> /\ local.frame = None /\ local.logs = <<>> /\ local.sent = <<>>
  BY <1>1
<1>5. db \in [Turns -> Nat] /\ \A t \in Turns : db[t] = 0
  BY <1>1
<1>6. /\ QueueOk(<<>>, 0, <<>>) /\ SentOk(<<>>, 0, <<>>, db) /\ LogsOk(<<>>, 0)
      /\ MessagesOk(<<>>, 0, None, <<>>, <<>>, db)
  BY <1>2, <1>5 DEF QueueOk, SentOk, LogsOk, MessagesOk
<1>7. ChatBase(local, db)
  BY <1>2, <1>3, <1>4, <1>5, <1>6 DEF ChatBase
<1> QED BY <1>1, <1>4, <1>6, <1>7 DEF ChatOk, Rests

\* The lock, the choice and the list of the requests bear on no turn.
LEMMA ViewOk ==
    ASSUME screen = "chat", ChatOk(local, calls, db), LockOpens \/ ClearLogs \/ \E c \in Selections : Choose(c)
    PROVE  ChatOk(local, calls, db)'
<1>1. IsChat(local) /\ ChatBase(local, db)
  BY DEF ChatOk, ChatBase
<1>2. ASSUME LockOpens PROVE ChatOk(local, calls, db)'
  <2> DEFINE e == [local EXCEPT !.lock = FALSE]
  <2>1. local' = e /\ calls' = calls /\ db' = db
    BY <1>2 DEF LockOpens, Do
  <2>2. /\ IsChat(e) /\ e.buffer = local.buffer /\ e.frame = local.frame /\ e.running = local.running /\ e.msgs = local.msgs
        /\ e.queue = local.queue /\ e.typed = local.typed /\ e.asked = local.asked /\ e.sent = local.sent /\ e.logs = local.logs
    BY <1>1 DEF IsChat, ChatFields
  <2> HIDE DEF e
  <2>3. ChatOk(e, calls, db)
    BY <2>2, ChatStays
  <2> QED BY <2>1, <2>3
<1>3. ASSUME NEW c \in Selections, Choose(c) PROVE ChatOk(local, calls, db)'
  <2> DEFINE l == [local EXCEPT !.choice = c]
             e == [l EXCEPT !.left = @ - 1]
  <2>1. local' = e /\ calls' = calls /\ db' = db
    BY <1>3 DEF Choose, Ask, Do
  <2>2. /\ IsChat(e) /\ e.buffer = local.buffer /\ e.frame = local.frame /\ e.running = local.running /\ e.msgs = local.msgs
        /\ e.queue = local.queue /\ e.typed = local.typed /\ e.asked = local.asked /\ e.sent = local.sent /\ e.logs = local.logs
    BY <1>1 DEF IsChat, ChatFields
  <2> HIDE DEF e
  <2>3. ChatOk(e, calls, db)
    BY <2>2, ChatStays
  <2> QED BY <2>1, <2>3
<1>4. ASSUME ClearLogs PROVE ChatOk(local, calls, db)'
  <2> DEFINE l == [local EXCEPT !.logs = <<>>]
             e == [l EXCEPT !.left = @ - 1]
  <2>1. local' = e /\ calls' = calls /\ db' = db
    BY <1>4 DEF ClearLogs, Ask, Do
  <2>2. /\ IsChat(e) /\ e.buffer = local.buffer /\ e.frame = local.frame /\ e.running = local.running /\ e.msgs = local.msgs
        /\ e.queue = local.queue /\ e.typed = local.typed /\ e.asked = local.asked /\ e.sent = local.sent /\ e.logs = <<>>
    BY <1>1 DEF IsChat, ChatFields
  <2> HIDE DEF e
  <2>3. LogsOk(e.logs, e.typed) /\ DOMAIN e.logs = {}
    <3>1. IsSeq(<<>>) /\ DOMAIN <<>> = {}
      BY <1>1, NoneIs DEF ChatBase
    <3> QED BY <2>2, <3>1 DEF LogsOk
  <2>4. ChatBase(e, db)
    BY <1>1, <2>2, <2>3 DEF ChatBase
  <2>5. ChatOk(e, calls, db)
    BY <2>2, <2>3, <2>4 DEF ChatOk, Rests, TurnRuns
  <2> QED BY <2>1, <2>5
<1> QED BY <1>2, <1>3, <1>4

\* What a step of the playground leaves.
LEMMA ChatKeeps == ASSUME screen = "chat", ChatOk(local, calls, db), ChatNext PROVE ChatOk(local, calls, db)'
<1>1. CASE handleSend
  BY <1>1, SendOk
<1>2. CASE FrameFires
  BY <1>2, FrameOk
<1>3. CASE handleClear
  BY <1>3, ClearOk
<1>4. CASE LockOpens \/ ClearLogs \/ \E c \in Selections : Choose(c)
  BY <1>4, ViewOk
<1>5. ASSUME NEW n \in DOMAIN calls, ChatAnswers(n) PROVE ChatOk(local, calls, db)'
  BY <1>5, PieceOk, EndOk, FailOk DEF ChatAnswers
<1> QED BY <1>1, <1>2, <1>3, <1>4, <1>5 DEF ChatNext

\* What stands in an answer so far is the beginning of what came.
LEMMA BeginsIs ==
    ASSUME NEW t \in Turns, NEW d \in [Turns -> Nat], NEW content, IsSeq(content), NEW buffer, IsSeq(buffer),
           content \o buffer = Came(t, d)
    PROVE  content = [k \in 1..Len(content) |-> <<t, k>>]
<1>1. d[t] \in Nat
  OBVIOUS
<1>2. Len(Came(t, d)) = d[t] /\ \A k \in 1..d[t] : Came(t, d)[k] = <<t, k>>
  BY <1>1, CameIs
<1>3. /\ Len(content \o buffer) = Len(content) + Len(buffer)
      /\ \A i \in 1..Len(content) : (content \o buffer)[i] = content[i]
  BY ConcatIs
<1>4. content = [k \in 1..Len(content) |-> content[k]] /\ Len(content) \in Nat /\ Len(buffer) \in Nat
  BY DEF IsSeq
<1>5. d[t] = Len(content) + Len(buffer)
  BY <1>2, <1>3
<1>6. ASSUME NEW k \in 1..Len(content) PROVE content[k] = <<t, k>>
  <2>1. k \in 1..d[t]
    BY <1>4, <1>5
  <2> QED BY <1>2, <1>3, <2>1
<1> QED BY <1>4, <1>6

\* Of each answer: its pieces are its own turn's, in order, and all when it is done.
LEMMA AnswersWhole ==
    ASSUME NEW l, NEW cs, NEW d, ChatOk(l, cs, d), NEW i \in DOMAIN l.msgs, l.msgs[i].role = "assistant"
    PROVE  LET m == l.msgs[i] IN
           /\ m.content = Failure \/ m.content = [k \in 1..Len(m.content) |-> <<m.of, k>>]
           /\ (\E j \in DOMAIN l.msgs : IsPrompt(l.msgs[j], m.of) /\ l.msgs[j].status = "done") => Finished(m, d)
<1> DEFINE m == l.msgs[i]
<1>1. /\ l.typed \in 0..Prompts /\ d \in [Turns -> Nat] /\ IsSeq(l.buffer)
      /\ MessagesOk(l.msgs, l.typed, l.running, l.buffer, l.queue, d)
  BY DEF ChatOk, ChatBase, IsChat
<1>2. IsMessage(m, l.typed) /\ AnswerOk(m, l.running, l.buffer, l.queue, d)
  BY <1>1 DEF MessagesOk
<1>3. ASSUME NEW j \in DOMAIN l.msgs, IsPrompt(l.msgs[j], m.of), l.msgs[j].status = "done" PROVE m.of # l.running
  BY <1>1, <1>3 DEF MessagesOk, PromptOk, IsPrompt
<1> HIDE DEF m
<1>4. m.of \in Turns /\ d[m.of] \in Nat
  BY <1>1, <1>2, NotNone DEF IsMessage
<1>5. CASE m.of = l.running
  <2>1. IsSeq(m.content) /\ m.content \o l.buffer = Came(m.of, d)
    BY <1>2, <1>5 DEF AnswerOk
  <2>2. m.content = [k \in 1..Len(m.content) |-> <<m.of, k>>]
    BY <1>1, <1>4, <2>1, BeginsIs
  <2> QED BY <1>3, <1>5, <2>2 DEF m
<1>6. CASE m.of # l.running
  <2>1. Finished(m, d)
    BY <1>2, <1>6 DEF AnswerOk
  <2>2. CASE m.content = Came(m.of, d)
    <3>1. Len(m.content) = d[m.of]
      BY <1>4, <2>2, CameIs
    <3>2. m.content = [k \in 1..Len(m.content) |-> <<m.of, k>>]
      BY <2>2, <3>1 DEF Came
    <3> QED BY <2>1, <3>2 DEF m
  <2> QED BY <2>1, <2>2 DEF Finished, m
<1> QED BY <1>5, <1>6

LEMMA TurnsSound == ASSUME screen = "chat" => ChatOk(local, calls, db) PROVE TurnsInOrder
<1> SUFFICES ASSUME screen = "chat", ChatOk(local, calls, db) PROVE TurnsInOrder
  BY DEF TurnsInOrder
<1>1. /\ local.typed \in 0..Prompts /\ IsSeq(local.queue)
      /\ SentOk(local.sent, local.typed, local.asked, db) /\ LogsOk(local.logs, local.typed)
      /\ MessagesOk(local.msgs, local.typed, local.running, local.buffer, local.queue, db)
  BY DEF ChatOk, ChatBase, IsChat, QueueOk
<1> DEFINE whole(m) == m.content = Failure \/ m.content = [k \in 1..db[m.of] |-> <<m.of, k>>]
           isDone(t) == \E i \in DOMAIN local.msgs : IsPrompt(local.msgs[i], t) /\ local.msgs[i].status = "done"
<1>2. ASSUME NEW m PROVE Finished(m, db) => whole(m)
  BY DEF Finished, Came
<1>3. /\ \A i, j \in DOMAIN local.sent : i < j => local.sent[i].turn < local.sent[j].turn
      /\ \A i \in DOMAIN local.sent : local.sent[i].with = local.asked[local.sent[i].turn]
  BY <1>1 DEF SentOk
<1>4. ASSUME NEW i \in DOMAIN local.sent, NEW k \in DOMAIN local.sent[i].history
      PROVE  LET m == local.sent[i].history[k] IN
             m.of < local.sent[i].turn /\ (m.role = "assistant" => whole(m))
  <2>1. Past(local.sent[i].history, local.sent[i].turn, db)
    BY <1>1 DEF SentOk
  <2> HIDE DEF whole
  <2> QED BY <1>2, <2>1 DEF Past
<1>5. ASSUME NEW i \in DOMAIN local.msgs, local.msgs[i].role = "assistant"
      PROVE  LET m == local.msgs[i] IN
             /\ m.content = Failure \/ m.content = [k \in 1..Len(m.content) |-> <<m.of, k>>]
             /\ isDone(m.of) => whole(m)
  <2> DEFINE m == local.msgs[i]
  <2>1. /\ m.content = Failure \/ m.content = [k \in 1..Len(m.content) |-> <<m.of, k>>]
        /\ isDone(m.of) => Finished(m, db)
    BY <1>5, AnswersWhole
  <2> HIDE DEF m, whole, isDone
  <2>2. isDone(m.of) => whole(m)
    BY <1>2, <2>1
  <2> QED BY <2>1, <2>2 DEF m
<1>6. Composer(local).queued > 0 => Composer(local).streaming
  <2> SUFFICES ASSUME local.running = None PROVE ~(Len(local.queue) > 0)
    BY DEF Composer
  <2>1. local.queue = <<>> /\ Len(local.queue) = 0
    BY <1>1, NoneIs DEF ChatOk
  <2> QED BY <2>1
<1>7. \A i, j \in DOMAIN local.logs : i < j => local.logs[i].turn > local.logs[j].turn
  BY <1>1 DEF LogsOk
<1>8. \A t \in Turns : \A i, j \in PlaygroundLogView(local.logs, t) : i = j
  <2>1. DOMAIN local.logs = 1..Len(local.logs) /\ Len(local.logs) \in Nat
    BY <1>1, SeqIs DEF LogsOk, IsSeq
  <2> SUFFICES ASSUME NEW t \in Turns, NEW i \in PlaygroundLogView(local.logs, t), NEW j \in PlaygroundLogView(local.logs, t)
               PROVE  i = j
    OBVIOUS
  <2>2. i \in DOMAIN local.logs /\ j \in DOMAIN local.logs /\ local.logs[i].turn = t /\ local.logs[j].turn = t
    BY DEF PlaygroundLogView
  <2>3. ~(i < j) /\ ~(j < i)
    BY <1>7, <2>2, TurnsAssumption DEF Turns
  <2> QED BY <2>1, <2>2, <2>3
<1>9. ASSUME NEW i \in DOMAIN ChatView(local.msgs), ChatView(local.msgs)[i] = "queued"
      PROVE  \E k \in DOMAIN local.queue : local.queue[k].turn = local.msgs[i].of
  <2>1. i \in DOMAIN local.msgs /\ local.msgs[i].role = "user" /\ local.msgs[i].status = "queued"
    BY <1>9 DEF ChatView
  <2> QED BY <1>1, <2>1 DEF MessagesOk, PromptOk
<1> HIDE DEF whole, isDone
<1>10. \A i \in DOMAIN local.sent : \A k \in DOMAIN local.sent[i].history :
          LET m == local.sent[i].history[k] IN
          /\ m.of < local.sent[i].turn
          /\ m.role = "assistant" => whole(m)
  BY <1>4
<1>11. \A i \in DOMAIN local.msgs :
          LET m == local.msgs[i] IN
          m.role = "assistant" =>
              /\ m.content = Failure \/ m.content = [k \in 1..Len(m.content) |-> <<m.of, k>>]
              /\ isDone(m.of) => whole(m)
  BY <1>5
<1>12. \A i \in DOMAIN ChatView(local.msgs) :
          ChatView(local.msgs)[i] = "queued" => \E k \in DOMAIN local.queue : local.queue[k].turn = local.msgs[i].of
  BY <1>9
<1> QED BY <1>3, <1>6, <1>7, <1>8, <1>10, <1>11, <1>12 DEF TurnsInOrder, whole, isDone

\* The turns of the playground's chat: each prompt is sent once, in the order of
\* typing, with the choice and the history of its moment; no piece of an answer
\* is lost or lands in another's, and no turn is logged twice (use-chat-queue.ts,
\* use-chat-stream.ts).
THEOREM TurnsGoInOrder == Spec => []TurnsInOrder
<1> DEFINE I == screen = "chat" => ChatOk(local, calls, db)
<1>1. Init => I
  <2> SUFFICES ASSUME Init, screen = "chat" PROVE ChatOk(local, calls, db)
    OBVIOUS
  <2>1. CASE ChatInit
    BY <2>1, ChatStarts
  <2> QED BY <2>1 DEF Init, ShellInit, DeviceInit, BrowserInit, BulkInit, AddInit, ConnectionsInit, CardsInit, RulesInit,
         AdminInit, PicturesInit, LogsInit, ConsoleInit, FeedInit, SettingsInit, ToolsInit, TunnelInit
<1>2. I /\ [Next]_uiVars => I'
  <2> SUFFICES ASSUME I, [Next]_uiVars, screen' = "chat" PROVE ChatOk(local, calls, db)'
    OBVIOUS
  <2>1. screen = "chat" /\ ChatOk(local, calls, db)
    BY OneScreen
  <2>2. CASE ChatNext
    BY <2>1, <2>2, ChatKeeps
  <2>3. CASE UNCHANGED uiVars
    BY <2>1, <2>3 DEF uiVars
  <2> QED BY <2>1, <2>2, <2>3 DEF Next
<1>3. I => TurnsInOrder
  BY TurnsSound
<1> QED BY <1>1, <1>2, <1>3, PTL DEF Spec

=============================================================================
