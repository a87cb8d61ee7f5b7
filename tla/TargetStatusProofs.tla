------------------------- MODULE TargetStatusProofs -------------------------
(***************************************************************************)
(* What TLAPS proves of TargetStatus, for any number of JVMs and whatever  *)
(* the user does.                                                          *)
(***************************************************************************)
EXTENDS TargetStatus, SequenceTheorems, TLAPS

In(s, x) == \E i \in 1 .. Len(s) : s[i] = x
Leaving(j) == life[j] \in {"unloading", "gone"}
Listed(j) == j \in DOMAIN view.items

(* Rows and JVMs correspond.                                               *)
ViewOK(v) ==
  /\ v = [rows |-> v.rows, items |-> v.items, status |-> v.status, hidden |-> v.hidden,
          current |-> v.current, auto |-> v.auto]
  /\ v.rows \in Seq(Jvms)
  /\ v.status \in Seq(Statuses)
  /\ Len(v.status) = Len(v.rows)
  /\ v.current \in 0 .. Len(v.rows)
  /\ v.items = [j \in DOMAIN v.items |-> v.items[j]]
  /\ \A j \in DOMAIN v.items : j \in Jvms /\ HasRow(v, v.items[j]) /\ v.rows[v.items[j]] = j
  /\ \A r \in 1 .. Len(v.rows) : v.rows[r] \in DOMAIN v.items /\ v.items[v.rows[r]] = r

(* A row that is shown as dropped, is about to be hidden or is hidden.     *)
LeavingRow(r) == HasRow(view, r) /\ Leaving(view.rows[r])
RowsOK ==
  /\ \A r \in 1 .. Len(view.rows) : view.status[r] = "DROPPED" => LeavingRow(r)
  /\ menu.offers = "Acknowledge" => LeavingRow(menu.row)
  /\ \A r \in view.hidden : slipped \/ LeavingRow(r)

(* A JVM without a row has announced itself and done nothing else; one     *)
(* that has a row has been announced.                                      *)
Announced(j) ==
  \/ life[j] = "new" /\ reports[j] = <<>>
  \/ life[j] \in {"running", "gone"} /\ reports[j] = <<"ready">>
  \/ life[j] \in {"unloading", "gone"} /\ reports[j] = <<"ready", "unloaded">>
Known(j) ==
  /\ ~Listed(j) => /\ Announced(j) /\ commands[j] = <<>> /\ ~on[j] /\ reload[j] # "reloading"
  /\ Listed(j) => life[j] # "new" /\ ~In(reports[j], "ready")
  /\ In(reports[j], "unloaded") => Leaving(j)

(* While no row has been current no command has been sent.                 *)
Quiet(j) ==
  /\ commands[j] = <<>>
  /\ reload[j] # "reloading"
  /\ ~In(reports[j], "ack_on") /\ ~In(reports[j], "ack_off")

(* The last acknowledgement on its way is right; when none is, and no      *)
(* command either, the row is right.                                       *)
AckOf(b) == IF b THEN "ack_on" ELSE "ack_off"
StatusOf(b) == IF b THEN "CONNECTED" ELSE "NOT_CONNECTED"
Truth(j) ==
  (Listed(j) /\ life[j] = "running" /\ reload[j] # "reloading" /\ j \notin missed) =>
    /\ reports[j] # <<>> => reports[j][Len(reports[j])] = AckOf(on[j])
    /\ (reports[j] = <<>> /\ commands[j] = <<>> /\ j \notin strayed /\ window = "wired") =>
         view.status[view.items[j]] = StatusOf(on[j])

JvmInv(j) ==
  /\ Known(j)
  /\ view.current = 0 => Quiet(j)
  /\ Truth(j)

(* The inductive invariant; once rows may be lost nothing is claimed.      *)
Inv ==
  /\ Types
  /\ ViewOK(view)
  /\ window = "closed" => view = EmptyView
  /\ RowsOK
  /\ \A j \in Jvms : JvmInv(j)
  /\ ended # "report"
IInv == reopened \/ Inv
-----------------------------------------------------------------------------
(* What is in a sequence after an operation on it.                         *)
LEMMA AppendIs ==
  ASSUME NEW S, NEW s \in Seq(S), NEW x \in S
  PROVE  /\ Append(s, x) \in Seq(S) /\ Append(s, x) # <<>>
         /\ Len(s) \in Nat /\ Len(Append(s, x)) = Len(s) + 1 /\ Append(s, x)[Len(s) + 1] = x
         /\ \A i \in 1 .. Len(s) : Append(s, x)[i] = s[i]
         /\ \A y : In(Append(s, x), y) <=> (In(s, y) \/ x = y)
<1>1. /\ Append(s, x) \in Seq(S)
      /\ Len(s) \in Nat /\ Len(Append(s, x)) = Len(s) + 1 /\ Append(s, x)[Len(s) + 1] = x
      /\ \A i \in 1 .. Len(s) : Append(s, x)[i] = s[i]
  BY AppendProperties
<1>2. 1 .. (Len(s) + 1) = (1 .. Len(s)) \cup {Len(s) + 1}
  BY <1>1
<1>3. \A y : In(Append(s, x), y) <=> (In(s, y) \/ x = y)
  BY <1>1, <1>2 DEF In
<1>4. Append(s, x) # <<>>
  BY <1>1
<1> QED BY <1>1, <1>3, <1>4

LEMMA TailIs ==
  ASSUME NEW S, NEW s \in Seq(S), s # <<>>
  PROVE  /\ Tail(s) \in Seq(S) /\ Head(s) \in S
         /\ In(s, Head(s))
         /\ \A y : In(Tail(s), y) => In(s, y)
         /\ Tail(s) = <<>> => Head(s) = s[Len(s)]
         /\ Tail(s) # <<>> => Tail(s)[Len(Tail(s))] = s[Len(s)]
<1>1. /\ Tail(s) \in Seq(S) /\ Len(s) \in Nat \ {0} /\ Len(Tail(s)) = Len(s) - 1
      /\ Head(s) = s[1] /\ Head(s) \in S
      /\ \A i \in 1 .. Len(Tail(s)) : Tail(s)[i] = s[i + 1]
  BY HeadTailProperties
<1>2. 1 \in 1 .. Len(s) /\ \A i \in 1 .. Len(Tail(s)) : i + 1 \in 1 .. Len(s)
  BY <1>1
<1>3. In(s, Head(s)) /\ \A y : In(Tail(s), y) => In(s, y)
  BY <1>1, <1>2 DEF In
<1>4. ASSUME Tail(s) = <<>> PROVE Head(s) = s[Len(s)]
  <2>0. Len(<<>>) = 0
    OBVIOUS
  <2>1. Len(Tail(s)) = 0
    BY <1>4, <2>0
  <2>2. \A m, k \in Nat : k = m - 1 /\ k = 0 => m = 1
    OBVIOUS
  <2>3. Len(s) \in Nat /\ Len(Tail(s)) = Len(s) - 1 /\ Head(s) = s[1]
    BY <1>1
  <2>4. Len(s) = 1
    BY <2>1, <2>2, <2>3
  <2> QED BY <2>3, <2>4
<1>5. ASSUME Tail(s) # <<>> PROVE Tail(s)[Len(Tail(s))] = s[Len(s)]
  <2>1. Len(Tail(s)) # 0
    BY <1>1, <1>5
  <2>2. Len(Tail(s)) \in 1 .. Len(Tail(s)) /\ Len(Tail(s)) + 1 = Len(s)
    BY <1>1, <2>1
  <2> QED BY <1>1, <2>2
<1> QED BY <1>1, <1>3, <1>4, <1>5

LEMMA InsertIs ==
  ASSUME NEW S, NEW s \in Seq(S), NEW n \in 0 .. Len(s), NEW x \in S
  PROVE  /\ InsertAt(s, n + 1, x) \in Seq(S)
         /\ \A y : In(InsertAt(s, n + 1, x), y) => In(s, y) \/ x = y
<1> DEFINE a == SubSeq(s, 1, (n + 1) - 1)
           b == SubSeq(s, n + 1, Len(s))
           c == a \o <<x>>
<1>1. n \in Nat /\ Len(s) \in Nat /\ n <= Len(s) /\ (n + 1) - 1 = n
  OBVIOUS
<1>2. a \in Seq(S) /\ \A i \in 1 .. Len(a) : In(s, a[i])
  <2>1. a = SubSeq(s, 1, n)
    BY <1>1
  <2>2. a = [i \in 1 .. n |-> s[i]]
    BY <1>1, <2>1
  <2>3. \A i \in 1 .. n : i \in 1 .. Len(s) /\ s[i] \in S
    BY <1>1
  <2> QED BY <1>1, <2>2, <2>3 DEF In
<1>3. b \in Seq(S) /\ \A i \in 1 .. Len(b) : In(s, b[i])
  <2>1. /\ b \in Seq(S)
        /\ Len(b) = IF n + 1 <= Len(s) THEN Len(s) - (n + 1) + 1 ELSE 0
        /\ \A i \in 1 .. Len(s) - (n + 1) + 1 : b[i] = s[(n + 1) + i - 1]
    BY <1>1, SubSeqProperties
  <2>2. \A i \in 1 .. Len(b) : i \in 1 .. Len(s) - (n + 1) + 1 /\ (n + 1) + i - 1 \in 1 .. Len(s)
    BY <1>1, <2>1
  <2> QED BY <2>1, <2>2 DEF In
<1> HIDE DEF a, b
<1>4. ASSUME NEW u \in Seq(S), NEW v \in Seq(S)
      PROVE  /\ u \o v \in Seq(S)
             /\ \A y : In(u \o v, y) => In(u, y) \/ In(v, y)
  <2>1. /\ u \o v \in Seq(S) /\ Len(u \o v) = Len(u) + Len(v)
        /\ Len(u) \in Nat /\ Len(v) \in Nat
        /\ \A i \in 1 .. Len(u) + Len(v) : (u \o v)[i] = IF i <= Len(u) THEN u[i] ELSE v[i - Len(u)]
    BY ConcatProperties
  <2>2. \A i \in 1 .. Len(u) + Len(v) :
          IF i <= Len(u) THEN i \in 1 .. Len(u) ELSE i - Len(u) \in 1 .. Len(v)
    BY <2>1
  <2> QED BY <2>1, <2>2 DEF In
<1>5. <<x>> \in Seq(S) /\ \A y : In(<<x>>, y) => x = y
  BY DEF In
<1>6. c \in Seq(S) /\ \A y : In(c, y) => In(a, y) \/ x = y
  BY <1>2, <1>4, <1>5
<1> HIDE DEF c
<1>7. c \o b \in Seq(S) /\ \A y : In(c \o b, y) => In(c, y) \/ In(b, y)
  BY <1>3, <1>4, <1>6
<1>8. InsertAt(s, n + 1, x) = c \o b
  BY DEF InsertAt, a, b, c
<1>9. \A y : (In(a, y) => In(s, y)) /\ (In(b, y) => In(s, y))
  BY <1>2, <1>3 DEF In
<1> QED BY <1>6, <1>7, <1>8, <1>9

(* The farewell of a JVM that has only announced itself comes after that.  *)
LEMMA FarewellFollows ==
  ASSUME NEW n \in 0 .. 1, "ready" \notin ToSet(SubSeq(<<"ready">>, n + 1, 1))
  PROVE  InsertAt(<<"ready">>, n + 1, "unloaded") = <<"ready", "unloaded">>
<1> DEFINE one == <<"ready">>
<1>1. one \in Seq(Reports) /\ Len(one) = 1 /\ "ready" \in ToSet(one)
  BY DEF ToSet, Reports
<1>2. one \o <<"unloaded">> = <<"ready", "unloaded">>
  <2> DEFINE two == <<"ready", "unloaded">>
  <2>1. two \in Seq(Reports) /\ Len(two) = 2 /\ two[1] = "ready" /\ two[2] = "unloaded"
    BY DEF Reports
  <2>2. "unloaded" \in Reports /\ one[1] = "ready"
    BY DEF Reports
  <2> HIDE DEF one, two
  <2> DEFINE c == Append(one, "unloaded")
  <2>3. c \in Seq(Reports) /\ Len(c) = 2 /\ c[1] = "ready" /\ c[2] = "unloaded"
    <3>1. one \in Seq(Reports)
      BY <1>1
    <3>2. /\ c \in Seq(Reports) /\ Len(c) = Len(one) + 1 /\ c[Len(one) + 1] = "unloaded"
          /\ \A i \in 1 .. Len(one) : c[i] = one[i]
      BY <2>2, <3>1, AppendProperties
    <3> HIDE DEF c
    <3>3. Len(one) = 1
      BY <1>1
    <3>4. Len(c) = 2 /\ c[2] = "unloaded" /\ c[1] = one[1]
      BY <3>2, <3>3
    <3> QED BY <2>2, <3>2, <3>4
  <2>4. c = one \o <<"unloaded">>
    BY <1>1, <2>2, AppendIsConcat
  <2> HIDE DEF c
  <2>5. \A i \in 1 .. Len(c) : c[i] = two[i]
    BY <2>1, <2>3
  <2>6. c = two
    BY <2>1, <2>3, <2>5, SeqEqual
  <2> QED BY <2>4, <2>6 DEF two
<1>3. <<"ready", "unloaded">> \in Seq(Reports)
  BY DEF Reports
<1>4. <<"ready", "unloaded">> \o <<>> = <<"ready", "unloaded">>
  BY <1>3, ConcatEmptySeq
<1> HIDE DEF one
<1>5. SubSeq(one, 1, 1) = one
  BY <1>1, SubSeqFull
<1>6. SubSeq(one, 2, 1) = <<>>
  BY <1>1, SubSeqEmpty
<1>7. n = 1
  <2>1. "ready" \notin ToSet(SubSeq(one, n + 1, 1))
    BY DEF one
  <2>2. CASE n = 0
    <3>1. n + 1 = 1
      BY <2>2
    <3> QED BY <1>1, <1>5, <2>1, <3>1
  <2> QED BY <2>2
<1>8. InsertAt(one, 2, "unloaded") = SubSeq(one, 1, 1) \o <<"unloaded">> \o SubSeq(one, 2, Len(one))
  BY DEF InsertAt
<1>9. InsertAt(one, 2, "unloaded") = <<"ready", "unloaded">>
  BY <1>1, <1>2, <1>4, <1>5, <1>6, <1>8
<1> QED BY <1>7, <1>9 DEF one
-----------------------------------------------------------------------------
LEMMA InitInv == Init => Inv
<1> SUFFICES ASSUME Init PROVE Inv
  OBVIOUS
<1>1. Types
  BY DEF Init, Types
<1>2. ViewOK(EmptyView)
  BY DEF EmptyView, ViewOK, HasRow
<1>3. RowsOK
  BY DEF Init, RowsOK, EmptyView, NoMenu
<1>4. \A j \in Jvms : JvmInv(j)
  BY DEF Init, JvmInv, Known, Announced, Listed, Quiet, Truth, In, EmptyView
<1> QED BY <1>1, <1>2, <1>3, <1>4 DEF Inv, Init

(* A step that leaves j as it is, and its row.                             *)
LEMMA JvmFrame ==
  ASSUME NEW j, JvmInv(j),
         life'[j] = life[j], on'[j] = on[j], reload'[j] = reload[j],
         commands'[j] = commands[j], reports'[j] = reports[j],
         j \in missed => j \in missed', j \in strayed => j \in strayed',
         Listed(j)' <=> Listed(j),
         view'.current = 0 => view.current = 0,
         Listed(j) => view'.status[view'.items[j]] = view.status[view.items[j]],
         window' = "wired" => window = "wired" \/ ~Listed(j)
  PROVE  JvmInv(j)'
<1>1. Known(j)'
  BY DEF JvmInv, Known, Announced, Leaving
<1>2. view'.current = 0 => Quiet(j)'
  BY DEF JvmInv, Quiet
<1>3. Truth(j)'
  BY DEF JvmInv, Truth
<1> QED BY <1>1, <1>2, <1>3 DEF JvmInv

(* The rows, when only JVMs do something.                                  *)
LEMMA RowsFrame ==
  ASSUME RowsOK, UNCHANGED <<view, menu, slipped>>,
         \A r \in 1 .. Len(view.rows) : Leaving(view.rows[r]) => Leaving(view.rows[r])'
  PROVE  RowsOK'
BY DEF RowsOK, LeavingRow, HasRow

(* A step of the JVM j, or of what goes to it and comes from it.           *)
LEMMA JvmStep ==
  ASSUME Inv, NEW j \in Jvms,
         UNCHANGED <<window, view, menu, strayed, slipped>>, ended' # "report", Types',
         \A k \in Jvms \ {j} :
           /\ life'[k] = life[k] /\ on'[k] = on[k] /\ reload'[k] = reload[k]
           /\ commands'[k] = commands[k] /\ reports'[k] = reports[k]
           /\ k \in missed => k \in missed',
         Leaving(j) => Leaving(j)',
         JvmInv(j)'
  PROVE  Inv'
<1>1. ASSUME NEW k \in Jvms, k # j PROVE JvmInv(k)'
  <2>1. JvmInv(k) /\ (Listed(k)' <=> Listed(k))
    BY DEF Inv, Listed
  <2> QED BY <1>1, <2>1, JvmFrame
<1>2. \A k \in Jvms : Leaving(k) => Leaving(k)'
  BY DEF Leaving
<1>3. RowsOK'
  <2>1. \A r \in 1 .. Len(view.rows) : view.rows[r] \in Jvms
    BY DEF Inv, ViewOK
  <2> QED BY <1>2, <2>1, RowsFrame DEF Inv
<1>4. ViewOK(view)' /\ (window' = "closed" => view' = EmptyView')
  BY DEF Inv, ViewOK, HasRow, EmptyView
<1> QED BY <1>1, <1>3, <1>4 DEF Inv

LEMMA JvmActionsInv ==
  ASSUME Inv, NEW j \in Jvms, Jvm(j) \/ SendFails(j), ended = "no"
  PROVE  Inv'
<1>1. /\ Types /\ JvmInv(j)
      /\ commands[j] \in Seq(Commands) /\ reports[j] \in Seq(Reports)
  BY DEF Inv, Types
<1>2. Known(j) /\ Truth(j) /\ (view.current = 0 => Quiet(j))
  BY <1>1 DEF JvmInv
<1>3. CASE Load(j)
  <2>1. /\ UNCHANGED <<on, reload, missed, commands>> /\ UNCHANGED viewVars
        /\ life[j] = "new"
        /\ life' = [life EXCEPT ![j] = "running"]
        /\ reports' = [reports EXCEPT ![j] = <<"ready">>]
    BY <1>3 DEF Load
  <2>2. Types'
    <3>1. <<"ready">> \in Seq(Reports)
      BY DEF Reports
    <3> QED BY <1>1, <2>1, <3>1 DEF Types, viewVars
  <2>3. /\ life'[j] = "running" /\ reports'[j] = <<"ready">>
        /\ \A k \in Jvms \ {j} : life'[k] = life[k] /\ reports'[k] = reports[k]
    BY <1>1, <2>1 DEF Types
  <2>4. ~Listed(j) /\ commands[j] = <<>> /\ ~on[j] /\ reload[j] # "reloading"
    BY <1>2, <2>1 DEF Known
  <2>5. \A y : In(<<"ready">>, y) <=> y = "ready"
    BY DEF In
  <2>6. JvmInv(j)'
    BY <2>1, <2>3, <2>4, <2>5 DEF JvmInv, Known, Announced, Quiet, Truth, Listed, viewVars
  <2>7. Leaving(j) => Leaving(j)'
    BY <2>1 DEF Leaving
  <2> QED BY <2>1, <2>2, <2>3, <2>6, <2>7, JvmStep DEF viewVars, Inv
<1>4. CASE ReadCommand(j)
  <2>1. /\ UNCHANGED <<life, reports>> /\ UNCHANGED viewVars
        /\ commands[j] # <<>>
        /\ commands' = [commands EXCEPT ![j] = Tail(@)]
        /\ on' = [on EXCEPT ![j] = Head(commands[j]) = "turn_on_profiler"]
        /\ \/ reload' = [reload EXCEPT ![j] = "reloading"] /\ missed' = missed
           \/ missed' = missed \cup {j} /\ reload' = reload
    BY <1>4 DEF ReadCommand
  <2>2. Tail(commands[j]) \in Seq(Commands)
    BY <1>1, <2>1, TailIs
  <2>3. Types'
    BY <1>1, <2>1, <2>2 DEF Types, viewVars
  <2>4. /\ \A k \in Jvms \ {j} : commands'[k] = commands[k] /\ on'[k] = on[k] /\ reload'[k] = reload[k]
        /\ \A k : k \in missed => k \in missed'
        /\ reload'[j] = "reloading" \/ j \in missed'
    BY <1>1, <2>1 DEF Types
  <2>5. Listed(j) /\ view.current # 0
    BY <1>2, <2>1 DEF Known, Quiet
  <2>6. JvmInv(j)'
    BY <1>2, <2>1, <2>4, <2>5 DEF JvmInv, Known, Truth, Listed, Leaving, viewVars
  <2>7. Leaving(j) => Leaving(j)'
    BY <2>1 DEF Leaving
  <2> QED BY <2>1, <2>3, <2>4, <2>6, <2>7, JvmStep DEF viewVars, Inv
<1>5. CASE Acknowledge(j)
  <2> DEFINE ack == AckOf(on[j])
  <2>1. /\ UNCHANGED <<life, on, commands>> /\ UNCHANGED viewVars
        /\ reload[j] = "reloading"
        /\ reload' = [reload EXCEPT ![j] = "busy"]
        /\ reports' = [reports EXCEPT ![j] = Append(@, ack)]
        /\ missed' = missed \ {j}
    BY <1>5 DEF Acknowledge, AckOf
  <2>2. ack \in {"ack_on", "ack_off"} /\ ack \in Reports
    BY DEF AckOf, Reports
  <2> DEFINE s == Append(reports[j], ack)
  <2>3. /\ s \in Seq(Reports)
        /\ s # <<>> /\ s[Len(s)] = ack
        /\ \A y : In(s, y) <=> (In(reports[j], y) \/ y = ack)
    <3> HIDE DEF ack
    <3>1. /\ s \in Seq(Reports) /\ s # <<>>
          /\ Len(s) = Len(reports[j]) + 1 /\ s[Len(reports[j]) + 1] = ack
          /\ \A y : In(s, y) <=> (In(reports[j], y) \/ ack = y)
      BY <1>1, <2>2, AppendIs
    <3> QED BY <3>1
  <2>4. Types'
    BY <1>1, <2>1, <2>3 DEF Types, viewVars
  <2>5. /\ reload'[j] = "busy" /\ reports'[j] = s
        /\ \A k \in Jvms \ {j} : reload'[k] = reload[k] /\ reports'[k] = reports[k]
    BY <1>1, <2>1 DEF Types
  <2>6. Listed(j) /\ view.current # 0
    BY <1>2, <2>1 DEF Known, Quiet
  <2> HIDE DEF s
  <2>7. Known(j)'
    BY <1>2, <2>1, <2>2, <2>3, <2>5, <2>6 DEF Known, Listed, Leaving, viewVars
  <2>8. Truth(j)'
    BY <2>1, <2>3, <2>5 DEF Truth, viewVars
  <2>9. JvmInv(j)'
    BY <2>1, <2>6, <2>7, <2>8 DEF JvmInv, viewVars
  <2>10. Leaving(j) => Leaving(j)'
    BY <2>1 DEF Leaving
  <2> QED BY <2>1, <2>4, <2>5, <2>9, <2>10, JvmStep DEF viewVars, Inv
<1>6. CASE Wait(j)
  <2>1. /\ UNCHANGED <<life, on, missed, commands, reports>> /\ UNCHANGED viewVars
        /\ reload[j] = "busy" /\ reload' = [reload EXCEPT ![j] = "waiting"]
    BY <1>6 DEF Wait
  <2>2. Types'
    BY <1>1, <2>1 DEF Types, viewVars
  <2>3. reload'[j] = "waiting" /\ \A k \in Jvms \ {j} : reload'[k] = reload[k]
    BY <1>1, <2>1 DEF Types
  <2>4. JvmInv(j)'
    BY <1>2, <2>1, <2>3 DEF JvmInv, Known, Announced, Truth, Quiet, Listed, Leaving, viewVars
  <2>5. Leaving(j) => Leaving(j)'
    BY <2>1 DEF Leaving
  <2> QED BY <2>1, <2>2, <2>3, <2>4, <2>5, JvmStep DEF viewVars, Inv
<1>7. CASE Unload(j)
  <2>1. PICK n \in 0 .. Len(reports[j]) :
          /\ "ready" \notin ToSet(SubSeq(reports[j], n + 1, Len(reports[j])))
          /\ reports' = [reports EXCEPT ![j] = InsertAt(@, n + 1, "unloaded")]
    BY <1>7 DEF Unload
  <2>2. /\ UNCHANGED <<on, reload, missed, commands>> /\ UNCHANGED viewVars
        /\ life[j] = "running" /\ life' = [life EXCEPT ![j] = "unloading"]
    BY <1>7 DEF Unload
  <2> DEFINE s == InsertAt(reports[j], n + 1, "unloaded")
  <2>3. s \in Seq(Reports) /\ \A y : In(s, y) => In(reports[j], y) \/ y = "unloaded"
    <3>1. "unloaded" \in Reports
      BY DEF Reports
    <3> QED BY <1>1, <3>1, InsertIs
  <2>4. Types'
    BY <1>1, <2>1, <2>2, <2>3 DEF Types, viewVars
  <2>5. /\ life'[j] = "unloading" /\ reports'[j] = s
        /\ \A k \in Jvms \ {j} : life'[k] = life[k] /\ reports'[k] = reports[k]
    BY <1>1, <2>1, <2>2 DEF Types
  <2>6. ~Listed(j) => s = <<"ready", "unloaded">>
    <3> SUFFICES ASSUME ~Listed(j) PROVE s = <<"ready", "unloaded">>
      OBVIOUS
    <3>1. reports[j] = <<"ready">>
      BY <1>2, <2>2 DEF Known, Announced
    <3>2. Len(<<"ready">>) = 1
      OBVIOUS
    <3> QED BY <2>1, <3>1, <3>2, FarewellFollows
  <2> HIDE DEF s
  <2>7. Known(j)'
    BY <1>2, <2>2, <2>3, <2>5, <2>6 DEF Known, Announced, Listed, Leaving, viewVars
  <2>8. JvmInv(j)'
    BY <1>2, <2>2, <2>3, <2>5, <2>7 DEF JvmInv, Quiet, Truth, viewVars
  <2>9. Leaving(j) => Leaving(j)'
    BY <2>5 DEF Leaving
  <2> QED BY <2>2, <2>4, <2>5, <2>8, <2>9, JvmStep DEF viewVars, Inv
<1>8. CASE Exit(j)
  <2>1. /\ UNCHANGED <<commands, reports>> /\ UNCHANGED viewVars
        /\ life[j] \in {"running", "unloading"}
        /\ life' = [life EXCEPT ![j] = "gone"]
        /\ on' = [on EXCEPT ![j] = FALSE]
        /\ reload' = [reload EXCEPT ![j] = "busy"]
        /\ missed' = missed \ {j}
    BY <1>8 DEF Exit, Alive
  <2>2. Types'
    BY <1>1, <2>1 DEF Types, viewVars
  <2>3. /\ life'[j] = "gone" /\ ~on'[j] /\ reload'[j] = "busy"
        /\ \A k \in Jvms \ {j} : life'[k] = life[k] /\ on'[k] = on[k] /\ reload'[k] = reload[k]
    BY <1>1, <2>1 DEF Types
  <2>4. JvmInv(j)'
    BY <1>2, <2>1, <2>3 DEF JvmInv, Known, Announced, Truth, Quiet, Listed, Leaving, viewVars
  <2>5. Leaving(j) => Leaving(j)'
    BY <2>3 DEF Leaving
  <2> QED BY <2>1, <2>2, <2>3, <2>4, <2>5, JvmStep DEF viewVars, Inv
<1>9. CASE SendFails(j)
  <2>1. /\ UNCHANGED <<window, view, menu, strayed, slipped, reports>> /\ UNCHANGED jvmVars
        /\ life[j] = "gone" /\ commands[j] # <<>>
        /\ commands' = [commands EXCEPT ![j] = <<>>]
        /\ ended' # "report"
    BY <1>9 DEF SendFails
  <2>2. Types'
    BY <1>1, <2>1 DEF Types, jvmVars
  <2>3. \A k \in Jvms \ {j} : commands'[k] = commands[k]
    BY <1>1, <2>1 DEF Types
  <2>4. Listed(j) /\ view.current # 0
    BY <1>2, <2>1 DEF Known, Quiet
  <2>5. JvmInv(j)'
    BY <1>2, <2>1, <2>4 DEF JvmInv, Known, Truth, Listed, Leaving, jvmVars
  <2>6. Leaving(j) => Leaving(j)'
    BY <2>1 DEF Leaving, jvmVars
  <2> QED BY <2>1, <2>2, <2>3, <2>5, <2>6, JvmStep DEF jvmVars
<1> QED BY <1>3, <1>4, <1>5, <1>6, <1>7, <1>8, <1>9 DEF Jvm
-----------------------------------------------------------------------------
(* What a new row and a status do to the view.                             *)
LEMMA NewRowIs ==
  ASSUME NEW v, ViewOK(v), NEW j \in Jvms, j \notin DOMAIN v.items
  PROVE  /\ ViewOK(NewRow(v, j))
         /\ NewRow(v, j).hidden = v.hidden
         /\ DOMAIN NewRow(v, j).items = DOMAIN v.items \cup {j}
         /\ NewRow(v, j).current = 0 => v.current = 0 /\ ~v.auto
         /\ Len(NewRow(v, j).rows) = Len(v.rows) + 1
         /\ \A r \in 1 .. Len(v.rows) :
              NewRow(v, j).rows[r] = v.rows[r] /\ NewRow(v, j).status[r] = v.status[r]
         /\ \A k \in DOMAIN v.items : NewRow(v, j).status[NewRow(v, j).items[k]] = v.status[v.items[k]]
         /\ NewRow(v, j).status[NewRow(v, j).items[j]] = IF v.auto THEN "CONNECTED" ELSE "NOT_CONNECTED"
         /\ NewRow(v, j).status[Len(v.rows) + 1] # "DROPPED"
<1> DEFINE r == Len(v.rows) + 1
           x == IF v.auto THEN "CONNECTED" ELSE "NOT_CONNECTED"
           w == NewRow(v, j)
<1>1. /\ w.rows = Append(v.rows, j)
      /\ w.items = Put(v.items, j, r)
      /\ w.status = Append(v.status, x)
      /\ w.hidden = v.hidden
      /\ w.current = (IF v.auto THEN r ELSE v.current)
      /\ w = [rows |-> w.rows, items |-> w.items, status |-> w.status, hidden |-> w.hidden,
              current |-> w.current, auto |-> w.auto]
  <2>1. v = [rows |-> v.rows, items |-> v.items, status |-> v.status, hidden |-> v.hidden,
             current |-> v.current, auto |-> v.auto]
    BY DEF ViewOK
  <2>2. w = [v EXCEPT !.rows = Append(v.rows, j), !.items = Put(v.items, j, r),
                      !.status = Append(v.status, x),
                      !.current = IF v.auto THEN r ELSE v.current]
    BY DEF NewRow
  <2> HIDE DEF w, x, r
  <2>3. w = [rows |-> Append(v.rows, j), items |-> Put(v.items, j, r),
             status |-> Append(v.status, x), hidden |-> v.hidden,
             current |-> IF v.auto THEN r ELSE v.current, auto |-> v.auto]
    BY <2>1, <2>2
  <2> QED BY <2>3
<1>2. /\ v.rows \in Seq(Jvms) /\ v.status \in Seq(Statuses) /\ Len(v.status) = Len(v.rows)
      /\ v.current \in 0 .. Len(v.rows)
      /\ \A k \in DOMAIN v.items : k \in Jvms /\ v.items[k] \in 1 .. Len(v.rows) /\ v.rows[v.items[k]] = k
      /\ \A i \in 1 .. Len(v.rows) : v.rows[i] \in DOMAIN v.items /\ v.items[v.rows[i]] = i
  BY DEF ViewOK, HasRow
<1>3. x \in Statuses /\ x # "DROPPED"
  BY DEF Statuses
<1> HIDE DEF w, x
<1>4. /\ w.rows \in Seq(Jvms) /\ Len(w.rows) = Len(v.rows) + 1 /\ w.rows[Len(v.rows) + 1] = j
      /\ \A i \in 1 .. Len(v.rows) : w.rows[i] = v.rows[i]
      /\ Len(v.rows) \in Nat
  <2>1. v.rows \in Seq(Jvms)
    BY <1>2
  <2> QED BY <1>1, <2>1, AppendIs
<1>5. /\ w.status \in Seq(Statuses) /\ Len(w.status) = Len(v.status) + 1
      /\ w.status[Len(v.status) + 1] = x
      /\ \A i \in 1 .. Len(v.status) : w.status[i] = v.status[i]
  <2>1. v.status \in Seq(Statuses)
    BY <1>2
  <2> QED BY <1>1, <1>3, <2>1, AppendIs
<1>6. /\ DOMAIN w.items = DOMAIN v.items \cup {j} /\ w.items[j] = r
      /\ \A k \in DOMAIN v.items : w.items[k] = v.items[k]
      /\ w.items = [k \in DOMAIN w.items |-> w.items[k]]
  BY <1>1 DEF Put
<1>7. 1 .. Len(w.rows) = (1 .. Len(v.rows)) \cup {r} /\ r \notin 1 .. Len(v.rows) /\ r # 0
  BY <1>4
<1>8. w.current \in 0 .. Len(w.rows) /\ (w.current = 0 => v.current = 0 /\ ~v.auto)
  BY <1>1, <1>2, <1>4
<1>9. \A k \in DOMAIN w.items : k \in Jvms /\ w.items[k] \in 1 .. Len(w.rows) /\ w.rows[w.items[k]] = k
  <2>1. ASSUME NEW k \in DOMAIN v.items
        PROVE  k \in Jvms /\ w.items[k] \in 1 .. Len(w.rows) /\ w.rows[w.items[k]] = k
    <3>1. w.items[k] = v.items[k] /\ v.items[k] \in 1 .. Len(v.rows) /\ k \in Jvms /\ v.rows[v.items[k]] = k
      BY <1>2, <1>6
    <3> QED BY <1>4, <1>7, <3>1
  <2>2. j \in Jvms /\ w.items[j] \in 1 .. Len(w.rows) /\ w.rows[w.items[j]] = j
    BY <1>4, <1>6, <1>7
  <2> QED BY <1>6, <2>1, <2>2
<1>10. \A i \in 1 .. Len(w.rows) : w.rows[i] \in DOMAIN w.items /\ w.items[w.rows[i]] = i
  BY <1>2, <1>4, <1>6, <1>7
<1>11. ViewOK(w)
  BY <1>1, <1>2, <1>4, <1>5, <1>6, <1>8, <1>9, <1>10 DEF ViewOK, HasRow
<1>12. /\ \A i \in 1 .. Len(v.rows) : w.rows[i] = v.rows[i] /\ w.status[i] = v.status[i]
       /\ \A k \in DOMAIN v.items : w.status[w.items[k]] = v.status[v.items[k]]
       /\ w.status[w.items[j]] = x
       /\ w.status[Len(v.rows) + 1] # "DROPPED"
  BY <1>2, <1>3, <1>4, <1>5, <1>6
<1> QED BY <1>1, <1>4, <1>6, <1>8, <1>11, <1>12 DEF w, x

LEMMA Fields ==
  ASSUME NEW v, ViewOK(v), NEW x, NEW i
  PROVE  [v EXCEPT !.items = i, !.status = x]
           = [rows |-> v.rows, items |-> i, status |-> x, hidden |-> v.hidden,
              current |-> v.current, auto |-> v.auto]
<1>1. v = [rows |-> v.rows, items |-> v.items, status |-> v.status, hidden |-> v.hidden,
           current |-> v.current, auto |-> v.auto]
  BY DEF ViewOK
<1>2. PICK w : w = [v EXCEPT !.items = i, !.status = x]
  OBVIOUS
<1>3. w = [rows |-> v.rows, items |-> i, status |-> x, hidden |-> v.hidden,
           current |-> v.current, auto |-> v.auto]
  BY <1>1, <1>2
<1> QED BY <1>2, <1>3

LEMMA StatusField ==
  ASSUME NEW v, ViewOK(v), NEW x
  PROVE  [v EXCEPT !.status = x]
           = [rows |-> v.rows, items |-> v.items, status |-> x, hidden |-> v.hidden,
              current |-> v.current, auto |-> v.auto]
BY DEF ViewOK

WithStatus(v, r, x) ==
  [rows |-> v.rows, items |-> v.items, status |-> [v.status EXCEPT ![r] = x],
   hidden |-> v.hidden, current |-> v.current, auto |-> v.auto]

Shows(w, v, r, x) ==
  /\ ViewOK(w)
  /\ w.rows = v.rows /\ w.items = v.items /\ w.hidden = v.hidden /\ w.current = v.current
  /\ w.status[r] = x
  /\ \A i \in 1 .. Len(v.rows) : i # r => w.status[i] = v.status[i]
  /\ \A k \in DOMAIN v.items : k # v.rows[r] => w.status[w.items[k]] = v.status[v.items[k]]
  /\ w.status[w.items[v.rows[r]]] = x

LEMMA StatusIs ==
  ASSUME NEW v, ViewOK(v), NEW r \in 1 .. Len(v.rows), NEW x \in Statuses,
         NEW w, w = WithStatus(v, r, x)
  PROVE  Shows(w, v, r, x)
<1>1. /\ w.rows = v.rows /\ w.items = v.items /\ w.hidden = v.hidden /\ w.current = v.current
      /\ w.status = [v.status EXCEPT ![r] = x]
      /\ w = [rows |-> w.rows, items |-> w.items, status |-> w.status, hidden |-> w.hidden,
              current |-> w.current, auto |-> w.auto]
  BY DEF WithStatus
<1>2. /\ v.status \in Seq(Statuses) /\ Len(v.status) = Len(v.rows) /\ r \in 1 .. Len(v.status)
      /\ \A k \in DOMAIN v.items : v.items[k] \in 1 .. Len(v.rows) /\ v.rows[v.items[k]] = k
      /\ v.items[v.rows[r]] = r
      /\ v.items = [k \in DOMAIN v.items |-> v.items[k]]
  BY DEF ViewOK, HasRow
<1>3. /\ w.status \in Seq(Statuses) /\ Len(w.status) = Len(v.status)
      /\ w.status[r] = x
      /\ \A i \in 1 .. Len(v.status) : i # r => w.status[i] = v.status[i]
  <2>1. v.status \in Seq(Statuses) /\ r \in 1 .. Len(v.status)
    BY <1>2
  <2> QED BY <1>1, <2>1, ExceptSeq
<1>4. ViewOK(w)
  BY <1>1, <1>2, <1>3 DEF ViewOK, HasRow
<1> QED BY <1>1, <1>2, <1>3, <1>4 DEF Shows
-----------------------------------------------------------------------------
LEMMA HandleReportInv ==
  ASSUME Inv, NEW j \in Jvms, HandleReport(j), ended = "no"
  PROVE  Inv'
<1> DEFINE w == IF window = "closed" THEN "unwired" ELSE window
           report == Head(reports[j])
<1>1. /\ Types /\ JvmInv(j) /\ ViewOK(view)
      /\ commands[j] \in Seq(Commands) /\ reports[j] \in Seq(Reports)
      /\ \A k \in Jvms : JvmInv(k)
  BY DEF Inv, Types
<1>2. Known(j) /\ Truth(j) /\ (view.current = 0 => Quiet(j))
  BY <1>1 DEF JvmInv
<1>3. /\ UNCHANGED <<life, on, reload, missed, menu, slipped>>
      /\ reports[j] # <<>> /\ reports' = [reports EXCEPT ![j] = Tail(@)]
      /\ window' = w
      /\ \/ report = "ready" /\ RemoteReady(view, w, j)
         \/ report = "unloaded" /\ RemoteDisconnected(view, j)
         \/ report = "ack_on" /\ RemoteAck(view, j, "CONNECTED")
         \/ report = "ack_off" /\ RemoteAck(view, j, "NOT_CONNECTED")
  BY DEF Inv, HandleReport, jvmVars
<1>4. /\ Tail(reports[j]) \in Seq(Reports) /\ In(reports[j], report)
      /\ \A y : In(Tail(reports[j]), y) => In(reports[j], y)
      /\ Tail(reports[j]) = <<>> => report = reports[j][Len(reports[j])]
      /\ Tail(reports[j]) # <<>> =>
           Tail(reports[j])[Len(Tail(reports[j]))] = reports[j][Len(reports[j])]
  BY <1>1, <1>3, TailIs
<1>5. /\ reports'[j] = Tail(reports[j])
      /\ \A k \in Jvms \ {j} : reports'[k] = reports[k]
  BY <1>1, <1>3 DEF Types
<1>6. /\ w \in {"wired", "unwired"} /\ (w = "wired" => window = "wired")
  BY <1>1 DEF Types
<1>7. \A k \in Jvms : Leaving(k)' <=> Leaving(k)
  BY <1>3 DEF Leaving
<1>8. reports' \in [Jvms -> Seq(Reports)]
  BY <1>1, <1>3, <1>4 DEF Types
<1> HIDE DEF w
<1>9. CASE report = "ready"
  <2>1. RemoteReady(view, w, j)
    BY <1>3, <1>9
  <2>2. /\ ~Listed(j) /\ commands[j] = <<>> /\ ~on[j] /\ reload[j] # "reloading" /\ Announced(j)
    BY <1>2, <1>4, <1>9 DEF Known
  <2>3. /\ view' = NewRow(view, j)
        /\ IF view.auto THEN SendTo(j, "turn_on_profiler", w) ELSE UNCHANGED commands
        /\ UNCHANGED <<ended, strayed>>
    BY <2>1, <2>2 DEF RemoteReady, Listed
  <2>4. /\ ViewOK(view') /\ view'.hidden = view.hidden
        /\ DOMAIN view'.items = DOMAIN view.items \cup {j}
        /\ view'.current = 0 => view.current = 0 /\ ~view.auto
        /\ Len(view'.rows) = Len(view.rows) + 1
        /\ \A r \in 1 .. Len(view.rows) : view'.rows[r] = view.rows[r] /\ view'.status[r] = view.status[r]
        /\ \A k \in DOMAIN view.items : view'.status[view'.items[k]] = view.status[view.items[k]]
        /\ view'.status[view'.items[j]] = IF view.auto THEN "CONNECTED" ELSE "NOT_CONNECTED"
        /\ view'.status[Len(view.rows) + 1] # "DROPPED"
    BY <1>1, <2>2, <2>3, NewRowIs DEF Listed
  <2>5. /\ commands' \in [Jvms -> Seq(Commands)]
        /\ \A k \in Jvms \ {j} : commands'[k] = commands[k]
        /\ ~view.auto => commands'[j] = <<>>
        /\ (view.auto /\ w = "wired") => commands'[j] # <<>>
    <3>1. CASE commands' = commands
      BY <1>1, <2>2, <2>3, <3>1 DEF Types, SendTo
    <3>2. CASE view.auto /\ w = "wired" /\
               commands' = [commands EXCEPT ![j] = Append(@, "turn_on_profiler")]
      <4>1. "turn_on_profiler" \in Commands
        BY DEF Commands
      <4>2. /\ Append(commands[j], "turn_on_profiler") \in Seq(Commands)
            /\ Append(commands[j], "turn_on_profiler") # <<>>
        BY <1>1, <4>1, AppendIs
      <4> QED BY <1>1, <3>2, <4>2 DEF Types
    <3> QED BY <2>3, <3>1, <3>2 DEF SendTo
  <2>6. Types'
    BY <1>1, <1>3, <1>6, <1>8, <2>5 DEF Types
  <2>7. RowsOK'
    <3>1. \A r \in 1 .. Len(view.rows) : LeavingRow(r) => LeavingRow(r)'
      BY <1>1, <1>7, <2>4 DEF LeavingRow, HasRow, ViewOK
    <3>2. \A r : LeavingRow(r) => r \in 1 .. Len(view.rows)
      BY DEF LeavingRow, HasRow
    <3>3. \A r \in 1 .. Len(view.rows) + 1 : r \in 1 .. Len(view.rows) \/ r = Len(view.rows) + 1
      BY <1>1 DEF ViewOK
    <3> QED BY <1>3, <2>4, <3>1, <3>2, <3>3 DEF RowsOK, Inv
  <2>8. ASSUME NEW k \in Jvms, k # j PROVE JvmInv(k)'
    <3>1. Listed(k)' <=> Listed(k)
      BY <2>4, <2>8 DEF Listed
    <3>2. JvmInv(k) /\ (window' = "wired" => window = "wired")
      BY <1>1, <1>3, <1>6
    <3> QED BY <1>3, <1>5, <2>3, <2>4, <2>5, <2>8, <3>1, <3>2, JvmFrame DEF Listed
  <2>9. JvmInv(j)'
    <3>1. Listed(j)' /\ life[j] # "new"
      BY <1>3, <2>2, <2>4 DEF Listed, Announced
    <3>2. \/ Tail(reports[j]) = <<>>
          \/ Tail(reports[j]) = <<"unloaded">> /\ Leaving(j)
      <4>1. Tail(<<"ready">>) = <<>> /\ Tail(<<"ready", "unloaded">>) = <<"unloaded">>
        OBVIOUS
      <4>2. reports[j] = <<"ready">> \/ (reports[j] = <<"ready", "unloaded">> /\ Leaving(j))
        BY <1>3, <2>2 DEF Announced, Leaving
      <4> QED BY <4>1, <4>2
    <3>3. \A y : ~In(<<>>, y) /\ (In(<<"unloaded">>, y) <=> y = "unloaded")
      BY DEF In
    <3>4. Known(j)'
      BY <1>3, <1>5, <1>7, <3>1, <3>2, <3>3 DEF Known
    <3>5. view'.current = 0 => Quiet(j)'
      <4> SUFFICES ASSUME view'.current = 0 PROVE Quiet(j)'
        OBVIOUS
      <4>1. commands'[j] = <<>> /\ reload'[j] # "reloading"
        BY <1>3, <2>2, <2>4, <2>5
      <4>2. ~In(reports'[j], "ack_on") /\ ~In(reports'[j], "ack_off")
        BY <1>5, <3>2, <3>3
      <4> QED BY <4>1, <4>2 DEF Quiet
    <3>6. Truth(j)'
      <4>1. life[j] = "running" => reports'[j] = <<>>
        BY <1>5, <3>2 DEF Leaving
      <4>2. (commands'[j] = <<>> /\ window' = "wired") => view'.status[view'.items[j]] = StatusOf(on'[j])
        BY <1>3, <2>2, <2>4, <2>5 DEF StatusOf
      <4> QED BY <1>3, <4>1, <4>2 DEF Truth
    <3> QED BY <3>4, <3>5, <3>6 DEF JvmInv
  <2> QED BY <1>3, <1>6, <2>3, <2>4, <2>6, <2>7, <2>8, <2>9 DEF Inv
<1>10. CASE report = "unloaded"
  <2>1. RemoteDisconnected(view, j)
    BY <1>3, <1>10
  <2>2. Leaving(j) /\ Listed(j)
    <3>1. Leaving(j)
      BY <1>2, <1>4, <1>10 DEF Known
    <3>2. ASSUME ~Listed(j) PROVE FALSE
      <4>1. reports[j] = <<"ready">> \/ reports[j] = <<"ready", "unloaded">>
        BY <1>2, <1>3, <3>2 DEF Known, Announced
      <4> QED BY <1>10, <4>1
    <3> QED BY <3>1, <3>2
  <2> DEFINE r == view.items[j]
  <2>3. r \in 1 .. Len(view.rows) /\ HasRow(view, r) /\ view.rows[r] = j
    BY <1>1, <2>2 DEF ViewOK, Listed, HasRow
  <2>4. /\ view' = [view EXCEPT !.items = Put(@, j, r), !.status[r] = "DROPPED"]
        /\ UNCHANGED <<strayed, commands, ended>>
    BY <2>1, <2>2, <2>3 DEF RemoteDisconnected, Listed
  <2>5. view' = WithStatus(view, r, "DROPPED")
    <3>1. Put(view.items, j, r) = [k \in DOMAIN view.items |-> view.items[k]]
      BY <2>2 DEF Put, Listed
    <3>2. Put(view.items, j, r) = view.items
      BY <1>1, <3>1 DEF ViewOK
    <3>3. view' = [view EXCEPT !.items = view.items, !.status = [view.status EXCEPT ![r] = "DROPPED"]]
      BY <2>4, <3>2
    <3> QED BY <1>1, <3>3, Fields DEF WithStatus
  <2>6. /\ ViewOK(view') /\ view'.rows = view.rows /\ view'.items = view.items
        /\ view'.hidden = view.hidden /\ view'.current = view.current
        /\ \A i \in 1 .. Len(view.rows) : i # r => view'.status[i] = view.status[i]
        /\ \A k \in DOMAIN view.items : k # j => view'.status[view'.items[k]] = view.status[view.items[k]]
    <3>1. "DROPPED" \in Statuses
      BY DEF Statuses
    <3> HIDE DEF r
    <3>2. Shows(view', view, r, "DROPPED")
      BY <1>1, <2>3, <2>5, <3>1, StatusIs
    <3> QED BY <2>3, <3>2 DEF Shows
  <2>7. Types'
    BY <1>1, <1>3, <1>6, <1>8, <2>4 DEF Types
  <2>8. RowsOK'
    <3>1. \A i : LeavingRow(i)' <=> LeavingRow(i)
      BY <1>1, <1>7, <2>6 DEF LeavingRow, HasRow, ViewOK
    <3>2. LeavingRow(r)
      BY <2>2, <2>3 DEF LeavingRow
    <3> QED BY <1>3, <2>6, <3>1, <3>2 DEF RowsOK, Inv
  <2>9. ASSUME NEW k \in Jvms, k # j PROVE JvmInv(k)'
    <3>1. Listed(k)' <=> Listed(k)
      BY <2>6 DEF Listed
    <3>2. JvmInv(k) /\ (window' = "wired" => window = "wired")
      BY <1>1, <1>3, <1>6
    <3> QED BY <1>3, <1>5, <2>4, <2>6, <2>9, <3>1, <3>2, JvmFrame DEF Listed
  <2>10. JvmInv(j)'
    <3>1. Known(j)'
      BY <1>2, <1>3, <1>4, <1>5, <1>7, <2>2, <2>6 DEF Known, Listed
    <3>2. view'.current = 0 => Quiet(j)'
      BY <1>2, <1>3, <1>4, <1>5, <2>4, <2>6 DEF Quiet
    <3>3. Truth(j)'
      BY <1>3, <2>2 DEF Truth, Leaving
    <3> QED BY <3>1, <3>2, <3>3 DEF JvmInv
  <2> QED BY <1>3, <1>6, <2>4, <2>6, <2>7, <2>8, <2>9, <2>10 DEF Inv
<1>11. ASSUME NEW s \in {"CONNECTED", "NOT_CONNECTED"}, NEW b \in BOOLEAN,
              report = AckOf(b), s = StatusOf(b), RemoteAck(view, j, s)
       PROVE  Inv'
  <2> DEFINE r == view.current
  <2>1. report \in {"ack_on", "ack_off"}
    BY <1>11 DEF AckOf
  <2>2. r # 0 /\ Listed(j)
    <3>1. r # 0
      BY <1>2, <1>4, <2>1 DEF Quiet
    <3>2. ASSUME ~Listed(j) PROVE FALSE
      <4>1. reports[j] = <<"ready">> \/ reports[j] = <<"ready", "unloaded">>
        BY <1>2, <1>3, <3>2 DEF Known, Announced
      <4> QED BY <2>1, <4>1
    <3> QED BY <3>1, <3>2
  <2>3. r \in 1 .. Len(view.rows) /\ HasRow(view, r)
    BY <1>1, <2>2 DEF ViewOK, HasRow
  <2>4. /\ view' = [view EXCEPT !.status[r] = s]
        /\ strayed' = IF view.rows[r] = j THEN strayed \ {j} ELSE strayed \cup {j, view.rows[r]}
        /\ UNCHANGED <<commands, ended>>
    BY <1>11, <2>3 DEF RemoteAck
  <2>5. s \in Statuses /\ s # "DROPPED"
    BY DEF Statuses
  <2> HIDE DEF r
  <2>6. /\ ViewOK(view') /\ view'.rows = view.rows /\ view'.items = view.items
        /\ view'.hidden = view.hidden /\ view'.current = view.current
        /\ view'.status[r] = s
        /\ \A i \in 1 .. Len(view.rows) : i # r => view'.status[i] = view.status[i]
        /\ \A k \in DOMAIN view.items :
             k # view.rows[r] => view'.status[view'.items[k]] = view.status[view.items[k]]
        /\ view'.status[view'.items[view.rows[r]]] = s
    <3>1. view' = [view EXCEPT !.status = [view.status EXCEPT ![r] = s]]
      BY <2>4
    <3>2. view' = WithStatus(view, r, s)
      BY <1>1, <3>1, StatusField DEF WithStatus
    <3>3. ViewOK(view) /\ r \in 1 .. Len(view.rows) /\ s \in Statuses
      BY <1>1, <2>3, <2>5
    <3>4. Shows(view', view, r, s)
      BY <3>2, <3>3, StatusIs
    <3> QED BY <3>4 DEF Shows
  <2>7. Types'
    BY <1>1, <1>3, <1>6, <1>8, <2>4 DEF Types
  <2>8. RowsOK'
    <3>1. \A i : LeavingRow(i)' <=> LeavingRow(i)
      BY <1>1, <1>7, <2>6 DEF LeavingRow, HasRow, ViewOK
    <3> QED BY <1>3, <2>5, <2>6, <3>1 DEF RowsOK, Inv
  <2>9. ASSUME NEW k \in Jvms, k # j, k # view.rows[r] PROVE JvmInv(k)'
    <3>1. Listed(k)' <=> Listed(k)
      BY <2>6 DEF Listed
    <3>2. JvmInv(k) /\ (window' = "wired" => window = "wired") /\ (k \in strayed => k \in strayed')
      BY <1>1, <1>3, <1>6, <2>4, <2>9
    <3> QED BY <1>3, <1>5, <2>4, <2>6, <2>9, <3>1, <3>2, JvmFrame DEF Listed
  <2>10. ASSUME NEW k \in Jvms, k # j, k = view.rows[r] PROVE JvmInv(k)'
    <3>1. JvmInv(k) /\ k \in strayed'
      BY <1>1, <2>4, <2>10
    <3>2. Known(k)'
      BY <1>3, <1>5, <2>4, <2>6, <2>10, <3>1 DEF JvmInv, Known, Announced, Listed, Leaving
    <3>3. view'.current = 0 => Quiet(k)'
      BY <2>2, <2>6 DEF r
    <3>4. Truth(k)'
      BY <1>3, <1>5, <2>6, <2>10, <3>1 DEF JvmInv, Truth, Listed
    <3> QED BY <3>2, <3>3, <3>4 DEF JvmInv
  <2>11. JvmInv(j)'
    <3>1. Known(j)'
      BY <1>2, <1>3, <1>4, <1>5, <1>7, <2>2, <2>6 DEF Known, Listed
    <3>2. view'.current = 0 => Quiet(j)'
      BY <2>2, <2>6 DEF r
    <3>3. Truth(j)'
      <4> SUFFICES ASSUME life[j] = "running", reload[j] # "reloading", j \notin missed
                   PROVE  /\ reports'[j] # <<>> => reports'[j][Len(reports'[j])] = AckOf(on[j])
                          /\ (reports'[j] = <<>> /\ j \notin strayed') =>
                               view'.status[view'.items[j]] = StatusOf(on[j])
        BY <1>3 DEF Truth
      <4>1. reports[j][Len(reports[j])] = AckOf(on[j])
        BY <1>2, <1>3, <2>2 DEF Truth
      <4>2. ASSUME reports'[j] = <<>>, j \notin strayed'
            PROVE  view'.status[view'.items[j]] = StatusOf(on[j])
        <5>1. view.rows[r] = j
          BY <2>4, <4>2
        <5>2. AckOf(b) = AckOf(on[j])
          BY <1>4, <1>5, <1>11, <4>1, <4>2
        <5>3. StatusOf(b) = StatusOf(on[j])
          BY <5>2 DEF AckOf, StatusOf
        <5> QED BY <1>11, <2>6, <5>1, <5>3
      <4> QED BY <1>4, <1>5, <4>1, <4>2
    <3> QED BY <3>1, <3>2, <3>3 DEF JvmInv
  <2> QED BY <1>3, <1>6, <2>4, <2>6, <2>7, <2>8, <2>9, <2>10, <2>11 DEF Inv
<1>12. CASE report = "ack_on" /\ RemoteAck(view, j, "CONNECTED")
  <2>1. report = AckOf(TRUE) /\ "CONNECTED" = StatusOf(TRUE)
    BY <1>12 DEF AckOf, StatusOf
  <2> QED BY <1>11, <1>12, <2>1
<1>13. CASE report = "ack_off" /\ RemoteAck(view, j, "NOT_CONNECTED")
  <2>1. report = AckOf(FALSE) /\ "NOT_CONNECTED" = StatusOf(FALSE)
    BY <1>13 DEF AckOf, StatusOf
  <2> QED BY <1>11, <1>13, <2>1
<1> QED BY <1>3, <1>9, <1>10, <1>12, <1>13
-----------------------------------------------------------------------------
(* What the user does leaves the rows and the JVMs as they are, but for    *)
(* the commands that are sent to JVMs that have a row.                     *)
LEMMA UserStep ==
  ASSUME Inv, UNCHANGED <<life, on, reload, reports, missed, strayed>>, ended' # "report",
         window' \in {"closed", "wired", "unwired"}, commands' \in [Jvms -> Seq(Commands)],
         ViewOK(view'), view'.rows = view.rows, view'.items = view.items,
         view'.status = view.status, view'.current = 0 => view.current = 0,
         \A k \in Jvms :
           commands'[k] = commands[k] \/ (Listed(k) /\ view'.current # 0 /\ commands'[k] # <<>>),
         window' = "wired" => window = "wired" \/ \A k : ~Listed(k),
         window' = "closed" => view' = EmptyView,
         menu'.offers = "Acknowledge" => LeavingRow(menu'.row),
         \A r \in view'.hidden : slipped' \/ LeavingRow(r)
  PROVE  Inv'
<1>1. Types'
  BY DEF Inv, Types
<1>2. \A k : (Listed(k)' <=> Listed(k)) /\ (Leaving(k)' <=> Leaving(k))
  BY DEF Listed, Leaving
<1>3. RowsOK'
  <2>1. \A r : LeavingRow(r)' <=> LeavingRow(r)
    BY DEF LeavingRow, Leaving, HasRow
  <2> QED BY <2>1 DEF RowsOK, Inv
<1>4. ASSUME NEW k \in Jvms PROVE JvmInv(k)'
  <2>1. JvmInv(k)
    BY DEF Inv
  <2>2. CASE commands'[k] = commands[k]
    BY <1>2, <2>1, <2>2, JvmFrame
  <2>3. CASE Listed(k) /\ view'.current # 0 /\ commands'[k] # <<>>
    <3>1. Known(k)'
      BY <1>2, <2>1, <2>3 DEF JvmInv, Known
    <3>2. Truth(k)'
      BY <1>2, <2>1, <2>3 DEF JvmInv, Truth
    <3> QED BY <2>3, <3>1, <3>2 DEF JvmInv
  <2> QED BY <2>2, <2>3
<1>5. EmptyView' = EmptyView
  BY DEF EmptyView
<1> QED BY <1>1, <1>3, <1>4, <1>5 DEF Inv

(* The other fields of the view.                                           *)
WithFields(v, c, a, h) == [v EXCEPT !.current = c, !.auto = a, !.hidden = h]

LEMMA OtherFields ==
  ASSUME NEW v, ViewOK(v), NEW c \in 0 .. Len(v.rows), NEW a, NEW h, NEW w,
         w = WithFields(v, c, a, h)
  PROVE  /\ ViewOK(w) /\ w.rows = v.rows /\ w.items = v.items /\ w.status = v.status
         /\ w.current = c /\ w.hidden = h
<1>1. v = [rows |-> v.rows, items |-> v.items, status |-> v.status, hidden |-> v.hidden,
           current |-> v.current, auto |-> v.auto]
  BY DEF ViewOK
<1>2. w = [rows |-> v.rows, items |-> v.items, status |-> v.status, hidden |-> h,
           current |-> c, auto |-> a]
  BY <1>1 DEF WithFields
<1>3. /\ w.rows = v.rows /\ w.items = v.items /\ w.status = v.status
      /\ w.current = c /\ w.hidden = h
      /\ w = [rows |-> w.rows, items |-> w.items, status |-> w.status, hidden |-> w.hidden,
              current |-> w.current, auto |-> w.auto]
  BY <1>2
<1>4. /\ v.rows \in Seq(Jvms) /\ v.status \in Seq(Statuses) /\ Len(v.status) = Len(v.rows)
      /\ v.items = [k \in DOMAIN v.items |-> v.items[k]]
      /\ \A j \in DOMAIN v.items : j \in Jvms /\ v.items[j] \in 1 .. Len(v.rows) /\ v.rows[v.items[j]] = j
      /\ \A r \in 1 .. Len(v.rows) : v.rows[r] \in DOMAIN v.items /\ v.items[v.rows[r]] = r
  BY DEF ViewOK, HasRow
<1>5. ViewOK(w)
  BY <1>3, <1>4 DEF ViewOK, HasRow
<1> QED BY <1>3, <1>5

(* An EXCEPT of one of these fields is one of all three.                   *)
LEMMA OneField ==
  ASSUME NEW v, ViewOK(v), NEW x
  PROVE  /\ [v EXCEPT !.current = x] = WithFields(v, x, v.auto, v.hidden)
         /\ [v EXCEPT !.auto = x] = WithFields(v, v.current, x, v.hidden)
         /\ [v EXCEPT !.hidden = x] = WithFields(v, v.current, v.auto, x)
<1>1. PICK r, i, s, h, c, a :
        v = [rows |-> r, items |-> i, status |-> s, hidden |-> h, current |-> c, auto |-> a]
  BY DEF ViewOK
<1> QED BY <1>1 DEF WithFields

LEMMA UserInv ==
  ASSUME Inv, User, ended = "no", ~reopened'
  PROVE  Inv'
<1>1. /\ Types /\ ViewOK(view) /\ RowsOK
      /\ window = "closed" => view = EmptyView
      /\ view.current \in 0 .. Len(view.rows)
  BY DEF Inv, ViewOK
<1>2. \A r : LeavingRow(r) => r \in 1 .. Len(view.rows)
  BY DEF LeavingRow, HasRow
<1>3. /\ menu.offers = "Acknowledge" => LeavingRow(menu.row)
      /\ \A r \in view.hidden : slipped \/ LeavingRow(r)
  BY <1>1 DEF RowsOK
<1>4. UNCHANGED <<life, on, reload, reports, missed, strayed>>
  BY DEF User, Acts, Select, ToggleAuto, ShowMenu, Dismiss, Trigger, CloseWindow, OpenWindow,
         SendTo, Crash, jvmVars
<1>5. ASSUME NEW r \in DOMAIN view.rows, Select(r) PROVE Inv'
  <2>1. /\ view' = [view EXCEPT !.current = r]
        /\ UNCHANGED <<commands, window, menu, ended, slipped>> /\ window # "closed"
    BY <1>5 DEF Select, Idle
  <2>2. r \in 0 .. Len(view.rows) /\ r # 0
    BY <1>1 DEF ViewOK
  <2>3. view' = WithFields(view, r, view.auto, view.hidden)
    BY <1>1, <2>1, OneField
  <2>4. /\ ViewOK(view') /\ view'.rows = view.rows /\ view'.items = view.items
        /\ view'.status = view.status /\ view'.current = r /\ view'.hidden = view.hidden
    BY <1>1, <2>2, <2>3, OtherFields
  <2> QED BY <1>1, <1>3, <1>4, <2>1, <2>2, <2>4, UserStep DEF Inv, Types
<1>6. CASE ToggleAuto
  <2>1. /\ view' = [view EXCEPT !.auto = ~view.auto]
        /\ UNCHANGED <<commands, window, menu, ended, slipped>> /\ window # "closed"
    BY <1>6 DEF ToggleAuto, Idle
  <2>2. view' = WithFields(view, view.current, ~view.auto, view.hidden)
    BY <1>1, <2>1, OneField
  <2>3. /\ ViewOK(view') /\ view'.rows = view.rows /\ view'.items = view.items
        /\ view'.status = view.status /\ view'.current = view.current /\ view'.hidden = view.hidden
    BY <1>1, <2>2, OtherFields
  <2> QED BY <1>1, <1>3, <1>4, <2>1, <2>3, UserStep DEF Inv, Types
<1>7. CASE ShowMenu
  <2>1. UNCHANGED <<commands, window, view, ended, slipped>> /\ window # "closed"
    BY <1>7 DEF ShowMenu, Idle
  <2>2. menu'.offers = "Acknowledge" => LeavingRow(menu'.row)
    <3> DEFINE s == IF HasRow(view, view.current) THEN view.status[view.current] ELSE "NOT_CONNECTED"
               offers == CASE s = "NOT_CONNECTED" -> "Connect"
                           [] s = "DROPPED" -> "Acknowledge"
                           [] s = "CONNECTED" -> "Disconnect"
    <3>1. menu' = [offers |-> offers, row |-> view.current]
      BY <1>7 DEF ShowMenu
    <3>2. s \in Statuses
      BY <1>1 DEF ViewOK, HasRow, Statuses
    <3>3. offers = "Acknowledge" => s = "DROPPED"
      <4> HIDE DEF s
      <4> QED BY <3>2 DEF Statuses
    <3>4. s = "DROPPED" => LeavingRow(view.current)
      BY <1>1 DEF RowsOK, HasRow
    <3> HIDE DEF s, offers
    <3> QED BY <3>1, <3>3, <3>4
  <2> QED BY <1>1, <1>3, <1>4, <2>1, <2>2, UserStep DEF Inv, Types
<1>8. CASE Dismiss
  <2>1. UNCHANGED <<commands, window, view, ended, slipped>> /\ menu'.offers = "nothing"
    BY <1>8 DEF Dismiss, NoMenu
  <2> QED BY <1>1, <1>3, <1>4, <2>1, UserStep DEF Inv, Types
<1>9. CASE Trigger
  <2> DEFINE c == view.current
  <2>1. UNCHANGED window /\ menu'.offers = "nothing" /\ slipped' = (slipped \/ menu.row # c)
    BY <1>9 DEF Trigger, NoMenu
  <2>2. \A r \in view.hidden : slipped' \/ LeavingRow(r)
    BY <1>3, <2>1
  <2>3. CASE /\ menu.offers = "Acknowledge"
             /\ view' = [view EXCEPT !.hidden = view.hidden \cup {c}]
             /\ UNCHANGED <<commands, ended>>
    <3> DEFINE h == view.hidden \cup {c}
    <3>0. view' = [view EXCEPT !.hidden = h] /\ ViewOK(view)
      BY <1>1, <2>3
    <3> HIDE DEF h
    <3>1. view' = WithFields(view, c, view.auto, h)
      BY <3>0, OneField
    <3>2. /\ ViewOK(view') /\ view'.rows = view.rows /\ view'.items = view.items
          /\ view'.status = view.status /\ view'.current = c
          /\ view'.hidden = view.hidden \cup {c}
      BY <1>1, <3>1, OtherFields DEF h
    <3>3. slipped' \/ LeavingRow(c)
      BY <1>3, <2>1, <2>3
    <3>4. window # "closed"
      <4>1. window = "closed" => ~LeavingRow(menu.row)
        BY <1>1, <1>2 DEF EmptyView
      <4> QED BY <1>3, <2>3, <4>1
    <3> QED BY <1>1, <1>4, <2>1, <2>2, <2>3, <3>2, <3>3, <3>4, UserStep DEF Inv, Types
  <2>4. CASE ended' = "menu" /\ UNCHANGED <<view, commands>>
    BY <1>1, <1>4, <2>1, <2>2, <2>4, UserStep DEF Inv, Types
  <2>5. CASE \E command \in Commands :
               /\ HasRow(view, c)
               /\ SendTo(view.rows[c], command, window)
               /\ UNCHANGED <<view, ended>>
    <3>1. PICK command \in Commands :
               /\ HasRow(view, c)
               /\ SendTo(view.rows[c], command, window)
               /\ UNCHANGED <<view, ended>>
      BY <2>5
    <3>2. PICK j \in Jvms : j = view.rows[c] /\ Listed(j) /\ c # 0
      BY <1>1, <3>1 DEF ViewOK, HasRow, Listed
    <3>3. Append(commands[j], command) \in Seq(Commands) /\ Append(commands[j], command) # <<>>
      <4>1. commands[j] \in Seq(Commands)
        BY <1>1 DEF Types
      <4> QED BY <4>1, AppendIs
    <3>4. commands' = commands \/ commands' = [commands EXCEPT ![j] = Append(@, command)]
      BY <3>1, <3>2 DEF SendTo
    <3>5. /\ commands' \in [Jvms -> Seq(Commands)]
          /\ \A k \in Jvms :
               commands'[k] = commands[k] \/ (Listed(k) /\ view'.current # 0 /\ commands'[k] # <<>>)
      BY <1>1, <3>1, <3>2, <3>3, <3>4 DEF Types
    <3> QED BY <1>1, <1>4, <2>1, <2>2, <3>1, <3>5, UserStep DEF Inv, Types
  <2> QED BY <1>9, <2>3, <2>4, <2>5 DEF Trigger, Crash, Commands
<1>10. CASE OpenWindow
  <2>1. UNCHANGED <<commands, view, menu, ended, slipped>> /\ window = "closed" /\ window' = "wired"
    BY <1>10 DEF OpenWindow
  <2>2. \A k : ~Listed(k)
    BY <1>1, <2>1 DEF Listed, EmptyView
  <2> QED BY <1>1, <1>3, <1>4, <2>1, <2>2, UserStep DEF Inv, Types
<1>11. ~CloseWindow
  BY DEF CloseWindow
<1> QED BY <1>5, <1>6, <1>7, <1>8, <1>9, <1>10, <1>11 DEF User
-----------------------------------------------------------------------------
(* Rows that are lost stay lost.                                           *)
LEMMA StaysReopened == reopened /\ [Next]_vars => reopened'
<1> SUFFICES ASSUME reopened, [Next]_vars PROVE reopened'
  OBVIOUS
<1>1. CASE \E j \in Jvms : Jvm(j)
  BY <1>1 DEF Jvm, Load, ReadCommand, Acknowledge, Wait, Unload, Exit, viewVars
<1>2. CASE \E j \in Jvms : SendFails(j) \/ HandleReport(j)
  BY <1>2 DEF SendFails, HandleReport
<1>3. CASE User
  BY <1>3 DEF User, Select, ToggleAuto, ShowMenu, Dismiss, Trigger, CloseWindow, OpenWindow
<1>4. CASE UNCHANGED vars
  BY <1>4 DEF vars, viewVars
<1> QED BY <1>1, <1>2, <1>3, <1>4 DEF Next

(* As long as the window has not been closed, its rows and the JVMs        *)
(* correspond, and what is on its way to and from a JVM without a row is   *)
(* its announcement alone.                                                 *)
THEOREM StatusInvariance == Spec => []IInv
<1>1. Init => IInv
  BY InitInv DEF IInv
<1>2. IInv /\ [Next]_vars => IInv'
  <2> SUFFICES ASSUME IInv, [Next]_vars, ~reopened' PROVE Inv'
    BY DEF IInv
  <2>1. Inv
    BY StaysReopened DEF IInv
  <2>2. CASE ended = "no" /\ \E j \in Jvms : Jvm(j) \/ SendFails(j)
    BY <2>1, <2>2, JvmActionsInv
  <2>3. CASE ended = "no" /\ \E j \in Jvms : HandleReport(j)
    BY <2>1, <2>3, HandleReportInv
  <2>4. CASE ended = "no" /\ User
    BY <2>1, <2>4, UserInv
  <2>5. CASE UNCHANGED vars
    BY <2>1, <2>5 DEF vars, jvmVars, viewVars, Inv, Types, ViewOK, HasRow, EmptyView, RowsOK,
       LeavingRow, Leaving, JvmInv, Known, Announced, Listed, Quiet, Truth
  <2> QED BY <2>2, <2>3, <2>4, <2>5 DEF Next
<1> QED BY <1>1, <1>2, PTL DEF Spec

(* Every report finds the item it is about unless the window has lost      *)
(* rows, and only rows of JVMs that have unloaded or ended are hidden      *)
(* unless a menu entry acted on another row than its menu was opened for.  *)
THEOREM ReportsFindTheirRows == Spec => []RowsFound
<1>1. IInv => RowsFound
  BY DEF IInv, Inv, RowsOK, LeavingRow, Leaving, RowsFound
<1> QED BY <1>1, StatusInvariance, PTL

(* Once nothing is on its way, the row of a running JVM says whether it is *)
(* profiled, unless an acknowledgement went to another row, a command woke *)
(* nobody, or the window cannot speak to FRMain or has lost its rows.      *)
THEOREM RowsTellTheTruth == Spec => []ShownTruthfully
<1>1. ASSUME IInv PROVE ShownTruthfully
  <2> SUFFICES ASSUME Inv, NEW j \in DOMAIN view.items,
                      Settled(j), j \notin missed \cup strayed, window = "wired"
               PROVE  view.status[view.items[j]] = IF on[j] THEN "CONNECTED" ELSE "NOT_CONNECTED"
    BY <1>1 DEF IInv, ShownTruthfully
  <2>1. j \in Jvms
    BY DEF Inv, ViewOK
  <2>2. Truth(j)
    BY <2>1 DEF Inv, JvmInv
  <2> QED BY <2>2 DEF Truth, Settled, Listed, StatusOf
<1> QED BY <1>1, StatusInvariance, PTL
-----------------------------------------------------------------------------
(* Types, whether the window has been closed or not.                       *)
LEMMA JvmTypes ==
  ASSUME Types, NEW j \in Jvms, Jvm(j) \/ SendFails(j)
  PROVE  Types'
<1>1. commands[j] \in Seq(Commands) /\ reports[j] \in Seq(Reports)
  BY DEF Types
<1>2. ASSUME NEW q \in Seq(Reports), reports' = [reports EXCEPT ![j] = q]
      PROVE  reports' \in [Jvms -> Seq(Reports)]
  BY <1>2 DEF Types
<1>3. CASE Load(j)
  <2>1. <<"ready">> \in Seq(Reports)
    BY DEF Reports
  <2>2. /\ reports' = [reports EXCEPT ![j] = <<"ready">>]
        /\ life' = [life EXCEPT ![j] = "running"]
        /\ UNCHANGED <<on, reload, commands, window>>
    BY <1>3 DEF Load, viewVars
  <2> QED BY <1>2, <2>1, <2>2 DEF Types
<1>4. CASE ReadCommand(j)
  <2>1. Tail(commands[j]) \in Seq(Commands)
    BY <1>1, <1>4, TailIs DEF ReadCommand
  <2> QED BY <1>4, <2>1 DEF ReadCommand, Types, viewVars
<1>5. CASE Acknowledge(j)
  <2>1. PICK ack \in {"ack_on", "ack_off"} : reports' = [reports EXCEPT ![j] = Append(reports[j], ack)]
    BY <1>5 DEF Acknowledge
  <2>2. Append(reports[j], ack) \in Seq(Reports)
    BY <1>1, AppendIs DEF Reports
  <2>3. reports' \in [Jvms -> Seq(Reports)]
    BY <1>2, <2>1, <2>2
  <2> QED BY <1>5, <2>3 DEF Acknowledge, Types, viewVars
<1>6. CASE Wait(j)
  BY <1>6 DEF Wait, Types, viewVars
<1>7. CASE Unload(j)
  <2>1. PICK n \in 0 .. Len(reports[j]) : reports' = [reports EXCEPT ![j] = InsertAt(@, n + 1, "unloaded")]
    BY <1>7 DEF Unload
  <2>2. InsertAt(reports[j], n + 1, "unloaded") \in Seq(Reports)
    BY <1>1, InsertIs DEF Reports
  <2>3. reports' \in [Jvms -> Seq(Reports)]
    BY <1>2, <2>1, <2>2
  <2>4. life' = [life EXCEPT ![j] = "unloading"] /\ UNCHANGED <<on, reload, commands, window>>
    BY <1>7 DEF Unload, viewVars
  <2> QED BY <2>3, <2>4 DEF Types
<1>8. CASE Exit(j)
  BY <1>8 DEF Exit, Types, viewVars
<1>9. CASE SendFails(j)
  BY <1>9 DEF SendFails, Types, jvmVars
<1> QED BY <1>3, <1>4, <1>5, <1>6, <1>7, <1>8, <1>9 DEF Jvm

(* A view is typed if its parts are, and the other way round.              *)
Parts(r, i, s, h, c) ==
  /\ r \in Seq(Jvms) /\ s \in Seq(Statuses) /\ Len(s) = Len(r)
  /\ i = [k \in DOMAIN i |-> i[k]]
  /\ \A k \in DOMAIN i : k \in Jvms /\ i[k] \in 1 .. Len(r)
  /\ h \in SUBSET Nat
  /\ c \in 0 .. Len(r)
Viewed(r, i, s, h, c, a) ==
  [rows |-> r, items |-> i, status |-> s, hidden |-> h, current |-> c, auto |-> a]

LEMMA Typed ==
  ASSUME NEW r, NEW i, NEW s, NEW h, NEW c, NEW a \in BOOLEAN, Parts(r, i, s, h, c)
  PROVE  ViewTypeOK(Viewed(r, i, s, h, c, a))
<1>1. Len(r) \in Nat
  BY DEF Parts
<1>2. i \in [DOMAIN i -> Nat] /\ c \in Nat /\ c <= Len(r)
  BY <1>1 DEF Parts
<1> QED BY <1>2 DEF Parts, Viewed, ViewTypeOK, HasRow

LEMMA PartsOf ==
  ASSUME NEW v, ViewTypeOK(v)
  PROVE  /\ v = Viewed(v.rows, v.items, v.status, v.hidden, v.current, v.auto)
         /\ Parts(v.rows, v.items, v.status, v.hidden, v.current)
         /\ v.auto \in BOOLEAN
<1>1. /\ v = Viewed(v.rows, v.items, v.status, v.hidden, v.current, v.auto)
      /\ v.rows \in Seq(Jvms) /\ v.status \in Seq(Statuses) /\ Len(v.status) = Len(v.rows)
      /\ v.items \in [DOMAIN v.items -> Nat]
      /\ \A k \in DOMAIN v.items : k \in Jvms /\ v.items[k] \in 1 .. Len(v.rows)
      /\ v.hidden \in SUBSET Nat /\ v.current \in Nat /\ v.current <= Len(v.rows)
      /\ v.auto \in BOOLEAN
  BY DEF ViewTypeOK, Viewed, HasRow
<1>2. Len(v.rows) \in Nat
  BY <1>1
<1>3. v.current \in 0 .. Len(v.rows)
  BY <1>1, <1>2
<1> QED BY <1>1, <1>3 DEF Parts

LEMMA NewRowTyped ==
  ASSUME NEW v, ViewTypeOK(v), NEW j \in Jvms
  PROVE  ViewTypeOK(NewRow(v, j))
<1>1. PICK r, i, s, h, c, a : v = Viewed(r, i, s, h, c, a) /\ Parts(r, i, s, h, c) /\ a \in BOOLEAN
  BY PartsOf
<1> DEFINE n == Len(r) + 1
           x == IF a THEN "CONNECTED" ELSE "NOT_CONNECTED"
<1> DEFINE d == IF a THEN n ELSE c
<1>2. NewRow(v, j) = Viewed(Append(r, j), Put(i, j, n), Append(s, x), h, d, a)
  <2>1. /\ v = [rows |-> r, items |-> i, status |-> s, hidden |-> h, current |-> c, auto |-> a]
        /\ v.rows = r /\ v.items = i /\ v.status = s /\ v.current = c /\ v.auto = a
    BY <1>1 DEF Viewed
  <2>2. NewRow(v, j) = [v EXCEPT !.rows = Append(r, j), !.items = Put(i, j, n),
                                 !.status = Append(s, x), !.current = d]
    BY <2>1 DEF NewRow
  <2> HIDE DEF x, d, n
  <2> QED BY <2>1, <2>2 DEF Viewed
<1>3. r \in Seq(Jvms) /\ s \in Seq(Statuses) /\ Len(s) = Len(r) /\ x \in Statuses
  BY <1>1 DEF Parts, Statuses
<1> HIDE DEF x
<1>4. Append(r, j) \in Seq(Jvms) /\ Len(Append(r, j)) = n /\ Len(r) \in Nat
  BY <1>3, AppendIs
<1>5. Append(s, x) \in Seq(Statuses) /\ Len(Append(s, x)) = n
  BY <1>3, AppendIs
<1>6. /\ Put(i, j, n) = [k \in DOMAIN Put(i, j, n) |-> Put(i, j, n)[k]]
      /\ \A k \in DOMAIN Put(i, j, n) : k \in Jvms /\ Put(i, j, n)[k] \in 1 .. n
  BY <1>1, <1>4 DEF Put, Parts
<1>7. Parts(Append(r, j), Put(i, j, n), Append(s, x), h, d)
  BY <1>1, <1>4, <1>5, <1>6 DEF Parts
<1> QED BY <1>1, <1>2, <1>7, Typed

LEMMA StatusTyped ==
  ASSUME NEW v, ViewTypeOK(v), NEW n, HasRow(v, n), NEW x \in Statuses, NEW j \in Jvms
  PROVE  /\ ViewTypeOK([v EXCEPT !.status = [v.status EXCEPT ![n] = x]])
         /\ ViewTypeOK([v EXCEPT !.items = Put(v.items, j, n), !.status = [v.status EXCEPT ![n] = x]])
<1>1. PICK r, i, s, h, c, a : v = Viewed(r, i, s, h, c, a) /\ Parts(r, i, s, h, c) /\ a \in BOOLEAN
  BY PartsOf
<1> DEFINE t == [s EXCEPT ![n] = x]
<1>2. /\ [v EXCEPT !.status = [v.status EXCEPT ![n] = x]] = Viewed(r, i, t, h, c, a)
      /\ [v EXCEPT !.items = Put(v.items, j, n), !.status = [v.status EXCEPT ![n] = x]]
           = Viewed(r, Put(i, j, n), t, h, c, a)
  <2>1. v = [rows |-> r, items |-> i, status |-> s, hidden |-> h, current |-> c, auto |-> a]
        /\ v.items = i /\ v.status = s
    BY <1>1 DEF Viewed
  <2>2. [v.status EXCEPT ![n] = x] = t /\ Put(v.items, j, n) = Put(i, j, n)
    BY <2>1
  <2> HIDE DEF t
  <2>3. [v EXCEPT !.status = t] = Viewed(r, i, t, h, c, a)
    BY <2>1 DEF Viewed
  <2>4. [v EXCEPT !.items = Put(i, j, n), !.status = t] = Viewed(r, Put(i, j, n), t, h, c, a)
    <3> PICK q : q = Put(i, j, n)
      OBVIOUS
    <3>1. v = [rows |-> r, items |-> i, status |-> s, hidden |-> h, current |-> c, auto |-> a]
      BY <2>1
    <3>2. PICK u : u = [v EXCEPT !.items = q, !.status = t]
      OBVIOUS
    <3>3. u = [rows |-> r, items |-> q, status |-> t, hidden |-> h, current |-> c, auto |-> a]
      BY <3>1, <3>2
    <3> QED BY <3>2, <3>3 DEF Viewed
  <2> QED BY <2>2, <2>3, <2>4
<1>3. n \in 1 .. Len(r) /\ s \in Seq(Statuses) /\ Len(s) = Len(r)
  BY <1>1 DEF HasRow, Viewed, Parts
<1>4. t \in Seq(Statuses) /\ Len(t) = Len(r)
  BY <1>3, ExceptSeq
<1> HIDE DEF t
<1>5. /\ Put(i, j, n) = [k \in DOMAIN Put(i, j, n) |-> Put(i, j, n)[k]]
      /\ \A k \in DOMAIN Put(i, j, n) : k \in Jvms /\ Put(i, j, n)[k] \in 1 .. Len(r)
  BY <1>1, <1>3 DEF Put, Parts
<1>6. Parts(r, i, t, h, c) /\ Parts(r, Put(i, j, n), t, h, c)
  BY <1>1, <1>4, <1>5 DEF Parts
<1> QED BY <1>1, <1>2, <1>6, Typed

LEMMA FieldsTyped ==
  ASSUME NEW v, ViewTypeOK(v)
  PROVE  /\ \A n \in 1 .. Len(v.rows) : ViewTypeOK([v EXCEPT !.current = n])
         /\ ViewTypeOK([v EXCEPT !.auto = ~v.auto])
         /\ ViewTypeOK([v EXCEPT !.hidden = v.hidden \cup {v.current}])
         /\ v.current \in Nat
         /\ \A n \in 1 .. Len(v.rows) : v.rows[n] \in Jvms /\ n \in DOMAIN v.rows
         /\ DOMAIN v.rows = 1 .. Len(v.rows)
<1>1. PICK r, i, s, h, c, a : v = Viewed(r, i, s, h, c, a) /\ Parts(r, i, s, h, c) /\ a \in BOOLEAN
  BY PartsOf
<1>2. v.rows = r /\ v.hidden = h /\ v.current = c /\ v.auto = a
  BY <1>1 DEF Viewed
<1>3. r \in Seq(Jvms) /\ c \in 0 .. Len(r) /\ h \in SUBSET Nat
  BY <1>1 DEF Parts
<1>4. c \in Nat /\ DOMAIN r = 1 .. Len(r) /\ \A n \in 1 .. Len(r) : r[n] \in Jvms /\ n \in 0 .. Len(r)
  BY <1>3
<1>5. ASSUME NEW n \in 1 .. Len(r) PROVE ViewTypeOK([v EXCEPT !.current = n])
  <2>1. [v EXCEPT !.current = n] = Viewed(r, i, s, h, n, a)
    BY <1>1 DEF Viewed
  <2>2. Parts(r, i, s, h, n)
    BY <1>1, <1>4 DEF Parts
  <2> QED BY <1>1, <2>1, <2>2, Typed
<1>6. ViewTypeOK([v EXCEPT !.auto = ~v.auto])
  <2>1. PICK b \in BOOLEAN : b = ~v.auto
    OBVIOUS
  <2>2. [v EXCEPT !.auto = b] = Viewed(r, i, s, h, c, b)
    BY <1>1 DEF Viewed
  <2>3. ViewTypeOK([v EXCEPT !.auto = b])
    BY <1>1, <2>2, Typed
  <2> QED BY <2>1, <2>3
<1>7. ViewTypeOK([v EXCEPT !.hidden = v.hidden \cup {v.current}])
  <2>1. [v EXCEPT !.hidden = v.hidden \cup {v.current}] = Viewed(r, i, s, h \cup {c}, c, a)
    BY <1>1, <1>2 DEF Viewed
  <2>2. Parts(r, i, s, h \cup {c}, c)
    BY <1>1, <1>3, <1>4 DEF Parts
  <2> QED BY <1>1, <2>1, <2>2, Typed
<1> QED BY <1>2, <1>4, <1>5, <1>6, <1>7

LEMMA EmptyTyped == ViewTypeOK(EmptyView)
<1> DEFINE none == [j \in {} |-> 1]
<1>1. EmptyView = Viewed(<<>>, none, <<>>, {}, 0, TRUE)
  BY DEF EmptyView, Viewed
<1>2. Parts(<<>>, none, <<>>, {}, 0)
  BY DEF Parts
<1> QED BY <1>1, <1>2, Typed

(* The GUI thread sends to JVMs that have a row.                           *)
LEMMA SendTyped ==
  ASSUME Types, NEW j \in Jvms, NEW command \in Commands, NEW w, SendTo(j, command, w)
  PROVE  commands' \in [Jvms -> Seq(Commands)]
<1>1. commands[j] \in Seq(Commands)
  BY DEF Types
<1>2. Append(commands[j], command) \in Seq(Commands)
  BY <1>1, AppendIs
<1> QED BY <1>2 DEF SendTo, Types

(* A report that is handled.                                               *)
LEMMA HandledTyped ==
  ASSUME Types, NEW v, ViewTypeOK(v), NEW j \in Jvms, strayed \subseteq Jvms, NEW w,
         NEW s \in Statuses,
         ended \in {"no", "report", "menu", "send"}, ViewTypeOK(view),
         RemoteReady(v, w, j) \/ RemoteDisconnected(v, j) \/ RemoteAck(v, j, s)
  PROVE  /\ ViewTypeOK(view)'
         /\ commands' \in [Jvms -> Seq(Commands)]
         /\ strayed' \subseteq Jvms
         /\ ended' \in {"no", "report", "menu", "send"}
<1>1. commands \in [Jvms -> Seq(Commands)]
  BY DEF Types
<1>2. ASSUME NEW why \in {"report", "menu"}, Crash(why)
      PROVE  /\ view' = view /\ commands' = commands /\ strayed' = strayed
             /\ ended' \in {"report", "menu"}
  BY <1>2 DEF Crash
<1>3. \A n : HasRow(v, n) => v.rows[n] \in Jvms
  BY FieldsTyped DEF HasRow
<1>4. CASE RemoteReady(v, w, j)
  <2>1. view' \in {v, NewRow(v, j)} /\ UNCHANGED <<ended, strayed>>
        /\ (SendTo(j, "turn_on_profiler", w) \/ UNCHANGED commands)
    BY <1>4 DEF RemoteReady
  <2>2. ViewTypeOK(view')
    BY <2>1, NewRowTyped
  <2>3. commands' \in [Jvms -> Seq(Commands)]
    BY <1>1, <2>1, SendTyped DEF Commands
  <2> QED BY <2>1, <2>2, <2>3 DEF ViewTypeOK, HasRow
<1>5. CASE RemoteDisconnected(v, j)
  <2> DEFINE r == IF j \in DOMAIN v.items THEN v.items[j] ELSE 1
  <2>1. \/ Crash("report")
        \/ /\ HasRow(v, r)
           /\ view' = [v EXCEPT !.items = Put(v.items, j, r), !.status = [v.status EXCEPT ![r] = "DROPPED"]]
           /\ strayed' \in {strayed, strayed \cup {v.rows[r]}}
           /\ UNCHANGED <<commands, ended>>
    BY <1>5 DEF RemoteDisconnected
  <2> HIDE DEF r
  <2>2. CASE Crash("report")
    BY <1>1, <1>2, <2>2 DEF ViewTypeOK, HasRow
  <2>3. CASE ~Crash("report")
    <3>0. "DROPPED" \in Statuses
      BY DEF Statuses
    <3>1. ViewTypeOK(view')
      <4>1. PICK u : u = [v EXCEPT !.items = Put(v.items, j, r), !.status = [v.status EXCEPT ![r] = "DROPPED"]]
        OBVIOUS
      <4>2. ViewTypeOK(u)
        <5>1. HasRow(v, r)
          BY <2>1, <2>3
        <5>2. ViewTypeOK([v EXCEPT !.items = Put(v.items, j, r), !.status = [v.status EXCEPT ![r] = "DROPPED"]])
          BY <3>0, <5>1, StatusTyped, Zenon
        <5> QED BY <4>1, <5>2, Zenon
      <4>3. view' = u
        BY <2>1, <2>3, <4>1
      <4> QED BY <4>2, <4>3
    <3> QED BY <1>1, <1>3, <2>1, <2>3, <3>1 DEF ViewTypeOK, HasRow
  <2> QED BY <2>2, <2>3
<1>6. CASE RemoteAck(v, j, s)
  <2> DEFINE r == v.current
  <2>1. \/ Crash("report")
        \/ /\ HasRow(v, r)
           /\ view' = [v EXCEPT !.status = [v.status EXCEPT ![r] = s]]
           /\ strayed' \in {strayed \ {j}, strayed \cup {j, v.rows[r]}}
           /\ UNCHANGED <<commands, ended>>
    BY <1>6 DEF RemoteAck
  <2>2. CASE Crash("report")
    BY <1>1, <1>2, <2>2 DEF ViewTypeOK, HasRow
  <2>3. CASE ~Crash("report")
    <3>1. ViewTypeOK(view')
      <4>1. PICK u : u = [v EXCEPT !.status = [v.status EXCEPT ![r] = s]]
        OBVIOUS
      <4>2. ViewTypeOK(u)
        <5>1. HasRow(v, r)
          BY <2>1, <2>3
        <5>2. ViewTypeOK([v EXCEPT !.status = [v.status EXCEPT ![r] = s]])
          BY <5>1, StatusTyped, Zenon
        <5> QED BY <4>1, <5>2, Zenon
      <4>3. view' = u
        BY <2>1, <2>3, <4>1
      <4> QED BY <4>2, <4>3
    <3> QED BY <1>1, <1>3, <2>1, <2>3, <3>1 DEF ViewTypeOK, HasRow
  <2> QED BY <2>2, <2>3
<1> QED BY <1>4, <1>5, <1>6

(* The user.                                                               *)
LEMMA UserTyped ==
  ASSUME TypeOK, User
  PROVE  TypeOK'
<1> DEFINE Offers == {"nothing", "Connect", "Acknowledge", "Disconnect"}
<1>1. /\ Types /\ ViewTypeOK(view) /\ menu \in [offers : Offers, row : Nat]
      /\ ended \in {"no", "report", "menu", "send"} /\ missed \subseteq Jvms /\ strayed \subseteq Jvms
  BY DEF TypeOK
<1>2. /\ view.current \in Nat /\ DOMAIN view.rows = 1 .. Len(view.rows)
      /\ \A n \in 1 .. Len(view.rows) : view.rows[n] \in Jvms
  BY <1>1, FieldsTyped
<1>3. ASSUME UNCHANGED <<life, on, reload, reports, missed>>, commands' \in [Jvms -> Seq(Commands)],
             window' \in {"closed", "wired", "unwired"}, ViewTypeOK(view)',
             menu' \in [offers : Offers, row : Nat],
             ended' \in {"no", "report", "menu", "send"}, UNCHANGED strayed
      PROVE  TypeOK'
  BY <1>1, <1>3 DEF TypeOK, Types
<1>4. commands \in [Jvms -> Seq(Commands)] /\ window \in {"closed", "wired", "unwired"}
  BY <1>1 DEF Types
<1>5. view' = view => ViewTypeOK(view)'
  BY <1>1 DEF ViewTypeOK, HasRow
<1>6. NoMenu \in [offers : Offers, row : Nat]
  BY DEF NoMenu
<1>7. ASSUME NEW r \in DOMAIN view.rows, Select(r) PROVE TypeOK'
  <2>1. /\ UNCHANGED <<life, on, reload, reports, missed, commands, window, menu, ended, strayed>>
        /\ view' = [view EXCEPT !.current = r]
    BY <1>7 DEF Select, Acts
  <2>2. ViewTypeOK([view EXCEPT !.current = r])
    BY <1>1, <1>2, FieldsTyped
  <2>3. ViewTypeOK(view')
    BY <2>1, <2>2, Zenon
  <2> QED BY <1>1, <1>3, <1>4, <2>1, <2>3 DEF ViewTypeOK, HasRow
<1>8. CASE ToggleAuto
  <2>1. /\ UNCHANGED <<life, on, reload, reports, missed, commands, window, menu, ended, strayed>>
        /\ view' = [view EXCEPT !.auto = ~view.auto]
    BY <1>8 DEF ToggleAuto, Acts
  <2>2. ViewTypeOK([view EXCEPT !.auto = ~view.auto])
    BY <1>1, FieldsTyped
  <2>3. ViewTypeOK(view')
    BY <2>1, <2>2, Zenon
  <2> QED BY <1>1, <1>3, <1>4, <2>1, <2>3 DEF ViewTypeOK, HasRow
<1>9. CASE ShowMenu
  <2>1. PICK offers \in Offers : menu' = [offers |-> offers, row |-> view.current]
    <3>1. HasRow(view, view.current) => view.status[view.current] \in Statuses
      <4>1. view.status \in Seq(Statuses) /\ Len(view.status) = Len(view.rows)
        BY <1>1, PartsOf DEF Parts
      <4> QED BY <4>1 DEF HasRow
    <3>2. (IF HasRow(view, view.current) THEN view.status[view.current] ELSE "NOT_CONNECTED")
            \in {"NOT_CONNECTED", "CONNECTED", "DROPPED"}
      BY <3>1 DEF Statuses
    <3> QED BY <1>9, <3>2 DEF ShowMenu
  <2>2. UNCHANGED <<life, on, reload, reports, missed, commands, window, view, ended, strayed>>
    BY <1>9 DEF ShowMenu, Acts
  <2> QED BY <1>1, <1>2, <1>3, <1>4, <1>5, <2>1, <2>2
<1>10. CASE Dismiss
  <2>1. UNCHANGED <<life, on, reload, reports, missed, commands, window, view, ended, strayed>>
        /\ menu' = NoMenu
    BY <1>10 DEF Dismiss, jvmVars
  <2> QED BY <1>1, <1>3, <1>4, <1>5, <1>6, <2>1
<1>11. CASE Trigger
  <2>1. UNCHANGED <<life, on, reload, reports, missed, window>> /\ menu' = NoMenu
    BY <1>11 DEF Trigger, jvmVars
  <2> DEFINE r == view.current
  <2>2. CASE view' = [view EXCEPT !.hidden = view.hidden \cup {r}] /\ UNCHANGED <<commands, ended, strayed>>
    <3>1. ViewTypeOK([view EXCEPT !.hidden = view.hidden \cup {r}])
      BY <1>1, FieldsTyped
    <3>2. ViewTypeOK(view')
      BY <2>2, <3>1, Zenon
    <3> QED BY <1>1, <1>3, <1>4, <1>6, <2>1, <2>2, <3>2 DEF ViewTypeOK, HasRow
  <2>3. CASE Crash("menu")
    BY <1>1, <1>3, <1>4, <1>5, <1>6, <2>1, <2>3 DEF Crash
  <2>4. CASE /\ HasRow(view, r) /\ UNCHANGED <<view, ended, strayed>>
             /\ \E command \in Commands : SendTo(view.rows[r], command, window)
    <3>1. view.rows[r] \in Jvms
      BY <1>2, <2>4 DEF HasRow
    <3>2. PICK j \in Jvms : j = view.rows[r]
      BY <3>1
    <3>3. PICK command \in Commands, w \in {window} : SendTo(j, command, w)
      BY <2>4, <3>2
    <3>4. commands' \in [Jvms -> Seq(Commands)]
      BY <1>1, <3>3, SendTyped
    <3> QED BY <1>1, <1>3, <1>4, <1>5, <1>6, <2>1, <2>4, <3>4
  <2> QED BY <1>11, <2>2, <2>3, <2>4 DEF Trigger, Commands
<1>12. CASE CloseWindow
  <2>1. /\ UNCHANGED <<life, on, reload, reports, missed, commands, menu, ended, strayed>>
        /\ window' = "closed" /\ view' = EmptyView
    BY <1>12 DEF CloseWindow, Acts
  <2>2. ViewTypeOK(view')
    BY <2>1, EmptyTyped, Zenon
  <2> QED BY <1>1, <1>3, <1>4, <2>1, <2>2 DEF ViewTypeOK, HasRow
<1>13. CASE OpenWindow
  <2>1. /\ UNCHANGED <<life, on, reload, reports, missed, commands, view, menu, ended, strayed>>
        /\ window' = "wired"
    BY <1>13 DEF OpenWindow, Acts
  <2> QED BY <1>1, <1>3, <1>4, <1>5, <2>1
<1> QED BY <1>7, <1>8, <1>9, <1>10, <1>11, <1>12, <1>13 DEF User

(* What the JVMs, the connections and the window hold is what it should be *)
(* and every item is one of a row, also after the window has lost rows.    *)
THEOREM TypeCorrect == Spec => []TypeOK
<1>1. Init => TypeOK
  <2> SUFFICES ASSUME Init PROVE TypeOK
    OBVIOUS
  <2>1. Types
    BY DEF Init, Types
  <2>2. ViewTypeOK(view)
    BY EmptyTyped, Zenon DEF Init
  <2> QED BY <2>1, <2>2 DEF Init, NoMenu, TypeOK
<1>2. TypeOK /\ [Next]_vars => TypeOK'
  <2> SUFFICES ASSUME TypeOK, [Next]_vars PROVE TypeOK'
    OBVIOUS
  <2>1. ASSUME NEW j \in Jvms, Jvm(j) \/ SendFails(j) PROVE TypeOK'
    <3>1. Types'
      BY <2>1, JvmTypes DEF TypeOK
    <3>2. UNCHANGED <<view, menu, strayed>> /\ missed' \subseteq missed \cup {j}
          /\ ended' \in {ended, "no", "send"}
      BY <2>1 DEF Jvm, Load, ReadCommand, Acknowledge, Wait, Unload, Exit, SendFails, viewVars, jvmVars
    <3> QED BY <3>1, <3>2 DEF TypeOK, ViewTypeOK, HasRow
  <2>2. ASSUME NEW j \in Jvms, HandleReport(j) PROVE TypeOK'
    <3>1. PICK v, w : /\ v \in {EmptyView, view} /\ window' = w /\ w \in {"unwired", window}
                      /\ \/ RemoteReady(v, w, j) \/ RemoteDisconnected(v, j)
                         \/ RemoteAck(v, j, "CONNECTED") \/ RemoteAck(v, j, "NOT_CONNECTED")
      BY <2>2 DEF HandleReport
    <3>2. ViewTypeOK(v) /\ Types /\ strayed \subseteq Jvms /\ ViewTypeOK(view)
          /\ ended \in {"no", "report", "menu", "send"}
      BY <3>1, EmptyTyped, Zenon DEF TypeOK
    <3>3. "CONNECTED" \in Statuses /\ "NOT_CONNECTED" \in Statuses
      BY DEF Statuses
    <3>4. /\ ViewTypeOK(view)' /\ commands' \in [Jvms -> Seq(Commands)]
          /\ strayed' \subseteq Jvms /\ ended' \in {"no", "report", "menu", "send"}
      BY <3>1, <3>2, <3>3, HandledTyped
    <3>5. /\ reports[j] # <<>> /\ reports' = [reports EXCEPT ![j] = Tail(reports[j])]
          /\ UNCHANGED <<menu, life, on, reload, missed>>
      BY <2>2 DEF HandleReport, jvmVars
    <3>6. Tail(reports[j]) \in Seq(Reports)
      BY <3>2, <3>5, TailIs DEF Types
    <3>7. Types'
      BY <3>1, <3>2, <3>4, <3>5, <3>6 DEF Types
    <3> QED BY <3>4, <3>5, <3>7 DEF TypeOK
  <2>3. CASE UNCHANGED vars
    BY <2>3 DEF vars, jvmVars, viewVars, TypeOK, Types, ViewTypeOK, HasRow
  <2> QED BY <2>1, <2>2, <2>3, UserTyped DEF Next
<1> QED BY <1>1, <1>2, PTL DEF Spec
=============================================================================
