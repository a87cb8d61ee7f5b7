------------------------ MODULE HooksHandshakeProofs ------------------------
(***************************************************************************)
(* What TLAPS proves of HooksHandshake, for any JVMs, any texts and        *)
(* whatever the user does.                                                 *)
(***************************************************************************)
EXTENDS HooksHandshake, SequenceTheorems, TLAPS

In(s, x) == \E i \in 1 .. Len(s) : s[i] = x
Once(s) == \A i, k \in 1 .. Len(s) : s[i] = s[k] => i = k

(* The request of j for its hooks is among the requests q.                 *)
AsksAt(q, i, j) == q[i].kind = "hooks" /\ q[i].jvm = j
Asks(q, j) == \E i \in 1 .. Len(q) : AsksAt(q, i, j)
AsksOnce(q, j) == \A i, k \in 1 .. Len(q) : AsksAt(q, i, j) /\ AsksAt(q, k, j) => i = k

(* A JVM that has been sent nothing but commands.                          *)
Fresh(g, b) == g = <<>> /\ \A i \in 1 .. Len(b) : b[i] = Command

(* A JVM that has been sent its list: it has loaded the line, or will.     *)
EndsOnly(b) ==
  \E i \in 1 .. Len(b) :
    b[i] = End /\ \A k \in 1 .. Len(b) : k # i => b[k] = Command
ListOnly(b) ==
  \E i \in 1 .. Len(b) :
    /\ i + 1 \in 1 .. Len(b)
    /\ \E t \in ValidTexts : b[i] = Line(t)
    /\ b[i + 1] = End
    /\ \A k \in 1 .. Len(b) : k # i /\ k # i + 1 => b[k] = Command
LoadedOne(g) == Len(g) = 1 /\ g[1] \in ValidTexts
Given(g, b) == (g = <<>> /\ ListOnly(b)) \/ (LoadedOne(g) /\ EndsOnly(b))

(* A JVM asks once, is noted once, and is answered once.                   *)
JvmInv(j) ==
  /\ AsksOnce(iq, j)
  /\ Asks(iq, j) => ~In(requests, j) /\ ~In(left, j)
  /\ at[j] \in {"new", "opcodes"} =>
       got[j] = <<>> /\ ~Asks(iq, j) /\ ~In(requests, j) /\ ~In(left, j)
  /\ at[j] = "hooks" =>
       \/ Fresh(got[j], inbox[j])
       \/ /\ Given(got[j], inbox[j])
          /\ ~Asks(iq, j) /\ ~In(left, j)
          /\ answering = "no" => ~In(requests, j)
  /\ at[j] = "died" => got[j] = <<>> \/ LoadedOne(got[j])
  /\ at[j] = "loaded" => LoadedOne(got[j])

(* What the Editor sends is valid.                                         *)
ValidInv ==
  /\ validated => text \in ValidTexts
  /\ \A i \in 1 .. Len(calls) : calls[i].kind = "hooks" => calls[i].text \in ValidTexts
  /\ answering # "no" => answering \in ValidTexts

(* The inductive invariant.                                                *)
IInv ==
  /\ Types
  /\ Once(requests)
  /\ Once(left)
  /\ ValidInv
  /\ \A j \in Jvms : JvmInv(j)
-----------------------------------------------------------------------------
(* A sequence with one more element, and with one less.                    *)
LEMMA InAppend ==
  ASSUME NEW S, NEW s \in Seq(S), NEW x \in S, NEW y
  PROVE  In(Append(s, x), y) <=> (In(s, y) \/ x = y)
<1>1. /\ Len(s) \in Nat /\ Len(Append(s, x)) = Len(s) + 1 /\ Append(s, x)[Len(s) + 1] = x
      /\ \A i \in 1 .. Len(s) : Append(s, x)[i] = s[i]
  BY AppendProperties
<1>2. 1 .. (Len(s) + 1) = (1 .. Len(s)) \cup {Len(s) + 1}
  BY <1>1
<1> QED BY <1>1, <1>2 DEF In

LEMMA TailIs ==
  ASSUME NEW S, NEW s \in Seq(S), s # <<>>
  PROVE  /\ Tail(s) \in Seq(S) /\ Len(s) \in Nat \ {0} /\ Len(Tail(s)) = Len(s) - 1
         /\ Head(s) = s[1] /\ Head(s) \in S /\ 1 \in 1 .. Len(s)
         /\ \A i \in 1 .. Len(Tail(s)) : i + 1 \in 1 .. Len(s) /\ Tail(s)[i] = s[i + 1]
<1>1. /\ Tail(s) \in Seq(S) /\ Len(s) \in Nat \ {0} /\ Len(Tail(s)) = Len(s) - 1
      /\ Head(s) = s[1] /\ Head(s) \in S
      /\ \A i \in 1 .. Len(Tail(s)) : Tail(s)[i] = s[i + 1]
  BY HeadTailProperties
<1>2. \A i \in 1 .. Len(s) - 1 : i + 1 \in 1 .. Len(s)
  BY <1>1
<1> QED BY <1>1, <1>2

LEMMA InTail ==
  ASSUME NEW S, NEW s \in Seq(S), s # <<>>, NEW y
  PROVE  In(Tail(s), y) => In(s, y)
BY TailIs DEF In

LEMMA OnceAppend ==
  ASSUME NEW S, NEW s \in Seq(S), NEW x \in S, Once(s), ~In(s, x)
  PROVE  Once(Append(s, x))
<1>1. /\ Len(s) \in Nat /\ Len(Append(s, x)) = Len(s) + 1 /\ Append(s, x)[Len(s) + 1] = x
      /\ \A i \in 1 .. Len(s) : Append(s, x)[i] = s[i]
  BY AppendProperties
<1>2. 1 .. (Len(s) + 1) = (1 .. Len(s)) \cup {Len(s) + 1}
  BY <1>1
<1> QED BY <1>1, <1>2 DEF In, Once

LEMMA OnceTail ==
  ASSUME NEW S, NEW s \in Seq(S), s # <<>>, Once(s)
  PROVE  Once(Tail(s)) /\ ~In(Tail(s), Head(s))
<1>1. \A i, k \in 1 .. Len(Tail(s)) : i + 1 = k + 1 => i = k
  BY TailIs
<1>2. Once(Tail(s))
  BY <1>1, TailIs DEF Once
<1>3. \A i \in 1 .. Len(Tail(s)) : i + 1 # 1
  BY TailIs
<1> QED BY <1>2, <1>3, TailIs DEF In, Once

LEMMA AsksAppend ==
  ASSUME NEW q \in Seq(Request), NEW r \in Request, NEW j, AsksOnce(q, j),
         Asks(q, j) => ~(r.kind = "hooks" /\ r.jvm = j)
  PROVE  /\ Asks(Append(q, r), j) <=> (Asks(q, j) \/ (r.kind = "hooks" /\ r.jvm = j))
         /\ AsksOnce(Append(q, r), j)
<1>1. /\ Len(q) \in Nat /\ Len(Append(q, r)) = Len(q) + 1 /\ Append(q, r)[Len(q) + 1] = r
      /\ \A i \in 1 .. Len(q) : Append(q, r)[i] = q[i]
  BY AppendProperties
<1>2. 1 .. (Len(q) + 1) = (1 .. Len(q)) \cup {Len(q) + 1}
  BY <1>1
<1>3. /\ AsksAt(Append(q, r), Len(q) + 1, j) <=> (r.kind = "hooks" /\ r.jvm = j)
      /\ \A i \in 1 .. Len(q) : AsksAt(Append(q, r), i, j) <=> AsksAt(q, i, j)
  BY <1>1 DEF AsksAt
<1> QED BY <1>1, <1>2, <1>3 DEF Asks, AsksOnce

LEMMA AsksTail ==
  ASSUME NEW q \in Seq(Request), q # <<>>, NEW j, AsksOnce(q, j)
  PROVE  /\ Asks(Tail(q), j) => Asks(q, j)
         /\ AsksOnce(Tail(q), j)
         /\ (Head(q).kind = "hooks" /\ Head(q).jvm = j) => Asks(q, j) /\ ~Asks(Tail(q), j)
<1>1. \A i \in 1 .. Len(Tail(q)) : i + 1 \in 1 .. Len(q) /\ (AsksAt(Tail(q), i, j) <=> AsksAt(q, i + 1, j))
  BY TailIs DEF AsksAt
<1>2. \A i, k \in 1 .. Len(Tail(q)) : (i + 1 = k + 1 => i = k) /\ i + 1 # 1
  BY TailIs
<1>3. (Head(q).kind = "hooks" /\ Head(q).jvm = j) => AsksAt(q, 1, j) /\ 1 \in 1 .. Len(q)
  BY TailIs DEF AsksAt
<1> QED BY <1>1, <1>2, <1>3 DEF Asks, AsksOnce
-----------------------------------------------------------------------------
(* What is sent to a JVM, and what it reads.                               *)
LEMMA ItemsAre ==
  /\ Command \in Item /\ End \in Item /\ \A t \in Texts : Line(t) \in Item
  /\ Command.kind = "command" /\ End.kind = "end"
  /\ \A t : Line(t).kind = "line" /\ Line(t).text = t
  /\ Command # End /\ \A t : Line(t) # End /\ Line(t) # Command
<1>1. /\ Command.kind = "command" /\ End.kind = "end"
      /\ \A t : Line(t).kind = "line" /\ Line(t).text = t
  BY DEF Command, End, Line
<1>2. Command \in Item /\ End \in Item /\ \A t \in Texts : Line(t) \in Item
  BY HandshakeAssumption DEF Command, End, Line, Item
<1> QED BY <1>1, <1>2

LEMMA FreshCommand ==
  ASSUME NEW g, NEW b \in Seq(Item), Fresh(g, b)
  PROVE  Fresh(g, Append(b, Command))
<1>1. /\ Len(b) \in Nat /\ Len(Append(b, Command)) = Len(b) + 1
      /\ Append(b, Command)[Len(b) + 1] = Command
      /\ \A i \in 1 .. Len(b) : Append(b, Command)[i] = b[i]
  BY ItemsAre, AppendProperties
<1>2. 1 .. (Len(b) + 1) = (1 .. Len(b)) \cup {Len(b) + 1}
  BY <1>1
<1> QED BY <1>1, <1>2 DEF Fresh

LEMMA GivenCommand ==
  ASSUME NEW g, NEW b \in Seq(Item), Given(g, b)
  PROVE  Given(g, Append(b, Command))
<1> DEFINE c == Append(b, Command)
<1>1. /\ Len(b) \in Nat /\ Len(c) = Len(b) + 1 /\ c[Len(b) + 1] = Command
      /\ \A i \in 1 .. Len(b) : c[i] = b[i]
  BY ItemsAre, AppendProperties
<1> HIDE DEF c
<1>2. 1 .. (Len(b) + 1) = (1 .. Len(b)) \cup {Len(b) + 1}
  BY <1>1
<1>3. EndsOnly(b) => EndsOnly(c)
  BY <1>1, <1>2 DEF EndsOnly
<1>4. ListOnly(b) => ListOnly(c)
  BY <1>1, <1>2 DEF ListOnly
<1> QED BY <1>3, <1>4 DEF Given, c

(* Answering a JVM that has been sent nothing.                             *)
LEMMA FreshAnswered ==
  ASSUME NEW g, NEW b \in Seq(Item), Fresh(g, b), NEW t \in ValidTexts
  PROVE  Given(g, b \o <<Line(t), End>>)
<1> DEFINE two == <<Line(t), End>>
           c == b \o two
           n == Len(b)
<1>1. two \in Seq(Item) /\ Len(two) = 2 /\ two[1] = Line(t) /\ two[2] = End
  BY ItemsAre, HandshakeAssumption
<1> HIDE DEF two
<1>2. /\ n \in Nat /\ Len(c) = n + 2
      /\ \A i \in 1 .. n : c[i] = b[i]
      /\ c[n + 1] = Line(t) /\ c[n + 2] = End
  <2>0. two \in Seq(Item)
    BY <1>1
  <2>5. n \in Nat /\ Len(c) = n + Len(two)
    BY <2>0, ConcatProperties
  <2>2. ASSUME NEW i \in 1 .. Len(c)
        PROVE  c[i] = IF i <= n THEN b[i] ELSE two[i - n]
    BY <2>0, ConcatProperties
  <2>1. n \in Nat /\ Len(c) = n + 2
    BY <1>1, <2>5
  <2> HIDE DEF c, n
  <2>3. n + 1 \in 1 .. Len(c) /\ n + 2 \in 1 .. Len(c) /\ (n + 1) - n = 1 /\ (n + 2) - n = 2
    BY <2>1
  <2>4. \A i \in 1 .. n : i \in 1 .. Len(c) /\ i <= n
    BY <2>1
  <2> QED BY <1>1, <2>1, <2>2, <2>3, <2>4
<1> HIDE DEF c, n
<1>3. n + 1 \in 1 .. Len(c) /\ (n + 1) + 1 \in 1 .. Len(c) /\ (n + 1) + 1 = n + 2
  BY <1>2
<1>4. \A k \in 1 .. Len(c) : k # n + 1 /\ k # n + 2 => k \in 1 .. n
  BY <1>2
<1>5. \A i \in 1 .. n : b[i] = Command
  BY DEF Fresh, n
<1>6. ListOnly(c)
  BY <1>2, <1>3, <1>4, <1>5 DEF ListOnly
<1> QED BY <1>6 DEF Fresh, Given, c, two

(* Reading a line: it is the one of the list.                              *)
LEMMA GivenLine ==
  ASSUME NEW g, NEW b \in Seq(Item), b # <<>>, Given(g, b), Head(b).kind = "line"
  PROVE  g = <<>> /\ EndsOnly(Tail(b)) /\ Head(b).text \in ValidTexts
<1>1. 1 \in 1 .. Len(b) /\ Head(b) = b[1] /\ b[1] # Command /\ b[1] # End
  BY TailIs, ItemsAre
<1>2. ListOnly(b) /\ g = <<>>
  BY <1>1 DEF Given, EndsOnly
<1>3. PICK i \in 1 .. Len(b) :
        /\ i + 1 \in 1 .. Len(b) /\ b[i + 1] = End
        /\ \E t \in ValidTexts : b[i] = Line(t)
        /\ \A k \in 1 .. Len(b) : k # i /\ k # i + 1 => b[k] = Command
  BY <1>2 DEF ListOnly
<1>4. i = 1
  BY <1>1, <1>3
<1>5. /\ Len(Tail(b)) = Len(b) - 1
      /\ \A k \in 1 .. Len(Tail(b)) : k + 1 \in 1 .. Len(b) /\ Tail(b)[k] = b[k + 1]
      /\ Len(b) \in Nat
  BY TailIs
<1>6. 1 \in 1 .. Len(Tail(b)) /\ Tail(b)[1] = End
  BY <1>3, <1>4, <1>5
<1>7. ASSUME NEW k \in 1 .. Len(Tail(b)), k # 1 PROVE Tail(b)[k] = Command
  <2>1. k + 1 # 1 /\ k + 1 # 2
    BY <1>5, <1>7
  <2> QED BY <1>3, <1>4, <1>5, <2>1
<1>8. EndsOnly(Tail(b))
  BY <1>6, <1>7 DEF EndsOnly
<1> QED BY <1>1, <1>2, <1>3, <1>4, <1>8, ItemsAre

(* Reading the end: the line has been loaded, and only commands may follow.*)
LEMMA GivenEnd ==
  ASSUME NEW g, NEW b \in Seq(Item), b # <<>>, Given(g, b), Head(b).kind = "end"
  PROVE  LoadedOne(g) /\ \A k \in 1 .. Len(Tail(b)) : Tail(b)[k] = Command
<1>1. 1 \in 1 .. Len(b) /\ Head(b) = b[1] /\ b[1] # Command /\ \A t : b[1] # Line(t)
  BY TailIs, ItemsAre
<1>2. ASSUME ListOnly(b) PROVE FALSE
  <2>1. PICK i \in 1 .. Len(b) :
        /\ \E t \in ValidTexts : b[i] = Line(t)
        /\ \A k \in 1 .. Len(b) : k # i /\ k # i + 1 => b[k] = Command
    BY <1>2 DEF ListOnly
  <2>2. i # 1 /\ i + 1 # 1
    BY <1>1, <2>1
  <2> QED BY <1>1, <2>1, <2>2
<1>3. LoadedOne(g) /\ EndsOnly(b)
  BY <1>2 DEF Given
<1>4. PICK i \in 1 .. Len(b) : b[i] = End /\ \A k \in 1 .. Len(b) : k # i => b[k] = Command
  BY <1>3 DEF EndsOnly
<1>5. i = 1
  BY <1>1, <1>4
<1>6. \A k \in 1 .. Len(Tail(b)) : k + 1 \in 1 .. Len(b) /\ Tail(b)[k] = b[k + 1] /\ k + 1 # 1
  BY TailIs
<1> QED BY <1>3, <1>4, <1>5, <1>6
-----------------------------------------------------------------------------
LEMMA InitInv == Init => IInv
<1> SUFFICES ASSUME Init PROVE IInv
  OBVIOUS
<1>1. Types
  BY HandshakeAssumption DEF Init, Types
<1>2. Once(requests) /\ Once(left) /\ ValidInv
  BY DEF Init, Once, ValidInv
<1>3. \A j \in Jvms : JvmInv(j)
  BY DEF Init, JvmInv, AsksOnce, Asks, In
<1> QED BY <1>1, <1>2, <1>3 DEF IInv

(* A step that leaves j where it is, and notes no new request of it.       *)
LEMMA JvmFrame ==
  ASSUME NEW j \in Jvms, JvmInv(j),
         at'[j] = at[j], got'[j] = got[j],
         \/ inbox'[j] = inbox[j]
         \/ inbox[j] \in Seq(Item) /\ inbox'[j] = Append(inbox[j], Command)
         \/ at[j] # "hooks",
         AsksOnce(iq', j), Asks(iq', j) => Asks(iq, j),
         In(requests', j) => In(requests, j),
         In(left', j) => In(left, j) \/ (answering = "no" /\ In(requests, j)),
         answering' = "no" => answering = "no" \/ ~In(requests', j)
  PROVE  JvmInv(j)'
<1>1. Fresh(got[j], inbox[j]) /\ at[j] = "hooks" => Fresh(got'[j], inbox'[j])
  BY FreshCommand
<1>2. Given(got[j], inbox[j]) /\ at[j] = "hooks" => Given(got'[j], inbox'[j])
  BY GivenCommand
<1> QED BY <1>1, <1>2 DEF JvmInv

(* The parts of the invariant that do not concern a single JVM.            *)
Common == Types /\ Once(requests) /\ Once(left) /\ ValidInv

LEMMA ConnectInv ==
  ASSUME IInv, NEW c \in Jvms, Connect(c)
  PROVE  IInv'
<1> DEFINE r == [kind |-> "opcodes", jvm |-> c]
<1>1. r \in Request /\ r.kind # "hooks" /\ iq \in Seq(Request) /\ iq' = Append(iq, r)
  BY DEF IInv, Types, Request, Connect
<1> HIDE DEF r
<1>2. ASSUME NEW j \in Jvms PROVE AsksOnce(iq', j) /\ (Asks(iq', j) => Asks(iq, j))
  BY <1>1, AsksAppend DEF IInv, JvmInv
<1>3. Common'
  <2>1. iq' \in Seq(Request)
    BY <1>1, AppendProperties
  <2> QED BY <2>1 DEF IInv, Types, Common, ValidInv, Connect, listenerVars, editorVars
<1>4. ASSUME NEW j \in Jvms, j # c PROVE JvmInv(j)'
  BY <1>2, <1>4, JvmFrame DEF IInv, Types, Connect, listenerVars
<1>5. JvmInv(c)'
  <2>1. JvmInv(c) /\ at[c] = "new" /\ at'[c] = "opcodes"
    BY DEF IInv, Types, Connect
  <2> QED BY <1>2, <2>1 DEF JvmInv, Connect, listenerVars
<1> QED BY <1>3, <1>4, <1>5 DEF IInv, Common

LEMMA ReadLineInv ==
  ASSUME IInv, NEW c \in Jvms, ReadLine(c)
  PROVE  IInv'
<1> DEFINE item == Head(inbox[c])
<1>1. /\ inbox[c] \in Seq(Item) /\ inbox[c] # <<>> /\ got[c] \in Seq(Texts)
      /\ at[c] \in {"opcodes", "hooks"}
      /\ Tail(inbox[c]) \in Seq(Item) /\ item \in Item /\ item.text \in Texts
  <2>1. inbox[c] \in Seq(Item) /\ inbox[c] # <<>> /\ got[c] \in Seq(Texts)
        /\ at[c] \in {"opcodes", "hooks"}
    BY DEF IInv, Types, ReadLine, Loading
  <2>2. item \in Item /\ Tail(inbox[c]) \in Seq(Item)
    BY <2>1, TailIs
  <2> HIDE DEF item
  <2>3. item.text \in Texts
    BY <2>2 DEF Item
  <2> QED BY <2>1, <2>2, <2>3
<1>2. CASE item.kind = "line"
  <2>1. /\ at' = at /\ inbox' = [inbox EXCEPT ![c] = Tail(@)]
        /\ got' = [got EXCEPT ![c] = LoadedBy(c, <<item>>)]
    BY <1>2 DEF ReadLine
  <2>2. LoadedBy(c, <<item>>) = IF at[c] = "hooks" THEN got[c] \o <<item.text>> ELSE got[c]
    BY DEF LoadedBy, TextsOf
  <2>3. got[c] \o <<item.text>> \in Seq(Texts)
    <3> HIDE DEF item
    <3> QED BY <1>1
  <2>4. Common'
    <3> HIDE DEF item
    <3> QED BY <1>1, <2>1, <2>2, <2>3
            DEF IInv, Types, Common, ValidInv, ReadLine, listenerVars, editorVars
  <2>5. /\ inbox'[c] = Tail(inbox[c])
        /\ got'[c] = IF at[c] = "hooks" THEN got[c] \o <<item.text>> ELSE got[c]
        /\ \A j \in Jvms \ {c} : inbox'[j] = inbox[j] /\ got'[j] = got[j]
    <3> HIDE DEF item
    <3> QED BY <2>1, <2>2 DEF IInv, Types
  <2>6. ASSUME NEW j \in Jvms, j # c PROVE JvmInv(j)'
    BY <2>1, <2>5, <2>6, JvmFrame DEF IInv, JvmInv, ReadLine, listenerVars
  <2>7. JvmInv(c)'
    <3>1. JvmInv(c)
      BY DEF IInv
    <3>2. CASE at[c] = "opcodes"
      BY <2>1, <2>5, <3>1, <3>2 DEF JvmInv, ReadLine, listenerVars
    <3>3. CASE at[c] = "hooks"
      <4>1. ~Fresh(got[c], inbox[c])
        BY <1>1, <1>2, TailIs, ItemsAre DEF Fresh
      <4>2. Given(got[c], inbox[c])
        BY <3>1, <3>3, <4>1 DEF JvmInv
      <4>3. got[c] = <<>> /\ EndsOnly(Tail(inbox[c])) /\ item.text \in ValidTexts
        BY <1>1, <1>2, <4>2, GivenLine
      <4>4. got'[c] = <<item.text>>
        <5> HIDE DEF item
        <5>1. <<>> \o <<item.text>> = <<item.text>>
          OBVIOUS
        <5> QED BY <2>5, <3>3, <4>3, <5>1
      <4>5. LoadedOne(got'[c])
        <5> HIDE DEF item
        <5> QED BY <4>3, <4>4 DEF LoadedOne
      <4> QED BY <2>1, <2>5, <3>1, <3>3, <4>1, <4>3, <4>5
              DEF JvmInv, Given, ReadLine, listenerVars
    <3> QED BY <1>1, <3>2, <3>3
  <2> QED BY <2>4, <2>6, <2>7 DEF IInv, Common
<1>3. CASE item.kind # "line"
  <2>1. /\ at' = [at EXCEPT ![c] = "died"] /\ inbox' = [inbox EXCEPT ![c] = <<>>]
        /\ got' = got
    BY <1>3 DEF ReadLine
  <2>2. Common'
    BY <2>1 DEF IInv, Types, Common, ValidInv, ReadLine, listenerVars, editorVars
  <2>3. /\ at'[c] = "died"
        /\ \A j \in Jvms \ {c} : inbox'[j] = inbox[j] /\ at'[j] = at[j]
    BY <2>1 DEF IInv, Types
  <2>4. ASSUME NEW j \in Jvms, j # c PROVE JvmInv(j)'
    BY <2>1, <2>3, <2>4, JvmFrame DEF IInv, JvmInv, ReadLine, listenerVars
  <2>5. JvmInv(c)'
    <3>1. JvmInv(c)
      BY DEF IInv
    <3> QED BY <1>1, <2>1, <2>3, <3>1 DEF JvmInv, Fresh, Given, ReadLine, listenerVars
  <2> QED BY <2>2, <2>4, <2>5 DEF IInv, Common
<1> QED BY <1>2, <1>3

LEMMA NoLines == TextsOf(Lines(<<>>)) = <<>>
<1> DEFINE none == [i \in 0 .. 0 |-> <<>>]
           Step(f) == [i \in 0 .. Len(<<>>) |->
             IF i = 0 THEN <<>>
             ELSE IF <<>>[i].kind = "line" THEN Append(f[i - 1], <<>>[i]) ELSE f[i - 1]]
           upTo == CHOOSE f : f = Step(f)
<1>1. none = Step(none)
  OBVIOUS
<1>2. upTo = Step(upTo)
  BY <1>1
<1>3. Lines(<<>>) = upTo[0]
  BY DEF Lines
<1>4. Lines(<<>>) = <<>>
  BY <1>2, <1>3
<1> QED BY <1>4 DEF TextsOf

(* A prefix of commands without a command is empty.                        *)
LEMMA NothingFollows ==
  ASSUME NEW s \in Seq(Item), \A k \in 1 .. Len(s) : s[k] = Command,
         NEW n \in 0 .. Len(s), Command \notin ToSet(SubSeq(s, 1, n))
  PROVE  SubSeq(s, 1, n) = <<>>
<1>1. CASE n = 0
  BY <1>1
<1>2. CASE n # 0
  <2>1. 1 \in 1 .. n /\ 1 \in 1 .. Len(s)
    BY <1>2
  <2>2. DOMAIN SubSeq(s, 1, n) = 1 .. n /\ SubSeq(s, 1, n)[1] = s[1]
    <3>1. n \in Nat /\ Len(s) \in Nat /\ n <= Len(s) /\ n >= 1
      BY <2>1
    <3>2. SubSeq(s, 1, n) = [i \in 1 .. n |-> s[i]]
      BY <3>1
    <3> QED BY <2>1, <3>2
  <2>3. Command \in ToSet(SubSeq(s, 1, n))
    BY <2>1, <2>2 DEF ToSet
  <2> QED BY <2>3
<1> QED BY <1>1, <1>2

LEMMA ReadEndInv ==
  ASSUME IInv, NEW c \in Jvms, ReadEnd(c)
  PROVE  IInv'
<1> DEFINE tail == Tail(inbox[c])
           next == IF at[c] = "opcodes" THEN "hooks" ELSE "loaded"
<1>1. /\ inbox[c] \in Seq(Item) /\ inbox[c] # <<>> /\ Head(inbox[c]).kind = "end"
      /\ at[c] \in {"opcodes", "hooks"} /\ got[c] \in Seq(Texts)
  BY DEF IInv, Types, ReadEnd, Loading
<1>2. tail \in Seq(Item) /\ Len(tail) = Len(inbox[c]) - 1 /\ Len(inbox[c]) \in Nat
  BY <1>1, TailIs
<1>3. PICK n \in 0 .. Len(inbox[c]) - 1 :
        LET rest == SubSeq(tail, 1, n) IN
        IF Command \in ToSet(rest)
        THEN /\ at' = [at EXCEPT ![c] = "died"]
             /\ UNCHANGED <<got, iq>>
        ELSE /\ at' = [at EXCEPT ![c] = next]
             /\ got' = [got EXCEPT ![c] = LoadedBy(c, Lines(rest))]
             /\ iq' = Append(iq, [kind |-> next, jvm |-> c])
  BY DEF ReadEnd
<1>4. inbox' = [inbox EXCEPT ![c] = <<>>]
  BY DEF ReadEnd
<1> DEFINE rest == SubSeq(tail, 1, n)
           r == [kind |-> next, jvm |-> c]
<1>5. JvmInv(c)
  BY DEF IInv
<1>6. at[c] = "hooks" => LoadedOne(got[c]) /\ \A k \in 1 .. Len(tail) : tail[k] = Command
  <2>1. ~Fresh(got[c], inbox[c])
    BY <1>1, TailIs, ItemsAre DEF Fresh
  <2> QED BY <1>1, <1>5, <2>1, GivenEnd DEF JvmInv
<1>7. at[c] = "hooks" => ~Asks(iq, c) /\ ~In(left, c)
  <2>1. ~Fresh(got[c], inbox[c])
    BY <1>1, TailIs, ItemsAre DEF Fresh
  <2> QED BY <1>5, <2>1 DEF JvmInv
<1>8. at[c] = "opcodes" => got[c] = <<>> /\ ~Asks(iq, c) /\ ~In(requests, c) /\ ~In(left, c)
  BY <1>5 DEF JvmInv
<1>9. CASE Command \in ToSet(rest)
  <2>1. at' = [at EXCEPT ![c] = "died"] /\ UNCHANGED <<got, iq>>
    BY <1>3, <1>9
  <2>2. Common'
    BY <1>4, <2>1 DEF IInv, Types, Common, ValidInv, ReadEnd, listenerVars, editorVars
  <2>3. /\ at'[c] = "died"
        /\ \A j \in Jvms \ {c} : inbox'[j] = inbox[j] /\ at'[j] = at[j]
    BY <1>4, <2>1 DEF IInv, Types
  <2>4. ASSUME NEW j \in Jvms, j # c PROVE JvmInv(j)'
    BY <2>1, <2>3, <2>4, JvmFrame DEF IInv, JvmInv, ReadEnd, listenerVars
  <2>5. JvmInv(c)'
    BY <1>1, <1>5, <1>6, <1>8, <2>1, <2>3 DEF JvmInv, ReadEnd, listenerVars
  <2> QED BY <2>2, <2>4, <2>5 DEF IInv, Common
<1>10. CASE Command \notin ToSet(rest)
  <2>1. /\ at' = [at EXCEPT ![c] = next]
        /\ got' = [got EXCEPT ![c] = LoadedBy(c, Lines(rest))]
        /\ iq' = Append(iq, r)
    BY <1>3, <1>10
  <2>2. LoadedBy(c, Lines(rest)) = got[c]
    <3>1. CASE at[c] = "opcodes"
      BY <3>1 DEF LoadedBy
    <3>2. CASE at[c] = "hooks"
      <4>1. n \in 0 .. Len(tail)
        BY <1>2
      <4> HIDE DEF tail
      <4>2. rest = <<>>
        BY <1>2, <1>6, <1>10, <3>2, <4>1, NothingFollows
      <4> HIDE DEF rest
      <4>3. got[c] \o <<>> = got[c]
        BY <1>1
      <4> QED BY <3>2, <4>2, <4>3, NoLines DEF LoadedBy
    <3> QED BY <1>1, <3>1, <3>2
  <2> HIDE DEF rest
  <2>3. got' = got
    BY <2>1, <2>2 DEF IInv, Types
  <2>4. r \in Request /\ iq \in Seq(Request) /\ r.jvm = c
        /\ r.kind = next /\ next \in {"hooks", "loaded"}
    BY DEF IInv, Types, Request
  <2>5. at[c] = "opcodes" => next = "hooks"
    OBVIOUS
  <2>6. at[c] = "hooks" => next = "loaded"
    OBVIOUS
  <2> HIDE DEF r, next
  <2>7. Common'
    <3>1. iq' \in Seq(Request)
      BY <2>1, <2>4, AppendProperties
    <3>2. at' \in [Jvms -> {"new", "opcodes", "hooks", "loaded", "died"}]
      BY <2>1, <2>4 DEF IInv, Types
    <3>3. inbox' \in [Jvms -> Seq(Item)]
      BY <1>4 DEF IInv, Types
    <3> QED BY <2>3, <3>1, <3>2, <3>3 DEF IInv, Types, Common, ValidInv, ReadEnd, listenerVars, editorVars
  <2>8. /\ at'[c] = next /\ inbox'[c] = <<>>
        /\ \A j \in Jvms \ {c} : inbox'[j] = inbox[j] /\ at'[j] = at[j]
    BY <1>4, <2>1 DEF IInv, Types
  <2>9. ASSUME NEW j \in Jvms
        PROVE  AsksOnce(iq', j) /\ (Asks(iq', j) <=> Asks(iq, j) \/ (next = "hooks" /\ j = c))
    <3>1. Asks(iq, j) => ~(r.kind = "hooks" /\ r.jvm = j)
      BY <1>1, <1>7, <1>8, <2>4
    <3>2. AsksOnce(iq, j)
      BY DEF IInv, JvmInv
    <3> QED BY <2>1, <2>4, <3>1, <3>2, AsksAppend
  <2>10. ASSUME NEW j \in Jvms, j # c PROVE JvmInv(j)'
    BY <2>3, <2>8, <2>9, <2>10, JvmFrame DEF IInv, ReadEnd, listenerVars
  <2>11. JvmInv(c)'
    <3>1. CASE at[c] = "opcodes"
      <4>1. Fresh(<<>>, <<>>)
        BY DEF Fresh
      <4> QED BY <1>8, <2>3, <2>5, <2>8, <2>9, <3>1, <4>1 DEF JvmInv, ReadEnd, listenerVars
    <3>2. CASE at[c] = "hooks"
      BY <1>6, <1>7, <2>3, <2>6, <2>8, <2>9, <3>2 DEF JvmInv, ReadEnd, listenerVars
    <3> QED BY <1>1, <3>1, <3>2
  <2> QED BY <2>7, <2>10, <2>11 DEF IInv, Common
<1> QED BY <1>9, <1>10
-----------------------------------------------------------------------------
(* A step that does not touch what JvmInv speaks of.                       *)
LEMMA Untouched ==
  ASSUME IInv, UNCHANGED <<at, inbox, got, iq, requests, left, answering>>
  PROVE  \A j \in Jvms : JvmInv(j)'
BY DEF IInv, JvmInv

(* What the calls queued for FRListener are.                               *)
CallsOK(q) ==
  /\ q \in Seq(Call)
  /\ \A i \in 1 .. Len(q) : q[i].kind = "hooks" => q[i].text \in ValidTexts

LEMMA CallsAppend ==
  ASSUME NEW q, CallsOK(q), NEW x \in Call, x.kind = "hooks" => x.text \in ValidTexts
  PROVE  CallsOK(Append(q, x))
<1>0. q \in Seq(Call)
  BY DEF CallsOK
<1>1. /\ Append(q, x) \in Seq(Call)
      /\ Len(q) \in Nat /\ Len(Append(q, x)) = Len(q) + 1 /\ Append(q, x)[Len(q) + 1] = x
      /\ \A i \in 1 .. Len(q) : Append(q, x)[i] = q[i]
  BY <1>0, AppendProperties
<1>2. 1 .. (Len(q) + 1) = (1 .. Len(q)) \cup {Len(q) + 1}
  BY <1>1
<1> QED BY <1>1, <1>2 DEF CallsOK

LEMMA CallsTail ==
  ASSUME NEW q, CallsOK(q), q # <<>>
  PROVE  /\ CallsOK(Tail(q))
         /\ Head(q) \in Call
         /\ Head(q).kind = "hooks" => Head(q).text \in ValidTexts
<1>0. q \in Seq(Call)
  BY DEF CallsOK
<1>1. /\ Tail(q) \in Seq(Call) /\ Head(q) = q[1] /\ Head(q) \in Call /\ 1 \in 1 .. Len(q)
      /\ \A i \in 1 .. Len(Tail(q)) : i + 1 \in 1 .. Len(q) /\ Tail(q)[i] = q[i + 1]
  BY <1>0, TailIs
<1> QED BY <1>1 DEF CallsOK

LEMMA BroadcastOK == Broadcast \in Call /\ Broadcast.kind # "hooks"
BY HandshakeAssumption DEF Broadcast, Call

(* The Editor sends a text only if it has passed validation.               *)
LEMMA ValidateOK ==
  ASSUME NEW ed, NEW always \in BOOLEAN, text \in Texts, text' = text, CallsOK(calls),
         validated => text \in ValidTexts, Validate(ed, always)
  PROVE  CallsOK(calls') /\ (validated' => text' \in ValidTexts)
<1> DEFINE passes == (validated /\ ~always) \/ text \in ValidTexts
           call == [kind |-> "hooks", text |-> text]
<1>1. passes => text \in ValidTexts
  OBVIOUS
<1>2. call \in Call /\ call.text = text
  BY DEF Call
<1>3. validated' => text' \in ValidTexts
  BY <1>1 DEF Validate
<1>4. calls' = IF passes /\ ed = "wired" THEN Append(calls, call) ELSE calls
  BY DEF Validate
<1> HIDE DEF passes, call
<1>5. CallsOK(calls')
  BY <1>1, <1>2, <1>4, CallsAppend
<1> QED BY <1>3, <1>5

LEMMA DispatchInv ==
  ASSUME IInv, Dispatch
  PROVE  IInv'
<1> DEFINE h == Head(iq)
<1>1. iq \in Seq(Request) /\ iq # <<>> /\ iq' = Tail(iq) /\ iq' \in Seq(Request) /\ h \in Request
  <2>1. iq \in Seq(Request) /\ iq # <<>> /\ iq' = Tail(iq)
    BY DEF IInv, Types, Dispatch
  <2> QED BY <2>1, TailIs
<1>2. PICK c \in Jvms : h.jvm = c
  <2> HIDE DEF h
  <2> QED BY <1>1 DEF Request
<1>3. ASSUME NEW j \in Jvms
      PROVE  /\ AsksOnce(iq', j) /\ (Asks(iq', j) => Asks(iq, j))
             /\ (h.kind = "hooks" /\ c = j) => Asks(iq, j) /\ ~Asks(iq', j)
  <2>1. AsksOnce(iq, j)
    BY DEF IInv, JvmInv
  <2>2. /\ Asks(Tail(iq), j) => Asks(iq, j)
        /\ AsksOnce(Tail(iq), j)
        /\ (Head(iq).kind = "hooks" /\ Head(iq).jvm = j) => Asks(iq, j) /\ ~Asks(Tail(iq), j)
    BY <1>1, <2>1, AsksTail
  <2> QED BY <1>1, <1>2, <2>2
<1>4. UNCHANGED <<at, inbox, got, calls, answering, editor, text, saved, validated>>
  BY DEF Dispatch, jvmVars, editorVars
<1>5. CASE /\ h.kind = "opcodes"
           /\ sending' = [i \in 1 .. OpcodeLines + 1 |->
                            [to |-> c, item |-> IF i <= OpcodeLines THEN Line(InitText) ELSE End]]
           /\ UNCHANGED <<requests, gui, left>>
  <2>1. sending' \in Seq(Delivery)
    <3>1. Line(InitText) \in Item /\ End \in Item /\ OpcodeLines + 1 \in Nat
      BY ItemsAre, HandshakeAssumption
    <3>2. \A x \in Item : [to |-> c, item |-> x] \in Delivery
      BY <1>2 DEF Delivery
    <3> QED BY <1>5, <3>1, <3>2
  <2>2. Common'
    BY <1>1, <1>4, <1>5, <2>1 DEF IInv, Types, Common, ValidInv
  <2>3. ASSUME NEW j \in Jvms PROVE JvmInv(j)'
    BY <1>3, <1>4, <1>5, JvmFrame DEF IInv
  <2> QED BY <2>2, <2>3 DEF IInv, Common
<1>6. CASE /\ h.kind = "hooks"
           /\ requests' = Append(requests, c)
           /\ gui' = Append(gui, "validate")
           /\ left' \in {left, <<>>}
           /\ UNCHANGED sending
  <2>1. requests \in Seq(Jvms) /\ JvmInv(c) /\ Asks(iq, c) /\ ~Asks(iq', c)
    BY <1>2, <1>3, <1>6 DEF IInv, Types
  <2>2. ~In(requests, c) /\ ~In(left, c)
    BY <2>1 DEF JvmInv
  <2>3. requests' \in Seq(Jvms) /\ Once(requests')
    <3>1. Once(requests)
      BY DEF IInv
    <3> QED BY <1>2, <1>6, <2>1, <2>2, <3>1, OnceAppend, AppendProperties
  <2>4. Once(left') /\ left' \in Seq(Jvms) /\ \A j : In(left', j) => In(left, j)
    <3>1. CASE left' = left
      BY <3>1 DEF IInv, Types
    <3>2. CASE left' = <<>>
      BY <3>2 DEF Once, In
    <3> QED BY <1>6, <3>1, <3>2
  <2>5. gui' \in Seq({"validate", "ready"})
    BY <1>6, AppendProperties DEF IInv, Types
  <2>6. Common'
    BY <1>1, <1>4, <1>6, <2>3, <2>4, <2>5 DEF IInv, Types, Common, ValidInv
  <2>7. \A j : In(requests', j) <=> (In(requests, j) \/ c = j)
    BY <1>2, <1>6, <2>1, InAppend
  <2>8. ASSUME NEW j \in Jvms, j # c PROVE JvmInv(j)'
    BY <1>3, <1>4, <2>4, <2>7, <2>8, JvmFrame DEF IInv
  <2>9. JvmInv(c)'
    <3>1. AsksOnce(iq', c) /\ at[c] \notin {"new", "opcodes"}
      BY <1>2, <1>3, <2>1 DEF JvmInv
    <3>2. at[c] = "hooks" => Fresh(got[c], inbox[c])
      BY <2>1 DEF JvmInv
    <3> QED BY <1>4, <2>1, <3>1, <3>2 DEF JvmInv
  <2> QED BY <2>6, <2>8, <2>9 DEF IInv, Common
<1>7. CASE /\ h.kind = "loaded"
           /\ gui' = Append(gui, "ready")
           /\ UNCHANGED <<sending, requests, left>>
  <2>1. gui' \in Seq({"validate", "ready"})
    BY <1>7, AppendProperties DEF IInv, Types
  <2>2. Common'
    BY <1>1, <1>4, <1>7, <2>1 DEF IInv, Types, Common, ValidInv
  <2>3. ASSUME NEW j \in Jvms PROVE JvmInv(j)'
    BY <1>3, <1>4, <1>7, JvmFrame DEF IInv
  <2> QED BY <2>2, <2>3 DEF IInv, Common
<1> QED BY <1>2, <1>5, <1>6, <1>7 DEF Dispatch

LEMMA SendOpcodeInv ==
  ASSUME IInv, SendOpcode
  PROVE  IInv'
<1> DEFINE c == Head(sending).to
           item == Head(sending).item
<1>1. sending \in Seq(Delivery) /\ sending # <<>>
  BY DEF IInv, Types, SendOpcode
<1>2. Tail(sending) \in Seq(Delivery) /\ c \in Jvms /\ item \in Item
  <2>1. Tail(sending) \in Seq(Delivery) /\ Head(sending) \in Delivery
    BY <1>1, TailIs
  <2> QED BY <2>1 DEF Delivery
<1> HIDE DEF c, item
<1>3. /\ inbox' = IF at[c] = "opcodes" THEN [inbox EXCEPT ![c] = Append(@, item)] ELSE inbox
      /\ sending' = Tail(sending)
  BY DEF SendOpcode, c, item
<1>4. UNCHANGED <<at, got, iq, gui, requests, calls, answering, left, editor, text, saved, validated>>
  BY DEF SendOpcode, listenerVars, editorVars
<1>5. inbox' \in [Jvms -> Seq(Item)]
  <2>1. Append(inbox[c], item) \in Seq(Item)
    BY <1>2, AppendProperties DEF IInv, Types
  <2> QED BY <1>3, <2>1 DEF IInv, Types
<1>6. Common'
  BY <1>2, <1>3, <1>4, <1>5 DEF IInv, Types, Common, ValidInv
<1>7. ASSUME NEW j \in Jvms PROVE JvmInv(j)'
  <2>1. inbox'[j] = inbox[j] \/ at[j] # "hooks"
    BY <1>2, <1>3 DEF IInv, Types
  <2>2. AsksOnce(iq, j)
    BY DEF IInv, JvmInv
  <2> QED BY <1>4, <2>1, <2>2, JvmFrame DEF IInv
<1> QED BY <1>6, <1>7 DEF IInv, Common

LEMMA HandleEventInv ==
  ASSUME IInv, HandleEvent
  PROVE  IInv'
<1>1. UNCHANGED <<at, inbox, got, iq, requests, left, answering, text, saved, sending>>
  BY DEF HandleEvent, jvmVars
<1>2. CallsOK(calls) /\ text \in Texts /\ (validated => text \in ValidTexts)
  BY DEF IInv, Types, ValidInv, CallsOK
<1>3. gui' \in Seq({"validate", "ready"})
  <2>1. gui \in Seq({"validate", "ready"}) /\ gui # <<>> /\ gui' = Tail(gui)
    BY DEF IInv, Types, HandleEvent
  <2> QED BY <2>1, TailIs
<1>4. CallsOK(calls') /\ (validated' => text' \in ValidTexts)
  <2>1. CASE \E ed : Validate(ed, FALSE)
    BY <1>1, <1>2, <2>1, ValidateOK
  <2>2. CASE calls' = (IF watching THEN Append(calls, Broadcast) ELSE calls) /\ UNCHANGED validated
    BY <1>1, <1>2, <2>2, BroadcastOK, CallsAppend
  <2> QED BY <2>1, <2>2 DEF HandleEvent
<1>5. Common'
  BY <1>1, <1>3, <1>4 DEF IInv, Types, Common, ValidInv, CallsOK
<1> QED BY <1>1, <1>5, Untouched DEF IInv, Common

LEMMA UserActsInv ==
  ASSUME IInv, UserActs
  PROVE  IInv'
<1>1. UNCHANGED <<at, inbox, got, iq, requests, left, answering, gui, sending>>
  BY DEF UserActs, jvmVars, monitorVars
<1>2. CallsOK(calls) /\ text \in Texts /\ saved \in Texts /\ (validated => text \in ValidTexts)
  BY DEF IInv, Types, ValidInv, CallsOK
<1>3. CallsOK(calls') /\ text' \in Texts /\ saved' \in Texts /\ (validated' => text' \in ValidTexts)
  <2>1. CASE OpenEditor
    BY <1>2, <2>1 DEF OpenEditor
  <2>2. CASE CloseEditor
    BY <1>2, <2>2 DEF CloseEditor
  <2>3. CASE Edit
    BY <1>2, <2>3 DEF Edit
  <2>4. CASE AddHook
    BY <1>2, <2>4 DEF AddHook
  <2>5. CASE Save
    BY <1>2, <2>5 DEF Save
  <2>6. CASE ValidateButton
    BY <1>2, <2>6, ValidateOK DEF ValidateButton
  <2>7. CASE Watch
    BY <1>2, <2>7, BroadcastOK, CallsAppend DEF Watch
  <2> QED BY <2>1, <2>2, <2>3, <2>4, <2>5, <2>6, <2>7 DEF UserActs
<1>4. Common'
  BY <1>1, <1>3 DEF IInv, Types, Common, ValidInv, CallsOK
<1> QED BY <1>1, <1>4, Untouched DEF IInv, Common

LEMMA TakeCallInv ==
  ASSUME IInv, TakeCall
  PROVE  IInv'
<1>1. /\ UNCHANGED <<at, got, iq, gui, requests, sending, editor, text, saved, validated>>
      /\ calls # <<>> /\ calls' = Tail(calls) /\ answering = "no"
  BY DEF TakeCall, monitorVars, editorVars
<1>2. CallsOK(calls') /\ (Head(calls).kind = "hooks" => Head(calls).text \in ValidTexts)
  <2>1. CallsOK(calls)
    BY DEF IInv, Types, ValidInv, CallsOK
  <2> QED BY <1>1, <2>1, CallsTail
<1>3. \A j \in Jvms : AsksOnce(iq, j)
  BY DEF IInv, JvmInv
<1>4. CASE Head(calls).kind = "hooks"
  <2>1. answering' = Head(calls).text /\ left' = requests /\ UNCHANGED inbox
    BY <1>4 DEF TakeCall
  <2>2. Common'
    BY <1>1, <1>2, <1>4, <2>1 DEF IInv, Types, Common, ValidInv, CallsOK
  <2>3. ASSUME NEW j \in Jvms PROVE JvmInv(j)'
    BY <1>1, <1>3, <2>1, JvmFrame DEF IInv
  <2> QED BY <2>2, <2>3 DEF IInv, Common
<1>5. CASE Head(calls).kind # "hooks"
  <2>1. /\ UNCHANGED <<answering, left>>
        /\ inbox' = [j \in Jvms |-> IF Loading(j) THEN Append(inbox[j], Command) ELSE inbox[j]]
    BY <1>5 DEF TakeCall
  <2>2. ASSUME NEW j \in Jvms
        PROVE  /\ inbox[j] \in Seq(Item) /\ Append(inbox[j], Command) \in Seq(Item)
               /\ inbox'[j] = inbox[j] \/ inbox'[j] = Append(inbox[j], Command)
    <3>1. inbox[j] \in Seq(Item)
      BY DEF IInv, Types
    <3> QED BY <2>1, <3>1, ItemsAre, AppendProperties
  <2>3. inbox' \in [Jvms -> Seq(Item)]
    BY <2>1, <2>2
  <2>4. Common'
    BY <1>1, <1>2, <2>1, <2>3 DEF IInv, Types, Common, ValidInv, CallsOK
  <2>5. ASSUME NEW j \in Jvms PROVE JvmInv(j)'
    BY <1>1, <1>3, <2>1, <2>2, JvmFrame DEF IInv
  <2> QED BY <2>4, <2>5 DEF IInv, Common
<1> QED BY <1>4, <1>5

LEMMA AnswerInv ==
  ASSUME IInv, Answer
  PROVE  IInv'
<1>0. PICK c : c = Head(left)
  OBVIOUS
<1>1. /\ UNCHANGED <<at, got, iq, gui, requests, calls, answering, sending, editor, text, saved, validated>>
      /\ answering # "no" /\ left # <<>> /\ left' = Tail(left)
      /\ inbox' = IF at[c] = "hooks"
                  THEN [inbox EXCEPT ![c] = @ \o <<Line(answering), End>>]
                  ELSE inbox
  BY <1>0 DEF Answer, monitorVars, editorVars
<1>2. left \in Seq(Jvms) /\ Once(left) /\ answering \in ValidTexts
  BY <1>1 DEF IInv, Types, ValidInv
<1>3. c \in Jvms /\ In(left, c) /\ left' \in Seq(Jvms)
  BY <1>0, <1>1, <1>2, TailIs DEF In
<1>4. Once(left') /\ ~In(left', c) /\ \A j : In(left', j) => In(left, j)
  BY <1>0, <1>1, <1>2, OnceTail, InTail
<1>5. inbox[c] \in Seq(Item) /\ inbox[c] \o <<Line(answering), End>> \in Seq(Item)
  <2>1. Line(answering) \in Item /\ End \in Item
    BY <1>2, ItemsAre, HandshakeAssumption
  <2>2. <<Line(answering), End>> \in Seq(Item) /\ inbox[c] \in Seq(Item)
    BY <1>3, <2>1 DEF IInv, Types
  <2> QED BY <2>2, ConcatProperties
<1>6. inbox' \in [Jvms -> Seq(Item)]
  BY <1>1, <1>5 DEF IInv, Types
<1>7. Common'
  BY <1>1, <1>3, <1>4, <1>6 DEF IInv, Types, Common, ValidInv
<1>8. \A j \in Jvms : AsksOnce(iq, j) /\ JvmInv(j)
  BY DEF IInv, JvmInv
<1>9. ASSUME NEW j \in Jvms, j # c \/ at[c] # "hooks" PROVE JvmInv(j)'
  <2>1. inbox'[j] = inbox[j]
    BY <1>1, <1>9 DEF IInv, Types
  <2> QED BY <1>1, <1>4, <1>8, <2>1, JvmFrame
<1>10. CASE at[c] = "hooks"
  <2>1. /\ inbox'[c] = inbox[c] \o <<Line(answering), End>>
        /\ Fresh(got[c], inbox[c]) /\ ~Asks(iq, c)
    BY <1>1, <1>3, <1>8, <1>10 DEF IInv, Types, JvmInv
  <2>2. Given(got[c], inbox'[c])
    BY <1>2, <1>5, <2>1, FreshAnswered
  <2>3. JvmInv(c)'
    BY <1>1, <1>3, <1>4, <1>8, <1>10, <2>1, <2>2 DEF JvmInv
  <2> QED BY <1>7, <1>9, <2>3 DEF IInv, Common
<1>11. CASE at[c] # "hooks"
  BY <1>7, <1>9, <1>11 DEF IInv, Common
<1> QED BY <1>10, <1>11

LEMMA ClearRequestsInv ==
  ASSUME IInv, ClearRequests
  PROVE  IInv'
<1>1. /\ UNCHANGED <<at, inbox, got, iq, gui, calls, left, sending, editor, text, saved, validated>>
      /\ answering' = "no" /\ requests' = <<>>
  BY DEF ClearRequests, jvmVars, monitorVars, editorVars
<1>2. Once(requests') /\ \A j : ~In(requests', j)
  BY <1>1 DEF Once, In
<1>3. Common'
  <2>1. Types'
    BY <1>1 DEF IInv, Types
  <2>2. Once(left') /\ ValidInv'
    BY <1>1 DEF IInv, ValidInv
  <2> QED BY <1>2, <2>1, <2>2 DEF Common
<1>4. ASSUME NEW j \in Jvms PROVE JvmInv(j)'
  <2>1. AsksOnce(iq, j)
    BY DEF IInv, JvmInv
  <2> QED BY <1>1, <1>2, <2>1, JvmFrame DEF IInv
<1> QED BY <1>3, <1>4 DEF IInv, Common
-----------------------------------------------------------------------------
(* The invariant is inductive: a JVM asks once, is noted once, walked once *)
(* and sent at most one list, whose text was valid when it was validated.  *)
THEOREM HandshakeInvariance == Spec => []IInv
<1>1. ASSUME IInv, [Next]_vars PROVE IInv'
  <2>1. CASE \E j \in Jvms : Connect(j)
    BY <1>1, <2>1, ConnectInv
  <2>2. CASE \E j \in Jvms : ReadLine(j) \/ ReadEnd(j)
    BY <1>1, <2>2, ReadLineInv, ReadEndInv
  <2>3. CASE Dispatch \/ SendOpcode
    BY <1>1, <2>3, DispatchInv, SendOpcodeInv
  <2>4. CASE TakeCall \/ Answer \/ ClearRequests
    BY <1>1, <2>4, TakeCallInv, AnswerInv, ClearRequestsInv
  <2>5. CASE HandleEvent \/ UserActs
    BY <1>1, <2>5, HandleEventInv, UserActsInv
  <2>6. CASE InstrumentationReport
    <3>1. /\ UNCHANGED <<at, inbox, got, iq, requests, left, answering, gui, calls, sending>>
          /\ UNCHANGED <<text, saved, validated>>
      BY <2>6 DEF InstrumentationReport, jvmVars, monitorVars, listenerVars
    <3>2. Common'
      BY <1>1, <3>1 DEF IInv, Types, Common, ValidInv
    <3> QED BY <1>1, <3>1, <3>2, Untouched DEF IInv, Common
  <2>7. CASE UNCHANGED vars
    <3>1. UNCHANGED <<at, inbox, got, iq, requests, left, answering, gui, calls, sending,
                      text, saved, validated>>
      BY <2>7 DEF vars
    <3>2. Common'
      BY <1>1, <3>1 DEF IInv, Types, Common, ValidInv
    <3> QED BY <1>1, <3>1, <3>2, Untouched DEF IInv, Common
  <2> QED BY <1>1, <2>1, <2>2, <2>3, <2>4, <2>5, <2>6, <2>7 DEF Next, Jvm, Mhandler, Listener
<1> QED BY <1>1, InitInv, PTL DEF Spec

(* What is on its way names JVMs and texts, and what the Editor, the       *)
(* listener and the ghosts hold is what it should be.                      *)
THEOREM TypeCorrect == Spec => []TypeOK
<1> DEFINE Rest == /\ answering \in Texts \cup {"no"}
                   /\ editor \in {"closed", "wired", "unwired"}
                   /\ validated \in BOOLEAN /\ watching \in BOOLEAN
                   /\ dropped \subseteq Jvms /\ ignored \subseteq Jvms
<1>1. Init => Rest
  BY DEF Init
<1>2. IInv /\ Rest /\ [Next]_vars => Rest'
  <2> SUFFICES ASSUME Types, Rest, [Next]_vars PROVE Rest'
    BY DEF IInv
  <2>1. CASE \E j \in Jvms : Connect(j) \/ ReadLine(j) \/ ReadEnd(j)
    <3>1. UNCHANGED <<answering, dropped, editor, validated, ignored, watching>>
      BY <2>1 DEF Connect, ReadLine, ReadEnd, listenerVars, editorVars
    <3> QED BY <3>1
  <2>2. CASE Dispatch \/ SendOpcode
    BY <2>2 DEF Dispatch, SendOpcode, listenerVars, editorVars
  <2>3. CASE TakeCall
    <3>1. /\ UNCHANGED <<dropped, editor, validated, ignored, watching>>
          /\ answering' \in {answering, Head(calls).text} /\ calls # <<>>
      BY <2>3 DEF TakeCall, editorVars
    <3>2. Head(calls) \in Call
      BY <3>1 DEF Types
    <3>3. Head(calls).text \in Texts
      BY <3>2 DEF Call
    <3> QED BY <3>1, <3>3
  <2>4. CASE Answer
    BY <2>4 DEF Answer, editorVars
  <2>5. CASE ClearRequests
    <3>1. ToSet(requests) \subseteq Jvms
      BY DEF Types, ToSet
    <3> QED BY <2>5, <3>1 DEF ClearRequests, editorVars
  <2>6. CASE HandleEvent
    <3>1. ToSet(requests) \subseteq Jvms
      BY DEF Types, ToSet
    <3> QED BY <2>6, <3>1 DEF HandleEvent, Validate
  <2>7. CASE UserActs
    BY <2>7 DEF UserActs, OpenEditor, CloseEditor, Edit, AddHook, Save, ValidateButton, Watch, Validate
  <2>8. CASE InstrumentationReport
    BY <2>8 DEF InstrumentationReport, listenerVars
  <2>9. CASE UNCHANGED vars
    BY <2>9 DEF vars
  <2> QED BY <2>1, <2>2, <2>3, <2>4, <2>5, <2>6, <2>7, <2>8, <2>9 DEF Next, Jvm, Mhandler, Listener
<1>3. IInv /\ Rest => TypeOK
  BY DEF IInv, TypeOK
<1> QED BY <1>1, <1>2, <1>3, HandshakeInvariance, PTL DEF Spec

(* No JVM is given a text that has not passed validation, whatever the     *)
(* user typed since and whichever Editor window is up; and a JVM that runs *)
(* has loaded one list of hooks, once.                                     *)
THEOREM HooksOnceAndValid == Spec => []OneValidList
<1>1. ASSUME IInv PROVE OneValidList
  <2> SUFFICES ASSUME NEW j \in Jvms
               PROVE  /\ ToSet(got[j]) \subseteq ValidTexts
                      /\ Len(got[j]) <= 1
                      /\ at[j] = "loaded" => Len(got[j]) = 1
    BY DEF OneValidList
  <2>1. JvmInv(j) /\ got[j] \in Seq(Texts)
        /\ at[j] \in {"new", "opcodes", "hooks", "loaded", "died"}
    BY <1>1 DEF IInv, Types
  <2>2. got[j] = <<>> \/ LoadedOne(got[j])
    BY <2>1 DEF JvmInv, Fresh, Given
  <2>3. CASE got[j] = <<>>
    <3>1. at[j] # "loaded"
      BY <2>1, <2>3 DEF JvmInv, LoadedOne
    <3> QED BY <2>3, <3>1 DEF ToSet
  <2>4. CASE LoadedOne(got[j])
    <3>1. ToSet(got[j]) = {got[j][1]}
      BY <2>1, <2>4 DEF ToSet, LoadedOne
    <3> QED BY <2>4, <3>1 DEF LoadedOne
  <2> QED BY <2>2, <2>3, <2>4
<1> QED BY <1>1, HandshakeInvariance, PTL
=============================================================================
