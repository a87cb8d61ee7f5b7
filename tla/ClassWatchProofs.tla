-------------------------- MODULE ClassWatchProofs --------------------------
(***************************************************************************)
(* What TLAPS proves of CommandBridge and ProfilerSwitch, for any classes, *)
(* signals, loading threads and sequence of commands, and of ClassWatch.   *)
(* The two watching threads leave the invariant of ProfilerSwitch as it    *)
(* is, so that its theorems hold of the whole agent; and the class         *)
(* listings are accounted for.                                             *)
(***************************************************************************)
EXTENDS ClassWatch, SequenceTheorems, FiniteSetTheorems, TLAPS

Step == [op : {"store", "notify"}, cond : Conditions, value : BOOLEAN]

(* The stores left of the current command for flag c, and the value that   *)
(* the flag has when the command is over.                                  *)
Storing(c) == {i \in DOMAIN todo : todo[i].op = "store" /\ todo[i].cond = c}
Final(c) == IF Storing(c) = {} THEN flag[c] ELSE \E i \in Storing(c) : todo[i].value

(* A command stores a flag once, announces what it stores, and leaves no   *)
(* watch on while the profiler is off when it is over.                     *)
BridgeInv ==
  /\ BridgeTypeOK
  /\ todo \in Seq(Step)
  /\ \A c \in Conditions : \A i, j \in Storing(c) : i = j
  /\ \A i \in DOMAIN todo : todo[i].op = "store" =>
       i + 1 \in DOMAIN todo /\ todo[i + 1] = Notify(todo[i].cond)
  /\ Final("loading") \/ Final("traffic") => Final("profiler")

(* A thread in the hook is there for a class, and adds hooks only to one   *)
(* that has signals.                                                       *)
HookInv ==
  \A t \in Threads :
    /\ at[t] # "out" => name[t] \in Classes
    /\ at[t] = "hook" => name[t] \in Signals

(* reload_monitor waits only between its rounds, and is in the hook only   *)
(* during one.                                                             *)
RoundInv ==
  /\ "profiler" \in waiting => reloaderAt = "blocked"
  /\ reloaderAt # "retransform" => targets = {} /\ at[Reloader] = "out"

(* While hooks have not overlapped, _fr holds the class of the one thread  *)
(* that is in the hook once that thread has loaded it.                     *)
AloneInv ==
  ~overlap =>
    /\ \A t, u \in Threads : at[t] # "out" /\ at[u] # "out" => t = u
    /\ \A t \in Threads : at[t] # "out" =>
         /\ loaded[t] => fr = name[t]
         /\ at[t] \in {"track", "hook"} => loaded[t]
         /\ result[t].of = name[t]
    /\ \A c \in Classes : IF c \in allLoaded THEN code[c].of = c ELSE code[c] = NotLoaded

(* Every change of _runProfile has been heard and its round has begun.     *)
InStep ==
  /\ \A i \in DOMAIN todo : todo[i].cond # "profiler"
  /\ "profiler" \notin missed
  /\ ~(reloaderAt = "blocked" /\ "profiler" \notin waiting)
  /\ ~overlap /\ ~undefined

(* These are the bytes class c should have.                                *)
Right(c, bytes) ==
  /\ bytes = IF Profiling THEN Hooked(c) ELSE Plain(c)
  /\ Profiling => c \in saved

(* Then whatever the round has done, and every hook it or a loading thread *)
(* is in, agrees with _runProfile.                                         *)
AgreeInv ==
  InStep =>
    /\ \A t \in Threads : at[t] # "out" /\ name[t] \in Signals =>
         /\ at[t] \in {"track?", "track", "hook?"} => result[t] = Plain(name[t])
         /\ at[t] = "hook" => Profiling
         /\ at[t] \in {"restore?", "insert"} => Right(name[t], result[t])
    /\ \A c \in Signals :
         /\ c \in allLoaded
         /\ c \notin targets
         /\ \A t \in Threads : at[t] # "out" => name[t] # c
         => Right(c, code[c])
    /\ reloaderAt # "retransform" /\ lastAck # "none" => (lastAck = "on") = Profiling

(* The inductive invariant.                                                *)
SwitchInv ==
  BridgeInv /\ SwitchTypeOK /\ HookInv /\ RoundInv /\ AloneInv /\ AgreeInv
-----------------------------------------------------------------------------
LEMMA BridgeInitInv == BridgeInit => BridgeInv
BY BridgeAssumption DEF BridgeInit, BridgeInv, BridgeTypeOK, Storing, Final, Conditions

(* A command that sets one flag.                                           *)
LEMMA ReceiveOne ==
  ASSUME BridgeInv, todo = <<>>, NEW c \in Conditions, NEW v \in BOOLEAN,
         todo' = Set(c, v), UNCHANGED <<flag, waiting, missed>>,
         received' \in 0 .. MaxCommands, v /\ c # "profiler" => flag["profiler"],
         c = "profiler" => v
  PROVE  BridgeInv'
<1>1. BridgeTypeOK'
  BY DEF BridgeInv, BridgeTypeOK
<1>2. /\ todo' \in Seq(Step) /\ DOMAIN todo' = 1 .. 2
      /\ todo'[1] = Store(c, v) /\ todo'[2] = Notify(c)
  <2>1. Store(c, v) \in Step /\ Notify(c) \in Step
    BY DEF Store, Notify, Step
  <2> QED BY <2>1 DEF Set
<1>3. /\ todo'[1].op = "store" /\ todo'[1].cond = c /\ todo'[1].value = v
      /\ todo'[2].op = "notify"
  BY <1>2 DEF Store, Notify
<1>4. \A i \in DOMAIN todo' : i = 1 \/ i = 2
  BY <1>2
<1>5. Storing(c)' = {1} /\ \A d \in Conditions : d # c => Storing(d)' = {}
  BY <1>2, <1>3, <1>4 DEF Storing
<1>6. Final(c)' = v /\ \A d \in Conditions : d # c => Final(d)' = flag[d]
  BY <1>3, <1>5 DEF Final
<1>7. Final("loading")' \/ Final("traffic")' => Final("profiler")'
  <2>1. flag["loading"] \/ flag["traffic"] => flag["profiler"]
    BY DEF BridgeInv, Final, Storing
  <2>2. CASE c = "profiler"
    BY <1>6, <2>2
  <2>3. CASE c = "loading"
    BY <1>6, <2>1, <2>3 DEF Conditions
  <2>4. CASE c = "traffic"
    BY <1>6, <2>1, <2>4 DEF Conditions
  <2> QED BY <2>2, <2>3, <2>4 DEF Conditions
<1>8. \A d \in Conditions : \A i, j \in Storing(d)' : i = j
  BY <1>5
<1>9. \A i \in DOMAIN todo' : todo'[i].op = "store" =>
        i + 1 \in DOMAIN todo' /\ todo'[i + 1] = Notify(todo'[i].cond)
  BY <1>2, <1>3, <1>4
<1> QED BY <1>1, <1>2, <1>7, <1>8, <1>9 DEF BridgeInv

LEMMA SetIs ==
  ASSUME NEW c \in Conditions, NEW v \in BOOLEAN
  PROVE  /\ Set(c, v) \in Seq(Step) /\ Len(Set(c, v)) = 2
         /\ Set(c, v)[1] = Store(c, v) /\ Set(c, v)[2] = Notify(c)
<1>1. Store(c, v) \in Step /\ Notify(c) \in Step
  BY DEF Store, Notify, Step
<1> QED BY <1>1 DEF Set

(* Three pairs of steps make a sequence of six.                            *)
Joined(p, q, r) == p \o q \o r

LEMMA ThreePairs ==
  ASSUME NEW p \in Seq(Step), NEW q \in Seq(Step), NEW r \in Seq(Step),
         Len(p) = 2, Len(q) = 2, Len(r) = 2
  PROVE  /\ Joined(p, q, r) \in Seq(Step) /\ Len(Joined(p, q, r)) = 6
         /\ Joined(p, q, r)[1] = p[1] /\ Joined(p, q, r)[2] = p[2]
         /\ Joined(p, q, r)[3] = q[1] /\ Joined(p, q, r)[4] = q[2]
         /\ Joined(p, q, r)[5] = r[1] /\ Joined(p, q, r)[6] = r[2]
<1> DEFINE s == p \o q
           t == s \o r
<1>1. /\ s \in Seq(Step) /\ Len(s) = Len(p) + Len(q)
      /\ \A i \in 1 .. Len(p) + Len(q) : s[i] = IF i <= Len(p) THEN p[i] ELSE q[i - Len(p)]
  BY ConcatProperties
<1> HIDE DEF s
<1>2. /\ t \in Seq(Step) /\ Len(t) = Len(s) + Len(r)
      /\ \A i \in 1 .. Len(s) + Len(r) : t[i] = IF i <= Len(s) THEN s[i] ELSE r[i - Len(s)]
  <2>1. s \in Seq(Step)
    BY <1>1
  <2> QED BY <2>1, ConcatProperties
<1> HIDE DEF t
<1>3. /\ t[1] = p[1] /\ t[2] = p[2] /\ t[3] = q[1] /\ t[4] = q[2]
      /\ t[5] = r[1] /\ t[6] = r[2]
  BY <1>1, <1>2
<1>4. Len(t) = 6
  BY <1>1, <1>2
<1> QED BY <1>2, <1>3, <1>4 DEF s, t, Joined

(* The command that turns the profiler off, and both watches with it.      *)
LEMMA ReceiveOff ==
  ASSUME BridgeInv, Receive("turn_off_profiler")
  PROVE  BridgeInv'
<1>1. BridgeTypeOK'
  BY BridgeAssumption DEF Receive, BridgeInv, BridgeTypeOK
<1>2. /\ todo' \in Seq(Step) /\ Len(todo') = 6
      /\ todo'[1] = Store("profiler", FALSE) /\ todo'[2] = Notify("profiler")
      /\ todo'[3] = Store("loading", FALSE) /\ todo'[4] = Notify("loading")
      /\ todo'[5] = Store("traffic", FALSE) /\ todo'[6] = Notify("traffic")
  <2> DEFINE p == Set("profiler", FALSE)
             q == Set("loading", FALSE)
             r == Set("traffic", FALSE)
  <2>1. todo' = Joined(p, q, r)
    BY DEF Receive, Program, Joined
  <2>2. /\ p \in Seq(Step) /\ Len(p) = 2 /\ q \in Seq(Step) /\ Len(q) = 2
        /\ r \in Seq(Step) /\ Len(r) = 2
        /\ p[1] = Store("profiler", FALSE) /\ p[2] = Notify("profiler")
        /\ q[1] = Store("loading", FALSE) /\ q[2] = Notify("loading")
        /\ r[1] = Store("traffic", FALSE) /\ r[2] = Notify("traffic")
    BY SetIs DEF Conditions
  <2> HIDE DEF p, q, r
  <2>3. /\ todo' \in Seq(Step) /\ Len(todo') = 6
        /\ todo'[1] = p[1] /\ todo'[2] = p[2] /\ todo'[3] = q[1] /\ todo'[4] = q[2]
        /\ todo'[5] = r[1] /\ todo'[6] = r[2]
    <3>1. p \in Seq(Step) /\ q \in Seq(Step) /\ r \in Seq(Step)
      BY <2>2
    <3>2. Len(p) = 2 /\ Len(q) = 2 /\ Len(r) = 2
      BY <2>2
    <3>3. /\ Joined(p, q, r) \in Seq(Step) /\ Len(Joined(p, q, r)) = 6
          /\ Joined(p, q, r)[1] = p[1] /\ Joined(p, q, r)[2] = p[2]
          /\ Joined(p, q, r)[3] = q[1] /\ Joined(p, q, r)[4] = q[2]
          /\ Joined(p, q, r)[5] = r[1] /\ Joined(p, q, r)[6] = r[2]
      BY <3>1, <3>2, ThreePairs
    <3> QED BY <2>1, <3>3
  <2> QED BY <2>2, <2>3
<1>3. DOMAIN todo' = 1 .. 6
  BY <1>2
<1>4. \A i \in DOMAIN todo' : i = 1 \/ i = 2 \/ i = 3 \/ i = 4 \/ i = 5 \/ i = 6
  BY <1>3
<1>6. \A c \in Conditions : /\ Store(c, FALSE).op = "store" /\ Store(c, FALSE).cond = c
                             /\ Store(c, FALSE).value = FALSE /\ Notify(c).op = "notify"
  BY DEF Store, Notify
<1>11. /\ todo'[1].op = "store" /\ todo'[1].cond = "profiler"
       /\ todo'[3].op = "store" /\ todo'[3].cond = "loading" /\ todo'[3].value = FALSE
       /\ todo'[5].op = "store" /\ todo'[5].cond = "traffic" /\ todo'[5].value = FALSE
  BY <1>2, <1>6 DEF Conditions
<1>12. todo'[2].op # "store" /\ todo'[4].op # "store" /\ todo'[6].op # "store"
  BY <1>2, <1>6 DEF Conditions
<1>7. /\ Storing("profiler")' = {1} /\ Storing("loading")' = {3}
      /\ Storing("traffic")' = {5}
  <2>1. \A i \in DOMAIN todo' : todo'[i].op = "store" => i = 1 \/ i = 3 \/ i = 5
    BY <1>4, <1>12
  <2>2. 1 \in DOMAIN todo' /\ 3 \in DOMAIN todo' /\ 5 \in DOMAIN todo'
    BY <1>3
  <2> QED BY <1>11, <2>1, <2>2 DEF Storing
<1>8. ~Final("loading")' /\ ~Final("traffic")'
  BY <1>7, <1>11 DEF Final
<1>9. \A d \in Conditions : \A i, j \in Storing(d)' : i = j
  BY <1>7 DEF Conditions
<1>10. \A i \in DOMAIN todo' : todo'[i].op = "store" =>
         i + 1 \in DOMAIN todo' /\ todo'[i + 1] = Notify(todo'[i].cond)
  <2> TAKE i \in DOMAIN todo'
  <2> HAVE todo'[i].op = "store"
  <2>1. i = 1 \/ i = 3 \/ i = 5
    BY <1>4, <1>12
  <2>2. 2 \in DOMAIN todo' /\ 4 \in DOMAIN todo' /\ 6 \in DOMAIN todo'
    BY <1>3
  <2>3. /\ todo'[1 + 1] = Notify(todo'[1].cond) /\ todo'[3 + 1] = Notify(todo'[3].cond)
        /\ todo'[5 + 1] = Notify(todo'[5].cond)
    <3>1. /\ todo'[2] = Notify("profiler") /\ todo'[4] = Notify("loading")
          /\ todo'[6] = Notify("traffic")
      BY <1>2
    <3> QED BY <1>11, <3>1
  <2> QED BY <2>1, <2>2, <2>3
<1> QED BY <1>1, <1>2, <1>8, <1>9, <1>10 DEF BridgeInv

LEMMA ReceiveInv ==
  ASSUME BridgeInv, NEW cmd \in Commands, Receive(cmd)
  PROVE  BridgeInv'
<1>1. /\ todo = <<>> /\ todo' = Program(cmd) /\ UNCHANGED <<flag, waiting, missed>>
      /\ received' \in 0 .. MaxCommands
  BY BridgeAssumption DEF Receive, BridgeInv, BridgeTypeOK
<1>2. CASE todo' = <<>>
  BY <1>1, <1>2 DEF BridgeInv, BridgeTypeOK, Storing, Final
<1>3. CASE cmd = "turn_on_profiler"
  BY <1>1, <1>3, ReceiveOne DEF Program, Conditions
<1>4. CASE cmd = "turn_off_profiler"
  BY <1>4, ReceiveOff
<1>5. CASE cmd = "watch_loading" /\ flag["profiler"]
  BY <1>1, <1>5, ReceiveOne DEF Program, Conditions
<1>6. CASE cmd = "stop_watch_loading"
  BY <1>1, <1>6, ReceiveOne DEF Program, Conditions
<1>7. CASE cmd = "watch_traffic" /\ flag["profiler"]
  BY <1>1, <1>7, ReceiveOne DEF Program, Conditions
<1>8. CASE cmd = "stop_watch_traffic"
  BY <1>1, <1>8, ReceiveOne DEF Program, Conditions
<1>9. CASE cmd \in {"watch_loading", "watch_traffic"} /\ ~flag["profiler"]
  BY <1>1, <1>2, <1>9 DEF Program
<1> QED BY <1>3, <1>4, <1>5, <1>6, <1>7, <1>8, <1>9, BridgeAssumption

(* The steps left move up by one.                                          *)
LEMMA NextStep ==
  ASSUME BridgeInv, todo # <<>>, todo' = Tail(todo)
  PROVE  /\ todo' \in Seq(Step)
         /\ Head(todo) = todo[1] /\ todo[1] \in Step /\ 1 \in DOMAIN todo
         /\ \A i \in DOMAIN todo' : i \in Nat \ {0} /\ i + 1 \in DOMAIN todo /\ todo'[i] = todo[i + 1]
         /\ \A i \in DOMAIN todo : i = 1 \/ (i - 1 \in DOMAIN todo' /\ todo'[i - 1] = todo[i])
<1>1. todo \in Seq(Step) /\ todo # <<>>
  BY DEF BridgeInv
<1>2. todo' \in Seq(Step) /\ Len(todo') = Len(todo) - 1 /\ Len(todo) \in Nat \ {0}
      /\ \A i \in 1 .. Len(todo') : todo'[i] = todo[i + 1]
  BY <1>1
<1>3. DOMAIN todo = 1 .. Len(todo) /\ DOMAIN todo' = 1 .. Len(todo')
  BY <1>1, <1>2
<1>4. Head(todo) = todo[1] /\ todo[1] \in Step /\ 1 \in DOMAIN todo
  BY <1>1, <1>2, <1>3
<1>5. ASSUME NEW i \in DOMAIN todo'
      PROVE  i \in Nat \ {0} /\ i + 1 \in DOMAIN todo /\ todo'[i] = todo[i + 1]
  BY <1>2, <1>3
<1>6. ASSUME NEW i \in DOMAIN todo, i # 1
      PROVE  i - 1 \in DOMAIN todo' /\ todo'[i - 1] = todo[i]
  <2>1. i - 1 \in 1 .. Len(todo') /\ (i - 1) + 1 = i
    BY <1>2, <1>3, <1>6
  <2> QED BY <1>2, <1>3, <2>1
<1> QED BY <1>2, <1>4, <1>5, <1>6

LEMMA TailInv ==
  ASSUME BridgeInv, todo # <<>>, todo' = Tail(todo)
  PROVE  /\ todo' \in Seq(Step)
         /\ \A c \in Conditions : \A i, j \in Storing(c)' : i = j
         /\ \A i \in DOMAIN todo' : todo'[i].op = "store" =>
              i + 1 \in DOMAIN todo' /\ todo'[i + 1] = Notify(todo'[i].cond)
<1>1. ASSUME NEW c \in Conditions, NEW i \in Storing(c)', NEW j \in Storing(c)' PROVE i = j
  <2>1. i + 1 \in Storing(c) /\ j + 1 \in Storing(c) /\ i \in Nat /\ j \in Nat
    BY NextStep DEF Storing
  <2>2. i + 1 = j + 1
    BY <2>1 DEF BridgeInv
  <2> QED BY <2>1, <2>2
<1>2. ASSUME NEW i \in DOMAIN todo', todo'[i].op = "store"
      PROVE  i + 1 \in DOMAIN todo' /\ todo'[i + 1] = Notify(todo'[i].cond)
  <2>1. i \in Nat \ {0} /\ i + 1 \in DOMAIN todo /\ todo'[i] = todo[i + 1]
    BY NextStep
  <2>2. (i + 1) + 1 \in DOMAIN todo /\ todo[(i + 1) + 1] = Notify(todo'[i].cond)
    BY <1>2, <2>1 DEF BridgeInv
  <2>3. (i + 1) + 1 # 1 /\ ((i + 1) + 1) - 1 = i + 1
    BY <2>1
  <2> QED BY <2>2, <2>3, NextStep
<1> QED BY <1>1, <1>2, NextStep

LEMMA StoreFlagInv ==
  ASSUME BridgeInv, StoreFlag
  PROVE  BridgeInv'
<1>0. todo # <<>> /\ todo' = Tail(todo)
  BY DEF StoreFlag
<1>2. Head(todo) = todo[1] /\ todo[1] \in Step /\ 1 \in DOMAIN todo
  BY <1>0, NextStep
<1>3. PICK c \in Conditions, v \in BOOLEAN : c = todo[1].cond /\ v = todo[1].value
  BY <1>2 DEF Step
<1>1. /\ todo # <<>> /\ todo' = Tail(todo) /\ todo[1].op = "store"
      /\ flag' = [flag EXCEPT ![c] = v] /\ UNCHANGED <<waiting, missed, received>>
  BY <1>0, <1>2, <1>3 DEF StoreFlag
<1>4. BridgeTypeOK'
  BY <1>1, <1>3 DEF BridgeInv, BridgeTypeOK
<1>5. 1 \in Storing(c)
  BY <1>1, <1>2, <1>3 DEF Storing
<1>6. Final(c) <=> v
  <2>1. \A i \in Storing(c) : i = 1
    BY <1>3, <1>5 DEF BridgeInv
  <2> QED BY <1>3, <1>5, <2>1 DEF Final
<1>7. Storing(c)' = {}
  <2> SUFFICES ASSUME NEW i \in Storing(c)' PROVE FALSE
    OBVIOUS
  <2>1. i + 1 \in Storing(c) /\ i \in Nat \ {0}
    BY <1>1, NextStep DEF Storing
  <2>2. i + 1 = 1
    BY <1>3, <1>5, <2>1 DEF BridgeInv
  <2> QED BY <2>1, <2>2
<1>8. Final(c)' <=> v
  <2>1. flag'[c] = v
    BY <1>1 DEF BridgeInv, BridgeTypeOK
  <2> QED BY <1>7, <2>1, Zenon DEF Final
<1>9. ASSUME NEW d \in Conditions, d # c PROVE Final(d)' <=> Final(d)
  <2>1. flag'[d] = flag[d]
    BY <1>1, <1>9 DEF BridgeInv, BridgeTypeOK
  <2>2. \A i \in Storing(d)' : i + 1 \in Storing(d) /\ todo'[i] = todo[i + 1]
    BY <1>1, NextStep DEF Storing
  <2>3. \A i \in Storing(d) : i # 1
    BY <1>3, <1>9 DEF Storing
  <2>4. \A i \in Storing(d) : i - 1 \in Storing(d)' /\ todo'[i - 1] = todo[i]
    BY <1>1, <2>3, NextStep DEF Storing
  <2>5. Storing(d)' = {} <=> Storing(d) = {}
    BY <2>2, <2>4
  <2> QED BY <2>1, <2>2, <2>4, <2>5 DEF Final
<1>10. \A d \in Conditions : Final(d)' <=> Final(d)
  BY <1>6, <1>8, <1>9, Zenon
<1>11. Final("loading")' \/ Final("traffic")' => Final("profiler")'
  BY <1>10, Zenon DEF BridgeInv, Conditions
<1> QED BY <1>1, <1>4, <1>11, TailInv DEF BridgeInv

LEMMA NotifyOneInv ==
  ASSUME BridgeInv, NotifyOne
  PROVE  BridgeInv'
<1>1. /\ todo # <<>> /\ todo' = Tail(todo) /\ todo[1].op = "notify"
      /\ UNCHANGED <<flag, received>>
      /\ waiting' = waiting \ {todo[1].cond}
      /\ missed' = IF todo[1].cond \in waiting THEN missed \ {todo[1].cond}
                   ELSE missed \cup {todo[1].cond}
  <2>1. todo # <<>> /\ todo' = Tail(todo)
    BY DEF NotifyOne
  <2>2. Head(todo) = todo[1]
    BY <2>1, NextStep
  <2> QED BY <2>1, <2>2 DEF NotifyOne
<1>2. todo[1] \in Step
  BY <1>1, NextStep
<1>3. BridgeTypeOK'
  BY <1>1, <1>2 DEF BridgeInv, BridgeTypeOK, Step
<1>4. ASSUME NEW d \in Conditions PROVE Final(d)' <=> Final(d)
  <2>2. \A i \in Storing(d)' : i + 1 \in Storing(d) /\ todo'[i] = todo[i + 1]
    BY <1>1, NextStep DEF Storing
  <2>3. \A i \in Storing(d) : i # 1
    BY <1>1 DEF Storing
  <2>4. \A i \in Storing(d) : i - 1 \in Storing(d)' /\ todo'[i - 1] = todo[i]
    BY <1>1, <2>3, NextStep DEF Storing
  <2>5. Storing(d)' = {} <=> Storing(d) = {}
    BY <2>2, <2>4
  <2> QED BY <1>1, <2>2, <2>4, <2>5 DEF Final
<1>5. Final("loading")' \/ Final("traffic")' => Final("profiler")'
  BY <1>4 DEF BridgeInv, Conditions
<1> QED BY <1>1, <1>3, <1>5, TailInv DEF BridgeInv

LEMMA BlockInv ==
  ASSUME BridgeInv, NEW c \in Conditions, Block(c)
  PROVE  BridgeInv'
BY DEF BridgeInv, BridgeTypeOK, Block, Storing, Final

LEMMA BridgeStepInv ==
  ASSUME BridgeInv, Bridge
  PROVE  BridgeInv'
BY ReceiveInv, StoreFlagInv, NotifyOneInv DEF Bridge

LEMMA BridgeFrame ==
  ASSUME BridgeInv, UNCHANGED bridgeVars
  PROVE  BridgeInv'
BY DEF BridgeInv, BridgeTypeOK, Storing, Final, bridgeVars

(* Between two commands no watch is on while the profiler is off.          *)
LEMMA BridgeInvImplies == BridgeInv => WatchedOnlyWhileProfiling
BY DEF BridgeInv, WatchedOnlyWhileProfiling, Storing, Final
-----------------------------------------------------------------------------
LEMMA BytesOf ==
  ASSUME NEW c
  PROVE  Plain(c).of = c /\ Hooked(c).of = c
BY DEF Plain, Hooked

LEMMA SwitchInitInv == SwitchInit => SwitchInv
<1> SUFFICES ASSUME SwitchInit PROVE SwitchInv
  OBVIOUS
<1>1. BridgeInv /\ BridgeTypeOK
  BY BridgeInitInv DEF SwitchInit, BridgeInv
<1>2. NotLoaded \in [of : Classes \cup {NoClass}, hooked : BOOLEAN]
  BY DEF NotLoaded, Plain
<1>3. SwitchTypeOK
  BY <1>1, <1>2 DEF SwitchInit, SwitchTypeOK
<1>4. HookInv
  BY DEF SwitchInit, HookInv
<1>5. RoundInv
  BY DEF SwitchInit, BridgeInit, RoundInv, Threads
<1>6. AloneInv
  BY BytesOf DEF SwitchInit, AloneInv, NotLoaded
<1>7. AgreeInv
  BY DEF SwitchInit, AgreeInv
<1> QED BY <1>1, <1>3, <1>4, <1>5, <1>6, <1>7 DEF SwitchInv

(* A step of the command bridge, or of a thread that blocks on another     *)
(* condition variable.                                                     *)
LEMMA BridgeSwitchInv ==
  ASSUME SwitchInv, UNCHANGED switchVars, BridgeInv',
         InStep' => InStep /\ flag'["profiler"] = flag["profiler"],
         "profiler" \in waiting' => "profiler" \in waiting
  PROVE  SwitchInv'
<1>1. SwitchTypeOK'
  BY DEF SwitchInv, SwitchTypeOK, BridgeInv, switchVars
<1>2. HookInv'
  BY DEF SwitchInv, HookInv, switchVars
<1>3. RoundInv'
  BY DEF SwitchInv, RoundInv, switchVars
<1>4. AloneInv'
  BY DEF SwitchInv, AloneInv, switchVars
<1>5. AgreeInv'
  <2> SUFFICES ASSUME InStep' PROVE AgreeInv'
    BY DEF AgreeInv
  <2>1. InStep /\ flag'["profiler"] = flag["profiler"]
    OBVIOUS
  <2>2. Profiling' <=> Profiling
    BY <2>1 DEF Profiling
  <2>3. \A c \in Signals : \A b : Right(c, b) => Right(c, b)'
    BY <2>2 DEF Right, switchVars
  <2> QED BY <2>1, <2>2, <2>3 DEF SwitchInv, AgreeInv, switchVars
<1> QED BY <1>1, <1>2, <1>3, <1>4, <1>5 DEF SwitchInv

LEMMA SwitchReceiveInv ==
  ASSUME SwitchInv, NEW cmd \in Commands, Receive(cmd), UNCHANGED switchVars
  PROVE  SwitchInv'
<1>1. BridgeInv'
  BY ReceiveInv DEF SwitchInv
<1>2. todo = <<>> /\ UNCHANGED <<flag, waiting, missed>>
  BY DEF Receive
<1>3. InStep' => InStep
  BY <1>2 DEF InStep, switchVars
<1> QED BY <1>1, <1>2, <1>3, BridgeSwitchInv

(* A store of _runProfile leaves its notification to be made.              *)
LEMMA SwitchStoreInv ==
  ASSUME SwitchInv, StoreFlag, UNCHANGED switchVars
  PROVE  SwitchInv'
<1>1. BridgeInv /\ BridgeInv'
  BY StoreFlagInv DEF SwitchInv
<1>2. todo # <<>> /\ todo' = Tail(todo) /\ UNCHANGED <<waiting, missed>>
  BY DEF StoreFlag
<1>3. /\ Head(todo) = todo[1] /\ todo[1] \in Step /\ 1 \in DOMAIN todo
      /\ \A i \in DOMAIN todo : i = 1 \/ (i - 1 \in DOMAIN todo' /\ todo'[i - 1] = todo[i])
  BY <1>1, <1>2, NextStep
<1>4. /\ flag' = [flag EXCEPT ![todo[1].cond] = todo[1].value] /\ todo[1].op = "store"
  BY <1>3 DEF StoreFlag
<1>5. 2 \in DOMAIN todo /\ todo[2] = Notify(todo[1].cond)
  <2>1. 1 + 1 \in DOMAIN todo /\ todo[1 + 1] = Notify(todo[1].cond)
    BY <1>1, <1>3, <1>4 DEF BridgeInv
  <2> QED BY <2>1
<1>6. 2 - 1 \in DOMAIN todo' /\ todo'[2 - 1] = Notify(todo[1].cond)
  BY <1>3, <1>5
<1>7. ASSUME InStep' PROVE InStep /\ flag'["profiler"] = flag["profiler"]
  <2>1. todo[1].cond # "profiler"
    <3>1. todo'[2 - 1].cond # "profiler"
      BY <1>6, <1>7 DEF InStep
    <3>2. Notify(todo[1].cond).cond = todo[1].cond
      BY DEF Notify
    <3> QED BY <1>6, <3>1, <3>2
  <2>2. \A i \in DOMAIN todo : todo[i].cond # "profiler"
    BY <1>3, <1>7, <2>1 DEF InStep
  <2>3. InStep
    BY <1>2, <1>7, <2>2 DEF InStep, switchVars
  <2>4. flag'["profiler"] = flag["profiler"]
    BY <1>1, <1>4, <2>1 DEF BridgeInv, BridgeTypeOK, Conditions
  <2> QED BY <2>3, <2>4
<1> QED BY <1>1, <1>2, <1>7, BridgeSwitchInv

(* A notification of _profilerCond is missed, or starts a round.           *)
LEMMA SwitchNotifyInv ==
  ASSUME SwitchInv, NotifyOne, UNCHANGED switchVars
  PROVE  SwitchInv'
<1>1. BridgeInv /\ BridgeInv'
  BY NotifyOneInv DEF SwitchInv
<1>2. todo # <<>> /\ todo' = Tail(todo) /\ UNCHANGED flag
  BY DEF NotifyOne
<1>3. /\ Head(todo) = todo[1] /\ todo[1] \in Step /\ 1 \in DOMAIN todo
      /\ \A i \in DOMAIN todo : i = 1 \/ (i - 1 \in DOMAIN todo' /\ todo'[i - 1] = todo[i])
  BY <1>1, <1>2, NextStep
<1>4. /\ waiting' = waiting \ {todo[1].cond}
      /\ missed' = IF todo[1].cond \in waiting THEN missed \ {todo[1].cond}
                   ELSE missed \cup {todo[1].cond}
  BY <1>3 DEF NotifyOne
<1>5. ASSUME InStep' PROVE InStep
  <2>1. todo[1].cond # "profiler"
    <3> SUFFICES ASSUME todo[1].cond = "profiler" PROVE FALSE
      OBVIOUS
    <3>1. CASE "profiler" \in waiting
      <4>1. reloaderAt' = "blocked"
        BY <3>1 DEF SwitchInv, RoundInv, switchVars
      <4>2. "profiler" \notin waiting'
        BY <1>4
      <4> QED BY <1>5, <4>1, <4>2 DEF InStep
    <3>2. CASE "profiler" \notin waiting
      BY <1>4, <1>5, <3>2 DEF InStep
    <3> QED BY <3>1, <3>2
  <2>2. \A i \in DOMAIN todo : todo[i].cond # "profiler"
    BY <1>3, <1>5, <2>1 DEF InStep
  <2>3. ("profiler" \in missed' <=> "profiler" \in missed)
        /\ ("profiler" \in waiting' <=> "profiler" \in waiting)
    BY <1>4, <2>1
  <2> QED BY <1>5, <2>2, <2>3 DEF InStep, switchVars
<1>6. "profiler" \in waiting' => "profiler" \in waiting
  BY <1>4
<1> QED BY <1>1, <1>2, <1>5, <1>6, BridgeSwitchInv

(* A thread blocks on one of the two other condition variables.            *)
LEMMA SwitchBlockInv ==
  ASSUME SwitchInv, NEW c \in Conditions, c # "profiler", Block(c), UNCHANGED switchVars
  PROVE  SwitchInv'
<1>1. BridgeInv'
  BY BlockInv DEF SwitchInv
<1>2. InStep' => InStep
  BY DEF InStep, Block, switchVars
<1> QED BY <1>1, <1>2, BridgeSwitchInv DEF Block

LEMMA SwitchBridgeInv ==
  ASSUME SwitchInv, Bridge, UNCHANGED switchVars
  PROVE  SwitchInv'
BY SwitchReceiveInv, SwitchStoreInv, SwitchNotifyInv DEF Bridge
-----------------------------------------------------------------------------
LEMMA LoadInv ==
  ASSUME SwitchInv, NEW t \in Threads, NEW c \in Classes, EnterHook(t, c),
         UNCHANGED bridgeVars, UNCHANGED reloaderAt,
         targets' = targets \/ (targets' = targets \ {c} /\ reloaderAt = "retransform"),
         t = Reloader => reloaderAt = "retransform"
  PROVE  SwitchInv'
<1>0. BridgeInv' /\ BridgeTypeOK'
  BY BridgeFrame DEF SwitchInv, BridgeInv
<1>1. /\ at[t] = "out" /\ at' = [at EXCEPT ![t] = "track?"] /\ name' = [name EXCEPT ![t] = c]
      /\ loaded' = [loaded EXCEPT ![t] = FALSE] /\ result' = [result EXCEPT ![t] = Plain(c)]
      /\ overlap' = (overlap \/ InHook # {})
      /\ UNCHANGED <<lastAck, fr, allLoaded, saved, code, undefined>>
  BY DEF EnterHook
<1>2. /\ at \in [Threads -> {"out", "track?", "track", "hook?", "hook", "restore?", "insert"}]
      /\ name \in [Threads -> Classes \cup {NoClass}]
      /\ loaded \in [Threads -> BOOLEAN]
      /\ result \in [Threads -> [of : Classes \cup {NoClass}, hooked : BOOLEAN]]
      /\ code \in [Classes -> [of : Classes \cup {NoClass}, hooked : BOOLEAN]]
      /\ allLoaded \subseteq Classes
  BY DEF SwitchInv, SwitchTypeOK
<1>3. Plain(c) \in [of : Classes \cup {NoClass}, hooked : BOOLEAN]
  BY DEF Plain
<1>4. SwitchTypeOK'
  BY <1>0, <1>1, <1>3 DEF SwitchInv, SwitchTypeOK
<1>5. HookInv'
  BY <1>1, <1>2 DEF SwitchInv, HookInv
<1>6. RoundInv'
  BY <1>1, <1>2 DEF SwitchInv, RoundInv, bridgeVars, Threads
<1>7. ASSUME ~overlap' PROVE /\ ~overlap /\ \A u \in Threads : at[u] = "out"
  BY <1>1, <1>7 DEF InHook, SwitchInv, SwitchTypeOK
<1>8. AloneInv'
  <2> SUFFICES ASSUME ~overlap' PROVE AloneInv'
    BY DEF AloneInv
  <2>1. \A u \in Threads : at'[u] # "out" => u = t
    BY <1>1, <1>2, <1>7
  <2>2. /\ at'[t] = "track?" /\ loaded'[t] = FALSE /\ result'[t].of = c /\ name'[t] = c
    BY <1>1, <1>2, BytesOf
  <2> QED BY <1>1, <1>7, <2>1, <2>2 DEF AloneInv, SwitchInv
<1>9. AgreeInv'
  <2> SUFFICES ASSUME InStep' PROVE AgreeInv'
    BY DEF AgreeInv
  <2>1. InStep
    BY <1>1 DEF InStep, bridgeVars
  <2>2. \A d \in Signals : \A b : Right(d, b)' <=> Right(d, b)
    BY <1>1 DEF Right, Profiling, bridgeVars
  <2>3. \A u \in Threads : at[u] = "out"
    BY <1>7 DEF InStep
  <2>4. \A u \in Threads : at'[u] # "out" => u = t
    BY <1>1, <1>2, <2>3
  <2>5. at'[t] = "track?" /\ result'[t] = Plain(name'[t]) /\ name'[t] = c /\ at'[t] # "out"
    BY <1>1, <1>2
  <2>6. ASSUME NEW d \in Signals, d \in allLoaded', d \notin targets',
               \A u \in Threads : at'[u] # "out" => name'[u] # d
        PROVE  Right(d, code[d])'
    <3>1. d # c
      BY <2>5, <2>6
    <3>2. d \in allLoaded /\ d \notin targets
      BY <1>1, <2>6, <3>1
    <3>3. Right(d, code[d])
      BY <2>1, <2>3, <3>2 DEF SwitchInv, AgreeInv
    <3> QED BY <1>1, <2>2, <3>3
  <2>7. reloaderAt' # "retransform" /\ lastAck' # "none" => (lastAck' = "on") = Profiling'
    BY <1>1, <2>1 DEF SwitchInv, AgreeInv, Profiling, bridgeVars
  <2> QED BY <2>4, <2>5, <2>6, <2>7 DEF AgreeInv
<1> QED BY <1>0, <1>4, <1>5, <1>6, <1>8, <1>9 DEF SwitchInv

(* What a thread in the hook may rely on, and has to keep.                 *)
HookTypeOK ==
  /\ loaded \in [Threads -> BOOLEAN]
  /\ result \in [Threads -> [of : Classes \cup {NoClass}, hooked : BOOLEAN]]
  /\ fr \in Classes \cup {NoClass}
  /\ saved \subseteq Signals
  /\ undefined \in BOOLEAN

LoadedHere(t) ==
  /\ loaded[t] => fr = name[t]
  /\ at[t] \in {"track", "hook"} => loaded[t]

AgreeHere(t) ==
  /\ at[t] \in {"track?", "track", "hook?"} => result[t] = Plain(name[t])
  /\ at[t] = "hook" => Profiling
  /\ at[t] \in {"restore?", "insert"} => Right(name[t], result[t])

LEMMA HereFacts ==
  ASSUME SwitchInv, NEW t \in Threads, at[t] # "out"
  PROVE  /\ HookTypeOK
         /\ name[t] \in Classes
         /\ at[t] = "hook" => name[t] \in Signals
         /\ ~overlap => LoadedHere(t) /\ result[t].of = name[t]
         /\ InStep /\ name[t] \in Signals => AgreeHere(t)
<1>1. HookTypeOK
  BY DEF SwitchInv, SwitchTypeOK, HookTypeOK
<1>2. name[t] \in Classes /\ (at[t] = "hook" => name[t] \in Signals)
  BY DEF SwitchInv, HookInv
<1>3. ~overlap => LoadedHere(t) /\ result[t].of = name[t]
  BY DEF SwitchInv, AloneInv, LoadedHere
<1>4. InStep /\ name[t] \in Signals => AgreeHere(t)
  BY DEF SwitchInv, AgreeInv, AgreeHere
<1> QED BY <1>1, <1>2, <1>3, <1>4

(* A step of a thread inside the hook.                                     *)
LEMMA InHookInv ==
  ASSUME SwitchInv, NEW t \in Threads, at[t] # "out",
         NEW next \in {"track", "hook?", "hook", "restore?", "insert"}, GoTo(t, next),
         HookTypeOK', saved \subseteq saved', undefined => undefined',
         \A u \in Threads : u # t => loaded'[u] = loaded[u] /\ result'[u] = result[u],
         next = "hook" => name[t] \in Signals,
         ~overlap => LoadedHere(t)' /\ result'[t].of = name[t],
         InStep /\ name[t] \in Signals => AgreeHere(t)'
  PROVE  SwitchInv'
<1>0. BridgeInv' /\ BridgeTypeOK'
  BY BridgeFrame DEF SwitchInv, BridgeInv, GoTo
<1>1. /\ at' = [at EXCEPT ![t] = next]
      /\ UNCHANGED <<reloaderAt, targets, lastAck, name, allLoaded, code, overlap>>
      /\ UNCHANGED bridgeVars
  BY DEF GoTo
<1>2. at \in [Threads -> {"out", "track?", "track", "hook?", "hook", "restore?", "insert"}]
  BY DEF SwitchInv, SwitchTypeOK
<1>3. SwitchTypeOK'
  BY <1>0, <1>1 DEF SwitchInv, SwitchTypeOK, HookTypeOK
<1>4. HookInv'
  BY <1>1, <1>2 DEF SwitchInv, HookInv
<1>5. RoundInv'
  BY <1>1, <1>2 DEF SwitchInv, RoundInv, bridgeVars, Threads
<1>6. at'[t] = next /\ \A u \in Threads : u # t => at'[u] = at[u]
  BY <1>1, <1>2
<1>7. AloneInv'
  <2> SUFFICES ASSUME ~overlap' PROVE AloneInv'
    BY DEF AloneInv
  <2>1. ~overlap /\ \A u, v \in Threads : at[u] # "out" /\ at[v] # "out" => u = v
    BY <1>1 DEF SwitchInv, AloneInv
  <2>2. \A u \in Threads : at'[u] # "out" => u = t
    BY <1>6, <2>1
  <2>3. LoadedHere(t)' /\ result'[t].of = name'[t]
    BY <1>1, <2>1
  <2>4. \A c \in Classes : IF c \in allLoaded THEN code[c].of = c ELSE code[c] = NotLoaded
    BY <2>1 DEF SwitchInv, AloneInv
  <2> QED BY <1>1, <2>2, <2>3, <2>4 DEF AloneInv, LoadedHere
<1>8. AgreeInv'
  <2> SUFFICES ASSUME InStep' PROVE AgreeInv'
    BY DEF AgreeInv
  <2>1. InStep
    BY <1>1 DEF InStep, bridgeVars
  <2>2. \A d \in Signals : \A b : Right(d, b) => Right(d, b)'
    BY <1>1 DEF Right, Profiling, bridgeVars
  <2>3. \A u \in Threads : at'[u] # "out" => u = t
    BY <1>6, <2>1 DEF SwitchInv, AloneInv, InStep
  <2>4. \A u \in Threads : at'[u] # "out" /\ name'[u] \in Signals => AgreeHere(u)'
    BY <1>1, <2>1, <2>3
  <2>5. ASSUME NEW d \in Signals, d \in allLoaded', d \notin targets',
               \A u \in Threads : at'[u] # "out" => name'[u] # d
        PROVE  Right(d, code[d])'
    <3>1. \A u \in Threads : at[u] # "out" => name[u] # d
      BY <1>1, <1>6, <2>5
    <3>2. Right(d, code[d])
      BY <1>1, <2>1, <2>5, <3>1 DEF SwitchInv, AgreeInv
    <3> QED BY <1>1, <2>2, <3>2
  <2>6. reloaderAt' # "retransform" /\ lastAck' # "none" => (lastAck' = "on") = Profiling'
    BY <1>1, <2>1 DEF SwitchInv, AgreeInv, Profiling, bridgeVars
  <2> QED BY <2>4, <2>5, <2>6 DEF AgreeInv, AgreeHere
<1> QED BY <1>0, <1>3, <1>4, <1>5, <1>7, <1>8 DEF SwitchInv

(* What GoTo does to the variables the hook reads.                         *)
LEMMA GoToFrame ==
  ASSUME SwitchInv, NEW t \in Threads,
         NEW next \in {"track", "hook?", "hook", "restore?", "insert"}, GoTo(t, next)
  PROVE  /\ at'[t] = next /\ name' = name /\ allLoaded' = allLoaded
         /\ Profiling' <=> Profiling
<1>1. at'[t] = next
  BY DEF GoTo, SwitchInv, SwitchTypeOK
<1> QED BY <1>1 DEF GoTo, bridgeVars, Profiling

LEMMA TestTrackInv ==
  ASSUME SwitchInv, NEW t \in Threads, TestTrack(t)
  PROVE  SwitchInv'
<1> DEFINE track == Profiling /\ name[t] \in Trackable
           next == IF track THEN "track" ELSE "hook?"
<1>1. /\ at[t] = "track?" /\ GoTo(t, next) /\ fr' = (IF track THEN name[t] ELSE fr)
      /\ loaded' = [loaded EXCEPT ![t] = track] /\ UNCHANGED <<result, saved, undefined>>
  BY DEF TestTrack
<1>2. next \in {"track", "hook?", "hook", "restore?", "insert"} /\ track \in BOOLEAN
      /\ next \in {"track", "hook?"} /\ (next = "track" => track)
  OBVIOUS
<1> HIDE DEF next, track
<1>3. /\ HookTypeOK /\ name[t] \in Classes
      /\ ~overlap => result[t].of = name[t]
      /\ InStep /\ name[t] \in Signals => AgreeHere(t)
  BY <1>1, HereFacts
<1>4. loaded' \in [Threads -> BOOLEAN] /\ loaded'[t] = track
      /\ \A u \in Threads : u # t => loaded'[u] = loaded[u]
  BY <1>1, <1>2, <1>3 DEF HookTypeOK
<1>5. at'[t] = next /\ name' = name
  BY <1>1, <1>2, GoToFrame
<1>6. HookTypeOK'
  BY <1>1, <1>3, <1>4 DEF HookTypeOK
<1>7. LoadedHere(t)'
  BY <1>1, <1>2, <1>4, <1>5 DEF LoadedHere
<1>8. InStep /\ name[t] \in Signals => AgreeHere(t)'
  BY <1>1, <1>2, <1>3, <1>5 DEF AgreeHere
<1>9. UNCHANGED <<result, saved, undefined>> /\ next # "hook" /\ at[t] # "out" /\ GoTo(t, next)
  BY <1>1, <1>2
<1> QED BY <1>2, <1>3, <1>4, <1>6, <1>7, <1>8, <1>9, InHookInv

LEMMA TrackInv ==
  ASSUME SwitchInv, NEW t \in Threads, Track(t)
  PROVE  SwitchInv'
<1>1. at[t] = "track" /\ GoTo(t, "hook?") /\ UNCHANGED <<fr, loaded, result, saved, undefined>>
  BY DEF Track
<1>2. /\ HookTypeOK /\ name[t] \in Classes
      /\ ~overlap => LoadedHere(t) /\ result[t].of = name[t]
      /\ InStep /\ name[t] \in Signals => AgreeHere(t)
  BY <1>1, HereFacts
<1>3. at'[t] = "hook?" /\ name' = name
  BY <1>1, GoToFrame
<1>4. HookTypeOK'
  BY <1>1, <1>2 DEF HookTypeOK
<1>5. LoadedHere(t) => LoadedHere(t)'
  BY <1>1, <1>3 DEF LoadedHere
<1>6. InStep /\ name[t] \in Signals => AgreeHere(t)'
  BY <1>1, <1>2, <1>3 DEF AgreeHere
<1> QED BY <1>1, <1>2, <1>4, <1>5, <1>6, InHookInv

LEMMA TestHookInv ==
  ASSUME SwitchInv, NEW t \in Threads, TestHook(t)
  PROVE  SwitchInv'
<1> DEFINE hook == Profiling /\ name[t] \in Signals
           next == IF hook THEN "hook" ELSE "restore?"
<1>1. /\ at[t] = "hook?" /\ GoTo(t, next)
      /\ fr' = (IF hook /\ ~loaded[t] THEN name[t] ELSE fr)
      /\ loaded' = [loaded EXCEPT ![t] = @ \/ hook] /\ UNCHANGED <<result, saved, undefined>>
  BY DEF TestHook
<1>2. next \in {"track", "hook?", "hook", "restore?", "insert"} /\ hook \in BOOLEAN
      /\ next \in {"hook", "restore?"} /\ (next = "hook" <=> hook)
      /\ (hook <=> Profiling /\ name[t] \in Signals)
  OBVIOUS
<1> HIDE DEF next, hook
<1>3. /\ HookTypeOK /\ name[t] \in Classes
      /\ ~overlap => LoadedHere(t) /\ result[t].of = name[t]
      /\ InStep /\ name[t] \in Signals => AgreeHere(t)
  BY <1>1, HereFacts
<1>4. loaded' \in [Threads -> BOOLEAN] /\ loaded'[t] = (loaded[t] \/ hook)
      /\ \A u \in Threads : u # t => loaded'[u] = loaded[u]
  <2>1. (loaded[t] \/ hook) \in BOOLEAN
    OBVIOUS
  <2> QED BY <1>1, <1>3, <2>1 DEF HookTypeOK
<1>5. at'[t] = next /\ name' = name /\ (Profiling' <=> Profiling)
  BY <1>1, <1>2, GoToFrame
<1>6. HookTypeOK'
  BY <1>1, <1>3, <1>4 DEF HookTypeOK
<1>7. ASSUME LoadedHere(t) PROVE LoadedHere(t)'
  <2>1. loaded'[t] <=> loaded[t] \/ hook
    BY <1>4
  <2>2. loaded'[t] => fr' = name'[t]
    BY <1>1, <1>5, <1>7, <2>1 DEF LoadedHere
  <2>3. at'[t] \in {"track", "hook"} => loaded'[t]
    BY <1>2, <1>5, <2>1
  <2> QED BY <2>2, <2>3 DEF LoadedHere
<1>8. InStep /\ name[t] \in Signals => AgreeHere(t)'
  BY <1>1, <1>2, <1>3, <1>5 DEF AgreeHere, Right
<1>9. UNCHANGED <<result, saved, undefined>> /\ at[t] # "out" /\ GoTo(t, next)
      /\ (next = "hook" => name[t] \in Signals)
  BY <1>1, <1>2
<1> QED BY <1>2, <1>3, <1>4, <1>6, <1>7, <1>8, <1>9, InHookInv

LEMMA AddHooksInv ==
  ASSUME SwitchInv, NEW t \in Threads, AddHooks(t)
  PROVE  SwitchInv'
<1>1. /\ at[t] = "hook" /\ GoTo(t, "restore?") /\ result' = [result EXCEPT ![t] = Hooked(fr)]
      /\ saved' = saved \cup {name[t]} /\ UNCHANGED <<fr, loaded, undefined>>
  BY DEF AddHooks
<1>2. /\ HookTypeOK /\ name[t] \in Signals
      /\ ~overlap => LoadedHere(t)
      /\ InStep => AgreeHere(t)
  BY <1>1, HereFacts
<1>3. Hooked(fr) \in [of : Classes \cup {NoClass}, hooked : BOOLEAN] /\ Hooked(fr).of = fr
  BY <1>2 DEF Hooked, HookTypeOK
<1>4. /\ result' \in [Threads -> [of : Classes \cup {NoClass}, hooked : BOOLEAN]]
      /\ result'[t] = Hooked(fr) /\ \A u \in Threads : u # t => result'[u] = result[u]
  BY <1>1, <1>2, <1>3 DEF HookTypeOK
<1>5. at'[t] = "restore?" /\ name' = name /\ (Profiling' <=> Profiling)
  BY <1>1, GoToFrame
<1>6. HookTypeOK'
  BY <1>1, <1>2, <1>4 DEF HookTypeOK
<1>7. ~overlap => fr = name[t]
  BY <1>1, <1>2 DEF LoadedHere
<1>8. ~overlap => LoadedHere(t)' /\ result'[t].of = name[t]
  BY <1>1, <1>3, <1>4, <1>5, <1>7 DEF LoadedHere
<1>9. ASSUME InStep PROVE AgreeHere(t)'
  <2>1. Profiling /\ fr = name[t]
    BY <1>1, <1>2, <1>7, <1>9 DEF InStep, AgreeHere
  <2> QED BY <1>1, <1>4, <1>5, <2>1 DEF AgreeHere, Right
<1> QED BY <1>1, <1>2, <1>4, <1>6, <1>8, <1>9, InHookInv

LEMMA TestRestoreInv ==
  ASSUME SwitchInv, NEW t \in Threads, TestRestore(t)
  PROVE  SwitchInv'
<1> DEFINE restore == ~Profiling /\ name[t] \in Signals /\ name[t] \in allLoaded
<1>1. /\ at[t] = "restore?" /\ GoTo(t, "insert") /\ fr' = (IF restore THEN name[t] ELSE fr)
      /\ result' = (IF restore THEN [result EXCEPT ![t] = Plain(name[t])] ELSE result)
      /\ undefined' = (undefined \/ (restore /\ name[t] \notin saved))
      /\ UNCHANGED <<loaded, saved>>
  BY DEF TestRestore
<1>2. restore \in BOOLEAN /\ (restore => ~Profiling)
  OBVIOUS
<1> HIDE DEF restore
<1>3. /\ HookTypeOK /\ name[t] \in Classes
      /\ ~overlap => LoadedHere(t) /\ result[t].of = name[t]
      /\ InStep /\ name[t] \in Signals => AgreeHere(t)
  BY <1>1, HereFacts
<1>4. Plain(name[t]) \in [of : Classes \cup {NoClass}, hooked : BOOLEAN]
      /\ Plain(name[t]).of = name[t]
  BY <1>3 DEF Plain
<1>5. /\ result' \in [Threads -> [of : Classes \cup {NoClass}, hooked : BOOLEAN]]
      /\ result'[t] = (IF restore THEN Plain(name[t]) ELSE result[t])
      /\ \A u \in Threads : u # t => result'[u] = result[u]
  BY <1>1, <1>3, <1>4 DEF HookTypeOK
<1>6. at'[t] = "insert" /\ name' = name /\ (Profiling' <=> Profiling)
  BY <1>1, GoToFrame
<1>7. HookTypeOK' /\ (undefined => undefined')
  BY <1>1, <1>3, <1>5 DEF HookTypeOK
<1>8. LoadedHere(t) => LoadedHere(t)'
  <2>1. loaded'[t] <=> loaded[t]
    BY <1>1
  <2>2. LoadedHere(t) => (loaded'[t] => fr' = name'[t])
    BY <1>1, <1>6, <2>1 DEF LoadedHere
  <2> QED BY <1>6, <2>2 DEF LoadedHere
<1>9. result[t].of = name[t] => result'[t].of = name[t]
  BY <1>4, <1>5
<1>10. AgreeHere(t) => AgreeHere(t)'
  BY <1>1, <1>2, <1>5, <1>6 DEF AgreeHere, Right
<1> QED BY <1>1, <1>3, <1>5, <1>7, <1>8, <1>9, <1>10, InHookInv

LEMMA LeaveHookInv ==
  ASSUME SwitchInv, NEW t \in Threads, LeaveHook(t)
  PROVE  SwitchInv'
<1>0. BridgeInv' /\ BridgeTypeOK'
  BY BridgeFrame DEF SwitchInv, BridgeInv, LeaveHook
<1>1. /\ at[t] = "insert" /\ allLoaded' = allLoaded \cup {name[t]}
      /\ code' = [code EXCEPT ![name[t]] = result[t]]
      /\ at' = [at EXCEPT ![t] = "out"] /\ name' = [name EXCEPT ![t] = NoClass]
      /\ loaded' = [loaded EXCEPT ![t] = FALSE] /\ result' = [result EXCEPT ![t] = NotLoaded]
      /\ UNCHANGED <<reloaderAt, targets, lastAck, fr, saved, overlap, undefined>>
      /\ UNCHANGED bridgeVars
  BY DEF LeaveHook
<1>2. /\ at \in [Threads -> {"out", "track?", "track", "hook?", "hook", "restore?", "insert"}]
      /\ name \in [Threads -> Classes \cup {NoClass}]
      /\ result \in [Threads -> [of : Classes \cup {NoClass}, hooked : BOOLEAN]]
      /\ code \in [Classes -> [of : Classes \cup {NoClass}, hooked : BOOLEAN]]
      /\ allLoaded \subseteq Classes
  BY DEF SwitchInv, SwitchTypeOK
<1>3. /\ name[t] \in Classes
      /\ ~overlap => result[t].of = name[t]
      /\ InStep /\ name[t] \in Signals => Right(name[t], result[t])
  BY <1>1, HereFacts DEF AgreeHere
<1>4. NotLoaded \in [of : Classes \cup {NoClass}, hooked : BOOLEAN]
  BY DEF NotLoaded, Plain
<1>5. SwitchTypeOK'
  BY <1>0, <1>1, <1>2, <1>3, <1>4 DEF SwitchInv, SwitchTypeOK
<1>6. /\ at'[t] = "out" /\ \A u \in Threads : u # t => at'[u] = at[u] /\ name'[u] = name[u]
      /\ \A d \in Classes : code'[d] = IF d = name[t] THEN result[t] ELSE code[d]
  BY <1>1, <1>2, <1>3
<1>7. HookInv'
  BY <1>6 DEF SwitchInv, HookInv
<1>8. RoundInv'
  BY <1>1, <1>6 DEF SwitchInv, RoundInv, bridgeVars, Threads
<1>9. ~overlap => \A u \in Threads : at'[u] = "out"
  BY <1>1, <1>6 DEF SwitchInv, AloneInv
<1>10. AloneInv'
  <2> SUFFICES ASSUME ~overlap' PROVE AloneInv'
    BY DEF AloneInv
  <2>1. ~overlap
    BY <1>1
  <2>2. ASSUME NEW d \in Classes PROVE IF d \in allLoaded' THEN code'[d].of = d ELSE code'[d] = NotLoaded
    BY <1>1, <1>3, <1>6, <2>1 DEF SwitchInv, AloneInv
  <2> QED BY <1>9, <2>1, <2>2 DEF AloneInv
<1>11. AgreeInv'
  <2> SUFFICES ASSUME InStep' PROVE AgreeInv'
    BY DEF AgreeInv
  <2>1. InStep /\ ~overlap
    BY <1>1 DEF InStep, bridgeVars
  <2>2. \A d \in Signals : \A b : Right(d, b) => Right(d, b)'
    BY <1>1 DEF Right, Profiling, bridgeVars
  <2>3. ASSUME NEW d \in Signals, d \in allLoaded', d \notin targets'
        PROVE  Right(d, code[d])'
    <3>1. d \in Classes
      BY SwitchAssumption
    <3>2. CASE d = name[t]
      BY <1>3, <1>6, <2>1, <2>2, <3>1, <3>2
    <3>3. CASE d # name[t]
      <4>1. \A u \in Threads : at[u] # "out" => name[u] # d
        BY <1>1, <2>1, <3>3 DEF SwitchInv, AloneInv
      <4>2. Right(d, code[d])
        BY <1>1, <2>1, <2>3, <3>3, <4>1 DEF SwitchInv, AgreeInv
      <4> QED BY <1>6, <2>2, <3>1, <3>3, <4>2
    <3> QED BY <3>2, <3>3
  <2>4. reloaderAt' # "retransform" /\ lastAck' # "none" => (lastAck' = "on") = Profiling'
    BY <1>1, <2>1 DEF SwitchInv, AgreeInv, Profiling, bridgeVars
  <2> QED BY <1>9, <2>1, <2>3, <2>4 DEF AgreeInv
<1> QED BY <1>0, <1>5, <1>7, <1>8, <1>10, <1>11 DEF SwitchInv

LEMMA HookStepInv ==
  ASSUME SwitchInv, NEW t \in Threads, Hook(t)
  PROVE  SwitchInv'
BY TestTrackInv, TrackInv, TestHookInv, AddHooksInv, TestRestoreInv, LeaveHookInv DEF Hook
-----------------------------------------------------------------------------
LEMMA WaitInv ==
  ASSUME SwitchInv, Wait
  PROVE  SwitchInv'
<1>1. /\ reloaderAt = "begin" /\ reloaderAt' = "blocked" /\ Block("profiler")
      /\ UNCHANGED <<targets, lastAck, overlap, hookVars>>
  BY DEF Wait
<1>2. BridgeInv' /\ BridgeTypeOK'
  BY <1>1, BlockInv DEF SwitchInv, BridgeInv, Conditions
<1>3. SwitchTypeOK' /\ HookInv' /\ AloneInv'
  BY <1>1, <1>2 DEF SwitchInv, SwitchTypeOK, HookInv, AloneInv, hookVars
<1>4. RoundInv'
  BY <1>1 DEF SwitchInv, RoundInv, hookVars
<1>5. AgreeInv'
  <2> SUFFICES ASSUME InStep' PROVE AgreeInv'
    BY DEF AgreeInv
  <2>1. InStep
    BY <1>1 DEF InStep, Block, hookVars
  <2>2. Profiling' <=> Profiling
    BY <1>1 DEF Profiling, Block
  <2>3. \A d \in Signals : \A b : Right(d, b) => Right(d, b)'
    BY <1>1, <2>2 DEF Right, hookVars
  <2> QED BY <1>1, <2>1, <2>2, <2>3 DEF SwitchInv, AgreeInv, hookVars
<1> QED BY <1>2, <1>3, <1>4, <1>5 DEF SwitchInv

(* The list is made when nobody is in the hook, or else hooks overlap: no  *)
(* class escapes it.                                                       *)
LEMMA SnapshotInv ==
  ASSUME SwitchInv, Snapshot
  PROVE  SwitchInv'
<1>1. /\ reloaderAt = "blocked" /\ "profiler" \notin waiting
      /\ reloaderAt' = "retransform" /\ targets' = Signals \cap allLoaded
      /\ overlap' = (overlap \/ InHook # {})
      /\ UNCHANGED <<lastAck, hookVars>> /\ UNCHANGED bridgeVars
  BY DEF Snapshot
<1>2. BridgeInv' /\ BridgeTypeOK'
  BY <1>1, BridgeFrame DEF SwitchInv, BridgeInv
<1>3. ~overlap' => ~overlap /\ \A t \in Threads : at'[t] = "out"
  BY <1>1 DEF InHook, hookVars
<1>4. SwitchTypeOK' /\ HookInv'
  BY <1>1, <1>2 DEF SwitchInv, SwitchTypeOK, HookInv, hookVars
<1>5. RoundInv'
  BY <1>1 DEF RoundInv, bridgeVars
<1>6. AloneInv'
  BY <1>1, <1>3 DEF SwitchInv, AloneInv, hookVars
<1>7. AgreeInv'
  BY <1>1, <1>3 DEF AgreeInv, InStep, hookVars
<1> QED BY <1>2, <1>4, <1>5, <1>6, <1>7 DEF SwitchInv

LEMMA AcknowledgeInv ==
  ASSUME SwitchInv, Acknowledge
  PROVE  SwitchInv'
<1>1. /\ reloaderAt = "retransform" /\ targets = {} /\ at[Reloader] = "out"
      /\ lastAck' = (IF Profiling THEN "on" ELSE "off") /\ reloaderAt' = "begin"
      /\ UNCHANGED <<targets, overlap, hookVars>> /\ UNCHANGED bridgeVars
  BY DEF Acknowledge
<1>2. BridgeInv' /\ BridgeTypeOK'
  BY <1>1, BridgeFrame DEF SwitchInv, BridgeInv
<1>3. SwitchTypeOK' /\ HookInv' /\ AloneInv'
  BY <1>1, <1>2 DEF SwitchInv, SwitchTypeOK, HookInv, AloneInv, hookVars
<1>4. RoundInv'
  BY <1>1 DEF SwitchInv, RoundInv, hookVars, bridgeVars
<1>5. AgreeInv'
  <2> SUFFICES ASSUME InStep' PROVE AgreeInv'
    BY DEF AgreeInv
  <2>1. InStep
    BY <1>1 DEF InStep, bridgeVars, hookVars
  <2>2. Profiling' <=> Profiling
    BY <1>1 DEF Profiling, bridgeVars
  <2>3. \A d \in Signals : \A b : Right(d, b) => Right(d, b)'
    BY <1>1, <2>2 DEF Right, hookVars
  <2>4. (lastAck' = "on") = Profiling'
    <3>1. Profiling \in BOOLEAN
      BY DEF Profiling, SwitchInv, SwitchTypeOK, BridgeTypeOK, Conditions
    <3>2. Profiling' \in BOOLEAN
      BY <1>2 DEF Profiling, BridgeTypeOK, Conditions
    <3>3. lastAck' = "on" <=> Profiling
      BY <1>1
    <3> QED BY <2>2, <3>1, <3>2, <3>3
  <2> QED BY <1>1, <2>1, <2>2, <2>3, <2>4 DEF SwitchInv, AgreeInv, hookVars
<1> QED BY <1>2, <1>3, <1>4, <1>5 DEF SwitchInv

LEMMA ReloadInv ==
  ASSUME SwitchInv, Reload
  PROVE  SwitchInv'
<1>1. ASSUME NEW c \in Classes, Retransform(c) PROVE SwitchInv'
  BY <1>1, LoadInv DEF Retransform, Threads
<1> QED BY <1>1, WaitInv, SnapshotInv, AcknowledgeInv DEF Reload

LEMMA SwitchStepInv ==
  ASSUME SwitchInv, SwitchNext
  PROVE  SwitchInv'
<1>1. ASSUME NEW t \in Loaders, NEW c \in Classes, Load(t, c) PROVE SwitchInv'
  BY <1>1, LoadInv, SwitchAssumption DEF Load, Threads
<1> QED BY <1>1, SwitchBridgeInv, HookStepInv, ReloadInv DEF SwitchNext

LEMMA SwitchStutterInv ==
  ASSUME SwitchInv, UNCHANGED allSwitchVars
  PROVE  SwitchInv'
<1>1. BridgeInv' /\ UNCHANGED switchVars /\ UNCHANGED bridgeVars
  BY BridgeFrame DEF SwitchInv, allSwitchVars
<1>2. InStep' => InStep /\ flag'["profiler"] = flag["profiler"]
  BY <1>1 DEF InStep, switchVars, bridgeVars
<1> QED BY <1>1, <1>2, BridgeSwitchInv DEF bridgeVars

LEMMA SwitchInvImplies ==
  ASSUME SwitchInv
  PROVE  OwnCode /\ InstrumentedWhenSettled /\ WatchedOnlyWhileProfiling
<1>1. OwnCode
  <2>1. NotLoaded.of = NoClass
    BY DEF NotLoaded, Plain
  <2> QED BY <2>1 DEF SwitchInv, AloneInv, OwnCode
<1>2. InstrumentedWhenSettled
  <2> SUFFICES ASSUME Settled, ~overlap, ~undefined PROVE InstrumentedWhenSettled
    BY DEF InstrumentedWhenSettled
  <2>1. InStep
    BY DEF Settled, InStep
  <2>2. \A t \in Threads : at[t] = "out"
    BY DEF Settled, InHook
  <2>3. targets = {} /\ reloaderAt # "retransform"
    BY DEF SwitchInv, RoundInv, Settled
  <2>4. ASSUME NEW c \in Signals, code[c] # NotLoaded PROVE Right(c, code[c])
    <3>1. c \in Classes
      BY SwitchAssumption
    <3>2. c \in allLoaded
      <4> SUFFICES ASSUME c \notin allLoaded PROVE FALSE
        OBVIOUS
      <4>1. code[c] = NotLoaded
        BY <3>1 DEF SwitchInv, AloneInv
      <4> QED BY <4>1, <2>4
    <3> QED BY <2>1, <2>2, <2>3, <3>2 DEF SwitchInv, AgreeInv
  <2>5. lastAck # "none" => (lastAck = "on") = Profiling
    BY <2>1, <2>3 DEF SwitchInv, AgreeInv
  <2> QED BY <2>4, <2>5 DEF InstrumentedWhenSettled, Right
<1> QED BY <1>1, <1>2, BridgeInvImplies DEF SwitchInv
-----------------------------------------------------------------------------
(* The invariant holds of every behaviour.                                 *)
THEOREM SwitchInvariance == SwitchSpec => []SwitchInv
<1>1. SwitchInit => SwitchInv
  BY SwitchInitInv
<1>2. SwitchInv /\ [SwitchNext]_allSwitchVars => SwitchInv'
  BY SwitchStepInv, SwitchStutterInv
<1> QED BY <1>1, <1>2, PTL DEF SwitchSpec

(* Once a command has had its effect, every loaded class that has a signal *)
(* is instrumented or not as the command asked, and its original bytes are *)
(* saved when it is, unless a notification was lost or hooks overlapped.   *)
THEOREM InstrumentedAsAsked == SwitchSpec => []InstrumentedWhenSettled
<1>1. SwitchInv => InstrumentedWhenSettled
  BY SwitchInvImplies
<1> QED BY <1>1, SwitchInvariance, PTL

(* No class is given the bytes of another one through the shared buffer    *)
(* _fr unless two threads were in the hook at a time.                      *)
THEOREM BytesNotMixed == SwitchSpec => []OwnCode
<1>1. SwitchInv => OwnCode
  BY SwitchInvImplies
<1> QED BY <1>1, SwitchInvariance, PTL
-----------------------------------------------------------------------------
ListTypeOK ==
  /\ loadedClasses \in Seq(Classes)
  /\ watchAt \in [Watchers -> Tests \cup {"work", "copy", "clear"}]
  /\ tracked \in [Classes -> Nat]
  /\ reported \in [Classes -> Nat]
  /\ copying \in 0 .. Len(loadedClasses)
  /\ late \in [Classes -> Nat]

(* While the list is copied, what was listed before the copy began will be *)
(* in it, and the rest was late.                                           *)
CopyCounts ==
  IF watchAt["loading"] = "copy"
  THEN \A c \in Classes :
         tracked[c] <= reported[c] + Listed(c, loadedClasses, copying) + late[c]
  ELSE copying = 0

ListInv == ListTypeOK /\ EveryListingCounts /\ CopyCounts

(* The inductive invariant.                                                *)
WatchInv ==
  /\ SwitchInv
  /\ ListInv

(* How a list counts a class: a longer part of it counts no less, and it   *)
(* grows with Append.                                                      *)
LEMMA ListedType ==
  ASSUME NEW s, NEW n \in Nat, NEW c
  PROVE  /\ IsFiniteSet({i \in 1 .. n : s[i] = c})
         /\ Listed(c, s, n) \in Nat
<1>1. IsFiniteSet(1 .. n)
  BY FS_Interval
<1>2. {i \in 1 .. n : s[i] = c} \in SUBSET (1 .. n)
  OBVIOUS
<1>3. IsFiniteSet({i \in 1 .. n : s[i] = c})
  BY <1>1, <1>2, FS_Subset
<1> QED BY <1>3, FS_CardinalityType DEF Listed

LEMMA ListedGrows ==
  ASSUME NEW s, NEW n \in Nat, NEW k \in 0 .. n, NEW c
  PROVE  Listed(c, s, k) <= Listed(c, s, n)
<1>1. IsFiniteSet({i \in 1 .. n : s[i] = c})
  BY ListedType
<1>2. {i \in 1 .. k : s[i] = c} \in SUBSET {i \in 1 .. n : s[i] = c}
  OBVIOUS
<1> QED BY <1>1, <1>2, FS_Subset DEF Listed

LEMMA ListedNone ==
  ASSUME NEW c, NEW s
  PROVE  Listed(c, s, 0) = 0
<1>1. {i \in 1 .. 0 : s[i] = c} = {}
  OBVIOUS
<1> QED BY <1>1, FS_EmptySet DEF Listed

LEMMA ListedAppend ==
  ASSUME NEW s \in Seq(Classes), NEW n \in Classes, NEW c \in Classes, NEW t \in Seq(Classes),
         t[Len(s) + 1] = n, \A i \in 1 .. Len(s) : t[i] = s[i]
  PROVE  /\ Listed(c, t, Len(s) + 1) = Listed(c, s, Len(s)) + (IF n = c THEN 1 ELSE 0)
         /\ \A k \in 0 .. Len(s) : Listed(c, t, k) = Listed(c, s, k)
<1> DEFINE last == Len(s) + 1
           Before == {i \in 1 .. Len(s) : s[i] = c}
           Longer == {i \in 1 .. last : t[i] = c}
<1>0. Len(s) \in Nat
  OBVIOUS
<1>1. IsFiniteSet(Before) /\ Listed(c, s, Len(s)) \in Nat /\ Len(s) \in Nat
  BY <1>0, ListedType
<1>2. t[last] = n /\ \A i \in 1 .. Len(s) : t[i] = s[i]
  OBVIOUS
<1>3. 1 .. last = (1 .. Len(s)) \cup {last} /\ last \notin 1 .. Len(s)
  BY <1>1
<1>4. ASSUME NEW k \in 0 .. Len(s) PROVE Listed(c, t, k) = Listed(c, s, k)
  <2>1. {i \in 1 .. k : t[i] = c} = {i \in 1 .. k : s[i] = c}
    BY <1>1, <1>2
  <2> QED BY <2>1 DEF Listed
<1>5. CASE n = c
  <2>1. Longer = Before \cup {last}
    BY <1>2, <1>3, <1>5
  <2>2. last \notin Before
    BY <1>3
  <2>3. Cardinality(Before \cup {last}) = Cardinality(Before) + 1
    BY <1>1, <2>2, FS_AddElement
  <2>4. Listed(c, t, last) = Listed(c, s, Len(s)) + 1
    BY <2>1, <2>3 DEF Listed
  <2> QED BY <1>2, <1>4, <1>5, <2>4
<1>6. CASE n # c
  <2>1. Longer = Before
    BY <1>2, <1>3, <1>6
  <2>2. Listed(c, t, last) = Listed(c, s, Len(s))
    BY <2>1 DEF Listed
  <2> QED BY <1>1, <1>2, <1>4, <1>6, <2>2
<1> QED BY <1>5, <1>6
-----------------------------------------------------------------------------
LEMMA WatchInitInv == WatchInit => WatchInv
<1> SUFFICES ASSUME WatchInit PROVE WatchInv
  OBVIOUS
<1>1. SwitchInv
  BY SwitchInitInv DEF WatchInit
<1>2. ListTypeOK
  BY DEF WatchInit, ListTypeOK, Watchers, Tests
<1>3. EveryListingCounts
  BY ListedNone DEF WatchInit, EveryListingCounts, Watchers
<1>4. CopyCounts
  BY DEF WatchInit, CopyCounts, Watchers
<1> QED BY <1>1, <1>2, <1>3, <1>4 DEF WatchInv, ListInv

(* Every step is one of ProfilerSwitch, leaves it alone, or blocks one of  *)
(* the two watching threads.                                               *)
LEMMA WatchSwitchInv ==
  ASSUME SwitchInv, WatchNext
  PROVE  SwitchInv'
<1>1. CASE Command
  BY <1>1, SwitchBridgeInv DEF Command
<1>2. CASE \E t \in Loaders, c \in Classes : Load(t, c) /\ UNCHANGED watchVars
  BY <1>2, SwitchStepInv DEF SwitchNext
<1>3. CASE \E t \in Threads : OtherHook(t) /\ UNCHANGED watchVars
  BY <1>3, HookStepInv DEF OtherHook, Hook
<1>4. CASE \E t \in Threads : TrackClass(t)
  BY <1>4, TrackInv DEF TrackClass
<1>5. CASE Reload /\ UNCHANGED watchVars
  BY <1>5, ReloadInv
<1>6. ASSUME NEW w \in Watchers, Watch(w) PROVE SwitchInv'
  <2>1. CASE Test(w)
    BY <2>1, SwitchStutterInv DEF Test
  <2>2. CASE Sleep(w)
    <3>1. w \in Conditions /\ w # "profiler"
      BY DEF Watchers, Conditions
    <3> QED BY <2>2, <3>1, SwitchBlockInv DEF Sleep
  <2>3. CASE Awake(w)
    BY <2>3, SwitchStutterInv DEF Awake
  <2> QED BY <1>6, <2>1, <2>2, <2>3 DEF Watch
<1>7. CASE CopyClasses \/ ReportClasses \/ ClearClasses \/ Sample
  BY <1>7, SwitchStutterInv DEF CopyClasses, ReportClasses, ClearClasses, Sample
<1> QED BY <1>1, <1>2, <1>3, <1>4, <1>5, <1>6, <1>7 DEF WatchNext

(* A step that lists and reports nothing.                                  *)
LEMMA ListFrame ==
  ASSUME ListInv,
         UNCHANGED <<loadedClasses, tracked, reported, copying, late>>,
         watchAt' \in [Watchers -> Tests \cup {"work", "copy", "clear"}],
         watchAt'["loading"] = "copy" <=> watchAt["loading"] = "copy",
         watchAt'["loading"] = "clear" <=> watchAt["loading"] = "clear"
  PROVE  ListInv'
BY DEF ListInv, ListTypeOK, EveryListingCounts, CopyCounts, Listed

LEMMA TestListInv ==
  ASSUME ListInv, NEW w \in Watchers, Test(w)
  PROVE  ListInv'
<1>1. /\ watchAt[w] \in Tests
      /\ watchAt' = watchAt \/ watchAt' = [watchAt EXCEPT ![w] = After(watchAt[w])]
      /\ UNCHANGED <<loadedClasses, tracked, reported, copying, late>>
  BY DEF Test
<1>2. After(watchAt[w]) \in {"recheck", "work"}
  BY DEF After
<1>3. watchAt' \in [Watchers -> Tests \cup {"work", "copy", "clear"}]
  BY <1>1, <1>2 DEF ListInv, ListTypeOK, Tests
<1>4. /\ watchAt'["loading"] = "copy" <=> watchAt["loading"] = "copy"
      /\ watchAt'["loading"] = "clear" <=> watchAt["loading"] = "clear"
  BY <1>1, <1>2 DEF ListInv, ListTypeOK, Tests, Watchers
<1> QED BY <1>1, <1>3, <1>4, ListFrame

LEMMA SampleListInv ==
  ASSUME ListInv, Sample
  PROVE  ListInv'
<1>1. /\ watchAt' \in [Watchers -> Tests \cup {"work", "copy", "clear"}]
      /\ watchAt'["loading"] = watchAt["loading"]
  BY DEF Sample, ListInv, ListTypeOK, Tests, Watchers
<1> QED BY <1>1, ListFrame DEF Sample

(* What a list counts is a number, and how long the list is.               *)
LEMMA ListFacts ==
  ASSUME ListInv, NEW c \in Classes
  PROVE  /\ Len(loadedClasses) \in Nat /\ copying \in Nat /\ copying <= Len(loadedClasses)
         /\ tracked[c] \in Nat /\ reported[c] \in Nat /\ late[c] \in Nat
         /\ \A n \in Nat : Listed(c, loadedClasses, n) \in Nat
<1>1. /\ Len(loadedClasses) \in Nat /\ copying \in Nat /\ copying <= Len(loadedClasses)
      /\ tracked[c] \in Nat /\ reported[c] \in Nat /\ late[c] \in Nat
  BY DEF ListInv, ListTypeOK
<1>2. ASSUME NEW n \in Nat PROVE Listed(c, loadedClasses, n) \in Nat
  BY ListedType
<1> QED BY <1>1, <1>2

LEMMA CopyListInv ==
  ASSUME ListInv, CopyClasses
  PROVE  ListInv'
<1>1. /\ watchAt["loading"] = "work"
      /\ watchAt' = [watchAt EXCEPT !["loading"] = IF loadedClasses # <<>> THEN "copy" ELSE "check"]
      /\ copying' = Len(loadedClasses)
      /\ UNCHANGED <<loadedClasses, tracked, reported, late>>
  BY DEF CopyClasses
<1>2. ListTypeOK'
  BY <1>1 DEF ListInv, ListTypeOK, Watchers, Tests
<1>3. watchAt'["loading"] = IF loadedClasses # <<>> THEN "copy" ELSE "check"
  BY <1>1 DEF ListInv, ListTypeOK, Watchers
<1>4. EveryListingCounts'
  BY <1>1, <1>3 DEF ListInv, EveryListingCounts, Listed
<1>5. CopyCounts'
  <2>1. CASE loadedClasses # <<>>
    <3>1. watchAt["loading"] # "clear"
      BY <1>1
    <3>2. \A c \in Classes :
            tracked[c] <= reported[c] + Listed(c, loadedClasses, Len(loadedClasses)) + late[c]
      BY <3>1 DEF ListInv, EveryListingCounts
    <3>3. watchAt'["loading"] = "copy"
      BY <1>3, <2>1
    <3> QED BY <1>1, <3>2, <3>3 DEF CopyCounts, Listed
  <2>2. CASE loadedClasses = <<>>
    <3>1. copying' = 0
      BY <1>1, <2>2
    <3>2. watchAt'["loading"] # "copy"
      BY <1>3, <2>2
    <3> QED BY <3>1, <3>2 DEF CopyCounts
  <2> QED BY <2>1, <2>2
<1> QED BY <1>2, <1>4, <1>5 DEF ListInv

(* class_loading_monitor reports what was listed when its copy began, and  *)
(* may report what was listed since.                                       *)
LEMMA ReportListInv ==
  ASSUME ListInv, ReportClasses
  PROVE  ListInv'
<1>1. PICK n \in copying .. Len(loadedClasses) :
        reported' = [c \in Classes |-> reported[c] + Listed(c, loadedClasses, n)]
  BY DEF ReportClasses
<1>2. /\ watchAt["loading"] = "copy"
      /\ watchAt' = [watchAt EXCEPT !["loading"] = "clear"]
      /\ copying' = 0
      /\ UNCHANGED <<loadedClasses, tracked, late>>
  BY DEF ReportClasses
<1>3. n \in Nat /\ n <= Len(loadedClasses) /\ copying <= n
      /\ Len(loadedClasses) \in Nat /\ copying \in Nat
  BY DEF ListInv, ListTypeOK
<1>4. ListTypeOK'
  <2>1. \A c \in Classes : Listed(c, loadedClasses, n) \in Nat
    BY <1>3, ListedType
  <2> QED BY <1>1, <1>2, <1>3, <2>1 DEF ListInv, ListTypeOK, Watchers, Tests
<1>5. watchAt'["loading"] = "clear"
  BY <1>2 DEF ListInv, ListTypeOK, Watchers
<1>6. ASSUME NEW c \in Classes
      PROVE  reported'[c] <= tracked'[c] /\ tracked'[c] <= reported'[c] + late'[c]
  <2> DEFINE all == Listed(c, loadedClasses, Len(loadedClasses))
             some == Listed(c, loadedClasses, n)
             first == Listed(c, loadedClasses, copying)
  <2>1. all \in Nat /\ some \in Nat /\ first \in Nat
        /\ tracked[c] \in Nat /\ reported[c] \in Nat /\ late[c] \in Nat
    BY <1>3, ListFacts
  <2>2. first <= some /\ some <= all
    BY <1>3, ListedGrows
  <2>3. reported[c] + all <= tracked[c] /\ tracked[c] <= reported[c] + first + late[c]
    BY <1>2 DEF ListInv, EveryListingCounts, CopyCounts
  <2>4. reported'[c] = reported[c] + some /\ tracked'[c] = tracked[c] /\ late'[c] = late[c]
    BY <1>1, <1>2
  <2> HIDE DEF all, some, first
  <2> QED BY <2>1, <2>2, <2>3, <2>4
<1>7. EveryListingCounts' /\ CopyCounts'
  <2>1. \A c \in Classes : reported'[c] \in Nat /\ tracked'[c] \in Nat /\ late'[c] \in Nat
    BY <1>4 DEF ListTypeOK
  <2>2. EveryListingCounts'
    BY <1>5, <1>6, <2>1 DEF EveryListingCounts
  <2>3. CopyCounts'
    BY <1>2, <1>5 DEF CopyCounts
  <2> QED BY <2>2, <2>3
<1> QED BY <1>4, <1>7 DEF ListInv

LEMMA ClearListInv ==
  ASSUME ListInv, ClearClasses
  PROVE  ListInv'
<1>1. /\ watchAt["loading"] = "clear" /\ watchAt' = [watchAt EXCEPT !["loading"] = "check"]
      /\ loadedClasses' = <<>> /\ UNCHANGED <<tracked, reported, late>>
      /\ copying' = copying
  BY DEF ClearClasses
<1>2. watchAt'["loading"] = "check" /\ copying' = 0
  BY <1>1 DEF ListInv, ListTypeOK, CopyCounts, Watchers
<1>3. ListTypeOK' /\ CopyCounts'
  BY <1>1, <1>2 DEF ListInv, ListTypeOK, CopyCounts, Watchers, Tests
<1>4. ASSUME NEW c \in Classes
      PROVE  /\ reported'[c] + Listed(c, loadedClasses', Len(loadedClasses')) <= tracked'[c]
             /\ tracked'[c] <= reported'[c] + Listed(c, loadedClasses', Len(loadedClasses'))
                                 + late'[c]
  <2>1. Len(loadedClasses') = 0 /\ Listed(c, loadedClasses', 0) = 0
    BY <1>1, ListedNone
  <2>2. tracked[c] \in Nat /\ reported[c] \in Nat /\ late[c] \in Nat
    BY ListFacts
  <2>3. reported[c] <= tracked[c] /\ tracked[c] <= reported[c] + late[c]
    BY <1>1, <2>2 DEF ListInv, EveryListingCounts
  <2> QED BY <1>1, <2>1, <2>2, <2>3
<1>5. EveryListingCounts'
  BY <1>2, <1>4 DEF EveryListingCounts, Listed
<1> QED BY <1>3, <1>5 DEF ListInv

(* track_class lists one class more, perhaps late.                         *)
LEMMA TrackListInv ==
  ASSUME SwitchInv, ListInv, NEW t \in Threads, TrackClass(t)
  PROVE  ListInv'
<1> DEFINE n == name[t]
           new == Append(loadedClasses, n)
<1>1. /\ loadedClasses' = new
      /\ tracked' = [tracked EXCEPT ![n] = tracked[n] + 1]
      /\ late' = IF watchAt["loading"] \in {"copy", "clear"}
                 THEN [late EXCEPT ![n] = late[n] + 1] ELSE late
      /\ UNCHANGED <<watchAt, reported, copying>>
  BY DEF TrackClass
<1>2. n \in Classes
  BY HereFacts DEF TrackClass, Track
<1> HIDE DEF n
<1>3. new \in Seq(Classes) /\ Len(new) = Len(loadedClasses) + 1
      /\ Len(loadedClasses) \in Nat /\ copying \in 0 .. Len(loadedClasses)
  BY <1>2 DEF ListInv, ListTypeOK
<1>4. ListTypeOK'
  BY <1>1, <1>2, <1>3 DEF ListInv, ListTypeOK
<1>5. ASSUME NEW c \in Classes
      PROVE  \E one \in {0, 1} :
               /\ tracked'[c] = tracked[c] + one
               /\ Listed(c, new, Len(new)) = Listed(c, loadedClasses, Len(loadedClasses)) + one
               /\ Listed(c, new, copying) = Listed(c, loadedClasses, copying)
               /\ late'[c] = late[c] + (IF watchAt["loading"] \in {"copy", "clear"}
                                        THEN one ELSE 0)
  <2> DEFINE one == IF n = c THEN 1 ELSE 0
  <2>1. tracked[c] \in Nat /\ late[c] \in Nat
    BY ListFacts
  <2>2. tracked'[c] = tracked[c] + one
    BY <1>1, <1>2, <2>1 DEF ListInv, ListTypeOK
  <2>3. late'[c] = late[c] + (IF watchAt["loading"] \in {"copy", "clear"} THEN one ELSE 0)
    BY <1>1, <1>2, <2>1 DEF ListInv, ListTypeOK
  <2>4. /\ Listed(c, new, Len(new)) = Listed(c, loadedClasses, Len(loadedClasses)) + one
        /\ Listed(c, new, copying) = Listed(c, loadedClasses, copying)
    <3>1. loadedClasses \in Seq(Classes)
      BY DEF ListInv, ListTypeOK
    <3>2. new[Len(loadedClasses) + 1] = n
          /\ \A i \in 1 .. Len(loadedClasses) : new[i] = loadedClasses[i]
      BY <1>2, <3>1
    <3> HIDE DEF new
    <3>3. /\ Listed(c, new, Len(loadedClasses) + 1)
                = Listed(c, loadedClasses, Len(loadedClasses)) + (IF n = c THEN 1 ELSE 0)
          /\ \A k \in 0 .. Len(loadedClasses) : Listed(c, new, k) = Listed(c, loadedClasses, k)
      BY <1>2, <1>3, <3>1, <3>2, ListedAppend
    <3> QED BY <1>3, <3>3
  <2> HIDE DEF new
  <2>5. one \in {0, 1}
    OBVIOUS
  <2> HIDE DEF one
  <2> QED BY <2>2, <2>3, <2>4, <2>5
<1> HIDE DEF new
<1>6. ASSUME NEW c \in Classes
      PROVE  LET left == IF watchAt["loading"] = "clear" THEN 0 ELSE Listed(c, new, Len(new))
             IN /\ reported[c] + left <= tracked'[c]
                /\ tracked'[c] <= reported[c] + left + late'[c]
                /\ watchAt["loading"] = "copy" =>
                     tracked'[c] <= reported[c] + Listed(c, new, copying) + late'[c]
  <2> DEFINE all == Listed(c, loadedClasses, Len(loadedClasses))
             first == Listed(c, loadedClasses, copying)
  <2>1. all \in Nat /\ first \in Nat
        /\ tracked[c] \in Nat /\ reported[c] \in Nat /\ late[c] \in Nat
    BY <1>3, ListFacts
  <2>2. /\ reported[c] + (IF watchAt["loading"] = "clear" THEN 0 ELSE all) <= tracked[c]
        /\ tracked[c] <= reported[c] + (IF watchAt["loading"] = "clear" THEN 0 ELSE all) + late[c]
        /\ watchAt["loading"] = "copy" => tracked[c] <= reported[c] + first + late[c]
    BY DEF ListInv, EveryListingCounts, CopyCounts
  <2>3. PICK one \in {0, 1} :
          /\ tracked'[c] = tracked[c] + one
          /\ Listed(c, new, Len(new)) = all + one
          /\ Listed(c, new, copying) = first
          /\ late'[c] = late[c] + (IF watchAt["loading"] \in {"copy", "clear"} THEN one ELSE 0)
    BY <1>5
  <2> HIDE DEF all, first
  <2>4. CASE watchAt["loading"] = "clear"
    <3>1. /\ reported[c] + 0 <= tracked[c] /\ tracked[c] <= reported[c] + 0 + late[c]
          /\ tracked'[c] = tracked[c] + one /\ late'[c] = late[c] + one
      BY <2>2, <2>3, <2>4
    <3>2. reported[c] + 0 <= tracked'[c] /\ tracked'[c] <= reported[c] + 0 + late'[c]
      BY <2>1, <3>1
    <3> QED BY <2>4, <3>2
  <2>5. CASE watchAt["loading"] = "copy"
    <3>1. /\ reported[c] + all <= tracked[c] /\ tracked[c] <= reported[c] + all + late[c]
          /\ tracked[c] <= reported[c] + first + late[c]
          /\ tracked'[c] = tracked[c] + one /\ late'[c] = late[c] + one
      BY <2>2, <2>3, <2>5
    <3>2. /\ reported[c] + (all + one) <= tracked'[c]
          /\ tracked'[c] <= reported[c] + (all + one) + late'[c]
          /\ tracked'[c] <= reported[c] + first + late'[c]
      BY <2>1, <3>1
    <3> QED BY <2>3, <2>5, <3>2
  <2>6. CASE watchAt["loading"] \notin {"copy", "clear"}
    <3>1. /\ reported[c] + all <= tracked[c] /\ tracked[c] <= reported[c] + all + late[c]
          /\ tracked'[c] = tracked[c] + one /\ late'[c] = late[c]
      BY <2>1, <2>2, <2>3, <2>6
    <3>2. /\ reported[c] + (all + one) <= tracked'[c]
          /\ tracked'[c] <= reported[c] + (all + one) + late'[c]
      BY <2>1, <3>1
    <3> QED BY <2>3, <2>6, <3>2
  <2> QED BY <2>4, <2>5, <2>6
<1>7. EveryListingCounts'
  BY <1>1, <1>6 DEF EveryListingCounts, Listed
<1>8. CopyCounts'
  <2>1. CASE watchAt["loading"] = "copy"
    BY <1>1, <1>6, <2>1 DEF CopyCounts, Listed
  <2>2. CASE watchAt["loading"] # "copy"
    BY <1>1, <2>2 DEF ListInv, CopyCounts
  <2> QED BY <2>1, <2>2
<1> QED BY <1>4, <1>7, <1>8 DEF ListInv

LEMMA WatchStepInv ==
  ASSUME WatchInv, WatchNext
  PROVE  WatchInv'
<1>0. SwitchInv /\ ListInv
  BY DEF WatchInv
<1>1. SwitchInv'
  BY <1>0, WatchSwitchInv
<1>2. UNCHANGED <<loadedClasses, watchAt, tracked, reported, copying, late>> => ListInv'
  BY <1>0, ListFrame DEF ListInv, ListTypeOK
<1>3. ASSUME NEW w \in Watchers, Watch(w) PROVE ListInv'
  BY <1>0, <1>2, <1>3, TestListInv DEF Watch, Sleep, Awake
<1>4. ListInv'
  BY <1>0, <1>2, <1>3, CopyListInv, ReportListInv, ClearListInv, SampleListInv, TrackListInv
     DEF WatchNext, Command, watchVars
<1> QED BY <1>1, <1>4 DEF WatchInv

LEMMA WatchStutterInv ==
  ASSUME WatchInv, UNCHANGED allVars
  PROVE  WatchInv'
<1>1. SwitchInv'
  BY SwitchStutterInv DEF WatchInv, allVars, allSwitchVars
<1>2. ListInv'
  BY ListFrame DEF WatchInv, ListInv, ListTypeOK, allVars, watchVars
<1> QED BY <1>1, <1>2 DEF WatchInv
-----------------------------------------------------------------------------
(* The invariant holds of every behaviour.                                 *)
THEOREM WatchInvariance == WatchSpec => []WatchInv
<1>1. WatchInit => WatchInv
  BY WatchInitInv
<1>2. WatchInv /\ [WatchNext]_allVars => WatchInv'
  BY WatchStepInv, WatchStutterInv
<1> QED BY <1>1, <1>2, PTL DEF WatchSpec

(* Every thread of the watches is at a step of its loop, awake, asleep or  *)
(* about to sleep, and the listings are of classes.                        *)
THEOREM WatchTypes == WatchSpec => []WatchTypeOK
<1> DEFINE Sleeping == asleep \in [Watchers -> {"no", "blocking", "blocked"}]
<1>1. WatchInit => Sleeping
  BY DEF WatchInit
<1>2. Sleeping /\ [WatchNext]_allVars => Sleeping'
  <2> SUFFICES ASSUME Sleeping, [WatchNext]_allVars PROVE Sleeping'
    OBVIOUS
  <2>1. CASE UNCHANGED asleep
    BY <2>1
  <2>2. CASE \E t \in Threads : TrackClass(t)
    BY <2>2 DEF TrackClass
  <2>3. CASE \E w \in Watchers : Watch(w)
    BY <2>3 DEF Watch, Test, Sleep, Awake
  <2>4. CASE UNCHANGED allVars
    BY <2>4 DEF allVars, watchVars
  <2> QED BY <2>1, <2>2, <2>3, <2>4
       DEF WatchNext, Command, watchVars, CopyClasses, ReportClasses, ClearClasses, Sample
<1>3. WatchInv /\ Sleeping => WatchTypeOK
  BY DEF WatchInv, ListInv, ListTypeOK, SwitchInv, WatchTypeOK
<1> QED BY <1>1, <1>2, <1>3, WatchInvariance, PTL DEF WatchSpec

(* A class that track_class listed is reported once or is still listed,    *)
(* never twice, and no more listings of a class are lost than were made    *)
(* while the list was copied and cleared.                                  *)
THEOREM ListingsCount == WatchSpec => []EveryListingCounts
<1>1. WatchInv => EveryListingCounts
  BY DEF WatchInv, ListInv
<1> QED BY <1>1, WatchInvariance, PTL

(* Between two commands nothing is watched while the profiler is off.      *)
THEOREM NothingWatchedWhenOff == WatchSpec => []WatchedOnlyWhileProfiling
<1>1. WatchInv => WatchedOnlyWhileProfiling
  BY SwitchInvImplies DEF WatchInv
<1> QED BY <1>1, WatchInvariance, PTL

(* The two threads that watch do not disturb the switch: with them running *)
(* too, classes are instrumented as the last command asked, and none gets  *)
(* the bytes of another.                                                   *)
THEOREM SwitchUndisturbed == WatchSpec => [](InstrumentedWhenSettled /\ OwnCode)
<1>1. WatchInv => InstrumentedWhenSettled /\ OwnCode
  BY SwitchInvImplies DEF WatchInv
<1> QED BY <1>1, WatchInvariance, PTL
=============================================================================
