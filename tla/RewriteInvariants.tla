-------------------------- MODULE RewriteInvariants --------------------------
(***************************************************************************)
(* The inductive invariants of RewriteSafety, from which its theorems are  *)
(* proved in RewriteSafetyProofs, and the notions they are made of.  Each  *)
(* part builds on the ones before it:                                      *)
(*   1  RewriteInv   a class in hand is as a new _fr would have it         *)
(*   2  PoolsInv     the entries of its file are where they were           *)
(*   3  SizedInv     the length kept for a code is that of its instructions*)
(*   4  MeansInv     what is inserted refers to what it is meant to call   *)
(*   5, 6  CountInv  and it is inserted as often as the lines ask          *)
(***************************************************************************)
EXTENDS RewriteSafety

(* The steps of the folds below, each by a name: a lemma cannot be applied *)
(* to an operator.                                                         *)
Applied(name, a, b) ==
  CASE name = "slots"   -> WithSlots(a, b)
    [] name = "info"    -> add_info(a, b)
    [] name = "name"    -> add_name(a, b)
    [] name = "string"  -> WithString(a, b)
    [] name = "method"  -> WithMethod(a, b)
    [] name = "methods" -> WithMethodRead(a, b)
    [] name = "call"    -> WithCall(a, b)
    [] name = "hook"    -> hook(a, b)
    [] name = "plus"    -> a + b
    [] name = "place"   -> Place(a, b)
    [] name = "into"    -> WithPlace(a, b)
    [] name = "insert"  -> Insert(a, b)
    [] name = "exit"    -> WithExit(a, b)
    [] name = "line"    -> WithLine(a, b)

(* A fold over the elements of S, pick[s] being the next one of s.         *)
FoldStep(name, base, q, pick, h, s) ==
  IF s = {} THEN base ELSE Applied(name, h[s \ {pick[s]}], q[pick[s]])

IsFold(name, base, q, pick, S, h) == h = [s \in SUBSET S |-> FoldStep(name, base, q, pick, h, s)]

Picks(pick, S) == \A s \in SUBSET S : s # {} => pick[s] \in s

PicksLast(pick, n) == pick = [s \in SUBSET (1 .. n) |-> Max(s)]

Small(S, n) == {s \in SUBSET S : Cardinality(s) <= n}

(* A fold from the left goes from each element to the next.                *)
RunOf(name, base, q, n, k) ==
  /\ k[0] = base
  /\ \A i \in 1 .. n : k[i] = Applied(name, k[i - 1], q[i])
-----------------------------------------------------------------------------
(* Part 1: a class is rewritten as by a new _fr.  Two copies of what _fr   *)
(* holds are compared.                                                     *)
(*                                                                         *)
(* Two pools that differ at most in ids, of which a class reads its own.   *)
PoolParts == {"info", "next", "bcount", "names", "ids"}

SamePool(p, q) ==
  /\ DOMAIN p = PoolParts /\ DOMAIN q = PoolParts
  /\ p.info = q.info /\ p.next = q.next /\ p.bcount = q.bcount /\ p.names = q.names

(* Two pools with the indices of what was added to them.                   *)
SameAdded(a, b) ==
  /\ DOMAIN a = {"pool", "ids"} /\ DOMAIN b = {"pool", "ids"}
  /\ SamePool(a.pool, b.pool) /\ a.ids = b.ids

(* Two classes that differ at most in the ids of their pools.              *)
ClassParts == {"pool", "interfaces", "fields", "methods", "attributes"}

SameRead(f, g) ==
  /\ DOMAIN f = ClassParts /\ DOMAIN g = ClassParts
  /\ SamePool(f.pool, g.pool)
  /\ f.interfaces = g.interfaces /\ f.fields = g.fields
  /\ f.methods = g.methods /\ f.attributes = g.attributes
  /\ IsFiniteSet(DOMAIN f.methods)

Related(name, a, b) ==
  CASE name \in {"info", "name"}     -> SamePool(a, b)
    [] name \in {"string", "method"} -> SameAdded(a, b)
    [] name \in {"call", "hook"}     -> SameRead(a, b)

Row(q) == Len(q) \in Nat /\ DOMAIN q = 1 .. Len(q)

Start(c) == load_from_buffer(EmptyPool, world.files[c])

(* f is what start comes to be by the first n signals of q, and h what is  *)
(* then written.                                                           *)
ReadFresh(start, q, n, f) ==
  \A k : RunOf("hook", start, q, n, k) => SameRead(f, k[n])

HandedFresh(start, q, n, j, h) ==
  \A k : RunOf("hook", start, q, n, k) => SameClass(h, load_to_buffer(k[n], j))

SignalRow(q) ==
  /\ \E S : q \in Seq(S)
  /\ \A i \in 1 .. Len(q) : {"name", "flags"} \subseteq DOMAIN q[i]

Shapes ==
  /\ world \in Worlds
  /\ DOMAIN sigs = {"hlist", "markerFields"}
  /\ \A c \in DOMAIN sigs.hlist : SignalRow(sigs.hlist[c])
  /\ SameRead(fr, fr)
  /\ class # None => class \in DOMAIN world.files \ {Package}
  /\ DOMAIN handed \subseteq DOMAIN world.files \ {None}
  /\ lines # <<>> => class = None /\ DOMAIN handed = {}

(* The class that is being hooked; until its first signal is applied, what *)
(* was made of it before, if it is hooked again, is still there.           *)
InHand ==
  class # None /\ fate = "running" =>
    /\ done \in 0 .. Len(OfClass(sigs, class))
    /\ ReadFresh(Start(class), OfClass(sigs, class), done, fr)
    /\ class \in DOMAIN handed =>
         HandedFresh(Start(class), OfClass(sigs, class),
                     IF done = 0 THEN Len(OfClass(sigs, class)) ELSE done, junk, handed[class])

(* The classes that were hooked before.                                    *)
Given ==
  \A c \in DOMAIN handed \ {Package} :
    c # class =>
      HandedFresh(Start(c), OfClass(sigs, c), Len(OfClass(sigs, c)), junk, handed[c])

(* The invariant of part 1, for AlwaysAfresh.                              *)
RewriteInv == Shapes /\ InHand /\ Given
-----------------------------------------------------------------------------
(* Part 2: the pool of a class only grows.                                 *)
(*                                                                         *)
(* The pool p has the entries e in its first places and counts what it has.*)
Infos(p, e) ==
  /\ DOMAIN p = PoolParts
  /\ \E S : p.info \in Seq(S)
  /\ Len(e) <= Len(p.info)
  /\ \A k \in 1 .. Len(e) : p.info[k].entry = e[k]

Grown(p, e) == Infos(p, e) /\ p.next \in Int /\ p.bcount = p.next + 1

(* A fold whose steps keep the entries keeps them.                         *)
Keeping(name, x, e) ==
  CASE name = "name"               -> Grown(x, e)
    [] name \in {"string", "method"} -> Grown(x.pool, e) /\ DOMAIN x = {"pool", "ids"}
    [] name = "call"               -> Grown(x.pool, e) /\ DOMAIN x = ClassParts

(* The pool of the class in hand, and of those given to the JVM.           *)
PoolInHand ==
  class # None /\ fate = "running" => Grown(fr.pool, world.files[class].pool)

PoolsGiven == \A c \in DOMAIN handed : Grown(handed[c].pool, world.files[c].pool)

(* The invariant of part 2, for EntriesStay.                               *)
PoolsInv == RewriteInv /\ PoolInHand /\ PoolsGiven
-----------------------------------------------------------------------------
(* Part 3: the lengths that are kept add up.                               *)
(*                                                                         *)
(* A row made element by element.                                          *)
Listed(q) == \E S : q \in Seq(S)

(* Instructions of which the length is known.                              *)
InstrParts == {"op", "addr", "arg", "offs", "no", "part"}

Sound(i) ==
  /\ DOMAIN i = InstrParts
  /\ i.op \in DOMAIN opcodesTxt
  /\ i.addr \in Int
  /\ Row(i.offs)

CodeSound(code) == Listed(code) /\ \A k \in DOMAIN code : Sound(code[k])
CodeSum(code)   == Sum([k \in DOMAIN code |-> Size(code[k])])

(* What is laid out from address 0 on ends where its lengths add up to.    *)
LaidOut(code) == CodeSound(code) /\ CodeSum(code) = End(code)

(* A method whose length is known, with n exceptions.                      *)
MethodParts == {"key", "attributesCount", "attributes", "maxStack", "code", "codeLength",
                "exceptions", "codeAttributes", "frames", "ended"}

FramesSound(fs) ==
  /\ Row(fs)
  /\ \A k \in DOMAIN fs : {"size", "delta"} \subseteq DOMAIN fs[k] /\ fs[k].size \in Int

Sized(m, n) ==
  /\ DOMAIN m = MethodParts
  /\ CodeSound(m.code)
  /\ m.codeLength = CodeSum(m.code)
  /\ Row(m.exceptions) /\ Len(m.exceptions) = n
  /\ FramesSound(m.frames)
  /\ AttributesBytes(m.attributes) \in Int
  /\ AttributesBytes(m.codeAttributes) \in Int

(* What is inserted at one place, or before each exit.                     *)
StepSound(step) == step.where \in {"entry", "init", "exits"} /\ CodeSound(step.call)

(* What update_method inserts.                                             *)
StepsSound(q) == \E S : q \in Seq(S) /\ \A step \in S : StepSound(step)

(* A class whose methods have known lengths, those of its file with the    *)
(* exceptions they have there.                                             *)
ClassSized(ms, f) ==
  /\ \A x \in ToSet(ms) : x.key \in DOMAIN f.methods /\ Sized(f.methods[x.key], Len(x.exceptions))
  /\ \A key \in DOMAIN f.methods : \E n : Sized(f.methods[key], n)

(* The lengths that are declared add up to what is written.                *)
SizesSet(m, j) == j = 3 \/ \A k \in DOMAIN m.frames : m.frames[k].size # Unset

(* The class in hand, and those given to the JVM.                          *)
SizedInHand ==
  class # None /\ fate = "running" => ClassSized(world.files[class].methods, fr)

SizedGiven ==
  \A c \in DOMAIN handed :
    \E f : /\ handed[c] = load_to_buffer(f, junk)
           /\ ClassSized(world.files[c].methods, f)
           /\ IsFiniteSet(DOMAIN f.methods)

(* The invariant of part 3, for LengthsStayTrue.                           *)
SizedInv == RewriteInv /\ SizedInHand /\ SizedGiven
-----------------------------------------------------------------------------
(* Part 4: what is in a pool, and what its entries refer to.               *)
(*                                                                         *)
(* The entry e has the index i in p.                                       *)
Holds(p, i, e) == \E k \in DOMAIN p.info : p.info[k].index = i /\ p.info[k].entry = e

(* Every index is that of one entry, and what is found by a key is there.  *)
PoolSound(p) ==
  /\ DOMAIN p = PoolParts
  /\ Listed(p.info)
  /\ p.next \in Nat
  /\ \A k \in DOMAIN p.info : p.info[k].index \in 1 .. p.next
  /\ \A k, j \in DOMAIN p.info : p.info[k].index = p.info[j].index => k = j
  /\ \A key \in DOMAIN p.names : \E e : Holds(p, p.names[key], e) /\ Key(e) = key

(* q has what p has, where it was.                                         *)
Later(p, q) ==
  /\ p.next <= q.next
  /\ \A i, e : Holds(p, i, e) => Holds(q, i, e)

(* What the entries of a pool may be.                                      *)
Text(p, i) == \E t : Holds(p, i, Utf8(t))

Number(e) == e.tag \in {"Integer"} \cup TwoSlots /\ e.refs = <<>> /\ e.text \notin AgentTexts

Fits(p, e) ==
  \/ \E t : e = Utf8(t)
  \/ \E i : e \in {Class(i), StringConst(i)} /\ Text(p, i)
  \/ \E i, j : e = NameAndType(i, j) /\ Text(p, i) /\ Text(p, j)
  \/ \E i, j, n, x : e \in {MethodRef(i, j), FieldRef(i, j)} /\ Holds(p, i, Class(n)) /\ Holds(p, j, x)
  \/ Number(e)

(* Each is one of those, and those that refer to none are of the file or   *)
(* one of the agent's texts.                                               *)
Proper(p, file) ==
  \A i, e : Holds(p, i, e) =>
    /\ Fits(p, e)
    /\ e.refs = <<>> => e \in ToSet(file) \/ e.text \in AgentTexts

PoolFits(p, file) == PoolSound(p) /\ Proper(p, file)

(* No text or number of the file reads like the indices of two texts.      *)
Clear(p, file) ==
  \A e \in ToSet(file) : e.refs = <<>> =>
    \A i, j : Text(p, i) /\ Text(p, j) => Key(e) # Pair(i, j)

(* The entry at i of p is a reference to the method m.                     *)
MeansRef(p, i, m) ==
  \E c, n, u, v, w : /\ Holds(p, i, MethodRef(c, n))
                     /\ Holds(p, c, Class(u)) /\ Holds(p, n, NameAndType(v, w))
                     /\ Holds(p, u, Utf8(m.class)) /\ Holds(p, v, Utf8(m.name)) /\ Holds(p, w, Utf8(m.type))

(* The entry at i of p is a string with one of the texts.                  *)
MeansString(p, i, texts) ==
  \E u : \E t \in texts : Holds(p, i, StringConst(u)) /\ Holds(p, u, Utf8(t))

(* A pool with n indices of what was added to it.                          *)
Counted(a, n) == DOMAIN a = {"pool", "ids"} /\ Listed(a.ids) /\ Len(a.ids) = n /\ n \in Nat

(* b has one index more than a, l in all, and its pool grew from that of a.*)
OneMore(a, b, n, l, file) ==
  /\ PoolFits(b.pool, file) /\ Later(a.pool, b.pool)
  /\ Counted(b, l)
  /\ \A i \in 1 .. n : b.ids[i] = a.ids[i]

(* Two ways to write one sequence, named so that a lemma can be told which. *)
Longer(r, s, x) == r = Append(s, x)

(* The indices a timer needs are those of its strings and methods.         *)
TimerMeans(p, ids) ==
  /\ MeansString(p, ids[2], {"enter", "exit"}) /\ MeansString(p, ids[3], {"enter", "exit"})
  /\ MeansRef(p, ids[4], TimeMethod) /\ MeansRef(p, ids[5], ThreadMethod) /\ MeansRef(p, ids[6], NameMethod)

(* What an instruction does, wherever it is; what those of a code do is in *)
(* the set A.                                                              *)
What(i) == <<i.op, i.arg, i.no>>

Does(code, A) == \A k \in DOMAIN code : What(code[k]) \in A

SignalDoing(hook_) == {<<"aload_0", 0, 0>>, <<"invokestatic", hook_, 0>>}

TimerDoing(which, time, thread, getName, hook_) ==
  {<<"invokestatic", time, 0>>, <<"ldc", which % 256, 0>>, <<"invokestatic", thread, 0>>,
   <<"invokevirtual", getName, 0>>, <<"invokestatic", hook_, 0>>}

(* Steps that insert nothing but what is in A.                             *)
StepDoing(step, A) == StepSound(step) /\ Does(step.call, A)

StepsDo(q, A) == \E S : q \in Seq(S) /\ \A step \in S : StepDoing(step, A)

(* An inserted instruction refers to what it is to.                        *)
Means(p, op, arg) ==
  /\ op \in {"aload_0", "ldc", "invokevirtual", "invokestatic"}
  /\ op = "ldc" => (p.next < 256 => MeansString(p, arg, {"enter", "exit"}))
  /\ op = "invokevirtual" => MeansRef(p, arg, NameMethod)
  /\ op = "invokestatic" => \E m \in AgentMethods \ {NameMethod} : MeansRef(p, arg, m)

CodeMeans(p, code) == \A k \in DOMAIN code : code[k].no = 0 => Means(p, code[k].op, code[k].arg)

(* A class read from a file, whose pool fits and whose methods refer to    *)
(* what they are to, if the pool is clear.                                 *)
MethodsMean(f, file) ==
  Clear(f.pool, file) => \A key \in DOMAIN f.methods : CodeMeans(f.pool, f.methods[key].code)

ClassMeans(f, file) == PoolFits(f.pool, file) /\ MethodsMean(f, file)

(* The class in hand, and those given to the JVM.                          *)
MeansInHand ==
  class # None /\ fate = "running" => ClassMeans(fr, world.files[class].pool)

MeansGiven ==
  \A c \in DOMAIN handed :
    \E f : handed[c] = load_to_buffer(f, junk) /\ ClassMeans(f, world.files[c].pool)

(* The invariant of part 4, for OperandsAreFound.                          *)
MeansInv == SizedInv /\ PoolsInv /\ MeansInHand /\ MeansGiven
-----------------------------------------------------------------------------
(* Part 5: where instructions are, and how many of a kind.                 *)
(*                                                                         *)
(* What an instruction keeps wherever it is put.                           *)
Form(i) == <<i.op, i.arg, i.no, Len(i.offs)>>

(* The instructions are one after the other from address 0 on.             *)
After(i) == i.addr + Size(i)

Placed(code) ==
  \A k \in DOMAIN code : code[k].addr = IF k = 1 THEN 0 ELSE After(code[k - 1])

(* How many of the first n instructions have an operation of B, or are one *)
(* of A.                                                                   *)
Marked(i, A, B) == i.op \in B \/ What(i) \in A
Marks(code, A, B, n) == Cardinality({k \in 1 .. n : Marked(code[k], A, B)})

\* From p on c has l instructions like those d has from q on.
Alike(c, d, A, B, p, q, l) ==
  \A j \in 1 .. l : Marked(c[p + j], A, B) <=> Marked(d[q + j], A, B)

(* The code d is the code c of n instructions with the l of new before its *)
(* k-th one.                                                               *)
Spliced(c, d, new, k, n, l) ==
  /\ k \in 1 .. n
  /\ DOMAIN c = 1 .. n /\ DOMAIN new = 1 .. l /\ DOMAIN d = 1 .. n + l
  /\ \A j \in 1 .. k - 1 : Form(d[j]) = Form(c[j])
  /\ \A j \in 1 .. l : Form(d[k - 1 + j]) = Form(new[j])
  /\ \A j \in k .. n : Form(d[j + l]) = Form(c[j])

(* There is an instruction at an address; the returns of a constructor are *)
(* those of one, after the call of its super constructor.                  *)
HasAddr(code, a) == \E j \in DOMAIN code : code[j].addr = a

Late(code) == \A j \in DOMAIN code :
                code[j].op \in Returns => code[j].op = "return" /\ code[j].addr >= FIRST_ADDRESS_AFTER_INIT

(* A code whose instructions and places are those of another.              *)
Alias(c, d) ==
  /\ DOMAIN d = DOMAIN c
  /\ \A j \in DOMAIN c : Form(d[j]) = Form(c[j]) /\ d[j].addr = c[j].addr

(* The exits are as many as the returns; each is the address of an         *)
(* instruction, and none is after the one before it in the list.           *)
ExitsOf(code, x, n, last) ==
  /\ Listed(x) /\ Len(x) = Marks(code, {}, Returns, n)
  /\ \A j \in DOMAIN x : HasAddr(code, x[j]) /\ x[j] \in Int /\ x[j] <= last
  /\ \A a, b \in DOMAIN x : a < b => x[b] <= x[a]
  /\ Late(code) => \A j \in DOMAIN x : x[j] >= FIRST_ADDRESS_AFTER_INIT

(* A code has grown by g instructions of A, and not by a return.           *)
CodeMarks(code, A, B) == Marks(code, A, B, Len(code))

(* What is inserted does not return.                                       *)
Callish(new) == CodeSound(new) /\ \A j \in DOMAIN new : new[j].op \notin Returns

Grew(m, r, A, g) ==
  /\ ~m.ended /\ Placed(r.code) /\ r.code # <<>>
  /\ CodeMarks(r.code, {}, Returns) = CodeMarks(m.code, {}, Returns)
  /\ CodeMarks(r.code, A, {}) = CodeMarks(m.code, A, {}) + g

\* Nothing moves at or before the place of insertion.
LowSame(c, d, at) == \A a \in Int : a <= at => (HasAddr(c, a) <=> HasAddr(d, a))

(* Putting the same instructions at places that are there, none of them    *)
(* after the one before it, puts them there as often.                      *)
PlacesFit(code, q, l, call) ==
  /\ l \in Nat /\ DOMAIN q = 1 .. l
  /\ \A i \in 1 .. l : q[i].call = call /\ q[i].at \in Int /\ HasAddr(code, q[i].at)
  /\ \A i, j \in 1 .. l : i < j => q[j].at <= q[i].at

(* How often what is inserted at a kind of place is put there.             *)
Reps(code, where) ==
  CASE where = "entry" -> 1
    [] where = "init"  -> IF HasAddr(code, FIRST_ADDRESS_AFTER_INIT) THEN 1 ELSE 0
    [] where = "exits" -> CodeMarks(code, {}, Returns)

(* A constructor that was changed still returns only after its super call. *)
LateGrown(m, r) ==
  Late(m.code) =>
    /\ Late(r.code)
    /\ HasAddr(m.code, FIRST_ADDRESS_AFTER_INIT) <=> HasAddr(r.code, FIRST_ADDRESS_AFTER_INIT)

(* Calls of a method of the agent.                                         *)
Hooks == {HOOK_SIGNAL_DESCRIPTOR, HOOK_TIMER_DESCRIPTOR, HOOK_MONITOR_HEAP_DESCRIPTOR}

(* The indices that refer to a method, and the calls of it.                *)
RefArgs(p, h)  == {x \in {p.info[k].index : k \in DOMAIN p.info} : MeansRef(p, x, h)}
RefCalls(p, h) == {<<"invokestatic", a, 0>> : a \in RefArgs(p, h)}

(* The hook a flag is for, and how many calls of h a hook with the flag is  *)
(* in a method with rets returns, and with an instruction at 4 or none.    *)
HookFor(flag) == CASE flag = "TIMER" -> HOOK_TIMER_DESCRIPTOR
                   [] flag = "HEAP"  -> HOOK_MONITOR_HEAP_DESCRIPTOR
                   [] flag \in {"ENTER", "EXIT"} -> HOOK_SIGNAL_DESCRIPTOR

Flags == {"ENTER", "EXIT", "TIMER", "HEAP"}

Adds(flag, rets, four) == CASE flag = "ENTER" -> 1
                            [] flag = "EXIT"  -> rets
                            [] flag = "TIMER" -> 1 + rets
                            [] flag = "HEAP"  -> IF four THEN 1 ELSE 0

(* m calls the hook h v[h] times.                                          *)
Tallied(p, m, rets, v) ==
  /\ ~m.ended /\ Placed(m.code) /\ m.code # <<>>
  /\ CodeMarks(m.code, {}, Returns) = rets
  /\ \A h \in Hooks : v[h] \in Int /\ CodeMarks(m.code, RefCalls(p, h), {}) = v[h]

(* For a constructor.                                                      *)
Constructs(m, four) ==
  /\ Late(m.code)
  /\ HasAddr(m.code, FIRST_ADDRESS_AFTER_INIT) <=> four

(* What is inserted calls one hook once, and no other.                     *)
OneCall(p, call, callTo) ==
  /\ Callish(call)
  /\ \A h \in Hooks : CodeMarks(call, RefCalls(p, h), {}) = IF h = callTo THEN 1 ELSE 0

(* The steps of a hook, and the method they make of m, likewise.           *)
Pairs(q, s, t) == q = <<s, t>>
Runs(w, m, q)  == w = FoldLeft(Insert, m, q)

(* A method x of a file calls the hooks v times.                           *)
HookedAs(p, m, x, v) ==
  /\ Tallied(p, m, Len(FileExits(x)), v)
  /\ Constructor(x.key) => Constructs(m, CallsSuperFirst(x))
-----------------------------------------------------------------------------
(* Part 6: what the lines of the hooks files ask for, and what the signals *)
(* made of them have come to in a class.                                   *)
(*                                                                         *)
(* A signal as a line of the list makes it, and the flags with which it     *)
(* hooks a method: one, or none.                                           *)
SignalFit(s) ==
  /\ \E flag \in Flags : s.flags = {flag}
  /\ s.flags = {"HEAP"} => s.name = NoName
  /\ s.name.name # "<init>"

AskOf(s, key) ==
  IF ByName(s) THEN IF s.name = key THEN s.flags ELSE {}
  ELSE IF Skipped(key) THEN {}
  ELSE IF all(s) THEN IF Constructor(key) THEN {"EXIT"} ELSE s.flags
  ELSE IF Constructor(key) THEN s.flags ELSE {}

CallFits(s, call) ==
  \E flag \in Flags : /\ call.flags = {flag} /\ call.callTo = HookFor(flag)
                      /\ AskOf(s, call.key) = {flag}
                      /\ Constructor(call.key) => flag \in {"EXIT", "HEAP"}
                      /\ flag = "HEAP" => Constructor(call.key)

(* No method is called upon twice.                                         *)
OnlyOnce(q) == \A i, j \in DOMAIN q : q[i].key = q[j].key => i = j

(* The calls a signal comes to: one for each method it asks something of.  *)
CallsSay(f, s, q) ==
  /\ \A i \in DOMAIN q : CallFits(s, q[i])
  /\ OnlyOnce(q)
  /\ \A key \in DOMAIN f.methods : AskOf(s, key) # {} => \E i \in DOMAIN q : q[i].key = key

(* Everything of S is one of the first n of q.                             *)
Covers(q, n, S) == \A x \in S : \E i \in 1 .. n : q[i] = x

(* What the flags of a signal add to the calls of a hook.                  *)
Extra(ask, h, rets, four) ==
  CASE h = HOOK_SIGNAL_DESCRIPTOR -> (IF "ENTER" \in ask THEN 1 ELSE 0) + (IF "EXIT" \in ask THEN rets ELSE 0)
    [] h = HOOK_TIMER_DESCRIPTOR -> IF "TIMER" \in ask THEN 1 + rets ELSE 0
    [] h = HOOK_MONITOR_HEAP_DESCRIPTOR -> IF "HEAP" \in ask /\ four THEN 1 ELSE 0

MoreCalls(v, s, x) ==
  [h \in Hooks |-> v[h] + Extra(AskOf(s, x.key), h, Len(FileExits(x)), CallsSuperFirst(x))]

(* The calls that the first n signals of q ask for in a method.            *)
TimesIn(flag, q, n, key) == Cardinality({k \in 1 .. n : flag \in AskOf(q[k], key)})

Due(h, rets, four, enter, exit, timer, heap) ==
  CASE h = HOOK_SIGNAL_DESCRIPTOR       -> enter + rets * exit
    [] h = HOOK_TIMER_DESCRIPTOR        -> (1 + rets) * timer
    [] h = HOOK_MONITOR_HEAP_DESCRIPTOR -> IF four THEN heap ELSE 0

DueBy(h, q, n, x) ==
  Due(h, Len(FileExits(x)), CallsSuperFirst(x), TimesIn("ENTER", q, n, x.key), TimesIn("EXIT", q, n, x.key),
      TimesIn("TIMER", q, n, x.key), TimesIn("HEAP", q, n, x.key))

Wanted(q, n, x) == [h \in Hooks |-> DueBy(h, q, n, x)]

(* The methods of a class are those of its file.                           *)
Keyed(ms, methods) == \A key : key \in DOMAIN methods <=> \E x \in ToSet(ms) : x.key = key

(* What a class is after n of its signals q.                               *)
CountedTo(file, q, n, f) ==
  /\ Keyed(file.methods, f.methods)
  /\ Clear(f.pool, file.pool) =>
       \A x \in ToSet(file.methods) :
          x.hasCode => HookedAs(f.pool, f.methods[x.key], x, Wanted(q, n, x))

(* A line that is loaded, and the signal it makes.                         *)
GoodLine(line) ==
  /\ IsText(line) /\ ~Refused(line)
  /\ InRow(line.flags) /\ ToSet(line.flags) \subseteq {"ENTER", "EXIT", "TIMER"}
  /\ line.method.name \notin {"", "<init>"}

SigName(line)  == IF line.heap THEN NoName ELSE convert_name(line.method)
SigFlags(line) == IF line.heap THEN {"HEAP"} ELSE ToSet(line.flags)

From(s, line) == GoodLine(line) /\ s.name = SigName(line) /\ s.flags = SigFlags(line)

(* A signal asks for what its line does, and fits a class that has what    *)
(* the line asks for.                                                      *)
FitsClass(ms, s) == ByName(s) => \E x \in ToSet(ms) : x.key = s.name

Hooking(ms, line) ==
  \/ line.heap
  \/ \E f \in ToSet(ms) : /\ Asks(line, f.key) # {}
                          /\ Constructor(f.key) => line.method.name \in Starred
  \/ line.method.name \in Starred /\ line.flags # <<"TIMER">>

(* The signals of a class and the lines that name it.                      *)
Both(a, b) ==
  /\ Listed(a) /\ Listed(b) /\ Len(a) = Len(b)
  /\ \A i \in 1 .. Len(a) : From(b[i], a[i])

Parallel(named, hlist) ==
  /\ DOMAIN named = DOMAIN hlist
  /\ \A c \in DOMAIN named : Both(named[c], hlist[c])

(* What is known of the marks of signals: one that is marked has nothing   *)
(* to hook, and the first n of a class that was hooked, only those.        *)
Judged(ms, s) ==
  /\ "valid" \in DOMAIN s /\ s.valid \in BOOLEAN
  /\ ~s.valid => ~FitsClass(ms, s)

MarkedTo(ms, q, n) == \A i \in 1 .. n : q[i].valid => FitsClass(ms, q[i])

JudgedAll(hlist) ==
  \A c \in DOMAIN hlist : \A i \in 1 .. Len(hlist[c]) : Judged(world.files[c].methods, hlist[c][i])

(* The lines loaded so far are those the signals are made from.            *)
LinesLoaded(n) ==
  /\ Len(world.lines) = n + Len(lines) /\ Listed(lines)
  /\ \A i \in 1 .. Len(lines) : lines[i] = world.lines[n + i]
  /\ \A k : RunOf("line", <<>>, world.lines, Len(world.lines), k) => Parallel(k[n], sigs.hlist)

LinesIn == fate = "running" \/ DOMAIN handed # {} => \E n \in Nat : LinesLoaded(n)

(* The class in hand has the calls its first done signals ask for, and one *)
(* that is done has those of them all.                                     *)
Finished(c, f, q) ==
  /\ handed[c] = load_to_buffer(f, junk)
  /\ ClassSized(world.files[c].methods, f)
  /\ ClassMeans(f, world.files[c].pool)
  /\ CountedTo(world.files[c], q, Len(q), f)
  /\ MarkedTo(world.files[c].methods, q, Len(q))

CountInHand ==
  class # None /\ fate = "running" =>
    /\ CountedTo(world.files[class], OfClass(sigs, class), done, fr)
    /\ MarkedTo(world.files[class].methods, OfClass(sigs, class), done)
    /\ class \in DOMAIN handed /\ done = 0 => \E f : Finished(class, f, OfClass(sigs, class))
    /\ class \in DOMAIN handed /\ done # 0 => handed[class] = load_to_buffer(fr, junk)

CountGiven == \A c \in DOMAIN handed \ {Package} : c # class => \E f : Finished(c, f, OfClass(sigs, c))

(* The invariant of parts 5 and 6, for HooksAreAsAsked.                    *)
CountInv == MeansInv /\ LinesIn /\ JudgedAll(sigs.hlist) /\ CountInHand /\ CountGiven
=============================================================================
