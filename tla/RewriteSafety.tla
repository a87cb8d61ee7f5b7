---------------------------- MODULE RewriteSafety ----------------------------
(***************************************************************************)
(* What the rewriting of classes must respect, and when it does.           *)
(*                                                                         *)
(* f is a method as it is in the class file, w the MethodInfo that was     *)
(* written for it.  The instructions of f keep their number in w, so that  *)
(* a place of w can be compared with the one of f it comes from.           *)
(***************************************************************************)
EXTENDS HookCalls

Methods(c)      == ToSet(world.files[c].methods)
Written(c, f)   == handed[c].methods[f.key].method
InPlace(w, i)   == SelectInSeq(w.code, LAMBDA x : x.no = i.no)
FileTargets(f)  == FrameTargets(f.code, f.exceptions)
FileExits(f)    == get_return_addresses(f.code)

\* Each class that was handed back, with each of its methods that has code.
Rewritten(P(_, _, _)) ==
    \A c \in DOMAIN handed \ {Package} :
        \A f \in Methods(c) : f.hasCode => P(c, f, Written(c, f))

(***************************************************************************)
(* What the hook list asks of a method: the flags, one for each line that  *)
(* names it.  Constructors are hooked at their exits by a star, and timers *)
(* not at all.                                                             *)
(***************************************************************************)
Requests(line, key) ==
    CASE line.form # "text" -> {}
      [] IsText(line) /\ line.heap ->
            IF Constructor(key) THEN {"HEAP"} ELSE {}
      [] IsText(line) /\ ~line.heap /\ line.method.name \in Starred ->
            IF line.flags = <<"TIMER">> THEN {}
            ELSE IF Constructor(key) THEN {"EXIT"} ELSE ToSet(line.flags)
      [] OTHER -> IF line.method.typed /\ convert_name(line.method) = key
                      THEN ToSet(line.flags) ELSE {}

\* A line about all methods or constructors passes over main, and over every
\* other method with "main" in its name or its type too.
Overlooks(line, key) ==
    Skipped(key) /\ (line.heap \/ line.method.name \in Starred)

Asks(line, key) == IF Overlooks(line, key) THEN {} ELSE Requests(line, key)

\* The lines of a list by the class they name, in their order.
WithLine(named, line) ==
    IF ~IsText(line) THEN named
    ELSE Put(named, line.class,
             Append(IF line.class \in DOMAIN named THEN named[line.class] ELSE <<>>,
                    line))

LinesByClass == FoldLeft(WithLine, <<>>, world.lines)
LinesOf(c) == IF c \in DOMAIN LinesByClass THEN LinesByClass[c] ELSE <<>>
Asked(c, key) ==
    FlattenSeq([i \in DOMAIN LinesOf(c) |-> SetToSeq(Asks(LinesOf(c)[i], key))])
Times(flag, c, key) ==
    Cardinality({k \in DOMAIN LinesOf(c) : flag \in Asks(LinesOf(c)[k], key)})
HooksExits(c, f) == {"EXIT", "TIMER"} \cap ToSet(Asked(c, f.key)) # {}

Settled(c) == c # class
-----------------------------------------------------------------------------
(***************************************************************************)
(* Where a branch of w may land that went to address a of f: at the same   *)
(* instruction, or at the first of the hooks right before it.              *)
(***************************************************************************)
Lands(w, at, f, a) ==
    \E k, j \in DOMAIN w.code :
        /\ w.code[k].addr = at
        /\ w.code[k].part \in {0, 1}
        /\ \E i \in ToSet(f.code) : i.addr = a /\ j = InPlace(w, i)
        /\ k <= j
        /\ \A n \in k .. j - 1 : w.code[n].no = 0

LandsAtEnd(w, at, f, a) ==
    \/ a = Last(f.code).addr + Last(f.code).bytes /\ at = w.codeLength
    \/ Lands(w, at, f, a)

BranchesAgree(f, w) ==
    /\ \A i \in ToSet(f.code) :
          LET x == w.code[InPlace(w, i)]
          IN  /\ x.op = i.op /\ x.arg = i.arg
              /\ \A k \in DOMAIN i.offs :
                    Lands(w, x.addr + x.offs[k], f, i.addr + i.offs[k])
    /\ \A k \in DOMAIN f.exceptions :
          LET e == f.exceptions[k]  x == w.exceptions[k]
          IN  /\ Lands(w, x.start, f, e.start)
              /\ LandsAtEnd(w, x.end, f, e.end)
              /\ Lands(w, x.handler, f, e.handler)

(***************************************************************************)
(* Methods whose branches the rewriter can move: it knows the targets of   *)
(* every branch and where every range ends, the first instruction branches *)
(* only if the first hook goes before it, and if hooks go before exits, no *)
(* target is after the last one.                                           *)
(***************************************************************************)
Movable(c, f) ==
    /\ \A i \in ToSet(f.code) :
          KeepsOperand(i.op) /\ i.op # "tableswitch"
    /\ IsBranch(f.code[1].op) =>
          Head(Asked(c, f.key) \o <<"ENTER">>) \in {"ENTER", "TIMER"}
    /\ \A e \in ToSet(f.exceptions) : \E i \in ToSet(f.code) : i.addr = e.end
    /\ HooksExits(c, f) /\ FileExits(f) # <<>> =>
          \A a \in FileTargets(f) \union
                   {e.start : e \in ToSet(f.exceptions)} \union
                   {e.end : e \in ToSet(f.exceptions)} :
              a <= FileExits(f)[1]

(***************************************************************************)
(* However many hooks are inserted, in whatever order, a branch, a switch  *)
(* and a range of an exception still lead to the instruction they led to,  *)
(* or to the hook before it.                                               *)
(***************************************************************************)
BranchesKept ==
    Rewritten(LAMBDA c, f, w : Movable(c, f) => BranchesAgree(f, w))

(***************************************************************************)
(* The frames of the StackMapTable.  Not all can be moved: one with an     *)
(* item for an object not yet initialised has an address in it, and one    *)
(* with a stack item has no extended form here.                            *)
(***************************************************************************)
FramesMovable(f, w) ==
    /\ \A k \in DOMAIN f.frames : \A v \in ToSet(f.frames[k].items) : v.t # 8
    /\ \A k \in DOMAIN w.frames :
          w.frames[k].kind = "same_local_one_stack" =>
              LET to == SetToSortSeq(FrameTargets(w.code, w.exceptions), <)
              IN  to[k] - (IF k = 1 THEN 0 ELSE to[k - 1] + 1) <= LastShort

\* Each frame is where the JVM looks for it, and is the frame of that place.
FramesMatch ==
    Rewritten(LAMBDA c, f, w :
        Movable(c, f) /\ FramesMovable(f, w) =>
            LET was == Positions(load_frames_from_buffer(f.frames))
                is  == Positions(w.frames)
            IN  /\ Len(w.frames) = Len(f.frames)
                /\ ToSet(is) = FrameTargets(w.code, w.exceptions)
                /\ \A k \in DOMAIN f.frames :
                      /\ Lands(w, is[k], f, was[k])
                      /\ w.frames[k].items = load_frame(f.frames[k]).items)

(***************************************************************************)
(* The hook before an exit can be passed by if a branch leads to the exit  *)
(* itself, or into the group of two instructions a value is returned by.   *)
(***************************************************************************)
ExitPlaces(f) == {f.code[k].addr : k \in {j \in DOMAIN f.code :
                     f.code[j].op \in Returns}} \union ToSet(FileExits(f))

NotReached(f) ==
    \A a \in FileTargets(f) :
        a \in ExitPlaces(f) => a = FileExits(f)[1] /\ ~\E i \in ToSet(f.code) :
            i.addr = a /\ i.op \in ValueReturns

\* Every way to a return of w goes through the hook before it, from its
\* first instruction on.
HookBefore(w, k) ==
    \E g \in DOMAIN w.code :
        /\ g < k
        /\ w.code[g].part = 1
        /\ \A n \in g + 1 .. k : w.code[n].part # 1
        /\ \A n \in g + 1 .. k : w.code[n].no # 0 => n >= k - 1
        /\ \A a \in FrameTargets(w.code, w.exceptions) :
              a \notin w.code[g].addr + 1 .. w.code[k].addr

(***************************************************************************)
(* A method that is hooked at its exits signals every return, however it   *)
(* is reached.                                                             *)
(***************************************************************************)
ExitsCalled ==
    Rewritten(LAMBDA c, f, w :
        Movable(c, f) /\ HooksExits(c, f) /\ Settled(c) /\ NotReached(f) =>
            \A k \in DOMAIN w.code :
                w.code[k].op \in Returns => HookBefore(w, k))
-----------------------------------------------------------------------------
(***************************************************************************)
(* How the operand stack grows with an instruction, but for the arguments  *)
(* of a call, and its depth before each instruction of f: after the one    *)
(* before it, or where a branch comes from, or the exception alone.        *)
(* The methods called have int parameters and return nothing.              *)
(***************************************************************************)
Grows == [aload_0 |-> 1, iload_1 |-> 1, iconst_0 |-> 1, aconst_null |-> 1,
          dup |-> 1, ldc |-> 1, new |-> 1, invokestatic |-> 0,
          getfield |-> 0, goto |-> 0, return |-> 0, wide |-> 0, goto_w |-> 0,
          iadd |-> -1, pop |-> -1, astore_1 |-> -1, ifeq |-> -1,
          ireturn |-> -1, athrow |-> -1, lookupswitch |-> -1,
          tableswitch |-> -1, invokevirtual |-> -1, invokespecial |-> -1,
          invokeinterface |-> -1]

Calling == {"invokestatic", "invokevirtual", "invokespecial",
            "invokeinterface"}

Arguments(c, i) ==
    LET p == handed[c].pool
    IN  IF i.op \in Calling
            THEN Len(At(p, At(p, At(p, i.arg).refs[2]).refs[2]).text) - Len("()V")
            ELSE 0

Falls(op) == op \notin Returns \union {"goto", "goto_w", "athrow",
                                      "lookupswitch", "tableswitch"}

Depth(c, f) ==
    LET After(k, depth) == depth + Grows[f.code[k].op] - Arguments(c, f.code[k])
        Comes(k) == {j \in 1 .. k - 1 : f.code[k].addr \in
                        ToSet(get_targets(f.code[j]))}
        Handles(k) == \E e \in ToSet(f.exceptions) : e.handler = f.code[k].addr
        d[k \in DOMAIN f.code] ==
            CASE k = 1                   -> 0
              [] k > 1 /\ Handles(k)     -> 1
              [] k > 1 /\ ~Handles(k) /\ Falls(f.code[k - 1].op) ->
                    After(k - 1, d[k - 1])
              [] OTHER -> IF Comes(k) = {} THEN 0
                          ELSE LET j == CHOOSE j \in Comes(k) : TRUE
                               IN  After(j, d[j])
    IN  d

\* The places a group of inserted instructions needs, on top of what is there.
TimerDepth == <<2, 3, 4, 4, 4>>
NeededAt(w, k) ==
    IF w.code[k].op = "aload_0" THEN 1
    ELSE IF Len(SelectSeq(w.code, LAMBDA i : i.part > 2)) = 0 THEN 1
    ELSE TimerDepth[w.code[k].part]

StackSuffices(c, f, w) ==
    \A k \in DOMAIN w.code :
        w.code[k].no = 0 =>
            LET next == CHOOSE n \in k + 1 .. Len(w.code) :
                           /\ w.code[n].no # 0
                           /\ \A m \in k .. n - 1 : w.code[m].no = 0
            IN  Depth(c, f)[w.code[next].no] + NeededAt(w, k) <= w.maxStack

(***************************************************************************)
(* A hook is inserted while the value to return, or what it is computed    *)
(* from, is on the stack, or in the middle of the arguments for the super  *)
(* constructor.                                                            *)
(***************************************************************************)
ValueWaits(c, f) ==
    \/ /\ "EXIT" \in ToSet(Asked(c, f.key))
       /\ \E k \in DOMAIN f.code :
             f.code[k].op \in ValueReturns /\ Depth(c, f)[k - 1] > 0
    \/ /\ "HEAP" \in ToSet(Asked(c, f.key))
       /\ \E i \in ToSet(f.code) : i.addr = FIRST_ADDRESS_AFTER_INIT
       /\ f.code[2].op # "invokespecial"

(***************************************************************************)
(* The code inserted at an entry, before a return without a value, after   *)
(* the call of the super constructor, or for a timer, has room on the      *)
(* operand stack the method declares.                                      *)
(***************************************************************************)
StackFits ==
    Rewritten(LAMBDA c, f, w : ~ValueWaits(c, f) => StackSuffices(c, f, w))

(***************************************************************************)
(* The entries a class had are where they were in the pool it is given,    *)
(* which declares as many as it has.                                       *)
(***************************************************************************)
EntriesKept ==
    \A c \in DOMAIN handed :
        LET p == handed[c].pool  e == world.files[c].pool
        IN  /\ [k \in DOMAIN e |-> p.info[k].entry] = e
            /\ p.bcount = p.next + 1

(***************************************************************************)
(* What is inserted refers to entries of the pool that mean what was       *)
(* asked for, the entries the class had are where they were, and nothing   *)
(* in the pool refers to an entry that is not there.                       *)
(***************************************************************************)
IsString(p, index, texts) ==
    /\ At(p, index).tag = "String"
    /\ At(p, At(p, index).refs[1]) \in {Utf8(t) : t \in texts}

Calls(p, i) ==
    CASE i.op = "aload_0"       -> TRUE
      [] i.op = "ldc"           -> p.next < 256 =>
                                       IsString(p, i.arg, {"enter", "exit"})
      [] i.op = "invokevirtual" -> IsMethodRef(p, i.arg, NameMethod)
      [] i.op = "invokestatic"  ->
            \E m \in AgentMethods \ {NameMethod} : IsMethodRef(p, i.arg, m)

\* What is taken for granted of the texts numbers are printed as: those of
\* different indices differ, and none is a text of the agent.
Numerals(Indices) ==
    \A i, j \in Indices :
        /\ {ToString(i), Pair(i, j)} \cap AgentTexts = {}
        /\ \A k, l \in Indices :
              /\ Pair(i, j) # ToString(k)
              /\ Pair(i, j) = Pair(k, l) => i = k /\ j = l

\* A text, a long or a double that reads like the indices of two texts is
\* taken for the name and type made of them.
Confused(c) ==
    LET p == handed[c].pool
        texts == {x.index : x \in {y \in ToSet(p.info) : y.entry.tag = "Utf8"}}
        pairs == {Pair(i, j) : i, j \in texts}
    IN  \E e \in ToSet(world.files[c].pool) : Len(e.refs) = 0 /\ Key(e) \in pairs

OperandsResolve ==
    /\ Rewritten(LAMBDA c, f, w :
           ~Confused(c) =>
               \A i \in ToSet(w.code) : i.no = 0 => Calls(handed[c].pool, i))
    /\ EntriesKept
    /\ \A c \in DOMAIN handed :
           LET p == handed[c].pool
           IN  \A k \in DOMAIN p.info :
                   \A r \in ToSet(p.info[k].entry.refs) : At(p, r) # NoEntry
-----------------------------------------------------------------------------
(***************************************************************************)
(* The bytes that are written, in the order of the class file.             *)
(***************************************************************************)
CodeBytes(w) ==
    12 + Sum([i \in DOMAIN w.code |-> Size(w.code[i])])
    + Len(w.exceptions) * 8 + AttributesBytes(w.codeAttributes)
    + (IF w.frames = <<>> THEN 0
       ELSE 8 + Sum([i \in DOMAIN w.frames |-> WrittenBytes(w.frames[i])]))

MethodBytes(w) ==
    8 + (IF w.attributesCount = 0 THEN 0
         ELSE AttributesBytes(w.attributes) + 6 + CodeBytes(w))

MethodsBytes(ms) ==
    LET keys == SetToSeq(DOMAIN ms)
    IN  2 + Sum([k \in DOMAIN keys |-> MethodBytes(ms[keys[k]].method)])

ClassBytes(h) ==
    4 + 2 * 2 + PoolBytes(h.pool) + 3 * 2 + (2 + 2 * h.interfaces)
    + fields_size(h.fields) + MethodsBytes(h.methods)
    + attributes_size(h.attributes)

LeftToChance(ms) ==
    /\ junk # 3
    /\ \E key \in DOMAIN ms : \E k \in DOMAIN ms[key].method.frames :
           ms[key].method.frames[k].size = Unset

(***************************************************************************)
(* The lengths the written class declares are those it has, unless a frame *)
(* was replaced by one whose _size is left to chance; and every range of   *)
(* an exception is still there.                                            *)
(***************************************************************************)
LengthsTrue ==
    \A c \in DOMAIN handed :
        LET h == handed[c]  ms == h.methods
        IN  /\ ~LeftToChance(ms) =>
                  /\ \A key \in DOMAIN ms :
                        ms[key].method.attributesCount # 0 =>
                            ms[key].codeLen = CodeBytes(ms[key].method)
                  /\ h.size = ClassBytes(h)
            /\ \A f \in Methods(c) :
                  Len(Written(c, f).exceptions) = Len(f.exceptions)

(***************************************************************************)
(* How often w calls the method of the agent with the given name.          *)
(***************************************************************************)
CallsOf(c, w, m) ==
    Cardinality({k \in DOMAIN w.code :
                    /\ w.code[k].no = 0 /\ w.code[k].op = "invokestatic"
                    /\ IsMethodRef(handed[c].pool, w.code[k].arg, m)})

\* The constructor calls that of its super class, with no arguments, first.
CallsSuperFirst(f) == \E i \in ToSet(f.code) : i.addr = 4

(***************************************************************************)
(* The methods of a class have the hooks its lines ask for, no more and no *)
(* fewer, and a signal is reported valid if it hooked something.  A star   *)
(* counts as hooking something whatever it finds.  Excepted: what a call   *)
(* refers to in a class whose pool is Confused, and the methods a line     *)
(* about all of them Overlooks, which get nothing from that line.          *)
(***************************************************************************)
HooksAsAsked ==
    \A c \in DOMAIN handed \ {Package} :
        Settled(c) =>
            /\ \A f \in Methods(c) :
                  f.hasCode /\ ~Confused(c) =>
                      LET w == Written(c, f)  exits == Len(FileExits(f)) IN
                      /\ CallsOf(c, w, HOOK_SIGNAL_DESCRIPTOR) =
                             Times("ENTER", c, f.key)
                             + exits * Times("EXIT", c, f.key)
                      /\ CallsOf(c, w, HOOK_TIMER_DESCRIPTOR) =
                             (1 + exits) * Times("TIMER", c, f.key)
                      /\ CallsOf(c, w, HOOK_MONITOR_HEAP_DESCRIPTOR) =
                             IF CallsSuperFirst(f) THEN Times("HEAP", c, f.key)
                                                   ELSE 0
            /\ \A k \in DOMAIN LinesOf(c) :
                  LET line == LinesOf(c)[k] IN
                  sigs.hlist[c][k].valid =
                      \/ line.heap
                      \/ \E f \in Methods(c) :
                            /\ Asks(line, f.key) # {}
                            /\ Constructor(f.key) =>
                                  line.method.name \in Starred
                      \/ /\ line.method.name \in Starred
                         /\ line.flags # <<"TIMER">>

(***************************************************************************)
(* What the JVM gets for a class does not depend on the classes that were  *)
(* read or hooked before it, or on its having been hooked and restored.    *)
(***************************************************************************)
Afresh(c) ==
    load_to_buffer(FoldLeft(hook, load_from_buffer(EmptyPool, world.files[c]),
                            OfClass(sigs, c)),
                   junk)

SameClass(h, a) == /\ h.pool.info = a.pool.info
                   /\ h.pool.bcount = a.pool.bcount
                   /\ [h EXCEPT !.pool = a.pool] = a

RewrittenAfresh ==
    \A c \in DOMAIN handed \ {Package} :
        Settled(c) => SameClass(handed[c], Afresh(c))

(***************************************************************************)
(* A method the program can read and hook: it has code whose instructions  *)
(* are all in the table, whose branches can be moved, with one frame for   *)
(* each target and no two attributes of one name; or it has neither code   *)
(* nor attributes.                                                         *)
(***************************************************************************)
Distinct(attrs) == \A i, j \in DOMAIN attrs :
                       attrs[i].name = attrs[j].name => i = j

Handled(c, f) ==
    \/ ~f.hasCode /\ f.attrs = <<>>
    \/ /\ f.hasCode
       /\ CodeKnown(f)
       /\ Movable(c, f)
       /\ Len(f.frames) = Cardinality(FileTargets(f))
       /\ Distinct(f.attrs) /\ Distinct(f.codeAttrs)

(***************************************************************************)
(* A JVM of which every class is of such methods, with a pool of known     *)
(* tags, and whose hook list is accepted and names methods with their      *)
(* types, goes on running whatever is hooked and in whatever order; what   *)
(* the hooks do when they are called may still be undefined.               *)
(***************************************************************************)
Survives ==
    /\ \A line \in ToSet(world.lines) :
          /\ ~Refused(line)
          /\ line.form = "text" /\ ~line.heap /\ line.method.name \notin Starred
             => line.method.typed
    /\ \A c \in DOMAIN world.files :
          /\ PoolReadable(world.files[c].pool)
          /\ \A f \in Methods(c) : Handled(c, f)
    => fate \in {"running", "undefined"}

(***************************************************************************)
(* What a call of a hook tells.  The last line about a method decides      *)
(* whether the arguments and the whole stack are told, the last that names *)
(* it which fields are.                                                    *)
(***************************************************************************)
LastAbout(c, key) ==
    Last(SelectSeq(LinesOf(c), LAMBDA l : ~l.heap /\ Asks(l, key) # {}))

FieldsAsked(c, key) ==
    LET naming == SelectSeq(LinesOf(c), LAMBDA l :
                      /\ ~l.heap /\ Asks(l, key) # {}
                      /\ l.method.name \notin Starred)
    IN  IF naming = <<>> THEN <<>> ELSE Last(naming).fields

Tellable(type) == \/ OfString(type) \/ type = [array |-> FALSE, base |-> "I"]
                  \/ type.array /\ Len(type.base) > 1

(***************************************************************************)
(* A signal has as its parameters the arguments the method was called      *)
(* with, all or none, if they are ints, Strings and arrays of objects, and *)
(* as its markers the fields the hook list names; it has them, and more    *)
(* than one frame, unless the list turns the artifacts off.                *)
(***************************************************************************)
TellsAsAsked ==
    sent.settled =>
        LET c   == sent.class
            key == sent.key
            off == LastAbout(c, key).off
            types == ParamTypes(key)
        IN  /\ sent.frames = IF off THEN 1 ELSE sent.depth - 1
            /\ off => sent.params = <<>> /\ sent.markers = <<>>
            /\ ~off /\ (\A k \in DOMAIN types : Tellable(types[k])) =>
                  /\ sent.params = [k \in DOMAIN types |->
                         IF types[k].array THEN "[]" ELSE "arg" \o ToString(k)]
                  /\ sent.markers = [k \in DOMAIN FieldsAsked(c, key) |->
                         get_value(c, FieldsAsked(c, key)[k])]

(***************************************************************************)
(* README.md: signals "for any method on entry and exit".  Every method    *)
(* with code that is hooked at its exits can be verified and run: the      *)
(* stack has room and the branches lead where they led.                    *)
(***************************************************************************)
AnyMethodHooked ==
    Rewritten(LAMBDA c, f, w :
        "EXIT" \in ToSet(Asked(c, f.key)) =>
            StackSuffices(c, f, w) /\ BranchesAgree(f, w))
==============================================================================
