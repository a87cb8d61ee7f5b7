--------------------------- MODULE MCClassRewrite ---------------------------
(***************************************************************************)
(* Methods as javac compiles them, classes made of them, and hook lists.   *)
(*                                                                         *)
(* A program is a sequence of instructions that branch to each other by    *)
(* number; Compile gives them addresses and offsets.  A frame is given by  *)
(* the number of the instruction it is about.                              *)
(***************************************************************************)
EXTENDS RewriteSafety

ASSUME SmallNumerals == Numerals(0 .. 12)

Do(op)      == [op |-> op, arg |-> 0, to |-> <<>>]
With(op, n) == [op |-> op, arg |-> n, to |-> <<>>]
Go(op, to)  == [op |-> op, arg |-> 0, to |-> to]

\* The operand of wide stands for the bytes it has with what it widens.
Bytes(i, at) ==
    CASE i.op = "wide"  -> i.arg
      [] ~Known(i.op)   -> 1
      [] OTHER          -> Size([op |-> i.op, addr |-> at, offs |-> i.to])

Addresses(prog) ==
    FoldLeft(LAMBDA at, i : Append(at, Last(at) + Bytes(i, Last(at))), <<0>>, prog)

Compile(prog, at) ==
    [k \in DOMAIN prog |->
        [op |-> prog[k].op, addr |-> at[k], arg |-> prog[k].arg, no |-> k,
         bytes |-> at[k + 1] - at[k],
         offs |-> [n \in DOMAIN prog[k].to |-> at[prog[k].to[n]] - at[k]]]]

Same(at)         == [at |-> at, shape |-> "same", items |-> <<>>]
Stack(at, item)  == [at |-> at, shape |-> "stack", items |-> <<item>>]
More(at, items)  == [at |-> at, shape |-> "append", items |-> items]
Fewer(at)        == [at |-> at, shape |-> "chop", items |-> <<>>]
Whole(at, items) == [at |-> at, shape |-> "full", items |-> items]

FrameType(frame, delta) ==
    CASE frame.shape = "same"   -> IF delta <= 63 THEN delta ELSE 251
      [] frame.shape = "stack"  -> IF delta <= 63 THEN 64 + delta ELSE 247
      [] frame.shape = "append" -> 251 + Len(frame.items)
      [] frame.shape = "chop"   -> 250
      [] frame.shape = "full"   -> 255

FileFrame(frame, delta) ==
    [ftype |-> FrameType(frame, delta), delta |-> delta, items |-> frame.items]

FileFrames(at, frs) ==
    [k \in DOMAIN frs |->
        FileFrame(frs[k], IF k = 1 THEN at[frs[1].at]
                          ELSE at[frs[k].at] - at[frs[k - 1].at] - 1)]

LineNumbers == [name |-> "LineNumberTable", len |-> 6]
Locals      == [name |-> "LocalVariableTable", len |-> 12]
Signature   == [name |-> "Signature", len |-> 2]

Key2(name, type) == [name |-> name, type |-> type]

\* excs has the numbers of the instructions a range is given by; the number
\* after the last is the end of the code.
Assembled(key, depth, prog, at, excs, frs) ==
    [key |-> key, attrs |-> <<>>, hasCode |-> TRUE,
     maxStack |-> depth, code |-> Compile(prog, at),
     exceptions |-> [k \in DOMAIN excs |->
         [start |-> at[excs[k][1]], end |-> at[excs[k][2]],
          handler |-> at[excs[k][3]]]],
     codeAttrs |-> <<LineNumbers>>, table |-> frs # <<>>,
     frames |-> FileFrames(at, frs)]

Method(key, depth, prog, excs, frs) ==
    Assembled(key, depth, prog, Addresses(prog), excs, frs)

NoCode(key, attrs) ==
    [key |-> key, attrs |-> attrs, hasCode |-> FALSE,
     maxStack |-> 0, code |-> <<>>, exceptions |-> <<>>, codeAttrs |-> <<>>,
     table |-> FALSE, frames |-> <<>>]
-----------------------------------------------------------------------------
(***************************************************************************)
(* The methods.                                                            *)
(***************************************************************************)
Run    == Key2("run", "()V")
Decide == Key2("decide", "(I)V")
Value  == Key2("value", "(I)I")
New    == Key2("<init>", "()V")

Call == <<Do("aload_0"), With("invokevirtual", 10)>>
Step(n) == [k \in 1 .. n |-> With("invokestatic", 10)]

Super      == Method(New, 1, <<Do("aload_0"), With("invokespecial", 10),
                               Do("return")>>, <<>>, <<>>)
SuperWith  == Method(Key2("<init>", "(I)V"), 2,
                     <<Do("aload_0"), Do("iload_1"), With("invokespecial", 14),
                       Do("return")>>, <<>>, <<>>)
\* The super constructor is called at address 4.
SuperAt4   == Method(Key2("<init>", "(II)V"), 4,
                     <<Do("aload_0"), Do("iload_1"), Do("iconst_0"),
                       Do("iconst_0"), With("invokespecial", 17),
                       Do("return")>>, <<>>, <<>>)
Nothing    == Method(Run, 0, <<Do("return")>>, <<>>, <<>>)
Straight   == Method(Run, 1, Call \o <<Do("return")>>, <<>>, <<>>)
SuperMain  == [Super EXCEPT !.key = Key2("<init>", "(Lcom/domain/X;)V")]
Remainder  == Method(Key2("remainder", "()V"), 1, Call \o <<Do("return")>>,
                     <<>>, <<>>)
If         == Method(Decide, 1, <<Do("iload_1"), Go("ifeq", <<5>>)>> \o Call
                                \o <<Do("return")>>, <<>>, <<Same(5)>>)
TwoExits   == Method(Decide, 1, <<Do("iload_1"), Go("ifeq", <<4>>),
                                  Do("return")>> \o Call \o <<Do("return")>>,
                     <<>>, <<Same(4)>>)
\* A branch leads to a return that is not the last.
ToFirstExit == Method(Decide, 1,
                      <<Do("iload_1"), Go("ifeq", <<8>>), Do("iload_1"),
                        Go("ifeq", <<7>>)>> \o Call \o <<Do("return")>> \o Call
                      \o <<Do("return")>>, <<>>, <<Same(7), Same(8)>>)
\* What follows the only return is reached by branches.
Forever    == Method(Decide, 1,
                     <<Do("iload_1"), Go("ifeq", <<4>>), Do("return")>> \o Call
                     \o <<Go("goto", <<1>>)>>, <<>>, <<Same(1), Same(4)>>)
GotoFirst  == Method(Decide, 1,
                     <<Go("goto", <<4>>)>> \o Call \o
                     <<Do("iload_1"), Go("ifeq", <<2>>), Do("return")>>,
                     <<>>, <<Same(2), Same(4)>>)
Loop       == Method(Run, 1,
                     <<Do("iconst_0"), Do("astore_1"), Do("iload_1"),
                       Go("ifeq", <<8>>)>> \o Call \o
                     <<Go("goto", <<3>>), Do("return")>>,
                     <<>>, <<More(3, <<Item(1, 0)>>), Fewer(8)>>)
Getter     == Method(Value, 1, <<Do("aload_0"), With("getfield", 10),
                                 Do("ireturn")>>, <<>>, <<>>)
Local      == Method(Value, 1, <<Do("iload_1"), Do("ireturn")>>, <<>>, <<>>)
Ternary    == Method(Value, 1,
                     <<Do("iload_1"), Go("ifeq", <<5>>), Do("iconst_0"),
                       Go("goto", <<6>>), Do("iconst_0"), Do("ireturn")>>,
                     <<>>, <<Same(5), Stack(6, Item(1, 0))>>)
Early      == Method(Value, 1,
                     <<Do("iload_1"), Go("ifeq", <<5>>), Do("iconst_0"),
                       Do("ireturn"), Do("iload_1"), Do("ireturn")>>,
                     <<>>, <<Same(5)>>)
Try        == Method(Run, 1, Call \o <<Go("goto", <<5>>), Do("astore_1"),
                                       Do("return")>>,
                     << <<1, 3, 4>> >>, <<Stack(4, Item(7, 4)), Same(5)>>)
TryToEnd   == Method(Run, 1, Call \o <<Do("return"), Do("athrow")>>,
                     << <<1, 5, 4>> >>, <<Stack(4, Item(7, 4))>>)
\* The first target is at 60, and the handler of TryFar too.
Far        == Method(Decide, 1,
                     <<Do("iload_1"), Go("ifeq", <<23>>)>> \o Step(18)
                     \o <<Do("aload_0"), Do("pop"), Do("return")>>,
                     <<>>, <<Same(23)>>)
TryFar     == Method(Run, 1,
                     Step(18) \o <<Do("aload_0"), Do("pop"), Do("iconst_0"),
                                   Go("ifeq", <<24>>), Do("astore_1"),
                                   Do("return")>>,
                     << <<1, 22, 23>> >>,
                     <<Stack(23, Item(7, 4)), Same(24)>>)
Choose     == Method(Decide, 1,
                     <<Do("iload_1"), Go("lookupswitch", <<7, 3, 5>>)>> \o Call
                     \o Call \o <<Do("return")>>,
                     <<>>, <<Same(3), Same(5), Same(7)>>)
\* A return between a switch and two of its cases.
ChooseExit == Method(Decide, 1,
                     <<Do("iload_1"), Go("lookupswitch", <<6, 3, 4>>),
                       Do("return")>> \o Call \o <<Do("return")>>,
                     <<>>, <<Same(3), Same(4), Same(6)>>)
ChooseTable == Method(Decide, 1,
                      <<Do("iload_1"), Go("tableswitch", <<7, 3, 5>>)>> \o Call
                      \o Call \o <<Do("return")>>,
                      <<>>, <<Same(3), Same(5), Same(7)>>)
GotoWide   == Method(Decide, 1,
                     <<Do("iload_1"), Go("ifeq", <<4>>), Go("goto_w", <<6>>)>>
                     \o Call \o <<Do("return")>>, <<>>, <<Same(4), Same(6)>>)
WideCount  == Method(Run, 1, <<With("wide", 6)>> \o Call \o <<Do("return")>>,
                     <<>>, <<>>)
\* new Object(c ? 0 : 0).
NewChosen  == Method(Decide, 3,
                     <<With("new", 6), Do("dup"), Do("iload_1"),
                       Go("ifeq", <<7>>), Do("iconst_0"), Go("goto", <<8>>),
                       Do("iconst_0"), With("invokespecial", 14), Do("pop"),
                       Do("return")>>,
                     <<>>,
                     <<Whole(7, <<Item(7, 4), Item(1, 0), Item(8, 0),
                                  Item(8, 0)>>),
                       Whole(8, <<Item(7, 4), Item(1, 0), Item(8, 0),
                                  Item(8, 0), Item(1, 0)>>)>>)
Interface  == Method(Run, 1, <<Do("aload_0"), With("invokeinterface", 10),
                               Do("return")>>, <<>>, <<>>)
\* As a compiler before Java 6 leaves it.
Old        == [If EXCEPT !.table = FALSE, !.frames = <<>>]
Native     == NoCode(Run, <<>>)
\* These the program cannot read.
Abstract   == NoCode(Run, <<Signature>>)
TwoTables  == [Straight EXCEPT !.codeAttrs = <<Locals, LineNumbers, Locals>>]
WideLoad   == Method(Run, 1, <<With("wide", 4)>> \o Call \o <<Do("return")>>,
                     <<>>, <<>>)
Nop        == Method(Run, 1, <<Do("nop"), Do("return")>>, <<>>, <<>>)
HandlerFar == Method(Run, 1, Step(22) \o <<Do("return"), Do("astore_1"),
                                           Do("return")>>,
                     << <<1, 23, 24>> >>, <<Stack(24, Item(7, 4))>>)

Readable == {Nothing, Straight, If, TwoExits, ToFirstExit, Forever, GotoFirst,
             Loop, Getter, Local, Ternary, Early, Try, TryToEnd, Far, TryFar,
             Choose, ChooseExit, ChooseTable, GotoWide, WideCount, NewChosen,
             Interface, Old, Native}
Unreadable == {Abstract, TwoTables, WideLoad, Nop, HandlerFar}
-----------------------------------------------------------------------------
(***************************************************************************)
(* Pools and classes.                                                      *)
(***************************************************************************)
Pool == <<Utf8("Code"), Utf8("StackMapTable"), Utf8("App"), Class(3),
          Utf8("java/lang/Object"), Class(5), Utf8("<init>"), Utf8("()V"),
          NameAndType(7, 8), MethodRef(6, 9), Utf8("LineNumberTable"),
          Utf8("(I)V"), NameAndType(7, 12), MethodRef(6, 13),
          Utf8("(III)V"), NameAndType(7, 15), MethodRef(6, 16)>>

\* A class that measures time itself, and one with a long and a number that
\* is the index of its own name.
PoolTime == Pool \o <<Utf8("java/lang/System"), Class(18),
                      Utf8("currentTimeMillis"), Utf8("()J"),
                      NameAndType(20, 21), MethodRef(19, 22), Utf8("enter"),
                      StringConst(24)>>
\* 3.45846e-323 is 7L.
PoolLong == Pool \o <<Long("3.45846e-323"), IntegerConst(3), Double("12.5"),
                      Utf8("x")>>
\* Classes that measure time and have a number, or a text, taken for a name
\* and type.
PoolPair == PoolTime \o <<Double("20.21")>>
PoolText == PoolTime \o <<Utf8("20.21")>>
PoolFloat == Pool \o <<FloatConst("1.5")>>
PoolLambda == Pool \o <<InvokeDynamic(0, 9)>>

File(pool, methods) ==
    [pool |-> pool, interfaces |-> 1, fields |-> << <<>>, <<2>> >>,
     methods |-> methods, attributes |-> <<2>>,
     declared |-> [id |-> "I", flag |-> "Z"]]

\* Twice, a class is hooked and restored, or hooked twice.
World(ls, files) == [lines |-> ls, files |-> files, maxReads |-> 2]
Thrice(w)        == [w EXCEPT !.maxReads = 3]
One(ls, methods) == World(ls, "App" :> File(Pool, methods))

PackageFile == File(Pool, <<Super>>)
-----------------------------------------------------------------------------
(***************************************************************************)
(* Lines of hook lists.                                                    *)
(***************************************************************************)
Line(c, name, typed, params, returns, flags) ==
    [form |-> "text", class |-> c,
     method |-> [name |-> name, typed |-> typed, params |-> params,
                 returns |-> returns],
     flags |-> flags, fields |-> <<>>, off |-> FALSE, heap |-> FALSE]

Star(flag)  == Line("App", "*", FALSE, <<>>, "", <<flag>>)
Gets(flag)  == Line("App", "get*", TRUE, <<>>, "int", <<flag>>)
Bare(flag)  == Line("App", "run", FALSE, <<>>, "", <<flag>>)
Absent(flag) == Line("App", "gone", TRUE, <<>>, "void", <<flag>>)
Heap        == [Star("ENTER") EXCEPT !.flags = <<>>, !.heap = TRUE]
Comment     == [Heap EXCEPT !.form = "comment"]
Off(line)   == [line EXCEPT !.off = TRUE]
Of(line, c) == [line EXCEPT !.class = c]

ForRun(flag)    == Line("App", "run", TRUE, <<>>, "void", <<flag>>)
ForDecide(flag) == Line("App", "decide", TRUE, <<"int">>, "void", <<flag>>)
ForValue(flag)  == [Line("App", "value", TRUE, <<"int">>, "int", <<flag>>)
                    EXCEPT !.fields = <<"id", "flag", "gone">>]
For(m, flag) == CASE m.key = Run    -> ForRun(flag)
                  [] m.key = Decide -> ForDecide(flag)
                  [] m.key = Value  -> ForValue(flag)

RefusedLines == {[ForRun("ENTER") EXCEPT !.flags = <<>>],
                 [ForRun("ENTER") EXCEPT !.flags = <<"ENTER", "EXIT">>],
                 Line("App", "run", TRUE, <<"int", "int">>, "void", <<"EXIT">>),
                 Line("App", "run", TRUE, <<"String">>, "void", <<"EXIT">>),
                 Line("App", "run", TRUE, <<"string">>, "void", <<"EXIT">>)}
-----------------------------------------------------------------------------
Flags == {<<"ENTER">>, <<"EXIT">>, <<"TIMER">>, <<"ENTER", "EXIT">>,
          <<"EXIT", "ENTER">>, <<"ENTER", "TIMER", "ENTER">>}

EachMethod == {One([k \in DOMAIN fs |-> For(m, fs[k])], <<Super, m>>) :
                   m \in Readable, fs \in Flags}

\* Lines about all methods, and about constructors.
Stars == {<<Star("ENTER")>>, <<Star("EXIT")>>, <<Star("TIMER")>>, <<Heap>>,
          <<Gets("ENTER"), Off(Star("EXIT"))>>, <<Heap, Star("EXIT")>>,
          <<Star("ENTER"), Heap, ForValue("TIMER")>>,
          <<Comment, Bare("ENTER"), Absent("EXIT"), Off(ForValue("ENTER"))>>}
WholeClass == {One(ls, <<Super, SuperWith, SuperAt4, SuperMain, Remainder, Local, If>>) :
                   ls \in Stars}

\* Methods with parameters of each sort.
TypesOfParams == {"(ILjava/lang/String;)V", "(Ljava/lang/String;I)V",
                  "([Ljava/lang/Object;I)V", "([[II)V", "([III)V", "(JI)V",
                  "(Ljava/lang/Object;I)V", "(Lcom/domain/X;)V",
                  "(Ljava/lang/Object;Ljava/lang/String;)V"}
Parameters == {One(ls, <<[Straight EXCEPT !.key = Key2("take", type)]>>) :
                   type \in TypesOfParams,
                   ls \in {<<Star("ENTER")>>, <<Star("ENTER"), Off(Gets("EXIT"))>>}}
Markers == {One(ls, <<Local>>) :
                ls \in {<<ForValue("ENTER")>>, <<Off(Star("EXIT")), ForValue("TIMER")>>,
                        <<ForValue("ENTER"), [ForValue("EXIT") EXCEPT !.fields = <<>>]>>,
                        <<ForValue("ENTER"), Star("EXIT")>>}}

WithConstructors == {World(<<Star(flag)>>, "App" :> File(p, <<Super>>)) :
                     flag \in {"ENTER", "TIMER"}, p \in {Pool, PoolTime}}

Pools == {World(<<ForRun("TIMER"), ForRun("ENTER")>>,
                "App" :> File(p, <<Straight>>)) :
              p \in {PoolTime, PoolLong, PoolPair, PoolText, PoolFloat,
                     PoolLambda}}

Odd == {One(<<>>, <<m, Super>>) : m \in Unreadable}
       \union {One(<<Star("ENTER"), r, Heap>>, <<Super>>) : r \in RefusedLines}

\* Several classes, one of them with a name of the JVM's own.
Several ==
    {World(ls, ("App" :> File(p, <<Super, Straight>>)) @@
               ("java/util/App" :> File(Pool, <<Super>>)) @@
               ("Other" :> File(PoolTime, <<Super, Try>>)) @@
               (Package :> PackageFile)) :
         p \in {Pool, PoolLong},
         ls \in {<<ForRun("TIMER")>>,
                 <<Of(ForRun("ENTER"), "Other"), ForRun("TIMER")>>,
                 <<Of(Star("EXIT"), "java/util/App"),
                   Of(ForRun("TIMER"), "Other")>>}}

Twice    == EachMethod \union Parameters \union Markers \union WholeClass
            \union Odd
MCWorlds == Twice \union {Thrice(w) : w \in WithConstructors \union Pools \union Several}
MCMainLike == {"remainder", "(Lcom/domain/X;)V"}
MCWord == {"int", "void", "string"}
=============================================================================
