------------------------------ MODULE ClassFile ------------------------------
(***************************************************************************)
(* FrenchRoast: a class file is read into components, its methods are      *)
(* changed, and it is written again.  FrenchRoast.cpp, MethodComponent.cpp,*)
(* the reading and writing part of MethodInfo.cpp, Info.h, Attribute.h.    *)
(*                                                                         *)
(* A class file is a record                                                *)
(*   pool        the entries of its constant pool, in order                *)
(*   interfaces  their number                                              *)
(*   fields      for each field the lengths of its attributes              *)
(*   declared    the type of each field, by its name                       *)
(*   methods     the methods, each a record of its key [name, type], its   *)
(*               attributes other than Code, and hasCode with maxStack,    *)
(*               code, exceptions, codeAttrs, table (is there a            *)
(*               StackMapTable) and frames                                 *)
(*   attributes  the lengths of the attributes of the class                *)
(* An attribute of a method is [name, len].  An instruction of the file    *)
(* also has bytes, the length it really has.                               *)
(***************************************************************************)
EXTENDS MethodCode, ConstantPool, Maps

InRow(q) == q \in Seq(ToSet(q))

\* The instructions of a method follow one another from address 0 on, and a
\* constructor returns no value, after it has called that of its super class.
IsCode(f) ==
    /\ f.hasCode => f.code # <<>>
    /\ \A k \in DOMAIN f.code :
          f.code[k].addr = IF k = 1 THEN 0
                           ELSE f.code[k - 1].addr + f.code[k - 1].bytes
    /\ f.key.name = "<init>" =>
          \A i \in ToSet(f.code) :
              i.op \in Returns => i.op = "return" /\ i.addr >= 4

IsMethodFile(f) ==
    /\ IsCode(f) /\ f.key.type # ""
    /\ InRow(f.attrs) /\ InRow(f.code) /\ InRow(f.exceptions)
    /\ InRow(f.codeAttrs) /\ InRow(f.frames)
    /\ \A a \in ToSet(f.attrs) \union ToSet(f.codeAttrs) : a.len \in Nat
    /\ \A i \in ToSet(f.code) : i.no # 0 /\ i.addr \in Nat /\ InRow(i.offs)
    /\ \A e \in ToSet(f.frames) : e.ftype \in 0 .. 255 /\ InRow(e.items)

\* An entry of a pool p refers to entries of p that have the right tags.
IsEntry(p, e) ==
    LET ref(i, tags) == At(p, e.refs[i]).tag \in tags
    IN  CASE e.tag = "Utf8" -> e = Utf8(e.text)
          [] e.tag \in {"Class", "String"} ->
                /\ e \in {Class(e.refs[1]), StringConst(e.refs[1])}
                /\ ref(1, {"Utf8"})
          [] e.tag = "NameAndType" ->
                /\ e = NameAndType(e.refs[1], e.refs[2])
                /\ ref(1, {"Utf8"}) /\ ref(2, {"Utf8"})
          [] e.tag \in {"MethodRef", "FieldRef"} ->
                /\ e \in {MethodRef(e.refs[1], e.refs[2]),
                          FieldRef(e.refs[1], e.refs[2])}
                /\ ref(1, {"Class"}) /\ ref(2, {"NameAndType"})
          [] OTHER -> e.tag \in KnownTags => e.refs = <<>>

IsPool(entries) ==
    /\ InRow(entries)
    /\ LET p == load_pool(EmptyPool, entries)
       IN  \A e \in ToSet(entries) : IsEntry(p, e)

IsClassFile(file) ==
    /\ IsPool(file.pool) /\ InRow(file.methods)
    /\ \A f \in ToSet(file.methods) : IsMethodFile(f)
    /\ \A i, j \in DOMAIN file.methods :
          file.methods[i].key = file.methods[j].key => i = j

HeaderSize    == 6    \* of an attribute
ExceptionSize == 8
CountSize     == 2

(***************************************************************************)
(* Attributes are kept by name: of two with one name the last remains.     *)
(***************************************************************************)
load_attributes(attrs) ==
    [name \in {attrs[i].name : i \in DOMAIN attrs} |->
        attrs[Max({i \in DOMAIN attrs : attrs[i].name = name})].len]

AttributesBytes(f) ==
    Sum([i \in 1 .. Cardinality(DOMAIN f) |->
            HeaderSize + f[SetToSeq(DOMAIN f)[i]]])

FileAttributesBytes(attrs) ==
    Sum([i \in DOMAIN attrs |-> HeaderSize + attrs[i].len])

(***************************************************************************)
(* Instruction::load_from_buffer, one instruction after another.  What the *)
(* table does not keep of an instruction is zero from here on.             *)
(***************************************************************************)
load_instruction(i) ==
    [op |-> i.op, addr |-> i.addr, no |-> i.no, part |-> 0,
     arg |-> IF KeepsOperand(i.op) THEN i.arg ELSE 0,
     offs |-> IF KeepsOperand(i.op) THEN i.offs
                                    ELSE [k \in DOMAIN i.offs |-> 0]]

(***************************************************************************)
(* A method as the program keeps it.                                       *)
(***************************************************************************)
MethodInfo(key) ==
    [key |-> key, attributesCount |-> 1, attributes |-> <<>>, maxStack |-> 0,
     code |-> <<>>, codeLength |-> 0, exceptions |-> <<>>,
     codeAttributes |-> <<>>, frames |-> <<>>, ended |-> FALSE]

\* size_in_bytes of a method.
method_size(m, junk) ==
    IF m.attributesCount = 0 THEN 8
    ELSE 8 + AttributesBytes(m.attributes) + AttributesBytes(m.codeAttributes)
         + HeaderSize
         + (IF m.frames # <<>> THEN HeaderSize + CountSize ELSE 0)
         + Sum([i \in DOMAIN m.frames |-> size_in_bytes(m.frames[i], junk)])
         + m.codeLength + 12 + Len(m.exceptions) * ExceptionSize

\* Mutant: the table of frames is loaded only if there are exceptions.
load_methodNoFrames(f) ==
    [MethodInfo(f.key) EXCEPT
        !.attributesCount = Len(f.attrs) + (IF f.hasCode THEN 1 ELSE 0),
        !.attributes = load_attributes(f.attrs),
        !.maxStack = f.maxStack,
        !.code = [i \in DOMAIN f.code |-> load_instruction(f.code[i])],
        !.codeLength = Sum([i \in DOMAIN f.code |-> f.code[i].bytes]),
        !.exceptions = f.exceptions,
        !.codeAttributes = load_attributes(f.codeAttrs),
        !.frames = IF f.table /\ f.exceptions # <<>>
                       THEN load_frames_from_buffer(f.frames) ELSE <<>>]

(***************************************************************************)
(* load_from_buffer of a method.  One with attributes but without Code is  *)
(* read through a null pointer.                                            *)
(***************************************************************************)
load_method(f) ==
    [MethodInfo(f.key) EXCEPT
        !.attributesCount = Len(f.attrs) + (IF f.hasCode THEN 1 ELSE 0),
        !.attributes = load_attributes(f.attrs),
        !.maxStack = f.maxStack,
        !.code = [i \in DOMAIN f.code |-> load_instruction(f.code[i])],
        !.codeLength = Sum([i \in DOMAIN f.code |-> f.code[i].bytes]),
        !.exceptions = f.exceptions,
        !.codeAttributes = load_attributes(f.codeAttrs),
        !.frames = IF f.table THEN load_frames_from_buffer(f.frames) ELSE <<>>]

NullRead(f) == f.attrs # <<>> /\ ~f.hasCode

CodeKnown(f) ==
    /\ \A i \in DOMAIN f.code : Known(f.code[i].op)
    /\ \A i \in DOMAIN f.frames : FrameKnown(f.frames[i])

\* The instructions are where the table of instructions expects them, and
\* the bytes counted for the method are those it has in the file.
FrameBytes(f) == IF f.ftype \in 0 .. 63 THEN 1 ELSE load_frame(f).size
FileMethodBytes(f) ==
    8 + FileAttributesBytes(f.attrs)
      + (IF ~f.hasCode THEN 0
         ELSE HeaderSize + 12 + Sum([i \in DOMAIN f.code |-> f.code[i].bytes])
              + Len(f.exceptions) * ExceptionSize
              + FileAttributesBytes(f.codeAttrs)
              + (IF f.table THEN HeaderSize + CountSize
                      + Sum([i \in DOMAIN f.frames |-> FrameBytes(f.frames[i])])
                 ELSE 0))

InStep(f) ==
    /\ \A i \in DOMAIN f.code : f.code[i].bytes = Size(load_instruction(f.code[i]))
    /\ method_size(load_method(f), 0) = FileMethodBytes(f)

(***************************************************************************)
(* What reading a method comes to.  One read out of step leaves the reader *)
(* in the middle of something else.                                        *)
(***************************************************************************)
MethodFate(f) ==
    IF NullRead(f) THEN "crashed"
    ELSE IF ~CodeKnown(f) THEN "exited"
    ELSE IF ~InStep(f) THEN "astray" ELSE "running"

(***************************************************************************)
(* load_from_buffer of a class, after the pool it leaves behind.           *)
(***************************************************************************)
ReadFate(file) ==
    IF ~PoolReadable(file.pool) THEN "astray"
    ELSE LET k == SelectInSeq(file.methods, LAMBDA f : MethodFate(f) # "running")
         IN  IF k = 0 THEN "running" ELSE MethodFate(file.methods[k])

WithMethodRead(ms, f) == Put(ms, f.key, load_method(f))

load_methods(fs) == FoldLeft(WithMethodRead, <<>>, fs)

load_from_buffer(pool, file) ==
    [pool |-> load_pool(pool, file.pool), interfaces |-> file.interfaces,
     fields |-> file.fields, methods |-> load_methods(file.methods),
     attributes |-> file.attributes]

(***************************************************************************)
(* The sizes of the other components and of the class.                     *)
(***************************************************************************)
interfaces_size(n) == 2 + 2 * n
info_size(lens)    == 8 + Sum([i \in DOMAIN lens |-> HeaderSize + lens[i]])
fields_size(fs)    == 2 + Sum([i \in DOMAIN fs |-> info_size(fs[i])])
attributes_size(as) == 2 + Sum([i \in DOMAIN as |-> HeaderSize + as[i]])
magic_size == 4
id_size    == 2

methods_size(ms, junk) ==
    LET keys == SetToSeq(DOMAIN ms)
    IN  2 + Sum([i \in DOMAIN keys |-> method_size(ms[keys[i]], junk)])

class_size(fr, junk) ==
    magic_size + 2 * id_size + PoolBytes(fr.pool) + 3 * id_size
    + interfaces_size(fr.interfaces) + fields_size(fr.fields)
    + methods_size(fr.methods, junk) + attributes_size(fr.attributes)

(***************************************************************************)
(* load_to_buffer of a method: the lengths it declares, of Code and of the *)
(* StackMapTable, and the number of attributes of Code.                    *)
(***************************************************************************)
stackmapAttrSize(m, junk) ==
    IF m.frames = <<>> THEN 0
    ELSE CountSize
         + Sum([i \in DOMAIN m.frames |-> size_in_bytes(m.frames[i], junk)])

\* Mutant: the exceptions are left out of the length.
codeAttrLenNoExceptions(m, junk) ==
    10 + m.codeLength + CountSize + AttributesBytes(m.codeAttributes)
    + stackmapAttrSize(m, junk)
    + (IF m.frames # <<>> THEN HeaderSize ELSE 0)

codeAttrLen(m, junk) ==
    10 + m.codeLength + Len(m.exceptions) * ExceptionSize + CountSize
    + AttributesBytes(m.codeAttributes) + stackmapAttrSize(m, junk)
    + (IF m.frames # <<>> THEN HeaderSize ELSE 0)

write_method(m, junk) ==
    [method |-> m, stackMap |-> stackmapAttrSize(m, junk),
     codeLen |-> codeAttrLen(m, junk),
     codeAttrCount |-> Cardinality(DOMAIN m.codeAttributes)
                       + (IF m.frames # <<>> THEN 1 ELSE 0)]

(***************************************************************************)
(* size_in_bytes, Allocate and load_to_buffer: what is handed to the JVM.  *)
(***************************************************************************)
load_to_buffer(fr, junk) ==
    [size |-> class_size(fr, junk), pool |-> fr.pool,
     interfaces |-> fr.interfaces, fields |-> fr.fields,
     attributes |-> fr.attributes,
     methods |-> [k \in DOMAIN fr.methods |-> write_method(fr.methods[k], junk)]]

(***************************************************************************)
(* What is inserted.                                                       *)
(***************************************************************************)
Group(ops, args) ==
    [k \in DOMAIN ops |-> Instruction(ops[k], args[k], k)]

SignalCall(hook) == Group(<<"aload_0", "invokestatic">>, <<0, hook>>)

\* A short operand of ldc is written as one byte.
TimerCall(which, time, thread, getName, hook) ==
    Group(<<"invokestatic", "ldc", "invokestatic", "invokevirtual",
            "invokestatic">>,
          <<time, which % 256, thread, getName, hook>>)

(***************************************************************************)
(* What is inserted where, and whether branches to that place go past it.  *)
(***************************************************************************)
FIRST_ADDRESS_AFTER_INIT == 4
PlaceOf(at, call, sticky) == [at |-> at, call |-> call, sticky |-> sticky]
AtEntry(call)   == <<PlaceOf(0, call, TRUE)>>
AfterInit(call) == <<PlaceOf(FIRST_ADDRESS_AFTER_INIT, call, TRUE)>>

\* Mutant: branches to the last return go past the hook too.
AtExitsSticky(code, call) ==
    LET exits == get_return_addresses(code)
    IN  [k \in DOMAIN exits |-> PlaceOf(exits[k], call, TRUE)]

\* Before every exit, the last one first; only there sticky is false.
AtExits(code, call) ==
    LET exits == get_return_addresses(code)
    IN  [k \in DOMAIN exits |-> PlaceOf(exits[k], call, k > 1)]

Places(code, step) == CASE step.where = "entry" -> AtEntry(step.call)
                        [] step.where = "init"  -> AfterInit(step.call)
                        [] step.where = "exits" -> AtExits(code, step.call)

WithPlace(m, p) == add_instructions(m, p.at, p.call, p.sticky)

Insert(m, step) == FoldLeft(WithPlace, m, Places(m.code, step))

(***************************************************************************)
(* The pool of update_method: the method to call, and for a timer the      *)
(* strings, names and methods its code needs.  ids has the indices, in     *)
(* this order: the hook, "enter", "exit", and the three methods.           *)
(***************************************************************************)
System == "java/lang/System"
Thread == "java/lang/Thread"
TimeMethod   == [class |-> System, name |-> "currentTimeMillis", type |-> "()J"]
ThreadMethod == [class |-> Thread, name |-> "currentThread",
                 type |-> "()Ljava/lang/Thread;"]
NameMethod   == [class |-> Thread, name |-> "getName",
                 type |-> "()Ljava/lang/String;"]
TimerNames == <<System, "java/lang/Object", Thread, "java/lang/String",
                "()Ljava/lang/Thread", "()Ljava/lang/String">>

WithString(acc, text) ==
    LET q == add_string(acc.pool, text)
    IN  [pool |-> q, ids |-> Append(acc.ids, q.next)]

WithMethod(acc, m) ==
    LET q == add_method_ref(acc.pool, m)
    IN  [pool |-> q, ids |-> Append(acc.ids, MethodRefIndex(q))]

AddTimer(acc) ==
    LET strings == FoldLeft(WithString, acc, <<"enter", "exit">>)
        names   == [strings EXCEPT !.pool = FoldLeft(add_name, @, TimerNames)]
    IN  FoldLeft(WithMethod, names, <<TimeMethod, ThreadMethod, NameMethod>>)

(***************************************************************************)
(* update_method: heap alone; otherwise entry, exits and timer, as the     *)
(* flags say.  A call of a hook needs one place on the stack; a timer takes*)
(* four more.                                                              *)
(***************************************************************************)
IsHeap(flags)  == "HEAP" \in flags
IsTimer(flags) == "TIMER" \in flags /\ ~IsHeap(flags)

Insertions(flags, ids) ==
    LET Steps(wanted, steps) == IF wanted THEN steps ELSE <<>>
        Signal(where) == <<[where |-> where, call |-> SignalCall(ids[1])]>>
        Timer(where, which) ==
            <<[where |-> where,
               call  |-> TimerCall(which, ids[4], ids[5], ids[6], ids[1])]>>
    IN  IF IsHeap(flags) THEN Signal("init")
        ELSE Steps("ENTER" \in flags, Signal("entry"))
             \o Steps("EXIT" \in flags, Signal("exits"))
             \o Steps(IsTimer(flags),
                      Timer("entry", ids[2]) \o Timer("exits", ids[3]))

\* Mutant: the depth of the stack is never raised.
RaisedNever(m, flags) == m

Raised(m, flags) ==
    LET one == IF m.maxStack = 0 /\ flags \cap {"HEAP", "ENTER", "EXIT"} # {}
                   THEN 1 ELSE m.maxStack
    IN  [m EXCEPT !.maxStack = IF IsTimer(flags) THEN one + 4 ELSE one]

update_method(m, pool, flags, callTo) ==
    LET called == WithMethod([pool |-> pool, ids |-> <<>>], callTo)
        needed == IF IsTimer(flags) THEN AddTimer(called) ELSE called
    IN  [method |-> Raised(FoldLeft(Insert, m, Insertions(flags, needed.ids)),
                           flags),
         pool   |-> needed.pool]

(***************************************************************************)
(* add_method_call, for a method that is there; add_native_method.         *)
(***************************************************************************)
has_method(fr, key) == key \in DOMAIN fr.methods

Replaced(fr, key, r) ==
    [fr EXCEPT !.pool = r.pool, !.methods[key] = r.method]

add_method_call(fr, key, callTo, flags) ==
    Replaced(fr, key, update_method(fr.methods[key], fr.pool, flags, callTo))

add_native_method(fr, name, type) ==
    LET key == [name |-> name, type |-> type]
    IN  [fr EXCEPT !.pool = add_name(add_name(@, name), type),
                   !.methods = Put(@, key, MethodInfo(key))]

Ended(fr) == \E key \in DOMAIN fr.methods : fr.methods[key].ended
==============================================================================
