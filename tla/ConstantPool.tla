----------------------------- MODULE ConstantPool ----------------------------
(***************************************************************************)
(* The constant pool of a class: ConstantPoolComponents.cpp.               *)
(*                                                                         *)
(* An entry is a record of its tag, its text or value, the indices of the  *)
(* entries it refers to and the bytes it takes after its tag.  The pool    *)
(* of the program is a record                                              *)
(*   info    the entries, each with its index: a long or a double takes    *)
(*           two indices                                                   *)
(*   next    _nextIndex, the last index in use                             *)
(*   bcount  the count the class file carries: the last index plus one     *)
(*   names   the index of an entry, by its text or by its indices          *)
(*   ids     the text or indices of an entry, by its index                 *)
(* names has one key for entries of every tag: the number 7 may be that of *)
(* a class with the name at 7, of a string there, of an integer 7 or of    *)
(* the name "7", whichever came last.                                      *)
(***************************************************************************)
EXTENDS Integers, Sequences, SequencesExt, Maps, TLC

Entry(tag, text, refs, size) ==
    [tag |-> tag, text |-> text, refs |-> refs, size |-> size]

(***************************************************************************)
(* The holders, one for each tag the program knows.  A long is printed as  *)
(* the double that has its bits.                                           *)
(***************************************************************************)
MethodRef(class, nameType) == Entry("MethodRef", "", <<class, nameType>>, 4)
FieldRef(class, nameType)  == Entry("FieldRef", "", <<class, nameType>>, 4)
IntegerConst(n)            == Entry("Integer", ToString(n), <<>>, 4)
Class(name)                == Entry("Class", "", <<name>>, 2)
StringConst(utf8)          == Entry("String", "", <<utf8>>, 2)
Utf8(text)                 == Entry("Utf8", text, <<>>, 2 + Len(text))
NameAndType(name, type)    == Entry("NameAndType", "", <<name, type>>, 4)
Long(text)                 == Entry("Long", text, <<>>, 8)
Double(text)               == Entry("Double", text, <<>>, 8)

\* Entries with a tag build_holder does not know.
FloatConst(text)           == Entry("Float", text, <<>>, 4)
InvokeDynamic(boot, nat)   == Entry("InvokeDynamic", "", <<boot, nat>>, 4)

TwoSlots == {"Long", "Double"}
KnownTags == {"MethodRef", "FieldRef", "Integer", "Class", "String", "Utf8",
              "NameAndType"} \union TwoSlots

Pair(i, j) == ToString(i) \o "." \o ToString(j)

\* get_params: what names and ids have of an entry.
Key(e) == CASE Len(e.refs) = 0 -> e.text
            [] Len(e.refs) = 1 -> ToString(e.refs[1])
            [] OTHER -> Pair(e.refs[1], e.refs[2])

Slots(e) == IF e.tag \in TwoSlots THEN 2 ELSE 1

\* add_info.
add_info(p, e) ==
    [p EXCEPT !.info  = Append(@, [index |-> p.next + 1, entry |-> e]),
              !.next  = @ + Slots(e),
              !.names = Put(@, Key(e), p.next + 1),
              !.ids   = Put(@, p.next + 1, Key(e))]

\* Mutant: reset leaves the names.
resetKeepsNames(p) == [p EXCEPT !.info = <<>>, !.next = 0, !.bcount = 0]

\* reset leaves ids as the class before has them.
reset(p) == [p EXCEPT !.info = <<>>, !.next = 0, !.bcount = 0, !.names = <<>>]

EmptyPool == [info |-> <<>>, next |-> 0, bcount |-> 0, names |-> <<>>,
              ids |-> <<>>]

\* operator+ and the end of add_name: one more entry, and one more in bcount.
Add(p, e) == add_info([p EXCEPT !.bcount = @ + 1], e)

\* _names[key], which is 0 for a key that is not there.
Lookup(p, key) == IF key \in DOMAIN p.names THEN p.names[key] ELSE 0

add_name(p, text) == IF text \in DOMAIN p.names THEN p ELSE Add(p, Utf8(text))

\* add_class adds an entry each time; the name it refers to is added once.
add_class(p, name) ==
    LET q == add_name(p, name) IN Add(q, Class(Lookup(q, name)))

\* add_string; the new entry is the last one.
add_string(p, text) ==
    LET q == add_name(p, text) IN Add(q, StringConst(Lookup(q, text)))

(***************************************************************************)
(* add_method_ref_index for a method [class, name, type]: a new class and  *)
(* a new reference each time; the name and type only if none is there.     *)
(***************************************************************************)
NatKey(p, m) == Pair(Lookup(p, m.name), Lookup(p, m.type))

add_name_type(p, m) ==
    IF NatKey(p, m) \in DOMAIN p.names THEN p
    ELSE Add(p, NameAndType(Lookup(p, m.name), Lookup(p, m.type)))

\* Mutant: the name and type is looked up before the name is added.
RefToEarly(p, class, m) ==
    Add(add_name_type(add_name(add_name(p, m.type), m.name), m),
        MethodRef(class, Lookup(p, NatKey(p, m))))

RefTo(p, class, m) ==
    LET named  == add_name(add_name(p, m.type), m.name)
        paired == add_name_type(named, m)
    IN  Add(paired, MethodRef(class, Lookup(paired, NatKey(paired, m))))

RefToLast(p, m) == RefTo(p, Lookup(p, ToString(Lookup(p, m.class))), m)
add_method_ref(p, m) == RefToLast(add_class(p, m.class), m)

\* What add_method_ref_index returns for the reference just added.
MethodRefIndex(p) == Lookup(p, Key(Last(p.info).entry))

\* size_in_bytes: the count, and each entry with its tag.
WithBytes(n, x) == n + 1 + x.entry.size

PoolBytes(p) == 2 + FoldLeft(WithBytes, 0, p.info)

(***************************************************************************)
(* load_from_buffer.  An entry with another tag is taken to have no bytes, *)
(* so that what follows is read from the middle of it.                     *)
(***************************************************************************)
PoolReadable(entries) == \A i \in DOMAIN entries : entries[i].tag \in KnownTags

WithSlots(n, e) == n + Slots(e)

load_pool(p, entries) ==
    FoldLeft(add_info,
             [reset(p) EXCEPT !.bcount = 1 + FoldLeft(WithSlots, 0, entries)],
             entries)

(***************************************************************************)
(* The entry at an index of a pool that was written, as the JVM finds it.  *)
(***************************************************************************)
NoEntry == Entry("none", "", <<>>, 0)
At(p, index) ==
    LET i == SelectInSeq(p.info, LAMBDA x : x.index = index)
    IN  IF i = 0 THEN NoEntry ELSE p.info[i].entry

IsMethodRef(p, index, m) ==
    LET ref == At(p, index)
        cls == At(p, ref.refs[1])
        nat == At(p, ref.refs[2])
    IN  /\ ref.tag = "MethodRef" /\ cls.tag = "Class" /\ nat.tag = "NameAndType"
        /\ At(p, cls.refs[1]) = Utf8(m.class)
        /\ At(p, nat.refs[1]) = Utf8(m.name)
        /\ At(p, nat.refs[2]) = Utf8(m.type)
==============================================================================
