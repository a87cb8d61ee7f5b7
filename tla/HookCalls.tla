------------------------------ MODULE HookCalls ------------------------------
(***************************************************************************)
(* What the agent does when a hook it has inserted is called: thook in     *)
(* Agent.cpp, populate_stack and populate_artifacts of AgentSignalReporting*)
(* .cpp, typeTokenizer of AgentUtil.cpp and Descriptor of the monitor.     *)
(*                                                                         *)
(* A thread of the program runs a method that was hooked while others load *)
(* and hook classes: artifacts and sigs are read as they are then.         *)
(*                                                                         *)
(* A class file has a member declared, the type of each field it declares. *)
(* The k-th argument of a call is the text "arg" followed by k.            *)
(***************************************************************************)
EXTENDS ClassRewrite

CONSTANT Depths   \* numbers of frames a thread may have, with that of thook

VARIABLE sent     \* the signal pushed last, with the call it is about

allVars == <<vars, sent>>

Frames == 10      \* frames thook has room for
Unsent == [class |-> None, key |-> NoName, frames |-> 0, params |-> <<>>,
           markers |-> <<>>, depth |-> 0, settled |-> FALSE]

Chars(text) == [i \in 1 .. Len(text) |-> SubSeq(text, i, i)]

Between(chars, from, to) ==
    SubSeq(chars, SelectInSeq(chars, LAMBDA ch : ch = from) + 1,
                  SelectInSeq(chars, LAMBDA ch : ch = to) - 1)

ParamChars(key)  == Between(Chars(key.type), "(", ")")
ReturnChars(key) == LET chars == Chars(key.type)
                    IN  SubSeq(chars, SelectInSeq(chars, LAMBDA ch : ch = ")") + 1,
                               Len(chars))
-----------------------------------------------------------------------------
(***************************************************************************)
(* parse_type_tokens of Descriptor, and the name it gives a method.        *)
(***************************************************************************)
TypeNamed(ch) ==
    IF \E w \in DOMAIN type_map : type_map[w] = ch
        THEN CHOOSE w \in DOMAIN type_map : type_map[w] = ch ELSE ""

parse_type_tokens(chars) ==
    LET Take(acc, ch) ==
            CASE acc.name # "" /\ ch = ";" ->
                     [out |-> Append(acc.out, SubSeq(acc.name, 2, Len(acc.name))
                                              \o acc.suffix),
                      name |-> "", suffix |-> ""]
              [] acc.name # "" /\ ch # ";" -> [acc EXCEPT !.name = @ \o ch]
              [] acc.name = "" /\ ch = "[" /\ acc.suffix = "" ->
                     [acc EXCEPT !.suffix = "[]"]
              [] acc.name = "" /\ ch = "L" -> [acc EXCEPT !.name = "L"]
              [] OTHER -> [out |-> Append(acc.out, TypeNamed(ch) \o acc.suffix),
                           name |-> "", suffix |-> ""]
    IN  FoldLeft(Take, [out |-> <<>>, name |-> "", suffix |-> ""], chars).out

Descriptor(key) ==
    [name |-> key.name, typed |-> TRUE,
     params |-> parse_type_tokens(ParamChars(key)),
     returns |-> parse_type_tokens(ReturnChars(key))[1]]

(***************************************************************************)
(* typeTokenizer: what thook takes the parameters for.  One that is        *)
(* neither an int, a String nor an array gets no token.  After an array of *)
(* a primitive type, one character is passed over.                         *)
(***************************************************************************)
EndsInString(name) ==
    Len(name) >= 6 /\ SubSeq(name, Len(name) - 5, Len(name)) = "String"

typeTokenizer(chars) ==
    LET Take(acc, ch) ==
            CASE acc.at = "type" /\ ch = "[" ->
                     [out |-> Append(acc.out, "array"), at |-> "array", name |-> ""]
              [] acc.at = "type" /\ ch = "I" ->
                     [acc EXCEPT !.out = Append(@, "int")]
              [] acc.at = "type" /\ ch = "L" -> [acc EXCEPT !.at = "name"]
              [] acc.at = "array" ->
                     [acc EXCEPT !.at = IF ch = "L" THEN "element" ELSE "pass"]
              [] acc.at = "name" /\ ch # ";" -> [acc EXCEPT !.name = @ \o ch]
              [] acc.at = "name" /\ ch = ";" ->
                     [out |-> IF EndsInString(acc.name) THEN Append(acc.out, "String")
                                                        ELSE acc.out,
                      at |-> "type", name |-> ""]
              [] acc.at = "element" /\ ch # ";" -> acc
              [] OTHER -> [acc EXCEPT !.at = "type"]
    IN  FoldLeft(Take, [out |-> <<>>, at |-> "type", name |-> ""], chars).out

(***************************************************************************)
(* The types of the parameters as the JVM has them, and the local          *)
(* variables of the call: a slot for each, two for a long or a double, of  *)
(* which the second is not to be read.                                     *)
(***************************************************************************)
ParamTypes(key) ==
    LET Take(acc, ch) ==
            CASE acc.name # "" /\ ch # ";" -> [acc EXCEPT !.name = @ \o ch]
              [] acc.name = "" /\ ch = "[" -> [acc EXCEPT !.array = TRUE]
              [] acc.name = "" /\ ch = "L" -> [acc EXCEPT !.name = "L"]
              [] OTHER -> [out |-> Append(acc.out, [array |-> acc.array,
                               base |-> IF ch = ";" THEN acc.name ELSE ch]),
                           name |-> "", array |-> FALSE]
    IN  FoldLeft(Take, [out |-> <<>>, name |-> "", array |-> FALSE],
                 ParamChars(key)).out

TopOfPair == [type |-> [array |-> FALSE, base |-> "T"], value |-> ""]

LocalSlots(key) ==
    LET types == ParamTypes(key)
        Slot(slots, k) ==
            slots \o <<[type |-> types[k], value |-> "arg" \o ToString(k)]>>
                  \o (IF ~types[k].array /\ types[k].base \in {"J", "D"}
                          THEN <<TopOfPair>> ELSE <<>>)
    IN  FoldLeft(Slot, <<>>, [k \in DOMAIN types |-> k])

IsInt(type)    == ~type.array /\ type.base \in {"I", "Z", "B", "C", "S"}
IsObject(type) == type.array \/ Len(type.base) > 1
OfString(type)  == ~type.array /\ EndsInString(type.base)

\* What GetLocalInt or GetLocalObject finds for a token at its slot.
Read(token, slot) ==
    CASE token = "array" -> "[]"
      [] token = "int"   -> IF IsInt(slot.type) THEN slot.value ELSE "error"
      [] token = "String" /\ OfString(slot.type) -> slot.value
      [] token = "String" /\ ~OfString(slot.type) ->
             IF IsObject(slot.type) THEN "undefined" ELSE "error"

ReadAll(key) ==
    LET tokens == typeTokenizer(ParamChars(key))
        slots  == LocalSlots(key)
    IN  [k \in DOMAIN tokens |->
            IF k > Len(slots) THEN "error" ELSE Read(tokens[k], slots[k])]

(***************************************************************************)
(* populate_stack: how many frames are told, without that of thook itself. *)
(***************************************************************************)
populate_stack(depth, told) == IF told THEN depth - 1 ELSE 1

(***************************************************************************)
(* populate_artifacts: the arguments, up to one that cannot be read; the   *)
(* marker fields only if all could be.                                     *)
(***************************************************************************)
ParamsTold(key) ==
    LET k == SelectInSeq(ReadAll(key), LAMBDA v : v = "error")
    IN  IF k = 0 THEN ReadAll(key) ELSE SubSeq(ReadAll(key), 1, k - 1)

get_value(c, field) ==
    LET declared == world.files[c].declared
    IN  IF field \in DOMAIN declared
           /\ declared[field] \in {"I", "J", "Ljava/lang/String;"}
            THEN field ELSE "none"

MarkersTold(c, key) ==
    IF ParamsTold(key) # ReadAll(key) THEN <<>>
    ELSE LET fields == get_marker_fields(sigs, c, Descriptor(key))
         IN  [k \in DOMAIN fields |-> get_value(c, fields[k])]
-----------------------------------------------------------------------------
HookInit == Init /\ sent = Unsent

CallsThook(c, key) ==
    \E i \in ToSet(handed[c].methods[key].method.code) :
        /\ i.no = 0 /\ i.op = "invokestatic"
        /\ IsMethodRef(handed[c].pool, i.arg, HOOK_SIGNAL_DESCRIPTOR)

(***************************************************************************)
(* thook, called from a method of a class that was hooked.  A deeper stack *)
(* than there is room for, and a String that is none, are undefined.       *)
(***************************************************************************)
thook ==
    \E c \in DOMAIN handed \ {Package} : \E key \in DOMAIN handed[c].methods :
      \E depth \in Depths :
        /\ fate = "running"
        /\ CallsThook(c, key)
        /\ LET told == <<c, key>> \in DOMAIN artifacts /\ artifacts[<<c, key>>]
               undefined == \/ depth > Frames
                            \/ told /\ "undefined" \in ToSet(ParamsTold(key))
           IN  /\ fate' \in {"running"} \union (IF undefined THEN {"undefined"}
                                                             ELSE {})
               /\ artifacts' = Put(artifacts, <<c, key>>, told)
               /\ sent' = [class |-> c, key |-> key, depth |-> depth,
                           settled |-> c # class,
                           frames |-> populate_stack(depth, told),
                           params |-> IF told THEN ParamsTold(key) ELSE <<>>,
                           markers |-> IF told THEN MarkersTold(c, key) ELSE <<>>]
    /\ UNCHANGED <<world, junk, lines, sigs, fr, class, done, handed, reports,
                   reads>>

\* With any other step, the signal has gone.
HookNext == \/ Next /\ sent' = Unsent
            \/ thook

HookSpec == HookInit /\ [][HookNext]_allVars
==============================================================================
