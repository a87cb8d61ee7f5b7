------------------------------- MODULE Signals -------------------------------
(***************************************************************************)
(* The list of hooks: what SignalValidator.cpp accepts of a line and what  *)
(* fr_signals.cpp makes of it.                                             *)
(*                                                                         *)
(* A line of a hook list is a record                                       *)
(*   form     "blank", "comment" or "text"                                 *)
(*   class    the class it names                                           *)
(*   method   its name, which may hold a star; whether :(..):.. follows;   *)
(*            the words between the parentheses and after them             *)
(*   flags    the sequence of <ENTER>, <EXIT> and <TIMER> after it         *)
(*   fields   the marker fields, in brackets                               *)
(*   off      <ARTIFACTS:OFF>                                              *)
(*   heap     <MONITOR:HEAP> instead of a method                           *)
(* and what is kept, Signals, a record of hlist, a sequence of signals for *)
(* each class, and of markerFields, by class and method as written.        *)
(***************************************************************************)
EXTENDS Integers, Sequences, SequencesExt, Maps

CONSTANTS Starred,    \* the names of methods with a star in them
          MainLike,   \* the names and types of methods with "main" in them
          Word        \* words of lower case letters only

(***************************************************************************)
(* get_type: the words that name a type; nothing names none.               *)
(***************************************************************************)
type_map ==
    [int |-> "I", bool |-> "Z", void |-> "V", long |-> "J", byte |-> "B",
     char |-> "C", double |-> "D", float |-> "F", short |-> "S"]

get_type(word) == type_map[word]

(***************************************************************************)
(* validate.  A line is a heap monitor, or a method with exactly one flag  *)
(* and, where types are given, with at most one parameter and only words   *)
(* of lower case letters.                                                  *)
(***************************************************************************)
IsText(line) == line.form = "text"

try_monitor_match(line) == line.heap /\ line.flags = <<>>

try_signal_match(line) ==
    /\ ~line.heap
    /\ Len(line.flags) = 1
    /\ line.method.typed =>
          /\ Len(line.method.params) <= 1
          /\ ToSet(line.method.params) \union {line.method.returns} \subseteq Word

Accepted(line) == try_monitor_match(line) \/ try_signal_match(line)

(***************************************************************************)
(* convert_name: a star anywhere stands for all methods; a name without    *)
(* types becomes the empty name; a word that names no type throws.         *)
(***************************************************************************)
All     == [name |-> "*", type |-> ""]
NoName  == [name |-> "", type |-> ""]

Typable(method) ==
    ToSet(method.params) \union {method.returns} \subseteq DOMAIN type_map

convert_name(method) ==
    CASE method.name \in Starred -> All
      [] method.name \notin Starred /\ ~method.typed -> NoName
      [] OTHER -> [name |-> method.name,
                   type |-> "(" \o (IF method.params = <<>> THEN ""
                                    ELSE get_type(method.params[1]))
                            \o ")" \o get_type(method.returns)]

\* A line that makes load throw.
Refused(line) ==
    /\ IsText(line)
    /\ \/ ~Accepted(line)
       \/ /\ ~line.heap
          /\ line.method.name \notin Starred
          /\ line.method.typed
          /\ ~Typable(line.method)

(***************************************************************************)
(* Signals and what they answer.                                           *)
(***************************************************************************)
Signal(name, flags, artifacts) ==
    [name |-> name, flags |-> flags, artifacts |-> artifacts, valid |-> TRUE]

all(sig)          == sig.name = All
monitor_heap(sig) == "HEAP" \in sig.flags
mark_invalid(sig) == [sig EXCEPT !.valid = FALSE]

NoSignals == [hlist |-> <<>>, markerFields |-> <<>>]

is_signal_class(sigs, class) == class \in DOMAIN sigs.hlist
OfClass(sigs, class) ==
    IF is_signal_class(sigs, class) THEN sigs.hlist[class] ELSE <<>>
get_marker_fields(sigs, class, method) ==
    LET key == <<class, method>>
    IN  IF key \in DOMAIN sigs.markerFields THEN sigs.markerFields[key] ELSE <<>>

parse_flags(line) == ToSet(line.flags)

(***************************************************************************)
(* load, for a line that is not refused.                                   *)
(***************************************************************************)
load_signal(sigs, line) ==
    IF ~IsText(line) THEN sigs
    ELSE LET sig == IF line.heap
                        THEN Signal(NoName, {"HEAP"}, ~line.off)
                        ELSE Signal(convert_name(line.method),
                                    parse_flags(line), ~line.off)
         IN  [hlist |-> Put(sigs.hlist, line.class,
                            Append(OfClass(sigs, line.class), sig)),
              markerFields |-> Put(sigs.markerFields,
                                   <<line.class, line.method>>, line.fields)]
==============================================================================
