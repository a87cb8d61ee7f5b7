----------------------------- MODULE MethodCode ------------------------------
(***************************************************************************)
(* The code of one method and what the rewriter does to it: Instruction    *)
(* .cpp and the part of MethodInfo.cpp that inserts instructions.          *)
(*                                                                         *)
(* An instruction is a record                                              *)
(*   op, addr  its mnemonic and address                                    *)
(*   arg       its operand, unless that is an offset                       *)
(*   offs      its branch offsets: one for a branch, the default and one   *)
(*             per case for a switch, none for other instructions          *)
(*   no        its number in the code as it was compiled, 0 if inserted    *)
(*   part      its place in the group that was inserted, 0 if compiled     *)
(* The last two are not in the program; the properties tell instructions   *)
(* by them.  A method is a record of which this module changes code,       *)
(* codeLength, exceptions, frames and ended: ended says that adjust_frames *)
(* has called exit.                                                        *)
(***************************************************************************)
EXTENDS OpCodes, StackFrames, FiniteSets

(***************************************************************************)
(* calc_pad, and the length of an instruction.  The buffer of a switch     *)
(* holds the padding, the default, the count (or the two bounds) and the   *)
(* cases.                                                                  *)
(***************************************************************************)
calc_pad(addr) == 4 - ((addr % 4) + 1)

OpbufSize(i) ==
    calc_pad(i.addr) + (IF i.op = "lookupswitch"
                            THEN 8 + 8 * (Len(i.offs) - 1)
                            ELSE 12 + 4 * (Len(i.offs) - 1))

SizeBy(line, i) == IF line.dynamic THEN 1 + OpbufSize(i) ELSE line.size
Size(i)         == SizeBy(op_codes[i.op], i)

Instruction(op, arg, part) ==
    [op |-> op, addr |-> 0, arg |-> arg, offs |-> <<>>, no |-> 0,
     part |-> part]

End(code) == IF code = <<>> THEN 0 ELSE Last(code).addr + Size(Last(code))

(***************************************************************************)
(* adjust: the padding of a switch changes with its address, and its       *)
(* offsets by as much.                                                     *)
(***************************************************************************)
adjust(i, addr) ==
    LET change == calc_pad(addr) - calc_pad(i.addr)
    IN  IF IsSwitch(i.op) /\ change # 0
            THEN [i EXCEPT !.addr = addr,
                           !.offs = [k \in DOMAIN @ |-> @[k] + change]]
            ELSE i

(***************************************************************************)
(* get_targets.  The offset of a plain branch is its two-byte operand.     *)
(***************************************************************************)
get_targets(i) ==
    IF ~IsBranch(i.op) \/ i.op = "tableswitch"
        THEN <<>>
        ELSE [k \in DOMAIN i.offs |-> i.addr + i.offs[k]]

AllTargets(code) == FlattenSeq([i \in DOMAIN code |-> get_targets(code[i])])

(***************************************************************************)
(* get_return_addresses: the returns of the method, the last one first.  A *)
(* hook goes before the return, or before the instruction that comes ahead *)
(* of a return with a value; no method starts with one of those.           *)
(***************************************************************************)
ExitAt(last, i) == IF i.op = "return" THEN i.addr ELSE last

WithExit(acc, i) ==
    [last  |-> i.addr,
     exits |-> IF i.op \in Returns THEN <<ExitAt(acc.last, i)>> \o acc.exits
                                   ELSE acc.exits]

get_return_addresses(code) ==
    FoldLeft(WithExit, [last |-> 0, exits |-> <<>>], code).exits

(***************************************************************************)
(* Instructions are placed one after the other from address 0 on.          *)
(***************************************************************************)
PlaceAt(code, i, addr) == Append(code, [adjust(i, addr) EXCEPT !.addr = addr])
Place(code, i) == PlaceAt(code, i, End(code))
Layout(instrs) == FoldLeft(Place, <<>>, instrs)

(***************************************************************************)
(* update_targets over the whole code.  wanted are the new targets of the  *)
(* branches, in the order in which their old ones were collected; branches *)
(* up to adjustAfter are passed over and take none of them.                *)
(***************************************************************************)
Moves(i, adjustAfter) ==
    IsBranch(i.op) /\ i.op # "tableswitch" /\ i.addr > adjustAfter

\* How many of the targets are taken before the k-th instruction.
Taken(code, k, adjustAfter) ==
    Sum([j \in 1 .. k - 1 |-> IF Moves(code[j], adjustAfter)
                                  THEN Len(code[j].offs) ELSE 0])

OffsetTo(i, t) == IF i.op = "lookupswitch" THEN t - i.addr
                                           ELSE Int16(t - i.addr)

\* Mutant: of a switch, only the default is moved.
update_targetsDefault(code, wanted, adjustAfter) ==
    [k \in DOMAIN code |->
        IF ~Moves(code[k], adjustAfter) THEN code[k]
        ELSE [code[k] EXCEPT !.offs[1] =
                 OffsetTo(code[k], wanted[Taken(code, k, adjustAfter) + 1])]]

update_targets(code, wanted, adjustAfter) ==
    [k \in DOMAIN code |->
        IF ~Moves(code[k], adjustAfter) THEN code[k]
        ELSE LET taken == Taken(code, k, adjustAfter)
             IN  [code[k] EXCEPT !.offs = [n \in DOMAIN @ |->
                     OffsetTo(code[k], wanted[taken + n])]]]

(***************************************************************************)
(* origAddr and newAddr of add_instructions: where an instruction of old   *)
(* went that starts at an address.  An address at which none starts is not *)
(* in the maps, which then give 0; the end of the code is one.             *)
(***************************************************************************)
NewAddresses(old, laid, k, sticky) ==
    LET Moved(i) == laid[IF i < k THEN i ELSE i + Len(laid) - Len(old)].addr
        To(i)    == IF sticky THEN Moved(i) ELSE adjust(old[i], Moved(i)).addr
    IN  [a \in {old[i].addr : i \in DOMAIN old} |->
            To(SelectInSeq(old, LAMBDA x : x.addr = a))]

NewAddr(moved, a) == IF a \in DOMAIN moved THEN moved[a] ELSE 0

update_exception(e, moved) ==
    [start |-> NewAddr(moved, e.start), end |-> NewAddr(moved, e.end),
     handler |-> NewAddr(moved, e.handler)]

\* The branches and exceptions of m are moved along with its instructions.
Redirect(m, laid, moved) ==
    LET wanted(targets) == [j \in DOMAIN targets |-> NewAddr(moved, targets[j])]
    IN  [m EXCEPT !.code = update_targets(laid, wanted(AllTargets(@)), 0),
                  !.codeLength = End(laid),
                  !.exceptions = [j \in DOMAIN @ |->
                                     update_exception(@[j], moved)]]

FrameTargets(code, exceptions) ==
    ToSet(AllTargets(code)) \union
    {exceptions[k].handler : k \in DOMAIN exceptions}

\* adjust_frames, or its exit if there are not as many frames as targets.
AdjustTo(m, targets) ==
    [m EXCEPT !.frames = IF Len(@) = Cardinality(targets)
                             THEN adjust_frames(@, targets) ELSE @,
              !.ended = Len(m.frames) # Cardinality(targets)]

AdjustFrames(m) == AdjustTo(m, FrameTargets(m.code, m.exceptions))

(***************************************************************************)
(* add_instructions: new go before the instruction at address at, every    *)
(* instruction gets its new address, and branches, exceptions and frames   *)
(* are moved along.  A target follows its instruction when sticky holds;   *)
(* otherwise it keeps its old address, so that a branch to the place of    *)
(* insertion reaches what was inserted.                                    *)
(***************************************************************************)
Opened(code, k, new) ==
    IF k = 0 THEN code ELSE SubSeq(code, 1, k - 1) \o new
                            \o SubSeq(code, k, Len(code))

InsertInto(m, at, new, sticky) ==
    LET k    == SelectInSeq(m.code, LAMBDA i : i.addr = at)
        laid == Layout(Opened(m.code, k, new))
    IN  AdjustFrames(Redirect(m, laid, NewAddresses(m.code, laid, k, sticky)))

add_instructions(m, at, new, sticky) ==
    CASE m.ended     -> m
      [] ~m.ended /\ m.code = <<>> ->
            [m EXCEPT !.code = new,
                      !.codeLength = Sum([k \in DOMAIN new |-> Size(new[k])])]
      [] OTHER       -> InsertInto(m, at, new, sticky)
==============================================================================
