----------------------------- MODULE StackFrames -----------------------------
(***************************************************************************)
(* The frames of a StackMapTable, as StackMapFrame.cpp keeps them.         *)
(*                                                                         *)
(* A frame says what the locals and the stack hold at one place of the     *)
(* code.  The class file gives it as a type byte, an offset from the frame *)
(* before and verification items:                                          *)
(*   [ftype |-> 0 .. 255, delta |-> the two bytes, items |-> sequence]     *)
(* and the program keeps it as a record of its kind, its offset, its items *)
(* and its _size.  An item of type 8, uninitialised, holds the address of  *)
(* the instruction that made the object.                                   *)
(***************************************************************************)
EXTENDS Integers, Sequences, SequencesExt

LastShort == 63      \* the largest offset that fits into a type byte
Unset     == -1      \* a _size that nobody has set
Int16(n)  == ((n + 32768) % 65536) - 32768

Sum(seq) == FoldLeft(LAMBDA a, b : a + b, 0, seq)

(***************************************************************************)
(* Verification items: a type, and an index or address for types 7 and 8.  *)
(***************************************************************************)
Item(t, at)   == [t |-> t, at |-> at]
ItemSize(v)   == IF v.t \in {7, 8} THEN 3 ELSE 1
ItemsSize(vs) == Sum([i \in DOMAIN vs |-> ItemSize(vs[i])])

Frame(kind, delta, items, size) ==
    [kind |-> kind, delta |-> delta, items |-> items, size |-> size]

(***************************************************************************)
(* The six classes of frames, each as its load_from_buffer leaves it.      *)
(***************************************************************************)
SameFrame(f)         == Frame("same", f.ftype, <<>>, 1)
SameFrameExtended(f) == Frame("same_extended", f.delta, <<>>, 3)
SameLocalsOneStackFrame(f) ==
    Frame("same_local_one_stack", f.ftype - 64, f.items,
          1 + ItemsSize(f.items))
AppendFrame(f) == Frame("append", f.delta, f.items, 3 + ItemsSize(f.items))
ChopFrame(f)   == Frame("chop", f.delta, <<>>, 3)
FullFrame(f)   == Frame("full", f.delta, f.items, 7 + ItemsSize(f.items))

(***************************************************************************)
(* load_frames_from_buffer ends the process for the types 128 to 247, the  *)
(* last of which, 247, is the extended form of one stack item.             *)
(***************************************************************************)
FrameKnown(f) == f.ftype \notin 128 .. 247

load_frame(f) ==
    CASE f.ftype \in 0 .. 63    -> SameFrame(f)
      [] f.ftype \in 64 .. 127  -> SameLocalsOneStackFrame(f)
      [] f.ftype \in 248 .. 250 -> ChopFrame(f)
      [] f.ftype = 251          -> SameFrameExtended(f)
      [] f.ftype \in 252 .. 254 -> AppendFrame(f)
      [] f.ftype = 255          -> FullFrame(f)

load_frames_from_buffer(fs) == [i \in DOMAIN fs |-> load_frame(fs[i])]

(***************************************************************************)
(* The bytes a frame takes.  _size counts where the next one goes; what is *)
(* written does not depend on it.                                          *)
(***************************************************************************)
size_in_bytes(f, junk) == IF f.size = Unset THEN junk ELSE f.size
WrittenBytes(f) == IF f.size = Unset THEN 3 ELSE f.size

(***************************************************************************)
(* adjust_offset, with what adjust_frames does when it returns false: a    *)
(* short frame that becomes too far is replaced by an extended one, whose  *)
(* _size is not set; one with a stack item keeps its old offset.  The      *)
(* addresses in the items are never adjusted.                              *)
(***************************************************************************)
adjust_offset(f, delta) ==
    IF f.kind \in {"same", "same_local_one_stack"} /\ delta > LastShort
        THEN IF f.kind = "same"
                 THEN Frame("same_extended", delta, <<>>, Unset)
                 ELSE f
        ELSE [f EXCEPT !.delta = Int16(delta)]

\* Mutant: each offset counts from the address of the frame before.
adjust_framesNoSub(frames, targets) ==
    LET to == SetToSortSeq(targets, <)
    IN  [i \in DOMAIN frames |->
            adjust_offset(frames[i], to[i] - (IF i = 1 THEN 0 ELSE to[i - 1]))]

(***************************************************************************)
(* adjust_frames: the i-th frame is moved to the i-th target of the code.  *)
(* There must be one frame for each target, or the process ends.           *)
(***************************************************************************)
adjust_frames(frames, targets) ==
    LET to == SetToSortSeq(targets, <)
    IN  [i \in DOMAIN frames |->
            adjust_offset(frames[i],
                          IF i = 1 THEN to[1] ELSE to[i] - to[i - 1] - 1)]

(***************************************************************************)
(* Where the JVM finds the frames: each at its offset, plus one, after the *)
(* frame before.                                                           *)
(***************************************************************************)
Positions(frames) ==
    LET at[i \in 1 .. Len(frames)] ==
            frames[i].delta + (IF i = 1 THEN 0 ELSE at[i - 1] + 1)
    IN  at
==============================================================================
