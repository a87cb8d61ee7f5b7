------------------------------- MODULE OpCodes -------------------------------
(***************************************************************************)
(* The table of instructions of the class rewriter: OpCode.cpp and the     *)
(* file config/opcodes.txt it is loaded from.  The table says how long an  *)
(* instruction is, whether its length depends on its address, and whether  *)
(* it branches or is kept as raw bytes.  The whole rewriting rests         *)
(* on it: an instruction is read, moved and written by what its line says. *)
(* The mnemonic stands for the code.                                       *)
(***************************************************************************)
EXTENDS Integers

(***************************************************************************)
(* A line of the file: its size, a star in place of the size, its marks.   *)
(***************************************************************************)
Plain(size)  == [size |-> size, star |-> FALSE, marks |-> {}]
Branch(size) == [size |-> size, star |-> FALSE, marks |-> {"branch"}]
Switch       == [size |-> 0, star |-> TRUE, marks |-> {"branch"}]
Raw(size)    == [size |-> size, star |-> FALSE, marks |-> {"raw"}]

(***************************************************************************)
(* load: the mark <raw> replaces <branch>.                                 *)
(***************************************************************************)
load(line) ==
    [size    |-> line.size,
     dynamic |-> line.star,
     branch  |-> "branch" \in line.marks /\ "raw" \notin line.marks,
     raw     |-> "raw" \in line.marks]

\* The lines of config/opcodes.txt, where two codes have the name ishl; it has
\* none for nop.
OneByte ==
    {"aconst_null", "iconst_m1", "iconst_0", "iconst_1", "iconst_2",
     "iconst_3", "iconst_4", "iconst_5", "lconst_0", "lconst_1", "fconst_0",
     "fconst_1", "fconst_2", "dconst_0", "dconst_1", "iload_0", "iload_1",
     "iload_2", "iload_3", "lload_0", "lload_1", "lload_2", "lload_3",
     "fload_0", "fload_1", "fload_2", "fload_3", "dload_0", "dload_1",
     "dload_2", "dload_3", "aload_0", "aload_1", "aload_2", "aload_3",
     "iaload", "laload", "faload", "daload", "aaload", "baload", "caload",
     "saload", "istore_0", "istore_1", "istore_2", "istore_3", "lstore_0",
     "lstore_1", "lstore_2", "lstore_3", "fstore_0", "fstore_1", "fstore_2",
     "fstore_3", "dstore_0", "dstore_1", "dstore_2", "dstore_3", "astore_0",
     "astore_1", "astore_2", "astore_3", "iastore", "lastore", "fastore",
     "dastore", "aastore", "bastore", "castore", "sastore", "pop", "pop2",
     "dup", "dup_x1", "dup_x2", "dup2", "dup2_x1", "dup2_x2", "swap", "iadd",
     "ladd", "fadd", "dadd", "isub", "lsub", "fsub", "dsub", "imul", "lmul",
     "fmul", "dmul", "idiv", "ldiv", "fdiv", "ddiv", "irem", "lrem", "frem",
     "drem", "ineg", "lneg", "fneg", "dneg", "ishl", "lshl", "lshr", "iuhr",
     "lushr", "iand", "land", "ior", "lor", "ixor", "lxor", "i2l", "i2f",
     "i2d", "l2i", "l2f", "l2d", "f2i", "f2l", "f2d", "d2i", "d2l", "d2f",
     "i2b", "i2c", "i2s", "lcmp", "fcmpl", "fcmpg", "dcmpl", "dcmpg",
     "ireturn", "lreturn", "freturn", "dreturn", "areturn", "return",
     "arraylength", "athrow", "monitorenter", "monitorexit"}
TwoByte ==
    {"bipush", "ldc", "iload", "lload", "fload", "dload", "aload", "istore",
     "lstore", "fstore", "dstore", "astore", "ret", "newarray"}
ThreeByte ==
    {"sipush", "ldc_2", "ldc2_w", "iinc", "getstatic", "putstatic", "getfield",
     "putfield", "invokevirtual", "invokespecial", "invokestatic", "new",
     "anewarray", "checkcast", "instanceof"}
Branches ==
    {"ifeq", "ifne", "iflt", "ifge", "ifgt", "ifle", "if_icmpeq", "if_icmpne",
     "if_icmplt", "if_icmpge", "if_icmpgt", "if_icmple", "if_acmpeq",
     "if_acmpne", "goto", "jsr", "ifnull", "ifnonnull"}
Others == [goto_w |-> Branch(5), jsr_w |-> Branch(5), wide |-> Plain(6),
           invokeinterface |-> Raw(5), invokedynamic |-> Raw(5),
           multianewarray |-> Raw(4),
           lookupswitch |-> Switch, tableswitch |-> Switch]

opcodesTxt ==
    [op \in UNION {OneByte, TwoByte, ThreeByte, Branches, DOMAIN Others} |->
        CASE op \in OneByte       -> Plain(1)
          [] op \in TwoByte       -> Plain(2)
          [] op \in ThreeByte     -> Plain(3)
          [] op \in Branches      -> Branch(3)
          [] op \in DOMAIN Others -> Others[op]]

op_codes == [op \in DOMAIN opcodesTxt |-> load(opcodesTxt[op])]

(***************************************************************************)
(* operator[] ends the process for a code that has no line.                *)
(***************************************************************************)
Known(op) == op \in DOMAIN opcodesTxt

IsBranch(op)  == op_codes[op].branch
IsDynamic(op) == op_codes[op].dynamic
IsRaw(op)     == op_codes[op].raw
IsSwitch(op)  == op \in {"lookupswitch", "tableswitch"}
ValueReturns  == {"ireturn", "lreturn", "freturn", "dreturn", "areturn"}
Returns       == ValueReturns \union {"return"}

(***************************************************************************)
(* load_fixed_from_buffer and load_to_buffer keep an operand of one byte,  *)
(* of two bytes, or a raw one; what else an instruction carries is lost.   *)
(***************************************************************************)
KeepsOperand(op) ==
    IsDynamic(op) \/ IsRaw(op) \/ op_codes[op].size \in {1, 2, 3}
==============================================================================
