------------------------ MODULE RewriteSafetyProofs ------------------------
(***************************************************************************)
(* What TLAPS proves of RewriteSafety, for any class files, any hooks      *)
(* files and any order of loading.                                         *)
(*                                                                         *)
(* The reader and writer of class files, _fr, is one object that every     *)
(* class passes through.  What a class is given does not depend on what    *)
(* passed before it: what _fr has of the class in hand differs from what   *)
(* a new one would have at most in the component ids of the pool, which    *)
(* reset leaves.  A class only refers to its own entries, whose ids        *)
(* reading it has replaced, so what is left is of no consequence.  The     *)
(* proof follows every operator that changes a class, and the folds they   *)
(* are made of, over two copies at once.  The second part follows the pool *)
(* of one copy: it only grows.  The third follows the methods: whatever is *)
(* inserted, the length that is kept for the code is the sum of those of   *)
(* its instructions.  The fourth follows what the entries of a pool refer  *)
(* to: every reference is to an entry of the right tag, so that an         *)
(* instruction that is inserted refers to what the hook is meant to call.  *)
(* The fifth counts the calls that are inserted, method by method, and the *)
(* last follows the lines of the hooks files to the calls they ask for.    *)
(* The invariants of the parts are in RewriteInvariants.                   *)
(***************************************************************************)
EXTENDS RewriteInvariants, FiniteSetTheorems, SequenceTheorems, TLAPS
-----------------------------------------------------------------------------
(* Induction, with a set for the property: what WellFoundedInduction says  *)
(* of the order of the naturals, for a set.                                *)
LEMMA Smallest ==
  ASSUME NEW R, R = OpToRel(<, Nat), NEW T, T \subseteq Nat, T # {}
  PROVE  \E x \in T : \A y \in T : ~(<<y, x>> \in R)
<1>1. IsWellFoundedOn(R, Nat)
  BY NatLessThanWellFounded
<1> QED BY <1>1, WFMin

LEMMA Less ==
  ASSUME NEW R, R = OpToRel(<, Nat), NEW x \in Nat, NEW y \in Nat, x < y
  PROVE  <<x, y>> \in R
BY DEF OpToRel

LEMMA NatSetInduction ==
  ASSUME NEW P, 0 \in P, \A n \in Nat : n \in P => n + 1 \in P
  PROVE  \A n \in Nat : n \in P
<1> SUFFICES ASSUME NEW m \in Nat, m \notin P
             PROVE  FALSE
  OBVIOUS
<1>0. PICK R : R = OpToRel(<, Nat)
  OBVIOUS
<1> DEFINE T == Nat \ P
<1>1. T \subseteq Nat /\ T # {}
  OBVIOUS
<1>2. PICK x \in T : \A y \in T : ~(<<y, x>> \in R)
  BY <1>0, <1>1, Smallest
<1>3. x \in Nat /\ x # 0 /\ x - 1 \in Nat /\ x - 1 < x
  OBVIOUS
<1>4. <<x - 1, x>> \in R
  BY <1>0, <1>3, Less
<1>5. x - 1 \in P
  BY <1>2, <1>3, <1>4
<1>6. x - 1 + 1 = x
  BY <1>3
<1> QED BY <1>3, <1>5, <1>6

LEMMA FiniteSetInduction ==
  ASSUME NEW S, IsFiniteSet(S), NEW P, {} \in P,
         \A T \in SUBSET S : \A x \in S \ T : T \in P => T \cup {x} \in P
  PROVE  S \in P
<1> DEFINE Q == {n \in Nat : \A T \in SUBSET S : Cardinality(T) = n => T \in P}
<1>0. \A T \in SUBSET S : IsFiniteSet(T) /\ Cardinality(T) \in Nat
  BY FS_Subset, FS_CardinalityType
<1>1. 0 \in Q
  BY <1>0, FS_EmptySet
<1>2. ASSUME NEW n \in Nat, n \in Q PROVE n + 1 \in Q
  <2> SUFFICES ASSUME NEW T \in SUBSET S, Cardinality(T) = n + 1
               PROVE  T \in P
    OBVIOUS
  <2>0. T # {}
    BY <1>0, FS_EmptySet
  <2>1. PICK x \in T : TRUE
    BY <2>0
  <2>2. T \ {x} \in SUBSET S /\ Cardinality(T \ {x}) = n /\ (T \ {x}) \cup {x} = T
    BY <1>0, <2>1, FS_RemoveElement
  <2>3. T \ {x} \in P
    BY <1>2, <2>2
  <2> QED BY <2>1, <2>2, <2>3
<1>3. Cardinality(S) \in Q
  <2> HIDE DEF Q
  <2> QED BY <1>0, <1>1, <1>2, NatSetInduction
<1> QED BY <1>3
-----------------------------------------------------------------------------
LEMMA FoldExists ==
  ASSUME NEW S, IsFiniteSet(S), NEW name, NEW base, NEW q, NEW pick, Picks(pick, S)
  PROVE  \E h : IsFold(name, base, q, pick, S, h)
<1> DEFINE Step(h, s) == FoldStep(name, base, q, pick, h, s)
           P == {n \in Nat : \E h : h = [s \in Small(S, n) |-> Step(h, s)]}
<1>0. \A s \in SUBSET S : IsFiniteSet(s) /\ Cardinality(s) \in Nat
  BY FS_Subset, FS_CardinalityType
<1>z. \A s \in SUBSET S : Cardinality(s) = 0 => s = {}
  BY <1>0, FS_EmptySet
<1>c. \A s \in SUBSET S : s # {} =>
         /\ s \ {pick[s]} \in SUBSET S
         /\ Cardinality(s \ {pick[s]}) = Cardinality(s) - 1
  BY <1>0, FS_RemoveElement DEF Picks
<1>1. 0 \in P
  <2>1. PICK h : h = [s \in Small(S, 0) |-> base]
    OBVIOUS
  <2>2. \A s \in Small(S, 0) : Step(h, s) = base
    BY <1>0, <1>z DEF Small, FoldStep
  <2>3. h = [s \in Small(S, 0) |-> Step(h, s)]
    BY <2>1, <2>2
  <2> QED BY <2>3
<1>2. ASSUME NEW n \in Nat, n \in P PROVE n + 1 \in P
  <2>1. PICK h : h = [s \in Small(S, n) |-> Step(h, s)]
    BY <1>2
  <2>2. PICK k : k = [s \in Small(S, n + 1) |-> Step(h, s)]
    OBVIOUS
  <2>3. \A s \in Small(S, n) : k[s] = h[s]
    <3> TAKE s \in Small(S, n)
    <3>1. s \in Small(S, n + 1)
      BY <1>0 DEF Small
    <3>2. k[s] = Step(h, s)
      BY <2>2, <3>1
    <3>3. h[s] = Step(h, s)
      BY <2>1
    <3> QED BY <3>2, <3>3
  <2>4. \A s \in Small(S, n + 1) : Step(h, s) = Step(k, s)
    <3> TAKE s \in Small(S, n + 1)
    <3>1. CASE s = {}
      BY <3>1 DEF FoldStep
    <3>2. CASE s # {}
      <4>1. s \ {pick[s]} \in Small(S, n)
        BY <1>0, <1>c, <3>2 DEF Small
      <4>2. k[s \ {pick[s]}] = h[s \ {pick[s]}]
        BY <2>3, <4>1
      <4> QED BY <3>2, <4>2 DEF FoldStep
    <3> QED BY <3>1, <3>2
  <2>5. k = [s \in Small(S, n + 1) |-> Step(k, s)]
    BY <2>2, <2>4
  <2> QED BY <2>5
<1>3. Cardinality(S) \in P
  <2> HIDE DEF P
  <2> QED BY <1>0, <1>1, <1>2, NatSetInduction
<1>4. Small(S, Cardinality(S)) = SUBSET S
  BY <1>0, FS_Subset DEF Small
<1> QED BY <1>3, <1>4 DEF IsFold

(* The largest of some numbers, as FoldLeft picks the last element.        *)
LEMMA LastOne ==
  ASSUME NEW n \in Nat, NEW s \in SUBSET (1 .. n), s # {}
  PROVE  Max(s) \in s
<1> DEFINE P == {m \in Nat : \A t \in SUBSET (1 .. m) : t # {} => \E x \in t : \A y \in t : x >= y}
<1>1. 0 \in P
  <2>1. 1 .. 0 = {}
    OBVIOUS
  <2> QED BY <2>1
<1>2. ASSUME NEW m \in Nat, m \in P PROVE m + 1 \in P
  <2> SUFFICES ASSUME NEW t \in SUBSET (1 .. m + 1), t # {}
               PROVE  \E x \in t : \A y \in t : x >= y
    OBVIOUS
  <2>1. CASE m + 1 \in t
    BY <2>1
  <2>2. CASE m + 1 \notin t
    BY <1>2, <2>2
  <2> QED BY <2>1, <2>2
<1>3. n \in P
  <2> HIDE DEF P
  <2> QED BY <1>1, <1>2, NatSetInduction
<1> QED BY <1>3 DEF Max

LEMMA LastOfAll ==
  ASSUME NEW n \in Nat, n > 0
  PROVE  Max(1 .. n) = n /\ (1 .. n) \ {n} = 1 .. n - 1
<1>1. n \in 1 .. n /\ \A y \in 1 .. n : n >= y
  OBVIOUS
<1>2. \A x \in 1 .. n : (\A y \in 1 .. n : x >= y) => x = n
  BY <1>1
<1> QED BY <1>1, <1>2 DEF Max

LEMMA FoldRuns ==
  ASSUME NEW n \in Nat, NEW name, NEW base, NEW q, NEW h, NEW pick,
         PicksLast(pick, n), IsFold(name, base, q, pick, 1 .. n, h)
  PROVE  \E k : RunOf(name, base, q, n, k) /\ h[1 .. n] = k[n]
<1>1. PICK k : k = [i \in 0 .. n |-> h[1 .. i]]
  OBVIOUS
<1>2. k[0] = base
  <2>1. h[{}] = base
    BY DEF FoldStep, IsFold
  <2> QED BY <1>1, <2>1
<1>3. ASSUME NEW i \in 1 .. n PROVE k[i] = Applied(name, k[i - 1], q[i])
  <2>1. 1 .. i \in SUBSET (1 .. n) /\ i \in 1 .. i /\ i - 1 \in 0 .. n
    OBVIOUS
  <2>0. 1 .. i # {}
    BY <2>1
  <2>2. pick[1 .. i] = i /\ (1 .. i) \ {i} = 1 .. i - 1
    BY <2>1, LastOfAll DEF PicksLast
  <2>5. h[1 .. i] = FoldStep(name, base, q, pick, h, 1 .. i)
    BY <2>1 DEF IsFold
  <2>3. h[1 .. i] = Applied(name, h[1 .. i - 1], q[i])
    BY <2>0, <2>2, <2>5 DEF FoldStep
  <2>4. k[i] = h[1 .. i] /\ k[i - 1] = h[1 .. i - 1]
    BY <1>1, <2>1
  <2> QED BY <2>3, <2>4
<1>4. h[1 .. n] = k[n]
  BY <1>1
<1> QED BY <1>2, <1>3, <1>4 DEF RunOf

LEMMA FoldLeftExists ==
  ASSUME NEW n \in Nat, NEW q, NEW name, NEW base
  PROVE  \E pick, h : PicksLast(pick, n) /\ IsFold(name, base, q, pick, 1 .. n, h)
<1>1. PICK pick : PicksLast(pick, n)
  BY DEF PicksLast
<1>2. Picks(pick, 1 .. n)
  BY <1>1, LastOne DEF Picks, PicksLast
<1>3. IsFiniteSet(1 .. n)
  BY FS_Interval
<1>4. \E h : IsFold(name, base, q, pick, 1 .. n, h)
  BY <1>2, <1>3, FoldExists
<1> QED BY <1>1, <1>4

(* What FoldLeft is, for each of the operators that it is used with.       *)
LEMMA SlotsFold ==
  ASSUME NEW n \in Nat, NEW q, DOMAIN q = 1 .. n, NEW base
  PROVE  \E k : RunOf("slots", base, q, n, k) /\ FoldLeft(WithSlots, base, q) = k[n]
<1> DEFINE Steps(h) == [s \in SUBSET (1 .. n) |-> IF s = {} THEN base ELSE WithSlots(h[s \ {Max(s)}], q[Max(s)])]
           f == CHOOSE h : h = Steps(h)
<1>1. PICK pick, g : PicksLast(pick, n) /\ IsFold("slots", base, q, pick, 1 .. n, g)
  BY FoldLeftExists
<1>2. ASSUME NEW h PROVE IsFold("slots", base, q, pick, 1 .. n, h) <=> h = Steps(h)
  <2>1. \A s \in SUBSET (1 .. n) : FoldStep("slots", base, q, pick, h, s) = Steps(h)[s]
    BY <1>1 DEF FoldStep, Applied, PicksLast
  <2> QED BY <2>1 DEF IsFold
<1>3. IsFold("slots", base, q, pick, 1 .. n, f)
  <2> HIDE DEF Steps
  <2> QED BY <1>1, <1>2
<1>4. FoldLeft(WithSlots, base, q) = f[1 .. n]
  BY DEF FoldLeft, MapThenFoldSet
<1> HIDE DEF f
<1> QED BY <1>1, <1>3, <1>4, FoldRuns

LEMMA InfoFold ==
  ASSUME NEW n \in Nat, NEW q, DOMAIN q = 1 .. n, NEW base
  PROVE  \E k : RunOf("info", base, q, n, k) /\ FoldLeft(add_info, base, q) = k[n]
<1> DEFINE Steps(h) == [s \in SUBSET (1 .. n) |-> IF s = {} THEN base ELSE add_info(h[s \ {Max(s)}], q[Max(s)])]
           f == CHOOSE h : h = Steps(h)
<1>1. PICK pick, g : PicksLast(pick, n) /\ IsFold("info", base, q, pick, 1 .. n, g)
  BY FoldLeftExists
<1>2. ASSUME NEW h PROVE IsFold("info", base, q, pick, 1 .. n, h) <=> h = Steps(h)
  <2>1. \A s \in SUBSET (1 .. n) : FoldStep("info", base, q, pick, h, s) = Steps(h)[s]
    BY <1>1 DEF FoldStep, Applied, PicksLast
  <2> QED BY <2>1 DEF IsFold
<1>3. IsFold("info", base, q, pick, 1 .. n, f)
  <2> HIDE DEF Steps
  <2> QED BY <1>1, <1>2
<1>4. FoldLeft(add_info, base, q) = f[1 .. n]
  BY DEF FoldLeft, MapThenFoldSet
<1> HIDE DEF f
<1> QED BY <1>1, <1>3, <1>4, FoldRuns

LEMMA NameFold ==
  ASSUME NEW n \in Nat, NEW q, DOMAIN q = 1 .. n, NEW base
  PROVE  \E k : RunOf("name", base, q, n, k) /\ FoldLeft(add_name, base, q) = k[n]
<1> DEFINE Steps(h) == [s \in SUBSET (1 .. n) |-> IF s = {} THEN base ELSE add_name(h[s \ {Max(s)}], q[Max(s)])]
           f == CHOOSE h : h = Steps(h)
<1>1. PICK pick, g : PicksLast(pick, n) /\ IsFold("name", base, q, pick, 1 .. n, g)
  BY FoldLeftExists
<1>2. ASSUME NEW h PROVE IsFold("name", base, q, pick, 1 .. n, h) <=> h = Steps(h)
  <2>1. \A s \in SUBSET (1 .. n) : FoldStep("name", base, q, pick, h, s) = Steps(h)[s]
    BY <1>1 DEF FoldStep, Applied, PicksLast
  <2> QED BY <2>1 DEF IsFold
<1>3. IsFold("name", base, q, pick, 1 .. n, f)
  <2> HIDE DEF Steps
  <2> QED BY <1>1, <1>2
<1>4. FoldLeft(add_name, base, q) = f[1 .. n]
  BY DEF FoldLeft, MapThenFoldSet
<1> HIDE DEF f
<1> QED BY <1>1, <1>3, <1>4, FoldRuns

LEMMA StringFold ==
  ASSUME NEW n \in Nat, NEW q, DOMAIN q = 1 .. n, NEW base
  PROVE  \E k : RunOf("string", base, q, n, k) /\ FoldLeft(WithString, base, q) = k[n]
<1> DEFINE Steps(h) == [s \in SUBSET (1 .. n) |-> IF s = {} THEN base ELSE WithString(h[s \ {Max(s)}], q[Max(s)])]
           f == CHOOSE h : h = Steps(h)
<1>1. PICK pick, g : PicksLast(pick, n) /\ IsFold("string", base, q, pick, 1 .. n, g)
  BY FoldLeftExists
<1>2. ASSUME NEW h PROVE IsFold("string", base, q, pick, 1 .. n, h) <=> h = Steps(h)
  <2>1. \A s \in SUBSET (1 .. n) : FoldStep("string", base, q, pick, h, s) = Steps(h)[s]
    BY <1>1 DEF FoldStep, Applied, PicksLast
  <2> QED BY <2>1 DEF IsFold
<1>3. IsFold("string", base, q, pick, 1 .. n, f)
  <2> HIDE DEF Steps
  <2> QED BY <1>1, <1>2
<1>4. FoldLeft(WithString, base, q) = f[1 .. n]
  BY DEF FoldLeft, MapThenFoldSet
<1> HIDE DEF f
<1> QED BY <1>1, <1>3, <1>4, FoldRuns

LEMMA MethodFold ==
  ASSUME NEW n \in Nat, NEW q, DOMAIN q = 1 .. n, NEW base
  PROVE  \E k : RunOf("method", base, q, n, k) /\ FoldLeft(WithMethod, base, q) = k[n]
<1> DEFINE Steps(h) == [s \in SUBSET (1 .. n) |-> IF s = {} THEN base ELSE WithMethod(h[s \ {Max(s)}], q[Max(s)])]
           f == CHOOSE h : h = Steps(h)
<1>1. PICK pick, g : PicksLast(pick, n) /\ IsFold("method", base, q, pick, 1 .. n, g)
  BY FoldLeftExists
<1>2. ASSUME NEW h PROVE IsFold("method", base, q, pick, 1 .. n, h) <=> h = Steps(h)
  <2>1. \A s \in SUBSET (1 .. n) : FoldStep("method", base, q, pick, h, s) = Steps(h)[s]
    BY <1>1 DEF FoldStep, Applied, PicksLast
  <2> QED BY <2>1 DEF IsFold
<1>3. IsFold("method", base, q, pick, 1 .. n, f)
  <2> HIDE DEF Steps
  <2> QED BY <1>1, <1>2
<1>4. FoldLeft(WithMethod, base, q) = f[1 .. n]
  BY DEF FoldLeft, MapThenFoldSet
<1> HIDE DEF f
<1> QED BY <1>1, <1>3, <1>4, FoldRuns

LEMMA MethodsFold ==
  ASSUME NEW n \in Nat, NEW q, DOMAIN q = 1 .. n, NEW base
  PROVE  \E k : RunOf("methods", base, q, n, k) /\ FoldLeft(WithMethodRead, base, q) = k[n]
<1> DEFINE Steps(h) == [s \in SUBSET (1 .. n) |-> IF s = {} THEN base ELSE WithMethodRead(h[s \ {Max(s)}], q[Max(s)])]
           f == CHOOSE h : h = Steps(h)
<1>1. PICK pick, g : PicksLast(pick, n) /\ IsFold("methods", base, q, pick, 1 .. n, g)
  BY FoldLeftExists
<1>2. ASSUME NEW h PROVE IsFold("methods", base, q, pick, 1 .. n, h) <=> h = Steps(h)
  <2>1. \A s \in SUBSET (1 .. n) : FoldStep("methods", base, q, pick, h, s) = Steps(h)[s]
    BY <1>1 DEF FoldStep, Applied, PicksLast
  <2> QED BY <2>1 DEF IsFold
<1>3. IsFold("methods", base, q, pick, 1 .. n, f)
  <2> HIDE DEF Steps
  <2> QED BY <1>1, <1>2
<1>4. FoldLeft(WithMethodRead, base, q) = f[1 .. n]
  BY DEF FoldLeft, MapThenFoldSet
<1> HIDE DEF f
<1> QED BY <1>1, <1>3, <1>4, FoldRuns

LEMMA CallFold ==
  ASSUME NEW n \in Nat, NEW q, DOMAIN q = 1 .. n, NEW base
  PROVE  \E k : RunOf("call", base, q, n, k) /\ FoldLeft(WithCall, base, q) = k[n]
<1> DEFINE Steps(h) == [s \in SUBSET (1 .. n) |-> IF s = {} THEN base ELSE WithCall(h[s \ {Max(s)}], q[Max(s)])]
           f == CHOOSE h : h = Steps(h)
<1>1. PICK pick, g : PicksLast(pick, n) /\ IsFold("call", base, q, pick, 1 .. n, g)
  BY FoldLeftExists
<1>2. ASSUME NEW h PROVE IsFold("call", base, q, pick, 1 .. n, h) <=> h = Steps(h)
  <2>1. \A s \in SUBSET (1 .. n) : FoldStep("call", base, q, pick, h, s) = Steps(h)[s]
    BY <1>1 DEF FoldStep, Applied, PicksLast
  <2> QED BY <2>1 DEF IsFold
<1>3. IsFold("call", base, q, pick, 1 .. n, f)
  <2> HIDE DEF Steps
  <2> QED BY <1>1, <1>2
<1>4. FoldLeft(WithCall, base, q) = f[1 .. n]
  BY DEF FoldLeft, MapThenFoldSet
<1> HIDE DEF f
<1> QED BY <1>1, <1>3, <1>4, FoldRuns

LEMMA HookFold ==
  ASSUME NEW n \in Nat, NEW q, DOMAIN q = 1 .. n, NEW base
  PROVE  \E k : RunOf("hook", base, q, n, k) /\ FoldLeft(hook, base, q) = k[n]
<1> DEFINE Steps(h) == [s \in SUBSET (1 .. n) |-> IF s = {} THEN base ELSE hook(h[s \ {Max(s)}], q[Max(s)])]
           f == CHOOSE h : h = Steps(h)
<1>1. PICK pick, g : PicksLast(pick, n) /\ IsFold("hook", base, q, pick, 1 .. n, g)
  BY FoldLeftExists
<1>2. ASSUME NEW h PROVE IsFold("hook", base, q, pick, 1 .. n, h) <=> h = Steps(h)
  <2>1. \A s \in SUBSET (1 .. n) : FoldStep("hook", base, q, pick, h, s) = Steps(h)[s]
    BY <1>1 DEF FoldStep, Applied, PicksLast
  <2> QED BY <2>1 DEF IsFold
<1>3. IsFold("hook", base, q, pick, 1 .. n, f)
  <2> HIDE DEF Steps
  <2> QED BY <1>1, <1>2
<1>4. FoldLeft(hook, base, q) = f[1 .. n]
  BY DEF FoldLeft, MapThenFoldSet
<1> HIDE DEF f
<1> QED BY <1>1, <1>3, <1>4, FoldRuns

(* The same for the folds that the length of a method depends on.          *)
LEMMA SumFold ==
  ASSUME NEW n \in Nat, NEW q, DOMAIN q = 1 .. n
  PROVE  \E k : RunOf("plus", 0, q, n, k) /\ Sum(q) = k[n]
<1> DEFINE Steps(h) == [s \in SUBSET (1 .. n) |-> IF s = {} THEN 0 ELSE h[s \ {Max(s)}] + q[Max(s)]]
           f == CHOOSE h : h = Steps(h)
<1>1. PICK pick, g : PicksLast(pick, n) /\ IsFold("plus", 0, q, pick, 1 .. n, g)
  BY FoldLeftExists
<1>2. ASSUME NEW h PROVE IsFold("plus", 0, q, pick, 1 .. n, h) <=> h = Steps(h)
  <2>1. \A s \in SUBSET (1 .. n) : FoldStep("plus", 0, q, pick, h, s) = Steps(h)[s]
    BY <1>1 DEF FoldStep, Applied, PicksLast
  <2> QED BY <2>1 DEF IsFold
<1>3. IsFold("plus", 0, q, pick, 1 .. n, f)
  <2> HIDE DEF Steps
  <2> QED BY <1>1, <1>2
<1>4. Sum(q) = f[1 .. n]
  BY DEF Sum, FoldLeft, MapThenFoldSet
<1> HIDE DEF f
<1> QED BY <1>1, <1>3, <1>4, FoldRuns

LEMMA PlaceFold ==
  ASSUME NEW n \in Nat, NEW q, DOMAIN q = 1 .. n, NEW base
  PROVE  \E k : RunOf("place", base, q, n, k) /\ FoldLeft(Place, base, q) = k[n]
<1> DEFINE Steps(h) == [s \in SUBSET (1 .. n) |-> IF s = {} THEN base ELSE Place(h[s \ {Max(s)}], q[Max(s)])]
           f == CHOOSE h : h = Steps(h)
<1>1. PICK pick, g : PicksLast(pick, n) /\ IsFold("place", base, q, pick, 1 .. n, g)
  BY FoldLeftExists
<1>2. ASSUME NEW h PROVE IsFold("place", base, q, pick, 1 .. n, h) <=> h = Steps(h)
  <2>1. \A s \in SUBSET (1 .. n) : FoldStep("place", base, q, pick, h, s) = Steps(h)[s]
    BY <1>1 DEF FoldStep, Applied, PicksLast
  <2> QED BY <2>1 DEF IsFold
<1>3. IsFold("place", base, q, pick, 1 .. n, f)
  <2> HIDE DEF Steps
  <2> QED BY <1>1, <1>2
<1>4. FoldLeft(Place, base, q) = f[1 .. n]
  BY DEF FoldLeft, MapThenFoldSet
<1> HIDE DEF f
<1> QED BY <1>1, <1>3, <1>4, FoldRuns

LEMMA IntoFold ==
  ASSUME NEW n \in Nat, NEW q, DOMAIN q = 1 .. n, NEW base
  PROVE  \E k : RunOf("into", base, q, n, k) /\ FoldLeft(WithPlace, base, q) = k[n]
<1> DEFINE Steps(h) == [s \in SUBSET (1 .. n) |-> IF s = {} THEN base ELSE WithPlace(h[s \ {Max(s)}], q[Max(s)])]
           f == CHOOSE h : h = Steps(h)
<1>1. PICK pick, g : PicksLast(pick, n) /\ IsFold("into", base, q, pick, 1 .. n, g)
  BY FoldLeftExists
<1>2. ASSUME NEW h PROVE IsFold("into", base, q, pick, 1 .. n, h) <=> h = Steps(h)
  <2>1. \A s \in SUBSET (1 .. n) : FoldStep("into", base, q, pick, h, s) = Steps(h)[s]
    BY <1>1 DEF FoldStep, Applied, PicksLast
  <2> QED BY <2>1 DEF IsFold
<1>3. IsFold("into", base, q, pick, 1 .. n, f)
  <2> HIDE DEF Steps
  <2> QED BY <1>1, <1>2
<1>4. FoldLeft(WithPlace, base, q) = f[1 .. n]
  BY DEF FoldLeft, MapThenFoldSet
<1> HIDE DEF f
<1> QED BY <1>1, <1>3, <1>4, FoldRuns

LEMMA InsertFold ==
  ASSUME NEW n \in Nat, NEW q, DOMAIN q = 1 .. n, NEW base
  PROVE  \E k : RunOf("insert", base, q, n, k) /\ FoldLeft(Insert, base, q) = k[n]
<1> DEFINE Steps(h) == [s \in SUBSET (1 .. n) |-> IF s = {} THEN base ELSE Insert(h[s \ {Max(s)}], q[Max(s)])]
           f == CHOOSE h : h = Steps(h)
<1>1. PICK pick, g : PicksLast(pick, n) /\ IsFold("insert", base, q, pick, 1 .. n, g)
  BY FoldLeftExists
<1>2. ASSUME NEW h PROVE IsFold("insert", base, q, pick, 1 .. n, h) <=> h = Steps(h)
  <2>1. \A s \in SUBSET (1 .. n) : FoldStep("insert", base, q, pick, h, s) = Steps(h)[s]
    BY <1>1 DEF FoldStep, Applied, PicksLast
  <2> QED BY <2>1 DEF IsFold
<1>3. IsFold("insert", base, q, pick, 1 .. n, f)
  <2> HIDE DEF Steps
  <2> QED BY <1>1, <1>2
<1>4. FoldLeft(Insert, base, q) = f[1 .. n]
  BY DEF FoldLeft, MapThenFoldSet
<1> HIDE DEF f
<1> QED BY <1>1, <1>3, <1>4, FoldRuns

LEMMA ExitFold ==
  ASSUME NEW n \in Nat, NEW q, DOMAIN q = 1 .. n, NEW base
  PROVE  \E k : RunOf("exit", base, q, n, k) /\ FoldLeft(WithExit, base, q) = k[n]
<1> DEFINE Steps(h) == [s \in SUBSET (1 .. n) |-> IF s = {} THEN base ELSE WithExit(h[s \ {Max(s)}], q[Max(s)])]
           f == CHOOSE h : h = Steps(h)
<1>1. PICK pick, g : PicksLast(pick, n) /\ IsFold("exit", base, q, pick, 1 .. n, g)
  BY FoldLeftExists
<1>2. ASSUME NEW h PROVE IsFold("exit", base, q, pick, 1 .. n, h) <=> h = Steps(h)
  <2>1. \A s \in SUBSET (1 .. n) : FoldStep("exit", base, q, pick, h, s) = Steps(h)[s]
    BY <1>1 DEF FoldStep, Applied, PicksLast
  <2> QED BY <2>1 DEF IsFold
<1>3. IsFold("exit", base, q, pick, 1 .. n, f)
  <2> HIDE DEF Steps
  <2> QED BY <1>1, <1>2
<1>4. FoldLeft(WithExit, base, q) = f[1 .. n]
  BY DEF FoldLeft, MapThenFoldSet
<1> HIDE DEF f
<1> QED BY <1>1, <1>3, <1>4, FoldRuns

LEMMA LineFold ==
  ASSUME NEW n \in Nat, NEW q, DOMAIN q = 1 .. n, NEW base
  PROVE  \E k : RunOf("line", base, q, n, k) /\ FoldLeft(WithLine, base, q) = k[n]
<1> DEFINE Steps(h) == [s \in SUBSET (1 .. n) |-> IF s = {} THEN base ELSE WithLine(h[s \ {Max(s)}], q[Max(s)])]
           f == CHOOSE h : h = Steps(h)
<1>1. PICK pick, g : PicksLast(pick, n) /\ IsFold("line", base, q, pick, 1 .. n, g)
  BY FoldLeftExists
<1>2. ASSUME NEW h PROVE IsFold("line", base, q, pick, 1 .. n, h) <=> h = Steps(h)
  <2>1. \A s \in SUBSET (1 .. n) : FoldStep("line", base, q, pick, h, s) = Steps(h)[s]
    BY <1>1 DEF FoldStep, Applied, PicksLast
  <2> QED BY <2>1 DEF IsFold
<1>3. IsFold("line", base, q, pick, 1 .. n, f)
  <2> HIDE DEF Steps
  <2> QED BY <1>1, <1>2
<1>4. FoldLeft(WithLine, base, q) = f[1 .. n]
  BY DEF FoldLeft, MapThenFoldSet
<1> HIDE DEF f
<1> QED BY <1>1, <1>3, <1>4, FoldRuns
-----------------------------------------------------------------------------
(* Sums.                                                                   *)
LEMMA RunsEqual ==
  ASSUME NEW n \in Nat, NEW m \in Nat, n <= m, NEW name, NEW base, NEW q, NEW r,
         \A i \in 1 .. n : q[i] = r[i],
         NEW k, RunOf(name, base, q, n, k), NEW l, RunOf(name, base, r, m, l)
  PROVE  k[n] = l[n]
<1> DEFINE P == {i \in Nat : i <= n => k[i] = l[i]}
<1>1. 0 \in P
  BY DEF RunOf
<1>2. ASSUME NEW i \in Nat, i \in P PROVE i + 1 \in P
  <2> SUFFICES ASSUME i + 1 <= n PROVE k[i + 1] = l[i + 1]
    OBVIOUS
  <2>1. i + 1 \in 1 .. n /\ i + 1 \in 1 .. m /\ i + 1 - 1 = i /\ i <= n
    OBVIOUS
  <2>2. k[i + 1] = Applied(name, k[i], q[i + 1]) /\ l[i + 1] = Applied(name, l[i], r[i + 1])
    BY <2>1 DEF RunOf
  <2> QED BY <1>2, <2>1, <2>2
<1>3. n \in P
  <2> HIDE DEF P
  <2> QED BY <1>1, <1>2, NatSetInduction
<1> QED BY <1>3

LEMMA SumOfNone ==
  ASSUME NEW q, DOMAIN q = 1 .. 0
  PROVE  Sum(q) = 0
<1>1. PICK k : RunOf("plus", 0, q, 0, k) /\ Sum(q) = k[0]
  BY SumFold
<1> QED BY <1>1 DEF RunOf

LEMMA SumOfMore ==
  ASSUME NEW n \in Nat, NEW q, DOMAIN q = 1 .. n, NEW r, DOMAIN r = 1 .. n + 1,
         \A i \in 1 .. n : r[i] = q[i]
  PROVE  Sum(r) = Sum(q) + r[n + 1]
<1>1. PICK k : RunOf("plus", 0, q, n, k) /\ Sum(q) = k[n]
  BY SumFold
<1>2. PICK l : RunOf("plus", 0, r, n + 1, l) /\ Sum(r) = l[n + 1]
  BY SumFold
<1>3. k[n] = l[n]
  BY <1>1, <1>2, RunsEqual
<1>4. l[n + 1] = l[n] + r[n + 1]
  <2>1. n + 1 \in 1 .. n + 1 /\ n + 1 - 1 = n
    OBVIOUS
  <2>2. l[n + 1] = Applied("plus", l[n], r[n + 1])
    BY <1>2, <2>1 DEF RunOf
  <2> QED BY <2>2 DEF Applied
<1> QED BY <1>1, <1>2, <1>3, <1>4

LEMMA SumOfInts ==
  ASSUME NEW n \in Nat, NEW q, DOMAIN q = 1 .. n, \A i \in 1 .. n : q[i] \in Int
  PROVE  Sum(q) \in Int
<1>1. PICK k : RunOf("plus", 0, q, n, k) /\ Sum(q) = k[n]
  BY SumFold
<1> DEFINE P == {i \in Nat : i <= n => k[i] \in Int}
<1>2. 0 \in P
  BY <1>1 DEF RunOf
<1>3. ASSUME NEW i \in Nat, i \in P PROVE i + 1 \in P
  <2> SUFFICES ASSUME i + 1 <= n PROVE k[i + 1] \in Int
    OBVIOUS
  <2>1. i + 1 \in 1 .. n /\ i + 1 - 1 = i /\ i <= n
    OBVIOUS
  <2>2. k[i + 1] = Applied("plus", k[i], q[i + 1])
    BY <1>1, <2>1 DEF RunOf
  <2>3. k[i + 1] = k[i] + q[i + 1]
    BY <2>2 DEF Applied
  <2> QED BY <1>3, <2>1, <2>3
<1>4. n \in P
  <2> HIDE DEF P
  <2> QED BY <1>2, <1>3, NatSetInduction
<1> QED BY <1>1, <1>4
-----------------------------------------------------------------------------
(* Folds whose steps keep what is related related.                         *)
LEMMA RunsRelated ==
  ASSUME NEW n \in Nat, NEW q, NEW name, NEW a, NEW b, Related(name, a, b),
         NEW k, RunOf(name, a, q, n, k), NEW l, RunOf(name, b, q, n, l),
         \A i \in 1 .. n : \A x, y :
            Related(name, x, y) => Related(name, Applied(name, x, q[i]), Applied(name, y, q[i]))
  PROVE  \A i \in 0 .. n : Related(name, k[i], l[i])
<1> DEFINE P == {i \in Nat : i <= n => Related(name, k[i], l[i])}
<1>1. 0 \in P
  BY DEF RunOf
<1>2. ASSUME NEW i \in Nat, i \in P PROVE i + 1 \in P
  <2> SUFFICES ASSUME i + 1 <= n PROVE Related(name, k[i + 1], l[i + 1])
    OBVIOUS
  <2>1. i + 1 \in 1 .. n /\ i + 1 - 1 = i /\ i <= n
    OBVIOUS
  <2>2. k[i + 1] = Applied(name, k[i], q[i + 1]) /\ l[i + 1] = Applied(name, l[i], q[i + 1])
    BY <2>1 DEF RunOf
  <2>3. Related(name, k[i], l[i])
    BY <1>2, <2>1
  <2> QED BY <2>1, <2>2, <2>3
<1>3. \A i \in Nat : i \in P
  <2> HIDE DEF P
  <2> QED BY <1>1, <1>2, NatSetInduction
<1> QED BY <1>3
-----------------------------------------------------------------------------
LEMMA InfoSame ==
  ASSUME NEW p, NEW q, SamePool(p, q), NEW e
  PROVE  SamePool(add_info(p, e), add_info(q, e))
BY DEF SamePool, PoolParts, add_info

LEMMA AddSame ==
  ASSUME NEW p, NEW q, SamePool(p, q), NEW e
  PROVE  SamePool(Add(p, e), Add(q, e))
<1>1. PICK a, b : a = [p EXCEPT !.bcount = @ + 1] /\ b = [q EXCEPT !.bcount = @ + 1]
  OBVIOUS
<1>2. SamePool(a, b)
  BY <1>1 DEF SamePool, PoolParts
<1> QED BY <1>1, <1>2, InfoSame DEF Add

LEMMA LookupSame ==
  ASSUME NEW p, NEW q, SamePool(p, q), NEW key
  PROVE  Lookup(p, key) = Lookup(q, key)
BY DEF SamePool, Lookup

LEMMA NameSame ==
  ASSUME NEW p, NEW q, SamePool(p, q), NEW text
  PROVE  SamePool(add_name(p, text), add_name(q, text))
<1>1. SamePool(Add(p, Utf8(text)), Add(q, Utf8(text)))
  BY AddSame
<1>2. p.names = q.names
  BY DEF SamePool
<1> QED BY <1>1, <1>2 DEF add_name

LEMMA ClassSame ==
  ASSUME NEW p, NEW q, SamePool(p, q), NEW name
  PROVE  SamePool(add_class(p, name), add_class(q, name))
<1>1. PICK a, b : a = add_name(p, name) /\ b = add_name(q, name)
  OBVIOUS
<1>2. SamePool(a, b)
  BY <1>1, NameSame
<1>3. Lookup(a, name) = Lookup(b, name)
  BY <1>2, LookupSame
<1>4. SamePool(Add(a, Class(Lookup(a, name))), Add(b, Class(Lookup(b, name))))
  BY <1>2, <1>3, AddSame
<1> QED BY <1>1, <1>4 DEF add_class

LEMMA StringSame ==
  ASSUME NEW p, NEW q, SamePool(p, q), NEW text
  PROVE  SamePool(add_string(p, text), add_string(q, text))
<1>1. PICK a, b : a = add_name(p, text) /\ b = add_name(q, text)
  OBVIOUS
<1>2. SamePool(a, b)
  BY <1>1, NameSame
<1>3. Lookup(a, text) = Lookup(b, text)
  BY <1>2, LookupSame
<1>4. SamePool(Add(a, StringConst(Lookup(a, text))), Add(b, StringConst(Lookup(b, text))))
  BY <1>2, <1>3, AddSame
<1> QED BY <1>1, <1>4 DEF add_string

LEMMA NatKeySame ==
  ASSUME NEW p, NEW q, SamePool(p, q), NEW m
  PROVE  NatKey(p, m) = NatKey(q, m)
<1>1. Lookup(p, m.name) = Lookup(q, m.name) /\ Lookup(p, m.type) = Lookup(q, m.type)
  BY LookupSame
<1> QED BY <1>1 DEF NatKey

LEMMA NameTypeSame ==
  ASSUME NEW p, NEW q, SamePool(p, q), NEW m
  PROVE  SamePool(add_name_type(p, m), add_name_type(q, m))
<1>1. Lookup(p, m.name) = Lookup(q, m.name) /\ Lookup(p, m.type) = Lookup(q, m.type)
  BY LookupSame
<1>2. NatKey(p, m) = NatKey(q, m) /\ p.names = q.names
  BY NatKeySame DEF SamePool
<1>3. PICK e : e = NameAndType(Lookup(p, m.name), Lookup(p, m.type))
  OBVIOUS
<1>4. SamePool(Add(p, e), Add(q, e))
  BY AddSame
<1> QED BY <1>1, <1>2, <1>3, <1>4 DEF add_name_type

LEMMA RefSame ==
  ASSUME NEW p, NEW q, SamePool(p, q), NEW class_, NEW m
  PROVE  SamePool(RefTo(p, class_, m), RefTo(q, class_, m))
<1>1. PICK a, b : a = add_name(p, m.type) /\ b = add_name(q, m.type)
  OBVIOUS
<1>2. PICK c, d : c = add_name(a, m.name) /\ d = add_name(b, m.name)
  OBVIOUS
<1>3. PICK e, f : e = add_name_type(c, m) /\ f = add_name_type(d, m)
  OBVIOUS
<1>4. SamePool(a, b)
  BY <1>1, NameSame
<1>5. SamePool(c, d)
  BY <1>2, <1>4, NameSame
<1>6. SamePool(e, f)
  BY <1>3, <1>5, NameTypeSame
<1>7. Lookup(e, NatKey(e, m)) = Lookup(f, NatKey(f, m))
  BY <1>6, NatKeySame, LookupSame
<1>8. SamePool(Add(e, MethodRef(class_, Lookup(e, NatKey(e, m)))),
               Add(f, MethodRef(class_, Lookup(f, NatKey(f, m)))))
  BY <1>6, <1>7, AddSame
<1> QED BY <1>1, <1>2, <1>3, <1>8 DEF RefTo

LEMMA MethodRefSame ==
  ASSUME NEW p, NEW q, SamePool(p, q), NEW m
  PROVE  SamePool(add_method_ref(p, m), add_method_ref(q, m))
<1>1. PICK a, b : a = add_class(p, m.class) /\ b = add_class(q, m.class)
  OBVIOUS
<1>2. SamePool(a, b)
  BY <1>1, ClassSame
<1>3. PICK c : c = Lookup(a, ToString(Lookup(a, m.class)))
  OBVIOUS
<1>4. Lookup(a, m.class) = Lookup(b, m.class)
  BY <1>2, LookupSame
<1>5. c = Lookup(b, ToString(Lookup(b, m.class)))
  BY <1>2, <1>3, <1>4, LookupSame
<1>6. SamePool(RefTo(a, c, m), RefTo(b, c, m))
  BY <1>2, RefSame
<1> QED BY <1>1, <1>3, <1>5, <1>6 DEF add_method_ref, RefToLast

LEMMA RefIndexSame ==
  ASSUME NEW p, NEW q, SamePool(p, q)
  PROVE  MethodRefIndex(p) = MethodRefIndex(q)
<1>1. p.info = q.info
  BY DEF SamePool
<1>2. Lookup(p, Key(Last(p.info).entry)) = Lookup(q, Key(Last(p.info).entry))
  BY LookupSame
<1> QED BY <1>1, <1>2 DEF MethodRefIndex

LEMMA WithStringSame ==
  ASSUME NEW a, NEW b, SameAdded(a, b), NEW text
  PROVE  SameAdded(WithString(a, text), WithString(b, text))
<1>1. PICK p, q : p = add_string(a.pool, text) /\ q = add_string(b.pool, text)
  OBVIOUS
<1>2. SamePool(p, q)
  BY <1>1, StringSame DEF SameAdded
<1>3. WithString(a, text) = [pool |-> p, ids |-> Append(a.ids, p.next)]
  BY <1>1 DEF WithString
<1>4. WithString(b, text) = [pool |-> q, ids |-> Append(b.ids, q.next)]
  BY <1>1 DEF WithString
<1>5. p.next = q.next
  BY <1>2 DEF SamePool
<1> QED BY <1>2, <1>3, <1>4, <1>5 DEF SameAdded

LEMMA WithMethodSame ==
  ASSUME NEW a, NEW b, SameAdded(a, b), NEW m
  PROVE  SameAdded(WithMethod(a, m), WithMethod(b, m))
<1>1. PICK p, q : p = add_method_ref(a.pool, m) /\ q = add_method_ref(b.pool, m)
  OBVIOUS
<1>2. SamePool(p, q)
  BY <1>1, MethodRefSame DEF SameAdded
<1>3. WithMethod(a, m) = [pool |-> p, ids |-> Append(a.ids, MethodRefIndex(p))]
  BY <1>1 DEF WithMethod
<1>4. WithMethod(b, m) = [pool |-> q, ids |-> Append(b.ids, MethodRefIndex(q))]
  BY <1>1 DEF WithMethod
<1>5. MethodRefIndex(p) = MethodRefIndex(q)
  BY <1>2, RefIndexSame
<1> QED BY <1>2, <1>3, <1>4, <1>5 DEF SameAdded
-----------------------------------------------------------------------------
LEMMA StringsSame ==
  ASSUME NEW a, NEW b, SameAdded(a, b), NEW q, Row(q)
  PROVE  SameAdded(FoldLeft(WithString, a, q), FoldLeft(WithString, b, q))
<1>1. PICK n \in Nat : n = Len(q) /\ DOMAIN q = 1 .. n
  BY DEF Row
<1>2. PICK k : RunOf("string", a, q, n, k) /\ FoldLeft(WithString, a, q) = k[n]
  BY <1>1, StringFold
<1>3. PICK l : RunOf("string", b, q, n, l) /\ FoldLeft(WithString, b, q) = l[n]
  BY <1>1, StringFold
<1>4. Related("string", a, b)
  BY DEF Related
<1>5. ASSUME NEW i \in 1 .. n, NEW x, NEW y, Related("string", x, y)
      PROVE  Related("string", Applied("string", x, q[i]), Applied("string", y, q[i]))
  <2>1. SameAdded(x, y)
    BY <1>5 DEF Related
  <2>2. SameAdded(WithString(x, q[i]), WithString(y, q[i]))
    BY <2>1, WithStringSame
  <2> QED BY <2>2 DEF Related, Applied
<1>6. Related("string", k[n], l[n])
  BY <1>2, <1>3, <1>4, <1>5, RunsRelated
<1>7. SameAdded(k[n], l[n])
  BY <1>6 DEF Related
<1> QED BY <1>2, <1>3, <1>7

LEMMA NamesSame ==
  ASSUME NEW a, NEW b, SamePool(a, b), NEW q, Row(q)
  PROVE  SamePool(FoldLeft(add_name, a, q), FoldLeft(add_name, b, q))
<1>1. PICK n \in Nat : n = Len(q) /\ DOMAIN q = 1 .. n
  BY DEF Row
<1>2. PICK k : RunOf("name", a, q, n, k) /\ FoldLeft(add_name, a, q) = k[n]
  BY <1>1, NameFold
<1>3. PICK l : RunOf("name", b, q, n, l) /\ FoldLeft(add_name, b, q) = l[n]
  BY <1>1, NameFold
<1>4. Related("name", a, b)
  BY DEF Related
<1>5. ASSUME NEW i \in 1 .. n, NEW x, NEW y, Related("name", x, y)
      PROVE  Related("name", Applied("name", x, q[i]), Applied("name", y, q[i]))
  <2>1. SamePool(x, y)
    BY <1>5 DEF Related
  <2>2. SamePool(add_name(x, q[i]), add_name(y, q[i]))
    BY <2>1, NameSame
  <2> QED BY <2>2 DEF Related, Applied
<1>6. Related("name", k[n], l[n])
  BY <1>2, <1>3, <1>4, <1>5, RunsRelated
<1>7. SamePool(k[n], l[n])
  BY <1>6 DEF Related
<1> QED BY <1>2, <1>3, <1>7

LEMMA MethodsSame ==
  ASSUME NEW a, NEW b, SameAdded(a, b), NEW q, Row(q)
  PROVE  SameAdded(FoldLeft(WithMethod, a, q), FoldLeft(WithMethod, b, q))
<1>1. PICK n \in Nat : n = Len(q) /\ DOMAIN q = 1 .. n
  BY DEF Row
<1>2. PICK k : RunOf("method", a, q, n, k) /\ FoldLeft(WithMethod, a, q) = k[n]
  BY <1>1, MethodFold
<1>3. PICK l : RunOf("method", b, q, n, l) /\ FoldLeft(WithMethod, b, q) = l[n]
  BY <1>1, MethodFold
<1>4. Related("method", a, b)
  BY DEF Related
<1>5. ASSUME NEW i \in 1 .. n, NEW x, NEW y, Related("method", x, y)
      PROVE  Related("method", Applied("method", x, q[i]), Applied("method", y, q[i]))
  <2>1. SameAdded(x, y)
    BY <1>5 DEF Related
  <2>2. SameAdded(WithMethod(x, q[i]), WithMethod(y, q[i]))
    BY <2>1, WithMethodSame
  <2> QED BY <2>2 DEF Related, Applied
<1>6. Related("method", k[n], l[n])
  BY <1>2, <1>3, <1>4, <1>5, RunsRelated
<1>7. SameAdded(k[n], l[n])
  BY <1>6 DEF Related
<1> QED BY <1>2, <1>3, <1>7

LEMMA InfosSame ==
  ASSUME NEW a, NEW b, SamePool(a, b), NEW q, Row(q)
  PROVE  SamePool(FoldLeft(add_info, a, q), FoldLeft(add_info, b, q))
<1>1. PICK n \in Nat : n = Len(q) /\ DOMAIN q = 1 .. n
  BY DEF Row
<1>2. PICK k : RunOf("info", a, q, n, k) /\ FoldLeft(add_info, a, q) = k[n]
  BY <1>1, InfoFold
<1>3. PICK l : RunOf("info", b, q, n, l) /\ FoldLeft(add_info, b, q) = l[n]
  BY <1>1, InfoFold
<1>4. Related("info", a, b)
  BY DEF Related
<1>5. ASSUME NEW i \in 1 .. n, NEW x, NEW y, Related("info", x, y)
      PROVE  Related("info", Applied("info", x, q[i]), Applied("info", y, q[i]))
  <2>1. SamePool(x, y)
    BY <1>5 DEF Related
  <2>2. SamePool(add_info(x, q[i]), add_info(y, q[i]))
    BY <2>1, InfoSame
  <2> QED BY <2>2 DEF Related, Applied
<1>6. Related("info", k[n], l[n])
  BY <1>2, <1>3, <1>4, <1>5, RunsRelated
<1>7. SamePool(k[n], l[n])
  BY <1>6 DEF Related
<1> QED BY <1>2, <1>3, <1>7

(* Whatever the pool held before, the entries of a class are read alike.   *)
LEMMA LoadSame ==
  ASSUME NEW p, NEW q, DOMAIN p = PoolParts, DOMAIN q = PoolParts,
         NEW entries, Row(entries)
  PROVE  SamePool(load_pool(p, entries), load_pool(q, entries))
<1>1. PICK n : n = 1 + FoldLeft(WithSlots, 0, entries)
  OBVIOUS
<1>2. PICK a, b : a = [reset(p) EXCEPT !.bcount = n] /\ b = [reset(q) EXCEPT !.bcount = n]
  OBVIOUS
<1>3. SamePool(a, b)
  BY <1>2 DEF SamePool, PoolParts, reset
<1>4. load_pool(p, entries) = FoldLeft(add_info, a, entries)
  BY <1>1, <1>2 DEF load_pool
<1>5. load_pool(q, entries) = FoldLeft(add_info, b, entries)
  BY <1>1, <1>2 DEF load_pool
<1> QED BY <1>3, <1>4, <1>5, InfosSame

LEMMA RowOf2 == ASSUME NEW a, NEW b PROVE Row(<<a, b>>)
BY DEF Row

LEMMA RowOf3 == ASSUME NEW a, NEW b, NEW c PROVE Row(<<a, b, c>>)
BY DEF Row

LEMMA RowOfNames == Row(TimerNames)
BY DEF Row, TimerNames

LEMMA TimerSame ==
  ASSUME NEW a, NEW b, SameAdded(a, b)
  PROVE  SameAdded(AddTimer(a), AddTimer(b))
<1>1. PICK c, d : c = FoldLeft(WithString, a, <<"enter", "exit">>)
               /\ d = FoldLeft(WithString, b, <<"enter", "exit">>)
  OBVIOUS
<1>2. SameAdded(c, d)
  BY <1>1, RowOf2, StringsSame
<1>3. PICK p, q : p = FoldLeft(add_name, c.pool, TimerNames) /\ q = FoldLeft(add_name, d.pool, TimerNames)
  OBVIOUS
<1>4. SamePool(p, q)
  BY <1>2, <1>3, RowOfNames, NamesSame DEF SameAdded
<1>5. PICK e, f : e = [c EXCEPT !.pool = p] /\ f = [d EXCEPT !.pool = q]
  OBVIOUS
<1>6. SameAdded(e, f)
  BY <1>2, <1>4, <1>5 DEF SameAdded
<1>7. PICK ms : ms = <<TimeMethod, ThreadMethod, NameMethod>>
  OBVIOUS
<1>8. SameAdded(FoldLeft(WithMethod, e, ms), FoldLeft(WithMethod, f, ms))
  BY <1>6, <1>7, RowOf3, MethodsSame
<1>9. AddTimer(a) = FoldLeft(WithMethod, e, ms)
  BY <1>1, <1>3, <1>5, <1>7 DEF AddTimer
<1>10. AddTimer(b) = FoldLeft(WithMethod, f, ms)
  BY <1>1, <1>3, <1>5, <1>7 DEF AddTimer
<1> QED BY <1>8, <1>9, <1>10
-----------------------------------------------------------------------------
LEMMA UpdateSame ==
  ASSUME NEW p, NEW q, SamePool(p, q), NEW m, NEW flags, NEW callTo
  PROVE  /\ update_method(m, p, flags, callTo).method = update_method(m, q, flags, callTo).method
         /\ SamePool(update_method(m, p, flags, callTo).pool, update_method(m, q, flags, callTo).pool)
<1>1. PICK a, b : a = WithMethod([pool |-> p, ids |-> <<>>], callTo)
               /\ b = WithMethod([pool |-> q, ids |-> <<>>], callTo)
  OBVIOUS
<1>2. SameAdded([pool |-> p, ids |-> <<>>], [pool |-> q, ids |-> <<>>])
  BY DEF SameAdded
<1>3. SameAdded(a, b)
  BY <1>1, <1>2, WithMethodSame
<1>4. PICK c, d : c = (IF IsTimer(flags) THEN AddTimer(a) ELSE a)
               /\ d = (IF IsTimer(flags) THEN AddTimer(b) ELSE b)
  OBVIOUS
<1>5. SameAdded(c, d)
  BY <1>3, <1>4, TimerSame
<1>6. update_method(m, p, flags, callTo) =
        [method |-> Raised(FoldLeft(Insert, m, Insertions(flags, c.ids)), flags), pool |-> c.pool]
  BY <1>1, <1>4 DEF update_method
<1>7. update_method(m, q, flags, callTo) =
        [method |-> Raised(FoldLeft(Insert, m, Insertions(flags, d.ids)), flags), pool |-> d.pool]
  BY <1>1, <1>4 DEF update_method
<1>8. c.ids = d.ids /\ SamePool(c.pool, d.pool)
  BY <1>5 DEF SameAdded
<1>9. PICK w : w = Raised(FoldLeft(Insert, m, Insertions(flags, c.ids)), flags)
  OBVIOUS
<1>10. w = Raised(FoldLeft(Insert, m, Insertions(flags, d.ids)), flags)
  BY <1>8, <1>9
<1>11. update_method(m, p, flags, callTo) = [method |-> w, pool |-> c.pool]
  BY <1>6, <1>9
<1>12. update_method(m, q, flags, callTo) = [method |-> w, pool |-> d.pool]
  BY <1>7, <1>10
<1> QED BY <1>8, <1>11, <1>12

LEMMA CallSame ==
  ASSUME NEW f, NEW g, SameRead(f, g), NEW c
  PROVE  SameRead(WithCall(f, c), WithCall(g, c))
<1>1. PICK r, t : r = update_method(f.methods[c.key], f.pool, c.flags, c.callTo)
               /\ t = update_method(f.methods[c.key], g.pool, c.flags, c.callTo)
  OBVIOUS
<1>2. r.method = t.method /\ SamePool(r.pool, t.pool)
  BY <1>1, UpdateSame DEF SameRead
<1>3. WithCall(f, c) = [f EXCEPT !.pool = r.pool, !.methods[c.key] = r.method]
  BY <1>1 DEF WithCall, add_method_call, Replaced
<1>4. WithCall(g, c) = [g EXCEPT !.pool = t.pool, !.methods[c.key] = t.method]
  <2>1. f.methods = g.methods
    BY DEF SameRead
  <2> QED BY <1>1, <2>1 DEF WithCall, add_method_call, Replaced
<1> QED BY <1>2, <1>3, <1>4 DEF SameRead, ClassParts
-----------------------------------------------------------------------------
LEMMA SetListed ==
  ASSUME NEW S, IsFiniteSet(S)
  PROVE  \E n \in Nat : /\ SetToSeq(S) \in [1 .. n -> S]
                        /\ SetToSeq(S) \in Seq(S)
                        /\ IsInjective(SetToSeq(S))
                        /\ n = Cardinality(S)
<1>1. PICK n \in Nat : n = Cardinality(S) /\ ExistsBijection(1 .. n, S)
  BY FS_CardinalityType
<1>2. \E x \in [1 .. n -> S] : IsInjective(x)
  BY <1>1 DEF ExistsBijection, Bijection, Injection
<1>3. SetToSeq(S) \in [1 .. n -> S] /\ IsInjective(SetToSeq(S))
  BY <1>1, <1>2 DEF SetToSeq
<1>4. [1 .. n -> S] \subseteq Seq(S)
  OBVIOUS
<1> QED BY <1>1, <1>3, <1>4

LEMMA DescriptorsRow ==
  ASSUME NEW f, IsFiniteSet(DOMAIN f.methods)
  PROVE  (\E S : Descriptors(f) \in Seq(S)) /\ (\E S : Constructors(f) \in Seq(S))
<1>1. IsFiniteSet(Hookable(f))
  <2>1. Hookable(f) \subseteq DOMAIN f.methods
    BY DEF Hookable
  <2> QED BY <2>1, FS_Subset
<1>2. PICK S, T : S = Hookable(f) /\ T = {key \in Hookable(f) : Constructor(key)}
  OBVIOUS
<1>3. IsFiniteSet(T)
  BY <1>1, <1>2, FS_Subset
<1>4. SetToSeq(S) \in Seq(S) /\ SetToSeq(T) \in Seq(T)
  BY <1>1, <1>2, <1>3, SetListed
<1> QED BY <1>2, <1>4 DEF Descriptors, Constructors

LEMMA CallsRow ==
  ASSUME NEW f, IsFiniteSet(DOMAIN f.methods), NEW s, NEW calls, calls = CallsFor(f, s)
  PROVE  Row(calls)
<1>1. PICK S, T : Descriptors(f) \in Seq(S) /\ Constructors(f) \in Seq(T)
  BY DescriptorsRow
<1>2. PICK keys \in Seq(S), new \in Seq(T) : keys = Descriptors(f) /\ new = Constructors(f)
  BY <1>1
<1>3. Row(add_hooks_to_all_methods(keys, s))
  BY DEF Row, add_hooks_to_all_methods
<1>4. Row(add_hooks_to_all_constructors(new, s))
  BY DEF Row, add_hooks_to_all_constructors
<1>5. Row(<<>>) /\ Row(<<CallIn(s.name, HookOf(s), s.flags)>>)
  BY DEF Row
<1>6. \/ calls = <<>>
      \/ calls = <<CallIn(s.name, HookOf(s), s.flags)>>
      \/ calls = add_hooks_to_all_methods(keys, s)
      \/ calls = add_hooks_to_all_constructors(new, s)
  BY <1>2 DEF CallsFor, Matches
<1> QED BY <1>3, <1>4, <1>5, <1>6

LEMMA CallsSame ==
  ASSUME NEW f, NEW g, f.methods = g.methods, NEW s, NEW t, s.name = t.name, s.flags = t.flags
  PROVE  CallsFor(f, s) = CallsFor(g, t)
<1>1. Hookable(f) = Hookable(g)
  BY DEF Hookable
<1>2. PICK keys, new : keys = Descriptors(f) /\ new = Constructors(f)
  OBVIOUS
<1>3. keys = Descriptors(g) /\ new = Constructors(g)
  BY <1>1, <1>2 DEF Descriptors, Constructors
<1>4. add_hooks_to_all_methods(keys, s) = add_hooks_to_all_methods(keys, t)
  BY DEF add_hooks_to_all_methods
<1>5. add_hooks_to_all_constructors(new, s) = add_hooks_to_all_constructors(new, t)
  BY DEF add_hooks_to_all_constructors
<1>6. CallIn(s.name, HookOf(s), s.flags) = CallIn(t.name, HookOf(t), t.flags)
  BY DEF HookOf
<1>7. (all(s) <=> all(t)) /\ (ByName(s) <=> ByName(t)) /\ (Matches(f, s) <=> Matches(g, t))
  BY DEF all, monitor_heap, ByName, Matches, has_method
<1>8. CASE ~Matches(f, s)
  <2>1. ByName(s) /\ ByName(t)
    BY <1>7, <1>8 DEF Matches
  <2>2. CallsFor(f, s) = <<>>
    BY <1>8, <2>1 DEF CallsFor
  <2>3. CallsFor(g, t) = <<>>
    BY <1>7, <1>8, <2>1 DEF CallsFor
  <2> QED BY <2>2, <2>3
<1>9. CASE Matches(f, s) /\ ByName(s)
  <2>1. CallsFor(f, s) = <<CallIn(s.name, HookOf(s), s.flags)>>
    BY <1>9 DEF CallsFor
  <2>2. CallsFor(g, t) = <<CallIn(t.name, HookOf(t), t.flags)>>
    BY <1>7, <1>9 DEF CallsFor
  <2> QED BY <1>6, <2>1, <2>2
<1>10. CASE ~ByName(s) /\ all(s)
  <2>1. Matches(f, s)
    BY <1>10 DEF Matches
  <2>2. CallsFor(f, s) = add_hooks_to_all_methods(keys, s)
    BY <1>2, <1>10, <2>1 DEF CallsFor
  <2>3. CallsFor(g, t) = add_hooks_to_all_methods(keys, t)
    BY <1>3, <1>7, <1>10, <2>1 DEF CallsFor
  <2> QED BY <1>4, <2>2, <2>3
<1>11. CASE ~ByName(s) /\ ~all(s)
  <2>1. Matches(f, s)
    BY <1>11 DEF Matches
  <2>2. CallsFor(f, s) = add_hooks_to_all_constructors(new, s)
    BY <1>2, <1>11, <2>1 DEF CallsFor
  <2>3. CallsFor(g, t) = add_hooks_to_all_constructors(new, t)
    BY <1>3, <1>7, <1>11, <2>1 DEF CallsFor
  <2> QED BY <1>5, <2>2, <2>3
<1> QED BY <1>8, <1>9, <1>10, <1>11

(* A signal hooks two classes alike, whether it is marked invalid or not.  *)
LEMMA HookSame ==
  ASSUME NEW f, NEW g, SameRead(f, g), NEW s, NEW t, s.name = t.name, s.flags = t.flags
  PROVE  SameRead(hook(f, s), hook(g, t))
<1>1. PICK q : q = CallsFor(f, s)
  OBVIOUS
<1>2. q = CallsFor(g, t)
  BY <1>1, CallsSame DEF SameRead
<1>3. Row(q)
  BY <1>1, CallsRow DEF SameRead
<1>4. PICK n \in Nat : DOMAIN q = 1 .. n
  BY <1>3 DEF Row
<1>5. PICK k : RunOf("call", f, q, n, k) /\ FoldLeft(WithCall, f, q) = k[n]
  BY <1>4, CallFold
<1>6. PICK l : RunOf("call", g, q, n, l) /\ FoldLeft(WithCall, g, q) = l[n]
  BY <1>4, CallFold
<1>7. Related("call", f, g)
  BY DEF Related
<1>8. ASSUME NEW i \in 1 .. n, NEW x, NEW y, Related("call", x, y)
      PROVE  Related("call", Applied("call", x, q[i]), Applied("call", y, q[i]))
  <2>1. SameRead(x, y)
    BY <1>8 DEF Related
  <2>2. SameRead(WithCall(x, q[i]), WithCall(y, q[i]))
    BY <2>1, CallSame
  <2> QED BY <2>2 DEF Related, Applied
<1>9. Related("call", k[n], l[n])
  BY <1>5, <1>6, <1>7, <1>8, RunsRelated
<1>10. SameRead(k[n], l[n])
  BY <1>9 DEF Related
<1>11. hook(f, s) = k[n] /\ hook(g, t) = l[n]
  BY <1>1, <1>2, <1>5, <1>6 DEF hook
<1> QED BY <1>10, <1>11
-----------------------------------------------------------------------------
LEMMA MethodsReadFinite ==
  ASSUME NEW q, Row(q)
  PROVE  IsFiniteSet(DOMAIN load_methods(q))
<1>1. PICK n \in Nat : DOMAIN q = 1 .. n
  BY DEF Row
<1>2. PICK k : RunOf("methods", <<>>, q, n, k) /\ FoldLeft(WithMethodRead, <<>>, q) = k[n]
  BY <1>1, MethodsFold
<1> DEFINE P == {i \in Nat : i <= n => IsFiniteSet(DOMAIN k[i])}
<1>3. 0 \in P
  <2>1. DOMAIN k[0] = {}
    BY <1>2 DEF RunOf
  <2> QED BY <2>1, FS_EmptySet
<1>4. ASSUME NEW i \in Nat, i \in P PROVE i + 1 \in P
  <2> SUFFICES ASSUME i + 1 <= n PROVE IsFiniteSet(DOMAIN k[i + 1])
    OBVIOUS
  <2>1. i + 1 \in 1 .. n /\ i + 1 - 1 = i /\ IsFiniteSet(DOMAIN k[i])
    BY <1>4
  <2>2. k[i + 1] = WithMethodRead(k[i], q[i + 1])
    BY <1>2, <2>1 DEF RunOf, Applied
  <2>3. DOMAIN k[i + 1] = DOMAIN k[i] \cup {q[i + 1].key}
    BY <2>2 DEF WithMethodRead, Put
  <2>4. PICK D, x : D = DOMAIN k[i] /\ x = q[i + 1].key
    OBVIOUS
  <2>5. IsFiniteSet(D \cup {x})
    BY <2>1, <2>4, FS_AddElement
  <2> QED BY <2>3, <2>4, <2>5
<1>5. \A i \in Nat : i \in P
  <2> HIDE DEF P
  <2> QED BY <1>3, <1>4, NatSetInduction
<1>6. IsFiniteSet(DOMAIN k[n])
  BY <1>5
<1> QED BY <1>2, <1>6 DEF load_methods

(* Whatever was read before, a class is read alike.                        *)
LEMMA ReadSame ==
  ASSUME NEW p, NEW q, DOMAIN p = PoolParts, DOMAIN q = PoolParts,
         NEW file, Row(file.pool), Row(file.methods)
  PROVE  SameRead(load_from_buffer(p, file), load_from_buffer(q, file))
<1>1. PICK a, b : a = load_pool(p, file.pool) /\ b = load_pool(q, file.pool)
  OBVIOUS
<1>2. SamePool(a, b)
  BY <1>1, LoadSame
<1>3. PICK ms : ms = load_methods(file.methods)
  OBVIOUS
<1>4. IsFiniteSet(DOMAIN ms)
  BY <1>3, MethodsReadFinite
<1>5. load_from_buffer(p, file) = [pool |-> a, interfaces |-> file.interfaces, fields |-> file.fields,
                                   methods |-> ms, attributes |-> file.attributes]
  BY <1>1, <1>3 DEF load_from_buffer
<1>6. load_from_buffer(q, file) = [pool |-> b, interfaces |-> file.interfaces, fields |-> file.fields,
                                   methods |-> ms, attributes |-> file.attributes]
  BY <1>1, <1>3 DEF load_from_buffer
<1> QED BY <1>2, <1>4, <1>5, <1>6 DEF SameRead, ClassParts

LEMMA SizeSame ==
  ASSUME NEW f, NEW g, SameRead(f, g), NEW j
  PROVE  class_size(f, j) = class_size(g, j)
<1>1. f.pool.info = g.pool.info
  BY DEF SameRead, SamePool
<1>2. PoolBytes(f.pool) = PoolBytes(g.pool)
  BY <1>1 DEF PoolBytes
<1> QED BY <1>2 DEF class_size, SameRead

(* Two classes that differ at most in ids are written alike.               *)
LEMMA WriteSame ==
  ASSUME NEW f, NEW g, SameRead(f, g), NEW j
  PROVE  SameClass(load_to_buffer(f, j), load_to_buffer(g, j))
<1>1. PICK size : size = class_size(f, j)
  OBVIOUS
<1>2. size = class_size(g, j)
  BY <1>1, SizeSame
<1>3. PICK ms : ms = [k \in DOMAIN f.methods |-> write_method(f.methods[k], j)]
  OBVIOUS
<1>4. ms = [k \in DOMAIN g.methods |-> write_method(g.methods[k], j)]
  BY <1>3 DEF SameRead
<1>5. load_to_buffer(f, j) = [size |-> size, pool |-> f.pool, interfaces |-> f.interfaces,
                              fields |-> f.fields, attributes |-> f.attributes, methods |-> ms]
  BY <1>1, <1>3 DEF load_to_buffer
<1>6. load_to_buffer(g, j) = [size |-> size, pool |-> g.pool, interfaces |-> g.interfaces,
                              fields |-> g.fields, attributes |-> g.attributes, methods |-> ms]
  BY <1>2, <1>4 DEF load_to_buffer
<1>7. load_to_buffer(f, j).pool = f.pool /\ load_to_buffer(g, j).pool = g.pool
  BY <1>5, <1>6
<1>8. [load_to_buffer(f, j) EXCEPT !.pool = g.pool] = load_to_buffer(g, j)
  BY <1>5, <1>6 DEF SameRead
<1> QED BY <1>7, <1>8 DEF SameClass, SameRead, SamePool
-----------------------------------------------------------------------------
LEMMA OfClassRow ==
  ASSUME NEW hooks, \A c \in DOMAIN hooks.hlist : SignalRow(hooks.hlist[c]), NEW c
  PROVE  SignalRow(OfClass(hooks, c))
<1>1. SignalRow(<<>>)
  <2>1. <<>> \in Seq({}) /\ Len(<<>>) = 0
    OBVIOUS
  <2> QED BY <2>1 DEF SignalRow
<1> QED BY <1>1 DEF OfClass, is_signal_class

LEMMA SignalRowIsRow ==
  ASSUME NEW q, SignalRow(q)
  PROVE  Row(q)
BY DEF SignalRow, Row

LEMMA LoadSignalShape ==
  ASSUME NEW hooks, DOMAIN hooks = {"hlist", "markerFields"},
         \A c \in DOMAIN hooks.hlist : SignalRow(hooks.hlist[c]), NEW line
  PROVE  /\ DOMAIN load_signal(hooks, line) = {"hlist", "markerFields"}
         /\ \A c \in DOMAIN load_signal(hooks, line).hlist : SignalRow(load_signal(hooks, line).hlist[c])
<1>1. CASE ~IsText(line)
  BY <1>1 DEF load_signal
<1>2. CASE IsText(line)
  <2>1. PICK sig : sig = IF line.heap THEN Signal(NoName, {"HEAP"}, ~line.off)
                         ELSE Signal(convert_name(line.method), parse_flags(line), ~line.off)
    OBVIOUS
  <2>2. {"name", "flags"} \subseteq DOMAIN sig
    BY <2>1 DEF Signal
  <2>3. PICK q : q = OfClass(hooks, line.class)
    OBVIOUS
  <2>4. SignalRow(q)
    BY <2>3, OfClassRow
  <2>5. SignalRow(Append(q, sig))
    <3>1. PICK S : q \in Seq(S)
      BY <2>4 DEF SignalRow
    <3>2. Append(q, sig) \in Seq(S \cup {sig}) /\ Len(Append(q, sig)) = Len(q) + 1
      BY <3>1
    <3>3. \A i \in 1 .. Len(q) + 1 : Append(q, sig)[i] = IF i <= Len(q) THEN q[i] ELSE sig
      BY <3>1
    <3>4. \A i \in 1 .. Len(q) + 1 : {"name", "flags"} \subseteq DOMAIN Append(q, sig)[i]
      <4> TAKE i \in 1 .. Len(q) + 1
      <4>1. Len(q) \in Nat
        BY <3>1
      <4>2. CASE i <= Len(q)
        BY <3>3, <4>1, <4>2, <2>4 DEF SignalRow
      <4>3. CASE ~(i <= Len(q))
        BY <3>3, <4>1, <4>3, <2>2
      <4> QED BY <4>2, <4>3
    <3> QED BY <3>2, <3>4 DEF SignalRow
  <2>6. PICK fields, key : fields = line.fields /\ key = <<line.class, line.method>>
    OBVIOUS
  <2>7. load_signal(hooks, line) = [hlist |-> Put(hooks.hlist, line.class, Append(q, sig)),
                                    markerFields |-> Put(hooks.markerFields, key, fields)]
    BY <1>2, <2>1, <2>3, <2>6 DEF load_signal
  <2> QED BY <2>5, <2>7 DEF Put
<1> QED BY <1>1, <1>2

LEMMA NativeSame ==
  ASSUME NEW f, SameRead(f, f), NEW name, NEW type
  PROVE  SameRead(add_native_method(f, name, type), add_native_method(f, name, type))
<1>1. PICK key : key = [name |-> name, type |-> type]
  OBVIOUS
<1>2. PICK p : p = add_name(add_name(f.pool, name), type)
  OBVIOUS
<1>3. SamePool(p, p)
  BY <1>2, NameSame DEF SameRead
<1>4. PICK ms : ms = Put(f.methods, key, MethodInfo(key))
  OBVIOUS
<1>5. DOMAIN ms = DOMAIN f.methods \cup {key}
  BY <1>4 DEF Put
<1>6. IsFiniteSet(DOMAIN ms)
  <2>1. PICK D : D = DOMAIN f.methods
    OBVIOUS
  <2>2. IsFiniteSet(D \cup {key})
    BY <2>1, FS_AddElement DEF SameRead
  <2> QED BY <1>5, <2>1, <2>2
<1>7. add_native_method(f, name, type) = [f EXCEPT !.pool = p, !.methods = ms]
  BY <1>1, <1>2, <1>4 DEF add_native_method
<1> QED BY <1>3, <1>6, <1>7 DEF SameRead, ClassParts

(* One more signal, marked invalid or not.                                 *)
LEMMA OneMoreSignal ==
  ASSUME NEW start, NEW q, NEW n \in Nat, NEW f, ReadFresh(start, q, n, f),
         NEW r, \A i \in 1 .. n : r[i] = q[i],
         NEW s, r[n + 1].name = s.name, r[n + 1].flags = s.flags
  PROVE  ReadFresh(start, r, n + 1, hook(f, s))
<1> SUFFICES ASSUME NEW k, RunOf("hook", start, r, n + 1, k)
             PROVE  SameRead(hook(f, s), k[n + 1])
  BY DEF ReadFresh
<1>1. RunOf("hook", start, q, n, k)
  BY DEF RunOf
<1>2. SameRead(f, k[n])
  BY <1>1 DEF ReadFresh
<1>3. k[n + 1] = hook(k[n], r[n + 1])
  <2>1. n + 1 \in 1 .. n + 1 /\ n + 1 - 1 = n
    OBVIOUS
  <2> QED BY <2>1 DEF RunOf, Applied
<1>4. SameRead(hook(f, s), hook(k[n], r[n + 1]))
  BY <1>2, HookSame
<1> QED BY <1>3, <1>4

LEMMA WrittenFresh ==
  ASSUME NEW start, NEW q, NEW n, NEW f, ReadFresh(start, q, n, f), NEW j
  PROVE  HandedFresh(start, q, n, j, load_to_buffer(f, j))
BY WriteSame DEF ReadFresh, HandedFresh

LEMMA EmptyParts == DOMAIN EmptyPool = PoolParts
BY DEF EmptyPool, PoolParts

LEMMA FilePool ==
  ASSUME NEW w \in Worlds, NEW c \in DOMAIN w.files
  PROVE  w.files[c].pool \in Seq(ToSet(w.files[c].pool))
<1>1. IsClassFile(w.files[c])
  BY WorldsAssumption
<1> QED BY <1>1 DEF IsClassFile, IsPool, InRow

LEMMA FileRows ==
  ASSUME NEW w \in Worlds, NEW c \in DOMAIN w.files
  PROVE  Row(w.files[c].pool) /\ Row(w.files[c].methods)
<1>1. PICK p, ms : p = w.files[c].pool /\ ms = w.files[c].methods
  OBVIOUS
<1>2. p \in Seq(ToSet(p)) /\ ms \in Seq(ToSet(ms))
  <2>1. IsClassFile(w.files[c])
    BY WorldsAssumption
  <2> QED BY <1>1, <2>1 DEF IsClassFile, IsPool, InRow
<1> QED BY <1>1, <1>2 DEF Row
-----------------------------------------------------------------------------
LEMMA RewriteInit ==
  ASSUME HookInit
  PROVE  RewriteInv
<1>1. SameRead(fr, fr)
  <2>1. IsFiniteSet(DOMAIN <<>>)
    BY FS_EmptySet
  <2>2. fr = NoClass
    BY DEF HookInit, Init
  <2> QED BY <2>1, <2>2, EmptyParts DEF SameRead, ClassParts, NoClass, SamePool
<1>2. DOMAIN sigs = {"hlist", "markerFields"} /\ DOMAIN sigs.hlist = {}
  BY DEF HookInit, Init, NoSignals
<1>3. world \in Worlds /\ class = None /\ DOMAIN handed = {}
  BY DEF HookInit, Init
<1> QED BY <1>1, <1>2, <1>3 DEF RewriteInv, Shapes, InHand, Given
-----------------------------------------------------------------------------
(* What a class may depend on stays.                                       *)
LEMMA SameWorld ==
  ASSUME world' = world, NEW c
  PROVE  Start(c)' = Start(c)
BY DEF Start

LEMMA LoadLineKeeps ==
  ASSUME RewriteInv, LoadLine
  PROVE  RewriteInv'
<1>1. class = None /\ DOMAIN handed = {}
  BY DEF RewriteInv, Shapes, LoadLine
<1>2. class' = None /\ DOMAIN handed' = {} /\ world' = world /\ fr' = fr
  BY <1>1 DEF LoadLine
<1>3. \/ sigs' = sigs
      \/ sigs' = load_signal(sigs, Head(lines))
  BY DEF LoadLine
<1>4. DOMAIN sigs' = {"hlist", "markerFields"} /\ \A c \in DOMAIN sigs'.hlist : SignalRow(sigs'.hlist[c])
  BY <1>3, LoadSignalShape DEF RewriteInv, Shapes
<1>5. Shapes'
  BY <1>2, <1>4 DEF RewriteInv, Shapes
<1> QED BY <1>2, <1>5 DEF RewriteInv, InHand, Given

LEMMA PackageKeeps ==
  ASSUME RewriteInv, add_thook_to_package
  PROVE  RewriteInv'
<1>1. class = None /\ lines = <<>> /\ Package \in DOMAIN world.files
  BY DEF add_thook_to_package, Ready
<1>2. /\ world' = world /\ junk' = junk /\ sigs' = sigs /\ lines' = lines /\ class' = class
      /\ \/ handed' = handed
         \/ handed' = Put(handed, Package, load_to_buffer(fr', junk))
  BY DEF add_thook_to_package
<1>3. PICK file : file = world.files[Package]
  OBVIOUS
<1>4. Row(file.pool) /\ Row(file.methods)
  BY <1>1, <1>3, FileRows DEF RewriteInv, Shapes
<1>5. PICK f : f = load_from_buffer(fr.pool, file)
  OBVIOUS
<1>6. SameRead(f, f)
  BY <1>4, <1>5, ReadSame DEF RewriteInv, Shapes, SameRead, SamePool
<1>7. PICK g : g = add_native_method(f, "thook", Object)
  OBVIOUS
<1>8. PICK h : h = add_native_method(g, "timerhook", Timed)
  OBVIOUS
<1>9. fr' = add_native_method(h, "heaphook", Object)
  BY <1>3, <1>5, <1>7, <1>8 DEF add_thook_to_package
<1>10. SameRead(g, g)
  BY <1>6, <1>7, NativeSame
<1>11. SameRead(h, h)
  BY <1>8, <1>10, NativeSame
<1>12. SameRead(fr', fr')
  BY <1>9, <1>11, NativeSame
<1>13. /\ DOMAIN handed' \subseteq DOMAIN handed \cup {Package}
       /\ \A c \in DOMAIN handed' \ {Package} : handed'[c] = handed[c]
  BY <1>2 DEF Put
<1>14. Shapes'
  BY <1>1, <1>2, <1>12, <1>13 DEF RewriteInv, Shapes, Package, None
<1>15. Given'
  <2>1. ASSUME NEW c \in DOMAIN handed' \ {Package}, c # class'
        PROVE  HandedFresh(Start(c), OfClass(sigs, c), Len(OfClass(sigs, c)), junk, handed'[c])
    BY <1>2, <1>13, <2>1 DEF RewriteInv, Given
  <2> QED BY <1>2, <2>1, SameWorld DEF Given
<1> QED BY <1>1, <1>2, <1>14, <1>15 DEF RewriteInv, InHand

LEMMA ReadClassKeeps ==
  ASSUME RewriteInv, ReadClass
  PROVE  RewriteInv'
<1>1. PICK c \in DOMAIN world.files \ {Package} :
        /\ Ready
        /\ fr' = IF fate' = "running" THEN load_from_buffer(fr.pool, world.files[c]) ELSE fr
        /\ class' = IF is_signal_class(sigs, c) THEN c ELSE None
        /\ done' = 0
        /\ UNCHANGED <<world, junk, lines, sigs, handed>>
  BY DEF ReadClass
<1>2. Row(world.files[c].pool) /\ Row(world.files[c].methods)
  BY FileRows DEF RewriteInv, Shapes
<1>3. DOMAIN fr.pool = PoolParts
  BY DEF RewriteInv, Shapes, SameRead, SamePool
<1>4. SameRead(load_from_buffer(fr.pool, world.files[c]), Start(c))
  BY <1>2, <1>3, EmptyParts, ReadSame DEF Start
<1>5. SameRead(load_from_buffer(fr.pool, world.files[c]), load_from_buffer(fr.pool, world.files[c]))
  BY <1>2, <1>3, ReadSame
<1>6. SameRead(fr', fr')
  BY <1>1, <1>5 DEF RewriteInv, Shapes
<1>7. lines = <<>>
  BY <1>1 DEF Ready
<1>8. Shapes'
  BY <1>1, <1>6, <1>7 DEF RewriteInv, Shapes
<1>9. InHand'
  <2> SUFFICES ASSUME class' # None, fate' = "running" PROVE InHand'
    BY DEF InHand
  <2>1. class' = c /\ done' = 0 /\ fr' = load_from_buffer(fr.pool, world.files[c])
    BY <1>1
  <2>2. Len(OfClass(sigs, c)) \in Nat
    BY OfClassRow, SignalRowIsRow DEF RewriteInv, Shapes, Row
  <2>3. ReadFresh(Start(c), OfClass(sigs, c), 0, fr')
    BY <1>4, <2>1 DEF ReadFresh, RunOf
  <2>4. c \in DOMAIN handed =>
          HandedFresh(Start(c), OfClass(sigs, c), Len(OfClass(sigs, c)), junk, handed[c])
    BY <1>1 DEF Ready, RewriteInv, Shapes, Given
  <2> QED BY <1>1, <2>1, <2>2, <2>3, <2>4, SameWorld DEF InHand
<1>10. Given'
  <2>1. ASSUME NEW d \in DOMAIN handed \ {Package}
        PROVE  HandedFresh(Start(d), OfClass(sigs, d), Len(OfClass(sigs, d)), junk, handed[d])
    <3>1. d # class
      BY <1>1 DEF Ready, RewriteInv, Shapes
    <3> QED BY <3>1 DEF RewriteInv, Given
  <2> QED BY <1>1, <2>1, SameWorld DEF Given
<1> QED BY <1>8, <1>9, <1>10 DEF RewriteInv

LEMMA HooksKeep ==
  ASSUME RewriteInv, add_hooks
  PROVE  RewriteInv'
<1> DEFINE q == OfClass(sigs, class)
           r == OfClass(sigs', class)
<1>1. PICK s : s = q[done + 1]
  OBVIOUS
<1>2. /\ fate = "running" /\ class # None /\ done < Len(q)
      /\ fr' = hook(fr, s)
      /\ sigs' = IF Matches(fr, s) THEN sigs
                 ELSE [sigs EXCEPT !.hlist[class][done + 1] = mark_invalid(@)]
      /\ handed' = IF fate' # "running" THEN handed ELSE Put(handed, class, load_to_buffer(fr', junk))
      /\ done' = done + 1
      /\ UNCHANGED <<world, junk, lines, class>>
  BY <1>1 DEF add_hooks
<1>3. /\ done \in 0 .. Len(q) /\ Len(q) \in Nat /\ done \in Nat
      /\ ReadFresh(Start(class), q, done, fr)
      /\ SignalRow(q)
  <2>1. SignalRow(q)
    BY OfClassRow DEF RewriteInv, Shapes
  <2>2. Len(q) \in Nat
    BY <2>1, SignalRowIsRow DEF Row
  <2> QED BY <1>2, <2>1, <2>2 DEF RewriteInv, InHand
<1>4. class \in DOMAIN sigs.hlist /\ q = sigs.hlist[class] /\ done + 1 \in 1 .. Len(q)
  <2>1. q # <<>>
    <3>1. Len(<<>>) = 0
      OBVIOUS
    <3> QED BY <1>2, <1>3, <3>1
  <2> QED BY <1>2, <1>3, <2>1 DEF OfClass, is_signal_class
<1>5. {"name", "flags"} \subseteq DOMAIN s
  BY <1>1, <1>3, <1>4 DEF SignalRow
<1>6. /\ DOMAIN sigs' = {"hlist", "markerFields"} /\ DOMAIN sigs'.hlist = DOMAIN sigs.hlist
      /\ \A c \in DOMAIN sigs.hlist : c # class => sigs'.hlist[c] = sigs.hlist[c]
      /\ \/ sigs'.hlist[class] = q
         \/ sigs'.hlist[class] = [q EXCEPT ![done + 1] = mark_invalid(s)]
  <2>1. CASE Matches(fr, s)
    BY <1>2, <1>4, <2>1 DEF RewriteInv, Shapes
  <2>2. CASE ~Matches(fr, s)
    BY <1>1, <1>2, <1>4, <2>2 DEF RewriteInv, Shapes
  <2> QED BY <2>1, <2>2
<1>7. \A c : c # class => OfClass(sigs', c) = OfClass(sigs, c)
  BY <1>6 DEF OfClass, is_signal_class
<1>8. r = sigs'.hlist[class]
  BY <1>4, <1>6 DEF OfClass, is_signal_class
<1> HIDE DEF q, r
<1>9. PICK t : t = mark_invalid(s)
  OBVIOUS
<1>10. {"name", "flags"} \subseteq DOMAIN t /\ t.name = s.name /\ t.flags = s.flags
  BY <1>5, <1>9 DEF mark_invalid
<1>11. r = q \/ r = [q EXCEPT ![done + 1] = t]
  BY <1>6, <1>8, <1>9
<1>12. PICK S : q \in Seq(S)
  BY <1>3 DEF SignalRow
<1>13. /\ Len(r) = Len(q) /\ r \in Seq(S \cup {t})
       /\ \A i \in 1 .. Len(q) : i # done + 1 => r[i] = q[i]
       /\ r[done + 1] = s \/ r[done + 1] = t
  <2>1. CASE r = q
    BY <1>1, <1>12, <2>1 DEF q
  <2>2. CASE r = [q EXCEPT ![done + 1] = t]
    BY <1>4, <1>12, <2>2
  <2> QED BY <1>11, <2>1, <2>2
<1>14. SignalRow(r)
  <2>1. \A i \in 1 .. Len(q) : {"name", "flags"} \subseteq DOMAIN r[i]
    BY <1>3, <1>5, <1>10, <1>13 DEF SignalRow
  <2> QED BY <1>13, <2>1 DEF SignalRow
<1>15. r[done + 1].name = s.name /\ r[done + 1].flags = s.flags
  BY <1>10, <1>13
<1>16. \A i \in 1 .. done : r[i] = q[i]
  BY <1>3, <1>4, <1>13
<1>17. ReadFresh(Start(class), r, done + 1, fr')
  BY <1>2, <1>3, <1>15, <1>16, OneMoreSignal
<1>18. HandedFresh(Start(class), r, done + 1, junk, load_to_buffer(fr', junk))
  BY <1>17, WrittenFresh
<1>19. \A c \in DOMAIN sigs'.hlist : SignalRow(sigs'.hlist[c])
  BY <1>6, <1>8, <1>14 DEF RewriteInv, Shapes
<1>20. SameRead(fr', fr')
  BY <1>2, HookSame DEF RewriteInv, Shapes
<1>21. class \in DOMAIN world.files \ {Package}
  BY <1>2 DEF RewriteInv, Shapes
<1>22. /\ DOMAIN handed' \subseteq DOMAIN handed \cup {class}
       /\ \A c \in DOMAIN handed' : c # class => c \in DOMAIN handed /\ handed'[c] = handed[c]
       /\ fate' = "running" => handed'[class] = load_to_buffer(fr', junk)
  <2>1. CASE fate' # "running"
    BY <1>2, <2>1
  <2>2. CASE fate' = "running"
    BY <1>2, <2>2 DEF Put
  <2> QED BY <2>1, <2>2
<1>23. Shapes'
  <2>1. lines = <<>>
    BY <1>2 DEF RewriteInv, Shapes
  <2> QED BY <1>2, <1>6, <1>19, <1>20, <1>21, <1>22, <2>1 DEF RewriteInv, Shapes
<1>24. InHand'
  <2> SUFFICES ASSUME fate' = "running" PROVE InHand'
    BY DEF InHand
  <2>1. done' \in 0 .. Len(r)
    BY <1>2, <1>3, <1>4, <1>13
  <2>2. HandedFresh(Start(class), r, done', junk, handed'[class])
    BY <1>2, <1>18, <1>22
  <2>3. ReadFresh(Start(class), r, done', fr')
    BY <1>2, <1>17
  <2>4. Start(class)' = Start(class)
    BY <1>2 DEF Start
  <2>5. OfClass(sigs, class)' = r
    BY <1>2 DEF r
  <2>6. done' # 0
    BY <1>2, <1>3
  <2> QED BY <1>2, <2>1, <2>2, <2>3, <2>4, <2>5, <2>6 DEF InHand
<1>25. Given'
  <2>1. ASSUME NEW c \in DOMAIN handed' \ {Package}, c # class
        PROVE  HandedFresh(Start(c), OfClass(sigs', c), Len(OfClass(sigs', c)), junk, handed'[c])
    <3>1. c \in DOMAIN handed \ {Package} /\ handed'[c] = handed[c] /\ OfClass(sigs', c) = OfClass(sigs, c)
      BY <1>7, <1>22, <2>1
    <3> QED BY <2>1, <3>1 DEF RewriteInv, Given
  <2> QED BY <1>2, <2>1, SameWorld DEF Given
<1> QED BY <1>23, <1>24, <1>25 DEF RewriteInv

LEMMA LeaveKeeps ==
  ASSUME RewriteInv, LeaveHook
  PROVE  RewriteInv'
<1>1. fate = "running" /\ class # None /\ done = Len(OfClass(sigs, class)) /\ class' = None
  BY DEF LeaveHook
<1>2. UNCHANGED <<world, junk, lines, sigs, fr, handed>>
  BY DEF LeaveHook
<1>3. Shapes'
  BY <1>1, <1>2 DEF RewriteInv, Shapes
<1>4. Given'
  <2>1. ASSUME NEW c \in DOMAIN handed \ {Package}
        PROVE  HandedFresh(Start(c), OfClass(sigs, c), Len(OfClass(sigs, c)), junk, handed[c])
    <3>1. CASE c # class
      BY <3>1 DEF RewriteInv, Given
    <3>2. CASE c = class
      BY <1>1, <3>2 DEF RewriteInv, InHand
    <3> QED BY <3>1, <3>2
  <2> QED BY <1>2, <2>1, SameWorld DEF Given
<1> QED BY <1>1, <1>3, <1>4 DEF RewriteInv, InHand

LEMMA RemoveKeeps ==
  ASSUME RewriteInv, remove_hooks
  PROVE  RewriteInv'
<1>1. PICK c \in DOMAIN handed \ {Package} :
        /\ Ready
        /\ fr' = load_from_buffer(fr.pool, world.files[c])
        /\ handed' = [x \in DOMAIN handed \ {c} |-> handed[x]]
        /\ UNCHANGED <<world, junk, lines, sigs, class>>
  BY DEF remove_hooks
<1>2. Row(world.files[c].pool) /\ Row(world.files[c].methods)
  BY FileRows DEF RewriteInv, Shapes
<1>3. DOMAIN fr.pool = PoolParts
  BY DEF RewriteInv, Shapes, SameRead, SamePool
<1>4. SameRead(fr', fr')
  BY <1>1, <1>2, <1>3, ReadSame
<1>5. class = None /\ lines = <<>>
  BY <1>1 DEF Ready
<1>6. Shapes'
  BY <1>1, <1>4, <1>5 DEF RewriteInv, Shapes
<1>7. Given'
  <2>1. ASSUME NEW d \in DOMAIN handed' \ {Package}, d # class
        PROVE  HandedFresh(Start(d), OfClass(sigs, d), Len(OfClass(sigs, d)), junk, handed'[d])
    <3>1. d \in DOMAIN handed \ {Package} /\ handed'[d] = handed[d]
      BY <1>1
    <3> QED BY <2>1, <3>1 DEF RewriteInv, Given
  <2> QED BY <1>1, <2>1, SameWorld DEF Given
<1> QED BY <1>1, <1>5, <1>6, <1>7 DEF RewriteInv, InHand

(* What the program does while others run changes none of this.            *)
LEMMA RestKeeps ==
  ASSUME RewriteInv,
         UNCHANGED <<world, junk, lines, sigs, fr, class, done, handed>>,
         fate' = "running" => fate = "running"
  PROVE  RewriteInv'
<1>1. Shapes'
  BY DEF RewriteInv, Shapes
<1>2. InHand'
  BY SameWorld DEF RewriteInv, InHand
<1>3. Given'
  BY SameWorld DEF RewriteInv, Given
<1> QED BY <1>1, <1>2, <1>3 DEF RewriteInv

LEMMA RewriteKept ==
  ASSUME RewriteInv, [HookNext]_allVars
  PROVE  RewriteInv'
<1>1. CASE Next
  BY <1>1, LoadLineKeeps, PackageKeeps, ReadClassKeeps, HooksKeep, LeaveKeeps, RemoveKeeps DEF Next
<1>2. CASE thook
  BY <1>2, RestKeeps DEF thook
<1>3. CASE UNCHANGED allVars
  BY <1>3, RestKeeps DEF allVars, vars
<1> QED BY <1>1, <1>2, <1>3 DEF HookNext

LEMMA RewriteInvSays ==
  ASSUME RewriteInv
  PROVE  RewrittenAfresh
<1> SUFFICES ASSUME NEW c \in DOMAIN handed \ {Package}, Settled(c)
             PROVE  SameClass(handed[c], Afresh(c))
  BY DEF RewrittenAfresh
<1>1. PICK q : q = OfClass(sigs, c)
  OBVIOUS
<1>2. Row(q)
  BY <1>1, OfClassRow, SignalRowIsRow DEF RewriteInv, Shapes
<1>3. PICK n \in Nat : n = Len(q) /\ DOMAIN q = 1 .. n
  BY <1>2 DEF Row
<1>4. HandedFresh(Start(c), q, n, junk, handed[c])
  BY <1>1, <1>3 DEF RewriteInv, Given, Settled
<1>5. PICK k : RunOf("hook", Start(c), q, n, k) /\ FoldLeft(hook, Start(c), q) = k[n]
  BY <1>3, HookFold
<1>6. SameClass(handed[c], load_to_buffer(k[n], junk))
  BY <1>4, <1>5 DEF HandedFresh
<1>7. Afresh(c) = load_to_buffer(k[n], junk)
  BY <1>1, <1>5 DEF Afresh, Start
<1> QED BY <1>6, <1>7

(* What the JVM gets for a class does not depend on the classes that were  *)
(* read or hooked before it, or on its having been hooked and restored:    *)
(* of the classes before it only ids remain, at indices it does not use.   *)
THEOREM AlwaysAfresh == HookSpec => []RewrittenAfresh
<1>1. HookInit => RewriteInv
  BY RewriteInit
<1>2. RewriteInv /\ [HookNext]_allVars => RewriteInv'
  BY RewriteKept
<1>3. RewriteInv => RewrittenAfresh
  BY RewriteInvSays
<1> QED BY <1>1, <1>2, <1>3, PTL DEF HookSpec
-----------------------------------------------------------------------------
LEMMA AppendSays ==
  ASSUME NEW S, NEW q \in Seq(S), NEW x
  PROVE  /\ Append(q, x) \in Seq(S \cup {x}) /\ Len(q) \in Nat /\ Len(Append(q, x)) = Len(q) + 1
         /\ \A i \in 1 .. Len(q) : Append(q, x)[i] = q[i]
         /\ Append(q, x)[Len(q) + 1] = x
OBVIOUS

LEMMA AddInfoSays ==
  ASSUME NEW p, DOMAIN p = PoolParts, NEW x
  PROVE  /\ DOMAIN add_info(p, x) = PoolParts
         /\ add_info(p, x).info = Append(p.info, [index |-> p.next + 1, entry |-> x])
         /\ add_info(p, x).next = p.next + Slots(x)
         /\ add_info(p, x).bcount = p.bcount
BY DEF add_info, PoolParts

LEMMA AddGrows ==
  ASSUME NEW p, NEW e, Len(e) \in Nat, Grown(p, e), NEW x, x.tag \notin TwoSlots
  PROVE  Grown(Add(p, x), e)
<1>1. PICK b : b = [p EXCEPT !.bcount = @ + 1]
  OBVIOUS
<1>2. DOMAIN b = PoolParts /\ b.info = p.info /\ b.next = p.next /\ b.bcount = p.bcount + 1
  BY <1>1 DEF Grown, Infos, PoolParts
<1>3. PICK slot : slot = [index |-> b.next + 1, entry |-> x]
  OBVIOUS
<1>4. PICK q : q = Add(p, x)
  OBVIOUS
<1>5. /\ DOMAIN q = PoolParts /\ q.info = Append(p.info, slot)
      /\ q.next = p.next + Slots(x) /\ q.bcount = p.bcount + 1
  <2>1. q = add_info(b, x)
    BY <1>1, <1>4 DEF Add
  <2>2. /\ DOMAIN q = PoolParts /\ q.info = Append(b.info, slot)
        /\ q.next = b.next + Slots(x) /\ q.bcount = b.bcount
    BY <1>2, <1>3, <2>1, AddInfoSays
  <2> QED BY <1>2, <2>2
<1>6. Slots(x) = 1
  BY DEF Slots
<1>7. PICK S : p.info \in Seq(S)
  BY DEF Grown, Infos
<1>8. Infos(q, e)
  <2>1. q.info \in Seq(S \cup {slot}) /\ Len(q.info) = Len(p.info) + 1 /\ Len(p.info) \in Nat
        /\ \A i \in 1 .. Len(p.info) : q.info[i] = p.info[i]
    BY <1>5, <1>7, AppendSays
  <2>2. \A i \in 1 .. Len(e) : i \in 1 .. Len(p.info) /\ p.info[i].entry = e[i]
    BY <2>1 DEF Grown, Infos
  <2>3. Len(e) <= Len(q.info)
    BY <2>1 DEF Grown, Infos
  <2>4. \A i \in 1 .. Len(e) : q.info[i].entry = e[i]
    BY <2>1, <2>2
  <2> QED BY <1>5, <2>1, <2>3, <2>4 DEF Infos
<1>9. q.next \in Int /\ q.bcount = q.next + 1
  BY <1>5, <1>6 DEF Grown
<1> QED BY <1>4, <1>8, <1>9 DEF Grown

LEMMA NameGrows ==
  ASSUME NEW p, NEW e, Len(e) \in Nat, Grown(p, e), NEW text
  PROVE  Grown(add_name(p, text), e)
<1>1. Utf8(text).tag \notin TwoSlots
  BY DEF Utf8, Entry, TwoSlots
<1> QED BY <1>1, AddGrows DEF add_name

LEMMA ClassGrows ==
  ASSUME NEW p, NEW e, Len(e) \in Nat, Grown(p, e), NEW name
  PROVE  Grown(add_class(p, name), e)
<1>1. PICK q : q = add_name(p, name)
  OBVIOUS
<1>2. Grown(q, e)
  BY <1>1, NameGrows
<1>3. PICK x : x = Class(Lookup(q, name))
  OBVIOUS
<1>4. x.tag \notin TwoSlots
  BY <1>3 DEF Class, Entry, TwoSlots
<1>5. Grown(Add(q, x), e)
  BY <1>2, <1>4, AddGrows
<1> QED BY <1>1, <1>3, <1>5 DEF add_class

LEMMA StringGrows ==
  ASSUME NEW p, NEW e, Len(e) \in Nat, Grown(p, e), NEW text
  PROVE  Grown(add_string(p, text), e)
<1>1. PICK q : q = add_name(p, text)
  OBVIOUS
<1>2. Grown(q, e)
  BY <1>1, NameGrows
<1>3. PICK x : x = StringConst(Lookup(q, text))
  OBVIOUS
<1>4. x.tag \notin TwoSlots
  BY <1>3 DEF StringConst, Entry, TwoSlots
<1>5. Grown(Add(q, x), e)
  BY <1>2, <1>4, AddGrows
<1> QED BY <1>1, <1>3, <1>5 DEF add_string

LEMMA NameTypeGrows ==
  ASSUME NEW p, NEW e, Len(e) \in Nat, Grown(p, e), NEW m
  PROVE  Grown(add_name_type(p, m), e)
<1>1. PICK x : x = NameAndType(Lookup(p, m.name), Lookup(p, m.type))
  OBVIOUS
<1>2. x.tag \notin TwoSlots
  BY <1>1 DEF NameAndType, Entry, TwoSlots
<1>3. Grown(Add(p, x), e)
  BY <1>2, AddGrows
<1> QED BY <1>1, <1>3 DEF add_name_type

LEMMA MethodRefGrows ==
  ASSUME NEW p, NEW e, Len(e) \in Nat, Grown(p, e), NEW m
  PROVE  Grown(add_method_ref(p, m), e)
<1>1. PICK a : a = add_class(p, m.class)
  OBVIOUS
<1>2. PICK c : c = Lookup(a, ToString(Lookup(a, m.class)))
  OBVIOUS
<1>3. PICK b : b = add_name(a, m.type)
  OBVIOUS
<1>4. PICK d : d = add_name(b, m.name)
  OBVIOUS
<1>5. PICK f : f = add_name_type(d, m)
  OBVIOUS
<1>6. PICK x : x = MethodRef(c, Lookup(f, NatKey(f, m)))
  OBVIOUS
<1>7. Grown(a, e)
  BY <1>1, ClassGrows
<1>8. Grown(b, e)
  BY <1>3, <1>7, NameGrows
<1>9. Grown(d, e)
  BY <1>4, <1>8, NameGrows
<1>10. Grown(f, e)
  BY <1>5, <1>9, NameTypeGrows
<1>11. x.tag \notin TwoSlots
  BY <1>6 DEF MethodRef, Entry, TwoSlots
<1>12. Grown(Add(f, x), e)
  BY <1>10, <1>11, AddGrows
<1>13. RefTo(a, c, m) = Add(f, x)
  BY <1>3, <1>4, <1>5, <1>6 DEF RefTo
<1> QED BY <1>1, <1>2, <1>12, <1>13 DEF add_method_ref, RefToLast
-----------------------------------------------------------------------------
LEMMA RunsKeep ==
  ASSUME NEW n \in Nat, NEW q, NEW name, NEW a, NEW e, Keeping(name, a, e),
         NEW k, RunOf(name, a, q, n, k),
         \A i \in 1 .. n : \A x : Keeping(name, x, e) => Keeping(name, Applied(name, x, q[i]), e)
  PROVE  Keeping(name, k[n], e)
<1> DEFINE P == {i \in Nat : i <= n => Keeping(name, k[i], e)}
<1>1. 0 \in P
  BY DEF RunOf
<1>2. ASSUME NEW i \in Nat, i \in P PROVE i + 1 \in P
  <2> SUFFICES ASSUME i + 1 <= n PROVE Keeping(name, k[i + 1], e)
    OBVIOUS
  <2>1. i + 1 \in 1 .. n /\ i + 1 - 1 = i /\ i <= n
    OBVIOUS
  <2>2. k[i + 1] = Applied(name, k[i], q[i + 1])
    BY <2>1 DEF RunOf
  <2> QED BY <1>2, <2>1, <2>2
<1>3. \A i \in Nat : i \in P
  <2> HIDE DEF P
  <2> QED BY <1>1, <1>2, NatSetInduction
<1> QED BY <1>3

LEMMA NamesGrow ==
  ASSUME NEW p, NEW e, Len(e) \in Nat, Grown(p, e), NEW q, Row(q)
  PROVE  Grown(FoldLeft(add_name, p, q), e)
<1>1. PICK n \in Nat : DOMAIN q = 1 .. n
  BY DEF Row
<1>2. PICK k : RunOf("name", p, q, n, k) /\ FoldLeft(add_name, p, q) = k[n]
  BY <1>1, NameFold
<1>3. Keeping("name", p, e)
  BY DEF Keeping
<1>4. ASSUME NEW i \in 1 .. n, NEW x, Keeping("name", x, e)
      PROVE  Keeping("name", Applied("name", x, q[i]), e)
  <2>1. Grown(add_name(x, q[i]), e)
    BY <1>4, NameGrows DEF Keeping
  <2> QED BY <2>1 DEF Keeping, Applied
<1>5. Keeping("name", k[n], e)
  BY <1>2, <1>3, <1>4, RunsKeep
<1> QED BY <1>2, <1>5 DEF Keeping

LEMMA WithStringGrows ==
  ASSUME NEW a, NEW e, Len(e) \in Nat, Grown(a.pool, e), NEW text
  PROVE  Grown(WithString(a, text).pool, e) /\ DOMAIN WithString(a, text) = {"pool", "ids"}
<1>1. PICK p : p = add_string(a.pool, text)
  OBVIOUS
<1>2. Grown(p, e)
  BY <1>1, StringGrows
<1>3. WithString(a, text) = [pool |-> p, ids |-> Append(a.ids, p.next)]
  BY <1>1 DEF WithString
<1> QED BY <1>2, <1>3

LEMMA WithMethodGrows ==
  ASSUME NEW a, NEW e, Len(e) \in Nat, Grown(a.pool, e), NEW m
  PROVE  Grown(WithMethod(a, m).pool, e) /\ DOMAIN WithMethod(a, m) = {"pool", "ids"}
<1>1. PICK p : p = add_method_ref(a.pool, m)
  OBVIOUS
<1>2. Grown(p, e)
  BY <1>1, MethodRefGrows
<1>3. WithMethod(a, m) = [pool |-> p, ids |-> Append(a.ids, MethodRefIndex(p))]
  BY <1>1 DEF WithMethod
<1> QED BY <1>2, <1>3

LEMMA StringsGrow ==
  ASSUME NEW a, DOMAIN a = {"pool", "ids"}, NEW e, Len(e) \in Nat, Grown(a.pool, e), NEW q, Row(q)
  PROVE  /\ Grown(FoldLeft(WithString, a, q).pool, e)
         /\ DOMAIN FoldLeft(WithString, a, q) = {"pool", "ids"}
<1>1. PICK n \in Nat : DOMAIN q = 1 .. n
  BY DEF Row
<1>2. PICK k : RunOf("string", a, q, n, k) /\ FoldLeft(WithString, a, q) = k[n]
  BY <1>1, StringFold
<1>3. Keeping("string", a, e)
  BY DEF Keeping
<1>4. ASSUME NEW i \in 1 .. n, NEW x, Keeping("string", x, e)
      PROVE  Keeping("string", Applied("string", x, q[i]), e)
  <2>1. Grown(WithString(x, q[i]).pool, e) /\ DOMAIN WithString(x, q[i]) = {"pool", "ids"}
    BY <1>4, WithStringGrows DEF Keeping
  <2> QED BY <2>1 DEF Keeping, Applied
<1>5. Keeping("string", k[n], e)
  BY <1>2, <1>3, <1>4, RunsKeep
<1>6. Grown(k[n].pool, e) /\ DOMAIN k[n] = {"pool", "ids"}
  BY <1>5 DEF Keeping
<1> QED BY <1>2, <1>6

LEMMA MethodsGrow ==
  ASSUME NEW a, DOMAIN a = {"pool", "ids"}, NEW e, Len(e) \in Nat, Grown(a.pool, e), NEW q, Row(q)
  PROVE  Grown(FoldLeft(WithMethod, a, q).pool, e)
<1>1. PICK n \in Nat : DOMAIN q = 1 .. n
  BY DEF Row
<1>2. PICK k : RunOf("method", a, q, n, k) /\ FoldLeft(WithMethod, a, q) = k[n]
  BY <1>1, MethodFold
<1>3. Keeping("method", a, e)
  BY DEF Keeping
<1>4. ASSUME NEW i \in 1 .. n, NEW x, Keeping("method", x, e)
      PROVE  Keeping("method", Applied("method", x, q[i]), e)
  <2>1. Grown(WithMethod(x, q[i]).pool, e) /\ DOMAIN WithMethod(x, q[i]) = {"pool", "ids"}
    BY <1>4, WithMethodGrows DEF Keeping
  <2> QED BY <2>1 DEF Keeping, Applied
<1>5. Keeping("method", k[n], e)
  BY <1>2, <1>3, <1>4, RunsKeep
<1>6. Grown(k[n].pool, e)
  BY <1>5 DEF Keeping
<1> QED BY <1>2, <1>6

LEMMA TimerGrows ==
  ASSUME NEW a, DOMAIN a = {"pool", "ids"}, NEW e, Len(e) \in Nat, Grown(a.pool, e)
  PROVE  Grown(AddTimer(a).pool, e)
<1>1. PICK c : c = FoldLeft(WithString, a, <<"enter", "exit">>)
  OBVIOUS
<1>2. Grown(c.pool, e) /\ DOMAIN c = {"pool", "ids"}
  BY <1>1, RowOf2, StringsGrow
<1>3. PICK p : p = FoldLeft(add_name, c.pool, TimerNames)
  OBVIOUS
<1>4. Grown(p, e)
  BY <1>2, <1>3, RowOfNames, NamesGrow
<1>5. PICK d : d = [c EXCEPT !.pool = p]
  OBVIOUS
<1>6. d.pool = p /\ DOMAIN d = {"pool", "ids"}
  BY <1>2, <1>5
<1>7. PICK ms : ms = <<TimeMethod, ThreadMethod, NameMethod>>
  OBVIOUS
<1>8. Grown(FoldLeft(WithMethod, d, ms).pool, e)
  BY <1>4, <1>6, <1>7, RowOf3, MethodsGrow
<1>9. AddTimer(a) = FoldLeft(WithMethod, d, ms)
  BY <1>1, <1>3, <1>5, <1>7 DEF AddTimer
<1> QED BY <1>8, <1>9

LEMMA CallGrows ==
  ASSUME NEW f, DOMAIN f = ClassParts, NEW e, Len(e) \in Nat, Grown(f.pool, e), NEW c
  PROVE  Grown(WithCall(f, c).pool, e) /\ DOMAIN WithCall(f, c) = ClassParts
<1>1. PICK a : a = WithMethod([pool |-> f.pool, ids |-> <<>>], c.callTo)
  OBVIOUS
<1>2. Grown(a.pool, e) /\ DOMAIN a = {"pool", "ids"}
  <2>1. PICK b : b = [pool |-> f.pool, ids |-> <<>>]
    OBVIOUS
  <2>2. Grown(b.pool, e)
    BY <2>1
  <2> QED BY <1>1, <2>1, <2>2, WithMethodGrows
<1>3. PICK d : d = (IF IsTimer(c.flags) THEN AddTimer(a) ELSE a)
  OBVIOUS
<1>4. Grown(d.pool, e)
  BY <1>2, <1>3, TimerGrows
<1>5. PICK r : r = update_method(f.methods[c.key], f.pool, c.flags, c.callTo)
  OBVIOUS
<1>6. r.pool = d.pool
  BY <1>1, <1>3, <1>5 DEF update_method
<1>7. WithCall(f, c) = [f EXCEPT !.pool = r.pool, !.methods[c.key] = r.method]
  BY <1>5 DEF WithCall, add_method_call, Replaced
<1>8. WithCall(f, c).pool = r.pool /\ DOMAIN WithCall(f, c) = ClassParts
  BY <1>7 DEF ClassParts
<1> QED BY <1>4, <1>6, <1>8

(* Hooking adds to the pool.                                               *)
LEMMA HookGrows ==
  ASSUME NEW f, SameRead(f, f), NEW e, Len(e) \in Nat, Grown(f.pool, e), NEW s
  PROVE  Grown(hook(f, s).pool, e)
<1>1. PICK q : q = CallsFor(f, s)
  OBVIOUS
<1>2. PICK n \in Nat : DOMAIN q = 1 .. n
  BY <1>1, CallsRow DEF SameRead, Row
<1>3. PICK k : RunOf("call", f, q, n, k) /\ FoldLeft(WithCall, f, q) = k[n]
  BY <1>2, CallFold
<1>4. Keeping("call", f, e)
  BY DEF Keeping, SameRead
<1>5. ASSUME NEW i \in 1 .. n, NEW x, Keeping("call", x, e)
      PROVE  Keeping("call", Applied("call", x, q[i]), e)
  <2>1. Grown(WithCall(x, q[i]).pool, e) /\ DOMAIN WithCall(x, q[i]) = ClassParts
    BY <1>5, CallGrows DEF Keeping
  <2> QED BY <2>1 DEF Keeping, Applied
<1>6. Keeping("call", k[n], e)
  BY <1>3, <1>4, <1>5, RunsKeep
<1>7. Grown(k[n].pool, e)
  BY <1>6 DEF Keeping
<1> QED BY <1>1, <1>3, <1>7 DEF hook
-----------------------------------------------------------------------------
(* Each entry read takes its slots, which are counted before.              *)
LEMMA LoadGrows ==
  ASSUME NEW p, DOMAIN p = PoolParts, NEW T, NEW e \in Seq(T)
  PROVE  Grown(load_pool(p, e), e)
<1>1. PICK n \in Nat : n = Len(e) /\ DOMAIN e = 1 .. n
  OBVIOUS
<1>2. PICK l : RunOf("slots", 0, e, n, l) /\ FoldLeft(WithSlots, 0, e) = l[n]
  BY <1>1, SlotsFold
<1>3. PICK b : b = [reset(p) EXCEPT !.bcount = 1 + l[n]]
  OBVIOUS
<1>4. DOMAIN b = PoolParts /\ b.info = <<>> /\ b.next = 0 /\ b.bcount = 1 + l[n]
  BY <1>3 DEF reset, PoolParts
<1>5. load_pool(p, e) = FoldLeft(add_info, b, e)
  BY <1>2, <1>3 DEF load_pool
<1>6. PICK k : RunOf("info", b, e, n, k) /\ FoldLeft(add_info, b, e) = k[n]
  BY <1>1, InfoFold
<1> DEFINE ReadTo(i) == /\ DOMAIN k[i] = PoolParts
                        /\ \E S : k[i].info \in Seq(S)
                        /\ Len(k[i].info) = i
                        /\ \A j \in 1 .. i : k[i].info[j].entry = e[j]
                        /\ k[i].next = l[i] /\ l[i] \in Nat /\ k[i].bcount = 1 + l[n]
           P == {i \in Nat : i <= n => ReadTo(i)}
<1>7. 0 \in P
  <2>1. k[0] = b /\ l[0] = 0
    BY <1>2, <1>6 DEF RunOf
  <2>2. <<>> \in Seq({}) /\ Len(<<>>) = 0
    OBVIOUS
  <2>3. k[0].info = <<>> /\ k[0].next = 0 /\ k[0].bcount = 1 + l[n] /\ DOMAIN k[0] = PoolParts
    BY <1>4, <2>1
  <2>4. \E S : k[0].info \in Seq(S)
    BY <2>2, <2>3
  <2>5. ReadTo(0)
    BY <2>1, <2>2, <2>3, <2>4
  <2> QED BY <2>5
<1>8. ASSUME NEW i \in Nat, i \in P PROVE i + 1 \in P
  <2> SUFFICES ASSUME i + 1 <= n PROVE ReadTo(i + 1)
    OBVIOUS
  <2>1. i + 1 \in 1 .. n /\ i + 1 - 1 = i /\ i <= n
    OBVIOUS
  <2>2. ReadTo(i)
    BY <1>8, <2>1
  <2>3. k[i + 1] = add_info(k[i], e[i + 1])
    BY <1>6, <2>1 DEF RunOf, Applied
  <2>4. l[i + 1] = WithSlots(l[i], e[i + 1])
    BY <1>2, <2>1 DEF RunOf, Applied
  <2>5. PICK slot : slot = [index |-> k[i].next + 1, entry |-> e[i + 1]]
    OBVIOUS
  <2>6. /\ DOMAIN k[i + 1] = PoolParts /\ k[i + 1].info = Append(k[i].info, slot)
        /\ k[i + 1].next = k[i].next + Slots(e[i + 1]) /\ k[i + 1].bcount = k[i].bcount
    <3>1. PICK r, x : r = k[i] /\ x = e[i + 1]
      OBVIOUS
    <3>2. DOMAIN r = PoolParts /\ k[i + 1] = add_info(r, x) /\ slot = [index |-> r.next + 1, entry |-> x]
      BY <2>2, <2>3, <2>5, <3>1
    <3>3. /\ DOMAIN add_info(r, x) = PoolParts /\ add_info(r, x).info = Append(r.info, slot)
          /\ add_info(r, x).next = r.next + Slots(x) /\ add_info(r, x).bcount = r.bcount
      BY <3>2, AddInfoSays
    <3> QED BY <3>1, <3>2, <3>3
  <2>7. PICK S : k[i].info \in Seq(S)
    BY <2>2
  <2>8. /\ k[i + 1].info \in Seq(S \cup {slot}) /\ Len(k[i + 1].info) = i + 1
        /\ \A j \in 1 .. i : k[i + 1].info[j] = k[i].info[j]
        /\ k[i + 1].info[i + 1] = slot
    BY <2>2, <2>6, <2>7, AppendSays
  <2>9. \A j \in 1 .. i + 1 : k[i + 1].info[j].entry = e[j]
    <3> TAKE j \in 1 .. i + 1
    <3>1. CASE j = i + 1
      BY <2>5, <2>8, <3>1
    <3>2. CASE j \in 1 .. i
      BY <2>2, <2>8, <3>2
    <3> QED BY <3>1, <3>2
  <2>10. Slots(e[i + 1]) \in Nat
    BY DEF Slots
  <2>11. k[i + 1].next = l[i + 1] /\ l[i + 1] \in Nat
    BY <2>2, <2>4, <2>6, <2>10 DEF WithSlots
  <2> QED BY <2>2, <2>6, <2>8, <2>9, <2>11
<1>9. ReadTo(n)
  <2>1. \A i \in Nat : i \in P
    <3> HIDE DEF P
    <3> QED BY <1>7, <1>8, NatSetInduction
  <2> QED BY <2>1
<1>10. PICK q : q = load_pool(p, e)
  OBVIOUS
<1>11. q = k[n]
  BY <1>5, <1>6, <1>10
<1>12. Infos(q, e) /\ q.next \in Int /\ q.bcount = q.next + 1
  BY <1>1, <1>9, <1>11 DEF Infos
<1> QED BY <1>10, <1>12 DEF Grown

LEMMA ReadGrows ==
  ASSUME NEW p, DOMAIN p = PoolParts, NEW w \in Worlds, NEW c \in DOMAIN w.files
  PROVE  Grown(load_from_buffer(p, w.files[c]).pool, w.files[c].pool) /\ Len(w.files[c].pool) \in Nat
<1>1. PICK e : e = w.files[c].pool
  OBVIOUS
<1>2. e \in Seq(ToSet(e))
  BY <1>1, FilePool
<1>3. Grown(load_pool(p, e), e)
  BY <1>2, LoadGrows
<1>4. load_from_buffer(p, w.files[c]).pool = load_pool(p, e)
  BY <1>1 DEF load_from_buffer
<1> QED BY <1>1, <1>2, <1>3, <1>4

LEMMA NativeGrows ==
  ASSUME NEW f, DOMAIN f = ClassParts, NEW e, Len(e) \in Nat, Grown(f.pool, e), NEW name, NEW type
  PROVE  /\ Grown(add_native_method(f, name, type).pool, e)
         /\ DOMAIN add_native_method(f, name, type) = ClassParts
<1>1. PICK p : p = add_name(f.pool, name)
  OBVIOUS
<1>2. PICK q : q = add_name(p, type)
  OBVIOUS
<1>3. Grown(q, e)
  BY <1>1, <1>2, NameGrows
<1>4. PICK ms : ms = Put(f.methods, [name |-> name, type |-> type], MethodInfo([name |-> name, type |-> type]))
  OBVIOUS
<1>5. add_native_method(f, name, type) = [f EXCEPT !.pool = q, !.methods = ms]
  BY <1>1, <1>2, <1>4 DEF add_native_method
<1> QED BY <1>3, <1>5 DEF ClassParts
-----------------------------------------------------------------------------
LEMMA WrittenPool ==
  ASSUME NEW f, NEW j
  PROVE  load_to_buffer(f, j).pool = f.pool
BY DEF load_to_buffer

LEMMA PoolsInit ==
  ASSUME HookInit
  PROVE  PoolsInv
<1>1. class = None /\ DOMAIN handed = {}
  BY DEF HookInit, Init
<1> QED BY <1>1, RewriteInit DEF PoolsInv, PoolInHand, PoolsGiven

LEMMA PackagePools ==
  ASSUME PoolsInv, add_thook_to_package
  PROVE  PoolInHand' /\ PoolsGiven'
<1>1. class = None /\ Package \in DOMAIN world.files
  BY DEF add_thook_to_package, Ready
<1>2. /\ world' = world /\ class' = class
      /\ \/ handed' = handed
         \/ handed' = Put(handed, Package, load_to_buffer(fr', junk))
  BY DEF add_thook_to_package
<1>3. PICK e : e = world.files[Package].pool
  OBVIOUS
<1>4. PICK f : f = load_from_buffer(fr.pool, world.files[Package])
  OBVIOUS
<1>5. world \in Worlds /\ DOMAIN fr.pool = PoolParts
  BY DEF PoolsInv, RewriteInv, Shapes, SameRead, SamePool
<1>6. Grown(f.pool, e) /\ Len(e) \in Nat
  BY <1>1, <1>3, <1>4, <1>5, ReadGrows
<1>7. DOMAIN f = ClassParts
  BY <1>4 DEF load_from_buffer, ClassParts
<1>8. PICK g : g = add_native_method(f, "thook", Object)
  OBVIOUS
<1>9. PICK h : h = add_native_method(g, "timerhook", Timed)
  OBVIOUS
<1>10. fr' = add_native_method(h, "heaphook", Object)
  BY <1>4, <1>8, <1>9 DEF add_thook_to_package
<1>11. Grown(g.pool, e) /\ DOMAIN g = ClassParts
  BY <1>6, <1>7, <1>8, NativeGrows
<1>12. Grown(h.pool, e) /\ DOMAIN h = ClassParts
  BY <1>6, <1>9, <1>11, NativeGrows
<1>13. Grown(fr'.pool, e)
  BY <1>6, <1>10, <1>12, NativeGrows
<1>14. ASSUME NEW c \in DOMAIN handed' PROVE Grown(handed'[c].pool, world.files[c].pool)
  <2>1. CASE c = Package /\ handed'[c] = load_to_buffer(fr', junk)
    BY <1>3, <1>13, <2>1, WrittenPool
  <2>2. CASE c \in DOMAIN handed /\ handed'[c] = handed[c]
    BY <2>2 DEF PoolsInv, PoolsGiven
  <2> QED BY <1>2, <2>1, <2>2 DEF Put
<1> QED BY <1>1, <1>2, <1>14 DEF PoolInHand, PoolsGiven

LEMMA ReadPools ==
  ASSUME PoolsInv, ReadClass
  PROVE  PoolInHand' /\ PoolsGiven'
<1>1. PICK c \in DOMAIN world.files \ {Package} :
        /\ fr' = IF fate' = "running" THEN load_from_buffer(fr.pool, world.files[c]) ELSE fr
        /\ class' = IF is_signal_class(sigs, c) THEN c ELSE None
        /\ UNCHANGED <<world, handed>>
  BY DEF ReadClass
<1>2. world \in Worlds /\ DOMAIN fr.pool = PoolParts
  BY DEF PoolsInv, RewriteInv, Shapes, SameRead, SamePool
<1>3. Grown(load_from_buffer(fr.pool, world.files[c]).pool, world.files[c].pool)
  BY <1>2, ReadGrows
<1> QED BY <1>1, <1>3 DEF PoolsInv, PoolInHand, PoolsGiven

LEMMA HookPools ==
  ASSUME PoolsInv, add_hooks
  PROVE  PoolInHand' /\ PoolsGiven'
<1>1. PICK s : s = OfClass(sigs, class)[done + 1]
  OBVIOUS
<1>2. /\ fate = "running" /\ class # None
      /\ fr' = hook(fr, s)
      /\ handed' = IF fate' # "running" THEN handed ELSE Put(handed, class, load_to_buffer(fr', junk))
      /\ UNCHANGED <<world, class>>
  BY <1>1 DEF add_hooks
<1>3. PICK e : e = world.files[class].pool
  OBVIOUS
<1>4. Len(e) \in Nat
  <2>1. world \in Worlds /\ class \in DOMAIN world.files /\ DOMAIN fr.pool = PoolParts
    BY <1>2 DEF PoolsInv, RewriteInv, Shapes, SameRead, SamePool
  <2> QED BY <1>3, <2>1, ReadGrows
<1>5. Grown(fr'.pool, e)
  BY <1>2, <1>3, <1>4, HookGrows DEF PoolsInv, PoolInHand, RewriteInv, Shapes
<1>6. ASSUME NEW c \in DOMAIN handed' PROVE Grown(handed'[c].pool, world.files[c].pool)
  <2>1. CASE c \in DOMAIN handed /\ handed'[c] = handed[c]
    BY <2>1 DEF PoolsInv, PoolsGiven
  <2>2. CASE c = class /\ handed'[c] = load_to_buffer(fr', junk)
    BY <1>3, <1>5, <2>2, WrittenPool
  <2> QED BY <1>2, <2>1, <2>2 DEF Put
<1> QED BY <1>2, <1>3, <1>5, <1>6 DEF PoolInHand, PoolsGiven

LEMMA RestPools ==
  ASSUME PoolsInv,
         \/ LoadLine \/ LeaveHook \/ remove_hooks \/ thook \/ UNCHANGED allVars
  PROVE  PoolInHand' /\ PoolsGiven'
<1>1. CASE LoadLine
  BY <1>1 DEF PoolsInv, PoolInHand, PoolsGiven, LoadLine, RewriteInv, Shapes
<1>2. CASE LeaveHook
  BY <1>2 DEF PoolsInv, PoolInHand, PoolsGiven, LeaveHook
<1>3. CASE remove_hooks
  BY <1>3 DEF PoolsInv, PoolInHand, PoolsGiven, remove_hooks, Ready
<1>4. CASE thook
  BY <1>4 DEF PoolsInv, PoolInHand, PoolsGiven, thook
<1>5. CASE UNCHANGED allVars
  BY <1>5 DEF PoolsInv, PoolInHand, PoolsGiven, allVars, vars
<1> QED BY <1>1, <1>2, <1>3, <1>4, <1>5

LEMMA PoolsKept ==
  ASSUME PoolsInv, [HookNext]_allVars
  PROVE  PoolsInv'
<1>1. RewriteInv'
  BY RewriteKept DEF PoolsInv
<1>2. PoolInHand' /\ PoolsGiven'
  BY PackagePools, ReadPools, HookPools, RestPools DEF HookNext, Next
<1> QED BY <1>1, <1>2 DEF PoolsInv

LEMMA PoolsInvSays ==
  ASSUME PoolsInv
  PROVE  EntriesKept
<1> SUFFICES ASSUME NEW c \in DOMAIN handed, NEW p, p = handed[c].pool, NEW e, e = world.files[c].pool
             PROVE  [k \in DOMAIN e |-> p.info[k].entry] = e /\ p.bcount = p.next + 1
  BY DEF EntriesKept
<1>1. Grown(p, e)
  BY DEF PoolsInv, PoolsGiven
<1>2. e \in Seq(ToSet(e))
  <2>1. world \in Worlds /\ c \in DOMAIN world.files
    BY DEF PoolsInv, RewriteInv, Shapes
  <2> QED BY <2>1, FilePool
<1>3. DOMAIN e = 1 .. Len(e) /\ e = [k \in DOMAIN e |-> e[k]]
  BY <1>2
<1>4. \A k \in DOMAIN e : p.info[k].entry = e[k]
  BY <1>1, <1>3 DEF Grown, Infos
<1>5. [k \in DOMAIN e |-> p.info[k].entry] = e
  BY <1>3, <1>4
<1> QED BY <1>1, <1>5 DEF Grown

(* Whatever is hooked, in whatever order: an operand a class had still     *)
(* means what it meant, since the entries of its pool are where they were  *)
(* and those of the hooks come after them, each of them counted.           *)
THEOREM EntriesStay == HookSpec => []EntriesKept
<1>1. HookInit => PoolsInv
  BY PoolsInit
<1>2. PoolsInv /\ [HookNext]_allVars => PoolsInv'
  BY PoolsKept
<1>3. PoolsInv => EntriesKept
  BY PoolsInvSays
<1> QED BY <1>1, <1>2, <1>3, PTL DEF HookSpec
-----------------------------------------------------------------------------
LEMMA ListMade ==
  ASSUME NEW n \in Nat, NEW f, f = [i \in 1 .. n |-> f[i]]
  PROVE  Listed(f) /\ Row(f) /\ Len(f) = n
<1> DEFINE S == {f[i] : i \in 1 .. n}
<1>1. f \in [1 .. n -> S]
  OBVIOUS
<1>2. f \in Seq(S)
  BY <1>1
<1>3. Len(f) = n
  BY <1>1, <1>2
<1> QED BY <1>1, <1>2, <1>3 DEF Listed, Row

LEMMA ListedRow ==
  ASSUME NEW q, Listed(q)
  PROVE  Row(q)
BY DEF Listed, Row

(* The first of some indices, as SelectInSeq picks it.                     *)
LEMMA FirstOne ==
  ASSUME NEW T, T \subseteq Nat, T # {}
  PROVE  Min(T) \in T
<1>1. PICK R : R = OpToRel(<, Nat)
  OBVIOUS
<1>2. PICK x \in T : \A y \in T : ~(<<y, x>> \in R)
  BY <1>1, Smallest
<1>3. \A y \in T : x <= y
  <2> SUFFICES ASSUME NEW y \in T, y < x PROVE FALSE
    OBVIOUS
  <2>1. <<y, x>> \in R
    BY <1>1, Less
  <2> QED BY <1>2, <2>1
<1> QED BY <1>3 DEF Min

LEMMA SizeInt ==
  ASSUME NEW i, Sound(i)
  PROVE  Size(i) \in Int
<1>1. \A op \in DOMAIN opcodesTxt : opcodesTxt[op].size \in Nat
  BY DEF opcodesTxt, Plain, Raw, Branch, Switch, Others
<1>2. op_codes[i.op].size \in Nat
  BY <1>1 DEF Sound, op_codes, load
<1>3. OpbufSize(i) \in Int
  BY DEF Sound, Row, OpbufSize, calc_pad
<1> QED BY <1>2, <1>3 DEF Size, SizeBy

LEMMA InstrSizeSame ==
  ASSUME NEW i, NEW j, i.op = j.op, i.addr = j.addr, Len(i.offs) = Len(j.offs)
  PROVE  Size(i) = Size(j)
<1>1. PICK addr, offs : addr = i.addr /\ offs = i.offs
  OBVIOUS
<1>2. PICK op : op = i.op
  OBVIOUS
<1>3. PICK long : long = Len(offs)
  OBVIOUS
<1>4. i.op = op /\ i.addr = addr /\ Len(i.offs) = long
  BY <1>1, <1>2, <1>3
<1>5. j.op = op /\ j.addr = addr /\ Len(j.offs) = long
  BY <1>4
<1>6. PICK size : size = calc_pad(addr) + (IF op = "lookupswitch" THEN 8 + 8 * (long - 1) ELSE 12 + 4 * (long - 1))
  OBVIOUS
<1>7. OpbufSize(i) = size /\ OpbufSize(j) = size
  BY <1>4, <1>5, <1>6 DEF OpbufSize
<1>8. PICK line : line = op_codes[op]
  OBVIOUS
<1>9. Size(i) = SizeBy(line, i) /\ Size(j) = SizeBy(line, j)
  BY <1>4, <1>5, <1>8 DEF Size
<1>10. SizeBy(line, i) = (IF line.dynamic THEN 1 + size ELSE line.size)
  BY <1>7 DEF SizeBy
<1>11. SizeBy(line, j) = (IF line.dynamic THEN 1 + size ELSE line.size)
  BY <1>7 DEF SizeBy
<1> QED BY <1>9, <1>10, <1>11

LEMMA CodeSumInt ==
  ASSUME NEW code, CodeSound(code)
  PROVE  CodeSum(code) \in Int
<1>1. PICK n \in Nat : DOMAIN code = 1 .. n
  BY DEF CodeSound, Listed
<1>2. PICK q : q = [k \in DOMAIN code |-> Size(code[k])]
  OBVIOUS
<1>3. DOMAIN q = 1 .. n /\ \A k \in 1 .. n : q[k] \in Int
  BY <1>1, <1>2, SizeInt DEF CodeSound
<1> QED BY <1>2, <1>3, SumOfInts DEF CodeSum

LEMMA MovedSound ==
  ASSUME NEW i, Sound(i), NEW addr \in Int
  PROVE  /\ Sound([adjust(i, addr) EXCEPT !.addr = addr])
         /\ [adjust(i, addr) EXCEPT !.addr = addr].addr = addr
<1>1. PICK x : x = adjust(i, addr)
  OBVIOUS
<1>2. DOMAIN x = InstrParts /\ x.op = i.op /\ Row(x.offs)
  <2>1. CASE x = i
    BY <2>1 DEF Sound
  <2>2. CASE x # i
    <3>1. PICK change : x = [i EXCEPT !.addr = addr, !.offs = [k \in DOMAIN @ |-> @[k] + change]]
      BY <1>1, <2>2 DEF adjust
    <3>2. PICK offs : offs = [k \in DOMAIN i.offs |-> i.offs[k] + change]
      OBVIOUS
    <3>3. PICK n \in Nat : DOMAIN i.offs = 1 .. n
      BY DEF Sound, Row
    <3>4. Row(offs)
      <4>1. offs = [k \in 1 .. n |-> offs[k]]
        BY <3>2, <3>3
      <4> QED BY <4>1, ListMade
    <3>5. x.offs = offs /\ x.op = i.op /\ DOMAIN x = InstrParts
      BY <3>1, <3>2 DEF Sound, InstrParts
    <3> QED BY <3>4, <3>5
  <2> QED BY <2>1, <2>2
<1>3. PICK y : y = [x EXCEPT !.addr = addr]
  OBVIOUS
<1>4. DOMAIN y = InstrParts /\ y.op = i.op /\ y.offs = x.offs /\ y.addr = addr
  BY <1>2, <1>3 DEF InstrParts
<1>5. Sound(y)
  BY <1>2, <1>4 DEF Sound
<1> QED BY <1>1, <1>3, <1>4, <1>5

LEMMA NoCode == LaidOut(<<>>)
<1>1. CodeSound(<<>>)
  <2>1. <<>> \in Seq({})
    OBVIOUS
  <2> QED BY <2>1 DEF CodeSound, Listed
<1>2. PICK q : q = [k \in DOMAIN <<>> |-> Size(<<>>[k])]
  OBVIOUS
<1>3. DOMAIN q = 1 .. 0
  BY <1>2
<1>4. Sum(q) = 0
  BY <1>3, SumOfNone
<1>5. CodeSum(<<>>) = 0 /\ End(<<>>) = 0
  BY <1>2, <1>4 DEF CodeSum, End
<1> QED BY <1>1, <1>5 DEF LaidOut

LEMMA PlaceSays ==
  ASSUME NEW code, LaidOut(code), NEW i, Sound(i)
  PROVE  LaidOut(Place(code, i))
<1>1. PICK addr : addr = End(code)
  OBVIOUS
<1>2. addr \in Int /\ CodeSum(code) = addr
  BY <1>1, CodeSumInt DEF LaidOut
<1>3. PICK x : x = [adjust(i, addr) EXCEPT !.addr = addr]
  OBVIOUS
<1>4. Sound(x) /\ x.addr = addr
  BY <1>2, <1>3, MovedSound
<1>5. PICK r : r = Append(code, x)
  OBVIOUS
<1>6. PICK S : code \in Seq(S)
  BY DEF LaidOut, CodeSound, Listed
<1>7. PICK n \in Nat : n = Len(code) /\ DOMAIN code = 1 .. n
  BY <1>6
<1>8. /\ r \in Seq(S \cup {x}) /\ Len(r) = n + 1 /\ DOMAIN r = 1 .. n + 1
      /\ \A k \in 1 .. n : r[k] = code[k]
      /\ r[n + 1] = x
  BY <1>5, <1>6, <1>7
<1>9. CodeSound(r)
  <2>1. ASSUME NEW k \in 1 .. n + 1 PROVE Sound(r[k])
    <3>1. CASE k = n + 1
      BY <1>4, <1>8, <3>1
    <3>2. CASE k \in 1 .. n
      BY <1>7, <1>8, <3>2 DEF LaidOut, CodeSound
    <3> QED BY <3>1, <3>2
  <2> QED BY <1>8, <2>1 DEF CodeSound, Listed
<1>10. End(r) = addr + Size(x)
  <2>1. r # <<>>
    <3>1. Len(<<>>) = 0
      OBVIOUS
    <3> QED BY <1>8, <3>1
  <2>2. Last(r) = x
    BY <1>8 DEF Last
  <2> QED BY <1>4, <2>1, <2>2 DEF End
<1>11. CodeSum(r) = CodeSum(code) + Size(x)
  <2>1. PICK p, q : p = [k \in DOMAIN code |-> Size(code[k])] /\ q = [k \in DOMAIN r |-> Size(r[k])]
    OBVIOUS
  <2>2. DOMAIN p = 1 .. n /\ DOMAIN q = 1 .. n + 1 /\ q[n + 1] = Size(x)
    BY <1>7, <1>8, <2>1
  <2>3. \A k \in 1 .. n : q[k] = p[k]
    BY <1>7, <1>8, <2>1
  <2>4. Sum(q) = Sum(p) + q[n + 1]
    BY <2>2, <2>3, SumOfMore
  <2> QED BY <2>1, <2>2, <2>4 DEF CodeSum
<1>12. Place(code, i) = r
  BY <1>1, <1>3, <1>5 DEF Place, PlaceAt
<1> QED BY <1>2, <1>9, <1>10, <1>11, <1>12 DEF LaidOut

LEMMA LayoutSays ==
  ASSUME NEW instrs, CodeSound(instrs)
  PROVE  LaidOut(Layout(instrs))
<1>1. PICK n \in Nat : DOMAIN instrs = 1 .. n
  BY DEF CodeSound, Listed
<1>2. PICK k : RunOf("place", <<>>, instrs, n, k) /\ FoldLeft(Place, <<>>, instrs) = k[n]
  BY <1>1, PlaceFold
<1> DEFINE P == {i \in Nat : i <= n => LaidOut(k[i])}
<1>3. 0 \in P
  <2>1. k[0] = <<>>
    BY <1>2 DEF RunOf
  <2> QED BY <2>1, NoCode
<1>4. ASSUME NEW i \in Nat, i \in P PROVE i + 1 \in P
  <2> SUFFICES ASSUME i + 1 <= n PROVE LaidOut(k[i + 1])
    OBVIOUS
  <2>1. i + 1 \in 1 .. n /\ i + 1 - 1 = i /\ i <= n
    OBVIOUS
  <2>2. k[i + 1] = Applied("place", k[i], instrs[i + 1])
    BY <1>2, <2>1 DEF RunOf
  <2>3. k[i + 1] = Place(k[i], instrs[i + 1])
    BY <2>2 DEF Applied
  <2>4. LaidOut(k[i]) /\ Sound(instrs[i + 1])
    BY <1>1, <1>4, <2>1 DEF CodeSound
  <2> QED BY <2>3, <2>4, PlaceSays
<1>5. n \in P
  <2> HIDE DEF P
  <2> QED BY <1>3, <1>4, NatSetInduction
<1> QED BY <1>2, <1>5 DEF Layout
-----------------------------------------------------------------------------
(* Moving branches changes no length.                                      *)
LEMMA TargetsSay ==
  ASSUME NEW code, CodeSound(code), NEW wanted, NEW after
  PROVE  /\ CodeSound(update_targets(code, wanted, after))
         /\ CodeSum(update_targets(code, wanted, after)) = CodeSum(code)
<1>1. PICK n \in Nat : DOMAIN code = 1 .. n
  BY DEF CodeSound, Listed
<1>2. PICK r : r = update_targets(code, wanted, after)
  OBVIOUS
<1>3. DOMAIN r = 1 .. n /\ r = [k \in 1 .. n |-> r[k]]
  BY <1>1, <1>2 DEF update_targets
<1>4. ASSUME NEW k \in 1 .. n
      PROVE  Sound(r[k]) /\ Size(r[k]) = Size(code[k])
  <2>1. Sound(code[k])
    BY <1>1 DEF CodeSound
  <2>2. CASE ~Moves(code[k], after)
    <3>1. r[k] = code[k]
      BY <1>1, <1>2, <2>2 DEF update_targets
    <3> QED BY <2>1, <3>1
  <2>3. CASE Moves(code[k], after)
    <3>1. PICK taken : taken = Taken(code, k, after)
      OBVIOUS
    <3>2. PICK i : i = code[k]
      OBVIOUS
    <3>3. PICK offs : offs = [j \in DOMAIN i.offs |-> OffsetTo(i, wanted[taken + j])]
      OBVIOUS
    <3>4. r[k] = [i EXCEPT !.offs = offs]
      BY <1>1, <1>2, <2>3, <3>1, <3>2, <3>3 DEF update_targets
    <3>5. PICK m \in Nat : m = Len(i.offs) /\ DOMAIN i.offs = 1 .. m
      BY <2>1, <3>2 DEF Sound, Row
    <3>6. offs = [j \in 1 .. m |-> offs[j]]
      BY <3>3, <3>5
    <3>7. Row(offs) /\ Len(offs) = m
      BY <3>6, ListMade
    <3>8. DOMAIN r[k] = InstrParts /\ r[k].op = i.op /\ r[k].addr = i.addr /\ r[k].offs = offs
      BY <2>1, <3>2, <3>4 DEF Sound, InstrParts
    <3>9. Sound(r[k])
      BY <2>1, <3>2, <3>7, <3>8 DEF Sound
    <3>10. Size(r[k]) = Size(i)
      <4>1. PICK j : j = r[k]
        OBVIOUS
      <4>2. j.op = i.op /\ j.addr = i.addr /\ Len(j.offs) = Len(i.offs)
        BY <3>5, <3>7, <3>8, <4>1
      <4>3. Size(j) = Size(i)
        BY <4>2, InstrSizeSame
      <4> QED BY <4>1, <4>3
    <3> QED BY <3>2, <3>9, <3>10
  <2> QED BY <2>2, <2>3
<1>5. CodeSound(r)
  BY <1>3, <1>4, ListMade DEF CodeSound
<1>6. [k \in DOMAIN r |-> Size(r[k])] = [k \in DOMAIN code |-> Size(code[k])]
  BY <1>1, <1>3, <1>4
<1>7. CodeSum(r) = CodeSum(code)
  BY <1>6 DEF CodeSum
<1> QED BY <1>2, <1>5, <1>7

LEMMA OpenedSound ==
  ASSUME NEW code, CodeSound(code), NEW new, CodeSound(new), NEW k \in 0 .. Len(code)
  PROVE  CodeSound(Opened(code, k, new))
<1>1. CASE k = 0
  BY <1>1 DEF Opened
<1>2. CASE k # 0
  <2>1. PICK S, T : code \in Seq(S) /\ new \in Seq(T)
    BY DEF CodeSound, Listed
  <2>2. PICK U : U = {i \in S \cup T : Sound(i)}
    OBVIOUS
  <2>3. \A j \in DOMAIN code : code[j] \in U
    BY <2>1, <2>2 DEF CodeSound
  <2>4. \A j \in DOMAIN new : new[j] \in U
    BY <2>1, <2>2 DEF CodeSound
  <2>5. code \in Seq(U)
    BY <2>1, <2>3
  <2>6. new \in Seq(U)
    BY <2>1, <2>4
  <2>7. PICK r : r = SubSeq(code, 1, k - 1) \o new \o SubSeq(code, k, Len(code))
    OBVIOUS
  <2>8. r \in Seq(U)
    <3>1. k \in 1 .. Len(code) /\ Len(code) \in Nat
      BY <1>2, <2>5
    <3>2. SubSeq(code, 1, k - 1) \in Seq(U)
      BY <2>5, <3>1
    <3>3. SubSeq(code, k, Len(code)) \in Seq(U)
      BY <2>5, <3>1
    <3> QED BY <2>6, <2>7, <3>2, <3>3
  <2>9. \A j \in DOMAIN r : r[j] \in U
    BY <2>8
  <2>10. CodeSound(r)
    BY <2>2, <2>8, <2>9 DEF CodeSound, Listed
  <2> QED BY <1>2, <2>7, <2>10 DEF Opened
<1> QED BY <1>1, <1>2
-----------------------------------------------------------------------------
LEMMA FrameMoved ==
  ASSUME NEW f, {"size", "delta"} \subseteq DOMAIN f, f.size \in Int, NEW delta
  PROVE  {"size", "delta"} \subseteq DOMAIN adjust_offset(f, delta) /\ adjust_offset(f, delta).size \in Int
<1>1. PICK x : x = adjust_offset(f, delta)
  OBVIOUS
<1>2. PICK d : d = Int16(delta)
  OBVIOUS
<1>3. \/ x = [kind |-> "same_extended", delta |-> delta, items |-> <<>>, size |-> -1]
      \/ x = f
      \/ x = [f EXCEPT !.delta = d]
  BY <1>1, <1>2 DEF adjust_offset, Frame, Unset
<1>4. {"size", "delta"} \subseteq DOMAIN x /\ x.size \in Int
  BY <1>3
<1> QED BY <1>1, <1>4

LEMMA FramesMoved ==
  ASSUME NEW fs, FramesSound(fs), NEW targets
  PROVE  FramesSound(adjust_frames(fs, targets))
<1>1. PICK to : to = SetToSortSeq(targets, <)
  OBVIOUS
<1>2. PICK r : r = adjust_frames(fs, targets)
  OBVIOUS
<1>3. PICK n \in Nat : DOMAIN fs = 1 .. n
  BY DEF FramesSound, Row
<1>4. DOMAIN r = 1 .. n /\ r = [k \in 1 .. n |-> r[k]]
  BY <1>2, <1>3 DEF adjust_frames
<1>5. ASSUME NEW k \in 1 .. n
      PROVE  {"size", "delta"} \subseteq DOMAIN r[k] /\ r[k].size \in Int
  <2>1. PICK delta : r[k] = adjust_offset(fs[k], delta)
    BY <1>2, <1>3 DEF adjust_frames
  <2> QED BY <1>3, <2>1, FrameMoved DEF FramesSound
<1>6. Row(r)
  BY <1>4, ListMade
<1> QED BY <1>2, <1>4, <1>5, <1>6 DEF FramesSound

(* Inserting keeps this, wherever it is done.                              *)
LEMMA InsertSized ==
  ASSUME NEW m, NEW n, Sized(m, n), NEW new, CodeSound(new), NEW at, NEW sticky
  PROVE  Sized(InsertInto(m, at, new, sticky), n)
<1>1. PICK k : k = SelectInSeq(m.code, LAMBDA i : i.addr = at)
  OBVIOUS
<1>2. k \in 0 .. Len(m.code)
  <2>1. PICK T : T = {i \in 1 .. Len(m.code) : m.code[i].addr = at}
    OBVIOUS
  <2>2. k = IF T # {} THEN Min(T) ELSE 0
    BY <1>1, <2>1 DEF SelectInSeq
  <2>3. Len(m.code) \in Nat
    BY ListedRow DEF Sized, CodeSound, Row
  <2>4. T \subseteq Nat
    BY <2>1, <2>3
  <2>5. T # {} => Min(T) \in T
    BY <2>4, FirstOne
  <2> QED BY <2>1, <2>2, <2>3, <2>5
<1>3. PICK laid : laid = Layout(Opened(m.code, k, new))
  OBVIOUS
<1>4. LaidOut(laid)
  BY <1>2, <1>3, OpenedSound, LayoutSays DEF Sized
<1>5. PICK moved : moved = NewAddresses(m.code, laid, k, sticky)
  OBVIOUS
<1>6. PICK r : r = Redirect(m, laid, moved)
  OBVIOUS
<1>7. Sized(r, n)
  <2>1. PICK w : w = [j \in DOMAIN AllTargets(m.code) |-> NewAddr(moved, AllTargets(m.code)[j])]
    OBVIOUS
  <2>2. PICK code : code = update_targets(laid, w, 0)
    OBVIOUS
  <2>3. PICK es : es = [j \in DOMAIN m.exceptions |-> update_exception(m.exceptions[j], moved)]
    OBVIOUS
  <2>4. r = [m EXCEPT !.code = code, !.codeLength = End(laid), !.exceptions = es]
    BY <1>6, <2>1, <2>2, <2>3 DEF Redirect
  <2>5. CodeSound(code) /\ CodeSum(code) = End(laid)
    BY <1>4, <2>2, TargetsSay DEF LaidOut
  <2>6. Row(es) /\ Len(es) = n
    <3>1. n \in Nat /\ DOMAIN m.exceptions = 1 .. n
      BY DEF Sized, Row
    <3>2. es = [j \in 1 .. n |-> es[j]]
      BY <2>3, <3>1
    <3> QED BY <3>1, <3>2, ListMade
  <2>7. /\ DOMAIN r = MethodParts /\ r.code = code /\ r.codeLength = End(laid) /\ r.exceptions = es
        /\ r.frames = m.frames /\ r.attributes = m.attributes /\ r.codeAttributes = m.codeAttributes
    BY <2>4 DEF Sized, MethodParts
  <2> QED BY <2>5, <2>6, <2>7 DEF Sized
<1>8. PICK s : s = AdjustFrames(r)
  OBVIOUS
<1>9. Sized(s, n)
  <2>1. PICK targets : targets = FrameTargets(r.code, r.exceptions)
    OBVIOUS
  <2>2. PICK fs : fs = IF Len(r.frames) = Cardinality(targets) THEN adjust_frames(r.frames, targets) ELSE r.frames
    OBVIOUS
  <2>3. FramesSound(fs)
    BY <1>7, <2>2, FramesMoved DEF Sized
  <2>4. PICK e : e = (Len(r.frames) # Cardinality(targets))
    OBVIOUS
  <2>5. s = [r EXCEPT !.frames = fs, !.ended = e]
    BY <1>8, <2>1, <2>2, <2>4 DEF AdjustFrames, AdjustTo
  <2>6. /\ DOMAIN s = MethodParts /\ s.code = r.code /\ s.codeLength = r.codeLength
        /\ s.exceptions = r.exceptions /\ s.frames = fs /\ s.attributes = r.attributes
        /\ s.codeAttributes = r.codeAttributes
    BY <1>7, <2>5 DEF Sized, MethodParts
  <2> QED BY <1>7, <2>3, <2>6 DEF Sized
<1>10. InsertInto(m, at, new, sticky) = s
  BY <1>1, <1>3, <1>5, <1>6, <1>8 DEF InsertInto
<1> QED BY <1>9, <1>10

LEMMA AddSized ==
  ASSUME NEW m, NEW n, Sized(m, n), NEW new, CodeSound(new), NEW at, NEW sticky
  PROVE  Sized(add_instructions(m, at, new, sticky), n)
<1>1. PICK long : long = Sum([k \in DOMAIN new |-> Size(new[k])])
  OBVIOUS
<1>2. PICK r : r = [m EXCEPT !.code = new, !.codeLength = long]
  OBVIOUS
<1>3. Sized(r, n)
  <2>1. /\ DOMAIN r = MethodParts /\ r.code = new /\ r.codeLength = long
        /\ r.exceptions = m.exceptions /\ r.frames = m.frames /\ r.attributes = m.attributes
        /\ r.codeAttributes = m.codeAttributes
    BY <1>2 DEF Sized, MethodParts
  <2> QED BY <1>1, <2>1 DEF Sized, CodeSum
<1>4. \/ add_instructions(m, at, new, sticky) = m
      \/ add_instructions(m, at, new, sticky) = r
      \/ add_instructions(m, at, new, sticky) = InsertInto(m, at, new, sticky)
  BY <1>1, <1>2 DEF add_instructions
<1> QED BY <1>3, <1>4, InsertSized
-----------------------------------------------------------------------------
LEMMA ExitsListed ==
  ASSUME NEW code, CodeSound(code)
  PROVE  Listed(get_return_addresses(code))
<1>1. PICK n \in Nat : DOMAIN code = 1 .. n
  BY DEF CodeSound, Listed
<1>2. PICK base : base = [last |-> 0, exits |-> <<>>]
  OBVIOUS
<1>3. PICK k : RunOf("exit", base, code, n, k) /\ FoldLeft(WithExit, base, code) = k[n]
  BY <1>1, ExitFold
<1> DEFINE P == {i \in Nat : i <= n => Listed(k[i].exits)}
<1>4. 0 \in P
  <2>1. k[0].exits = <<>>
    BY <1>2, <1>3 DEF RunOf
  <2>2. <<>> \in Seq({})
    OBVIOUS
  <2> QED BY <2>1, <2>2 DEF Listed
<1>5. ASSUME NEW i \in Nat, i \in P PROVE i + 1 \in P
  <2> SUFFICES ASSUME i + 1 <= n PROVE Listed(k[i + 1].exits)
    OBVIOUS
  <2>1. i + 1 \in 1 .. n /\ i + 1 - 1 = i /\ i <= n
    OBVIOUS
  <2>2. k[i + 1] = Applied("exit", k[i], code[i + 1])
    BY <1>3, <2>1 DEF RunOf
  <2>3. PICK a, x : a = ExitAt(k[i].last, code[i + 1]) /\ x = k[i].exits
    OBVIOUS
  <2>4. k[i + 1].exits = <<a>> \o x \/ k[i + 1].exits = x
    BY <2>2, <2>3 DEF Applied, WithExit
  <2>5. PICK S : x \in Seq(S)
    BY <1>5, <2>1, <2>3 DEF Listed
  <2>6. x \in Seq(S \cup {a}) /\ <<a>> \in Seq(S \cup {a})
    BY <2>5
  <2>7. <<a>> \o x \in Seq(S \cup {a})
    BY <2>6
  <2> QED BY <2>4, <2>6, <2>7 DEF Listed
<1>6. n \in P
  <2> HIDE DEF P
  <2> QED BY <1>4, <1>5, NatSetInduction
<1> QED BY <1>2, <1>3, <1>6 DEF get_return_addresses

LEMMA PlacesSay ==
  ASSUME NEW code, CodeSound(code), NEW step, StepSound(step)
  PROVE  /\ Row(Places(code, step))
         /\ \A k \in DOMAIN Places(code, step) : Places(code, step)[k].call = step.call
<1>1. PICK call : call = step.call
  OBVIOUS
<1>2. Row(AtEntry(call)) /\ \A k \in DOMAIN AtEntry(call) : AtEntry(call)[k].call = call
  BY DEF AtEntry, PlaceOf, Row
<1>3. Row(AfterInit(call)) /\ \A k \in DOMAIN AfterInit(call) : AfterInit(call)[k].call = call
  BY DEF AfterInit, PlaceOf, Row
<1>4. Row(AtExits(code, call)) /\ \A k \in DOMAIN AtExits(code, call) : AtExits(code, call)[k].call = call
  <2>1. PICK at : at = get_return_addresses(code)
    OBVIOUS
  <2>2. Listed(at)
    BY <2>1, ExitsListed
  <2>3. PICK n \in Nat : DOMAIN at = 1 .. n
    BY <2>2 DEF Listed
  <2>4. PICK r : r = [k \in DOMAIN at |-> PlaceOf(at[k], call, k > 1)]
    OBVIOUS
  <2>5. AtExits(code, call) = r
    BY <2>1, <2>4 DEF AtExits
  <2>6. r = [k \in 1 .. n |-> r[k]]
    BY <2>3, <2>4
  <2>7. Row(r)
    BY <2>6, ListMade
  <2>8. \A k \in DOMAIN r : r[k].call = call
    BY <2>4 DEF PlaceOf
  <2> QED BY <2>5, <2>7, <2>8
<1>5. \/ Places(code, step) = AtEntry(call)
      \/ Places(code, step) = AfterInit(call)
      \/ Places(code, step) = AtExits(code, call)
  BY <1>1 DEF Places, StepSound
<1> QED BY <1>1, <1>2, <1>3, <1>4, <1>5

LEMMA StepSized ==
  ASSUME NEW m, NEW n, Sized(m, n), NEW step, StepSound(step)
  PROVE  Sized(Insert(m, step), n)
<1>1. PICK q : q = Places(m.code, step)
  OBVIOUS
<1>2. Row(q) /\ \A k \in DOMAIN q : q[k].call = step.call
  BY <1>1, PlacesSay DEF Sized
<1>3. PICK l \in Nat : DOMAIN q = 1 .. l
  BY <1>2 DEF Row
<1>4. PICK k : RunOf("into", m, q, l, k) /\ FoldLeft(WithPlace, m, q) = k[l]
  BY <1>3, IntoFold
<1> DEFINE P == {i \in Nat : i <= l => Sized(k[i], n)}
<1>5. 0 \in P
  BY <1>4 DEF RunOf
<1>6. ASSUME NEW i \in Nat, i \in P PROVE i + 1 \in P
  <2> SUFFICES ASSUME i + 1 <= l PROVE Sized(k[i + 1], n)
    OBVIOUS
  <2>1. i + 1 \in 1 .. l /\ i + 1 - 1 = i /\ i <= l
    OBVIOUS
  <2>2. k[i + 1] = Applied("into", k[i], q[i + 1])
    BY <1>4, <2>1 DEF RunOf
  <2>3. k[i + 1] = add_instructions(k[i], q[i + 1].at, q[i + 1].call, q[i + 1].sticky)
    BY <2>2 DEF Applied, WithPlace
  <2>4. Sized(k[i], n) /\ CodeSound(q[i + 1].call)
    BY <1>2, <1>3, <1>6, <2>1 DEF StepSound
  <2> QED BY <2>3, <2>4, AddSized
<1>7. l \in P
  <2> HIDE DEF P
  <2> QED BY <1>5, <1>6, NatSetInduction
<1> QED BY <1>1, <1>4, <1>7 DEF Insert

LEMMA NoSteps == StepsSound(<<>>)
<1>1. PICK q, S : q = <<>> /\ S = {}
  OBVIOUS
<1>2. q \in Seq(S) /\ \A step \in S : StepSound(step)
  BY <1>1
<1>3. StepsSound(q)
  BY <1>2 DEF StepsSound
<1> QED BY <1>1, <1>3

LEMMA OneStep ==
  ASSUME NEW step, StepSound(step)
  PROVE  StepsSound(<<step>>)
<1>1. PICK q, S : q = <<step>> /\ S = {step}
  OBVIOUS
<1>2. q \in Seq(S) /\ \A x \in S : StepSound(x)
  BY <1>1
<1>3. StepsSound(q)
  BY <1>2 DEF StepsSound
<1> QED BY <1>1, <1>3

LEMMA MoreSteps ==
  ASSUME NEW a, NEW b, StepsSound(a), StepsSound(b)
  PROVE  StepsSound(a \o b)
<1>1. PICK S : a \in Seq(S) /\ \A step \in S : StepSound(step)
  BY DEF StepsSound
<1>2. PICK T : b \in Seq(T) /\ \A step \in T : StepSound(step)
  BY DEF StepsSound
<1>3. a \o b \in Seq(S \cup T)
  BY <1>1, <1>2
<1> QED BY <1>1, <1>2, <1>3 DEF StepsSound

LEMMA InstructionSound ==
  ASSUME NEW op \in {"aload_0", "invokestatic", "ldc", "invokevirtual"}, NEW arg, NEW part
  PROVE  Sound(Instruction(op, arg, part))
<1>1. op \in DOMAIN opcodesTxt
  BY DEF opcodesTxt, OneByte, TwoByte, ThreeByte
<1>2. Row(<<>>)
  BY DEF Row
<1> QED BY <1>1, <1>2 DEF Sound, Instruction, InstrParts

LEMMA GroupSound ==
  ASSUME NEW n \in Nat, NEW ops, DOMAIN ops = 1 .. n,
         \A k \in 1 .. n : ops[k] \in {"aload_0", "invokestatic", "ldc", "invokevirtual"},
         NEW args
  PROVE  CodeSound(Group(ops, args))
<1>1. PICK r : r = Group(ops, args)
  OBVIOUS
<1>2. DOMAIN r = 1 .. n /\ r = [k \in 1 .. n |-> r[k]]
  BY <1>1 DEF Group
<1>3. \A k \in 1 .. n : Sound(r[k])
  <2> TAKE k \in 1 .. n
  <2>1. r[k] = Instruction(ops[k], args[k], k)
    BY <1>1 DEF Group
  <2> QED BY <2>1, InstructionSound
<1>4. Listed(r)
  BY <1>2, ListMade
<1> QED BY <1>1, <1>2, <1>3, <1>4 DEF CodeSound

LEMMA InsertionsSound ==
  ASSUME NEW flags, NEW ids
  PROVE  StepsSound(Insertions(flags, ids))
<1>1. PICK call : call = SignalCall(ids[1])
  OBVIOUS
<1>2. CodeSound(call)
  <2>1. PICK ops : ops = <<"aload_0", "invokestatic">>
    OBVIOUS
  <2>2. DOMAIN ops = 1 .. 2 /\ \A k \in 1 .. 2 : ops[k] \in {"aload_0", "invokestatic", "ldc", "invokevirtual"}
    BY <2>1
  <2>3. call = Group(ops, <<0, ids[1]>>)
    BY <1>1, <2>1 DEF SignalCall
  <2> QED BY <2>2, <2>3, GroupSound
<1>3. ASSUME NEW which PROVE CodeSound(TimerCall(which, ids[4], ids[5], ids[6], ids[1]))
  <2>1. PICK ops : ops = <<"invokestatic", "ldc", "invokestatic", "invokevirtual", "invokestatic">>
    OBVIOUS
  <2>2. DOMAIN ops = 1 .. 5 /\ \A k \in 1 .. 5 : ops[k] \in {"aload_0", "invokestatic", "ldc", "invokevirtual"}
    BY <2>1
  <2>3. PICK args : args = <<ids[4], which % 256, ids[5], ids[6], ids[1]>>
    OBVIOUS
  <2>4. TimerCall(which, ids[4], ids[5], ids[6], ids[1]) = Group(ops, args)
    BY <2>1, <2>3 DEF TimerCall
  <2> QED BY <2>2, <2>4, GroupSound
<1>4. PICK begin, end : /\ begin = TimerCall(ids[2], ids[4], ids[5], ids[6], ids[1])
                        /\ end = TimerCall(ids[3], ids[4], ids[5], ids[6], ids[1])
  OBVIOUS
<1>5. CodeSound(begin) /\ CodeSound(end)
  BY <1>3, <1>4
<1>6. PICK init, entry, exits, first, last :
        /\ init  = <<[where |-> "init", call |-> call]>>
        /\ entry = <<[where |-> "entry", call |-> call]>>
        /\ exits = <<[where |-> "exits", call |-> call]>>
        /\ first = <<[where |-> "entry", call |-> begin]>>
        /\ last  = <<[where |-> "exits", call |-> end]>>
  OBVIOUS
<1>7. ASSUME NEW where \in {"entry", "init", "exits"}, NEW c, CodeSound(c)
      PROVE  StepsSound(<<[where |-> where, call |-> c]>>)
  <2>1. PICK step : step = [where |-> where, call |-> c]
    OBVIOUS
  <2>2. StepSound(step)
    BY <1>7, <2>1 DEF StepSound
  <2> QED BY <2>1, <2>2, OneStep
<1>8. /\ StepsSound(init) /\ StepsSound(entry) /\ StepsSound(exits)
      /\ StepsSound(first) /\ StepsSound(last)
  BY <1>2, <1>5, <1>6, <1>7
<1>9. PICK a, b, c : /\ a = (IF "ENTER" \in flags THEN entry ELSE <<>>)
                     /\ b = (IF "EXIT" \in flags THEN exits ELSE <<>>)
                     /\ c = (IF IsTimer(flags) THEN first \o last ELSE <<>>)
  OBVIOUS
<1>10. StepsSound(a) /\ StepsSound(b) /\ StepsSound(c)
  <2>1. StepsSound(first \o last)
    BY <1>8, MoreSteps
  <2> QED BY <1>8, <1>9, <2>1, NoSteps
<1>11. StepsSound(a \o b \o c)
  <2>1. StepsSound(a \o b)
    BY <1>10, MoreSteps
  <2> QED BY <1>10, <2>1, MoreSteps
<1>12. Insertions(flags, ids) = (IF IsHeap(flags) THEN init ELSE a \o b \o c)
  BY <1>1, <1>4, <1>6, <1>9 DEF Insertions
<1> QED BY <1>8, <1>11, <1>12

LEMMA UpdateSized ==
  ASSUME NEW m, NEW n, Sized(m, n), NEW pool, NEW flags, NEW callTo
  PROVE  Sized(update_method(m, pool, flags, callTo).method, n)
<1>1. PICK called : called = WithMethod([pool |-> pool, ids |-> <<>>], callTo)
  OBVIOUS
<1>2. PICK needed : needed = IF IsTimer(flags) THEN AddTimer(called) ELSE called
  OBVIOUS
<1>3. PICK q : q = Insertions(flags, needed.ids)
  OBVIOUS
<1>4. PICK S : q \in Seq(S) /\ \A step \in S : StepSound(step)
  BY <1>3, InsertionsSound DEF StepsSound
<1>5. PICK l \in Nat : DOMAIN q = 1 .. l
  BY <1>4
<1>6. PICK k : RunOf("insert", m, q, l, k) /\ FoldLeft(Insert, m, q) = k[l]
  BY <1>5, InsertFold
<1> DEFINE P == {i \in Nat : i <= l => Sized(k[i], n)}
<1>7. 0 \in P
  BY <1>6 DEF RunOf
<1>8. ASSUME NEW i \in Nat, i \in P PROVE i + 1 \in P
  <2> SUFFICES ASSUME i + 1 <= l PROVE Sized(k[i + 1], n)
    OBVIOUS
  <2>1. i + 1 \in 1 .. l /\ i + 1 - 1 = i /\ i <= l
    OBVIOUS
  <2>2. k[i + 1] = Applied("insert", k[i], q[i + 1])
    BY <1>6, <2>1 DEF RunOf
  <2>3. k[i + 1] = Insert(k[i], q[i + 1])
    BY <2>2 DEF Applied
  <2>4. Sized(k[i], n) /\ StepSound(q[i + 1])
    BY <1>4, <1>5, <1>8, <2>1
  <2> QED BY <2>3, <2>4, StepSized
<1>9. l \in P
  <2> HIDE DEF P
  <2> QED BY <1>7, <1>8, NatSetInduction
<1>10. PICK r : r = k[l]
  OBVIOUS
<1>11. Sized(r, n)
  BY <1>9, <1>10
<1>12. Sized(Raised(r, flags), n)
  <2>1. PICK d : Raised(r, flags) = [r EXCEPT !.maxStack = d]
    BY DEF Raised
  <2>2. PICK s : s = [r EXCEPT !.maxStack = d]
    OBVIOUS
  <2>3. /\ DOMAIN s = MethodParts /\ s.code = r.code /\ s.codeLength = r.codeLength
        /\ s.exceptions = r.exceptions /\ s.frames = r.frames /\ s.attributes = r.attributes
        /\ s.codeAttributes = r.codeAttributes
    BY <1>11, <2>2 DEF Sized, MethodParts
  <2>4. Sized(s, n)
    BY <1>11, <2>3 DEF Sized
  <2> QED BY <2>1, <2>2, <2>4
<1>13. update_method(m, pool, flags, callTo).method = Raised(r, flags)
  BY <1>1, <1>2, <1>3, <1>6, <1>10 DEF update_method
<1> QED BY <1>12, <1>13
-----------------------------------------------------------------------------
(* What a method has when it is read.                                      *)
LEMMA SetRow ==
  ASSUME NEW S, IsFiniteSet(S)
  PROVE  Cardinality(S) \in Nat /\ SetToSeq(S) \in [1 .. Cardinality(S) -> S]
<1>1. PICK n \in Nat : n = Cardinality(S) /\ ExistsBijection(1 .. n, S)
  BY FS_CardinalityType
<1>2. \E x \in [1 .. n -> S] : IsInjective(x)
  BY <1>1 DEF ExistsBijection, Bijection, Injection
<1> QED BY <1>1, <1>2 DEF SetToSeq

LEMMA AttributesInt ==
  ASSUME NEW f, IsFiniteSet(DOMAIN f), \A x \in DOMAIN f : f[x] \in Nat
  PROVE  AttributesBytes(f) \in Int
<1>1. PICK n \in Nat : n = Cardinality(DOMAIN f) /\ SetToSeq(DOMAIN f) \in [1 .. n -> DOMAIN f]
  BY SetRow
<1>2. PICK q : q = [i \in 1 .. n |-> HeaderSize + f[SetToSeq(DOMAIN f)[i]]]
  OBVIOUS
<1>3. DOMAIN q = 1 .. n /\ \A i \in 1 .. n : q[i] \in Int
  BY <1>1, <1>2 DEF HeaderSize
<1> QED BY <1>1, <1>2, <1>3, SumOfInts DEF AttributesBytes

LEMMA NoAttributes == AttributesBytes(<<>>) \in Int
<1>1. IsFiniteSet(DOMAIN <<>>)
  BY FS_EmptySet
<1> QED BY <1>1, AttributesInt

LEMMA LoadedAttributes ==
  ASSUME NEW attrs, InRow(attrs), \A a \in ToSet(attrs) : a.len \in Nat
  PROVE  AttributesBytes(load_attributes(attrs)) \in Int
<1>1. PICK n \in Nat : DOMAIN attrs = 1 .. n
  BY DEF InRow
<1>2. \A i \in 1 .. n : attrs[i].len \in Nat
  BY <1>1 DEF ToSet
<1>3. PICK f : f = load_attributes(attrs)
  OBVIOUS
<1>4. DOMAIN f = {attrs[i].name : i \in 1 .. n}
  BY <1>1, <1>3 DEF load_attributes
<1>5. IsFiniteSet(DOMAIN f)
  <2>1. IsFiniteSet(1 .. n)
    BY FS_Interval
  <2>2. PICK name : name = [i \in 1 .. n |-> attrs[i].name]
    OBVIOUS
  <2>3. name \in Surjection(1 .. n, DOMAIN f)
    BY <1>4, <2>2 DEF Surjection
  <2> QED BY <2>1, <2>3, FS_Surjection
<1>6. \A x \in DOMAIN f : f[x] \in Nat
  <2> TAKE x \in DOMAIN f
  <2>1. PICK s : s = {i \in 1 .. n : attrs[i].name = x}
    OBVIOUS
  <2>2. s \in SUBSET (1 .. n) /\ s # {}
    BY <1>4, <2>1
  <2>3. Max(s) \in 1 .. n
    BY <2>2, LastOne
  <2>4. f[x] = attrs[Max(s)].len
    BY <1>1, <1>3, <2>1 DEF load_attributes
  <2> QED BY <1>2, <2>3, <2>4
<1> QED BY <1>3, <1>5, <1>6, AttributesInt

LEMMA LoadedFrame ==
  ASSUME NEW f, f.ftype \in 0 .. 255, InRow(f.items), FrameKnown(f)
  PROVE  {"size", "delta"} \subseteq DOMAIN load_frame(f) /\ load_frame(f).size \in Int
<1>1. PICK n \in Nat : DOMAIN f.items = 1 .. n
  BY DEF InRow
<1>2. ItemsSize(f.items) \in Int
  <2>1. PICK q : q = [i \in DOMAIN f.items |-> ItemSize(f.items[i])]
    OBVIOUS
  <2>2. DOMAIN q = 1 .. n /\ \A i \in 1 .. n : q[i] \in Int
    BY <1>1, <2>1 DEF ItemSize
  <2> QED BY <2>1, <2>2, SumOfInts DEF ItemsSize
<1>3. PICK size : size = ItemsSize(f.items)
  OBVIOUS
<1>4. f.ftype \in (0 .. 63) \cup (64 .. 127) \cup (248 .. 250) \cup {251} \cup (252 .. 254) \cup {255}
  BY DEF FrameKnown
<1>5. \E kind, delta, items, long : load_frame(f) = Frame(kind, delta, items, long) /\ long \in {1, 3, 1 + size, 3 + size, 7 + size}
  BY <1>3, <1>4 DEF load_frame, SameFrame, SameFrameExtended, SameLocalsOneStackFrame, AppendFrame, ChopFrame, FullFrame
<1> QED BY <1>2, <1>3, <1>5 DEF Frame

LEMMA LoadedInstruction ==
  ASSUME NEW i, Known(i.op), i.addr \in Nat, InRow(i.offs)
  PROVE  Sound(load_instruction(i))
<1>1. Row(i.offs)
  BY DEF InRow, Row
<1>2. PICK none : none = [k \in DOMAIN i.offs |-> 0]
  OBVIOUS
<1>3. Row(none)
  <2>1. PICK n \in Nat : DOMAIN i.offs = 1 .. n
    BY <1>1 DEF Row
  <2>2. none = [k \in 1 .. n |-> none[k]]
    BY <1>2, <2>1
  <2> QED BY <2>2, ListMade
<1>4. PICK x : x = load_instruction(i)
  OBVIOUS
<1>5. DOMAIN x = InstrParts /\ x.op = i.op /\ x.addr = i.addr /\ (x.offs = i.offs \/ x.offs = none)
  BY <1>2, <1>4 DEF load_instruction, InstrParts
<1>6. Sound(x)
  BY <1>1, <1>3, <1>5 DEF Sound, Known
<1> QED BY <1>4, <1>6

LEMMA LoadedSized ==
  ASSUME NEW f, IsMethodFile(f), MethodFate(f) = "running"
  PROVE  Sized(load_method(f), Len(f.exceptions))
<1>0. InRow(f.code) /\ InRow(f.exceptions) /\ InRow(f.frames)
  BY DEF IsMethodFile
<1>1. CodeKnown(f) /\ InStep(f)
  BY DEF MethodFate
<1>2. PICK code : code = [i \in DOMAIN f.code |-> load_instruction(f.code[i])]
  OBVIOUS
<1>3. PICK n \in Nat : DOMAIN f.code = 1 .. n
  BY <1>0 DEF InRow
<1>4. CodeSound(code)
  <2>1. DOMAIN code = 1 .. n /\ code = [i \in 1 .. n |-> code[i]]
    BY <1>2, <1>3
  <2>2. \A i \in 1 .. n : Sound(code[i])
    <3> TAKE i \in 1 .. n
    <3>1. f.code[i] \in ToSet(f.code)
      BY <1>3 DEF ToSet
    <3>2. Known(f.code[i].op) /\ f.code[i].addr \in Nat /\ InRow(f.code[i].offs)
      BY <1>1, <1>3, <3>1 DEF IsMethodFile, CodeKnown
    <3>3. code[i] = load_instruction(f.code[i])
      BY <1>2, <1>3
    <3> QED BY <3>2, <3>3, LoadedInstruction
  <2> QED BY <2>1, <2>2, ListMade DEF CodeSound
<1>5. PICK long : long = Sum([i \in DOMAIN f.code |-> f.code[i].bytes])
  OBVIOUS
<1>6. long = CodeSum(code)
  <2>1. [i \in DOMAIN f.code |-> f.code[i].bytes] = [i \in DOMAIN code |-> Size(code[i])]
    BY <1>1, <1>2 DEF InStep
  <2> QED BY <1>5, <2>1 DEF CodeSum
<1>7. PICK fs : fs = IF f.table THEN load_frames_from_buffer(f.frames) ELSE <<>>
  OBVIOUS
<1>8. FramesSound(fs)
  <2>1. PICK all_ : all_ = load_frames_from_buffer(f.frames)
    OBVIOUS
  <2>2. PICK l \in Nat : DOMAIN f.frames = 1 .. l
    BY <1>0 DEF InRow
  <2>3. DOMAIN all_ = 1 .. l /\ all_ = [i \in 1 .. l |-> all_[i]]
    BY <2>1, <2>2 DEF load_frames_from_buffer
  <2>4. \A i \in 1 .. l : {"size", "delta"} \subseteq DOMAIN all_[i] /\ all_[i].size \in Int
    <3> TAKE i \in 1 .. l
    <3>1. f.frames[i] \in ToSet(f.frames)
      BY <2>2 DEF ToSet
    <3>2. f.frames[i].ftype \in 0 .. 255 /\ InRow(f.frames[i].items) /\ FrameKnown(f.frames[i])
      BY <1>1, <2>2, <3>1 DEF IsMethodFile, CodeKnown
    <3>3. all_[i] = load_frame(f.frames[i])
      BY <2>1, <2>2 DEF load_frames_from_buffer
    <3> QED BY <3>2, <3>3, LoadedFrame
  <2>5. FramesSound(all_)
    <3>1. Row(all_)
      BY <2>3, ListMade
    <3> QED BY <2>3, <2>4, <3>1 DEF FramesSound
  <2>6. FramesSound(<<>>)
    BY DEF FramesSound, Row
  <2> QED BY <1>7, <2>1, <2>5, <2>6
<1>9. PICK as, cs : as = load_attributes(f.attrs) /\ cs = load_attributes(f.codeAttrs)
  OBVIOUS
<1>10. AttributesBytes(as) \in Int /\ AttributesBytes(cs) \in Int
  <2>1. InRow(f.attrs) /\ \A a \in ToSet(f.attrs) : a.len \in Nat
    BY DEF IsMethodFile
  <2>2. InRow(f.codeAttrs) /\ \A a \in ToSet(f.codeAttrs) : a.len \in Nat
    BY DEF IsMethodFile
  <2> QED BY <1>9, <2>1, <2>2, LoadedAttributes
<1>11. PICK m : m = load_method(f)
  OBVIOUS
<1>12. /\ DOMAIN m = MethodParts /\ m.code = code /\ m.codeLength = long
       /\ m.exceptions = f.exceptions /\ m.frames = fs /\ m.attributes = as
       /\ m.codeAttributes = cs
  BY <1>2, <1>5, <1>7, <1>9, <1>11 DEF load_method, MethodInfo, MethodParts
<1>13. Row(f.exceptions)
  BY <1>0 DEF InRow, Row
<1> QED BY <1>4, <1>6, <1>8, <1>10, <1>11, <1>12, <1>13 DEF Sized

LEMMA NativeSized ==
  ASSUME NEW key
  PROVE  Sized(MethodInfo(key), 0)
<1>1. PICK m : m = MethodInfo(key)
  OBVIOUS
<1>2. /\ DOMAIN m = MethodParts /\ m.code = <<>> /\ m.codeLength = 0
      /\ m.exceptions = <<>> /\ m.frames = <<>> /\ m.attributes = <<>>
      /\ m.codeAttributes = <<>>
  BY <1>1 DEF MethodInfo, MethodParts
<1>3. CodeSound(<<>>) /\ CodeSum(<<>>) = 0
  <2>1. End(<<>>) = 0
    BY DEF End
  <2> QED BY <2>1, NoCode DEF LaidOut
<1>4. Row(<<>>) /\ Len(<<>>) = 0 /\ FramesSound(<<>>)
  BY DEF FramesSound, Row
<1> QED BY <1>1, <1>2, <1>3, <1>4, NoAttributes DEF Sized
-----------------------------------------------------------------------------
LEMMA MethodsLoaded ==
  ASSUME NEW ms, InRow(ms),
         \A x \in ToSet(ms) : IsMethodFile(x) /\ MethodFate(x) = "running",
         \A i, j \in DOMAIN ms : ms[i].key = ms[j].key => i = j,
         NEW f, f.methods = load_methods(ms)
  PROVE  ClassSized(ms, f)
<1>1. PICK n \in Nat : DOMAIN ms = 1 .. n
  BY DEF InRow
<1>2. PICK k : RunOf("methods", <<>>, ms, n, k) /\ FoldLeft(WithMethodRead, <<>>, ms) = k[n]
  BY <1>1, MethodsFold
<1>3. ASSUME NEW i \in 1 .. n PROVE Sized(load_method(ms[i]), Len(ms[i].exceptions))
  <2>1. ms[i] \in ToSet(ms)
    BY <1>1 DEF ToSet
  <2> QED BY <2>1, LoadedSized
<1> DEFINE Here(i, j) == /\ ms[j].key \in DOMAIN k[i]
                         /\ Sized(k[i][ms[j].key], Len(ms[j].exceptions))
           Every(i) == \A key \in DOMAIN k[i] : \E l : Sized(k[i][key], l)
           P == {i \in Nat : i <= n => Every(i) /\ \A j \in 1 .. i : Here(i, j)}
<1>4. 0 \in P
  <2>1. DOMAIN k[0] = {}
    BY <1>2 DEF RunOf
  <2> QED BY <2>1
<1>5. ASSUME NEW i \in Nat, i \in P PROVE i + 1 \in P
  <2> SUFFICES ASSUME i + 1 <= n PROVE Every(i + 1) /\ \A j \in 1 .. i + 1 : Here(i + 1, j)
    OBVIOUS
  <2>1. i + 1 \in 1 .. n /\ i + 1 - 1 = i /\ i <= n
    OBVIOUS
  <2>2. PICK key, m, was : key = ms[i + 1].key /\ m = load_method(ms[i + 1]) /\ was = k[i]
    OBVIOUS
  <2>3. k[i + 1] = Applied("methods", k[i], ms[i + 1])
    BY <1>2, <2>1 DEF RunOf
  <2>4. k[i + 1] = Put(was, key, m)
    BY <2>2, <2>3 DEF Applied, WithMethodRead
  <2>5. /\ DOMAIN k[i + 1] = DOMAIN was \cup {key} /\ k[i + 1][key] = m
        /\ \A x \in DOMAIN was : x # key => k[i + 1][x] = was[x]
    BY <2>4 DEF Put
  <2>6. Sized(m, Len(ms[i + 1].exceptions))
    BY <1>3, <2>1, <2>2
  <2>7. Every(i) /\ \A j \in 1 .. i : Here(i, j)
    BY <1>5, <2>1
  <2>8. Every(i + 1)
    BY <2>2, <2>5, <2>6, <2>7
  <2>9. ASSUME NEW j \in 1 .. i + 1 PROVE Here(i + 1, j)
    <3>1. CASE j = i + 1
      BY <2>2, <2>5, <2>6, <3>1
    <3>2. CASE j # i + 1
      <4>1. j \in 1 .. i /\ j \in DOMAIN ms /\ i + 1 \in DOMAIN ms
        BY <1>1, <2>1, <3>2
      <4>2. ms[j].key # key
        BY <2>2, <3>2, <4>1
      <4>3. Here(i, j)
        BY <2>7, <4>1
      <4>4. k[i + 1][ms[j].key] = k[i][ms[j].key] /\ ms[j].key \in DOMAIN k[i + 1]
        BY <2>2, <2>5, <4>2, <4>3
      <4> QED BY <4>3, <4>4
    <3> QED BY <3>1, <3>2
  <2> QED BY <2>8, <2>9
<1>6. n \in P
  <2> HIDE DEF P
  <2> QED BY <1>4, <1>5, NatSetInduction
<1>7. Every(n) /\ \A j \in 1 .. n : Here(n, j)
  BY <1>6
<1>8. f.methods = k[n]
  BY <1>2 DEF load_methods
<1>9. \A x \in ToSet(ms) : \E j \in 1 .. n : x = ms[j]
  BY <1>1 DEF ToSet
<1> QED BY <1>7, <1>8, <1>9 DEF ClassSized

LEMMA AllRunning ==
  ASSUME NEW file, IsClassFile(file), ReadFate(file) = "running"
  PROVE  \A x \in ToSet(file.methods) : MethodFate(x) = "running"
<1>1. PICK ms : ms = file.methods
  OBVIOUS
<1>2. PICK n \in Nat : n = Len(ms) /\ DOMAIN ms = 1 .. n
  BY <1>1 DEF IsClassFile, InRow
<1>3. PICK k : k = SelectInSeq(ms, LAMBDA f : MethodFate(f) # "running")
  OBVIOUS
<1>4. (k = 0) \/ MethodFate(ms[k]) = "running"
  BY <1>1, <1>3 DEF ReadFate
<1>5. PICK T : T = {i \in 1 .. n : MethodFate(ms[i]) # "running"}
  OBVIOUS
<1>6. k = IF T # {} THEN Min(T) ELSE 0
  BY <1>2, <1>3, <1>5 DEF SelectInSeq
<1>7. T = {}
  <2> SUFFICES ASSUME T # {} PROVE FALSE
    OBVIOUS
  <2>1. T \subseteq Nat
    BY <1>5
  <2>2. k \in T
    BY <1>6, <2>1, FirstOne
  <2> QED BY <1>4, <1>5, <2>2
<1>8. \A x \in ToSet(ms) : \E j \in 1 .. n : x = ms[j]
  BY <1>2 DEF ToSet
<1> QED BY <1>1, <1>5, <1>7, <1>8

LEMMA ReadSized ==
  ASSUME NEW p, NEW w \in Worlds, NEW c \in DOMAIN w.files, ReadFate(w.files[c]) = "running"
  PROVE  ClassSized(w.files[c].methods, load_from_buffer(p, w.files[c]))
<1>1. PICK file : file = w.files[c]
  OBVIOUS
<1>2. IsClassFile(file)
  BY <1>1, WorldsAssumption
<1>3. PICK ms : ms = file.methods
  OBVIOUS
<1>4. /\ InRow(ms)
      /\ \A x \in ToSet(ms) : IsMethodFile(x)
      /\ \A i, j \in DOMAIN ms : ms[i].key = ms[j].key => i = j
  BY <1>2, <1>3 DEF IsClassFile
<1>5. \A x \in ToSet(ms) : MethodFate(x) = "running"
  BY <1>1, <1>2, <1>3, AllRunning
<1>6. PICK f : f = load_from_buffer(p, file)
  OBVIOUS
<1>7. f.methods = load_methods(ms)
  BY <1>3, <1>6 DEF load_from_buffer
<1> QED BY <1>1, <1>3, <1>4, <1>5, <1>6, <1>7, MethodsLoaded

LEMMA NativeAdded ==
  ASSUME NEW ms, NEW f, DOMAIN f = ClassParts, ClassSized(ms, f), NEW name, NEW type,
         \A x \in ToSet(ms) : x.key.name # name
  PROVE  /\ ClassSized(ms, add_native_method(f, name, type))
         /\ DOMAIN add_native_method(f, name, type) = ClassParts
<1>1. PICK key : key = [name |-> name, type |-> type]
  OBVIOUS
<1>2. PICK q : q = add_name(add_name(f.pool, name), type)
  OBVIOUS
<1>3. PICK new : new = Put(f.methods, key, MethodInfo(key))
  OBVIOUS
<1>4. PICK g : g = [f EXCEPT !.pool = q, !.methods = new]
  OBVIOUS
<1>5. g.methods = new /\ DOMAIN g = ClassParts
  BY <1>4 DEF ClassParts
<1>6. /\ DOMAIN new = DOMAIN f.methods \cup {key} /\ new[key] = MethodInfo(key)
      /\ \A x \in DOMAIN f.methods : x # key => new[x] = f.methods[x]
  BY <1>3 DEF Put
<1>7. ASSUME NEW x \in ToSet(ms)
      PROVE  x.key \in DOMAIN new /\ Sized(new[x.key], Len(x.exceptions))
  <2>1. key.name = name
    BY <1>1
  <2>2. x.key # key
    BY <2>1
  <2> QED BY <1>6, <2>2 DEF ClassSized
<1>8. \A x \in DOMAIN new : \E n : Sized(new[x], n)
  BY <1>6, NativeSized DEF ClassSized
<1>9. ClassSized(ms, g)
  BY <1>5, <1>7, <1>8 DEF ClassSized
<1>10. add_native_method(f, name, type) = g
  BY <1>1, <1>2, <1>3, <1>4 DEF add_native_method
<1> QED BY <1>5, <1>9, <1>10

LEMMA CallSized ==
  ASSUME NEW ms, NEW f, DOMAIN f = ClassParts, ClassSized(ms, f), NEW c
  PROVE  ClassSized(ms, WithCall(f, c))
<1>1. PICK r : r = update_method(f.methods[c.key], f.pool, c.flags, c.callTo)
  OBVIOUS
<1>2. PICK g : g = [f EXCEPT !.pool = r.pool, !.methods[c.key] = r.method]
  OBVIOUS
<1>3. g.methods = [f.methods EXCEPT ![c.key] = r.method]
  BY <1>2 DEF ClassParts
<1>4. \A n : Sized(f.methods[c.key], n) => Sized(r.method, n)
  BY <1>1, UpdateSized
<1>5. /\ DOMAIN g.methods = DOMAIN f.methods
      /\ \A key \in DOMAIN f.methods :
            g.methods[key] = IF key = c.key THEN r.method ELSE f.methods[key]
  BY <1>3
<1>6. \A key \in DOMAIN f.methods : \A n : Sized(f.methods[key], n) => Sized(g.methods[key], n)
  BY <1>4, <1>5
<1>7. ClassSized(ms, g)
  BY <1>5, <1>6 DEF ClassSized
<1>8. WithCall(f, c) = g
  BY <1>1, <1>2 DEF WithCall, add_method_call, Replaced
<1> QED BY <1>7, <1>8

LEMMA HookSized ==
  ASSUME NEW ms, NEW f, SameRead(f, f), ClassSized(ms, f), NEW s
  PROVE  ClassSized(ms, hook(f, s))
<1>1. PICK q : q = CallsFor(f, s)
  OBVIOUS
<1>2. PICK n \in Nat : DOMAIN q = 1 .. n
  BY <1>1, CallsRow DEF SameRead, Row
<1>3. PICK k : RunOf("call", f, q, n, k) /\ FoldLeft(WithCall, f, q) = k[n]
  BY <1>2, CallFold
<1> DEFINE P == {i \in Nat : i <= n => SameRead(k[i], k[i]) /\ ClassSized(ms, k[i])}
<1>4. 0 \in P
  BY <1>3 DEF RunOf
<1>5. ASSUME NEW i \in Nat, i \in P PROVE i + 1 \in P
  <2> SUFFICES ASSUME i + 1 <= n PROVE SameRead(k[i + 1], k[i + 1]) /\ ClassSized(ms, k[i + 1])
    OBVIOUS
  <2>1. i + 1 \in 1 .. n /\ i + 1 - 1 = i /\ i <= n
    OBVIOUS
  <2>2. k[i + 1] = Applied("call", k[i], q[i + 1])
    BY <1>3, <2>1 DEF RunOf
  <2>3. k[i + 1] = WithCall(k[i], q[i + 1])
    BY <2>2 DEF Applied
  <2>4. SameRead(k[i], k[i]) /\ ClassSized(ms, k[i])
    BY <1>5, <2>1
  <2>5. DOMAIN k[i] = ClassParts
    BY <2>4 DEF SameRead
  <2> QED BY <2>3, <2>4, <2>5, CallSame, CallSized
<1>6. n \in P
  <2> HIDE DEF P
  <2> QED BY <1>4, <1>5, NatSetInduction
<1> QED BY <1>1, <1>3, <1>6 DEF hook
-----------------------------------------------------------------------------
LEMMA FramesTrue ==
  ASSUME NEW m, NEW n, Sized(m, n), NEW j, SizesSet(m, j)
  PROVE  \E s \in Int :
           /\ s = Sum([i \in DOMAIN m.frames |-> size_in_bytes(m.frames[i], j)])
           /\ s = Sum([i \in DOMAIN m.frames |-> WrittenBytes(m.frames[i])])
           /\ m.frames = <<>> => s = 0
<1>1. PICK l \in Nat : DOMAIN m.frames = 1 .. l
  BY DEF Sized, FramesSound, Row
<1>2. PICK q : q = [i \in DOMAIN m.frames |-> WrittenBytes(m.frames[i])]
  OBVIOUS
<1>3. \A i \in DOMAIN m.frames : size_in_bytes(m.frames[i], j) = WrittenBytes(m.frames[i])
  BY DEF SizesSet, size_in_bytes, WrittenBytes
<1>4. q = [i \in DOMAIN m.frames |-> size_in_bytes(m.frames[i], j)]
  BY <1>2, <1>3
<1>5. DOMAIN q = 1 .. l /\ \A i \in 1 .. l : q[i] \in Int
  BY <1>1, <1>2 DEF WrittenBytes, Sized, FramesSound
<1>6. Sum(q) \in Int
  BY <1>5, SumOfInts
<1>7. m.frames = <<>> => Sum(q) = 0
  <2> SUFFICES ASSUME m.frames = <<>> PROVE Sum(q) = 0
    OBVIOUS
  <2>1. DOMAIN q = 1 .. 0
    BY <1>2
  <2> QED BY <2>1, SumOfNone
<1> QED BY <1>2, <1>4, <1>6, <1>7

LEMMA MethodTrue ==
  ASSUME NEW m, NEW n, Sized(m, n), NEW j, SizesSet(m, j)
  PROVE  codeAttrLen(m, j) = CodeBytes(m) /\ method_size(m, j) = MethodBytes(m)
<1>1. PICK s \in Int :
        /\ s = Sum([i \in DOMAIN m.frames |-> size_in_bytes(m.frames[i], j)])
        /\ s = Sum([i \in DOMAIN m.frames |-> WrittenBytes(m.frames[i])])
        /\ m.frames = <<>> => s = 0
  BY FramesTrue
<1>2. PICK a, c, l : a = AttributesBytes(m.attributes) /\ c = AttributesBytes(m.codeAttributes) /\ l = m.codeLength
  OBVIOUS
<1>3. a \in Int /\ c \in Int /\ l \in Int
  BY <1>2, CodeSumInt DEF Sized
<1>4. PICK e : e = Len(m.exceptions)
  OBVIOUS
<1>5. e \in Int
  BY <1>4 DEF Sized, Row
<1>6. l = Sum([i \in DOMAIN m.code |-> Size(m.code[i])])
  BY <1>2 DEF Sized, CodeSum
<1>7. CodeBytes(m) = 12 + l + e * 8 + c + (IF m.frames = <<>> THEN 0 ELSE 8 + s)
  BY <1>1, <1>2, <1>4, <1>6 DEF CodeBytes
<1>8. stackmapAttrSize(m, j) = IF m.frames = <<>> THEN 0 ELSE 2 + s
  BY <1>1 DEF stackmapAttrSize, CountSize
<1>9. codeAttrLen(m, j) = 10 + l + e * 8 + 2 + c + stackmapAttrSize(m, j) + (IF m.frames # <<>> THEN 6 ELSE 0)
  BY <1>2, <1>4 DEF codeAttrLen, CountSize, ExceptionSize, HeaderSize
<1>10. codeAttrLen(m, j) = CodeBytes(m)
  <2>1. CASE m.frames = <<>>
    BY <1>3, <1>5, <1>7, <1>8, <1>9, <2>1
  <2>2. CASE m.frames # <<>>
    BY <1>3, <1>5, <1>7, <1>8, <1>9, <2>2
  <2> QED BY <2>1, <2>2
<1>11. method_size(m, j) = IF m.attributesCount = 0 THEN 8
                           ELSE 8 + a + c + 6 + (IF m.frames # <<>> THEN 6 + 2 ELSE 0) + s + l + 12 + e * 8
  BY <1>1, <1>2, <1>4 DEF method_size, CountSize, ExceptionSize, HeaderSize
<1>12. MethodBytes(m) = 8 + (IF m.attributesCount = 0 THEN 0 ELSE a + 6 + CodeBytes(m))
  BY <1>2 DEF MethodBytes
<1>13. method_size(m, j) = MethodBytes(m)
  <2>1. CASE m.attributesCount = 0
    BY <1>11, <1>12, <2>1
  <2>2. CASE m.attributesCount # 0 /\ m.frames = <<>>
    BY <1>1, <1>3, <1>5, <1>7, <1>11, <1>12, <2>2
  <2>3. CASE m.attributesCount # 0 /\ m.frames # <<>>
    <3>1. CodeBytes(m) = 12 + l + e * 8 + c + (8 + s)
      BY <1>7, <2>3
    <3>2. method_size(m, j) = 8 + a + c + 6 + (6 + 2) + s + l + 12 + e * 8
      BY <1>11, <2>3
    <3>3. MethodBytes(m) = 8 + (a + 6 + CodeBytes(m))
      BY <1>12, <2>3
    <3> QED BY <1>3, <1>5, <3>1, <3>2, <3>3
  <2> QED BY <2>1, <2>2, <2>3
<1> QED BY <1>10, <1>13

LEMMA ClassTrue ==
  ASSUME NEW ms, NEW f, ClassSized(ms, f), IsFiniteSet(DOMAIN f.methods), NEW h,
         h = load_to_buffer(f, junk), ~LeftToChance(h.methods)
  PROVE  /\ \A key \in DOMAIN h.methods : h.methods[key].codeLen = CodeBytes(h.methods[key].method)
         /\ h.size = ClassBytes(h)
<1>1. PICK fs, hs : fs = f.methods /\ hs = h.methods
  OBVIOUS
<1>2. DOMAIN hs = DOMAIN fs /\ \A key \in DOMAIN fs : hs[key] = write_method(fs[key], junk)
  BY <1>1 DEF load_to_buffer
<1>3. \A key \in DOMAIN fs : hs[key].method = fs[key] /\ hs[key].codeLen = codeAttrLen(fs[key], junk)
  BY <1>2 DEF write_method
<1>4. ASSUME NEW key \in DOMAIN fs
      PROVE  codeAttrLen(fs[key], junk) = CodeBytes(fs[key]) /\ method_size(fs[key], junk) = MethodBytes(fs[key])
  <2>1. SizesSet(fs[key], junk)
    BY <1>1, <1>2, <1>3 DEF SizesSet, LeftToChance
  <2>2. PICK n : Sized(fs[key], n)
    BY <1>1 DEF ClassSized
  <2> QED BY <2>1, <2>2, MethodTrue
<1>5. methods_size(fs, junk) = MethodsBytes(hs)
  <2>1. PICK keys : keys = SetToSeq(DOMAIN fs)
    OBVIOUS
  <2>2. \A i \in DOMAIN keys : keys[i] \in DOMAIN fs
    BY <1>1, <2>1, SetRow
  <2>3. [i \in DOMAIN keys |-> method_size(fs[keys[i]], junk)] = [i \in DOMAIN keys |-> MethodBytes(hs[keys[i]].method)]
    BY <1>3, <1>4, <2>2
  <2> QED BY <1>2, <2>1, <2>3 DEF methods_size, MethodsBytes
<1>6. h.size = class_size(f, junk) /\ h.pool = f.pool /\ h.interfaces = f.interfaces /\ h.fields = f.fields /\ h.attributes = f.attributes
  BY DEF load_to_buffer
<1>7. class_size(f, junk) = ClassBytes(h)
  <2>1. PICK p, fl, at, mb : p = PoolBytes(f.pool) /\ fl = fields_size(f.fields) /\ at = attributes_size(f.attributes) /\ mb = MethodsBytes(hs)
    OBVIOUS
  <2>2. class_size(f, junk) = 4 + 2 * 2 + p + 3 * 2 + (2 + 2 * f.interfaces) + fl + mb + at
    BY <1>1, <1>5, <2>1 DEF class_size, magic_size, id_size, interfaces_size
  <2>3. ClassBytes(h) = 4 + 2 * 2 + p + 3 * 2 + (2 + 2 * f.interfaces) + fl + mb + at
    BY <1>1, <1>6, <2>1 DEF ClassBytes
  <2> QED BY <2>2, <2>3
<1> QED BY <1>1, <1>2, <1>3, <1>4, <1>6, <1>7
-----------------------------------------------------------------------------
LEMMA SizedInit ==
  ASSUME HookInit
  PROVE  SizedInv
<1>1. class = None /\ DOMAIN handed = {}
  BY DEF HookInit, Init
<1> QED BY <1>1, RewriteInit DEF SizedInv, SizedInHand, SizedGiven

LEMMA PackageSized ==
  ASSUME SizedInv, RewriteInv', add_thook_to_package
  PROVE  SizedInHand' /\ SizedGiven'
<1>1. class = None /\ Package \in DOMAIN world.files
  BY DEF add_thook_to_package, Ready
<1>2. /\ world' = world /\ class' = class /\ junk' = junk
      /\ handed' = IF fate' # "running" THEN handed ELSE Put(handed, Package, load_to_buffer(fr', junk))
      /\ fate' = ReadFate(world.files[Package])
  BY DEF add_thook_to_package
<1>3. PICK ms : ms = world.files[Package].methods
  OBVIOUS
<1>4. world \in Worlds
  BY DEF SizedInv, RewriteInv, Shapes
<1>5. \A x \in ToSet(ms) : x.key.name # "thook" /\ x.key.name # "timerhook" /\ x.key.name # "heaphook"
  BY <1>1, <1>3, <1>4, WorldsAssumption
<1>6. IsFiniteSet(DOMAIN fr'.methods)
  BY DEF RewriteInv, Shapes, SameRead
<1>7. ASSUME fate' = "running" PROVE ClassSized(ms, fr')
  <2>1. PICK f : f = load_from_buffer(fr.pool, world.files[Package])
    OBVIOUS
  <2>2. ClassSized(ms, f)
    BY <1>1, <1>2, <1>3, <1>4, <1>7, <2>1, ReadSized
  <2>3. DOMAIN f = ClassParts
    BY <2>1 DEF load_from_buffer, ClassParts
  <2>4. PICK g : g = add_native_method(f, "thook", Object)
    OBVIOUS
  <2>5. PICK h : h = add_native_method(g, "timerhook", Timed)
    OBVIOUS
  <2>6. fr' = add_native_method(h, "heaphook", Object)
    BY <2>1, <2>4, <2>5 DEF add_thook_to_package
  <2>7. ClassSized(ms, g) /\ DOMAIN g = ClassParts
    BY <1>5, <2>2, <2>3, <2>4, NativeAdded
  <2>8. ClassSized(ms, h) /\ DOMAIN h = ClassParts
    BY <1>5, <2>5, <2>7, NativeAdded
  <2> QED BY <1>5, <2>6, <2>8, NativeAdded
<1>8. ASSUME NEW c \in DOMAIN handed'
      PROVE  \E f : /\ handed'[c] = load_to_buffer(f, junk)
                    /\ ClassSized(world.files[c].methods, f)
                    /\ IsFiniteSet(DOMAIN f.methods)
  <2>1. CASE fate' = "running" /\ c = Package
    <3>1. handed'[c] = load_to_buffer(fr', junk)
      BY <1>2, <2>1 DEF Put
    <3> QED BY <1>3, <1>6, <1>7, <2>1, <3>1
  <2>2. CASE c \in DOMAIN handed /\ handed'[c] = handed[c]
    BY <2>2 DEF SizedInv, SizedGiven
  <2> QED BY <1>2, <2>1, <2>2 DEF Put
<1> QED BY <1>1, <1>2, <1>8 DEF SizedInHand, SizedGiven

LEMMA ReadClassSized ==
  ASSUME SizedInv, ReadClass
  PROVE  SizedInHand' /\ SizedGiven'
<1>1. PICK c \in DOMAIN world.files \ {Package} :
        /\ fate' = ReadFate(world.files[c])
        /\ fr' = IF fate' = "running" THEN load_from_buffer(fr.pool, world.files[c]) ELSE fr
        /\ class' = IF is_signal_class(sigs, c) THEN c ELSE None
        /\ UNCHANGED <<world, junk, handed>>
  BY DEF ReadClass
<1>2. world \in Worlds
  BY DEF SizedInv, RewriteInv, Shapes
<1>3. fate' = "running" => ClassSized(world.files[c].methods, load_from_buffer(fr.pool, world.files[c]))
  BY <1>1, <1>2, ReadSized
<1>4. SizedInHand'
  BY <1>1, <1>3 DEF SizedInHand
<1>5. SizedGiven'
  BY <1>1 DEF SizedInv, SizedGiven
<1> QED BY <1>4, <1>5

LEMMA HooksSized ==
  ASSUME SizedInv, RewriteInv', add_hooks
  PROVE  SizedInHand' /\ SizedGiven'
<1>1. PICK s : s = OfClass(sigs, class)[done + 1]
  OBVIOUS
<1>2. /\ fate = "running" /\ class # None
      /\ fr' = hook(fr, s)
      /\ handed' = IF fate' # "running" THEN handed ELSE Put(handed, class, load_to_buffer(fr', junk))
      /\ UNCHANGED <<world, class, junk>>
  BY <1>1 DEF add_hooks
<1>3. PICK ms : ms = world.files[class].methods
  OBVIOUS
<1>4. ClassSized(ms, fr')
  BY <1>2, <1>3, HookSized DEF SizedInv, SizedInHand, RewriteInv, Shapes
<1>5. IsFiniteSet(DOMAIN fr'.methods)
  BY DEF RewriteInv, Shapes, SameRead
<1>6. ASSUME NEW c \in DOMAIN handed'
      PROVE  \E f : /\ handed'[c] = load_to_buffer(f, junk)
                    /\ ClassSized(world.files[c].methods, f)
                    /\ IsFiniteSet(DOMAIN f.methods)
  <2>1. CASE c \in DOMAIN handed /\ handed'[c] = handed[c]
    BY <2>1 DEF SizedInv, SizedGiven
  <2>2. CASE c = class /\ handed'[c] = load_to_buffer(fr', junk)
    BY <1>3, <1>4, <1>5, <2>2
  <2> QED BY <1>2, <2>1, <2>2 DEF Put
<1> QED BY <1>2, <1>3, <1>4, <1>6 DEF SizedInHand, SizedGiven

LEMMA RestSized ==
  ASSUME SizedInv,
         \/ LoadLine \/ LeaveHook \/ remove_hooks \/ thook \/ UNCHANGED allVars
  PROVE  SizedInHand' /\ SizedGiven'
<1>1. CASE LoadLine
  BY <1>1 DEF SizedInv, SizedInHand, SizedGiven, LoadLine, RewriteInv, Shapes
<1>2. CASE LeaveHook
  BY <1>2 DEF SizedInv, SizedInHand, SizedGiven, LeaveHook
<1>3. CASE remove_hooks
  BY <1>3 DEF SizedInv, SizedInHand, SizedGiven, remove_hooks, Ready
<1>4. CASE thook
  BY <1>4 DEF SizedInv, SizedInHand, SizedGiven, thook
<1>5. CASE UNCHANGED allVars
  BY <1>5 DEF SizedInv, SizedInHand, SizedGiven, allVars, vars
<1> QED BY <1>1, <1>2, <1>3, <1>4, <1>5

LEMMA SizedKept ==
  ASSUME SizedInv, [HookNext]_allVars
  PROVE  SizedInv'
<1>1. RewriteInv'
  BY RewriteKept DEF SizedInv
<1>2. SizedInHand' /\ SizedGiven'
  BY <1>1, PackageSized, ReadClassSized, HooksSized, RestSized DEF HookNext, Next
<1> QED BY <1>1, <1>2 DEF SizedInv

LEMMA SizedInvSays ==
  ASSUME SizedInv
  PROVE  LengthsTrue
<1> SUFFICES ASSUME NEW c \in DOMAIN handed, NEW h, h = handed[c]
             PROVE  /\ ~LeftToChance(h.methods) =>
                         /\ \A key \in DOMAIN h.methods :
                               h.methods[key].method.attributesCount # 0 =>
                                 h.methods[key].codeLen = CodeBytes(h.methods[key].method)
                         /\ h.size = ClassBytes(h)
                    /\ \A x \in Methods(c) : Len(Written(c, x).exceptions) = Len(x.exceptions)
  BY DEF LengthsTrue
<1>1. PICK f : /\ h = load_to_buffer(f, junk)
               /\ ClassSized(world.files[c].methods, f)
               /\ IsFiniteSet(DOMAIN f.methods)
  BY DEF SizedInv, SizedGiven
<1>2. ~LeftToChance(h.methods) =>
        /\ \A key \in DOMAIN h.methods : h.methods[key].codeLen = CodeBytes(h.methods[key].method)
        /\ h.size = ClassBytes(h)
  BY <1>1, ClassTrue
<1>3. ASSUME NEW x \in Methods(c) PROVE Len(Written(c, x).exceptions) = Len(x.exceptions)
  <2>1. x.key \in DOMAIN f.methods /\ Sized(f.methods[x.key], Len(x.exceptions))
    BY <1>1 DEF Methods, ClassSized
  <2>2. Written(c, x) = f.methods[x.key]
    BY <1>1, <2>1 DEF Written, load_to_buffer, write_method
  <2> QED BY <2>1, <2>2 DEF Sized
<1> QED BY <1>2, <1>3

(* The lengths a rewritten class declares, of itself and of the code of    *)
(* each method, are those of what is written, whatever was inserted where  *)
(* and however the branches, switches and frames were moved by it; and the *)
(* ranges of exceptions are all there.                                     *)
THEOREM LengthsStayTrue == HookSpec => []LengthsTrue
<1>1. HookInit => SizedInv
  BY SizedInit
<1>2. SizedInv /\ [HookNext]_allVars => SizedInv'
  BY SizedKept
<1>3. SizedInv => LengthsTrue
  BY SizedInvSays
<1> QED BY <1>1, <1>2, <1>3, PTL DEF HookSpec
-----------------------------------------------------------------------------
LEMMA OneEntry ==
  ASSUME NEW p, PoolSound(p), NEW i, NEW e, NEW d, Holds(p, i, e), Holds(p, i, d)
  PROVE  e = d
BY DEF PoolSound, Holds

LEMMA HeldIndex ==
  ASSUME NEW p, PoolSound(p), NEW i, NEW e, Holds(p, i, e)
  PROVE  i \in 1 .. p.next /\ p.next \in Nat
BY DEF PoolSound, Holds

(* At finds the entry of an index, if there is one.                        *)
LEMMA AtSays ==
  ASSUME NEW p, PoolSound(p), NEW i
  PROVE  /\ \A e : Holds(p, i, e) => At(p, i) = e
         /\ At(p, i) # NoEntry => Holds(p, i, At(p, i))
<1>1. PICK n \in Nat : n = Len(p.info) /\ DOMAIN p.info = 1 .. n
  BY DEF PoolSound, Listed
<1>2. PICK T : T = {k \in 1 .. n : p.info[k].index = i}
  OBVIOUS
<1>3. PICK s : s = SelectInSeq(p.info, LAMBDA x : x.index = i)
  OBVIOUS
<1>4. s = IF T # {} THEN Min(T) ELSE 0
  BY <1>1, <1>2, <1>3 DEF SelectInSeq
<1>5. T \subseteq Nat
  BY <1>2
<1>6. At(p, i) = IF s = 0 THEN NoEntry ELSE p.info[s].entry
  BY <1>3 DEF At
<1>7. CASE T = {}
  <2>1. s = 0
    BY <1>4, <1>7
  <2>2. At(p, i) = NoEntry
    BY <1>6, <2>1
  <2>3. \A e : ~Holds(p, i, e)
    BY <1>1, <1>2, <1>7 DEF Holds
  <2> QED BY <2>2, <2>3
<1>8. CASE T # {}
  <2>1. s \in T
    BY <1>4, <1>5, <1>8, FirstOne
  <2>2. s \in 1 .. n /\ p.info[s].index = i /\ s # 0
    BY <1>2, <2>1
  <2>3. At(p, i) = p.info[s].entry
    BY <1>6, <2>2
  <2>4. Holds(p, i, At(p, i))
    BY <1>1, <2>2, <2>3 DEF Holds
  <2> QED BY <2>4, OneEntry
<1> QED BY <1>7, <1>8

LEMMA LaterSelf ==
  ASSUME NEW p, PoolSound(p)
  PROVE  Later(p, p)
BY DEF Later, PoolSound

LEMMA LaterOn ==
  ASSUME NEW p, NEW q, NEW r, PoolSound(p), PoolSound(q), PoolSound(r), Later(p, q), Later(q, r)
  PROVE  Later(p, r)
BY DEF Later, PoolSound

(* What one more entry does to a pool.                                     *)
LEMMA InfoHeld ==
  ASSUME NEW p, PoolSound(p), NEW x, NEW q, q = add_info(p, x)
  PROVE  /\ PoolSound(q) /\ Later(p, q)
         /\ q.next = p.next + Slots(x)
         /\ Holds(q, p.next + 1, x)
         /\ \A i, e : Holds(q, i, e) => Holds(p, i, e) \/ e = x
         /\ DOMAIN q.names = DOMAIN p.names \cup {Key(x)}
         /\ q.names[Key(x)] = p.next + 1
         /\ \A key \in DOMAIN p.names : key # Key(x) => q.names[key] = p.names[key]
<1>1. PICK n \in Nat : n = Len(p.info) /\ DOMAIN p.info = 1 .. n
  BY DEF PoolSound, Listed
<1>2. PICK slot : slot = [index |-> p.next + 1, entry |-> x]
  OBVIOUS
<1>3. PICK key : key = Key(x)
  OBVIOUS
<1>4. /\ DOMAIN q = PoolParts /\ q.info = Append(p.info, slot) /\ q.next = p.next + Slots(x)
  BY <1>2, AddInfoSays DEF PoolSound
<1>5. q.names = Put(p.names, key, p.next + 1)
  BY <1>3 DEF add_info, PoolSound, PoolParts
<1>6. /\ DOMAIN q.names = DOMAIN p.names \cup {key} /\ q.names[key] = p.next + 1
      /\ \A k \in DOMAIN p.names : k # key => q.names[k] = p.names[k]
  BY <1>5 DEF Put
<1>7. PICK S : p.info \in Seq(S)
  BY DEF PoolSound, Listed
<1>8. /\ q.info \in Seq(S \cup {slot}) /\ DOMAIN q.info = 1 .. n + 1
      /\ \A i \in 1 .. n : q.info[i] = p.info[i]
      /\ q.info[n + 1] = slot
  BY <1>1, <1>4, <1>7, AppendSays
<1>9. slot.index = p.next + 1 /\ slot.entry = x
  BY <1>2
<1>10. Slots(x) \in {1, 2} /\ p.next \in Nat
  BY DEF Slots, PoolSound
<1>11. q.next \in Nat /\ p.next + 1 <= q.next
  BY <1>4, <1>10
<1>12. \A i, e : Holds(p, i, e) => Holds(q, i, e)
  BY <1>1, <1>8 DEF Holds
<1>13. Holds(q, p.next + 1, x)
  BY <1>1, <1>8, <1>9 DEF Holds
<1>14. ASSUME NEW i, NEW e, Holds(q, i, e) PROVE Holds(p, i, e) \/ e = x
  BY <1>1, <1>8, <1>9, <1>14 DEF Holds
<1>15. \A k \in DOMAIN q.info : q.info[k].index \in 1 .. q.next
  <2> TAKE k \in DOMAIN q.info
  <2>1. CASE k = n + 1
    BY <1>8, <1>9, <1>10, <1>11, <2>1
  <2>2. CASE k \in 1 .. n
    <3>1. p.info[k].index \in 1 .. p.next
      BY <1>1, <2>2 DEF PoolSound
    <3> QED BY <1>8, <1>10, <1>11, <2>2, <3>1
  <2> QED BY <1>8, <2>1, <2>2
<1>16. \A k, j \in DOMAIN q.info : q.info[k].index = q.info[j].index => k = j
  <2> SUFFICES ASSUME NEW k \in 1 .. n + 1, NEW j \in 1 .. n + 1, q.info[k].index = q.info[j].index
               PROVE  k = j
    BY <1>8
  <2>1. \A l \in 1 .. n : q.info[l].index # p.next + 1
    <3> TAKE l \in 1 .. n
    <3>1. p.info[l].index \in 1 .. p.next
      BY <1>1 DEF PoolSound
    <3> QED BY <1>8, <1>10, <3>1
  <2>2. CASE k = n + 1 \/ j = n + 1
    BY <1>8, <1>9, <2>1, <2>2
  <2>3. CASE k \in 1 .. n /\ j \in 1 .. n
    BY <1>1, <1>8, <2>3 DEF PoolSound
  <2> QED BY <2>2, <2>3
<1>17. \A k \in DOMAIN q.names : \E e : Holds(q, q.names[k], e) /\ Key(e) = k
  <2> TAKE k \in DOMAIN q.names
  <2>1. CASE k = key
    BY <1>3, <1>6, <1>13, <2>1
  <2>2. CASE k # key
    <3>1. k \in DOMAIN p.names /\ q.names[k] = p.names[k]
      BY <1>6, <2>2
    <3>2. PICK e : Holds(p, p.names[k], e) /\ Key(e) = k
      BY <3>1 DEF PoolSound
    <3> QED BY <1>12, <3>1, <3>2
  <2> QED BY <2>1, <2>2
<1>18. PoolSound(q)
  BY <1>4, <1>8, <1>11, <1>15, <1>16, <1>17 DEF PoolSound, Listed
<1>19. Later(p, q)
  BY <1>10, <1>11, <1>12 DEF Later
<1> QED BY <1>3, <1>4, <1>6, <1>13, <1>14, <1>18, <1>19

LEMMA AddHeld ==
  ASSUME NEW p, PoolSound(p), NEW x, x.tag \notin TwoSlots, NEW q, q = Add(p, x)
  PROVE  /\ PoolSound(q) /\ Later(p, q)
         /\ q.next = p.next + 1
         /\ Holds(q, p.next + 1, x)
         /\ \A i, e : Holds(q, i, e) => Holds(p, i, e) \/ e = x
         /\ DOMAIN q.names = DOMAIN p.names \cup {Key(x)}
         /\ q.names[Key(x)] = p.next + 1
         /\ \A key \in DOMAIN p.names : key # Key(x) => q.names[key] = p.names[key]
<1>1. PICK b : b = [p EXCEPT !.bcount = @ + 1]
  OBVIOUS
<1>2. DOMAIN b = PoolParts /\ b.info = p.info /\ b.next = p.next /\ b.names = p.names
  BY <1>1 DEF PoolSound, PoolParts
<1>3. \A i, e : Holds(b, i, e) <=> Holds(p, i, e)
  BY <1>2 DEF Holds
<1>4. PoolSound(b)
  BY <1>2, <1>3 DEF PoolSound
<1>5. q = add_info(b, x)
  BY <1>1 DEF Add
<1>6. Slots(x) = 1
  BY DEF Slots
<1>7. /\ PoolSound(q) /\ Later(b, q)
      /\ q.next = b.next + 1
      /\ Holds(q, b.next + 1, x)
      /\ \A i, e : Holds(q, i, e) => Holds(b, i, e) \/ e = x
      /\ DOMAIN q.names = DOMAIN b.names \cup {Key(x)}
      /\ q.names[Key(x)] = b.next + 1
      /\ \A key \in DOMAIN b.names : key # Key(x) => q.names[key] = b.names[key]
  BY <1>4, <1>5, <1>6, InfoHeld
<1>8. Later(p, q)
  BY <1>2, <1>3, <1>7 DEF Later
<1> QED BY <1>2, <1>3, <1>7, <1>8
-----------------------------------------------------------------------------
LEMMA KeysOf ==
  ASSUME NEW i, NEW j
  PROVE  /\ Key(Class(i)) = ToString(i) /\ Key(StringConst(i)) = ToString(i)
         /\ Key(NameAndType(i, j)) = Pair(i, j)
         /\ Key(MethodRef(i, j)) = Pair(i, j) /\ Key(FieldRef(i, j)) = Pair(i, j)
         /\ Key(Utf8(i)) = i
         /\ \A e : e.refs = <<>> => Key(e) = e.text
<1>1. Len(<<i>>) = 1 /\ Len(<<i, j>>) = 2 /\ Len(<<>>) = 0
  OBVIOUS
<1> QED BY <1>1 DEF Key, Class, StringConst, NameAndType, MethodRef, FieldRef, Utf8, Entry

LEMMA TextIndex ==
  ASSUME NEW p, PoolSound(p), NEW i, Text(p, i)
  PROVE  i \in Nat
BY HeldIndex DEF Text

(* What an entry that is found by a text of the agent is.                  *)
LEMMA TextFound ==
  ASSUME Numerals(Nat), NEW p, NEW file, PoolFits(p, file), NEW t \in AgentTexts, t \in DOMAIN p.names
  PROVE  Holds(p, Lookup(p, t), Utf8(t))
<1>1. PICK n, e : n = p.names[t] /\ Holds(p, n, e) /\ Key(e) = t
  BY DEF PoolFits, PoolSound
<1>2. Lookup(p, t) = n
  BY <1>1 DEF Lookup
<1>3. Fits(p, e) /\ PoolSound(p)
  BY <1>1 DEF PoolFits, Proper
<1>4. \A i, j \in Nat : ToString(i) \notin AgentTexts /\ Pair(i, j) \notin AgentTexts
  BY DEF Numerals
<1>5. CASE \E s : e = Utf8(s)
  <2>1. PICK s : e = Utf8(s)
    BY <1>5
  <2>2. s = t
    BY <1>1, <2>1, KeysOf
  <2> QED BY <1>1, <1>2, <2>1, <2>2
<1>6. CASE \E i : e \in {Class(i), StringConst(i)} /\ Text(p, i)
  <2>1. PICK i : e \in {Class(i), StringConst(i)} /\ Text(p, i)
    BY <1>6
  <2>2. i \in Nat
    BY <1>3, <2>1, TextIndex
  <2>3. Key(e) = ToString(i)
    BY <2>1, KeysOf
  <2> QED BY <1>1, <1>4, <2>2, <2>3
<1>7. CASE \E i, j : e = NameAndType(i, j) /\ Text(p, i) /\ Text(p, j)
  <2>1. PICK i, j : e = NameAndType(i, j) /\ Text(p, i) /\ Text(p, j)
    BY <1>7
  <2>2. i \in Nat /\ j \in Nat
    BY <1>3, <2>1, TextIndex
  <2>3. Key(e) = Pair(i, j)
    BY <2>1, KeysOf
  <2> QED BY <1>1, <1>4, <2>2, <2>3
<1>8. CASE \E i, j, l, x : e \in {MethodRef(i, j), FieldRef(i, j)} /\ Holds(p, i, Class(l)) /\ Holds(p, j, x)
  <2>1. PICK i, j, l, x : e \in {MethodRef(i, j), FieldRef(i, j)} /\ Holds(p, i, Class(l)) /\ Holds(p, j, x)
    BY <1>8
  <2>2. i \in Nat /\ j \in Nat
    BY <1>3, <2>1, HeldIndex
  <2>3. Key(e) = Pair(i, j)
    BY <2>1, KeysOf
  <2> QED BY <1>1, <1>4, <2>2, <2>3
<1>9. CASE Number(e)
  <2>1. Key(e) = e.text
    BY <1>9, KeysOf DEF Number
  <2> QED BY <1>1, <1>9, <2>1 DEF Number
<1> QED BY <1>3, <1>5, <1>6, <1>7, <1>8, <1>9 DEF Fits

(* What an entry that is found by the indices of two texts is.             *)
LEMMA PairFound ==
  ASSUME Numerals(Nat), NEW p, NEW file, PoolFits(p, file), Clear(p, file),
         NEW v, NEW w, Text(p, v), Text(p, w), NEW i, NEW e, Holds(p, i, e), Key(e) = Pair(v, w)
  PROVE  e = NameAndType(v, w)
<1>1. Fits(p, e) /\ PoolSound(p)
  BY DEF PoolFits, Proper
<1>2. v \in Nat /\ w \in Nat
  BY <1>1, TextIndex
<1>3. \A k, l, j \in Nat : /\ ToString(k) # Pair(v, w) /\ Pair(v, w) \notin AgentTexts
                           /\ Pair(k, l) = Pair(v, w) => k = v /\ l = w
  BY <1>2 DEF Numerals
<1>4. ASSUME e.refs = <<>> PROVE FALSE
  <2>1. e \in ToSet(file) \/ e.text \in AgentTexts
    BY <1>4 DEF PoolFits, Proper
  <2>2. Key(e) = e.text
    BY <1>4, KeysOf
  <2> QED BY <1>2, <1>3, <1>4, <2>1, <2>2 DEF Clear
<1>5. CASE \E s : e = Utf8(s)
  BY <1>4, <1>5 DEF Utf8, Entry
<1>6. CASE \E k : e \in {Class(k), StringConst(k)} /\ Text(p, k)
  <2>1. PICK k : e \in {Class(k), StringConst(k)} /\ Text(p, k)
    BY <1>6
  <2>2. k \in Nat
    BY <1>1, <2>1, TextIndex
  <2>3. Key(e) = ToString(k)
    BY <2>1, KeysOf
  <2> QED BY <1>3, <2>2, <2>3
<1>7. CASE \E k, l : e = NameAndType(k, l) /\ Text(p, k) /\ Text(p, l)
  <2>1. PICK k, l : e = NameAndType(k, l) /\ Text(p, k) /\ Text(p, l)
    BY <1>7
  <2>2. k \in Nat /\ l \in Nat
    BY <1>1, <2>1, TextIndex
  <2>3. Key(e) = Pair(k, l)
    BY <2>1, KeysOf
  <2> QED BY <1>3, <2>1, <2>2, <2>3
<1>8. CASE \E k, l, n, x : e \in {MethodRef(k, l), FieldRef(k, l)} /\ Holds(p, k, Class(n)) /\ Holds(p, l, x)
  <2>1. PICK k, l, n, x : e \in {MethodRef(k, l), FieldRef(k, l)} /\ Holds(p, k, Class(n)) /\ Holds(p, l, x)
    BY <1>8
  <2>2. k \in Nat /\ l \in Nat
    BY <1>1, <2>1, HeldIndex
  <2>3. Key(e) = Pair(k, l)
    BY <2>1, KeysOf
  <2>4. Holds(p, v, Class(n))
    BY <1>3, <2>1, <2>2, <2>3
  <2>5. PICK t : Holds(p, v, Utf8(t))
    BY DEF Text
  <2>6. Class(n) = Utf8(t)
    BY <1>1, <2>4, <2>5, OneEntry
  <2>7. Class(n).tag = "Class" /\ Utf8(t).tag = "Utf8"
    BY DEF Class, Utf8, Entry
  <2> QED BY <2>6, <2>7
<1>9. CASE Number(e)
  BY <1>4, <1>9 DEF Number
<1> QED BY <1>1, <1>5, <1>6, <1>7, <1>8, <1>9 DEF Fits
-----------------------------------------------------------------------------
(* Everything stays what it is when a pool grows.                          *)
LEMMA TextLater ==
  ASSUME NEW p, NEW q, Later(p, q), NEW i, Text(p, i)
  PROVE  Text(q, i)
BY DEF Text, Later

LEMMA FitsLater ==
  ASSUME NEW p, NEW q, Later(p, q), NEW e, Fits(p, e)
  PROVE  Fits(q, e)
<1>1. \A i : Text(p, i) => Text(q, i)
  BY TextLater
<1>2. \A i, d : Holds(p, i, d) => Holds(q, i, d)
  BY DEF Later
<1> QED BY <1>1, <1>2 DEF Fits

LEMMA ClearBefore ==
  ASSUME NEW p, NEW q, Later(p, q), NEW file, Clear(q, file)
  PROVE  Clear(p, file)
BY TextLater DEF Clear

(* One more entry, that fits and that is no text but the agent's.          *)
LEMMA AddFits ==
  ASSUME NEW p, NEW file, PoolFits(p, file), NEW x, x.tag \notin TwoSlots, Fits(p, x),
         x.refs = <<>> => x.text \in AgentTexts, NEW q, q = Add(p, x)
  PROVE  /\ PoolFits(q, file) /\ Later(p, q)
         /\ q.next = p.next + 1 /\ Holds(q, q.next, x)
         /\ DOMAIN q.names = DOMAIN p.names \cup {Key(x)}
         /\ q.names[Key(x)] = q.next
         /\ \A key \in DOMAIN p.names : key # Key(x) => q.names[key] = p.names[key]
<1>1. /\ PoolSound(q) /\ Later(p, q)
      /\ q.next = p.next + 1
      /\ Holds(q, p.next + 1, x)
      /\ \A i, e : Holds(q, i, e) => Holds(p, i, e) \/ e = x
      /\ DOMAIN q.names = DOMAIN p.names \cup {Key(x)}
      /\ q.names[Key(x)] = p.next + 1
      /\ \A key \in DOMAIN p.names : key # Key(x) => q.names[key] = p.names[key]
  BY AddHeld DEF PoolFits
<1>2. ASSUME NEW i, NEW e, Holds(q, i, e)
      PROVE  Fits(q, e) /\ (e.refs = <<>> => e \in ToSet(file) \/ e.text \in AgentTexts)
  <2>1. CASE e = x
    BY <1>1, <2>1, FitsLater
  <2>2. CASE Holds(p, i, e)
    <3>1. Fits(p, e) /\ (e.refs = <<>> => e \in ToSet(file) \/ e.text \in AgentTexts)
      BY <2>2 DEF PoolFits, Proper
    <3> QED BY <1>1, <3>1, FitsLater
  <2> QED BY <1>1, <1>2, <2>1, <2>2
<1>3. PoolFits(q, file)
  BY <1>1, <1>2 DEF PoolFits, Proper
<1> QED BY <1>1, <1>3

LEMMA NameFits ==
  ASSUME Numerals(Nat), NEW p, NEW file, PoolFits(p, file), NEW t \in AgentTexts,
         NEW q, q = add_name(p, t)
  PROVE  /\ PoolFits(q, file) /\ Later(p, q)
         /\ DOMAIN p.names \subseteq DOMAIN q.names /\ t \in DOMAIN q.names
         /\ Holds(q, Lookup(q, t), Utf8(t))
<1>1. CASE t \in DOMAIN p.names
  <2>1. q = p
    BY <1>1 DEF add_name
  <2> QED BY <1>1, <2>1, TextFound, LaterSelf DEF PoolFits
<1>2. CASE t \notin DOMAIN p.names
  <2>1. PICK x : x = Utf8(t)
    OBVIOUS
  <2>2. q = Add(p, x)
    BY <1>2, <2>1 DEF add_name
  <2>3. x.tag \notin TwoSlots /\ x.text = t
    BY <2>1 DEF Utf8, Entry, TwoSlots
  <2>4. Fits(p, x)
    BY <2>1 DEF Fits
  <2>5. /\ PoolFits(q, file) /\ Later(p, q)
        /\ DOMAIN q.names = DOMAIN p.names \cup {Key(x)}
    BY <2>2, <2>3, <2>4, AddFits
  <2>6. Key(x) = t
    BY <2>1, KeysOf
  <2> QED BY <2>5, <2>6, TextFound
<1> QED BY <1>1, <1>2

LEMMA ClassFits ==
  ASSUME Numerals(Nat), NEW p, NEW file, PoolFits(p, file), NEW t \in AgentTexts,
         NEW q, q = add_class(p, t)
  PROVE  /\ PoolFits(q, file) /\ Later(p, q)
         /\ \E u : /\ Holds(q, Lookup(q, ToString(Lookup(q, t))), Class(u))
                   /\ Holds(q, u, Utf8(t))
<1>1. PICK b : b = add_name(p, t)
  OBVIOUS
<1>2. /\ PoolFits(b, file) /\ Later(p, b) /\ t \in DOMAIN b.names
      /\ Holds(b, Lookup(b, t), Utf8(t))
  BY <1>1, NameFits
<1>3. PICK u, x : u = Lookup(b, t) /\ x = Class(u)
  OBVIOUS
<1>4. q = Add(b, x)
  BY <1>1, <1>3 DEF add_class
<1>5. x.tag \notin TwoSlots /\ x.refs # <<>>
  BY <1>3 DEF Class, Entry, TwoSlots
<1>6. Text(b, u)
  BY <1>2, <1>3 DEF Text
<1>7. Fits(b, x)
  BY <1>3, <1>6 DEF Fits
<1>8. /\ PoolFits(q, file) /\ Later(b, q) /\ Holds(q, q.next, x)
      /\ DOMAIN q.names = DOMAIN b.names \cup {Key(x)}
      /\ q.names[Key(x)] = q.next
      /\ \A key \in DOMAIN b.names : key # Key(x) => q.names[key] = b.names[key]
  BY <1>2, <1>4, <1>5, <1>7, AddFits
<1>9. Key(x) = ToString(u) /\ Key(x) # t
  <2>1. u \in Nat
    BY <1>2, <1>6, TextIndex DEF PoolFits
  <2>2. Key(x) = ToString(u)
    BY <1>3, KeysOf
  <2> QED BY <2>1, <2>2 DEF Numerals
<1>10. Lookup(q, t) = u
  BY <1>2, <1>3, <1>8, <1>9 DEF Lookup
<1>11. Lookup(q, ToString(u)) = q.next
  BY <1>8, <1>9 DEF Lookup
<1>12. Holds(q, u, Utf8(t))
  BY <1>2, <1>3, <1>8 DEF Later
<1>13. Later(p, q)
  BY <1>2, <1>8, LaterOn DEF PoolFits
<1> QED BY <1>3, <1>8, <1>10, <1>11, <1>12, <1>13

LEMMA StringFits ==
  ASSUME Numerals(Nat), NEW p, NEW file, PoolFits(p, file), NEW t \in AgentTexts,
         NEW q, q = add_string(p, t)
  PROVE  /\ PoolFits(q, file) /\ Later(p, q)
         /\ \E u : Holds(q, q.next, StringConst(u)) /\ Holds(q, u, Utf8(t))
<1>1. PICK b : b = add_name(p, t)
  OBVIOUS
<1>2. /\ PoolFits(b, file) /\ Later(p, b) /\ Holds(b, Lookup(b, t), Utf8(t))
  BY <1>1, NameFits
<1>3. PICK u, x : u = Lookup(b, t) /\ x = StringConst(u)
  OBVIOUS
<1>4. q = Add(b, x)
  BY <1>1, <1>3 DEF add_string
<1>5. x.tag \notin TwoSlots /\ x.refs # <<>>
  BY <1>3 DEF StringConst, Entry, TwoSlots
<1>6. Text(b, u)
  BY <1>2, <1>3 DEF Text
<1>7. Fits(b, x)
  BY <1>3, <1>6 DEF Fits
<1>8. PoolFits(q, file) /\ Later(b, q) /\ Holds(q, q.next, x)
  BY <1>2, <1>4, <1>5, <1>7, AddFits
<1>9. Holds(q, u, Utf8(t))
  BY <1>2, <1>3, <1>8 DEF Later
<1>10. Later(p, q)
  BY <1>2, <1>8, LaterOn DEF PoolFits
<1> QED BY <1>3, <1>8, <1>9, <1>10

LEMMA NameTypeFits ==
  ASSUME Numerals(Nat), NEW p, NEW file, PoolFits(p, file), NEW m, m.name \in AgentTexts, m.type \in AgentTexts,
         m.name \in DOMAIN p.names, m.type \in DOMAIN p.names, NEW q, q = add_name_type(p, m)
  PROVE  /\ PoolFits(q, file) /\ Later(p, q)
         /\ \E v, w, e : /\ Holds(q, Lookup(q, NatKey(q, m)), e)
                         /\ Holds(q, v, Utf8(m.name)) /\ Holds(q, w, Utf8(m.type))
                         /\ Clear(q, file) => e = NameAndType(v, w)
<1>1. PICK v, w : v = Lookup(p, m.name) /\ w = Lookup(p, m.type)
  OBVIOUS
<1>2. Holds(p, v, Utf8(m.name)) /\ Holds(p, w, Utf8(m.type))
  BY <1>1, TextFound
<1>3. Text(p, v) /\ Text(p, w)
  BY <1>2 DEF Text
<1>4. PICK key : key = Pair(v, w)
  OBVIOUS
<1>5. NatKey(p, m) = key
  BY <1>1, <1>4 DEF NatKey
<1>6. key \notin AgentTexts
  BY <1>3, <1>4, TextIndex DEF PoolFits, Numerals
<1>7. PICK x : x = NameAndType(v, w)
  OBVIOUS
<1>8. q = IF key \in DOMAIN p.names THEN p ELSE Add(p, x)
  BY <1>1, <1>5, <1>7 DEF add_name_type
<1>9. /\ PoolFits(q, file) /\ Later(p, q) /\ key \in DOMAIN q.names
      /\ \A k \in DOMAIN p.names : k # key => k \in DOMAIN q.names /\ q.names[k] = p.names[k]
  <2>1. CASE key \in DOMAIN p.names
    BY <1>8, <2>1, LaterSelf DEF PoolFits
  <2>2. CASE key \notin DOMAIN p.names
    <3>1. x.tag \notin TwoSlots /\ x.refs # <<>>
      BY <1>7 DEF NameAndType, Entry, TwoSlots
    <3>2. Fits(p, x)
      BY <1>3, <1>7 DEF Fits
    <3>3. Key(x) = key
      BY <1>4, <1>7, KeysOf
    <3> QED BY <1>8, <2>2, <3>1, <3>2, <3>3, AddFits
  <2> QED BY <2>1, <2>2
<1>10. Lookup(q, m.name) = v /\ Lookup(q, m.type) = w
  BY <1>1, <1>6, <1>9 DEF Lookup
<1>11. NatKey(q, m) = key
  BY <1>4, <1>10 DEF NatKey
<1>12. PICK e : Holds(q, q.names[key], e) /\ Key(e) = key
  BY <1>9 DEF PoolFits, PoolSound
<1>13. Lookup(q, NatKey(q, m)) = q.names[key]
  BY <1>9, <1>11 DEF Lookup
<1>14. Holds(q, v, Utf8(m.name)) /\ Holds(q, w, Utf8(m.type)) /\ Text(q, v) /\ Text(q, w)
  BY <1>2, <1>3, <1>9, TextLater DEF Later
<1>15. Clear(q, file) => e = NameAndType(v, w)
  BY <1>4, <1>9, <1>12, <1>14, PairFound
<1> QED BY <1>9, <1>12, <1>13, <1>14, <1>15

LEMMA RefFits ==
  ASSUME Numerals(Nat), NEW p, NEW file, PoolFits(p, file), NEW m \in AgentMethods,
         NEW q, q = add_method_ref(p, m)
  PROVE  /\ PoolFits(q, file) /\ Later(p, q)
         /\ Clear(q, file) => MeansRef(q, MethodRefIndex(q), m)
<1>1. m.class \in AgentTexts /\ m.name \in AgentTexts /\ m.type \in AgentTexts
  BY DEF AgentTexts
<1>2. PICK a : a = add_class(p, m.class)
  OBVIOUS
<1>3. PICK c : c = Lookup(a, ToString(Lookup(a, m.class)))
  OBVIOUS
<1>4. PoolFits(a, file) /\ Later(p, a) /\ \E u : Holds(a, c, Class(u)) /\ Holds(a, u, Utf8(m.class))
  BY <1>1, <1>2, <1>3, ClassFits
<1>5. PICK u : Holds(a, c, Class(u)) /\ Holds(a, u, Utf8(m.class))
  BY <1>4
<1>6. PICK b : b = add_name(a, m.type)
  OBVIOUS
<1>7. PICK d : d = add_name(b, m.name)
  OBVIOUS
<1>8. PICK f : f = add_name_type(d, m)
  OBVIOUS
<1>9. PoolFits(b, file) /\ Later(a, b) /\ m.type \in DOMAIN b.names
  BY <1>1, <1>4, <1>6, NameFits
<1>10. PoolFits(d, file) /\ Later(b, d) /\ m.type \in DOMAIN d.names /\ m.name \in DOMAIN d.names
  BY <1>1, <1>7, <1>9, NameFits
<1>11. PICK n : n = Lookup(f, NatKey(f, m))
  OBVIOUS
<1>12. /\ PoolFits(f, file) /\ Later(d, f)
       /\ \E v, w, e : /\ Holds(f, n, e) /\ Holds(f, v, Utf8(m.name)) /\ Holds(f, w, Utf8(m.type))
                       /\ Clear(f, file) => e = NameAndType(v, w)
  BY <1>1, <1>8, <1>10, <1>11, NameTypeFits
<1>13. PICK v, w, e : /\ Holds(f, n, e) /\ Holds(f, v, Utf8(m.name)) /\ Holds(f, w, Utf8(m.type))
                      /\ Clear(f, file) => e = NameAndType(v, w)
  BY <1>12
<1>14. Later(a, d) /\ Later(p, d)
  BY <1>4, <1>9, <1>10, LaterOn DEF PoolFits
<1>15. Later(a, f) /\ Later(p, f)
  BY <1>4, <1>10, <1>12, <1>14, LaterOn DEF PoolFits
<1>16. Holds(f, c, Class(u)) /\ Holds(f, u, Utf8(m.class))
  BY <1>5, <1>15 DEF Later
<1>17. PICK x : x = MethodRef(c, n)
  OBVIOUS
<1>18. q = Add(f, x)
  <2>1. RefTo(a, c, m) = Add(f, x)
    BY <1>6, <1>7, <1>8, <1>11, <1>17 DEF RefTo
  <2> QED BY <1>2, <1>3, <2>1 DEF add_method_ref, RefToLast
<1>19. x.tag \notin TwoSlots /\ x.refs # <<>>
  BY <1>17 DEF MethodRef, Entry, TwoSlots
<1>20. Fits(f, x)
  BY <1>13, <1>16, <1>17 DEF Fits
<1>21. /\ PoolFits(q, file) /\ Later(f, q) /\ Holds(q, q.next, x)
       /\ DOMAIN q.names = DOMAIN f.names \cup {Key(x)} /\ q.names[Key(x)] = q.next
  BY <1>12, <1>18, <1>19, <1>20, AddFits
<1>22. Later(p, q)
  BY <1>4, <1>12, <1>15, <1>21, LaterOn DEF PoolFits
<1>23. MethodRefIndex(q) = q.next
  <2>1. PICK g : g = [f EXCEPT !.bcount = @ + 1]
    OBVIOUS
  <2>2. DOMAIN g = PoolParts /\ g.info = f.info /\ q = add_info(g, x)
    BY <1>12, <1>18, <2>1 DEF PoolFits, PoolSound, PoolParts, Add
  <2>3. PICK slot : slot = [index |-> g.next + 1, entry |-> x]
    OBVIOUS
  <2>4. q.info = Append(f.info, slot)
    BY <2>2, <2>3, AddInfoSays
  <2>5. PICK S : f.info \in Seq(S)
    BY <1>12 DEF PoolFits, PoolSound, Listed
  <2>6. Last(q.info) = slot
    BY <2>4, <2>5, AppendSays DEF Last
  <2>7. slot.entry = x
    BY <2>3
  <2> QED BY <1>21, <2>6, <2>7 DEF MethodRefIndex, Lookup
<1>24. ASSUME Clear(q, file) PROVE MeansRef(q, MethodRefIndex(q), m)
  <2>1. e = NameAndType(v, w)
    BY <1>13, <1>21, <1>24, ClearBefore
  <2>2. Holds(q, n, NameAndType(v, w)) /\ Holds(q, v, Utf8(m.name)) /\ Holds(q, w, Utf8(m.type))
    BY <1>13, <1>21, <2>1 DEF Later
  <2>3. Holds(q, c, Class(u)) /\ Holds(q, u, Utf8(m.class))
    BY <1>16, <1>21 DEF Later
  <2> QED BY <1>17, <1>21, <1>23, <2>2, <2>3 DEF MeansRef
<1> QED BY <1>21, <1>22, <1>24
-----------------------------------------------------------------------------
(* The pool of a class file, when it is read.                              *)
LEMMA LoadHeld ==
  ASSUME NEW p, DOMAIN p = PoolParts, NEW T, NEW e \in Seq(T)
  PROVE  /\ PoolSound(load_pool(p, e))
         /\ \A i, x : Holds(load_pool(p, e), i, x) => x \in ToSet(e)
<1>1. PICK n \in Nat : n = Len(e) /\ DOMAIN e = 1 .. n
  OBVIOUS
<1>2. PICK b : b = [reset(p) EXCEPT !.bcount = 1 + FoldLeft(WithSlots, 0, e)]
  OBVIOUS
<1>3. DOMAIN b = PoolParts /\ b.info = <<>> /\ b.next = 0 /\ b.names = <<>>
  BY <1>2 DEF reset, PoolParts
<1>4. load_pool(p, e) = FoldLeft(add_info, b, e)
  BY <1>2 DEF load_pool
<1>5. PICK k : RunOf("info", b, e, n, k) /\ FoldLeft(add_info, b, e) = k[n]
  BY <1>1, InfoFold
<1> DEFINE P == {i \in Nat : i <= n => PoolSound(k[i]) /\ \A j, x : Holds(k[i], j, x) => x \in ToSet(e)}
<1>6. 0 \in P
  <2>1. k[0] = b
    BY <1>5 DEF RunOf
  <2>2. <<>> \in Seq({}) /\ DOMAIN <<>> = {}
    OBVIOUS
  <2>3. Listed(b.info) /\ DOMAIN b.info = {} /\ DOMAIN b.names = {}
    BY <1>3, <2>2 DEF Listed
  <2>4. PoolSound(b)
    BY <1>3, <2>3 DEF PoolSound
  <2>5. \A j, x : ~Holds(b, j, x)
    BY <2>3 DEF Holds
  <2> QED BY <2>1, <2>4, <2>5
<1>7. ASSUME NEW i \in Nat, i \in P PROVE i + 1 \in P
  <2> SUFFICES ASSUME i + 1 <= n
               PROVE  PoolSound(k[i + 1]) /\ \A j, x : Holds(k[i + 1], j, x) => x \in ToSet(e)
    OBVIOUS
  <2>1. i + 1 \in 1 .. n /\ i + 1 - 1 = i /\ i <= n
    OBVIOUS
  <2>2. k[i + 1] = add_info(k[i], e[i + 1])
    BY <1>5, <2>1 DEF RunOf, Applied
  <2>3. PoolSound(k[i]) /\ \A j, x : Holds(k[i], j, x) => x \in ToSet(e)
    BY <1>7, <2>1
  <2>4. e[i + 1] \in ToSet(e)
    BY <1>1, <2>1 DEF ToSet
  <2>5. PICK r, x, q : r = k[i] /\ x = e[i + 1] /\ q = k[i + 1]
    OBVIOUS
  <2>6. PoolSound(r) /\ q = add_info(r, x)
    BY <2>2, <2>3, <2>5
  <2>7. PoolSound(q) /\ \A j, y : Holds(q, j, y) => Holds(r, j, y) \/ y = x
    BY <2>6, InfoHeld
  <2> QED BY <2>3, <2>4, <2>5, <2>7
<1>8. n \in P
  <2> HIDE DEF P
  <2> QED BY <1>6, <1>7, NatSetInduction
<1> QED BY <1>4, <1>5, <1>8

LEMMA AtSame ==
  ASSUME NEW p, NEW q, p.info = q.info, NEW i
  PROVE  At(p, i) = At(q, i)
<1>1. PICK info : info = p.info /\ info = q.info
  OBVIOUS
<1> QED BY <1>1 DEF At

(* Each entry of a class file is one the pool may have.                    *)
LEMMA EntryFits ==
  ASSUME NEW q, PoolSound(q), NEW S, \A i, x : Holds(q, i, x) => x \in S,
         \A x \in S : /\ IsEntry(q, x) /\ x.tag \in KnownTags
                      /\ x.tag \in TwoSlots \union {"Integer"} => x.text \notin AgentTexts,
         NEW e \in S
  PROVE  Fits(q, e)
<1>1. ASSUME NEW r, At(q, r).tag # "none"
      PROVE  Holds(q, r, At(q, r)) /\ At(q, r) \in S
  <2>1. NoEntry.tag = "none"
    BY DEF NoEntry, Entry
  <2>2. Holds(q, r, At(q, r))
    BY <1>1, <2>1, AtSays
  <2> QED BY <2>2
<1>2. ASSUME NEW r, At(q, r).tag = "Utf8" PROVE Text(q, r)
  <2>1. PICK x : x = At(q, r)
    OBVIOUS
  <2>2. Holds(q, r, x) /\ x \in S /\ x.tag = "Utf8"
    BY <1>1, <1>2, <2>1
  <2>3. x = Utf8(x.text)
    BY <2>2 DEF IsEntry
  <2> QED BY <2>2, <2>3 DEF Text
<1>3. ASSUME NEW r, At(q, r).tag = "Class" PROVE \E n : Holds(q, r, Class(n))
  <2>1. PICK x : x = At(q, r)
    OBVIOUS
  <2>2. Holds(q, r, x) /\ x \in S /\ x.tag = "Class"
    BY <1>1, <1>3, <2>1
  <2>3. x \in {Class(x.refs[1]), StringConst(x.refs[1])}
    BY <2>2 DEF IsEntry
  <2>4. StringConst(x.refs[1]).tag = "String"
    BY DEF StringConst, Entry
  <2>5. x = Class(x.refs[1])
    BY <2>2, <2>3, <2>4
  <2> QED BY <2>2, <2>5
<1>4. IsEntry(q, e)
  OBVIOUS
<1>5. CASE e.tag = "Utf8"
  <2>1. e = Utf8(e.text)
    BY <1>4, <1>5 DEF IsEntry
  <2> QED BY <2>1 DEF Fits
<1>6. CASE e.tag \in {"Class", "String"}
  <2>1. PICK r : r = e.refs[1]
    OBVIOUS
  <2>2. e \in {Class(r), StringConst(r)} /\ At(q, r).tag = "Utf8"
    BY <1>4, <1>6, <2>1 DEF IsEntry
  <2>3. Text(q, r)
    BY <1>2, <2>2
  <2> QED BY <2>2, <2>3 DEF Fits
<1>7. CASE e.tag = "NameAndType"
  <2>1. PICK r, s : r = e.refs[1] /\ s = e.refs[2]
    OBVIOUS
  <2>2. e = NameAndType(r, s) /\ At(q, r).tag = "Utf8" /\ At(q, s).tag = "Utf8"
    BY <1>4, <1>7, <2>1 DEF IsEntry
  <2>3. Text(q, r) /\ Text(q, s)
    BY <1>2, <2>2
  <2> QED BY <2>2, <2>3 DEF Fits
<1>8. CASE e.tag \in {"MethodRef", "FieldRef"}
  <2>1. PICK r, s : r = e.refs[1] /\ s = e.refs[2]
    OBVIOUS
  <2>2. /\ e \in {MethodRef(r, s), FieldRef(r, s)}
        /\ At(q, r).tag = "Class" /\ At(q, s).tag = "NameAndType"
    BY <1>4, <1>8, <2>1 DEF IsEntry
  <2>3. PICK n : Holds(q, r, Class(n))
    BY <1>3, <2>2
  <2>4. Holds(q, s, At(q, s))
    BY <1>1, <2>2
  <2> QED BY <2>2, <2>3, <2>4 DEF Fits
<1>9. CASE e.tag \in TwoSlots \cup {"Integer"}
  <2>1. e.refs = <<>>
    BY <1>4, <1>9 DEF IsEntry, KnownTags, TwoSlots
  <2>2. Number(e)
    BY <1>9, <2>1 DEF Number
  <2> QED BY <2>2 DEF Fits
<1> QED BY <1>5, <1>6, <1>7, <1>8, <1>9 DEF KnownTags

LEMMA LoadFits ==
  ASSUME NEW p, DOMAIN p = PoolParts, NEW w \in Worlds, NEW c \in DOMAIN w.files,
         ReadFate(w.files[c]) = "running"
  PROVE  PoolFits(load_from_buffer(p, w.files[c]).pool, w.files[c].pool)
<1>1. PICK e : e = w.files[c].pool
  OBVIOUS
<1>2. PICK q, z : q = load_pool(p, e) /\ z = load_pool(EmptyPool, e)
  OBVIOUS
<1>3. IsPool(e) /\ Row(e) /\ e \in Seq(ToSet(e))
  <2>1. IsClassFile(w.files[c])
    BY WorldsAssumption
  <2>2. IsPool(e)
    BY <1>1, <2>1 DEF IsClassFile
  <2> QED BY <1>1, <2>2, FilePool, FileRows
<1>4. SamePool(q, z)
  BY <1>2, <1>3, EmptyParts, LoadSame
<1>5. PoolSound(q) /\ \A i, x : Holds(q, i, x) => x \in ToSet(e)
  BY <1>2, <1>3, LoadHeld
<1>6. \A i : At(q, i) = At(z, i)
  BY <1>4, AtSame DEF SamePool
<1>7. ASSUME NEW x \in ToSet(e)
      PROVE  /\ IsEntry(q, x) /\ x.tag \in KnownTags
             /\ x.tag \in TwoSlots \union {"Integer"} => x.text \notin AgentTexts
  <2>1. IsEntry(z, x)
    BY <1>2, <1>3 DEF IsPool
  <2>2. IsEntry(q, x)
    BY <1>6, <2>1 DEF IsEntry
  <2>3. x.tag \in KnownTags
    <3>1. PoolReadable(e)
      BY <1>1 DEF ReadFate
    <3> QED BY <3>1 DEF PoolReadable, ToSet
  <2>4. x.tag \in TwoSlots \union {"Integer"} => x.text \notin AgentTexts
    BY <1>1, WorldsAssumption
  <2> QED BY <2>2, <2>3, <2>4
<1>8. \A x \in ToSet(e) : Fits(q, x)
  BY <1>5, <1>7, EntryFits
<1>9. PoolFits(q, e)
  BY <1>5, <1>8 DEF PoolFits, Proper
<1>10. load_from_buffer(p, w.files[c]).pool = q
  BY <1>1, <1>2 DEF load_from_buffer
<1> QED BY <1>1, <1>9, <1>10

LEMMA AgentTextsHave ==
  /\ {"thook", "timerhook", "heaphook", Object, Timed, "enter", "exit"} \subseteq AgentTexts
  /\ \A i \in DOMAIN TimerNames : TimerNames[i] \in AgentTexts
<1>1. {HOOK_SIGNAL_DESCRIPTOR, HOOK_TIMER_DESCRIPTOR, HOOK_MONITOR_HEAP_DESCRIPTOR} \subseteq AgentMethods
  BY DEF AgentMethods
<1>2. ASSUME NEW m \in AgentMethods PROVE m.class \in AgentTexts /\ m.name \in AgentTexts /\ m.type \in AgentTexts
  BY DEF AgentTexts
<1>3. /\ HOOK_SIGNAL_DESCRIPTOR.name = "thook" /\ HOOK_SIGNAL_DESCRIPTOR.type = Object
      /\ HOOK_TIMER_DESCRIPTOR.name = "timerhook" /\ HOOK_TIMER_DESCRIPTOR.type = Timed
      /\ HOOK_MONITOR_HEAP_DESCRIPTOR.name = "heaphook"
  BY DEF HOOK_SIGNAL_DESCRIPTOR, HOOK_TIMER_DESCRIPTOR, HOOK_MONITOR_HEAP_DESCRIPTOR
<1>4. {"thook", "timerhook", "heaphook", Object, Timed} \subseteq AgentTexts
  BY <1>1, <1>2, <1>3
<1>5. {"enter", "exit"} \subseteq AgentTexts
  BY DEF AgentTexts
<1>6. ASSUME NEW i \in DOMAIN TimerNames PROVE TimerNames[i] \in AgentTexts
  <2>1. TimerNames[i] \in ToSet(TimerNames)
    BY DEF ToSet
  <2> QED BY <2>1 DEF AgentTexts
<1> QED BY <1>4, <1>5, <1>6
-----------------------------------------------------------------------------
LEMMA RefLater ==
  ASSUME NEW p, NEW q, Later(p, q), NEW i, NEW m, MeansRef(p, i, m)
  PROVE  MeansRef(q, i, m)
BY DEF MeansRef, Later

LEMMA StringLater ==
  ASSUME NEW p, NEW q, Later(p, q), NEW i, NEW texts, MeansString(p, i, texts)
  PROVE  MeansString(q, i, texts)
BY DEF MeansString, Later

LEMMA IdAdded ==
  ASSUME NEW a, NEW n \in Nat, Counted(a, n), NEW l, l = n + 1, NEW q, NEW id, NEW r, Longer(r, a.ids, id)
  PROVE  /\ Counted([pool |-> q, ids |-> r], l)
         /\ (\A i \in 1 .. n : r[i] = a.ids[i]) /\ r[l] = id
<1>1. PICK S : a.ids \in Seq(S)
  BY DEF Counted, Listed
<1>2. PICK ids : ids = a.ids
  OBVIOUS
<1>3. ids \in Seq(S) /\ Len(ids) = n
  BY <1>1, <1>2 DEF Counted
<1>4. r = Append(ids, id)
  BY <1>2 DEF Longer
<1>5. /\ r \in Seq(S \cup {id}) /\ Len(r) = l /\ r[l] = id
      /\ \A i \in 1 .. n : r[i] = ids[i]
  BY <1>3, <1>4, AppendSays
<1>6. Listed(r) /\ l \in Nat
  <2>1. DOMAIN r = 1 .. Len(r)
    BY <1>5, LenProperties
  <2> QED BY <1>5, <2>1 DEF Listed
<1> QED BY <1>2, <1>5, <1>6 DEF Counted

LEMMA WithStringFits ==
  ASSUME Numerals(Nat), NEW a, NEW n \in Nat, Counted(a, n), NEW l, l = n + 1, NEW file, PoolFits(a.pool, file),
         NEW t \in AgentTexts, NEW b, b = WithString(a, t)
  PROVE  OneMore(a, b, n, l, file) /\ MeansString(b.pool, b.ids[l], {t})
<1>1. PICK p, q : p = a.pool /\ q = add_string(p, t)
  OBVIOUS
<1>2. /\ PoolFits(q, file) /\ Later(p, q)
      /\ \E u : Holds(q, q.next, StringConst(u)) /\ Holds(q, u, Utf8(t))
  BY <1>1, StringFits
<1>3. PICK id : id = q.next
  OBVIOUS
<1>7. PICK r : r = Append(a.ids, id)
  OBVIOUS
<1>4. b = [pool |-> q, ids |-> r]
  BY <1>1, <1>3, <1>7 DEF WithString
<1>5. Counted(b, l) /\ (\A i \in 1 .. n : b.ids[i] = a.ids[i]) /\ b.ids[l] = id
  <2>1. /\ Counted([pool |-> q, ids |-> r], l)
        /\ (\A i \in 1 .. n : r[i] = a.ids[i]) /\ r[l] = id
    <3>1. Longer(r, a.ids, id)
      BY <1>7 DEF Longer
    <3> QED BY <3>1, IdAdded
  <2> QED BY <1>4, <2>1
<1>6. b.pool = q
  BY <1>4
<1> QED BY <1>1, <1>2, <1>3, <1>5, <1>6 DEF OneMore, MeansString

LEMMA WithMethodFits ==
  ASSUME Numerals(Nat), NEW a, NEW n \in Nat, Counted(a, n), NEW l, l = n + 1, NEW file, PoolFits(a.pool, file),
         NEW m \in AgentMethods, NEW b, b = WithMethod(a, m)
  PROVE  OneMore(a, b, n, l, file) /\ (Clear(b.pool, file) => MeansRef(b.pool, b.ids[l], m))
<1>1. PICK p, q : p = a.pool /\ q = add_method_ref(p, m)
  OBVIOUS
<1>2. /\ PoolFits(q, file) /\ Later(p, q)
      /\ Clear(q, file) => MeansRef(q, MethodRefIndex(q), m)
  BY <1>1, RefFits
<1>3. PICK id : id = MethodRefIndex(q)
  OBVIOUS
<1>7. PICK r : r = Append(a.ids, id)
  OBVIOUS
<1>4. b = [pool |-> q, ids |-> r]
  BY <1>1, <1>3, <1>7 DEF WithMethod
<1>5. Counted(b, l) /\ (\A i \in 1 .. n : b.ids[i] = a.ids[i]) /\ b.ids[l] = id
  <2>1. /\ Counted([pool |-> q, ids |-> r], l)
        /\ (\A i \in 1 .. n : r[i] = a.ids[i]) /\ r[l] = id
    <3>1. Longer(r, a.ids, id)
      BY <1>7 DEF Longer
    <3> QED BY <3>1, IdAdded
  <2> QED BY <1>4, <2>1
<1>6. b.pool = q
  BY <1>4
<1> QED BY <1>1, <1>2, <1>3, <1>5, <1>6 DEF OneMore

LEMMA NamesFit ==
  ASSUME Numerals(Nat), NEW p, NEW file, PoolFits(p, file), NEW q, Row(q), \A i \in DOMAIN q : q[i] \in AgentTexts
  PROVE  PoolFits(FoldLeft(add_name, p, q), file) /\ Later(p, FoldLeft(add_name, p, q))
<1>1. PICK n \in Nat : DOMAIN q = 1 .. n
  BY DEF Row
<1>2. PICK k : RunOf("name", p, q, n, k) /\ FoldLeft(add_name, p, q) = k[n]
  BY <1>1, NameFold
<1> DEFINE P == {i \in Nat : i <= n => PoolFits(k[i], file) /\ Later(p, k[i])}
<1>3. 0 \in P
  <2>1. k[0] = p
    BY <1>2 DEF RunOf
  <2> QED BY <2>1, LaterSelf DEF PoolFits
<1>4. ASSUME NEW i \in Nat, i \in P PROVE i + 1 \in P
  <2> SUFFICES ASSUME i + 1 <= n PROVE PoolFits(k[i + 1], file) /\ Later(p, k[i + 1])
    OBVIOUS
  <2>1. i + 1 \in 1 .. n /\ i + 1 - 1 = i /\ i <= n
    OBVIOUS
  <2>2. k[i + 1] = add_name(k[i], q[i + 1])
    BY <1>2, <2>1 DEF RunOf, Applied
  <2>3. PoolFits(k[i], file) /\ Later(p, k[i]) /\ q[i + 1] \in AgentTexts
    BY <1>1, <1>4, <2>1
  <2>4. PoolFits(k[i + 1], file) /\ Later(k[i], k[i + 1])
    BY <2>2, <2>3, NameFits
  <2> QED BY <2>3, <2>4, LaterOn DEF PoolFits
<1>5. n \in P
  <2> HIDE DEF P
  <2> QED BY <1>3, <1>4, NatSetInduction
<1> QED BY <1>2, <1>5

LEMMA TimerFits ==
  ASSUME Numerals(Nat), NEW a, Counted(a, 1), NEW file, PoolFits(a.pool, file), NEW r, r = AddTimer(a)
  PROVE  /\ PoolFits(r.pool, file) /\ Later(a.pool, r.pool) /\ r.ids[1] = a.ids[1]
         /\ Clear(r.pool, file) => TimerMeans(r.pool, r.ids)
<1>1. PICK b, c : b = WithString(a, "enter") /\ c = WithString(b, "exit")
  OBVIOUS
<1>2. FoldLeft(WithString, a, <<"enter", "exit">>) = c
  <2>1. PICK q : q = <<"enter", "exit">>
    OBVIOUS
  <2>2. DOMAIN q = 1 .. 2 /\ q[1] = "enter" /\ q[2] = "exit"
    BY <2>1
  <2>3. PICK k : RunOf("string", a, q, 2, k) /\ FoldLeft(WithString, a, q) = k[2]
    BY <2>2, StringFold
  <2>4. k[0] = a /\ k[1] = Applied("string", k[0], q[1]) /\ k[2] = Applied("string", k[1], q[2])
    BY <2>3 DEF RunOf
  <2>5. k[1] = b
    BY <1>1, <2>2, <2>4 DEF Applied
  <2>6. k[2] = c
    BY <1>1, <2>2, <2>4, <2>5 DEF Applied
  <2> QED BY <2>1, <2>3, <2>6
<1>3. PICK p : p = FoldLeft(add_name, c.pool, TimerNames)
  OBVIOUS
<1>4. PICK d : d = [c EXCEPT !.pool = p]
  OBVIOUS
<1>5. PICK e, f, g : e = WithMethod(d, TimeMethod) /\ f = WithMethod(e, ThreadMethod) /\ g = WithMethod(f, NameMethod)
  OBVIOUS
<1>6. r = g
  <2>1. PICK q : q = <<TimeMethod, ThreadMethod, NameMethod>>
    OBVIOUS
  <2>2. DOMAIN q = 1 .. 3 /\ q[1] = TimeMethod /\ q[2] = ThreadMethod /\ q[3] = NameMethod
    BY <2>1
  <2>3. PICK k : RunOf("method", d, q, 3, k) /\ FoldLeft(WithMethod, d, q) = k[3]
    BY <2>2, MethodFold
  <2>4. k[0] = d /\ k[1] = Applied("method", k[0], q[1]) /\ k[2] = Applied("method", k[1], q[2]) /\ k[3] = Applied("method", k[2], q[3])
    BY <2>3 DEF RunOf
  <2>5. k[1] = e
    BY <1>5, <2>2, <2>4 DEF Applied
  <2>6. k[2] = f
    BY <1>5, <2>2, <2>4, <2>5 DEF Applied
  <2>7. k[3] = g
    BY <1>5, <2>2, <2>4, <2>6 DEF Applied
  <2>8. r = FoldLeft(WithMethod, d, q)
    BY <1>2, <1>3, <1>4, <2>1 DEF AddTimer
  <2> QED BY <2>3, <2>7, <2>8
<1>7. {"enter", "exit"} \subseteq AgentTexts /\ {TimeMethod, ThreadMethod, NameMethod} \subseteq AgentMethods
  BY AgentTextsHave DEF AgentMethods
<1>8. OneMore(a, b, 1, 2, file) /\ MeansString(b.pool, b.ids[2], {"enter"})
  <2>1. PICK n, l : n = 1 /\ l = 2
    OBVIOUS
  <2>2. n \in Nat /\ l = n + 1 /\ Counted(a, n)
    BY <2>1
  <2>3. OneMore(a, b, n, l, file) /\ MeansString(b.pool, b.ids[l], {"enter"})
    BY <1>1, <1>7, <2>2, WithStringFits
  <2> QED BY <2>1, <2>3
<1>9. OneMore(b, c, 2, 3, file) /\ MeansString(c.pool, c.ids[3], {"exit"})
  <2>1. PICK n, l : n = 2 /\ l = 3
    OBVIOUS
  <2>2. n \in Nat /\ l = n + 1 /\ Counted(b, n) /\ PoolFits(b.pool, file)
    BY <1>8, <2>1 DEF OneMore
  <2>3. OneMore(b, c, n, l, file) /\ MeansString(c.pool, c.ids[l], {"exit"})
    BY <1>1, <1>7, <2>2, WithStringFits
  <2> QED BY <2>1, <2>3
<1>10. PoolFits(p, file) /\ Later(c.pool, p)
  BY <1>3, <1>9, AgentTextsHave, RowOfNames, NamesFit DEF OneMore
<1>11. d.pool = p /\ d.ids = c.ids /\ Counted(d, 3)
  BY <1>4, <1>9 DEF OneMore, Counted
<1>12. OneMore(d, e, 3, 4, file) /\ (Clear(e.pool, file) => MeansRef(e.pool, e.ids[4], TimeMethod))
  BY <1>5, <1>7, <1>10, <1>11, WithMethodFits
<1>13. OneMore(e, f, 4, 5, file) /\ (Clear(f.pool, file) => MeansRef(f.pool, f.ids[5], ThreadMethod))
  <2>1. PICK n, l : n = 4 /\ l = 5
    OBVIOUS
  <2>2. n \in Nat /\ l = n + 1 /\ Counted(e, n) /\ PoolFits(e.pool, file)
    BY <1>12, <2>1 DEF OneMore
  <2>3. OneMore(e, f, n, l, file) /\ (Clear(f.pool, file) => MeansRef(f.pool, f.ids[l], ThreadMethod))
    BY <1>5, <1>7, <2>2, WithMethodFits
  <2> QED BY <2>1, <2>3
<1>14. OneMore(f, g, 5, 6, file) /\ (Clear(g.pool, file) => MeansRef(g.pool, g.ids[6], NameMethod))
  BY <1>5, <1>7, <1>13, WithMethodFits DEF OneMore
<1>15. /\ PoolSound(a.pool) /\ PoolSound(b.pool) /\ PoolSound(c.pool) /\ PoolSound(p)
       /\ PoolSound(e.pool) /\ PoolSound(f.pool) /\ PoolSound(g.pool)
  BY <1>8, <1>9, <1>10, <1>12, <1>13, <1>14 DEF OneMore, PoolFits
<1>16. /\ Later(a.pool, b.pool) /\ Later(b.pool, c.pool) /\ Later(c.pool, p) /\ Later(p, e.pool)
       /\ Later(e.pool, f.pool) /\ Later(f.pool, g.pool)
  BY <1>8, <1>9, <1>10, <1>11, <1>12, <1>13, <1>14 DEF OneMore
<1>17. Later(e.pool, g.pool)
  BY <1>15, <1>16, LaterOn
<1>18. Later(p, g.pool)
  BY <1>15, <1>16, <1>17, LaterOn
<1>19. Later(c.pool, g.pool)
  BY <1>15, <1>16, <1>18, LaterOn
<1>20. Later(b.pool, g.pool)
  BY <1>15, <1>16, <1>19, LaterOn
<1>21. Later(a.pool, g.pool)
  BY <1>15, <1>16, <1>20, LaterOn
<1>22. /\ g.ids[1] = a.ids[1] /\ g.ids[2] = b.ids[2] /\ g.ids[3] = c.ids[3]
       /\ g.ids[4] = e.ids[4] /\ g.ids[5] = f.ids[5]
  <2>1. \A i \in 1 .. 5 : g.ids[i] = f.ids[i]
    BY <1>14 DEF OneMore
  <2>2. \A i \in 1 .. 4 : f.ids[i] = e.ids[i]
    BY <1>13 DEF OneMore
  <2>3. \A i \in 1 .. 3 : e.ids[i] = c.ids[i]
    BY <1>11, <1>12 DEF OneMore
  <2>4. \A i \in 1 .. 2 : c.ids[i] = b.ids[i]
    BY <1>9 DEF OneMore
  <2>5. b.ids[1] = a.ids[1]
    BY <1>8 DEF OneMore
  <2> QED BY <2>1, <2>2, <2>3, <2>4, <2>5
<1>23. MeansString(g.pool, g.ids[2], {"enter"}) /\ MeansString(g.pool, g.ids[3], {"exit"})
  BY <1>8, <1>9, <1>19, <1>20, <1>22, StringLater
<1>24. MeansString(g.pool, g.ids[2], {"enter", "exit"}) /\ MeansString(g.pool, g.ids[3], {"enter", "exit"})
  BY <1>23 DEF MeansString
<1>25. ASSUME Clear(g.pool, file) PROVE TimerMeans(g.pool, g.ids)
  <2>1. Clear(e.pool, file) /\ Clear(f.pool, file)
    BY <1>16, <1>17, <1>25, ClearBefore
  <2>2. MeansRef(g.pool, g.ids[4], TimeMethod)
    BY <1>12, <1>17, <1>22, <2>1, RefLater
  <2>3. MeansRef(g.pool, g.ids[5], ThreadMethod)
    BY <1>13, <1>16, <1>22, <2>1, RefLater
  <2>4. MeansRef(g.pool, g.ids[6], NameMethod)
    BY <1>14, <1>25
  <2> QED BY <1>24, <2>2, <2>3, <2>4 DEF TimerMeans
<1> QED BY <1>6, <1>14, <1>21, <1>22, <1>25 DEF OneMore
-----------------------------------------------------------------------------
LEMMA MovedDoes ==
  ASSUME NEW i, Sound(i), NEW addr \in Int
  PROVE  What([adjust(i, addr) EXCEPT !.addr = addr]) = What(i)
<1>1. PICK x : x = adjust(i, addr)
  OBVIOUS
<1>2. DOMAIN x = InstrParts /\ What(x) = What(i)
  <2>1. CASE x = i
    BY <2>1 DEF Sound
  <2>2. CASE x # i
    <3>1. PICK change : x = [i EXCEPT !.addr = addr, !.offs = [k \in DOMAIN @ |-> @[k] + change]]
      BY <1>1, <2>2 DEF adjust
    <3>2. PICK offs : offs = [k \in DOMAIN i.offs |-> i.offs[k] + change]
      OBVIOUS
    <3>3. x = [i EXCEPT !.addr = addr, !.offs = offs]
      BY <3>1, <3>2
    <3>4. DOMAIN x = InstrParts /\ x.op = i.op /\ x.arg = i.arg /\ x.no = i.no
      BY <3>3 DEF Sound, InstrParts
    <3> QED BY <3>4 DEF What
  <2> QED BY <2>1, <2>2
<1>3. PICK y : y = [x EXCEPT !.addr = addr]
  OBVIOUS
<1>4. y.op = x.op /\ y.arg = x.arg /\ y.no = x.no
  BY <1>2, <1>3 DEF InstrParts
<1> QED BY <1>1, <1>2, <1>3, <1>4 DEF What

LEMMA PlaceDoes ==
  ASSUME NEW code, LaidOut(code), NEW i, Sound(i), NEW A, Does(code, A), What(i) \in A
  PROVE  Does(Place(code, i), A)
<1>1. PICK addr : addr = End(code)
  OBVIOUS
<1>2. addr \in Int
  BY <1>1, CodeSumInt DEF LaidOut
<1>3. PICK x : x = [adjust(i, addr) EXCEPT !.addr = addr]
  OBVIOUS
<1>4. What(x) = What(i)
  BY <1>2, <1>3, MovedDoes
<1>5. PICK r : r = Append(code, x)
  OBVIOUS
<1>6. PICK S : code \in Seq(S)
  BY DEF LaidOut, CodeSound, Listed
<1>7. PICK n \in Nat : n = Len(code) /\ DOMAIN code = 1 .. n
  BY <1>6
<1>8. /\ DOMAIN r = 1 .. n + 1
      /\ \A k \in 1 .. n : r[k] = code[k]
      /\ r[n + 1] = x
  BY <1>5, <1>6, <1>7
<1>9. ASSUME NEW k \in 1 .. n + 1 PROVE What(r[k]) \in A
  <2>1. CASE k = n + 1
    BY <1>4, <1>8, <2>1
  <2>2. CASE k \in 1 .. n
    BY <1>7, <1>8, <2>2 DEF Does
  <2> QED BY <2>1, <2>2
<1>10. Place(code, i) = r
  BY <1>1, <1>3, <1>5 DEF Place, PlaceAt
<1> QED BY <1>8, <1>9, <1>10 DEF Does

LEMMA LayoutDoes ==
  ASSUME NEW instrs, CodeSound(instrs), NEW A, Does(instrs, A)
  PROVE  Does(Layout(instrs), A)
<1>1. PICK n \in Nat : DOMAIN instrs = 1 .. n
  BY DEF CodeSound, Listed
<1>2. PICK k : RunOf("place", <<>>, instrs, n, k) /\ FoldLeft(Place, <<>>, instrs) = k[n]
  BY <1>1, PlaceFold
<1> DEFINE P == {i \in Nat : i <= n => LaidOut(k[i]) /\ Does(k[i], A)}
<1>3. 0 \in P
  <2>1. k[0] = <<>>
    BY <1>2 DEF RunOf
  <2>2. Does(<<>>, A)
    BY DEF Does
  <2> QED BY <2>1, <2>2, NoCode
<1>4. ASSUME NEW i \in Nat, i \in P PROVE i + 1 \in P
  <2> SUFFICES ASSUME i + 1 <= n PROVE LaidOut(k[i + 1]) /\ Does(k[i + 1], A)
    OBVIOUS
  <2>1. i + 1 \in 1 .. n /\ i + 1 - 1 = i /\ i <= n
    OBVIOUS
  <2>2. k[i + 1] = Applied("place", k[i], instrs[i + 1])
    BY <1>2, <2>1 DEF RunOf
  <2>3. k[i + 1] = Place(k[i], instrs[i + 1])
    BY <2>2 DEF Applied
  <2>4. LaidOut(k[i]) /\ Does(k[i], A) /\ Sound(instrs[i + 1]) /\ What(instrs[i + 1]) \in A
    BY <1>1, <1>4, <2>1 DEF CodeSound, Does
  <2> QED BY <2>3, <2>4, PlaceSays, PlaceDoes
<1>5. n \in P
  <2> HIDE DEF P
  <2> QED BY <1>3, <1>4, NatSetInduction
<1> QED BY <1>2, <1>5 DEF Layout

LEMMA TargetsDo ==
  ASSUME NEW code, CodeSound(code), NEW wanted, NEW after, NEW A, Does(code, A)
  PROVE  Does(update_targets(code, wanted, after), A)
<1>1. PICK r : r = update_targets(code, wanted, after)
  OBVIOUS
<1>2. DOMAIN r = DOMAIN code
  BY <1>1 DEF update_targets
<1>3. ASSUME NEW k \in DOMAIN code PROVE What(r[k]) = What(code[k])
  <2>1. CASE ~Moves(code[k], after)
    <3>1. r[k] = code[k]
      BY <1>1, <2>1 DEF update_targets
    <3> QED BY <3>1
  <2>2. CASE Moves(code[k], after)
    <3>1. PICK taken : taken = Taken(code, k, after)
      OBVIOUS
    <3>2. PICK i : i = code[k]
      OBVIOUS
    <3>3. PICK offs : offs = [j \in DOMAIN i.offs |-> OffsetTo(i, wanted[taken + j])]
      OBVIOUS
    <3>4. r[k] = [i EXCEPT !.offs = offs]
      BY <1>1, <2>2, <3>1, <3>2, <3>3 DEF update_targets
    <3>5. DOMAIN i = InstrParts
      BY <3>2 DEF CodeSound, Sound
    <3>6. r[k].op = i.op /\ r[k].arg = i.arg /\ r[k].no = i.no
      BY <3>4, <3>5 DEF InstrParts
    <3> QED BY <3>2, <3>6 DEF What
  <2> QED BY <2>1, <2>2
<1> QED BY <1>1, <1>2, <1>3 DEF Does

LEMMA OpenedDoes ==
  ASSUME NEW code, CodeSound(code), NEW new, CodeSound(new), NEW k \in 0 .. Len(code),
         NEW A, Does(code, A), Does(new, A)
  PROVE  Does(Opened(code, k, new), A)
<1>1. CASE k = 0
  BY <1>1 DEF Opened
<1>2. CASE k # 0
  <2>1. PICK S, T : code \in Seq(S) /\ new \in Seq(T)
    BY DEF CodeSound, Listed
  <2>2. PICK U : U = {i \in S \cup T : What(i) \in A}
    OBVIOUS
  <2>3. \A j \in DOMAIN code : code[j] \in U
    BY <2>1, <2>2 DEF Does
  <2>4. \A j \in DOMAIN new : new[j] \in U
    BY <2>1, <2>2 DEF Does
  <2>5. code \in Seq(U)
    BY <2>1, <2>3
  <2>6. new \in Seq(U)
    BY <2>1, <2>4
  <2>7. PICK r : r = SubSeq(code, 1, k - 1) \o new \o SubSeq(code, k, Len(code))
    OBVIOUS
  <2>8. r \in Seq(U)
    <3>1. k \in 1 .. Len(code) /\ Len(code) \in Nat
      BY <1>2, <2>5
    <3>2. SubSeq(code, 1, k - 1) \in Seq(U)
      BY <2>5, <3>1
    <3>3. SubSeq(code, k, Len(code)) \in Seq(U)
      BY <2>5, <3>1
    <3> QED BY <2>6, <2>7, <3>2, <3>3
  <2>9. \A j \in DOMAIN r : r[j] \in U
    BY <2>8
  <2>10. Does(r, A)
    BY <2>2, <2>9 DEF Does
  <2> QED BY <1>2, <2>7, <2>10 DEF Opened
<1> QED BY <1>1, <1>2

LEMMA InsertDoes ==
  ASSUME NEW m, NEW n, Sized(m, n), NEW new, CodeSound(new), NEW at, NEW sticky,
         NEW A, Does(m.code, A), Does(new, A)
  PROVE  Does(InsertInto(m, at, new, sticky).code, A)
<1>1. PICK k : k = SelectInSeq(m.code, LAMBDA i : i.addr = at)
  OBVIOUS
<1>2. k \in 0 .. Len(m.code)
  <2>1. PICK T : T = {i \in 1 .. Len(m.code) : m.code[i].addr = at}
    OBVIOUS
  <2>2. k = IF T # {} THEN Min(T) ELSE 0
    BY <1>1, <2>1 DEF SelectInSeq
  <2>3. Len(m.code) \in Nat
    BY ListedRow DEF Sized, CodeSound, Row
  <2>4. T \subseteq Nat
    BY <2>1, <2>3
  <2>5. T # {} => Min(T) \in T
    BY <2>4, FirstOne
  <2> QED BY <2>1, <2>2, <2>3, <2>5
<1>3. PICK opened : opened = Opened(m.code, k, new)
  OBVIOUS
<1>4. CodeSound(opened) /\ Does(opened, A)
  BY <1>2, <1>3, OpenedSound, OpenedDoes DEF Sized
<1>5. PICK laid : laid = Layout(opened)
  OBVIOUS
<1>6. CodeSound(laid) /\ Does(laid, A)
  BY <1>4, <1>5, LayoutSays, LayoutDoes DEF LaidOut
<1>7. PICK moved : moved = NewAddresses(m.code, laid, k, sticky)
  OBVIOUS
<1>8. PICK r : r = Redirect(m, laid, moved)
  OBVIOUS
<1>9. DOMAIN r = MethodParts /\ Does(r.code, A)
  <2>1. PICK w : w = [j \in DOMAIN AllTargets(m.code) |-> NewAddr(moved, AllTargets(m.code)[j])]
    OBVIOUS
  <2>2. PICK code : code = update_targets(laid, w, 0)
    OBVIOUS
  <2>3. PICK es : es = [j \in DOMAIN m.exceptions |-> update_exception(m.exceptions[j], moved)]
    OBVIOUS
  <2>4. r = [m EXCEPT !.code = code, !.codeLength = End(laid), !.exceptions = es]
    BY <1>8, <2>1, <2>2, <2>3 DEF Redirect
  <2>5. Does(code, A)
    BY <1>6, <2>2, TargetsDo
  <2>6. DOMAIN r = MethodParts /\ r.code = code
    BY <2>4 DEF Sized, MethodParts
  <2> QED BY <2>5, <2>6
<1>10. PICK s : s = AdjustFrames(r)
  OBVIOUS
<1>11. s.code = r.code
  <2>1. PICK targets : targets = FrameTargets(r.code, r.exceptions)
    OBVIOUS
  <2>2. PICK fs, e : s = [r EXCEPT !.frames = fs, !.ended = e]
    BY <1>10, <2>1 DEF AdjustFrames, AdjustTo
  <2> QED BY <1>9, <2>2 DEF MethodParts
<1>12. InsertInto(m, at, new, sticky) = s
  BY <1>1, <1>3, <1>5, <1>7, <1>8, <1>10 DEF InsertInto
<1> QED BY <1>9, <1>11, <1>12

LEMMA AddDoes ==
  ASSUME NEW m, NEW n, Sized(m, n), NEW new, CodeSound(new), NEW at, NEW sticky,
         NEW A, Does(m.code, A), Does(new, A)
  PROVE  Does(add_instructions(m, at, new, sticky).code, A)
<1>1. PICK long : long = Sum([k \in DOMAIN new |-> Size(new[k])])
  OBVIOUS
<1>2. PICK r : r = [m EXCEPT !.code = new, !.codeLength = long]
  OBVIOUS
<1>3. r.code = new
  BY <1>2 DEF Sized, MethodParts
<1>4. \/ add_instructions(m, at, new, sticky) = m
      \/ add_instructions(m, at, new, sticky) = r
      \/ add_instructions(m, at, new, sticky) = InsertInto(m, at, new, sticky)
  BY <1>1, <1>2 DEF add_instructions
<1> QED BY <1>3, <1>4, InsertDoes

LEMMA StepDoes ==
  ASSUME NEW m, NEW n, Sized(m, n), NEW step, StepSound(step),
         NEW A, Does(m.code, A), Does(step.call, A)
  PROVE  Does(Insert(m, step).code, A)
<1>1. PICK q : q = Places(m.code, step)
  OBVIOUS
<1>2. Row(q) /\ \A k \in DOMAIN q : q[k].call = step.call
  BY <1>1, PlacesSay DEF Sized
<1>3. PICK l \in Nat : DOMAIN q = 1 .. l
  BY <1>2 DEF Row
<1>4. PICK k : RunOf("into", m, q, l, k) /\ FoldLeft(WithPlace, m, q) = k[l]
  BY <1>3, IntoFold
<1> DEFINE P == {i \in Nat : i <= l => Sized(k[i], n) /\ Does(k[i].code, A)}
<1>5. 0 \in P
  BY <1>4 DEF RunOf
<1>6. ASSUME NEW i \in Nat, i \in P PROVE i + 1 \in P
  <2> SUFFICES ASSUME i + 1 <= l PROVE Sized(k[i + 1], n) /\ Does(k[i + 1].code, A)
    OBVIOUS
  <2>1. i + 1 \in 1 .. l /\ i + 1 - 1 = i /\ i <= l
    OBVIOUS
  <2>2. k[i + 1] = Applied("into", k[i], q[i + 1])
    BY <1>4, <2>1 DEF RunOf
  <2>3. k[i + 1] = add_instructions(k[i], q[i + 1].at, q[i + 1].call, q[i + 1].sticky)
    BY <2>2 DEF Applied, WithPlace
  <2>4. Sized(k[i], n) /\ Does(k[i].code, A) /\ CodeSound(q[i + 1].call) /\ Does(q[i + 1].call, A)
    BY <1>2, <1>3, <1>6, <2>1 DEF StepSound
  <2> QED BY <2>3, <2>4, AddSized, AddDoes
<1>7. l \in P
  <2> HIDE DEF P
  <2> QED BY <1>5, <1>6, NatSetInduction
<1> QED BY <1>1, <1>4, <1>7 DEF Insert
-----------------------------------------------------------------------------
(* What is inserted for a signal, and for a timer.                         *)
LEMMA InstructionDoes ==
  ASSUME NEW op, NEW arg, NEW part
  PROVE  What(Instruction(op, arg, part)) = <<op, arg, 0>>
BY DEF What, Instruction

LEMMA GroupDoes ==
  ASSUME NEW n, NEW ops, DOMAIN ops = 1 .. n, NEW args, NEW A,
         \A k \in 1 .. n : <<ops[k], args[k], 0>> \in A
  PROVE  Does(Group(ops, args), A)
<1>1. PICK r : r = Group(ops, args)
  OBVIOUS
<1>2. DOMAIN r = 1 .. n /\ \A k \in 1 .. n : r[k] = Instruction(ops[k], args[k], k)
  BY <1>1 DEF Group
<1>3. \A k \in 1 .. n : What(r[k]) \in A
  BY <1>2, InstructionDoes
<1> QED BY <1>1, <1>2, <1>3 DEF Does

LEMMA SignalDoes ==
  ASSUME NEW hook_, NEW A, SignalDoing(hook_) \subseteq A
  PROVE  Does(SignalCall(hook_), A)
<1>1. PICK ops, args : ops = <<"aload_0", "invokestatic">> /\ args = <<0, hook_>>
  OBVIOUS
<1>2. DOMAIN ops = 1 .. 2 /\ \A k \in 1 .. 2 : <<ops[k], args[k], 0>> \in A
  BY <1>1 DEF SignalDoing
<1> QED BY <1>1, <1>2, GroupDoes DEF SignalCall

LEMMA TimerDoes ==
  ASSUME NEW which, NEW time, NEW thread, NEW getName, NEW hook_, NEW A,
         TimerDoing(which, time, thread, getName, hook_) \subseteq A
  PROVE  Does(TimerCall(which, time, thread, getName, hook_), A)
<1>1. PICK w : w = which % 256
  OBVIOUS
<1>2. PICK ops, args : /\ ops = <<"invokestatic", "ldc", "invokestatic", "invokevirtual", "invokestatic">>
                       /\ args = <<time, w, thread, getName, hook_>>
  OBVIOUS
<1>3. DOMAIN ops = 1 .. 5 /\ \A k \in 1 .. 5 : <<ops[k], args[k], 0>> \in A
  <2>1. /\ <<"invokestatic", time, 0>> \in A /\ <<"ldc", w, 0>> \in A /\ <<"invokestatic", thread, 0>> \in A
        /\ <<"invokevirtual", getName, 0>> \in A /\ <<"invokestatic", hook_, 0>> \in A
    BY <1>1 DEF TimerDoing
  <2> QED BY <1>2, <2>1
<1> QED BY <1>1, <1>2, <1>3, GroupDoes DEF TimerCall

LEMMA NoStepDoes ==
  ASSUME NEW A
  PROVE  StepsDo(<<>>, A)
<1>1. PICK q, S : q = <<>> /\ S = {}
  OBVIOUS
<1>2. q \in Seq(S) /\ \A step \in S : StepDoing(step, A)
  BY <1>1
<1>3. StepsDo(q, A)
  BY <1>2 DEF StepsDo
<1> QED BY <1>1, <1>3

LEMMA OneStepDoes ==
  ASSUME NEW A, NEW where \in {"entry", "init", "exits"}, NEW call, CodeSound(call), Does(call, A)
  PROVE  StepsDo(<<[where |-> where, call |-> call]>>, A)
<1>1. PICK step : step = [where |-> where, call |-> call]
  OBVIOUS
<1>2. StepDoing(step, A)
  BY <1>1 DEF StepDoing, StepSound
<1>3. PICK q, S : q = <<step>> /\ S = {step}
  OBVIOUS
<1>4. q \in Seq(S) /\ \A x \in S : StepDoing(x, A)
  BY <1>2, <1>3
<1>5. StepsDo(q, A)
  BY <1>4 DEF StepsDo
<1> QED BY <1>1, <1>3, <1>5

LEMMA MoreStepsDo ==
  ASSUME NEW A, NEW a, NEW b, StepsDo(a, A), StepsDo(b, A)
  PROVE  StepsDo(a \o b, A)
<1>1. PICK S : a \in Seq(S) /\ \A step \in S : StepDoing(step, A)
  BY DEF StepsDo
<1>2. PICK T : b \in Seq(T) /\ \A step \in T : StepDoing(step, A)
  BY DEF StepsDo
<1>3. a \o b \in Seq(S \cup T)
  BY <1>1, <1>2
<1> QED BY <1>1, <1>2, <1>3 DEF StepsDo

LEMMA SignalCallSound ==
  ASSUME NEW hook_
  PROVE  CodeSound(SignalCall(hook_))
<1>1. PICK ops : ops = <<"aload_0", "invokestatic">>
  OBVIOUS
<1>2. DOMAIN ops = 1 .. 2 /\ \A k \in 1 .. 2 : ops[k] \in {"aload_0", "invokestatic", "ldc", "invokevirtual"}
  BY <1>1
<1>3. SignalCall(hook_) = Group(ops, <<0, hook_>>)
  BY <1>1 DEF SignalCall
<1> QED BY <1>2, <1>3, GroupSound

LEMMA TimerCallSound ==
  ASSUME NEW which, NEW time, NEW thread, NEW getName, NEW hook_
  PROVE  CodeSound(TimerCall(which, time, thread, getName, hook_))
<1>1. PICK ops : ops = <<"invokestatic", "ldc", "invokestatic", "invokevirtual", "invokestatic">>
  OBVIOUS
<1>2. DOMAIN ops = 1 .. 5 /\ \A k \in 1 .. 5 : ops[k] \in {"aload_0", "invokestatic", "ldc", "invokevirtual"}
  BY <1>1
<1>3. PICK args : args = <<time, which % 256, thread, getName, hook_>>
  OBVIOUS
<1>4. TimerCall(which, time, thread, getName, hook_) = Group(ops, args)
  BY <1>1, <1>3 DEF TimerCall
<1> QED BY <1>2, <1>4, GroupSound

LEMMA InsertionsDo ==
  ASSUME NEW flags, NEW ids, NEW A, SignalDoing(ids[1]) \subseteq A,
         IsTimer(flags) => /\ TimerDoing(ids[2], ids[4], ids[5], ids[6], ids[1]) \subseteq A
                           /\ TimerDoing(ids[3], ids[4], ids[5], ids[6], ids[1]) \subseteq A
  PROVE  StepsDo(Insertions(flags, ids), A)
<1>1. PICK call : call = SignalCall(ids[1])
  OBVIOUS
<1>2. CodeSound(call) /\ Does(call, A)
  BY <1>1, SignalCallSound, SignalDoes
<1>3. PICK begin, end : /\ begin = TimerCall(ids[2], ids[4], ids[5], ids[6], ids[1])
                        /\ end = TimerCall(ids[3], ids[4], ids[5], ids[6], ids[1])
  OBVIOUS
<1>4. /\ CodeSound(begin) /\ CodeSound(end)
      /\ IsTimer(flags) => Does(begin, A) /\ Does(end, A)
  BY <1>3, TimerCallSound, TimerDoes
<1>5. PICK init, entry, exits, first, last :
        /\ init  = <<[where |-> "init", call |-> call]>>
        /\ entry = <<[where |-> "entry", call |-> call]>>
        /\ exits = <<[where |-> "exits", call |-> call]>>
        /\ first = <<[where |-> "entry", call |-> begin]>>
        /\ last  = <<[where |-> "exits", call |-> end]>>
  OBVIOUS
<1>6. /\ StepsDo(init, A) /\ StepsDo(entry, A) /\ StepsDo(exits, A)
      /\ IsTimer(flags) => StepsDo(first, A) /\ StepsDo(last, A)
  BY <1>2, <1>4, <1>5, OneStepDoes
<1>7. PICK a, b, c : /\ a = (IF "ENTER" \in flags THEN entry ELSE <<>>)
                     /\ b = (IF "EXIT" \in flags THEN exits ELSE <<>>)
                     /\ c = (IF IsTimer(flags) THEN first \o last ELSE <<>>)
  OBVIOUS
<1>8. StepsDo(a, A) /\ StepsDo(b, A) /\ StepsDo(c, A)
  <2>1. IsTimer(flags) => StepsDo(first \o last, A)
    BY <1>6, MoreStepsDo
  <2> QED BY <1>6, <1>7, <2>1, NoStepDoes
<1>9. StepsDo(a \o b \o c, A)
  <2>1. StepsDo(a \o b, A)
    BY <1>8, MoreStepsDo
  <2> QED BY <1>8, <2>1, MoreStepsDo
<1>10. Insertions(flags, ids) = (IF IsHeap(flags) THEN init ELSE a \o b \o c)
  BY <1>1, <1>3, <1>5, <1>7 DEF Insertions
<1> QED BY <1>6, <1>9, <1>10

(* A method is left with what it did and what was inserted.                *)
LEMMA UpdateDoes ==
  ASSUME NEW m, NEW n, Sized(m, n), NEW flags, NEW q, NEW A, StepsDo(q, A), Does(m.code, A)
  PROVE  Does(Raised(FoldLeft(Insert, m, q), flags).code, A)
<1>1. PICK S : q \in Seq(S) /\ \A step \in S : StepDoing(step, A)
  BY DEF StepsDo
<1>2. PICK l \in Nat : DOMAIN q = 1 .. l
  BY <1>1
<1>3. PICK k : RunOf("insert", m, q, l, k) /\ FoldLeft(Insert, m, q) = k[l]
  BY <1>2, InsertFold
<1> DEFINE P == {i \in Nat : i <= l => Sized(k[i], n) /\ Does(k[i].code, A)}
<1>4. 0 \in P
  BY <1>3 DEF RunOf
<1>5. ASSUME NEW i \in Nat, i \in P PROVE i + 1 \in P
  <2> SUFFICES ASSUME i + 1 <= l PROVE Sized(k[i + 1], n) /\ Does(k[i + 1].code, A)
    OBVIOUS
  <2>1. i + 1 \in 1 .. l /\ i + 1 - 1 = i /\ i <= l
    OBVIOUS
  <2>2. k[i + 1] = Applied("insert", k[i], q[i + 1])
    BY <1>3, <2>1 DEF RunOf
  <2>3. k[i + 1] = Insert(k[i], q[i + 1])
    BY <2>2 DEF Applied
  <2>4. Sized(k[i], n) /\ Does(k[i].code, A) /\ StepSound(q[i + 1]) /\ Does(q[i + 1].call, A)
    BY <1>1, <1>2, <1>5, <2>1 DEF StepDoing
  <2> QED BY <2>3, <2>4, StepSized, StepDoes
<1>6. l \in P
  <2> HIDE DEF P
  <2> QED BY <1>4, <1>5, NatSetInduction
<1>7. PICK r : r = k[l]
  OBVIOUS
<1>8. Sized(r, n) /\ Does(r.code, A)
  BY <1>6, <1>7
<1>9. Raised(r, flags).code = r.code
  <2>1. PICK d : Raised(r, flags) = [r EXCEPT !.maxStack = d]
    BY DEF Raised
  <2>2. PICK s : s = [r EXCEPT !.maxStack = d]
    OBVIOUS
  <2>3. s.code = r.code
    BY <1>8, <2>2 DEF Sized, MethodParts
  <2> QED BY <2>1, <2>2, <2>3
<1> QED BY <1>3, <1>7, <1>8, <1>9
-----------------------------------------------------------------------------
LEMMA MeansLater ==
  ASSUME NEW p, NEW q, PoolSound(p), PoolSound(q), Later(p, q), NEW op, NEW arg, Means(p, op, arg)
  PROVE  Means(q, op, arg)
<1>1. op = "ldc" => (q.next < 256 => MeansString(q, arg, {"enter", "exit"}))
  <2> SUFFICES ASSUME op = "ldc", q.next < 256 PROVE MeansString(q, arg, {"enter", "exit"})
    OBVIOUS
  <2>1. p.next < 256
    BY DEF Later, PoolSound
  <2>2. MeansString(p, arg, {"enter", "exit"})
    BY <2>1 DEF Means
  <2> QED BY <2>2, StringLater
<1>2. op = "invokevirtual" => MeansRef(q, arg, NameMethod)
  BY RefLater DEF Means
<1>3. op = "invokestatic" => \E m \in AgentMethods \ {NameMethod} : MeansRef(q, arg, m)
  BY RefLater DEF Means
<1> QED BY <1>1, <1>2, <1>3 DEF Means

LEMMA TimerNeeds ==
  ASSUME NEW p, PoolSound(p), NEW ids, TimerMeans(p, ids), NEW i \in {2, 3},
         NEW callTo \in AgentMethods \ {NameMethod}, MeansRef(p, ids[1], callTo),
         NEW x \in TimerDoing(ids[i], ids[4], ids[5], ids[6], ids[1])
  PROVE  Means(p, x[1], x[2])
<1>1. PICK which, time, thread, getName, to :
        which = ids[i] /\ time = ids[4] /\ thread = ids[5] /\ getName = ids[6] /\ to = ids[1]
  OBVIOUS
<1>2. /\ MeansString(p, which, {"enter", "exit"})
      /\ MeansRef(p, time, TimeMethod) /\ MeansRef(p, thread, ThreadMethod)
      /\ MeansRef(p, getName, NameMethod) /\ MeansRef(p, to, callTo)
  BY <1>1 DEF TimerMeans
<1>3. TimeMethod \in AgentMethods \ {NameMethod} /\ ThreadMethod \in AgentMethods \ {NameMethod}
  <2>1. TimeMethod.name = "currentTimeMillis" /\ ThreadMethod.name = "currentThread" /\ NameMethod.name = "getName"
    BY DEF TimeMethod, ThreadMethod, NameMethod
  <2>2. TimeMethod # NameMethod /\ ThreadMethod # NameMethod
    BY <2>1
  <2> QED BY <2>2 DEF AgentMethods
<1>4. Means(p, "invokestatic", time) /\ Means(p, "invokestatic", thread) /\ Means(p, "invokestatic", to)
  BY <1>2, <1>3 DEF Means
<1>5. Means(p, "invokevirtual", getName)
  BY <1>2 DEF Means
<1>6. Means(p, "ldc", which % 256)
  <2> SUFFICES ASSUME p.next < 256 PROVE MeansString(p, which % 256, {"enter", "exit"})
    BY DEF Means
  <2>1. PICK u : Holds(p, which, StringConst(u))
    BY <1>2 DEF MeansString
  <2>2. which \in 1 .. p.next /\ p.next \in Nat
    BY <2>1, HeldIndex
  <2>3. which % 256 = which
    BY <2>2
  <2> QED BY <1>2, <2>3
<1>7. PICK w : w = which % 256
  OBVIOUS
<1>8. x \in {<<"invokestatic", time, 0>>, <<"ldc", w, 0>>, <<"invokestatic", thread, 0>>,
             <<"invokevirtual", getName, 0>>, <<"invokestatic", to, 0>>}
  BY <1>1, <1>7 DEF TimerDoing
<1> QED BY <1>4, <1>5, <1>6, <1>7, <1>8

LEMMA SignalNeeds ==
  ASSUME NEW p, NEW to, NEW callTo \in AgentMethods \ {NameMethod}, MeansRef(p, to, callTo),
         NEW x \in SignalDoing(to)
  PROVE  Means(p, x[1], x[2])
<1>1. Means(p, "invokestatic", to)
  BY DEF Means
<1>2. Means(p, "aload_0", 0)
  BY DEF Means
<1>3. x \in {<<"aload_0", 0, 0>>, <<"invokestatic", to, 0>>}
  BY DEF SignalDoing
<1> QED BY <1>1, <1>2, <1>3

(* update_method leaves the code of a method referring to what it is to.   *)
LEMMA UpdateMeans ==
  ASSUME Numerals(Nat), NEW m, NEW pool, NEW file, PoolFits(pool, file), NEW flags,
         NEW callTo \in AgentMethods \ {NameMethod}, NEW r, r = update_method(m, pool, flags, callTo)
  PROVE  /\ PoolFits(r.pool, file) /\ Later(pool, r.pool)
         /\ Clear(r.pool, file) /\ CodeMeans(pool, m.code) /\ (\E n : Sized(m, n)) => CodeMeans(r.pool, r.method.code)
<1>1. PICK a : a = [pool |-> pool, ids |-> <<>>]
  OBVIOUS
<1>2. Counted(a, 0) /\ a.pool = pool
  <2>1. <<>> \in Seq({}) /\ Len(<<>>) = 0
    OBVIOUS
  <2> QED BY <1>1, <2>1 DEF Counted, Listed
<1>3. PICK b : b = WithMethod(a, callTo)
  OBVIOUS
<1>4. OneMore(a, b, 0, 1, file) /\ (Clear(b.pool, file) => MeansRef(b.pool, b.ids[1], callTo))
  <2>1. PICK k, l : k = 0 /\ l = 1
    OBVIOUS
  <2>2. k \in Nat /\ l = k + 1 /\ Counted(a, k)
    BY <1>2, <2>1
  <2>3. OneMore(a, b, k, l, file) /\ (Clear(b.pool, file) => MeansRef(b.pool, b.ids[l], callTo))
    BY <1>2, <1>3, <2>2, WithMethodFits
  <2> QED BY <2>1, <2>3
<1>5. PICK c : c = IF IsTimer(flags) THEN AddTimer(b) ELSE b
  OBVIOUS
<1>6. PICK q, ids : q = c.pool /\ ids = c.ids
  OBVIOUS
<1>7. /\ PoolFits(q, file) /\ Later(b.pool, q) /\ ids[1] = b.ids[1]
      /\ Clear(q, file) /\ IsTimer(flags) => TimerMeans(q, ids)
  <2>1. CASE IsTimer(flags)
    BY <1>4, <1>5, <1>6, <2>1, TimerFits DEF OneMore
  <2>2. CASE ~IsTimer(flags)
    BY <1>4, <1>5, <1>6, <2>2, LaterSelf DEF OneMore, PoolFits
  <2> QED BY <2>1, <2>2
<1>8. PICK steps : steps = Insertions(flags, ids)
  OBVIOUS
<1>9. PICK w : w = Raised(FoldLeft(Insert, m, steps), flags)
  OBVIOUS
<1>10. r.method = w /\ r.pool = q
  BY <1>1, <1>3, <1>5, <1>6, <1>8, <1>9 DEF update_method
<1>11. Later(pool, q)
  BY <1>2, <1>4, <1>7, LaterOn DEF OneMore, PoolFits
<1>12. ASSUME Clear(q, file), CodeMeans(pool, m.code), NEW n, Sized(m, n) PROVE CodeMeans(q, w.code)
  <2>1. PICK B, T1, T2 : /\ B = SignalDoing(ids[1])
                         /\ T1 = TimerDoing(ids[2], ids[4], ids[5], ids[6], ids[1])
                         /\ T2 = TimerDoing(ids[3], ids[4], ids[5], ids[6], ids[1])
    OBVIOUS
  <2>2. PICK O, A : /\ O = {What(m.code[k]) : k \in DOMAIN m.code}
                    /\ A = O \cup B \cup (IF IsTimer(flags) THEN T1 \cup T2 ELSE {})
    OBVIOUS
  <2>3. Does(m.code, A)
    BY <2>2 DEF Does
  <2>4. StepsDo(steps, A)
    BY <1>8, <2>1, <2>2, InsertionsDo
  <2>5. Does(w.code, A)
    BY <1>9, <1>12, <2>3, <2>4, UpdateDoes
  <2>6. Clear(b.pool, file)
    BY <1>7, <1>12, ClearBefore
  <2>7. MeansRef(q, ids[1], callTo)
    BY <1>4, <1>7, <2>6, RefLater
  <2>8. \A x \in B : Means(q, x[1], x[2])
    BY <2>1, <2>7, SignalNeeds
  <2>9. IsTimer(flags) => \A x \in T1 \cup T2 : Means(q, x[1], x[2])
    <3> SUFFICES ASSUME IsTimer(flags), NEW x \in T1 \cup T2 PROVE Means(q, x[1], x[2])
      OBVIOUS
    <3>1. TimerMeans(q, ids) /\ PoolSound(q)
      BY <1>7, <1>12 DEF PoolFits
    <3>2. CASE x \in T1
      BY <2>1, <2>7, <3>1, <3>2, TimerNeeds
    <3>3. CASE x \in T2
      BY <2>1, <2>7, <3>1, <3>3, TimerNeeds
    <3> QED BY <3>2, <3>3
  <2>10. ASSUME NEW x \in O, x[3] = 0 PROVE Means(q, x[1], x[2])
    <3>1. PICK k \in DOMAIN m.code : x = What(m.code[k])
      BY <2>2
    <3>2. x[1] = m.code[k].op /\ x[2] = m.code[k].arg /\ x[3] = m.code[k].no
      BY <3>1 DEF What
    <3>3. Means(pool, x[1], x[2])
      BY <1>12, <2>10, <3>2 DEF CodeMeans
    <3> QED BY <1>7, <1>11, <3>3, MeansLater DEF PoolFits
  <2>11. ASSUME NEW k \in DOMAIN w.code, w.code[k].no = 0
         PROVE  Means(q, w.code[k].op, w.code[k].arg)
    <3>1. PICK x : x = What(w.code[k])
      OBVIOUS
    <3>2. x[1] = w.code[k].op /\ x[2] = w.code[k].arg /\ x[3] = w.code[k].no
      BY <3>1 DEF What
    <3>3. x \in A
      BY <2>5, <3>1 DEF Does
    <3>4. x \in O \/ x \in B \/ (IsTimer(flags) /\ x \in T1 \cup T2)
      BY <2>2, <3>3
    <3>5. Means(q, x[1], x[2])
      BY <2>8, <2>9, <2>10, <2>11, <3>2, <3>4
    <3> QED BY <3>2, <3>5
  <2> QED BY <2>11 DEF CodeMeans
<1> QED BY <1>7, <1>10, <1>11, <1>12
-----------------------------------------------------------------------------
LEMMA CodeMeansLater ==
  ASSUME NEW p, NEW q, PoolSound(p), PoolSound(q), Later(p, q), NEW code, CodeMeans(p, code)
  PROVE  CodeMeans(q, code)
BY MeansLater DEF CodeMeans

LEMMA CallMeans ==
  ASSUME Numerals(Nat), NEW ms, NEW f, DOMAIN f = ClassParts, ClassSized(ms, f), NEW file, ClassMeans(f, file),
         NEW c, c.callTo \in AgentMethods \ {NameMethod}
  PROVE  ClassMeans(WithCall(f, c), file)
<1>1. PICK m, r : m = f.methods[c.key] /\ r = update_method(m, f.pool, c.flags, c.callTo)
  OBVIOUS
<1>2. PICK g : g = [f EXCEPT !.pool = r.pool, !.methods[c.key] = r.method]
  OBVIOUS
<1>3. g.methods = [f.methods EXCEPT ![c.key] = r.method] /\ g.pool = r.pool
  BY <1>2 DEF ClassParts
<1>4. /\ PoolFits(r.pool, file) /\ Later(f.pool, r.pool)
      /\ Clear(r.pool, file) /\ CodeMeans(f.pool, m.code) /\ (\E n : Sized(m, n)) => CodeMeans(r.pool, r.method.code)
  BY <1>1, UpdateMeans DEF ClassMeans
<1>5. ASSUME Clear(g.pool, file), NEW key \in DOMAIN g.methods
      PROVE  CodeMeans(g.pool, g.methods[key].code)
  <2>1. Clear(f.pool, file)
    BY <1>3, <1>4, <1>5, ClearBefore
  <2>2. key \in DOMAIN f.methods /\ g.methods[key] = IF key = c.key THEN r.method ELSE f.methods[key]
    BY <1>3
  <2>3. CodeMeans(f.pool, f.methods[key].code)
    BY <2>1, <2>2 DEF ClassMeans, MethodsMean
  <2>4. CASE key = c.key
    <3>1. \E n : Sized(m, n)
      BY <1>1, <2>2, <2>4 DEF ClassSized
    <3> QED BY <1>1, <1>3, <1>4, <1>5, <2>2, <2>3, <2>4, <3>1
  <2>5. CASE key # c.key
    <3>1. CodeMeans(r.pool, f.methods[key].code)
      BY <1>4, <2>3, CodeMeansLater DEF ClassMeans, PoolFits
    <3> QED BY <1>3, <2>2, <2>5, <3>1
  <2> QED BY <2>4, <2>5
<1>6. WithCall(f, c) = g
  BY <1>1, <1>2 DEF WithCall, add_method_call, Replaced
<1> QED BY <1>3, <1>4, <1>5, <1>6 DEF ClassMeans, MethodsMean
-----------------------------------------------------------------------------
(* What a signal calls.                                                    *)
LEMMA CallsTo ==
  ASSUME NEW f, IsFiniteSet(DOMAIN f.methods), NEW s, NEW calls, calls = CallsFor(f, s)
  PROVE  \A i \in DOMAIN calls : calls[i].callTo \in AgentMethods \ {NameMethod}
<1>1. /\ HOOK_SIGNAL_DESCRIPTOR \in AgentMethods \ {NameMethod}
      /\ HOOK_TIMER_DESCRIPTOR \in AgentMethods \ {NameMethod}
      /\ HOOK_MONITOR_HEAP_DESCRIPTOR \in AgentMethods \ {NameMethod}
  <2>1. /\ HOOK_SIGNAL_DESCRIPTOR.name = "thook" /\ HOOK_TIMER_DESCRIPTOR.name = "timerhook"
        /\ HOOK_MONITOR_HEAP_DESCRIPTOR.name = "heaphook" /\ NameMethod.name = "getName"
    BY DEF HOOK_SIGNAL_DESCRIPTOR, HOOK_TIMER_DESCRIPTOR, HOOK_MONITOR_HEAP_DESCRIPTOR, NameMethod
  <2>2. /\ HOOK_SIGNAL_DESCRIPTOR # NameMethod /\ HOOK_TIMER_DESCRIPTOR # NameMethod
        /\ HOOK_MONITOR_HEAP_DESCRIPTOR # NameMethod
    BY <2>1
  <2> QED BY <2>2 DEF AgentMethods
<1>2. \A key, to, flags : CallIn(key, to, flags).callTo = to
  BY DEF CallIn
<1>3. PICK keys : keys = Descriptors(f)
  OBVIOUS
<1>4. PICK new : new = Constructors(f)
  OBVIOUS
<1>5. \/ calls = <<>>
      \/ calls = <<CallIn(s.name, HookOf(s), s.flags)>>
      \/ calls = add_hooks_to_all_methods(keys, s)
      \/ calls = add_hooks_to_all_constructors(new, s)
  BY <1>3, <1>4 DEF CallsFor, Matches
<1>6. CASE calls = <<>>
  BY <1>6
<1>7. CASE calls = <<CallIn(s.name, HookOf(s), s.flags)>>
  <2>1. PICK x : x = CallIn(s.name, HookOf(s), s.flags)
    OBVIOUS
  <2>2. x.callTo \in AgentMethods \ {NameMethod}
    BY <1>1, <1>2, <2>1 DEF HookOf
  <2>3. \A i \in DOMAIN calls : calls[i] = x
    BY <1>7, <2>1
  <2> QED BY <2>2, <2>3
<1>8. CASE calls = add_hooks_to_all_methods(keys, s)
  BY <1>1, <1>2, <1>8 DEF add_hooks_to_all_methods
<1>9. CASE calls = add_hooks_to_all_constructors(new, s)
  BY <1>1, <1>2, <1>9 DEF add_hooks_to_all_constructors
<1> QED BY <1>5, <1>6, <1>7, <1>8, <1>9

LEMMA HookMeans ==
  ASSUME Numerals(Nat), NEW ms, NEW f, SameRead(f, f), ClassSized(ms, f), NEW file, ClassMeans(f, file), NEW s
  PROVE  ClassMeans(hook(f, s), file)
<1>1. PICK q : q = CallsFor(f, s)
  OBVIOUS
<1>2. PICK n \in Nat : DOMAIN q = 1 .. n
  BY <1>1, CallsRow DEF SameRead, Row
<1>3. PICK k : RunOf("call", f, q, n, k) /\ FoldLeft(WithCall, f, q) = k[n]
  BY <1>2, CallFold
<1>4. \A i \in 1 .. n : q[i].callTo \in AgentMethods \ {NameMethod}
  BY <1>1, <1>2, CallsTo DEF SameRead
<1> DEFINE P == {i \in Nat : i <= n => SameRead(k[i], k[i]) /\ ClassSized(ms, k[i]) /\ ClassMeans(k[i], file)}
<1>5. 0 \in P
  BY <1>3 DEF RunOf
<1>6. ASSUME NEW i \in Nat, i \in P PROVE i + 1 \in P
  <2> SUFFICES ASSUME i + 1 <= n
               PROVE  SameRead(k[i + 1], k[i + 1]) /\ ClassSized(ms, k[i + 1]) /\ ClassMeans(k[i + 1], file)
    OBVIOUS
  <2>1. i + 1 \in 1 .. n /\ i + 1 - 1 = i /\ i <= n
    OBVIOUS
  <2>2. k[i + 1] = Applied("call", k[i], q[i + 1])
    BY <1>3, <2>1 DEF RunOf
  <2>3. k[i + 1] = WithCall(k[i], q[i + 1])
    BY <2>2 DEF Applied
  <2>4. SameRead(k[i], k[i]) /\ ClassSized(ms, k[i]) /\ ClassMeans(k[i], file)
    BY <1>6, <2>1
  <2>5. DOMAIN k[i] = ClassParts /\ q[i + 1].callTo \in AgentMethods \ {NameMethod}
    BY <1>4, <2>1, <2>4 DEF SameRead
  <2>6. SameRead(k[i + 1], k[i + 1]) /\ ClassSized(ms, k[i + 1])
    BY <2>3, <2>4, <2>5, CallSame, CallSized
  <2>7. ClassMeans(k[i + 1], file)
    BY <2>3, <2>4, <2>5, CallMeans
  <2> QED BY <2>6, <2>7
<1>7. n \in P
  <2> HIDE DEF P
  <2> QED BY <1>5, <1>6, NatSetInduction
<1> QED BY <1>1, <1>3, <1>7 DEF hook

(* What is read from a file has only instructions with a number.           *)
LEMMA LoadedMeans ==
  ASSUME NEW f, IsMethodFile(f), NEW p
  PROVE  CodeMeans(p, load_method(f).code)
<1>1. PICK code : code = [i \in DOMAIN f.code |-> load_instruction(f.code[i])]
  OBVIOUS
<1>2. load_method(f).code = code
  BY <1>1 DEF load_method, MethodInfo
<1>3. \A k \in DOMAIN code : code[k].no # 0
  <2> TAKE k \in DOMAIN code
  <2>1. k \in DOMAIN f.code /\ code[k].no = f.code[k].no
    BY <1>1 DEF load_instruction
  <2>2. f.code[k] \in ToSet(f.code)
    BY <2>1 DEF ToSet
  <2> QED BY <2>1, <2>2 DEF IsMethodFile
<1> QED BY <1>2, <1>3 DEF CodeMeans

LEMMA MethodsLoadedMean ==
  ASSUME NEW ms, InRow(ms), \A x \in ToSet(ms) : IsMethodFile(x), NEW p, NEW r, r = load_methods(ms)
  PROVE  \A key \in DOMAIN r : CodeMeans(p, r[key].code)
<1>1. PICK n \in Nat : DOMAIN ms = 1 .. n
  BY DEF InRow
<1>2. PICK k : RunOf("methods", <<>>, ms, n, k) /\ FoldLeft(WithMethodRead, <<>>, ms) = k[n]
  BY <1>1, MethodsFold
<1>3. ASSUME NEW i \in 1 .. n PROVE CodeMeans(p, load_method(ms[i]).code)
  <2>1. ms[i] \in ToSet(ms)
    BY <1>1 DEF ToSet
  <2> QED BY <2>1, LoadedMeans
<1> DEFINE Every(i) == \A key \in DOMAIN k[i] : CodeMeans(p, k[i][key].code)
           P == {i \in Nat : i <= n => Every(i)}
<1>4. 0 \in P
  <2>1. DOMAIN k[0] = {}
    BY <1>2 DEF RunOf
  <2> QED BY <2>1
<1>5. ASSUME NEW i \in Nat, i \in P PROVE i + 1 \in P
  <2> SUFFICES ASSUME i + 1 <= n PROVE Every(i + 1)
    OBVIOUS
  <2>1. i + 1 \in 1 .. n /\ i + 1 - 1 = i /\ i <= n
    OBVIOUS
  <2>2. PICK key, m, was : key = ms[i + 1].key /\ m = load_method(ms[i + 1]) /\ was = k[i]
    OBVIOUS
  <2>3. k[i + 1] = Applied("methods", k[i], ms[i + 1])
    BY <1>2, <2>1 DEF RunOf
  <2>4. k[i + 1] = Put(was, key, m)
    BY <2>2, <2>3 DEF Applied, WithMethodRead
  <2>5. /\ DOMAIN k[i + 1] = DOMAIN was \cup {key} /\ k[i + 1][key] = m
        /\ \A x \in DOMAIN was : x # key => k[i + 1][x] = was[x]
    BY <2>4 DEF Put
  <2>6. CodeMeans(p, m.code)
    BY <1>3, <2>1, <2>2
  <2>7. Every(i)
    BY <1>5, <2>1
  <2> QED BY <2>2, <2>5, <2>6, <2>7
<1>6. n \in P
  <2> HIDE DEF P
  <2> QED BY <1>4, <1>5, NatSetInduction
<1>7. Every(n)
  BY <1>6
<1>8. r = k[n]
  BY <1>2 DEF load_methods
<1> QED BY <1>7, <1>8

LEMMA ReadMeans ==
  ASSUME NEW p, DOMAIN p = PoolParts, NEW w \in Worlds, NEW c \in DOMAIN w.files,
         ReadFate(w.files[c]) = "running"
  PROVE  ClassMeans(load_from_buffer(p, w.files[c]), w.files[c].pool)
<1>1. PICK file, f : file = w.files[c] /\ f = load_from_buffer(p, file)
  OBVIOUS
<1>2. IsClassFile(file)
  BY <1>1, WorldsAssumption
<1>3. PICK ms, r : ms = file.methods /\ r = load_methods(ms)
  OBVIOUS
<1>4. InRow(ms) /\ \A x \in ToSet(ms) : IsMethodFile(x)
  BY <1>2, <1>3 DEF IsClassFile
<1>5. \A key \in DOMAIN r : CodeMeans(f.pool, r[key].code)
  BY <1>3, <1>4, MethodsLoadedMean
<1>6. f.methods = r
  BY <1>1, <1>3 DEF load_from_buffer
<1>7. PoolFits(f.pool, file.pool)
  BY <1>1, LoadFits
<1> QED BY <1>1, <1>5, <1>6, <1>7 DEF ClassMeans, MethodsMean

LEMMA NativeMeans ==
  ASSUME Numerals(Nat), NEW f, DOMAIN f = ClassParts, NEW file, ClassMeans(f, file),
         NEW name \in AgentTexts, NEW type \in AgentTexts
  PROVE  /\ ClassMeans(add_native_method(f, name, type), file)
         /\ DOMAIN add_native_method(f, name, type) = ClassParts
<1>1. PICK key : key = [name |-> name, type |-> type]
  OBVIOUS
<1>2. PICK p : p = add_name(f.pool, name)
  OBVIOUS
<1>3. PICK q : q = add_name(p, type)
  OBVIOUS
<1>4. PICK new : new = Put(f.methods, key, MethodInfo(key))
  OBVIOUS
<1>5. PICK g : g = [f EXCEPT !.pool = q, !.methods = new]
  OBVIOUS
<1>6. g.methods = new /\ g.pool = q /\ DOMAIN g = ClassParts
  BY <1>5 DEF ClassParts
<1>7. PoolFits(p, file) /\ Later(f.pool, p)
  BY <1>2, NameFits DEF ClassMeans
<1>8. PoolFits(q, file) /\ Later(p, q)
  BY <1>3, <1>7, NameFits
<1>9. Later(f.pool, q)
  BY <1>7, <1>8, LaterOn DEF ClassMeans, PoolFits
<1>10. /\ DOMAIN new = DOMAIN f.methods \cup {key} /\ new[key] = MethodInfo(key)
       /\ \A x \in DOMAIN f.methods : x # key => new[x] = f.methods[x]
  BY <1>4 DEF Put
<1>11. CodeMeans(q, MethodInfo(key).code)
  <2>1. MethodInfo(key).code = <<>>
    BY DEF MethodInfo
  <2> QED BY <2>1 DEF CodeMeans
<1>12. ASSUME Clear(q, file), NEW x \in DOMAIN new PROVE CodeMeans(q, new[x].code)
  <2>1. CASE x = key
    BY <1>10, <1>11, <2>1
  <2>2. CASE x # key
    <3>1. x \in DOMAIN f.methods /\ new[x] = f.methods[x]
      BY <1>10, <2>2
    <3>2. Clear(f.pool, file)
      BY <1>9, <1>12, ClearBefore
    <3>3. CodeMeans(f.pool, new[x].code)
      BY <3>1, <3>2 DEF ClassMeans, MethodsMean
    <3> QED BY <1>8, <1>9, <3>3, CodeMeansLater DEF ClassMeans, PoolFits
  <2> QED BY <2>1, <2>2
<1>13. add_native_method(f, name, type) = g
  BY <1>1, <1>2, <1>3, <1>4, <1>5 DEF add_native_method
<1> QED BY <1>6, <1>8, <1>12, <1>13 DEF ClassMeans, MethodsMean
-----------------------------------------------------------------------------
(* What is in a pool is an entry, and so is what that refers to.           *)
LEMMA FitsTag ==
  ASSUME NEW p, NEW e, Fits(p, e)
  PROVE  e # NoEntry
<1>1. NoEntry.tag = "none"
  BY DEF NoEntry, Entry
<1>2. \A i, j : /\ Utf8(i).tag = "Utf8" /\ Class(i).tag = "Class" /\ StringConst(i).tag = "String"
                /\ NameAndType(i, j).tag = "NameAndType"
                /\ MethodRef(i, j).tag = "MethodRef" /\ FieldRef(i, j).tag = "FieldRef"
  BY DEF Utf8, Class, StringConst, NameAndType, MethodRef, FieldRef, Entry
<1>3. e.tag \in {"Utf8", "Class", "String", "NameAndType", "MethodRef", "FieldRef", "Integer", "Long", "Double"}
  BY <1>2 DEF Fits, Number, TwoSlots
<1> QED BY <1>1, <1>3

LEMMA HeldThere ==
  ASSUME NEW p, NEW file, PoolFits(p, file), NEW i, NEW e, Holds(p, i, e)
  PROVE  At(p, i) = e /\ At(p, i) # NoEntry
<1>1. At(p, i) = e
  BY AtSays DEF PoolFits
<1>2. e # NoEntry
  BY FitsTag DEF PoolFits, Proper
<1> QED BY <1>1, <1>2

LEMMA RefersThere ==
  ASSUME NEW p, NEW file, PoolFits(p, file), NEW e, Fits(p, e), NEW r \in ToSet(e.refs)
  PROVE  At(p, r) # NoEntry
<1>1. PICK k \in DOMAIN e.refs : r = e.refs[k]
  BY DEF ToSet
<1>2. \A i : Text(p, i) => At(p, i) # NoEntry
  BY HeldThere DEF Text
<1>3. CASE \E t : e = Utf8(t)
  <2>1. e.refs = <<>>
    BY <1>3 DEF Utf8, Entry
  <2> QED BY <1>1, <2>1
<1>4. CASE \E i : e \in {Class(i), StringConst(i)} /\ Text(p, i)
  <2>1. PICK i : e \in {Class(i), StringConst(i)} /\ Text(p, i)
    BY <1>4
  <2>5. Class(i).refs = <<i>> /\ StringConst(i).refs = <<i>>
    BY DEF Class, StringConst, Entry
  <2>6. e = Class(i) \/ e = StringConst(i)
    BY <2>1
  <2>2. e.refs = <<i>>
    BY <2>5, <2>6
  <2>3. r = i
    BY <1>1, <2>2
  <2> QED BY <1>2, <2>1, <2>3
<1>5. CASE \E i, j : e = NameAndType(i, j) /\ Text(p, i) /\ Text(p, j)
  <2>1. PICK i, j : e = NameAndType(i, j) /\ Text(p, i) /\ Text(p, j)
    BY <1>5
  <2>2. e.refs = <<i, j>>
    BY <2>1 DEF NameAndType, Entry
  <2>3. r = i \/ r = j
    BY <1>1, <2>2
  <2> QED BY <1>2, <2>1, <2>3
<1>6. CASE \E i, j, n, x : e \in {MethodRef(i, j), FieldRef(i, j)} /\ Holds(p, i, Class(n)) /\ Holds(p, j, x)
  <2>1. PICK i, j, n, x : e \in {MethodRef(i, j), FieldRef(i, j)} /\ Holds(p, i, Class(n)) /\ Holds(p, j, x)
    BY <1>6
  <2>5. MethodRef(i, j).refs = <<i, j>> /\ FieldRef(i, j).refs = <<i, j>>
    BY DEF MethodRef, FieldRef, Entry
  <2>6. e = MethodRef(i, j) \/ e = FieldRef(i, j)
    BY <2>1
  <2>2. e.refs = <<i, j>>
    BY <2>5, <2>6
  <2>3. r = i \/ r = j
    BY <1>1, <2>2
  <2>4. At(p, i) # NoEntry /\ At(p, j) # NoEntry
    BY <2>1, HeldThere
  <2> QED BY <2>3, <2>4
<1>7. CASE Number(e)
  <2>1. e.refs = <<>>
    BY <1>7 DEF Number
  <2> QED BY <1>1, <2>1
<1> QED BY <1>3, <1>4, <1>5, <1>6, <1>7 DEF Fits

(* What an inserted instruction means is what the JVM finds by it.         *)
LEMMA RefFound ==
  ASSUME NEW p, PoolSound(p), NEW i, NEW m, MeansRef(p, i, m)
  PROVE  IsMethodRef(p, i, m)
<1>1. PICK c, n, u, v, w :
        /\ Holds(p, i, MethodRef(c, n))
        /\ Holds(p, c, Class(u)) /\ Holds(p, n, NameAndType(v, w))
        /\ Holds(p, u, Utf8(m.class)) /\ Holds(p, v, Utf8(m.name)) /\ Holds(p, w, Utf8(m.type))
  BY DEF MeansRef
<1>2. /\ At(p, i) = MethodRef(c, n) /\ At(p, c) = Class(u) /\ At(p, n) = NameAndType(v, w)
      /\ At(p, u) = Utf8(m.class) /\ At(p, v) = Utf8(m.name) /\ At(p, w) = Utf8(m.type)
  BY <1>1, AtSays
<1>3. /\ MethodRef(c, n).tag = "MethodRef" /\ MethodRef(c, n).refs[1] = c /\ MethodRef(c, n).refs[2] = n
      /\ Class(u).tag = "Class" /\ Class(u).refs[1] = u
      /\ NameAndType(v, w).tag = "NameAndType" /\ NameAndType(v, w).refs[1] = v /\ NameAndType(v, w).refs[2] = w
  BY DEF MethodRef, Class, NameAndType, Entry
<1> QED BY <1>2, <1>3 DEF IsMethodRef

LEMMA StringFound ==
  ASSUME NEW p, PoolSound(p), NEW i, NEW texts, MeansString(p, i, texts)
  PROVE  IsString(p, i, texts)
<1>1. PICK u, t : t \in texts /\ Holds(p, i, StringConst(u)) /\ Holds(p, u, Utf8(t))
  BY DEF MeansString
<1>2. At(p, i) = StringConst(u) /\ At(p, u) = Utf8(t)
  BY <1>1, AtSays
<1>3. StringConst(u).tag = "String" /\ StringConst(u).refs[1] = u
  BY DEF StringConst, Entry
<1> QED BY <1>1, <1>2, <1>3 DEF IsString

LEMMA MeansCalls ==
  ASSUME NEW p, PoolSound(p), NEW i, Means(p, i.op, i.arg)
  PROVE  Calls(p, i)
<1>1. CASE i.op = "aload_0"
  BY <1>1 DEF Calls
<1>2. CASE i.op = "ldc"
  <2>1. p.next < 256 => IsString(p, i.arg, {"enter", "exit"})
    BY <1>2, StringFound DEF Means
  <2> QED BY <1>2, <2>1 DEF Calls
<1>3. CASE i.op = "invokevirtual"
  <2>1. IsMethodRef(p, i.arg, NameMethod)
    BY <1>3, RefFound DEF Means
  <2> QED BY <1>3, <2>1 DEF Calls
<1>4. CASE i.op = "invokestatic"
  <2>1. \E m \in AgentMethods \ {NameMethod} : IsMethodRef(p, i.arg, m)
    BY <1>4, RefFound DEF Means
  <2> QED BY <1>4, <2>1 DEF Calls
<1> QED BY <1>1, <1>2, <1>3, <1>4 DEF Means

LEMMA NotConfused ==
  ASSUME NEW c, ~Confused(c)
  PROVE  Clear(handed[c].pool, world.files[c].pool)
<1>1. PICK p, file : p = handed[c].pool /\ file = world.files[c].pool
  OBVIOUS
<1>2. SUFFICES ASSUME NEW e \in ToSet(file), e.refs = <<>>, NEW i, NEW j, Text(p, i), Text(p, j)
               PROVE  Key(e) # Pair(i, j)
  BY <1>1 DEF Clear
<1>3. PICK texts : texts = {x.index : x \in {y \in ToSet(p.info) : y.entry.tag = "Utf8"}}
  OBVIOUS
<1>4. ASSUME NEW l, Text(p, l) PROVE l \in texts
  <2>1. PICK t, k : k \in DOMAIN p.info /\ p.info[k].index = l /\ p.info[k].entry = Utf8(t)
    BY <1>4 DEF Text, Holds
  <2>2. Utf8(t).tag = "Utf8"
    BY DEF Utf8, Entry
  <2>3. p.info[k] \in ToSet(p.info)
    BY <2>1 DEF ToSet
  <2> QED BY <1>3, <2>1, <2>2, <2>3
<1>5. i \in texts /\ j \in texts
  BY <1>2, <1>4
<1>6. Len(e.refs) = 0
  BY <1>2
<1> DEFINE pairs == {Pair(k, l) : k, l \in texts}
<1>8. Pair(i, j) \in pairs
  BY <1>5
<1>9. Key(e) \notin pairs
  <2>1. \A x \in ToSet(file) : ~(Len(x.refs) = 0 /\ Key(x) \in pairs)
    BY <1>1, <1>3 DEF Confused
  <2> QED BY <2>1, <1>2, <1>6
<1> HIDE DEF pairs
<1> QED BY <1>8, <1>9, <1>2
-----------------------------------------------------------------------------
LEMMA MeansInit ==
  ASSUME HookInit
  PROVE  MeansInv
<1>1. class = None /\ DOMAIN handed = {}
  BY DEF HookInit, Init
<1> QED BY <1>1, SizedInit, PoolsInit DEF MeansInv, MeansInHand, MeansGiven

LEMMA PackageMeans ==
  ASSUME Numerals(Nat), MeansInv, add_thook_to_package
  PROVE  MeansInHand' /\ MeansGiven'
<1>1. class = None /\ Package \in DOMAIN world.files
  BY DEF add_thook_to_package, Ready
<1>2. /\ world' = world /\ class' = class /\ junk' = junk
      /\ handed' = IF fate' # "running" THEN handed ELSE Put(handed, Package, load_to_buffer(fr', junk))
      /\ fate' = ReadFate(world.files[Package])
  BY DEF add_thook_to_package
<1>3. PICK file : file = world.files[Package].pool
  OBVIOUS
<1>4. world \in Worlds /\ DOMAIN fr.pool = PoolParts
  BY DEF MeansInv, PoolsInv, RewriteInv, Shapes, SameRead, SamePool
<1>5. ASSUME fate' = "running" PROVE ClassMeans(fr', file)
  <2>1. PICK f : f = load_from_buffer(fr.pool, world.files[Package])
    OBVIOUS
  <2>2. ClassMeans(f, file)
    BY <1>1, <1>2, <1>3, <1>4, <1>5, <2>1, ReadMeans
  <2>3. DOMAIN f = ClassParts
    BY <2>1 DEF load_from_buffer, ClassParts
  <2>4. PICK g : g = add_native_method(f, "thook", Object)
    OBVIOUS
  <2>5. PICK h : h = add_native_method(g, "timerhook", Timed)
    OBVIOUS
  <2>6. fr' = add_native_method(h, "heaphook", Object)
    BY <2>1, <2>4, <2>5 DEF add_thook_to_package
  <2>7. /\ "thook" \in AgentTexts /\ "timerhook" \in AgentTexts /\ "heaphook" \in AgentTexts
        /\ Object \in AgentTexts /\ Timed \in AgentTexts
    BY AgentTextsHave
  <2>8. ClassMeans(g, file) /\ DOMAIN g = ClassParts
    BY <2>2, <2>3, <2>4, <2>7, NativeMeans
  <2>9. ClassMeans(h, file) /\ DOMAIN h = ClassParts
    BY <2>5, <2>7, <2>8, NativeMeans
  <2> QED BY <2>6, <2>7, <2>9, NativeMeans
<1>6. ASSUME NEW c \in DOMAIN handed'
      PROVE  \E f : handed'[c] = load_to_buffer(f, junk) /\ ClassMeans(f, world.files[c].pool)
  <2>1. CASE fate' = "running" /\ c = Package
    <3>1. handed'[c] = load_to_buffer(fr', junk)
      BY <1>2, <2>1 DEF Put
    <3> QED BY <1>3, <1>5, <2>1, <3>1
  <2>2. CASE c \in DOMAIN handed /\ handed'[c] = handed[c]
    BY <2>2 DEF MeansInv, MeansGiven
  <2> QED BY <1>2, <2>1, <2>2 DEF Put
<1> QED BY <1>1, <1>2, <1>6 DEF MeansInHand, MeansGiven

LEMMA ReadClassMeans ==
  ASSUME MeansInv, ReadClass
  PROVE  MeansInHand' /\ MeansGiven'
<1>1. PICK c \in DOMAIN world.files \ {Package} :
        /\ fate' = ReadFate(world.files[c])
        /\ fr' = IF fate' = "running" THEN load_from_buffer(fr.pool, world.files[c]) ELSE fr
        /\ class' = IF is_signal_class(sigs, c) THEN c ELSE None
        /\ UNCHANGED <<world, junk, handed>>
  BY DEF ReadClass
<1>2. world \in Worlds /\ DOMAIN fr.pool = PoolParts
  BY DEF MeansInv, PoolsInv, RewriteInv, Shapes, SameRead, SamePool
<1>3. fate' = "running" => ClassMeans(load_from_buffer(fr.pool, world.files[c]), world.files[c].pool)
  BY <1>1, <1>2, ReadMeans
<1>4. MeansInHand'
  BY <1>1, <1>3 DEF MeansInHand
<1>5. MeansGiven'
  BY <1>1 DEF MeansInv, MeansGiven
<1> QED BY <1>4, <1>5

LEMMA HooksMean ==
  ASSUME Numerals(Nat), MeansInv, add_hooks
  PROVE  MeansInHand' /\ MeansGiven'
<1>1. PICK s : s = OfClass(sigs, class)[done + 1]
  OBVIOUS
<1>2. /\ fate = "running" /\ class # None
      /\ fr' = hook(fr, s)
      /\ handed' = IF fate' # "running" THEN handed ELSE Put(handed, class, load_to_buffer(fr', junk))
      /\ UNCHANGED <<world, class, junk>>
  BY <1>1 DEF add_hooks
<1>3. PICK ms, file : ms = world.files[class].methods /\ file = world.files[class].pool
  OBVIOUS
<1>4. SameRead(fr, fr) /\ ClassSized(ms, fr) /\ ClassMeans(fr, file)
  BY <1>2, <1>3 DEF MeansInv, MeansInHand, SizedInv, SizedInHand, RewriteInv, Shapes
<1>5. ClassMeans(fr', file)
  BY <1>2, <1>4, HookMeans
<1>6. ASSUME NEW c \in DOMAIN handed'
      PROVE  \E f : handed'[c] = load_to_buffer(f, junk) /\ ClassMeans(f, world.files[c].pool)
  <2>1. CASE c \in DOMAIN handed /\ handed'[c] = handed[c]
    BY <2>1 DEF MeansInv, MeansGiven
  <2>2. CASE c = class /\ handed'[c] = load_to_buffer(fr', junk)
    BY <1>3, <1>5, <2>2
  <2> QED BY <1>2, <2>1, <2>2 DEF Put
<1> QED BY <1>2, <1>3, <1>5, <1>6 DEF MeansInHand, MeansGiven

LEMMA RestMeans ==
  ASSUME MeansInv,
         \/ LoadLine \/ LeaveHook \/ remove_hooks \/ thook \/ UNCHANGED allVars
  PROVE  MeansInHand' /\ MeansGiven'
<1>1. CASE LoadLine
  BY <1>1 DEF MeansInv, MeansInHand, MeansGiven, LoadLine, PoolsInv, RewriteInv, Shapes
<1>2. CASE LeaveHook
  BY <1>2 DEF MeansInv, MeansInHand, MeansGiven, LeaveHook
<1>3. CASE remove_hooks
  BY <1>3 DEF MeansInv, MeansInHand, MeansGiven, remove_hooks, Ready
<1>4. CASE thook
  BY <1>4 DEF MeansInv, MeansInHand, MeansGiven, thook
<1>5. CASE UNCHANGED allVars
  BY <1>5 DEF MeansInv, MeansInHand, MeansGiven, allVars, vars
<1> QED BY <1>1, <1>2, <1>3, <1>4, <1>5

LEMMA MeansKept ==
  ASSUME Numerals(Nat), MeansInv, [HookNext]_allVars
  PROVE  MeansInv'
<1>1. SizedInv' /\ PoolsInv'
  BY SizedKept, PoolsKept DEF MeansInv
<1>2. MeansInHand' /\ MeansGiven'
  BY PackageMeans, ReadClassMeans, HooksMean, RestMeans DEF HookNext, Next
<1> QED BY <1>1, <1>2 DEF MeansInv

LEMMA MeansInvSays ==
  ASSUME MeansInv
  PROVE  OperandsResolve
<1>1. ASSUME NEW c \in DOMAIN handed \ {Package}, NEW x \in Methods(c), ~Confused(c),
             NEW i \in ToSet(Written(c, x).code), i.no = 0
      PROVE  Calls(handed[c].pool, i)
  <2>1. PICK f : handed[c] = load_to_buffer(f, junk) /\ ClassMeans(f, world.files[c].pool)
    BY DEF MeansInv, MeansGiven
  <2>2. /\ handed[c].pool = f.pool
        /\ DOMAIN handed[c].methods = DOMAIN f.methods
        /\ \A key \in DOMAIN f.methods : handed[c].methods[key].method = f.methods[key]
    BY <2>1 DEF load_to_buffer, write_method
  <2>3. x.key \in DOMAIN handed[c].methods
    <3>1. PICK g : handed[c] = load_to_buffer(g, junk) /\ ClassSized(world.files[c].methods, g)
      BY DEF MeansInv, SizedInv, SizedGiven
    <3>2. x.key \in DOMAIN g.methods
      BY <3>1 DEF Methods, ClassSized
    <3> QED BY <3>1, <3>2 DEF load_to_buffer
  <2>4. Written(c, x) = f.methods[x.key]
    BY <2>2, <2>3 DEF Written
  <2>5. Clear(f.pool, world.files[c].pool)
    BY <1>1, <2>2, NotConfused
  <2>6. CodeMeans(f.pool, f.methods[x.key].code)
    BY <2>1, <2>2, <2>3, <2>5 DEF ClassMeans, MethodsMean
  <2>7. PICK k \in DOMAIN f.methods[x.key].code : i = f.methods[x.key].code[k]
    BY <2>4 DEF ToSet
  <2>8. Means(f.pool, i.op, i.arg)
    BY <1>1, <2>6, <2>7 DEF CodeMeans
  <2>9. PoolSound(f.pool)
    BY <2>1 DEF ClassMeans, PoolFits
  <2> QED BY <2>2, <2>8, <2>9, MeansCalls
<1>2. EntriesKept
  BY PoolsInvSays DEF MeansInv
<1>3. ASSUME NEW c \in DOMAIN handed, NEW p, p = handed[c].pool, NEW k \in DOMAIN p.info,
             NEW r \in ToSet(p.info[k].entry.refs)
      PROVE  At(p, r) # NoEntry
  <2>1. PICK f : handed[c] = load_to_buffer(f, junk) /\ ClassMeans(f, world.files[c].pool)
    BY DEF MeansInv, MeansGiven
  <2>2. p = f.pool
    BY <1>3, <2>1, WrittenPool
  <2>3. PoolFits(p, world.files[c].pool)
    BY <2>1, <2>2 DEF ClassMeans
  <2>4. PICK e : e = p.info[k].entry
    OBVIOUS
  <2>5. Holds(p, p.info[k].index, e)
    BY <2>4 DEF Holds
  <2>6. Fits(p, e)
    BY <2>3, <2>5 DEF PoolFits, Proper
  <2> QED BY <2>3, <2>4, <2>6, RefersThere
<1> QED BY <1>1, <1>2, <1>3 DEF OperandsResolve, Rewritten

(* What the hooks insert refers to the methods of the agent and the texts  *)
(* of the timer it was meant to, whatever was in the pool of the class     *)
(* before and in whatever order the entries were added, as long as no text *)
(* or number of the class reads like the indices of two texts; and nothing *)
(* in the pool refers to an entry that is not there.  Numerals is the only *)
(* thing taken for granted: what indices are printed as.                   *)
THEOREM OperandsAreFound ==
  ASSUME Numerals(Nat)
  PROVE  HookSpec => []OperandsResolve
<1>1. HookInit => MeansInv
  BY MeansInit
<1>2. MeansInv /\ [HookNext]_allVars => MeansInv'
  BY MeansKept
<1>3. MeansInv => OperandsResolve
  BY MeansInvSays
<1> QED BY <1>1, <1>2, <1>3, PTL DEF HookSpec
-----------------------------------------------------------------------------
LEMMA SizePositive ==
  ASSUME NEW i, Sound(i)
  PROVE  Size(i) \in Int /\ Size(i) >= 1
<1>1. \A op \in DOMAIN opcodesTxt : opcodesTxt[op].star \/ opcodesTxt[op].size >= 1
  BY DEF opcodesTxt, Plain, Raw, Branch, Switch, Others
<1>2. op_codes[i.op].dynamic \/ op_codes[i.op].size >= 1
  BY <1>1 DEF Sound, op_codes, load
<1>3. OpbufSize(i) \in Int /\ OpbufSize(i) >= 0
  <2>1. calc_pad(i.addr) \in 0 .. 3
    BY DEF Sound, calc_pad
  <2>2. Len(i.offs) \in Nat
    BY DEF Sound, Row
  <2> QED BY <2>1, <2>2 DEF OpbufSize
<1>4. Size(i) \in Int
  BY SizeInt
<1> QED BY <1>2, <1>3, <1>4 DEF Size, SizeBy

LEMMA PlacedRises ==
  ASSUME NEW code, CodeSound(code), Placed(code),
         NEW i \in DOMAIN code, NEW j \in DOMAIN code, i < j
  PROVE  code[i].addr < code[j].addr
<1>1. PICK n \in Nat : DOMAIN code = 1 .. n
  BY DEF CodeSound, Listed
<1> DEFINE P == {d \in Nat : i + 1 + d <= n => code[i].addr < code[i + 1 + d].addr}
<1>2. ASSUME NEW k \in 1 .. n, k # 1
      PROVE  code[k - 1].addr < code[k].addr /\ code[k].addr \in Int /\ code[k - 1].addr \in Int
  <2>1. k - 1 \in 1 .. n
    BY <1>2
  <2>2. Sound(code[k]) /\ Sound(code[k - 1])
    BY <1>1, <2>1 DEF CodeSound
  <2>3. code[k].addr = code[k - 1].addr + Size(code[k - 1])
    BY <1>1, <1>2 DEF Placed, After
  <2> QED BY <2>2, <2>3, SizePositive DEF Sound
<1>3. 0 \in P
  <2>1. PICK k : k = i + 1
    OBVIOUS
  <2>2. i + 1 + 0 = k
    BY <1>1, <2>1
  <2> SUFFICES ASSUME k <= n PROVE code[i].addr < code[k].addr
    BY <2>2
  <2>3. k \in 1 .. n /\ k # 1 /\ k - 1 = i
    BY <1>1, <2>1
  <2> QED BY <1>2, <2>3
<1>4. ASSUME NEW d \in Nat, d \in P PROVE d + 1 \in P
  <2> SUFFICES ASSUME i + 1 + (d + 1) <= n PROVE code[i].addr < code[i + 1 + (d + 1)].addr
    OBVIOUS
  <2>1. PICK k : k = i + 1 + (d + 1)
    OBVIOUS
  <2>2. k \in 1 .. n /\ k # 1 /\ k - 1 = i + 1 + d /\ i + 1 + d <= n
    BY <1>1, <2>1
  <2>3. code[i].addr < code[k - 1].addr
    BY <1>4, <2>2
  <2>4. code[k - 1].addr < code[k].addr /\ code[k].addr \in Int /\ code[k - 1].addr \in Int
    BY <1>2, <2>2
  <2>5. code[i].addr \in Int
    BY DEF CodeSound, Sound
  <2> QED BY <2>1, <2>3, <2>4, <2>5
<1>5. j - i - 1 \in Nat /\ i + 1 + (j - i - 1) = j /\ j <= n
  BY <1>1
<1>6. j - i - 1 \in P
  <2> HIDE DEF P
  <2> QED BY <1>3, <1>4, <1>5, NatSetInduction
<1> QED BY <1>5, <1>6

(* Laying out keeps what the instructions are, and puts each in its place. *)
LEMMA MovedForm ==
  ASSUME NEW i, Sound(i), NEW addr \in Int
  PROVE  Form([adjust(i, addr) EXCEPT !.addr = addr]) = Form(i)
<1>1. PICK x : x = adjust(i, addr)
  OBVIOUS
<1>2. DOMAIN x = InstrParts /\ Form(x) = Form(i)
  <2>1. CASE x = i
    BY <2>1 DEF Sound
  <2>2. CASE x # i
    <3>1. PICK change : x = [i EXCEPT !.addr = addr, !.offs = [k \in DOMAIN @ |-> @[k] + change]]
      BY <1>1, <2>2 DEF adjust
    <3>2. PICK offs : offs = [k \in DOMAIN i.offs |-> i.offs[k] + change]
      OBVIOUS
    <3>3. x = [i EXCEPT !.addr = addr, !.offs = offs]
      BY <3>1, <3>2
    <3>4. DOMAIN x = InstrParts /\ x.op = i.op /\ x.arg = i.arg /\ x.no = i.no /\ x.offs = offs
      BY <3>3 DEF Sound, InstrParts
    <3>5. PICK n \in Nat : DOMAIN i.offs = 1 .. n /\ n = Len(i.offs)
      BY DEF Sound, Row
    <3>6. offs = [k \in 1 .. n |-> offs[k]]
      BY <3>2, <3>5
    <3>7. Len(offs) = n
      BY <3>6, ListMade
    <3> QED BY <3>4, <3>5, <3>7 DEF Form
  <2> QED BY <2>1, <2>2
<1>3. PICK y : y = [x EXCEPT !.addr = addr]
  OBVIOUS
<1>4. y.op = x.op /\ y.arg = x.arg /\ y.no = x.no /\ y.offs = x.offs
  BY <1>2, <1>3 DEF InstrParts
<1> QED BY <1>1, <1>2, <1>3, <1>4 DEF Form

LEMMA PlaceForm ==
  ASSUME NEW code, LaidOut(code), Placed(code), NEW i, Sound(i),
         NEW n \in Nat, DOMAIN code = 1 .. n, NEW r, r = Place(code, i)
  PROVE  /\ DOMAIN r = 1 .. n + 1
         /\ \A k \in 1 .. n : r[k] = code[k]
         /\ Form(r[n + 1]) = Form(i)
         /\ Placed(r)
<1>1. PICK addr : addr = End(code)
  OBVIOUS
<1>2. addr \in Int
  BY <1>1, CodeSumInt DEF LaidOut
<1>3. PICK x : x = [adjust(i, addr) EXCEPT !.addr = addr]
  OBVIOUS
<1>4. Form(x) = Form(i) /\ x.addr = addr
  BY <1>2, <1>3, MovedForm, MovedSound
<1>5. r = Append(code, x)
  BY <1>1, <1>3 DEF Place, PlaceAt
<1>6. PICK S : code \in Seq(S)
  BY DEF LaidOut, CodeSound, Listed
<1>7. n = Len(code)
  BY <1>6
<1>8. /\ DOMAIN r = 1 .. n + 1
      /\ \A k \in 1 .. n : r[k] = code[k]
      /\ r[n + 1] = x
  BY <1>5, <1>6, <1>7
<1>9. ASSUME NEW k \in 1 .. n + 1
      PROVE  r[k].addr = IF k = 1 THEN 0 ELSE After(r[k - 1])
  <2>1. CASE k \in 1 .. n
    <3>1. k # 1 => k - 1 \in 1 .. n
      BY <2>1
    <3> QED BY <1>8, <2>1, <3>1 DEF Placed
  <2>2. CASE k = n + 1 /\ n = 0
    <3>1. code = <<>>
      BY <1>6, <1>7, <2>2
    <3>2. addr = 0
      BY <1>1, <3>1 DEF End
    <3> QED BY <1>4, <1>8, <2>2, <3>2
  <2>3. CASE k = n + 1 /\ n # 0
    <3>1. code # <<>> /\ Last(code) = code[n]
      BY <1>6, <1>7, <2>3 DEF Last
    <3>2. addr = After(code[n])
      BY <1>1, <3>1 DEF End, After
    <3>3. r[k - 1] = code[n] /\ k # 1
      BY <1>8, <2>3
    <3> QED BY <1>4, <1>8, <2>3, <3>2, <3>3
  <2> QED BY <2>1, <2>2, <2>3
<1> QED BY <1>4, <1>8, <1>9 DEF Placed

LEMMA LayoutForm ==
  ASSUME NEW instrs, CodeSound(instrs), NEW d, d = Layout(instrs)
  PROVE  /\ DOMAIN d = DOMAIN instrs
         /\ \A i \in DOMAIN instrs : Form(d[i]) = Form(instrs[i])
         /\ Placed(d)
<1>1. PICK n \in Nat : DOMAIN instrs = 1 .. n
  BY DEF CodeSound, Listed
<1>2. PICK k : RunOf("place", <<>>, instrs, n, k) /\ FoldLeft(Place, <<>>, instrs) = k[n]
  BY <1>1, PlaceFold
<1> DEFINE Here(i) == /\ LaidOut(k[i]) /\ Placed(k[i])
                      /\ DOMAIN k[i] = 1 .. i
                      /\ \A j \in 1 .. i : Form(k[i][j]) = Form(instrs[j])
           P == {i \in Nat : i <= n => Here(i)}
<1>3. 0 \in P
  <2>1. k[0] = <<>>
    BY <1>2 DEF RunOf
  <2>2. DOMAIN <<>> = 1 .. 0 /\ Placed(<<>>)
    BY DEF Placed
  <2> QED BY <2>1, <2>2, NoCode
<1>4. ASSUME NEW i \in Nat, i \in P PROVE i + 1 \in P
  <2> SUFFICES ASSUME i + 1 <= n PROVE Here(i + 1)
    OBVIOUS
  <2>1. i + 1 \in 1 .. n /\ i + 1 - 1 = i /\ i <= n
    OBVIOUS
  <2>2. k[i + 1] = Applied("place", k[i], instrs[i + 1])
    BY <1>2, <2>1 DEF RunOf
  <2>3. PICK c, d1 : c = k[i] /\ d1 = k[i + 1]
    OBVIOUS
  <2>4. d1 = Place(c, instrs[i + 1])
    BY <2>2, <2>3 DEF Applied
  <2>5. Sound(instrs[i + 1]) /\ Here(i)
    BY <1>1, <1>4, <2>1 DEF CodeSound
  <2>6. /\ DOMAIN d1 = 1 .. i + 1
        /\ \A j \in 1 .. i : d1[j] = c[j]
        /\ Form(d1[i + 1]) = Form(instrs[i + 1])
        /\ Placed(d1)
    BY <2>3, <2>4, <2>5, PlaceForm
  <2>7. LaidOut(d1)
    BY <2>3, <2>4, <2>5, PlaceSays
  <2>8. \A j \in 1 .. i + 1 : Form(d1[j]) = Form(instrs[j])
    <3> TAKE j \in 1 .. i + 1
    <3>1. CASE j = i + 1
      BY <2>6, <3>1
    <3>2. CASE j \in 1 .. i
      BY <2>3, <2>5, <2>6, <3>2
    <3> QED BY <3>1, <3>2
  <2> QED BY <2>3, <2>6, <2>7, <2>8
<1>5. n \in P
  <2> HIDE DEF P
  <2> QED BY <1>3, <1>4, NatSetInduction
<1>6. Here(n)
  BY <1>5
<1> QED BY <1>1, <1>2, <1>6 DEF Layout

LEMMA TargetsForm ==
  ASSUME NEW code, CodeSound(code), NEW wanted, NEW after, NEW d, d = update_targets(code, wanted, after)
  PROVE  /\ DOMAIN d = DOMAIN code
         /\ \A i \in DOMAIN code : Form(d[i]) = Form(code[i]) /\ d[i].addr = code[i].addr
<1>1. DOMAIN d = DOMAIN code
  BY DEF update_targets
<1>2. ASSUME NEW k \in DOMAIN code PROVE Form(d[k]) = Form(code[k]) /\ d[k].addr = code[k].addr
  <2>1. CASE ~Moves(code[k], after)
    <3>1. d[k] = code[k]
      BY <2>1 DEF update_targets
    <3> QED BY <3>1
  <2>2. CASE Moves(code[k], after)
    <3>1. PICK taken : taken = Taken(code, k, after)
      OBVIOUS
    <3>2. PICK i : i = code[k]
      OBVIOUS
    <3>3. PICK offs : offs = [j \in DOMAIN i.offs |-> OffsetTo(i, wanted[taken + j])]
      OBVIOUS
    <3>4. d[k] = [i EXCEPT !.offs = offs]
      BY <2>2, <3>1, <3>2, <3>3 DEF update_targets
    <3>5. Sound(i)
      BY <3>2 DEF CodeSound
    <3>6. d[k].op = i.op /\ d[k].arg = i.arg /\ d[k].no = i.no /\ d[k].addr = i.addr /\ d[k].offs = offs
      BY <3>4, <3>5 DEF InstrParts, Sound
    <3>7. PICK n \in Nat : DOMAIN i.offs = 1 .. n /\ n = Len(i.offs)
      BY <3>5 DEF Sound, Row
    <3>8. offs = [j \in 1 .. n |-> offs[j]]
      BY <3>3, <3>7
    <3>9. Len(offs) = n
      BY <3>8, ListMade
    <3> QED BY <3>2, <3>6, <3>7, <3>9 DEF Form
  <2> QED BY <2>1, <2>2
<1> QED BY <1>1, <1>2

(* Two codes of the same instructions have them in the same places.        *)
LEMMA SizeByForm ==
  ASSUME NEW a, Sound(a), NEW b, Sound(b), Form(a) = Form(b), a.addr = b.addr
  PROVE  After(a) = After(b)
<1>1. a.op = b.op /\ Len(a.offs) = Len(b.offs)
  BY DEF Form
<1>2. OpbufSize(a) = OpbufSize(b)
  BY <1>1 DEF OpbufSize
<1> QED BY <1>1, <1>2 DEF After, Size, SizeBy

LEMMA SamePlaces ==
  ASSUME NEW a, CodeSound(a), Placed(a), NEW b, CodeSound(b), Placed(b), NEW l \in Nat,
         \A j \in 1 .. l : j \in DOMAIN a /\ j \in DOMAIN b /\ Form(a[j]) = Form(b[j])
  PROVE  \A j \in 1 .. l + 1 : j \in DOMAIN a /\ j \in DOMAIN b => a[j].addr = b[j].addr
<1> DEFINE P == {j \in Nat : j <= l /\ j + 1 \in DOMAIN a /\ j + 1 \in DOMAIN b =>
                                a[j + 1].addr = b[j + 1].addr}
<1>1. 0 \in P
  <2>1. 1 \in DOMAIN a /\ 1 \in DOMAIN b => a[1].addr = 0 /\ b[1].addr = 0
    BY DEF Placed
  <2>2. 0 + 1 = 1
    OBVIOUS
  <2> QED BY <2>1, <2>2
<1>2. ASSUME NEW j \in Nat, j \in P PROVE j + 1 \in P
  <2>1. PICK k : k = j + 1
    OBVIOUS
  <2>2. PICK x : x = k + 1
    OBVIOUS
  <2> SUFFICES ASSUME k <= l, x \in DOMAIN a, x \in DOMAIN b PROVE a[x].addr = b[x].addr
    BY <2>1, <2>2
  <2>3. k \in 1 .. l /\ x # 1 /\ x - 1 = k /\ j <= l
    BY <2>1, <2>2
  <2>4. k \in DOMAIN a /\ k \in DOMAIN b /\ Form(a[k]) = Form(b[k])
    BY <2>3
  <2>5. a[k].addr = b[k].addr
    BY <1>2, <2>1, <2>3, <2>4
  <2>6. After(a[k]) = After(b[k])
    BY <2>4, <2>5, SizeByForm DEF CodeSound
  <2>7. a[x].addr = After(a[k]) /\ b[x].addr = After(b[k])
    BY <2>3 DEF Placed
  <2> QED BY <2>6, <2>7
<1>3. Nat \subseteq P
  <2> HIDE DEF P
  <2>1. \A j \in Nat : j \in P
    BY <1>1, <1>2, NatSetInduction
  <2> QED BY <2>1
<1>4. ASSUME NEW j \in 1 .. l + 1, j \in DOMAIN a, j \in DOMAIN b PROVE a[j].addr = b[j].addr
  <2>1. PICK i : i = j - 1
    OBVIOUS
  <2>2. i \in Nat /\ i + 1 = j /\ i <= l
    BY <2>1
  <2>3. i \in P
    BY <1>3, <2>2
  <2> QED BY <1>4, <2>2, <2>3
<1> QED BY <1>4

LEMMA MarkedByForm ==
  ASSUME NEW a, NEW b, Form(a) = Form(b), NEW A, NEW B
  PROVE  Marked(a, A, B) <=> Marked(b, A, B)
BY DEF Form, Marked, What

LEMMA MarksNat ==
  ASSUME NEW code, NEW A, NEW B, NEW n \in Nat
  PROVE  Marks(code, A, B, n) \in Nat
<1>1. PICK S : S = {k \in 1 .. n : Marked(code[k], A, B)}
  OBVIOUS
<1>2. IsFiniteSet(1 .. n) /\ S \subseteq 1 .. n
  BY <1>1, FS_Interval
<1>3. Cardinality(S) \in Nat
  BY <1>2, FS_Subset, FS_CardinalityType
<1> QED BY <1>1, <1>3 DEF Marks

LEMMA MarksNone ==
  ASSUME NEW code, NEW A, NEW B
  PROVE  Marks(code, A, B, 0) = 0
<1>1. {k \in 1 .. 0 : Marked(code[k], A, B)} = {}
  OBVIOUS
<1> QED BY <1>1, FS_EmptySet DEF Marks

LEMMA MarksMore ==
  ASSUME NEW code, NEW A, NEW B, NEW n \in Nat, NEW m, m = n + 1
  PROVE  Marks(code, A, B, m) = Marks(code, A, B, n) + (IF Marked(code[m], A, B) THEN 1 ELSE 0)
<1>1. PICK S, T : /\ S = {k \in 1 .. n : Marked(code[k], A, B)}
                  /\ T = {k \in 1 .. m : Marked(code[k], A, B)}
  OBVIOUS
<1>2. IsFiniteSet(S) /\ m \notin S
  <2>1. IsFiniteSet(1 .. n) /\ S \subseteq 1 .. n
    BY <1>1, FS_Interval
  <2> QED BY <1>1, <2>1, FS_Subset
<1>3. Cardinality(S) \in Nat
  BY <1>2, FS_CardinalityType
<1>4. CASE Marked(code[m], A, B)
  <2>1. T = S \cup {m}
    BY <1>1, <1>4
  <2>2. Cardinality(T) = Cardinality(S) + 1
    BY <1>2, <2>1, FS_AddElement
  <2> QED BY <1>1, <1>4, <2>2 DEF Marks
<1>5. CASE ~Marked(code[m], A, B)
  <2>1. T = S
    BY <1>1, <1>5
  <2> QED BY <1>1, <1>3, <1>5, <2>1 DEF Marks
<1> QED BY <1>4, <1>5

LEMMA MarksAlong ==
  ASSUME NEW c, NEW d, NEW A, NEW B, NEW p \in Nat, NEW q \in Nat, NEW l \in Nat,
         Alike(c, d, A, B, p, q, l)
  PROVE  Marks(c, A, B, p + l) - Marks(c, A, B, p) = Marks(d, A, B, q + l) - Marks(d, A, B, q)
<1> DEFINE C(i) == Marks(c, A, B, i)
           D(i) == Marks(d, A, B, i)
           P == {j \in Nat : j <= l => C(p + j) - C(p) = D(q + j) - D(q)}
<1>0. \A i \in Nat : C(i) \in Nat /\ D(i) \in Nat
  BY MarksNat
<1>1. 0 \in P
  <2>1. p + 0 = p /\ q + 0 = q
    OBVIOUS
  <2>2. C(p) - C(p) = D(q) - D(q)
    <3> HIDE DEF C, D
    <3> QED BY <1>0
  <2> QED BY <2>1, <2>2
<1>2. ASSUME NEW j \in Nat, j \in P PROVE j + 1 \in P
  <2> SUFFICES ASSUME j + 1 <= l PROVE C(p + (j + 1)) - C(p) = D(q + (j + 1)) - D(q)
    OBVIOUS
  <2>1. PICK a, b : a = p + (j + 1) /\ b = q + (j + 1)
    OBVIOUS
  <2>2. PICK x, y : x = p + j /\ y = q + j
    OBVIOUS
  <2>3. x \in Nat /\ y \in Nat /\ a = x + 1 /\ b = y + 1
    BY <2>1, <2>2
  <2>4. Marked(c[a], A, B) <=> Marked(d[b], A, B)
    BY <2>1 DEF Alike
  <2>5. PICK z : z = (IF Marked(c[a], A, B) THEN 1 ELSE 0)
    OBVIOUS
  <2>6. C(a) = C(x) + z
    BY <2>3, <2>5, MarksMore
  <2>7. D(b) = D(y) + z
    BY <2>3, <2>4, <2>5, MarksMore
  <2>8. C(x) - C(p) = D(y) - D(q)
    BY <1>2, <2>2
  <2>9. z \in Nat /\ C(x) \in Nat /\ D(y) \in Nat /\ C(p) \in Nat /\ D(q) \in Nat
    BY <1>0, <2>3, <2>5
  <2> HIDE DEF C, D
  <2>10. C(a) - C(p) = D(b) - D(q)
    BY <2>6, <2>7, <2>8, <2>9
  <2> QED BY <2>1, <2>10
<1>3. l \in P
  <2> HIDE DEF P
  <2> QED BY <1>1, <1>2, NatSetInduction
<1> QED BY <1>3

LEMMA MarksSame ==
  ASSUME NEW c, NEW d, NEW A, NEW B, NEW n \in Nat,
         \A j \in 1 .. n : Marked(c[j], A, B) <=> Marked(d[j], A, B)
  PROVE  Marks(c, A, B, n) = Marks(d, A, B, n)
<1>1. {k \in 1 .. n : Marked(c[k], A, B)} = {k \in 1 .. n : Marked(d[k], A, B)}
  OBVIOUS
<1> QED BY <1>1 DEF Marks

LEMMA MarksSpliced ==
  ASSUME NEW n \in Nat, NEW l \in Nat, NEW k, NEW c, NEW d, NEW new, Spliced(c, d, new, k, n, l),
         NEW A, NEW B
  PROVE  Marks(d, A, B, n + l) = Marks(c, A, B, n) + Marks(new, A, B, l)
<1> DEFINE C(i) == Marks(c, A, B, i)
           D(i) == Marks(d, A, B, i)
           N(i) == Marks(new, A, B, i)
<1>1. k \in 1 .. n /\ k - 1 \in Nat /\ n - k + 1 \in Nat
  BY DEF Spliced
<1>2. PICK b, e, x : b = k - 1 /\ e = n - k + 1 /\ x = b + l
  OBVIOUS
<1>3. b \in Nat /\ e \in Nat /\ x \in Nat /\ b + e = n /\ x + e = n + l
  BY <1>1, <1>2
<1>4. C(b) = D(b)
  <2>1. \A j \in 1 .. b : Marked(c[j], A, B) <=> Marked(d[j], A, B)
    BY <1>2, MarkedByForm DEF Spliced
  <2> QED BY <1>3, <2>1, MarksSame
<1>5. D(b + l) - D(b) = N(0 + l) - N(0)
  <2>1. PICK o : o = 0
    OBVIOUS
  <2>2. Alike(d, new, A, B, b, o, l)
    <3> SUFFICES ASSUME NEW j \in 1 .. l PROVE Marked(d[b + j], A, B) <=> Marked(new[o + j], A, B)
      BY DEF Alike
    <3>1. Form(d[b + j]) = Form(new[j]) /\ o + j = j
      BY <1>2, <2>1 DEF Spliced
    <3> QED BY <3>1, MarkedByForm
  <2>3. o \in Nat
    BY <2>1
  <2>4. Marks(d, A, B, b + l) - Marks(d, A, B, b) = Marks(new, A, B, o + l) - Marks(new, A, B, o)
    BY <1>3, <2>2, <2>3, MarksAlong
  <2> QED BY <2>1, <2>4
<1>6. D(x + e) - D(x) = C(b + e) - C(b)
  <2>1. Alike(d, c, A, B, x, b, e)
    <3> SUFFICES ASSUME NEW j \in 1 .. e PROVE Marked(d[x + j], A, B) <=> Marked(c[b + j], A, B)
      BY DEF Alike
    <3>1. PICK i : i = b + j
      OBVIOUS
    <3>2. i \in k .. n /\ x + j = i + l
      BY <1>1, <1>2, <3>1
    <3>3. Form(d[i + l]) = Form(c[i])
      BY <3>2 DEF Spliced
    <3> QED BY <3>1, <3>2, <3>3, MarkedByForm
  <2>2. Marks(d, A, B, x + e) - Marks(d, A, B, x) = Marks(c, A, B, b + e) - Marks(c, A, B, b)
    BY <1>3, <2>1, MarksAlong
  <2> QED BY <2>2
<1>7. N(0) = 0 /\ 0 + l = l
  BY MarksNone
<1>8. \A i \in Nat : C(i) \in Nat /\ D(i) \in Nat /\ N(i) \in Nat
  BY MarksNat
<1>9. C(b) \in Nat /\ C(n) \in Nat /\ D(b) \in Nat /\ D(x) \in Nat /\ D(n + l) \in Nat /\ N(l) \in Nat
  BY <1>3, <1>8
<1> HIDE DEF C, D, N
<1>10. D(x) - D(b) = N(l)
  BY <1>2, <1>5, <1>7, <1>9
<1>11. D(n + l) - D(x) = C(n) - C(b)
  BY <1>3, <1>6
<1>12. D(n + l) = C(n) + N(l)
  BY <1>4, <1>9, <1>10, <1>11
<1> QED BY <1>12 DEF C, D, N
-----------------------------------------------------------------------------
(* What inserting instructions does to a code.                             *)
LEMMA Joined ==
  ASSUME NEW U, NEW a \in Seq(U), NEW b \in Seq(U), NEW n, n = Len(a), NEW l, l = Len(b),
         NEW c, c = a \o b
  PROVE  /\ c \in Seq(U) /\ n \in Nat /\ l \in Nat /\ Len(c) = n + l /\ DOMAIN c = 1 .. n + l
         /\ \A j \in 1 .. n : c[j] = a[j]
         /\ \A j \in 1 .. l : c[n + j] = b[j]
<1>1. c \in Seq(U) /\ n \in Nat /\ l \in Nat /\ Len(c) = n + l /\ DOMAIN c = 1 .. n + l
  OBVIOUS
<1>2. ASSUME NEW j \in 1 .. n PROVE c[j] = a[j]
  BY <1>2
<1>3. ASSUME NEW j \in 1 .. l PROVE c[n + j] = b[j]
  <2>1. PICK i : i = n + j
    OBVIOUS
  <2>2. i \in 1 .. n + l /\ i > n /\ i - n = j
    BY <1>1, <2>1
  <2>3. c[i] = b[i - n]
    BY <1>1, <2>2
  <2> QED BY <2>1, <2>2, <2>3
<1> QED BY <1>1, <1>2, <1>3

LEMMA OpenedSplices ==
  ASSUME NEW n \in Nat, NEW l \in Nat, NEW code, CodeSound(code), DOMAIN code = 1 .. n,
         NEW new, CodeSound(new), DOMAIN new = 1 .. l, NEW k \in 1 .. n
  PROVE  Spliced(code, Opened(code, k, new), new, k, n, l)
<1>1. PICK S, T : code \in Seq(S) /\ new \in Seq(T)
  BY DEF CodeSound, Listed
<1>2. Len(code) = n /\ Len(new) = l
  BY <1>1
<1>3. PICK a, b : a = SubSeq(code, 1, k - 1) /\ b = SubSeq(code, k, n)
  OBVIOUS
<1>4. PICK U : U = S \cup T
  OBVIOUS
<1>5. code \in Seq(U) /\ new \in Seq(U)
  BY <1>1, <1>4
<1>6. /\ a \in Seq(U) /\ Len(a) = k - 1 /\ DOMAIN a = 1 .. k - 1
      /\ \A j \in 1 .. k - 1 : a[j] = code[j]
  BY <1>2, <1>3, <1>5
<1>7. /\ b \in Seq(U) /\ Len(b) = n - k + 1 /\ DOMAIN b = 1 .. n - k + 1
      /\ \A j \in 1 .. n - k + 1 : b[j] = code[k + j - 1]
  BY <1>2, <1>3, <1>5
<1>8. PICK e, x : e = a \o new /\ x = k - 1
  OBVIOUS
<1>9. /\ e \in Seq(U) /\ Len(e) = x + l /\ DOMAIN e = 1 .. x + l
      /\ \A j \in 1 .. x : e[j] = a[j]
      /\ \A j \in 1 .. l : e[x + j] = new[j]
  BY <1>2, <1>5, <1>6, <1>8, Joined
<1>10. PICK d, y : d = e \o b /\ y = x + l
  OBVIOUS
<1>11. /\ d \in Seq(U) /\ DOMAIN d = 1 .. y + Len(b)
       /\ \A j \in 1 .. y : d[j] = e[j]
       /\ \A j \in 1 .. Len(b) : d[y + j] = b[j]
  <2>1. PICK z : z = Len(b)
    OBVIOUS
  <2>2. e \in Seq(U) /\ b \in Seq(U) /\ y = Len(e) /\ d = e \o b
    BY <1>7, <1>9, <1>10
  <2>3. /\ d \in Seq(U) /\ DOMAIN d = 1 .. y + z
        /\ \A j \in 1 .. y : d[j] = e[j]
        /\ \A j \in 1 .. z : d[y + j] = b[j]
    BY <2>1, <2>2, Joined
  <2> QED BY <2>1, <2>3
<1>12. ASSUME NEW j \in k .. n PROVE d[j + l] = code[j]
  <2>1. PICK i : i = j - k + 1
    OBVIOUS
  <2>2. i \in 1 .. n - k + 1 /\ k + i - 1 = j /\ y + i = j + l
    BY <1>8, <1>10, <2>1
  <2>3. d[y + i] = b[i] /\ b[i] = code[k + i - 1]
    BY <1>7, <1>11, <2>2
  <2> QED BY <2>2, <2>3
<1>13. ASSUME NEW j \in 1 .. l PROVE d[k - 1 + j] = new[j]
  <2>1. PICK i : i = x + j
    OBVIOUS
  <2>2. i \in 1 .. y /\ i = k - 1 + j
    BY <1>8, <1>10, <2>1
  <2>3. d[i] = e[i] /\ e[i] = new[j]
    BY <1>9, <1>11, <2>1, <2>2
  <2> QED BY <2>2, <2>3
<1>14. ASSUME NEW j \in 1 .. k - 1 PROVE d[j] = code[j]
  <2>1. j \in 1 .. x /\ j \in 1 .. y
    BY <1>8, <1>10
  <2> QED BY <1>6, <1>9, <1>11, <2>1
<1>15. DOMAIN d = 1 .. n + l
  <2>1. y + Len(b) = n + l
    BY <1>7, <1>8, <1>10
  <2> QED BY <1>11, <2>1
<1>16. Opened(code, k, new) = d
  <2>1. k # 0
    OBVIOUS
  <2> QED BY <1>2, <1>3, <1>8, <1>10, <2>1 DEF Opened
<1> QED BY <1>12, <1>13, <1>14, <1>15, <1>16 DEF Spliced

LEMMA InsertForm ==
  ASSUME NEW m, NEW e, Sized(m, e), NEW new, CodeSound(new), NEW at, NEW sticky,
         NEW r, r = InsertInto(m, at, new, sticky)
  PROVE  \E k \in 0 .. Len(m.code) :
           /\ k = 0 => \A j \in DOMAIN m.code : m.code[j].addr # at
           /\ k # 0 => k \in DOMAIN m.code /\ m.code[k].addr = at
           /\ Placed(r.code) /\ DOMAIN r.code = DOMAIN Opened(m.code, k, new)
           /\ \A j \in DOMAIN r.code : Form(r.code[j]) = Form(Opened(m.code, k, new)[j])
<1>1. PICK k : k = SelectInSeq(m.code, LAMBDA i : i.addr = at)
  OBVIOUS
<1>2. /\ k \in 0 .. Len(m.code)
      /\ k = 0 => \A j \in DOMAIN m.code : m.code[j].addr # at
      /\ k # 0 => k \in DOMAIN m.code /\ m.code[k].addr = at
  <2>1. PICK T : T = {i \in 1 .. Len(m.code) : m.code[i].addr = at}
    OBVIOUS
  <2>2. k = IF T # {} THEN Min(T) ELSE 0
    BY <1>1, <2>1 DEF SelectInSeq
  <2>3. Len(m.code) \in Nat /\ DOMAIN m.code = 1 .. Len(m.code)
    BY ListedRow DEF Sized, CodeSound, Row
  <2>4. T \subseteq Nat
    BY <2>1, <2>3
  <2>5. T # {} => Min(T) \in T
    BY <2>4, FirstOne
  <2> QED BY <2>1, <2>2, <2>3, <2>5
<1>3. PICK opened : opened = Opened(m.code, k, new)
  OBVIOUS
<1>4. CodeSound(opened)
  BY <1>2, <1>3, OpenedSound DEF Sized
<1>5. PICK laid : laid = Layout(opened)
  OBVIOUS
<1>6. /\ CodeSound(laid) /\ Placed(laid) /\ DOMAIN laid = DOMAIN opened
      /\ \A j \in DOMAIN opened : Form(laid[j]) = Form(opened[j])
  BY <1>4, <1>5, LayoutSays, LayoutForm DEF LaidOut
<1>7. PICK moved : moved = NewAddresses(m.code, laid, k, sticky)
  OBVIOUS
<1>8. PICK s : s = Redirect(m, laid, moved)
  OBVIOUS
<1>9. /\ DOMAIN s = MethodParts
      /\ DOMAIN s.code = DOMAIN laid
      /\ \A j \in DOMAIN laid : Form(s.code[j]) = Form(laid[j]) /\ s.code[j].addr = laid[j].addr
      /\ CodeSound(s.code)
  <2>1. PICK w : w = [j \in DOMAIN AllTargets(m.code) |-> NewAddr(moved, AllTargets(m.code)[j])]
    OBVIOUS
  <2>2. PICK code : code = update_targets(laid, w, 0)
    OBVIOUS
  <2>3. PICK es : es = [j \in DOMAIN m.exceptions |-> update_exception(m.exceptions[j], moved)]
    OBVIOUS
  <2>4. s = [m EXCEPT !.code = code, !.codeLength = End(laid), !.exceptions = es]
    BY <1>8, <2>1, <2>2, <2>3 DEF Redirect
  <2>5. /\ DOMAIN code = DOMAIN laid
        /\ \A j \in DOMAIN laid : Form(code[j]) = Form(laid[j]) /\ code[j].addr = laid[j].addr
    BY <1>6, <2>2, TargetsForm
  <2>6. DOMAIN s = MethodParts /\ s.code = code
    BY <2>4 DEF Sized, MethodParts
  <2>7. CodeSound(code)
    BY <1>6, <2>2, TargetsSay
  <2> QED BY <2>5, <2>6, <2>7
<1>10. Placed(s.code)
  <2>1. ASSUME NEW j \in DOMAIN laid
        PROVE  s.code[j].addr = IF j = 1 THEN 0 ELSE After(s.code[j - 1])
    <3>1. CASE j = 1
      BY <1>6, <1>9, <3>1 DEF Placed
    <3>2. CASE j # 1
      <4>1. j - 1 \in DOMAIN laid
        <5>1. PICK x \in Nat : DOMAIN laid = 1 .. x
          BY <1>6 DEF CodeSound, Listed
        <5> QED BY <3>2, <5>1
      <4>2. After(s.code[j - 1]) = After(laid[j - 1])
        BY <1>6, <1>9, <4>1, SizeByForm DEF CodeSound
      <4> QED BY <1>6, <1>9, <3>2, <4>2 DEF Placed
    <3> QED BY <3>1, <3>2
  <2> QED BY <1>9, <2>1 DEF Placed
<1>11. r.code = s.code
  <2>1. PICK targets : targets = FrameTargets(s.code, s.exceptions)
    OBVIOUS
  <2>2. PICK t : t = AdjustFrames(s)
    OBVIOUS
  <2>3. PICK fs, b : t = [s EXCEPT !.frames = fs, !.ended = b]
    BY <2>1, <2>2 DEF AdjustFrames, AdjustTo
  <2>4. r = t
    BY <1>1, <1>3, <1>5, <1>7, <1>8, <2>2 DEF InsertInto
  <2> QED BY <1>9, <2>3, <2>4 DEF MethodParts
<1> QED BY <1>2, <1>3, <1>6, <1>9, <1>10, <1>11

LEMMA SplicedPlaces ==
  ASSUME NEW n \in Nat, NEW l \in Nat, NEW k, NEW c, NEW d, NEW new, Spliced(c, d, new, k, n, l),
         CodeSound(c), Placed(c), CodeSound(d), Placed(d)
  PROVE  \A j \in 1 .. k : j \in DOMAIN c /\ j \in DOMAIN d /\ d[j].addr = c[j].addr
<1>1. k \in 1 .. n /\ DOMAIN c = 1 .. n /\ DOMAIN d = 1 .. n + l
  BY DEF Spliced
<1>2. PICK x : x = k - 1
  OBVIOUS
<1>3. x \in Nat /\ x + 1 = k
  BY <1>1, <1>2
<1>4. \A j \in 1 .. k : j \in DOMAIN c /\ j \in DOMAIN d
  BY <1>1
<1>5. \A j \in 1 .. x : j \in DOMAIN c /\ j \in DOMAIN d /\ Form(c[j]) = Form(d[j])
  BY <1>2, <1>4 DEF Spliced
<1>6. \A j \in 1 .. x + 1 : j \in DOMAIN c /\ j \in DOMAIN d => c[j].addr = d[j].addr
  BY <1>3, <1>5, SamePlaces
<1> QED BY <1>3, <1>4, <1>6

LEMMA SplicedLow ==
  ASSUME NEW n \in Nat, NEW l \in Nat, NEW k, NEW c, NEW d, NEW new, Spliced(c, d, new, k, n, l),
         CodeSound(c), Placed(c), CodeSound(d), Placed(d), NEW a \in Int, a <= c[k].addr
  PROVE  HasAddr(c, a) <=> HasAddr(d, a)
<1>1. k \in 1 .. n /\ DOMAIN c = 1 .. n /\ DOMAIN d = 1 .. n + l
  BY DEF Spliced
<1>2. \A j \in 1 .. k : j \in DOMAIN c /\ j \in DOMAIN d /\ d[j].addr = c[j].addr
  BY SplicedPlaces
<1>3. k \in DOMAIN c /\ k \in DOMAIN d /\ d[k].addr = c[k].addr /\ c[k].addr \in Int
  BY <1>1, <1>2 DEF CodeSound, Sound
<1>4. ASSUME NEW j \in DOMAIN c, c[j].addr = a PROVE j \in 1 .. k
  <2> SUFFICES ASSUME k < j PROVE FALSE
    BY <1>1
  <2>1. c[k].addr < c[j].addr
    BY <1>3, PlacedRises
  <2> QED BY <1>3, <1>4, <2>1
<1>5. ASSUME NEW j \in DOMAIN d, d[j].addr = a PROVE j \in 1 .. k
  <2> SUFFICES ASSUME k < j PROVE FALSE
    BY <1>1
  <2>1. d[k].addr < d[j].addr
    BY <1>3, PlacedRises
  <2> QED BY <1>3, <1>5, <2>1
<1> QED BY <1>2, <1>4, <1>5 DEF HasAddr

LEMMA SplicedLate ==
  ASSUME NEW n \in Nat, NEW l \in Nat, NEW k, NEW c, NEW d, NEW new, Spliced(c, d, new, k, n, l),
         CodeSound(c), Placed(c), CodeSound(d), Placed(d), Late(c),
         \A j \in DOMAIN new : new[j].op \notin Returns,
         c[k].addr >= FIRST_ADDRESS_AFTER_INIT
  PROVE  Late(d)
<1>1. k \in 1 .. n /\ DOMAIN c = 1 .. n /\ DOMAIN new = 1 .. l /\ DOMAIN d = 1 .. n + l
  BY DEF Spliced
<1>2. \A j \in 1 .. k : j \in DOMAIN c /\ j \in DOMAIN d /\ d[j].addr = c[j].addr
  BY SplicedPlaces
<1>3. k \in DOMAIN c /\ k \in DOMAIN d /\ d[k].addr = c[k].addr /\ c[k].addr \in Int
  BY <1>1, <1>2 DEF CodeSound, Sound
<1>4. ASSUME NEW j \in DOMAIN d, d[j].op \in Returns
      PROVE  d[j].op = "return" /\ d[j].addr >= FIRST_ADDRESS_AFTER_INIT
  <2>1. CASE j \in 1 .. k - 1
    <3>1. Form(d[j]) = Form(c[j])
      BY <2>1 DEF Spliced
    <3>2. d[j].op = c[j].op
      BY <3>1 DEF Form
    <3>3. j \in 1 .. k
      BY <1>1, <2>1
    <3> QED BY <1>2, <1>4, <3>2, <3>3 DEF Late
  <2>2. CASE j \in k .. k - 1 + l
    <3>1. PICK i : i = j - (k - 1)
      OBVIOUS
    <3>2. i \in 1 .. l /\ k - 1 + i = j
      BY <1>1, <2>2, <3>1
    <3>3. Form(d[j]) = Form(new[i])
      BY <3>2 DEF Spliced
    <3>4. d[j].op = new[i].op
      BY <3>3 DEF Form
    <3> QED BY <1>1, <1>4, <3>2, <3>4
  <2>3. CASE j \in k + l .. n + l
    <3>1. PICK i : i = j - l
      OBVIOUS
    <3>2. i \in k .. n /\ i \in DOMAIN c /\ i + l = j
      BY <1>1, <2>3, <3>1
    <3>3. Form(d[j]) = Form(c[i])
      BY <3>2 DEF Spliced
    <3>4. d[j].op = c[i].op
      BY <3>3 DEF Form
    <3>5. d[j].addr >= d[k].addr
      <4>1. CASE j = k
        BY <1>3, <4>1
      <4>2. CASE j # k
        <5>1. k < j
          BY <1>1, <2>3, <4>2
        <5>2. d[k].addr < d[j].addr
          BY <1>3, <5>1, PlacedRises
        <5>3. d[k].addr \in Int /\ d[j].addr \in Int
          BY <1>3 DEF CodeSound, Sound
        <5> QED BY <5>2, <5>3
      <4> QED BY <4>1, <4>2
    <3>6. d[j].addr \in Int
      BY DEF CodeSound, Sound
    <3> QED BY <1>3, <1>4, <3>2, <3>4, <3>5, <3>6 DEF Late, FIRST_ADDRESS_AFTER_INIT
  <2>4. j \in 1 .. k - 1 \/ j \in k .. k - 1 + l \/ j \in k + l .. n + l
    BY <1>1
  <2> QED BY <2>1, <2>2, <2>3, <2>4
<1> QED BY <1>4 DEF Late

(* What add_instructions does, if it does not end the program: new is put  *)
(* before the instruction that is at the address, if there is one.         *)
LEMMA AddForm ==
  ASSUME NEW m, NEW e, Sized(m, e), Placed(m.code), m.code # <<>>, NEW new, CodeSound(new),
         NEW at, NEW sticky, NEW r, r = add_instructions(m, at, new, sticky), ~r.ended
  PROVE  /\ ~m.ended /\ Placed(r.code) /\ r.code # <<>>
         /\ \/ \E k \in DOMAIN m.code : /\ m.code[k].addr = at
                                        /\ Spliced(m.code, r.code, new, k, Len(m.code), Len(new))
            \/ ~HasAddr(m.code, at) /\ Alias(m.code, r.code)
<1>1. ~m.ended
  BY DEF add_instructions
<1>2. r = InsertInto(m, at, new, sticky)
  BY <1>1 DEF add_instructions
<1>3. PICK k \in 0 .. Len(m.code) :
        /\ k = 0 => \A j \in DOMAIN m.code : m.code[j].addr # at
        /\ k # 0 => k \in DOMAIN m.code /\ m.code[k].addr = at
        /\ Placed(r.code) /\ DOMAIN r.code = DOMAIN Opened(m.code, k, new)
        /\ \A j \in DOMAIN r.code : Form(r.code[j]) = Form(Opened(m.code, k, new)[j])
  BY <1>2, InsertForm
<1>4. CodeSound(r.code) /\ CodeSound(m.code)
  <2>1. Sized(r, e)
    BY <1>2, InsertSized
  <2> QED BY <2>1 DEF Sized
<1>5. PICK n, l : n = Len(m.code) /\ l = Len(new)
  OBVIOUS
<1>6. n \in Nat /\ l \in Nat /\ DOMAIN m.code = 1 .. n /\ DOMAIN new = 1 .. l /\ n # 0
  <2>1. Row(m.code) /\ Row(new)
    BY <1>4, ListedRow DEF CodeSound
  <2>2. PICK S : m.code \in Seq(S)
    BY <1>4 DEF CodeSound, Listed
  <2>3. n # 0
    BY <1>5, <2>2
  <2> QED BY <1>5, <2>1, <2>3 DEF Row
<1>7. CASE k = 0
  <2>1. Opened(m.code, k, new) = m.code
    BY <1>7 DEF Opened
  <2>2. DOMAIN r.code = 1 .. n /\ \A j \in 1 .. n : Form(r.code[j]) = Form(m.code[j])
    BY <1>3, <1>6, <2>1
  <2>3. \A j \in 1 .. n : j \in DOMAIN r.code /\ j \in DOMAIN m.code /\ Form(r.code[j]) = Form(m.code[j])
    BY <1>6, <2>2
  <2>4. \A j \in 1 .. n + 1 : j \in DOMAIN r.code /\ j \in DOMAIN m.code => r.code[j].addr = m.code[j].addr
    <3>1. PICK a, b : a = r.code /\ b = m.code
      OBVIOUS
    <3>2. /\ CodeSound(a) /\ Placed(a) /\ CodeSound(b) /\ Placed(b)
          /\ \A j \in 1 .. n : j \in DOMAIN a /\ j \in DOMAIN b /\ Form(a[j]) = Form(b[j])
      BY <1>3, <1>4, <2>3, <3>1
    <3>3. \A j \in 1 .. n + 1 : j \in DOMAIN a /\ j \in DOMAIN b => a[j].addr = b[j].addr
      BY <1>6, <3>2, SamePlaces
    <3> QED BY <3>1, <3>3
  <2>5. Alias(m.code, r.code)
    BY <1>6, <2>2, <2>4 DEF Alias
  <2>6. r.code # <<>>
    BY <1>6, <2>2
  <2> QED BY <1>1, <1>3, <1>7, <2>5, <2>6 DEF HasAddr
<1>8. CASE k # 0
  <2>1. k \in 1 .. n
    BY <1>3, <1>6, <1>8
  <2>2. Spliced(m.code, Opened(m.code, k, new), new, k, n, l)
    BY <1>4, <1>6, <2>1, OpenedSplices
  <2>3. DOMAIN r.code = 1 .. n + l
    BY <1>3, <2>2 DEF Spliced
  <2>4. \A j \in 1 .. n + l : Form(r.code[j]) = Form(Opened(m.code, k, new)[j])
    BY <1>3, <2>3
  <2>5. \A j \in 1 .. k - 1 : Form(r.code[j]) = Form(m.code[j])
    <3> TAKE j \in 1 .. k - 1
    <3>1. j \in 1 .. n + l
      BY <1>6, <2>1
    <3> QED BY <2>2, <2>4, <3>1 DEF Spliced
  <2>6. \A j \in 1 .. l : Form(r.code[k - 1 + j]) = Form(new[j])
    <3> TAKE j \in 1 .. l
    <3>1. PICK i : i = k - 1 + j
      OBVIOUS
    <3>2. i \in 1 .. n + l
      BY <1>6, <2>1, <3>1
    <3> QED BY <2>2, <2>4, <3>1, <3>2 DEF Spliced
  <2>7. \A j \in k .. n : Form(r.code[j + l]) = Form(m.code[j])
    <3> TAKE j \in k .. n
    <3>1. PICK i : i = j + l
      OBVIOUS
    <3>2. i \in 1 .. n + l
      BY <1>6, <2>1, <3>1
    <3> QED BY <2>2, <2>4, <3>1, <3>2 DEF Spliced
  <2>8. Spliced(m.code, r.code, new, k, n, l)
    BY <1>6, <2>1, <2>3, <2>5, <2>6, <2>7 DEF Spliced
  <2>9. r.code # <<>>
    <3>1. 1 \in DOMAIN r.code
      BY <1>6, <2>3
    <3> QED BY <3>1
  <2> QED BY <1>1, <1>3, <1>5, <1>8, <2>8, <2>9
<1> QED BY <1>7, <1>8
-----------------------------------------------------------------------------
LEMMA OneMoreExit ==
  ASSUME NEW code, NEW x, NEW n \in Nat, NEW last, ExitsOf(code, x, n, last), last \in Int,
         NEW a \in Int, HasAddr(code, a), last <= a, NEW m, m = n + 1, code[m].op \in Returns,
         NEW next \in Int, a <= next, Late(code) => a >= FIRST_ADDRESS_AFTER_INIT
  PROVE  ExitsOf(code, <<a>> \o x, m, next)
<1>1. PICK S, T : x \in Seq(S) /\ T = S \cup {a}
  BY DEF ExitsOf, Listed
<1>2. PICK b, l, y : b = <<a>> /\ l = Len(x) /\ y = b \o x
  OBVIOUS
<1>3. b \in Seq(T) /\ x \in Seq(T) /\ Len(b) = 1 /\ b[1] = a
  BY <1>1, <1>2
<1>4. PICK o : o = Len(b)
  OBVIOUS
<1>5. /\ y \in Seq(T) /\ l \in Nat /\ Len(y) = o + l /\ DOMAIN y = 1 .. o + l
      /\ \A j \in 1 .. o : y[j] = b[j]
      /\ \A j \in 1 .. l : y[o + j] = x[j]
  BY <1>2, <1>3, <1>4, Joined
<1>6. o = 1
  BY <1>3, <1>4
<1>7. DOMAIN x = 1 .. l
  BY <1>1, <1>2
<1>8. y[1] = a
  BY <1>3, <1>5, <1>6
<1>9. \A j \in DOMAIN y : j = 1 \/ (j - 1 \in DOMAIN x /\ y[j] = x[j - 1])
  <2> TAKE j \in DOMAIN y
  <2> SUFFICES ASSUME j # 1 PROVE j - 1 \in DOMAIN x /\ y[j] = x[j - 1]
    OBVIOUS
  <2>1. PICK i : i = j - 1
    OBVIOUS
  <2>2. i \in 1 .. l /\ o + i = j
    BY <1>5, <1>6, <2>1
  <2> QED BY <1>5, <1>7, <2>1, <2>2
<1>10. Len(y) = Marks(code, {}, Returns, m)
  <2>1. Marked(code[m], {}, Returns)
    BY DEF Marked
  <2>2. Marks(code, {}, Returns, m) = Marks(code, {}, Returns, n) + 1
    BY <2>1, MarksMore
  <2>3. Marks(code, {}, Returns, n) = l
    BY <1>2 DEF ExitsOf
  <2> QED BY <1>5, <1>6, <2>2, <2>3
<1>11. \A j \in DOMAIN x : HasAddr(code, x[j]) /\ x[j] \in Int /\ x[j] <= last
  BY DEF ExitsOf
<1>12. ASSUME NEW j \in DOMAIN y PROVE HasAddr(code, y[j]) /\ y[j] \in Int /\ y[j] <= next /\ y[j] <= a
  <2>1. CASE j = 1
    BY <1>8, <2>1
  <2>2. CASE j # 1
    BY <1>9, <1>11, <2>2
  <2> QED BY <2>1, <2>2
<1>13. ASSUME NEW i \in DOMAIN y, NEW j \in DOMAIN y, i < j PROVE y[j] <= y[i]
  <2>1. CASE i = 1
    BY <1>8, <1>12, <2>1
  <2>2. CASE i # 1
    <3>1. j # 1
      BY <1>5, <1>13, <2>2
    <3>2. i - 1 \in DOMAIN x /\ j - 1 \in DOMAIN x /\ y[i] = x[i - 1] /\ y[j] = x[j - 1] /\ i - 1 < j - 1
      BY <1>5, <1>9, <1>13, <2>2, <3>1
    <3> QED BY <3>2 DEF ExitsOf
  <2> QED BY <2>1, <2>2
<1>14. ASSUME Late(code), NEW j \in DOMAIN y PROVE y[j] >= FIRST_ADDRESS_AFTER_INIT
  <2>1. CASE j = 1
    BY <1>8, <1>14, <2>1
  <2>2. CASE j # 1
    BY <1>9, <1>14, <2>2 DEF ExitsOf
  <2> QED BY <2>1, <2>2
<1>15. Listed(y)
  BY <1>5 DEF Listed
<1> QED BY <1>2, <1>10, <1>12, <1>13, <1>14, <1>15 DEF ExitsOf

LEMMA ExitsSay ==
  ASSUME NEW code, CodeSound(code), Placed(code), code # <<>>,
         NEW x, x = get_return_addresses(code)
  PROVE  \E last \in Int : ExitsOf(code, x, Len(code), last)
<1>1. PICK n \in Nat : DOMAIN code = 1 .. n /\ n = Len(code)
  BY DEF CodeSound, Listed
<1>2. n # 0
  <2>1. PICK S : code \in Seq(S)
    BY DEF CodeSound, Listed
  <2> QED BY <1>1, <2>1
<1>3. PICK base : base = [last |-> 0, exits |-> <<>>]
  OBVIOUS
<1>4. PICK k : RunOf("exit", base, code, n, k) /\ FoldLeft(WithExit, base, code) = k[n]
  BY <1>1, ExitFold
<1>5. \A i \in 1 .. n : code[i].addr \in Int
  BY <1>1 DEF CodeSound, Sound
<1>6. code[1].addr = 0 /\ 1 \in DOMAIN code
  BY <1>1, <1>2 DEF Placed
<1> DEFINE Here(i) == /\ k[i].last = IF i = 0 THEN 0 ELSE code[i].addr
                      /\ ExitsOf(code, k[i].exits, i, k[i].last)
           P == {i \in Nat : i <= n => Here(i)}
<1>7. 0 \in P
  <2>1. k[0].last = 0 /\ k[0].exits = <<>>
    BY <1>3, <1>4 DEF RunOf
  <2>2. Listed(<<>>) /\ Len(<<>>) = 0 /\ DOMAIN <<>> = {}
    <3>1. <<>> \in Seq({})
      OBVIOUS
    <3> QED BY <3>1 DEF Listed
  <2>3. ExitsOf(code, <<>>, 0, 0)
    BY <2>2, MarksNone DEF ExitsOf
  <2> QED BY <2>1, <2>3
<1>8. ASSUME NEW i \in Nat, i \in P PROVE i + 1 \in P
  <2>1. PICK j : j = i + 1
    OBVIOUS
  <2> SUFFICES ASSUME j <= n PROVE Here(j)
    BY <2>1
  <2>2. j \in 1 .. n /\ j - 1 = i /\ i <= n /\ j # 0
    BY <2>1
  <2>3. k[j] = Applied("exit", k[i], code[j])
    BY <1>4, <2>2 DEF RunOf
  <2>4. PICK a, x0, last : a = ExitAt(k[i].last, code[j]) /\ x0 = k[i].exits /\ last = k[i].last
    OBVIOUS
  <2>5. /\ k[j].last = code[j].addr
        /\ k[j].exits = IF code[j].op \in Returns THEN <<a>> \o x0 ELSE x0
    <3>1. k[j] = WithExit(k[i], code[j])
      BY <2>3 DEF Applied
    <3>2. PICK y : y = IF code[j].op \in Returns THEN <<a>> \o x0 ELSE x0
      OBVIOUS
    <3>3. k[j] = [last |-> code[j].addr, exits |-> y]
      BY <2>4, <3>1, <3>2 DEF WithExit
    <3> QED BY <3>2, <3>3
  <2>6. ExitsOf(code, x0, i, last) /\ last = IF i = 0 THEN 0 ELSE code[i].addr
    BY <1>8, <2>2, <2>4
  <2>7. last \in Int /\ HasAddr(code, last) /\ last <= code[j].addr
    <3>1. CASE i = 0
      <4>1. j = 1 /\ last = 0
        BY <2>1, <2>6, <3>1
      <4> QED BY <1>6, <4>1 DEF HasAddr
    <3>2. CASE i # 0
      <4>1. i \in DOMAIN code /\ j \in DOMAIN code /\ i < j
        BY <1>1, <2>1, <2>2, <3>2
      <4>2. code[i].addr < code[j].addr
        BY <4>1, PlacedRises
      <4> QED BY <1>1, <1>5, <2>6, <3>2, <4>1, <4>2 DEF HasAddr
    <3> QED BY <3>1, <3>2
  <2>8. CASE code[j].op \in Returns
    <3>1. a = IF code[j].op = "return" THEN code[j].addr ELSE last
      BY <2>4 DEF ExitAt
    <3>2. a \in Int /\ HasAddr(code, a) /\ last <= a /\ a <= code[j].addr
      BY <1>1, <1>5, <2>2, <2>7, <3>1 DEF HasAddr
    <3>3. Late(code) => a >= FIRST_ADDRESS_AFTER_INIT
      BY <1>1, <2>2, <2>8, <3>1 DEF Late
    <3>4. ExitsOf(code, <<a>> \o x0, j, code[j].addr)
      BY <1>5, <2>1, <2>2, <2>6, <2>7, <2>8, <3>2, <3>3, OneMoreExit
    <3> QED BY <2>2, <2>5, <2>8, <3>4
  <2>9. CASE code[j].op \notin Returns
    <3>1. ~Marked(code[j], {}, Returns)
      BY <2>9 DEF Marked
    <3>2. Marks(code, {}, Returns, j) = Marks(code, {}, Returns, i) + 0
      BY <2>1, <3>1, MarksMore
    <3>3. Marks(code, {}, Returns, j) = Marks(code, {}, Returns, i)
      BY <3>2, MarksNat
    <3>4. \A y \in Int : y <= last => y <= code[j].addr
      BY <1>5, <2>2, <2>7
    <3>5. ExitsOf(code, x0, j, code[j].addr)
      BY <2>6, <3>3, <3>4 DEF ExitsOf
    <3> QED BY <2>2, <2>5, <2>9, <3>5
  <2> QED BY <2>8, <2>9
<1>9. n \in P
  <2> HIDE DEF P
  <2> QED BY <1>7, <1>8, NatSetInduction
<1>10. Here(n)
  BY <1>9
<1>11. x = k[n].exits
  BY <1>3, <1>4 DEF get_return_addresses
<1>12. k[n].last \in Int
  BY <1>2, <1>5, <1>10
<1> QED BY <1>1, <1>10, <1>11, <1>12
-----------------------------------------------------------------------------
LEMMA CodeMarksNat ==
  ASSUME NEW code, CodeSound(code), NEW A, NEW B
  PROVE  CodeMarks(code, A, B) \in Nat
<1>1. Len(code) \in Nat
  BY ListedRow DEF CodeSound, Row
<1> QED BY <1>1, MarksNat DEF CodeMarks

LEMMA CodeMarksSame ==
  ASSUME NEW c, NEW d, CodeSound(c), CodeSound(d), DOMAIN c = DOMAIN d, NEW A, NEW B,
         \A j \in DOMAIN c : Marked(c[j], A, B) <=> Marked(d[j], A, B)
  PROVE  CodeMarks(c, A, B) = CodeMarks(d, A, B)
<1>1. PICK n \in Nat : DOMAIN c = 1 .. n /\ n = Len(c)
  BY DEF CodeSound, Listed
<1>2. PICK l \in Nat : DOMAIN d = 1 .. l /\ l = Len(d)
  BY DEF CodeSound, Listed
<1>3. n = l
  <2>1. \A x \in Int : x \in 1 .. n <=> x \in 1 .. l
    BY <1>1, <1>2
  <2>2. n \in 1 .. l \/ n = 0
    BY <2>1
  <2>3. l \in 1 .. n \/ l = 0
    BY <2>1
  <2> QED BY <2>2, <2>3
<1> QED BY <1>1, <1>2, <1>3, MarksSame DEF CodeMarks

LEMMA CallishNone ==
  ASSUME NEW new, Callish(new)
  PROVE  CodeMarks(new, {}, Returns) = 0
<1>1. PICK n \in Nat : DOMAIN new = 1 .. n /\ n = Len(new)
  BY DEF Callish, CodeSound, Listed
<1>2. {k \in 1 .. n : Marked(new[k], {}, Returns)} = {}
  BY <1>1 DEF Callish, Marked
<1> QED BY <1>1, <1>2, FS_EmptySet DEF CodeMarks, Marks

LEMMA SplicedMarks ==
  ASSUME NEW c, CodeSound(c), NEW d, CodeSound(d), NEW new, CodeSound(new), NEW k,
         Spliced(c, d, new, k, Len(c), Len(new)), NEW A, NEW B
  PROVE  CodeMarks(d, A, B) = CodeMarks(c, A, B) + CodeMarks(new, A, B)
<1>1. PICK n \in Nat : n = Len(c)
  BY DEF CodeSound, Listed
<1>2. PICK l \in Nat : l = Len(new)
  BY DEF CodeSound, Listed
<1>3. PICK x \in Nat : x = Len(d) /\ DOMAIN d = 1 .. x
  BY DEF CodeSound, Listed
<1>4. DOMAIN d = 1 .. n + l
  BY <1>1, <1>2 DEF Spliced
<1>5. x = n + l
  BY <1>3, <1>4
<1>6. Marks(d, A, B, n + l) = Marks(c, A, B, n) + Marks(new, A, B, l)
  BY <1>1, <1>2, MarksSpliced
<1> QED BY <1>1, <1>2, <1>3, <1>5, <1>6 DEF CodeMarks

LEMMA AddCounts ==
  ASSUME NEW m, NEW e, Sized(m, e), Placed(m.code), m.code # <<>>, NEW new, Callish(new),
         NEW at \in Int, NEW sticky, NEW r, r = add_instructions(m, at, new, sticky), ~r.ended, NEW A
  PROVE  /\ Grew(m, r, A, IF HasAddr(m.code, at) THEN CodeMarks(new, A, {}) ELSE 0)
         /\ LowSame(m.code, r.code, at)
         /\ at >= FIRST_ADDRESS_AFTER_INIT /\ Late(m.code) => Late(r.code)
<1>1. CodeSound(new) /\ CodeSound(m.code)
  BY DEF Callish, Sized
<1>2. Sized(r, e)
  BY <1>1, AddSized
<1>3. CodeSound(r.code)
  BY <1>2 DEF Sized
<1>4. PICK c, d : c = m.code /\ d = r.code
  OBVIOUS
<1>5. /\ ~m.ended /\ Placed(d) /\ d # <<>>
      /\ \/ \E k \in DOMAIN c : c[k].addr = at /\ Spliced(c, d, new, k, Len(c), Len(new))
         \/ ~HasAddr(c, at) /\ Alias(c, d)
  BY <1>1, <1>4, AddForm
<1>6. CodeSound(c) /\ Placed(c) /\ CodeSound(d)
  BY <1>1, <1>3, <1>4
<1>7. CASE \E k \in DOMAIN c : c[k].addr = at /\ Spliced(c, d, new, k, Len(c), Len(new))
  <2>1. PICK k \in DOMAIN c : c[k].addr = at /\ Spliced(c, d, new, k, Len(c), Len(new))
    BY <1>7
  <2>2. HasAddr(c, at)
    BY <2>1 DEF HasAddr
  <2>3. CodeMarks(d, A, {}) = CodeMarks(c, A, {}) + CodeMarks(new, A, {})
    BY <1>1, <1>6, <2>1, SplicedMarks
  <2>4. CodeMarks(d, {}, Returns) = CodeMarks(c, {}, Returns)
    <3>1. CodeMarks(d, {}, Returns) = CodeMarks(c, {}, Returns) + CodeMarks(new, {}, Returns)
      BY <1>1, <1>6, <2>1, SplicedMarks
    <3> QED BY <1>6, <3>1, CallishNone, CodeMarksNat
  <2>5. PICK n, l : n = Len(c) /\ l = Len(new)
    OBVIOUS
  <2>6. n \in Nat /\ l \in Nat /\ Spliced(c, d, new, k, n, l)
    BY <1>1, <1>6, <2>1, <2>5, ListedRow DEF CodeSound, Row
  <2>7. LowSame(c, d, at)
    BY <1>5, <1>6, <2>1, <2>6, SplicedLow DEF LowSame
  <2>8. at >= FIRST_ADDRESS_AFTER_INIT /\ Late(c) => Late(d)
    BY <1>5, <1>6, <2>1, <2>6, SplicedLate DEF Callish
  <2> QED BY <1>4, <1>5, <2>2, <2>3, <2>4, <2>7, <2>8 DEF Grew
<1>8. CASE ~HasAddr(c, at) /\ Alias(c, d)
  <2>1. DOMAIN d = DOMAIN c /\ \A j \in DOMAIN c : Form(d[j]) = Form(c[j]) /\ d[j].addr = c[j].addr
    BY <1>8 DEF Alias
  <2>2. \A X, Y : \A j \in DOMAIN c : Marked(c[j], X, Y) <=> Marked(d[j], X, Y)
    BY <2>1, MarkedByForm
  <2>3. CodeMarks(d, A, {}) = CodeMarks(c, A, {}) /\ CodeMarks(d, {}, Returns) = CodeMarks(c, {}, Returns)
    BY <1>6, <2>1, <2>2, CodeMarksSame
  <2>4. CodeMarks(d, A, {}) = CodeMarks(c, A, {}) + 0
    BY <1>6, <2>3, CodeMarksNat
  <2>5. LowSame(c, d, at)
    BY <2>1 DEF LowSame, HasAddr
  <2>6. Late(c) => Late(d)
    <3>1. \A j \in DOMAIN c : d[j].op = c[j].op
      BY <2>1 DEF Form
    <3> QED BY <2>1, <3>1 DEF Late
  <2> QED BY <1>4, <1>5, <1>8, <2>3, <2>4, <2>5, <2>6 DEF Grew
<1> QED BY <1>5, <1>7, <1>8

LEMMA PlacesCount ==
  ASSUME NEW m, NEW e, Sized(m, e), Placed(m.code), m.code # <<>>, NEW call, Callish(call),
         NEW q, NEW l, PlacesFit(m.code, q, l, call), NEW r, r = FoldLeft(WithPlace, m, q), ~r.ended, NEW A
  PROVE  /\ Grew(m, r, A, l * CodeMarks(call, A, {}))
         /\ Late(m.code) /\ (\A i \in 1 .. l : q[i].at >= FIRST_ADDRESS_AFTER_INIT) =>
              /\ Late(r.code)
              /\ HasAddr(m.code, FIRST_ADDRESS_AFTER_INIT) <=> HasAddr(r.code, FIRST_ADDRESS_AFTER_INIT)
<1>1. l \in Nat /\ DOMAIN q = 1 .. l
  BY DEF PlacesFit
<1>2. PICK k : RunOf("into", m, q, l, k) /\ FoldLeft(WithPlace, m, q) = k[l]
  BY <1>1, IntoFold
<1>3. PICK g, four : g = CodeMarks(call, A, {}) /\ four = FIRST_ADDRESS_AFTER_INIT
  OBVIOUS
<1>4. g \in Nat /\ four \in Int /\ CodeSound(call) /\ CodeSound(m.code)
  BY <1>3, CodeMarksNat DEF Callish, FIRST_ADDRESS_AFTER_INIT, Sized
<1>5. PICK far : far = (Late(m.code) /\ \A i \in 1 .. l : q[i].at >= four)
  OBVIOUS
<1> DEFINE Until(i, a) == \A j \in 1 .. i : a <= q[j].at
           Here(i) == /\ Grew(m, k[i], A, i * g)
                      /\ \A a \in Int : Until(i, a) => (HasAddr(m.code, a) <=> HasAddr(k[i].code, a))
                      /\ far => Late(k[i].code)
           P == {i \in Nat : i <= l => Sized(k[i], e) /\ (~k[i].ended => Here(i))}
<1>6. 0 \in P
  <2>1. k[0] = m
    BY <1>2 DEF RunOf
  <2>2. 0 * g = 0 /\ CodeMarks(m.code, A, {}) \in Nat
    BY <1>4, CodeMarksNat
  <2>3. CodeMarks(m.code, A, {}) = CodeMarks(m.code, A, {}) + 0 * g
    BY <2>2
  <2>4. ~m.ended => Grew(m, m, A, 0 * g)
    BY <2>3 DEF Grew
  <2> QED BY <1>5, <2>1, <2>4
<1>7. ASSUME NEW i \in Nat, i \in P PROVE i + 1 \in P
  <2>1. PICK j : j = i + 1
    OBVIOUS
  <2> SUFFICES ASSUME j <= l PROVE Sized(k[j], e) /\ (~k[j].ended => Here(j))
    BY <2>1
  <2>2. j \in 1 .. l /\ j - 1 = i /\ i <= l
    BY <1>1, <2>1
  <2>3. PICK c, d, at, sticky : c = k[i] /\ d = k[j] /\ at = q[j].at /\ sticky = q[j].sticky
    OBVIOUS
  <2>4. d = add_instructions(c, at, call, sticky)
    <3>1. k[j] = Applied("into", k[i], q[j])
      BY <1>2, <2>2 DEF RunOf
    <3>2. q[j].call = call
      BY <2>2 DEF PlacesFit
    <3> QED BY <2>3, <3>1, <3>2 DEF Applied, WithPlace
  <2>5. Sized(c, e) /\ (~c.ended => Here(i))
    BY <1>7, <2>2, <2>3
  <2>6. Sized(d, e)
    BY <1>4, <2>4, <2>5, AddSized
  <2>7. ASSUME ~d.ended PROVE Here(j)
    <3>1. ~c.ended
      BY <2>4, <2>7 DEF add_instructions
    <3>2. Here(i)
      BY <2>5, <3>1
    <3>3. Grew(m, c, A, i * g)
      BY <2>3, <3>2
    <3>4. at \in Int /\ HasAddr(m.code, at) /\ Until(i, at)
      <4>1. \A x \in 1 .. i : x \in 1 .. l /\ x < j
        BY <1>1, <2>1, <2>2
      <4> QED BY <2>2, <2>3, <4>1 DEF PlacesFit
    <3>5. HasAddr(c.code, at)
      BY <2>3, <3>2, <3>4
    <3>6. /\ Grew(c, d, A, g)
          /\ LowSame(c.code, d.code, at)
          /\ at >= four /\ Late(c.code) => Late(d.code)
      BY <1>3, <2>4, <2>5, <2>7, <3>3, <3>4, <3>5, AddCounts DEF Grew
    <3>7. Grew(m, d, A, j * g)
      <4>1. j * g = i * g + g
        BY <1>4, <2>1
      <4>2. PICK h : h = i * g
        OBVIOUS
      <4>3. h \in Nat
        BY <1>4, <4>2
      <4>4. CodeMarks(d.code, A, {}) = CodeMarks(m.code, A, {}) + (h + g)
        <5>1. CodeMarks(m.code, A, {}) \in Nat
          BY <1>4, CodeMarksNat
        <5> QED BY <1>4, <3>3, <3>6, <4>2, <4>3, <5>1 DEF Grew
      <4> QED BY <3>3, <3>6, <4>1, <4>2, <4>4 DEF Grew
    <3>8. ASSUME NEW a \in Int, Until(j, a) PROVE HasAddr(m.code, a) <=> HasAddr(d.code, a)
      <4>1. a <= at /\ Until(i, a)
        BY <2>1, <2>2, <2>3, <3>8
      <4>2. HasAddr(m.code, a) <=> HasAddr(c.code, a)
        BY <2>3, <3>2, <4>1
      <4>3. HasAddr(c.code, a) <=> HasAddr(d.code, a)
        BY <3>6, <4>1 DEF LowSame
      <4> QED BY <4>2, <4>3
    <3>9. far => Late(d.code)
      BY <1>5, <2>2, <2>3, <3>2, <3>6
    <3> HIDE DEF Until
    <3> QED BY <2>3, <3>7, <3>8, <3>9
  <2> HIDE DEF Here
  <2> QED BY <2>3, <2>6, <2>7
<1>8. l \in P
  <2> HIDE DEF P
  <2> QED BY <1>1, <1>6, <1>7, NatSetInduction
<1>9. Here(l)
  BY <1>1, <1>2, <1>8
<1>10. far => Until(l, four)
  BY <1>4, <1>5 DEF PlacesFit
<1>11. Grew(m, r, A, l * g)
  BY <1>2, <1>9
<1>12. far => Late(r.code) /\ (HasAddr(m.code, four) <=> HasAddr(r.code, four))
  BY <1>2, <1>4, <1>9, <1>10
<1> QED BY <1>3, <1>5, <1>11, <1>12

LEMMA OnePlace ==
  ASSUME NEW m, NEW p
  PROVE  FoldLeft(WithPlace, m, <<p>>) = add_instructions(m, p.at, p.call, p.sticky)
<1>1. PICK q, l : q = <<p>> /\ l = 1
  OBVIOUS
<1>2. l \in Nat /\ DOMAIN q = 1 .. l /\ q[1] = p /\ 1 \in 1 .. l /\ 1 - 1 = 0
  BY <1>1
<1>3. PICK k : RunOf("into", m, q, l, k) /\ FoldLeft(WithPlace, m, q) = k[l]
  BY <1>2, IntoFold
<1>4. k[1] = Applied("into", k[0], q[1]) /\ k[0] = m
  BY <1>2, <1>3 DEF RunOf
<1>5. k[1] = WithPlace(m, p)
  BY <1>2, <1>4 DEF Applied
<1> QED BY <1>1, <1>3, <1>5 DEF WithPlace

LEMMA StepCounts ==
  ASSUME NEW m, NEW e, Sized(m, e), Placed(m.code), m.code # <<>>,
         NEW step, step.where \in {"entry", "init", "exits"}, Callish(step.call),
         NEW r, r = Insert(m, step), ~r.ended, NEW A
  PROVE  /\ Grew(m, r, A, Reps(m.code, step.where) * CodeMarks(step.call, A, {}))
         /\ step.where # "entry" => LateGrown(m, r)
<1>1. PICK c, call, g : c = m.code /\ call = step.call /\ g = CodeMarks(step.call, A, {})
  OBVIOUS
<1>2. CodeSound(c) /\ g \in Nat /\ Callish(call)
  BY <1>1, CodeMarksNat DEF Sized, Callish
<1>3. CASE step.where = "entry"
  <2>1. PICK p : p = PlaceOf(0, call, TRUE)
    OBVIOUS
  <2>2. Places(c, step) = <<p>>
    BY <1>1, <1>3, <2>1 DEF Places, AtEntry
  <2>3. r = add_instructions(m, p.at, p.call, p.sticky)
    BY <1>1, <2>2, OnePlace DEF Insert
  <2>4. p.at = 0 /\ p.call = call
    BY <2>1 DEF PlaceOf
  <2>5. HasAddr(c, 0)
    <3>1. PICK n \in Nat : DOMAIN c = 1 .. n
      BY <1>2 DEF CodeSound, Listed
    <3>2. n # 0
      <4>1. PICK S : c \in Seq(S)
        BY <1>2 DEF CodeSound, Listed
      <4> QED BY <1>1, <3>1, <4>1
    <3>3. 1 \in DOMAIN c /\ c[1].addr = 0
      BY <1>1, <3>1, <3>2 DEF Placed
    <3> QED BY <3>3 DEF HasAddr
  <2>6. Grew(m, r, A, g)
    BY <1>1, <1>2, <2>3, <2>4, <2>5, AddCounts
  <2>7. Reps(c, step.where) * g = g
    BY <1>2, <1>3 DEF Reps
  <2> QED BY <1>1, <1>3, <2>6, <2>7
<1>4. CASE step.where = "init"
  <2>1. PICK p : p = PlaceOf(FIRST_ADDRESS_AFTER_INIT, call, TRUE)
    OBVIOUS
  <2>2. Places(c, step) = <<p>>
    BY <1>1, <1>4, <2>1 DEF Places, AfterInit
  <2>3. r = add_instructions(m, p.at, p.call, p.sticky)
    BY <1>1, <2>2, OnePlace DEF Insert
  <2>4. p.at = FIRST_ADDRESS_AFTER_INIT /\ p.call = call /\ p.at \in Int
    BY <2>1 DEF PlaceOf, FIRST_ADDRESS_AFTER_INIT
  <2>5. /\ Grew(m, r, A, IF HasAddr(c, p.at) THEN g ELSE 0)
        /\ LowSame(c, r.code, p.at)
        /\ p.at >= FIRST_ADDRESS_AFTER_INIT /\ Late(c) => Late(r.code)
    BY <1>1, <1>2, <2>3, <2>4, AddCounts
  <2>6. Reps(c, step.where) * g = IF HasAddr(c, p.at) THEN g ELSE 0
    <3>1. Reps(c, step.where) = IF HasAddr(c, p.at) THEN 1 ELSE 0
      BY <1>4, <2>4 DEF Reps
    <3> QED BY <1>2, <3>1
  <2>7. LateGrown(m, r)
    BY <1>1, <2>4, <2>5 DEF LateGrown, LowSame, FIRST_ADDRESS_AFTER_INIT
  <2> QED BY <1>1, <2>5, <2>6, <2>7
<1>5. CASE step.where = "exits"
  <2>1. PICK x : x = get_return_addresses(c)
    OBVIOUS
  <2>2. PICK last \in Int : ExitsOf(c, x, Len(c), last)
    BY <1>1, <1>2, <2>1, ExitsSay
  <2>3. PICK l : l = Len(x)
    OBVIOUS
  <2>4. l \in Nat /\ DOMAIN x = 1 .. l
    BY <2>2, <2>3 DEF ExitsOf, Listed
  <2>5. PICK q : q = [k \in DOMAIN x |-> PlaceOf(x[k], call, k > 1)]
    OBVIOUS
  <2>6. Places(c, step) = q
    BY <1>1, <1>5, <2>1, <2>5 DEF Places, AtExits
  <2>7. DOMAIN q = 1 .. l /\ \A i \in 1 .. l : q[i].at = x[i] /\ q[i].call = call
    BY <2>4, <2>5 DEF PlaceOf
  <2>8. PlacesFit(c, q, l, call)
    BY <2>2, <2>4, <2>7 DEF PlacesFit, ExitsOf
  <2>9. r = FoldLeft(WithPlace, m, q)
    BY <1>1, <2>6 DEF Insert
  <2>10. /\ Grew(m, r, A, l * g)
         /\ Late(c) /\ (\A i \in 1 .. l : q[i].at >= FIRST_ADDRESS_AFTER_INIT) =>
              /\ Late(r.code)
              /\ HasAddr(c, FIRST_ADDRESS_AFTER_INIT) <=> HasAddr(r.code, FIRST_ADDRESS_AFTER_INIT)
    BY <1>1, <1>2, <2>8, <2>9, PlacesCount
  <2>11. Reps(c, step.where) = l
    BY <1>5, <2>2, <2>3 DEF Reps, ExitsOf, CodeMarks
  <2>12. Late(c) => \A i \in 1 .. l : q[i].at >= FIRST_ADDRESS_AFTER_INIT
    BY <2>2, <2>4, <2>7 DEF ExitsOf
  <2>13. LateGrown(m, r)
    BY <1>1, <2>10, <2>12 DEF LateGrown
  <2> QED BY <1>1, <2>10, <2>11, <2>13
<1> QED BY <1>3, <1>4, <1>5
-----------------------------------------------------------------------------
LEMMA RefCall ==
  ASSUME NEW p, NEW h, NEW op, NEW arg, NEW no
  PROVE  <<op, arg, no>> \in RefCalls(p, h) <=> op = "invokestatic" /\ no = 0 /\ MeansRef(p, arg, h)
<1>1. MeansRef(p, arg, h) => arg \in RefArgs(p, h)
  BY DEF MeansRef, Holds, RefArgs
<1>2. arg \in RefArgs(p, h) => MeansRef(p, arg, h)
  BY DEF RefArgs
<1>3. <<op, arg, no>> \in RefCalls(p, h) <=> op = "invokestatic" /\ no = 0 /\ arg \in RefArgs(p, h)
  BY DEF RefCalls
<1> QED BY <1>1, <1>2, <1>3

LEMMA MeansOne ==
  ASSUME NEW p, PoolSound(p), NEW i, NEW a, NEW b, MeansRef(p, i, a), MeansRef(p, i, b)
  PROVE  a.name = b.name
<1>1. PICK c, n, v, w : Holds(p, i, MethodRef(c, n)) /\ Holds(p, n, NameAndType(v, w)) /\ Holds(p, v, Utf8(a.name))
  BY DEF MeansRef
<1>2. PICK d, m, x, y : Holds(p, i, MethodRef(d, m)) /\ Holds(p, m, NameAndType(x, y)) /\ Holds(p, x, Utf8(b.name))
  BY DEF MeansRef
<1>3. n = m
  <2>1. MethodRef(c, n) = MethodRef(d, m)
    BY <1>1, <1>2, OneEntry
  <2>2. MethodRef(c, n).refs[2] = n /\ MethodRef(d, m).refs[2] = m
    BY DEF MethodRef, Entry
  <2> QED BY <2>1, <2>2
<1>4. v = x
  <2>1. NameAndType(v, w) = NameAndType(x, y)
    BY <1>1, <1>2, <1>3, OneEntry
  <2>2. NameAndType(v, w).refs[1] = v /\ NameAndType(x, y).refs[1] = x
    BY DEF NameAndType, Entry
  <2> QED BY <2>1, <2>2
<1>5. Utf8(a.name) = Utf8(b.name)
  BY <1>1, <1>2, <1>4, OneEntry
<1>6. Utf8(a.name).text = a.name /\ Utf8(b.name).text = b.name
  BY DEF Utf8, Entry
<1> QED BY <1>5, <1>6

LEMMA AgentNames ==
  /\ \A a, b \in AgentMethods : a.name = b.name => a = b
  /\ Hooks \subseteq AgentMethods \ {NameMethod, TimeMethod, ThreadMethod}
  /\ \A m \in {NameMethod, TimeMethod, ThreadMethod} : m \in AgentMethods /\ m \notin Hooks
  /\ NameMethod # TimeMethod /\ NameMethod # ThreadMethod
<1>1. /\ HOOK_SIGNAL_DESCRIPTOR.name = "thook" /\ HOOK_TIMER_DESCRIPTOR.name = "timerhook"
      /\ HOOK_MONITOR_HEAP_DESCRIPTOR.name = "heaphook" /\ NameMethod.name = "getName"
      /\ TimeMethod.name = "currentTimeMillis" /\ ThreadMethod.name = "currentThread"
  BY DEF HOOK_SIGNAL_DESCRIPTOR, HOOK_TIMER_DESCRIPTOR, HOOK_MONITOR_HEAP_DESCRIPTOR, NameMethod,
         TimeMethod, ThreadMethod
<1>2. AgentMethods = {HOOK_SIGNAL_DESCRIPTOR, HOOK_TIMER_DESCRIPTOR, HOOK_MONITOR_HEAP_DESCRIPTOR,
                      TimeMethod, ThreadMethod, NameMethod}
  BY DEF AgentMethods
<1>3. \A a, b \in AgentMethods : a.name = b.name => a = b
  BY <1>1, <1>2
<1>4. /\ HOOK_SIGNAL_DESCRIPTOR \notin {NameMethod, TimeMethod, ThreadMethod}
      /\ HOOK_TIMER_DESCRIPTOR \notin {NameMethod, TimeMethod, ThreadMethod}
      /\ HOOK_MONITOR_HEAP_DESCRIPTOR \notin {NameMethod, TimeMethod, ThreadMethod}
  <2>1. \A x \in {NameMethod, TimeMethod, ThreadMethod} : x.name \in {"getName", "currentTimeMillis", "currentThread"}
    BY <1>1
  <2> QED BY <1>1, <2>1
<1>5. NameMethod # TimeMethod /\ NameMethod # ThreadMethod
  BY <1>1
<1> QED BY <1>2, <1>3, <1>4, <1>5 DEF Hooks

LEMMA MarkedAlike ==
  ASSUME NEW code, CodeSound(code), NEW A, NEW B,
         \A j \in DOMAIN code : Marked(code[j], A, {}) <=> Marked(code[j], B, {})
  PROVE  CodeMarks(code, A, {}) = CodeMarks(code, B, {})
<1>1. PICK n \in Nat : DOMAIN code = 1 .. n /\ n = Len(code)
  BY DEF CodeSound, Listed
<1>2. {k \in 1 .. n : Marked(code[k], A, {})} = {k \in 1 .. n : Marked(code[k], B, {})}
  BY <1>1
<1> QED BY <1>1, <1>2 DEF CodeMarks, Marks

(* A pool that grew has the same calls for the code that meant something.  *)
LEMMA CallsLater ==
  ASSUME NEW p, NEW q, PoolSound(p), PoolSound(q), Later(p, q), NEW code, CodeSound(code), CodeMeans(p, code),
         NEW h \in Hooks
  PROVE  CodeMarks(code, RefCalls(p, h), {}) = CodeMarks(code, RefCalls(q, h), {})
<1>1. ASSUME NEW j \in DOMAIN code
      PROVE  Marked(code[j], RefCalls(p, h), {}) <=> Marked(code[j], RefCalls(q, h), {})
  <2>1. PICK op, arg, no : op = code[j].op /\ arg = code[j].arg /\ no = code[j].no
    OBVIOUS
  <2>2. MeansRef(p, arg, h) => MeansRef(q, arg, h)
    BY RefLater
  <2>3. ASSUME op = "invokestatic", no = 0, MeansRef(q, arg, h) PROVE MeansRef(p, arg, h)
    <3>1. PICK m \in AgentMethods \ {NameMethod} : MeansRef(p, arg, m)
      BY <2>1, <2>3 DEF CodeMeans, Means
    <3>2. MeansRef(q, arg, m)
      BY <3>1, RefLater
    <3>3. m.name = h.name
      BY <2>3, <3>2, MeansOne
    <3>4. m = h
      BY <3>1, <3>3, AgentNames
    <3> QED BY <3>1, <3>4
  <2>4. <<op, arg, no>> \in RefCalls(p, h) <=> <<op, arg, no>> \in RefCalls(q, h)
    BY <2>2, <2>3, RefCall
  <2>5. What(code[j]) = <<op, arg, no>>
    BY <2>1 DEF What
  <2> QED BY <2>4, <2>5 DEF Marked
<1>2. PICK A, B : A = RefCalls(p, h) /\ B = RefCalls(q, h)
  OBVIOUS
<1> QED BY <1>1, <1>2, MarkedAlike

(* What is inserted has one call of the hook, and no return.               *)
LEMMA SignalMarks ==
  ASSUME NEW p, PoolSound(p), NEW callTo \in AgentMethods, NEW to, MeansRef(p, to, callTo), NEW h \in Hooks,
         NEW call, call = SignalCall(to)
  PROVE  /\ Callish(call)
         /\ CodeMarks(call, RefCalls(p, h), {}) = IF h = callTo THEN 1 ELSE 0
<1>1. PICK A : A = RefCalls(p, h)
  OBVIOUS
<1>2. CodeSound(call)
  BY SignalCallSound
<1>3. PICK ops, args : ops = <<"aload_0", "invokestatic">> /\ args = <<0, to>>
  OBVIOUS
<1>4. call = Group(ops, args)
  BY <1>3 DEF SignalCall
<1>5. /\ DOMAIN call = 1 .. 2
      /\ call[1] = Instruction("aload_0", 0, 1) /\ call[2] = Instruction("invokestatic", to, 2)
  BY <1>3, <1>4 DEF Group
<1>6. /\ call[1].op = "aload_0" /\ call[2].op = "invokestatic"
      /\ What(call[1]) = <<"aload_0", 0, 0>> /\ What(call[2]) = <<"invokestatic", to, 0>>
  BY <1>5 DEF Instruction, What
<1>7. Callish(call)
  BY <1>2, <1>5, <1>6 DEF Callish, Returns, ValueReturns
<1>8. MeansRef(p, to, h) <=> h = callTo
  BY MeansOne, AgentNames
<1>9. ~Marked(call[1], A, {})
  BY <1>1, <1>6, RefCall DEF Marked
<1>10. Marked(call[2], A, {}) <=> h = callTo
  BY <1>1, <1>6, <1>8, RefCall DEF Marked
<1>11. Marks(call, A, {}, 1) = 0
  BY <1>9, MarksNone, MarksMore
<1>12. Marks(call, A, {}, 2) = IF h = callTo THEN 1 ELSE 0
  BY <1>10, <1>11, MarksMore
<1>13. Len(call) = 2
  <2>1. PICK n \in Nat : DOMAIN call = 1 .. n /\ n = Len(call)
    BY <1>2 DEF CodeSound, Listed
  <2>2. \A x \in Int : x \in 1 .. n <=> x \in 1 .. 2
    BY <1>5, <2>1
  <2>3. 2 \in 1 .. n /\ 3 \notin 1 .. n
    BY <2>2
  <2> QED BY <2>1, <2>3
<1> QED BY <1>1, <1>7, <1>12, <1>13 DEF CodeMarks

LEMMA TimerMarks ==
  ASSUME NEW p, PoolSound(p), NEW callTo \in Hooks, NEW to, MeansRef(p, to, callTo), NEW h \in Hooks,
         NEW which, NEW time, MeansRef(p, time, TimeMethod), NEW thread, MeansRef(p, thread, ThreadMethod),
         NEW getName, NEW call, call = TimerCall(which, time, thread, getName, to)
  PROVE  /\ Callish(call)
         /\ CodeMarks(call, RefCalls(p, h), {}) = IF h = callTo THEN 1 ELSE 0
<1>1. PICK A : A = RefCalls(p, h)
  OBVIOUS
<1>2. CodeSound(call)
  BY TimerCallSound
<1>3. PICK wh : wh = which % 256
  OBVIOUS
<1>4. PICK ops, args : /\ ops = <<"invokestatic", "ldc", "invokestatic", "invokevirtual", "invokestatic">>
                       /\ args = <<time, wh, thread, getName, to>>
  OBVIOUS
<1>5. call = Group(ops, args)
  BY <1>3, <1>4 DEF TimerCall
<1>6. /\ DOMAIN call = 1 .. 5
      /\ call[1] = Instruction("invokestatic", time, 1) /\ call[2] = Instruction("ldc", wh, 2)
      /\ call[3] = Instruction("invokestatic", thread, 3) /\ call[4] = Instruction("invokevirtual", getName, 4)
      /\ call[5] = Instruction("invokestatic", to, 5)
  BY <1>4, <1>5 DEF Group
<1>7. /\ call[1].op = "invokestatic" /\ call[2].op = "ldc" /\ call[3].op = "invokestatic"
      /\ call[4].op = "invokevirtual" /\ call[5].op = "invokestatic"
      /\ What(call[1]) = <<"invokestatic", time, 0>> /\ What(call[2]) = <<"ldc", wh, 0>>
      /\ What(call[3]) = <<"invokestatic", thread, 0>> /\ What(call[4]) = <<"invokevirtual", getName, 0>>
      /\ What(call[5]) = <<"invokestatic", to, 0>>
  BY <1>6 DEF Instruction, What
<1>8. Callish(call)
  <2>1. \A j \in 1 .. 5 : call[j].op \in {"invokestatic", "ldc", "invokevirtual"}
    BY <1>7
  <2> QED BY <1>2, <1>6, <2>1 DEF Callish, Returns, ValueReturns
<1>9. /\ MeansRef(p, to, h) <=> h = callTo
      /\ ~MeansRef(p, time, h) /\ ~MeansRef(p, thread, h)
  BY MeansOne, AgentNames
<1>10. ~Marked(call[1], A, {}) /\ ~Marked(call[2], A, {}) /\ ~Marked(call[3], A, {}) /\ ~Marked(call[4], A, {})
  BY <1>1, <1>7, <1>9, RefCall DEF Marked
<1>11. Marked(call[5], A, {}) <=> h = callTo
  BY <1>1, <1>7, <1>9, RefCall DEF Marked
<1>12. Marks(call, A, {}, 1) = 0
  BY <1>10, MarksNone, MarksMore
<1>13. Marks(call, A, {}, 2) = 0
  BY <1>10, <1>12, MarksMore
<1>14. Marks(call, A, {}, 3) = 0
  BY <1>10, <1>13, MarksMore
<1>15. Marks(call, A, {}, 4) = 0
  BY <1>10, <1>14, MarksMore
<1>16. Marks(call, A, {}, 5) = IF h = callTo THEN 1 ELSE 0
  BY <1>11, <1>15, MarksMore
<1>17. Len(call) = 5
  <2>1. PICK n \in Nat : DOMAIN call = 1 .. n /\ n = Len(call)
    BY <1>2 DEF CodeSound, Listed
  <2>2. \A x \in Int : x \in 1 .. n <=> x \in 1 .. 5
    BY <1>6, <2>1
  <2>3. 5 \in 1 .. n /\ 6 \notin 1 .. n
    BY <2>2
  <2> QED BY <2>1, <2>3
<1> QED BY <1>1, <1>8, <1>16, <1>17 DEF CodeMarks

LEMMA RepsNat ==
  ASSUME NEW code, CodeSound(code), NEW where \in {"entry", "init", "exits"}
  PROVE  Reps(code, where) \in Nat
<1>1. CodeMarks(code, {}, Returns) \in Nat
  BY CodeMarksNat
<1> QED BY <1>1 DEF Reps

LEMMA StepTallies ==
  ASSUME NEW p, NEW m, NEW e, Sized(m, e), NEW rets, NEW v, Tallied(p, m, rets, v), NEW callTo \in Hooks,
         NEW step, step.where \in {"entry", "init", "exits"}, OneCall(p, step.call, callTo),
         NEW r, r = Insert(m, step), ~r.ended,
         NEW u, u = [h \in Hooks |-> v[h] + (IF h = callTo THEN Reps(m.code, step.where) ELSE 0)]
  PROVE  /\ Tallied(p, r, rets, u) /\ Sized(r, e)
         /\ step.where # "entry" => \A four : Constructs(m, four) => Constructs(r, four)
<1>1. PICK g \in Nat : g = Reps(m.code, step.where)
  BY RepsNat DEF Sized
<1>2. Placed(m.code) /\ m.code # <<>> /\ Callish(step.call)
  BY DEF Tallied, OneCall
<1>9. ASSUME NEW A
      PROVE  /\ Grew(m, r, A, Reps(m.code, step.where) * CodeMarks(step.call, A, {}))
             /\ step.where # "entry" => LateGrown(m, r)
  BY <1>2, StepCounts
<1>3. ASSUME NEW h \in Hooks
      PROVE  CodeMarks(r.code, RefCalls(p, h), {}) = v[h] + (IF h = callTo THEN g ELSE 0)
  <2>1. PICK A : A = RefCalls(p, h)
    OBVIOUS
  <2>2. Grew(m, r, A, Reps(m.code, step.where) * CodeMarks(step.call, A, {}))
    BY <1>9
  <2>3. PICK one \in {0, 1} : one = CodeMarks(step.call, A, {}) /\ one = IF h = callTo THEN 1 ELSE 0
    BY <2>1 DEF OneCall
  <2>4. PICK more : more = Reps(m.code, step.where) * CodeMarks(step.call, A, {})
    OBVIOUS
  <2>5. more = g * one
    BY <1>1, <2>3, <2>4
  <2>6. more = IF h = callTo THEN g ELSE 0
    <3>1. CASE one = 0
      BY <2>3, <2>5, <3>1
    <3>2. CASE one = 1
      BY <2>3, <2>5, <3>2
    <3> QED BY <3>1, <3>2
  <2>7. CodeMarks(r.code, A, {}) = CodeMarks(m.code, A, {}) + more
    BY <2>2, <2>4 DEF Grew
  <2>8. CodeMarks(m.code, A, {}) = v[h]
    BY <2>1 DEF Tallied
  <2> QED BY <2>1, <2>6, <2>7, <2>8
<1>4. /\ Placed(r.code) /\ r.code # <<>>
      /\ CodeMarks(r.code, {}, Returns) = rets
  <2>1. Grew(m, r, {}, Reps(m.code, step.where) * CodeMarks(step.call, {}, {}))
    BY <1>9
  <2> QED BY <2>1 DEF Grew, Tallied
<1>5. step.where # "entry" => LateGrown(m, r)
  BY <1>9
<1>6. Tallied(p, r, rets, u)
  <2>1. \A h \in Hooks : u[h] \in Int /\ CodeMarks(r.code, RefCalls(p, h), {}) = u[h]
    BY <1>1, <1>3 DEF Tallied
  <2> QED BY <1>4, <2>1 DEF Tallied
<1>7. Sized(r, e)
  <2>1. StepSound(step)
    BY <1>2 DEF StepSound, Callish
  <2> QED BY <2>1, StepSized
<1>8. step.where # "entry" => \A four : Constructs(m, four) => Constructs(r, four)
  BY <1>5 DEF LateGrown, Constructs
<1> QED BY <1>6, <1>7, <1>8
(* A program that has ended does nothing more.                             *)
LEMMA EndedStays ==
  ASSUME NEW m, NEW n, Sized(m, n), NEW step, StepSound(step), m.ended
  PROVE  Insert(m, step).ended
<1>1. PICK q : q = Places(m.code, step)
  OBVIOUS
<1>2. PICK l \in Nat : DOMAIN q = 1 .. l
  BY <1>1, PlacesSay DEF Sized, Row
<1>3. PICK k : RunOf("into", m, q, l, k) /\ FoldLeft(WithPlace, m, q) = k[l]
  BY <1>2, IntoFold
<1> DEFINE P == {i \in Nat : i <= l => k[i] = m}
<1>4. 0 \in P
  BY <1>3 DEF RunOf
<1>5. ASSUME NEW i \in Nat, i \in P PROVE i + 1 \in P
  <2> SUFFICES ASSUME i + 1 <= l PROVE k[i + 1] = m
    OBVIOUS
  <2>1. i + 1 \in 1 .. l /\ i + 1 - 1 = i /\ i <= l
    OBVIOUS
  <2>2. k[i + 1] = Applied("into", m, q[i + 1])
    BY <1>3, <1>5, <2>1 DEF RunOf
  <2> QED BY <2>2 DEF Applied, WithPlace, add_instructions
<1>6. l \in P
  <2> HIDE DEF P
  <2> QED BY <1>4, <1>5, NatSetInduction
<1> QED BY <1>1, <1>3, <1>6 DEF Insert

LEMMA OneInsert ==
  ASSUME NEW m, NEW s
  PROVE  FoldLeft(Insert, m, <<s>>) = Insert(m, s)
<1>1. PICK q, n : q = <<s>> /\ n = 1
  OBVIOUS
<1>2. n \in Nat /\ DOMAIN q = 1 .. n /\ q[1] = s
  BY <1>1
<1>3. PICK k : RunOf("insert", m, q, n, k) /\ FoldLeft(Insert, m, q) = k[n]
  BY <1>2, InsertFold
<1>4. k[0] = m /\ k[1] = Applied("insert", k[1 - 1], q[1])
  BY <1>1, <1>3 DEF RunOf
<1> QED BY <1>1, <1>2, <1>3, <1>4 DEF Applied

LEMMA TwoInserts ==
  ASSUME NEW m, NEW s, NEW t, NEW q, Pairs(q, s, t), NEW w, Runs(w, m, q)
  PROVE  w = Insert(Insert(m, s), t)
<1>1. PICK n : n = 2
  OBVIOUS
<1>2. n \in Nat /\ DOMAIN q = 1 .. n /\ q[1] = s /\ q[2] = t
  BY <1>1 DEF Pairs
<1>3. PICK k : RunOf("insert", m, q, n, k) /\ FoldLeft(Insert, m, q) = k[n]
  BY <1>2, InsertFold
<1>4. k[0] = m /\ k[1] = Applied("insert", k[1 - 1], q[1]) /\ k[2] = Applied("insert", k[2 - 1], q[2])
  BY <1>1, <1>3 DEF RunOf
<1>5. 1 - 1 = 0 /\ 2 - 1 = 1
  OBVIOUS
<1> QED BY <1>1, <1>2, <1>3, <1>4, <1>5 DEF Applied, Runs

(* The method update_method makes, and what its pool then has.             *)
LEMMA UpdateSays ==
  ASSUME Numerals(Nat), NEW m, NEW pool, NEW file, PoolFits(pool, file), NEW flags,
         NEW callTo \in AgentMethods \ {NameMethod}, NEW r, r = update_method(m, pool, flags, callTo)
  PROVE  /\ PoolFits(r.pool, file) /\ Later(pool, r.pool)
         /\ \E ids : /\ r.method = Raised(FoldLeft(Insert, m, Insertions(flags, ids)), flags)
                     /\ Clear(r.pool, file) => /\ MeansRef(r.pool, ids[1], callTo)
                                               /\ IsTimer(flags) => TimerMeans(r.pool, ids)
<1>1. PICK a : a = [pool |-> pool, ids |-> <<>>]
  OBVIOUS
<1>2. Counted(a, 0) /\ a.pool = pool
  <2>1. <<>> \in Seq({}) /\ Len(<<>>) = 0
    OBVIOUS
  <2> QED BY <1>1, <2>1 DEF Counted, Listed
<1>3. PICK b : b = WithMethod(a, callTo)
  OBVIOUS
<1>4. OneMore(a, b, 0, 1, file) /\ (Clear(b.pool, file) => MeansRef(b.pool, b.ids[1], callTo))
  <2>1. PICK k, l : k = 0 /\ l = 1
    OBVIOUS
  <2>2. k \in Nat /\ l = k + 1 /\ Counted(a, k)
    BY <1>2, <2>1
  <2>3. OneMore(a, b, k, l, file) /\ (Clear(b.pool, file) => MeansRef(b.pool, b.ids[l], callTo))
    BY <1>2, <1>3, <2>2, WithMethodFits
  <2> QED BY <2>1, <2>3
<1>5. PICK c : c = IF IsTimer(flags) THEN AddTimer(b) ELSE b
  OBVIOUS
<1>6. PICK q, ids : q = c.pool /\ ids = c.ids
  OBVIOUS
<1>7. /\ PoolFits(q, file) /\ Later(b.pool, q) /\ ids[1] = b.ids[1]
      /\ Clear(q, file) /\ IsTimer(flags) => TimerMeans(q, ids)
  <2>1. CASE IsTimer(flags)
    BY <1>4, <1>5, <1>6, <2>1, TimerFits DEF OneMore
  <2>2. CASE ~IsTimer(flags)
    BY <1>4, <1>5, <1>6, <2>2, LaterSelf DEF OneMore, PoolFits
  <2> QED BY <2>1, <2>2
<1>8. PICK w : w = Raised(FoldLeft(Insert, m, Insertions(flags, ids)), flags)
  OBVIOUS
<1>9. r.method = w /\ r.pool = q
  BY <1>1, <1>3, <1>5, <1>6, <1>8 DEF update_method
<1>10. Later(pool, q)
  BY <1>2, <1>4, <1>7, LaterOn DEF OneMore, PoolFits
<1>11. Clear(q, file) => MeansRef(q, ids[1], callTo)
  BY <1>4, <1>7, ClearBefore, RefLater
<1> QED BY <1>7, <1>8, <1>9, <1>10, <1>11
LEMMA Ones ==
  ASSUME NEW a, NEW b
  PROVE  /\ <<a>> \o <<>> \o <<>> = <<a>>
         /\ <<>> \o <<a>> \o <<>> = <<a>>
         /\ <<>> \o <<>> \o (<<a>> \o <<b>>) = <<a, b>>
<1>1. PICK S : S = {a, b}
  OBVIOUS
<1>2. <<a>> \in Seq(S) /\ <<b>> \in Seq(S) /\ <<>> \in Seq(S)
  BY <1>1
<1>3. <<a>> \o <<>> = <<a>> /\ <<>> \o <<a>> = <<a>> /\ <<>> \o <<>> = <<>>
  BY <1>2
<1>4. <<a>> \o <<b>> = <<a, b>>
  <2>1. PICK x, y, c : x = <<a>> /\ y = <<b>> /\ c = x \o y
    OBVIOUS
  <2>2. x \in Seq(S) /\ y \in Seq(S) /\ Len(x) = 1 /\ Len(y) = 1 /\ x[1] = a /\ y[1] = b
    BY <1>2, <2>1
  <2>3. /\ c \in Seq(S) /\ Len(c) = 1 + 1
        /\ \A j \in 1 .. 1 : c[j] = x[j]
        /\ \A j \in 1 .. 1 : c[1 + j] = y[j]
    BY <2>1, <2>2, Joined
  <2>4. Len(c) = 2 /\ c[1] = a /\ c[2] = b
    <3>1. 1 \in 1 .. 1 /\ 1 + 1 = 2
      OBVIOUS
    <3> QED BY <2>2, <2>3, <3>1
  <2>5. <<a, b>> \in Seq(S) /\ Len(<<a, b>>) = 2
    BY <1>1
  <2>6. PICK d : d = <<a, b>>
    OBVIOUS
  <2>7. d \in Seq(S) /\ Len(d) = 2 /\ d[1] = a /\ d[2] = b
    BY <2>5, <2>6
  <2>8. \A i \in 1 .. 2 : c[i] = d[i]
    BY <2>4, <2>7
  <2>9. c = d
    BY <2>3, <2>4, <2>7, <2>8, SeqEqual
  <2> QED BY <2>1, <2>6, <2>9
<1>5. PICK c : c = <<a, b>>
  OBVIOUS
<1>6. c \in Seq(S)
  BY <1>1, <1>5
<1>7. <<>> \o c = c
  BY <1>6
<1> QED BY <1>3, <1>4, <1>5, <1>7

LEMMA InsertionsOf ==
  ASSUME NEW flag \in Flags, NEW ids,
         NEW call, call = SignalCall(ids[1]),
         NEW begin, begin = TimerCall(ids[2], ids[4], ids[5], ids[6], ids[1]),
         NEW end, end = TimerCall(ids[3], ids[4], ids[5], ids[6], ids[1]),
         NEW s, s = [where |-> "entry", call |-> begin],
         NEW t, t = [where |-> "exits", call |-> end]
  PROVE  /\ flag = "ENTER" => Insertions({flag}, ids) = <<[where |-> "entry", call |-> call]>>
         /\ flag = "EXIT"  => Insertions({flag}, ids) = <<[where |-> "exits", call |-> call]>>
         /\ flag = "HEAP"  => Insertions({flag}, ids) = <<[where |-> "init", call |-> call]>>
         /\ flag = "TIMER" => Pairs(Insertions({flag}, ids), s, t)
<1>1. PICK init, entry, exits, first, last :
        /\ init  = [where |-> "init", call |-> call]
        /\ entry = [where |-> "entry", call |-> call]
        /\ exits = [where |-> "exits", call |-> call]
        /\ first = [where |-> "entry", call |-> begin]
        /\ last  = [where |-> "exits", call |-> end]
  OBVIOUS
<1>2. /\ IsHeap({flag}) <=> flag = "HEAP"
      /\ IsTimer({flag}) <=> flag = "TIMER"
      /\ "ENTER" \in {flag} <=> flag = "ENTER"
      /\ "EXIT" \in {flag} <=> flag = "EXIT"
  BY DEF IsHeap, IsTimer
<1>3. PICK a, b, c : /\ a = (IF flag = "ENTER" THEN <<entry>> ELSE <<>>)
                     /\ b = (IF flag = "EXIT" THEN <<exits>> ELSE <<>>)
                     /\ c = (IF flag = "TIMER" THEN <<first>> \o <<last>> ELSE <<>>)
  OBVIOUS
<1>4. Insertions({flag}, ids) = (IF flag = "HEAP" THEN <<init>> ELSE a \o b \o c)
  BY <1>1, <1>2, <1>3 DEF Insertions
<1>5. flag = "ENTER" => a \o b \o c = <<entry>>
  BY <1>3, Ones
<1>6. flag = "EXIT" => a \o b \o c = <<exits>>
  BY <1>3, Ones
<1>7. flag = "TIMER" => a \o b \o c = <<first, last>>
  BY <1>3, Ones
<1>8. flag = "TIMER" => Pairs(Insertions({flag}, ids), s, t)
  BY <1>1, <1>4, <1>7 DEF Pairs
<1> QED BY <1>1, <1>4, <1>5, <1>6, <1>8

LEMMA RaisedTallied ==
  ASSUME NEW m, NEW e, Sized(m, e), NEW flags, NEW r, r = Raised(m, flags)
  PROVE  r.code = m.code /\ r.ended = m.ended
<1>1. PICK d : r = [m EXCEPT !.maxStack = d]
  BY DEF Raised
<1> QED BY <1>1 DEF Sized, MethodParts

LEMMA OneCallOfSignal ==
  ASSUME NEW p, PoolSound(p), NEW callTo \in Hooks, NEW to, MeansRef(p, to, callTo)
  PROVE  OneCall(p, SignalCall(to), callTo)
<1>1. callTo \in AgentMethods
  BY AgentNames
<1> QED BY <1>1, SignalMarks DEF OneCall, Hooks

LEMMA OneCallOfTimer ==
  ASSUME NEW p, PoolSound(p), NEW callTo \in Hooks, NEW ids, MeansRef(p, ids[1], callTo), TimerMeans(p, ids),
         NEW i
  PROVE  OneCall(p, TimerCall(ids[i], ids[4], ids[5], ids[6], ids[1]), callTo)
<1>1. PICK which, time, thread, getName, to :
        which = ids[i] /\ time = ids[4] /\ thread = ids[5] /\ getName = ids[6] /\ to = ids[1]
  OBVIOUS
<1>2. MeansRef(p, time, TimeMethod) /\ MeansRef(p, thread, ThreadMethod) /\ MeansRef(p, to, callTo)
  BY <1>1 DEF TimerMeans
<1>3. OneCall(p, TimerCall(which, time, thread, getName, to), callTo)
  BY <1>2, TimerMarks DEF OneCall, Hooks
<1> QED BY <1>1, <1>3

(* The pool of a method that was changed has more in it.                   *)
LEMMA TalliedLater ==
  ASSUME NEW p, NEW q, PoolSound(p), PoolSound(q), Later(p, q), NEW m, NEW e, Sized(m, e), CodeMeans(p, m.code),
         NEW rets, NEW v, Tallied(p, m, rets, v)
  PROVE  Tallied(q, m, rets, v)
<1>1. \A h \in Hooks : CodeMarks(m.code, RefCalls(p, h), {}) = CodeMarks(m.code, RefCalls(q, h), {})
  BY CallsLater DEF Sized
<1> QED BY <1>1 DEF Tallied
Constructing(m, r) == \A four : Constructs(m, four) => Constructs(r, four)

(* The hooks of a timer: one at the entry, one at each exit.               *)
LEMMA TimerTallies ==
  ASSUME NEW p, NEW m, NEW e, Sized(m, e), NEW rets, NEW v, Tallied(p, m, rets, v), NEW callTo \in Hooks,
         NEW first, first.where = "entry", OneCall(p, first.call, callTo),
         NEW last, last.where = "exits", OneCall(p, last.call, callTo),
         NEW x, x = Insert(m, first), NEW w, w = Insert(x, last), ~w.ended,
         NEW u, u = [h \in Hooks |-> v[h] + (IF h = callTo THEN 1 + rets ELSE 0)]
  PROVE  Tallied(p, w, rets, u)
<1>1. StepSound(first) /\ StepSound(last)
  BY DEF StepSound, OneCall, Callish
<1>2. Sized(x, e)
  BY <1>1, StepSized
<1>3. ~x.ended
  BY <1>1, <1>2, EndedStays
<1>4. PICK y : y = [h \in Hooks |-> v[h] + (IF h = callTo THEN Reps(m.code, first.where) ELSE 0)]
  OBVIOUS
<1>5. Tallied(p, x, rets, y)
  BY <1>3, <1>4, StepTallies
<1>6. PICK z : z = [h \in Hooks |-> y[h] + (IF h = callTo THEN Reps(x.code, last.where) ELSE 0)]
  OBVIOUS
<1>7. Tallied(p, w, rets, z)
  BY <1>2, <1>5, <1>6, StepTallies
<1>8. Reps(m.code, first.where) = 1
  BY DEF Reps
<1>9. Reps(x.code, last.where) = rets
  BY <1>5 DEF Reps, Tallied
<1>10. rets \in Nat
  BY CodeMarksNat DEF Tallied, Sized
<1>11. ASSUME NEW h \in Hooks PROVE z[h] = u[h]
  <2>1. y[h] = v[h] + (IF h = callTo THEN 1 ELSE 0)
    BY <1>4, <1>8
  <2>2. z[h] = y[h] + (IF h = callTo THEN rets ELSE 0)
    BY <1>6, <1>9
  <2>3. u[h] = v[h] + (IF h = callTo THEN 1 + rets ELSE 0)
    OBVIOUS
  <2>4. v[h] \in Int
    BY DEF Tallied
  <2> QED BY <1>10, <2>1, <2>2, <2>3, <2>4
<1>12. z = u
  BY <1>6, <1>11
<1> QED BY <1>7, <1>12

(* What update_method adds to the calls of a method.                       *)
LEMMA UpdateTallies ==
  ASSUME Numerals(Nat), NEW m, NEW e, Sized(m, e), NEW pool, NEW file, PoolFits(pool, file),
         NEW flag \in Flags, NEW r, r = update_method(m, pool, {flag}, HookFor(flag)), ~r.method.ended,
         Clear(r.pool, file), CodeMeans(pool, m.code), NEW rets, NEW v, Tallied(pool, m, rets, v),
         NEW four, flag = "HEAP" => Constructs(m, four),
         NEW u, u = [h \in Hooks |-> v[h] + (IF h = HookFor(flag) THEN Adds(flag, rets, four) ELSE 0)]
  PROVE  /\ Tallied(r.pool, r.method, rets, u)
         /\ flag \in {"EXIT", "HEAP"} => Constructing(m, r.method)
<1>1. PICK callTo : callTo = HookFor(flag)
  OBVIOUS
<1>2. callTo \in Hooks /\ callTo \in AgentMethods \ {NameMethod}
  BY <1>1, AgentNames DEF HookFor, Flags, Hooks
<1>3. /\ PoolFits(r.pool, file) /\ Later(pool, r.pool)
      /\ \E ids : /\ r.method = Raised(FoldLeft(Insert, m, Insertions({flag}, ids)), {flag})
                  /\ Clear(r.pool, file) => /\ MeansRef(r.pool, ids[1], callTo)
                                            /\ IsTimer({flag}) => TimerMeans(r.pool, ids)
  BY <1>1, <1>2, UpdateSays
<1>4. PICK ids : /\ r.method = Raised(FoldLeft(Insert, m, Insertions({flag}, ids)), {flag})
                 /\ MeansRef(r.pool, ids[1], callTo)
                 /\ IsTimer({flag}) => TimerMeans(r.pool, ids)
  BY <1>3
<1>5. PICK q : q = r.pool
  OBVIOUS
<1>6. PoolSound(pool) /\ PoolSound(q)
  BY <1>3, <1>5 DEF PoolFits
<1>7. Tallied(q, m, rets, v)
  BY <1>3, <1>5, <1>6, TalliedLater
<1>8. PICK w : w = FoldLeft(Insert, m, Insertions({flag}, ids))
  OBVIOUS
<1>9. PICK call, begin, end : /\ call = SignalCall(ids[1])
                              /\ begin = TimerCall(ids[2], ids[4], ids[5], ids[6], ids[1])
                              /\ end = TimerCall(ids[3], ids[4], ids[5], ids[6], ids[1])
  OBVIOUS
<1>10. OneCall(q, call, callTo)
  BY <1>2, <1>4, <1>5, <1>6, <1>9, OneCallOfSignal
<1>11. rets \in Nat /\ CodeSound(m.code) /\ rets = CodeMarks(m.code, {}, Returns)
  BY <1>7, CodeMarksNat DEF Tallied, Sized
<1>12. ASSUME NEW where \in {"entry", "init", "exits"}, NEW c, OneCall(q, c, callTo)
       PROVE  StepSound([where |-> where, call |-> c])
  BY <1>12 DEF StepSound, OneCall, Callish
<1>13. ASSUME NEW where \in {"entry", "init", "exits"},
              w = FoldLeft(Insert, m, <<[where |-> where, call |-> call]>>),
              Reps(m.code, where) = Adds(flag, rets, four)
       PROVE  /\ Sized(w, e)
              /\ ~w.ended => Tallied(q, w, rets, u) /\ (where # "entry" => Constructing(m, w))
  <2>1. PICK step : step = [where |-> where, call |-> call]
    OBVIOUS
  <2>2. step.where = where /\ step.call = call /\ StepSound(step)
    BY <1>10, <1>12, <2>1
  <2>3. w = Insert(m, step)
    BY <1>13, <2>1, OneInsert
  <2>4. Sized(w, e)
    BY <2>2, <2>3, StepSized
  <2>5. ASSUME ~w.ended
        PROVE  Tallied(q, w, rets, u) /\ (where # "entry" => Constructing(m, w))
    <3>1. u = [h \in Hooks |-> v[h] + (IF h = callTo THEN Reps(m.code, step.where) ELSE 0)]
      BY <1>1, <1>13, <2>2
    <3>2. step.where \in {"entry", "init", "exits"} /\ OneCall(q, step.call, callTo)
      BY <1>10, <2>2
    <3>3. /\ Tallied(q, w, rets, u)
          /\ step.where # "entry" => \A x : Constructs(m, x) => Constructs(w, x)
      BY <1>2, <1>7, <2>3, <2>5, <3>1, <3>2, StepTallies
    <3> QED BY <2>2, <3>3 DEF Constructing
  <2> QED BY <2>4, <2>5
<1>14. /\ Sized(w, e)
       /\ ~w.ended => Tallied(q, w, rets, u) /\ (flag \in {"EXIT", "HEAP"} => Constructing(m, w))
  <2>1. CASE flag = "ENTER"
    <3>1. Insertions({flag}, ids) = <<[where |-> "entry", call |-> call]>>
      BY <1>9, <2>1, InsertionsOf
    <3>2. Reps(m.code, "entry") = Adds(flag, rets, four)
      BY <2>1 DEF Reps, Adds
    <3> QED BY <1>8, <1>13, <2>1, <3>1, <3>2
  <2>2. CASE flag = "EXIT"
    <3>1. Insertions({flag}, ids) = <<[where |-> "exits", call |-> call]>>
      BY <1>9, <2>2, InsertionsOf
    <3>2. Reps(m.code, "exits") = Adds(flag, rets, four)
      BY <1>11, <2>2 DEF Reps, Adds
    <3> QED BY <1>8, <1>13, <2>2, <3>1, <3>2
  <2>3. CASE flag = "HEAP"
    <3>1. Insertions({flag}, ids) = <<[where |-> "init", call |-> call]>>
      BY <1>9, <2>3, InsertionsOf
    <3>2. Reps(m.code, "init") = Adds(flag, rets, four)
      BY <2>3 DEF Reps, Adds, Constructs
    <3> QED BY <1>8, <1>13, <2>3, <3>1, <3>2
  <2>4. CASE flag = "TIMER"
    <3>1. PICK first, last : first = [where |-> "entry", call |-> begin] /\ last = [where |-> "exits", call |-> end]
      OBVIOUS
    <3>2. PICK steps : steps = Insertions({flag}, ids)
      OBVIOUS
    <3>3. Pairs(steps, first, last)
      BY <1>9, <2>4, <3>1, <3>2, InsertionsOf
    <3>4. PICK x : x = Insert(m, first)
      OBVIOUS
    <3>5. w = Insert(x, last)
      <4>1. Runs(w, m, steps)
        BY <1>8, <3>2 DEF Runs
      <4>2. w = Insert(Insert(m, first), last)
        BY <3>3, <4>1, TwoInserts
      <4> QED BY <3>4, <4>2
    <3>6. IsTimer({flag})
      BY <2>4 DEF IsTimer, IsHeap
    <3>7. OneCall(q, begin, callTo) /\ OneCall(q, end, callTo)
      BY <1>2, <1>4, <1>5, <1>6, <1>9, <3>6, OneCallOfTimer
    <3>8. /\ first.where = "entry" /\ first.call = begin /\ StepSound(first)
          /\ last.where = "exits" /\ last.call = end /\ StepSound(last)
      BY <1>12, <3>1, <3>7
    <3>9. Sized(x, e) /\ Sized(w, e)
      BY <3>4, <3>5, <3>8, StepSized
    <3>10. Adds(flag, rets, four) = 1 + rets
      BY <2>4 DEF Adds
    <3>11. u = [h \in Hooks |-> v[h] + (IF h = callTo THEN 1 + rets ELSE 0)]
      BY <1>1, <3>10
    <3>12. OneCall(q, first.call, callTo) /\ OneCall(q, last.call, callTo)
      BY <3>7, <3>8
    <3>13. ASSUME ~w.ended PROVE Tallied(q, w, rets, u)
      BY <1>2, <1>7, <3>4, <3>5, <3>8, <3>11, <3>12, <3>13, TimerTallies
    <3> QED BY <2>4, <3>9, <3>13
  <2> QED BY <2>1, <2>2, <2>3, <2>4 DEF Flags
<1>15. r.method.code = w.code /\ r.method.ended = w.ended
  BY <1>4, <1>8, <1>14, RaisedTallied
<1>16. Tallied(q, w, rets, u) /\ (flag \in {"EXIT", "HEAP"} => Constructing(m, w))
  BY <1>14, <1>15
<1>17. Tallied(q, r.method, rets, u)
  BY <1>15, <1>16 DEF Tallied
<1>18. flag \in {"EXIT", "HEAP"} => Constructing(m, r.method)
  BY <1>15, <1>16 DEF Constructing, Constructs
<1> QED BY <1>5, <1>17, <1>18

LEMMA ExitsSame ==
  ASSUME NEW n \in Nat, NEW c, NEW d, DOMAIN c = 1 .. n, DOMAIN d = 1 .. n,
         \A j \in 1 .. n : c[j].op = d[j].op /\ c[j].addr = d[j].addr
  PROVE  get_return_addresses(c) = get_return_addresses(d)
<1>1. PICK base : base = [last |-> 0, exits |-> <<>>]
  OBVIOUS
<1>2. PICK k : RunOf("exit", base, c, n, k) /\ FoldLeft(WithExit, base, c) = k[n]
  BY ExitFold
<1>3. PICK l : RunOf("exit", base, d, n, l) /\ FoldLeft(WithExit, base, d) = l[n]
  BY ExitFold
<1> DEFINE P == {i \in Nat : i <= n => k[i] = l[i]}
<1>4. 0 \in P
  BY <1>2, <1>3 DEF RunOf
<1>5. ASSUME NEW i \in Nat, i \in P PROVE i + 1 \in P
  <2> SUFFICES ASSUME i + 1 <= n PROVE k[i + 1] = l[i + 1]
    OBVIOUS
  <2>1. i + 1 \in 1 .. n /\ i + 1 - 1 = i /\ i <= n
    OBVIOUS
  <2>2. k[i + 1] = Applied("exit", k[i], c[i + 1]) /\ l[i + 1] = Applied("exit", l[i], d[i + 1])
    BY <1>2, <1>3, <2>1 DEF RunOf
  <2>3. PICK acc, a, b : acc = k[i] /\ a = c[i + 1] /\ b = d[i + 1]
    OBVIOUS
  <2>4. k[i + 1] = WithExit(acc, a) /\ l[i + 1] = WithExit(acc, b)
    BY <1>5, <2>1, <2>2, <2>3 DEF Applied
  <2>5. a.op = b.op /\ a.addr = b.addr
    BY <2>1, <2>3
  <2>6. WithExit(acc, a) = WithExit(acc, b)
    BY <2>5 DEF WithExit, ExitAt
  <2> QED BY <2>4, <2>6
<1>6. n \in P
  <2> HIDE DEF P
  <2> QED BY <1>4, <1>5, NatSetInduction
<1>7. k[n] = l[n]
  BY <1>6
<1> QED BY <1>1, <1>2, <1>3, <1>7 DEF get_return_addresses

(* Code in which every instruction has a number calls none of them.        *)
LEMMA NumberedCallsNone ==
  ASSUME NEW code, CodeSound(code), \A j \in DOMAIN code : code[j].no # 0, NEW p, NEW h
  PROVE  CodeMarks(code, RefCalls(p, h), {}) = 0
<1>1. ASSUME NEW j \in DOMAIN code PROVE ~Marked(code[j], RefCalls(p, h), {})
  BY RefCall DEF Marked, What
<1>2. PICK n \in Nat : DOMAIN code = 1 .. n /\ n = Len(code)
  BY DEF CodeSound, Listed
<1>3. {k \in 1 .. n : Marked(code[k], RefCalls(p, h), {})} = {}
  BY <1>1, <1>2
<1> QED BY <1>2, <1>3, FS_EmptySet DEF CodeMarks, Marks

LEMMA LoadedTallied ==
  ASSUME NEW x, IsMethodFile(x), MethodFate(x) = "running", x.hasCode, NEW p,
         NEW v, v = [h \in Hooks |-> 0]
  PROVE  HookedAs(p, load_method(x), x, v)
<1>1. CodeKnown(x) /\ InStep(x) /\ IsCode(x)
  BY DEF MethodFate, IsMethodFile
<1>2. PICK n \in Nat : DOMAIN x.code = 1 .. n
  <2>1. InRow(x.code)
    BY DEF IsMethodFile
  <2> QED BY <2>1 DEF InRow
<1>3. PICK m, code : m = load_method(x) /\ code = m.code
  OBVIOUS
<1>4. /\ code = [i \in DOMAIN x.code |-> load_instruction(x.code[i])]
      /\ ~m.ended
  BY <1>3 DEF load_method, MethodInfo
<1>5. CodeSound(code)
  BY <1>3, LoadedSized DEF Sized
<1>6. ASSUME NEW j \in 1 .. n
      PROVE  /\ code[j].op = x.code[j].op /\ code[j].addr = x.code[j].addr /\ code[j].no # 0
             /\ Size(code[j]) = x.code[j].bytes /\ x.code[j] \in ToSet(x.code)
  <2>1. code[j] = load_instruction(x.code[j]) /\ x.code[j] \in ToSet(x.code)
    BY <1>2, <1>4 DEF ToSet
  <2>2. x.code[j].no # 0
    BY <2>1 DEF IsMethodFile
  <2>3. Size(code[j]) = x.code[j].bytes
    BY <1>1, <1>2, <2>1 DEF InStep
  <2> QED BY <2>1, <2>2, <2>3 DEF load_instruction
<1>7. DOMAIN code = 1 .. n
  BY <1>2, <1>4
<1>8. code # <<>> /\ Placed(code)
  <2>1. x.code # <<>>
    BY <1>1 DEF IsCode
  <2>2. n # 0
    <3>1. x.code \in Seq(ToSet(x.code))
      BY DEF IsMethodFile, InRow
    <3> QED BY <1>2, <2>1, <3>1
  <2>3. code # <<>>
    BY <1>7, <2>2
  <2>4. ASSUME NEW k \in 1 .. n PROVE code[k].addr = IF k = 1 THEN 0 ELSE After(code[k - 1])
    <3>1. x.code[k].addr = IF k = 1 THEN 0 ELSE x.code[k - 1].addr + x.code[k - 1].bytes
      BY <1>1, <1>2 DEF IsCode
    <3>2. k # 1 => k - 1 \in 1 .. n
      OBVIOUS
    <3> QED BY <1>6, <3>1, <3>2 DEF After
  <2> QED BY <1>7, <2>3, <2>4 DEF Placed
<1>9. FileExits(x) = get_return_addresses(code)
  BY <1>2, <1>6, <1>7, ExitsSame DEF FileExits
<1>10. CodeMarks(code, {}, Returns) = Len(FileExits(x))
  <2>1. PICK y : y = get_return_addresses(code)
    OBVIOUS
  <2>2. PICK last \in Int : ExitsOf(code, y, Len(code), last)
    BY <1>5, <1>8, <2>1, ExitsSay
  <2> QED BY <1>9, <2>1, <2>2 DEF ExitsOf, CodeMarks
<1>11. \A h \in Hooks : v[h] \in Int /\ CodeMarks(code, RefCalls(p, h), {}) = v[h]
  BY <1>5, <1>6, <1>7, NumberedCallsNone
<1>12. Tallied(p, m, Len(FileExits(x)), v)
  BY <1>3, <1>4, <1>8, <1>10, <1>11 DEF Tallied
<1>13. ASSUME Constructor(x.key) PROVE Constructs(m, CallsSuperFirst(x))
  <2>1. Late(code)
    <3>1. \A i \in ToSet(x.code) : i.op \in Returns => i.op = "return" /\ i.addr >= 4
      BY <1>1, <1>13 DEF IsCode, Constructor
    <3> QED BY <1>6, <1>7, <3>1 DEF Late, FIRST_ADDRESS_AFTER_INIT
  <2>2. HasAddr(code, 4) <=> CallsSuperFirst(x)
    <3>1. CallsSuperFirst(x) => \E j \in 1 .. n : x.code[j].addr = 4
      BY <1>2 DEF CallsSuperFirst, ToSet
    <3>2. HasAddr(code, 4) => \E j \in 1 .. n : x.code[j].addr = 4 /\ x.code[j] \in ToSet(x.code)
      BY <1>6, <1>7 DEF HasAddr
    <3>3. HasAddr(code, 4) => CallsSuperFirst(x)
      BY <3>2 DEF CallsSuperFirst
    <3>4. CallsSuperFirst(x) => HasAddr(code, 4)
      BY <1>6, <1>7, <3>1 DEF HasAddr
    <3> QED BY <3>3, <3>4
  <2> QED BY <1>3, <2>1, <2>2 DEF Constructs, FIRST_ADDRESS_AFTER_INIT
<1> QED BY <1>3, <1>12, <1>13 DEF HookedAs
-----------------------------------------------------------------------------
LEMMA NamedCalls ==
  ASSUME NEW f, NEW s, SignalFit(s), ByName(s), NEW q, q = CallsFor(f, s)
  PROVE  CallsSay(f, s, q)
<1>1. PICK flag \in Flags : s.flags = {flag}
  BY DEF SignalFit
<1>2. ASSUME NEW key PROVE AskOf(s, key) = IF s.name = key THEN {flag} ELSE {}
  BY <1>1 DEF AskOf
<1>3. CASE ~Matches(f, s)
  <2>1. q = <<>>
    BY <1>3 DEF CallsFor
  <2>2. s.name \notin DOMAIN f.methods
    BY <1>3 DEF Matches, has_method
  <2> QED BY <1>2, <2>1, <2>2 DEF CallsSay, OnlyOnce
<1>4. CASE Matches(f, s)
  <2>1. PICK call : call = CallIn(s.name, HookOf(s), s.flags)
    OBVIOUS
  <2>2. q = <<call>>
    BY <1>4, <2>1 DEF CallsFor
  <2>3. DOMAIN q = {1} /\ q[1] = call
    BY <2>2
  <2>4. call.key = s.name /\ call.callTo = HookOf(s) /\ call.flags = {flag}
    BY <1>1, <2>1 DEF CallIn
  <2>5. flag # "HEAP"
    BY <1>1 DEF ByName, monitor_heap
  <2>6. HookOf(s) = HookFor(flag)
    BY <1>1, <2>5 DEF HookOf, HookFor, Flags
  <2>7. ~Constructor(call.key)
    BY <2>4 DEF Constructor, SignalFit
  <2>8. CallFits(s, call)
    BY <1>2, <2>4, <2>5, <2>6, <2>7 DEF CallFits
  <2> QED BY <1>2, <2>3, <2>4, <2>8 DEF CallsSay, OnlyOnce
<1> QED BY <1>3, <1>4

LEMMA Covered ==
  ASSUME NEW q, NEW n, NEW S, Covers(q, n, S), NEW x \in S
  PROVE  \E i \in 1 .. n : q[i] = x
BY DEF Covers

(* A set as a sequence: each of its elements, once.                        *)
LEMMA SetEach ==
  ASSUME NEW S, IsFiniteSet(S)
  PROVE  \E n \in Nat : /\ DOMAIN SetToSeq(S) = 1 .. n
                        /\ \A i \in 1 .. n : SetToSeq(S)[i] \in S
                        /\ \A i, j \in 1 .. n : SetToSeq(S)[i] = SetToSeq(S)[j] => i = j
                        /\ Covers(SetToSeq(S), n, S)
<1>1. PICK q : q = SetToSeq(S)
  OBVIOUS
<1>2. PICK n \in Nat : q \in [1 .. n -> S] /\ IsInjective(q) /\ n = Cardinality(S)
  BY <1>1, SetListed
<1>3. q \in Injection(1 .. n, S)
  BY <1>2 DEF Injection
<1>4. Cardinality(1 .. n) = n
  BY FS_Interval
<1>5. q \in Surjection(1 .. n, S)
  BY <1>2, <1>3, <1>4, FS_Injection
<1>6. Covers(q, n, S)
  BY <1>2, <1>5 DEF Surjection, Covers
<1>7. \A i, j \in 1 .. n : q[i] = q[j] => i = j
  BY <1>2 DEF IsInjective
<1> QED BY <1>1, <1>2, <1>6, <1>7

LEMMA StarCalls ==
  ASSUME NEW f, IsFiniteSet(DOMAIN f.methods), NEW s, SignalFit(s), ~ByName(s), all(s), NEW q, q = CallsFor(f, s)
  PROVE  CallsSay(f, s, q)
<1>1. PICK flag \in Flags : s.flags = {flag}
  BY DEF SignalFit
<1>2. flag \in {"ENTER", "EXIT"}
  <2>1. s.name.name = "*"
    <3>1. s.name = All /\ All.name = "*"
      BY DEF all, All
    <3> QED BY <3>1
  <2>2. NoName.name = ""
    BY DEF NoName
  <2>3. flag # "HEAP"
    BY <1>1, <2>1, <2>2 DEF SignalFit
  <2> QED BY <1>1, <2>3 DEF ByName, Flags
<1>3. IsFiniteSet(Hookable(f))
  <2>1. Hookable(f) \subseteq DOMAIN f.methods
    BY DEF Hookable
  <2> QED BY <2>1, FS_Subset
<1>4. PICK keys : keys = Descriptors(f)
  OBVIOUS
<1>5. PICK n \in Nat : /\ DOMAIN keys = 1 .. n
                       /\ \A i \in 1 .. n : keys[i] \in Hookable(f)
                       /\ \A i, j \in 1 .. n : keys[i] = keys[j] => i = j
                       /\ Covers(keys, n, Hookable(f))
  BY <1>3, <1>4, SetEach DEF Descriptors
<1>6. q = add_hooks_to_all_methods(keys, s)
  <2>1. Matches(f, s)
    BY DEF Matches
  <2> QED BY <1>4, <2>1 DEF CallsFor
<1>7. /\ DOMAIN q = 1 .. n
      /\ \A i \in 1 .. n : /\ q[i].key = keys[i] /\ q[i].callTo = HOOK_SIGNAL_DESCRIPTOR
                           /\ q[i].flags = IF Constructor(keys[i]) THEN {"EXIT"} ELSE {flag}
  <2>1. DOMAIN q = 1 .. n
    BY <1>5, <1>6 DEF add_hooks_to_all_methods
  <2>2. ASSUME NEW i \in 1 .. n
        PROVE  /\ q[i].key = keys[i] /\ q[i].callTo = HOOK_SIGNAL_DESCRIPTOR
               /\ q[i].flags = IF Constructor(keys[i]) THEN {"EXIT"} ELSE {flag}
    <3>1. q[i] = CallIn(keys[i], HOOK_SIGNAL_DESCRIPTOR, IF Constructor(keys[i]) THEN {"EXIT"} ELSE s.flags)
      BY <1>5, <1>6 DEF add_hooks_to_all_methods
    <3> QED BY <1>1, <3>1 DEF CallIn
  <2> QED BY <2>1, <2>2
<1>8. ASSUME NEW key PROVE AskOf(s, key) = IF Skipped(key) THEN {} ELSE IF Constructor(key) THEN {"EXIT"} ELSE {flag}
  BY <1>1 DEF AskOf
<1>9. ASSUME NEW i \in 1 .. n PROVE CallFits(s, q[i])
  <2>1. ~Skipped(keys[i])
    BY <1>5 DEF Hookable
  <2>2. PICK call : call = q[i]
    OBVIOUS
  <2>3. PICK w : w = IF Constructor(keys[i]) THEN "EXIT" ELSE flag
    OBVIOUS
  <2>4. /\ w \in Flags /\ call.flags = {w} /\ call.callTo = HookFor(w) /\ AskOf(s, call.key) = {w}
        /\ Constructor(call.key) => w = "EXIT"
        /\ w # "HEAP"
    BY <1>2, <1>7, <1>8, <2>1, <2>2, <2>3 DEF HookFor, Flags
  <2> QED BY <2>2, <2>4 DEF CallFits
<1>10. OnlyOnce(q)
  BY <1>5, <1>7 DEF OnlyOnce
<1>11. ASSUME NEW key \in DOMAIN f.methods, AskOf(s, key) # {} PROVE \E i \in DOMAIN q : q[i].key = key
  <2>1. key \in Hookable(f)
    BY <1>8, <1>11 DEF Hookable
  <2>2. PICK i \in 1 .. n : keys[i] = key
    BY <1>5, <2>1, Covered
  <2> QED BY <1>7, <2>2
<1> QED BY <1>7, <1>9, <1>10, <1>11 DEF CallsSay

LEMMA HeapCalls ==
  ASSUME NEW f, IsFiniteSet(DOMAIN f.methods), NEW s, SignalFit(s), ~ByName(s), ~all(s), NEW q, q = CallsFor(f, s)
  PROVE  CallsSay(f, s, q)
<1>1. PICK flag \in Flags : s.flags = {flag}
  BY DEF SignalFit
<1>2. flag = "HEAP"
  BY <1>1 DEF ByName, monitor_heap
<1>3. PICK S : S = {key \in Hookable(f) : Constructor(key)}
  OBVIOUS
<1>4. IsFiniteSet(S)
  <2>1. S \subseteq DOMAIN f.methods
    BY <1>3 DEF Hookable
  <2> QED BY <2>1, FS_Subset
<1>5. PICK keys : keys = SetToSeq(S)
  OBVIOUS
<1>6. PICK n \in Nat : /\ DOMAIN keys = 1 .. n
                       /\ \A i \in 1 .. n : keys[i] \in S
                       /\ \A i, j \in 1 .. n : keys[i] = keys[j] => i = j
                       /\ Covers(keys, n, S)
  BY <1>4, <1>5, SetEach
<1>7. q = add_hooks_to_all_constructors(keys, s)
  <2>1. Matches(f, s)
    BY DEF Matches
  <2> QED BY <1>3, <1>5, <2>1 DEF CallsFor, Constructors
<1>8. /\ DOMAIN q = 1 .. n
      /\ \A i \in 1 .. n : /\ q[i].key = keys[i] /\ q[i].callTo = HOOK_MONITOR_HEAP_DESCRIPTOR
                           /\ q[i].flags = {flag}
  BY <1>1, <1>6, <1>7 DEF add_hooks_to_all_constructors, CallIn
<1>9. ASSUME NEW key PROVE AskOf(s, key) = IF Constructor(key) /\ ~Skipped(key) THEN {flag} ELSE {}
  BY <1>1 DEF AskOf
<1>10. ASSUME NEW i \in 1 .. n PROVE CallFits(s, q[i])
  <2>1. ~Skipped(keys[i]) /\ Constructor(keys[i])
    BY <1>3, <1>6 DEF Hookable
  <2>2. PICK call : call = q[i]
    OBVIOUS
  <2>3. /\ call.flags = {flag} /\ call.callTo = HookFor(flag) /\ AskOf(s, call.key) = {flag}
        /\ Constructor(call.key)
    BY <1>2, <1>8, <1>9, <2>1, <2>2 DEF HookFor
  <2> QED BY <1>2, <2>2, <2>3 DEF CallFits
<1>11. OnlyOnce(q)
  BY <1>6, <1>8 DEF OnlyOnce
<1>12. ASSUME NEW key \in DOMAIN f.methods, AskOf(s, key) # {} PROVE \E i \in DOMAIN q : q[i].key = key
  <2>1. key \in S
    BY <1>3, <1>9, <1>12 DEF Hookable
  <2>2. PICK i \in 1 .. n : keys[i] = key
    BY <1>6, <2>1, Covered
  <2> QED BY <1>8, <2>2
<1> QED BY <1>8, <1>10, <1>11, <1>12 DEF CallsSay

LEMMA CallsOfSignal ==
  ASSUME NEW f, IsFiniteSet(DOMAIN f.methods), NEW s, SignalFit(s), NEW q, q = CallsFor(f, s)
  PROVE  CallsSay(f, s, q)
BY NamedCalls, StarCalls, HeapCalls
-----------------------------------------------------------------------------
LEMMA ThreeHooks ==
  /\ HOOK_SIGNAL_DESCRIPTOR # HOOK_TIMER_DESCRIPTOR
  /\ HOOK_SIGNAL_DESCRIPTOR # HOOK_MONITOR_HEAP_DESCRIPTOR
  /\ HOOK_TIMER_DESCRIPTOR # HOOK_MONITOR_HEAP_DESCRIPTOR
<1>1. /\ HOOK_SIGNAL_DESCRIPTOR.name = "thook" /\ HOOK_TIMER_DESCRIPTOR.name = "timerhook"
      /\ HOOK_MONITOR_HEAP_DESCRIPTOR.name = "heaphook"
  BY DEF HOOK_SIGNAL_DESCRIPTOR, HOOK_TIMER_DESCRIPTOR, HOOK_MONITOR_HEAP_DESCRIPTOR
<1> QED BY <1>1

LEMMA ExtraOfOne ==
  ASSUME NEW flag \in Flags, NEW h \in Hooks, NEW rets \in Nat, NEW four
  PROVE  Extra({flag}, h, rets, four) = IF h = HookFor(flag) THEN Adds(flag, rets, four) ELSE 0
<1>1. PICK a, b, c : a = HOOK_SIGNAL_DESCRIPTOR /\ b = HOOK_TIMER_DESCRIPTOR /\ c = HOOK_MONITOR_HEAP_DESCRIPTOR
  OBVIOUS
<1>2. a # b /\ a # c /\ b # c /\ h \in {a, b, c}
  BY <1>1, ThreeHooks DEF Hooks
<1>3. HookFor(flag) = CASE flag = "TIMER" -> b [] flag = "HEAP" -> c [] flag \in {"ENTER", "EXIT"} -> a
  BY <1>1 DEF HookFor
<1>4. /\ h = a => Extra({flag}, h, rets, four) = (IF "ENTER" = flag THEN 1 ELSE 0) + (IF "EXIT" = flag THEN rets ELSE 0)
      /\ h = b => Extra({flag}, h, rets, four) = IF "TIMER" = flag THEN 1 + rets ELSE 0
      /\ h = c => Extra({flag}, h, rets, four) = IF "HEAP" = flag /\ four THEN 1 ELSE 0
  BY <1>1, <1>2 DEF Extra
<1>5. CASE flag = "ENTER"
  BY <1>2, <1>3, <1>4, <1>5 DEF Adds
<1>6. CASE flag = "EXIT"
  BY <1>2, <1>3, <1>4, <1>6 DEF Adds
<1>7. CASE flag = "TIMER"
  BY <1>2, <1>3, <1>4, <1>7 DEF Adds
<1>8. CASE flag = "HEAP"
  BY <1>2, <1>3, <1>4, <1>8 DEF Adds
<1> QED BY <1>5, <1>6, <1>7, <1>8 DEF Flags

LEMMA ExtraOfNone ==
  ASSUME NEW h \in Hooks, NEW rets, NEW four
  PROVE  Extra({}, h, rets, four) = 0
BY ThreeHooks DEF Extra, Hooks

(* A program that ended in a method is not taken up again by a later hook. *)
LEMMA UpdateStays ==
  ASSUME Numerals(Nat), NEW m, NEW e, Sized(m, e), NEW pool, NEW file, PoolFits(pool, file), NEW flags,
         NEW callTo \in AgentMethods \ {NameMethod}, NEW r, r = update_method(m, pool, flags, callTo), ~r.method.ended
  PROVE  ~m.ended
<1>1. PICK ids : r.method = Raised(FoldLeft(Insert, m, Insertions(flags, ids)), flags)
  BY UpdateSays
<1>2. PICK q, w : q = Insertions(flags, ids) /\ w = FoldLeft(Insert, m, q)
  OBVIOUS
<1>3. PICK S : q \in Seq(S) /\ \A step \in S : StepSound(step)
  BY <1>2, InsertionsSound DEF StepsSound
<1>4. PICK l \in Nat : DOMAIN q = 1 .. l
  BY <1>3
<1>5. PICK k : RunOf("insert", m, q, l, k) /\ FoldLeft(Insert, m, q) = k[l]
  BY <1>4, InsertFold
<1> DEFINE P == {i \in Nat : i <= l => Sized(k[i], e) /\ (m.ended => k[i].ended)}
<1>6. 0 \in P
  BY <1>5 DEF RunOf
<1>7. ASSUME NEW i \in Nat, i \in P PROVE i + 1 \in P
  <2> SUFFICES ASSUME i + 1 <= l PROVE Sized(k[i + 1], e) /\ (m.ended => k[i + 1].ended)
    OBVIOUS
  <2>1. i + 1 \in 1 .. l /\ i + 1 - 1 = i /\ i <= l
    OBVIOUS
  <2>2. k[i + 1] = Applied("insert", k[i], q[i + 1])
    BY <1>5, <2>1 DEF RunOf
  <2>3. PICK a, step : a = k[i] /\ step = q[i + 1]
    OBVIOUS
  <2>4. k[i + 1] = Insert(a, step) /\ StepSound(step)
    BY <1>3, <1>4, <2>1, <2>2, <2>3 DEF Applied
  <2>5. Sized(a, e) /\ (m.ended => a.ended)
    BY <1>7, <2>1, <2>3
  <2>6. Sized(Insert(a, step), e)
    BY <2>4, <2>5, StepSized
  <2>7. m.ended => Insert(a, step).ended
    BY <2>4, <2>5, EndedStays
  <2> QED BY <2>4, <2>6, <2>7
<1>8. l \in P
  <2> HIDE DEF P
  <2> QED BY <1>6, <1>7, NatSetInduction
<1>9. Sized(w, e) /\ (m.ended => w.ended)
  BY <1>2, <1>5, <1>8
<1>10. r.method.ended = w.ended
  BY <1>1, <1>2, <1>9, RaisedTallied
<1> QED BY <1>9, <1>10
-----------------------------------------------------------------------------
(* What a call of add_method_call leaves of a class.                       *)
LEMMA CallLeaves ==
  ASSUME Numerals(Nat), NEW ms, NEW f, DOMAIN f = ClassParts, ClassSized(ms, f), NEW file, ClassMeans(f, file),
         NEW c, c.callTo \in AgentMethods \ {NameMethod}, NEW r,
         r = update_method(f.methods[c.key], f.pool, c.flags, c.callTo), NEW g, g = WithCall(f, c)
  PROVE  /\ g.pool = r.pool /\ DOMAIN g.methods = DOMAIN f.methods
         /\ Later(f.pool, g.pool) /\ PoolFits(g.pool, file)
         /\ \A key \in DOMAIN f.methods : g.methods[key] = IF key = c.key THEN r.method ELSE f.methods[key]
<1>1. PICK d : d = [f EXCEPT !.pool = r.pool, !.methods[c.key] = r.method]
  OBVIOUS
<1>2. g = d
  BY <1>1 DEF WithCall, add_method_call, Replaced
<1>3. d.methods = [f.methods EXCEPT ![c.key] = r.method] /\ d.pool = r.pool
  BY <1>1 DEF ClassParts
<1>4. PoolFits(r.pool, file) /\ Later(f.pool, r.pool)
  BY UpdateSays DEF ClassMeans
<1> QED BY <1>2, <1>3, <1>4

LEMMA CallElsewhere ==
  ASSUME Numerals(Nat), NEW ms, NEW f, DOMAIN f = ClassParts, ClassSized(ms, f), NEW file, ClassMeans(f, file),
         NEW c, c.callTo \in AgentMethods \ {NameMethod}, NEW g, g = WithCall(f, c), Clear(g.pool, file),
         NEW x \in ToSet(ms), x.key # c.key, NEW v, HookedAs(f.pool, f.methods[x.key], x, v)
  PROVE  HookedAs(g.pool, g.methods[x.key], x, v)
<1>1. PICK r : r = update_method(f.methods[c.key], f.pool, c.flags, c.callTo)
  OBVIOUS
<1>2. /\ Later(f.pool, g.pool) /\ PoolFits(g.pool, file)
      /\ \A key \in DOMAIN f.methods : g.methods[key] = IF key = c.key THEN r.method ELSE f.methods[key]
  BY <1>1, CallLeaves
<1>3. PICK m : m = f.methods[x.key]
  OBVIOUS
<1>4. x.key \in DOMAIN f.methods /\ Sized(m, Len(x.exceptions))
  BY <1>3 DEF ClassSized
<1>5. g.methods[x.key] = m
  BY <1>2, <1>3, <1>4
<1>6. CodeMeans(f.pool, m.code)
  <2>1. Clear(f.pool, file)
    BY <1>2, ClearBefore
  <2> QED BY <1>3, <1>4, <2>1 DEF ClassMeans, MethodsMean
<1>7. Tallied(f.pool, m, Len(FileExits(x)), v)
  BY <1>3 DEF HookedAs
<1>8. PoolSound(f.pool) /\ PoolSound(g.pool)
  BY <1>2 DEF ClassMeans, PoolFits
<1>9. Tallied(g.pool, m, Len(FileExits(x)), v)
  BY <1>2, <1>4, <1>6, <1>7, <1>8, TalliedLater
<1> QED BY <1>3, <1>5, <1>9 DEF HookedAs

LEMMA CallHere ==
  ASSUME Numerals(Nat), NEW ms, NEW f, DOMAIN f = ClassParts, ClassSized(ms, f), NEW file, ClassMeans(f, file),
         NEW s, NEW c, CallFits(s, c), NEW g, g = WithCall(f, c), Clear(g.pool, file),
         NEW x \in ToSet(ms), x.key = c.key, ~g.methods[x.key].ended, NEW v,
         NEW u, u = MoreCalls(v, s, x)
  PROVE  /\ ~f.methods[x.key].ended
         /\ HookedAs(f.pool, f.methods[x.key], x, v) => HookedAs(g.pool, g.methods[x.key], x, u)
<1> DEFINE four == CallsSuperFirst(x)
<1>0. PICK rets : rets = Len(FileExits(x))
  OBVIOUS
<1>1. PICK flag \in Flags : /\ c.flags = {flag} /\ c.callTo = HookFor(flag)
                            /\ AskOf(s, c.key) = {flag}
                            /\ Constructor(c.key) => flag \in {"EXIT", "HEAP"}
                            /\ flag = "HEAP" => Constructor(c.key)
  BY DEF CallFits
<1>2. PICK m, r : m = f.methods[x.key] /\ r = update_method(m, f.pool, {flag}, HookFor(flag))
  OBVIOUS
<1>3. HookFor(flag) \in Hooks /\ HookFor(flag) \in AgentMethods \ {NameMethod}
  BY AgentNames DEF HookFor, Flags, Hooks
<1>4. x.key \in DOMAIN f.methods /\ Sized(m, Len(x.exceptions))
  BY <1>2 DEF ClassSized
<1>5. /\ g.pool = r.pool /\ Later(f.pool, g.pool) /\ g.methods[x.key] = r.method
  <2>1. r = update_method(f.methods[c.key], f.pool, c.flags, c.callTo) /\ c.callTo \in AgentMethods \ {NameMethod}
    BY <1>1, <1>2, <1>3
  <2> QED BY <1>4, <2>1, CallLeaves
<1>6. PoolFits(f.pool, file)
  BY DEF ClassMeans
<1>7. ~m.ended
  BY <1>2, <1>3, <1>4, <1>5, <1>6, UpdateStays
<1>8. ASSUME HookedAs(f.pool, m, x, v)
      PROVE  HookedAs(g.pool, r.method, x, u)
  <2>1. CodeMeans(f.pool, m.code)
    <3>1. Clear(f.pool, file)
      BY <1>5, ClearBefore
    <3> QED BY <1>2, <1>4, <3>1 DEF ClassMeans, MethodsMean
  <2>2. Tallied(f.pool, m, rets, v) /\ (Constructor(x.key) => Constructs(m, four))
    BY <1>8, <1>0 DEF HookedAs
  <2>3. rets \in Nat
    BY <1>4, <2>2, CodeMarksNat DEF Tallied, Sized
  <2>4. u = [h \in Hooks |-> v[h] + (IF h = HookFor(flag) THEN Adds(flag, rets, four) ELSE 0)]
    <3>1. AskOf(s, x.key) = {flag}
      BY <1>1
    <3>2. ASSUME NEW h \in Hooks
          PROVE  Extra({flag}, h, rets, four) = IF h = HookFor(flag) THEN Adds(flag, rets, four) ELSE 0
      BY <2>3, ExtraOfOne
    <3>3. u = [h \in Hooks |-> v[h] + Extra({flag}, h, rets, four)]
      BY <1>0, <3>1 DEF MoreCalls
    <3> QED BY <3>2, <3>3
  <2>5. ~r.method.ended /\ Clear(r.pool, file) /\ (flag = "HEAP" => Constructs(m, four))
    BY <1>1, <1>5, <2>2
  <2>6. /\ Tallied(r.pool, r.method, rets, u)
        /\ flag \in {"EXIT", "HEAP"} => Constructing(m, r.method)
    BY <1>2, <1>4, <1>6, <2>1, <2>2, <2>4, <2>5, UpdateTallies
  <2>7. Constructor(x.key) => Constructs(r.method, four)
    BY <1>1, <2>2, <2>6 DEF Constructing
  <2> QED BY <1>0, <1>5, <2>6, <2>7 DEF HookedAs
<1> QED BY <1>2, <1>5, <1>7, <1>8

(* What a signal adds to the calls of a method.                            *)
LEMMA HookTallies ==
  ASSUME Numerals(Nat), NEW ms, NEW f, SameRead(f, f), ClassSized(ms, f), NEW file, ClassMeans(f, file),
         NEW s, SignalFit(s), NEW g, g = hook(f, s), Clear(g.pool, file),
         NEW x \in ToSet(ms), ~g.methods[x.key].ended, NEW v, HookedAs(f.pool, f.methods[x.key], x, v)
  PROVE  HookedAs(g.pool, g.methods[x.key], x, MoreCalls(v, s, x))
<1>1. PICK q : q = CallsFor(f, s)
  OBVIOUS
<1>2. PICK n \in Nat : DOMAIN q = 1 .. n
  BY <1>1, CallsRow DEF SameRead, Row
<1>3. PICK k : RunOf("call", f, q, n, k) /\ FoldLeft(WithCall, f, q) = k[n]
  BY <1>2, CallFold
<1>4. CallsSay(f, s, q)
  BY <1>1, CallsOfSignal DEF SameRead
<1>5. \A i \in 1 .. n : q[i].callTo \in AgentMethods \ {NameMethod}
  BY <1>1, <1>2, CallsTo DEF SameRead
<1>6. PICK u : u = MoreCalls(v, s, x)
  OBVIOUS
<1> DEFINE Up(i) == \E j \in 1 .. i : q[j].key = x.key
           Good(i) == SameRead(k[i], k[i]) /\ ClassSized(ms, k[i]) /\ ClassMeans(k[i], file)
           Fine(i) == ~k[i].methods[x.key].ended /\ Clear(k[i].pool, file)
           As(i, w) == HookedAs(k[i].pool, k[i].methods[x.key], x, w)
           Says(i) == Fine(i) => IF Up(i) THEN As(i, u) ELSE As(i, v)
           P == {i \in Nat : i <= n => Good(i) /\ Says(i)}
<1>7. 0 \in P
  <2>1. k[0] = f
    BY <1>3 DEF RunOf
  <2>2. ~Up(0)
    OBVIOUS
  <2> QED BY <2>1, <2>2
<1>8. ASSUME NEW i \in Nat, i \in P PROVE i + 1 \in P
  <2> SUFFICES ASSUME i + 1 <= n PROVE Good(i + 1) /\ Says(i + 1)
    OBVIOUS
  <2>1. i + 1 \in 1 .. n /\ i + 1 - 1 = i /\ i <= n
    OBVIOUS
  <2>2. PICK a, b, c : a = k[i] /\ b = k[i + 1] /\ c = q[i + 1]
    OBVIOUS
  <2>3. b = WithCall(a, c)
    <3>1. k[i + 1] = Applied("call", k[i], q[i + 1])
      BY <1>3, <2>1 DEF RunOf
    <3> QED BY <2>2, <3>1 DEF Applied
  <2>4. SameRead(a, a) /\ ClassSized(ms, a) /\ ClassMeans(a, file) /\ Says(i)
    BY <1>8, <2>1, <2>2
  <2>5. DOMAIN a = ClassParts /\ c.callTo \in AgentMethods \ {NameMethod} /\ CallFits(s, c)
    BY <1>2, <1>4, <1>5, <2>1, <2>2, <2>4 DEF SameRead, CallsSay
  <2>6. SameRead(b, b) /\ ClassSized(ms, b) /\ ClassMeans(b, file)
    BY <2>3, <2>4, <2>5, CallSame, CallSized, CallMeans
  <2>7. ASSUME ~b.methods[x.key].ended, Clear(b.pool, file)
        PROVE  IF Up(i + 1) THEN HookedAs(b.pool, b.methods[x.key], x, u)
                            ELSE HookedAs(b.pool, b.methods[x.key], x, v)
    <3>1. PICK r : r = update_method(a.methods[c.key], a.pool, c.flags, c.callTo)
      OBVIOUS
    <3>2. /\ Later(a.pool, b.pool)
          /\ \A key \in DOMAIN a.methods : b.methods[key] = IF key = c.key THEN r.method ELSE a.methods[key]
      BY <2>3, <2>4, <2>5, <3>1, CallLeaves
    <3>3. Clear(a.pool, file)
      BY <2>7, <3>2, ClearBefore
    <3>4. x.key \in DOMAIN a.methods
      BY <2>4 DEF ClassSized
    <3>5. CASE c.key = x.key
      <4>1. ~Up(i)
        <5> SUFFICES ASSUME NEW j \in 1 .. i, q[j].key = x.key PROVE FALSE
          OBVIOUS
        <5>1. j \in DOMAIN q /\ i + 1 \in DOMAIN q /\ j # i + 1
          BY <1>2, <2>1
        <5> QED BY <1>4, <2>2, <3>5, <5>1 DEF CallsSay, OnlyOnce
      <4>2. /\ ~a.methods[x.key].ended
            /\ HookedAs(a.pool, a.methods[x.key], x, v) => HookedAs(b.pool, b.methods[x.key], x, u)
        BY <1>6, <2>3, <2>4, <2>5, <2>7, <3>5, CallHere
      <4>3. HookedAs(a.pool, a.methods[x.key], x, v)
        BY <2>2, <2>4, <3>3, <4>1, <4>2
      <4>4. Up(i + 1)
        BY <2>1, <2>2, <3>5
      <4> QED BY <4>2, <4>3, <4>4
    <3>6. CASE c.key # x.key
      <4>1. ~a.methods[x.key].ended
        BY <2>7, <3>2, <3>4, <3>6
      <4>2. \A w : HookedAs(a.pool, a.methods[x.key], x, w) => HookedAs(b.pool, b.methods[x.key], x, w)
        BY <2>3, <2>4, <2>5, <2>7, <3>6, CallElsewhere
      <4>3. Up(i + 1) <=> Up(i)
        <5>1. \A j \in 1 .. i + 1 : j \in 1 .. i \/ j = i + 1
          OBVIOUS
        <5>2. \A j \in 1 .. i : j \in 1 .. i + 1
          OBVIOUS
        <5> QED BY <2>2, <3>6, <5>1, <5>2
      <4>4. IF Up(i) THEN HookedAs(a.pool, a.methods[x.key], x, u) ELSE HookedAs(a.pool, a.methods[x.key], x, v)
        BY <2>2, <2>4, <3>3, <4>1
      <4> QED BY <4>2, <4>3, <4>4
    <3> QED BY <3>5, <3>6
  <2>8. Good(i + 1)
    BY <2>2, <2>6
  <2>9. Says(i + 1)
    BY <2>2, <2>7
  <2> QED BY <2>8, <2>9
<1>9. n \in P
  <2> HIDE DEF P
  <2> QED BY <1>7, <1>8, NatSetInduction
<1>10. g = k[n]
  BY <1>1, <1>3 DEF hook
<1>11. IF Up(n) THEN HookedAs(g.pool, g.methods[x.key], x, u) ELSE HookedAs(g.pool, g.methods[x.key], x, v)
  BY <1>9, <1>10
<1>12. CASE Up(n)
  BY <1>6, <1>11, <1>12
<1>13. CASE ~Up(n)
  <2>1. x.key \in DOMAIN f.methods
    BY DEF ClassSized
  <2>2. AskOf(s, x.key) = {}
    BY <1>2, <1>4, <1>13, <2>1 DEF CallsSay
  <2>3. u = [h \in Hooks |-> v[h] + 0]
    BY <1>6, <2>2, ExtraOfNone DEF MoreCalls
  <2>4. PICK rets : rets = Len(FileExits(x))
    OBVIOUS
  <2>8. Tallied(g.pool, g.methods[x.key], rets, v)
    BY <1>11, <1>13, <2>4 DEF HookedAs
  <2>5. \A h \in Hooks : u[h] = v[h]
    BY <2>3, <2>8 DEF Tallied
  <2>6. Tallied(g.pool, g.methods[x.key], rets, u)
    BY <2>5, <2>8 DEF Tallied
  <2>7. HookedAs(g.pool, g.methods[x.key], x, v)
    BY <1>11, <1>13
  <2> QED BY <1>6, <2>4, <2>6, <2>7 DEF HookedAs
<1> QED BY <1>12, <1>13

LEMMA DueSays ==
  ASSUME NEW rets, NEW four, NEW enter, NEW exit, NEW timer, NEW heap
  PROVE  /\ Due(HOOK_SIGNAL_DESCRIPTOR, rets, four, enter, exit, timer, heap) = enter + rets * exit
         /\ Due(HOOK_TIMER_DESCRIPTOR, rets, four, enter, exit, timer, heap) = (1 + rets) * timer
         /\ Due(HOOK_MONITOR_HEAP_DESCRIPTOR, rets, four, enter, exit, timer, heap) = IF four THEN heap ELSE 0
BY ThreeHooks DEF Due

LEMMA TimesNat ==
  ASSUME NEW flag, NEW q, NEW n \in Nat, NEW key
  PROVE  TimesIn(flag, q, n, key) \in Nat
<1>1. PICK S : S = {k \in 1 .. n : flag \in AskOf(q[k], key)}
  OBVIOUS
<1>2. IsFiniteSet(1 .. n) /\ S \subseteq 1 .. n
  BY <1>1, FS_Interval
<1> QED BY <1>1, <1>2, FS_Subset, FS_CardinalityType DEF TimesIn

LEMMA TimesMore ==
  ASSUME NEW flag, NEW q, NEW n \in Nat, NEW m, m = n + 1, NEW key
  PROVE  TimesIn(flag, q, m, key) = TimesIn(flag, q, n, key) + (IF flag \in AskOf(q[m], key) THEN 1 ELSE 0)
<1>1. PICK S, T : /\ S = {k \in 1 .. n : flag \in AskOf(q[k], key)}
                  /\ T = {k \in 1 .. m : flag \in AskOf(q[k], key)}
  OBVIOUS
<1>2. IsFiniteSet(S) /\ m \notin S
  <2>1. IsFiniteSet(1 .. n) /\ S \subseteq 1 .. n
    BY <1>1, FS_Interval
  <2> QED BY <1>1, <2>1, FS_Subset
<1>3. Cardinality(S) \in Nat
  BY <1>2, FS_CardinalityType
<1>6. TimesIn(flag, q, n, key) = Cardinality(S) /\ TimesIn(flag, q, m, key) = Cardinality(T)
  BY <1>1 DEF TimesIn
<1>4. CASE flag \in AskOf(q[m], key)
  <2>1. T = S \cup {m}
    BY <1>1, <1>4
  <2>2. Cardinality(T) = Cardinality(S) + 1
    BY <1>2, <2>1, FS_AddElement
  <2> QED BY <1>6, <1>4, <2>2
<1>5. CASE flag \notin AskOf(q[m], key)
  <2>1. T = S
    BY <1>1, <1>5
  <2> QED BY <1>6, <1>3, <1>5, <2>1
<1> QED BY <1>4, <1>5

LEMMA DueMore ==
  ASSUME NEW h \in Hooks, NEW rets \in Nat, NEW four, NEW ask,
         NEW enter \in Nat, NEW exit \in Nat, NEW timer \in Nat, NEW heap \in Nat,
         NEW enter1, enter1 = enter + (IF "ENTER" \in ask THEN 1 ELSE 0),
         NEW exit1, exit1 = exit + (IF "EXIT" \in ask THEN 1 ELSE 0),
         NEW timer1, timer1 = timer + (IF "TIMER" \in ask THEN 1 ELSE 0),
         NEW heap1, heap1 = heap + (IF "HEAP" \in ask THEN 1 ELSE 0)
  PROVE  Due(h, rets, four, enter1, exit1, timer1, heap1)
           = Due(h, rets, four, enter, exit, timer, heap) + Extra(ask, h, rets, four)
<1>1. \A i, j \in Nat : i * (j + 0) = i * j /\ i * (j + 1) = i * j + i /\ i * j \in Nat
  OBVIOUS
<1>2. PICK v, w, e : /\ v = Due(h, rets, four, enter, exit, timer, heap)
                     /\ w = Due(h, rets, four, enter1, exit1, timer1, heap1)
                     /\ e = Extra(ask, h, rets, four)
  OBVIOUS
<1>3. CASE h = HOOK_SIGNAL_DESCRIPTOR
  <2>7. v = enter + rets * exit
    BY <1>2, <1>3, ThreeHooks DEF Due
  <2>8. w = enter1 + rets * exit1
    BY <1>2, <1>3, ThreeHooks DEF Due
  <2>1. v = enter + rets * exit /\ w = enter1 + rets * exit1
    BY <2>7, <2>8
  <2>2. e = (IF "ENTER" \in ask THEN 1 ELSE 0) + (IF "EXIT" \in ask THEN rets ELSE 0)
    BY <1>2, <1>3, ThreeHooks DEF Extra
  <2>3. PICK p, r \in Nat : p = rets * exit /\ r = rets * exit1
    BY <1>1
  <2>4. r = p + (IF "EXIT" \in ask THEN rets ELSE 0)
    <3>1. CASE "EXIT" \in ask
      <4>1. exit1 = exit + 1
        BY <3>1
      <4>2. rets * (exit + 1) = rets * exit + rets
        BY <1>1
      <4> QED BY <2>3, <3>1, <4>1, <4>2
    <3>2. CASE "EXIT" \notin ask
      <4>1. exit1 = exit
        BY <3>2
      <4> QED BY <2>3, <3>2, <4>1
    <3> QED BY <3>1, <3>2
  <2>5. v = enter + p /\ w = enter1 + r
    BY <2>1, <2>3
  <2>6. w = v + e
    BY <2>2, <2>3, <2>4, <2>5
  <2> QED BY <1>2, <2>6
<1>4. CASE h = HOOK_TIMER_DESCRIPTOR
  <2>8. v = (1 + rets) * timer
    BY <1>2, <1>4, ThreeHooks DEF Due
  <2>9. w = (1 + rets) * timer1
    BY <1>2, <1>4, ThreeHooks DEF Due
  <2>1. v = (1 + rets) * timer /\ w = (1 + rets) * timer1
    BY <2>8, <2>9
  <2>2. e = IF "TIMER" \in ask THEN 1 + rets ELSE 0
    BY <1>2, <1>4, ThreeHooks DEF Extra
  <2>3. PICK n \in Nat : n = 1 + rets
    OBVIOUS
  <2>4. PICK p, r \in Nat : p = n * timer /\ r = n * timer1
    BY <1>1
  <2>5. r = p + (IF "TIMER" \in ask THEN n ELSE 0)
    <3>1. CASE "TIMER" \in ask
      <4>1. timer1 = timer + 1
        BY <3>1
      <4>2. n * (timer + 1) = n * timer + n
        BY <1>1
      <4> QED BY <2>4, <3>1, <4>1, <4>2
    <3>2. CASE "TIMER" \notin ask
      <4>1. timer1 = timer
        BY <3>2
      <4> QED BY <2>4, <3>2, <4>1
    <3> QED BY <3>1, <3>2
  <2>6. v = p /\ w = r
    BY <2>1, <2>3, <2>4
  <2>7. w = v + e
    BY <2>2, <2>3, <2>5, <2>6
  <2> QED BY <1>2, <2>7
<1>5. CASE h = HOOK_MONITOR_HEAP_DESCRIPTOR
  <2>1. v = (IF four THEN heap ELSE 0) /\ w = (IF four THEN heap1 ELSE 0)
    BY <1>2, <1>5, DueSays
  <2>2. e = IF "HEAP" \in ask /\ four THEN 1 ELSE 0
    BY <1>2, <1>5, ThreeHooks DEF Extra
  <2>3. w = v + e
    BY <2>1, <2>2
  <2> QED BY <1>2, <2>3
<1> QED BY <1>3, <1>4, <1>5 DEF Hooks

LEMMA WantedMore ==
  ASSUME NEW q, NEW n \in Nat, NEW m, m = n + 1, NEW x, Len(FileExits(x)) \in Nat
  PROVE  Wanted(q, m, x) = MoreCalls(Wanted(q, n, x), q[m], x)
<1>1. PICK rets \in Nat : rets = Len(FileExits(x))
  OBVIOUS
<1>2. PICK ask : ask = AskOf(q[m], x.key)
  OBVIOUS
<1>3. PICK enter, exit, timer, heap : /\ enter = TimesIn("ENTER", q, n, x.key)
                                      /\ exit  = TimesIn("EXIT", q, n, x.key)
                                      /\ timer = TimesIn("TIMER", q, n, x.key)
                                      /\ heap  = TimesIn("HEAP", q, n, x.key)
  OBVIOUS
<1>4. enter \in Nat /\ exit \in Nat /\ timer \in Nat /\ heap \in Nat
  BY <1>3, TimesNat
<1>5. PICK enter1, exit1, timer1, heap1 : /\ enter1 = TimesIn("ENTER", q, m, x.key)
                                          /\ exit1  = TimesIn("EXIT", q, m, x.key)
                                          /\ timer1 = TimesIn("TIMER", q, m, x.key)
                                          /\ heap1  = TimesIn("HEAP", q, m, x.key)
  OBVIOUS
<1>6. /\ enter1 = enter + (IF "ENTER" \in ask THEN 1 ELSE 0)
      /\ exit1 = exit + (IF "EXIT" \in ask THEN 1 ELSE 0)
      /\ timer1 = timer + (IF "TIMER" \in ask THEN 1 ELSE 0)
      /\ heap1 = heap + (IF "HEAP" \in ask THEN 1 ELSE 0)
  BY <1>2, <1>3, <1>5, TimesMore
<1>7. ASSUME NEW h \in Hooks
      PROVE  DueBy(h, q, m, x) = DueBy(h, q, n, x) + Extra(ask, h, rets, CallsSuperFirst(x))
  <2>1. /\ DueBy(h, q, m, x) = Due(h, rets, CallsSuperFirst(x), enter1, exit1, timer1, heap1)
        /\ DueBy(h, q, n, x) = Due(h, rets, CallsSuperFirst(x), enter, exit, timer, heap)
    BY <1>1, <1>3, <1>5 DEF DueBy
  <2>2. Due(h, rets, CallsSuperFirst(x), enter1, exit1, timer1, heap1)
          = Due(h, rets, CallsSuperFirst(x), enter, exit, timer, heap) + Extra(ask, h, rets, CallsSuperFirst(x))
    BY <1>4, <1>6, DueMore
  <2> QED BY <2>1, <2>2
<1>8. PICK v : v = Wanted(q, n, x)
  OBVIOUS
<1>9. \A h \in Hooks : v[h] = DueBy(h, q, n, x)
  BY <1>8 DEF Wanted
<1>10. MoreCalls(v, q[m], x) = [h \in Hooks |-> v[h] + Extra(ask, h, rets, CallsSuperFirst(x))]
  BY <1>1, <1>2 DEF MoreCalls
<1> QED BY <1>7, <1>8, <1>9, <1>10 DEF Wanted

LEMMA WantedNone ==
  ASSUME NEW q, NEW x, Len(FileExits(x)) \in Nat
  PROVE  Wanted(q, 0, x) = [h \in Hooks |-> 0]
<1>1. ASSUME NEW flag PROVE TimesIn(flag, q, 0, x.key) = 0
  <2>1. {k \in 1 .. 0 : flag \in AskOf(q[k], x.key)} = {}
    OBVIOUS
  <2> QED BY <2>1, FS_EmptySet DEF TimesIn
<1>2. PICK rets \in Nat : rets = Len(FileExits(x))
  OBVIOUS
<1>3. ASSUME NEW h \in Hooks PROVE DueBy(h, q, 0, x) = 0
  <2>1. DueBy(h, q, 0, x) = Due(h, rets, CallsSuperFirst(x), 0, 0, 0, 0)
    BY <1>1, <1>2 DEF DueBy
  <2>2. rets * 0 = 0 /\ (1 + rets) * 0 = 0
    OBVIOUS
  <2>3. Due(h, rets, CallsSuperFirst(x), 0, 0, 0, 0) = 0
    BY <2>2, DueSays DEF Hooks
  <2> QED BY <2>1, <2>3
<1> QED BY <1>3 DEF Wanted

(* They depend on the names and the flags of the signals.                  *)
LEMMA AskSame ==
  ASSUME NEW s, NEW t, s.name = t.name, s.flags = t.flags, NEW key
  PROVE  AskOf(s, key) = AskOf(t, key)
<1>1. (all(s) <=> all(t)) /\ (ByName(s) <=> ByName(t))
  BY DEF all, monitor_heap, ByName
<1> QED BY <1>1 DEF AskOf

LEMMA WantedSame ==
  ASSUME NEW q, NEW r, NEW n, \A k \in 1 .. n : q[k].name = r[k].name /\ q[k].flags = r[k].flags, NEW x
  PROVE  Wanted(q, n, x) = Wanted(r, n, x)
<1>1. ASSUME NEW flag PROVE TimesIn(flag, q, n, x.key) = TimesIn(flag, r, n, x.key)
  <2>1. \A k \in 1 .. n : AskOf(q[k], x.key) = AskOf(r[k], x.key)
    BY AskSame
  <2>2. {k \in 1 .. n : flag \in AskOf(q[k], x.key)} = {k \in 1 .. n : flag \in AskOf(r[k], x.key)}
    BY <2>1
  <2> QED BY <2>2 DEF TimesIn
<1>2. \A h : DueBy(h, q, n, x) = DueBy(h, r, n, x)
  BY <1>1 DEF DueBy
<1> QED BY <1>2 DEF Wanted

(* What a signal leaves of a class: its methods are those it had.          *)
LEMMA HookLeaves ==
  ASSUME Numerals(Nat), NEW ms, NEW f, SameRead(f, f), ClassSized(ms, f), NEW file, ClassMeans(f, file),
         NEW s, NEW g, g = hook(f, s)
  PROVE  DOMAIN g.methods = DOMAIN f.methods /\ Later(f.pool, g.pool)
<1>1. PICK q : q = CallsFor(f, s)
  OBVIOUS
<1>2. PICK n \in Nat : DOMAIN q = 1 .. n
  BY <1>1, CallsRow DEF SameRead, Row
<1>3. PICK k : RunOf("call", f, q, n, k) /\ FoldLeft(WithCall, f, q) = k[n]
  BY <1>2, CallFold
<1>4. \A i \in 1 .. n : q[i].callTo \in AgentMethods \ {NameMethod}
  BY <1>1, <1>2, CallsTo DEF SameRead
<1> DEFINE Good(i) == SameRead(k[i], k[i]) /\ ClassSized(ms, k[i]) /\ ClassMeans(k[i], file)
           P == {i \in Nat : i <= n => /\ Good(i)
                                       /\ DOMAIN k[i].methods = DOMAIN f.methods /\ Later(f.pool, k[i].pool)}
<1>5. 0 \in P
  <2>1. k[0] = f
    BY <1>3 DEF RunOf
  <2>2. Later(f.pool, f.pool)
    BY LaterSelf DEF ClassMeans, PoolFits
  <2> QED BY <2>1, <2>2
<1>6. ASSUME NEW i \in Nat, i \in P PROVE i + 1 \in P
  <2> SUFFICES ASSUME i + 1 <= n
               PROVE  /\ Good(i + 1)
                      /\ DOMAIN k[i + 1].methods = DOMAIN f.methods /\ Later(f.pool, k[i + 1].pool)
    OBVIOUS
  <2>1. i + 1 \in 1 .. n /\ i + 1 - 1 = i /\ i <= n
    OBVIOUS
  <2>2. PICK a, b, c : a = k[i] /\ b = k[i + 1] /\ c = q[i + 1]
    OBVIOUS
  <2>3. b = WithCall(a, c)
    <3>1. k[i + 1] = Applied("call", k[i], q[i + 1])
      BY <1>3, <2>1 DEF RunOf
    <3> QED BY <2>2, <3>1 DEF Applied
  <2>4. /\ SameRead(a, a) /\ ClassSized(ms, a) /\ ClassMeans(a, file)
        /\ DOMAIN a.methods = DOMAIN f.methods /\ Later(f.pool, a.pool)
    BY <1>6, <2>1, <2>2
  <2>5. DOMAIN a = ClassParts /\ c.callTo \in AgentMethods \ {NameMethod}
    BY <1>4, <2>1, <2>2, <2>4 DEF SameRead
  <2>6. SameRead(b, b) /\ ClassSized(ms, b) /\ ClassMeans(b, file)
    BY <2>3, <2>4, <2>5, CallSame, CallSized, CallMeans
  <2>7. PICK r : r = update_method(a.methods[c.key], a.pool, c.flags, c.callTo)
    OBVIOUS
  <2>8. DOMAIN b.methods = DOMAIN a.methods /\ Later(a.pool, b.pool)
    BY <2>3, <2>4, <2>5, <2>7, CallLeaves
  <2>9. Later(f.pool, b.pool)
    BY <2>4, <2>6, <2>8, LaterOn DEF ClassMeans, PoolFits
  <2> QED BY <2>2, <2>4, <2>6, <2>8, <2>9
<1>7. n \in P
  <2> HIDE DEF P
  <2> QED BY <1>5, <1>6, NatSetInduction
<1> QED BY <1>1, <1>3, <1>7 DEF hook

LEMMA MethodsAt ==
  ASSUME NEW ms, InRow(ms), \A i, j \in DOMAIN ms : ms[i].key = ms[j].key => i = j,
         NEW r, r = load_methods(ms)
  PROVE  Keyed(ms, r) /\ \A x \in ToSet(ms) : r[x.key] = load_method(x)
<1>1. PICK n \in Nat : DOMAIN ms = 1 .. n
  BY DEF InRow
<1>2. PICK k : RunOf("methods", <<>>, ms, n, k) /\ FoldLeft(WithMethodRead, <<>>, ms) = k[n]
  BY <1>1, MethodsFold
<1> DEFINE Has(i) == \A key : key \in DOMAIN k[i] <=> \E j \in 1 .. i : ms[j].key = key
           Are(i) == \A j \in 1 .. i : k[i][ms[j].key] = load_method(ms[j])
           P == {i \in Nat : i <= n => Has(i) /\ Are(i)}
<1>3. 0 \in P
  <2>1. DOMAIN k[0] = {}
    BY <1>2 DEF RunOf
  <2> QED BY <2>1
<1>4. ASSUME NEW i \in Nat, i \in P PROVE i + 1 \in P
  <2> SUFFICES ASSUME i + 1 <= n PROVE Has(i + 1) /\ Are(i + 1)
    OBVIOUS
  <2>1. i + 1 \in 1 .. n /\ i + 1 - 1 = i /\ i <= n
    OBVIOUS
  <2>2. PICK key, m, was : key = ms[i + 1].key /\ m = load_method(ms[i + 1]) /\ was = k[i]
    OBVIOUS
  <2>3. k[i + 1] = Applied("methods", k[i], ms[i + 1])
    BY <1>2, <2>1 DEF RunOf
  <2>4. k[i + 1] = Put(was, key, m)
    BY <2>2, <2>3 DEF Applied, WithMethodRead
  <2>5. /\ DOMAIN k[i + 1] = DOMAIN was \cup {key} /\ k[i + 1][key] = m
        /\ \A x \in DOMAIN was : x # key => k[i + 1][x] = was[x]
    BY <2>4 DEF Put
  <2>6. Has(i) /\ Are(i)
    BY <1>4, <2>1
  <2>7. \A j \in 1 .. i + 1 : j \in 1 .. i \/ j = i + 1
    OBVIOUS
  <2>8. \A j \in 1 .. i : j \in 1 .. i + 1
    OBVIOUS
  <2>9. Has(i + 1)
    <3> SUFFICES ASSUME NEW y PROVE y \in DOMAIN k[i + 1] <=> \E j \in 1 .. i + 1 : ms[j].key = y
      OBVIOUS
    <3>1. y \in DOMAIN k[i + 1] <=> y \in DOMAIN was \/ y = key
      BY <2>5
    <3>2. y \in DOMAIN was <=> \E j \in 1 .. i : ms[j].key = y
      BY <2>2, <2>6
    <3>3. i + 1 \in 1 .. i + 1
      OBVIOUS
    <3> QED BY <2>2, <2>7, <2>8, <3>1, <3>2, <3>3
  <2>10. ASSUME NEW j \in 1 .. i + 1 PROVE k[i + 1][ms[j].key] = load_method(ms[j])
    <3>1. CASE j = i + 1
      BY <2>2, <2>5, <3>1
    <3>2. CASE j # i + 1
      <4>1. j \in 1 .. i /\ j \in DOMAIN ms /\ i + 1 \in DOMAIN ms
        BY <1>1, <2>1, <3>2
      <4>2. ms[j].key # key
        BY <2>2, <3>2, <4>1
      <4>3. ms[j].key \in DOMAIN was /\ was[ms[j].key] = load_method(ms[j])
        BY <2>2, <2>6, <4>1
      <4> QED BY <2>5, <4>2, <4>3
    <3> QED BY <3>1, <3>2
  <2> QED BY <2>9, <2>10
<1>5. n \in P
  <2> HIDE DEF P
  <2> QED BY <1>3, <1>4, NatSetInduction
<1>6. Has(n) /\ Are(n)
  BY <1>5
<1>7. r = k[n]
  BY <1>2 DEF load_methods
<1>8. \A x : x \in ToSet(ms) <=> \E j \in 1 .. n : x = ms[j]
  BY <1>1 DEF ToSet
<1>9. Keyed(ms, r)
  <2> SUFFICES ASSUME NEW key PROVE key \in DOMAIN r <=> \E x \in ToSet(ms) : x.key = key
    BY DEF Keyed
  <2>1. key \in DOMAIN r <=> \E j \in 1 .. n : ms[j].key = key
    BY <1>6, <1>7
  <2>2. (\E j \in 1 .. n : ms[j].key = key) => \E x \in ToSet(ms) : x.key = key
    BY <1>8
  <2>3. (\E x \in ToSet(ms) : x.key = key) => \E j \in 1 .. n : ms[j].key = key
    BY <1>8
  <2> QED BY <2>1, <2>2, <2>3
<1>10. \A x \in ToSet(ms) : r[x.key] = load_method(x)
  BY <1>6, <1>7, <1>8
<1> QED BY <1>9, <1>10
-----------------------------------------------------------------------------
LEMMA ReadCounted ==
  ASSUME NEW p, NEW w \in Worlds, NEW c \in DOMAIN w.files, ReadFate(w.files[c]) = "running", NEW q
  PROVE  CountedTo(w.files[c], q, 0, load_from_buffer(p, w.files[c]))
<1>1. PICK file, f : file = w.files[c] /\ f = load_from_buffer(p, file)
  OBVIOUS
<1>2. IsClassFile(file)
  BY <1>1, WorldsAssumption
<1>3. PICK ms, r : ms = file.methods /\ r = load_methods(ms)
  OBVIOUS
<1>4. /\ InRow(ms) /\ \A x \in ToSet(ms) : IsMethodFile(x)
      /\ \A i, j \in DOMAIN ms : ms[i].key = ms[j].key => i = j
  BY <1>2, <1>3 DEF IsClassFile
<1>5. \A x \in ToSet(ms) : MethodFate(x) = "running"
  BY <1>1, <1>2, <1>3, AllRunning
<1>6. Keyed(ms, r) /\ \A x \in ToSet(ms) : r[x.key] = load_method(x)
  BY <1>3, <1>4, MethodsAt
<1>7. f.methods = r
  BY <1>1, <1>3 DEF load_from_buffer
<1>8. ASSUME NEW x \in ToSet(ms), x.hasCode
      PROVE  HookedAs(f.pool, f.methods[x.key], x, Wanted(q, 0, x))
  <2>1. PICK v : v = [h \in Hooks |-> 0]
    OBVIOUS
  <2>2. HookedAs(f.pool, load_method(x), x, v)
    BY <1>4, <1>5, <1>8, <2>1, LoadedTallied
  <2>3. Len(FileExits(x)) \in Nat
    <3>1. PICK m : m = load_method(x)
      OBVIOUS
    <3>2. CodeSound(m.code)
      BY <1>4, <1>5, <1>8, <3>1, LoadedSized DEF Sized
    <3>3. CodeMarks(m.code, {}, Returns) = Len(FileExits(x))
      BY <2>2, <3>1 DEF HookedAs, Tallied
    <3> QED BY <3>2, <3>3, CodeMarksNat
  <2>4. Wanted(q, 0, x) = v
    BY <2>1, <2>3, WantedNone
  <2>5. f.methods[x.key] = load_method(x)
    BY <1>6, <1>7
  <2> QED BY <2>2, <2>4, <2>5
<1> QED BY <1>1, <1>3, <1>6, <1>7, <1>8 DEF CountedTo

LEMMA HookCounted ==
  ASSUME Numerals(Nat), NEW file, NEW f, SameRead(f, f), ClassSized(file.methods, f), ClassMeans(f, file.pool),
         NEW q, NEW n \in Nat, NEW m, m = n + 1, CountedTo(file, q, n, f),
         NEW s, s = q[m], SignalFit(s), NEW g, g = hook(f, s), ~Ended(g)
  PROVE  CountedTo(file, q, m, g)
<1>1. PICK ms : ms = file.methods
  OBVIOUS
<1>2. DOMAIN g.methods = DOMAIN f.methods /\ Later(f.pool, g.pool)
  BY <1>1, HookLeaves
<1>3. Keyed(ms, f.methods) /\ Keyed(ms, g.methods)
  BY <1>1, <1>2 DEF CountedTo, Keyed
<1>4. ASSUME Clear(g.pool, file.pool), NEW x \in ToSet(ms), x.hasCode
      PROVE  HookedAs(g.pool, g.methods[x.key], x, Wanted(q, m, x))
  <2>1. PICK v : v = Wanted(q, n, x)
    OBVIOUS
  <2>2. Clear(f.pool, file.pool)
    BY <1>2, <1>4, ClearBefore
  <2>3. HookedAs(f.pool, f.methods[x.key], x, v)
    BY <1>1, <1>4, <2>1, <2>2 DEF CountedTo
  <2>4. x.key \in DOMAIN f.methods /\ Sized(f.methods[x.key], Len(x.exceptions))
    BY <1>1 DEF ClassSized
  <2>5. ~g.methods[x.key].ended
    BY <1>2, <2>4 DEF Ended
  <2>6. HookedAs(g.pool, g.methods[x.key], x, MoreCalls(v, s, x))
    BY <1>1, <1>4, <2>3, <2>5, HookTallies
  <2>7. Len(FileExits(x)) \in Nat
    <3>1. CodeSound(f.methods[x.key].code)
      BY <2>4 DEF Sized
    <3>2. CodeMarks(f.methods[x.key].code, {}, Returns) = Len(FileExits(x))
      BY <2>3 DEF HookedAs, Tallied
    <3> QED BY <3>1, <3>2, CodeMarksNat
  <2>8. Wanted(q, m, x) = MoreCalls(v, s, x)
    BY <2>1, <2>7, WantedMore
  <2> QED BY <2>6, <2>8
<1> QED BY <1>1, <1>3, <1>4 DEF CountedTo

LEMMA CountedSame ==
  ASSUME NEW file, NEW q, NEW r, NEW n, \A k \in 1 .. n : q[k].name = r[k].name /\ q[k].flags = r[k].flags,
         NEW f, CountedTo(file, q, n, f)
  PROVE  CountedTo(file, r, n, f)
<1>1. \A x : Wanted(q, n, x) = Wanted(r, n, x)
  BY WantedSame
<1> QED BY <1>1 DEF CountedTo

LEMMA NamesApart ==
  /\ All.name = "*" /\ All.type = "" /\ NoName.name = "" /\ NoName.type = ""
  /\ All # NoName
<1>1. All.name = "*" /\ All.type = "" /\ NoName.name = "" /\ NoName.type = ""
  BY DEF All, NoName
<1> QED BY <1>1

LEMMA OneFlag ==
  ASSUME NEW line, GoodLine(line), ~line.heap
  PROVE  \E flag \in {"ENTER", "EXIT", "TIMER"} : ToSet(line.flags) = {flag} /\ line.flags = <<flag>>
<1>1. Len(line.flags) = 1
  BY DEF GoodLine, Refused, Accepted, try_monitor_match, try_signal_match
<1>2. PICK q : q = line.flags
  OBVIOUS
<1>3. q \in Seq(ToSet(q)) /\ Len(q) = 1
  BY <1>1, <1>2 DEF GoodLine, InRow
<1>4. PICK flag : flag = q[1]
  OBVIOUS
<1>5. DOMAIN q = 1 .. 1 /\ q = <<flag>>
  BY <1>3, <1>4
<1>6. DOMAIN q = {1}
  BY <1>5
<1>7. ToSet(q) = {flag}
  BY <1>4, <1>6 DEF ToSet
<1>8. flag \in {"ENTER", "EXIT", "TIMER"}
  BY <1>2, <1>7 DEF GoodLine
<1> QED BY <1>2, <1>5, <1>7, <1>8

LEMMA TypedName ==
  ASSUME NEW method, method.name \notin Starred, method.typed
  PROVE  convert_name(method).name = method.name
<1>1. PICK t : convert_name(method) = [name |-> method.name, type |-> t]
  BY DEF convert_name
<1> QED BY <1>1

LEMMA FromFits ==
  ASSUME NEW s, NEW line, From(s, line)
  PROVE  SignalFit(s)
<1>1. CASE line.heap
  <2>1. s.name = NoName /\ s.flags = {"HEAP"}
    BY <1>1 DEF From, SigName, SigFlags
  <2> QED BY <2>1, NamesApart DEF SignalFit, Flags
<1>2. CASE ~line.heap
  <2>1. PICK flag \in {"ENTER", "EXIT", "TIMER"} : ToSet(line.flags) = {flag} /\ line.flags = <<flag>>
    BY <1>2, OneFlag DEF From
  <2>2. s.flags = {flag} /\ s.name = convert_name(line.method)
    BY <1>2, <2>1 DEF From, SigName, SigFlags
  <2>3. s.name.name # "<init>"
    <3>1. CASE line.method.name \in Starred
      BY <2>2, <3>1, NamesApart DEF convert_name
    <3>2. CASE line.method.name \notin Starred /\ ~line.method.typed
      BY <2>2, <3>2, NamesApart DEF convert_name
    <3>3. CASE line.method.name \notin Starred /\ line.method.typed
      BY <2>2, <3>3, TypedName DEF From, GoodLine
    <3> QED BY <3>1, <3>2, <3>3
  <2> QED BY <2>1, <2>2, <2>3 DEF SignalFit, Flags
<1> QED BY <1>1, <1>2

LEMMA FromAsks ==
  ASSUME NEW s, NEW line, From(s, line)
  PROVE  /\ \A key : key.type # "" => AskOf(s, key) = Asks(line, key)
         /\ \A ms : (\A x \in ToSet(ms) : x.key.type # "") => (FitsClass(ms, s) <=> Hooking(ms, line))
<1>0. line.form = "text" /\ IsText(line)
  BY DEF From, GoodLine, IsText
<1>1. CASE line.heap
  <2>1. s.name = NoName /\ s.flags = {"HEAP"}
    BY <1>1 DEF From, SigName, SigFlags
  <2>2. ~ByName(s) /\ ~all(s)
    BY <2>1, NamesApart DEF ByName, monitor_heap, all
  <2>3. \A key : Asks(line, key) = IF Constructor(key) /\ ~Skipped(key) THEN {"HEAP"} ELSE {}
    BY <1>0, <1>1 DEF Asks, Requests, Overlooks
  <2>4. \A key : AskOf(s, key) = IF Constructor(key) /\ ~Skipped(key) THEN {"HEAP"} ELSE {}
    BY <2>1, <2>2 DEF AskOf
  <2> QED BY <1>1, <2>2, <2>3, <2>4 DEF FitsClass, Hooking
<1>2. CASE ~line.heap
  <2>1. PICK flag \in {"ENTER", "EXIT", "TIMER"} : ToSet(line.flags) = {flag} /\ line.flags = <<flag>>
    BY <1>2, OneFlag DEF From
  <2>2. s.flags = {flag} /\ s.name = convert_name(line.method) /\ ~monitor_heap(s)
    BY <1>2, <2>1 DEF From, SigName, SigFlags, monitor_heap
  <2>3. line.flags = <<"TIMER">> <=> flag = "TIMER"
    BY <2>1
  <2>4. CASE line.method.name \in Starred
    <3>1. s.name = All /\ all(s)
      BY <2>2, <2>4 DEF convert_name, all
    <3>2. ByName(s) <=> flag = "TIMER"
      BY <2>2, <3>1 DEF ByName
    <3>3. \A key : Asks(line, key) = IF Skipped(key) \/ flag = "TIMER" THEN {}
                                     ELSE IF Constructor(key) THEN {"EXIT"} ELSE {flag}
      BY <1>0, <1>2, <2>1, <2>3, <2>4 DEF Asks, Requests, Overlooks
    <3>4. \A key : key.type # "" => key # s.name
      BY <3>1, NamesApart
    <3>5. \A key : key.type # "" => AskOf(s, key) = Asks(line, key)
      BY <2>2, <3>1, <3>2, <3>3, <3>4 DEF AskOf
    <3>6. ASSUME NEW ms, \A x \in ToSet(ms) : x.key.type # "" PROVE FitsClass(ms, s) <=> Hooking(ms, line)
      <4>1. CASE flag = "TIMER"
        <5>1. ~FitsClass(ms, s)
          BY <3>2, <3>4, <3>6, <4>1 DEF FitsClass
        <5>2. ~Hooking(ms, line)
          BY <1>2, <2>3, <3>3, <4>1 DEF Hooking
        <5> QED BY <5>1, <5>2
      <4>2. CASE flag # "TIMER"
        BY <2>3, <2>4, <3>2, <4>2 DEF FitsClass, Hooking
      <4> QED BY <4>1, <4>2
    <3> QED BY <3>5, <3>6
  <2>5. CASE line.method.name \notin Starred /\ ~line.method.typed
    <3>1. s.name = NoName /\ ~all(s) /\ ByName(s)
      BY <2>2, <2>5, NamesApart DEF convert_name, all, ByName
    <3>2. \A key : Asks(line, key) = {}
      BY <1>0, <1>2, <2>5 DEF Asks, Requests, Overlooks
    <3>3. \A key : key.type # "" => key # s.name
      BY <3>1, NamesApart
    <3>4. \A key : key.type # "" => AskOf(s, key) = Asks(line, key)
      BY <3>1, <3>2, <3>3 DEF AskOf
    <3>5. ASSUME NEW ms, \A x \in ToSet(ms) : x.key.type # "" PROVE FitsClass(ms, s) <=> Hooking(ms, line)
      <4>1. ~FitsClass(ms, s)
        BY <3>1, <3>3, <3>5 DEF FitsClass
      <4>2. ~Hooking(ms, line)
        BY <1>2, <2>5, <3>2 DEF Hooking
      <4> QED BY <4>1, <4>2
    <3> QED BY <3>4, <3>5
  <2>6. CASE line.method.name \notin Starred /\ line.method.typed
    <3>1. PICK key : key = convert_name(line.method)
      OBVIOUS
    <3>2. key.name = line.method.name
      BY <2>6, <3>1, TypedName
    <3>3. s.name = key /\ ~all(s)
      BY <2>2, <2>6, <3>1, <3>2, StarredAssumption, NamesApart DEF all
    <3>4. ByName(s)
      BY <2>2, <3>3 DEF ByName
    <3>5. \A y : Asks(line, y) = IF y = key THEN {flag} ELSE {}
      BY <1>0, <1>2, <2>1, <2>6, <3>1 DEF Asks, Requests, Overlooks
    <3>6. \A y : AskOf(s, y) = IF y = key THEN {flag} ELSE {}
      BY <2>2, <3>3, <3>4 DEF AskOf
    <3>7. ~Constructor(key)
      BY <3>2 DEF Constructor, From, GoodLine
    <3>8. ASSUME NEW ms PROVE FitsClass(ms, s) <=> Hooking(ms, line)
      <4>1. FitsClass(ms, s) <=> \E x \in ToSet(ms) : x.key = key
        BY <3>3, <3>4 DEF FitsClass
      <4>2. Hooking(ms, line) <=> \E x \in ToSet(ms) : x.key = key
        BY <1>2, <2>6, <3>5, <3>7 DEF Hooking
      <4> QED BY <4>1, <4>2
    <3> QED BY <3>5, <3>6, <3>8
  <2> QED BY <2>4, <2>5, <2>6
<1> QED BY <1>1, <1>2
-----------------------------------------------------------------------------
LEMMA OneMoreLine ==
  ASSUME NEW named, NEW hooks, Parallel(named, hooks.hlist), NEW line, IsText(line) => GoodLine(line)
  PROVE  Parallel(WithLine(named, line), load_signal(hooks, line).hlist)
<1>1. CASE ~IsText(line)
  BY <1>1 DEF WithLine, load_signal
<1>2. CASE IsText(line)
  <2>1. PICK sig : sig = IF line.heap THEN Signal(NoName, {"HEAP"}, ~line.off)
                         ELSE Signal(convert_name(line.method), parse_flags(line), ~line.off)
    OBVIOUS
  <2>2. From(sig, line)
    BY <1>2, <2>1 DEF From, SigName, SigFlags, Signal, parse_flags
  <2>3. PICK c, a, b : /\ c = line.class
                       /\ a = IF c \in DOMAIN named THEN named[c] ELSE <<>>
                       /\ b = OfClass(hooks, c)
    OBVIOUS
  <2>4. Both(a, b)
    <3>1. Both(<<>>, <<>>)
      <4>1. <<>> \in Seq({}) /\ Len(<<>>) = 0
        OBVIOUS
      <4> QED BY <4>1 DEF Both, Listed
    <3> QED BY <2>3, <3>1 DEF Parallel, OfClass, is_signal_class
  <2>5. Both(Append(a, line), Append(b, sig))
    <3>1. PICK S, T : a \in Seq(S) /\ b \in Seq(T) /\ Len(a) = Len(b)
      BY <2>4 DEF Both, Listed
    <3>2. /\ Append(a, line) \in Seq(S \cup {line}) /\ Append(b, sig) \in Seq(T \cup {sig})
          /\ Len(Append(a, line)) = Len(a) + 1 /\ Len(Append(b, sig)) = Len(a) + 1
      BY <3>1
    <3>3. \A i \in 1 .. Len(a) + 1 : /\ Append(a, line)[i] = IF i <= Len(a) THEN a[i] ELSE line
                                     /\ Append(b, sig)[i] = IF i <= Len(a) THEN b[i] ELSE sig
      BY <3>1
    <3>4. ASSUME NEW i \in 1 .. Len(a) + 1 PROVE From(Append(b, sig)[i], Append(a, line)[i])
      <4>1. CASE i <= Len(a)
        <5>1. i \in 1 .. Len(a)
          BY <3>1, <4>1
        <5> QED BY <2>4, <3>3, <4>1, <5>1 DEF Both
      <4>2. CASE ~(i <= Len(a))
        BY <2>2, <3>3, <4>2
      <4> QED BY <4>1, <4>2
    <3> QED BY <3>2, <3>4 DEF Both, Listed
  <2>6. WithLine(named, line) = Put(named, c, Append(a, line))
    BY <1>2, <2>3 DEF WithLine
  <2>7. load_signal(hooks, line).hlist = Put(hooks.hlist, c, Append(b, sig))
    BY <1>2, <2>1, <2>3 DEF load_signal
  <2>8. PICK x, y : x = Append(a, line) /\ y = Append(b, sig)
    OBVIOUS
  <2>9. Parallel(Put(named, c, x), Put(hooks.hlist, c, y))
    BY <2>5, <2>8 DEF Parallel, Put
  <2> QED BY <2>6, <2>7, <2>8, <2>9
<1> QED BY <1>1, <1>2

LEMMA CountInit ==
  ASSUME HookInit
  PROVE  CountInv
<1>1. class = None /\ DOMAIN handed = {} /\ lines = world.lines /\ sigs.hlist = <<>> /\ world \in Worlds
  BY DEF HookInit, Init, NoSignals
<1>2. LinesLoaded(0)
  <2>1. lines \in Seq(ToSet(lines))
    BY <1>1, LinesAssumption DEF InRow
  <2>2. Parallel(<<>>, sigs.hlist)
    BY <1>1 DEF Parallel
  <2>3. \A k : RunOf("line", <<>>, world.lines, Len(world.lines), k) => Parallel(k[0], sigs.hlist)
    BY <2>2 DEF RunOf
  <2>4. Listed(lines)
    BY <2>1 DEF Listed
  <2>5. Len(lines) \in Nat
    BY <2>1
  <2> QED BY <1>1, <2>3, <2>4, <2>5 DEF LinesLoaded
<1>3. JudgedAll(sigs.hlist)
  BY <1>1 DEF JudgedAll
<1> QED BY <1>1, <1>2, <1>3, MeansInit DEF CountInv, LinesIn, CountInHand, CountGiven
-----------------------------------------------------------------------------
LEMMA LoadJudged ==
  ASSUME NEW hooks, JudgedAll(hooks.hlist), \A c \in DOMAIN hooks.hlist : SignalRow(hooks.hlist[c]), NEW line
  PROVE  JudgedAll(load_signal(hooks, line).hlist)
<1>1. CASE ~IsText(line)
  BY <1>1 DEF load_signal
<1>2. CASE IsText(line)
  <2>1. PICK sig : sig = IF line.heap THEN Signal(NoName, {"HEAP"}, ~line.off)
                         ELSE Signal(convert_name(line.method), parse_flags(line), ~line.off)
    OBVIOUS
  <2>2. "valid" \in DOMAIN sig /\ sig.valid = TRUE
    BY <2>1 DEF Signal
  <2>3. PICK c, q, new, ms : c = line.class /\ q = OfClass(hooks, c) /\ new = Append(q, sig) /\ ms = world.files[c].methods
    OBVIOUS
  <2>4. \A i \in 1 .. Len(q) : Judged(ms, q[i])
    <3>1. Len(<<>>) = 0
      OBVIOUS
    <3> QED BY <2>3, <3>1 DEF JudgedAll, OfClass, is_signal_class
  <2>5. Judged(ms, sig)
    BY <2>2 DEF Judged
  <2>6. \A i \in 1 .. Len(new) : Judged(ms, new[i])
    <3>1. PICK S : q \in Seq(S)
      BY <2>3, OfClassRow DEF SignalRow
    <3>2. Len(new) = Len(q) + 1 /\ \A i \in 1 .. Len(q) + 1 : new[i] = IF i <= Len(q) THEN q[i] ELSE sig
      BY <2>3, <3>1
    <3>3. \A i \in 1 .. Len(q) + 1 : i <= Len(q) => i \in 1 .. Len(q)
      BY <3>1
    <3> QED BY <2>4, <2>5, <3>2, <3>3
  <2>7. load_signal(hooks, line).hlist = Put(hooks.hlist, c, new)
    BY <1>2, <2>1, <2>3 DEF load_signal
  <2>8. JudgedAll(Put(hooks.hlist, c, new))
    BY <2>3, <2>6 DEF JudgedAll, Put
  <2> QED BY <2>7, <2>8
<1> QED BY <1>1, <1>2

LEMMA LoadLineCounts ==
  ASSUME CountInv, LoadLine
  PROVE  LinesIn' /\ JudgedAll(sigs.hlist)' /\ CountInHand' /\ CountGiven'
<1>1. class = None /\ DOMAIN handed = {} /\ fate = "running" /\ world \in Worlds
  BY DEF CountInv, MeansInv, SizedInv, RewriteInv, Shapes, LoadLine
<1>2. /\ class' = None /\ DOMAIN handed' = {} /\ world' = world /\ lines # <<>> /\ lines' = Tail(lines)
      /\ IF Refused(Head(lines)) THEN fate' = "refused" /\ sigs' = sigs
         ELSE sigs' = load_signal(sigs, Head(lines)) /\ fate' = fate
  BY <1>1 DEF LoadLine
<1>3. JudgedAll(sigs'.hlist)
  <2>1. \A c \in DOMAIN sigs.hlist : SignalRow(sigs.hlist[c])
    BY DEF CountInv, MeansInv, SizedInv, RewriteInv, Shapes
  <2> QED BY <1>2, <2>1, LoadJudged DEF CountInv
<1>4. JudgedAll(sigs.hlist)'
  BY <1>2, <1>3 DEF JudgedAll
<1>5. ASSUME ~Refused(Head(lines)) PROVE \E n \in Nat : LinesLoaded(n)'
  <2>1. PICK n \in Nat : LinesLoaded(n)
    BY <1>1 DEF CountInv, LinesIn
  <2>2. PICK m : m = n + 1
    OBVIOUS
  <2>3. PICK S : lines \in Seq(S)
    BY <2>1 DEF LinesLoaded, Listed
  <2>4. /\ Len(lines) \in Nat /\ 1 \in 1 .. Len(lines) /\ Tail(lines) \in Seq(S) /\ Len(Tail(lines)) = Len(lines) - 1
        /\ \A i \in 1 .. Len(lines) - 1 : Tail(lines)[i] = lines[i + 1]
        /\ Head(lines) = lines[1]
    BY <1>2, <2>3
  <2>5. Len(world.lines) = m + Len(Tail(lines)) /\ m \in 1 .. Len(world.lines)
    BY <2>1, <2>2, <2>4 DEF LinesLoaded
  <2>6. \A i \in 1 .. Len(lines) - 1 : Tail(lines)[i] = world.lines[m + i]
    <3> SUFFICES ASSUME NEW i \in 1 .. Len(lines) - 1 PROVE Tail(lines)[i] = world.lines[m + i]
      OBVIOUS
    <3>1. i + 1 \in 1 .. Len(lines) /\ n + (i + 1) = m + i
      BY <2>2, <2>4
    <3> QED BY <2>1, <2>4, <3>1 DEF LinesLoaded
  <2>7. Head(lines) = world.lines[m]
    BY <2>1, <2>2, <2>4 DEF LinesLoaded
  <2>8. PICK line : line = Head(lines)
    OBVIOUS
  <2>9. IsText(line) => GoodLine(line)
    <3>1. InRow(world.lines)
      BY <1>1, LinesAssumption
    <3>2. DOMAIN world.lines = 1 .. Len(world.lines)
      BY <3>1 DEF InRow
    <3>3. line \in ToSet(world.lines)
      BY <2>5, <2>7, <2>8, <3>2 DEF ToSet
    <3>4. /\ InRow(line.flags) /\ ToSet(line.flags) \subseteq {"ENTER", "EXIT", "TIMER"}
          /\ line.method.name \notin {"", "<init>"}
      BY <1>1, <3>3, LinesAssumption
    <3> QED BY <1>5, <2>8, <3>4 DEF GoodLine
  <2>10. ASSUME NEW k, RunOf("line", <<>>, world.lines, Len(world.lines), k)
         PROVE  Parallel(k[m], sigs'.hlist)
    <3>1. Parallel(k[n], sigs.hlist)
      BY <2>1, <2>10 DEF LinesLoaded
    <3>2. k[m] = Applied("line", k[m - 1], world.lines[m])
      BY <2>5, <2>10 DEF RunOf
    <3>3. m - 1 = n
      BY <2>2
    <3>4. k[m] = WithLine(k[n], line)
      BY <2>7, <2>8, <3>2, <3>3 DEF Applied
    <3>5. sigs' = load_signal(sigs, line)
      BY <1>2, <1>5, <2>8
    <3> QED BY <2>9, <3>1, <3>4, <3>5, OneMoreLine
  <2>11. m \in Nat
    BY <2>2
  <2>12. Listed(lines')
    BY <1>2, <2>4 DEF Listed
  <2>13. LinesLoaded(m)'
    BY <1>2, <2>4, <2>5, <2>6, <2>10, <2>12 DEF LinesLoaded
  <2> QED BY <2>11, <2>13
<1>6. LinesIn'
  BY <1>2, <1>5 DEF LinesIn
<1> QED BY <1>2, <1>4, <1>6 DEF CountInHand, CountGiven
-----------------------------------------------------------------------------
LEMMA LinesStay ==
  ASSUME LinesIn, UNCHANGED <<world, lines, sigs>>, fate = "running" \/ DOMAIN handed # {}
  PROVE  LinesIn'
<1>1. PICK n \in Nat : LinesLoaded(n)
  BY DEF LinesIn
<1>2. LinesLoaded(n)'
  BY <1>1 DEF LinesLoaded
<1> QED BY <1>2 DEF LinesIn

LEMMA FinishedStays ==
  ASSUME NEW c, NEW f, NEW q, Finished(c, f, q), UNCHANGED <<world, junk>>, handed'[c] = handed[c]
  PROVE  Finished(c, f, q)'
BY DEF Finished

LEMMA PackageCounts ==
  ASSUME CountInv, add_thook_to_package
  PROVE  LinesIn' /\ JudgedAll(sigs.hlist)' /\ CountInHand' /\ CountGiven'
<1>1. fate = "running" /\ class = None
  BY DEF add_thook_to_package, Ready
<1>2. /\ UNCHANGED <<world, junk, lines, sigs, class>>
      /\ handed' = IF fate' # "running" THEN handed ELSE Put(handed, Package, load_to_buffer(fr', junk))
  BY DEF add_thook_to_package
<1>3. LinesIn'
  BY <1>1, <1>2, LinesStay DEF CountInv
<1>4. JudgedAll(sigs.hlist)'
  BY <1>2 DEF CountInv, JudgedAll
<1>5. ASSUME NEW c \in DOMAIN handed' \ {Package}
      PROVE  \E f : Finished(c, f, OfClass(sigs, c))'
  <2>1. c \in DOMAIN handed \ {Package} /\ handed'[c] = handed[c]
    BY <1>2, <1>5 DEF Put
  <2>2. c # class
    BY <1>1, <2>1 DEF CountInv, MeansInv, SizedInv, RewriteInv, Shapes
  <2>3. PICK f, q : q = OfClass(sigs, c) /\ Finished(c, f, q)
    BY <2>1, <2>2 DEF CountInv, CountGiven
  <2>4. Finished(c, f, q)'
    BY <1>2, <2>1, <2>3, FinishedStays
  <2>5. OfClass(sigs, c)' = q
    BY <1>2, <2>3
  <2> QED BY <2>4, <2>5
<1>6. CountGiven'
  BY <1>5 DEF CountGiven
<1> QED BY <1>1, <1>2, <1>3, <1>4, <1>6 DEF CountInHand
(* A class that was hooked stays what it is while the signals do.          *)
GivenBut(c) ==
  \A d \in DOMAIN handed \ {Package} : d # c => \E f : Finished(d, f, OfClass(sigs, d))

LEMMA OthersStay ==
  ASSUME NEW c, GivenBut(c), UNCHANGED <<world, junk>>,
         \A d : d # c => OfClass(sigs', d) = OfClass(sigs, d),
         \A d \in DOMAIN handed' : d # c => d \in DOMAIN handed /\ handed'[d] = handed[d]
  PROVE  GivenBut(c)'
<1>1. ASSUME NEW d \in DOMAIN handed' \ {Package}, d # c
      PROVE  \E f : Finished(d, f, OfClass(sigs, d))'
  <2>1. d \in DOMAIN handed \ {Package} /\ handed'[d] = handed[d]
    BY <1>1
  <2>2. PICK f, q : q = OfClass(sigs, d) /\ Finished(d, f, q)
    BY <1>1, <2>1 DEF GivenBut
  <2>3. Finished(d, f, q)'
    BY <2>1, <2>2, FinishedStays
  <2>4. OfClass(sigs, d)' = q
    BY <1>1, <2>2
  <2> QED BY <2>3, <2>4
<1> QED BY <1>1 DEF GivenBut

LEMMA ReadClassCounts ==
  ASSUME CountInv, ReadClass
  PROVE  LinesIn' /\ JudgedAll(sigs.hlist)' /\ CountInHand' /\ CountGiven'
<1>1. PICK c \in DOMAIN world.files \ {Package} :
        /\ Ready
        /\ fate' = ReadFate(world.files[c])
        /\ fr' = IF fate' = "running" THEN load_from_buffer(fr.pool, world.files[c]) ELSE fr
        /\ class' = IF is_signal_class(sigs, c) THEN c ELSE None
        /\ done' = 0
        /\ UNCHANGED <<world, junk, lines, sigs, handed>>
  BY DEF ReadClass
<1>2. fate = "running" /\ class = None /\ None \notin DOMAIN handed /\ world \in Worlds
  BY <1>1 DEF Ready, CountInv, MeansInv, SizedInv, RewriteInv, Shapes
<1>3. LinesIn'
  BY <1>1, <1>2, LinesStay DEF CountInv
<1>4. JudgedAll(sigs.hlist)'
  BY <1>1 DEF CountInv, JudgedAll
<1>5. GivenBut(None)
  BY <1>2 DEF CountInv, CountGiven, GivenBut
<1>6. GivenBut(None)'
  BY <1>1, <1>5, OthersStay
<1>7. CountGiven'
  BY <1>1, <1>2, <1>6 DEF CountGiven, GivenBut
<1>8. CountInHand'
  <2> SUFFICES ASSUME class' # None, fate' = "running" PROVE CountInHand'
    BY DEF CountInHand
  <2>1. class' = c
    BY <1>1
  <2>2. PICK q : q = OfClass(sigs', c)
    OBVIOUS
  <2>3. CountedTo(world.files[c], q, 0, fr')
    BY <1>1, <1>2, ReadCounted
  <2>4. MarkedTo(world.files[c].methods, q, 0)
    BY DEF MarkedTo
  <2>5. c \in DOMAIN handed => \E f : Finished(c, f, q)
    BY <1>1, <1>5, <2>2, <2>1 DEF GivenBut, None, Package
  <2>6. c \in DOMAIN handed' => \E f : Finished(c, f, q)'
    BY <1>1, <2>5, FinishedStays
  <2>7. OfClass(sigs, c)' = q
    BY <2>2
  <2> QED BY <1>1, <2>1, <2>2, <2>3, <2>4, <2>6, <2>7 DEF CountInHand
<1> QED BY <1>3, <1>4, <1>7, <1>8

LEMMA LeaveCounts ==
  ASSUME CountInv, LeaveHook
  PROVE  LinesIn' /\ JudgedAll(sigs.hlist)' /\ CountInHand' /\ CountGiven'
<1>1. fate = "running" /\ class # None /\ done = Len(OfClass(sigs, class)) /\ class' = None
  BY DEF LeaveHook
<1>2. UNCHANGED <<world, junk, lines, sigs, fr, handed>>
  BY DEF LeaveHook
<1>3. LinesIn'
  BY <1>1, <1>2, LinesStay DEF CountInv
<1>4. JudgedAll(sigs.hlist)'
  BY <1>2 DEF CountInv, JudgedAll
<1>5. class \in DOMAIN handed => \E f : Finished(class, f, OfClass(sigs, class))
  BY <1>1 DEF CountInv, CountInHand, Finished, MeansInv, MeansInHand, SizedInv, SizedInHand
<1>6. GivenBut(None)
  <2>1. ASSUME NEW d \in DOMAIN handed \ {Package} PROVE \E f : Finished(d, f, OfClass(sigs, d))
    <3>1. CASE d = class
      BY <1>5, <3>1
    <3>2. CASE d # class
      BY <3>2 DEF CountInv, CountGiven
    <3> QED BY <3>1, <3>2
  <2> QED BY <2>1 DEF GivenBut
<1>7. GivenBut(None)'
  BY <1>2, <1>6, OthersStay
<1>8. CountGiven'
  BY <1>1, <1>7 DEF CountGiven, GivenBut
<1> QED BY <1>1, <1>3, <1>4, <1>8 DEF CountInHand

LEMMA RemoveCounts ==
  ASSUME CountInv, remove_hooks
  PROVE  LinesIn' /\ JudgedAll(sigs.hlist)' /\ CountInHand' /\ CountGiven'
<1>1. PICK c \in DOMAIN handed \ {Package} :
        /\ Ready
        /\ handed' = [x \in DOMAIN handed \ {c} |-> handed[x]]
        /\ UNCHANGED <<world, junk, lines, sigs, class>>
  BY DEF remove_hooks
<1>2. fate = "running" /\ class = None /\ None \notin DOMAIN handed
  BY <1>1 DEF Ready, CountInv, MeansInv, SizedInv, RewriteInv, Shapes
<1>3. LinesIn'
  BY <1>1, <1>2, LinesStay DEF CountInv
<1>4. JudgedAll(sigs.hlist)'
  BY <1>1 DEF CountInv, JudgedAll
<1>5. GivenBut(None)
  BY <1>2 DEF CountInv, CountGiven, GivenBut
<1>6. GivenBut(None)'
  BY <1>1, <1>5, OthersStay
<1>7. CountGiven'
  BY <1>1, <1>2, <1>6 DEF CountGiven, GivenBut
<1> QED BY <1>1, <1>2, <1>3, <1>4, <1>7 DEF CountInHand

LEMMA RestCounts ==
  ASSUME CountInv, UNCHANGED <<world, junk, lines, sigs, fr, class, done, handed>>,
         fate' = fate \/ fate = "running"
  PROVE  LinesIn' /\ JudgedAll(sigs.hlist)' /\ CountInHand' /\ CountGiven'
<1>1. LinesIn'
  <2>1. CASE fate = "running" \/ DOMAIN handed # {}
    BY <2>1, LinesStay DEF CountInv
  <2>2. CASE ~(fate = "running" \/ DOMAIN handed # {})
    BY <2>2 DEF LinesIn
  <2> QED BY <2>1, <2>2
<1>2. JudgedAll(sigs.hlist)'
  BY DEF CountInv, JudgedAll
<1>3. GivenBut(class)
  BY DEF CountInv, CountGiven, GivenBut
<1>4. PICK c : c = class
  OBVIOUS
<1>5. GivenBut(c)'
  BY <1>3, <1>4, OthersStay
<1>6. CountGiven'
  BY <1>4, <1>5 DEF CountGiven, GivenBut
<1>7. CountInHand'
  <2>1. ASSUME NEW f, NEW q, Finished(class, f, q)
        PROVE  Finished(class, f, q)'
    BY <2>1, <1>4, FinishedStays
  <2>2. CASE fate = "running" /\ class \in DOMAIN handed /\ done = 0 /\ class # None
    <3>1. PICK f, q : q = OfClass(sigs, class) /\ Finished(class, f, q)
      BY <2>2 DEF CountInv, CountInHand
    <3>2. Finished(class, f, q)' /\ OfClass(sigs, class)' = q
      BY <2>1, <3>1
    <3> QED BY <2>2, <3>2 DEF CountInv, CountInHand
  <2>3. CASE ~(fate = "running" /\ class \in DOMAIN handed /\ done = 0 /\ class # None)
    BY <2>3 DEF CountInv, CountInHand
  <2> QED BY <2>2, <2>3
<1> QED BY <1>1, <1>2, <1>6, <1>7
-----------------------------------------------------------------------------
LEMMA FitsSame ==
  ASSUME NEW s, NEW t, s.name = t.name, s.flags = t.flags, NEW ms
  PROVE  FitsClass(ms, s) <=> FitsClass(ms, t)
BY DEF FitsClass, ByName, all, monitor_heap

LEMMA FitsMatches ==
  ASSUME NEW f, NEW ms, Keyed(ms, f.methods), NEW s
  PROVE  Matches(f, s) <=> FitsClass(ms, s)
BY DEF Keyed, Matches, has_method, FitsClass

LEMMA MarkSays ==
  ASSUME NEW s, {"name", "flags", "valid"} \subseteq DOMAIN s, NEW t, t = mark_invalid(s)
  PROVE  t.name = s.name /\ t.flags = s.flags /\ t.valid = FALSE /\ DOMAIN t = DOMAIN s
BY DEF mark_invalid

(* The signal s of the class is marked, and no other, if it is.            *)
LEMMA HookMarks ==
  ASSUME CountInv, add_hooks, NEW q, q = OfClass(sigs, class), NEW r, r = OfClass(sigs', class),
         NEW s, s = q[done + 1]
  PROVE  /\ class \in DOMAIN sigs.hlist /\ q = sigs.hlist[class] /\ r = sigs'.hlist[class]
         /\ done \in Nat /\ Len(q) \in Nat /\ done + 1 \in 1 .. Len(q) /\ Listed(r) /\ Len(r) = Len(q)
         /\ DOMAIN sigs'.hlist = DOMAIN sigs.hlist
         /\ \A c \in DOMAIN sigs.hlist : c # class => sigs'.hlist[c] = sigs.hlist[c]
         /\ \A i \in 1 .. Len(q) : i # done + 1 => r[i] = q[i]
         /\ r[done + 1] = IF Matches(fr, s) THEN s ELSE mark_invalid(s)
         /\ {"name", "flags", "valid"} \subseteq DOMAIN s
<1>1. /\ fate = "running" /\ class # None /\ done < Len(q)
      /\ sigs' = IF Matches(fr, s) THEN sigs
                 ELSE [sigs EXCEPT !.hlist[class][done + 1] = mark_invalid(@)]
  BY DEF add_hooks
<1>2. \A c \in DOMAIN sigs.hlist : SignalRow(sigs.hlist[c])
  BY DEF CountInv, MeansInv, SizedInv, RewriteInv, Shapes
<1>3. done \in Nat /\ Len(q) \in Nat /\ SignalRow(q)
  <2>1. SignalRow(q)
    BY <1>2, OfClassRow
  <2>2. Len(q) \in Nat
    BY <2>1, SignalRowIsRow DEF Row
  <2> QED BY <1>1, <2>1, <2>2 DEF CountInv, MeansInv, SizedInv, RewriteInv, InHand
<1>4. class \in DOMAIN sigs.hlist /\ q = sigs.hlist[class] /\ done + 1 \in 1 .. Len(q)
  <2>1. q # <<>>
    <3>1. Len(<<>>) = 0
      OBVIOUS
    <3> QED BY <1>1, <1>3, <3>1
  <2> QED BY <1>1, <1>3, <2>1 DEF OfClass, is_signal_class
<1>5. {"name", "flags", "valid"} \subseteq DOMAIN s
  <2>1. {"name", "flags"} \subseteq DOMAIN s
    BY <1>3, <1>4 DEF SignalRow
  <2>2. Judged(world.files[class].methods, s)
    BY <1>4 DEF CountInv, JudgedAll
  <2> QED BY <2>1, <2>2 DEF Judged
<1>6. DOMAIN sigs = {"hlist", "markerFields"}
  BY DEF CountInv, MeansInv, SizedInv, RewriteInv, Shapes
<1>7. PICK t : t = mark_invalid(s)
  OBVIOUS
<1>8. /\ DOMAIN sigs'.hlist = DOMAIN sigs.hlist
      /\ \A c \in DOMAIN sigs.hlist : c # class => sigs'.hlist[c] = sigs.hlist[c]
      /\ sigs'.hlist[class] = IF Matches(fr, s) THEN q ELSE [q EXCEPT ![done + 1] = t]
  <2>1. CASE Matches(fr, s)
    BY <1>1, <1>4, <2>1
  <2>2. CASE ~Matches(fr, s)
    BY <1>1, <1>4, <1>6, <1>7, <2>2
  <2> QED BY <2>1, <2>2
<1>9. r = sigs'.hlist[class]
  BY <1>4, <1>8 DEF OfClass, is_signal_class
<1>10. PICK S : q \in Seq(S)
  BY <1>3 DEF SignalRow
<1>11. /\ Len(r) = Len(q) /\ r \in Seq(S \cup {t})
       /\ \A i \in 1 .. Len(q) : i # done + 1 => r[i] = q[i]
       /\ r[done + 1] = IF Matches(fr, s) THEN s ELSE t
  <2>1. CASE Matches(fr, s)
    BY <1>8, <1>9, <1>10, <2>1
  <2>2. CASE ~Matches(fr, s)
    <3>1. PICK j : j = done + 1
      OBVIOUS
    <3>2. r = [q EXCEPT ![j] = t] /\ j \in 1 .. Len(q) /\ q \in Seq(S)
      BY <1>4, <1>8, <1>9, <1>10, <2>2, <3>1
    <3>3. /\ Len(r) = Len(q) /\ r \in Seq(S \cup {t})
          /\ \A i \in 1 .. Len(q) : i # j => r[i] = q[i]
          /\ r[j] = t
      BY <3>2
    <3> QED BY <2>2, <3>1, <3>3
  <2> QED BY <2>1, <2>2
<1> QED BY <1>3, <1>4, <1>5, <1>7, <1>8, <1>9, <1>11 DEF Listed

LEMMA HooksCount ==
  ASSUME Numerals(Nat), CountInv, add_hooks
  PROVE  LinesIn' /\ JudgedAll(sigs.hlist)' /\ CountInHand' /\ CountGiven'
<1>1. PICK q, r : q = OfClass(sigs, class) /\ r = OfClass(sigs', class)
  OBVIOUS
<1>2. PICK s, m : s = q[done + 1] /\ m = done + 1
  OBVIOUS
<1>3. /\ class \in DOMAIN sigs.hlist /\ q = sigs.hlist[class] /\ r = sigs'.hlist[class]
      /\ done \in Nat /\ Len(q) \in Nat /\ m \in 1 .. Len(q) /\ Listed(r) /\ Len(r) = Len(q)
      /\ DOMAIN sigs'.hlist = DOMAIN sigs.hlist
      /\ \A c \in DOMAIN sigs.hlist : c # class => sigs'.hlist[c] = sigs.hlist[c]
      /\ \A i \in 1 .. Len(q) : i # m => r[i] = q[i]
      /\ r[m] = IF Matches(fr, s) THEN s ELSE mark_invalid(s)
      /\ {"name", "flags", "valid"} \subseteq DOMAIN s
  BY <1>1, <1>2, HookMarks
<1>4. /\ fate = "running" /\ class # None
      /\ fr' = hook(fr, s)
      /\ fate' = "running" => ~Ended(fr')
      /\ handed' = IF fate' # "running" THEN handed ELSE Put(handed, class, load_to_buffer(fr', junk))
      /\ done' = m
      /\ UNCHANGED <<world, junk, lines, class>>
  BY <1>1, <1>2 DEF add_hooks
<1>5. PICK t : t = r[m]
  OBVIOUS
<1>6. /\ t.name = s.name /\ t.flags = s.flags /\ "valid" \in DOMAIN t
      /\ t.valid = IF Matches(fr, s) THEN s.valid ELSE FALSE
  BY <1>3, <1>5, MarkSays
<1>7. PICK file, ms : file = world.files[class] /\ ms = file.methods
  OBVIOUS
<1>8. /\ CountedTo(file, q, done, fr) /\ MarkedTo(ms, q, done)
  BY <1>1, <1>4, <1>7 DEF CountInv, CountInHand
<1>9. Matches(fr, s) <=> FitsClass(ms, t)
  BY <1>6, <1>7, <1>8, FitsMatches, FitsSame DEF CountedTo
<1>10. \A i \in 1 .. Len(q) : r[i].name = q[i].name /\ r[i].flags = q[i].flags
  BY <1>2, <1>3, <1>5, <1>6
<1>11. LinesIn'
  <2>1. PICK n \in Nat : LinesLoaded(n)
    BY <1>4 DEF CountInv, LinesIn
  <2>2. ASSUME NEW k, RunOf("line", <<>>, world.lines, Len(world.lines), k)
        PROVE  Parallel(k[n], sigs'.hlist)
    <3>1. Parallel(k[n], sigs.hlist)
      BY <2>1, <2>2 DEF LinesLoaded
    <3>2. PICK named : named = k[n]
      OBVIOUS
    <3>3. DOMAIN named = DOMAIN sigs'.hlist /\ class \in DOMAIN named
      BY <1>3, <3>1, <3>2 DEF Parallel
    <3>4. \A c \in DOMAIN named : c # class => Both(named[c], sigs'.hlist[c])
      BY <1>3, <3>1, <3>2 DEF Parallel
    <3>5. Both(named[class], r)
      <4>1. Both(named[class], q)
        BY <1>3, <3>1, <3>2, <3>3 DEF Parallel
      <4>2. ASSUME NEW i \in 1 .. Len(named[class]) PROVE From(r[i], named[class][i])
        BY <1>10, <4>1 DEF Both, From
      <4> QED BY <1>3, <4>1, <4>2 DEF Both
    <3>6. \A c \in DOMAIN named : Both(named[c], sigs'.hlist[c])
      BY <1>3, <3>4, <3>5
    <3> QED BY <3>2, <3>3, <3>6 DEF Parallel
  <2>3. LinesLoaded(n)'
    BY <1>4, <2>1, <2>2 DEF LinesLoaded
  <2> QED BY <2>3 DEF LinesIn
<1>12. s.valid \in BOOLEAN /\ (~s.valid => ~FitsClass(ms, s))
  <2>1. Judged(ms, s)
    BY <1>2, <1>3, <1>7 DEF CountInv, JudgedAll
  <2> QED BY <2>1 DEF Judged
<1>13. JudgedAll(sigs.hlist)'
  <2>1. Judged(ms, t)
    <3>1. CASE Matches(fr, s)
      <4>1. t.valid = s.valid /\ (FitsClass(ms, s) <=> FitsClass(ms, t))
        BY <1>6, <3>1, FitsSame
      <4> QED BY <1>6, <1>12, <4>1 DEF Judged
    <3>2. CASE ~Matches(fr, s)
      BY <1>6, <1>9, <3>2 DEF Judged
    <3> QED BY <3>1, <3>2
  <2>2. ASSUME NEW i \in 1 .. Len(r) PROVE Judged(ms, r[i])
    <3>1. CASE i = m
      BY <1>5, <2>1, <3>1
    <3>2. CASE i # m
      BY <1>3, <1>7, <3>2 DEF CountInv, JudgedAll
    <3> QED BY <3>1, <3>2
  <2>3. ASSUME NEW c \in DOMAIN sigs'.hlist, NEW i \in 1 .. Len(sigs'.hlist[c])
        PROVE  Judged(world.files[c].methods, sigs'.hlist[c][i])
    <3>1. CASE c = class
      BY <1>3, <1>7, <2>2, <2>3, <3>1
    <3>2. CASE c # class
      BY <1>3, <2>3, <3>2 DEF CountInv, JudgedAll
    <3> QED BY <3>1, <3>2
  <2> QED BY <1>4, <2>3 DEF JudgedAll
<1>14. CountInHand'
  <2> SUFFICES ASSUME fate' = "running" PROVE CountInHand'
    BY DEF CountInHand
  <2>1. SameRead(fr, fr) /\ ClassSized(ms, fr) /\ ClassMeans(fr, file.pool)
    BY <1>4, <1>7 DEF CountInv, MeansInv, MeansInHand, SizedInv, SizedInHand, RewriteInv, Shapes
  <2>2. SignalFit(s)
    <3>1. PICK n \in Nat : LinesLoaded(n)
      BY <1>4 DEF CountInv, LinesIn
    <3>2. PICK l \in Nat : l = Len(world.lines) /\ DOMAIN world.lines = 1 .. l
      <4>1. InRow(world.lines)
        BY LinesAssumption DEF CountInv, MeansInv, SizedInv, RewriteInv, Shapes
      <4> QED BY <4>1 DEF InRow
    <3>3. PICK k : RunOf("line", <<>>, world.lines, l, k)
      BY <3>2, LineFold
    <3>4. PICK named : named = k[n] /\ Parallel(named, sigs.hlist)
      BY <3>1, <3>2, <3>3 DEF LinesLoaded
    <3>5. Both(named[class], q)
      BY <1>3, <3>4 DEF Parallel
    <3>6. From(s, named[class][m])
      BY <1>2, <1>3, <3>5 DEF Both
    <3> QED BY <3>6, FromFits
  <2>3. CountedTo(file, q, m, fr')
    BY <1>2, <1>3, <1>4, <1>7, <1>8, <2>1, <2>2, HookCounted
  <2>4. \A i \in 1 .. m : i \in 1 .. Len(q)
    BY <1>3
  <2>5. \A i \in 1 .. m : q[i].name = r[i].name /\ q[i].flags = r[i].flags
    BY <1>10, <2>4
  <2>6. CountedTo(file, r, m, fr')
    BY <2>3, <2>5, CountedSame
  <2>7. MarkedTo(ms, r, m)
    <3> SUFFICES ASSUME NEW i \in 1 .. m, r[i].valid PROVE FitsClass(ms, r[i])
      BY DEF MarkedTo
    <3>1. CASE i = m
      BY <1>5, <1>6, <1>9, <3>1
    <3>2. CASE i # m
      <4>1. i \in 1 .. done /\ r[i] = q[i]
        BY <1>2, <1>3, <2>4, <3>2
      <4> QED BY <1>8, <4>1 DEF MarkedTo
    <3> QED BY <3>1, <3>2
  <2>8. handed'[class] = load_to_buffer(fr', junk)
    BY <1>4 DEF Put
  <2>9. done' # 0
    BY <1>2, <1>3, <1>4
  <2> QED BY <1>1, <1>4, <1>7, <2>6, <2>7, <2>8, <2>9 DEF CountInHand
<1>15. PICK c : c = class
  OBVIOUS
<1>16. GivenBut(c)'
  <2>1. GivenBut(c)
    BY <1>15 DEF CountInv, CountGiven, GivenBut
  <2>2. \A d : d # c => OfClass(sigs', d) = OfClass(sigs, d)
    BY <1>3, <1>15 DEF OfClass, is_signal_class
  <2>3. \A d \in DOMAIN handed' : d # c => d \in DOMAIN handed /\ handed'[d] = handed[d]
    BY <1>4, <1>15 DEF Put
  <2> QED BY <1>4, <2>1, <2>2, <2>3, OthersStay
<1>17. CountGiven'
  BY <1>4, <1>15, <1>16 DEF CountGiven, GivenBut
<1> QED BY <1>11, <1>13, <1>14, <1>17

LEMMA CountKept ==
  ASSUME Numerals(Nat), CountInv, [HookNext]_allVars
  PROVE  CountInv'
<1>1. MeansInv'
  BY MeansKept DEF CountInv
<1>2. CASE Next
  BY <1>1, <1>2, LoadLineCounts, PackageCounts, ReadClassCounts, HooksCount, LeaveCounts, RemoveCounts DEF Next, CountInv
<1>3. CASE thook
  BY <1>1, <1>3, RestCounts DEF thook, CountInv
<1>4. CASE UNCHANGED allVars
  BY <1>1, <1>4, RestCounts DEF allVars, vars, CountInv
<1> QED BY <1>2, <1>3, <1>4 DEF HookNext

(* What refers to a method of the agent.                                   *)
LEMMA RefMeans ==
  ASSUME NEW p, PoolSound(p), NEW m \in AgentMethods, NEW h \in AgentMethods, NEW i, MeansRef(p, i, m)
  PROVE  MeansRef(p, i, h) <=> IsMethodRef(p, i, h)
<1>1. IsMethodRef(p, i, m)
  BY RefFound
<1>2. ASSUME IsMethodRef(p, i, h) PROVE MeansRef(p, i, h)
  <2>1. PICK e : e = At(p, At(p, At(p, i).refs[2]).refs[1])
    OBVIOUS
  <2>2. e = Utf8(m.name) /\ e = Utf8(h.name)
    BY <1>1, <1>2, <2>1 DEF IsMethodRef
  <2>3. Utf8(m.name).text = m.name /\ Utf8(h.name).text = h.name
    BY DEF Utf8, Entry
  <2>4. m = h
    BY <2>2, <2>3, AgentNames
  <2> QED BY <2>4
<1> QED BY <1>2, RefFound

LEMMA CallsCounted ==
  ASSUME NEW c, NEW w, CodeSound(w.code), NEW p, p = handed[c].pool, PoolSound(p), CodeMeans(p, w.code),
         NEW h \in Hooks
  PROVE  CallsOf(c, w, h) = CodeMarks(w.code, RefCalls(p, h), {})
<1>1. PICK n \in Nat : DOMAIN w.code = 1 .. n /\ n = Len(w.code)
  BY DEF CodeSound, Listed
<1>2. h \in AgentMethods
  BY AgentNames
<1> DEFINE CallsHook(k) == /\ w.code[k].no = 0 /\ w.code[k].op = "invokestatic"
                         /\ IsMethodRef(p, w.code[k].arg, h)
           A == {k \in 1 .. n : CallsHook(k)}
           B == {k \in 1 .. n : Marked(w.code[k], RefCalls(p, h), {})}
<1>3. ASSUME NEW k \in 1 .. n PROVE CallsHook(k) <=> Marked(w.code[k], RefCalls(p, h), {})
  <2>1. PICK i : i = w.code[k]
    OBVIOUS
  <2>2. Marked(i, RefCalls(p, h), {}) <=> i.op = "invokestatic" /\ i.no = 0 /\ MeansRef(p, i.arg, h)
    BY RefCall DEF Marked, What
  <2>3. ASSUME i.no = 0, i.op = "invokestatic" PROVE MeansRef(p, i.arg, h) <=> IsMethodRef(p, i.arg, h)
    <3>1. Means(p, i.op, i.arg)
      BY <1>1, <2>1, <2>3 DEF CodeMeans
    <3>2. PICK m \in AgentMethods : MeansRef(p, i.arg, m)
      BY <2>3, <3>1 DEF Means
    <3> QED BY <1>2, <3>2, RefMeans
  <2> QED BY <2>1, <2>2, <2>3
<1>4. A = B
  BY <1>3
<1>5. CodeMarks(w.code, RefCalls(p, h), {}) = Cardinality(B)
  BY <1>1 DEF CodeMarks, Marks
<1>6. CallsOf(c, w, h) = Cardinality(A)
  BY <1>1 DEF CallsOf
<1> QED BY <1>4, <1>5, <1>6

(* The signals of a class that was hooked are those of its lines.          *)
LEMMA LinesAll ==
  ASSUME CountInv, NEW c \in DOMAIN handed
  PROVE  Both(LinesOf(c), OfClass(sigs, c)) /\ DOMAIN LinesByClass = DOMAIN sigs.hlist
<1>1. lines = <<>> /\ world \in Worlds
  BY DEF CountInv, MeansInv, SizedInv, RewriteInv, Shapes
<1>2. PICK n \in Nat : LinesLoaded(n)
  BY DEF CountInv, LinesIn
<1>3. InRow(world.lines)
  BY <1>1, LinesAssumption
<1>4. Len(world.lines) = n /\ DOMAIN world.lines = 1 .. n
  BY <1>1, <1>2, <1>3 DEF LinesLoaded, InRow
<1>5. PICK k : RunOf("line", <<>>, world.lines, n, k) /\ FoldLeft(WithLine, <<>>, world.lines) = k[n]
  BY <1>4, LineFold
<1>6. Parallel(LinesByClass, sigs.hlist)
  BY <1>2, <1>4, <1>5 DEF LinesLoaded, LinesByClass
<1>7. Both(<<>>, <<>>)
  <2>1. <<>> \in Seq({}) /\ Len(<<>>) = 0
    OBVIOUS
  <2> QED BY <2>1 DEF Both, Listed
<1> QED BY <1>6, <1>7 DEF Parallel, LinesOf, OfClass, is_signal_class

LEMMA TimesSame ==
  ASSUME NEW c, NEW q, Both(LinesOf(c), q), NEW key, key.type # "", NEW flag
  PROVE  TimesIn(flag, q, Len(q), key) = Times(flag, c, key)
<1>1. PICK a : a = LinesOf(c)
  OBVIOUS
<1>2. PICK n \in Nat : n = Len(a) /\ DOMAIN a = 1 .. n /\ n = Len(q)
  <2>1. Listed(a) /\ Len(a) = Len(q)
    BY <1>1 DEF Both
  <2> QED BY <2>1, ListedRow DEF Row
<1>3. \A k \in 1 .. n : AskOf(q[k], key) = Asks(a[k], key)
  BY <1>1, <1>2, FromAsks DEF Both
<1>4. {k \in 1 .. n : flag \in AskOf(q[k], key)} = {k \in 1 .. n : flag \in Asks(a[k], key)}
  BY <1>3
<1> QED BY <1>1, <1>2, <1>4 DEF TimesIn, Times

LEMMA CountInvSays ==
  ASSUME CountInv
  PROVE  HooksAsAsked
<1>1. ASSUME NEW c \in DOMAIN handed \ {Package}, Settled(c), NEW q, q = OfClass(sigs, c),
             NEW x \in Methods(c), x.hasCode, ~Confused(c), NEW w, w = Written(c, x),
             NEW exits, exits = Len(FileExits(x))
      PROVE  /\ CallsOf(c, w, HOOK_SIGNAL_DESCRIPTOR) = Times("ENTER", c, x.key) + exits * Times("EXIT", c, x.key)
             /\ CallsOf(c, w, HOOK_TIMER_DESCRIPTOR) = (1 + exits) * Times("TIMER", c, x.key)
             /\ CallsOf(c, w, HOOK_MONITOR_HEAP_DESCRIPTOR) =
                  IF CallsSuperFirst(x) THEN Times("HEAP", c, x.key) ELSE 0
  <2>1. PICK f : Finished(c, f, q)
    BY <1>1 DEF CountInv, CountGiven, Settled
  <2>2. PICK p : p = f.pool
    OBVIOUS
  <2>3. handed[c].pool = p /\ Clear(p, world.files[c].pool) /\ PoolSound(p)
    <3>1. handed[c].pool = p
      BY <2>1, <2>2, WrittenPool DEF Finished
    <3> QED BY <1>1, <2>1, <2>2, <3>1, NotConfused DEF Finished, ClassMeans, PoolFits
  <2>4. x \in ToSet(world.files[c].methods)
    BY <1>1 DEF Methods
  <2>5. x.key \in DOMAIN f.methods /\ Sized(f.methods[x.key], Len(x.exceptions))
    BY <2>1, <2>4 DEF Finished, ClassSized
  <2>6. w = f.methods[x.key]
    <3>1. handed[c].methods[x.key].method = f.methods[x.key]
      BY <2>1, <2>5 DEF Finished, load_to_buffer, write_method
    <3> QED BY <1>1, <3>1 DEF Written
  <2>7. CodeSound(w.code) /\ CodeMeans(p, w.code)
    BY <2>1, <2>2, <2>3, <2>5, <2>6 DEF Sized, Finished, ClassMeans, MethodsMean
  <2>8. HookedAs(p, w, x, Wanted(q, Len(q), x))
    BY <1>1, <2>1, <2>2, <2>3, <2>4, <2>6 DEF Finished, CountedTo
  <2>9. ASSUME NEW h \in Hooks PROVE CallsOf(c, w, h) = DueBy(h, q, Len(q), x)
    <3>1. CallsOf(c, w, h) = CodeMarks(w.code, RefCalls(p, h), {})
      BY <2>3, <2>7, CallsCounted
    <3>2. CodeMarks(w.code, RefCalls(p, h), {}) = Wanted(q, Len(q), x)[h]
      BY <2>8 DEF HookedAs, Tallied
    <3> QED BY <3>1, <3>2 DEF Wanted
  <2>10. x.key.type # ""
    <3>1. c \in DOMAIN world.files /\ world \in Worlds
      BY <1>1 DEF CountInv, MeansInv, SizedInv, RewriteInv, Shapes
    <3>2. IsMethodFile(x)
      BY <2>4, <3>1, WorldsAssumption DEF IsClassFile
    <3> QED BY <3>2 DEF IsMethodFile
  <2>11. Both(LinesOf(c), q)
    BY <1>1, LinesAll
  <2>12. PICK enter, exit, timer, heap : /\ enter = Times("ENTER", c, x.key) /\ exit = Times("EXIT", c, x.key)
                                         /\ timer = Times("TIMER", c, x.key) /\ heap = Times("HEAP", c, x.key)
    OBVIOUS
  <2>13. \A h \in Hooks : DueBy(h, q, Len(q), x) = Due(h, exits, CallsSuperFirst(x), enter, exit, timer, heap)
    <3>1. /\ TimesIn("ENTER", q, Len(q), x.key) = enter /\ TimesIn("EXIT", q, Len(q), x.key) = exit
          /\ TimesIn("TIMER", q, Len(q), x.key) = timer /\ TimesIn("HEAP", q, Len(q), x.key) = heap
      BY <2>10, <2>11, <2>12, TimesSame
    <3> QED BY <1>1, <3>1 DEF DueBy
  <2>14. CallsOf(c, w, HOOK_SIGNAL_DESCRIPTOR) = enter + exits * exit
    <3>1. PICK h : h = HOOK_SIGNAL_DESCRIPTOR
      OBVIOUS
    <3>2. CallsOf(c, w, h) = Due(h, exits, CallsSuperFirst(x), enter, exit, timer, heap)
      BY <2>9, <2>13, <3>1 DEF Hooks
    <3>3. Due(h, exits, CallsSuperFirst(x), enter, exit, timer, heap) = enter + exits * exit
      BY <3>1, ThreeHooks DEF Due
    <3> QED BY <3>1, <3>2, <3>3
  <2>15. CallsOf(c, w, HOOK_TIMER_DESCRIPTOR) = (1 + exits) * timer
    <3>1. PICK h : h = HOOK_TIMER_DESCRIPTOR
      OBVIOUS
    <3>2. CallsOf(c, w, h) = Due(h, exits, CallsSuperFirst(x), enter, exit, timer, heap)
      BY <2>9, <2>13, <3>1 DEF Hooks
    <3>3. Due(h, exits, CallsSuperFirst(x), enter, exit, timer, heap) = (1 + exits) * timer
      BY <3>1, ThreeHooks DEF Due
    <3> QED BY <3>1, <3>2, <3>3
  <2>16. CallsOf(c, w, HOOK_MONITOR_HEAP_DESCRIPTOR) = IF CallsSuperFirst(x) THEN heap ELSE 0
    <3>1. PICK h : h = HOOK_MONITOR_HEAP_DESCRIPTOR
      OBVIOUS
    <3>2. CallsOf(c, w, h) = Due(h, exits, CallsSuperFirst(x), enter, exit, timer, heap)
      BY <2>9, <2>13, <3>1 DEF Hooks
    <3>3. Due(h, exits, CallsSuperFirst(x), enter, exit, timer, heap) = IF CallsSuperFirst(x) THEN heap ELSE 0
      BY <3>1, ThreeHooks DEF Due
    <3> QED BY <3>1, <3>2, <3>3
  <2> QED BY <2>12, <2>14, <2>15, <2>16
<1>2. ASSUME NEW c \in DOMAIN handed \ {Package}, Settled(c), NEW k \in DOMAIN LinesOf(c),
             NEW line, line = LinesOf(c)[k]
      PROVE  sigs.hlist[c][k].valid =
               \/ line.heap
               \/ \E f \in Methods(c) : Asks(line, f.key) # {} /\ (Constructor(f.key) => line.method.name \in Starred)
               \/ line.method.name \in Starred /\ line.flags # <<"TIMER">>
  <2>1. PICK q, ms : q = OfClass(sigs, c) /\ ms = world.files[c].methods
    OBVIOUS
  <2>2. PICK f : Finished(c, f, q)
    BY <1>2, <2>1 DEF CountInv, CountGiven, Settled
  <2>3. Both(LinesOf(c), q) /\ DOMAIN LinesByClass = DOMAIN sigs.hlist
    BY <1>2, <2>1, LinesAll
  <2>4. c \in DOMAIN sigs.hlist /\ q = sigs.hlist[c]
    <3>1. c \in DOMAIN LinesByClass
      BY <1>2 DEF LinesOf
    <3> QED BY <2>1, <2>3, <3>1 DEF OfClass, is_signal_class
  <2>5. k \in 1 .. Len(q) /\ From(q[k], line)
    BY <1>2, <2>3 DEF Both, Listed
  <2>6. \A x \in ToSet(ms) : x.key.type # ""
    <3>1. c \in DOMAIN world.files /\ world \in Worlds
      BY <1>2 DEF CountInv, MeansInv, SizedInv, RewriteInv, Shapes
    <3> QED BY <2>1, <3>1, WorldsAssumption DEF IsClassFile, IsMethodFile
  <2>7. FitsClass(ms, q[k]) <=> Hooking(ms, line)
    BY <2>5, <2>6, FromAsks
  <2>8. Judged(ms, q[k])
    BY <2>1, <2>4, <2>5 DEF CountInv, JudgedAll
  <2>9. q[k].valid => FitsClass(ms, q[k])
    BY <2>1, <2>2, <2>5 DEF Finished, MarkedTo
  <2>10. q[k].valid \in BOOLEAN /\ (q[k].valid <=> Hooking(ms, line))
    BY <2>7, <2>8, <2>9 DEF Judged
  <2>11. Hooking(ms, line) <=>
           \/ line.heap
           \/ \E x \in Methods(c) : Asks(line, x.key) # {} /\ (Constructor(x.key) => line.method.name \in Starred)
           \/ line.method.name \in Starred /\ line.flags # <<"TIMER">>
    BY <2>1 DEF Hooking, Methods
  <2>12. PICK v : v = sigs.hlist[c][k].valid
    OBVIOUS
  <2>13. v \in BOOLEAN /\ (v <=> Hooking(ms, line))
    BY <2>4, <2>10, <2>12
  <2> QED BY <2>11, <2>12, <2>13
<1> QED BY <1>1, <1>2 DEF HooksAsAsked

(* The methods of a class have the hooks its lines ask for, no more and no *)
(* fewer, however many lines name a method, whatever their flags are and   *)
(* however the code was changed by the hooks before; and a signal is       *)
(* marked invalid exactly if there is nothing it could hook.               *)
THEOREM HooksAreAsAsked ==
  ASSUME Numerals(Nat)
  PROVE  HookSpec => []HooksAsAsked
<1>1. HookInit => CountInv
  BY CountInit
<1>2. CountInv /\ [HookNext]_allVars => CountInv'
  BY CountKept
<1>3. CountInv => HooksAsAsked
  BY CountInvSays
<1> QED BY <1>1, <1>2, <1>3, PTL DEF HookSpec
=============================================================================
