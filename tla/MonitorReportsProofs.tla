------------------------ MODULE MonitorReportsProofs ------------------------
(***************************************************************************)
(* What TLAPS proves of MonitorReports, for any reports, classes, timers,  *)
(* sizes and numbers of resets, loads and restarts.                        *)
(*                                                                         *)
(* The first part is about data: induction with a set for the property,    *)
(* folds, sums, sequences and the operators of ReportAccounts,             *)
(* ViewerTables, SessionFile and StackColumns.  Then come the monitor's    *)
(* accounts, what is posted to the windows, and the windows themselves.    *)
(***************************************************************************)
EXTENDS MonitorReports, FiniteSetTheorems, SequenceTheorems, TLAPS
-----------------------------------------------------------------------------
(* Induction, with a set for the property: what WellFoundedInduction says  *)
(* of the order of the naturals, for a set.                                *)
LEMMA Smallest ==
  ASSUME NEW R, R = OpToRel(<, Nat), NEW T, T \subseteq Nat, T # {}
  PROVE  \E x \in T : \A y \in T : ~(<<y, x>> \in R)
<1>1. IsWellFoundedOn(R, Nat)
  BY NatLessThanWellFounded
<1> QED BY <1>1, WFMin

LEMMA Less ==
  ASSUME NEW R, R = OpToRel(<, Nat), NEW x \in Nat, NEW y \in Nat, x < y
  PROVE  <<x, y>> \in R
BY DEF OpToRel

LEMMA NatSetInduction ==
  ASSUME NEW P, 0 \in P, \A n \in Nat : n \in P => n + 1 \in P
  PROVE  \A n \in Nat : n \in P
<1> SUFFICES ASSUME NEW m \in Nat, m \notin P
             PROVE  FALSE
  OBVIOUS
<1>0. PICK R : R = OpToRel(<, Nat)
  OBVIOUS
<1> DEFINE T == Nat \ P
<1>1. T \subseteq Nat /\ T # {}
  OBVIOUS
<1>2. PICK x \in T : \A y \in T : ~(<<y, x>> \in R)
  BY <1>0, <1>1, Smallest
<1>3. x \in Nat /\ x # 0 /\ x - 1 \in Nat /\ x - 1 < x
  OBVIOUS
<1>4. <<x - 1, x>> \in R
  BY <1>0, <1>3, Less
<1>5. x - 1 \in P
  BY <1>2, <1>3, <1>4
<1>6. x - 1 + 1 = x
  BY <1>3
<1> QED BY <1>3, <1>5, <1>6

LEMMA FiniteSetInduction ==
  ASSUME NEW S, IsFiniteSet(S), NEW P, {} \in P,
         \A T \in SUBSET S : \A x \in S \ T : T \in P => T \cup {x} \in P
  PROVE  S \in P
<1> DEFINE Q == {n \in Nat : \A T \in SUBSET S : Cardinality(T) = n => T \in P}
<1>0. \A T \in SUBSET S : IsFiniteSet(T) /\ Cardinality(T) \in Nat
  BY FS_Subset, FS_CardinalityType
<1>1. 0 \in Q
  BY <1>0, FS_EmptySet
<1>2. ASSUME NEW n \in Nat, n \in Q PROVE n + 1 \in Q
  <2> SUFFICES ASSUME NEW T \in SUBSET S, Cardinality(T) = n + 1
               PROVE  T \in P
    OBVIOUS
  <2>0. T # {}
    BY <1>0, FS_EmptySet
  <2>1. PICK x \in T : TRUE
    BY <2>0
  <2>2. T \ {x} \in SUBSET S /\ Cardinality(T \ {x}) = n /\ (T \ {x}) \cup {x} = T
    BY <1>0, <2>1, FS_RemoveElement
  <2>3. T \ {x} \in P
    BY <1>2, <2>2
  <2> QED BY <2>1, <2>2, <2>3
<1>3. Cardinality(S) \in Q
  <2> HIDE DEF Q
  <2> QED BY <1>0, <1>1, <1>2, NatSetInduction
<1> QED BY <1>3
-----------------------------------------------------------------------------
(* The steps of the folds below, each by a name: a lemma cannot be applied *)
(* to an operator.                                                         *)
Applied(name, a, b) ==
  CASE name = "sum"     -> b + a
    [] name = "frame"   -> KeptFrame(a, b)
    [] name = "signal"  -> SignalAdd(a, b)
    [] name = "signals" -> PutSignals(a, b)
    [] name = "timer"   -> PutTimer(a, b)
    [] name = "trace"   -> TraceShown(a, b)
    [] name = "list"    -> ListUpdated(a, b)
    [] name = "lists"   -> SignalsShown(a, b)
    [] name = "timed"   -> TimedListUpdated(a, b)
    [] name = "jam"     -> PutJammed(a, b)
    [] name = "row"     -> JammedRow(a, b)
    [] name = "class"   -> ClassLoaded(a, b)

(* A fold over the elements of S, pick[s] being the next one of s.         *)
FoldStep(name, base, q, pick, h, s) ==
  IF s = {} THEN base ELSE Applied(name, h[s \ {pick[s]}], q[pick[s]])

IsFold(name, base, q, pick, S, h) == h = [s \in SUBSET S |-> FoldStep(name, base, q, pick, h, s)]

Picks(pick, S) == \A s \in SUBSET S : s # {} => pick[s] \in s

PicksLast(pick, n) == pick = [s \in SUBSET (1 .. n) |-> Max(s)]

Small(S, n) == {s \in SUBSET S : Cardinality(s) <= n}

LEMMA FoldExists ==
  ASSUME NEW S, IsFiniteSet(S), NEW name, NEW base, NEW q, NEW pick, Picks(pick, S)
  PROVE  \E h : IsFold(name, base, q, pick, S, h)
<1> DEFINE Step(h, s) == FoldStep(name, base, q, pick, h, s)
           P == {n \in Nat : \E h : h = [s \in Small(S, n) |-> Step(h, s)]}
<1>0. \A s \in SUBSET S : IsFiniteSet(s) /\ Cardinality(s) \in Nat
  BY FS_Subset, FS_CardinalityType
<1>z. \A s \in SUBSET S : Cardinality(s) = 0 => s = {}
  BY <1>0, FS_EmptySet
<1>c. \A s \in SUBSET S : s # {} =>
         /\ s \ {pick[s]} \in SUBSET S
         /\ Cardinality(s \ {pick[s]}) = Cardinality(s) - 1
  BY <1>0, FS_RemoveElement DEF Picks
<1>1. 0 \in P
  <2>1. PICK h : h = [s \in Small(S, 0) |-> base]
    OBVIOUS
  <2>2. \A s \in Small(S, 0) : Step(h, s) = base
    BY <1>0, <1>z DEF Small, FoldStep
  <2>3. h = [s \in Small(S, 0) |-> Step(h, s)]
    BY <2>1, <2>2
  <2> QED BY <2>3
<1>2. ASSUME NEW n \in Nat, n \in P PROVE n + 1 \in P
  <2>1. PICK h : h = [s \in Small(S, n) |-> Step(h, s)]
    BY <1>2
  <2>2. PICK k : k = [s \in Small(S, n + 1) |-> Step(h, s)]
    OBVIOUS
  <2>3. \A s \in Small(S, n) : k[s] = h[s]
    <3> TAKE s \in Small(S, n)
    <3>1. s \in Small(S, n + 1)
      BY <1>0 DEF Small
    <3>2. k[s] = Step(h, s)
      BY <2>2, <3>1
    <3>3. h[s] = Step(h, s)
      BY <2>1
    <3> QED BY <3>2, <3>3
  <2>4. \A s \in Small(S, n + 1) : Step(h, s) = Step(k, s)
    <3> TAKE s \in Small(S, n + 1)
    <3>1. CASE s = {}
      BY <3>1 DEF FoldStep
    <3>2. CASE s # {}
      <4>1. s \ {pick[s]} \in Small(S, n)
        BY <1>0, <1>c, <3>2 DEF Small
      <4>2. k[s \ {pick[s]}] = h[s \ {pick[s]}]
        BY <2>3, <4>1
      <4> QED BY <3>2, <4>2 DEF FoldStep
    <3> QED BY <3>1, <3>2
  <2>5. k = [s \in Small(S, n + 1) |-> Step(k, s)]
    BY <2>2, <2>4
  <2> QED BY <2>5
<1>3. Cardinality(S) \in P
  <2> HIDE DEF P
  <2> QED BY <1>0, <1>1, <1>2, NatSetInduction
<1>4. Small(S, Cardinality(S)) = SUBSET S
  BY <1>0, FS_Subset DEF Small
<1> QED BY <1>3, <1>4 DEF IsFold

(* The largest of some numbers, as FoldLeft picks the last element.        *)
LEMMA LastOne ==
  ASSUME NEW n \in Nat, NEW s \in SUBSET (1 .. n), s # {}
  PROVE  Max(s) \in s
<1> DEFINE P == {m \in Nat : \A t \in SUBSET (1 .. m) : t # {} => \E x \in t : \A y \in t : x >= y}
<1>1. 0 \in P
  <2>1. 1 .. 0 = {}
    OBVIOUS
  <2> QED BY <2>1
<1>2. ASSUME NEW m \in Nat, m \in P PROVE m + 1 \in P
  <2> SUFFICES ASSUME NEW t \in SUBSET (1 .. m + 1), t # {}
               PROVE  \E x \in t : \A y \in t : x >= y
    OBVIOUS
  <2>1. CASE m + 1 \in t
    BY <2>1
  <2>2. CASE m + 1 \notin t
    BY <1>2, <2>2
  <2> QED BY <2>1, <2>2
<1>3. n \in P
  <2> HIDE DEF P
  <2> QED BY <1>1, <1>2, NatSetInduction
<1> QED BY <1>3 DEF Max

LEMMA LastOfAll ==
  ASSUME NEW n \in Nat, n > 0
  PROVE  Max(1 .. n) = n /\ (1 .. n) \ {n} = 1 .. n - 1
<1>1. n \in 1 .. n /\ \A y \in 1 .. n : n >= y
  OBVIOUS
<1>2. \A x \in 1 .. n : (\A y \in 1 .. n : x >= y) => x = n
  BY <1>1
<1> QED BY <1>1, <1>2 DEF Max

(* A fold from the left goes from each element to the next.                *)
RunOf(name, base, q, n, k) ==
  /\ k[0] = base
  /\ \A i \in 1 .. n : k[i] = Applied(name, k[i - 1], q[i])

LEMMA FoldRuns ==
  ASSUME NEW n \in Nat, NEW name, NEW base, NEW q, NEW h, NEW pick,
         PicksLast(pick, n), IsFold(name, base, q, pick, 1 .. n, h)
  PROVE  \E k : RunOf(name, base, q, n, k) /\ h[1 .. n] = k[n]
<1>1. PICK k : k = [i \in 0 .. n |-> h[1 .. i]]
  OBVIOUS
<1>2. k[0] = base
  <2>1. h[{}] = base
    BY DEF FoldStep, IsFold
  <2> QED BY <1>1, <2>1
<1>3. ASSUME NEW i \in 1 .. n PROVE k[i] = Applied(name, k[i - 1], q[i])
  <2>1. 1 .. i \in SUBSET (1 .. n) /\ i \in 1 .. i /\ i - 1 \in 0 .. n
    OBVIOUS
  <2>0. 1 .. i # {}
    BY <2>1
  <2>2. pick[1 .. i] = i /\ (1 .. i) \ {i} = 1 .. i - 1
    BY <2>1, LastOfAll DEF PicksLast
  <2>5. h[1 .. i] = FoldStep(name, base, q, pick, h, 1 .. i)
    BY <2>1 DEF IsFold
  <2>3. h[1 .. i] = Applied(name, h[1 .. i - 1], q[i])
    BY <2>0, <2>2, <2>5 DEF FoldStep
  <2>4. k[i] = h[1 .. i] /\ k[i - 1] = h[1 .. i - 1]
    BY <1>1, <2>1
  <2> QED BY <2>3, <2>4
<1>4. h[1 .. n] = k[n]
  BY <1>1
<1> QED BY <1>2, <1>3, <1>4 DEF RunOf

LEMMA FoldLeftExists ==
  ASSUME NEW n \in Nat, NEW q, NEW name, NEW base
  PROVE  \E pick, h : PicksLast(pick, n) /\ IsFold(name, base, q, pick, 1 .. n, h)
<1>1. PICK pick : PicksLast(pick, n)
  BY DEF PicksLast
<1>2. Picks(pick, 1 .. n)
  BY <1>1, LastOne DEF Picks, PicksLast
<1>3. IsFiniteSet(1 .. n)
  BY FS_Interval
<1>4. \E h : IsFold(name, base, q, pick, 1 .. n, h)
  BY <1>2, <1>3, FoldExists
<1> QED BY <1>1, <1>4

(* What FoldLeft is, for each of the operators that it is used with.       *)
LEMMA FrameFold ==
  ASSUME NEW n \in Nat, NEW q, DOMAIN q = 1 .. n, NEW base
  PROVE  \E k : RunOf("frame", base, q, n, k) /\ FoldLeft(KeptFrame, base, q) = k[n]
<1> DEFINE Steps(h) == [s \in SUBSET (1 .. n) |-> IF s = {} THEN base ELSE KeptFrame(h[s \ {Max(s)}], q[Max(s)])]
           f == CHOOSE h : h = Steps(h)
<1>1. PICK pick, g : PicksLast(pick, n) /\ IsFold("frame", base, q, pick, 1 .. n, g)
  BY FoldLeftExists
<1>2. ASSUME NEW h PROVE IsFold("frame", base, q, pick, 1 .. n, h) <=> h = Steps(h)
  <2>1. \A s \in SUBSET (1 .. n) : FoldStep("frame", base, q, pick, h, s) = Steps(h)[s]
    BY <1>1 DEF FoldStep, Applied, PicksLast
  <2> QED BY <2>1 DEF IsFold
<1>3. IsFold("frame", base, q, pick, 1 .. n, f)
  <2> HIDE DEF Steps
  <2> QED BY <1>1, <1>2
<1>4. FoldLeft(KeptFrame, base, q) = f[1 .. n]
  BY DEF FoldLeft, MapThenFoldSet
<1> HIDE DEF f
<1> QED BY <1>1, <1>3, <1>4, FoldRuns

LEMMA SignalFold ==
  ASSUME NEW n \in Nat, NEW q, DOMAIN q = 1 .. n, NEW base
  PROVE  \E k : RunOf("signal", base, q, n, k) /\ FoldLeft(SignalAdd, base, q) = k[n]
<1> DEFINE Steps(h) == [s \in SUBSET (1 .. n) |-> IF s = {} THEN base ELSE SignalAdd(h[s \ {Max(s)}], q[Max(s)])]
           f == CHOOSE h : h = Steps(h)
<1>1. PICK pick, g : PicksLast(pick, n) /\ IsFold("signal", base, q, pick, 1 .. n, g)
  BY FoldLeftExists
<1>2. ASSUME NEW h PROVE IsFold("signal", base, q, pick, 1 .. n, h) <=> h = Steps(h)
  <2>1. \A s \in SUBSET (1 .. n) : FoldStep("signal", base, q, pick, h, s) = Steps(h)[s]
    BY <1>1 DEF FoldStep, Applied, PicksLast
  <2> QED BY <2>1 DEF IsFold
<1>3. IsFold("signal", base, q, pick, 1 .. n, f)
  <2> HIDE DEF Steps
  <2> QED BY <1>1, <1>2
<1>4. FoldLeft(SignalAdd, base, q) = f[1 .. n]
  BY DEF FoldLeft, MapThenFoldSet
<1> HIDE DEF f
<1> QED BY <1>1, <1>3, <1>4, FoldRuns

LEMMA SignalsFold ==
  ASSUME NEW n \in Nat, NEW q, DOMAIN q = 1 .. n, NEW base
  PROVE  \E k : RunOf("signals", base, q, n, k) /\ FoldLeft(PutSignals, base, q) = k[n]
<1> DEFINE Steps(h) == [s \in SUBSET (1 .. n) |-> IF s = {} THEN base ELSE PutSignals(h[s \ {Max(s)}], q[Max(s)])]
           f == CHOOSE h : h = Steps(h)
<1>1. PICK pick, g : PicksLast(pick, n) /\ IsFold("signals", base, q, pick, 1 .. n, g)
  BY FoldLeftExists
<1>2. ASSUME NEW h PROVE IsFold("signals", base, q, pick, 1 .. n, h) <=> h = Steps(h)
  <2>1. \A s \in SUBSET (1 .. n) : FoldStep("signals", base, q, pick, h, s) = Steps(h)[s]
    BY <1>1 DEF FoldStep, Applied, PicksLast
  <2> QED BY <2>1 DEF IsFold
<1>3. IsFold("signals", base, q, pick, 1 .. n, f)
  <2> HIDE DEF Steps
  <2> QED BY <1>1, <1>2
<1>4. FoldLeft(PutSignals, base, q) = f[1 .. n]
  BY DEF FoldLeft, MapThenFoldSet
<1> HIDE DEF f
<1> QED BY <1>1, <1>3, <1>4, FoldRuns

LEMMA TimerFold ==
  ASSUME NEW n \in Nat, NEW q, DOMAIN q = 1 .. n, NEW base
  PROVE  \E k : RunOf("timer", base, q, n, k) /\ FoldLeft(PutTimer, base, q) = k[n]
<1> DEFINE Steps(h) == [s \in SUBSET (1 .. n) |-> IF s = {} THEN base ELSE PutTimer(h[s \ {Max(s)}], q[Max(s)])]
           f == CHOOSE h : h = Steps(h)
<1>1. PICK pick, g : PicksLast(pick, n) /\ IsFold("timer", base, q, pick, 1 .. n, g)
  BY FoldLeftExists
<1>2. ASSUME NEW h PROVE IsFold("timer", base, q, pick, 1 .. n, h) <=> h = Steps(h)
  <2>1. \A s \in SUBSET (1 .. n) : FoldStep("timer", base, q, pick, h, s) = Steps(h)[s]
    BY <1>1 DEF FoldStep, Applied, PicksLast
  <2> QED BY <2>1 DEF IsFold
<1>3. IsFold("timer", base, q, pick, 1 .. n, f)
  <2> HIDE DEF Steps
  <2> QED BY <1>1, <1>2
<1>4. FoldLeft(PutTimer, base, q) = f[1 .. n]
  BY DEF FoldLeft, MapThenFoldSet
<1> HIDE DEF f
<1> QED BY <1>1, <1>3, <1>4, FoldRuns

LEMMA TraceFold ==
  ASSUME NEW n \in Nat, NEW q, DOMAIN q = 1 .. n, NEW base
  PROVE  \E k : RunOf("trace", base, q, n, k) /\ FoldLeft(TraceShown, base, q) = k[n]
<1> DEFINE Steps(h) == [s \in SUBSET (1 .. n) |-> IF s = {} THEN base ELSE TraceShown(h[s \ {Max(s)}], q[Max(s)])]
           f == CHOOSE h : h = Steps(h)
<1>1. PICK pick, g : PicksLast(pick, n) /\ IsFold("trace", base, q, pick, 1 .. n, g)
  BY FoldLeftExists
<1>2. ASSUME NEW h PROVE IsFold("trace", base, q, pick, 1 .. n, h) <=> h = Steps(h)
  <2>1. \A s \in SUBSET (1 .. n) : FoldStep("trace", base, q, pick, h, s) = Steps(h)[s]
    BY <1>1 DEF FoldStep, Applied, PicksLast
  <2> QED BY <2>1 DEF IsFold
<1>3. IsFold("trace", base, q, pick, 1 .. n, f)
  <2> HIDE DEF Steps
  <2> QED BY <1>1, <1>2
<1>4. FoldLeft(TraceShown, base, q) = f[1 .. n]
  BY DEF FoldLeft, MapThenFoldSet
<1> HIDE DEF f
<1> QED BY <1>1, <1>3, <1>4, FoldRuns

LEMMA ListFold ==
  ASSUME NEW n \in Nat, NEW q, DOMAIN q = 1 .. n, NEW base
  PROVE  \E k : RunOf("list", base, q, n, k) /\ FoldLeft(ListUpdated, base, q) = k[n]
<1> DEFINE Steps(h) == [s \in SUBSET (1 .. n) |-> IF s = {} THEN base ELSE ListUpdated(h[s \ {Max(s)}], q[Max(s)])]
           f == CHOOSE h : h = Steps(h)
<1>1. PICK pick, g : PicksLast(pick, n) /\ IsFold("list", base, q, pick, 1 .. n, g)
  BY FoldLeftExists
<1>2. ASSUME NEW h PROVE IsFold("list", base, q, pick, 1 .. n, h) <=> h = Steps(h)
  <2>1. \A s \in SUBSET (1 .. n) : FoldStep("list", base, q, pick, h, s) = Steps(h)[s]
    BY <1>1 DEF FoldStep, Applied, PicksLast
  <2> QED BY <2>1 DEF IsFold
<1>3. IsFold("list", base, q, pick, 1 .. n, f)
  <2> HIDE DEF Steps
  <2> QED BY <1>1, <1>2
<1>4. FoldLeft(ListUpdated, base, q) = f[1 .. n]
  BY DEF FoldLeft, MapThenFoldSet
<1> HIDE DEF f
<1> QED BY <1>1, <1>3, <1>4, FoldRuns

LEMMA ListsFold ==
  ASSUME NEW n \in Nat, NEW q, DOMAIN q = 1 .. n, NEW base
  PROVE  \E k : RunOf("lists", base, q, n, k) /\ FoldLeft(SignalsShown, base, q) = k[n]
<1> DEFINE Steps(h) == [s \in SUBSET (1 .. n) |-> IF s = {} THEN base ELSE SignalsShown(h[s \ {Max(s)}], q[Max(s)])]
           f == CHOOSE h : h = Steps(h)
<1>1. PICK pick, g : PicksLast(pick, n) /\ IsFold("lists", base, q, pick, 1 .. n, g)
  BY FoldLeftExists
<1>2. ASSUME NEW h PROVE IsFold("lists", base, q, pick, 1 .. n, h) <=> h = Steps(h)
  <2>1. \A s \in SUBSET (1 .. n) : FoldStep("lists", base, q, pick, h, s) = Steps(h)[s]
    BY <1>1 DEF FoldStep, Applied, PicksLast
  <2> QED BY <2>1 DEF IsFold
<1>3. IsFold("lists", base, q, pick, 1 .. n, f)
  <2> HIDE DEF Steps
  <2> QED BY <1>1, <1>2
<1>4. FoldLeft(SignalsShown, base, q) = f[1 .. n]
  BY DEF FoldLeft, MapThenFoldSet
<1> HIDE DEF f
<1> QED BY <1>1, <1>3, <1>4, FoldRuns

LEMMA TimedFold ==
  ASSUME NEW n \in Nat, NEW q, DOMAIN q = 1 .. n, NEW base
  PROVE  \E k : RunOf("timed", base, q, n, k) /\ FoldLeft(TimedListUpdated, base, q) = k[n]
<1> DEFINE Steps(h) == [s \in SUBSET (1 .. n) |-> IF s = {} THEN base ELSE TimedListUpdated(h[s \ {Max(s)}], q[Max(s)])]
           f == CHOOSE h : h = Steps(h)
<1>1. PICK pick, g : PicksLast(pick, n) /\ IsFold("timed", base, q, pick, 1 .. n, g)
  BY FoldLeftExists
<1>2. ASSUME NEW h PROVE IsFold("timed", base, q, pick, 1 .. n, h) <=> h = Steps(h)
  <2>1. \A s \in SUBSET (1 .. n) : FoldStep("timed", base, q, pick, h, s) = Steps(h)[s]
    BY <1>1 DEF FoldStep, Applied, PicksLast
  <2> QED BY <2>1 DEF IsFold
<1>3. IsFold("timed", base, q, pick, 1 .. n, f)
  <2> HIDE DEF Steps
  <2> QED BY <1>1, <1>2
<1>4. FoldLeft(TimedListUpdated, base, q) = f[1 .. n]
  BY DEF FoldLeft, MapThenFoldSet
<1> HIDE DEF f
<1> QED BY <1>1, <1>3, <1>4, FoldRuns

LEMMA JamFold ==
  ASSUME NEW n \in Nat, NEW q, DOMAIN q = 1 .. n, NEW base
  PROVE  \E k : RunOf("jam", base, q, n, k) /\ FoldLeft(PutJammed, base, q) = k[n]
<1> DEFINE Steps(h) == [s \in SUBSET (1 .. n) |-> IF s = {} THEN base ELSE PutJammed(h[s \ {Max(s)}], q[Max(s)])]
           f == CHOOSE h : h = Steps(h)
<1>1. PICK pick, g : PicksLast(pick, n) /\ IsFold("jam", base, q, pick, 1 .. n, g)
  BY FoldLeftExists
<1>2. ASSUME NEW h PROVE IsFold("jam", base, q, pick, 1 .. n, h) <=> h = Steps(h)
  <2>1. \A s \in SUBSET (1 .. n) : FoldStep("jam", base, q, pick, h, s) = Steps(h)[s]
    BY <1>1 DEF FoldStep, Applied, PicksLast
  <2> QED BY <2>1 DEF IsFold
<1>3. IsFold("jam", base, q, pick, 1 .. n, f)
  <2> HIDE DEF Steps
  <2> QED BY <1>1, <1>2
<1>4. FoldLeft(PutJammed, base, q) = f[1 .. n]
  BY DEF FoldLeft, MapThenFoldSet
<1> HIDE DEF f
<1> QED BY <1>1, <1>3, <1>4, FoldRuns

LEMMA RowFold ==
  ASSUME NEW n \in Nat, NEW q, DOMAIN q = 1 .. n, NEW base
  PROVE  \E k : RunOf("row", base, q, n, k) /\ FoldLeft(JammedRow, base, q) = k[n]
<1> DEFINE Steps(h) == [s \in SUBSET (1 .. n) |-> IF s = {} THEN base ELSE JammedRow(h[s \ {Max(s)}], q[Max(s)])]
           f == CHOOSE h : h = Steps(h)
<1>1. PICK pick, g : PicksLast(pick, n) /\ IsFold("row", base, q, pick, 1 .. n, g)
  BY FoldLeftExists
<1>2. ASSUME NEW h PROVE IsFold("row", base, q, pick, 1 .. n, h) <=> h = Steps(h)
  <2>1. \A s \in SUBSET (1 .. n) : FoldStep("row", base, q, pick, h, s) = Steps(h)[s]
    BY <1>1 DEF FoldStep, Applied, PicksLast
  <2> QED BY <2>1 DEF IsFold
<1>3. IsFold("row", base, q, pick, 1 .. n, f)
  <2> HIDE DEF Steps
  <2> QED BY <1>1, <1>2
<1>4. FoldLeft(JammedRow, base, q) = f[1 .. n]
  BY DEF FoldLeft, MapThenFoldSet
<1> HIDE DEF f
<1> QED BY <1>1, <1>3, <1>4, FoldRuns

LEMMA ClassFold ==
  ASSUME NEW n \in Nat, NEW q, DOMAIN q = 1 .. n, NEW base
  PROVE  \E k : RunOf("class", base, q, n, k) /\ FoldLeft(ClassLoaded, base, q) = k[n]
<1> DEFINE Steps(h) == [s \in SUBSET (1 .. n) |-> IF s = {} THEN base ELSE ClassLoaded(h[s \ {Max(s)}], q[Max(s)])]
           f == CHOOSE h : h = Steps(h)
<1>1. PICK pick, g : PicksLast(pick, n) /\ IsFold("class", base, q, pick, 1 .. n, g)
  BY FoldLeftExists
<1>2. ASSUME NEW h PROVE IsFold("class", base, q, pick, 1 .. n, h) <=> h = Steps(h)
  <2>1. \A s \in SUBSET (1 .. n) : FoldStep("class", base, q, pick, h, s) = Steps(h)[s]
    BY <1>1 DEF FoldStep, Applied, PicksLast
  <2> QED BY <2>1 DEF IsFold
<1>3. IsFold("class", base, q, pick, 1 .. n, f)
  <2> HIDE DEF Steps
  <2> QED BY <1>1, <1>2
<1>4. FoldLeft(ClassLoaded, base, q) = f[1 .. n]
  BY DEF FoldLeft, MapThenFoldSet
<1> HIDE DEF f
<1> QED BY <1>1, <1>3, <1>4, FoldRuns
-----------------------------------------------------------------------------
(* Sums over finite sets.                                                  *)
Sums(f, S, h) ==
  h = [s \in SUBSET S |-> IF s = {} THEN 0
                          ELSE f[CHOOSE x \in s : TRUE] + h[s \ {CHOOSE x \in s : TRUE}]]

LEMMA SumFold ==
  ASSUME NEW S, IsFiniteSet(S), NEW f
  PROVE  \E h : Sums(f, S, h) /\ SumFunctionOnSet(f, S) = h[S]
<1> DEFINE Steps(h) == [s \in SUBSET S |-> IF s = {} THEN 0
                          ELSE f[CHOOSE x \in s : TRUE] + h[s \ {CHOOSE x \in s : TRUE}]]
           g == CHOOSE h : h = Steps(h)
<1>1. SumFunctionOnSet(f, S) = g[S]
  BY DEF SumFunctionOnSet, FoldFunctionOnSet, MapThenFoldSet
<1>2. PICK pick : pick = [s \in SUBSET S |-> CHOOSE x \in s : TRUE]
  OBVIOUS
<1>3. Picks(pick, S)
  BY <1>2 DEF Picks
<1>4. PICK k : IsFold("sum", 0, f, pick, S, k)
  BY <1>3, FoldExists
<1>5. k = Steps(k)
  <2>1. \A s \in SUBSET S : FoldStep("sum", 0, f, pick, k, s) = Steps(k)[s]
    BY <1>2 DEF FoldStep, Applied
  <2> QED BY <1>4, <2>1 DEF IsFold
<1>6. g = Steps(g)
  <2> HIDE DEF Steps
  <2> QED BY <1>5
<1>7. Sums(f, S, g)
  BY <1>6 DEF Sums
<1> QED
  <2> HIDE DEF g
  <2> QED BY <1>1, <1>7

LEMMA SumStep ==
  ASSUME NEW S, NEW f, NEW h, Sums(f, S, h), NEW s \in SUBSET S, s # {}
  PROVE  \E x \in s : x = (CHOOSE y \in s : TRUE) /\ h[s] = f[x] + h[s \ {x}]
BY DEF Sums

LEMMA SumNone ==
  ASSUME NEW S, NEW f, NEW h, Sums(f, S, h)
  PROVE  h[{}] = 0
BY DEF Sums

LEMMA OneLess ==
  ASSUME NEW U, NEW n \in Nat, NEW s \in SUBSET U, IsFiniteSet(s), Cardinality(s) = n + 1, NEW x \in s
  PROVE  s \ {x} \in SUBSET U /\ IsFiniteSet(s \ {x}) /\ Cardinality(s \ {x}) = n
BY FS_RemoveElement

LEMMA AllOneLess ==
  ASSUME NEW U, NEW n \in Nat, NEW s \in SUBSET U, Cardinality(s) = n + 1,
         \A t \in SUBSET U : IsFiniteSet(t) /\ Cardinality(t) \in Nat
  PROVE  \A x \in s : s \ {x} \in SUBSET U /\ Cardinality(s \ {x}) = n
BY OneLess

(* A sum depends on the values at the elements only.                       *)
LEMMA SumSame ==
  ASSUME NEW S, NEW T, NEW U \in SUBSET S, U \in SUBSET T, IsFiniteSet(U),
         NEW f, NEW g, NEW h, NEW k, Sums(f, S, h), Sums(g, T, k),
         \A x \in U : f[x] = g[x]
  PROVE  h[U] = k[U]
<1> DEFINE P == {n \in Nat : \A s \in SUBSET U : Cardinality(s) = n => h[s] = k[s]}
<1>0. \A s \in SUBSET U : IsFiniteSet(s) /\ Cardinality(s) \in Nat
  BY FS_Subset, FS_CardinalityType
<1>1. 0 \in P
  <2>1. \A s \in SUBSET U : Cardinality(s) = 0 => s = {}
    BY <1>0, FS_EmptySet
  <2> QED BY <2>1, SumNone
<1>2. ASSUME NEW n \in Nat, n \in P PROVE n + 1 \in P
  <2> SUFFICES ASSUME NEW s \in SUBSET U, Cardinality(s) = n + 1
               PROVE  h[s] = k[s]
    OBVIOUS
  <2>1. s # {}
    BY <1>0, FS_EmptySet
  <2>2. s \in SUBSET S /\ s \in SUBSET T
    OBVIOUS
  <2>3. PICK x \in s : x = (CHOOSE y \in s : TRUE) /\ h[s] = f[x] + h[s \ {x}]
    BY <2>1, <2>2, SumStep
  <2>4. PICK z \in s : z = (CHOOSE y \in s : TRUE) /\ k[s] = g[z] + k[s \ {z}]
    BY <2>1, <2>2, SumStep
  <2>5. x = z
    BY <2>3, <2>4
  <2>6. Cardinality(s \ {x}) = n /\ s \ {x} \in SUBSET U
    <3> HIDE DEF P
    <3>1. \A y \in s : s \ {y} \in SUBSET U /\ Cardinality(s \ {y}) = n
      BY <1>0, AllOneLess
    <3> QED BY <3>1
  <2>7. h[s \ {x}] = k[s \ {x}]
    BY <1>2, <2>6
  <2> QED BY <2>3, <2>4, <2>5, <2>7
<1>3. Cardinality(U) \in P
  <2> HIDE DEF P
  <2> QED BY <1>0, <1>1, <1>2, NatSetInduction
<1> QED BY <1>3

(* Any of the elements can be the first one.                               *)
LEMMA SumTake ==
  ASSUME NEW S, IsFiniteSet(S), NEW f, NEW h, Sums(f, S, h), \A x \in S : f[x] \in Int
  PROVE  \A s \in SUBSET S : h[s] \in Int /\ \A y \in s : h[s] = f[y] + h[s \ {y}]
<1> DEFINE Good(s) == h[s] \in Int /\ \A y \in s : h[s] = f[y] + h[s \ {y}]
           P == {n \in Nat : \A s \in SUBSET S : Cardinality(s) <= n => Good(s)}
<1>0. \A s \in SUBSET S : IsFiniteSet(s) /\ Cardinality(s) \in Nat
  BY FS_Subset, FS_CardinalityType
<1>z. \A s \in SUBSET S : Cardinality(s) = 0 => s = {}
  BY <1>0, FS_EmptySet
<1>1. 0 \in P
  BY <1>0, <1>z, SumNone
<1>2. ASSUME NEW n \in Nat, n \in P PROVE n + 1 \in P
  <2> SUFFICES ASSUME NEW s \in SUBSET S, Cardinality(s) = n + 1
               PROVE  Good(s)
    <3>1. \A s \in SUBSET S : Cardinality(s) <= n + 1 => Cardinality(s) <= n \/ Cardinality(s) = n + 1
      BY <1>0
    <3>2. \A s \in SUBSET S : Cardinality(s) <= n => Good(s)
      BY <1>2
    <3> HIDE DEF Good
    <3> QED BY <3>1, <3>2
  <2>1. s # {}
    BY <1>0, FS_EmptySet
  <2>2. PICK x \in s : x = (CHOOSE y \in s : TRUE) /\ h[s] = f[x] + h[s \ {x}]
    BY <2>1, SumStep
  <2>3. \A y \in s : s \ {y} \in SUBSET S /\ Cardinality(s \ {y}) = n
    <3> HIDE DEF P, Good
    <3> QED BY <1>0, AllOneLess
  <2>4. \A y \in s : Good(s \ {y})
    BY <1>2, <2>3
  <2>5. h[s] \in Int
    <3>1. f[x] \in Int /\ h[s \ {x}] \in Int
      BY <2>4
    <3> HIDE DEF Good, P
    <3> QED BY <2>2, <3>1
  <2>6. ASSUME NEW y \in s PROVE h[s] = f[y] + h[s \ {y}]
    <3>1. CASE x = y
      BY <2>2, <3>1
    <3>2. CASE x # y
      <4>1. (s \ {x}) \ {y} = (s \ {y}) \ {x}
        OBVIOUS
      <4>2. h[s \ {x}] = f[y] + h[(s \ {x}) \ {y}]
        BY <2>4, <3>2
      <4>3. h[s \ {y}] = f[x] + h[(s \ {x}) \ {y}]
        BY <2>4, <3>2, <4>1
      <4>4. h[(s \ {x}) \ {y}] \in Int
        <5>1. (s \ {x}) \ {y} \in SUBSET S /\ Cardinality((s \ {x}) \ {y}) <= n
          <6>1. PICK t : t = s \ {x}
            OBVIOUS
          <6>2. t \in SUBSET S /\ Cardinality(t) = n /\ IsFiniteSet(t) /\ y \in t
            BY <1>0, <2>3, <3>2, <6>1
          <6> HIDE DEF P, Good
          <6>3. Cardinality(t \ {y}) = n - 1 /\ t \ {y} \in SUBSET S
            BY <6>2, FS_RemoveElement
          <6> QED BY <6>1, <6>3
        <5> QED BY <1>2, <5>1
      <4>5. f[x] \in Int /\ f[y] \in Int
        OBVIOUS
      <4> HIDE DEF Good, P
      <4> QED BY <2>2, <4>2, <4>3, <4>4, <4>5
    <3> QED BY <3>1, <3>2
  <2> QED BY <2>5, <2>6
<1>3. Cardinality(S) \in P
  <2> HIDE DEF P
  <2> QED BY <1>0, <1>1, <1>2, NatSetInduction
<1>4. \A s \in SUBSET S : Cardinality(s) <= Cardinality(S)
  BY FS_Subset
<1> QED BY <1>3, <1>4

LEMMA SumEmpty ==
  ASSUME NEW f
  PROVE  SumFunctionOnSet(f, {}) = 0
BY SumFold, SumNone, FS_EmptySet

LEMMA SumEqual ==
  ASSUME NEW S, IsFiniteSet(S), NEW f, NEW g, \A x \in S : f[x] = g[x]
  PROVE  SumFunctionOnSet(f, S) = SumFunctionOnSet(g, S)
<1>1. PICK h : Sums(f, S, h) /\ SumFunctionOnSet(f, S) = h[S]
  BY SumFold
<1>2. PICK k : Sums(g, S, k) /\ SumFunctionOnSet(g, S) = k[S]
  BY SumFold
<1>4. h[S] = k[S]
  <2>1. PICK U : U = S
    OBVIOUS
  <2>2. U \in SUBSET S /\ IsFiniteSet(U) /\ \A x \in U : f[x] = g[x]
    BY <2>1
  <2>3. h[U] = k[U]
    BY <1>1, <1>2, <2>2, SumSame
  <2> QED BY <2>1, <2>3
<1> QED BY <1>1, <1>2, <1>4

LEMMA SumAdd ==
  ASSUME NEW S, IsFiniteSet(S), NEW f, \A x \in S : f[x] \in Int, NEW y \in S
  PROVE  /\ SumFunctionOnSet(f, S) = f[y] + SumFunctionOnSet(f, S \ {y})
         /\ SumFunctionOnSet(f, S) \in Int
<1>1. PICK h : Sums(f, S, h) /\ SumFunctionOnSet(f, S) = h[S]
  BY SumFold
<1>2. IsFiniteSet(S \ {y})
  BY FS_Subset
<1>3. PICK k : Sums(f, S \ {y}, k) /\ SumFunctionOnSet(f, S \ {y}) = k[S \ {y}]
  BY <1>2, SumFold
<1>4. h[S] \in Int /\ h[S] = f[y] + h[S \ {y}]
  <2>1. S \in SUBSET S
    OBVIOUS
  <2>2. h[S] \in Int /\ \A z \in S : h[S] = f[z] + h[S \ {z}]
    BY <1>1, <2>1, SumTake, Z3
  <2> QED BY <2>2
<1>5. h[S \ {y}] = k[S \ {y}]
  <2>1. S \ {y} \in SUBSET S /\ S \ {y} \in SUBSET (S \ {y})
    OBVIOUS
  <2> QED BY <1>1, <1>2, <1>3, <2>1, SumSame
<1> QED BY <1>1, <1>3, <1>4, <1>5

LEMMA SumType ==
  ASSUME NEW S, IsFiniteSet(S), NEW f, \A x \in S : f[x] \in Int
  PROVE  SumFunctionOnSet(f, S) \in Int
<1>1. CASE S = {}
  BY <1>1, SumEmpty
<1>2. CASE S # {}
  BY <1>2, SumAdd
<1> QED BY <1>1, <1>2

(* A count more adds one to the sum.                                       *)
LEMMA CountedSum ==
  ASSUME NEW counts, NEW x, IsFiniteSet(DOMAIN counts), \A y \in DOMAIN counts : counts[y] \in Nat
  PROVE  /\ IsFiniteSet(DOMAIN Counted(counts, x))
         /\ \A y \in DOMAIN Counted(counts, x) : Counted(counts, x)[y] \in Nat
         /\ SumFunction(Counted(counts, x)) = SumFunction(counts) + 1
         /\ SumFunction(counts) \in Int
<1> DEFINE D == DOMAIN counts
           c == Counted(counts, x)
<1>1. /\ DOMAIN c = D \cup {x}
      /\ c[x] = At(counts, x, 0) + 1
      /\ \A y \in D \ {x} : c[y] = counts[y]
  BY DEF Counted, Put
<1>2. At(counts, x, 0) \in Nat
  BY DEF At
<1>3. IsFiniteSet(D \cup {x}) /\ IsFiniteSet(D \ {x})
  BY FS_AddElement, FS_Subset
<1>4. \A y \in D \cup {x} : c[y] \in Nat
  BY <1>1, <1>2
<1>5. (D \cup {x}) \ {x} = D \ {x}
  OBVIOUS
<1>6. SumFunctionOnSet(c, D \cup {x}) = c[x] + SumFunctionOnSet(c, D \ {x})
  <2>1. \A y \in D \cup {x} : c[y] \in Int
    BY <1>4
  <2>2. x \in D \cup {x}
    OBVIOUS
  <2> HIDE DEF c, D
  <2> QED BY <1>3, <1>5, <2>1, <2>2, SumAdd
<1>7. SumFunctionOnSet(c, D \ {x}) = SumFunctionOnSet(counts, D \ {x})
  <2> HIDE DEF c, D
  <2> QED BY <1>1, <1>3, SumEqual
<1>8. SumFunctionOnSet(counts, D \ {x}) \in Int /\ SumFunctionOnSet(counts, D) \in Int
  BY <1>3, SumType
<1>9. SumFunctionOnSet(counts, D) = At(counts, x, 0) + SumFunctionOnSet(counts, D \ {x})
  <2>1. CASE x \in D
    <3>1. At(counts, x, 0) = counts[x]
      BY <2>1 DEF At
    <3> QED BY <2>1, <3>1, SumAdd
  <2>2. CASE x \notin D
    <3>1. At(counts, x, 0) = 0 /\ D \ {x} = D
      BY <2>2 DEF At
    <3> QED BY <1>8, <3>1
  <2> QED BY <2>1, <2>2
<1>10. SumFunction(c) = SumFunctionOnSet(c, D \cup {x}) /\ SumFunction(counts) = SumFunctionOnSet(counts, D)
  BY <1>1 DEF SumFunction
<1>11. SumFunction(c) = SumFunction(counts) + 1 /\ SumFunction(counts) \in Int
  <2> HIDE DEF c, D
  <2> QED BY <1>1, <1>2, <1>6, <1>7, <1>8, <1>9, <1>10
<1> QED BY <1>1, <1>3, <1>4, <1>11
-----------------------------------------------------------------------------
(* The fields of the monitor's records, and what may wait in its lists.    *)
Shapes ==
  /\ DOMAIN mon = {"heap", "tagOf", "timers", "counters", "jams"}
  /\ DOMAIN program = {"objects", "born", "open", "now"}
  /\ DOMAIN past = {"reports", "resets", "saves", "loads", "presses", "mixed", "muddled", "made", "spent",
                    "sampled", "stale", "shaken", "fresh"}
  /\ requests \in Seq({"reset", "stop_traffic"})
  /\ clearing \in Seq({"timers", "counters", "jams", "heap", "tagOf"})

LEMMA ShapesInit == Init => Shapes
BY EmptySeq DEF Init, Shapes, NewMonitor, NewProgram, NewPast

LEMMA ShapesStep ==
  ASSUME Shapes, [Next]_vars
  PROVE  Shapes'
<1>1. CASE Heap
  <2>1. DOMAIN mon' = DOMAIN mon /\ DOMAIN program' = DOMAIN program /\ DOMAIN past' = DOMAIN past
    BY <1>1 DEF Heap, HeapCreate, HeapFree
  <2>2. requests' = requests /\ clearing' = clearing
    BY <1>1 DEF Heap, HeapCreate, HeapFree, Reported
  <2> QED BY <2>1, <2>2 DEF Shapes
<1>2. CASE Timers
  BY <1>2 DEF Shapes, Timers, Tick, TimerEnter, TimerExit, TimerThrow, Reported, gui
<1>3. CASE Others
  BY <1>3 DEF Shapes, Others, SignalReported, JammedReported, ClassReported, TrafficReported, Reported, gui
<1>4. CASE StartReset
  BY <1>4, HeadTailProperties DEF Shapes, StartReset, gui
<1>5. CASE ClearNext
  <2>1. DOMAIN mon' = DOMAIN mon /\ DOMAIN program' = DOMAIN program /\ DOMAIN past' = DOMAIN past
    BY <1>5 DEF ClearNext, Shapes
  <2>2. clearing' \in Seq({"timers", "counters", "jams", "heap", "tagOf"})
    BY <1>5, HeadTailProperties DEF ClearNext, Shapes
  <2> QED BY <1>5, <2>1, <2>2 DEF ClearNext, Shapes
<1>6. CASE RankMethods
  BY <1>6, HeadTailProperties DEF Shapes, RankMethods, gui
<1>7. CASE Deliver
  BY <1>7 DEF Shapes, Deliver
<1>8. CASE ResetViewers \/ StopTraffic
  <2>1. requests' = Append(requests, "reset") \/ requests' = Append(requests, "stop_traffic")
    BY <1>8 DEF ResetViewers, StopTraffic
  <2>2. requests' \in Seq({"reset", "stop_traffic"})
    BY <2>1, AppendProperties DEF Shapes
  <2> QED BY <1>8, <2>2 DEF Shapes, ResetViewers, StopTraffic, gui
<1>9. CASE (\E key \in SignalKeys : ShowDetail(key)) \/ (\E class \in Classes : ShowHeapDetail(class))
           \/ (\E r \in DOMAIN shown.classes.rows : PressClass(r))
  BY <1>9 DEF Shapes, ShowDetail, ShowHeapDetail, PressClass
<1>10. CASE SessionSave
  BY <1>10 DEF Shapes, SessionSave
<1>11. CASE SessionLoad
  <2>1. requests' = Append(requests, "reset") \/ requests' = requests
    BY <1>11 DEF SessionLoad
  <2>2. requests' \in Seq({"reset", "stop_traffic"})
    BY <2>1, AppendProperties DEF Shapes
  <2>3. DOMAIN past' = DOMAIN past
    BY <1>11 DEF SessionLoad
  <2> QED BY <1>11, <2>2, <2>3 DEF Shapes, SessionLoad
<1>12. CASE Restart
  BY <1>12, EmptySeq DEF Shapes, Restart, Started, NewMonitor, NewProgram, NewPast
<1>13. CASE UNCHANGED vars
  BY <1>13 DEF Shapes, vars
<1> QED BY <1>1, <1>2, <1>3, <1>4, <1>5, <1>6, <1>7, <1>8, <1>9, <1>10, <1>11, <1>12, <1>13
        DEF Next, Listener, Window

(* A step that touches neither the accounts of the heap and the timers nor *)
(* the targets.                                                            *)
Quiet ==
  /\ program' = program
  /\ mon'.heap = mon.heap /\ mon'.tagOf = mon.tagOf /\ mon'.timers = mon.timers
  /\ \A field \in {"mixed", "muddled", "made", "spent"} : past'[field] = past[field]
  /\ past.shaken => past'.shaken
  /\ crashed => crashed'
  /\ ~past'.shaken => /\ clearing' = clearing
                      /\ \A i \in 1 .. Len(requests') : requests'[i] = "reset" =>
                           \E j \in 1 .. Len(requests) : requests[j] = "reset"
                      /\ crashed' = crashed

LEMMA QuietStep ==
  ASSUME Shapes, [Next]_vars
  PROVE  Heap \/ Timers \/ StartReset \/ ClearNext \/ Restart \/ Quiet
<1>3. CASE Others
  BY <1>3 DEF Shapes, Quiet, Others, SignalReported, JammedReported, ClassReported, TrafficReported, Reported, gui
<1>6. CASE RankMethods
  <2>1. requests \in Seq({"reset", "stop_traffic"}) /\ requests # <<>> /\ requests' = Tail(requests)
    BY <1>6 DEF RankMethods, Shapes
  <2>2. \A i \in 1 .. Len(requests') : i + 1 \in 1 .. Len(requests) /\ requests'[i] = requests[i + 1]
    BY <2>1, HeadTailProperties
  <2> QED BY <1>6, <2>2 DEF Quiet, RankMethods, gui
<1>7. CASE Deliver
  BY <1>7 DEF Shapes, Quiet, Deliver
<1>8. CASE ResetViewers
  BY <1>8 DEF Shapes, Quiet, ResetViewers, gui
<1>81. CASE StopTraffic
  <2>2. \A i \in 1 .. Len(requests') : requests'[i] = "reset" =>
                           \E j \in 1 .. Len(requests) : requests[j] = "reset"
    BY <1>81, AppendProperties DEF StopTraffic, Shapes
  <2> QED BY <1>81, <2>2 DEF Shapes, Quiet, StopTraffic, gui
<1>9. CASE (\E key \in SignalKeys : ShowDetail(key)) \/ (\E class \in Classes : ShowHeapDetail(class))
           \/ (\E r \in DOMAIN shown.classes.rows : PressClass(r))
  BY <1>9 DEF Shapes, Quiet, ShowDetail, ShowHeapDetail, PressClass
<1>10. CASE SessionSave
  BY <1>10 DEF Shapes, Quiet, SessionSave
<1>11. CASE SessionLoad
  <2>1. /\ past'.shaken
        /\ \A field \in {"mixed", "muddled", "made", "spent"} : past'[field] = past[field]
    BY <1>11 DEF SessionLoad, Shapes
  <2> QED BY <1>11, <2>1 DEF Quiet, SessionLoad
<1>13. CASE UNCHANGED vars
  BY <1>13 DEF Quiet, vars
<1> QED BY <1>3, <1>6, <1>7, <1>8, <1>81, <1>9, <1>10, <1>11, <1>13 DEF Next, Listener, Window
-----------------------------------------------------------------------------
(* Before anybody has reset the monitor or loaded a session, no map is     *)
(* being cleared or about to be, every object's tag leads to a report, and *)
(* to one that is there.                                                   *)
Calm ==
  ~past.shaken =>
    /\ ~crashed /\ clearing = <<>>
    /\ \A i \in 1 .. Len(requests) : requests[i] # "reset"
    /\ \A o \in program.objects : o.tag \in DOMAIN mon.tagOf
    /\ \A tag \in DOMAIN mon.tagOf : mon.tagOf[tag].left = <<>>

LEMMA CalmInit == Init => Calm
BY DEF Init, Calm, NewPast, NewProgram, NewMonitor, Nothing

LEMMA CalmCreate ==
  ASSUME Shapes, Calm, NEW class, NEW stack, NEW object, NEW tag, HeapCreate(class, stack, object, tag)
  PROVE  Calm'
<1> SUFFICES ASSUME ~past'.shaken PROVE Calm'
  BY DEF Calm
<1>1. /\ ~past.shaken /\ UNCHANGED <<requests, clearing, crashed>>
      /\ mon'.tagOf = Tagged(tag, class)
      /\ \A o \in program'.objects : o.tag = tag \/ o \in program.objects
  BY DEF HeapCreate, Reported, Shapes
<1>2. /\ DOMAIN mon'.tagOf = DOMAIN mon.tagOf \cup {tag}
      /\ mon'.tagOf[tag].left = <<>>
      /\ \A t \in DOMAIN mon.tagOf \ {tag} : mon'.tagOf[t] = mon.tagOf[t]
  BY <1>1 DEF Tagged, Put
<1> QED BY <1>1, <1>2 DEF Calm

LEMMA CalmFree ==
  ASSUME Shapes, Calm, NEW object, HeapFree(object)
  PROVE  Calm'
<1> SUFFICES ASSUME ~past'.shaken PROVE Calm'
  BY DEF Calm
<1>1. ~past.shaken
  BY DEF HeapFree, Shapes
<1>2. object.tag \in DOMAIN mon.tagOf /\ mon.tagOf[object.tag].left = <<>>
  BY <1>1 DEF Calm, HeapFree
<1>3. /\ UNCHANGED <<requests, clearing, crashed>> /\ mon'.tagOf = mon.tagOf
      /\ program'.objects = program.objects \ {object}
  BY <1>2 DEF HeapFree, Reported, Shapes
<1> QED BY <1>1, <1>3 DEF Calm

LEMMA CalmStep ==
  ASSUME Shapes, Calm, [Next]_vars
  PROVE  Calm'
<1>1. CASE Heap
  BY <1>1, CalmCreate, CalmFree DEF Heap
<1>2. CASE Timers
  <2>1. /\ past'.shaken = past.shaken /\ UNCHANGED <<requests, clearing, crashed>> /\ mon'.tagOf = mon.tagOf
        /\ program'.objects = program.objects
    BY <1>2 DEF Timers, Tick, TimerEnter, TimerExit, TimerThrow, Reported, Shapes
  <2> QED BY <2>1 DEF Calm
<1>3. CASE StartReset
  <2>1. past.shaken
    BY <1>3 DEF StartReset, Calm, Shapes
  <2> QED BY <1>3, <2>1 DEF StartReset, Calm
<1>4. CASE ClearNext
  <2>1. past.shaken
    BY <1>4 DEF ClearNext, Calm
  <2>2. past'.shaken = past.shaken
    BY <1>4 DEF ClearNext, Shapes
  <2> QED BY <2>1, <2>2 DEF Calm
<1>5. CASE Restart
  BY <1>5 DEF Restart, Started, Calm, NewPast, NewProgram, NewMonitor, Nothing
<1>6. CASE Quiet
  BY <1>6 DEF Quiet, Calm
<1> QED BY <1>1, <1>2, <1>3, <1>4, <1>5, <1>6, QuietStep

(* The program's tags and counts, the monitor's maps and the channel       *)
(* between them have the shape that the code gives them, whatever the      *)
(* program does and however often Monitor::reset_all empties the maps.     *)
THEOREM ReportShapes == Spec => []Shapes
<1>1. Shapes /\ [Next]_vars => Shapes'
  BY ShapesStep
<1> QED BY <1>1, ShapesInit, PTL DEF Spec

(* No report of a target can stop the program unless somebody has reset it *)
(* or loaded a session since it was started: what Monitor's handlers look  *)
(* up in their maps without a test is there.                               *)
THEOREM NothingButAResetKills == Spec => []OnlyResetKills
<1>1. Shapes /\ Calm /\ [Next]_vars => Calm'
  BY CalmStep
<1>2. Calm => OnlyResetKills
  BY DEF Calm, OnlyResetKills
<1> QED BY <1>1, <1>2, CalmInit, ReportShapes, PTL DEF Spec
-----------------------------------------------------------------------------
(* What is left open of a timed method, and the time of its last call.     *)
Open(key) == At(program.open, key, <<>>)

TimersType ==
  /\ program.now \in Nat
  /\ \A key \in DOMAIN program.open : program.open[key] \in Seq(Nat)
  /\ \A key \in DOMAIN past.spent : past.spent[key] \in Nat
  /\ \A key \in DOMAIN program.open : \A i \in 1 .. Len(program.open[key]) : program.open[key][i] <= program.now
  /\ DOMAIN mon.timers \subseteq TimerKeys

(* A timer that is not muddled has the time of the one activation that is  *)
(* open, if one is.                                                        *)
TimerKept(key) ==
  /\ Open(key) # <<>> => /\ Len(Open(key)) = 1
                         /\ key \in DOMAIN mon.timers
                         /\ mon.timers[key].time = Open(key)[1]
  /\ key \notin DOMAIN mon.timers => At(past.spent, key, 0) = 0
  /\ key \in DOMAIN mon.timers =>
       /\ DOMAIN mon.timers[key] = {"name", "key", "time", "elapsed"}
       /\ mon.timers[key].name = key
       /\ mon.timers[key].elapsed = At(past.spent, key, 0)

TimersKept == TimersType /\ \A key \in TimerKeys \ past.muddled : TimerKept(key)

LEMMA TimersInit == Init => TimersKept
BY DEF Init, TimersKept, TimersType, TimerKept, Open, At, NewPast, NewProgram, NewMonitor, Nothing

LEMMA TimersSame ==
  ASSUME TimersKept, mon'.timers = mon.timers, program'.open = program.open,
         program'.now \in Nat, program'.now >= program.now,
         past'.spent = past.spent, past'.muddled = past.muddled
  PROVE  TimersKept'
BY DEF TimersKept, TimersType, TimerKept, Open

LEMMA OpenType ==
  ASSUME TimersType, NEW key
  PROVE  /\ Open(key) \in Seq(Nat) /\ \A i \in 1 .. Len(Open(key)) : Open(key)[i] <= program.now
         /\ At(past.spent, key, 0) \in Nat
BY EmptySeq DEF TimersType, Open, At

LEMMA TimersEnter ==
  ASSUME Shapes, TimersKept, NEW key \in TimerKeys, TimerEnter(key)
  PROVE  TimersKept'
<1> DEFINE old == At(mon.timers, key, NewTimerReport)
           new == TimerAssign(old, TimerMessage(key, program.now))
           now == Append(Open(key), program.now)
<1>1. /\ mon'.timers = Put(mon.timers, key, new)
      /\ program'.open = Put(program.open, key, now)
      /\ program'.now = program.now /\ past'.spent = past.spent
      /\ past'.muddled = IF Open(key) # <<>> THEN past.muddled \cup {key} ELSE past.muddled
  BY DEF TimerEnter, Shapes, Open
<1>2. now \in Seq(Nat) /\ Len(now) = Len(Open(key)) + 1 /\ \A i \in 1 .. Len(now) : now[i] <= program.now
  BY OpenType, AppendProperties DEF TimersKept, TimersType
<1>3. TimersType'
  <2> HIDE DEF new, now
  <2>1. /\ DOMAIN program'.open = DOMAIN program.open \cup {key}
        /\ \A k \in DOMAIN program'.open : program'.open[k] = IF k = key THEN now ELSE program.open[k]
        /\ DOMAIN mon'.timers = DOMAIN mon.timers \cup {key}
    BY <1>1 DEF Put
  <2> QED BY <1>1, <1>2, <2>1 DEF TimersKept, TimersType
<1>4. ASSUME NEW k \in TimerKeys \ past'.muddled PROVE TimerKept(k)'
  <2>1. CASE k = key
    <3>1. Open(key) = <<>> /\ key \notin past.muddled /\ past'.muddled = past.muddled
      BY <1>1, <1>4, <2>1
    <3>2. now = <<program.now>>
      BY <3>1 DEF TimersKept, TimersType
    <3>3. key \in DOMAIN mon.timers => /\ DOMAIN mon.timers[key] = {"name", "key", "time", "elapsed"}
                                       /\ mon.timers[key].elapsed = At(past.spent, key, 0)
      BY <3>1 DEF TimersKept, TimerKept
    <3>4. key \notin DOMAIN mon.timers => At(past.spent, key, 0) = 0
      BY <3>1 DEF TimersKept, TimerKept
    <3>5. DOMAIN old = {"name", "key", "time", "elapsed"} /\ old.elapsed = At(past.spent, key, 0)
      BY <3>3, <3>4 DEF At, NewTimerReport
    <3>6. /\ DOMAIN new = {"name", "key", "time", "elapsed"} /\ new.time = program.now
          /\ new.name = key /\ new.elapsed = At(past.spent, key, 0)
      <4>1. Larger(old.elapsed, 0) = old.elapsed
        BY <3>5, OpenType DEF Larger, TimersKept
      <4> HIDE DEF old
      <4> QED BY <3>5, <4>1 DEF TimerAssign, TimerMessage
    <3>7. Open(key)' = now /\ key \in DOMAIN mon'.timers /\ mon'.timers[key] = new
      BY <1>1 DEF Open, At, Put
    <3> HIDE DEF new, old, now
    <3>8. Open(key)'[1] = program.now /\ Len(Open(key)') = 1
      BY <3>2, <3>7
    <3> QED BY <1>1, <2>1, <3>6, <3>7, <3>8 DEF TimerKept
  <2>2. CASE k # key
    <3>1. TimerKept(k)
      BY <1>1, <1>4, <2>2 DEF TimersKept
    <3>2. /\ Open(k)' = Open(k) /\ (k \in DOMAIN mon'.timers <=> k \in DOMAIN mon.timers)
          /\ k \in DOMAIN mon.timers => mon'.timers[k] = mon.timers[k]
      <4> HIDE DEF new, now
      <4> QED BY <1>1, <2>2 DEF Open, At, Put
    <3> QED BY <1>1, <3>1, <3>2 DEF TimerKept
  <2> QED BY <2>1, <2>2
<1> QED BY <1>3, <1>4 DEF TimersKept

LEMMA TimersExit ==
  ASSUME Shapes, TimersKept, NEW key \in TimerKeys, NEW i \in 1 .. 2, TimerExit(key, i)
  PROVE  TimersKept'
<1> DEFINE old == At(mon.timers, key, NewTimerReport)
           new == TimerAdd(old, TimerMessage(key, program.now))
           rest == RemoveAt(Open(key), i)
           all  == At(past.spent, key, 0) + program.now - Open(key)[i]
<1>0. i \in 1 .. Len(Open(key)) /\ key \in DOMAIN program.open /\ Open(key) = program.open[key]
  <2>1. i \in DOMAIN Open(key)
    BY DEF TimerExit, Open
  <2>2. Open(key) \in Seq(Nat)
    BY OpenType DEF TimersKept
  <2>3. i \in 1 .. Len(Open(key))
    BY <2>1, <2>2
  <2> QED BY <2>3 DEF Open, At
<1>1. /\ mon'.timers = Put(mon.timers, key, new)
      /\ program'.open = [program.open EXCEPT ![key] = rest]
      /\ program'.now = program.now
      /\ past'.spent = Put(past.spent, key, all)
      /\ past'.muddled = past.muddled
  BY <1>0 DEF TimerExit, Shapes
<1>2. /\ rest \in Seq(Nat) /\ Len(rest) = Len(Open(key)) - 1
      /\ \A j \in 1 .. Len(rest) : rest[j] <= program.now
      /\ all \in Nat
  <2>1. PICK s : s = Open(key)
    OBVIOUS
  <2>2. s \in Seq(Nat) /\ \A j \in 1 .. Len(s) : s[j] <= program.now
    BY <2>1, OpenType DEF TimersKept
  <2>3. i \in 1 .. Len(s)
    BY <1>0, <2>1
  <2>4. /\ SubSeq(s, 1, i - 1) \in Seq(Nat) /\ SubSeq(s, i + 1, Len(s)) \in Seq(Nat)
        /\ Len(SubSeq(s, 1, i - 1)) = i - 1 /\ Len(SubSeq(s, i + 1, Len(s))) = Len(s) - i
        /\ \A j \in 1 .. i - 1 : SubSeq(s, 1, i - 1)[j] = s[j]
        /\ \A j \in 1 .. Len(s) - i : SubSeq(s, i + 1, Len(s))[j] = s[i + j]
    BY <2>2, <2>3, SubSeqProperties
  <2>5. /\ RemoveAt(s, i) \in Seq(Nat) /\ Len(RemoveAt(s, i)) = Len(s) - 1
        /\ \A j \in 1 .. Len(s) - 1 : RemoveAt(s, i)[j] = s[j] \/ RemoveAt(s, i)[j] = s[j + 1]
    <3>1. PICK a : a = SubSeq(s, 1, i - 1)
      OBVIOUS
    <3>2. PICK b : b = SubSeq(s, i + 1, Len(s))
      OBVIOUS
    <3>3. RemoveAt(s, i) = a \o b
      BY <3>1, <3>2 DEF RemoveAt
    <3>4. /\ a \in Seq(Nat) /\ b \in Seq(Nat) /\ Len(a) = i - 1 /\ Len(b) = Len(s) - i
          /\ \A j \in 1 .. i - 1 : a[j] = s[j]
          /\ \A j \in 1 .. Len(s) - i : b[j] = s[i + j]
      BY <2>4, <3>1, <3>2
    <3>5. /\ a \o b \in Seq(Nat) /\ Len(a \o b) = Len(a) + Len(b)
          /\ \A j \in 1 .. Len(a) + Len(b) : (a \o b)[j] = IF j <= Len(a) THEN a[j] ELSE b[j - Len(a)]
      BY <3>4, ConcatProperties
    <3>6. \A j \in 1 .. Len(s) - 1 : (a \o b)[j] = s[j] \/ (a \o b)[j] = s[j + 1]
      <4> TAKE j \in 1 .. Len(s) - 1
      <4>0. Len(s) \in Nat /\ i \in 1 .. Len(s)
        BY <2>2, <2>3
      <4>1. CASE j <= i - 1
        BY <3>4, <3>5, <4>0, <4>1
      <4>2. CASE ~(j <= i - 1)
        <5>1. j - (i - 1) \in 1 .. Len(s) - i /\ i + (j - (i - 1)) = j + 1
          BY <4>0, <4>2
        <5>2. (a \o b)[j] = b[j - (i - 1)]
          <6>1. j \in 1 .. Len(a) + Len(b) /\ ~(j <= Len(a)) /\ Len(a) = i - 1
            BY <3>4, <4>0, <4>2
          <6> QED BY <3>5, <6>1
        <5> QED BY <3>4, <5>1, <5>2
      <4> QED BY <4>1, <4>2
    <3>7. Len(a) + Len(b) = Len(s) - 1
      BY <2>2, <2>3, <3>4
    <3> QED BY <3>3, <3>5, <3>6, <3>7
  <2>6. \A j \in 1 .. Len(s) - 1 : RemoveAt(s, i)[j] <= program.now
    <3> TAKE j \in 1 .. Len(s) - 1
    <3>1. j \in 1 .. Len(s) /\ j + 1 \in 1 .. Len(s)
      BY <2>2
    <3> QED BY <2>2, <2>5, <3>1
  <2>7. all \in Nat
    <3>1. At(past.spent, key, 0) \in Nat /\ program.now \in Nat
      BY OpenType DEF TimersKept, TimersType
    <3>2. s[i] \in Nat /\ s[i] <= program.now
      BY <2>2, <2>3
    <3> QED BY <2>1, <3>1, <3>2
  <2> QED BY <2>1, <2>5, <2>6, <2>7
<1>3. TimersType'
  <2> HIDE DEF new, rest, all
  <2>1. /\ DOMAIN program'.open = DOMAIN program.open
        /\ \A k \in DOMAIN program'.open : program'.open[k] = IF k = key THEN rest ELSE program.open[k]
    BY <1>1
  <2>2. /\ DOMAIN mon'.timers = DOMAIN mon.timers \cup {key}
        /\ DOMAIN past'.spent = DOMAIN past.spent \cup {key}
        /\ \A k \in DOMAIN past'.spent : past'.spent[k] = IF k = key THEN all ELSE past.spent[k]
    BY <1>1 DEF Put
  <2> QED BY <1>1, <1>2, <2>1, <2>2 DEF TimersKept, TimersType
<1>4. ASSUME NEW k \in TimerKeys \ past'.muddled PROVE TimerKept(k)'
  <2>1. CASE k = key
    <3>1. TimerKept(key)
      BY <1>1, <1>4, <2>1 DEF TimersKept
    <3>2. /\ Len(Open(key)) = 1 /\ i = 1 /\ key \in DOMAIN mon.timers
          /\ mon.timers[key].time = Open(key)[1]
          /\ DOMAIN mon.timers[key] = {"name", "key", "time", "elapsed"}
          /\ mon.timers[key].name = key
          /\ mon.timers[key].elapsed = At(past.spent, key, 0)
      BY <1>0, <3>1, OpenType DEF TimerKept, TimersKept
    <3>3. Open(key)' = rest /\ Len(rest) = 0
      <4>1. Len(rest) = 0
        BY <1>2, <3>2
      <4> HIDE DEF rest, new, all
      <4> QED BY <1>0, <1>1, <4>1 DEF Open, At
    <3>4. Open(key)' = <<>>
      BY <1>2, <3>3, EmptySeq
    <3>5. old = mon.timers[key]
      BY <3>2 DEF At
    <3>6. /\ DOMAIN new = {"name", "key", "time", "elapsed"} /\ new.name = key
          /\ new.elapsed = old.elapsed + program.now - old.time
      <4> HIDE DEF old
      <4> QED BY <3>2, <3>5 DEF TimerAdd, TimerMessage
    <3>7. new.elapsed = all
      <4> HIDE DEF new, old
      <4> QED BY <3>2, <3>5, <3>6
    <3>8. /\ key \in DOMAIN mon'.timers /\ mon'.timers[key] = new
          /\ At(past'.spent, key, 0) = all
      <4> HIDE DEF new, old, all
      <4> QED BY <1>1 DEF At, Put
    <3> HIDE DEF new, old, rest, all
    <3> QED BY <1>1, <2>1, <3>4, <3>6, <3>7, <3>8 DEF TimerKept
  <2>2. CASE k # key
    <3>1. TimerKept(k)
      BY <1>1, <1>4, <2>2 DEF TimersKept
    <3>2. /\ Open(k)' = Open(k) /\ (k \in DOMAIN mon'.timers <=> k \in DOMAIN mon.timers)
          /\ k \in DOMAIN mon.timers => mon'.timers[k] = mon.timers[k]
          /\ At(past'.spent, k, 0) = At(past.spent, k, 0)
      <4> HIDE DEF new, rest, all
      <4> QED BY <1>1, <2>2 DEF Open, At, Put
    <3> QED BY <1>1, <3>1, <3>2 DEF TimerKept
  <2> QED BY <2>1, <2>2
<1> QED BY <1>3, <1>4 DEF TimersKept

LEMMA TimersThrow ==
  ASSUME Shapes, TimersKept, NEW key \in TimerKeys, TimerThrow(key)
  PROVE  TimersKept'
<1>1. /\ Open(key) # <<>> /\ key \in DOMAIN program.open /\ Open(key) = program.open[key]
      /\ UNCHANGED <<mon, past>>
      /\ program'.now = program.now
      /\ program'.open = [program.open EXCEPT ![key] = Front(Open(key))]
  BY DEF TimerThrow, Open, At, Shapes
<1>2. PICK s : s = Open(key)
  OBVIOUS
<1>3. s \in Seq(Nat) /\ s # <<>> /\ \A i \in 1 .. Len(s) : s[i] <= program.now
  BY <1>1, <1>2, OpenType DEF TimersKept
<1>4. /\ Front(s) \in Seq(Nat) /\ Len(Front(s)) = Len(s) - 1
      /\ \A i \in 1 .. Len(s) - 1 : Front(s)[i] = s[i]
  <2>1. Len(s) \in Nat /\ Len(s) # 0
    BY <1>3, EmptySeq
  <2>2. /\ SubSeq(s, 1, Len(s) - 1) \in Seq(Nat) /\ Len(SubSeq(s, 1, Len(s) - 1)) = Len(s) - 1
        /\ \A i \in 1 .. Len(s) - 1 : SubSeq(s, 1, Len(s) - 1)[i] = s[i]
    <3>1. PICK n \in Nat : n = Len(s) - 1
      BY <2>1
    <3>2. \A i \in 1 .. n : s[i] \in Nat
      BY <1>3, <3>1
    <3>3. /\ SubSeq(s, 1, n) \in Seq(Nat) /\ Len(SubSeq(s, 1, n)) = IF 1 <= n THEN n - 1 + 1 ELSE 0
          /\ \A i \in 1 .. n - 1 + 1 : SubSeq(s, 1, n)[i] = s[1 + i - 1]
      BY <3>2, SubSeqProperties
    <3>4. n - 1 + 1 = n /\ (IF 1 <= n THEN n - 1 + 1 ELSE 0) = n /\ \A i \in 1 .. n : 1 + i - 1 = i
      OBVIOUS
    <3> QED BY <3>1, <3>3, <3>4
  <2> QED BY <2>2 DEF Front
<1>5. TimersType'
  <2>1. /\ DOMAIN program'.open = DOMAIN program.open
        /\ \A k \in DOMAIN program'.open : program'.open[k] = IF k = key THEN Front(s) ELSE program.open[k]
    BY <1>1, <1>2
  <2>2. \A i \in 1 .. Len(Front(s)) : Front(s)[i] <= program.now
    BY <1>3, <1>4
  <2> QED BY <1>1, <1>4, <2>1, <2>2 DEF TimersKept, TimersType
<1>6. ASSUME NEW k \in TimerKeys \ past'.muddled PROVE TimerKept(k)'
  <2>0. TimerKept(k)
    BY <1>1, <1>6 DEF TimersKept
  <2>1. CASE k = key
    <3>1. Len(s) = 1
      BY <1>1, <1>2, <2>0, <2>1 DEF TimerKept
    <3>2. Front(s) = <<>>
      BY <1>4, <3>1, EmptySeq
    <3>3. Open(key)' = <<>>
      BY <1>1, <1>2, <3>2 DEF Open, At
    <3> QED BY <1>1, <2>0, <2>1, <3>3 DEF TimerKept
  <2>2. CASE k # key
    <3>1. Open(k)' = Open(k)
      BY <1>1, <2>2 DEF Open, At
    <3> QED BY <1>1, <2>0, <3>1 DEF TimerKept
  <2> QED BY <2>1, <2>2
<1> QED BY <1>5, <1>6 DEF TimersKept

LEMMA TimersClear ==
  ASSUME Shapes, TimersKept, ClearNext
  PROVE  TimersKept'
<1>1. program'.open = program.open /\ program'.now = program.now
  BY DEF ClearNext, Shapes
<1>2. CASE Head(clearing) = "timers"
  <2>1. /\ mon'.timers = Nothing /\ past'.spent = Nothing
        /\ past'.muddled = {key \in DOMAIN program.open : program.open[key] # <<>>}
    <3>1. mon' = [mon EXCEPT !["timers"] = NewMonitor["timers"]]
      BY <1>2 DEF ClearNext
    <3>2. past' = [past EXCEPT !.spent = Nothing,
                               !.muddled = {key \in DOMAIN program.open : program.open[key] # <<>>}]
      BY <1>2 DEF ClearNext
    <3> QED BY <3>1, <3>2 DEF Shapes, NewMonitor
  <2>2. \A key \in TimerKeys \ past'.muddled : Open(key) = <<>>
    BY <2>1 DEF Open, At
  <2> QED BY <1>1, <2>1, <2>2 DEF TimersKept, TimersType, TimerKept, Open, Nothing, At
<1>3. CASE Head(clearing) # "timers"
  <2>1. mon'.timers = mon.timers /\ past'.spent = past.spent /\ past'.muddled = past.muddled
    BY <1>3 DEF ClearNext, Shapes
  <2> QED BY <1>1, <2>1, TimersSame DEF TimersKept, TimersType
<1> QED BY <1>2, <1>3

LEMMA TimersStep ==
  ASSUME Shapes, TimersKept, [Next]_vars
  PROVE  TimersKept'
<1>0. program.now \in Nat
  BY DEF TimersKept, TimersType
<1>1. CASE Heap
  <2>1. ASSUME NEW class, NEW stack, NEW object, NEW gap \in {0, 1},
               HeapCreate(class, stack, object, program.now + gap)
        PROVE  TimersKept'
    <3>1. /\ mon'.timers = mon.timers /\ program'.open = program.open
          /\ past'.spent = past.spent /\ past'.muddled = past.muddled
          /\ program'.now = program.now + gap
      BY <2>1 DEF HeapCreate, Shapes
    <3> QED BY <1>0, <3>1, TimersSame
  <2>2. ASSUME NEW object, HeapFree(object)
        PROVE  TimersKept'
    <3>1. /\ mon'.timers = mon.timers
          /\ past'.spent = past.spent /\ past'.muddled = past.muddled
      BY <2>2 DEF HeapFree, Shapes
    <3>2. program'.open = program.open /\ program'.now = program.now
      BY <2>2 DEF HeapFree, Shapes
    <3> QED BY <1>0, <3>1, <3>2, TimersSame
  <2> QED BY <1>1, <2>1, <2>2 DEF Heap
<1>2. CASE Timers
  <2>1. CASE Tick
    BY <1>0, <2>1, TimersSame DEF Tick, Shapes
  <2> QED BY <1>2, <2>1, TimersEnter, TimersExit, TimersThrow DEF Timers
<1>3. CASE StartReset
  BY <1>0, <1>3, TimersSame DEF StartReset
<1>4. CASE ClearNext
  BY <1>4, TimersClear
<1>5. CASE Restart
  BY <1>5 DEF Restart, Started, TimersKept, TimersType, TimerKept, Open, At, NewPast, NewProgram, NewMonitor, Nothing
<1>6. CASE Quiet
  BY <1>0, <1>6, TimersSame DEF Quiet
<1> QED BY <1>1, <1>2, <1>3, <1>4, <1>5, <1>6, QuietStep

(* The elapsed time of a timer is the time spent in the activations of its *)
(* method that have returned since the reset, however the threads' entries *)
(* and exits interleave, unless two of one thread's name were open at once *)
(* or one was open at the reset.                                           *)
THEOREM TimersAreTrue == Spec => []TimerTruth
<1>1. Shapes /\ TimersKept /\ [Next]_vars => TimersKept'
  BY TimersStep
<1>2. TimersKept => TimerTruth
  BY DEF TimersKept, TimersType, TimerKept, TimerTruth
<1> QED BY <1>1, <1>2, TimersInit, ReportShapes, PTL DEF Spec
-----------------------------------------------------------------------------
(* The objects that a class's report counts.                               *)
Alive(class) == {o \in program.objects : o.class = class /\ o.counted}

HeapType ==
  /\ IsFiniteSet(program.objects)
  /\ \A o \in program.objects : DOMAIN o = {"id", "class", "tag", "counted"}
  /\ \A class \in DOMAIN past.made : past.made[class] \in Nat
  /\ DOMAIN mon.heap \subseteq Classes
  /\ \A tag \in DOMAIN mon.tagOf : DOMAIN mon.tagOf[tag] = {"class", "left"}

(* A tag leads to the report of its object's class, and to one that the    *)
(* monitor still has if and only if the report counts the object.          *)
TagsKept ==
  /\ \A o \in program.objects :
       o.tag \in DOMAIN mon.tagOf => /\ mon.tagOf[o.tag].class = o.class
                                     /\ mon.tagOf[o.tag].left = <<>> => o.counted
  /\ \A tag \in DOMAIN mon.tagOf : mon.tagOf[tag].left = <<>> => mon.tagOf[tag].class \in DOMAIN mon.heap

ReportType(report) ==
  /\ DOMAIN report = {"lifetime", "current", "max", "stacks"}
  /\ report.lifetime \in Int /\ report.current \in Int /\ report.max \in Int
  /\ IsFiniteSet(DOMAIN report.stacks)
  /\ \A stack \in DOMAIN report.stacks : report.stacks[stack] \in Nat

(* A report, with so many objects made and so many of them alive.          *)
Balanced(report, made, alive) ==
  /\ ReportType(report)
  /\ report.current = made + alive
  /\ report.lifetime = 2 * made
  /\ SumFunction(report.stacks) = report.lifetime
  /\ report.current <= report.max /\ report.max <= report.lifetime

ClassKept(class) ==
  IF class \in DOMAIN mon.heap
    THEN Balanced(mon.heap[class], At(past.made, class, 0), Cardinality(Alive(class)))
    ELSE At(past.made, class, 0) = 0 /\ Alive(class) = {}

HeapKept ==
  /\ HeapType
  /\ crashed \/ past.mixed \/ (TagsKept /\ \A class \in Classes : ClassKept(class))

LEMMA HeapInit == Init => HeapKept
<1> SUFFICES ASSUME Init PROVE HeapKept
  OBVIOUS
<1>1. /\ program.objects = {} /\ past.made = Nothing /\ mon.heap = Nothing /\ mon.tagOf = Nothing
  BY DEF Init, NewPast, NewProgram, NewMonitor
<1> QED BY <1>1, FS_EmptySet DEF HeapKept, HeapType, TagsKept, ClassKept, Alive, At, Nothing

LEMMA HeapSame ==
  ASSUME HeapKept, program'.objects = program.objects, mon'.heap = mon.heap, mon'.tagOf = mon.tagOf,
         past'.made = past.made, past'.mixed = past.mixed, crashed => crashed'
  PROVE  HeapKept'
<1>1. HeapType'
  BY DEF HeapKept, HeapType
<1>2. TagsKept => TagsKept'
  BY DEF TagsKept
<1>3. \A class : ClassKept(class) => ClassKept(class)'
  BY DEF ClassKept, Alive
<1> QED BY <1>1, <1>2, <1>3 DEF HeapKept

LEMMA NewIsBalanced == Balanced(NewHeapReport, 0, 0)
<1>1. DOMAIN NewHeapReport.stacks = {} /\ NewHeapReport.stacks = Nothing
  BY DEF NewHeapReport, Nothing
<1>2. SumFunction(NewHeapReport.stacks) = 0
  BY <1>1, SumEmpty DEF SumFunction
<1> QED BY <1>1, <1>2, FS_EmptySet DEF Balanced, ReportType, NewHeapReport

LEMMA AddKeepsType ==
  ASSUME NEW report, ReportType(report), NEW stack
  PROVE  /\ ReportType(HeapAdd(report, stack))
         /\ HeapAdd(report, stack).lifetime = report.lifetime + 1
         /\ HeapAdd(report, stack).current = report.current + 1
         /\ HeapAdd(report, stack).max = Larger(report.max, report.current + 1)
         /\ SumFunction(HeapAdd(report, stack).stacks) = SumFunction(report.stacks) + 1
         /\ SumFunction(report.stacks) \in Int
<1>1. PICK stacks : stacks = Counted(report.stacks, stack)
  OBVIOUS
<1>2. /\ IsFiniteSet(DOMAIN stacks) /\ \A s \in DOMAIN stacks : stacks[s] \in Nat
      /\ SumFunction(stacks) = SumFunction(report.stacks) + 1
      /\ SumFunction(report.stacks) \in Int
  BY <1>1, CountedSum DEF ReportType
<1>3. PICK new : new = HeapAdd(report, stack)
  OBVIOUS
<1>4. /\ DOMAIN new = {"lifetime", "current", "max", "stacks"}
      /\ new.lifetime = report.lifetime + 1 /\ new.current = report.current + 1
      /\ new.max = Larger(report.max, report.current + 1) /\ new.stacks = stacks
  BY <1>1, <1>3 DEF HeapAdd
<1>5. new.lifetime \in Int /\ new.current \in Int /\ new.max \in Int
  BY <1>4 DEF ReportType, Larger
<1> QED BY <1>2, <1>3, <1>4, <1>5 DEF ReportType

LEMMA CreateBalances ==
  ASSUME NEW report, NEW made \in Nat, NEW alive \in Nat, Balanced(report, made, alive), NEW stack
  PROVE  Balanced(HeapCreated(report, stack), made + 1, alive + 1)
<1>1. PICK once : once = HeapAdd(report, stack)
  OBVIOUS
<1>2. PICK twice : twice = HeapAdd(once, stack)
  OBVIOUS
<1>3. /\ ReportType(once) /\ once.lifetime = report.lifetime + 1 /\ once.current = report.current + 1
      /\ once.max = Larger(report.max, report.current + 1)
      /\ SumFunction(once.stacks) = SumFunction(report.stacks) + 1
  BY <1>1, AddKeepsType DEF Balanced
<1>4. /\ ReportType(twice) /\ twice.lifetime = once.lifetime + 1 /\ twice.current = once.current + 1
      /\ twice.max = Larger(once.max, once.current + 1)
      /\ SumFunction(twice.stacks) = SumFunction(once.stacks) + 1
  BY <1>2, <1>3, AddKeepsType
<1>5. /\ report.lifetime \in Int /\ report.current \in Int /\ report.max \in Int
      /\ report.current = made + alive /\ report.lifetime = 2 * made
      /\ SumFunction(report.stacks) = report.lifetime
      /\ report.current <= report.max /\ report.max <= report.lifetime
  BY DEF Balanced, ReportType
<1>6. /\ twice.lifetime = 2 * (made + 1) /\ twice.current = (made + 1) + (alive + 1)
      /\ SumFunction(twice.stacks) = twice.lifetime
  BY <1>3, <1>4, <1>5
<1>7. twice.current <= twice.max /\ twice.max <= twice.lifetime
  BY <1>3, <1>4, <1>5 DEF Larger
<1>8. HeapCreated(report, stack) = twice
  BY <1>1, <1>2 DEF HeapCreated
<1> QED BY <1>4, <1>6, <1>7, <1>8 DEF Balanced

LEMMA FreeBalances ==
  ASSUME NEW report, NEW made \in Nat, NEW alive \in Nat, alive > 0, Balanced(report, made, alive)
  PROVE  Balanced(HeapFreed(report), made, alive - 1)
<1>1. PICK new : new = HeapFreed(report)
  OBVIOUS
<1>2. /\ DOMAIN new = DOMAIN report /\ new.current = report.current - 1 /\ new.lifetime = report.lifetime
      /\ new.max = report.max /\ new.stacks = report.stacks
  BY <1>1 DEF HeapFreed, Balanced, ReportType
<1> QED BY <1>1, <1>2 DEF Balanced, ReportType

LEMMA HeapCreates ==
  ASSUME Shapes, HeapKept, NEW class \in Classes, NEW stack, NEW object, NEW tag,
         HeapCreate(class, stack, object, tag)
  PROVE  HeapKept'
<1> DEFINE report == HeapCreated(At(mon.heap, class, NewHeapReport), stack)
           made == [id |-> object, class |-> class, tag |-> tag, counted |-> TRUE]
           before == {o \in program.objects : o.id = object}
           others == program.objects \ before
<1>1. /\ mon'.heap = Put(mon.heap, class, report) /\ mon'.tagOf = Tagged(tag, class)
      /\ program'.objects = others \cup {made}
      /\ past'.made = Put(past.made, class, At(past.made, class, 0) + 1)
      /\ past'.mixed = (past.mixed \/ before # {} \/ \E o \in others : o.tag = tag)
      /\ ~crashed /\ crashed' = crashed
  BY DEF HeapCreate, Reported, Shapes
<1>2. /\ DOMAIN mon'.heap = DOMAIN mon.heap \cup {class} /\ mon'.heap[class] = report
      /\ \A c \in DOMAIN mon.heap \ {class} : mon'.heap[c] = mon.heap[c]
  <2> HIDE DEF report
  <2> QED BY <1>1 DEF Put
<1>3. /\ DOMAIN mon'.tagOf = DOMAIN mon.tagOf \cup {tag}
      /\ mon'.tagOf[tag] = [class |-> class, left |-> <<>>]
      /\ \A t \in DOMAIN mon.tagOf \ {tag} : mon'.tagOf[t] = mon.tagOf[t]
  BY <1>1 DEF Put, Tagged
<1>4. /\ At(past.made, class, 0) \in Nat
      /\ DOMAIN past'.made = DOMAIN past.made \cup {class}
      /\ past'.made[class] = At(past.made, class, 0) + 1
      /\ \A c \in DOMAIN past.made \ {class} : past'.made[c] = past.made[c]
  BY <1>1 DEF Put, At, HeapKept, HeapType
<1>5. HeapType'
  <2>1. IsFiniteSet(program'.objects)
    <3>1. IsFiniteSet(others)
      BY FS_Subset DEF HeapKept, HeapType
    <3> HIDE DEF others, made
    <3> QED BY <1>1, <3>1, FS_AddElement
  <2>2. \A o \in program'.objects : DOMAIN o = {"id", "class", "tag", "counted"}
    BY <1>1 DEF HeapKept, HeapType
  <2>3. \A t \in DOMAIN mon'.tagOf : DOMAIN mon'.tagOf[t] = {"class", "left"}
    BY <1>3 DEF HeapKept, HeapType
  <2> QED BY <1>2, <1>4, <2>1, <2>2, <2>3 DEF HeapKept, HeapType
<1>6. ASSUME ~past'.mixed PROVE TagsKept' /\ \A c \in Classes : ClassKept(c)'
  <2>1. /\ ~past.mixed /\ before = {} /\ others = program.objects
        /\ \A o \in program.objects : o.tag # tag
    BY <1>1, <1>6
  <2>2. program'.objects = program.objects \cup {made} /\ made \notin program.objects
    BY <1>1, <2>1
  <2>3. TagsKept /\ \A c \in Classes : ClassKept(c)
    BY <1>1, <2>1 DEF HeapKept
  <2>4. TagsKept'
    <3>1. \A o \in program'.objects :
            o.tag \in DOMAIN mon'.tagOf => /\ mon'.tagOf[o.tag].class = o.class
                                           /\ mon'.tagOf[o.tag].left = <<>> => o.counted
      BY <1>3, <2>1, <2>2, <2>3 DEF TagsKept
    <3>2. \A t \in DOMAIN mon'.tagOf : mon'.tagOf[t].left = <<>> => mon'.tagOf[t].class \in DOMAIN mon'.heap
      BY <1>2, <1>3, <2>3 DEF TagsKept
    <3> QED BY <3>1, <3>2 DEF TagsKept
  <2>5. ASSUME NEW c \in Classes PROVE ClassKept(c)'
    <3>0. ClassKept(c)
      BY <2>3
    <3>1. CASE c # class
      <4>1. Alive(c)' = Alive(c)
        BY <2>2, <3>1 DEF Alive
      <4>2. At(past'.made, c, 0) = At(past.made, c, 0)
        BY <1>4, <3>1 DEF At
      <4> QED BY <1>2, <3>0, <3>1, <4>1, <4>2 DEF ClassKept
    <3>2. CASE c = class
      <4>1. Alive(c)' = Alive(c) \cup {made} /\ made \notin Alive(c)
        BY <2>2, <3>2 DEF Alive
      <4>2. IsFiniteSet(Alive(c))
        BY FS_Subset DEF HeapKept, HeapType, Alive
      <4>3. Cardinality(Alive(c)') = Cardinality(Alive(c)) + 1 /\ Cardinality(Alive(c)) \in Nat
        <5> HIDE DEF made
        <5> QED BY <4>1, <4>2, FS_AddElement, FS_CardinalityType
      <4>4. Balanced(At(mon.heap, c, NewHeapReport), At(past.made, c, 0), Cardinality(Alive(c)))
        <5>1. CASE c \in DOMAIN mon.heap
          BY <3>0, <5>1 DEF ClassKept, At
        <5>2. CASE c \notin DOMAIN mon.heap
          <6>1. At(mon.heap, c, NewHeapReport) = NewHeapReport
            BY <5>2 DEF At
          <6>2. At(past.made, c, 0) = 0 /\ Cardinality(Alive(c)) = 0
            BY <3>0, <5>2, FS_EmptySet DEF ClassKept
          <6> QED BY <6>1, <6>2, NewIsBalanced
        <5> QED BY <5>1, <5>2
      <4>5. Balanced(report, At(past.made, c, 0) + 1, Cardinality(Alive(c)) + 1)
        BY <1>4, <3>2, <4>3, <4>4, CreateBalances
      <4>6. At(past'.made, c, 0) = At(past.made, c, 0) + 1
        BY <1>4, <3>2 DEF At
      <4> HIDE DEF report
      <4> QED BY <1>2, <3>2, <4>3, <4>5, <4>6 DEF ClassKept
    <3> QED BY <3>1, <3>2
  <2> QED BY <2>4, <2>5
<1> QED BY <1>5, <1>6 DEF HeapKept

LEMMA HeapFrees ==
  ASSUME Shapes, HeapKept, NEW object, HeapFree(object)
  PROVE  HeapKept'
<1>1. /\ object \in program.objects /\ program'.objects = program.objects \ {object} /\ ~crashed
  BY DEF HeapFree, Reported, Shapes
<1>2. IsFiniteSet(program'.objects)
  BY <1>1, FS_Subset DEF HeapKept, HeapType
<1>3. CASE crashed'
  <2>1. mon' = mon /\ past' = past
    BY <1>1, <1>3 DEF HeapFree
  <2> QED BY <1>1, <1>2, <1>3, <2>1 DEF HeapKept, HeapType
<1>4. CASE ~crashed'
  <2> DEFINE to == mon.tagOf[object.tag]
  <2>1. object.tag \in DOMAIN mon.tagOf
    BY <1>4 DEF HeapFree
  <2>2. CASE to.left # <<>>
    <3>1. /\ mon' = [mon EXCEPT !.tagOf[object.tag].left = <<HeapFreed(to.left[1])>>]
          /\ past' = [past EXCEPT !.reports = @ + 1, !.mixed = @ \/ to.left # <<>>]
      BY <1>4, <2>2 DEF HeapFree
    <3>2. past'.mixed /\ past'.made = past.made
      BY <2>2, <3>1 DEF Shapes
    <3>3. mon'.heap = mon.heap
      BY <3>1 DEF Shapes
    <3>4. \A tag \in DOMAIN mon'.tagOf : DOMAIN mon'.tagOf[tag] = {"class", "left"}
      <4>1. mon'.tagOf = [mon.tagOf EXCEPT ![object.tag] = [to EXCEPT !.left = <<HeapFreed(to.left[1])>>]]
        BY <3>1 DEF Shapes
      <4> QED BY <4>1 DEF HeapKept, HeapType
    <3> QED BY <1>1, <1>2, <3>2, <3>3, <3>4 DEF HeapKept, HeapType
  <2>3. CASE to.left = <<>>
    <3>1. /\ mon' = [mon EXCEPT !.heap[to.class] = HeapFreed(mon.heap[to.class])]
          /\ past' = [past EXCEPT !.reports = @ + 1, !.mixed = @ \/ to.left # <<>>]
      BY <1>4, <2>3 DEF HeapFree
    <3>2. (past'.mixed <=> past.mixed) /\ past'.made = past.made
      BY <2>3, <3>1 DEF Shapes
    <3>3. mon'.tagOf = mon.tagOf /\ mon'.heap = [mon.heap EXCEPT ![to.class] = HeapFreed(mon.heap[to.class])]
      BY <3>1 DEF Shapes
    <3>4. HeapType'
      BY <1>1, <1>2, <3>2, <3>3 DEF HeapKept, HeapType
    <3>5. ASSUME ~past.mixed PROVE TagsKept' /\ \A c \in Classes : ClassKept(c)'
      <4>1. TagsKept /\ \A c \in Classes : ClassKept(c)
        BY <1>1, <3>5 DEF HeapKept
      <4>2. to.class = object.class /\ object.counted /\ object.class \in DOMAIN mon.heap
        BY <1>1, <2>1, <2>3, <4>1 DEF TagsKept
      <4>3. /\ DOMAIN mon'.heap = DOMAIN mon.heap
            /\ mon'.heap[object.class] = HeapFreed(mon.heap[object.class])
            /\ \A c \in DOMAIN mon.heap \ {object.class} : mon'.heap[c] = mon.heap[c]
        <5> HIDE DEF to
        <5> QED BY <3>3, <4>2
      <4>4. TagsKept'
        BY <1>1, <3>3, <4>1, <4>3 DEF TagsKept
      <4>5. ASSUME NEW c \in Classes PROVE ClassKept(c)'
        <5>0. ClassKept(c)
          BY <4>1
        <5>1. CASE c # object.class
          <6>1. Alive(c)' = Alive(c)
            BY <1>1, <5>1 DEF Alive
          <6> QED BY <3>2, <4>3, <5>0, <5>1, <6>1 DEF ClassKept
        <5>2. CASE c = object.class
          <6>1. Alive(c)' = Alive(c) \ {object} /\ object \in Alive(c)
            BY <1>1, <4>2, <5>2 DEF Alive
          <6>2. IsFiniteSet(Alive(c))
            BY FS_Subset DEF HeapKept, HeapType, Alive
          <6>3. /\ Cardinality(Alive(c)) \in Nat /\ Cardinality(Alive(c)) > 0
                /\ Cardinality(Alive(c)') = Cardinality(Alive(c)) - 1
            <7>1. Cardinality(Alive(c)) \in Nat /\ Cardinality(Alive(c)') = Cardinality(Alive(c)) - 1
              BY <6>1, <6>2, FS_RemoveElement, FS_CardinalityType
            <7>2. Cardinality(Alive(c)) # 0
              BY <6>1, <6>2, FS_EmptySet
            <7> QED BY <7>1, <7>2
          <6>4. Balanced(mon.heap[c], At(past.made, c, 0), Cardinality(Alive(c)))
            BY <4>2, <5>0, <5>2 DEF ClassKept
          <6>5. At(past.made, c, 0) \in Nat
            BY DEF At, HeapKept, HeapType
          <6>6. Balanced(HeapFreed(mon.heap[c]), At(past.made, c, 0), Cardinality(Alive(c)) - 1)
            BY <6>3, <6>4, <6>5, FreeBalances
          <6> QED BY <3>2, <4>2, <4>3, <5>2, <6>3, <6>6 DEF ClassKept
        <5> QED BY <5>1, <5>2
      <4> QED BY <4>4, <4>5
    <3> QED BY <3>2, <3>4, <3>5 DEF HeapKept
  <2> QED BY <2>2, <2>3
<1> QED BY <1>3, <1>4

LEMMA HeapClears ==
  ASSUME Shapes, HeapKept, ClearNext
  PROVE  HeapKept'
<1>0. /\ ~crashed /\ crashed' = crashed /\ past'.mixed = past.mixed
      /\ Head(clearing) \in {"timers", "counters", "jams", "heap", "tagOf"}
  BY HeadTailProperties DEF ClearNext, Shapes
<1>1. CASE Head(clearing) = "heap"
  <2> DEFINE left(to) == IF to.left = <<>> THEN [to EXCEPT !.left = <<mon.heap[to.class]>>] ELSE to
  <2>1. /\ mon' = [[mon EXCEPT !["heap"] = NewMonitor["heap"]]
                     EXCEPT !.tagOf = [tag \in DOMAIN @ |-> left(@[tag])]]
        /\ program' = [program EXCEPT !.objects = {[o EXCEPT !.counted = FALSE] : o \in @}]
        /\ past' = [past EXCEPT !.made = Nothing]
    BY <1>1 DEF ClearNext
  <2>2. /\ mon'.heap = Nothing /\ mon'.tagOf = [tag \in DOMAIN mon.tagOf |-> left(mon.tagOf[tag])]
        /\ program'.objects = {[o EXCEPT !.counted = FALSE] : o \in program.objects}
        /\ past'.made = Nothing
    BY <2>1 DEF Shapes, NewMonitor
  <2>3. \A tag \in DOMAIN mon'.tagOf : /\ DOMAIN mon'.tagOf[tag] = {"class", "left"}
                                       /\ mon'.tagOf[tag].left # <<>>
                                       /\ mon'.tagOf[tag].class = mon.tagOf[tag].class
    BY <2>2 DEF HeapKept, HeapType
  <2>4. IsFiniteSet(program'.objects)
    <3> DEFINE T == {[o EXCEPT !.counted = FALSE] : o \in program.objects}
               f == [o \in program.objects |-> [o EXCEPT !.counted = FALSE]]
    <3>1. f \in Surjection(program.objects, T)
      BY DEF Surjection
    <3> HIDE DEF f
    <3> QED BY <2>2, <3>1, FS_Surjection DEF HeapKept, HeapType
  <2>5. \A o \in program'.objects :
          /\ DOMAIN o = {"id", "class", "tag", "counted"} /\ ~o.counted
          /\ \E p \in program.objects : o.tag = p.tag /\ o.class = p.class
    BY <2>2 DEF HeapKept, HeapType
  <2>6. HeapType'
    BY <2>2, <2>3, <2>4, <2>5 DEF HeapType, Nothing
  <2>7. TagsKept => TagsKept'
    <3>1. DOMAIN mon'.tagOf = DOMAIN mon.tagOf
      BY <2>2
    <3> HIDE DEF left
    <3> QED BY <2>3, <2>5, <3>1 DEF TagsKept
  <2>8. \A c : ClassKept(c)'
    BY <2>2, <2>5 DEF ClassKept, Alive, Nothing, At
  <2> QED BY <1>0, <2>6, <2>7, <2>8 DEF HeapKept
<1>2. CASE Head(clearing) = "tagOf"
  <2>1. mon'.tagOf = Nothing /\ mon'.heap = mon.heap /\ program' = program /\ past' = past
    <3>1. mon' = [mon EXCEPT !["tagOf"] = NewMonitor["tagOf"]] /\ program' = program /\ past' = past
      BY <1>2 DEF ClearNext
    <3> QED BY <3>1 DEF Shapes, NewMonitor
  <2>2. HeapType'
    BY <2>1 DEF HeapKept, HeapType, Nothing
  <2>3. TagsKept'
    BY <2>1 DEF TagsKept, Nothing
  <2>4. \A c : ClassKept(c) => ClassKept(c)'
    BY <2>1 DEF ClassKept, Alive
  <2> QED BY <1>0, <2>1, <2>2, <2>3, <2>4 DEF HeapKept
<1>3. CASE Head(clearing) # "heap" /\ Head(clearing) # "tagOf"
  <2>1. mon'.tagOf = mon.tagOf /\ mon'.heap = mon.heap /\ program' = program /\ past'.made = past.made
    BY <1>3 DEF ClearNext, Shapes
  <2> QED BY <1>0, <2>1, HeapSame
<1> QED BY <1>1, <1>2, <1>3

LEMMA HeapStep ==
  ASSUME Shapes, HeapKept, [Next]_vars
  PROVE  HeapKept'
<1>1. CASE Heap
  BY <1>1, HeapCreates, HeapFrees DEF Heap
<1>2. CASE Timers
  <2>1. /\ program'.objects = program.objects /\ mon'.heap = mon.heap /\ mon'.tagOf = mon.tagOf
        /\ past'.made = past.made /\ past'.mixed = past.mixed /\ crashed' = crashed
    BY <1>2 DEF Timers, Tick, TimerEnter, TimerExit, TimerThrow, Shapes
  <2> QED BY <2>1, HeapSame
<1>3. CASE StartReset
  BY <1>3, HeapSame DEF StartReset
<1>4. CASE ClearNext
  BY <1>4, HeapClears
<1>5. CASE Restart
  <2>1. program'.objects = {} /\ past'.made = Nothing /\ mon'.heap = Nothing /\ mon'.tagOf = Nothing
    BY <1>5 DEF Restart, Started, NewPast, NewProgram, NewMonitor
  <2> QED BY <2>1, FS_EmptySet DEF HeapKept, HeapType, TagsKept, ClassKept, Alive, At, Nothing
<1>6. CASE Quiet
  BY <1>6, HeapSame DEF Quiet
<1> QED BY <1>1, <1>2, <1>3, <1>4, <1>5, <1>6, QuietStep

(* As long as every object on the heap has had a tag of its own, a class's *)
(* report counts each creation twice and each death once, its stacks add   *)
(* up to its lifetime, and its maximum is between what lives and what was  *)
(* made, in whatever order objects are made and die, and whatever is       *)
(* loaded or reset.                                                        *)
THEOREM HeapIsBalanced == Spec => []HeapBalance
<1>1. Shapes /\ HeapKept /\ [Next]_vars => HeapKept'
  BY HeapStep
<1>2. HeapKept => HeapBalance
  BY DEF HeapKept, HeapType, ClassKept, Balanced, Alive, HeapBalance
<1> QED BY <1>1, <1>2, HeapInit, ReportShapes, PTL DEF Spec
-----------------------------------------------------------------------------
(* Sequences of anything.                                                  *)
Listed(q) == \E S : q \in Seq(S)

LEMMA ListedDomain ==
  ASSUME NEW q, Listed(q)
  PROVE  Len(q) \in Nat /\ DOMAIN q = 1 .. Len(q)
BY DEF Listed

LEMMA ListedEmpty == Listed(<<>>)
BY EmptySeq DEF Listed

LEMMA ListedFunction ==
  ASSUME NEW n \in Nat, NEW f, f = [i \in 1 .. n |-> f[i]]
  PROVE  Listed(f) /\ Len(f) = n
<1>1. f \in [1 .. n -> {f[i] : i \in 1 .. n}]
  OBVIOUS
<1>2. f \in Seq({f[i] : i \in 1 .. n}) /\ Len(f) = n
  BY <1>1, SeqDef, LenProperties
<1> QED BY <1>2 DEF Listed

LEMMA ListedAppend ==
  ASSUME NEW q, Listed(q), NEW x
  PROVE  /\ Listed(Append(q, x)) /\ Len(Append(q, x)) = Len(q) + 1
         /\ \A i \in 1 .. Len(q) : Append(q, x)[i] = q[i]
         /\ Append(q, x)[Len(q) + 1] = x
<1>1. PICK S : q \in Seq(S)
  BY DEF Listed
<1>2. PICK T : T = S \cup {x}
  OBVIOUS
<1>3. q \in Seq(T) /\ x \in T
  BY <1>1, <1>2
<1>4. Append(q, x) \in Seq(T)
  BY <1>3, AppendProperties
<1> QED BY <1>3, <1>4, AppendProperties DEF Listed

LEMMA ListedConcat ==
  ASSUME NEW p, NEW q, Listed(p), Listed(q)
  PROVE  /\ Listed(p \o q) /\ Len(p \o q) = Len(p) + Len(q)
         /\ \A i \in 1 .. Len(p) : (p \o q)[i] = p[i]
         /\ \A i \in 1 .. Len(q) : (p \o q)[Len(p) + i] = q[i]
<1>1. PICK S : p \in Seq(S)
  BY DEF Listed
<1>2. PICK T : q \in Seq(T)
  BY DEF Listed
<1>3. PICK U : U = S \cup T
  OBVIOUS
<1>4. p \in Seq(U) /\ q \in Seq(U)
  BY <1>1, <1>2, <1>3
<1>5. /\ p \o q \in Seq(U) /\ Len(p \o q) = Len(p) + Len(q)
      /\ \A i \in 1 .. Len(p) + Len(q) : (p \o q)[i] = IF i <= Len(p) THEN p[i] ELSE q[i - Len(p)]
  BY <1>4, ConcatProperties
<1>6. Len(p) \in Nat /\ Len(q) \in Nat
  BY <1>4
<1>7. \A i \in 1 .. Len(q) : (p \o q)[Len(p) + i] = q[i]
  <2> TAKE i \in 1 .. Len(q)
  <2>1. Len(p) + i \in 1 .. Len(p) + Len(q) /\ ~(Len(p) + i <= Len(p)) /\ Len(p) + i - Len(p) = i
    BY <1>6
  <2> QED BY <1>5, <2>1
<1>8. \A i \in 1 .. Len(p) : (p \o q)[i] = p[i]
  BY <1>5, <1>6
<1> QED BY <1>5, <1>7, <1>8 DEF Listed

LEMMA ListedTail ==
  ASSUME NEW q, Listed(q), q # <<>>
  PROVE  /\ Listed(Tail(q)) /\ Len(Tail(q)) = Len(q) - 1 /\ Len(q) > 0 /\ Head(q) = q[1]
         /\ \A i \in 1 .. Len(q) - 1 : Tail(q)[i] = q[i + 1]
<1>1. PICK S : q \in Seq(S)
  BY DEF Listed
<1>2. Tail(q) \in Seq(S) /\ Len(Tail(q)) = Len(q) - 1 /\ \A i \in 1 .. Len(Tail(q)) : Tail(q)[i] = q[i + 1]
  BY <1>1, HeadTailProperties
<1>3. Len(q) > 0 /\ Head(q) = q[1]
  BY <1>1, EmptySeq
<1> QED BY <1>2, <1>3 DEF Listed

(* The orders of a finite set.                                             *)
LEMMA SetToSeqListed ==
  ASSUME NEW S, IsFiniteSet(S)
  PROVE  /\ Listed(SetToSeq(S)) /\ Len(SetToSeq(S)) = Cardinality(S) /\ Cardinality(S) \in Nat
         /\ \A i \in 1 .. Cardinality(S) : SetToSeq(S)[i] \in S
         /\ \A x \in S : \E i \in 1 .. Cardinality(S) : SetToSeq(S)[i] = x
<1>1. PICK n : n = Cardinality(S)
  OBVIOUS
<1>2. n \in Nat /\ ExistsBijection(1 .. n, S)
  BY <1>1, FS_CardinalityType
<1>3. \E f \in [1 .. n -> S] : IsInjective(f)
  BY <1>2 DEF ExistsBijection, Bijection, Injection
<1>4. PICK f : f = SetToSeq(S)
  OBVIOUS
<1>5. f \in [1 .. n -> S] /\ IsInjective(f)
  BY <1>1, <1>3, <1>4 DEF SetToSeq
<1>6. f = [i \in 1 .. n |-> f[i]]
  BY <1>5
<1>7. Listed(f) /\ Len(f) = n
  BY <1>2, <1>6, ListedFunction
<1>8. f \in Injection(1 .. n, S)
  BY <1>5 DEF Injection
<1>9. Cardinality(1 .. n) = n
  BY <1>2, FS_Interval
<1>10. f \in Surjection(1 .. n, S)
  BY <1>1, <1>8, <1>9, FS_Injection
<1> QED BY <1>1, <1>2, <1>4, <1>5, <1>7, <1>10 DEF Surjection

LEMMA ListingListed ==
  ASSUME NEW map, IsFiniteSet(DOMAIN map), NEW list \in Listings(map)
  PROVE  /\ Listed(list)
         /\ \A i \in DOMAIN list : \E x \in DOMAIN map : list[i] = map[x]
<1>1. PICK n : n = Cardinality(DOMAIN map)
  OBVIOUS
<1>2. n \in Nat
  BY <1>1, FS_CardinalityType
<1>3. PICK order \in SetToSeqs(DOMAIN map) : list = [i \in DOMAIN order |-> map[order[i]]]
  BY DEF Listings
<1>4. order \in [1 .. n -> DOMAIN map]
  BY <1>1, <1>3 DEF SetToSeqs
<1>5. list = [i \in 1 .. n |-> map[order[i]]]
  BY <1>3, <1>4
<1>6. list = [i \in 1 .. n |-> list[i]]
  BY <1>5
<1>7. Listed(list)
  BY <1>2, <1>6, ListedFunction
<1> QED BY <1>4, <1>5, <1>7

LEMMA ImageFinite ==
  ASSUME NEW f, IsFiniteSet(DOMAIN f)
  PROVE  IsFiniteSet({f[x] : x \in DOMAIN f})
<1>1. PICK g : g = [x \in DOMAIN f |-> f[x]]
  OBVIOUS
<1>2. PICK T : T = {f[x] : x \in DOMAIN f}
  OBVIOUS
<1>3. g \in Surjection(DOMAIN f, T)
  BY <1>1, <1>2 DEF Surjection
<1> QED BY <1>2, <1>3, FS_Surjection
-----------------------------------------------------------------------------
(* The shape of what the windows and the session hold.                     *)
TraceShape(trace) == DOMAIN trace = {"thread", "frames", "monitors", "own"} /\ Listed(trace.frames)

TracesShape(traces) == Listed(traces) /\ \A i \in DOMAIN traces : TraceShape(traces[i])

SessionShape(s) ==
  /\ DOMAIN s = {"classes", "jammed", "traffic", "rankings", "signals", "timers"}
  /\ TracesShape(s.traffic)
  /\ IsFiniteSet(DOMAIN s.signals) /\ \A key \in DOMAIN s.signals : Listed(s.signals[key].signals)
  /\ IsFiniteSet(DOMAIN s.timers)

LinesShape(lines) ==
  /\ DOMAIN lines = {"classes", "jammed", "traffic", "signals", "timers"}
  /\ TracesShape(lines.traffic)
  /\ Listed(lines.signals) /\ \A i \in DOMAIN lines.signals : Listed(lines.signals[i])
  /\ Listed(lines.timers)

GuiShape(g) ==
  /\ DOMAIN g = {"main", "shown", "windows", "session"}
  /\ DOMAIN g.main = {"signals", "holders", "heap"}
  /\ DOMAIN g.shown = {"heap", "signals", "timers", "jams", "classes", "columns", "cells", "marks", "ranking"}
  /\ DOMAIN g.windows = {"signals", "heap"}
  /\ SessionShape(g.session)

(* What two states of the windows have in common.                          *)
SameHeap(g, h) == g.main.heap = h.main.heap /\ g.shown.heap = h.shown.heap /\ g.windows.heap = h.windows.heap

SameTimers(g, h) == g.shown.timers = h.shown.timers

SameSignals(g, h) ==
  /\ g.main.signals = h.main.signals /\ g.main.holders = h.main.holders
  /\ g.shown.signals = h.shown.signals /\ g.windows.signals = h.windows.signals

SameColumns(g, h) ==
  g.shown.columns = h.shown.columns /\ g.shown.cells = h.shown.cells /\ g.shown.marks = h.shown.marks

LEMMA AddSignalShape ==
  ASSUME NEW s, SessionShape(s), NEW signal
  PROVE  SessionShape(AddSignal(s, signal)) /\ AddSignal(s, signal).traffic = s.traffic
<1>1. PICK reports : reports = SignalsWith(s.signals, signal)
  OBVIOUS
<1>2. PICK old : old = At(s.signals, signal.key, NewSignalReport)
  OBVIOUS
<1>3. /\ DOMAIN reports = DOMAIN s.signals \cup {signal.key}
      /\ reports[signal.key] = SignalAdd(old, signal)
      /\ \A k \in DOMAIN s.signals \ {signal.key} : reports[k] = s.signals[k]
  <2> HIDE DEF SignalAdd
  <2> QED BY <1>1, <1>2 DEF SignalsWith, Put
<1>4. IsFiniteSet(DOMAIN reports)
  BY <1>3, FS_AddElement DEF SessionShape
<1>5. Listed(old.signals)
  BY <1>2, ListedEmpty DEF At, NewSignalReport, SessionShape
<1>6. Listed(reports[signal.key].signals)
  <2>1. reports[signal.key].signals = Append(old.signals, signal)
    BY <1>3 DEF SignalAdd
  <2> QED BY <1>5, <2>1, ListedAppend
<1>7. \A k \in DOMAIN reports : Listed(reports[k].signals)
  BY <1>3, <1>6 DEF SessionShape
<1>8. PICK t : t = AddSignal(s, signal)
  OBVIOUS
<1>9. /\ DOMAIN t = DOMAIN s /\ t.signals = reports /\ t.traffic = s.traffic /\ t.timers = s.timers
  BY <1>1, <1>8 DEF AddSignal, SessionShape
<1> QED BY <1>4, <1>7, <1>8, <1>9 DEF SessionShape

LEMMA AddTimerShape ==
  ASSUME NEW s, SessionShape(s), NEW report
  PROVE  SessionShape(AddTimer(s, report)) /\ AddTimer(s, report).traffic = s.traffic
<1>1. PICK t : t = AddTimer(s, report)
  OBVIOUS
<1>2. /\ DOMAIN t = DOMAIN s /\ t.signals = s.signals /\ t.traffic = s.traffic
      /\ t.timers = Put(s.timers, report.key, TimerAssign(At(s.timers, report.key, NewTimerReport), report))
  BY <1>1 DEF AddTimer, SessionShape
<1>3. DOMAIN t.timers = DOMAIN s.timers \cup {report.key}
  BY <1>2 DEF Put
<1>4. IsFiniteSet(DOMAIN t.timers)
  BY <1>3, FS_AddElement DEF SessionShape
<1> QED BY <1>1, <1>2, <1>4 DEF SessionShape

LEMMA ListUpdatedShape ==
  ASSUME NEW g, GuiShape(g), NEW signal
  PROVE  LET h == ListUpdated(g, signal)
             reports == SignalsWith(g.main.signals, signal)
         IN  /\ GuiShape(h) /\ SameHeap(h, g) /\ SameTimers(h, g) /\ SameColumns(h, g)
             /\ h.session.traffic = g.session.traffic
             /\ h.main.signals = reports
             /\ h.main.holders = Put(g.main.holders, signal.key, reports[signal.key])
             /\ h.shown.signals = Put(g.shown.signals, signal.key, reports[signal.key].count)
             /\ h.windows.signals = IF signal.key \notin DOMAIN g.windows.signals THEN g.windows.signals
                                    ELSE Put(g.windows.signals, signal.key,
                                             DetailUpdate(g.windows.signals[signal.key], reports[signal.key]))
<1>1. PICK h : h = ListUpdated(g, signal)
  OBVIOUS
<1>2. PICK reports : reports = SignalsWith(g.main.signals, signal)
  OBVIOUS
<1>3. PICK holders : holders = Put(g.main.holders, signal.key, reports[signal.key])
  OBVIOUS
<1>4. PICK rows : rows = Put(g.shown.signals, signal.key, reports[signal.key].count)
  OBVIOUS
<1>5. PICK details : details = IF signal.key \in DOMAIN g.windows.signals
                               THEN Put(g.windows.signals, signal.key,
                                        DetailUpdate(g.windows.signals[signal.key], reports[signal.key]))
                               ELSE g.windows.signals
  OBVIOUS
<1>6. PICK s : s = AddSignal(g.session, signal)
  OBVIOUS
<1>7. h = [g EXCEPT !.main = [[g.main EXCEPT !.signals = reports] EXCEPT !.holders = holders],
                    !.session = s,
                    !.shown = [g.shown EXCEPT !.signals = rows],
                    !.windows = [g.windows EXCEPT !.signals = details]]
  <2>1. h = [g EXCEPT !.main.signals = reports,
                      !.main.holders = Put(@, signal.key, reports[signal.key]),
                      !.session = AddSignal(@, signal),
                      !.shown.signals = CountRow(@, signal.key, reports[signal.key].count),
                      !.windows.signals = details]
    BY <1>1, <1>2, <1>5 DEF ListUpdated
  <2> QED BY <1>3, <1>4, <1>6, <2>1 DEF GuiShape, CountRow
<1>8. /\ DOMAIN h = DOMAIN g /\ h.session = s
      /\ h.main = [[g.main EXCEPT !.signals = reports] EXCEPT !.holders = holders]
      /\ h.shown = [g.shown EXCEPT !.signals = rows]
      /\ h.windows = [g.windows EXCEPT !.signals = details]
  BY <1>7 DEF GuiShape
<1>9. /\ DOMAIN h.main = DOMAIN g.main /\ h.main.signals = reports /\ h.main.holders = holders
      /\ h.main.heap = g.main.heap
  BY <1>8 DEF GuiShape
<1>10. /\ DOMAIN h.shown = DOMAIN g.shown /\ h.shown.signals = rows /\ h.shown.heap = g.shown.heap
       /\ h.shown.timers = g.shown.timers /\ h.shown.columns = g.shown.columns
       /\ h.shown.cells = g.shown.cells /\ h.shown.marks = g.shown.marks
  BY <1>8 DEF GuiShape
<1>11. DOMAIN h.windows = DOMAIN g.windows /\ h.windows.signals = details /\ h.windows.heap = g.windows.heap
  BY <1>8 DEF GuiShape
<1>12. SessionShape(s) /\ s.traffic = g.session.traffic
  BY <1>6, AddSignalShape DEF GuiShape
<1>13. GuiShape(h)
  BY <1>8, <1>9, <1>10, <1>11, <1>12 DEF GuiShape
<1>14. SameHeap(h, g) /\ SameTimers(h, g) /\ SameColumns(h, g)
  BY <1>9, <1>10, <1>11 DEF SameHeap, SameTimers, SameColumns
<1> QED BY <1>1, <1>2, <1>3, <1>4, <1>5, <1>8, <1>9, <1>10, <1>11, <1>12, <1>13, <1>14
-----------------------------------------------------------------------------
LEMMA TimedShape ==
  ASSUME NEW g, GuiShape(g), NEW report
  PROVE  LET h == TimedListUpdated(g, report)
         IN  /\ GuiShape(h) /\ SameHeap(h, g) /\ SameSignals(h, g) /\ SameColumns(h, g)
             /\ h.session.traffic = g.session.traffic
             /\ h.shown.timers = Put(g.shown.timers, report.name, report.elapsed)
<1>1. PICK h : h = TimedListUpdated(g, report)
  OBVIOUS
<1>2. PICK rows : rows = Put(g.shown.timers, report.name, report.elapsed)
  OBVIOUS
<1>3. PICK s : s = AddTimer(g.session, report)
  OBVIOUS
<1>4. h = [g EXCEPT !.session = s, !.shown = [g.shown EXCEPT !.timers = rows]]
  BY <1>1, <1>2, <1>3 DEF TimedListUpdated, CountRow, GuiShape
<1>5. /\ DOMAIN h = DOMAIN g /\ h.session = s /\ h.shown = [g.shown EXCEPT !.timers = rows]
      /\ h.main = g.main /\ h.windows = g.windows
  BY <1>4 DEF GuiShape
<1>6. /\ DOMAIN h.shown = DOMAIN g.shown /\ h.shown.timers = rows /\ h.shown.heap = g.shown.heap
      /\ h.shown.signals = g.shown.signals /\ h.shown.columns = g.shown.columns
      /\ h.shown.cells = g.shown.cells /\ h.shown.marks = g.shown.marks
  BY <1>5 DEF GuiShape
<1>7. SessionShape(s) /\ s.traffic = g.session.traffic
  BY <1>3, AddTimerShape DEF GuiShape
<1>8. GuiShape(h)
  BY <1>5, <1>6, <1>7 DEF GuiShape
<1> QED BY <1>1, <1>2, <1>5, <1>6, <1>7, <1>8 DEF SameHeap, SameSignals, SameColumns

LEMMA HeapUpdatedShape ==
  ASSUME NEW g, GuiShape(g), NEW class, NEW report
  PROVE  LET h == HeapUpdated(g, class, report)
         IN  /\ GuiShape(h) /\ SameTimers(h, g) /\ SameSignals(h, g) /\ SameColumns(h, g)
             /\ h.session = g.session
             /\ h.main.heap = Put(g.main.heap, class, report)
             /\ h.shown.heap = HeapRow(g.shown.heap, class, report)
             /\ h.windows.heap = IF class \notin DOMAIN g.windows.heap THEN g.windows.heap
                                 ELSE Put(g.windows.heap, class, StackRows(g.windows.heap[class], report.stacks))
<1>1. PICK h : h = HeapUpdated(g, class, report)
  OBVIOUS
<1>2. PICK heap : heap = Put(g.main.heap, class, report)
  OBVIOUS
<1>3. PICK rows : rows = HeapRow(g.shown.heap, class, report)
  OBVIOUS
<1>4. PICK details : details = IF class \in DOMAIN g.windows.heap
                               THEN Put(g.windows.heap, class, StackRows(g.windows.heap[class], report.stacks))
                               ELSE g.windows.heap
  OBVIOUS
<1>5. h = [g EXCEPT !.main = [g.main EXCEPT !.heap = heap],
                    !.shown = [g.shown EXCEPT !.heap = rows],
                    !.windows = [g.windows EXCEPT !.heap = details]]
  BY <1>1, <1>2, <1>3, <1>4 DEF HeapUpdated, GuiShape
<1>6. /\ DOMAIN h = DOMAIN g /\ h.session = g.session
      /\ h.main = [g.main EXCEPT !.heap = heap] /\ h.shown = [g.shown EXCEPT !.heap = rows]
      /\ h.windows = [g.windows EXCEPT !.heap = details]
  BY <1>5 DEF GuiShape
<1>7. /\ DOMAIN h.main = DOMAIN g.main /\ h.main.heap = heap
      /\ h.main.signals = g.main.signals /\ h.main.holders = g.main.holders
  BY <1>6 DEF GuiShape
<1>8. /\ DOMAIN h.shown = DOMAIN g.shown /\ h.shown.heap = rows /\ h.shown.timers = g.shown.timers
      /\ h.shown.signals = g.shown.signals /\ h.shown.columns = g.shown.columns
      /\ h.shown.cells = g.shown.cells /\ h.shown.marks = g.shown.marks
  BY <1>6 DEF GuiShape
<1>9. DOMAIN h.windows = DOMAIN g.windows /\ h.windows.heap = details /\ h.windows.signals = g.windows.signals
  BY <1>6 DEF GuiShape
<1>10. GuiShape(h)
  BY <1>6, <1>7, <1>8, <1>9 DEF GuiShape
<1> QED BY <1>1, <1>2, <1>3, <1>4, <1>6, <1>7, <1>8, <1>9, <1>10 DEF SameTimers, SameSignals, SameColumns

(* The tables, when the window of the traffic changes.                     *)
TablesShape(tables) ==
  DOMAIN tables = {"heap", "signals", "timers", "jams", "classes", "columns", "cells", "marks", "ranking"}

OtherTables(tables, others) ==
  /\ tables.heap = others.heap /\ tables.signals = others.signals /\ tables.timers = others.timers

LEMMA TraceShownShape ==
  ASSUME NEW tables, TablesShape(tables), NEW trace
  PROVE  TablesShape(TraceShown(tables, trace)) /\ OtherTables(TraceShown(tables, trace), tables)
<1>1. PICK new : new = TraceShown(tables, trace)
  OBVIOUS
<1>2. \E a, b, c : new = [tables EXCEPT !.columns = a, !.cells = b, !.marks = c]
  BY <1>1 DEF TraceShown
<1> QED BY <1>1, <1>2 DEF TablesShape, OtherTables

LEMMA TrafficShownShape ==
  ASSUME NEW tables, TablesShape(tables), NEW traces, Listed(traces)
  PROVE  TablesShape(TrafficShown(tables, traces)) /\ OtherTables(TrafficShown(tables, traces), tables)
<1>1. PICK n \in Nat : DOMAIN traces = 1 .. n
  BY ListedDomain
<1>2. PICK k : RunOf("trace", tables, traces, n, k) /\ TrafficShown(tables, traces) = k[n]
  BY <1>1, TraceFold DEF TrafficShown
<1> DEFINE P == {i \in Nat : i <= n => TablesShape(k[i]) /\ OtherTables(k[i], tables)}
<1>3. 0 \in P
  BY <1>2 DEF RunOf, OtherTables
<1>4. ASSUME NEW i \in Nat, i \in P PROVE i + 1 \in P
  <2> SUFFICES ASSUME i + 1 <= n PROVE TablesShape(k[i + 1]) /\ OtherTables(k[i + 1], tables)
    OBVIOUS
  <2>1. TablesShape(k[i]) /\ OtherTables(k[i], tables)
    BY <1>4
  <2>2. k[i + 1] = TraceShown(k[i], traces[i + 1])
    <3>1. i + 1 \in 1 .. n /\ i + 1 - 1 = i
      OBVIOUS
    <3> QED BY <1>2, <3>1 DEF RunOf, Applied
  <2>3. TablesShape(k[i + 1]) /\ OtherTables(k[i + 1], k[i])
    BY <2>1, <2>2, TraceShownShape
  <2> QED BY <2>1, <2>3 DEF OtherTables
<1>5. n \in P
  <2> HIDE DEF P
  <2> QED BY <1>3, <1>4, NatSetInduction
<1> QED BY <1>2, <1>5

LEMMA RankingShownShape ==
  ASSUME NEW tables, TablesShape(tables), NEW ranks
  PROVE  /\ TablesShape(RankingShown(tables, ranks)) /\ OtherTables(RankingShown(tables, ranks), tables)
         /\ RankingShown(tables, ranks).columns = tables.columns
         /\ RankingShown(tables, ranks).cells = tables.cells
         /\ RankingShown(tables, ranks).marks = tables.marks
BY DEF RankingShown, TablesShape, OtherTables

(* The steps of the main window that touch neither the heap, nor the       *)
(* timers, nor the signals.                                                *)
LEMMA TrafficUpdatedShape ==
  ASSUME NEW g, GuiShape(g), NEW traces, TracesShape(traces), Len(traces) = 1
  PROVE  LET h == TrafficUpdated(g, traces)
         IN  /\ GuiShape(h) /\ SameHeap(h, g) /\ SameTimers(h, g) /\ SameSignals(h, g)
             /\ h.shown = TrafficShown(g.shown, traces)
             /\ h.session.traffic = g.session.traffic \o <<TraceMarked(g.shown, traces[1])>>
<1>1. PICK h : h = TrafficUpdated(g, traces)
  OBVIOUS
<1>2. PICK tables : tables = TrafficShown(g.shown, traces)
  OBVIOUS
<1>3. PICK marked : marked = TraceMarked(g.shown, traces[1])
  OBVIOUS
<1>4. PICK s : s = AddTraffic(g.session, <<marked>>)
  OBVIOUS
<1>5. h = [g EXCEPT !.shown = tables, !.session = s]
  BY <1>1, <1>2, <1>3, <1>4 DEF TrafficUpdated
<1>6. TablesShape(tables) /\ OtherTables(tables, g.shown)
  BY <1>2, TrafficShownShape DEF GuiShape, TablesShape, TracesShape
<1>7. TraceShape(marked)
  <2>1. TraceShape(traces[1])
    BY ListedDomain DEF TracesShape
  <2>2. marked = [traces[1] EXCEPT !.monitors =
                    Passes(At(g.shown.columns, traces[1].thread, <<>>), traces[1])[
                      Len(At(g.shown.columns, traces[1].thread, <<>>))].marks]
    BY <1>3 DEF TraceMarked, ColumnUpdate
  <2> QED BY <2>1, <2>2 DEF TraceShape
<1>8. s = [g.session EXCEPT !.traffic = g.session.traffic \o <<marked>>]
  BY <1>4 DEF AddTraffic
<1>9. TracesShape(g.session.traffic \o <<marked>>)
  <2>1. Listed(<<marked>>) /\ Len(<<marked>>) = 1 /\ <<marked>>[1] = marked
    BY ListedEmpty, ListedFunction
  <2>2. PICK t : t = g.session.traffic
    OBVIOUS
  <2>3. Listed(t) /\ Len(t) \in Nat /\ \A i \in 1 .. Len(t) : TraceShape(t[i])
    BY <2>2, ListedDomain DEF GuiShape, SessionShape, TracesShape
  <2>4. PICK u : u = t \o <<marked>>
    OBVIOUS
  <2>5. Listed(u) /\ Len(u) = Len(t) + 1 /\ (\A i \in 1 .. Len(t) : u[i] = t[i]) /\ u[Len(t) + 1] = marked
    BY <2>1, <2>3, <2>4, ListedConcat
  <2>6. \A i \in 1 .. Len(u) : TraceShape(u[i])
    <3> TAKE i \in 1 .. Len(u)
    <3>1. i \in 1 .. Len(t) \/ i = Len(t) + 1
      BY <2>3, <2>5
    <3> QED BY <1>7, <2>3, <2>5, <3>1
  <2> QED BY <2>2, <2>4, <2>5, <2>6, ListedDomain DEF TracesShape
<1>10. SessionShape(s) /\ s.traffic = g.session.traffic \o <<marked>>
  BY <1>8, <1>9 DEF GuiShape, SessionShape
<1>11. DOMAIN h = DOMAIN g /\ h.shown = tables /\ h.session = s /\ h.main = g.main /\ h.windows = g.windows
  BY <1>5 DEF GuiShape
<1>12. GuiShape(h)
  BY <1>6, <1>10, <1>11 DEF GuiShape, TablesShape
<1> QED BY <1>1, <1>2, <1>3, <1>6, <1>10, <1>11, <1>12 DEF OtherTables, SameHeap, SameTimers, SameSignals

LEMMA OtherUpdatesShape ==
  ASSUME NEW g, GuiShape(g), NEW h, NEW report,
         h = RankingUpdated(g, report) \/ h = ClassesUpdated(g, report) \/ h = JammedUpdated(g, report)
  PROVE  /\ GuiShape(h) /\ SameHeap(h, g) /\ SameTimers(h, g) /\ SameSignals(h, g) /\ SameColumns(h, g)
         /\ h.session.traffic = g.session.traffic
<1>1. PICK tables, s :
        /\ h = [g EXCEPT !.shown = tables, !.session = s]
        /\ TablesShape(tables) /\ OtherTables(tables, g.shown) /\ tables.columns = g.shown.columns
        /\ tables.cells = g.shown.cells /\ tables.marks = g.shown.marks
        /\ SessionShape(s) /\ s.traffic = g.session.traffic
  <2>1. CASE h = RankingUpdated(g, report)
    <3>1. PICK tables : tables = RankingShown(g.shown, report)
      OBVIOUS
    <3>2. PICK s : s = AddRankings(g.session, report)
      OBVIOUS
    <3>3. h = [g EXCEPT !.shown = tables, !.session = s]
      BY <2>1, <3>1, <3>2 DEF RankingUpdated
    <3>4. SessionShape(s) /\ s.traffic = g.session.traffic
      BY <3>2 DEF AddRankings, GuiShape, SessionShape
    <3>5. TablesShape(g.shown)
      BY DEF GuiShape, TablesShape
    <3>6. /\ TablesShape(tables) /\ OtherTables(tables, g.shown) /\ tables.columns = g.shown.columns
          /\ tables.cells = g.shown.cells /\ tables.marks = g.shown.marks
      BY <3>1, <3>5, RankingShownShape
    <3> QED BY <3>3, <3>4, <3>6
  <2>2. CASE h = ClassesUpdated(g, report)
    <3>1. PICK table : table = FoldLeft(ClassLoaded, g.shown.classes, report)
      OBVIOUS
    <3>2. PICK tables : tables = [g.shown EXCEPT !.classes = table]
      OBVIOUS
    <3>3. PICK s : s = AddClasses(g.session, report)
      OBVIOUS
    <3>4. h = [g EXCEPT !.shown = tables, !.session = s]
      BY <2>2, <3>1, <3>2, <3>3 DEF ClassesUpdated, GuiShape
    <3>5. SessionShape(s) /\ s.traffic = g.session.traffic
      BY <3>3 DEF AddClasses, GuiShape, SessionShape
    <3>6. /\ TablesShape(tables) /\ OtherTables(tables, g.shown) /\ tables.columns = g.shown.columns
          /\ tables.cells = g.shown.cells /\ tables.marks = g.shown.marks
      BY <3>2 DEF GuiShape, TablesShape, OtherTables
    <3> QED BY <3>4, <3>5, <3>6
  <2>3. CASE h = JammedUpdated(g, report)
    <3>1. PICK rows : rows = JammedRow(g.shown.jams, report)
      OBVIOUS
    <3>2. PICK tables : tables = [g.shown EXCEPT !.jams = rows]
      OBVIOUS
    <3>3. PICK s : s = AddJammed(g.session, report)
      OBVIOUS
    <3>4. h = [g EXCEPT !.shown = tables, !.session = s]
      BY <2>3, <3>1, <3>2, <3>3 DEF JammedUpdated, GuiShape
    <3>5. SessionShape(s) /\ s.traffic = g.session.traffic
      BY <3>3 DEF AddJammed, GuiShape, SessionShape
    <3>6. /\ TablesShape(tables) /\ OtherTables(tables, g.shown) /\ tables.columns = g.shown.columns
          /\ tables.cells = g.shown.cells /\ tables.marks = g.shown.marks
      BY <3>2 DEF GuiShape, TablesShape, OtherTables
    <3> QED BY <3>4, <3>5, <3>6
  <2> QED BY <2>1, <2>2, <2>3
<1>2. DOMAIN h = DOMAIN g /\ h.shown = tables /\ h.session = s /\ h.main = g.main /\ h.windows = g.windows
  BY <1>1 DEF GuiShape
<1>3. GuiShape(h)
  BY <1>1, <1>2 DEF GuiShape, TablesShape
<1> QED BY <1>1, <1>2, <1>3 DEF OtherTables, SameHeap, SameTimers, SameSignals, SameColumns
-----------------------------------------------------------------------------
(* A sum over the rest of a set, and what has the value one.               *)
LEMMA SumOnes ==
  ASSUME NEW A, IsFiniteSet(A), NEW B, IsFiniteSet(B), A \cap B = {}, NEW f,
         \A x \in A : f[x] \in Int, \A x \in B : f[x] = 1
  PROVE  SumFunctionOnSet(f, A \cup B) = SumFunctionOnSet(f, A) + Cardinality(B)
<1> DEFINE P == {T \in SUBSET B : SumFunctionOnSet(f, A \cup T) = SumFunctionOnSet(f, A) + Cardinality(T)}
<1>0. SumFunctionOnSet(f, A) \in Int
  BY SumType
<1>1. {} \in P
  <2>1. A \cup {} = A
    OBVIOUS
  <2> QED BY <1>0, <2>1, FS_EmptySet
<1>2. ASSUME NEW T \in SUBSET B, NEW x \in B \ T, T \in P PROVE T \cup {x} \in P
  <2>1. PICK U : U = A \cup (T \cup {x})
    OBVIOUS
  <2>2. U \ {x} = A \cup T /\ x \in U
    BY <2>1
  <2>3. IsFiniteSet(T) /\ IsFiniteSet(A \cup T) /\ IsFiniteSet(T \cup {x}) /\ IsFiniteSet(U)
    BY <2>1, FS_Subset, FS_Union, FS_AddElement
  <2>4. \A y \in U : f[y] \in Int
    BY <2>1
  <2>5. SumFunctionOnSet(f, U) = f[x] + SumFunctionOnSet(f, A \cup T)
    BY <2>2, <2>3, <2>4, SumAdd
  <2>6. Cardinality(T \cup {x}) = Cardinality(T) + 1 /\ Cardinality(T) \in Nat
    BY <2>3, FS_AddElement, FS_CardinalityType
  <2>7. SumFunctionOnSet(f, A \cup T) = SumFunctionOnSet(f, A) + Cardinality(T)
    BY <1>2
  <2>8. SumFunctionOnSet(f, A \cup (T \cup {x})) = SumFunctionOnSet(f, A) + Cardinality(T \cup {x})
    <3>1. f[x] = 1
      OBVIOUS
    <3> HIDE DEF P
    <3> QED BY <1>0, <2>1, <2>5, <2>6, <2>7, <3>1
  <2> QED BY <2>8
<1>3. B \in P
  <2> HIDE DEF P
  <2> QED BY <1>1, <1>2, FiniteSetInduction
<1> QED BY <1>3

(* A signal report counts its signals by stack and by values.              *)
Counts(report) ==
  /\ report.count \in Nat
  /\ IsFiniteSet(DOMAIN report.stacks) /\ \A s \in DOMAIN report.stacks : report.stacks[s] \in Nat
  /\ SumFunction(report.stacks) = report.count
  /\ IsFiniteSet(DOMAIN report.markers) /\ \A v \in DOMAIN report.markers : report.markers[v] \in Nat \ {0}
  /\ SumFunction(report.markers) = report.count

LEMMA NewCounts == Counts(NewSignalReport)
<1>1. /\ DOMAIN Nothing = {} /\ SumFunction(Nothing) = 0
  BY SumEmpty DEF SumFunction, Nothing
<1> QED BY <1>1, FS_EmptySet DEF Counts, NewSignalReport

LEMMA AddCounts ==
  ASSUME NEW report, Counts(report), NEW signal
  PROVE  /\ Counts(SignalAdd(report, signal))
         /\ DOMAIN report.stacks \subseteq DOMAIN SignalAdd(report, signal).stacks
         /\ DOMAIN report.markers \subseteq DOMAIN SignalAdd(report, signal).markers
<1>1. PICK stacks : stacks = Counted(report.stacks, signal.stack)
  OBVIOUS
<1>2. PICK markers : markers = Counted(report.markers, signal.values)
  OBVIOUS
<1>3. PICK new : new = SignalAdd(report, signal)
  OBVIOUS
<1>4. new.count = report.count + 1 /\ new.stacks = stacks /\ new.markers = markers
  BY <1>1, <1>2, <1>3 DEF SignalAdd
<1>5. /\ IsFiniteSet(DOMAIN stacks) /\ \A s \in DOMAIN stacks : stacks[s] \in Nat
      /\ SumFunction(stacks) = SumFunction(report.stacks) + 1
  BY <1>1, CountedSum DEF Counts
<1>6. /\ IsFiniteSet(DOMAIN markers) /\ SumFunction(markers) = SumFunction(report.markers) + 1
  BY <1>2, CountedSum DEF Counts
<1>7. \A v \in DOMAIN markers : markers[v] \in Nat \ {0}
  BY <1>2 DEF Counted, Put, At, Counts
<1>8. DOMAIN report.stacks \subseteq DOMAIN stacks /\ DOMAIN report.markers \subseteq DOMAIN markers
  BY <1>1, <1>2 DEF Counted, Put
<1>9. Counts(new)
  BY <1>4, <1>5, <1>6, <1>7 DEF Counts
<1> QED BY <1>3, <1>4, <1>8, <1>9

(* A detail window has what a report has: each stack, each combination of  *)
(* values in a row of its own or in the one they share.                    *)
DetailOf(detail, report) ==
  /\ DOMAIN detail = {"stacks", "own", "folded", "star"}
  /\ DOMAIN detail.stacks = DOMAIN report.stacks
  /\ \A s \in DOMAIN report.stacks : detail.stacks[s] = report.stacks[s]
  /\ detail.folded \cap DOMAIN detail.own = {}
  /\ detail.folded \cup DOMAIN detail.own = DOMAIN report.markers
  /\ \A v \in detail.folded : report.markers[v] = 1
  /\ \A v \in DOMAIN detail.own : detail.own[v] = report.markers[v]
  /\ detail.star = Cardinality(detail.folded)

(* The same of an earlier report.                                          *)
DetailBefore(detail, report) ==
  /\ DOMAIN detail = {"stacks", "own", "folded", "star"}
  /\ DOMAIN detail.stacks \subseteq DOMAIN report.stacks
  /\ detail.folded \cap DOMAIN detail.own = {}
  /\ detail.folded \cup DOMAIN detail.own \subseteq DOMAIN report.markers
  /\ detail.star = Cardinality(detail.folded)

LEMMA DetailUpdated ==
  ASSUME NEW report, Counts(report), NEW detail, DetailBefore(detail, report)
  PROVE  DetailOf(DetailUpdate(detail, report), report)
<1>1. PICK markers : markers = report.markers
  OBVIOUS
<1>2. PICK own : own = DOMAIN detail.own
  OBVIOUS
<1>3. PICK folded : folded = detail.folded
  OBVIOUS
<1>4. PICK new : new = DOMAIN markers \ (own \cup folded)
  OBVIOUS
<1>5. PICK once : once = {v \in new : markers[v] <= 1}
  OBVIOUS
<1>6. PICK leave : leave = {v \in folded \cap DOMAIN markers : markers[v] # 1}
  OBVIOUS
<1>7. PICK rows : rows = own \cup leave \cup (new \ once)
  OBVIOUS
<1>8. PICK d : d = DetailUpdate(detail, report)
  OBVIOUS
<1>9. PICK old : old = [detail EXCEPT !.stacks = StackRows(@, report.stacks)]
  OBVIOUS
<1>10. /\ DOMAIN old = {"stacks", "own", "folded", "star"} /\ old.stacks = StackRows(detail.stacks, report.stacks)
       /\ old.own = detail.own /\ old.folded = detail.folded /\ old.star = detail.star
  BY <1>9 DEF DetailBefore
<1>11. d = [old EXCEPT !.folded = (@ \ leave) \cup once,
                       !.star = @ + Cardinality(once) - Cardinality(leave),
                       !.own = [v \in rows |-> IF v \in DOMAIN markers THEN markers[v] ELSE @[v]]]
  BY <1>1, <1>2, <1>3, <1>4, <1>5, <1>6, <1>7, <1>8, <1>9, <1>10 DEF DetailUpdate, DetailMarkers
<1>12. /\ DOMAIN d = {"stacks", "own", "folded", "star"}
       /\ d.stacks = StackRows(detail.stacks, report.stacks)
       /\ d.folded = (folded \ leave) \cup once
       /\ d.star = detail.star + Cardinality(once) - Cardinality(leave)
       /\ d.own = [v \in rows |-> IF v \in DOMAIN markers THEN markers[v] ELSE detail.own[v]]
  BY <1>3, <1>10, <1>11
<1>13. /\ folded \cap own = {} /\ folded \subseteq DOMAIN markers /\ own \subseteq DOMAIN markers
       /\ detail.star = Cardinality(folded)
  BY <1>1, <1>2, <1>3 DEF DetailBefore
<1>14. IsFiniteSet(DOMAIN markers) /\ \A v \in DOMAIN markers : markers[v] \in Nat \ {0}
  BY <1>1 DEF Counts
<1>15. /\ DOMAIN d.stacks = DOMAIN report.stacks
       /\ \A s \in DOMAIN report.stacks : d.stacks[s] = report.stacks[s]
  BY <1>12 DEF StackRows, DetailBefore
<1>16. /\ rows \subseteq DOMAIN markers /\ rows \cap d.folded = {} /\ rows \cup d.folded = DOMAIN markers
  BY <1>4, <1>5, <1>6, <1>7, <1>12, <1>13
<1>17. \A v \in d.folded : markers[v] = 1
  <2>1. \A v \in folded \ leave : markers[v] = 1
    BY <1>6, <1>13
  <2>2. \A v \in once : markers[v] = 1
    BY <1>4, <1>5, <1>14
  <2> QED BY <1>12, <2>1, <2>2
<1>18. DOMAIN d.own = rows /\ \A v \in rows : d.own[v] = markers[v]
  BY <1>12, <1>16
<1>19. d.star = Cardinality(d.folded)
  <2>1. IsFiniteSet(folded) /\ IsFiniteSet(once) /\ IsFiniteSet(leave)
    <3>1. once \subseteq DOMAIN markers /\ leave \subseteq DOMAIN markers
      BY <1>4, <1>5, <1>6
    <3> QED BY <1>13, <1>14, <3>1, FS_Subset
  <2>2. leave \subseteq folded /\ folded \cap leave = leave
    BY <1>6
  <2>3. /\ IsFiniteSet(folded \ leave)
        /\ Cardinality(folded \ leave) = Cardinality(folded) - Cardinality(leave)
    BY <2>1, <2>2, FS_Difference
  <2>4. (folded \ leave) \cap once = {}
    BY <1>4, <1>5
  <2>5. Cardinality((folded \ leave) \cup once) = Cardinality(folded \ leave) + Cardinality(once)
    <3>1. Cardinality({}) = 0
      BY FS_EmptySet
    <3>2. Cardinality(folded \ leave) \in Nat /\ Cardinality(once) \in Nat
      BY <2>1, <2>3, FS_CardinalityType
    <3>3. PICK rest : rest = folded \ leave
      OBVIOUS
    <3>4. IsFiniteSet(rest) /\ rest \cap once = {}
      BY <2>3, <2>4, <3>3
    <3>5. Cardinality(rest \cup once) = Cardinality(rest) + Cardinality(once) - Cardinality(rest \cap once)
      BY <2>1, <3>4, FS_Union
    <3>6. Cardinality(rest \cap once) = 0
      BY <3>1, <3>4
    <3> QED BY <3>2, <3>3, <3>5, <3>6
  <2>6. Cardinality(folded) \in Nat /\ Cardinality(leave) \in Nat /\ Cardinality(once) \in Nat
    BY <2>1, FS_CardinalityType
  <2> QED BY <1>12, <1>13, <2>3, <2>5, <2>6
<1> QED BY <1>1, <1>8, <1>12, <1>15, <1>16, <1>17, <1>18, <1>19 DEF DetailOf

(* The rows add up.                                                        *)
LEMMA DetailSums ==
  ASSUME NEW report, Counts(report), NEW detail, DetailOf(detail, report)
  PROVE  /\ detail.star + SumFunction(detail.own) = report.count
         /\ SumFunction(detail.stacks) = report.count
<1>1. PICK own : own = DOMAIN detail.own
  OBVIOUS
<1>2. PICK folded : folded = detail.folded
  OBVIOUS
<1>3. PICK markers : markers = report.markers
  OBVIOUS
<1>4. /\ own \cap folded = {} /\ own \cup folded = DOMAIN markers
      /\ \A v \in folded : markers[v] = 1
      /\ \A v \in own : detail.own[v] = markers[v]
      /\ detail.star = Cardinality(folded)
  BY <1>1, <1>2, <1>3 DEF DetailOf
<1>5. /\ IsFiniteSet(own) /\ IsFiniteSet(folded) /\ \A v \in own : markers[v] \in Int
      /\ SumFunctionOnSet(markers, own \cup folded) = report.count
  <2>1. IsFiniteSet(DOMAIN markers) /\ \A v \in DOMAIN markers : markers[v] \in Nat \ {0}
    BY <1>3 DEF Counts
  <2>2. own \subseteq DOMAIN markers /\ folded \subseteq DOMAIN markers
    BY <1>4
  <2>3. SumFunctionOnSet(markers, own \cup folded) = report.count
    BY <1>3, <1>4 DEF Counts, SumFunction
  <2> QED BY <2>1, <2>2, <2>3, FS_Subset
<1>6. SumFunctionOnSet(markers, own \cup folded) = SumFunctionOnSet(markers, own) + Cardinality(folded)
  BY <1>4, <1>5, SumOnes
<1>7. SumFunctionOnSet(detail.own, own) = SumFunctionOnSet(markers, own)
  BY <1>4, <1>5, SumEqual
<1>8. SumFunctionOnSet(markers, own) \in Int /\ Cardinality(folded) \in Nat
  BY <1>5, SumType, FS_CardinalityType
<1>9. detail.star + SumFunction(detail.own) = report.count
  BY <1>1, <1>4, <1>5, <1>6, <1>7, <1>8 DEF SumFunction
<1>10. SumFunction(detail.stacks) = report.count
  <2>1. PICK D : D = DOMAIN report.stacks
    OBVIOUS
  <2>2. /\ DOMAIN detail.stacks = D /\ IsFiniteSet(D) /\ \A s \in D : detail.stacks[s] = report.stacks[s]
    BY <2>1 DEF DetailOf, Counts
  <2>3. SumFunctionOnSet(detail.stacks, D) = SumFunctionOnSet(report.stacks, D)
    BY <2>2, SumEqual
  <2> QED BY <2>1, <2>2, <2>3 DEF SumFunction, Counts
<1> QED BY <1>9, <1>10
-----------------------------------------------------------------------------
(* What the signal window shows is what the main window has counted, and   *)
(* the details are those of the counts, but for the stale ones.            *)
SignalsKept(g, stale) ==
  /\ DOMAIN g.main.signals = DOMAIN g.shown.signals
  /\ \A key \in DOMAIN g.main.signals :
       /\ Counts(g.main.signals[key])
       /\ g.shown.signals[key] = g.main.signals[key].count
       /\ key \in DOMAIN g.main.holders /\ g.main.holders[key] = g.main.signals[key]
  /\ \A key \in DOMAIN g.windows.signals \ stale :
       key \in DOMAIN g.main.signals /\ DetailOf(g.windows.signals[key], g.main.signals[key])

LEMMA DetailGrows ==
  ASSUME NEW report, Counts(report), NEW signal, NEW detail, DetailOf(detail, report)
  PROVE  DetailOf(DetailUpdate(detail, SignalAdd(report, signal)), SignalAdd(report, signal))
<1>1. PICK new : new = SignalAdd(report, signal)
  OBVIOUS
<1>2. /\ Counts(new) /\ DOMAIN report.stacks \subseteq DOMAIN new.stacks
      /\ DOMAIN report.markers \subseteq DOMAIN new.markers
  BY <1>1, AddCounts
<1>3. DetailBefore(detail, new)
  BY <1>2 DEF DetailOf, DetailBefore
<1> QED BY <1>1, <1>2, <1>3, DetailUpdated

LEMMA ListUpdatedKeeps ==
  ASSUME NEW g, GuiShape(g), NEW stale, SignalsKept(g, stale), NEW signal
  PROVE  SignalsKept(ListUpdated(g, signal), stale)
<1>1. PICK h : h = ListUpdated(g, signal)
  OBVIOUS
<1>2. PICK k : k = signal.key
  OBVIOUS
<1>3. PICK reports : reports = SignalsWith(g.main.signals, signal)
  OBVIOUS
<1>4. PICK old : old = At(g.main.signals, k, NewSignalReport)
  OBVIOUS
<1>5. PICK new : new = SignalAdd(old, signal)
  OBVIOUS
<1>6. /\ DOMAIN reports = DOMAIN g.main.signals \cup {k} /\ reports[k] = new
      /\ \A key \in DOMAIN g.main.signals \ {k} : reports[key] = g.main.signals[key]
  BY <1>2, <1>3, <1>4, <1>5 DEF SignalsWith, Put
<1>7. Counts(old)
  BY <1>4, NewCounts DEF At, SignalsKept
<1>8. Counts(new)
  BY <1>5, <1>7, AddCounts
<1>9. /\ h.main.signals = reports
      /\ h.main.holders = Put(g.main.holders, k, new)
      /\ h.shown.signals = Put(g.shown.signals, k, new.count)
      /\ h.windows.signals = IF k \notin DOMAIN g.windows.signals THEN g.windows.signals
                             ELSE Put(g.windows.signals, k, DetailUpdate(g.windows.signals[k], new))
  BY <1>1, <1>2, <1>3, <1>6, ListUpdatedShape
<1>10. /\ DOMAIN h.main.holders = DOMAIN g.main.holders \cup {k} /\ h.main.holders[k] = new
       /\ \A key \in DOMAIN g.main.holders \ {k} : h.main.holders[key] = g.main.holders[key]
  BY <1>9 DEF Put
<1>11. /\ DOMAIN h.shown.signals = DOMAIN g.shown.signals \cup {k} /\ h.shown.signals[k] = new.count
       /\ \A key \in DOMAIN g.shown.signals \ {k} : h.shown.signals[key] = g.shown.signals[key]
  BY <1>9 DEF Put
<1>12. /\ DOMAIN h.windows.signals = DOMAIN g.windows.signals
       /\ k \in DOMAIN g.windows.signals => h.windows.signals[k] = DetailUpdate(g.windows.signals[k], new)
       /\ \A key \in DOMAIN g.windows.signals \ {k} : h.windows.signals[key] = g.windows.signals[key]
  BY <1>9 DEF Put
<1>13. DOMAIN h.main.signals = DOMAIN h.shown.signals
  BY <1>6, <1>9, <1>11 DEF SignalsKept
<1>14. ASSUME NEW key \in DOMAIN h.main.signals
       PROVE  /\ Counts(h.main.signals[key])
              /\ h.shown.signals[key] = h.main.signals[key].count
              /\ key \in DOMAIN h.main.holders /\ h.main.holders[key] = h.main.signals[key]
  <2>1. CASE key = k
    BY <1>6, <1>8, <1>9, <1>10, <1>11, <2>1
  <2>2. CASE key # k
    BY <1>6, <1>9, <1>10, <1>11, <2>2 DEF SignalsKept
  <2> QED BY <2>1, <2>2
<1>15. ASSUME NEW key \in DOMAIN h.windows.signals \ stale
       PROVE  key \in DOMAIN h.main.signals /\ DetailOf(h.windows.signals[key], h.main.signals[key])
  <2>0. key \in DOMAIN g.main.signals /\ DetailOf(g.windows.signals[key], g.main.signals[key])
    BY <1>12 DEF SignalsKept
  <2>1. CASE key = k
    <3>1. old = g.main.signals[k]
      BY <1>4, <2>0, <2>1 DEF At
    <3>2. DetailOf(DetailUpdate(g.windows.signals[k], new), new)
      BY <1>5, <1>7, <2>0, <2>1, <3>1, DetailGrows
    <3> QED BY <1>6, <1>9, <1>12, <2>1, <3>2
  <2>2. CASE key # k
    BY <1>6, <1>9, <1>12, <2>0, <2>2
  <2> QED BY <2>1, <2>2
<1> QED BY <1>1, <1>13, <1>14, <1>15 DEF SignalsKept

(* What all the steps that show a list of signals do.                      *)
After(g, h, stale) ==
  /\ GuiShape(h) /\ SameColumns(h, g) /\ h.session.traffic = g.session.traffic
  /\ SignalsKept(g, stale) => SignalsKept(h, stale)

LEMMA SignalsShownAfter ==
  ASSUME NEW g, GuiShape(g), NEW stale, NEW signals, Listed(signals)
  PROVE  After(g, SignalsShown(g, signals), stale)
<1>1. PICK n \in Nat : DOMAIN signals = 1 .. n
  BY ListedDomain
<1>2. PICK k : RunOf("list", g, signals, n, k) /\ SignalsShown(g, signals) = k[n]
  BY <1>1, ListFold DEF SignalsShown
<1> DEFINE P == {i \in Nat : i <= n => After(g, k[i], stale)}
<1>3. 0 \in P
  BY <1>2 DEF RunOf, After, SameColumns
<1>4. ASSUME NEW i \in Nat, i \in P PROVE i + 1 \in P
  <2> SUFFICES ASSUME i + 1 <= n PROVE After(g, k[i + 1], stale)
    OBVIOUS
  <2>1. After(g, k[i], stale)
    BY <1>4
  <2>2. k[i + 1] = ListUpdated(k[i], signals[i + 1])
    <3>1. i + 1 \in 1 .. n /\ i + 1 - 1 = i
      OBVIOUS
    <3> QED BY <1>2, <3>1 DEF RunOf, Applied
  <2>3. /\ GuiShape(k[i + 1]) /\ SameColumns(k[i + 1], k[i]) /\ k[i + 1].session.traffic = k[i].session.traffic
    <3>1. GuiShape(k[i])
      BY <2>1 DEF After
    <3>2. PICK a : a = k[i]
      OBVIOUS
    <3>3. PICK b : b = ListUpdated(a, signals[i + 1])
      OBVIOUS
    <3>4. /\ GuiShape(b) /\ SameColumns(b, a)
          /\ b.session.traffic = a.session.traffic
      BY <3>1, <3>2, <3>3, ListUpdatedShape
    <3> QED BY <2>2, <3>2, <3>3, <3>4
  <2>4. SignalsKept(k[i], stale) => SignalsKept(k[i + 1], stale)
    BY <2>1, <2>2, ListUpdatedKeeps DEF After
  <2> QED BY <2>1, <2>3, <2>4 DEF After, SameColumns
<1>5. n \in P
  <2> HIDE DEF P
  <2> QED BY <1>3, <1>4, NatSetInduction
<1> QED BY <1>2, <1>5

LEMMA ListsShownAfter ==
  ASSUME NEW g, GuiShape(g), NEW stale, NEW lists, Listed(lists), \A i \in DOMAIN lists : Listed(lists[i])
  PROVE  After(g, FoldLeft(SignalsShown, g, lists), stale)
<1>1. PICK n \in Nat : DOMAIN lists = 1 .. n
  BY ListedDomain
<1>2. PICK k : RunOf("lists", g, lists, n, k) /\ FoldLeft(SignalsShown, g, lists) = k[n]
  BY <1>1, ListsFold
<1> DEFINE P == {i \in Nat : i <= n => After(g, k[i], stale)}
<1>3. 0 \in P
  BY <1>2 DEF RunOf, After, SameColumns
<1>4. ASSUME NEW i \in Nat, i \in P PROVE i + 1 \in P
  <2> SUFFICES ASSUME i + 1 <= n PROVE After(g, k[i + 1], stale)
    OBVIOUS
  <2>1. After(g, k[i], stale)
    BY <1>4
  <2>2. i + 1 \in 1 .. n /\ i + 1 - 1 = i
    OBVIOUS
  <2>3. k[i + 1] = SignalsShown(k[i], lists[i + 1])
    BY <1>2, <2>2 DEF RunOf, Applied
  <2>4. After(k[i], k[i + 1], stale)
    BY <1>1, <2>1, <2>2, <2>3, SignalsShownAfter DEF After
  <2> QED BY <2>1, <2>4 DEF After, SameColumns
<1>5. n \in P
  <2> HIDE DEF P
  <2> QED BY <1>3, <1>4, NatSetInduction
<1> QED BY <1>2, <1>5

LEMMA SignalsSame ==
  ASSUME NEW g, NEW h, SameSignals(g, h), NEW stale, SignalsKept(h, stale)
  PROVE  SignalsKept(g, stale)
BY DEF SameSignals, SignalsKept

LEMMA TimersShownAfter ==
  ASSUME NEW g, GuiShape(g), NEW stale, NEW timers, Listed(timers)
  PROVE  After(g, FoldLeft(TimedListUpdated, g, timers), stale)
<1>1. PICK n \in Nat : DOMAIN timers = 1 .. n
  BY ListedDomain
<1>2. PICK k : RunOf("timed", g, timers, n, k) /\ FoldLeft(TimedListUpdated, g, timers) = k[n]
  BY <1>1, TimedFold
<1> DEFINE P == {i \in Nat : i <= n => After(g, k[i], stale)}
<1>3. 0 \in P
  BY <1>2 DEF RunOf, After, SameColumns
<1>4. ASSUME NEW i \in Nat, i \in P PROVE i + 1 \in P
  <2> SUFFICES ASSUME i + 1 <= n PROVE After(g, k[i + 1], stale)
    OBVIOUS
  <2>1. After(g, k[i], stale)
    BY <1>4
  <2>2. k[i + 1] = TimedListUpdated(k[i], timers[i + 1])
    <3>1. i + 1 \in 1 .. n /\ i + 1 - 1 = i
      OBVIOUS
    <3> QED BY <1>2, <3>1 DEF RunOf, Applied
  <2>3. /\ GuiShape(k[i + 1]) /\ SameColumns(k[i + 1], k[i]) /\ SameSignals(k[i + 1], k[i])
        /\ k[i + 1].session.traffic = k[i].session.traffic
    <3>1. GuiShape(k[i])
      BY <2>1 DEF After
    <3>2. PICK a : a = k[i]
      OBVIOUS
    <3>3. PICK b : b = TimedListUpdated(a, timers[i + 1])
      OBVIOUS
    <3>4. /\ GuiShape(b) /\ SameColumns(b, a) /\ SameSignals(b, a)
          /\ b.session.traffic = a.session.traffic
      BY <3>1, <3>2, <3>3, TimedShape
    <3> QED BY <2>2, <3>2, <3>3, <3>4
  <2> QED BY <2>1, <2>3, SignalsSame DEF After, SameColumns
<1>5. n \in P
  <2> HIDE DEF P
  <2> QED BY <1>3, <1>4, NatSetInduction
<1> QED BY <1>2, <1>5

(* What loading a session leaves in the windows.                           *)
LEMMA LoadShownAfter ==
  ASSUME GuiShape(Gui), NEW loaded, SessionShape(loaded), NEW g \in LoadShown(loaded), NEW stale
  PROVE  \E tables :
           /\ TablesShape(tables)
           /\ tables.columns = shown.columns /\ tables.cells = shown.cells /\ tables.marks = shown.marks
           /\ GuiShape(g) /\ g.session.traffic = loaded.traffic
           /\ SignalsKept(Gui, stale) => SignalsKept(g, stale)
           /\ g.shown.columns = TrafficShown(tables, loaded.traffic).columns
           /\ g.shown.cells = TrafficShown(tables, loaded.traffic).cells
           /\ g.shown.marks = TrafficShown(tables, loaded.traffic).marks
<1>1. PICK classes : classes = FoldLeft(ClassLoaded, shown.classes, loaded.classes)
  OBVIOUS
<1>2. PICK jams : jams = FoldLeft(JammedRow, shown.jams, SetToSeq({loaded.jammed[k] : k \in DOMAIN loaded.jammed}))
  OBVIOUS
<1>3. PICK tables : tables = [[shown EXCEPT !.classes = classes] EXCEPT !.jams = jams]
  OBVIOUS
<1>4. PICK lists : lists = SetToSeq({loaded.signals[k].signals : k \in DOMAIN loaded.signals})
  OBVIOUS
<1>5. PICK g0 : g0 = [Gui EXCEPT !.session = loaded, !.shown = tables]
  OBVIOUS
<1>6. PICK drawn : drawn = RankingShown(TrafficShown(tables, loaded.traffic), loaded.rankings)
  OBVIOUS
<1>7. PICK g1 : g1 = [g0 EXCEPT !.shown = drawn]
  OBVIOUS
<1>8. PICK timers \in Listings(loaded.timers) : g = FoldLeft(TimedListUpdated, FoldLeft(SignalsShown, g1, lists), timers)
  <2>1. [Gui EXCEPT !.session = loaded,
                    !.shown.classes = FoldLeft(ClassLoaded, @, loaded.classes),
                    !.shown.jams = FoldLeft(JammedRow, @, SetToSeq({loaded.jammed[k] : k \in DOMAIN loaded.jammed}))]
          = g0
    <3>1. shown.jams = [shown EXCEPT !.classes = classes].jams
      BY DEF GuiShape, Gui
    <3> QED BY <1>1, <1>2, <1>3, <1>5, <3>1 DEF Gui
  <2>2. g0.shown = tables
    BY <1>5 DEF Gui
  <2> QED BY <1>4, <1>6, <1>7, <2>1, <2>2 DEF LoadShown
<1>9. /\ TablesShape(tables) /\ tables.columns = shown.columns /\ tables.cells = shown.cells
      /\ tables.marks = shown.marks /\ OtherTables(tables, shown)
  BY <1>3 DEF GuiShape, Gui, TablesShape, OtherTables
<1>10. /\ g1.session = loaded /\ g1.shown = drawn /\ g1.main = main /\ g1.windows = windows
       /\ DOMAIN g1 = {"main", "shown", "windows", "session"}
  BY <1>5, <1>7 DEF Gui
<1>11. PICK traffic : traffic = TrafficShown(tables, loaded.traffic)
  OBVIOUS
<1>12. TablesShape(traffic) /\ OtherTables(traffic, tables)
  BY <1>9, <1>11, TrafficShownShape DEF SessionShape, TracesShape
<1>13. /\ TablesShape(drawn) /\ OtherTables(drawn, traffic) /\ drawn.columns = traffic.columns
       /\ drawn.cells = traffic.cells /\ drawn.marks = traffic.marks
  BY <1>6, <1>11, <1>12, RankingShownShape
<1>14. GuiShape(g1)
  BY <1>10, <1>13 DEF GuiShape, TablesShape, Gui
<1>15. SameSignals(g1, Gui)
  BY <1>9, <1>10, <1>12, <1>13 DEF SameSignals, OtherTables, Gui
<1>16. Listed(lists) /\ \A i \in DOMAIN lists : Listed(lists[i])
  <2>1. PICK S : S = {loaded.signals[k].signals : k \in DOMAIN loaded.signals}
    OBVIOUS
  <2>2. IsFiniteSet(S)
    <3>1. PICK f : f = [k \in DOMAIN loaded.signals |-> loaded.signals[k].signals]
      OBVIOUS
    <3>2. DOMAIN f = DOMAIN loaded.signals /\ S = {f[k] : k \in DOMAIN f}
      BY <2>1, <3>1
    <3> QED BY <3>2, ImageFinite DEF SessionShape
  <2>3. \A s \in S : Listed(s)
    BY <2>1 DEF SessionShape
  <2>4. Listed(lists) /\ \A i \in 1 .. Len(lists) : lists[i] \in S
    BY <1>4, <2>1, <2>2, SetToSeqListed
  <2> QED BY <2>3, <2>4, ListedDomain
<1>17. PICK g2 : g2 = FoldLeft(SignalsShown, g1, lists)
  OBVIOUS
<1>18. After(g1, g2, stale)
  BY <1>14, <1>16, <1>17, ListsShownAfter
<1>19. Listed(timers)
  BY ListingListed DEF SessionShape
<1>20. After(g2, g, stale)
  BY <1>8, <1>17, <1>18, <1>19, TimersShownAfter DEF After
<1>21. SignalsKept(Gui, stale) => SignalsKept(g, stale)
  BY <1>15, <1>18, <1>20, SignalsSame DEF After
<1>22. /\ g.shown.columns = traffic.columns /\ g.shown.cells = traffic.cells /\ g.shown.marks = traffic.marks
       /\ GuiShape(g) /\ g.session.traffic = loaded.traffic
  BY <1>10, <1>13, <1>18, <1>20 DEF After, SameColumns
<1> QED BY <1>9, <1>11, <1>21, <1>22
-----------------------------------------------------------------------------
LEMMA ListedOne ==
  ASSUME NEW x
  PROVE  Listed(<<x>>) /\ Len(<<x>>) = 1 /\ <<x>>[1] = x
<1>1. PICK S : S = {x}
  OBVIOUS
<1>2. <<x>> \in Seq(S)
  BY <1>1
<1>3. Listed(<<x>>)
  BY <1>2 DEF Listed
<1> QED BY <1>3

(* A session that has been loaded from a file, or written to one.          *)
LEMMA SignalReportListed ==
  ASSUME NEW signals, Listed(signals)
  PROVE  Listed(SignalReportOf(signals).signals)
<1>1. PICK n \in Nat : DOMAIN signals = 1 .. n
  BY ListedDomain
<1>2. PICK k : RunOf("signal", NewSignalReport, signals, n, k) /\ SignalReportOf(signals) = k[n]
  BY <1>1, SignalFold DEF SignalReportOf
<1> DEFINE P == {i \in Nat : i <= n => Listed(k[i].signals)}
<1>3. 0 \in P
  BY <1>2, ListedEmpty DEF RunOf, NewSignalReport
<1>4. ASSUME NEW i \in Nat, i \in P PROVE i + 1 \in P
  <2> SUFFICES ASSUME i + 1 <= n PROVE Listed(k[i + 1].signals)
    OBVIOUS
  <2>1. Listed(k[i].signals)
    BY <1>4
  <2>2. k[i + 1] = SignalAdd(k[i], signals[i + 1])
    <3>1. i + 1 \in 1 .. n /\ i + 1 - 1 = i
      OBVIOUS
    <3> QED BY <1>2, <3>1 DEF RunOf, Applied
  <2>3. k[i + 1].signals = Append(k[i].signals, signals[i + 1])
    BY <2>2 DEF SignalAdd
  <2> QED BY <2>1, <2>3, ListedAppend
<1>5. n \in P
  <2> HIDE DEF P
  <2> QED BY <1>3, <1>4, NatSetInduction
<1> QED BY <1>2, <1>5

SignalsShape(map) == IsFiniteSet(DOMAIN map) /\ \A key \in DOMAIN map : Listed(map[key].signals)

LEMMA PutSignalsShape ==
  ASSUME NEW base, SignalsShape(base), NEW n \in Nat, NEW q, DOMAIN q = 1 .. n,
         \A i \in 1 .. n : Listed(q[i].signals)
  PROVE  SignalsShape(FoldLeft(PutSignals, base, q))
<1>1. PICK k : RunOf("signals", base, q, n, k) /\ FoldLeft(PutSignals, base, q) = k[n]
  BY SignalsFold
<1> DEFINE P == {i \in Nat : i <= n => SignalsShape(k[i])}
<1>2. 0 \in P
  BY <1>1 DEF RunOf
<1>3. ASSUME NEW i \in Nat, i \in P PROVE i + 1 \in P
  <2> SUFFICES ASSUME i + 1 <= n PROVE SignalsShape(k[i + 1])
    OBVIOUS
  <2>1. PICK a : a = k[i]
    OBVIOUS
  <2>2. SignalsShape(a)
    BY <1>3, <2>1
  <2>3. i + 1 \in 1 .. n /\ i + 1 - 1 = i
    OBVIOUS
  <2>4. PICK report : report = q[i + 1]
    OBVIOUS
  <2>5. k[i + 1] = Put(a, report.signals[1].key, report) /\ Listed(report.signals)
    <3>1. k[i + 1] = PutSignals(a, report)
      BY <1>1, <2>1, <2>3, <2>4 DEF RunOf, Applied
    <3>2. Listed(report.signals)
      BY <2>3, <2>4
    <3> QED BY <3>1, <3>2 DEF PutSignals
  <2>6. PICK b : b = k[i + 1]
    OBVIOUS
  <2>7. /\ DOMAIN b = DOMAIN a \cup {report.signals[1].key}
        /\ \A key \in DOMAIN b : b[key] = report \/ (key \in DOMAIN a /\ b[key] = a[key])
    BY <2>5, <2>6 DEF Put
  <2> QED BY <2>2, <2>5, <2>6, <2>7, FS_AddElement DEF SignalsShape
<1>4. n \in P
  <2> HIDE DEF P
  <2> QED BY <1>2, <1>3, NatSetInduction
<1> QED BY <1>1, <1>4

LEMMA PutTimerShape ==
  ASSUME NEW base, IsFiniteSet(DOMAIN base), NEW n \in Nat, NEW q, DOMAIN q = 1 .. n
  PROVE  IsFiniteSet(DOMAIN FoldLeft(PutTimer, base, q))
<1>1. PICK k : RunOf("timer", base, q, n, k) /\ FoldLeft(PutTimer, base, q) = k[n]
  BY TimerFold
<1> DEFINE P == {i \in Nat : i <= n => IsFiniteSet(DOMAIN k[i])}
<1>2. 0 \in P
  BY <1>1 DEF RunOf
<1>3. ASSUME NEW i \in Nat, i \in P PROVE i + 1 \in P
  <2> SUFFICES ASSUME i + 1 <= n PROVE IsFiniteSet(DOMAIN k[i + 1])
    OBVIOUS
  <2>1. IsFiniteSet(DOMAIN k[i])
    BY <1>3
  <2>2. i + 1 \in 1 .. n /\ i + 1 - 1 = i
    OBVIOUS
  <2>3. k[i + 1] = PutTimer(k[i], q[i + 1])
    BY <1>1, <2>2 DEF RunOf, Applied
  <2>4. DOMAIN k[i + 1] = DOMAIN k[i] \cup {q[i + 1].key}
    BY <2>3 DEF PutTimer, Put
  <2>5. PICK D, x : D = DOMAIN k[i] /\ x = q[i + 1].key
    OBVIOUS
  <2>6. IsFiniteSet(D \cup {x})
    BY <2>1, <2>5, FS_AddElement
  <2> QED BY <2>4, <2>5, <2>6
<1>4. n \in P
  <2> HIDE DEF P
  <2> QED BY <1>2, <1>3, NatSetInduction
<1> QED BY <1>1, <1>4

LEMMA ConcatTraces ==
  ASSUME NEW a, TracesShape(a), NEW b, TracesShape(b)
  PROVE  TracesShape(a \o b)
<1>1. PICK c : c = a \o b
  OBVIOUS
<1>2. /\ Listed(c) /\ Len(c) = Len(a) + Len(b) /\ Len(a) \in Nat /\ Len(b) \in Nat
      /\ \A i \in 1 .. Len(a) : c[i] = a[i]
      /\ \A i \in 1 .. Len(b) : c[Len(a) + i] = b[i]
  BY <1>1, ListedConcat, ListedDomain DEF TracesShape
<1>3. /\ DOMAIN a = 1 .. Len(a) /\ DOMAIN b = 1 .. Len(b) /\ DOMAIN c = 1 .. Len(c)
  BY <1>2, ListedDomain DEF TracesShape
<1>4. \A i \in 1 .. Len(c) : TraceShape(c[i])
  <2> TAKE i \in 1 .. Len(c)
  <2>1. CASE i <= Len(a)
    <3>1. i \in 1 .. Len(a)
      BY <1>2, <2>1
    <3> QED BY <1>2, <1>3, <3>1 DEF TracesShape
  <2>2. CASE ~(i <= Len(a))
    <3>1. i - Len(a) \in 1 .. Len(b) /\ Len(a) + (i - Len(a)) = i
      BY <1>2, <2>2
    <3>2. c[i] = b[i - Len(a)]
      BY <1>2, <3>1
    <3> QED BY <1>3, <3>1, <3>2 DEF TracesShape
  <2> QED BY <2>1, <2>2
<1> QED BY <1>1, <1>2, <1>3, <1>4 DEF TracesShape

LEMMA ParsedTrafficShape ==
  ASSUME NEW line, TracesShape(line)
  PROVE  TracesShape(ParsedTraffic(line))
<1>1. PICK n \in Nat : n = Len(line) /\ DOMAIN line = 1 .. n
  BY ListedDomain DEF TracesShape
<1>2. PICK p : p = ParsedTraffic(line)
  OBVIOUS
<1>3. p = [i \in 1 .. n |-> [line[i] EXCEPT !.monitors = @ \o <<0>> \o line[i].own]]
  BY <1>1, <1>2 DEF ParsedTraffic
<1>4. p = [i \in 1 .. n |-> p[i]]
  BY <1>3
<1>5. Listed(p) /\ DOMAIN p = 1 .. n
  BY <1>3, <1>4, ListedFunction
<1>6. \A i \in 1 .. n : TraceShape(p[i])
  <2> TAKE i \in 1 .. n
  <2>1. TraceShape(line[i])
    BY <1>1 DEF TracesShape
  <2>2. \E m : p[i] = [line[i] EXCEPT !.monitors = m]
    BY <1>3
  <2> QED BY <2>1, <2>2 DEF TraceShape
<1> QED BY <1>2, <1>5, <1>6 DEF TracesShape

LEMMA LoadedShape ==
  ASSUME NEW s, SessionShape(s), NEW lines, LinesShape(lines), NEW loaded \in LoadedSessions(s, lines)
  PROVE  SessionShape(loaded) /\ loaded.traffic = s.traffic \o ParsedTraffic(lines.traffic)
<1>1. PICK reports : reports = [i \in DOMAIN lines.signals |-> SignalReportOf(lines.signals[i])]
  OBVIOUS
<1>2. PICK signals : signals = FoldLeft(PutSignals, s.signals, reports)
  OBVIOUS
<1>3. PICK timers : timers = FoldLeft(PutTimer, s.timers, ParsedTimers(lines.timers))
  OBVIOUS
<1>4. PICK traffic : traffic = s.traffic \o ParsedTraffic(lines.traffic)
  OBVIOUS
<1>5. PICK classes, jammed :
        loaded = [s EXCEPT !.classes = classes, !.traffic = traffic, !.jammed = jammed,
                           !.signals = signals, !.timers = timers]
  BY <1>1, <1>2, <1>3, <1>4 DEF LoadedSessions
<1>6. /\ DOMAIN loaded = DOMAIN s /\ loaded.traffic = traffic /\ loaded.signals = signals
      /\ loaded.timers = timers
  BY <1>5 DEF SessionShape
<1>7. TracesShape(traffic)
  BY <1>4, ConcatTraces, ParsedTrafficShape DEF SessionShape, LinesShape
<1>8. SignalsShape(signals)
  <2>1. PICK n \in Nat : DOMAIN lines.signals = 1 .. n
    BY ListedDomain DEF LinesShape
  <2>2. DOMAIN reports = 1 .. n /\ \A i \in 1 .. n : Listed(reports[i].signals)
    BY <1>1, <2>1, SignalReportListed DEF LinesShape
  <2> QED BY <1>2, <2>2, PutSignalsShape DEF SessionShape, SignalsShape
<1>9. IsFiniteSet(DOMAIN timers)
  <2>1. PICK n \in Nat : DOMAIN lines.timers = 1 .. n
    BY ListedDomain DEF LinesShape
  <2>2. PICK parsed : parsed = ParsedTimers(lines.timers)
    OBVIOUS
  <2>3. DOMAIN parsed = 1 .. n
    BY <2>1, <2>2 DEF ParsedTimers
  <2> QED BY <1>3, <2>2, <2>3, PutTimerShape DEF SessionShape
<1> QED BY <1>4, <1>6, <1>7, <1>8, <1>9 DEF SessionShape, SignalsShape

LEMMA WrittenShape ==
  ASSUME NEW s, SessionShape(s), NEW lines \in Written(s)
  PROVE  LinesShape(lines)
<1>1. PICK j \in Listings(s.jammed), l \in Listings(s.signals), t \in Listings(s.timers) :
        lines = [classes |-> s.classes, jammed |-> j, traffic |-> s.traffic,
                 signals |-> [i \in DOMAIN l |-> l[i].signals], timers |-> t]
  BY DEF Written
<1>2. Listed(t)
  BY ListingListed DEF SessionShape
<1>3. Listed(l) /\ \A i \in DOMAIN l : \E x \in DOMAIN s.signals : l[i] = s.signals[x]
  BY ListingListed DEF SessionShape
<1>4. PICK n \in Nat : DOMAIN l = 1 .. n
  BY <1>3, ListedDomain
<1>5. PICK signals : signals = [i \in 1 .. n |-> l[i].signals]
  OBVIOUS
<1>6. signals = [i \in 1 .. n |-> signals[i]]
  BY <1>5
<1>7. Listed(signals)
  BY <1>6, ListedFunction
<1>8. \A i \in DOMAIN signals : Listed(signals[i])
  BY <1>3, <1>4, <1>5 DEF SessionShape
<1>9. /\ DOMAIN lines = {"classes", "jammed", "traffic", "signals", "timers"}
      /\ lines.traffic = s.traffic /\ lines.signals = signals /\ lines.timers = t
  BY <1>1, <1>4, <1>5
<1> QED BY <1>2, <1>7, <1>8, <1>9 DEF LinesShape, SessionShape

LEMMA ViewedShape ==
  ASSUME NEW v, LinesShape(v), NEW lines, LinesShape(lines)
  PROVE  LinesShape(Viewed(v, lines))
<1>1. PICK w : w = Viewed(v, lines)
  OBVIOUS
<1>2. /\ DOMAIN w = DOMAIN v
      /\ \A kind \in DOMAIN v : w[kind] = IF lines[kind] = <<>> THEN v[kind] ELSE lines[kind]
  BY <1>1 DEF Viewed
<1>3. /\ w.traffic = v.traffic \/ w.traffic = lines.traffic
      /\ w.signals = v.signals \/ w.signals = lines.signals
      /\ w.timers = v.timers \/ w.timers = lines.timers
  BY <1>2 DEF LinesShape
<1> QED BY <1>1, <1>2, <1>3 DEF LinesShape
-----------------------------------------------------------------------------
PostShape(post) ==
  /\ post.kind \in {"signal", "timer", "heap", "traffic", "ranks", "classes", "jam"}
  /\ post.kind = "traffic" =>
       /\ TracesShape(post.report) /\ Len(post.report) = 1
       /\ Listed(post.report[1].monitors)
       /\ Len(post.report[1].monitors) = Len(post.report[1].frames)

WindowShapes ==
  /\ GuiShape(Gui)
  /\ LinesShape(views)
  /\ file # NoFile => LinesShape(file)
  /\ Listed(queue) /\ \A i \in DOMAIN queue : PostShape(queue[i])

LEMMA WindowInit == Init => WindowShapes
<1> SUFFICES ASSUME Init PROVE WindowShapes
  OBVIOUS
<1>1. SessionShape(NewSession)
  BY ListedEmpty, FS_EmptySet DEF SessionShape, NewSession, TracesShape, Nothing
<1>2. LinesShape(NoLines)
  BY ListedEmpty DEF LinesShape, NoLines, TracesShape
<1>3. GuiShape(Gui)
  BY <1>1 DEF Init, Gui, GuiShape, NewMain, NewTables, NoWindows
<1> QED BY <1>2, <1>3, ListedEmpty DEF Init, WindowShapes

(* A post more, or one less.                                               *)
LEMMA Posted ==
  ASSUME Listed(queue), NEW post, queue' = queue \o <<post>>
  PROVE  /\ Listed(queue') /\ Len(queue') = Len(queue) + 1 /\ Len(queue) \in Nat
         /\ DOMAIN queue = 1 .. Len(queue) /\ DOMAIN queue' = 1 .. Len(queue) + 1
         /\ \A i \in 1 .. Len(queue) : queue'[i] = queue[i]
         /\ queue'[Len(queue) + 1] = post
<1>1. Listed(<<post>>) /\ Len(<<post>>) = 1 /\ <<post>>[1] = post
  BY ListedOne
<1>2. PICK q : q = queue \o <<post>>
  OBVIOUS
<1>3. /\ Listed(q) /\ Len(q) = Len(queue) + 1
      /\ \A i \in 1 .. Len(queue) : q[i] = queue[i]
      /\ \A i \in 1 .. 1 : q[Len(queue) + i] = <<post>>[i]
  BY <1>1, <1>2, ListedConcat
<1>4. q[Len(queue) + 1] = post
  BY <1>1, <1>3
<1> QED BY <1>2, <1>3, <1>4, ListedDomain

LEMMA PostedShape ==
  ASSUME WindowShapes, UNCHANGED <<main, shown, windows, session, views, file>>,
         \/ queue' = queue \o <<>>
         \/ queue' = queue
         \/ \E post : queue' = queue \o <<post>> /\ PostShape(post)
  PROVE  WindowShapes'
<1>1. Gui' = Gui
  BY DEF Gui
<1>2. CASE queue' = queue \o <<>> \/ queue' = queue
  <2>1. queue' = queue
    BY <1>2, ConcatEmptySeq DEF WindowShapes, Listed
  <2> QED BY <1>1, <2>1 DEF WindowShapes
<1>3. ASSUME NEW post, queue' = queue \o <<post>>, PostShape(post)
      PROVE  WindowShapes'
  <2>1. Listed(queue') /\ \A i \in DOMAIN queue' : PostShape(queue'[i])
    <3>1. \A i \in 1 .. Len(queue) + 1 : i \in 1 .. Len(queue) \/ i = Len(queue) + 1
      BY <1>3, Posted DEF WindowShapes
    <3>2. \A i \in 1 .. Len(queue) : PostShape(queue[i])
      BY <1>3, Posted DEF WindowShapes
    <3> QED BY <1>3, <3>1, <3>2, Posted DEF WindowShapes
  <2> QED BY <1>1, <2>1 DEF WindowShapes
<1> QED BY <1>2, <1>3

(* The stack that a sample of the traffic leaves.                          *)
LEMMA KeptFramesListed ==
  ASSUME NEW sample \in Samples
  PROVE  Listed(KeptFrames(sample))
<1>1. PICK n \in Nat : DOMAIN sample.frames = 1 .. n
  BY SamplesAssumption
<1>2. PICK k : RunOf("frame", <<>>, sample.frames, n, k) /\ KeptFrames(sample) = k[n]
  BY <1>1, FrameFold DEF KeptFrames
<1> DEFINE P == {i \in Nat : i <= n => Listed(k[i])}
<1>3. 0 \in P
  BY <1>2, ListedEmpty DEF RunOf
<1>4. ASSUME NEW i \in Nat, i \in P PROVE i + 1 \in P
  <2> SUFFICES ASSUME i + 1 <= n PROVE Listed(k[i + 1])
    OBVIOUS
  <2>1. Listed(k[i])
    BY <1>4
  <2>2. PICK frame : frame = sample.frames[i + 1]
    OBVIOUS
  <2>3. k[i + 1] = KeptFrame(k[i], frame)
    <3>1. i + 1 \in 1 .. n /\ i + 1 - 1 = i
      OBVIOUS
    <3> QED BY <1>2, <2>2, <3>1 DEF RunOf, Applied
  <2>4. k[i + 1] = k[i] \/ k[i + 1] = <<frame>> \o k[i]
    BY <2>3 DEF KeptFrame
  <2>5. Listed(<<frame>>)
    BY ListedOne
  <2>6. PICK a, b : a = k[i] /\ b = <<frame>>
    OBVIOUS
  <2>7. Listed(a) /\ Listed(b \o a)
    BY <2>1, <2>5, <2>6, ListedConcat
  <2> QED BY <2>4, <2>6, <2>7
<1>5. n \in P
  <2> HIDE DEF P
  <2> QED BY <1>3, <1>4, NatSetInduction
<1> QED BY <1>2, <1>5

LEMMA TraceOfShape ==
  ASSUME NEW sample \in Samples
  PROVE  /\ TraceShape(TraceOf(sample)) /\ Listed(TraceOf(sample).monitors)
         /\ Len(TraceOf(sample).monitors) = Len(TraceOf(sample).frames)
<1>1. PICK n \in Nat : n = Len(KeptFrames(sample))
  BY KeptFramesListed, ListedDomain
<1>2. PICK kept : kept = KeptFrames(sample)
  OBVIOUS
<1>3. PICK f : f = [i \in 1 .. n |-> kept[i].name]
  OBVIOUS
<1>4. PICK m : m = [i \in 1 .. n |-> kept[i].monitor]
  OBVIOUS
<1>5. f = [i \in 1 .. n |-> f[i]] /\ m = [i \in 1 .. n |-> m[i]]
  BY <1>3, <1>4
<1>6. Listed(f) /\ Len(f) = n /\ Listed(m) /\ Len(m) = n
  BY <1>5, ListedFunction
<1>7. PICK t : t = TraceOf(sample)
  OBVIOUS
<1>8. DOMAIN t = {"thread", "frames", "monitors", "own"} /\ t.frames = f /\ t.monitors = m
  BY <1>1, <1>2, <1>3, <1>4, <1>7 DEF TraceOf
<1> QED BY <1>6, <1>7, <1>8 DEF TraceShape
-----------------------------------------------------------------------------
(* What is posted to the main window has a shape.                          *)
LEMMA ReportPosts ==
  ASSUME WindowShapes, Heap \/ Timers \/ Others \/ Listener
  PROVE  WindowShapes'
<1> DEFINE Kept   == UNCHANGED <<main, shown, windows, session, views, file>>
           Silent == queue' = queue \o <<>> \/ queue' = queue
           Says   == \E post : queue' = queue \o <<post>> /\ PostShape(post)
<1>1. ASSUME NEW class \in Classes, NEW stack \in Stacks, NEW object, NEW tag, HeapCreate(class, stack, object, tag)
      PROVE  Kept /\ Says
  <2>1. PICK report : Reported("heap", Post("heap", report))
    BY <1>1 DEF HeapCreate
  <2>2. PICK post : post = [kind |-> "heap", report |-> report]
    OBVIOUS
  <2>3. queue' = queue \o <<post>> /\ PostShape(post)
    BY <2>1, <2>2 DEF Reported, Post, PostShape
  <2> QED BY <2>1, <2>3 DEF Reported, gui
<1>2. ASSUME NEW object \in program.objects, HeapFree(object)
      PROVE  Kept /\ (Silent \/ Says)
  <2>1. CASE Reported("heap", <<>>)
    BY <2>1 DEF Reported, gui
  <2>2. CASE \E report : Reported("heap", Post("heap", report))
    <3>1. PICK report : Reported("heap", Post("heap", report))
      BY <2>2
    <3>2. PICK post : post = [kind |-> "heap", report |-> report]
      OBVIOUS
    <3>3. queue' = queue \o <<post>> /\ PostShape(post)
      BY <3>1, <3>2 DEF Reported, Post, PostShape
    <3> QED BY <3>1, <3>3 DEF Reported, gui
  <2> QED BY <1>2, <2>1, <2>2 DEF HeapFree
<1>3. ASSUME Timers
      PROVE  Kept /\ (Silent \/ Says)
  <2>1. CASE Tick \/ \E key \in TimerKeys : TimerThrow(key)
    BY <2>1 DEF Tick, TimerThrow, gui
  <2>2. CASE \E key \in TimerKeys : TimerEnter(key)
    BY <2>2 DEF TimerEnter, Reported, gui
  <2>3. CASE \E key \in TimerKeys : \E i \in 1 .. 2 : TimerExit(key, i)
    <3>1. PICK report : Reported("timers", Post("timer", report))
      BY <2>3 DEF TimerExit
    <3>2. PICK post : post = [kind |-> "timer", report |-> report]
      OBVIOUS
    <3>3. queue' = queue \o <<post>> /\ PostShape(post)
      BY <3>1, <3>2 DEF Reported, Post, PostShape
    <3> QED BY <3>1, <3>3 DEF Reported, gui
  <2> QED BY <1>3, <2>1, <2>2, <2>3 DEF Timers
<1>4. ASSUME Others
      PROVE  Kept /\ Says
  <2>1. CASE \E key \in SignalKeys, stack \in Stacks, values \in Values : SignalReported(key, stack, values)
    <3>1. PICK report : Reported("signals", Post("signal", report))
      BY <2>1 DEF SignalReported
    <3>2. PICK post : post = [kind |-> "signal", report |-> report]
      OBVIOUS
    <3>3. queue' = queue \o <<post>> /\ PostShape(post)
      BY <3>1, <3>2 DEF Reported, Post, PostShape
    <3> QED BY <3>1, <3>3 DEF Reported, gui
  <2>2. CASE \E key \in JamKeys, monitor \in Monitors : JammedReported(key, monitor)
    <3>1. PICK report : Reported("jams", Post("jam", report))
      BY <2>2 DEF JammedReported
    <3>2. PICK post : post = [kind |-> "jam", report |-> report]
      OBVIOUS
    <3>3. queue' = queue \o <<post>> /\ PostShape(post)
      BY <3>1, <3>2 DEF Reported, Post, PostShape
    <3> QED BY <3>1, <3>3 DEF Reported, gui
  <2>3. CASE \E class \in LoadedClasses : ClassReported(class)
    <3>1. PICK report : Reported("classes", Post("classes", report))
      BY <2>3 DEF ClassReported
    <3>2. PICK post : post = [kind |-> "classes", report |-> report]
      OBVIOUS
    <3>3. queue' = queue \o <<post>> /\ PostShape(post)
      BY <3>1, <3>2 DEF Reported, Post, PostShape
    <3> QED BY <3>1, <3>3 DEF Reported, gui
  <2>4. ASSUME NEW sample \in Samples, TrafficReported(sample)
        PROVE  Kept /\ Says
    <3>1. Reported("traffic", Post("traffic", <<TraceOf(sample)>>))
      BY <2>4 DEF TrafficReported
    <3>2. PICK trace : trace = TraceOf(sample)
      OBVIOUS
    <3>3. /\ TraceShape(trace) /\ Listed(trace.monitors) /\ Len(trace.monitors) = Len(trace.frames)
      BY <3>2, TraceOfShape
    <3>4. PICK list : list = <<trace>>
      OBVIOUS
    <3>5. Listed(list) /\ Len(list) = 1 /\ list[1] = trace /\ DOMAIN list = 1 .. 1
      BY <3>4, ListedOne
    <3>6. TracesShape(list)
      BY <3>3, <3>5 DEF TracesShape
    <3>7. PICK post : post = [kind |-> "traffic", report |-> list]
      OBVIOUS
    <3>8. post.kind = "traffic" /\ post.report = list
      BY <3>7
    <3>9. PostShape(post)
      BY <3>3, <3>5, <3>6, <3>8 DEF PostShape
    <3>10. queue' = queue \o <<post>>
      BY <3>1, <3>2, <3>4, <3>7 DEF Reported, Post
    <3> QED BY <3>1, <3>9, <3>10 DEF Reported, gui
  <2> QED BY <1>4, <2>1, <2>2, <2>3, <2>4 DEF Others
<1>5. ASSUME Listener
      PROVE  Kept /\ (Silent \/ Says)
  <2>1. CASE StartReset
    BY <2>1 DEF StartReset, gui
  <2>2. CASE ClearNext
    BY <2>2 DEF ClearNext, gui
  <2>3. CASE RankMethods
    <3>1. PICK ranks : queue' = queue \o Post("ranks", ranks)
      BY <2>3 DEF RankMethods
    <3>2. PICK post : post = [kind |-> "ranks", report |-> ranks]
      OBVIOUS
    <3>3. queue' = queue \o <<post>> /\ PostShape(post)
      BY <3>1, <3>2 DEF Post, PostShape
    <3> QED BY <2>3, <3>3 DEF RankMethods, gui
  <2> QED BY <1>5, <2>1, <2>2, <2>3 DEF Listener
<1>6. Kept /\ (Silent \/ Says)
  <2> HIDE DEF Kept, Silent, Says
  <2> QED BY <1>1, <1>2, <1>3, <1>4, <1>5 DEF Heap
<1> QED BY <1>6, PostedShape

LEMMA HandledShape ==
  ASSUME GuiShape(Gui), NEW post, PostShape(post)
  PROVE  GuiShape(Handled(post))
<1>1. CASE post.kind = "signal"
  <2>1. Handled(post) = ListUpdated(Gui, post.report)
    BY <1>1 DEF Handled
  <2>2. GuiShape(ListUpdated(Gui, post.report))
    BY ListUpdatedShape
  <2> QED BY <2>1, <2>2
<1>2. CASE post.kind = "timer"
  <2>1. Handled(post) = TimedListUpdated(Gui, post.report)
    BY <1>2 DEF Handled
  <2>2. GuiShape(TimedListUpdated(Gui, post.report))
    BY TimedShape
  <2> QED BY <2>1, <2>2
<1>3. CASE post.kind = "heap"
  <2>1. Handled(post) = HeapUpdated(Gui, post.report.class, post.report.report)
    BY <1>3 DEF Handled
  <2>2. GuiShape(HeapUpdated(Gui, post.report.class, post.report.report))
    BY HeapUpdatedShape
  <2> QED BY <2>1, <2>2
<1>4. CASE post.kind = "traffic"
  <2>1. Handled(post) = TrafficUpdated(Gui, post.report)
    BY <1>4 DEF Handled
  <2>2. GuiShape(TrafficUpdated(Gui, post.report))
    BY <1>4, TrafficUpdatedShape DEF PostShape
  <2> QED BY <2>1, <2>2
<1>5. CASE post.kind \in {"ranks", "classes", "jam"}
  <2>1. \/ Handled(post) = RankingUpdated(Gui, post.report)
        \/ Handled(post) = ClassesUpdated(Gui, post.report)
        \/ Handled(post) = JammedUpdated(Gui, post.report)
    BY <1>5 DEF Handled
  <2> QED BY <2>1, OtherUpdatesShape
<1> QED BY <1>1, <1>2, <1>3, <1>4, <1>5 DEF PostShape

LEMMA HeadPosted ==
  ASSUME WindowShapes, queue # <<>>, queue' = Tail(queue)
  PROVE  /\ PostShape(Head(queue)) /\ Listed(queue') /\ \A i \in DOMAIN queue' : PostShape(queue'[i])
<1>1. PICK n \in Nat : n = Len(queue) /\ DOMAIN queue = 1 .. n
  BY ListedDomain DEF WindowShapes
<1>2. PICK q : q = Tail(queue)
  OBVIOUS
<1>3. Listed(q) /\ Len(q) = n - 1 /\ n > 0 /\ Head(queue) = queue[1] /\ \A i \in 1 .. n - 1 : q[i] = queue[i + 1]
  BY <1>1, <1>2, ListedTail DEF WindowShapes
<1>4. DOMAIN q = 1 .. n - 1
  BY <1>3, ListedDomain
<1>5. \A i \in 1 .. n - 1 : i + 1 \in 1 .. n
  BY <1>1
<1>6. \A i \in 1 .. n : PostShape(queue[i])
  BY <1>1 DEF WindowShapes
<1> QED BY <1>1, <1>2, <1>3, <1>4, <1>5, <1>6

LEMMA GuiIs ==
  ASSUME NEW g, GuiShape(g), GuiBecomes(g)
  PROVE  /\ GuiShape(Gui')
         /\ Gui'.main = g.main /\ Gui'.shown = g.shown /\ Gui'.windows = g.windows /\ Gui'.session = g.session
<1>1. /\ DOMAIN Gui' = DOMAIN g
      /\ Gui'.main = g.main /\ Gui'.shown = g.shown /\ Gui'.windows = g.windows /\ Gui'.session = g.session
  BY DEF GuiBecomes, Gui, GuiShape
<1> QED BY <1>1 DEF GuiShape

LEMMA LoadedBy ==
  ASSUME WindowShapes, SessionLoad
  PROVE  /\ LinesShape(views')
         /\ \/ UNCHANGED <<main, shown, windows, session>>
            \/ \E loaded \in LoadedSessions(session, views') : \E g \in LoadShown(loaded) :
                 SessionShape(loaded) /\ loaded.traffic = session.traffic \o ParsedTraffic(views'.traffic) /\ GuiBecomes(g)
<1>1. views' = Viewed(views, file) /\ file # NoFile
  BY DEF SessionLoad
<1>2. LinesShape(views')
  BY <1>1, ViewedShape DEF WindowShapes
<1>3. SessionShape(session)
  BY DEF WindowShapes, GuiShape, Gui
<1>4. ASSUME NEW loaded \in LoadedSessions(session, views'), NEW g \in LoadShown(loaded), GuiBecomes(g)
      PROVE  SessionShape(loaded) /\ loaded.traffic = session.traffic \o ParsedTraffic(views'.traffic)
  BY <1>2, <1>3, LoadedShape
<1>5. \/ UNCHANGED <<main, shown, windows, session>>
      \/ \E loaded \in LoadedSessions(session, views') : \E g \in LoadShown(loaded) : GuiBecomes(g)
  BY DEF SessionLoad
<1> QED BY <1>2, <1>4, <1>5

LEMMA WindowStep ==
  ASSUME WindowShapes, [Next]_vars
  PROVE  WindowShapes'
<1>1. CASE Heap \/ Timers \/ Others \/ Listener
  BY <1>1, ReportPosts
<1>2. CASE Deliver
  <2>1. PostShape(Head(queue)) /\ Listed(queue') /\ \A i \in DOMAIN queue' : PostShape(queue'[i])
    BY <1>2, HeadPosted DEF Deliver
  <2>2. GuiShape(Handled(Head(queue)))
    BY <2>1, HandledShape DEF WindowShapes
  <2>3. GuiShape(Gui')
    BY <1>2, <2>2, GuiIs DEF Deliver
  <2>4. UNCHANGED <<views, file>>
    BY <1>2 DEF Deliver
  <2> QED BY <2>1, <2>2, <2>3, <2>4 DEF WindowShapes
<1>3. CASE ResetViewers
  <2>1. /\ DOMAIN shown' = DOMAIN NewTables /\ DOMAIN main' = DOMAIN main
        /\ UNCHANGED <<windows, session, views, file, queue>>
    BY <1>3 DEF ResetViewers
  <2>2. GuiShape(Gui')
    BY <2>1 DEF WindowShapes, GuiShape, Gui, NewTables
  <2> QED BY <2>1, <2>2 DEF WindowShapes
<1>4. CASE (\E key \in SignalKeys : ShowDetail(key)) \/ (\E class \in Classes : ShowHeapDetail(class))
  <2>1. /\ DOMAIN windows' = DOMAIN windows
        /\ UNCHANGED <<main, shown, session, views, file, queue>>
    BY <1>4 DEF ShowDetail, ShowHeapDetail
  <2>2. GuiShape(Gui')
    BY <2>1 DEF WindowShapes, GuiShape, Gui
  <2> QED BY <2>1, <2>2 DEF WindowShapes
<1>5. CASE \E r \in DOMAIN shown.classes.rows : PressClass(r)
  <2>1. /\ DOMAIN shown' = DOMAIN shown
        /\ UNCHANGED <<main, windows, session, views, file, queue>>
    BY <1>5 DEF PressClass
  <2>2. GuiShape(Gui')
    BY <2>1 DEF WindowShapes, GuiShape, Gui
  <2> QED BY <2>1, <2>2 DEF WindowShapes
<1>6. CASE SessionSave
  <2>1. file' \in Written(session) /\ UNCHANGED <<queue, main, shown, windows, session, views>>
    BY <1>6 DEF SessionSave
  <2>2. LinesShape(file')
    BY <2>1, WrittenShape DEF WindowShapes, GuiShape, Gui
  <2>3. Gui' = Gui
    BY <2>1 DEF Gui
  <2> QED BY <2>1, <2>2, <2>3 DEF WindowShapes
<1>7. CASE SessionLoad
  <2>1. UNCHANGED <<queue, file>>
    BY <1>7 DEF SessionLoad
  <2>2. CASE UNCHANGED <<main, shown, windows, session>>
    <3>1. Gui' = Gui
      BY <2>2 DEF Gui
    <3> QED BY <1>7, <2>1, <3>1, LoadedBy DEF WindowShapes
  <2>3. CASE \E loaded : \E g \in LoadShown(loaded) : SessionShape(loaded) /\ GuiBecomes(g)
    <3>1. PICK loaded : \E g \in LoadShown(loaded) : SessionShape(loaded) /\ GuiBecomes(g)
      BY <2>3
    <3>2. PICK g \in LoadShown(loaded) : SessionShape(loaded) /\ GuiBecomes(g)
      BY <3>1
    <3>3. GuiShape(g)
      BY <3>2, LoadShownAfter DEF WindowShapes
    <3>4. GuiShape(Gui')
      BY <3>2, <3>3, GuiIs
    <3> QED BY <1>7, <2>1, <3>3, <3>4, LoadedBy DEF WindowShapes
  <2> QED BY <1>7, <2>2, <2>3, LoadedBy
<1>8. CASE Restart
  <2>1. /\ GuiShape(Gui')
    <3>1. SessionShape(NewSession)
      BY ListedEmpty, FS_EmptySet DEF SessionShape, NewSession, TracesShape, Nothing
    <3> QED BY <1>8, <3>1 DEF Restart, Started, Gui, GuiShape, NewMain, NewTables, NoWindows
  <2>2. LinesShape(views')
    BY <1>8, ListedEmpty DEF Restart, Started, LinesShape, NoLines, TracesShape
  <2>3. queue' = <<>> /\ file' = file
    BY <1>8 DEF Restart, Started
  <2> QED BY <2>1, <2>2, <2>3, ListedEmpty DEF WindowShapes
<1>9. CASE UNCHANGED vars \/ StopTraffic
  <2>1. UNCHANGED <<queue, main, shown, windows, session, views, file>>
    BY <1>9 DEF vars, StopTraffic, gui
  <2>2. Gui' = Gui
    BY <2>1 DEF Gui
  <2> QED BY <2>1, <2>2 DEF WindowShapes
<1> QED BY <1>1, <1>2, <1>3, <1>4, <1>5, <1>6, <1>7, <1>8, <1>9 DEF Next, Window

(* What the windows, the session, its file and the posts hold has the      *)
(* shape that the code gives it, whatever has been loaded.                 *)
THEOREM WindowsHaveShape == Spec => []WindowShapes
<1>1. Init => WindowShapes
  BY WindowInit
<1>2. WindowShapes /\ [Next]_vars => WindowShapes'
  BY WindowStep
<1> QED BY <1>1, <1>2, PTL DEF Spec
-----------------------------------------------------------------------------
(* The inductive invariant of the detail windows.                          *)
DetailsKept == SignalsKept(Gui, past.stale)

LEMMA DetailsInit == Init => DetailsKept
<1> SUFFICES ASSUME Init PROVE DetailsKept
  OBVIOUS
<1>1. /\ DOMAIN Gui.main.signals = {} /\ DOMAIN Gui.shown.signals = {} /\ DOMAIN Gui.windows.signals = {}
  BY DEF Init, Gui, NewMain, NewTables, NoWindows, Nothing
<1> QED BY <1>1 DEF DetailsKept, SignalsKept

(* The fields that SignalsKept is about decide it.                         *)
LEMMA DetailsSame ==
  ASSUME DetailsKept, SameSignals(Gui', Gui), past'.stale = past.stale
  PROVE  DetailsKept'
BY SignalsSame DEF DetailsKept

LEMMA HandledKeeps ==
  ASSUME GuiShape(Gui), NEW post, PostShape(post), NEW stale, SignalsKept(Gui, stale)
  PROVE  SignalsKept(Handled(post), stale)
<1>1. CASE post.kind = "signal"
  <2>1. Handled(post) = ListUpdated(Gui, post.report)
    BY <1>1 DEF Handled
  <2>2. SignalsKept(ListUpdated(Gui, post.report), stale)
    BY ListUpdatedKeeps
  <2> QED BY <2>1, <2>2
<1>2. CASE post.kind # "signal"
  <2> SUFFICES SameSignals(Handled(post), Gui)
    BY SignalsSame
  <2>1. CASE post.kind = "timer"
    <3>1. Handled(post) = TimedListUpdated(Gui, post.report)
      BY <2>1 DEF Handled
    <3>2. SameSignals(TimedListUpdated(Gui, post.report), Gui)
      BY TimedShape
    <3> QED BY <3>1, <3>2
  <2>2. CASE post.kind = "heap"
    <3>1. Handled(post) = HeapUpdated(Gui, post.report.class, post.report.report)
      BY <2>2 DEF Handled
    <3>2. SameSignals(HeapUpdated(Gui, post.report.class, post.report.report), Gui)
      BY HeapUpdatedShape
    <3> QED BY <3>1, <3>2
  <2>3. CASE post.kind = "traffic"
    <3>1. Handled(post) = TrafficUpdated(Gui, post.report)
      BY <2>3 DEF Handled
    <3>2. SameSignals(TrafficUpdated(Gui, post.report), Gui)
      BY <2>3, TrafficUpdatedShape DEF PostShape
    <3> QED BY <3>1, <3>2
  <2>4. CASE post.kind \in {"ranks", "classes", "jam"}
    <3>1. \/ Handled(post) = RankingUpdated(Gui, post.report)
          \/ Handled(post) = ClassesUpdated(Gui, post.report)
          \/ Handled(post) = JammedUpdated(Gui, post.report)
      BY <2>4 DEF Handled
    <3> QED BY <3>1, OtherUpdatesShape
  <2> QED BY <1>2, <2>1, <2>2, <2>3, <2>4 DEF PostShape
<1> QED BY <1>1, <1>2

LEMMA StaleKept ==
  ASSUME Shapes, Heap \/ Timers \/ Others \/ Listener
  PROVE  past'.stale = past.stale
<1>1. CASE Heap
  BY <1>1 DEF Shapes, Heap, HeapCreate, HeapFree
<1>2. CASE Timers
  BY <1>2 DEF Shapes, Timers, Tick, TimerEnter, TimerExit, TimerThrow
<1>3. CASE Others
  BY <1>3 DEF Shapes, Others, SignalReported, JammedReported, ClassReported, TrafficReported
<1>4. CASE Listener
  BY <1>4 DEF Shapes, Listener, StartReset, ClearNext, RankMethods
<1> QED BY <1>1, <1>2, <1>3, <1>4

LEMMA GuiKept ==
  ASSUME Heap \/ Timers \/ Others \/ Listener
  PROVE  UNCHANGED <<main, shown, windows, session, views, file>>
<1>1. CASE Heap
  BY <1>1 DEF Heap, HeapCreate, HeapFree, Reported, gui
<1>2. CASE Timers
  BY <1>2 DEF Timers, Tick, TimerEnter, TimerExit, TimerThrow, Reported, gui
<1>3. CASE Others
  BY <1>3 DEF Others, SignalReported, JammedReported, ClassReported, TrafficReported, Reported, gui
<1>4. CASE Listener
  BY <1>4 DEF Listener, StartReset, ClearNext, RankMethods, gui
<1> QED BY <1>1, <1>2, <1>3, <1>4

LEMMA DetailShown ==
  ASSUME WindowShapes, DetailsKept, NEW key, ShowDetail(key)
  PROVE  DetailsKept'
<1>1. PICK detail : detail = At(windows.signals, key, NewDetail)
  OBVIOUS
<1>2. PICK report : report = main.holders[key]
  OBVIOUS
<1>3. PICK new : new = DetailUpdate(detail, report)
  OBVIOUS
<1>4. key \in DOMAIN main.signals /\ report = main.signals[key] /\ Counts(report)
  BY <1>2 DEF ShowDetail, DetailsKept, SignalsKept, Gui
<1>5. windows' = [windows EXCEPT !.signals = Put(windows.signals, key, new)]
  BY <1>1, <1>2, <1>3 DEF ShowDetail
<1>6. windows'.signals = Put(windows.signals, key, new)
  BY <1>5 DEF WindowShapes, GuiShape, Gui
<1>7. /\ DOMAIN windows'.signals = DOMAIN windows.signals \cup {key} /\ windows'.signals[key] = new
      /\ \A k \in DOMAIN windows.signals \ {key} : windows'.signals[k] = windows.signals[k]
  BY <1>6 DEF Put
<1>8. key \notin past.stale => DetailOf(new, report)
  <2> SUFFICES ASSUME key \notin past.stale PROVE DetailOf(new, report)
    OBVIOUS
  <2>1. DetailBefore(detail, report)
    <3>1. CASE key \in DOMAIN windows.signals
      <4>1. detail = windows.signals[key]
        BY <1>1, <3>1 DEF At
      <4>2. DetailOf(detail, report)
        BY <1>4, <3>1, <4>1 DEF DetailsKept, SignalsKept, Gui
      <4> QED BY <4>2 DEF DetailOf, DetailBefore
    <3>2. CASE key \notin DOMAIN windows.signals
      <4>1. detail = NewDetail
        BY <1>1, <3>2 DEF At
      <4>2. DOMAIN Nothing = {}
        BY DEF Nothing
      <4> QED BY <4>1, <4>2, FS_EmptySet DEF NewDetail, DetailBefore
    <3> QED BY <3>1, <3>2
  <2> QED BY <1>3, <1>4, <2>1, DetailUpdated
<1>9. main' = main /\ shown' = shown /\ past' = past
  BY DEF ShowDetail
<1> QED BY <1>4, <1>7, <1>8, <1>9 DEF DetailsKept, SignalsKept, Gui

LEMMA DetailsStep ==
  ASSUME Shapes, WindowShapes, DetailsKept, [Next]_vars
  PROVE  DetailsKept'
<1>1. CASE Heap \/ Timers \/ Others \/ Listener
  <2>1. UNCHANGED <<main, shown, windows>>
    BY <1>1, GuiKept
  <2>2. SameSignals(Gui', Gui)
    BY <2>1 DEF SameSignals, Gui
  <2> QED BY <1>1, <2>2, StaleKept, DetailsSame
<1>2. CASE Deliver
  <2>1. PICK post : post = Head(queue)
    OBVIOUS
  <2>2. PostShape(post)
    BY <1>2, <2>1, HeadPosted DEF Deliver
  <2>3. PICK g : g = Handled(post)
    OBVIOUS
  <2>4. GuiShape(g) /\ SignalsKept(g, past.stale)
    BY <2>2, <2>3, HandledShape, HandledKeeps DEF WindowShapes, DetailsKept
  <2>5. GuiBecomes(g)
    BY <1>2, <2>1, <2>3 DEF Deliver
  <2>6. SameSignals(Gui', g)
    BY <2>4, <2>5, GuiIs DEF SameSignals
  <2>7. past'.stale = past.stale
    BY <1>2 DEF Deliver, Shapes
  <2> QED BY <2>4, <2>6, <2>7, SignalsSame DEF DetailsKept
<1>3. CASE ResetViewers
  <2>1. /\ main'.signals = Nothing /\ shown'.signals = Nothing /\ windows' = windows
        /\ past'.stale = DOMAIN windows.signals
    BY <1>3 DEF ResetViewers, NewTables, Shapes, WindowShapes, GuiShape, Gui
  <2>2. DOMAIN Nothing = {}
    BY DEF Nothing
  <2> QED BY <2>1, <2>2 DEF DetailsKept, SignalsKept, Gui
<1>4. CASE \E key \in SignalKeys : ShowDetail(key)
  BY <1>4, DetailShown
<1>5. CASE \E class \in Classes : ShowHeapDetail(class)
  <2>1. UNCHANGED <<main, shown, past>> /\ windows'.signals = windows.signals
    BY <1>5 DEF ShowHeapDetail, WindowShapes, GuiShape, Gui
  <2> QED BY <2>1, DetailsSame DEF SameSignals, Gui
<1>6. CASE \E r \in DOMAIN shown.classes.rows : PressClass(r)
  <2>1. UNCHANGED <<main, windows>> /\ shown'.signals = shown.signals /\ past'.stale = past.stale
    BY <1>6 DEF PressClass, WindowShapes, GuiShape, Gui, Shapes
  <2> QED BY <2>1, DetailsSame DEF SameSignals, Gui
<1>7. CASE SessionSave \/ StopTraffic \/ UNCHANGED vars
  <2>1. UNCHANGED <<main, shown, windows>> /\ past'.stale = past.stale
    BY <1>7 DEF SessionSave, StopTraffic, gui, vars, Shapes
  <2> QED BY <2>1, DetailsSame DEF SameSignals, Gui
<1>8. CASE SessionLoad
  <2>0. past'.stale = past.stale
    BY <1>8 DEF SessionLoad, Shapes
  <2>1. CASE UNCHANGED <<main, shown, windows, session>>
    BY <2>0, <2>1, DetailsSame DEF SameSignals, Gui
  <2>2. CASE \E loaded : \E g \in LoadShown(loaded) : SessionShape(loaded) /\ GuiBecomes(g)
    <3>1. PICK loaded : \E g \in LoadShown(loaded) : SessionShape(loaded) /\ GuiBecomes(g)
      BY <2>2
    <3>2. PICK g \in LoadShown(loaded) : SessionShape(loaded) /\ GuiBecomes(g)
      BY <3>1
    <3>3. GuiShape(g) /\ SignalsKept(g, past.stale)
      BY <3>2, LoadShownAfter DEF WindowShapes, DetailsKept
    <3>4. SameSignals(Gui', g)
      BY <3>2, <3>3, GuiIs DEF SameSignals
    <3> QED BY <2>0, <3>3, <3>4, SignalsSame DEF DetailsKept
  <2> QED BY <1>8, <2>1, <2>2, LoadedBy
<1>9. CASE Restart
  <2>1. /\ DOMAIN Gui'.main.signals = {} /\ DOMAIN Gui'.shown.signals = {} /\ DOMAIN Gui'.windows.signals = {}
    BY <1>9 DEF Restart, Started, Gui, NewMain, NewTables, NoWindows, Nothing
  <2> QED BY <2>1 DEF DetailsKept, SignalsKept
<1> QED BY <1>1, <1>2, <1>3, <1>4, <1>5, <1>6, <1>7, <1>8, <1>9 DEF Next, Window

LEMMA DetailsAdd ==
  ASSUME DetailsKept
  PROVE  DetailAddsUp
<1> SUFFICES ASSUME NEW key \in DOMAIN windows.signals \ past.stale
             PROVE  /\ key \in DOMAIN shown.signals
                    /\ windows.signals[key].star + SumFunction(windows.signals[key].own) = shown.signals[key]
                    /\ SumFunction(windows.signals[key].stacks) = shown.signals[key]
  BY DEF DetailAddsUp
<1>1. PICK report, detail : report = main.signals[key] /\ detail = windows.signals[key]
  OBVIOUS
<1>2. /\ key \in DOMAIN shown.signals /\ shown.signals[key] = report.count /\ Counts(report)
      /\ DetailOf(detail, report)
  BY <1>1 DEF DetailsKept, SignalsKept, Gui
<1> QED BY <1>1, <1>2, DetailSums

(* The rows of a detail window add up to the signals that the signal       *)
(* window counts: DetailViewerModel's moves between the shared row and     *)
(* the rows of their own lose nothing, whether a report comes from a       *)
(* target or from a file.                                                  *)
THEOREM DetailsAddUp == Spec => []DetailAddsUp
<1>1. Init => Shapes /\ WindowShapes /\ DetailsKept
  BY ShapesInit, WindowInit, DetailsInit
<1>2. Shapes /\ WindowShapes /\ DetailsKept /\ [Next]_vars => Shapes' /\ WindowShapes' /\ DetailsKept'
  BY ShapesStep, WindowStep, DetailsStep
<1>3. DetailsKept => DetailAddsUp
  BY DetailsAdd
<1> QED BY <1>1, <1>2, <1>3, PTL DEF Spec
-----------------------------------------------------------------------------
(* A reset, or the clearing of a map, that is still to come.               *)
Has(q, x) == \E i \in 1 .. Len(q) : q[i] = x

Waiting(map) == Has(requests, "reset") \/ Has(clearing, map)

LEMMA HasTail ==
  ASSUME NEW q, Listed(q), q # <<>>, NEW x, Head(q) # x, Has(q, x)
  PROVE  Has(Tail(q), x)
<1>1. PICK r : r = Tail(q)
  OBVIOUS
<1>2. PICK n \in Nat : n = Len(q)
  BY ListedDomain
<1>3. Len(r) = n - 1 /\ Head(q) = q[1] /\ \A i \in 1 .. n - 1 : r[i] = q[i + 1]
  BY <1>1, <1>2, ListedTail
<1>4. PICK i \in 1 .. n : q[i] = x
  BY <1>2 DEF Has
<1>5. i - 1 \in 1 .. n - 1 /\ i - 1 + 1 = i
  BY <1>2, <1>3, <1>4
<1>6. r[i - 1] = x
  BY <1>3, <1>4, <1>5
<1> QED BY <1>1, <1>3, <1>5, <1>6 DEF Has

LEMMA HasAppend ==
  ASSUME NEW q, Listed(q), NEW x, NEW y
  PROVE  /\ Has(q, x) => Has(Append(q, y), x)
         /\ Has(Append(q, y), y)
<1>1. PICK r : r = Append(q, y)
  OBVIOUS
<1>2. PICK n \in Nat : n = Len(q)
  BY ListedDomain
<1>3. Len(r) = n + 1 /\ (\A i \in 1 .. n : r[i] = q[i]) /\ r[n + 1] = y
  BY <1>1, <1>2, ListedAppend
<1>4. n + 1 \in 1 .. n + 1 /\ \A i \in 1 .. n : i \in 1 .. n + 1
  BY <1>2
<1> QED BY <1>1, <1>2, <1>3, <1>4 DEF Has

LEMMA ListsListed ==
  ASSUME Shapes
  PROVE  Listed(requests) /\ Listed(clearing)
BY DEF Shapes, Listed

LEMMA WaitingReset ==
  ASSUME Shapes, requests' = Append(requests, "reset"), NEW map
  PROVE  Waiting(map)'
BY ListsListed, HasAppend DEF Waiting

(* Nothing but the clearing of the map itself ends the waiting for it.     *)
LEMMA WaitingStays ==
  ASSUME Shapes, [Next]_vars, ~Restart, NEW map \in {"heap", "timers"}, Waiting(map)
  PROVE  Waiting(map)' \/ (ClearNext /\ Head(clearing) = map)
<1>1. CASE StartReset
  <2>1. clearing' = <<"timers", "counters", "jams", "heap", "tagOf">>
    BY <1>1 DEF StartReset
  <2>2. Len(clearing') = 5 /\ clearing'[1] = "timers" /\ clearing'[4] = "heap"
    BY <2>1
  <2>3. 1 \in 1 .. 5 /\ 4 \in 1 .. 5
    OBVIOUS
  <2> QED BY <2>2, <2>3 DEF Waiting, Has
<1>2. CASE ClearNext
  <2> SUFFICES ASSUME Head(clearing) # map PROVE Waiting(map)'
    BY <1>2
  <2>1. clearing # <<>> /\ clearing' = Tail(clearing) /\ requests' = requests
    BY <1>2 DEF ClearNext
  <2> QED BY <2>1, ListsListed, HasTail DEF Waiting
<1>3. CASE RankMethods
  <2>1. requests # <<>> /\ requests' = Tail(requests) /\ clearing' = clearing /\ Head(requests) # "reset"
    BY <1>3 DEF RankMethods
  <2> QED BY <2>1, ListsListed, HasTail DEF Waiting
<1>4. CASE ResetViewers \/ StopTraffic
  <2>1. clearing' = clearing /\ \E y : requests' = Append(requests, y)
    BY <1>4 DEF ResetViewers, StopTraffic
  <2> QED BY <2>1, ListsListed, HasAppend DEF Waiting
<1>5. CASE SessionLoad
  <2>1. clearing' = clearing /\ (requests' = requests \/ requests' = Append(requests, "reset"))
    BY <1>5 DEF SessionLoad
  <2> QED BY <2>1, WaitingReset DEF Waiting
<1>6. CASE Heap \/ Timers \/ Others
  <2>1. clearing' = clearing /\ requests' = requests
    BY <1>6 DEF Heap, HeapCreate, HeapFree, Timers, Tick, TimerEnter, TimerExit, TimerThrow, Others,
                SignalReported, JammedReported, ClassReported, TrafficReported, Reported
  <2> QED BY <2>1 DEF Waiting
<1>7. CASE Deliver \/ (\E key \in SignalKeys : ShowDetail(key)) \/ (\E class \in Classes : ShowHeapDetail(class))
           \/ (\E r \in DOMAIN shown.classes.rows : PressClass(r)) \/ SessionSave \/ UNCHANGED vars
  <2>1. clearing' = clearing /\ requests' = requests
    BY <1>7 DEF Deliver, ShowDetail, ShowHeapDetail, PressClass, SessionSave, vars
  <2> QED BY <2>1 DEF Waiting
<1> QED BY <1>1, <1>2, <1>3, <1>4, <1>5, <1>6, <1>7 DEF Next, Listener, Window
-----------------------------------------------------------------------------
(* The posts about a class or a timer, and what the last of them says.     *)
About(post, kind, x) ==
  /\ post.kind = kind
  /\ kind = "heap" => post.report.class = x
  /\ kind = "timer" => post.report.name = x

Content(post) == IF post.kind = "heap" THEN post.report.report ELSE post.report.elapsed

Posts(q, kind, x) == {i \in 1 .. Len(q) : About(q[i], kind, x)}

LastSays(q, kind, x, value) ==
  \A i \in Posts(q, kind, x) : (\A j \in Posts(q, kind, x) : j <= i) => Content(q[i]) = value

LEMMA PostedAbout ==
  ASSUME Listed(queue), NEW post, queue' = queue \o <<post>>, NEW kind, NEW x, About(post, kind, x)
  PROVE  Posts(queue', kind, x) # {} /\ LastSays(queue', kind, x, Content(post))
<1>1. PICK n \in Nat : n = Len(queue)
  BY ListedDomain
<1>2. Len(queue') = n + 1 /\ queue'[n + 1] = post
  BY <1>1, Posted
<1>3. n + 1 \in Posts(queue', kind, x)
  <2>1. n + 1 \in 1 .. n + 1
    OBVIOUS
  <2> QED BY <1>2, <2>1 DEF Posts
<1>4. ASSUME NEW i \in Posts(queue', kind, x), \A j \in Posts(queue', kind, x) : j <= i
      PROVE  Content(queue'[i]) = Content(post)
  <2>1. i \in 1 .. n + 1 /\ n + 1 <= i
    BY <1>2, <1>3, <1>4 DEF Posts
  <2>2. i = n + 1
    BY <2>1
  <2> QED BY <1>2, <2>2
<1> QED BY <1>3, <1>4 DEF LastSays

LEMMA PostedElse ==
  ASSUME Listed(queue), NEW post, queue' = queue \o <<post>>, NEW kind, NEW x, ~About(post, kind, x)
  PROVE  /\ Posts(queue', kind, x) = Posts(queue, kind, x)
         /\ \A value : LastSays(queue, kind, x, value) => LastSays(queue', kind, x, value)
<1>1. PICK n \in Nat : n = Len(queue)
  BY ListedDomain
<1>2. Len(queue') = n + 1 /\ queue'[n + 1] = post /\ \A i \in 1 .. n : queue'[i] = queue[i]
  BY <1>1, Posted
<1>3. \A i \in 1 .. n + 1 : i \in 1 .. n \/ i = n + 1
  BY <1>1
<1>4. \A i \in 1 .. n : i \in 1 .. n + 1
  BY <1>1
<1>5. Posts(queue', kind, x) = Posts(queue, kind, x)
  BY <1>1, <1>2, <1>3, <1>4 DEF Posts
<1>6. \A i \in Posts(queue, kind, x) : queue'[i] = queue[i]
  BY <1>1, <1>2 DEF Posts
<1> QED BY <1>5, <1>6 DEF LastSays

LEMMA PostTaken ==
  ASSUME Listed(queue), queue # <<>>, queue' = Tail(queue), NEW kind, NEW x
  PROVE  /\ Posts(queue', kind, x) # {} =>
              /\ Posts(queue, kind, x) # {}
              /\ \A value : LastSays(queue, kind, x, value) => LastSays(queue', kind, x, value)
         /\ Posts(queue', kind, x) = {} /\ Posts(queue, kind, x) # {} =>
              /\ About(Head(queue), kind, x)
              /\ \A value : LastSays(queue, kind, x, value) => Content(Head(queue)) = value
         /\ Posts(queue, kind, x) = {} => ~About(Head(queue), kind, x)
<1>1. PICK n \in Nat : n = Len(queue)
  BY ListedDomain
<1>2. /\ Len(queue') = n - 1 /\ n > 0 /\ Head(queue) = queue[1]
      /\ \A i \in 1 .. n - 1 : queue'[i] = queue[i + 1]
  BY <1>1, ListedTail
<1>3. \A i \in 1 .. n - 1 : i + 1 \in 1 .. n
  BY <1>1
<1>4. \A i \in 1 .. n : i = 1 \/ (i - 1 \in 1 .. n - 1 /\ i - 1 + 1 = i)
  BY <1>1
<1>5. \A i \in Posts(queue', kind, x) : i + 1 \in Posts(queue, kind, x) /\ queue'[i] = queue[i + 1] /\ i \in Nat
  BY <1>1, <1>2, <1>3 DEF Posts
<1>6. \A i \in Posts(queue, kind, x) : i = 1 \/ (i - 1 \in Posts(queue', kind, x) /\ i \in Nat)
  BY <1>1, <1>2, <1>4 DEF Posts
<1>7. ASSUME Posts(queue', kind, x) # {}, NEW value, LastSays(queue, kind, x, value)
      PROVE  LastSays(queue', kind, x, value)
  <2> SUFFICES ASSUME NEW i \in Posts(queue', kind, x), \A j \in Posts(queue', kind, x) : j <= i
               PROVE  Content(queue'[i]) = value
    BY DEF LastSays
  <2>1. ASSUME NEW j \in Posts(queue, kind, x) PROVE j <= i + 1
    <3>1. CASE j = 1
      BY <1>5, <3>1
    <3>2. CASE j # 1
      <4>1. j - 1 <= i /\ j \in Nat
        BY <1>6, <3>2
      <4> QED BY <1>5, <4>1
    <3> QED BY <3>1, <3>2
  <2>2. Content(queue[i + 1]) = value
    BY <1>5, <1>7, <2>1 DEF LastSays
  <2> QED BY <1>5, <2>2
<1>8. ASSUME Posts(queue', kind, x) = {}, Posts(queue, kind, x) # {}
      PROVE  /\ About(Head(queue), kind, x)
             /\ \A value : LastSays(queue, kind, x, value) => Content(Head(queue)) = value
  <2>1. \A i \in Posts(queue, kind, x) : i = 1
    BY <1>6, <1>8
  <2>2. 1 \in Posts(queue, kind, x)
    BY <1>8, <2>1
  <2>3. \A j \in Posts(queue, kind, x) : j <= 1
    BY <2>1
  <2> QED BY <1>2, <2>2, <2>3 DEF LastSays, Posts
<1>9. Posts(queue, kind, x) = {} => ~About(Head(queue), kind, x)
  <2>1. 1 \in 1 .. n
    BY <1>2
  <2> QED BY <1>1, <1>2, <2>1 DEF Posts
<1> QED BY <1>5, <1>7, <1>8, <1>9
-----------------------------------------------------------------------------
(* The heap window shows the account of a class, or the last post about    *)
(* the class has the account.                                              *)
HeapAt(class) ==
  /\ class \in DOMAIN main.heap /\ main.heap[class] = mon.heap[class]
  /\ class \in DOMAIN shown.heap
  /\ \A part \in {"lifetime", "current", "max"} : shown.heap[class][part] = mon.heap[class][part]
  /\ class \in DOMAIN windows.heap =>
       \A stack \in DOMAIN mon.heap[class].stacks : windows.heap[class][stack] = mon.heap[class].stacks[stack]

HeapTold(class) ==
  IF Posts(queue, "heap", class) # {} THEN LastSays(queue, "heap", class, mon.heap[class])
  ELSE HeapAt(class)

HeapSettles == crashed \/ past.mixed \/ Waiting("heap") \/ \A class \in DOMAIN mon.heap : HeapTold(class)

(* The same for the elapsed time of a timer that has one.                  *)
TimerAt(key) == key \in DOMAIN shown.timers /\ shown.timers[key] = mon.timers[key].elapsed

TimerTold(key) ==
  IF Posts(queue, "timer", key) # {} THEN LastSays(queue, "timer", key, mon.timers[key].elapsed)
  ELSE TimerAt(key)

TimersNamed ==
  \A key \in DOMAIN mon.timers :
    DOMAIN mon.timers[key] = {"name", "key", "time", "elapsed"} /\ mon.timers[key].name \in {key, NoName}

TimersSettle ==
  \/ crashed
  \/ Waiting("timers")
  \/ \A key \in DOMAIN mon.timers \ past.muddled : mon.timers[key].elapsed > 0 => TimerTold(key)
-----------------------------------------------------------------------------
LEMMA HandledHeap ==
  ASSUME GuiShape(Gui), NEW post, PostShape(post), post.kind # "heap"
  PROVE  SameHeap(Handled(post), Gui)
<1>1. CASE post.kind = "signal"
  <2>1. Handled(post) = ListUpdated(Gui, post.report)
    BY <1>1 DEF Handled
  <2>2. SameHeap(ListUpdated(Gui, post.report), Gui)
    BY ListUpdatedShape
  <2> QED BY <2>1, <2>2
<1>2. CASE post.kind = "timer"
  <2>1. Handled(post) = TimedListUpdated(Gui, post.report)
    BY <1>2 DEF Handled
  <2>2. SameHeap(TimedListUpdated(Gui, post.report), Gui)
    BY TimedShape
  <2> QED BY <2>1, <2>2
<1>3. CASE post.kind = "traffic"
  <2>1. Handled(post) = TrafficUpdated(Gui, post.report)
    BY <1>3 DEF Handled
  <2>2. SameHeap(TrafficUpdated(Gui, post.report), Gui)
    BY <1>3, TrafficUpdatedShape DEF PostShape
  <2> QED BY <2>1, <2>2
<1>4. CASE post.kind \in {"ranks", "classes", "jam"}
  <2>1. \/ Handled(post) = RankingUpdated(Gui, post.report)
        \/ Handled(post) = ClassesUpdated(Gui, post.report)
        \/ Handled(post) = JammedUpdated(Gui, post.report)
    BY <1>4 DEF Handled
  <2> QED BY <2>1, OtherUpdatesShape
<1> QED BY <1>1, <1>2, <1>3, <1>4 DEF PostShape

LEMMA HandledTimers ==
  ASSUME GuiShape(Gui), NEW post, PostShape(post), post.kind # "timer"
  PROVE  SameTimers(Handled(post), Gui)
<1>1. CASE post.kind = "signal"
  <2>1. Handled(post) = ListUpdated(Gui, post.report)
    BY <1>1 DEF Handled
  <2>2. SameTimers(ListUpdated(Gui, post.report), Gui)
    BY ListUpdatedShape
  <2> QED BY <2>1, <2>2
<1>2. CASE post.kind = "heap"
  <2>1. Handled(post) = HeapUpdated(Gui, post.report.class, post.report.report)
    BY <1>2 DEF Handled
  <2>2. SameTimers(HeapUpdated(Gui, post.report.class, post.report.report), Gui)
    BY HeapUpdatedShape
  <2> QED BY <2>1, <2>2
<1>3. CASE post.kind = "traffic"
  <2>1. Handled(post) = TrafficUpdated(Gui, post.report)
    BY <1>3 DEF Handled
  <2>2. SameTimers(TrafficUpdated(Gui, post.report), Gui)
    BY <1>3, TrafficUpdatedShape DEF PostShape
  <2> QED BY <2>1, <2>2
<1>4. CASE post.kind \in {"ranks", "classes", "jam"}
  <2>1. \/ Handled(post) = RankingUpdated(Gui, post.report)
        \/ Handled(post) = ClassesUpdated(Gui, post.report)
        \/ Handled(post) = JammedUpdated(Gui, post.report)
    BY <1>4 DEF Handled
  <2> QED BY <2>1, OtherUpdatesShape
<1> QED BY <1>1, <1>2, <1>3, <1>4 DEF PostShape

LEMMA HeapToldSame ==
  ASSUME Listed(queue), NEW class, HeapTold(class), mon'.heap[class] = mon.heap[class],
         UNCHANGED <<main, shown, windows>>,
         \/ queue' = queue \o <<>>
         \/ queue' = queue
         \/ \E post : queue' = queue \o <<post>> /\ ~About(post, "heap", class)
  PROVE  HeapTold(class)'
<1>1. HeapAt(class) => HeapAt(class)'
  BY DEF HeapAt
<1>2. CASE queue' = queue \o <<>> \/ queue' = queue
  <2>1. queue' = queue
    BY <1>2, ConcatEmptySeq DEF Listed
  <2> QED BY <1>1, <2>1 DEF HeapTold, LastSays
<1>3. CASE \E post : queue' = queue \o <<post>> /\ ~About(post, "heap", class)
  <2>1. /\ Posts(queue', "heap", class) = Posts(queue, "heap", class)
        /\ \A value : LastSays(queue, "heap", class, value) => LastSays(queue', "heap", class, value)
    BY <1>3, PostedElse
  <2> QED BY <1>1, <2>1 DEF HeapTold
<1> QED BY <1>2, <1>3

LEMMA TimerToldSame ==
  ASSUME Listed(queue), NEW key, TimerTold(key), mon'.timers[key].elapsed = mon.timers[key].elapsed,
         shown' = shown,
         \/ queue' = queue \o <<>>
         \/ queue' = queue
         \/ \E post : queue' = queue \o <<post>> /\ ~About(post, "timer", key)
  PROVE  TimerTold(key)'
<1>1. TimerAt(key) => TimerAt(key)'
  BY DEF TimerAt
<1>2. CASE queue' = queue \o <<>> \/ queue' = queue
  <2>1. queue' = queue
    BY <1>2, ConcatEmptySeq DEF Listed
  <2> QED BY <1>1, <2>1 DEF TimerTold, LastSays
<1>3. CASE \E post : queue' = queue \o <<post>> /\ ~About(post, "timer", key)
  <2>1. /\ Posts(queue', "timer", key) = Posts(queue, "timer", key)
        /\ \A value : LastSays(queue, "timer", key, value) => LastSays(queue', "timer", key, value)
    BY <1>3, PostedElse
  <2> QED BY <1>1, <2>1 DEF TimerTold
<1> QED BY <1>2, <1>3

(* What the other reports and the listener's thread post.                  *)
PostsElse ==
  \/ queue' = queue \o <<>>
  \/ queue' = queue
  \/ \E post : queue' = queue \o <<post>> /\ post.kind \notin {"heap", "timer"}

LEMMA OtherPosts ==
  ASSUME Others \/ Listener
  PROVE  PostsElse
<1>1. CASE Others
  <2>1. PICK name, kind, report : Reported(name, Post(kind, report)) /\ kind \in {"signal", "jam", "classes", "traffic"}
    BY <1>1 DEF Others, SignalReported, JammedReported, ClassReported, TrafficReported
  <2>2. PICK post : post = [kind |-> kind, report |-> report]
    OBVIOUS
  <2>3. queue' = queue \o <<post>> /\ post.kind = kind
    BY <2>1, <2>2 DEF Reported, Post
  <2> QED BY <2>1, <2>3 DEF PostsElse
<1>2. CASE RankMethods
  <2>1. PICK ranks : queue' = queue \o Post("ranks", ranks)
    BY <1>2 DEF RankMethods
  <2>2. PICK post : post = [kind |-> "ranks", report |-> ranks]
    OBVIOUS
  <2>3. queue' = queue \o <<post>> /\ post.kind = "ranks"
    BY <2>1, <2>2 DEF Post
  <2> QED BY <2>3 DEF PostsElse
<1>3. CASE StartReset \/ ClearNext
  BY <1>3 DEF StartReset, ClearNext, PostsElse
<1> QED BY <1>1, <1>2, <1>3 DEF Listener

LEMMA TimerPosts ==
  ASSUME Timers
  PROVE  \/ queue' = queue \o <<>>
         \/ queue' = queue
         \/ \E post : queue' = queue \o <<post>> /\ post.kind = "timer"
<1>1. CASE Tick \/ (\E key \in TimerKeys : TimerThrow(key)) \/ (\E key \in TimerKeys : TimerEnter(key))
  BY <1>1 DEF Tick, TimerThrow, TimerEnter, Reported
<1>2. CASE \E key \in TimerKeys : \E i \in 1 .. 2 : TimerExit(key, i)
  <2>1. PICK report : Reported("timers", Post("timer", report))
    BY <1>2 DEF TimerExit
  <2>2. PICK post : post = [kind |-> "timer", report |-> report]
    OBVIOUS
  <2>3. queue' = queue \o <<post>> /\ post.kind = "timer"
    BY <2>1, <2>2 DEF Reported, Post
  <2> QED BY <2>3
<1> QED BY <1>1, <1>2 DEF Timers

LEMMA HeapPosts ==
  ASSUME Heap
  PROVE  \/ queue' = queue \o <<>>
         \/ queue' = queue
         \/ \E post : queue' = queue \o <<post>> /\ post.kind = "heap"
<1>1. CASE Reported("heap", <<>>)
  BY <1>1 DEF Reported
<1>2. CASE \E report : Reported("heap", Post("heap", report))
  <2>1. PICK report : Reported("heap", Post("heap", report))
    BY <1>2
  <2>2. PICK post : post = [kind |-> "heap", report |-> report]
    OBVIOUS
  <2>3. queue' = queue \o <<post>> /\ post.kind = "heap"
    BY <2>1, <2>2 DEF Reported, Post
  <2> QED BY <2>3
<1> QED BY <1>1, <1>2 DEF Heap, HeapCreate, HeapFree
-----------------------------------------------------------------------------
LEMMA CrashedStays ==
  ASSUME [Next]_vars, ~Restart, crashed
  PROVE  crashed'
<1>1. CASE Heap
  BY <1>1 DEF Heap, HeapCreate, HeapFree, Reported
<1>2. CASE Timers
  BY <1>2 DEF Timers, Tick, TimerEnter, TimerExit, TimerThrow, Reported
<1>3. CASE Others
  BY <1>3 DEF Others, SignalReported, JammedReported, ClassReported, TrafficReported, Reported
<1>4. CASE Listener
  BY <1>4 DEF Listener, StartReset, ClearNext, RankMethods
<1>5. CASE Window
  BY <1>5 DEF Window, Deliver, ResetViewers, StopTraffic, ShowDetail, ShowHeapDetail, PressClass,
              SessionSave, SessionLoad
<1>6. CASE UNCHANGED vars
  BY <1>6 DEF vars
<1> QED BY <1>1, <1>2, <1>3, <1>4, <1>5, <1>6 DEF Next

LEMMA MixedStays ==
  ASSUME Shapes, [Next]_vars, ~Restart, past.mixed
  PROVE  past'.mixed
<1>1. CASE Heap
  <2>1. ASSUME NEW class, NEW stack, NEW object, NEW tag, HeapCreate(class, stack, object, tag)
        PROVE  past'.mixed
    BY <2>1 DEF HeapCreate, Shapes
  <2>2. ASSUME NEW object, HeapFree(object)
        PROVE  past'.mixed
    <3>1. past' = past \/ \E r : past' = [past EXCEPT !.reports = r, !.mixed = @ \/ mon.tagOf[object.tag].left # <<>>]
      BY <2>2 DEF HeapFree
    <3> QED BY <3>1 DEF Shapes
  <2> QED BY <1>1, <2>1, <2>2 DEF Heap
<1>2. CASE Timers
  BY <1>2 DEF Timers, Tick, TimerEnter, TimerExit, TimerThrow, Shapes
<1>3. CASE StartReset
  BY <1>3 DEF StartReset
<1>4. CASE ClearNext
  <2>1. \/ past' = past
        \/ \E s, m : past' = [past EXCEPT !.spent = s, !.muddled = m]
        \/ \E m : past' = [past EXCEPT !.made = m]
    BY <1>4 DEF ClearNext
  <2> QED BY <2>1 DEF Shapes
<1>5. CASE Quiet
  BY <1>5 DEF Quiet
<1> QED BY <1>1, <1>2, <1>3, <1>4, <1>5, QuietStep

LEMMA HeapRowSame ==
  ASSUME NEW class, HeapTold(class), UNCHANGED <<queue, mon>>, UNCHANGED <<main.heap, shown.heap, windows.heap>>
  PROVE  HeapTold(class)'
BY DEF HeapTold, HeapAt

LEMMA HeapDelivered ==
  ASSUME WindowShapes, Deliver, NEW class, HeapTold(class)
  PROVE  HeapTold(class)'
<1>0. PICK post : post = Head(queue)
  OBVIOUS
<1>1. /\ queue # <<>> /\ queue' = Tail(queue) /\ GuiBecomes(Handled(post)) /\ mon' = mon
  BY <1>0 DEF Deliver
<1>2. PostShape(post) /\ GuiShape(Gui) /\ Listed(queue)
  BY <1>0, <1>1, HeadPosted DEF WindowShapes
<1>3. CASE Posts(queue', "heap", class) # {}
  <2>1. Posts(queue, "heap", class) # {}
    BY <1>1, <1>2, <1>3, PostTaken
  <2>2. LastSays(queue', "heap", class, mon.heap[class])
    BY <1>1, <1>2, <1>3, <2>1, PostTaken DEF HeapTold
  <2> QED BY <1>1, <1>3, <2>2 DEF HeapTold
<1>4. CASE Posts(queue', "heap", class) = {}
  <2> SUFFICES HeapAt(class)'
    BY <1>4 DEF HeapTold
  <2>1. CASE post.kind # "heap"
    <3>1. ~About(post, "heap", class)
      BY <2>1 DEF About
    <3>2. Posts(queue, "heap", class) = {}
      BY <1>0, <1>1, <1>2, <1>4, <3>1, PostTaken
    <3>3. HeapAt(class)
      BY <3>2 DEF HeapTold
    <3>4. SameHeap(Handled(post), Gui)
      BY <1>2, <2>1, HandledHeap
    <3>5. main'.heap = main.heap /\ shown'.heap = shown.heap /\ windows'.heap = windows.heap
      BY <1>1, <3>4 DEF SameHeap, GuiBecomes, Gui
    <3> QED BY <1>1, <3>3, <3>5 DEF HeapAt
  <2>2. CASE post.kind = "heap"
    <3>1. PICK c, report : c = post.report.class /\ report = post.report.report
      OBVIOUS
    <3>2. Handled(post) = HeapUpdated(Gui, c, report)
      BY <2>2, <3>1 DEF Handled
    <3>3. PICK h : h = Handled(post)
      OBVIOUS
    <3>4. /\ h.main.heap = Put(Gui.main.heap, c, report)
          /\ h.shown.heap = HeapRow(Gui.shown.heap, c, report)
          /\ h.windows.heap = IF c \notin DOMAIN Gui.windows.heap THEN Gui.windows.heap
                              ELSE Put(Gui.windows.heap, c, StackRows(Gui.windows.heap[c], report.stacks))
      BY <1>2, <3>2, <3>3, HeapUpdatedShape
    <3>5. /\ main'.heap = Put(main.heap, c, report)
          /\ shown'.heap = HeapRow(shown.heap, c, report)
          /\ windows'.heap = IF c \notin DOMAIN windows.heap THEN windows.heap
                             ELSE Put(windows.heap, c, StackRows(windows.heap[c], report.stacks))
      BY <1>1, <3>3, <3>4 DEF GuiBecomes, Gui
    <3>6. CASE c = class
      <4>1. Posts(queue, "heap", class) # {}
        <5>1. About(post, "heap", class)
          BY <2>2, <3>1, <3>6 DEF About
        <5> QED BY <1>0, <1>1, <1>2, <5>1, PostTaken
      <4>2. Content(post) = mon.heap[class]
        BY <1>0, <1>1, <1>2, <1>4, <4>1, PostTaken DEF HeapTold
      <4>3. report = mon'.heap[class]
        BY <1>1, <2>2, <3>1, <4>2 DEF Content
      <4>4. class \in DOMAIN main'.heap /\ main'.heap[class] = report
        BY <3>5, <3>6 DEF Put
      <4>5. /\ class \in DOMAIN shown'.heap
            /\ \A part \in {"lifetime", "current", "max"} : shown'.heap[class][part] = report[part]
        BY <3>5, <3>6 DEF Put, HeapRow
      <4>6. class \in DOMAIN windows'.heap =>
              \A stack \in DOMAIN report.stacks : windows'.heap[class][stack] = report.stacks[stack]
        BY <3>5, <3>6 DEF Put, StackRows
      <4> QED BY <4>3, <4>4, <4>5, <4>6 DEF HeapAt
    <3>7. CASE c # class
      <4>1. ~About(post, "heap", class)
        BY <3>1, <3>7 DEF About
      <4>2. HeapAt(class)
        BY <1>0, <1>1, <1>2, <1>4, <4>1, PostTaken DEF HeapTold
      <4>3. class \in DOMAIN main.heap => class \in DOMAIN main'.heap /\ main'.heap[class] = main.heap[class]
        BY <3>5, <3>7 DEF Put
      <4>4. class \in DOMAIN shown.heap => class \in DOMAIN shown'.heap /\ shown'.heap[class] = shown.heap[class]
        BY <3>5, <3>7 DEF Put, HeapRow
      <4>5. class \in DOMAIN windows'.heap => class \in DOMAIN windows.heap /\ windows'.heap[class] = windows.heap[class]
        BY <3>5, <3>7 DEF Put
      <4> QED BY <1>1, <4>2, <4>3, <4>4, <4>5 DEF HeapAt
    <3> QED BY <3>6, <3>7
  <2> QED BY <2>1, <2>2
<1> QED BY <1>3, <1>4

LEMMA HeapDetailTold ==
  ASSUME WindowShapes, NEW c, ShowHeapDetail(c), NEW class, HeapTold(class)
  PROVE  HeapTold(class)'
<1>1. UNCHANGED <<queue, mon, main, shown>>
  BY DEF ShowHeapDetail
<1>2. windows'.heap = Put(windows.heap, c, StackRows(At(windows.heap, c, Nothing), main.heap[c].stacks))
  BY DEF ShowHeapDetail, WindowShapes, GuiShape, Gui
<1>3. ASSUME HeapAt(class) PROVE HeapAt(class)'
  <2>1. CASE c = class
    <3>1. windows'.heap[class] = StackRows(At(windows.heap, c, Nothing), mon.heap[class].stacks)
      BY <1>2, <1>3, <2>1 DEF Put, HeapAt
    <3>2. \A stack \in DOMAIN mon.heap[class].stacks : windows'.heap[class][stack] = mon.heap[class].stacks[stack]
      BY <3>1 DEF StackRows
    <3> QED BY <1>1, <1>3, <3>2 DEF HeapAt
  <2>2. CASE c # class
    <3>1. class \in DOMAIN windows'.heap => class \in DOMAIN windows.heap /\ windows'.heap[class] = windows.heap[class]
      BY <1>2, <2>2 DEF Put
    <3> QED BY <1>1, <1>3, <3>1 DEF HeapAt
  <2> QED BY <2>1, <2>2
<1> QED BY <1>1, <1>3 DEF HeapTold

LEMMA HeapCreateTold ==
  ASSUME Shapes, WindowShapes, NEW class, NEW stack, NEW object, NEW tag, HeapCreate(class, stack, object, tag),
         \A c \in DOMAIN mon.heap : HeapTold(c)
  PROVE  \A c \in DOMAIN mon'.heap : HeapTold(c)'
<1>1. PICK report : report = HeapCreated(At(mon.heap, class, NewHeapReport), stack)
  OBVIOUS
<1>2. PICK post : post = [kind |-> "heap", report |-> [class |-> class, report |-> report]]
  OBVIOUS
<1>3. queue' = queue \o <<post>> /\ mon'.heap = Put(mon.heap, class, report) /\ UNCHANGED <<main, shown, windows>>
  BY <1>1, <1>2 DEF HeapCreate, Reported, Post, gui, Shapes
<1>4. /\ DOMAIN mon'.heap = DOMAIN mon.heap \cup {class} /\ mon'.heap[class] = report
      /\ \A c \in DOMAIN mon.heap \ {class} : mon'.heap[c] = mon.heap[c]
  BY <1>3 DEF Put
<1>5. Content(post) = report /\ \A c : About(post, "heap", c) <=> c = class
  BY <1>2 DEF Content, About
<1>6. Listed(queue)
  BY DEF WindowShapes
<1>7. HeapTold(class)'
  <2>1. Posts(queue', "heap", class) # {} /\ LastSays(queue', "heap", class, report)
    BY <1>3, <1>5, <1>6, PostedAbout
  <2> QED BY <1>4, <2>1 DEF HeapTold
<1>8. ASSUME NEW c \in DOMAIN mon.heap, c # class PROVE HeapTold(c)'
  BY <1>3, <1>4, <1>5, <1>6, <1>8, HeapToldSame
<1> QED BY <1>4, <1>7, <1>8

LEMMA HeapFreeTold ==
  ASSUME Shapes, WindowShapes, NEW object, HeapFree(object), ~crashed', ~past'.mixed,
         \A c \in DOMAIN mon.heap : HeapTold(c)
  PROVE  \A c \in DOMAIN mon'.heap : HeapTold(c)'
<1>1. PICK to : to = mon.tagOf[object.tag]
  OBVIOUS
<1>2. PICK freed : freed = HeapFreed(IF to.left = <<>> THEN mon.heap[to.class] ELSE to.left[1])
  OBVIOUS
<1>3. /\ Reported("heap", Post("heap", [class |-> to.class, report |-> freed]))
      /\ mon' = IF to.left = <<>> THEN [mon EXCEPT !.heap[to.class] = freed]
                ELSE [mon EXCEPT !.tagOf[object.tag].left = <<freed>>]
      /\ past' = [past EXCEPT !.reports = @ + 1, !.mixed = @ \/ to.left # <<>>]
  BY <1>1, <1>2 DEF HeapFree
<1>4. to.left = <<>>
  BY <1>3 DEF Shapes
<1>5. PICK class : class = to.class
  OBVIOUS
<1>6. PICK post : post = [kind |-> "heap", report |-> [class |-> class, report |-> freed]]
  OBVIOUS
<1>7. queue' = queue \o <<post>> /\ UNCHANGED <<main, shown, windows>>
  BY <1>3, <1>5, <1>6 DEF Reported, Post, gui
<1>8. mon'.heap = [mon.heap EXCEPT ![class] = freed]
  BY <1>3, <1>4, <1>5 DEF Shapes
<1>9. Content(post) = freed /\ \A c : About(post, "heap", c) <=> c = class
  BY <1>6 DEF Content, About
<1>10. Listed(queue)
  BY DEF WindowShapes
<1>11. ASSUME NEW c \in DOMAIN mon'.heap PROVE HeapTold(c)'
  <2>1. CASE c = class
    <3>1. Posts(queue', "heap", c) # {} /\ LastSays(queue', "heap", c, freed)
      BY <1>7, <1>9, <1>10, <2>1, PostedAbout
    <3>2. mon'.heap[c] = freed
      BY <1>8, <2>1
    <3> QED BY <3>1, <3>2 DEF HeapTold
  <2>2. CASE c # class
    <3>1. c \in DOMAIN mon.heap /\ mon'.heap[c] = mon.heap[c]
      BY <1>8, <2>2
    <3> QED BY <1>7, <1>9, <1>10, <2>2, <3>1, HeapToldSame
  <2> QED BY <2>1, <2>2
<1> QED BY <1>11

LEMMA HeapAccountSame ==
  ASSUME Shapes, Timers \/ Others \/ Listener, ~(ClearNext /\ Head(clearing) = "heap")
  PROVE  mon'.heap = mon.heap
<1>1. CASE Timers
  BY <1>1 DEF Timers, Tick, TimerEnter, TimerExit, TimerThrow, Shapes
<1>2. CASE Others
  BY <1>2 DEF Others, SignalReported, JammedReported, ClassReported, TrafficReported, Shapes
<1>3. CASE StartReset \/ RankMethods
  BY <1>3 DEF StartReset, RankMethods
<1>4. CASE ClearNext
  <2>1. Head(clearing) # "heap" /\ mon' = [mon EXCEPT ![Head(clearing)] = NewMonitor[Head(clearing)]]
    BY <1>4 DEF ClearNext
  <2> QED BY <2>1 DEF Shapes
<1> QED BY <1>1, <1>2, <1>3, <1>4 DEF Listener

LEMMA HeapSettlesStep ==
  ASSUME Shapes, WindowShapes, HeapSettles, [Next]_vars
  PROVE  HeapSettles'
<1>1. CASE Restart
  <2>1. DOMAIN mon'.heap = {}
    BY <1>1 DEF Restart, Started, NewMonitor, Nothing
  <2> QED BY <2>1 DEF HeapSettles
<1>2. CASE ClearNext /\ Head(clearing) = "heap"
  <2>1. DOMAIN mon'.heap = {}
    <3>1. PICK cleared : cleared = [mon EXCEPT !["heap"] = NewMonitor["heap"]]
      OBVIOUS
    <3>3. \E tags : mon' = [cleared EXCEPT !.tagOf = tags]
      BY <1>2, <3>1 DEF ClearNext
    <3>2. mon'.heap = Nothing
      BY <3>1, <3>3 DEF Shapes, NewMonitor
    <3> QED BY <3>2 DEF Nothing
  <2> QED BY <2>1 DEF HeapSettles
<1>3. CASE ~Restart /\ ~(ClearNext /\ Head(clearing) = "heap")
  <2> SUFFICES ASSUME ~crashed', ~past'.mixed, ~Waiting("heap")'
               PROVE  \A class \in DOMAIN mon'.heap : HeapTold(class)'
    BY DEF HeapSettles
  <2>1. \A class \in DOMAIN mon.heap : HeapTold(class)
    BY <1>3, CrashedStays, MixedStays, WaitingStays DEF HeapSettles
  <2>2. Listed(queue)
    BY DEF WindowShapes
  <2>3. CASE Heap
    <3>1. ASSUME NEW class, NEW stack, NEW object, NEW tag, HeapCreate(class, stack, object, tag)
          PROVE  \A c \in DOMAIN mon'.heap : HeapTold(c)'
      BY <2>1, <3>1, HeapCreateTold
    <3>2. ASSUME NEW object, HeapFree(object)
          PROVE  \A c \in DOMAIN mon'.heap : HeapTold(c)'
      BY <2>1, <3>2, HeapFreeTold
    <3> QED BY <2>3, <3>1, <3>2 DEF Heap
  <2>4. CASE Timers \/ Others \/ Listener
    <3>1. mon'.heap = mon.heap /\ UNCHANGED <<main, shown, windows>>
      BY <1>3, <2>4, HeapAccountSame, GuiKept
    <3>2. \/ queue' = queue \o <<>>
          \/ queue' = queue
          \/ \E post : queue' = queue \o <<post>> /\ post.kind # "heap"
      BY <2>4, OtherPosts, TimerPosts DEF PostsElse
    <3>3. \A post, class : post.kind # "heap" => ~About(post, "heap", class)
      BY DEF About
    <3> QED BY <2>1, <2>2, <3>1, <3>2, <3>3, HeapToldSame
  <2>5. CASE Deliver
    <3>1. mon' = mon
      BY <2>5 DEF Deliver
    <3> QED BY <2>1, <2>5, <3>1, HeapDelivered
  <2>6. CASE ResetViewers
    BY <2>6, WaitingReset DEF ResetViewers
  <2>7. CASE SessionLoad
    BY <2>7, WaitingReset DEF SessionLoad
  <2>8. CASE \E c \in Classes : ShowHeapDetail(c)
    <3>1. mon' = mon
      BY <2>8 DEF ShowHeapDetail
    <3> QED BY <2>1, <2>8, <3>1, HeapDetailTold
  <2>9. CASE (\E key \in SignalKeys : ShowDetail(key)) \/ (\E r \in DOMAIN shown.classes.rows : PressClass(r))
             \/ SessionSave \/ StopTraffic \/ UNCHANGED vars
    <3>1. UNCHANGED <<queue, mon>> /\ UNCHANGED <<main.heap, shown.heap, windows.heap>>
      BY <2>9 DEF ShowDetail, PressClass, SessionSave, StopTraffic, vars, gui, WindowShapes, GuiShape, Gui
    <3> QED BY <2>1, <3>1, HeapRowSame
  <2> QED BY <1>3, <2>3, <2>4, <2>5, <2>6, <2>7, <2>8, <2>9 DEF Next, Window
<1> QED BY <1>1, <1>2, <1>3
-----------------------------------------------------------------------------
LEMMA TimersNamedStep ==
  ASSUME Shapes, TimersNamed, [Next]_vars
  PROVE  TimersNamed'
<1>1. CASE \E key \in TimerKeys : TimerEnter(key)
  <2>1. PICK key \in TimerKeys : TimerEnter(key)
    BY <1>1
  <2>2. PICK old : old = At(mon.timers, key, NewTimerReport)
    OBVIOUS
  <2>3. PICK new : new = TimerAssign(old, TimerMessage(key, program.now))
    OBVIOUS
  <2>4. mon'.timers = Put(mon.timers, key, new)
    BY <2>1, <2>2, <2>3 DEF TimerEnter, Shapes
  <2>5. DOMAIN old = {"name", "key", "time", "elapsed"}
    BY <2>2 DEF TimersNamed, At, NewTimerReport
  <2>6. DOMAIN new = {"name", "key", "time", "elapsed"} /\ new.name = key
    BY <2>3, <2>5 DEF TimerAssign, TimerMessage
  <2> QED BY <2>4, <2>6 DEF TimersNamed, Put
<1>2. CASE \E key \in TimerKeys : \E i \in 1 .. 2 : TimerExit(key, i)
  <2>1. PICK key \in TimerKeys : \E i \in 1 .. 2 : TimerExit(key, i)
    BY <1>2
  <2>2. PICK old : old = At(mon.timers, key, NewTimerReport)
    OBVIOUS
  <2>3. PICK new : new = TimerAdd(old, TimerMessage(key, program.now))
    OBVIOUS
  <2>4. mon'.timers = Put(mon.timers, key, new)
    BY <2>1, <2>2, <2>3 DEF TimerExit, Shapes
  <2>5. DOMAIN old = {"name", "key", "time", "elapsed"} /\ old.name \in {key, NoName}
    BY <2>2 DEF TimersNamed, At, NewTimerReport
  <2>6. DOMAIN new = {"name", "key", "time", "elapsed"} /\ new.name \in {key, NoName}
    BY <2>3, <2>5 DEF TimerAdd
  <2> QED BY <2>4, <2>6 DEF TimersNamed, Put
<1>3. CASE ClearNext /\ Head(clearing) = "timers"
  <2>1. mon' = [mon EXCEPT !["timers"] = NewMonitor["timers"]]
    BY <1>3 DEF ClearNext
  <2> QED BY <2>1 DEF Shapes, NewMonitor, TimersNamed, Nothing
<1>4. CASE Restart
  BY <1>4 DEF Restart, Started, NewMonitor, TimersNamed, Nothing
<1>5. CASE \/ Heap \/ Tick \/ (\E key \in TimerKeys : TimerThrow(key)) \/ StartReset \/ Quiet
           \/ (ClearNext /\ Head(clearing) # "timers")
  <2>1. mon'.timers = mon.timers
    BY <1>5 DEF Heap, HeapCreate, HeapFree, Tick, TimerThrow, StartReset, ClearNext, Quiet, Shapes
  <2> QED BY <2>1 DEF TimersNamed
<1> QED BY <1>1, <1>2, <1>3, <1>4, <1>5, QuietStep DEF Timers

(* Who of the timers is owed an account in the window.                     *)
Owed(key) ==
  key \in DOMAIN mon.timers /\ key \notin past.muddled /\ mon.timers[key].elapsed > 0

LEMMA TimerDelivered ==
  ASSUME WindowShapes, Deliver, NEW key, TimerTold(key)
  PROVE  TimerTold(key)'
<1>0. PICK post : post = Head(queue)
  OBVIOUS
<1>1. /\ queue # <<>> /\ queue' = Tail(queue) /\ GuiBecomes(Handled(post)) /\ mon' = mon
  BY <1>0 DEF Deliver
<1>2. PostShape(post) /\ GuiShape(Gui) /\ Listed(queue)
  BY <1>0, <1>1, HeadPosted DEF WindowShapes
<1>3. CASE Posts(queue', "timer", key) # {}
  <2>1. Posts(queue, "timer", key) # {}
    BY <1>1, <1>2, <1>3, PostTaken
  <2>2. LastSays(queue', "timer", key, mon.timers[key].elapsed)
    BY <1>1, <1>2, <1>3, <2>1, PostTaken DEF TimerTold
  <2> QED BY <1>1, <1>3, <2>2 DEF TimerTold
<1>4. CASE Posts(queue', "timer", key) = {}
  <2> SUFFICES TimerAt(key)'
    BY <1>4 DEF TimerTold
  <2>1. CASE post.kind # "timer"
    <3>1. ~About(post, "timer", key)
      BY <2>1 DEF About
    <3>2. Posts(queue, "timer", key) = {}
      BY <1>0, <1>1, <1>2, <1>4, <3>1, PostTaken
    <3>3. TimerAt(key)
      BY <3>2 DEF TimerTold
    <3>4. SameTimers(Handled(post), Gui)
      BY <1>2, <2>1, HandledTimers
    <3>5. shown'.timers = shown.timers
      BY <1>1, <3>4 DEF SameTimers, GuiBecomes, Gui
    <3> QED BY <1>1, <3>3, <3>5 DEF TimerAt
  <2>2. CASE post.kind = "timer"
    <3>1. PICK report : report = post.report
      OBVIOUS
    <3>2. Handled(post) = TimedListUpdated(Gui, report)
      BY <2>2, <3>1 DEF Handled
    <3>3. PICK h : h = Handled(post)
      OBVIOUS
    <3>4. h.shown.timers = Put(Gui.shown.timers, report.name, report.elapsed)
      BY <1>2, <3>2, <3>3, TimedShape
    <3>5. shown'.timers = Put(shown.timers, report.name, report.elapsed)
      BY <1>1, <3>3, <3>4 DEF GuiBecomes, Gui
    <3>6. CASE report.name = key
      <4>1. Posts(queue, "timer", key) # {}
        <5>1. About(post, "timer", key)
          BY <2>2, <3>1, <3>6 DEF About
        <5> QED BY <1>0, <1>1, <1>2, <5>1, PostTaken
      <4>2. Content(post) = mon.timers[key].elapsed
        BY <1>0, <1>1, <1>2, <1>4, <4>1, PostTaken DEF TimerTold
      <4>3. report.elapsed = mon'.timers[key].elapsed
        BY <1>1, <2>2, <3>1, <4>2 DEF Content
      <4> QED BY <3>5, <3>6, <4>3 DEF TimerAt, Put
    <3>7. CASE report.name # key
      <4>1. ~About(post, "timer", key)
        BY <3>1, <3>7 DEF About
      <4>2. TimerAt(key)
        BY <1>0, <1>1, <1>2, <1>4, <4>1, PostTaken DEF TimerTold
      <4> QED BY <1>1, <3>5, <3>7, <4>2 DEF TimerAt, Put
    <3> QED BY <3>6, <3>7
  <2> QED BY <2>1, <2>2
<1> QED BY <1>3, <1>4

LEMMA TimerEnterTold ==
  ASSUME Shapes, WindowShapes, TimersKept, TimersKept', NEW key \in TimerKeys, TimerEnter(key), NEW k, Owed(k)',
         Owed(k) => TimerTold(k)
  PROVE  TimerTold(k)'
<1>1. PICK new : new = TimerAssign(At(mon.timers, key, NewTimerReport), TimerMessage(key, program.now))
  OBVIOUS
<1>2. /\ mon'.timers = Put(mon.timers, key, new) /\ queue' = queue \o <<>> /\ shown' = shown
      /\ past'.spent = past.spent /\ past.muddled \subseteq past'.muddled
  BY <1>1 DEF TimerEnter, Shapes, Reported, gui
<1>3. k \notin past.muddled
  BY <1>2 DEF Owed
<1>4. k \in DOMAIN mon.timers /\ mon'.timers[k].elapsed = mon.timers[k].elapsed
  <2>1. CASE k = key
    <3>1. TimerKept(key) /\ TimerKept(key)'
      BY <1>3, <2>1 DEF Owed, TimersKept
    <3>2. mon'.timers[key].elapsed = At(past.spent, key, 0)
      BY <1>2, <2>1, <3>1 DEF TimerKept, Owed
    <3>3. key \notin DOMAIN mon.timers => FALSE
      <4> SUFFICES ASSUME key \notin DOMAIN mon.timers PROVE FALSE
        OBVIOUS
      <4>1. At(past.spent, key, 0) = 0
        BY <3>1 DEF TimerKept
      <4>2. mon'.timers[key].elapsed > 0
        BY <2>1 DEF Owed
      <4> QED BY <3>2, <4>1, <4>2
    <3> QED BY <2>1, <3>1, <3>2, <3>3 DEF TimerKept
  <2>2. CASE k # key
    <3>1. k \in DOMAIN mon'.timers
      BY DEF Owed
    <3> QED BY <1>2, <2>2, <3>1 DEF Put
  <2> QED BY <2>1, <2>2
<1>5. Owed(k)
  BY <1>3, <1>4 DEF Owed
<1> QED BY <1>2, <1>4, <1>5, TimerToldSame DEF WindowShapes

LEMMA TimerExitTold ==
  ASSUME Shapes, WindowShapes, TimersKept, TimersNamed, NEW key \in TimerKeys, NEW i \in 1 .. 2, TimerExit(key, i),
         NEW k, Owed(k)', Owed(k) => TimerTold(k)
  PROVE  TimerTold(k)'
<1>1. PICK old : old = At(mon.timers, key, NewTimerReport)
  OBVIOUS
<1>2. PICK new : new = TimerAdd(old, TimerMessage(key, program.now))
  OBVIOUS
<1>3. PICK post : post = [kind |-> "timer", report |-> new]
  OBVIOUS
<1>4. /\ mon'.timers = Put(mon.timers, key, new) /\ queue' = queue \o <<post>> /\ shown' = shown
      /\ past'.muddled = past.muddled
  BY <1>1, <1>2, <1>3 DEF TimerExit, Shapes, Reported, Post, gui
<1>5. new.name = old.name /\ old.name \in {key, NoName}
  <2>1. DOMAIN old = {"name", "key", "time", "elapsed"} /\ old.name \in {key, NoName}
    BY <1>1 DEF TimersNamed, At, NewTimerReport
  <2> QED BY <1>2, <2>1 DEF TimerAdd
<1>6. /\ Content(post) = new.elapsed
      /\ \A x : About(post, "timer", x) <=> new.name = x
  BY <1>3 DEF Content, About
<1>7. k \in TimerKeys \/ k = key
  BY <1>4 DEF Owed, Put, TimersKept, TimersType
<1>8. Listed(queue)
  BY DEF WindowShapes
<1>9. CASE k = key
  <2>1. new.name = key
    <3>1. TimerKept(key)
      BY <1>4, <1>9 DEF Owed, TimersKept
    <3>2. Open(key) # <<>>
      <4>1. i \in DOMAIN Open(key)
        BY DEF TimerExit, Open
      <4> QED BY <4>1
    <3>3. key \in DOMAIN mon.timers /\ mon.timers[key].name = key
      BY <3>1, <3>2 DEF TimerKept
    <3> QED BY <1>1, <1>5, <3>3 DEF At
  <2>2. Posts(queue', "timer", key) # {} /\ LastSays(queue', "timer", key, new.elapsed)
    BY <1>4, <1>6, <1>8, <2>1, PostedAbout
  <2>3. mon'.timers[key] = new
    BY <1>4 DEF Put
  <2> QED BY <1>9, <2>2, <2>3 DEF TimerTold
<1>10. CASE k # key
  <2>1. ~About(post, "timer", k)
    BY <1>5, <1>6, <1>7, <1>10, NamesAssumption
  <2>2. k \in DOMAIN mon.timers /\ mon'.timers[k] = mon.timers[k]
    BY <1>4, <1>10 DEF Owed, Put
  <2>3. Owed(k)
    BY <1>4, <2>2 DEF Owed
  <2> QED BY <1>4, <1>8, <2>1, <2>2, <2>3, TimerToldSame
<1> QED BY <1>9, <1>10

LEMMA TimerAccountSame ==
  ASSUME Shapes, \/ Heap \/ Others \/ Listener \/ Tick \/ \E key \in TimerKeys : TimerThrow(key),
         ~(ClearNext /\ Head(clearing) = "timers")
  PROVE  mon'.timers = mon.timers /\ past'.muddled = past.muddled
<1>1. CASE Heap
  <2>1. mon'.timers = mon.timers
    BY <1>1 DEF Heap, HeapCreate, HeapFree, Shapes
  <2>2. past'.muddled = past.muddled
    BY <1>1 DEF Heap, HeapCreate, HeapFree, Shapes
  <2> QED BY <2>1, <2>2
<1>2. CASE Tick \/ \E key \in TimerKeys : TimerThrow(key)
  BY <1>2 DEF Tick, TimerThrow
<1>3. CASE Others
  BY <1>3 DEF Others, SignalReported, JammedReported, ClassReported, TrafficReported, Shapes
<1>4. CASE StartReset \/ RankMethods
  BY <1>4 DEF StartReset, RankMethods
<1>5. CASE ClearNext
  <2>1. /\ Head(clearing) # "timers"
        /\ past' = past \/ past' = [past EXCEPT !.made = Nothing]
    BY <1>5 DEF ClearNext
  <2>2. mon'.timers = mon.timers
    BY <1>5, <2>1 DEF ClearNext, Shapes
  <2> QED BY <2>1, <2>2 DEF Shapes
<1> QED BY <1>1, <1>2, <1>3, <1>4, <1>5 DEF Listener

LEMMA TimersSettleStep ==
  ASSUME Shapes, WindowShapes, TimersKept, TimersKept', TimersNamed, TimersSettle, [Next]_vars
  PROVE  TimersSettle'
<1>1. CASE Restart
  <2>1. DOMAIN mon'.timers = {}
    BY <1>1 DEF Restart, Started, NewMonitor, Nothing
  <2> QED BY <2>1 DEF TimersSettle
<1>2. CASE ClearNext /\ Head(clearing) = "timers"
  <2>1. DOMAIN mon'.timers = {}
    <3>1. mon' = [mon EXCEPT !["timers"] = NewMonitor["timers"]]
      BY <1>2 DEF ClearNext
    <3> QED BY <3>1 DEF Shapes, NewMonitor, Nothing
  <2> QED BY <2>1 DEF TimersSettle
<1>3. CASE ~Restart /\ ~(ClearNext /\ Head(clearing) = "timers")
  <2> SUFFICES ASSUME ~crashed', ~Waiting("timers")', NEW k, Owed(k)'
               PROVE  TimerTold(k)'
    BY DEF TimersSettle, Owed
  <2>1. Owed(k) => TimerTold(k)
    BY <1>3, CrashedStays, WaitingStays DEF TimersSettle, Owed
  <2>2. Listed(queue)
    BY DEF WindowShapes
  <2>3. CASE \/ Heap \/ Others \/ Listener \/ Tick \/ \E key \in TimerKeys : TimerThrow(key)
    <3>1. mon'.timers = mon.timers /\ past'.muddled = past.muddled
      BY <1>3, <2>3, TimerAccountSame
    <3>2. UNCHANGED <<main, shown, windows>>
      BY <2>3, GuiKept DEF Timers
    <3>3. \/ queue' = queue \o <<>>
          \/ queue' = queue
          \/ \E post : queue' = queue \o <<post>> /\ post.kind # "timer"
      <4>1. CASE Tick \/ \E key \in TimerKeys : TimerThrow(key)
        BY <4>1 DEF Tick, TimerThrow
      <4> QED BY <2>3, <4>1, OtherPosts, HeapPosts DEF PostsElse
    <3>4. \A post : post.kind # "timer" => ~About(post, "timer", k)
      BY DEF About
    <3>5. Owed(k)
      BY <3>1 DEF Owed
    <3> QED BY <2>1, <2>2, <3>1, <3>2, <3>3, <3>4, <3>5, TimerToldSame
  <2>4. CASE \E key \in TimerKeys : TimerEnter(key)
    BY <2>1, <2>4, TimerEnterTold
  <2>5. CASE \E key \in TimerKeys : \E i \in 1 .. 2 : TimerExit(key, i)
    BY <2>1, <2>5, TimerExitTold
  <2>6. CASE Deliver
    <3>1. mon' = mon /\ past'.muddled = past.muddled
      BY <2>6 DEF Deliver, Shapes
    <3>2. Owed(k)
      BY <3>1 DEF Owed
    <3> QED BY <2>1, <2>6, <3>2, TimerDelivered
  <2>7. CASE ResetViewers
    BY <2>7, WaitingReset DEF ResetViewers
  <2>8. CASE SessionLoad
    BY <2>8, WaitingReset DEF SessionLoad
  <2>9. CASE (\E key \in SignalKeys : ShowDetail(key)) \/ (\E class \in Classes : ShowHeapDetail(class))
             \/ (\E r \in DOMAIN shown.classes.rows : PressClass(r))
             \/ SessionSave \/ StopTraffic \/ UNCHANGED vars
    <3>1. UNCHANGED <<queue, mon>> /\ shown'.timers = shown.timers /\ past'.muddled = past.muddled
      BY <2>9 DEF ShowDetail, ShowHeapDetail, PressClass, SessionSave, StopTraffic, vars, gui,
                  WindowShapes, GuiShape, Gui, Shapes
    <3>2. Owed(k)
      BY <3>1 DEF Owed
    <3> QED BY <2>1, <3>1, <3>2 DEF TimerTold, TimerAt
  <2> QED BY <1>3, <2>3, <2>4, <2>5, <2>6, <2>7, <2>8, <2>9 DEF Next, Window, Timers
<1> QED BY <1>1, <1>2, <1>3
-----------------------------------------------------------------------------
SettlesKept == HeapSettles /\ TimersNamed /\ TimersSettle

LEMMA SettlesInit == Init => SettlesKept
<1> SUFFICES ASSUME Init PROVE SettlesKept
  OBVIOUS
<1>1. DOMAIN mon.heap = {} /\ DOMAIN mon.timers = {}
  BY DEF Init, NewMonitor, Nothing
<1> QED BY <1>1 DEF SettlesKept, HeapSettles, TimersNamed, TimersSettle

LEMMA Settled ==
  ASSUME SettlesKept
  PROVE  SettledShowsAccounts
<1> SUFFICES ASSUME queue = <<>>, requests = <<>>, clearing = <<>>, ~crashed
             PROVE  /\ past.mixed \/ \A class \in DOMAIN mon.heap : HeapAt(class)
                    /\ \A key \in DOMAIN mon.timers \ past.muddled : mon.timers[key].elapsed > 0 => TimerAt(key)
  BY DEF SettledShowsAccounts, HeapAt, TimerAt
<1>0. 1 .. Len(<<>>) = {}
  OBVIOUS
<1>1. ~Waiting("heap") /\ ~Waiting("timers")
  BY <1>0 DEF Waiting, Has
<1>2. \A kind, x : Posts(queue, kind, x) = {}
  BY <1>0 DEF Posts
<1>3. past.mixed \/ \A class \in DOMAIN mon.heap : HeapAt(class)
  BY <1>1, <1>2 DEF SettlesKept, HeapSettles, HeapTold
<1>4. \A key \in DOMAIN mon.timers \ past.muddled : mon.timers[key].elapsed > 0 => TimerAt(key)
  BY <1>1, <1>2 DEF SettlesKept, TimersSettle, TimerTold
<1> QED BY <1>3, <1>4

(* When nothing is posted in either direction any more, the windows show   *)
(* the monitor's accounts, although a reset clears them in two threads     *)
(* with reports on the way: the last post about a class or a timer always  *)
(* has its account.                                                        *)
THEOREM SettledWindowsAreTrue == Spec => []SettledShowsAccounts
<1> DEFINE Inv == Shapes /\ WindowShapes /\ TimersKept /\ SettlesKept
<1>1. Init => Inv
  BY ShapesInit, WindowInit, TimersInit, SettlesInit
<1>2. Inv /\ [Next]_vars => Inv'
  BY ShapesStep, WindowStep, TimersStep, HeapSettlesStep, TimersNamedStep, TimersSettleStep DEF SettlesKept
<1>3. Inv => SettledShowsAccounts
  BY Settled
<1> QED BY <1>1, <1>2, <1>3, PTL DEF Spec
-----------------------------------------------------------------------------
(* One stack covers another: it is the same, or it extends it.             *)
Reach(a, b) ==
  /\ Len(a) >= Len(b)
  /\ \A i \in 1 .. Len(b) : a[i + Len(a) - Len(b)] = b[i]

LEMMA ListedSame ==
  ASSUME NEW p, NEW q, Listed(p), Listed(q), Len(p) = Len(q), \A i \in 1 .. Len(p) : p[i] = q[i]
  PROVE  p = q
<1>1. PICK S : p \in Seq(S)
  BY DEF Listed
<1>2. PICK T : q \in Seq(T)
  BY DEF Listed
<1>3. p \in Seq(S \cup T) /\ q \in Seq(S \cup T)
  BY <1>1, <1>2
<1> QED BY <1>3, SeqEqual

LEMMA ListedExcept ==
  ASSUME NEW q, Listed(q), NEW i, NEW x
  PROVE  /\ Listed([q EXCEPT ![i] = x]) /\ Len([q EXCEPT ![i] = x]) = Len(q)
         /\ \A j \in 1 .. Len(q) : [q EXCEPT ![i] = x][j] = IF j = i THEN x ELSE q[j]
<1>1. PICK n \in Nat : n = Len(q) /\ DOMAIN q = 1 .. n
  BY ListedDomain
<1>2. PICK r : r = [q EXCEPT ![i] = x]
  OBVIOUS
<1>3. DOMAIN r = 1 .. n /\ \A j \in 1 .. n : r[j] = IF j = i THEN x ELSE q[j]
  BY <1>1, <1>2
<1>4. r = [j \in 1 .. n |-> r[j]]
  BY <1>1, <1>2
<1>5. Listed(r) /\ Len(r) = n
  BY <1>4, ListedFunction
<1> QED BY <1>1, <1>2, <1>3, <1>5

LEMMA ReachSame ==
  ASSUME NEW a, Listed(a)
  PROVE  Reach(a, a)
BY ListedDomain DEF Reach

LEMMA ReachAnti ==
  ASSUME NEW a, NEW b, Listed(a), Listed(b), Reach(a, b), Reach(b, a)
  PROVE  a = b
<1>1. Len(a) \in Nat /\ Len(b) \in Nat
  BY ListedDomain
<1>2. Len(a) = Len(b)
  BY <1>1 DEF Reach
<1>3. \A i \in 1 .. Len(a) : i + Len(a) - Len(b) = i
  BY <1>1, <1>2
<1>4. \A i \in 1 .. Len(a) : a[i] = b[i]
  BY <1>2, <1>3 DEF Reach
<1> QED BY <1>2, <1>4, ListedSame

LEMMA ReachIs ==
  ASSUME NEW a, NEW b, Listed(a), Listed(b)
  PROVE  /\ Extends(a, b) <=> Reach(a, b) /\ a # b
         /\ Reach(a, b) <=> a = b \/ Extends(a, b)
<1>1. Extends(a, b) <=> Reach(a, b) /\ a # b
  BY DEF Extends, Reach
<1>2. a = b => Reach(a, b)
  BY ReachSame
<1> QED BY <1>1, <1>2

LEMMA ReachTransitive ==
  ASSUME NEW a, NEW b, NEW c, Listed(a), Listed(b), Listed(c), Reach(a, b), Reach(b, c)
  PROVE  Reach(a, c)
<1>1. PICK l \in Nat, m \in Nat, n \in Nat : l = Len(a) /\ m = Len(b) /\ n = Len(c)
  BY ListedDomain
<1>2. l >= m /\ m >= n /\ l >= n
  BY <1>1 DEF Reach
<1>3. ASSUME NEW i \in 1 .. n PROVE a[i + l - n] = c[i]
  <2>1. i + m - n \in 1 .. m /\ (i + m - n) + l - m = i + l - n
    BY <1>1, <1>2
  <2>2. b[i + m - n] = c[i]
    BY <1>1 DEF Reach
  <2>3. a[(i + m - n) + l - m] = b[i + m - n]
    BY <1>1, <2>1 DEF Reach
  <2> QED BY <2>1, <2>2, <2>3
<1> QED BY <1>1, <1>2, <1>3 DEF Reach

(* Two stacks that a third one covers: one of them covers the other.       *)
LEMMA ReachChain ==
  ASSUME NEW a, NEW b, NEW c, Listed(a), Listed(b), Listed(c), Reach(a, b), Reach(a, c)
  PROVE  Reach(b, c) \/ Reach(c, b)
<1>0. ASSUME NEW x, NEW y, Listed(x), Listed(y), Reach(a, x), Reach(a, y), Len(x) >= Len(y)
      PROVE  Reach(x, y)
  <2>1. PICK l \in Nat, m \in Nat, n \in Nat : l = Len(a) /\ m = Len(x) /\ n = Len(y)
    BY <1>0, ListedDomain
  <2>2. m >= n /\ l >= m
    BY <1>0, <2>1 DEF Reach
  <2>3. ASSUME NEW i \in 1 .. n PROVE x[i + m - n] = y[i]
    <3>1. i + m - n \in 1 .. m /\ (i + m - n) + l - m = i + l - n
      BY <2>2
    <3>2. a[i + l - n] = y[i]
      BY <1>0, <2>1 DEF Reach
    <3>3. a[(i + m - n) + l - m] = x[i + m - n]
      BY <1>0, <2>1, <3>1 DEF Reach
    <3> QED BY <3>1, <3>2, <3>3
  <2> QED BY <2>1, <2>2, <2>3 DEF Reach
<1>1. Len(b) \in Nat /\ Len(c) \in Nat
  BY ListedDomain
<1>2. Len(b) >= Len(c) \/ Len(c) >= Len(b)
  BY <1>1
<1> QED BY <1>0, <1>2
-----------------------------------------------------------------------------
(* A column is updated in passes, one for each of its stacks.              *)
PassStart(column, trace) == [column |-> column, marks |-> trace.monitors, changed |-> FALSE]

PassStep(column, trace, before, i) ==
  LET mine  == Marked(column[i].monitors, before.marks)
      marks == Marked(before.marks, column[i].monitors)
  IN  IF i \notin Covering(column, trace) \/ i >= FirstOutgrown(column, trace) THEN before
      ELSE [column  |-> [before.column EXCEPT ![i].monitors = mine],
            marks   |-> marks,
            changed |-> mine # column[i].monitors \/ marks # before.marks]

LEMMA PassesRun ==
  ASSUME NEW column, NEW trace, NEW n \in Nat, Len(column) = n
  PROVE  /\ Passes(column, trace)[0] = PassStart(column, trace)
         /\ \A i \in 1 .. n :
              Passes(column, trace)[i] = PassStep(column, trace, Passes(column, trace)[i - 1], i)
<1> DEFINE Body(p, i) == IF i = 0 THEN PassStart(column, trace) ELSE PassStep(column, trace, p[i - 1], i)
           P == {m \in Nat : \E p : p = [i \in 0 .. m |-> Body(p, i)]}
<1>1. 0 \in P
  <2>1. PICK p : p = [i \in 0 .. 0 |-> PassStart(column, trace)]
    OBVIOUS
  <2>2. p = [i \in 0 .. 0 |-> Body(p, i)]
    BY <2>1
  <2> QED BY <2>2
<1>2. ASSUME NEW m \in Nat, m \in P PROVE m + 1 \in P
  <2>1. PICK p : p = [i \in 0 .. m |-> Body(p, i)]
    BY <1>2
  <2>2. PICK q : q = [i \in 0 .. m + 1 |-> Body(p, i)]
    OBVIOUS
  <2>3. \A i \in 0 .. m : q[i] = p[i]
    <3> HIDE DEF Body
    <3> QED BY <2>1, <2>2
  <2>4. \A i \in 0 .. m + 1 : i = 0 \/ i - 1 \in 0 .. m
    OBVIOUS
  <2>5. \A i \in 0 .. m + 1 : Body(p, i) = Body(q, i)
    BY <2>3, <2>4
  <2>6. q = [i \in 0 .. m + 1 |-> Body(q, i)]
    <3> HIDE DEF Body
    <3> QED BY <2>2, <2>5
  <2> QED BY <2>6
<1>3. n \in P
  <2> HIDE DEF P
  <2> QED BY <1>1, <1>2, NatSetInduction
<1>4. PICK p : p = CHOOSE pass : pass = [i \in 0 .. n |-> Body(pass, i)]
  OBVIOUS
<1>5. p = [i \in 0 .. n |-> Body(p, i)]
  <2> HIDE DEF Body
  <2> QED BY <1>3, <1>4
<1>6. Passes(column, trace) = p
  BY <1>4 DEF Passes, PassStep, PassStart
<1>7. p[0] = PassStart(column, trace)
  <2>1. 0 \in 0 .. n
    OBVIOUS
  <2>2. p[0] = Body(p, 0)
    <3> HIDE DEF Body
    <3> QED BY <1>5, <2>1
  <2> QED BY <2>2
<1>8. \A i \in 1 .. n : p[i] = PassStep(column, trace, p[i - 1], i)
  <2> TAKE i \in 1 .. n
  <2>1. i \in 0 .. n /\ i # 0
    OBVIOUS
  <2>2. p[i] = Body(p, i)
    <3> HIDE DEF Body
    <3> QED BY <1>5, <2>1
  <2> QED BY <2>1, <2>2
<1> QED BY <1>6, <1>7, <1>8

(* The passes change marks and nothing else.                               *)
SameStacks(p, q) ==
  /\ TracesShape(p) /\ Len(p) = Len(q)
  /\ \A i \in 1 .. Len(q) : p[i].frames = q[i].frames

LEMMA PassesKeep ==
  ASSUME NEW column, TracesShape(column), NEW trace, NEW n \in Nat, Len(column) = n
  PROVE  SameStacks(Passes(column, trace)[n].column, column)
<1>1. PICK p : p = Passes(column, trace)
  OBVIOUS
<1>2. p[0] = PassStart(column, trace) /\ \A i \in 1 .. n : p[i] = PassStep(column, trace, p[i - 1], i)
  BY <1>1, PassesRun
<1>3. DOMAIN column = 1 .. n
  BY ListedDomain DEF TracesShape
<1> DEFINE P == {m \in Nat : m <= n => SameStacks(p[m].column, column)}
<1>4. 0 \in P
  BY <1>2 DEF PassStart, SameStacks
<1>5. ASSUME NEW m \in Nat, m \in P PROVE m + 1 \in P
  <2> SUFFICES ASSUME m + 1 <= n PROVE SameStacks(p[m + 1].column, column)
    OBVIOUS
  <2>1. PICK before : before = p[m]
    OBVIOUS
  <2>2. SameStacks(before.column, column)
    BY <1>5, <2>1
  <2>3. p[m + 1] = PassStep(column, trace, before, m + 1)
    <3>1. m + 1 \in 1 .. n /\ m + 1 - 1 = m
      OBVIOUS
    <3> QED BY <1>2, <2>1, <3>1
  <2>4. CASE p[m + 1] = before
    BY <2>2, <2>4
  <2>5. CASE p[m + 1] # before
    <3>1. PICK old : old = before.column
      OBVIOUS
    <3>2. PICK mine : p[m + 1].column = [old EXCEPT ![m + 1].monitors = mine]
      <4>1. PICK mine : mine = Marked(column[m + 1].monitors, before.marks)
        OBVIOUS
      <4>2. PICK marks : marks = Marked(before.marks, column[m + 1].monitors)
        OBVIOUS
      <4>3. PICK changed : changed = (mine # column[m + 1].monitors \/ marks # before.marks)
        OBVIOUS
      <4>4. PICK new : new = [old EXCEPT ![m + 1].monitors = mine]
        OBVIOUS
      <4>5. PassStep(column, trace, before, m + 1) =
              IF m + 1 \notin Covering(column, trace) \/ m + 1 >= FirstOutgrown(column, trace) THEN before
              ELSE [column |-> new, marks |-> marks, changed |-> changed]
        BY <3>1, <4>1, <4>2, <4>3, <4>4 DEF PassStep
      <4>6. p[m + 1] = [column |-> new, marks |-> marks, changed |-> changed]
        BY <2>3, <2>5, <4>5
      <4>7. p[m + 1].column = new
        BY <4>6
      <4> QED BY <4>4, <4>7
    <3>3. Listed(old) /\ Len(old) = n /\ DOMAIN old = 1 .. n /\ \A i \in 1 .. n : TraceShape(old[i])
      BY <2>2, <3>1, ListedDomain DEF SameStacks, TracesShape
    <3>4. PICK x : x = [old[m + 1] EXCEPT !.monitors = mine]
      OBVIOUS
    <3>5. m + 1 \in 1 .. n
      OBVIOUS
    <3>6. TraceShape(x) /\ x.frames = old[m + 1].frames
      BY <3>3, <3>4, <3>5 DEF TraceShape
    <3>7. PICK new : new = [old EXCEPT ![m + 1] = x]
      OBVIOUS
    <3>8. p[m + 1].column = new
      BY <3>2, <3>4, <3>7
    <3>9. Listed(new) /\ Len(new) = n /\ \A j \in 1 .. n : new[j] = IF j = m + 1 THEN x ELSE old[j]
      BY <3>3, <3>7, ListedExcept
    <3>10. TracesShape(new)
      BY <3>3, <3>6, <3>9, ListedDomain DEF TracesShape
    <3>11. \A j \in 1 .. n : new[j].frames = column[j].frames
      BY <2>2, <3>1, <3>6, <3>9 DEF SameStacks
    <3> QED BY <3>8, <3>9, <3>10, <3>11 DEF SameStacks
  <2> QED BY <2>4, <2>5
<1>6. n \in P
  <2> HIDE DEF P
  <2> QED BY <1>4, <1>5, NatSetInduction
<1> QED BY <1>1, <1>6
-----------------------------------------------------------------------------
(* A stack is covered by a column, and a column of which no stack covers   *)
(* another one.                                                            *)
Covers(column, frames) == \E i \in DOMAIN column : Reach(column[i].frames, frames)

ColumnShape(column) ==
  /\ TracesShape(column)
  /\ \A i, j \in DOMAIN column : i # j => ~Reach(column[i].frames, column[j].frames)

(* What an update makes of the stacks: it replaces one by the trace that   *)
(* extends it, appends the trace, or leaves them as they are.              *)
Replaced(new, column, f, frames) ==
  /\ TracesShape(new) /\ Len(new) = Len(column) /\ f \in 1 .. Len(column)
  /\ Reach(frames, column[f].frames)
  /\ \A i \in 1 .. Len(column) : new[i].frames = IF i = f THEN frames ELSE column[i].frames

Appended(new, column, frames) ==
  /\ TracesShape(new) /\ Len(new) = Len(column) + 1
  /\ \A i \in 1 .. Len(column) :
       /\ ~Reach(column[i].frames, frames) /\ ~Reach(frames, column[i].frames)
       /\ new[i].frames = column[i].frames
  /\ new[Len(column) + 1].frames = frames

LEMMA OnceOutgrown ==
  ASSUME NEW column, ColumnShape(column), NEW trace, TraceShape(trace),
         NEW f \in Outgrown(column, trace)
  PROVE  f = FirstOutgrown(column, trace)
<1>1. Listed(trace.frames) /\ DOMAIN column = 1 .. Len(column) /\ Len(column) \in Nat
      /\ \A i \in DOMAIN column : Listed(column[i].frames)
  BY ListedDomain DEF ColumnShape, TracesShape, TraceShape
<1>2. ASSUME NEW i \in Outgrown(column, trace), NEW j \in Outgrown(column, trace)
      PROVE  i = j
  <2>1. i \in DOMAIN column /\ j \in DOMAIN column
    BY <1>1 DEF Outgrown
  <2>2. PICK a : a = column[i].frames
    OBVIOUS
  <2>3. PICK b : b = column[j].frames
    OBVIOUS
  <2>4. Listed(a) /\ Listed(b)
    BY <1>1, <2>1, <2>2, <2>3
  <2>5. Extends(trace.frames, a) /\ Extends(trace.frames, b)
    BY <2>2, <2>3 DEF Outgrown
  <2>6. Reach(trace.frames, a) /\ Reach(trace.frames, b)
    BY <1>1, <2>4, <2>5, ReachIs
  <2>7. Reach(a, b) \/ Reach(b, a)
    BY <1>1, <2>4, <2>6, ReachChain
  <2> QED BY <2>1, <2>2, <2>3, <2>7 DEF ColumnShape
<1>3. Outgrown(column, trace) = {f}
  BY <1>2
<1>4. f \in 1 .. Len(column)
  BY DEF Outgrown
<1> QED BY <1>1, <1>3, <1>4 DEF FirstOutgrown

LEMMA UpdateCases ==
  ASSUME NEW column, ColumnShape(column), NEW trace, TraceShape(trace),
         NEW u, u = ColumnUpdate(column, trace)
  PROVE  \/ u.changed /\ \E f : Replaced(u.column, column, f, trace.frames)
         \/ u.changed /\ Appended(u.column, column, trace.frames)
         \/ SameStacks(u.column, column) /\ Covers(column, trace.frames)
<1>1. PICK n \in Nat : n = Len(column) /\ DOMAIN column = 1 .. n
  BY ListedDomain DEF ColumnShape, TracesShape
<1>2. PICK last : last = Passes(column, trace)[n]
  OBVIOUS
<1>3. PICK p : p = last.column
  OBVIOUS
<1>4. SameStacks(p, column) /\ TracesShape(p) /\ Len(p) = n /\ \A i \in 1 .. n : p[i].frames = column[i].frames
  BY <1>1, <1>2, <1>3, PassesKeep DEF ColumnShape, SameStacks
<1>5. Listed(p) /\ DOMAIN p = 1 .. n /\ \A i \in 1 .. n : TraceShape(p[i])
  BY <1>4, ListedDomain DEF TracesShape
<1>6. PICK m : m = [trace EXCEPT !.monitors = last.marks]
  OBVIOUS
<1>7. TraceShape(m) /\ m.frames = trace.frames
  BY <1>6 DEF TraceShape
<1>8. PICK f : f = FirstOutgrown(column, trace)
  OBVIOUS
<1>u. u = IF Outgrown(column, trace) # {} THEN [column |-> [p EXCEPT ![f] = m], changed |-> TRUE, trace |-> m]
          ELSE IF Covering(column, trace) = {} THEN [column |-> Append(p, m), changed |-> TRUE, trace |-> m]
          ELSE [column |-> p, changed |-> last.changed, trace |-> m]
  BY <1>1, <1>2, <1>3, <1>6, <1>8 DEF ColumnUpdate
<1>l. Listed(trace.frames) /\ \A i \in 1 .. n : Listed(column[i].frames)
  BY <1>1 DEF ColumnShape, TracesShape, TraceShape
<1>r. \A i \in 1 .. n :
         /\ Extends(trace.frames, column[i].frames) <=> Reach(trace.frames, column[i].frames) /\ trace.frames # column[i].frames
         /\ Reach(column[i].frames, trace.frames) <=> column[i].frames = trace.frames \/ Extends(column[i].frames, trace.frames)
         /\ Reach(trace.frames, column[i].frames) <=> trace.frames = column[i].frames \/ Extends(trace.frames, column[i].frames)
  BY <1>l, ReachIs
<1>9. CASE Outgrown(column, trace) # {}
  <2>1. f \in Outgrown(column, trace)
    BY <1>8, <1>9, OnceOutgrown
  <2>2. f \in 1 .. n /\ Reach(trace.frames, column[f].frames)
    BY <1>1, <1>r, <2>1 DEF Outgrown
  <2>3. PICK new : new = [p EXCEPT ![f] = m]
    OBVIOUS
  <2>4. Listed(new) /\ Len(new) = n /\ \A j \in 1 .. n : new[j] = IF j = f THEN m ELSE p[j]
    BY <1>4, <1>5, <2>3, ListedExcept
  <2>5. u.column = new /\ u.changed
    BY <1>9, <1>u, <2>3
  <2>6. TracesShape(new)
    BY <1>5, <1>7, <2>4, ListedDomain DEF TracesShape
  <2>7. Replaced(new, column, f, trace.frames)
    BY <1>1, <1>4, <1>7, <2>2, <2>4, <2>6 DEF Replaced
  <2> QED BY <2>5, <2>7
<1>10. CASE Outgrown(column, trace) = {} /\ Covering(column, trace) = {}
  <2>1. PICK new : new = Append(p, m)
    OBVIOUS
  <2>2. u.column = new /\ u.changed
    BY <1>10, <1>u, <2>1
  <2>3. Listed(new) /\ Len(new) = n + 1 /\ new[n + 1] = m /\ \A j \in 1 .. n : new[j] = p[j]
    BY <1>4, <1>5, <2>1, ListedAppend
  <2>4. \A j \in 1 .. n + 1 : j \in 1 .. n \/ j = n + 1
    OBVIOUS
  <2>5. TracesShape(new)
    BY <1>5, <1>7, <2>3, <2>4, ListedDomain DEF TracesShape
  <2>6. \A i \in 1 .. n : ~Reach(column[i].frames, trace.frames) /\ ~Reach(trace.frames, column[i].frames)
    BY <1>1, <1>10, <1>r DEF Outgrown, Covering
  <2>7. Appended(new, column, trace.frames)
    BY <1>1, <1>4, <1>7, <2>3, <2>5, <2>6 DEF Appended
  <2> QED BY <2>2, <2>7
<1>11. CASE Outgrown(column, trace) = {} /\ Covering(column, trace) # {}
  <2>1. u.column = p
    BY <1>11, <1>u
  <2>2. PICK i \in 1 .. n : Reach(column[i].frames, trace.frames)
    BY <1>1, <1>11, <1>r DEF Covering
  <2> QED BY <1>1, <1>4, <2>1, <2>2 DEF Covers
<1> QED BY <1>9, <1>10, <1>11

(* StackColumn::update keeps a column without a stack that another one     *)
(* covers, and what it covered and the trace are covered after it.         *)
LEMMA UpdateCovers ==
  ASSUME NEW column, ColumnShape(column), NEW trace, TraceShape(trace),
         NEW u, u = ColumnUpdate(column, trace)
  PROVE  /\ ColumnShape(u.column) /\ Covers(u.column, trace.frames)
         /\ \A frames : Listed(frames) /\ Covers(column, frames) => Covers(u.column, frames)
<1>1. PICK n \in Nat : n = Len(column) /\ DOMAIN column = 1 .. n
  BY ListedDomain DEF ColumnShape, TracesShape
<1>2. PICK fr : fr = trace.frames
  OBVIOUS
<1>3. Listed(fr) /\ \A i \in 1 .. n : Listed(column[i].frames)
  BY <1>1, <1>2 DEF ColumnShape, TracesShape, TraceShape
<1>4. \A i, j \in 1 .. n : i # j => ~Reach(column[i].frames, column[j].frames)
  BY <1>1 DEF ColumnShape
<1>5. PICK new : new = u.column
  OBVIOUS
<1>6. Reach(fr, fr)
  BY <1>3, ReachSame
<1>7. ASSUME NEW f, Replaced(new, column, f, fr) PROVE ColumnShape(new) /\ Covers(new, fr)
         /\ \A frames : Listed(frames) /\ Covers(column, frames) => Covers(new, frames)
  <2>1. TracesShape(new) /\ Len(new) = n /\ DOMAIN new = 1 .. n /\ f \in 1 .. n /\ Reach(fr, column[f].frames)
    BY <1>1, <1>7, ListedDomain DEF Replaced, TracesShape
  <2>2. \A i \in 1 .. n : new[i].frames = IF i = f THEN fr ELSE column[i].frames
    BY <1>1, <1>7 DEF Replaced
  <2>3. ASSUME NEW i \in 1 .. n, i # f PROVE ~Reach(column[i].frames, fr) /\ ~Reach(fr, column[i].frames)
    <3>1. PICK a : a = column[i].frames
      OBVIOUS
    <3>2. PICK b : b = column[f].frames
      OBVIOUS
    <3>3. ~Reach(a, b) /\ ~Reach(b, a)
      BY <1>4, <2>1, <2>3, <3>1, <3>2
    <3>4. Listed(a) /\ Listed(b) /\ Reach(fr, b)
      BY <1>3, <2>1, <3>1, <3>2
    <3>5. ~Reach(a, fr)
      BY <1>3, <3>3, <3>4, ReachTransitive
    <3>6. ~Reach(fr, a)
      BY <1>3, <3>3, <3>4, ReachChain
    <3> QED BY <3>1, <3>5, <3>6
  <2>4. \A i, j \in 1 .. n : i # j => ~Reach(new[i].frames, new[j].frames)
    BY <1>4, <2>2, <2>3
  <2>5. Covers(new, fr)
    BY <1>6, <2>1, <2>2 DEF Covers
  <2>6. ASSUME NEW frames, Listed(frames), Covers(column, frames) PROVE Covers(new, frames)
    <3>1. PICK i \in 1 .. n : Reach(column[i].frames, frames)
      BY <1>1, <2>6 DEF Covers
    <3>2. CASE i # f
      BY <2>1, <2>2, <3>1, <3>2 DEF Covers
    <3>3. CASE i = f
      <4>1. Reach(fr, frames)
        BY <1>3, <2>1, <2>6, <3>1, <3>3, ReachTransitive
      <4> QED BY <2>1, <2>2, <4>1 DEF Covers
    <3> QED BY <3>2, <3>3
  <2> QED BY <2>1, <2>4, <2>5, <2>6 DEF ColumnShape
<1>8. ASSUME Appended(new, column, fr) PROVE ColumnShape(new) /\ Covers(new, fr)
         /\ \A frames : Listed(frames) /\ Covers(column, frames) => Covers(new, frames)
  <2>1. TracesShape(new) /\ Len(new) = n + 1 /\ DOMAIN new = 1 .. n + 1 /\ new[n + 1].frames = fr
    BY <1>1, <1>8, ListedDomain DEF Appended, TracesShape
  <2>2. \A i \in 1 .. n : new[i].frames = column[i].frames /\ ~Reach(column[i].frames, fr) /\ ~Reach(fr, column[i].frames)
    BY <1>1, <1>8 DEF Appended
  <2>3. \A i \in 1 .. n + 1 : i \in 1 .. n \/ i = n + 1
    OBVIOUS
  <2>4. \A i \in 1 .. n : i \in 1 .. n + 1 /\ i # n + 1
    OBVIOUS
  <2>5. n + 1 \in 1 .. n + 1
    OBVIOUS
  <2>6. ASSUME NEW i \in 1 .. n + 1, NEW j \in 1 .. n + 1, i # j PROVE ~Reach(new[i].frames, new[j].frames)
    <3>1. CASE i \in 1 .. n /\ j \in 1 .. n
      BY <1>4, <2>2, <2>6, <3>1
    <3>2. CASE i \in 1 .. n /\ j = n + 1
      BY <2>1, <2>2, <3>2
    <3>3. CASE i = n + 1 /\ j \in 1 .. n
      BY <2>1, <2>2, <3>3
    <3> QED BY <2>3, <2>6, <3>1, <3>2, <3>3
  <2>7. Covers(new, fr)
    BY <1>6, <2>1, <2>5 DEF Covers
  <2>8. ASSUME NEW frames, Listed(frames), Covers(column, frames) PROVE Covers(new, frames)
    BY <1>1, <2>1, <2>2, <2>4, <2>8 DEF Covers
  <2> QED BY <2>1, <2>6, <2>7, <2>8 DEF ColumnShape
<1>9. ASSUME SameStacks(new, column), Covers(column, fr) PROVE ColumnShape(new) /\ Covers(new, fr)
         /\ \A frames : Listed(frames) /\ Covers(column, frames) => Covers(new, frames)
  <2>1. TracesShape(new) /\ Len(new) = n /\ DOMAIN new = 1 .. n /\ \A i \in 1 .. n : new[i].frames = column[i].frames
    BY <1>1, <1>9, ListedDomain DEF SameStacks, TracesShape
  <2>2. \A frames : Covers(column, frames) => Covers(new, frames)
    BY <1>1, <2>1 DEF Covers
  <2> QED BY <1>4, <1>9, <2>1, <2>2 DEF ColumnShape
<1> QED BY <1>2, <1>5, <1>7, <1>8, <1>9, UpdateCases
-----------------------------------------------------------------------------
(* The cells of a column, and how they grow with its stacks.               *)
Blocks(q) == Listed(q) /\ \A i \in DOMAIN q : Listed(q[i])

Grows(b, c) ==
  /\ Blocks(b) /\ Blocks(c)
  /\ Len(c) = Len(b) \/ Len(c) = Len(b) + 1
  /\ \A i \in 1 .. Len(b) : Len(b[i]) <= Len(c[i])

LaidOut(blocks, lay, i) ==
  IF i = 0 THEN <<>> ELSE IF i = 1 THEN blocks[1] ELSE lay[i - 1] \o <<Blank>> \o blocks[i]

LEMMA LayoutRuns ==
  ASSUME NEW blocks, NEW n \in Nat, Len(blocks) = n
  PROVE  \E lay : Layout(blocks) = lay[n] /\ \A i \in 0 .. n : lay[i] = LaidOut(blocks, lay, i)
<1> DEFINE Body(p, i) == LaidOut(blocks, p, i)
           P == {m \in Nat : \E p : p = [i \in 0 .. m |-> Body(p, i)]}
<1>1. 0 \in P
  <2>1. PICK p : p = [i \in 0 .. 0 |-> <<>>]
    OBVIOUS
  <2>2. \A i \in 0 .. 0 : Body(p, i) = <<>>
    BY DEF LaidOut
  <2>3. p = [i \in 0 .. 0 |-> Body(p, i)]
    BY <2>1, <2>2
  <2> QED BY <2>3
<1>2. ASSUME NEW m \in Nat, m \in P PROVE m + 1 \in P
  <2>1. PICK p : p = [i \in 0 .. m |-> Body(p, i)]
    BY <1>2
  <2>2. PICK q : q = [i \in 0 .. m + 1 |-> Body(p, i)]
    OBVIOUS
  <2>3. \A i \in 0 .. m : q[i] = p[i]
    <3> HIDE DEF Body
    <3> QED BY <2>1, <2>2
  <2>4. \A i \in 0 .. m + 1 : i = 0 \/ i - 1 \in 0 .. m
    OBVIOUS
  <2>5. \A i \in 0 .. m + 1 : Body(p, i) = Body(q, i)
    BY <2>3, <2>4 DEF LaidOut
  <2>6. q = [i \in 0 .. m + 1 |-> Body(q, i)]
    <3> HIDE DEF Body
    <3> QED BY <2>2, <2>5
  <2> QED BY <2>6
<1>3. n \in P
  <2> HIDE DEF P
  <2> QED BY <1>1, <1>2, NatSetInduction
<1>4. PICK p : p = CHOOSE lay : lay = [i \in 0 .. n |-> Body(lay, i)]
  OBVIOUS
<1>5. p = [i \in 0 .. n |-> Body(p, i)]
  <2> HIDE DEF Body
  <2> QED BY <1>3, <1>4
<1>6. Layout(blocks) = p[n]
  BY <1>4 DEF Layout, LaidOut
<1>7. \A i \in 0 .. n : p[i] = LaidOut(blocks, p, i)
  <2> TAKE i \in 0 .. n
  <2>1. p[i] = Body(p, i)
    <3> HIDE DEF Body
    <3> QED BY <1>5
  <2> QED BY <2>1
<1> QED BY <1>6, <1>7

LEMMA LaidNext ==
  ASSUME NEW blocks, NEW lay, NEW i \in Nat, i # 0
  PROVE  LaidOut(blocks, lay, i + 1) = lay[i] \o <<Blank>> \o blocks[i + 1]
<1>1. PICK k : k = i + 1
  OBVIOUS
<1>2. k # 0 /\ k # 1 /\ k - 1 = i
  BY <1>1
<1>3. LaidOut(blocks, lay, k) = lay[k - 1] \o <<Blank>> \o blocks[k]
  BY <1>2 DEF LaidOut
<1>4. LaidOut(blocks, lay, k) = lay[i] \o <<Blank>> \o blocks[k]
  BY <1>2, <1>3
<1> QED BY <1>1, <1>4

(* The cells below the ones laid out so far.                               *)
LEMMA LaidBelow ==
  ASSUME NEW q, Listed(q), NEW block, Listed(block), NEW r, r = q \o <<Blank>> \o block
  PROVE  Listed(r) /\ Len(r) = Len(q) + 1 + Len(block)
<1>1. Listed(<<Blank>>) /\ Len(<<Blank>>) = 1
  BY ListedOne
<1>2. PICK s : s = q \o <<Blank>>
  OBVIOUS
<1>3. Listed(s) /\ Len(s) = Len(q) + 1
  BY <1>1, <1>2, ListedConcat
<1>4. r = s \o block
  BY <1>2
<1>5. Listed(r) /\ Len(r) = Len(s) + Len(block)
  BY <1>3, <1>4, ListedConcat
<1> QED BY <1>3, <1>5

LEMMA LayoutGrows ==
  ASSUME NEW b, NEW c, Grows(b, c)
  PROVE  Listed(Layout(b)) /\ Listed(Layout(c)) /\ Len(Layout(b)) <= Len(Layout(c))
<1>1. PICK n \in Nat : n = Len(b) /\ DOMAIN b = 1 .. n
  BY ListedDomain DEF Grows, Blocks
<1>2. PICK m \in Nat : m = Len(c) /\ DOMAIN c = 1 .. m
  BY ListedDomain DEF Grows, Blocks
<1>3. (m = n \/ m = n + 1) /\ (\A i \in 1 .. n : Listed(b[i]) /\ Len(b[i]) <= Len(c[i]))
      /\ \A i \in 1 .. m : Listed(c[i])
  BY <1>1, <1>2 DEF Grows, Blocks
<1>4. PICK p : Layout(b) = p[n] /\ \A i \in 0 .. n : p[i] = LaidOut(b, p, i)
  BY <1>1, LayoutRuns
<1>5. PICK q : Layout(c) = q[m] /\ \A i \in 0 .. m : q[i] = LaidOut(c, q, i)
  BY <1>2, LayoutRuns
<1>6. Listed(<<>>) /\ Len(<<>>) = 0
  BY ListedEmpty
<1> DEFINE P == {i \in Nat : i <= n => Listed(p[i]) /\ Listed(q[i]) /\ Len(p[i]) <= Len(q[i])}
<1>7. 0 \in P
  <2>1. 0 \in 0 .. n /\ 0 \in 0 .. m
    OBVIOUS
  <2>2. p[0] = <<>> /\ q[0] = <<>>
    BY <1>4, <1>5, <2>1 DEF LaidOut
  <2> QED BY <1>6, <2>2
<1>8. ASSUME NEW i \in Nat, i \in P PROVE i + 1 \in P
  <2> SUFFICES ASSUME i + 1 <= n
               PROVE  Listed(p[i + 1]) /\ Listed(q[i + 1]) /\ Len(p[i + 1]) <= Len(q[i + 1])
    OBVIOUS
  <2>1. i + 1 \in 0 .. n /\ i + 1 \in 0 .. m /\ i + 1 \in 1 .. n /\ i + 1 \in 1 .. m
    BY <1>3
  <2>2. PICK x : x = b[i + 1]
    OBVIOUS
  <2>3. PICK y : y = c[i + 1]
    OBVIOUS
  <2>4. Listed(x) /\ Listed(y) /\ Len(x) <= Len(y)
    BY <1>3, <2>1, <2>2, <2>3
  <2>5. p[i + 1] = LaidOut(b, p, i + 1) /\ q[i + 1] = LaidOut(c, q, i + 1)
    BY <1>4, <1>5, <2>1
  <2>6. CASE i = 0
    <3>1. p[i + 1] = x /\ q[i + 1] = y
      BY <2>2, <2>3, <2>5, <2>6 DEF LaidOut
    <3> QED BY <2>4, <3>1
  <2>7. CASE i # 0
    <3>2. PICK s : s = p[i]
      OBVIOUS
    <3>3. PICK t : t = q[i]
      OBVIOUS
    <3>4. p[i + 1] = s \o <<Blank>> \o x /\ q[i + 1] = t \o <<Blank>> \o y
      BY <2>2, <2>3, <2>5, <2>7, <3>2, <3>3, LaidNext
    <3>5. Listed(s) /\ Listed(t) /\ Len(s) <= Len(t)
      BY <1>8, <3>2, <3>3
    <3>6. Listed(p[i + 1]) /\ Len(p[i + 1]) = Len(s) + 1 + Len(x)
      BY <2>4, <3>4, <3>5, LaidBelow
    <3>7. Listed(q[i + 1]) /\ Len(q[i + 1]) = Len(t) + 1 + Len(y)
      BY <2>4, <3>4, <3>5, LaidBelow
    <3>8. Len(s) \in Nat /\ Len(t) \in Nat /\ Len(x) \in Nat /\ Len(y) \in Nat
      BY <2>4, <3>5, ListedDomain
    <3> QED BY <2>4, <3>5, <3>6, <3>7, <3>8
  <2> QED BY <2>6, <2>7
<1>9. Listed(p[n]) /\ Listed(q[n]) /\ Len(p[n]) <= Len(q[n])
  <2>1. n \in P
    <3> HIDE DEF P
    <3> QED BY <1>7, <1>8, NatSetInduction
  <2> QED BY <2>1
<1>10. CASE m = n
  BY <1>4, <1>5, <1>9, <1>10
<1>11. CASE m = n + 1
  <2>1. n + 1 \in 0 .. m /\ n + 1 \in 1 .. m
    BY <1>11
  <2>2. q[n + 1] = LaidOut(c, q, n + 1)
    BY <1>5, <2>1
  <2>3. PICK y : y = c[n + 1]
    OBVIOUS
  <2>4. PICK t : t = q[n]
    OBVIOUS
  <2>5. Listed(y) /\ Listed(t) /\ Len(y) \in Nat /\ Len(t) \in Nat /\ Len(p[n]) \in Nat /\ Len(p[n]) <= Len(t)
    BY <1>3, <1>9, <2>1, <2>3, <2>4, ListedDomain
  <2>6. CASE n = 0
    <3>1. q[n + 1] = y
      BY <2>2, <2>3, <2>6 DEF LaidOut
    <3>2. p[n] = <<>>
      BY <1>4, <2>6 DEF LaidOut
    <3> QED BY <1>4, <1>5, <1>6, <1>9, <1>11, <2>5, <3>1, <3>2
  <2>7. CASE n # 0
    <3>2. q[n + 1] = t \o <<Blank>> \o y
      BY <2>2, <2>3, <2>4, <2>7, LaidNext
    <3>3. Listed(q[n + 1]) /\ Len(q[n + 1]) = Len(t) + 1 + Len(y)
      BY <2>5, <3>2, LaidBelow
    <3> QED BY <1>4, <1>5, <1>9, <1>11, <2>5, <3>3
  <2> QED BY <2>6, <2>7
<1> QED BY <1>3, <1>10, <1>11

(* What has grown is painted over what was shown before.                   *)
LEMMA PaintedOver ==
  ASSUME NEW b, NEW c, Grows(b, c)
  PROVE  Painted(Layout(b), c) = Layout(c)
<1>1. PICK cells : cells = Layout(b)
  OBVIOUS
<1>2. PICK text : text = Layout(c)
  OBVIOUS
<1>3. Listed(cells) /\ Listed(text) /\ Len(cells) <= Len(text)
  BY <1>1, <1>2, LayoutGrows
<1>4. PICK n \in Nat, m \in Nat : n = Len(cells) /\ m = Len(text) /\ DOMAIN text = 1 .. m
  BY <1>3, ListedDomain
<1>5. PICK painted : painted = Painted(cells, c)
  OBVIOUS
<1>6. painted = [r \in 1 .. (IF n > m THEN n ELSE m) |-> IF r <= m THEN text[r] ELSE cells[r]]
  BY <1>2, <1>4, <1>5 DEF Painted
<1>7. (IF n > m THEN n ELSE m) = m
  BY <1>3, <1>4
<1>8. painted = [r \in 1 .. m |-> text[r]]
  BY <1>6, <1>7
<1>9. Listed(painted) /\ Len(painted) = m /\ \A r \in 1 .. m : painted[r] = text[r]
  BY <1>8, ListedFunction
<1> QED BY <1>1, <1>2, <1>3, <1>4, <1>5, <1>9, ListedSame
-----------------------------------------------------------------------------
FramesOf(column) == [i \in DOMAIN column |-> column[i].frames]

LEMMA FramesListed ==
  ASSUME NEW column, TracesShape(column)
  PROVE  /\ Blocks(FramesOf(column)) /\ Len(FramesOf(column)) = Len(column)
         /\ \A i \in 1 .. Len(column) : FramesOf(column)[i] = column[i].frames
<1>1. PICK n \in Nat : n = Len(column) /\ DOMAIN column = 1 .. n
  BY ListedDomain DEF TracesShape
<1>2. PICK f : f = FramesOf(column)
  OBVIOUS
<1>3. f = [i \in 1 .. n |-> column[i].frames]
  BY <1>1, <1>2 DEF FramesOf
<1>4. f = [i \in 1 .. n |-> f[i]] /\ \A i \in 1 .. n : f[i] = column[i].frames
  BY <1>3
<1>5. Listed(f) /\ Len(f) = n
  BY <1>4, ListedFunction
<1>6. \A i \in 1 .. n : Listed(column[i].frames)
  BY <1>1 DEF TracesShape, TraceShape
<1> QED BY <1>1, <1>2, <1>4, <1>5, <1>6, ListedDomain DEF Blocks

(* A column's cells grow with an update, or its stacks stay as they are.   *)
LEMMA UpdateGrows ==
  ASSUME NEW column, ColumnShape(column), NEW trace, TraceShape(trace),
         NEW u, u = ColumnUpdate(column, trace)
  PROVE  /\ Grows(FramesOf(column), FramesOf(u.column))
         /\ u.changed \/ FramesOf(u.column) = FramesOf(column)
<1>1. PICK n \in Nat : n = Len(column)
  BY ListedDomain DEF ColumnShape, TracesShape
<1>2. PICK new : new = u.column
  OBVIOUS
<1>3. TracesShape(column) /\ TracesShape(new)
  BY <1>2, UpdateCovers DEF ColumnShape
<1>4. PICK b : b = FramesOf(column)
  OBVIOUS
<1>5. PICK c : c = FramesOf(new)
  OBVIOUS
<1>6. Blocks(b) /\ Len(b) = n /\ \A i \in 1 .. n : b[i] = column[i].frames
  BY <1>1, <1>3, <1>4, FramesListed
<1>7. Blocks(c) /\ Len(c) = Len(new) /\ \A i \in 1 .. Len(new) : c[i] = new[i].frames
  BY <1>3, <1>5, FramesListed
<1>8. \A i \in 1 .. n : Listed(b[i]) /\ Len(b[i]) \in Nat
  BY <1>6, ListedDomain DEF Blocks
<1>9. ASSUME NEW f, Replaced(new, column, f, trace.frames) PROVE Grows(b, c)
  <2>1. Len(new) = n /\ Reach(trace.frames, column[f].frames)
        /\ \A i \in 1 .. n : new[i].frames = IF i = f THEN trace.frames ELSE column[i].frames
    BY <1>1, <1>9 DEF Replaced
  <2>2. f \in 1 .. n
    BY <1>1, <1>9 DEF Replaced
  <2>3. ASSUME NEW i \in 1 .. n PROVE Len(b[i]) <= Len(c[i])
    <3>1. CASE i # f
      <4>1. c[i] = b[i]
        BY <1>6, <1>7, <2>1, <3>1
      <4> QED BY <1>8, <4>1
    <3>2. CASE i = f
      <4>1. Reach(c[i], b[i])
        BY <1>6, <1>7, <2>1, <2>2, <3>2
      <4>2. Len(b[i]) \in Nat /\ Len(c[i]) \in Nat
        BY <1>7, <1>8, <2>1, ListedDomain DEF Blocks
      <4> QED BY <4>1, <4>2 DEF Reach
    <3> QED BY <3>1, <3>2
  <2> QED BY <1>6, <1>7, <2>1, <2>3 DEF Grows
<1>10. ASSUME Appended(new, column, trace.frames) PROVE Grows(b, c)
  <2>1. Len(new) = n + 1 /\ \A i \in 1 .. n : new[i].frames = column[i].frames
    BY <1>1, <1>10 DEF Appended
  <2>2. \A i \in 1 .. n : i \in 1 .. n + 1
    OBVIOUS
  <2>3. \A i \in 1 .. n : c[i] = b[i]
    BY <1>6, <1>7, <2>1, <2>2
  <2>4. \A i \in 1 .. n : Len(b[i]) <= Len(c[i])
    BY <1>8, <2>3
  <2> QED BY <1>6, <1>7, <2>1, <2>4 DEF Grows
<1>11. ASSUME SameStacks(new, column) PROVE Grows(b, c) /\ b = c
  <2>1. Len(new) = n /\ \A i \in 1 .. n : new[i].frames = column[i].frames
    BY <1>1, <1>11 DEF SameStacks
  <2>2. \A i \in 1 .. n : c[i] = b[i]
    BY <1>6, <1>7, <2>1
  <2>3. \A i \in 1 .. n : Len(b[i]) <= Len(c[i])
    BY <1>8, <2>2
  <2>4. b = c
    BY <1>6, <1>7, <2>1, <2>2, ListedSame DEF Blocks
  <2> QED BY <1>6, <1>7, <2>1, <2>3, <2>4 DEF Grows
<1> QED BY <1>2, <1>4, <1>5, <1>9, <1>10, <1>11, UpdateCases
-----------------------------------------------------------------------------
(* The inductive invariant of the traffic window.                          *)
TablesCover(tables) ==
  /\ DOMAIN tables.cells = DOMAIN tables.columns
  /\ \A t \in DOMAIN tables.columns :
       /\ ColumnShape(tables.columns[t])
       /\ tables.cells[t] = Layout(FramesOf(tables.columns[t]))

Sampled(tables, trace) ==
  /\ TraceShape(trace)
  /\ trace.thread \in DOMAIN tables.columns /\ Covers(tables.columns[trace.thread], trace.frames)

ColumnsKept == TablesCover(shown) /\ \A sample \in past.sampled : Sampled(shown, sample)

LEMMA EmptyColumn == ColumnShape(<<>>) /\ Layout(FramesOf(<<>>)) = <<>>
<1>1. Listed(<<>>) /\ Len(<<>>) = 0 /\ DOMAIN <<>> = {}
  BY ListedEmpty
<1>2. ColumnShape(<<>>)
  BY <1>1 DEF ColumnShape, TracesShape
<1>3. PICK f : f = FramesOf(<<>>)
  OBVIOUS
<1>4. Len(f) = 0
  BY <1>1, <1>2, <1>3, FramesListed DEF ColumnShape
<1>5. PICK lay : Layout(f) = lay[0] /\ \A i \in 0 .. 0 : lay[i] = LaidOut(f, lay, i)
  BY <1>4, LayoutRuns
<1>6. 0 \in 0 .. 0
  OBVIOUS
<1>7. lay[0] = <<>>
  BY <1>5, <1>6 DEF LaidOut
<1> QED BY <1>2, <1>3, <1>5, <1>7

LEMMA TraceShownCovers ==
  ASSUME NEW tables, TablesShape(tables), TablesCover(tables), NEW trace, TraceShape(trace),
         NEW new, new = TraceShown(tables, trace)
  PROVE  /\ TablesShape(new) /\ TablesCover(new) /\ Sampled(new, trace)
         /\ \A sample : Sampled(tables, sample) => Sampled(new, sample)
<1>1. PICK t : t = trace.thread
  OBVIOUS
<1>2. PICK column : column = At(tables.columns, t, <<>>)
  OBVIOUS
<1>3. PICK before : before = At(tables.cells, t, <<>>)
  OBVIOUS
<1>4. ColumnShape(column) /\ before = Layout(FramesOf(column))
  BY <1>2, <1>3, EmptyColumn DEF At, TablesCover
<1>5. PICK u : u = ColumnUpdate(column, trace)
  OBVIOUS
<1>6. PICK stacks : stacks = FramesOf(u.column)
  OBVIOUS
<1>7. PICK after : after = IF u.changed THEN Painted(before, stacks) ELSE before
  OBVIOUS
<1>8. \E marks : new = [tables EXCEPT !.columns = Put(tables.columns, t, u.column),
                                      !.cells   = Put(tables.cells, t, after),
                                      !.marks   = marks]
  BY <1>1, <1>2, <1>3, <1>5, <1>6, <1>7 DEF TraceShown, FramesOf
<1>9. TablesShape(new) /\ new.columns = Put(tables.columns, t, u.column) /\ new.cells = Put(tables.cells, t, after)
  BY <1>8 DEF TablesShape
<1>10. /\ DOMAIN new.columns = DOMAIN tables.columns \cup {t} /\ DOMAIN new.cells = DOMAIN tables.cells \cup {t}
       /\ new.columns[t] = u.column /\ new.cells[t] = after
       /\ \A x \in DOMAIN tables.columns \ {t} : new.columns[x] = tables.columns[x]
       /\ \A x \in DOMAIN tables.cells \ {t} : new.cells[x] = tables.cells[x]
  BY <1>9 DEF Put
<1>11. ColumnShape(u.column) /\ Covers(u.column, trace.frames)
       /\ \A frames : Listed(frames) /\ Covers(column, frames) => Covers(u.column, frames)
  BY <1>4, <1>5, UpdateCovers
<1>12. after = Layout(stacks)
  <2>1. Grows(FramesOf(column), stacks) /\ (u.changed \/ stacks = FramesOf(column))
    BY <1>4, <1>5, <1>6, UpdateGrows
  <2>2. Painted(before, stacks) = Layout(stacks)
    BY <1>4, <2>1, PaintedOver
  <2> QED BY <1>4, <1>7, <2>1, <2>2
<1>13. TablesCover(new)
  <2>1. DOMAIN new.cells = DOMAIN new.columns
    BY <1>10 DEF TablesCover
  <2>2. ASSUME NEW x \in DOMAIN new.columns
        PROVE  ColumnShape(new.columns[x]) /\ new.cells[x] = Layout(FramesOf(new.columns[x]))
    <3>1. CASE x = t
      BY <1>6, <1>10, <1>11, <1>12, <3>1
    <3>2. CASE x # t
      BY <1>10, <2>2, <3>2 DEF TablesCover
    <3> QED BY <3>1, <3>2
  <2> QED BY <2>1, <2>2 DEF TablesCover
<1>14. Sampled(new, trace)
  BY <1>1, <1>10, <1>11 DEF Sampled
<1>15. ASSUME NEW sample, Sampled(tables, sample) PROVE Sampled(new, sample)
  <2>1. CASE sample.thread = t
    <3>1. Listed(sample.frames) /\ Covers(column, sample.frames)
      BY <1>2, <1>15, <2>1 DEF Sampled, TraceShape, At
    <3> QED BY <1>10, <1>11, <1>15, <2>1, <3>1 DEF Sampled
  <2>2. CASE sample.thread # t
    BY <1>10, <1>15, <2>2 DEF Sampled
  <2> QED BY <2>1, <2>2
<1> QED BY <1>9, <1>13, <1>14, <1>15

LEMMA TrafficShownCovers ==
  ASSUME NEW tables, TablesShape(tables), TablesCover(tables), NEW traces, TracesShape(traces),
         NEW new, new = TrafficShown(tables, traces)
  PROVE  /\ TablesCover(new)
         /\ \A i \in DOMAIN traces : Sampled(new, traces[i])
         /\ \A sample : Sampled(tables, sample) => Sampled(new, sample)
<1>1. PICK n \in Nat : DOMAIN traces = 1 .. n /\ Listed(traces) /\ \A i \in 1 .. n : TraceShape(traces[i])
  BY ListedDomain DEF TracesShape
<1>2. PICK k : RunOf("trace", tables, traces, n, k) /\ TrafficShown(tables, traces) = k[n]
  BY <1>1, TraceFold DEF TrafficShown
<1> DEFINE Done(i) == /\ TablesShape(k[i]) /\ TablesCover(k[i])
                      /\ \A j \in 1 .. i : Sampled(k[i], traces[j])
                      /\ \A sample : Sampled(tables, sample) => Sampled(k[i], sample)
           P == {i \in Nat : i <= n => Done(i)}
<1>3. 0 \in P
  <2>1. k[0] = tables
    BY <1>2 DEF RunOf
  <2>2. 1 .. 0 = {}
    OBVIOUS
  <2> QED BY <2>1, <2>2
<1>4. ASSUME NEW i \in Nat, i \in P PROVE i + 1 \in P
  <2> SUFFICES ASSUME i + 1 <= n PROVE Done(i + 1)
    OBVIOUS
  <2>1. Done(i)
    BY <1>4
  <2>2. i + 1 \in 1 .. n /\ i + 1 - 1 = i
    OBVIOUS
  <2>3. k[i + 1] = TraceShown(k[i], traces[i + 1])
    BY <1>2, <2>2 DEF RunOf, Applied
  <2>4. PICK next : next = k[i + 1]
    OBVIOUS
  <2>5. /\ TablesShape(next) /\ TablesCover(next) /\ Sampled(next, traces[i + 1])
        /\ \A sample : Sampled(k[i], sample) => Sampled(next, sample)
    BY <1>1, <2>1, <2>2, <2>3, <2>4, TraceShownCovers
  <2>6. \A j \in 1 .. i + 1 : j \in 1 .. i \/ j = i + 1
    OBVIOUS
  <2>7. \A j \in 1 .. i + 1 : Sampled(next, traces[j])
    BY <2>1, <2>5, <2>6
  <2>8. \A sample : Sampled(tables, sample) => Sampled(next, sample)
    BY <2>1, <2>5
  <2> QED BY <2>4, <2>5, <2>7, <2>8
<1>5. Done(n)
  <2>1. n \in P
    <3> HIDE DEF P
    <3> QED BY <1>3, <1>4, NatSetInduction
  <2> QED BY <2>1
<1> QED BY <1>1, <1>2, <1>5
-----------------------------------------------------------------------------
LEMMA TablesSame ==
  ASSUME NEW a, NEW b, a.columns = b.columns, a.cells = b.cells
  PROVE  /\ TablesCover(a) <=> TablesCover(b)
         /\ \A sample : Sampled(a, sample) <=> Sampled(b, sample)
BY DEF TablesCover, Sampled

LEMMA ColumnsSame ==
  ASSUME ColumnsKept, SameColumns(Gui', Gui), past'.sampled = past.sampled
  PROVE  ColumnsKept'
<1>1. shown'.columns = shown.columns /\ shown'.cells = shown.cells
  BY DEF SameColumns, Gui
<1>2. TablesCover(shown') /\ \A sample : Sampled(shown, sample) => Sampled(shown', sample)
  BY <1>1, TablesSame DEF ColumnsKept
<1> QED BY <1>2 DEF ColumnsKept

LEMMA ColumnsEmpty ==
  ASSUME shown'.columns = Nothing, shown'.cells = Nothing, past'.sampled = {}
  PROVE  ColumnsKept'
<1>1. DOMAIN shown'.columns = {} /\ DOMAIN shown'.cells = {}
  BY DEF Nothing
<1> QED BY <1>1 DEF ColumnsKept, TablesCover

LEMMA ColumnsInit == Init => ColumnsKept
<1> SUFFICES ASSUME Init PROVE ColumnsKept
  OBVIOUS
<1>1. DOMAIN shown.columns = {} /\ DOMAIN shown.cells = {} /\ past.sampled = {}
  BY DEF Init, NewTables, NewPast, Nothing
<1> QED BY <1>1 DEF ColumnsKept, TablesCover

LEMMA SampledKept ==
  ASSUME Shapes, Heap \/ Timers \/ Others \/ Listener
  PROVE  past'.sampled = past.sampled /\ past'.loads = past.loads
<1>1. CASE Heap
  BY <1>1 DEF Shapes, Heap, HeapCreate, HeapFree
<1>2. CASE Timers
  BY <1>2 DEF Shapes, Timers, Tick, TimerEnter, TimerExit, TimerThrow
<1>3. CASE Others
  BY <1>3 DEF Shapes, Others, SignalReported, JammedReported, ClassReported, TrafficReported
<1>4. CASE Listener
  BY <1>4 DEF Shapes, Listener, StartReset, ClearNext, RankMethods
<1> QED BY <1>1, <1>2, <1>3, <1>4

(* A report of another kind leaves the columns alone.                      *)
LEMMA HandledColumns ==
  ASSUME GuiShape(Gui), NEW post, PostShape(post), post.kind # "traffic"
  PROVE  SameColumns(Handled(post), Gui)
<1>1. CASE post.kind = "signal"
  <2>1. Handled(post) = ListUpdated(Gui, post.report)
    BY <1>1 DEF Handled
  <2>2. SameColumns(ListUpdated(Gui, post.report), Gui)
    BY ListUpdatedShape
  <2> QED BY <2>1, <2>2
<1>2. CASE post.kind = "timer"
  <2>1. Handled(post) = TimedListUpdated(Gui, post.report)
    BY <1>2 DEF Handled
  <2>2. SameColumns(TimedListUpdated(Gui, post.report), Gui)
    BY TimedShape
  <2> QED BY <2>1, <2>2
<1>3. CASE post.kind = "heap"
  <2>1. Handled(post) = HeapUpdated(Gui, post.report.class, post.report.report)
    BY <1>3 DEF Handled
  <2>2. SameColumns(HeapUpdated(Gui, post.report.class, post.report.report), Gui)
    BY HeapUpdatedShape
  <2> QED BY <2>1, <2>2
<1>4. CASE post.kind \in {"ranks", "classes", "jam"}
  <2>1. \/ Handled(post) = RankingUpdated(Gui, post.report)
        \/ Handled(post) = ClassesUpdated(Gui, post.report)
        \/ Handled(post) = JammedUpdated(Gui, post.report)
    BY <1>4 DEF Handled
  <2> QED BY <2>1, OtherUpdatesShape
<1> QED BY <1>1, <1>2, <1>3, <1>4 DEF PostShape

(* The one trace of a report of the traffic.                               *)
LEMMA TrafficHandled ==
  ASSUME GuiShape(Gui), NEW post, PostShape(post), post.kind = "traffic"
  PROVE  /\ Handled(post).shown = TrafficShown(shown, post.report)
         /\ TracesShape(post.report) /\ DOMAIN post.report = {1}
         /\ Listed(post.report[1].monitors) /\ Len(post.report[1].monitors) = Len(post.report[1].frames)
<1>1. Handled(post) = TrafficUpdated(Gui, post.report)
  BY DEF Handled
<1>2. /\ TracesShape(post.report) /\ Len(post.report) = 1
      /\ Listed(post.report[1].monitors) /\ Len(post.report[1].monitors) = Len(post.report[1].frames)
  BY DEF PostShape
<1>3. TrafficUpdated(Gui, post.report).shown = TrafficShown(Gui.shown, post.report)
  BY <1>2, TrafficUpdatedShape
<1>4. DOMAIN post.report = 1 .. 1 /\ 1 .. 1 = {1}
  BY <1>2, ListedDomain DEF TracesShape
<1> QED BY <1>1, <1>2, <1>3, <1>4 DEF Gui

LEMMA ColumnsDelivered ==
  ASSUME Shapes, WindowShapes, ColumnsKept, Deliver
  PROVE  ColumnsKept'
<1>1. PICK post : post = Head(queue)
  OBVIOUS
<1>2. PostShape(post)
  BY <1>1, HeadPosted DEF Deliver
<1>3. PICK g : g = Handled(post)
  OBVIOUS
<1>4. GuiShape(Gui) /\ GuiShape(g) /\ GuiBecomes(g)
  BY <1>1, <1>2, <1>3, HandledShape DEF Deliver, WindowShapes
<1>5. CASE post.kind # "traffic"
  <2>1. SameColumns(g, Gui)
    BY <1>2, <1>3, <1>4, <1>5, HandledColumns
  <2>2. SameColumns(Gui', Gui)
    BY <1>4, <2>1, GuiIs DEF SameColumns
  <2>3. past'.sampled = past.sampled
    BY <1>1, <1>5 DEF Deliver, Shapes
  <2> QED BY <2>2, <2>3, ColumnsSame
<1>6. CASE post.kind = "traffic"
  <2>1. PICK traces : traces = post.report
    OBVIOUS
  <2>2. shown' = TrafficShown(shown, traces) /\ TracesShape(traces) /\ DOMAIN traces = {1}
    BY <1>2, <1>3, <1>4, <1>6, <2>1, TrafficHandled DEF GuiBecomes
  <2>3. past'.sampled = past.sampled \cup {traces[1]}
    BY <1>1, <1>6, <2>1 DEF Deliver, Shapes
  <2>4. TablesShape(shown) /\ TablesCover(shown)
    BY <1>4 DEF GuiShape, Gui, TablesShape, ColumnsKept
  <2>5. PICK new : new = TrafficShown(shown, traces)
    OBVIOUS
  <2>6. TablesCover(new) /\ Sampled(new, traces[1]) /\ \A sample : Sampled(shown, sample) => Sampled(new, sample)
    BY <2>2, <2>4, <2>5, TrafficShownCovers
  <2> QED BY <2>2, <2>3, <2>5, <2>6 DEF ColumnsKept
<1> QED BY <1>5, <1>6

LEMMA ColumnsLoaded ==
  ASSUME Shapes, WindowShapes, ColumnsKept, SessionLoad
  PROVE  ColumnsKept'
<1>1. CASE UNCHANGED <<main, shown, windows, session>> /\ past'.sampled = past.sampled
  BY <1>1, ColumnsSame DEF SameColumns, Gui
<1>2. CASE /\ past'.sampled = past.sampled \cup ToSet(session'.traffic)
           /\ \E loaded \in LoadedSessions(session, views') : \E g \in LoadShown(loaded) : GuiBecomes(g)
  <2>1. PICK loaded \in LoadedSessions(session, views') : \E g \in LoadShown(loaded) : GuiBecomes(g)
    BY <1>2
  <2>2. PICK g \in LoadShown(loaded) : GuiBecomes(g)
    BY <2>1
  <2>3. LinesShape(views') /\ SessionShape(session) /\ GuiShape(Gui)
    BY LoadedBy DEF WindowShapes, GuiShape, Gui
  <2>4. SessionShape(loaded)
    BY <2>3, LoadedShape
  <2>5. PICK tables :
          /\ TablesShape(tables) /\ tables.columns = shown.columns /\ tables.cells = shown.cells
          /\ GuiShape(g) /\ g.session.traffic = loaded.traffic
          /\ g.shown.columns = TrafficShown(tables, loaded.traffic).columns
          /\ g.shown.cells = TrafficShown(tables, loaded.traffic).cells
    BY <2>3, <2>4, LoadShownAfter
  <2>6. PICK new : new = TrafficShown(tables, loaded.traffic)
    OBVIOUS
  <2>7. TracesShape(loaded.traffic)
    BY <2>4 DEF SessionShape
  <2>8. TablesCover(tables) /\ \A sample : Sampled(shown, sample) => Sampled(tables, sample)
    BY <2>5, TablesSame DEF ColumnsKept
  <2>9. /\ TablesCover(new)
        /\ \A i \in DOMAIN loaded.traffic : Sampled(new, loaded.traffic[i])
        /\ \A sample : Sampled(tables, sample) => Sampled(new, sample)
    BY <2>5, <2>6, <2>7, <2>8, TrafficShownCovers
  <2>10. shown'.columns = new.columns /\ shown'.cells = new.cells /\ session'.traffic = loaded.traffic
    BY <2>2, <2>5, <2>6 DEF GuiBecomes
  <2>11. TablesCover(shown') /\ \A sample : Sampled(new, sample) => Sampled(shown', sample)
    BY <2>9, <2>10, TablesSame
  <2>12. \A sample \in past'.sampled : Sampled(shown', sample)
    BY <1>2, <2>8, <2>9, <2>10, <2>11 DEF ColumnsKept, ToSet
  <2> QED BY <2>11, <2>12 DEF ColumnsKept
<1> QED BY <1>1, <1>2 DEF SessionLoad, Shapes

LEMMA ColumnsStep ==
  ASSUME Shapes, WindowShapes, ColumnsKept, [Next]_vars
  PROVE  ColumnsKept'
<1>1. CASE Heap \/ Timers \/ Others \/ Listener
  <2>1. UNCHANGED <<main, shown, windows>> /\ past'.sampled = past.sampled
    BY <1>1, GuiKept, SampledKept
  <2> QED BY <2>1, ColumnsSame DEF SameColumns, Gui
<1>2. CASE Deliver
  BY <1>2, ColumnsDelivered
<1>3. CASE ResetViewers
  <2>1. shown'.columns = Nothing /\ shown'.cells = Nothing /\ past'.sampled = {}
    BY <1>3 DEF ResetViewers, NewTables, Shapes
  <2> QED BY <2>1, ColumnsEmpty
<1>4. CASE (\E key \in SignalKeys : ShowDetail(key)) \/ (\E class \in Classes : ShowHeapDetail(class))
  <2>1. UNCHANGED <<shown, past>>
    BY <1>4 DEF ShowDetail, ShowHeapDetail
  <2> QED BY <2>1, ColumnsSame DEF SameColumns, Gui
<1>5. CASE \E r \in DOMAIN shown.classes.rows : PressClass(r)
  <2>1. shown'.columns = shown.columns /\ shown'.cells = shown.cells /\ shown'.marks = shown.marks
        /\ past'.sampled = past.sampled
    BY <1>5 DEF PressClass, WindowShapes, GuiShape, Gui, Shapes
  <2> QED BY <2>1, ColumnsSame DEF SameColumns, Gui
<1>6. CASE SessionSave \/ StopTraffic \/ UNCHANGED vars
  <2>1. UNCHANGED shown /\ past'.sampled = past.sampled
    BY <1>6 DEF SessionSave, StopTraffic, gui, vars, Shapes
  <2> QED BY <2>1, ColumnsSame DEF SameColumns, Gui
<1>7. CASE SessionLoad
  BY <1>7, ColumnsLoaded
<1>8. CASE Restart
  <2>1. shown'.columns = Nothing /\ shown'.cells = Nothing /\ past'.sampled = {}
    BY <1>8 DEF Restart, Started, NewTables, NewPast
  <2> QED BY <2>1, ColumnsEmpty
<1> QED BY <1>1, <1>2, <1>3, <1>4, <1>5, <1>6, <1>7, <1>8 DEF Next, Window

LEMMA ColumnsCovered ==
  ASSUME ColumnsKept
  PROVE  ColumnsCover
<1>1. ASSUME NEW t \in DOMAIN shown.columns,
             NEW i \in DOMAIN shown.columns[t], NEW j \in DOMAIN shown.columns[t], i # j
      PROVE  /\ shown.columns[t][i].frames # shown.columns[t][j].frames
             /\ ~Extends(shown.columns[t][i].frames, shown.columns[t][j].frames)
  <2>1. PICK column : column = shown.columns[t]
    OBVIOUS
  <2>2. ColumnShape(column)
    BY <2>1 DEF ColumnsKept, TablesCover
  <2>3. PICK a : a = column[i].frames
    OBVIOUS
  <2>4. PICK b : b = column[j].frames
    OBVIOUS
  <2>5. Listed(a) /\ Listed(b) /\ ~Reach(a, b)
    BY <1>1, <2>1, <2>2, <2>3, <2>4 DEF ColumnShape, TracesShape, TraceShape
  <2>6. a # b /\ ~Extends(a, b)
    BY <2>5, ReachIs
  <2> QED BY <2>1, <2>3, <2>4, <2>6
<1>2. ASSUME NEW sample \in past.sampled, sample.thread \in DOMAIN shown.columns
      PROVE  Covering(shown.columns[sample.thread], sample) # {}
  <2>1. PICK column : column = shown.columns[sample.thread]
    OBVIOUS
  <2>2. ColumnShape(column) /\ TraceShape(sample) /\ Covers(column, sample.frames)
    BY <1>2, <2>1 DEF ColumnsKept, TablesCover, Sampled
  <2>3. PICK i \in DOMAIN column : Reach(column[i].frames, sample.frames)
    BY <2>2 DEF Covers
  <2>4. Listed(column[i].frames) /\ Listed(sample.frames) /\ i \in 1 .. Len(column)
    BY <2>2, <2>3, ListedDomain DEF ColumnShape, TracesShape, TraceShape
  <2>5. column[i].frames = sample.frames \/ Extends(column[i].frames, sample.frames)
    BY <2>3, <2>4, ReachIs
  <2>6. i \in Covering(column, sample)
    BY <2>4, <2>5 DEF Covering
  <2> QED BY <2>1, <2>6
<1>3. \A t \in DOMAIN shown.columns :
        shown.cells[t] = Layout([i \in DOMAIN shown.columns[t] |-> shown.columns[t][i].frames])
  BY DEF ColumnsKept, TablesCover, FramesOf
<1> QED BY <1>1, <1>2, <1>3 DEF ColumnsCover

(* However samples come, from a target or from a file, no stack of a       *)
(* thread's column in the traffic window is part of another one, every     *)
(* stack sampled since the reset is in one of them, and the cells, which   *)
(* are painted over and never cleared, show the column's stacks.           *)
THEOREM ColumnsAreCovers == Spec => []ColumnsCover
<1>1. Init => Shapes /\ WindowShapes /\ ColumnsKept
  BY ShapesInit, WindowInit, ColumnsInit
<1>2. Shapes /\ WindowShapes /\ ColumnsKept /\ [Next]_vars => Shapes' /\ WindowShapes' /\ ColumnsKept'
  BY ShapesStep, WindowStep, ColumnsStep
<1>3. ColumnsKept => ColumnsCover
  BY ColumnsCovered
<1> QED BY <1>1, <1>2, <1>3, PTL DEF Spec
-----------------------------------------------------------------------------
(* The mark k frames from the outermost, and the frames from there on.     *)
MarkAt(monitors, k) == monitors[Len(monitors) - k + 1]

SameOuter(a, b, k) == \A j \in 1 .. k : a[Len(a) - k + j] = b[Len(b) - k + j]

LEMMA OuterListed ==
  ASSUME NEW q, Listed(q), NEW m \in 1 .. Len(q) + 1
  PROVE  /\ Listed(SubSeq(q, m, Len(q))) /\ Len(SubSeq(q, m, Len(q))) = Len(q) - m + 1
         /\ \A j \in 1 .. Len(q) - m + 1 : SubSeq(q, m, Len(q))[j] = q[m + j - 1]
<1>1. PICK S : q \in Seq(S)
  BY DEF Listed
<1>2. PICK n \in Nat : n = Len(q) /\ \A i \in 1 .. n : q[i] \in S
  BY <1>1
<1>3. m \in Int /\ n \in Int /\ \A i \in m .. n : i \in 1 .. n
  BY <1>2
<1>4. PICK r : r = SubSeq(q, m, n)
  OBVIOUS
<1>5. /\ r \in Seq(S) /\ Len(r) = IF m <= n THEN n - m + 1 ELSE 0
      /\ \A i \in 1 .. n - m + 1 : r[i] = q[m + i - 1]
  BY <1>2, <1>3, <1>4, SubSeqProperties
<1>6. m <= n \/ n - m + 1 = 0
  BY <1>2
<1>7. Len(r) = n - m + 1
  BY <1>5, <1>6
<1>8. Listed(r)
  BY <1>5 DEF Listed
<1> QED BY <1>2, <1>4, <1>5, <1>7, <1>8

LEMMA OuterSame ==
  ASSUME NEW a, NEW b, Listed(a), Listed(b), NEW k \in Nat, k <= Len(a), k <= Len(b), SameOuter(a, b, k)
  PROVE  SubSeq(a, Len(a) - k + 1, Len(a)) = SubSeq(b, Len(b) - k + 1, Len(b))
<1>1. PICK l \in Nat : l = Len(a)
  BY ListedDomain
<1>2. PICK p \in Nat : p = Len(b)
  BY ListedDomain
<1>3. PICK x : x = l - k + 1
  OBVIOUS
<1>4. PICK y : y = p - k + 1
  OBVIOUS
<1>5. PICK r : r = SubSeq(a, x, l)
  OBVIOUS
<1>6. PICK s : s = SubSeq(b, y, p)
  OBVIOUS
<1>7. x \in 1 .. l + 1 /\ y \in 1 .. p + 1 /\ l - x + 1 = k /\ p - y + 1 = k
      /\ \A j \in 1 .. k : x + j - 1 = l - k + j /\ y + j - 1 = p - k + j
  BY <1>1, <1>2, <1>3, <1>4
<1>8. Listed(r) /\ Len(r) = l - x + 1 /\ \A j \in 1 .. l - x + 1 : r[j] = a[x + j - 1]
  BY <1>1, <1>5, <1>7, OuterListed
<1>9. Listed(s) /\ Len(s) = p - y + 1 /\ \A j \in 1 .. p - y + 1 : s[j] = b[y + j - 1]
  BY <1>2, <1>6, <1>7, OuterListed
<1>10. \A j \in 1 .. k : r[j] = a[l - k + j] /\ s[j] = b[p - k + j]
  BY <1>7, <1>8, <1>9
<1>11. \A j \in 1 .. k : r[j] = s[j]
  BY <1>1, <1>2, <1>10 DEF SameOuter
<1>12. r = s
  BY <1>7, <1>8, <1>9, <1>11, ListedSame
<1> QED BY <1>1, <1>2, <1>3, <1>4, <1>5, <1>6, <1>12

LEMMA ReachOuter ==
  ASSUME NEW a, NEW b, Listed(a), Listed(b), Reach(a, b), NEW k \in Nat, k <= Len(b)
  PROVE  k <= Len(a) /\ SameOuter(a, b, k) /\ SameOuter(b, a, k)
<1>1. PICK l \in Nat, m \in Nat : l = Len(a) /\ m = Len(b)
  BY ListedDomain
<1>2. l >= m /\ k <= m
  BY <1>1 DEF Reach
<1>3. ASSUME NEW j \in 1 .. k PROVE a[l - k + j] = b[m - k + j]
  <2>1. PICK i : i = m - k + j
    OBVIOUS
  <2>2. i \in 1 .. m /\ i + l - m = l - k + j
    BY <1>2, <2>1
  <2>3. a[i + l - m] = b[i]
    BY <1>1, <2>2 DEF Reach
  <2> QED BY <2>1, <2>2, <2>3
<1>4. \A j \in 1 .. k : a[l - k + j] = b[m - k + j]
  BY <1>3
<1>5. SameOuter(a, b, k)
  BY <1>1, <1>4, Zenon DEF SameOuter
<1>6. SameOuter(b, a, k)
  BY <1>1, <1>4, Zenon DEF SameOuter
<1> QED BY <1>1, <1>2, <1>5, <1>6

LEMMA OuterTransitive ==
  ASSUME NEW a, NEW b, NEW c, NEW k, SameOuter(a, b, k), SameOuter(b, c, k)
  PROVE  SameOuter(a, c, k)
BY DEF SameOuter
-----------------------------------------------------------------------------
(* A frame of a stack was seen to hold a monitor with the same frames      *)
(* beneath it; and the marks of a stack that have all been seen.           *)
Held(samples, t, frames, k) ==
  \E sample \in samples :
    /\ sample.thread = t /\ Listed(sample.frames) /\ k <= Len(sample.frames)
    /\ SameOuter(sample.frames, frames, k)
    /\ MarkAt(sample.monitors, k) > 0

Earned(samples, t, frames, monitors) ==
  /\ Listed(frames) /\ Listed(monitors) /\ Len(monitors) = Len(frames)
  /\ \A k \in 1 .. Len(frames) : MarkAt(monitors, k) > 0 => Held(samples, t, frames, k)

LEMMA HeldToo ==
  ASSUME NEW samples, NEW t, NEW a, NEW b, NEW k, Held(samples, t, b, k), SameOuter(b, a, k)
  PROVE  Held(samples, t, a, k)
<1>1. PICK sample \in samples :
        /\ sample.thread = t /\ Listed(sample.frames) /\ k <= Len(sample.frames)
        /\ SameOuter(sample.frames, b, k)
        /\ MarkAt(sample.monitors, k) > 0
  BY DEF Held
<1>2. SameOuter(sample.frames, a, k)
  BY <1>1, OuterTransitive
<1> QED BY <1>1, <1>2 DEF Held

LEMMA EarnedMore ==
  ASSUME NEW samples, NEW more, samples \subseteq more, NEW t, NEW frames, NEW monitors,
         Earned(samples, t, frames, monitors)
  PROVE  Earned(more, t, frames, monitors)
<1>1. \A k : Held(samples, t, frames, k) => Held(more, t, frames, k)
  BY DEF Held
<1> QED BY <1>1 DEF Earned

(* The marks that one stack gives to another one: StackTrace's             *)
(* update_monitors aligns them from the outermost frame.                   *)
LEMMA MarkedEarned ==
  ASSUME NEW samples, NEW t, NEW a, NEW m, Earned(samples, t, a, m),
         NEW b, NEW n, Earned(samples, t, b, n), Reach(a, b) \/ Reach(b, a)
  PROVE  Earned(samples, t, a, Marked(m, n))
<1>1. PICK l \in Nat, p \in Nat : l = Len(a) /\ p = Len(b) /\ Len(m) = l /\ Len(n) = p
  BY ListedDomain DEF Earned
<1>2. PICK r : r = Marked(m, n)
  OBVIOUS
<1>3. r = [i \in 1 .. l |->
            IF i + p - l \in 1 .. p /\ m[i] = 0 /\ n[i + p - l] > 0 THEN 1 ELSE m[i]]
  BY <1>1, <1>2 DEF Marked
<1>4. /\ r = [i \in 1 .. l |-> r[i]]
      /\ \A i \in 1 .. l : r[i] = m[i] \/ (i + p - l \in 1 .. p /\ n[i + p - l] > 0)
  BY <1>3
<1>5. Listed(r) /\ Len(r) = l
  BY <1>4, ListedFunction
<1>6. ASSUME NEW k \in 1 .. l, MarkAt(r, k) > 0 PROVE Held(samples, t, a, k)
  <2>1. PICK i : i = l - k + 1
    OBVIOUS
  <2>2. i \in 1 .. l /\ i + p - l = p - k + 1 /\ (i + p - l \in 1 .. p => k \in 1 .. p)
    BY <2>1
  <2>3. r[i] > 0
    BY <1>5, <1>6, <2>1 DEF MarkAt
  <2>4. CASE r[i] = m[i]
    <3>1. MarkAt(m, k) > 0
      BY <1>1, <2>1, <2>3, <2>4 DEF MarkAt
    <3> QED BY <1>1, <3>1 DEF Earned
  <2>5. CASE i + p - l \in 1 .. p /\ n[i + p - l] > 0
    <3>1. k \in 1 .. p /\ MarkAt(n, k) > 0
      BY <1>1, <2>2, <2>5 DEF MarkAt
    <3>2. Held(samples, t, b, k)
      BY <1>1, <3>1 DEF Earned
    <3>3. SameOuter(b, a, k)
      <4>1. Listed(a) /\ Listed(b) /\ k \in Nat /\ k <= Len(a) /\ k <= Len(b)
        BY <1>1, <3>1 DEF Earned
      <4> QED BY <4>1, ReachOuter
    <3> QED BY <3>2, <3>3, HeldToo
  <2> QED BY <1>4, <2>2, <2>4, <2>5
<1> QED BY <1>1, <1>2, <1>5, <1>6 DEF Earned
-----------------------------------------------------------------------------
ColumnEarned(samples, t, column) ==
  /\ TracesShape(column)
  /\ \A i \in DOMAIN column : Earned(samples, t, column[i].frames, column[i].monitors)

LEMMA EarnedExcept ==
  ASSUME NEW samples, NEW t, NEW column, ColumnEarned(samples, t, column),
         NEW f \in DOMAIN column, NEW x, TraceShape(x), Earned(samples, t, x.frames, x.monitors)
  PROVE  ColumnEarned(samples, t, [column EXCEPT ![f] = x])
<1>1. PICK n \in Nat : n = Len(column) /\ DOMAIN column = 1 .. n /\ Listed(column)
  BY ListedDomain DEF ColumnEarned, TracesShape
<1>2. PICK new : new = [column EXCEPT ![f] = x]
  OBVIOUS
<1>3. Listed(new) /\ Len(new) = n /\ \A j \in 1 .. n : new[j] = IF j = f THEN x ELSE column[j]
  BY <1>1, <1>2, ListedExcept
<1>4. DOMAIN new = 1 .. n
  BY <1>3, ListedDomain
<1>5. \A j \in 1 .. n : TraceShape(new[j])
  BY <1>1, <1>3 DEF ColumnEarned, TracesShape
<1>6. \A j \in 1 .. n : Earned(samples, t, new[j].frames, new[j].monitors)
  BY <1>1, <1>3 DEF ColumnEarned
<1> QED BY <1>2, <1>3, <1>4, <1>5, <1>6 DEF ColumnEarned, TracesShape

LEMMA PassesEarn ==
  ASSUME NEW samples, NEW t, NEW column, ColumnEarned(samples, t, column),
         NEW trace, Earned(samples, t, trace.frames, trace.monitors), NEW n \in Nat, Len(column) = n
  PROVE  /\ ColumnEarned(samples, t, Passes(column, trace)[n].column)
         /\ Earned(samples, t, trace.frames, Passes(column, trace)[n].marks)
<1>1. PICK p : p = Passes(column, trace)
  OBVIOUS
<1>2. p[0] = PassStart(column, trace) /\ \A i \in 1 .. n : p[i] = PassStep(column, trace, p[i - 1], i)
  BY <1>1, PassesRun
<1>3. DOMAIN column = 1 .. n /\ TracesShape(column)
  BY ListedDomain DEF ColumnEarned, TracesShape
<1> DEFINE Good(s) == /\ ColumnEarned(samples, t, s.column) /\ Len(s.column) = n
                      /\ \A i \in 1 .. n : s.column[i].frames = column[i].frames
                      /\ Earned(samples, t, trace.frames, s.marks)
           P == {m \in Nat : m <= n => Good(p[m])}
<1>4. 0 \in P
  BY <1>2 DEF PassStart
<1>5. ASSUME NEW m \in Nat, m \in P PROVE m + 1 \in P
  <2> SUFFICES ASSUME m + 1 <= n PROVE Good(p[m + 1])
    OBVIOUS
  <2>1. PICK before : before = p[m]
    OBVIOUS
  <2>2. Good(before)
    BY <1>5, <2>1
  <2>3. PICK i : i = m + 1
    OBVIOUS
  <2>4. p[i] = PassStep(column, trace, before, i) /\ i \in 1 .. n
    <3>1. m + 1 \in 1 .. n /\ m + 1 - 1 = m
      OBVIOUS
    <3> QED BY <1>2, <2>1, <2>3, <3>1
  <2>5. CASE p[i] = before
    BY <2>2, <2>3, <2>5
  <2>6. CASE p[i] # before
    <3>1. PICK old : old = before.column
      OBVIOUS
    <3>2. PICK mine : mine = Marked(column[i].monitors, before.marks)
      OBVIOUS
    <3>3. PICK marks : marks = Marked(before.marks, column[i].monitors)
      OBVIOUS
    <3>4. PICK changed : changed = (mine # column[i].monitors \/ marks # before.marks)
      OBVIOUS
    <3>5. PICK new : new = [old EXCEPT ![i].monitors = mine]
      OBVIOUS
    <3>6. PassStep(column, trace, before, i) =
            IF i \notin Covering(column, trace) \/ i >= FirstOutgrown(column, trace) THEN before
            ELSE [column |-> new, marks |-> marks, changed |-> changed]
      BY <3>1, <3>2, <3>3, <3>4, <3>5 DEF PassStep
    <3>7. p[i] = [column |-> new, marks |-> marks, changed |-> changed] /\ i \in Covering(column, trace)
      BY <2>4, <2>6, <3>6
    <3>8. p[i].column = new /\ p[i].marks = marks
      BY <3>7
    <3>9. PICK a : a = column[i].frames
      OBVIOUS
    <3>10. PICK b : b = trace.frames
      OBVIOUS
    <3>11. Earned(samples, t, a, column[i].monitors) /\ Earned(samples, t, b, before.marks)
      BY <1>3, <2>2, <2>4, <3>9, <3>10 DEF ColumnEarned
    <3>12. Reach(a, b)
      <4>1. a = b \/ Extends(a, b)
        BY <3>7, <3>9, <3>10 DEF Covering
      <4> QED BY <3>11, <4>1, ReachIs DEF Earned
    <3>13. Earned(samples, t, a, mine)
      BY <3>2, <3>11, <3>12, MarkedEarned
    <3>14. Earned(samples, t, b, marks)
      BY <3>3, <3>11, <3>12, MarkedEarned
    <3>15. PICK x : x = [old[i] EXCEPT !.monitors = mine]
      OBVIOUS
    <3>16. Listed(old) /\ DOMAIN old = 1 .. n /\ TraceShape(old[i]) /\ old[i].frames = a
      BY <2>2, <2>4, <3>1, <3>9, ListedDomain DEF ColumnEarned, TracesShape
    <3>17. TraceShape(x) /\ x.frames = a /\ x.monitors = mine
      BY <3>15, <3>16 DEF TraceShape
    <3>18. new = [old EXCEPT ![i] = x]
      BY <3>5, <3>15
    <3>19. ColumnEarned(samples, t, new)
      <4>1. ColumnEarned(samples, t, old) /\ i \in DOMAIN old
        BY <2>2, <2>4, <3>1, <3>16
      <4> QED BY <3>13, <3>17, <3>18, <4>1, EarnedExcept
    <3>20. Len(new) = n /\ \A j \in 1 .. n : new[j] = IF j = i THEN x ELSE old[j]
      BY <2>2, <3>1, <3>16, <3>18, ListedExcept
    <3>21. \A j \in 1 .. n : new[j].frames = column[j].frames
      BY <2>2, <3>1, <3>9, <3>17, <3>20
    <3> QED BY <2>3, <3>8, <3>10, <3>14, <3>19, <3>20, <3>21
  <2> QED BY <2>5, <2>6
<1>6. n \in P
  <2> HIDE DEF P
  <2> QED BY <1>4, <1>5, NatSetInduction
<1> QED BY <1>1, <1>6

(* StackColumn::update hands on marks that were seen, and no others.       *)
LEMMA UpdateEarned ==
  ASSUME NEW samples, NEW t, NEW column, ColumnEarned(samples, t, column), ColumnShape(column),
         NEW trace, TraceShape(trace), Earned(samples, t, trace.frames, trace.monitors),
         NEW u, u = ColumnUpdate(column, trace)
  PROVE  ColumnEarned(samples, t, u.column)
<1>1. PICK n \in Nat : n = Len(column) /\ DOMAIN column = 1 .. n
  BY ListedDomain DEF ColumnShape, TracesShape
<1>2. PICK last : last = Passes(column, trace)[n]
  OBVIOUS
<1>3. PICK p : p = last.column
  OBVIOUS
<1>4. ColumnEarned(samples, t, p) /\ Earned(samples, t, trace.frames, last.marks)
  BY <1>1, <1>2, <1>3, PassesEarn
<1>5. Listed(p) /\ Len(p) = n /\ DOMAIN p = 1 .. n
  BY <1>1, <1>2, <1>3, PassesKeep, ListedDomain DEF SameStacks, ColumnShape, TracesShape
<1>6. PICK m : m = [trace EXCEPT !.monitors = last.marks]
  OBVIOUS
<1>7. TraceShape(m) /\ m.frames = trace.frames /\ m.monitors = last.marks
  BY <1>6 DEF TraceShape
<1>8. PICK f : f = FirstOutgrown(column, trace)
  OBVIOUS
<1>9. Earned(samples, t, m.frames, m.monitors)
  BY <1>4, <1>7
<1>u. u = IF Outgrown(column, trace) # {} THEN [column |-> [p EXCEPT ![f] = m], changed |-> TRUE, trace |-> m]
          ELSE IF Covering(column, trace) = {} THEN [column |-> Append(p, m), changed |-> TRUE, trace |-> m]
          ELSE [column |-> p, changed |-> last.changed, trace |-> m]
  BY <1>1, <1>2, <1>3, <1>6, <1>8 DEF ColumnUpdate
<1>10. CASE Outgrown(column, trace) # {}
  <2>1. f \in Outgrown(column, trace)
    BY <1>8, <1>10, OnceOutgrown
  <2>2. f \in DOMAIN p
    BY <1>1, <1>5, <2>1 DEF Outgrown
  <2>3. u.column = [p EXCEPT ![f] = m]
    BY <1>10, <1>u
  <2> QED BY <1>4, <1>7, <1>9, <2>2, <2>3, EarnedExcept
<1>11. CASE Outgrown(column, trace) = {} /\ Covering(column, trace) = {}
  <2>1. PICK new : new = Append(p, m)
    OBVIOUS
  <2>2. u.column = new
    BY <1>11, <1>u, <2>1
  <2>3. Listed(new) /\ Len(new) = n + 1 /\ new[n + 1] = m /\ \A j \in 1 .. n : new[j] = p[j]
    BY <1>5, <2>1, ListedAppend
  <2>4. \A j \in 1 .. n + 1 : j \in 1 .. n \/ j = n + 1
    OBVIOUS
  <2>5. \A j \in 1 .. n : TraceShape(p[j]) /\ Earned(samples, t, p[j].frames, p[j].monitors)
    BY <1>4, <1>5 DEF ColumnEarned, TracesShape
  <2>6. \A j \in 1 .. n + 1 : TraceShape(new[j]) /\ Earned(samples, t, new[j].frames, new[j].monitors)
    BY <1>7, <1>9, <2>3, <2>4, <2>5
  <2> QED BY <2>2, <2>3, <2>6, ListedDomain DEF ColumnEarned, TracesShape
<1>12. CASE Outgrown(column, trace) = {} /\ Covering(column, trace) # {}
  <2>1. u.column = p
    BY <1>12, <1>u
  <2> QED BY <1>4, <2>1
<1> QED BY <1>10, <1>11, <1>12
-----------------------------------------------------------------------------
(* The inductive invariant of the marks: a file brings marks that nobody   *)
(* has seen, so it is about the time before one is loaded.                 *)
MarksKept ==
  /\ past.loads \in Nat
  /\ past.loads = 0 =>
       \A t \in DOMAIN shown.columns : ColumnEarned(past.sampled, t, shown.columns[t])

LEMMA TraceColumns ==
  ASSUME NEW tables, TablesShape(tables), NEW trace,
         NEW column, column = At(tables.columns, trace.thread, <<>>)
  PROVE  TraceShown(tables, trace).columns = Put(tables.columns, trace.thread, ColumnUpdate(column, trace).column)
<1>1. PICK columns : columns = Put(tables.columns, trace.thread, ColumnUpdate(column, trace).column)
  OBVIOUS
<1>2. \E cells, marks : TraceShown(tables, trace) =
        [tables EXCEPT !.columns = columns, !.cells = cells, !.marks = marks]
  BY <1>1 DEF TraceShown
<1> QED BY <1>1, <1>2 DEF TablesShape

LEMMA TrafficOne ==
  ASSUME NEW tables, NEW traces, Listed(traces), DOMAIN traces = {1}
  PROVE  TrafficShown(tables, traces) = TraceShown(tables, traces[1])
<1>1. DOMAIN traces = 1 .. 1 /\ 1 \in Nat
  OBVIOUS
<1>2. PICK k : RunOf("trace", tables, traces, 1, k) /\ TrafficShown(tables, traces) = k[1]
  BY <1>1, TraceFold DEF TrafficShown
<1>3. 1 \in 1 .. 1 /\ 1 - 1 = 0
  OBVIOUS
<1>4. k[1] = TraceShown(k[0], traces[1]) /\ k[0] = tables
  BY <1>2, <1>3 DEF RunOf, Applied
<1> QED BY <1>2, <1>4

LEMMA MarksSame ==
  ASSUME MarksKept, shown'.columns = shown.columns, past'.sampled = past.sampled, past'.loads = past.loads
  PROVE  MarksKept'
BY DEF MarksKept

LEMMA MarksEmpty ==
  ASSUME shown'.columns = Nothing, past'.loads \in Nat
  PROVE  MarksKept'
BY DEF MarksKept, Nothing

LEMMA MarksDelivered ==
  ASSUME Shapes, WindowShapes, ColumnsKept, MarksKept, Deliver
  PROVE  MarksKept'
<1>1. PICK post : post = Head(queue)
  OBVIOUS
<1>2. PostShape(post)
  BY <1>1, HeadPosted DEF Deliver
<1>3. PICK g : g = Handled(post)
  OBVIOUS
<1>4. GuiShape(Gui) /\ GuiShape(g) /\ GuiBecomes(g)
  BY <1>1, <1>2, <1>3, HandledShape DEF Deliver, WindowShapes
<1>5. past'.loads = past.loads
  BY DEF Deliver, Shapes
<1>6. CASE post.kind # "traffic"
  <2>1. SameColumns(g, Gui)
    BY <1>2, <1>3, <1>4, <1>6, HandledColumns
  <2>2. shown'.columns = shown.columns
    BY <1>4, <2>1 DEF SameColumns, GuiBecomes, Gui
  <2>3. past'.sampled = past.sampled
    BY <1>1, <1>6 DEF Deliver, Shapes
  <2> QED BY <1>5, <2>2, <2>3, MarksSame
<1>7. CASE post.kind = "traffic"
  <2> SUFFICES ASSUME past.loads = 0
               PROVE  \A t \in DOMAIN shown'.columns : ColumnEarned(past'.sampled, t, shown'.columns[t])
    BY <1>5 DEF MarksKept
  <2>1. PICK trace : trace = post.report[1]
    OBVIOUS
  <2>2. /\ shown' = TrafficShown(shown, post.report)
        /\ TracesShape(post.report) /\ DOMAIN post.report = {1}
        /\ Listed(trace.monitors) /\ Len(trace.monitors) = Len(trace.frames)
    BY <1>2, <1>3, <1>4, <1>7, <2>1, TrafficHandled DEF GuiBecomes
  <2>3. TraceShape(trace) /\ Listed(trace.frames)
    BY <2>1, <2>2 DEF TracesShape, TraceShape
  <2>4. shown' = TraceShown(shown, trace)
    BY <2>1, <2>2, TrafficOne DEF TracesShape
  <2>5. PICK samples : samples = past.sampled \cup {trace}
    OBVIOUS
  <2>6. past'.sampled = samples
    BY <1>1, <1>7, <2>1, <2>5 DEF Deliver, Shapes
  <2>7. PICK t : t = trace.thread
    OBVIOUS
  <2>8. PICK column : column = At(shown.columns, t, <<>>)
    OBVIOUS
  <2>9. PICK u : u = ColumnUpdate(column, trace)
    OBVIOUS
  <2>10. shown'.columns = Put(shown.columns, t, u.column)
    <3>1. TablesShape(shown)
      BY <1>4 DEF GuiShape, Gui, TablesShape
    <3> QED BY <2>4, <2>7, <2>8, <2>9, <3>1, TraceColumns
  <2>11. Earned(samples, t, trace.frames, trace.monitors)
    <3>1. \A k \in 1 .. Len(trace.frames) :
             /\ k <= Len(trace.frames)
             /\ SameOuter(trace.frames, trace.frames, k)
      BY <2>3, ListedDomain DEF SameOuter
    <3>2. ASSUME NEW k \in 1 .. Len(trace.frames), MarkAt(trace.monitors, k) > 0
          PROVE  Held(samples, t, trace.frames, k)
      <4>1. trace \in samples /\ trace.thread = t /\ Listed(trace.frames) /\ k <= Len(trace.frames)
            /\ SameOuter(trace.frames, trace.frames, k) /\ MarkAt(trace.monitors, k) > 0
        BY <2>3, <2>5, <2>7, <3>1, <3>2
      <4> QED BY <4>1 DEF Held
    <3> QED BY <2>2, <2>3, <3>2 DEF Earned
  <2>12. \A x \in DOMAIN shown.columns : ColumnEarned(samples, x, shown.columns[x])
    <3> TAKE x \in DOMAIN shown.columns
    <3>1. ColumnEarned(past.sampled, x, shown.columns[x])
      BY DEF MarksKept
    <3>2. past.sampled \subseteq samples
      BY <2>5
    <3> QED BY <3>1, <3>2, EarnedMore DEF ColumnEarned
  <2>13. ColumnEarned(samples, t, column) /\ ColumnShape(column)
    <3>1. CASE t \in DOMAIN shown.columns
      BY <2>8, <2>12, <3>1 DEF At, ColumnsKept, TablesCover
    <3>2. CASE t \notin DOMAIN shown.columns
      <4>1. column = <<>>
        BY <2>8, <3>2 DEF At
      <4>2. ColumnShape(<<>>) /\ DOMAIN <<>> = {}
        BY EmptyColumn
      <4> QED BY <4>1, <4>2 DEF ColumnEarned, ColumnShape
    <3> QED BY <3>1, <3>2
  <2>14. ColumnEarned(samples, t, u.column)
    BY <2>3, <2>9, <2>11, <2>13, UpdateEarned
  <2>15. /\ DOMAIN shown'.columns = DOMAIN shown.columns \cup {t} /\ shown'.columns[t] = u.column
         /\ \A x \in DOMAIN shown.columns \ {t} : shown'.columns[x] = shown.columns[x]
    BY <2>10 DEF Put
  <2>16. ASSUME NEW x \in DOMAIN shown'.columns PROVE ColumnEarned(samples, x, shown'.columns[x])
    <3>1. CASE x = t
      BY <2>14, <2>15, <3>1
    <3>2. CASE x # t
      BY <2>12, <2>15, <3>2
    <3> QED BY <3>1, <3>2
  <2> QED BY <2>6, <2>16
<1> QED BY <1>6, <1>7

LEMMA MarksStep ==
  ASSUME Shapes, WindowShapes, ColumnsKept, MarksKept, [Next]_vars
  PROVE  MarksKept'
<1>1. CASE Heap \/ Timers \/ Others \/ Listener
  BY <1>1, GuiKept, SampledKept, MarksSame
<1>2. CASE Deliver
  BY <1>2, MarksDelivered
<1>3. CASE ResetViewers
  <2>1. shown'.columns = Nothing /\ past'.loads = past.loads
    BY <1>3 DEF ResetViewers, NewTables, Shapes
  <2> QED BY <2>1, MarksEmpty DEF MarksKept
<1>4. CASE (\E key \in SignalKeys : ShowDetail(key)) \/ (\E class \in Classes : ShowHeapDetail(class))
  <2>1. UNCHANGED <<shown, past>>
    BY <1>4 DEF ShowDetail, ShowHeapDetail
  <2> QED BY <2>1, MarksSame
<1>5. CASE \E r \in DOMAIN shown.classes.rows : PressClass(r)
  <2>1. shown'.columns = shown.columns /\ past'.sampled = past.sampled /\ past'.loads = past.loads
    BY <1>5 DEF PressClass, WindowShapes, GuiShape, Gui, Shapes
  <2> QED BY <2>1, MarksSame
<1>6. CASE SessionSave \/ StopTraffic \/ UNCHANGED vars
  <2>1. UNCHANGED shown /\ past'.sampled = past.sampled /\ past'.loads = past.loads
    BY <1>6 DEF SessionSave, StopTraffic, gui, vars, Shapes
  <2> QED BY <2>1, MarksSame
<1>7. CASE SessionLoad
  <2>1. past'.loads = past.loads + 1
    BY <1>7 DEF SessionLoad, Shapes
  <2>2. past'.loads \in Nat /\ past'.loads # 0
    BY <2>1 DEF MarksKept
  <2> QED BY <2>2 DEF MarksKept
<1>8. CASE Restart
  <2>1. shown'.columns = Nothing /\ past'.loads = 0
    BY <1>8 DEF Restart, Started, NewTables, NewPast
  <2> QED BY <2>1, MarksEmpty
<1> QED BY <1>1, <1>2, <1>3, <1>4, <1>5, <1>6, <1>7, <1>8 DEF Next, Window

LEMMA MarksSeen ==
  ASSUME MarksKept
  PROVE  MarksAreSeen
<1> SUFFICES ASSUME past.loads = 0, NEW t \in DOMAIN shown.columns, NEW i \in DOMAIN shown.columns[t],
                    NEW k \in 1 .. Len(shown.columns[t][i].frames),
                    shown.columns[t][i].monitors[Len(shown.columns[t][i].monitors) - k + 1] > 0
             PROVE  \E sample \in past.sampled :
                      /\ sample.thread = t /\ Len(sample.frames) >= k
                      /\ SubSeq(sample.frames, Len(sample.frames) - k + 1, Len(sample.frames))
                           = SubSeq(shown.columns[t][i].frames, Len(shown.columns[t][i].frames) - k + 1,
                                    Len(shown.columns[t][i].frames))
                      /\ sample.monitors[Len(sample.monitors) - k + 1] > 0
  BY Zenon DEF MarksAreSeen
<1>0. PICK stack : stack = shown.columns[t][i]
  OBVIOUS
<1>1. Earned(past.sampled, t, stack.frames, stack.monitors)
  BY <1>0 DEF MarksKept, ColumnEarned
<1>2. Held(past.sampled, t, stack.frames, k)
  BY <1>0, <1>1 DEF Earned, MarkAt
<1>3. PICK sample \in past.sampled :
        /\ sample.thread = t /\ Listed(sample.frames) /\ k <= Len(sample.frames)
        /\ SameOuter(sample.frames, stack.frames, k)
        /\ MarkAt(sample.monitors, k) > 0
  BY <1>2 DEF Held
<1>4. PICK a : a = sample.frames
  OBVIOUS
<1>5. PICK b : b = stack.frames
  OBVIOUS
<1>6. /\ Listed(a) /\ Listed(b) /\ k \in Nat /\ k <= Len(a) /\ k <= Len(b) /\ Len(a) \in Nat
      /\ SameOuter(a, b, k)
  BY <1>0, <1>1, <1>3, <1>4, <1>5, ListedDomain DEF Earned
<1>7. SubSeq(a, Len(a) - k + 1, Len(a)) = SubSeq(b, Len(b) - k + 1, Len(b))
  BY <1>6, OuterSame
<1>8. Len(a) >= k /\ sample.monitors[Len(sample.monitors) - k + 1] > 0
  BY <1>3, <1>6 DEF MarkAt
<1> QED BY <1>0, <1>3, <1>4, <1>5, <1>7, <1>8

(* Until a file is loaded, a frame in the traffic window is marked only if *)
(* a sample of its thread held a monitor there with the same frames        *)
(* beneath it: StackColumn::update hands marks from stack to sample to     *)
(* stack, and always to the frame that they belong to.                     *)
THEOREM MarksAreEarned == Spec => []MarksAreSeen
<1>1. Init => Shapes /\ WindowShapes /\ ColumnsKept /\ MarksKept
  <2>1. Init => MarksKept
    BY DEF Init, MarksKept, NewTables, NewPast, Nothing
  <2> QED BY <2>1, ShapesInit, WindowInit, ColumnsInit
<1>2. Shapes /\ WindowShapes /\ ColumnsKept /\ MarksKept /\ [Next]_vars
        => Shapes' /\ WindowShapes' /\ ColumnsKept' /\ MarksKept'
  BY ShapesStep, WindowStep, ColumnsStep, MarksStep
<1>3. MarksKept => MarksAreSeen
  BY MarksSeen
<1> QED BY <1>1, <1>2, <1>3, PTL DEF Spec
-----------------------------------------------------------------------------
(* What becomes of the lines of a file: signals of one key in a list,      *)
(* jammed reports and reports of signals under their keys.                 *)
OfKey(list, key) == Listed(list) /\ Len(list) > 0 /\ \A i \in 1 .. Len(list) : list[i].key = key

JamShape(report) == DOMAIN report = {"key", "monitors"}

JamsNamed(map) ==
  /\ IsFiniteSet(DOMAIN map)
  /\ \A key \in DOMAIN map : JamShape(map[key]) /\ map[key].key = key

SignalsNamed(map) == \A key \in DOMAIN map : OfKey(map[key].signals, key)

LEMMA SetToSeqOnce ==
  ASSUME NEW S, IsFiniteSet(S), NEW i \in 1 .. Cardinality(S), NEW j \in 1 .. Cardinality(S),
         SetToSeq(S)[i] = SetToSeq(S)[j]
  PROVE  i = j
<1>1. PICK n : n = Cardinality(S)
  OBVIOUS
<1>2. n \in Nat /\ ExistsBijection(1 .. n, S)
  BY <1>1, FS_CardinalityType
<1>3. \E f \in [1 .. n -> S] : IsInjective(f)
  BY <1>2 DEF ExistsBijection, Bijection, Injection
<1>4. PICK f : f = SetToSeq(S)
  OBVIOUS
<1>5. f \in [1 .. n -> S] /\ IsInjective(f)
  BY <1>1, <1>3, <1>4 DEF SetToSeq
<1> QED BY <1>1, <1>4, <1>5 DEF IsInjective

(* The reports of a listing are of different keys.                         *)
LEMMA ListingOrder ==
  ASSUME NEW map, IsFiniteSet(DOMAIN map), NEW list \in Listings(map)
  PROVE  \E order : /\ DOMAIN order = DOMAIN list
                    /\ \A i \in DOMAIN list : order[i] \in DOMAIN map /\ list[i] = map[order[i]]
                    /\ \A i, j \in DOMAIN list : order[i] = order[j] => i = j
<1>1. PICK n : n = Cardinality(DOMAIN map)
  OBVIOUS
<1>2. PICK order \in SetToSeqs(DOMAIN map) : list = [i \in DOMAIN order |-> map[order[i]]]
  BY DEF Listings
<1>3. order \in [1 .. n -> DOMAIN map] /\ \A i, j \in 1 .. n : i # j => order[i] # order[j]
  BY <1>1, <1>2 DEF SetToSeqs
<1>4. DOMAIN order = 1 .. n /\ DOMAIN list = 1 .. n /\ \A i \in 1 .. n : list[i] = map[order[i]]
  BY <1>2, <1>3
<1>5. \A i \in 1 .. n : order[i] \in DOMAIN map
  BY <1>3
<1>6. \A i, j \in 1 .. n : order[i] = order[j] => i = j
  BY <1>3
<1> QED BY <1>4, <1>5, <1>6

JamsPutIn(map, base, q, n) ==
  /\ JamsNamed(map)
  /\ DOMAIN map = DOMAIN base \cup {q[i].key : i \in 1 .. n}
  /\ (\A i, j \in 1 .. n : q[i].key = q[j].key => i = j) => \A i \in 1 .. n : map[q[i].key] = q[i]

LEMMA JamsPut ==
  ASSUME NEW base, JamsNamed(base), NEW n \in Nat, NEW q, DOMAIN q = 1 .. n, \A i \in 1 .. n : JamShape(q[i])
  PROVE  JamsPutIn(FoldLeft(PutJammed, base, q), base, q, n)
<1>1. PICK k : RunOf("jam", base, q, n, k) /\ FoldLeft(PutJammed, base, q) = k[n]
  BY JamFold
<1> DEFINE Once == \A i, j \in 1 .. n : q[i].key = q[j].key => i = j
           P == {i \in Nat : i <= n => /\ JamsNamed(k[i])
                                       /\ DOMAIN k[i] = DOMAIN base \cup {q[j].key : j \in 1 .. i}
                                       /\ Once => \A j \in 1 .. i : k[i][q[j].key] = q[j]}
<1>2. 0 \in P
  BY <1>1 DEF RunOf
<1>3. ASSUME NEW i \in Nat, i \in P PROVE i + 1 \in P
  <2> SUFFICES ASSUME i + 1 <= n
               PROVE  /\ JamsNamed(k[i + 1])
                      /\ DOMAIN k[i + 1] = DOMAIN base \cup {q[j].key : j \in 1 .. i + 1}
                      /\ Once => \A j \in 1 .. i + 1 : k[i + 1][q[j].key] = q[j]
    OBVIOUS
  <2>1. PICK a : a = k[i]
    OBVIOUS
  <2>2. /\ JamsNamed(a) /\ DOMAIN a = DOMAIN base \cup {q[j].key : j \in 1 .. i}
        /\ Once => \A j \in 1 .. i : a[q[j].key] = q[j]
    BY <1>3, <2>1
  <2>3. i + 1 \in 1 .. n /\ i + 1 - 1 = i /\ \A j \in 1 .. i : j \in 1 .. n /\ j # i + 1
    OBVIOUS
  <2>4. PICK report : report = q[i + 1]
    OBVIOUS
  <2>5. JamShape(report)
    BY <2>3, <2>4
  <2>6. PICK b : b = k[i + 1]
    OBVIOUS
  <2>7. b = Put(a, report.key, report)
    <3>1. b = PutJammed(a, report)
      BY <1>1, <2>1, <2>3, <2>4, <2>6 DEF RunOf, Applied
    <3> QED BY <3>1 DEF PutJammed
  <2>8. /\ DOMAIN b = DOMAIN a \cup {report.key} /\ b[report.key] = report
        /\ \A key \in DOMAIN a \ {report.key} : b[key] = a[key]
    BY <2>7 DEF Put
  <2>9. JamsNamed(b)
    <3>1. JamsNamed(a)
      BY <2>2
    <3> QED BY <2>5, <2>8, <3>1, FS_AddElement DEF JamsNamed
  <2>10. {q[j].key : j \in 1 .. i + 1} = {q[j].key : j \in 1 .. i} \cup {report.key}
    <3>1. 1 .. i + 1 = (1 .. i) \cup {i + 1}
      OBVIOUS
    <3> QED BY <2>4, <3>1
  <2>11. ASSUME Once, NEW j \in 1 .. i + 1 PROVE b[q[j].key] = q[j]
    <3>1. CASE j = i + 1
      BY <2>4, <2>8, <3>1
    <3>2. CASE j \in 1 .. i
      <4>1. q[j].key # report.key
        BY <2>3, <2>4, <2>11, <3>2
      <4>2. q[j].key \in DOMAIN a \ {report.key} /\ a[q[j].key] = q[j]
        BY <2>2, <2>11, <3>2, <4>1
      <4> QED BY <2>8, <4>2
    <3> QED BY <3>1, <3>2
  <2> QED BY <2>2, <2>6, <2>8, <2>9, <2>10, <2>11
<1>4. n \in P
  <2> HIDE DEF P
  <2> QED BY <1>2, <1>3, NatSetInduction
<1>5. PICK map : map = FoldLeft(PutJammed, base, q)
  OBVIOUS
<1>6. /\ JamsNamed(map) /\ DOMAIN map = DOMAIN base \cup {q[j].key : j \in 1 .. n}
      /\ Once => \A j \in 1 .. n : map[q[j].key] = q[j]
  BY <1>1, <1>4, <1>5
<1> QED BY <1>5, <1>6 DEF JamsPutIn

(* Rows of jammed reports of different keys are counted once each.         *)
RowsOf(rows, q, n) ==
  /\ DOMAIN rows = {q[i].key : i \in 1 .. n}
  /\ \A i \in 1 .. n : rows[q[i].key].count = 1 /\ rows[q[i].key].monitors = q[i].monitors

LEMMA RowsOnce ==
  ASSUME NEW n \in Nat, NEW q, DOMAIN q = 1 .. n, \A i, j \in 1 .. n : q[i].key = q[j].key => i = j
  PROVE  RowsOf(FoldLeft(JammedRow, Nothing, q), q, n)
<1>1. PICK k : RunOf("row", Nothing, q, n, k) /\ FoldLeft(JammedRow, Nothing, q) = k[n]
  BY RowFold
<1> DEFINE P == {i \in Nat : i <= n => RowsOf(k[i], q, i)}
<1>2. 0 \in P
  BY <1>1 DEF RunOf, Nothing, RowsOf
<1>3. ASSUME NEW i \in Nat, i \in P PROVE i + 1 \in P
  <2> SUFFICES ASSUME i + 1 <= n PROVE RowsOf(k[i + 1], q, i + 1)
    OBVIOUS
  <2>1. PICK a : a = k[i]
    OBVIOUS
  <2>2. /\ DOMAIN a = {q[j].key : j \in 1 .. i}
        /\ \A j \in 1 .. i : a[q[j].key].count = 1 /\ a[q[j].key].monitors = q[j].monitors
    BY <1>3, <2>1 DEF RowsOf
  <2>3. i + 1 \in 1 .. n /\ i + 1 - 1 = i /\ \A j \in 1 .. i : j \in 1 .. n /\ j # i + 1
    OBVIOUS
  <2>4. PICK report : report = q[i + 1]
    OBVIOUS
  <2>5. report.key \notin DOMAIN a
    BY <2>2, <2>3, <2>4
  <2>6. PICK b : b = k[i + 1]
    OBVIOUS
  <2>7. b = JammedRow(a, report)
    BY <1>1, <2>1, <2>3, <2>4, <2>6 DEF RunOf, Applied
  <2>8. b = Put(a, report.key, [[count |-> 0, monitors |-> report.monitors] EXCEPT !.count = @ + 1])
    BY <2>5, <2>7 DEF JammedRow, At
  <2>9. /\ DOMAIN b = DOMAIN a \cup {report.key}
        /\ b[report.key].count = 1 /\ b[report.key].monitors = report.monitors
        /\ \A key \in DOMAIN a : b[key] = a[key]
    BY <2>5, <2>8 DEF Put
  <2>10. ASSUME NEW j \in 1 .. i + 1
         PROVE  b[q[j].key].count = 1 /\ b[q[j].key].monitors = q[j].monitors
    <3>1. CASE j = i + 1
      BY <2>4, <2>9, <3>1
    <3>2. CASE j \in 1 .. i
      BY <2>2, <2>9, <3>2
    <3> QED BY <3>1, <3>2
  <2>11. DOMAIN b = {q[j].key : j \in 1 .. i} \cup {report.key}
    BY <2>2, <2>9
  <2>12. {q[j].key : j \in 1 .. i + 1} = {q[j].key : j \in 1 .. i} \cup {report.key}
    <3>1. 1 .. i + 1 = (1 .. i) \cup {i + 1}
      OBVIOUS
    <3> QED BY <2>4, <3>1
  <2> QED BY <2>6, <2>10, <2>11, <2>12 DEF RowsOf
<1>4. n \in P
  <2> HIDE DEF P
  <2> QED BY <1>2, <1>3, NatSetInduction
<1> QED BY <1>1, <1>4

(* Every class of a list is counted, whether it has a row or not.          *)
TimesOf(q, n, name) == {i \in 1 .. n : q[i].name = name}

LoadsAre(table, q, n) ==
  /\ DOMAIN table = {"rows", "loads", "methods", "expanded", "rowClass"}
  /\ DOMAIN table.loads = {q[i].name : i \in 1 .. n}
  /\ table.loads = [name \in DOMAIN table.loads |-> table.loads[name]]
  /\ \A name \in DOMAIN table.loads : table.loads[name] = Cardinality(TimesOf(q, n, name))

LEMMA LoadsCount ==
  ASSUME NEW n \in Nat, NEW q, DOMAIN q = 1 .. n
  PROVE  LoadsAre(FoldLeft(ClassLoaded, NewClassTable, q), q, n)
<1>1. PICK k : RunOf("class", NewClassTable, q, n, k) /\ FoldLeft(ClassLoaded, NewClassTable, q) = k[n]
  BY ClassFold
<1> DEFINE P == {i \in Nat : i <= n => LoadsAre(k[i], q, i)}
<1>2. 0 \in P
  <2>1. k[0] = NewClassTable
    BY <1>1 DEF RunOf
  <2>2. LoadsAre(NewClassTable, q, 0)
    BY DEF LoadsAre, NewClassTable, Nothing
  <2> QED BY <2>1, <2>2
<1>3. ASSUME NEW i \in Nat, i \in P PROVE i + 1 \in P
  <2> SUFFICES ASSUME i + 1 <= n PROVE LoadsAre(k[i + 1], q, i + 1)
    OBVIOUS
  <2>1. PICK a : a = k[i]
    OBVIOUS
  <2>2. LoadsAre(a, q, i)
    BY <1>3, <2>1
  <2>3. i + 1 \in 1 .. n /\ i + 1 - 1 = i
    OBVIOUS
  <2>4. PICK detail : detail = q[i + 1]
    OBVIOUS
  <2>5. PICK b : b = ClassLoaded(a, detail)
    OBVIOUS
  <2>6. k[i + 1] = b
    BY <1>1, <2>1, <2>3, <2>4, <2>5 DEF RunOf, Applied
  <2>7. PICK loads : loads = Counted(a.loads, detail.name)
    OBVIOUS
  <2>8. DOMAIN b = DOMAIN a /\ b.loads = loads
    <3>1. PICK counted : counted = [a EXCEPT !.loads = loads]
      OBVIOUS
    <3>2. DOMAIN counted = DOMAIN a /\ counted.loads = loads
      BY <2>2, <3>1 DEF LoadsAre
    <3>3. \/ b = counted
          \/ \E rows, methods : b = [counted EXCEPT !.rows = rows, !.methods = methods]
      BY <2>5, <2>7, <3>1 DEF ClassLoaded
    <3> QED BY <2>2, <3>2, <3>3 DEF LoadsAre
  <2>9. PICK name : name = detail.name
    OBVIOUS
  <2>10. /\ DOMAIN loads = DOMAIN a.loads \cup {name} /\ loads[name] = At(a.loads, name, 0) + 1
         /\ \A x \in DOMAIN a.loads \ {name} : loads[x] = a.loads[x]
    BY <2>7, <2>9 DEF Counted, Put
  <2>11. 1 .. i + 1 = (1 .. i) \cup {i + 1} /\ i + 1 \notin 1 .. i
    OBVIOUS
  <2>12. TimesOf(q, i + 1, name) = TimesOf(q, i, name) \cup {i + 1} /\ i + 1 \notin TimesOf(q, i, name)
    BY <2>4, <2>9, <2>11 DEF TimesOf
  <2>13. IsFiniteSet(TimesOf(q, i, name))
    BY FS_Interval, FS_Subset DEF TimesOf
  <2>14. Cardinality(TimesOf(q, i + 1, name)) = Cardinality(TimesOf(q, i, name)) + 1
    BY <2>12, <2>13, FS_AddElement
  <2>15. At(a.loads, name, 0) = Cardinality(TimesOf(q, i, name))
    <3>1. CASE name \in DOMAIN a.loads
      BY <2>2, <3>1 DEF At, LoadsAre
    <3>2. CASE name \notin DOMAIN a.loads
      <4>1. TimesOf(q, i, name) = {}
        BY <2>2, <3>2 DEF LoadsAre, TimesOf
      <4> QED BY <3>2, <4>1, FS_EmptySet DEF At
    <3> QED BY <3>1, <3>2
  <2>16. ASSUME NEW x \in DOMAIN a.loads \ {name} PROVE loads[x] = Cardinality(TimesOf(q, i + 1, x))
    <3>1. TimesOf(q, i + 1, x) = TimesOf(q, i, x)
      BY <2>4, <2>9, <2>11 DEF TimesOf
    <3> QED BY <2>2, <2>10, <3>1 DEF LoadsAre
  <2>17. DOMAIN loads = {q[j].name : j \in 1 .. i + 1}
    BY <2>2, <2>4, <2>9, <2>10, <2>11 DEF LoadsAre
  <2>18. loads = [x \in DOMAIN loads |-> loads[x]]
    BY <2>7 DEF Counted, Put
  <2> QED BY <2>2, <2>6, <2>8, <2>10, <2>14, <2>15, <2>16, <2>17, <2>18 DEF LoadsAre
<1>4. n \in P
  <2> HIDE DEF P
  <2> QED BY <1>2, <1>3, NatSetInduction
<1> QED BY <1>1, <1>4

(* The report of a list of signals has that list.                          *)
LEMMA ReportHasSignals ==
  ASSUME NEW signals, Listed(signals)
  PROVE  SignalReportOf(signals).signals = signals
<1>1. PICK n \in Nat : n = Len(signals) /\ DOMAIN signals = 1 .. n
  BY ListedDomain
<1>2. PICK k : RunOf("signal", NewSignalReport, signals, n, k) /\ SignalReportOf(signals) = k[n]
  BY <1>1, SignalFold DEF SignalReportOf
<1> DEFINE P == {i \in Nat : i <= n => /\ Listed(k[i].signals) /\ Len(k[i].signals) = i
                                       /\ \A j \in 1 .. i : k[i].signals[j] = signals[j]}
<1>3. 0 \in P
  BY <1>2, ListedEmpty DEF RunOf, NewSignalReport
<1>4. ASSUME NEW i \in Nat, i \in P PROVE i + 1 \in P
  <2> SUFFICES ASSUME i + 1 <= n
               PROVE  /\ Listed(k[i + 1].signals) /\ Len(k[i + 1].signals) = i + 1
                      /\ \A j \in 1 .. i + 1 : k[i + 1].signals[j] = signals[j]
    OBVIOUS
  <2>1. PICK list : list = k[i].signals
    OBVIOUS
  <2>2. Listed(list) /\ Len(list) = i /\ \A j \in 1 .. i : list[j] = signals[j]
    BY <1>4, <2>1
  <2>3. i + 1 \in 1 .. n /\ i + 1 - 1 = i
    OBVIOUS
  <2>4. PICK signal : signal = signals[i + 1]
    OBVIOUS
  <2>5. k[i + 1].signals = Append(list, signal)
    <3>1. k[i + 1] = SignalAdd(k[i], signal)
      BY <1>2, <2>3, <2>4 DEF RunOf, Applied
    <3> QED BY <2>1, <3>1 DEF SignalAdd
  <2>6. PICK new : new = Append(list, signal)
    OBVIOUS
  <2>7. /\ Listed(new) /\ Len(new) = i + 1 /\ new[i + 1] = signal
        /\ \A j \in 1 .. i : new[j] = list[j]
    BY <2>2, <2>6, ListedAppend
  <2>8. \A j \in 1 .. i + 1 : j \in 1 .. i \/ j = i + 1
    OBVIOUS
  <2> QED BY <2>2, <2>4, <2>5, <2>6, <2>7, <2>8
<1>5. n \in P
  <2> HIDE DEF P
  <2> QED BY <1>3, <1>4, NatSetInduction
<1>6. PICK list : list = k[n].signals
  OBVIOUS
<1>7. Listed(list) /\ Len(list) = n /\ \A j \in 1 .. n : list[j] = signals[j]
  BY <1>5, <1>6
<1> QED BY <1>1, <1>2, <1>6, <1>7, ListedSame

SignalsPutIn(map, base, q, n, name) ==
  /\ SignalsNamed(map)
  /\ DOMAIN map = DOMAIN base \cup {name[i] : i \in 1 .. n}
  /\ (\A i, j \in 1 .. n : name[i] = name[j] => i = j) => \A i \in 1 .. n : map[name[i]] = q[i]

LEMMA SignalsPut ==
  ASSUME NEW base, SignalsNamed(base), NEW n \in Nat, NEW q, DOMAIN q = 1 .. n,
         NEW name, \A i \in 1 .. n : OfKey(q[i].signals, name[i])
  PROVE  SignalsPutIn(FoldLeft(PutSignals, base, q), base, q, n, name)
<1>1. PICK k : RunOf("signals", base, q, n, k) /\ FoldLeft(PutSignals, base, q) = k[n]
  BY SignalsFold
<1> DEFINE Once == \A i, j \in 1 .. n : name[i] = name[j] => i = j
           P == {i \in Nat : i <= n => /\ SignalsNamed(k[i])
                                       /\ DOMAIN k[i] = DOMAIN base \cup {name[j] : j \in 1 .. i}
                                       /\ Once => \A j \in 1 .. i : k[i][name[j]] = q[j]}
<1>2. 0 \in P
  BY <1>1 DEF RunOf
<1>3. ASSUME NEW i \in Nat, i \in P PROVE i + 1 \in P
  <2> SUFFICES ASSUME i + 1 <= n
               PROVE  /\ SignalsNamed(k[i + 1])
                      /\ DOMAIN k[i + 1] = DOMAIN base \cup {name[j] : j \in 1 .. i + 1}
                      /\ Once => \A j \in 1 .. i + 1 : k[i + 1][name[j]] = q[j]
    OBVIOUS
  <2>1. PICK a : a = k[i]
    OBVIOUS
  <2>2. /\ SignalsNamed(a)
        /\ DOMAIN a = DOMAIN base \cup {name[j] : j \in 1 .. i}
        /\ Once => \A j \in 1 .. i : a[name[j]] = q[j]
    BY <1>3, <2>1
  <2>3. i + 1 \in 1 .. n /\ i + 1 - 1 = i /\ \A j \in 1 .. i : j \in 1 .. n /\ j # i + 1
    OBVIOUS
  <2>4. PICK report, key : report = q[i + 1] /\ key = name[i + 1]
    OBVIOUS
  <2>5. key = report.signals[1].key /\ OfKey(report.signals, key)
    <3>1. OfKey(report.signals, key)
      BY <2>3, <2>4
    <3> QED BY <3>1 DEF OfKey
  <2>6. PICK b : b = k[i + 1]
    OBVIOUS
  <2>7. b = Put(a, key, report)
    <3>1. b = PutSignals(a, report)
      BY <1>1, <2>1, <2>3, <2>4, <2>6 DEF RunOf, Applied
    <3> QED BY <2>5, <3>1 DEF PutSignals
  <2>8. /\ DOMAIN b = DOMAIN a \cup {key} /\ b[key] = report
        /\ \A x \in DOMAIN a \ {key} : b[x] = a[x]
    BY <2>7 DEF Put
  <2>9. SignalsNamed(b)
    BY <2>2, <2>5, <2>8 DEF SignalsNamed
  <2>10. {name[j] : j \in 1 .. i + 1} = {name[j] : j \in 1 .. i} \cup {key}
    <3>1. 1 .. i + 1 = (1 .. i) \cup {i + 1}
      OBVIOUS
    <3> QED BY <2>4, <3>1
  <2>11. ASSUME Once, NEW j \in 1 .. i + 1 PROVE b[name[j]] = q[j]
    <3>1. CASE j = i + 1
      BY <2>4, <2>8, <3>1
    <3>2. CASE j \in 1 .. i
      <4>1. name[j] # key
        BY <2>3, <2>4, <2>11, <3>2
      <4>2. name[j] \in DOMAIN a \ {key} /\ a[name[j]] = q[j]
        BY <2>2, <2>11, <3>2, <4>1
      <4> QED BY <2>8, <4>2
    <3> QED BY <3>1, <3>2
  <2> QED BY <2>2, <2>6, <2>8, <2>9, <2>10, <2>11
<1>4. n \in P
  <2> HIDE DEF P
  <2> QED BY <1>2, <1>3, NatSetInduction
<1>5. PICK map : map = FoldLeft(PutSignals, base, q)
  OBVIOUS
<1>6. /\ SignalsNamed(map) /\ DOMAIN map = DOMAIN base \cup {name[j] : j \in 1 .. n}
      /\ Once => \A j \in 1 .. n : map[name[j]] = q[j]
  BY <1>1, <1>4, <1>5
<1> QED BY <1>5, <1>6 DEF SignalsPutIn
-----------------------------------------------------------------------------
(* What the session and the windows keep under their keys.                 *)
ClassesNamed(list) == Listed(list) /\ \A i \in DOMAIN list : "name" \in DOMAIN list[i]

SessionNamed(s) == ClassesNamed(s.classes) /\ JamsNamed(s.jammed) /\ SignalsNamed(s.signals)

SameLists(g, h) == g.shown.jams = h.shown.jams /\ g.shown.classes = h.shown.classes

LEMMA AddSignalNamed ==
  ASSUME NEW s, SessionShape(s), SessionNamed(s), NEW signal
  PROVE  SessionNamed(AddSignal(s, signal))
<1>1. PICK reports : reports = SignalsWith(s.signals, signal)
  OBVIOUS
<1>2. PICK old : old = At(s.signals, signal.key, NewSignalReport)
  OBVIOUS
<1>3. /\ DOMAIN reports = DOMAIN s.signals \cup {signal.key}
      /\ reports[signal.key] = SignalAdd(old, signal)
      /\ \A k \in DOMAIN s.signals \ {signal.key} : reports[k] = s.signals[k]
  <2> HIDE DEF SignalAdd
  <2> QED BY <1>1, <1>2 DEF SignalsWith, Put
<1>4. PICK list, new : list = old.signals /\ new = Append(list, signal)
  OBVIOUS
<1>5. Listed(list) /\ Len(list) \in Nat /\ \A i \in 1 .. Len(list) : list[i].key = signal.key
  <2>1. CASE signal.key \in DOMAIN s.signals
    BY <1>2, <1>4, <2>1, ListedDomain DEF At, SessionNamed, SignalsNamed, OfKey
  <2>2. CASE signal.key \notin DOMAIN s.signals
    <3>1. list = <<>>
      BY <1>2, <1>4, <2>2 DEF At, NewSignalReport
    <3> QED BY <3>1, ListedEmpty
  <2> QED BY <2>1, <2>2
<1>6. /\ Listed(new) /\ Len(new) = Len(list) + 1 /\ new[Len(list) + 1] = signal
      /\ \A i \in 1 .. Len(list) : new[i] = list[i]
  BY <1>4, <1>5, ListedAppend
<1>7. OfKey(new, signal.key)
  <2>1. \A i \in 1 .. Len(list) + 1 : i \in 1 .. Len(list) \/ i = Len(list) + 1
    BY <1>5
  <2> QED BY <1>5, <1>6, <2>1 DEF OfKey
<1>8. reports[signal.key].signals = new
  BY <1>3, <1>4 DEF SignalAdd
<1>9. SignalsNamed(reports)
  BY <1>3, <1>7, <1>8 DEF SessionNamed, SignalsNamed
<1>10. PICK t : t = AddSignal(s, signal)
  OBVIOUS
<1>11. t.signals = reports /\ t.classes = s.classes /\ t.jammed = s.jammed
  BY <1>1, <1>10 DEF AddSignal, SessionShape
<1> QED BY <1>9, <1>10, <1>11 DEF SessionNamed

LEMMA AddTimerNamed ==
  ASSUME NEW s, SessionShape(s), SessionNamed(s), NEW report
  PROVE  SessionNamed(AddTimer(s, report))
<1>1. PICK t, timers : t = AddTimer(s, report) /\ t = [s EXCEPT !.timers = timers]
  BY DEF AddTimer
<1>2. t.signals = s.signals /\ t.classes = s.classes /\ t.jammed = s.jammed
  BY <1>1 DEF SessionShape
<1> QED BY <1>1, <1>2 DEF SessionNamed

LEMMA ListUpdatedLists ==
  ASSUME NEW g, GuiShape(g), NEW signal
  PROVE  /\ SameLists(ListUpdated(g, signal), g)
         /\ ListUpdated(g, signal).session = AddSignal(g.session, signal)
<1>1. PICK h : h = ListUpdated(g, signal)
  OBVIOUS
<1>2. PICK s : s = AddSignal(g.session, signal)
  OBVIOUS
<1>3. PICK a, b, c, d : h = [g EXCEPT !.main.signals = a, !.main.holders = b, !.session = s,
                                      !.shown.signals = c, !.windows.signals = d]
  BY <1>1, <1>2 DEF ListUpdated
<1>4. h.session = s /\ h.shown = [g.shown EXCEPT !.signals = c]
  BY <1>3 DEF GuiShape
<1>5. h.shown.jams = g.shown.jams /\ h.shown.classes = g.shown.classes
  BY <1>4 DEF GuiShape
<1> QED BY <1>1, <1>2, <1>4, <1>5 DEF SameLists

LEMMA TimedLists ==
  ASSUME NEW g, GuiShape(g), NEW report
  PROVE  /\ SameLists(TimedListUpdated(g, report), g)
         /\ TimedListUpdated(g, report).session = AddTimer(g.session, report)
<1>1. PICK h : h = TimedListUpdated(g, report)
  OBVIOUS
<1>2. PICK s : s = AddTimer(g.session, report)
  OBVIOUS
<1>3. PICK a : h = [g EXCEPT !.session = s, !.shown.timers = a]
  BY <1>1, <1>2 DEF TimedListUpdated
<1>4. h.session = s /\ h.shown = [g.shown EXCEPT !.timers = a]
  BY <1>3 DEF GuiShape
<1>5. h.shown.jams = g.shown.jams /\ h.shown.classes = g.shown.classes
  BY <1>4 DEF GuiShape
<1> QED BY <1>1, <1>2, <1>4, <1>5 DEF SameLists

(* One signal more, in the table.                                          *)
LEMMA ListUpdatedCounts ==
  ASSUME NEW g, GuiShape(g), NEW signal, NEW n \in Nat,
         At(g.main.signals, signal.key, NewSignalReport).count = n
  PROVE  LET h == ListUpdated(g, signal)
         IN  /\ DOMAIN h.main.signals = DOMAIN g.main.signals \cup {signal.key}
             /\ h.main.signals[signal.key].count = n + 1 /\ h.shown.signals[signal.key] = n + 1
             /\ \A key \in DOMAIN g.main.signals \ {signal.key} : h.main.signals[key] = g.main.signals[key]
             /\ DOMAIN g.shown.signals \subseteq DOMAIN h.shown.signals
             /\ \A key \in DOMAIN g.shown.signals \ {signal.key} : h.shown.signals[key] = g.shown.signals[key]
<1>1. PICK h : h = ListUpdated(g, signal)
  OBVIOUS
<1>2. PICK reports : reports = SignalsWith(g.main.signals, signal)
  OBVIOUS
<1>3. PICK old : old = At(g.main.signals, signal.key, NewSignalReport)
  OBVIOUS
<1>4. /\ DOMAIN reports = DOMAIN g.main.signals \cup {signal.key}
      /\ reports[signal.key] = SignalAdd(old, signal)
      /\ \A key \in DOMAIN g.main.signals \ {signal.key} : reports[key] = g.main.signals[key]
  <2> HIDE DEF SignalAdd
  <2> QED BY <1>2, <1>3 DEF SignalsWith, Put
<1>5. reports[signal.key].count = n + 1
  BY <1>3, <1>4 DEF SignalAdd
<1>6. h.main.signals = reports /\ h.shown.signals = Put(g.shown.signals, signal.key, n + 1)
  BY <1>1, <1>2, <1>5, ListUpdatedShape
<1>7. PICK rows : rows = h.shown.signals
  OBVIOUS
<1>8. /\ DOMAIN rows = DOMAIN g.shown.signals \cup {signal.key} /\ rows[signal.key] = n + 1
      /\ \A key \in DOMAIN g.shown.signals \ {signal.key} : rows[key] = g.shown.signals[key]
  BY <1>6, <1>7 DEF Put
<1> QED BY <1>1, <1>4, <1>5, <1>6, <1>7, <1>8

(* What showing signals keeps of the rest.                                 *)
Kept(g, h) ==
  /\ GuiShape(h) /\ SameLists(h, g)
  /\ SessionNamed(g.session) => SessionNamed(h.session)

LEMMA ListUpdatedKept ==
  ASSUME NEW g, GuiShape(g), NEW signal
  PROVE  Kept(g, ListUpdated(g, signal))
<1>1. PICK h : h = ListUpdated(g, signal)
  OBVIOUS
<1>2. GuiShape(h)
  BY <1>1, ListUpdatedShape
<1>3. SameLists(h, g) /\ h.session = AddSignal(g.session, signal)
  BY <1>1, ListUpdatedLists
<1>4. PICK s : s = g.session
  OBVIOUS
<1>5. SessionNamed(s) => SessionNamed(AddSignal(s, signal))
  BY <1>4, AddSignalNamed DEF GuiShape
<1> QED BY <1>1, <1>2, <1>3, <1>4, <1>5 DEF Kept

LEMMA TimedKept ==
  ASSUME NEW g, GuiShape(g), NEW report
  PROVE  Kept(g, TimedListUpdated(g, report)) /\ SameSignals(TimedListUpdated(g, report), g)
<1>1. PICK h : h = TimedListUpdated(g, report)
  OBVIOUS
<1>2. GuiShape(h) /\ SameSignals(h, g)
  BY <1>1, TimedShape
<1>3. SameLists(h, g) /\ h.session = AddTimer(g.session, report)
  BY <1>1, TimedLists
<1>4. PICK s : s = g.session
  OBVIOUS
<1>5. SessionNamed(s) => SessionNamed(AddTimer(s, report))
  BY <1>4, AddTimerNamed DEF GuiShape
<1> QED BY <1>1, <1>2, <1>3, <1>4, <1>5 DEF Kept

LEMMA KeptTwice ==
  ASSUME NEW f, NEW g, NEW h, Kept(f, g), Kept(g, h)
  PROVE  Kept(f, h)
BY DEF Kept, SameLists

LEMMA KeptSame ==
  ASSUME NEW g, GuiShape(g)
  PROVE  Kept(g, g)
BY DEF Kept, SameLists

(* The signals of one report of a file, of a key that is not shown yet.    *)
Shows(g, h, key, n) ==
  /\ DOMAIN h.main.signals = DOMAIN g.main.signals \cup {key}
  /\ h.main.signals[key].count = n /\ key \in DOMAIN h.shown.signals /\ h.shown.signals[key] = n
  /\ DOMAIN g.shown.signals \subseteq DOMAIN h.shown.signals
  /\ \A x \in DOMAIN g.shown.signals \ {key} : h.shown.signals[x] = g.shown.signals[x]

LEMMA SignalsShownKept ==
  ASSUME NEW g, GuiShape(g), NEW signals, Listed(signals)
  PROVE  Kept(g, SignalsShown(g, signals))
<1>1. PICK n \in Nat : DOMAIN signals = 1 .. n
  BY ListedDomain
<1>2. PICK k : RunOf("list", g, signals, n, k) /\ SignalsShown(g, signals) = k[n]
  BY <1>1, ListFold DEF SignalsShown
<1> DEFINE P == {i \in Nat : i <= n => Kept(g, k[i])}
<1>3. 0 \in P
  BY <1>2, KeptSame DEF RunOf
<1>4. ASSUME NEW i \in Nat, i \in P PROVE i + 1 \in P
  <2> SUFFICES ASSUME i + 1 <= n PROVE Kept(g, k[i + 1])
    OBVIOUS
  <2>1. Kept(g, k[i])
    BY <1>4
  <2>2. i + 1 \in 1 .. n /\ i + 1 - 1 = i
    OBVIOUS
  <2>3. k[i + 1] = ListUpdated(k[i], signals[i + 1])
    BY <1>2, <2>2 DEF RunOf, Applied
  <2>4. PICK a, b : a = k[i] /\ b = ListUpdated(a, signals[i + 1])
    OBVIOUS
  <2>5. Kept(a, b)
    BY <2>1, <2>4, ListUpdatedKept DEF Kept
  <2> QED BY <2>1, <2>3, <2>4, <2>5, KeptTwice
<1>5. n \in P
  <2> HIDE DEF P
  <2> QED BY <1>3, <1>4, NatSetInduction
<1> QED BY <1>2, <1>5

LEMMA SignalsShownCount ==
  ASSUME NEW g, GuiShape(g), NEW signals, NEW key, OfKey(signals, key), key \notin DOMAIN g.main.signals
  PROVE  Shows(g, SignalsShown(g, signals), key, Len(signals))
<1>1. PICK n \in Nat : n = Len(signals) /\ DOMAIN signals = 1 .. n /\ n > 0
  BY ListedDomain DEF OfKey
<1>2. PICK k : RunOf("list", g, signals, n, k) /\ SignalsShown(g, signals) = k[n]
  BY <1>1, ListFold DEF SignalsShown
<1> DEFINE P == {i \in Nat : i <= n => GuiShape(k[i]) /\ IF i = 0 THEN k[i] = g ELSE Shows(g, k[i], key, i)}
<1>3. 0 \in P
  BY <1>2 DEF RunOf
<1>4. ASSUME NEW i \in Nat, i \in P PROVE i + 1 \in P
  <2> SUFFICES ASSUME i + 1 <= n PROVE GuiShape(k[i + 1]) /\ Shows(g, k[i + 1], key, i + 1)
    OBVIOUS
  <2>1. PICK a : a = k[i]
    OBVIOUS
  <2>2. GuiShape(a) /\ IF i = 0 THEN a = g ELSE Shows(g, a, key, i)
    BY <1>4, <2>1
  <2>3. i + 1 \in 1 .. n /\ i + 1 - 1 = i
    OBVIOUS
  <2>4. PICK signal : signal = signals[i + 1]
    OBVIOUS
  <2>5. signal.key = key
    BY <1>1, <2>3, <2>4 DEF OfKey
  <2>6. PICK b : b = ListUpdated(a, signal)
    OBVIOUS
  <2>7. k[i + 1] = b
    BY <1>2, <2>1, <2>3, <2>4, <2>6 DEF RunOf, Applied
  <2>8. GuiShape(b)
    BY <2>2, <2>6, ListUpdatedShape
  <2>9. At(a.main.signals, signal.key, NewSignalReport).count = i
    <3>1. CASE i = 0
      BY <2>2, <2>5, <3>1 DEF At, NewSignalReport
    <3>2. CASE i # 0
      BY <2>2, <2>5, <3>2 DEF At, Shows
    <3> QED BY <3>1, <3>2
  <2>10. /\ DOMAIN b.main.signals = DOMAIN a.main.signals \cup {key}
         /\ b.main.signals[key].count = i + 1 /\ b.shown.signals[key] = i + 1
         /\ DOMAIN a.shown.signals \subseteq DOMAIN b.shown.signals
         /\ \A x \in DOMAIN a.shown.signals \ {key} : b.shown.signals[x] = a.shown.signals[x]
    BY <2>2, <2>5, <2>6, <2>9, ListUpdatedCounts
  <2>11. key \in DOMAIN b.shown.signals
    <3>1. b.shown.signals = Put(a.shown.signals, signal.key, SignalsWith(a.main.signals, signal)[signal.key].count)
      BY <2>2, <2>6, ListUpdatedShape
    <3> QED BY <2>5, <3>1 DEF Put
  <2>12. Shows(g, b, key, i + 1)
    <3>1. CASE i = 0
      BY <2>2, <2>10, <2>11, <3>1 DEF Shows
    <3>2. CASE i # 0
      BY <2>2, <2>10, <2>11, <3>2 DEF Shows
    <3> QED BY <3>1, <3>2
  <2> QED BY <2>7, <2>8, <2>12
<1>5. n \in P
  <2> HIDE DEF P
  <2> QED BY <1>3, <1>4, NatSetInduction
<1> QED BY <1>1, <1>2, <1>5

LEMMA ListsShownKept ==
  ASSUME NEW g, GuiShape(g), NEW lists, Listed(lists), \A i \in DOMAIN lists : Listed(lists[i])
  PROVE  Kept(g, FoldLeft(SignalsShown, g, lists))
<1>1. PICK n \in Nat : DOMAIN lists = 1 .. n
  BY ListedDomain
<1>2. PICK k : RunOf("lists", g, lists, n, k) /\ FoldLeft(SignalsShown, g, lists) = k[n]
  BY <1>1, ListsFold
<1> DEFINE P == {i \in Nat : i <= n => Kept(g, k[i])}
<1>3. 0 \in P
  BY <1>2, KeptSame DEF RunOf
<1>4. ASSUME NEW i \in Nat, i \in P PROVE i + 1 \in P
  <2> SUFFICES ASSUME i + 1 <= n PROVE Kept(g, k[i + 1])
    OBVIOUS
  <2>1. Kept(g, k[i])
    BY <1>4
  <2>2. i + 1 \in 1 .. n /\ i + 1 - 1 = i
    OBVIOUS
  <2>3. k[i + 1] = SignalsShown(k[i], lists[i + 1])
    BY <1>2, <2>2 DEF RunOf, Applied
  <2>4. PICK a, b : a = k[i] /\ b = SignalsShown(a, lists[i + 1])
    OBVIOUS
  <2>5. Kept(a, b)
    BY <1>1, <2>1, <2>2, <2>4, SignalsShownKept DEF Kept
  <2> QED BY <2>1, <2>3, <2>4, <2>5, KeptTwice
<1>5. n \in P
  <2> HIDE DEF P
  <2> QED BY <1>3, <1>4, NatSetInduction
<1> QED BY <1>2, <1>5

(* The reports of a file, of different keys none of which is shown yet.    *)
LEMMA ListsShownCount ==
  ASSUME NEW g, GuiShape(g), DOMAIN g.main.signals = {}, NEW n \in Nat, NEW lists, DOMAIN lists = 1 .. n,
         NEW name, \A i \in 1 .. n : OfKey(lists[i], name[i]), \A i, j \in 1 .. n : name[i] = name[j] => i = j
  PROVE  \A i \in 1 .. n : FoldLeft(SignalsShown, g, lists).shown.signals[name[i]] = Len(lists[i])
<1>1. PICK k : RunOf("lists", g, lists, n, k) /\ FoldLeft(SignalsShown, g, lists) = k[n]
  BY ListsFold
<1> DEFINE P == {i \in Nat : i <= n => /\ GuiShape(k[i])
                                       /\ DOMAIN k[i].main.signals = {name[j] : j \in 1 .. i}
                                       /\ \A j \in 1 .. i : /\ name[j] \in DOMAIN k[i].shown.signals
                                                            /\ k[i].shown.signals[name[j]] = Len(lists[j])}
<1>2. 0 \in P
  BY <1>1 DEF RunOf
<1>3. ASSUME NEW i \in Nat, i \in P PROVE i + 1 \in P
  <2> SUFFICES ASSUME i + 1 <= n
               PROVE  /\ GuiShape(k[i + 1])
                      /\ DOMAIN k[i + 1].main.signals = {name[j] : j \in 1 .. i + 1}
                      /\ \A j \in 1 .. i + 1 : /\ name[j] \in DOMAIN k[i + 1].shown.signals
                                               /\ k[i + 1].shown.signals[name[j]] = Len(lists[j])
    OBVIOUS
  <2>1. PICK a : a = k[i]
    OBVIOUS
  <2>2. /\ GuiShape(a) /\ DOMAIN a.main.signals = {name[j] : j \in 1 .. i}
        /\ \A j \in 1 .. i : name[j] \in DOMAIN a.shown.signals /\ a.shown.signals[name[j]] = Len(lists[j])
    BY <1>3, <2>1
  <2>3. i + 1 \in 1 .. n /\ i + 1 - 1 = i /\ \A j \in 1 .. i : j \in 1 .. n /\ j # i + 1
    OBVIOUS
  <2>4. PICK list, key : list = lists[i + 1] /\ key = name[i + 1]
    OBVIOUS
  <2>5. OfKey(list, key) /\ key \notin DOMAIN a.main.signals /\ \A j \in 1 .. i : name[j] # key
    BY <2>2, <2>3, <2>4
  <2>6. PICK b : b = SignalsShown(a, list)
    OBVIOUS
  <2>7. k[i + 1] = b
    BY <1>1, <2>1, <2>3, <2>4, <2>6 DEF RunOf, Applied
  <2>8. Shows(a, b, key, Len(list))
    BY <2>2, <2>5, <2>6, SignalsShownCount
  <2>9. GuiShape(b)
    BY <2>2, <2>5, <2>6, SignalsShownKept DEF Kept, OfKey
  <2>10. {name[j] : j \in 1 .. i + 1} = {name[j] : j \in 1 .. i} \cup {key}
    <3>1. 1 .. i + 1 = (1 .. i) \cup {i + 1}
      OBVIOUS
    <3> QED BY <2>4, <3>1
  <2>11. ASSUME NEW j \in 1 .. i + 1
         PROVE  name[j] \in DOMAIN b.shown.signals /\ b.shown.signals[name[j]] = Len(lists[j])
    <3>1. CASE j = i + 1
      BY <2>4, <2>8, <3>1 DEF Shows
    <3>2. CASE j \in 1 .. i
      BY <2>2, <2>5, <2>8, <3>2 DEF Shows
    <3> QED BY <3>1, <3>2
  <2> QED BY <2>2, <2>7, <2>8, <2>9, <2>10, <2>11 DEF Shows
<1>4. n \in P
  <2> HIDE DEF P
  <2> QED BY <1>2, <1>3, NatSetInduction
<1> QED BY <1>1, <1>4

LEMMA TimersShownKept ==
  ASSUME NEW g, GuiShape(g), NEW timers, Listed(timers)
  PROVE  /\ Kept(g, FoldLeft(TimedListUpdated, g, timers))
         /\ FoldLeft(TimedListUpdated, g, timers).shown.signals = g.shown.signals
<1>1. PICK n \in Nat : DOMAIN timers = 1 .. n
  BY ListedDomain
<1>2. PICK k : RunOf("timed", g, timers, n, k) /\ FoldLeft(TimedListUpdated, g, timers) = k[n]
  BY <1>1, TimedFold
<1> DEFINE P == {i \in Nat : i <= n => Kept(g, k[i]) /\ k[i].shown.signals = g.shown.signals}
<1>3. 0 \in P
  BY <1>2, KeptSame DEF RunOf
<1>4. ASSUME NEW i \in Nat, i \in P PROVE i + 1 \in P
  <2> SUFFICES ASSUME i + 1 <= n PROVE Kept(g, k[i + 1]) /\ k[i + 1].shown.signals = g.shown.signals
    OBVIOUS
  <2>1. Kept(g, k[i]) /\ k[i].shown.signals = g.shown.signals
    BY <1>4
  <2>2. i + 1 \in 1 .. n /\ i + 1 - 1 = i
    OBVIOUS
  <2>3. k[i + 1] = TimedListUpdated(k[i], timers[i + 1])
    BY <1>2, <2>2 DEF RunOf, Applied
  <2>4. PICK a, b : a = k[i] /\ b = TimedListUpdated(a, timers[i + 1])
    OBVIOUS
  <2>5. Kept(a, b) /\ b.shown.signals = a.shown.signals
    BY <2>1, <2>4, TimedKept DEF Kept, SameSignals
  <2> QED BY <2>1, <2>3, <2>4, <2>5, KeptTwice
<1>5. n \in P
  <2> HIDE DEF P
  <2> QED BY <1>3, <1>4, NatSetInduction
<1> QED BY <1>2, <1>5
-----------------------------------------------------------------------------
(* A session that is loaded, in the windows, step by step.                 *)
LEMMA TraceShownLists ==
  ASSUME NEW tables, TablesShape(tables), NEW trace
  PROVE  /\ TraceShown(tables, trace).jams = tables.jams
         /\ TraceShown(tables, trace).classes = tables.classes
<1>1. \E a, b, c : TraceShown(tables, trace) = [tables EXCEPT !.columns = a, !.cells = b, !.marks = c]
  BY DEF TraceShown
<1> QED BY <1>1 DEF TablesShape

LEMMA TrafficShownLists ==
  ASSUME NEW tables, TablesShape(tables), NEW traces, Listed(traces)
  PROVE  /\ TrafficShown(tables, traces).jams = tables.jams
         /\ TrafficShown(tables, traces).classes = tables.classes
<1>1. PICK n \in Nat : DOMAIN traces = 1 .. n
  BY ListedDomain
<1>2. PICK k : RunOf("trace", tables, traces, n, k) /\ TrafficShown(tables, traces) = k[n]
  BY <1>1, TraceFold DEF TrafficShown
<1> DEFINE P == {i \in Nat : i <= n => TablesShape(k[i]) /\ k[i].jams = tables.jams /\ k[i].classes = tables.classes}
<1>3. 0 \in P
  BY <1>2 DEF RunOf
<1>4. ASSUME NEW i \in Nat, i \in P PROVE i + 1 \in P
  <2> SUFFICES ASSUME i + 1 <= n
               PROVE  TablesShape(k[i + 1]) /\ k[i + 1].jams = tables.jams /\ k[i + 1].classes = tables.classes
    OBVIOUS
  <2>1. TablesShape(k[i]) /\ k[i].jams = tables.jams /\ k[i].classes = tables.classes
    BY <1>4
  <2>2. i + 1 \in 1 .. n /\ i + 1 - 1 = i
    OBVIOUS
  <2>3. k[i + 1] = TraceShown(k[i], traces[i + 1])
    BY <1>2, <2>2 DEF RunOf, Applied
  <2> QED BY <2>1, <2>3, TraceShownShape, TraceShownLists
<1>5. n \in P
  <2> HIDE DEF P
  <2> QED BY <1>3, <1>4, NatSetInduction
<1> QED BY <1>2, <1>5

(* The windows before the signals and the timers of a session are shown.   *)
Begun(g, loaded) ==
  /\ GuiShape(g) /\ g.session = loaded /\ g.main = main
  /\ g.shown.classes = FoldLeft(ClassLoaded, shown.classes, loaded.classes)
  /\ g.shown.jams = FoldLeft(JammedRow, shown.jams, SetToSeq({loaded.jammed[k] : k \in DOMAIN loaded.jammed}))

Ended(g, g1, loaded) ==
  \E timers \in Listings(loaded.timers) :
    g = FoldLeft(TimedListUpdated,
          FoldLeft(SignalsShown, g1, SetToSeq({loaded.signals[k].signals : k \in DOMAIN loaded.signals})),
          timers)

LEMMA LoadBegins ==
  ASSUME GuiShape(Gui), NEW loaded, SessionShape(loaded), NEW g \in LoadShown(loaded)
  PROVE  \E g1 : Begun(g1, loaded) /\ Ended(g, g1, loaded)
<1>1. PICK classes : classes = FoldLeft(ClassLoaded, shown.classes, loaded.classes)
  OBVIOUS
<1>2. PICK jams : jams = FoldLeft(JammedRow, shown.jams, SetToSeq({loaded.jammed[k] : k \in DOMAIN loaded.jammed}))
  OBVIOUS
<1>3. PICK tables : tables = [[shown EXCEPT !.classes = classes] EXCEPT !.jams = jams]
  OBVIOUS
<1>4. PICK lists : lists = SetToSeq({loaded.signals[k].signals : k \in DOMAIN loaded.signals})
  OBVIOUS
<1>5. PICK g0 : g0 = [Gui EXCEPT !.session = loaded, !.shown = tables]
  OBVIOUS
<1>6. PICK drawn : drawn = RankingShown(TrafficShown(tables, loaded.traffic), loaded.rankings)
  OBVIOUS
<1>7. PICK g1 : g1 = [g0 EXCEPT !.shown = drawn]
  OBVIOUS
<1>8. \E timers \in Listings(loaded.timers) : g = FoldLeft(TimedListUpdated, FoldLeft(SignalsShown, g1, lists), timers)
  <2>1. [Gui EXCEPT !.session = loaded,
                    !.shown.classes = FoldLeft(ClassLoaded, @, loaded.classes),
                    !.shown.jams = FoldLeft(JammedRow, @, SetToSeq({loaded.jammed[k] : k \in DOMAIN loaded.jammed}))]
          = g0
    <3>1. shown.jams = [shown EXCEPT !.classes = classes].jams
      BY DEF GuiShape, Gui
    <3> QED BY <1>1, <1>2, <1>3, <1>5, <3>1 DEF Gui
  <2>2. g0.shown = tables
    BY <1>5 DEF Gui
  <2> QED BY <1>4, <1>6, <1>7, <2>1, <2>2 DEF LoadShown
<1>9. TablesShape(tables) /\ tables.jams = jams /\ tables.classes = classes
  BY <1>3 DEF GuiShape, Gui, TablesShape
<1>10. PICK traffic : traffic = TrafficShown(tables, loaded.traffic)
  OBVIOUS
<1>11. TablesShape(traffic) /\ traffic.jams = jams /\ traffic.classes = classes
  BY <1>9, <1>10, TrafficShownShape, TrafficShownLists DEF SessionShape, TracesShape
<1>12. TablesShape(drawn) /\ drawn.jams = jams /\ drawn.classes = classes
  BY <1>6, <1>10, <1>11, RankingShownShape DEF RankingShown, TablesShape
<1>13. /\ g1.session = loaded /\ g1.shown = drawn /\ g1.main = main /\ g1.windows = windows
       /\ DOMAIN g1 = {"main", "shown", "windows", "session"}
  BY <1>5, <1>7 DEF Gui
<1>14. GuiShape(g1)
  BY <1>12, <1>13 DEF GuiShape, TablesShape, Gui
<1>15. Begun(g1, loaded)
  BY <1>1, <1>2, <1>12, <1>13, <1>14 DEF Begun
<1>16. Ended(g, g1, loaded)
  BY <1>4, <1>8 DEF Ended
<1> QED BY <1>15, <1>16

(* The lists of signals of a session, in the order in which they come.     *)
ListsAll(lists, s) ==
  /\ Listed(lists)
  /\ \A i \in DOMAIN lists : \E key \in DOMAIN s.signals : lists[i] = s.signals[key].signals
  /\ \A key \in DOMAIN s.signals : \E i \in DOMAIN lists : lists[i] = s.signals[key].signals
  /\ \A i, j \in DOMAIN lists : lists[i] = lists[j] => i = j

LEMMA SignalLists ==
  ASSUME NEW s, SessionShape(s), NEW lists, lists = SetToSeq({s.signals[k].signals : k \in DOMAIN s.signals})
  PROVE  ListsAll(lists, s)
<1>1. PICK S : S = {s.signals[k].signals : k \in DOMAIN s.signals}
  OBVIOUS
<1>2. IsFiniteSet(S)
  <2>1. PICK f : f = [k \in DOMAIN s.signals |-> s.signals[k].signals]
    OBVIOUS
  <2>2. DOMAIN f = DOMAIN s.signals /\ S = {f[k] : k \in DOMAIN f}
    BY <1>1, <2>1
  <2> QED BY <2>2, ImageFinite DEF SessionShape
<1>3. /\ Listed(lists) /\ Len(lists) = Cardinality(S) /\ \A i \in 1 .. Cardinality(S) : lists[i] \in S
      /\ \A x \in S : \E i \in 1 .. Cardinality(S) : lists[i] = x
      /\ \A i, j \in 1 .. Cardinality(S) : lists[i] = lists[j] => i = j
  BY <1>1, <1>2, SetToSeqListed, SetToSeqOnce
<1>4. DOMAIN lists = 1 .. Cardinality(S)
  BY <1>3, ListedDomain
<1>5. \A x \in S : \E key \in DOMAIN s.signals : x = s.signals[key].signals
  BY <1>1
<1>6. \A key \in DOMAIN s.signals : s.signals[key].signals \in S
  BY <1>1
<1> QED BY <1>3, <1>4, <1>5, <1>6 DEF ListsAll

LEMMA LoadKeeps ==
  ASSUME GuiShape(Gui), NEW loaded, SessionShape(loaded), NEW g \in LoadShown(loaded)
  PROVE  SessionNamed(loaded) => SessionNamed(g.session)
<1>1. PICK g1 : Begun(g1, loaded) /\ Ended(g, g1, loaded)
  BY LoadBegins
<1>2. PICK lists : lists = SetToSeq({loaded.signals[k].signals : k \in DOMAIN loaded.signals})
  OBVIOUS
<1>3. PICK timers \in Listings(loaded.timers) : g = FoldLeft(TimedListUpdated, FoldLeft(SignalsShown, g1, lists), timers)
  BY <1>1, <1>2 DEF Ended
<1>4. Listed(lists) /\ \A i \in DOMAIN lists : Listed(lists[i])
  BY <1>2, SignalLists DEF SessionShape, ListsAll
<1>5. PICK g2 : g2 = FoldLeft(SignalsShown, g1, lists)
  OBVIOUS
<1>6. Kept(g1, g2)
  BY <1>1, <1>4, <1>5, ListsShownKept DEF Begun
<1>7. Listed(timers)
  BY ListingListed DEF SessionShape
<1>8. Kept(g2, g)
  BY <1>3, <1>5, <1>6, <1>7, TimersShownKept DEF Kept
<1> QED BY <1>1, <1>6, <1>8 DEF Kept, Begun

(* A program that shows nothing shows what it loads.                       *)
JamShows(rows, jammed, key) == rows[key].count = 1 /\ rows[key].monitors = jammed[key].monitors

LEMMA LoadShows ==
  ASSUME GuiShape(Gui), main.signals = Nothing, shown = NewTables,
         NEW loaded, SessionShape(loaded), SessionNamed(loaded), NEW g \in LoadShown(loaded)
  PROVE  /\ \A key \in DOMAIN loaded.signals : g.shown.signals[key] = Len(loaded.signals[key].signals)
         /\ DOMAIN g.shown.jams = DOMAIN loaded.jammed
         /\ \A key \in DOMAIN loaded.jammed : JamShows(g.shown.jams, loaded.jammed, key)
         /\ LoadsAre(g.shown.classes, loaded.classes, Len(loaded.classes))
<1>1. PICK g1 : Begun(g1, loaded) /\ Ended(g, g1, loaded)
  BY LoadBegins
<1>2. PICK lists : lists = SetToSeq({loaded.signals[k].signals : k \in DOMAIN loaded.signals})
  OBVIOUS
<1>3. PICK timers \in Listings(loaded.timers) : g = FoldLeft(TimedListUpdated, FoldLeft(SignalsShown, g1, lists), timers)
  BY <1>1, <1>2 DEF Ended
<1>4. /\ Listed(lists)
      /\ \A i \in DOMAIN lists : \E key \in DOMAIN loaded.signals : lists[i] = loaded.signals[key].signals
      /\ \A key \in DOMAIN loaded.signals : \E i \in DOMAIN lists : lists[i] = loaded.signals[key].signals
      /\ \A i, j \in DOMAIN lists : lists[i] = lists[j] => i = j
  <2>1. ListsAll(lists, loaded)
    BY <1>2, SignalLists
  <2> QED BY <2>1 DEF ListsAll
<1>5. PICK n \in Nat : DOMAIN lists = 1 .. n
  BY <1>4, ListedDomain
<1>6. PICK g2 : g2 = FoldLeft(SignalsShown, g1, lists)
  OBVIOUS
<1>7. Kept(g1, g2)
  BY <1>1, <1>4, <1>6, ListsShownKept DEF Begun, SessionShape
<1>8. Kept(g2, g) /\ g.shown.signals = g2.shown.signals
  BY <1>3, <1>6, <1>7, ListingListed, TimersShownKept DEF Kept, SessionShape
<1>9. SameLists(g, g1)
  BY <1>7, <1>8 DEF Kept, SameLists
<1>10. \A key \in DOMAIN loaded.signals : g.shown.signals[key] = Len(loaded.signals[key].signals)
  <2>1. PICK name : name = [i \in 1 .. n |-> lists[i][1].key]
    OBVIOUS
  <2>2. ASSUME NEW i \in 1 .. n, NEW key \in DOMAIN loaded.signals, lists[i] = loaded.signals[key].signals
        PROVE  OfKey(lists[i], key) /\ name[i] = key
    <3>1. OfKey(lists[i], key)
      BY <2>2 DEF SessionNamed, SignalsNamed
    <3>2. 1 \in 1 .. Len(lists[i])
      BY <3>1, ListedDomain DEF OfKey
    <3> QED BY <2>1, <3>1, <3>2 DEF OfKey
  <2>3. \A i \in 1 .. n : OfKey(lists[i], name[i]) /\ name[i] \in DOMAIN loaded.signals
                          /\ lists[i] = loaded.signals[name[i]].signals
    <3> TAKE i \in 1 .. n
    <3>1. PICK key \in DOMAIN loaded.signals : lists[i] = loaded.signals[key].signals
      BY <1>4, <1>5
    <3> QED BY <2>2, <3>1
  <2>4. \A i, j \in 1 .. n : name[i] = name[j] => i = j
    <3> TAKE i, j \in 1 .. n
    <3>1. name[i] = name[j] => lists[i] = lists[j]
      BY <2>3
    <3> QED BY <1>4, <1>5, <3>1
  <2>5. GuiShape(g1) /\ DOMAIN g1.main.signals = {}
    BY <1>1 DEF Begun, Nothing
  <2>6. \A i \in 1 .. n : g2.shown.signals[name[i]] = Len(lists[i])
    <3>1. \A i \in 1 .. n : OfKey(lists[i], name[i])
      BY <2>3
    <3>2. \A i \in 1 .. n : FoldLeft(SignalsShown, g1, lists).shown.signals[name[i]] = Len(lists[i])
      BY <1>5, <2>4, <2>5, <3>1, ListsShownCount
    <3> QED BY <1>6, <3>2
  <2> TAKE key \in DOMAIN loaded.signals
  <2>7. PICK i \in 1 .. n : lists[i] = loaded.signals[key].signals
    BY <1>4, <1>5
  <2>8. name[i] = key
    BY <2>2, <2>7
  <2> QED BY <1>8, <2>6, <2>7, <2>8
<1>11. PICK S : S = {loaded.jammed[k] : k \in DOMAIN loaded.jammed}
  OBVIOUS
<1>12. PICK rows : rows = SetToSeq(S)
  OBVIOUS
<1>13. IsFiniteSet(S)
  <2>1. S = {loaded.jammed[k] : k \in DOMAIN loaded.jammed} /\ IsFiniteSet(DOMAIN loaded.jammed)
    BY <1>11 DEF SessionNamed, JamsNamed
  <2> QED BY <2>1, ImageFinite
<1>14. PICK m \in Nat : m = Cardinality(S)
  BY <1>13, FS_CardinalityType
<1>15. /\ Listed(rows) /\ Len(rows) = m /\ \A i \in 1 .. m : rows[i] \in S
       /\ \A x \in S : \E i \in 1 .. m : rows[i] = x
       /\ \A i, j \in 1 .. m : rows[i] = rows[j] => i = j
  BY <1>12, <1>13, <1>14, SetToSeqListed, SetToSeqOnce
<1>16. DOMAIN rows = 1 .. m
  BY <1>15, ListedDomain
<1>17. \A x \in S : x.key \in DOMAIN loaded.jammed /\ x = loaded.jammed[x.key]
  BY <1>11 DEF SessionNamed, JamsNamed
<1>18. \A i, j \in 1 .. m : rows[i].key = rows[j].key => i = j
  BY <1>15, <1>17
<1>19. {rows[i].key : i \in 1 .. m} = DOMAIN loaded.jammed
  <2>1. \A k \in DOMAIN loaded.jammed : loaded.jammed[k] \in S /\ loaded.jammed[k].key = k
    BY <1>11 DEF SessionNamed, JamsNamed
  <2>2. ASSUME NEW k \in DOMAIN loaded.jammed PROVE \E i \in 1 .. m : rows[i].key = k
    BY <1>15, <2>1
  <2>3. \A i \in 1 .. m : rows[i].key \in DOMAIN loaded.jammed
    BY <1>15, <1>17
  <2> QED BY <2>2, <2>3
<1>20. g1.shown.jams = FoldLeft(JammedRow, Nothing, rows)
  BY <1>1, <1>11, <1>12 DEF Begun, NewTables
<1>21. PICK jams : jams = FoldLeft(JammedRow, Nothing, rows)
  OBVIOUS
<1>22. DOMAIN jams = DOMAIN loaded.jammed /\ \A key \in DOMAIN loaded.jammed : JamShows(jams, loaded.jammed, key)
  <2>1. RowsOf(jams, rows, m)
    BY <1>16, <1>18, <1>21, RowsOnce
  <2>2. ASSUME NEW key \in DOMAIN loaded.jammed PROVE JamShows(jams, loaded.jammed, key)
    <3>1. PICK i \in 1 .. m : rows[i].key = key
      BY <1>19
    <3>2. rows[i] = loaded.jammed[key]
      BY <1>15, <1>17, <3>1
    <3> QED BY <2>1, <3>1, <3>2 DEF RowsOf, JamShows
  <2> QED BY <1>19, <2>1, <2>2 DEF RowsOf
<1>23. LoadsAre(g1.shown.classes, loaded.classes, Len(loaded.classes))
  <2>1. g1.shown.classes = FoldLeft(ClassLoaded, NewClassTable, loaded.classes)
    BY <1>1 DEF Begun, NewTables
  <2>2. Len(loaded.classes) \in Nat /\ DOMAIN loaded.classes = 1 .. Len(loaded.classes)
    BY ListedDomain DEF SessionNamed, ClassesNamed
  <2> QED BY <2>1, <2>2, LoadsCount
<1> QED BY <1>9, <1>10, <1>20, <1>21, <1>22, <1>23 DEF SameLists
-----------------------------------------------------------------------------
(* The lines of a file, the sessions they come from and those they become. *)
KeyOf(lines, i) == lines.signals[i][1].key

LinesNamed(lines) ==
  /\ ClassesNamed(lines.classes)
  /\ Listed(lines.jammed) /\ \A i \in DOMAIN lines.jammed : JamShape(lines.jammed[i])
  /\ \A i \in DOMAIN lines.signals : OfKey(lines.signals[i], KeyOf(lines, i))

KeysOnce(lines) ==
  /\ \A i, j \in DOMAIN lines.signals : KeyOf(lines, i) = KeyOf(lines, j) => i = j
  /\ \A i, j \in DOMAIN lines.jammed : lines.jammed[i].key = lines.jammed[j].key => i = j

LEMMA WrittenNamed ==
  ASSUME NEW s, SessionShape(s), SessionNamed(s), NEW lines \in Written(s)
  PROVE  LinesNamed(lines) /\ KeysOnce(lines)
<1>1. PICK j \in Listings(s.jammed), l \in Listings(s.signals), t \in Listings(s.timers) :
        lines = [classes |-> s.classes, jammed |-> j, traffic |-> s.traffic,
                 signals |-> [i \in DOMAIN l |-> l[i].signals], timers |-> t]
  BY DEF Written
<1>2. lines.classes = s.classes /\ lines.jammed = j /\ lines.signals = [i \in DOMAIN l |-> l[i].signals]
  BY <1>1
<1>3. Listed(j) /\ \A i \in DOMAIN j : JamShape(j[i])
  <2>1. IsFiniteSet(DOMAIN s.jammed)
    BY DEF SessionNamed, JamsNamed
  <2>2. Listed(j) /\ \A i \in DOMAIN j : \E x \in DOMAIN s.jammed : j[i] = s.jammed[x]
    BY <2>1, ListingListed
  <2> QED BY <2>2 DEF SessionNamed, JamsNamed
<1>4. PICK order : /\ \A i \in DOMAIN l : order[i] \in DOMAIN s.signals /\ l[i] = s.signals[order[i]]
                   /\ \A i, k \in DOMAIN l : order[i] = order[k] => i = k
  BY ListingOrder DEF SessionShape
<1>5. ASSUME NEW i \in DOMAIN l PROVE OfKey(lines.signals[i], order[i]) /\ KeyOf(lines, i) = order[i]
  <2>1. PICK list : list = lines.signals[i]
    OBVIOUS
  <2>2. list = s.signals[order[i]].signals /\ order[i] \in DOMAIN s.signals
    BY <1>2, <1>4, <2>1
  <2>3. OfKey(list, order[i])
    BY <2>2 DEF SessionNamed, SignalsNamed
  <2>4. 1 \in 1 .. Len(list)
    BY <2>3, ListedDomain DEF OfKey
  <2> QED BY <2>1, <2>3, <2>4 DEF OfKey, KeyOf
<1>6. DOMAIN lines.signals = DOMAIN l
  BY <1>2
<1>7. LinesNamed(lines)
  BY <1>2, <1>3, <1>5, <1>6 DEF LinesNamed, SessionNamed
<1>8. KeysOnce(lines)
  <2>1. PICK places : /\ \A i \in DOMAIN j : places[i] \in DOMAIN s.jammed /\ j[i] = s.jammed[places[i]]
                      /\ \A i, k \in DOMAIN j : places[i] = places[k] => i = k
    BY ListingOrder DEF SessionNamed, JamsNamed
  <2>2. \A i \in DOMAIN j : j[i].key = places[i]
    BY <2>1 DEF SessionNamed, JamsNamed
  <2>3. \A i, k \in DOMAIN lines.jammed : lines.jammed[i].key = lines.jammed[k].key => i = k
    BY <1>2, <2>1, <2>2
  <2> QED BY <1>4, <1>5, <1>6, <2>3 DEF KeysOnce
<1> QED BY <1>7, <1>8

LEMMA ViewedNamed ==
  ASSUME NEW v, LinesShape(v), LinesNamed(v), NEW lines, LinesNamed(lines)
  PROVE  LinesNamed(Viewed(v, lines))
<1>1. PICK w : w = Viewed(v, lines)
  OBVIOUS
<1>2. \A kind \in DOMAIN v : w[kind] = IF lines[kind] = <<>> THEN v[kind] ELSE lines[kind]
  BY <1>1 DEF Viewed
<1>3. /\ w.classes = v.classes \/ w.classes = lines.classes
      /\ w.jammed = v.jammed \/ w.jammed = lines.jammed
      /\ w.signals = v.signals \/ w.signals = lines.signals
  BY <1>2 DEF LinesShape
<1> QED BY <1>1, <1>3 DEF LinesNamed, KeyOf

(* A reader that has seen nothing sees the file.                           *)
LEMMA ViewedNew ==
  ASSUME NEW lines, NEW w, w = Viewed(NoLines, lines)
  PROVE  w.classes = lines.classes /\ w.jammed = lines.jammed /\ w.signals = lines.signals
<1>1. \A kind \in DOMAIN NoLines : w[kind] = IF lines[kind] = <<>> THEN NoLines[kind] ELSE lines[kind]
  BY DEF Viewed
<1> QED BY <1>1 DEF NoLines

JamRead(jams, line, i) ==
  JamShape(jams[i]) /\ jams[i].key = line[i].key /\ jams[i].monitors \in ReadMonitors(line, i)

LEMMA ParsedJammedNamed ==
  ASSUME NEW line, Listed(line), \A i \in DOMAIN line : JamShape(line[i]), NEW jams \in ParsedJammed(line)
  PROVE  DOMAIN jams = DOMAIN line /\ \A i \in DOMAIN line : JamRead(jams, line, i)
<1>1. CASE line = <<>>
  BY <1>1 DEF ParsedJammed
<1>2. CASE line # <<>>
  <2>1. PICK m \in line[1].monitors : jams = [line EXCEPT ![1].monitors = (@ \ {m}) \cup {Clipped(m)}]
    BY <1>2 DEF ParsedJammed
  <2>2. PICK monitors : monitors = (line[1].monitors \ {m}) \cup {Clipped(m)}
    OBVIOUS
  <2>3. jams = [line EXCEPT ![1] = [line[1] EXCEPT !.monitors = monitors]]
    BY <2>1, <2>2
  <2>4. DOMAIN jams = DOMAIN line
    BY <2>3
  <2> SUFFICES ASSUME NEW i \in DOMAIN line PROVE JamRead(jams, line, i)
    BY <2>4
  <2>5. CASE i = 1
    <3>1. jams[1] = [line[1] EXCEPT !.monitors = monitors] /\ JamShape(line[1])
      BY <2>3, <2>5
    <3>2. JamShape(jams[1]) /\ jams[1].key = line[1].key /\ jams[1].monitors = monitors
      BY <3>1 DEF JamShape
    <3>3. monitors \in ReadMonitors(line, 1)
      BY <2>2 DEF ReadMonitors
    <3> QED BY <2>5, <3>2, <3>3 DEF JamRead
  <2>6. CASE i # 1
    BY <2>3, <2>6 DEF JamRead, ReadMonitors
  <2> QED BY <2>5, <2>6
<1> QED BY <1>1, <1>2

(* What a session holds after lines have been loaded into it.              *)
ClassesRead(classes, lines) ==
  /\ DOMAIN classes = DOMAIN lines.classes /\ Len(classes) = Len(lines.classes)
  /\ \A i \in DOMAIN lines.classes : classes[i].name = ReadNames(lines.classes)[i]

LEMMA LoadedNamed ==
  ASSUME NEW s, SessionShape(s), SessionNamed(s), NEW lines, LinesShape(lines), LinesNamed(lines),
         NEW loaded \in LoadedSessions(s, lines)
  PROVE  /\ SessionNamed(loaded)
         /\ ClassesRead(loaded.classes, lines)
         /\ DOMAIN loaded.jammed = DOMAIN s.jammed \cup {lines.jammed[i].key : i \in DOMAIN lines.jammed}
         /\ \A i \in DOMAIN lines.signals : KeyOf(lines, i) \in DOMAIN loaded.signals
         /\ KeysOnce(lines) =>
              /\ \A i \in DOMAIN lines.signals : loaded.signals[KeyOf(lines, i)].signals = lines.signals[i]
              /\ \A i \in DOMAIN lines.jammed :
                   loaded.jammed[lines.jammed[i].key].monitors \in ReadMonitors(lines.jammed, i)
<1>1. PICK reports : reports = [i \in DOMAIN lines.signals |-> SignalReportOf(lines.signals[i])]
  OBVIOUS
<1>2. PICK signals : signals = FoldLeft(PutSignals, s.signals, reports)
  OBVIOUS
<1>3. PICK classes : classes = ParsedClasses(lines.classes)
  OBVIOUS
<1>4. PICK jams, traffic, timers :
        /\ jams \in ParsedJammed(lines.jammed)
        /\ loaded = [s EXCEPT !.classes = classes, !.traffic = traffic,
                              !.jammed = FoldLeft(PutJammed, s.jammed, jams),
                              !.signals = signals, !.timers = timers]
  BY <1>1, <1>2, <1>3 DEF LoadedSessions
<1>5. PICK jammed : jammed = FoldLeft(PutJammed, s.jammed, jams)
  OBVIOUS
<1>6. loaded.classes = classes /\ loaded.jammed = jammed /\ loaded.signals = signals
  BY <1>4, <1>5 DEF SessionShape
<1>7. ClassesNamed(classes) /\ ClassesRead(classes, lines)
  <2>1. PICK c : c = lines.classes
    OBVIOUS
  <2>2. Len(c) \in Nat /\ DOMAIN c = 1 .. Len(c) /\ \A i \in DOMAIN c : "name" \in DOMAIN c[i]
    BY <2>1, ListedDomain DEF LinesNamed, ClassesNamed
  <2>3. classes = [i \in 1 .. Len(c) |-> IF i = 1 THEN [c[1] EXCEPT !.name = Clipped(@)] ELSE c[i]]
    BY <1>3, <2>1, <2>2 DEF ParsedClasses
  <2>4. classes = [i \in 1 .. Len(c) |-> classes[i]]
    BY <2>3
  <2>5. Listed(classes) /\ Len(classes) = Len(c) /\ DOMAIN classes = DOMAIN c
    BY <2>2, <2>3, <2>4, ListedFunction
  <2>6. \A i \in DOMAIN c : "name" \in DOMAIN classes[i] /\ classes[i].name = ReadNames(c)[i]
    BY <2>2, <2>3 DEF ReadNames
  <2> QED BY <2>1, <2>5, <2>6 DEF ClassesNamed, ClassesRead
<1>8. PICK m \in Nat : DOMAIN lines.jammed = 1 .. m
  BY ListedDomain DEF LinesNamed
<1>9. /\ DOMAIN jams = 1 .. m
      /\ \A i \in 1 .. m : /\ JamShape(jams[i]) /\ jams[i].key = lines.jammed[i].key
                           /\ jams[i].monitors \in ReadMonitors(lines.jammed, i)
  BY <1>4, <1>8, ParsedJammedNamed DEF LinesNamed, JamRead
<1>10. /\ JamsNamed(jammed) /\ DOMAIN jammed = DOMAIN s.jammed \cup {jams[i].key : i \in 1 .. m}
       /\ (\A i, j \in 1 .. m : jams[i].key = jams[j].key => i = j) => \A i \in 1 .. m : jammed[jams[i].key] = jams[i]
  <2>1. JamsPutIn(jammed, s.jammed, jams, m)
    BY <1>5, <1>9, JamsPut DEF SessionNamed
  <2> QED BY <2>1 DEF JamsPutIn
<1>11. {jams[i].key : i \in 1 .. m} = {lines.jammed[i].key : i \in 1 .. m}
  BY <1>9
<1>12. PICK n \in Nat : DOMAIN lines.signals = 1 .. n
  BY ListedDomain DEF LinesShape
<1>13. DOMAIN reports = 1 .. n /\ \A i \in 1 .. n : reports[i].signals = lines.signals[i]
  BY <1>1, <1>12, ReportHasSignals DEF LinesShape
<1>14. PICK name : name = [i \in 1 .. n |-> KeyOf(lines, i)]
  OBVIOUS
<1>15. \A i \in 1 .. n : name[i] = KeyOf(lines, i) /\ OfKey(reports[i].signals, name[i])
  BY <1>12, <1>13, <1>14 DEF LinesNamed
<1>16. /\ SignalsNamed(signals) /\ DOMAIN signals = DOMAIN s.signals \cup {name[i] : i \in 1 .. n}
       /\ (\A i, j \in 1 .. n : name[i] = name[j] => i = j) => \A i \in 1 .. n : signals[name[i]] = reports[i]
  <2>1. SignalsNamed(s.signals) /\ DOMAIN reports = 1 .. n /\ \A i \in 1 .. n : OfKey(reports[i].signals, name[i])
    BY <1>13, <1>15 DEF SessionNamed
  <2>2. SignalsPutIn(FoldLeft(PutSignals, s.signals, reports), s.signals, reports, n, name)
    BY <2>1, SignalsPut
  <2> QED BY <1>2, <2>2 DEF SignalsPutIn
<1>17. \A i \in 1 .. n : KeyOf(lines, i) \in DOMAIN signals
  BY <1>15, <1>16
<1>18. KeysOnce(lines) => \A i \in 1 .. n : signals[KeyOf(lines, i)].signals = lines.signals[i]
  <2> SUFFICES ASSUME KeysOnce(lines) PROVE \A i \in 1 .. n : signals[KeyOf(lines, i)].signals = lines.signals[i]
    OBVIOUS
  <2>1. \A i, j \in 1 .. n : name[i] = name[j] => i = j
    BY <1>12, <1>15 DEF KeysOnce
  <2>2. \A i \in 1 .. n : signals[name[i]] = reports[i]
    BY <1>16, <2>1
  <2> QED BY <1>13, <1>15, <2>2
<1>19. KeysOnce(lines) => \A i \in 1 .. m : jammed[lines.jammed[i].key].monitors \in ReadMonitors(lines.jammed, i)
  BY <1>8, <1>9, <1>10 DEF KeysOnce
<1> QED BY <1>6, <1>7, <1>8, <1>10, <1>11, <1>12, <1>16, <1>17, <1>18, <1>19 DEF SessionNamed
-----------------------------------------------------------------------------
(* The inductive invariant of loading: names, as far as they go, and what  *)
(* a program that has just been started has.                               *)
PostNamed(post) ==
  /\ post.kind = "jam" => JamShape(post.report)
  /\ post.kind = "classes" => ClassesNamed(post.report)

NamesKept ==
  /\ SessionNamed(session)
  /\ LinesNamed(views)
  /\ file # NoFile => LinesNamed(file) /\ KeysOnce(file)
  /\ \A i \in DOMAIN queue : PostNamed(queue[i])

FreshKept ==
  /\ past.loads \in Nat
  /\ past.fresh /\ past.loads = 0 =>
       main.signals = Nothing /\ shown = NewTables /\ session = NewSession /\ views = NoLines

LEMMA NewNamed == SessionNamed(NewSession) /\ LinesNamed(NoLines)
<1>1. DOMAIN Nothing = {}
  BY DEF Nothing
<1>3. DOMAIN <<>> = {}
  OBVIOUS
<1>2. SessionNamed(NewSession)
  BY <1>1, <1>3, ListedEmpty, FS_EmptySet DEF SessionNamed, NewSession, ClassesNamed, JamsNamed, SignalsNamed
<1> QED BY <1>2, <1>3, ListedEmpty DEF LinesNamed, NoLines, ClassesNamed

LEMMA NamesInit == Init => NamesKept /\ FreshKept
<1> SUFFICES ASSUME Init PROVE NamesKept /\ FreshKept
  OBVIOUS
<1>1. NamesKept
  BY NewNamed DEF Init, NamesKept
<1>2. FreshKept
  BY DEF Init, FreshKept, NewPast
<1> QED BY <1>1, <1>2

(* What is posted, by its kind.                                            *)
NamedPost(was, is) == \E post : is = was \o <<post>> /\ PostNamed(post)

LEMMA ReportNames ==
  ASSUME Heap \/ Timers \/ Others \/ Listener
  PROVE  \/ queue' = queue \o <<>>
         \/ queue' = queue
         \/ NamedPost(queue, queue')
<1>1. ASSUME NEW kind, NEW report, queue' = queue \o Post(kind, report),
             kind = "jam" => JamShape(report), kind = "classes" => ClassesNamed(report)
      PROVE  NamedPost(queue, queue')
  <2>1. PICK post : post = [kind |-> kind, report |-> report]
    OBVIOUS
  <2>2. post.kind = kind /\ post.report = report
    BY <2>1
  <2>3. queue' = queue \o <<post>> /\ PostNamed(post)
    BY <1>1, <2>1, <2>2 DEF Post, PostNamed
  <2> QED BY <2>3 DEF NamedPost
<1>2. CASE \E class, stack, object, tag : HeapCreate(class, stack, object, tag)
  <2>1. PICK report : queue' = queue \o Post("heap", report)
    BY <1>2 DEF HeapCreate, Reported
  <2> QED BY <1>1, <2>1
<1>3. CASE \E object \in program.objects : HeapFree(object)
  <2>1. queue' = queue \o <<>> \/ \E report : queue' = queue \o Post("heap", report)
    BY <1>3 DEF HeapFree, Reported
  <2> QED BY <1>1, <2>1
<1>4. CASE Timers
  <2>1. queue' = queue \o <<>> \/ queue' = queue \/ \E report : queue' = queue \o Post("timer", report)
    BY <1>4 DEF Timers, Tick, TimerEnter, TimerExit, TimerThrow, Reported
  <2> QED BY <1>1, <2>1
<1>5. CASE Others
  <2>1. CASE \E key \in SignalKeys, stack \in Stacks, values \in Values : SignalReported(key, stack, values)
    <3>1. PICK report : queue' = queue \o Post("signal", report)
      BY <2>1 DEF SignalReported, Reported
    <3> QED BY <1>1, <3>1
  <2>2. CASE \E key \in JamKeys, monitor \in Monitors : JammedReported(key, monitor)
    <3>1. PICK old, message : queue' = queue \o Post("jam", JammedAdd(old, message))
      BY <2>2 DEF JammedReported, Reported
    <3>2. JamShape(JammedAdd(old, message))
      BY DEF JamShape, JammedAdd
    <3> QED BY <1>1, <3>1, <3>2
  <2>3. CASE \E class \in LoadedClasses : ClassReported(class)
    <3>1. PICK class : queue' = queue \o Post("classes", <<[name |-> Name(class.name), methods |-> class.methods]>>)
      BY <2>3 DEF ClassReported, Reported
    <3>2. PICK detail : detail = [name |-> Name(class.name), methods |-> class.methods]
      OBVIOUS
    <3>3. PICK report : report = <<detail>>
      OBVIOUS
    <3>4. queue' = queue \o Post("classes", report)
      BY <3>1, <3>2, <3>3
    <3>5. "name" \in DOMAIN detail
      BY <3>2
    <3>6. Listed(report) /\ \A i \in DOMAIN report : report[i] = detail
      BY <3>3, ListedOne
    <3>7. ClassesNamed(report)
      BY <3>5, <3>6 DEF ClassesNamed
    <3> QED BY <1>1, <3>4, <3>7
  <2>4. CASE \E sample \in Samples : TrafficReported(sample)
    <3>1. PICK report : queue' = queue \o Post("traffic", report)
      BY <2>4 DEF TrafficReported, Reported
    <3> QED BY <1>1, <3>1
  <2> QED BY <1>5, <2>1, <2>2, <2>3, <2>4 DEF Others
<1>6. CASE Listener
  <2>1. queue' = queue \/ \E ranks : queue' = queue \o Post("ranks", ranks)
    BY <1>6 DEF Listener, StartReset, ClearNext, RankMethods
  <2> QED BY <1>1, <2>1
<1>7. Heap => (\E class, stack, object, tag : HeapCreate(class, stack, object, tag))
              \/ \E object \in program.objects : HeapFree(object)
  BY DEF Heap
<1> QED BY <1>2, <1>3, <1>4, <1>5, <1>6, <1>7

LEMMA ReportsNamed ==
  ASSUME WindowShapes, NamesKept, Heap \/ Timers \/ Others \/ Listener
  PROVE  NamesKept'
<1>1. UNCHANGED <<main, shown, windows, session, views, file>>
  BY GuiKept
<1>2. CASE queue' = queue \o <<>> \/ queue' = queue
  <2>1. queue' = queue
    BY <1>2, ConcatEmptySeq DEF WindowShapes, Listed
  <2> QED BY <1>1, <2>1 DEF NamesKept
<1>3. ASSUME NEW post, queue' = queue \o <<post>>, PostNamed(post)
      PROVE  NamesKept'
  <2>1. \A i \in 1 .. Len(queue) + 1 : i \in 1 .. Len(queue) \/ i = Len(queue) + 1
    BY <1>3, Posted DEF WindowShapes
  <2>2. \A i \in 1 .. Len(queue) : PostNamed(queue[i])
    BY <1>3, Posted DEF WindowShapes, NamesKept
  <2>3. \A i \in DOMAIN queue' : PostNamed(queue'[i])
    BY <1>3, <2>1, <2>2, Posted DEF WindowShapes
  <2> QED BY <1>1, <2>3 DEF NamesKept
<1> QED BY <1>2, <1>3, ReportNames DEF NamedPost

LEMMA ClassesConcat ==
  ASSUME NEW list, ClassesNamed(list), NEW more, ClassesNamed(more)
  PROVE  ClassesNamed(list \o more)
<1>1. PICK n \in Nat, m \in Nat : /\ n = Len(list) /\ DOMAIN list = 1 .. n
                                 /\ m = Len(more) /\ DOMAIN more = 1 .. m
  BY ListedDomain DEF ClassesNamed
<1>2. PICK S, T : list \in Seq(S) /\ more \in Seq(T)
  BY DEF ClassesNamed, Listed
<1>3. PICK both : both = list \o more
  OBVIOUS
<1>4. DOMAIN both = 1 .. n + m /\ \A i \in 1 .. n + m : both[i] = IF i <= n THEN list[i] ELSE more[i - n]
  <2>1. list \in Seq(S \cup T) /\ more \in Seq(S \cup T)
    BY <1>1, <1>2
  <2> QED BY <1>1, <1>3, <2>1
<1>5. \A i \in 1 .. n + m : "name" \in DOMAIN both[i]
  <2> TAKE i \in 1 .. n + m
  <2>1. CASE i <= n
    <3>1. i \in 1 .. n
      BY <2>1
    <3> QED BY <1>1, <1>4, <2>1, <3>1 DEF ClassesNamed
  <2>2. CASE ~(i <= n)
    <3>1. i - n \in 1 .. m
      BY <2>2
    <3> QED BY <1>1, <1>4, <2>2, <3>1 DEF ClassesNamed
  <2> QED BY <2>1, <2>2
<1>6. Listed(both)
  BY <1>3, ListedConcat DEF ClassesNamed
<1> QED BY <1>3, <1>4, <1>5, <1>6 DEF ClassesNamed

(* The main window's thread names what it adds to the session.             *)
LEMMA HandledNamed ==
  ASSUME GuiShape(Gui), SessionNamed(session), NEW post, PostShape(post), PostNamed(post)
  PROVE  SessionNamed(Handled(post).session)
<1>0. SessionShape(session)
  BY DEF GuiShape, Gui
<1>1. CASE post.kind = "signal"
  <2>1. Handled(post) = ListUpdated(Gui, post.report)
    BY <1>1 DEF Handled
  <2>2. Handled(post).session = AddSignal(session, post.report)
    BY <2>1, ListUpdatedLists DEF Gui
  <2> QED BY <1>0, <2>2, AddSignalNamed
<1>2. CASE post.kind = "timer"
  <2>1. Handled(post) = TimedListUpdated(Gui, post.report)
    BY <1>2 DEF Handled
  <2>2. Handled(post).session = AddTimer(session, post.report)
    BY <2>1, TimedLists DEF Gui
  <2> QED BY <1>0, <2>2, AddTimerNamed
<1>3. CASE post.kind = "heap"
  <2>1. Handled(post) = HeapUpdated(Gui, post.report.class, post.report.report)
    BY <1>3 DEF Handled
  <2>2. Handled(post).session = session
    BY <2>1, HeapUpdatedShape DEF Gui
  <2> QED BY <2>2
<1>4. CASE post.kind = "traffic"
  <2>1. PICK traces : Handled(post).session = AddTraffic(session, traces)
    BY <1>4 DEF Handled, TrafficUpdated, Gui
  <2>2. PICK s : s = AddTraffic(session, traces)
    OBVIOUS
  <2>3. s.classes = session.classes /\ s.jammed = session.jammed /\ s.signals = session.signals
    BY <1>0, <2>2 DEF AddTraffic, SessionShape
  <2> QED BY <2>1, <2>2, <2>3 DEF SessionNamed
<1>5. CASE post.kind = "ranks"
  <2>1. PICK ranks : Handled(post).session = AddRankings(session, ranks)
    BY <1>5 DEF Handled, RankingUpdated, Gui
  <2>2. PICK s : s = AddRankings(session, ranks)
    OBVIOUS
  <2>3. s.classes = session.classes /\ s.jammed = session.jammed /\ s.signals = session.signals
    BY <1>0, <2>2 DEF AddRankings, SessionShape
  <2> QED BY <2>1, <2>2, <2>3 DEF SessionNamed
<1>6. CASE post.kind = "classes"
  <2>1. Handled(post).session = AddClasses(session, post.report)
    BY <1>6 DEF Handled, ClassesUpdated, Gui
  <2>2. PICK s : s = AddClasses(session, post.report)
    OBVIOUS
  <2>3. /\ s.classes = session.classes \o post.report
        /\ s.jammed = session.jammed /\ s.signals = session.signals
    BY <1>0, <2>2 DEF AddClasses, SessionShape
  <2>4. ClassesNamed(session.classes \o post.report)
    <3>1. PICK list, more : list = session.classes /\ more = post.report
      OBVIOUS
    <3>2. ClassesNamed(list) /\ ClassesNamed(more)
      BY <1>6, <3>1 DEF PostNamed, SessionNamed
    <3> QED BY <3>1, <3>2, ClassesConcat
  <2> QED BY <2>1, <2>2, <2>3, <2>4 DEF SessionNamed
<1>7. CASE post.kind = "jam"
  <2>1. PICK report : report = post.report
    OBVIOUS
  <2>2. Handled(post).session = AddJammed(session, report)
    BY <1>7, <2>1 DEF Handled, JammedUpdated, Gui
  <2>3. PICK s : s = AddJammed(session, report)
    OBVIOUS
  <2>4. PICK new : new = IF report.key \in DOMAIN session.jammed
                         THEN JammedAdd(session.jammed[report.key], report) ELSE report
    OBVIOUS
  <2>5. PICK jammed : jammed = Put(session.jammed, report.key, new)
    OBVIOUS
  <2>6. s.classes = session.classes /\ s.jammed = jammed /\ s.signals = session.signals
    BY <1>0, <2>3, <2>4, <2>5 DEF AddJammed, SessionShape
  <2>7. JamShape(new) /\ new.key = report.key
    BY <1>7, <2>1, <2>4 DEF PostNamed, JamShape, JammedAdd
  <2>8. /\ DOMAIN jammed = DOMAIN session.jammed \cup {report.key} /\ jammed[report.key] = new
        /\ \A key \in DOMAIN session.jammed \ {report.key} : jammed[key] = session.jammed[key]
    BY <2>5 DEF Put
  <2>9. JamsNamed(jammed)
    BY <2>7, <2>8, FS_AddElement DEF SessionNamed, JamsNamed
  <2> QED BY <2>2, <2>3, <2>6, <2>9 DEF SessionNamed
<1> QED BY <1>1, <1>2, <1>3, <1>4, <1>5, <1>6, <1>7 DEF PostShape

LEMMA DeliverNamed ==
  ASSUME WindowShapes, NamesKept, Deliver
  PROVE  NamesKept'
<1>1. PICK n \in Nat : n = Len(queue) /\ DOMAIN queue = 1 .. n
  BY ListedDomain DEF WindowShapes
<1>2. PICK q : q = Tail(queue)
  OBVIOUS
<1>3. queue # <<>> /\ queue' = q /\ UNCHANGED <<views, file>> /\ session' = Handled(Head(queue)).session
  BY <1>2 DEF Deliver, GuiBecomes
<1>4. Listed(q) /\ Len(q) = n - 1 /\ n > 0 /\ Head(queue) = queue[1] /\ \A i \in 1 .. n - 1 : q[i] = queue[i + 1]
  BY <1>1, <1>2, <1>3, ListedTail DEF WindowShapes
<1>5. DOMAIN q = 1 .. n - 1
  BY <1>4, ListedDomain
<1>6. \A i \in 1 .. n - 1 : i + 1 \in 1 .. n
  BY <1>1
<1>7. \A i \in 1 .. n : PostNamed(queue[i]) /\ PostShape(queue[i])
  BY <1>1 DEF WindowShapes, NamesKept
<1>8. \A i \in DOMAIN q : PostNamed(q[i])
  BY <1>4, <1>5, <1>6, <1>7
<1>9. SessionNamed(session')
  BY <1>1, <1>3, <1>4, <1>7, HandledNamed DEF WindowShapes, NamesKept
<1> QED BY <1>3, <1>8, <1>9 DEF NamesKept

(* A session that has been loaded.                                         *)
LEMMA LoadNamed ==
  ASSUME WindowShapes, NamesKept, SessionLoad
  PROVE  /\ LinesShape(views') /\ LinesNamed(views') /\ SessionNamed(session')
         /\ UNCHANGED <<queue, file>>
<1>1. views' = Viewed(views, file) /\ file # NoFile /\ UNCHANGED <<queue, file>>
  BY DEF SessionLoad
<1>2. LinesShape(views') /\ LinesNamed(views')
  BY <1>1, ViewedShape, ViewedNamed DEF WindowShapes, NamesKept
<1>3. CASE UNCHANGED <<main, shown, windows, session>>
  BY <1>1, <1>2, <1>3 DEF NamesKept
<1>4. ASSUME NEW loaded \in LoadedSessions(session, views'), NEW g \in LoadShown(loaded), GuiBecomes(g)
      PROVE  SessionNamed(session')
  <2>1. SessionShape(session)
    BY DEF WindowShapes, GuiShape, Gui
  <2>2. SessionNamed(loaded) /\ SessionShape(loaded)
    BY <1>2, <1>4, <2>1, LoadedNamed, LoadedShape DEF NamesKept
  <2>3. SessionNamed(g.session)
    BY <1>4, <2>2, LoadKeeps DEF WindowShapes
  <2> QED BY <1>4, <2>3 DEF GuiBecomes
<1>5. \/ UNCHANGED <<main, shown, windows, session>>
      \/ \E loaded \in LoadedSessions(session, views') : \E g \in LoadShown(loaded) : GuiBecomes(g)
  BY DEF SessionLoad
<1> QED BY <1>1, <1>2, <1>3, <1>4, <1>5

LEMMA NamesStep ==
  ASSUME WindowShapes, NamesKept, [Next]_vars
  PROVE  NamesKept'
<1>1. CASE Heap \/ Timers \/ Others \/ Listener
  BY <1>1, ReportsNamed
<1>2. CASE Deliver
  BY <1>2, DeliverNamed
<1>3. CASE SessionSave
  <2>1. file' \in Written(session) /\ UNCHANGED <<queue, session, views>>
    BY <1>3 DEF SessionSave
  <2>2. LinesNamed(file') /\ KeysOnce(file')
    BY <2>1, WrittenNamed DEF WindowShapes, GuiShape, Gui, NamesKept
  <2> QED BY <2>1, <2>2 DEF NamesKept
<1>4. CASE SessionLoad
  BY <1>4, LoadNamed DEF NamesKept
<1>5. CASE Restart
  <2>1. session' = NewSession /\ views' = NoLines /\ queue' = <<>> /\ file' = file
    BY <1>5 DEF Restart, Started
  <2> QED BY <2>1, NewNamed DEF NamesKept
<1>6. CASE \/ ResetViewers \/ StopTraffic \/ UNCHANGED vars
           \/ \E key \in SignalKeys : ShowDetail(key)
           \/ \E class \in Classes : ShowHeapDetail(class)
           \/ \E r \in DOMAIN shown.classes.rows : PressClass(r)
  <2>1. UNCHANGED <<queue, session, views, file>>
    BY <1>6 DEF ResetViewers, StopTraffic, ShowDetail, ShowHeapDetail, PressClass, vars, gui
  <2> QED BY <2>1 DEF NamesKept
<1> QED BY <1>1, <1>2, <1>3, <1>4, <1>5, <1>6 DEF Next, Window

LEMMA FreshSame ==
  ASSUME FreshKept, UNCHANGED <<main, shown, session, views>>,
         past'.fresh = past.fresh, past'.loads = past.loads
  PROVE  FreshKept'
BY DEF FreshKept

LEMMA FreshReports ==
  ASSUME Shapes, Heap \/ Timers \/ Others \/ Listener
  PROVE  past'.fresh = past.fresh
<1>1. CASE Heap
  BY <1>1 DEF Shapes, Heap, HeapCreate, HeapFree
<1>2. CASE Timers
  BY <1>2 DEF Shapes, Timers, Tick, TimerEnter, TimerExit, TimerThrow
<1>3. CASE Others
  BY <1>3 DEF Shapes, Others, SignalReported, JammedReported, ClassReported, TrafficReported
<1>4. CASE Listener
  BY <1>4 DEF Shapes, Listener, StartReset, ClearNext, RankMethods
<1> QED BY <1>1, <1>2, <1>3, <1>4

LEMMA FreshStep ==
  ASSUME Shapes, FreshKept, [Next]_vars
  PROVE  FreshKept'
<1>1. CASE Heap \/ Timers \/ Others \/ Listener
  BY <1>1, GuiKept, SampledKept, FreshReports, FreshSame
<1>2. CASE Deliver \/ ResetViewers
  <2>1. ~past'.fresh /\ past'.loads = past.loads
    BY <1>2 DEF Deliver, ResetViewers, Shapes
  <2> QED BY <2>1 DEF FreshKept
<1>3. CASE \/ StopTraffic \/ SessionSave \/ UNCHANGED vars
           \/ \E key \in SignalKeys : ShowDetail(key)
           \/ \E class \in Classes : ShowHeapDetail(class)
  <2>1. UNCHANGED <<main, shown, session, views>> /\ past'.fresh = past.fresh /\ past'.loads = past.loads
    BY <1>3 DEF StopTraffic, SessionSave, ShowDetail, ShowHeapDetail, vars, gui, Shapes
  <2> QED BY <2>1, FreshSame
<1>4. CASE \E r \in DOMAIN shown.classes.rows : PressClass(r)
  <2>1. UNCHANGED <<main, session, views>> /\ past'.fresh = past.fresh /\ past'.loads = past.loads
    BY <1>4 DEF PressClass, Shapes
  <2>2. shown # NewTables
    BY <1>4 DEF NewTables, NewClassTable
  <2> QED BY <2>1, <2>2 DEF FreshKept
<1>5. CASE SessionLoad
  <2>1. past'.loads = past.loads + 1
    BY <1>5 DEF SessionLoad, Shapes
  <2>2. past'.loads \in Nat /\ past'.loads # 0
    BY <2>1 DEF FreshKept
  <2> QED BY <2>2 DEF FreshKept
<1>6. CASE Restart
  BY <1>6 DEF Restart, Started, FreshKept, NewPast, NewMain
<1> QED BY <1>1, <1>2, <1>3, <1>4, <1>5, <1>6 DEF Next, Window

(* How often each name is in a list.                                       *)
LoadsOf(names) ==
  [nm \in ToSet(names) |-> Cardinality({i \in DOMAIN names : names[i] = nm})]

LEMMA LoadsOfRead ==
  ASSUME NEW table, NEW q, NEW lines, Listed(lines.classes), ClassesRead(q, lines), LoadsAre(table, q, Len(q)),
         NEW loads, loads = table.loads
  PROVE  loads = LoadsOf(ReadNames(lines.classes))
<1>1. PICK names : names = ReadNames(lines.classes)
  OBVIOUS
<1>2. PICK n \in Nat : n = Len(q) /\ DOMAIN names = 1 .. n /\ \A i \in 1 .. n : q[i].name = names[i]
  BY <1>1, ListedDomain DEF ClassesRead, ReadNames
<1>3. DOMAIN loads = ToSet(names)
  BY <1>2 DEF LoadsAre, ToSet
<1>4. ASSUME NEW nm \in DOMAIN loads
      PROVE  loads[nm] = Cardinality({i \in DOMAIN names : names[i] = nm})
  <2>1. {i \in DOMAIN names : names[i] = nm} = TimesOf(q, n, nm)
    BY <1>2 DEF TimesOf
  <2> QED BY <1>2, <1>4, <2>1 DEF LoadsAre
<1>5. loads = [nm \in DOMAIN loads |-> loads[nm]]
  BY DEF LoadsAre
<1> DEFINE Times(nm) == Cardinality({i \in DOMAIN names : names[i] = nm})
<1>6. \A nm \in DOMAIN loads : loads[nm] = Times(nm)
  BY <1>4
<1> HIDE DEF Times
<1>7. loads = [nm \in ToSet(names) |-> Times(nm)]
  BY <1>3, <1>5, <1>6
<1>8. loads = LoadsOf(names)
  BY <1>7 DEF Times, LoadsOf
<1> QED BY <1>1, <1>8

(* The step that loads into a program which has just been started.         *)
FileShown ==
  /\ \A i \in DOMAIN file.signals : shown'.signals[file.signals[i][1].key] = Len(file.signals[i])
  /\ DOMAIN shown'.jams = {file.jammed[i].key : i \in DOMAIN file.jammed}
  /\ \A i \in DOMAIN file.jammed :
       /\ shown'.jams[file.jammed[i].key].count = 1
       /\ shown'.jams[file.jammed[i].key].monitors \in ReadMonitors(file.jammed, i)
  /\ shown'.classes.loads = LoadsOf(ReadNames(file.classes))

LEMMA LoadsFile ==
  ASSUME WindowShapes, NamesKept, FreshKept, SessionLoad, ~crashed', past.fresh, past.loads = 0
  PROVE  FileShown
<1>1. main.signals = Nothing /\ shown = NewTables /\ session = NewSession /\ views = NoLines
  BY DEF FreshKept
<1>2. PICK loaded, g : loaded \in LoadedSessions(session, views') /\ g \in LoadShown(loaded) /\ GuiBecomes(g)
  BY DEF SessionLoad
<1>3. PICK lines : lines = views'
  OBVIOUS
<1>4. lines = Viewed(NoLines, file) /\ LinesShape(lines) /\ LinesNamed(lines)
  BY <1>1, <1>3, LoadNamed DEF SessionLoad
<1>5. lines.classes = file.classes /\ lines.jammed = file.jammed /\ lines.signals = file.signals
  BY <1>4, ViewedNew
<1>6. KeysOnce(lines)
  BY <1>5 DEF NamesKept, KeysOnce, KeyOf, SessionLoad
<1>7. SessionShape(session) /\ SessionNamed(session) /\ DOMAIN session.jammed = {}
  BY <1>1 DEF WindowShapes, GuiShape, Gui, NamesKept, NewSession, Nothing
<1>8. SessionShape(loaded)
  BY <1>2, <1>3, <1>4, <1>7, LoadedShape
<1>9. /\ SessionNamed(loaded)
      /\ ClassesRead(loaded.classes, lines)
      /\ DOMAIN loaded.jammed = DOMAIN session.jammed \cup {lines.jammed[i].key : i \in DOMAIN lines.jammed}
      /\ \A i \in DOMAIN lines.signals : KeyOf(lines, i) \in DOMAIN loaded.signals
      /\ \A i \in DOMAIN lines.signals : loaded.signals[KeyOf(lines, i)].signals = lines.signals[i]
      /\ \A i \in DOMAIN lines.jammed :
           loaded.jammed[lines.jammed[i].key].monitors \in ReadMonitors(lines.jammed, i)
  BY <1>2, <1>3, <1>4, <1>6, <1>7, LoadedNamed
<1>10. /\ \A key \in DOMAIN loaded.signals : g.shown.signals[key] = Len(loaded.signals[key].signals)
       /\ DOMAIN g.shown.jams = DOMAIN loaded.jammed
       /\ \A key \in DOMAIN loaded.jammed : JamShows(g.shown.jams, loaded.jammed, key)
       /\ LoadsAre(g.shown.classes, loaded.classes, Len(loaded.classes))
  BY <1>1, <1>2, <1>8, <1>9, LoadShows DEF WindowShapes
<1>11. shown' = g.shown
  BY <1>2 DEF GuiBecomes
<1>12. \A i \in DOMAIN file.signals : shown'.signals[file.signals[i][1].key] = Len(file.signals[i])
  BY <1>5, <1>9, <1>10, <1>11 DEF KeyOf
<1>13. DOMAIN shown'.jams = {file.jammed[i].key : i \in DOMAIN file.jammed}
  BY <1>5, <1>7, <1>9, <1>10, <1>11
<1>14. ASSUME NEW i \in DOMAIN file.jammed
       PROVE  /\ shown'.jams[file.jammed[i].key].count = 1
              /\ shown'.jams[file.jammed[i].key].monitors \in ReadMonitors(file.jammed, i)
  <2>1. file.jammed[i].key \in DOMAIN loaded.jammed
    BY <1>5, <1>9
  <2> QED BY <1>5, <1>9, <1>10, <1>11, <2>1 DEF JamShows
<1>15. shown'.classes.loads = LoadsOf(ReadNames(file.classes))
  BY <1>4, <1>5, <1>9, <1>10, <1>11, LoadsOfRead DEF LinesNamed, ClassesNamed
<1> QED BY <1>12, <1>13, <1>14, <1>15 DEF FileShown

(* Nothing but loading counts a load.                                      *)
LEMMA LoadStep ==
  ASSUME Shapes, WindowShapes, NamesKept, FreshKept, [Next]_vars,
         past.fresh, past.loads = 0, past'.loads = 1, ~crashed'
  PROVE  FileShown
<1>1. CASE SessionLoad
  BY <1>1, LoadsFile
<1>2. CASE Heap \/ Timers \/ Others \/ Listener
  BY <1>2, SampledKept
<1>3. CASE \/ Deliver \/ ResetViewers \/ StopTraffic \/ SessionSave \/ UNCHANGED vars
           \/ \E key \in SignalKeys : ShowDetail(key)
           \/ \E class \in Classes : ShowHeapDetail(class)
           \/ \E r \in DOMAIN shown.classes.rows : PressClass(r)
  <2>1. past'.loads = past.loads
    BY <1>3 DEF Deliver, ResetViewers, StopTraffic, SessionSave, ShowDetail, ShowHeapDetail, PressClass, vars, Shapes
  <2> QED BY <2>1
<1>4. CASE Restart
  <2>1. past'.loads = 0
    BY <1>4 DEF Restart, NewPast
  <2> QED BY <2>1
<1> QED BY <1>1, <1>2, <1>3, <1>4 DEF Next, Window

(* A program that has just been started shows, when it loads a file, what  *)
(* the parser reads in it of signals, jammed reports with their monitors   *)
(* and classes: Session::store writes a key once, its signals in order,    *)
(* and what session_load makes of the lines under its key is shown afresh. *)
THEOREM FilesAreShown == Spec => LoadShowsFile
<1> DEFINE Inv  == Shapes /\ WindowShapes /\ NamesKept /\ FreshKept
           Step == past.fresh /\ past.loads = 0 /\ past'.loads = 1 /\ ~crashed' => FileShown
<1>1. Init => Inv
  BY ShapesInit, WindowInit, NamesInit
<1>2. Inv /\ [Next]_vars => Inv'
  BY ShapesStep, WindowStep, NamesStep, FreshStep
<1>3. Inv /\ [Next]_vars => [Step]_vars
  BY LoadStep
<1> QED BY <1>1, <1>2, <1>3, PTL DEF Spec, LoadShowsFile, FileShown, LoadsOf
=============================================================================
