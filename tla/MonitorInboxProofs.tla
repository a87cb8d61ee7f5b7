------------------------- MODULE MonitorInboxProofs -------------------------
(***************************************************************************)
(* What TLAPS proves of MonitorInbox, for any set of connections, any      *)
(* capacity of _iq and any messages.                                       *)
(***************************************************************************)
EXTENDS MonitorInbox, SequenceTheorems, TLAPS

(* A thread pushes the pieces of a message only while it runs, the accept  *)
(* thread only while it announces a connection, and one at a time.         *)
ThreadsInv ==
  /\ \A w \in Writers : loaded[w] # NotLoaded => todo[w] # <<>>
  /\ \A c \in Conns : todo[c] # <<>> => conn[c] = "running"
  /\ todo[Acceptor] # <<>> => \E c \in Conns : conn[c] = "accepted"

(* A thread that has read write_index finds it unchanged, and the ring not *)
(* full, when it stores.                                                   *)
RoomInv ==
  ~raced =>
    \A w \in Writers : loaded[w] # NotLoaded =>
      loaded[w] = writeIndex /\ NextIndex(writeIndex) # readIndex

(* The inductive invariant.                                                *)
IInv == InboxTypeOK /\ ThreadsInv /\ RoomInv /\ IntactUnlessRaced

(* The messages of the connections are messages.                           *)
SentOK ==
  \A c \in Conns :
    /\ Len(sent[c]) \in Nat
    /\ \A i \in 1 .. Len(sent[c]) : Pieces(c, sent[c][i]) \in Seq(Piece)
-----------------------------------------------------------------------------
(* The arithmetic of the ring.                                             *)
LEMMA NextIndexIs ==
  ASSUME NEW i \in Slots
  PROVE  NextIndex(i) = (IF i = Capacity THEN 0 ELSE i + 1) /\ NextIndex(i) \in Slots
<1>1. Capacity \in Nat \ {0}
  BY InboxAssumption
<1>2. CASE i = Capacity
  BY <1>1, <1>2 DEF NextIndex, Slots
<1>3. CASE i # Capacity
  <2>1. i + 1 \in 0 .. Capacity
    BY <1>1, <1>3 DEF Slots
  <2>2. (i + 1) % (Capacity + 1) = i + 1
    BY <1>1, <2>1
  <2> QED BY <1>3, <2>1, <2>2 DEF NextIndex, Slots
<1> QED BY <1>2, <1>3

(* How many slots of the ring lie between two indexes, and the k-th of them.*)
Distance(r, w) == (w - r) % (Capacity + 1)
At(r, k) == (r + k - 1) % (Capacity + 1)

LEMMA DistanceIs ==
  ASSUME NEW r \in Slots, NEW w \in Slots
  PROVE  Distance(r, w) = (IF r <= w THEN w - r ELSE w - r + Capacity + 1)
<1>1. Capacity \in Nat \ {0} /\ r \in 0..Capacity /\ w \in 0..Capacity
  BY InboxAssumption DEF Slots
<1>2. CASE r <= w
  <2>1. w - r \in 0 .. Capacity
    BY <1>1, <1>2
  <2> QED BY <1>1, <1>2, <2>1 DEF Distance
<1>3. CASE ~(r <= w)
  <2>1. w - r \in (-Capacity) .. (-1)
    BY <1>1, <1>3
  <2> HIDE <1>3
  <2> DEFINE d == w - r
  <2>2. d \in Int /\ -(Capacity + 1) < d /\ d < 0
    BY <1>1, <2>1
  <2>3. d % (Capacity + 1) = d + (Capacity + 1)
    <3> HIDE DEF d
    <3> QED BY <1>1, <2>2
  <2> QED BY <1>1, <1>3, <2>3 DEF Distance
<1> QED BY <1>2, <1>3

LEMMA AtIs ==
  ASSUME NEW r \in Slots, NEW k \in 1 .. (Capacity + 1)
  PROVE  At(r, k) = IF r + k - 1 <= Capacity THEN r + k - 1 ELSE r + k - 2 - Capacity
<1>1. Capacity \in Nat \ {0} /\ r \in 0..Capacity /\ k \in 1..(Capacity + 1)
  BY InboxAssumption DEF Slots
<1> DEFINE s == r + k - 1
<1>2. s \in 0 .. (2 * Capacity)
  BY <1>1
<1>3. s % (Capacity + 1) = IF s <= Capacity THEN s ELSE s - (Capacity + 1)
  <2> HIDE DEF s
  <2>1. CASE s <= Capacity
    BY <1>1, <1>2, <2>1
  <2>2. CASE ~(s <= Capacity)
    BY <1>1, <1>2, <2>2
  <2> QED BY <2>1, <2>2
<1> QED BY <1>1, <1>3 DEF At

(* The ring as a function of its indexes and its slots.                    *)
RingOf(s, r, w) == [k \in 1 .. Distance(r, w) |-> s[At(r, k)]]

(* What the ring holds is a sequence of pieces.                            *)
LEMMA RingType ==
  ASSUME NEW s \in [Slots -> Piece], NEW r \in Slots, NEW w \in Slots
  PROVE  /\ Distance(r, w) \in 0 .. Capacity
         /\ RingOf(s, r, w) \in Seq(Piece)
         /\ Len(RingOf(s, r, w)) = Distance(r, w)
         /\ DOMAIN RingOf(s, r, w) = 1 .. Distance(r, w)
         /\ \A k \in 1 .. Distance(r, w) :
              At(r, k) \in Slots /\ RingOf(s, r, w)[k] = s[At(r, k)]
<1>1. Capacity \in Nat \ {0} /\ r \in 0..Capacity /\ w \in 0..Capacity
  BY InboxAssumption DEF Slots
<1>2. Distance(r, w) \in 0 .. Capacity
  BY <1>1, DistanceIs
<1>3. ASSUME NEW k \in 1 .. Distance(r, w) PROVE At(r, k) \in Slots
  <2>1. k \in 1 .. (Capacity + 1)
    BY <1>1, <1>2
  <2> QED BY <1>1, <2>1, AtIs DEF Slots
<1>4. \A k \in 1 .. Distance(r, w) : s[At(r, k)] \in Piece
  BY <1>3
<1>5. RingOf(s, r, w) \in Seq(Piece) /\ Len(RingOf(s, r, w)) = Distance(r, w)
  <2>1. Distance(r, w) \in Nat
    BY <1>1, <1>2
  <2> QED BY <1>4, <2>1 DEF RingOf
<1> QED BY <1>2, <1>3, <1>5 DEF RingOf

(* A push into a ring with room adds the piece at the end.                 *)
LEMMA RingPush ==
  ASSUME NEW s \in [Slots -> Piece], NEW r \in Slots, NEW w \in Slots,
         NEW x \in Piece, NextIndex(w) # r
  PROVE  RingOf([s EXCEPT ![w] = x], r, NextIndex(w)) = Append(RingOf(s, r, w), x)
<1> DEFINE t == [s EXCEPT ![w] = x]
           n == Distance(r, w)
<1>1. Capacity \in Nat \ {0} /\ r \in 0..Capacity /\ w \in 0..Capacity
  BY InboxAssumption DEF Slots
<1>2. NextIndex(w) \in Slots /\ NextIndex(w) = IF w = Capacity THEN 0 ELSE w + 1
  BY NextIndexIs
<1>3. t \in [Slots -> Piece]
  OBVIOUS
<1>4. n \in 0 .. Capacity /\ Distance(r, NextIndex(w)) = n + 1
  BY <1>1, <1>2, DistanceIs
<1>5. At(r, n + 1) = w
  BY <1>1, <1>4, AtIs, DistanceIs
<1>6. ASSUME NEW k \in 1 .. n PROVE At(r, k) # w /\ At(r, k) \in Slots
  <2>1. k \in 1 .. (Capacity + 1)
    BY <1>1, <1>4
  <2>2. At(r, k) # w
    BY <1>1, <2>1, AtIs, DistanceIs
  <2> QED BY <2>2, RingType
<1> DEFINE old == RingOf(s, r, w)
           new == RingOf(t, r, NextIndex(w))
<1>7. /\ old \in Seq(Piece) /\ Len(old) = n
      /\ \A k \in 1 .. n : old[k] = s[At(r, k)]
  BY RingType
<1>8. /\ new \in Seq(Piece) /\ Len(new) = n + 1
      /\ \A k \in 1 .. (n + 1) : new[k] = t[At(r, k)]
  <2> HIDE DEF t
  <2>1. /\ new \in Seq(Piece) /\ Len(new) = Distance(r, NextIndex(w))
        /\ \A k \in 1 .. Distance(r, NextIndex(w)) : new[k] = t[At(r, k)]
    BY <1>2, <1>3, RingType
  <2> QED BY <1>4, <2>1
<1> HIDE DEF n, old, new
<1>9. new[n + 1] = x
  BY <1>4, <1>5, <1>8
<1>11. ASSUME NEW k \in 1 .. n PROVE new[k] = old[k]
  <2>1. k \in 1 .. (n + 1)
    BY <1>4
  <2> QED BY <1>6, <1>7, <1>8, <2>1
<1> HIDE DEF t
<1>10. new = Append(old, x)
  BY <1>4, <1>7, <1>8, <1>9, <1>11
<1> QED BY <1>10 DEF t, old, new

(* A pop from a ring that is not empty removes the first piece.            *)
LEMMA RingPop ==
  ASSUME NEW s \in [Slots -> Piece], NEW r \in Slots, NEW w \in Slots, r # w
  PROVE  /\ RingOf(s, r, w) # <<>>
         /\ Head(RingOf(s, r, w)) = s[r]
         /\ RingOf(s, NextIndex(r), w) = Tail(RingOf(s, r, w))
<1> DEFINE n == Distance(r, w)
<1>1. Capacity \in Nat \ {0} /\ r \in 0..Capacity /\ w \in 0..Capacity
  BY InboxAssumption DEF Slots
<1>2. NextIndex(r) \in Slots /\ NextIndex(r) = IF r = Capacity THEN 0 ELSE r + 1
  BY NextIndexIs
<1>4. n \in 1 .. Capacity /\ Distance(NextIndex(r), w) = n - 1
  BY <1>1, <1>2, DistanceIs
<1>5. At(r, 1) = r
  BY <1>1, AtIs
<1>6. ASSUME NEW k \in 1 .. (n - 1) PROVE At(NextIndex(r), k) = At(r, k + 1)
  <2>1. k \in 1 .. (Capacity + 1) /\ k + 1 \in 1 .. (Capacity + 1)
    BY <1>1, <1>4
  <2> QED BY <1>1, <1>2, <2>1, AtIs
<1> DEFINE old == RingOf(s, r, w)
           new == RingOf(s, NextIndex(r), w)
<1>7. /\ old \in Seq(Piece) /\ Len(old) = n
      /\ \A k \in 1 .. n : old[k] = s[At(r, k)]
  BY RingType
<1>8. /\ new \in Seq(Piece) /\ Len(new) = n - 1
      /\ \A k \in 1 .. (n - 1) : new[k] = s[At(NextIndex(r), k)]
  <2>1. /\ new \in Seq(Piece) /\ Len(new) = Distance(NextIndex(r), w)
        /\ \A k \in 1 .. Distance(NextIndex(r), w) : new[k] = s[At(NextIndex(r), k)]
    BY <1>2, RingType
  <2> QED BY <1>4, <2>1
<1> HIDE DEF n, old, new
<1>9. ASSUME NEW k \in 1 .. (n - 1) PROVE new[k] = old[k + 1]
  <2>1. k + 1 \in 1 .. n
    BY <1>4
  <2>2. new[k] = s[At(NextIndex(r), k)] /\ old[k + 1] = s[At(r, k + 1)]
    BY <1>7, <1>8, <2>1
  <2> QED BY <1>6, <2>2
<1>10. old # <<>> /\ old[1] = s[r]
  BY <1>4, <1>5, <1>7
<1>11. new = Tail(old)
  BY <1>4, <1>7, <1>8, <1>9, <1>10
<1> QED BY <1>7, <1>10, <1>11 DEF old, new
-----------------------------------------------------------------------------
LEMMA QueuedIsRing == Queued = RingOf(slots, readIndex, writeIndex)
BY DEF Queued, RingOf, Distance, At

(* The pieces of a message that is one.                                    *)
LEMMA PiecesType ==
  ASSUME NEW c \in Conns, NEW m \in Carried
  PROVE  Pieces(c, m) \in Seq(Piece)
<1>1. m.kind \in Kinds /\ m.reports \in Seq([n : Nat]) /\ c \in Writers
  BY DEF Carried, Writers
<1>2. CASE m.reports = <<>>
  <2>1. [conn |-> c, kind |-> m.kind, n |-> 0] \in Piece
    BY <1>1 DEF Piece
  <2> QED BY <1>2, <2>1 DEF Pieces
<1>3. CASE m.reports # <<>>
  <2>1. ASSUME NEW i \in 1 .. Len(m.reports)
        PROVE  [conn |-> c, kind |-> m.kind, n |-> m.reports[i].n] \in Piece
    <3>1. m.reports[i] \in [n : Nat]
      BY <1>1, ElementOfSeq
    <3> QED BY <1>1, <3>1 DEF Piece
  <2>2. Len(m.reports) \in Nat
    BY <1>1
  <2> QED BY <1>3, <2>1, <2>2 DEF Pieces
<1> QED BY <1>2, <1>3

LEMMA InitInv == InboxInit => IInv
<1> SUFFICES ASSUME InboxInit PROVE IInv
  OBVIOUS
<1>1. Capacity \in Nat \ {0} /\ Acceptor \notin Conns
  BY InboxAssumption
<1>2. InboxTypeOK
  <2>1. Connected(Acceptor) \in Piece
    BY DEF Connected, Piece, Writers
  <2>2. slots \in [Slots -> Piece]
    BY <2>1 DEF InboxInit
  <2>3. /\ todo \in [Writers -> Seq(Piece)] /\ accepted \in Seq(Piece)
        /\ handled \in Seq(Piece)
    BY DEF InboxInit
  <2>4. /\ loaded \in [Writers -> Slots \cup {NotLoaded}]
        /\ writeIndex \in Slots /\ readIndex \in Slots
    BY <1>1 DEF InboxInit, Slots
  <2> QED BY <2>2, <2>3, <2>4 DEF InboxInit, InboxTypeOK
<1>3. ThreadsInv /\ RoomInv
  BY DEF InboxInit, ThreadsInv, RoomInv, Writers
<1>4. Queued = <<>>
  <2>1. Distance(0, 0) = 0
    BY <1>1, DistanceIs DEF Slots
  <2>2. 0 \in Slots /\ slots \in [Slots -> Piece]
    BY <1>1, <1>2 DEF Slots, InboxTypeOK
  <2>3. Len(RingOf(slots, 0, 0)) = 0 /\ RingOf(slots, 0, 0) \in Seq(Piece)
    BY <2>1, <2>2, RingType
  <2> QED BY <2>3, QueuedIsRing, EmptySeq DEF InboxInit
<1>5. IntactUnlessRaced
  BY <1>4 DEF InboxInit, IntactUnlessRaced
<1> QED BY <1>2, <1>3, <1>5 DEF IInv

(* What is queued is a sequence of pieces.                                 *)
LEMMA QueuedType == InboxTypeOK => Queued \in Seq(Piece)
BY RingType, QueuedIsRing DEF InboxTypeOK

(* A step that leaves the queue alone.                                     *)
LEMMA IntactFrame ==
  ASSUME IntactUnlessRaced, UNCHANGED <<slots, writeIndex, readIndex, accepted, handled, raced>>,
         \A c \in Conns : conn[c] # "none" => conn'[c] # "none"
  PROVE  IntactUnlessRaced'
BY DEF IntactUnlessRaced, Queued

LEMMA AcceptInv ==
  ASSUME IInv, NEW c \in Conns, Accept(c)
  PROVE  IInv'
<1>1. Acceptor \in Writers /\ c \in Writers /\ Acceptor \notin Conns
  BY InboxAssumption DEF Writers
<1>2. Connected(c) \in Piece
  BY <1>1 DEF Connected, Piece
<1>3. loaded[Acceptor] = NotLoaded
  BY <1>1 DEF IInv, ThreadsInv, Accept
<1>4. InboxTypeOK'
  <2>1. <<Connected(c)>> \in Seq(Piece)
    BY <1>2
  <2> QED BY <2>1 DEF IInv, InboxTypeOK, Accept
<1>5. ThreadsInv'
  <2>1. todo \in [Writers -> Seq(Piece)] /\ conn \in [Conns -> {"none", "accepted", "running"}]
    BY DEF IInv, InboxTypeOK
  <2> QED BY <1>1, <1>3, <2>1 DEF IInv, ThreadsInv, Accept, Writers
<1>6. RoomInv'
  BY DEF IInv, RoomInv, Accept
<1>7. IntactUnlessRaced'
  BY IntactFrame DEF IInv, Accept, InboxTypeOK
<1> QED BY <1>4, <1>5, <1>6, <1>7 DEF IInv

LEMMA StartThreadInv ==
  ASSUME IInv, NEW c \in Conns, StartThread(c)
  PROVE  IInv'
<1>1. InboxTypeOK'
  BY DEF IInv, InboxTypeOK, StartThread
<1>2. ThreadsInv'
  BY DEF IInv, InboxTypeOK, ThreadsInv, StartThread
<1>3. RoomInv'
  BY DEF IInv, RoomInv, StartThread
<1>4. IntactUnlessRaced'
  BY IntactFrame DEF IInv, StartThread, InboxTypeOK
<1> QED BY <1>1, <1>2, <1>3, <1>4 DEF IInv

LEMMA TakeMessageInv ==
  ASSUME IInv, SentOK, NEW c \in Conns, TakeMessage(c)
  PROVE  IInv'
<1>1. Acceptor \in Writers /\ c \in Writers /\ c # Acceptor
  BY InboxAssumption DEF Writers
<1>2. taken[c] \in Nat /\ taken[c] + 1 \in 1 .. Len(sent[c])
  BY DEF IInv, InboxTypeOK, SentOK, TakeMessage
<1>3. Pieces(c, sent[c][taken[c] + 1]) \in Seq(Piece)
  BY <1>2 DEF SentOK
<1>4. InboxTypeOK'
  <2>1. taken' \in [Conns -> Nat]
    BY <1>2 DEF IInv, InboxTypeOK, TakeMessage
  <2>2. todo' \in [Writers -> Seq(Piece)]
    BY <1>3 DEF IInv, InboxTypeOK, TakeMessage
  <2> QED BY <2>1, <2>2 DEF IInv, InboxTypeOK, TakeMessage
<1>5. ThreadsInv'
  <2>1. loaded[c] = NotLoaded
    BY <1>1 DEF IInv, ThreadsInv, TakeMessage
  <2>2. todo \in [Writers -> Seq(Piece)]
    BY DEF IInv, InboxTypeOK
  <2> QED BY <1>1, <2>1, <2>2 DEF IInv, ThreadsInv, TakeMessage, Writers
<1>6. RoomInv'
  BY DEF IInv, RoomInv, TakeMessage
<1>7. IntactUnlessRaced'
  BY IntactFrame DEF IInv, TakeMessage
<1> QED BY <1>4, <1>5, <1>6, <1>7 DEF IInv

LEMMA LoadIndexInv ==
  ASSUME IInv, NEW w \in Writers, LoadIndex(w)
  PROVE  IInv'
<1>1. InboxTypeOK'
  BY DEF IInv, InboxTypeOK, LoadIndex
<1>2. ThreadsInv'
  BY DEF IInv, InboxTypeOK, ThreadsInv, LoadIndex
<1>3. RoomInv'
  BY DEF IInv, InboxTypeOK, RoomInv, LoadIndex
<1>4. IntactUnlessRaced'
  BY IntactFrame DEF IInv, LoadIndex
<1> QED BY <1>1, <1>2, <1>3, <1>4 DEF IInv

(* Two threads push at a time only when two connections are announced.     *)
LEMMA RaceTakesTwo ==
  ASSUME IInv, NEW v \in Writers, NEW w \in Writers, v # w,
         loaded[v] # NotLoaded, loaded[w] # NotLoaded
  PROVE  \E c, d \in Conns : c # d /\ conn[c] # "none" /\ conn[d] # "none"
<1>1. todo[v] # <<>> /\ todo[w] # <<>>
  BY DEF IInv, ThreadsInv
<1>2. CASE v \in Conns /\ w \in Conns
  BY <1>1, <1>2 DEF IInv, ThreadsInv
<1>3. CASE v = Acceptor /\ w \in Conns
  BY <1>1, <1>3 DEF IInv, ThreadsInv
<1>4. CASE v \in Conns /\ w = Acceptor
  BY <1>1, <1>4 DEF IInv, ThreadsInv
<1> QED BY <1>2, <1>3, <1>4 DEF Writers

LEMMA StoreIndexInv ==
  ASSUME IInv, NEW w \in Writers, StoreIndex(w)
  PROVE  IInv'
<1> DEFINE x == Head(todo[w])
<1>1. /\ todo[w] \in Seq(Piece) /\ todo[w] # <<>>
      /\ loaded[w] \in Slots /\ readIndex \in Slots /\ writeIndex \in Slots
      /\ accepted \in Seq(Piece) /\ handled \in Seq(Piece) /\ slots \in [Slots -> Piece]
  BY DEF IInv, InboxTypeOK, ThreadsInv, StoreIndex
<1>2. x \in Piece /\ Tail(todo[w]) \in Seq(Piece)
  BY <1>1, HeadTailProperties
<1>3. NextIndex(loaded[w]) \in Slots
  BY <1>1, NextIndexIs
<1>4. InboxTypeOK'
  <2>1. Append(accepted, x) \in Seq(Piece)
    BY <1>1, <1>2, AppendProperties
  <2>2. raced' \in BOOLEAN
    BY DEF StoreIndex
  <2> HIDE DEF x
  <2>3. /\ slots' \in [Slots -> Piece] /\ todo' \in [Writers -> Seq(Piece)]
        /\ loaded' \in [Writers -> Slots \cup {NotLoaded}]
    BY <1>2 DEF IInv, InboxTypeOK, StoreIndex, x
  <2> QED BY <1>3, <2>1, <2>2, <2>3 DEF IInv, InboxTypeOK, StoreIndex, x
<1>5. ThreadsInv'
  <2>1. /\ loaded' = [loaded EXCEPT ![w] = NotLoaded]
        /\ todo' = [todo EXCEPT ![w] = Tail(@)] /\ UNCHANGED conn
    BY DEF StoreIndex
  <2>2. /\ todo \in [Writers -> Seq(Piece)]
        /\ loaded \in [Writers -> Slots \cup {NotLoaded}]
    BY DEF IInv, InboxTypeOK
  <2>3. \A v \in Writers : todo'[v] # <<>> => todo[v] # <<>>
    BY <1>1, <2>1, <2>2
  <2>4. \A v \in Writers : loaded'[v] # NotLoaded => v # w /\ loaded[v] # NotLoaded /\ todo'[v] = todo[v]
    BY <2>1, <2>2
  <2> QED BY <2>1, <2>3, <2>4 DEF IInv, ThreadsInv, Writers
<1>6. CASE ~raced'
  <2>1. ~raced /\ \A v \in Writers \ {w} : loaded[v] = NotLoaded
    BY <1>6 DEF StoreIndex
  <2>2. loaded[w] = writeIndex /\ NextIndex(writeIndex) # readIndex
    BY <2>1 DEF IInv, RoomInv, StoreIndex
  <2>3. RoomInv'
    BY <2>1 DEF RoomInv, StoreIndex, IInv, InboxTypeOK
  <2>4. Queued' = Append(Queued, x)
    <3>1. RingOf([slots EXCEPT ![writeIndex] = x], readIndex, NextIndex(writeIndex))
            = Append(RingOf(slots, readIndex, writeIndex), x)
      BY <1>1, <1>2, <2>2, RingPush
    <3>2. Queued' = RingOf(slots', readIndex', writeIndex')
      BY DEF Queued, RingOf, Distance, At
    <3>3. slots' = [slots EXCEPT ![writeIndex] = x] /\ readIndex' = readIndex
          /\ writeIndex' = NextIndex(writeIndex)
      BY <2>2 DEF StoreIndex
    <3> QED BY <3>1, <3>2, <3>3, QueuedIsRing
  <2>5. accepted' = handled' \o Queued'
    <3>1. accepted = handled \o Queued
      BY <2>1 DEF IInv, IntactUnlessRaced
    <3>2. accepted' = Append(accepted, x) /\ handled' = handled
      BY DEF StoreIndex
    <3>3. Queued \in Seq(Piece)
      BY <1>1, RingType, QueuedIsRing
    <3> HIDE DEF x
    <3>4. Append(accepted, x) = accepted \o <<x>> /\ Append(Queued, x) = Queued \o <<x>>
      BY <1>1, <1>2, <3>3, AppendIsConcat
    <3>5. (handled \o Queued) \o <<x>> = handled \o (Queued \o <<x>>)
      BY <1>1, <1>2, <3>3, ConcatAssociative
    <3> QED BY <2>4, <3>1, <3>2, <3>4, <3>5
  <2> QED BY <1>4, <1>5, <1>6, <2>3, <2>5 DEF IInv, IntactUnlessRaced
<1>7. CASE raced'
  <2>1. RoomInv'
    BY <1>7 DEF RoomInv
  <2>2. \E c, d \in Conns : c # d /\ conn'[c] # "none" /\ conn'[d] # "none"
    <3>1. conn' = conn
      BY DEF StoreIndex
    <3>2. CASE raced
      BY <3>1, <3>2 DEF IInv, IntactUnlessRaced
    <3>3. CASE ~raced
      <4>1. PICK v \in Writers \ {w} : loaded[v] # NotLoaded
        BY <1>7, <3>3 DEF StoreIndex
      <4>2. loaded[w] # NotLoaded
        BY DEF StoreIndex
      <4> QED BY <3>1, <4>1, <4>2, RaceTakesTwo
    <3> QED BY <3>2, <3>3
  <2> QED BY <1>4, <1>5, <1>7, <2>1, <2>2 DEF IInv, IntactUnlessRaced
<1> QED BY <1>6, <1>7

LEMMA HandleInv ==
  ASSUME IInv, Handle
  PROVE  IInv'
<1>1. /\ readIndex \in Slots /\ writeIndex \in Slots /\ readIndex # writeIndex
      /\ accepted \in Seq(Piece) /\ handled \in Seq(Piece) /\ slots \in [Slots -> Piece]
  BY DEF IInv, InboxTypeOK, Handle
<1>2. NextIndex(readIndex) \in Slots /\ slots[readIndex] \in Piece
  BY <1>1, NextIndexIs
<1>3. InboxTypeOK'
  <2>1. Append(handled, slots[readIndex]) \in Seq(Piece)
    BY <1>1, <1>2, AppendProperties
  <2> QED BY <1>2, <2>1 DEF IInv, InboxTypeOK, Handle
<1>4. ThreadsInv'
  BY DEF IInv, ThreadsInv, Handle
<1>5. RoomInv'
  <2>1. NextIndex(writeIndex) # NextIndex(readIndex)
    <3>1. Capacity \in Nat \ {0} /\ readIndex \in 0..Capacity /\ writeIndex \in 0..Capacity
      BY <1>1, InboxAssumption DEF Slots
    <3> QED BY <1>1, <3>1, NextIndexIs
  <2> QED BY <2>1 DEF IInv, RoomInv, Handle
<1>6. CASE raced
  BY <1>3, <1>4, <1>5, <1>6 DEF IInv, IntactUnlessRaced, Handle
<1>7. CASE ~raced
  <2> DEFINE q == Queued
             x == slots[readIndex]
  <2>1. q \in Seq(Piece)
    BY <1>1, RingType, QueuedIsRing
  <2>2. Queued' = RingOf(slots, NextIndex(readIndex), writeIndex)
    BY DEF Handle, Queued, RingOf, Distance, At
  <2>3. q # <<>> /\ Head(q) = x /\ Queued' = Tail(q)
    BY <1>1, <2>2, RingPop, QueuedIsRing
  <2>4. accepted' = handled \o q /\ handled' = Append(handled, x) /\ ~raced'
    BY <1>7 DEF IInv, IntactUnlessRaced, Handle
  <2> HIDE DEF q, x
  <2>5. q = <<x>> \o Tail(q) /\ Tail(q) \in Seq(Piece) /\ <<x>> \in Seq(Piece)
    BY <1>2, <2>1, <2>3, HeadTailProperties DEF x
  <2>6. Append(handled, x) \o Tail(q) = handled \o q
    BY <1>1, <1>2, <2>1, <2>5, AppendIsConcat, ConcatAssociative DEF x
  <2>7. IntactUnlessRaced'
    BY <2>3, <2>4, <2>6 DEF IntactUnlessRaced
  <2> QED BY <1>3, <1>4, <1>5, <2>7 DEF IInv
<1> QED BY <1>6, <1>7

LEMMA StepInv ==
  ASSUME IInv, SentOK, InboxNext
  PROVE  IInv'
BY AcceptInv, StartThreadInv, TakeMessageInv, LoadIndexInv, StoreIndexInv, HandleInv
   DEF InboxNext

LEMMA StutterInv ==
  ASSUME IInv, UNCHANGED inboxVars
  PROVE  IInv'
BY DEF IInv, InboxTypeOK, ThreadsInv, RoomInv, IntactUnlessRaced, Queued, inboxVars
-----------------------------------------------------------------------------
(* IInv is an invariant, and the messages of the connections stay.         *)
THEOREM Invariance == Spec => [](IInv /\ SentOK)
<1>1. Init => IInv /\ SentOK
  <2>1. ASSUME Init PROVE SentOK
    <3>1. sent \in [Conns -> Seq(Carried)]
      BY <2>1, InboxAssumption DEF Init
    <3>2. ASSUME NEW c \in Conns
          PROVE  /\ Len(sent[c]) \in Nat
                 /\ \A i \in 1 .. Len(sent[c]) : Pieces(c, sent[c][i]) \in Seq(Piece)
      <4>1. sent[c] \in Seq(Carried)
        BY <3>1
      <4>2. \A i \in 1 .. Len(sent[c]) : sent[c][i] \in Carried
        BY <4>1, ElementOfSeq
      <4> QED BY <4>1, <4>2, PiecesType
    <3> QED BY <3>2 DEF SentOK
  <2> QED BY <2>1, InitInv DEF Init
<1>2. IInv /\ SentOK /\ [Next]_vars => IInv' /\ SentOK'
  <2> SUFFICES ASSUME IInv, SentOK, [Next]_vars PROVE IInv' /\ SentOK'
    OBVIOUS
  <2>1. SentOK'
    BY DEF SentOK, Next, vars
  <2>2. IInv'
    BY StepInv, StutterInv DEF Next, vars, inboxVars
  <2> QED BY <2>1, <2>2
<1> QED BY <1>1, <1>2, PTL DEF Spec

(* Unless two pushes overlapped, which takes two connections, what has     *)
(* been pushed is what mhandler has dispatched followed by what is queued, *)
(* however often the ring has wrapped around.                              *)
THEOREM QueueIntact == Spec => []IntactUnlessRaced
<1>1. IInv => IntactUnlessRaced
  BY DEF IInv
<1> QED BY <1>1, Invariance, PTL
=============================================================================
