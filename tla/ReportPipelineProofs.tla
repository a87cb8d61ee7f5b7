------------------------ MODULE ReportPipelineProofs ------------------------
(***************************************************************************)
(* What TLAPS proves of the way of a report to the monitor, for any number *)
(* of agents, any sizes, any batch and message size, any capacity of _iq   *)
(* and any number of reports.  First the half in the agent, SignalSender:  *)
(* batching, flushing and splitting keep every report, once and in order.  *)
(* Then ReportPipeline: the dispatcher sees the reports of every JVM in    *)
(* the order in which they were queued there, and misses none.  The second *)
(* part composes the invariants of the first and of MonitorInboxProofs.    *)
(***************************************************************************)
EXTENDS ReportPipeline, SequenceTheorems, TLAPS

InboxP == INSTANCE MonitorInboxProofs WITH Conns <- Agents, Histories <- {}
-----------------------------------------------------------------------------
(* The reports of s are the ones of ranks base + 1, base + 2, ...          *)
IsRun(s, base) == \A i \in 1..Len(s) : s[i].n = base + i

(* How many reports of agent a have been given to Reporter::signal.        *)
Out(a) == pushed[a] - Len(buffer[a]) - Len(signalQueue[a])

(* Every rank in the messages ms lies between lo + 1 and hi.               *)
Within(ms, lo, hi) ==
  \A k \in 1..Len(ms) : \A i \in 1..Len(ms[k].reports) :
    ms[k].reports[i].n > lo /\ ms[k].reports[i].n <= hi

(* The messages ms carry exactly the reports 1, ..., n, in order.           *)
Holds(ms, n) ==
  /\ Ordered(ms)
  /\ Within(ms, 0, n)
  /\ \A r \in 1..n : Carries(ms, r)

(* No message of ms is longer than it may be.                              *)
Fits(ms) ==
  \A k \in 1..Len(ms) :
    /\ Len(ms[k].reports) <= BatchSize
    /\ Len(ms[k].reports) > 1 => ~(JoinedSize(ms[k].reports) > MaxMsgSize)

(* The messages ns of a batch, or the pieces that are left of a split one, *)
(* are for the reports lo + 1, ..., hi.                                    *)
Pending(ns, lo, hi) ==
  \/ Len(ns) = 1 /\ IsRun(ns[1].reports, lo) /\ hi = lo + Len(ns[1].reports)
  \/ /\ hi = lo + Len(ns)
     /\ \A k \in 1..Len(ns) : Len(ns[k].reports) = 1 /\ ns[k].reports[1].n = lo + k

(* The messages that carry reports.                                        *)
Reporting(ns) == \A k \in 1..Len(ns) : ns[k].kind = "REPORT" /\ Len(ns[k].reports) > 0

(* What is sent, and what is left to send, of the first out reports.       *)
Outgoing(ms, ns, out) == \E lo \in Nat : Holds(ms, lo) /\ Pending(ns, lo, out)

(* The inductive invariant: the queue, the buffer, the messages still to   *)
(* send and those sent hold four consecutive runs of ranks, and the buffer *)
(* is short of a batch.                                                    *)
AgentInv(a) ==
  /\ Out(a) >= 0
  /\ IsRun(signalQueue[a], pushed[a] - Len(signalQueue[a]))
  /\ IsRun(buffer[a], Out(a))
  /\ Len(buffer[a]) < BatchSize
  /\ Outgoing(sent[a], unsent[a], Out(a))
  /\ Fits(sent[a]) /\ Fits(unsent[a])
  /\ Reporting(unsent[a])

IInv == TypeOK /\ \A a \in Agents : AgentInv(a)
-----------------------------------------------------------------------------
(* Reporter::signal makes messages of the reports it is given.             *)
LEMMA SignalMessagesType ==
  ASSUME NEW s \in Seq(Report)
  PROVE  SignalMessages(s) \in Seq(Message)
<1>1. CASE JoinedSize(s) > MaxMsgSize
  <2>1. \A i \in 1..Len(s) : Joined(<<s[i]>>) \in Message
    BY DEF Joined, Message
  <2>2. [i \in 1..Len(s) |-> Joined(<<s[i]>>)] \in Seq(Message)
    BY <2>1
  <2> QED BY <1>1, <2>2 DEF SignalMessages
<1>2. CASE ~(JoinedSize(s) > MaxMsgSize)
  <2>1. Joined(s) \in Message
    BY DEF Joined, Message
  <2> QED BY <1>2, <2>1 DEF SignalMessages
<1> QED BY <1>1, <1>2

(* A queue that grows with the count of pushes leaves the difference.      *)
LEMMA MinusBoth ==
  ASSUME NEW p \in Nat, NEW b \in Nat, NEW q \in Nat
  PROVE  (p + 1) - b - (q + 1) = p - b - q
OBVIOUS

(* ... for these reports, split or not.                                    *)
LEMMA SignalMessagesRun ==
  ASSUME NEW s \in Seq(Report), s # <<>>, NEW base \in Nat, IsRun(s, base)
  PROVE  /\ Pending(SignalMessages(s), base, base + Len(s))
         /\ Reporting(SignalMessages(s))
<1> DEFINE ms == SignalMessages(s)
<1>0. Len(s) \in Nat /\ Len(s) > 0
  OBVIOUS
<1>1. CASE JoinedSize(s) > MaxMsgSize
  <2>1. /\ Len(ms) = Len(s)
        /\ \A k \in 1..Len(s) : ms[k].kind = "REPORT" /\ ms[k].reports = <<s[k]>>
    BY <1>1 DEF SignalMessages, Joined
  <2> HIDE DEF ms
  <2>2. ASSUME NEW k \in 1..Len(ms)
        PROVE  ms[k].kind = "REPORT" /\ Len(ms[k].reports) = 1 /\ ms[k].reports[1].n = base + k
    <3>1. ms[k].kind = "REPORT" /\ ms[k].reports = <<s[k]>> /\ s[k].n = base + k
      BY <2>1 DEF IsRun
    <3>2. Len(<<s[k]>>) = 1 /\ <<s[k]>>[1] = s[k]
      OBVIOUS
    <3> QED BY <3>1, <3>2
  <2>3. Pending(ms, base, base + Len(s))
    BY <2>1, <2>2 DEF Pending
  <2>4. Reporting(ms)
    BY <2>2 DEF Reporting
  <2> QED BY <2>3, <2>4 DEF ms
<1>2. CASE ~(JoinedSize(s) > MaxMsgSize)
  <2>1. Len(ms) = 1 /\ ms[1].kind = "REPORT" /\ ms[1].reports = s
    BY <1>2 DEF SignalMessages, Joined
  <2> HIDE DEF ms
  <2>2. Pending(ms, base, base + Len(s))
    BY <2>1 DEF Pending
  <2>3. \A k \in 1..Len(ms) : k = 1
    BY <2>1
  <2>4. Reporting(ms)
    BY <1>0, <2>1, <2>3 DEF Reporting
  <2> QED BY <2>2, <2>4 DEF ms
<1> QED BY <1>1, <1>2

(* No message is pending exactly when no report is.                        *)
LEMMA PendingNone ==
  ASSUME NEW lo \in Nat
  PROVE  Pending(<<>>, lo, lo)
<1>1. Len(<<>>) = 0
  OBVIOUS
<1> QED BY <1>1 DEF Pending

LEMMA NonePending ==
  ASSUME NEW lo \in Nat, NEW hi \in Nat, Pending(<<>>, lo, hi)
  PROVE  hi = lo
<1>1. Len(<<>>) = 0
  OBVIOUS
<1> QED BY <1>1 DEF Pending

LEMMA RankType ==
  ASSUME NEW m \in Message, NEW i \in 1..Len(m.reports)
  PROVE  m.reports[i].n \in Nat
<1>1. m.reports \in Seq(Report)
  BY DEF Message
<1>2. m.reports[i] \in Report
  BY <1>1, ElementOfSeq
<1> QED BY <1>2 DEF Report

(* What is pending is in order and complete.                               *)
LEMMA PendingRun ==
  ASSUME NEW ns \in Seq(Message), NEW lo \in Nat, NEW hi \in Nat, Pending(ns, lo, hi)
  PROVE  /\ lo <= hi
         /\ Ordered(ns)
         /\ Within(ns, lo, hi)
         /\ \A r \in (lo + 1)..hi : Carries(ns, r)
<1>0. Len(ns) \in Nat
  OBVIOUS
<1>1. CASE Len(ns) = 1 /\ IsRun(ns[1].reports, lo) /\ hi = lo + Len(ns[1].reports)
  <2> DEFINE s == ns[1].reports
  <2>0. ns[1] \in Message
    BY <1>1
  <2>1. s \in Seq(Report) /\ Len(s) \in Nat
    BY <2>0 DEF Message
  <2>2. \A k \in 1..Len(ns) : k = 1
    BY <1>1
  <2>3. \A i \in 1..Len(s) : s[i].n = lo + i
    BY <1>1 DEF IsRun
  <2> HIDE DEF s
  <2>4. \A k \in 1..Len(ns) : ns[k].reports = s
    BY <2>2 DEF s
  <2>5. \A i, j \in 1..Len(s) : i < j => s[i].n < s[j].n
    BY <2>1, <2>3
  <2>6. \A k, l \in 1..Len(ns) : ~(k < l)
    BY <2>2
  <2>7. Ordered(ns)
    BY <2>4, <2>5, <2>6 DEF Ordered
  <2>8. hi = lo + Len(s)
    BY <1>1 DEF s
  <2>9. Within(ns, lo, hi)
    BY <2>1, <2>3, <2>4, <2>8 DEF Within
  <2>10. ASSUME NEW r \in (lo + 1)..hi PROVE Carries(ns, r)
    <3>1. r - lo \in 1..Len(s) /\ lo + (r - lo) = r
      BY <2>1, <2>8
    <3>2. s[r - lo].n = r
      BY <2>3, <3>1
    <3>3. 1 \in 1..Len(ns) /\ ns[1].reports = s
      BY <1>1 DEF s
    <3> QED BY <3>1, <3>2, <3>3 DEF Carries
  <2>11. lo <= hi
    BY <2>1, <2>8
  <2> QED BY <2>7, <2>9, <2>10, <2>11
<1>2. CASE /\ hi = lo + Len(ns)
           /\ \A k \in 1..Len(ns) : Len(ns[k].reports) = 1 /\ ns[k].reports[1].n = lo + k
  <2>1. ASSUME NEW k \in 1..Len(ns), NEW i \in 1..Len(ns[k].reports)
        PROVE  i = 1 /\ ns[k].reports[i].n = lo + k
    <3>1. Len(ns[k].reports) = 1 /\ ns[k].reports[1].n = lo + k
      BY <1>2
    <3>2. i \in 1..1
      BY <3>1
    <3>3. i = 1
      BY <3>2
    <3> QED BY <3>1, <3>3
  <2>2. Ordered(ns)
    <3>1. ASSUME NEW k \in 1..Len(ns), NEW i \in 1..Len(ns[k].reports),
                 NEW j \in 1..Len(ns[k].reports), i < j
          PROVE  FALSE
      BY <2>1, <3>1
    <3>2. ASSUME NEW k \in 1..Len(ns), NEW l \in 1..Len(ns), k < l,
                 NEW i \in 1..Len(ns[k].reports), NEW j \in 1..Len(ns[l].reports)
          PROVE  ns[k].reports[i].n < ns[l].reports[j].n
      <4>1. ns[k].reports[i].n = lo + k /\ ns[l].reports[j].n = lo + l
        BY <2>1
      <4> QED BY <3>2, <4>1
    <3> QED BY <3>1, <3>2 DEF Ordered
  <2>3. Within(ns, lo, hi)
    <3>1. ASSUME NEW k \in 1..Len(ns), NEW i \in 1..Len(ns[k].reports)
          PROVE  ns[k].reports[i].n > lo /\ ns[k].reports[i].n <= hi
      <4>1. ns[k].reports[i].n = lo + k
        BY <2>1
      <4> QED BY <1>0, <1>2, <4>1
    <3> QED BY <3>1 DEF Within
  <2>4. ASSUME NEW r \in (lo + 1)..hi PROVE Carries(ns, r)
    <3>1. r - lo \in 1..Len(ns) /\ lo + (r - lo) = r
      BY <1>0, <1>2
    <3>2. Len(ns[r - lo].reports) = 1 /\ ns[r - lo].reports[1].n = r
      BY <1>2, <3>1
    <3> QED BY <3>1, <3>2 DEF Carries
  <2>5. lo <= hi
    BY <1>0, <1>2
  <2> QED BY <2>2, <2>3, <2>4, <2>5
<1> QED BY <1>1, <1>2 DEF Pending

(* Messages with later ranks can be appended to ordered messages.          *)
LEMMA OrderedConcat ==
  ASSUME NEW ms \in Seq(Message), NEW ns \in Seq(Message),
         NEW lo \in Nat, NEW mid \in Nat, NEW hi \in Nat, lo <= mid, mid <= hi,
         Ordered(ms), Within(ms, lo, mid), Ordered(ns), Within(ns, mid, hi)
  PROVE  Ordered(ms \o ns) /\ Within(ms \o ns, lo, hi)
<1> DEFINE cs == ms \o ns
<1>1. /\ Len(cs) = Len(ms) + Len(ns)
      /\ \A k \in 1..Len(cs) : cs[k] = IF k <= Len(ms) THEN ms[k] ELSE ns[k - Len(ms)]
  BY ConcatProperties
<1>2. Len(ms) \in Nat /\ Len(ns) \in Nat /\ \A k \in 1..Len(cs) : cs[k] \in Message
  OBVIOUS
<1> HIDE DEF cs
<1>8. ASSUME NEW k \in 1..Len(cs), k > Len(ms)
      PROVE  k - Len(ms) \in 1..Len(ns) /\ cs[k] = ns[k - Len(ms)]
  <2>1. k \in Nat /\ k <= Len(ms) + Len(ns) /\ ~(k <= Len(ms))
    BY <1>1, <1>2, <1>8
  <2>2. k - Len(ms) \in 1..Len(ns)
    BY <1>2, <2>1
  <2>3. cs[k] = ns[k - Len(ms)]
    BY <1>1, <2>1
  <2> QED BY <2>2, <2>3
<1>3. ASSUME NEW k \in 1..Len(cs), NEW i \in 1..Len(cs[k].reports)
      PROVE  /\ k <= Len(ms) => lo < cs[k].reports[i].n /\ cs[k].reports[i].n <= mid
             /\ k > Len(ms) => mid < cs[k].reports[i].n /\ cs[k].reports[i].n <= hi
             /\ cs[k].reports[i].n \in Nat
  <2>2. cs[k].reports[i].n \in Nat
    BY <1>2, RankType
  <2>3. CASE k <= Len(ms)
    <3>1. k \in 1..Len(ms) /\ cs[k] = ms[k]
      BY <1>1, <1>2, <2>3
    <3> QED BY <3>1, <2>2, <2>3 DEF Within
  <2>4. CASE k > Len(ms)
    <3>1. PICK q \in 1..Len(ns) : cs[k] = ns[q]
      BY <1>8, <2>4
    <3> QED BY <3>1, <2>2, <2>4 DEF Within
  <2> QED BY <2>3, <2>4, <1>2
<1>4. Within(cs, lo, hi)
  BY <1>2, <1>3 DEF Within
<1>5. ASSUME NEW k \in 1..Len(cs), NEW i \in 1..Len(cs[k].reports),
             NEW j \in 1..Len(cs[k].reports), i < j
      PROVE  cs[k].reports[i].n < cs[k].reports[j].n
  <2>1. CASE k <= Len(ms)
    <3>1. k \in 1..Len(ms) /\ cs[k] = ms[k]
      BY <1>1, <1>2, <2>1
    <3> QED BY <3>1, <1>5 DEF Ordered
  <2>2. CASE k > Len(ms)
    <3>1. PICK q \in 1..Len(ns) : cs[k] = ns[q]
      BY <1>8, <2>2
    <3> QED BY <3>1, <1>5 DEF Ordered
  <2> QED BY <2>1, <2>2, <1>2
<1>6. ASSUME NEW k \in 1..Len(cs), NEW l \in 1..Len(cs), k < l,
             NEW i \in 1..Len(cs[k].reports), NEW j \in 1..Len(cs[l].reports)
      PROVE  cs[k].reports[i].n < cs[l].reports[j].n
  <2>1. CASE l <= Len(ms)
    <3>1. k \in 1..Len(ms) /\ cs[k] = ms[k] /\ l \in 1..Len(ms) /\ cs[l] = ms[l]
      BY <1>1, <1>2, <1>6, <2>1
    <3> QED BY <3>1, <1>6 DEF Ordered
  <2>2. CASE k > Len(ms)
    <3>6. l > Len(ms)
      BY <1>2, <1>6, <2>2
    <3>1. PICK q \in 1..Len(ns) : q = k - Len(ms) /\ cs[k] = ns[q]
      BY <1>8, <2>2
    <3>2. PICK p \in 1..Len(ns) : p = l - Len(ms) /\ cs[l] = ns[p]
      BY <1>8, <3>6
    <3>3. q < p
      BY <1>2, <1>6, <3>1, <3>2
    <3>4. i \in 1..Len(ns[q].reports) /\ j \in 1..Len(ns[p].reports)
      BY <3>1, <3>2
    <3>5. ns[q].reports[i].n < ns[p].reports[j].n
      BY <3>3, <3>4 DEF Ordered
    <3> QED BY <3>1, <3>2, <3>5
  <2>3. CASE k <= Len(ms) /\ l > Len(ms)
    <3> DEFINE x == cs[k].reports[i].n
               y == cs[l].reports[j].n
    <3>1. x <= mid /\ x \in Nat
      BY <1>3, <2>3
    <3>2. mid < y /\ y \in Nat
      BY <1>3, <2>3
    <3> HIDE DEF x, y
    <3>3. x < y
      BY <3>1, <3>2
    <3> QED BY <3>3 DEF x, y
  <2> QED BY <2>1, <2>2, <2>3, <1>2
<1>7. Ordered(cs)
  BY <1>5, <1>6 DEF Ordered
<1> QED BY <1>4, <1>7 DEF cs

(* A report carried by one of two lists of messages is carried by their    *)
(* concatenation.                                                          *)
LEMMA CarriesConcat ==
  ASSUME NEW ms \in Seq(Message), NEW ns \in Seq(Message), NEW r,
         Carries(ms, r) \/ Carries(ns, r)
  PROVE  Carries(ms \o ns, r)
<1> DEFINE cs == ms \o ns
<1>1. /\ Len(cs) = Len(ms) + Len(ns)
      /\ \A k \in 1..Len(cs) : cs[k] = IF k <= Len(ms) THEN ms[k] ELSE ns[k - Len(ms)]
  BY ConcatProperties
<1>2. CASE Carries(ms, r)
  <2>1. PICK k \in 1..Len(ms) : \E i \in 1..Len(ms[k].reports) : ms[k].reports[i].n = r
    BY <1>2 DEF Carries
  <2>2. k \in 1..Len(cs) /\ cs[k] = ms[k]
    BY <1>1
  <2> QED BY <2>1, <2>2 DEF Carries
<1>3. CASE Carries(ns, r)
  <2>1. PICK k \in 1..Len(ns) : \E i \in 1..Len(ns[k].reports) : ns[k].reports[i].n = r
    BY <1>3 DEF Carries
  <2>2. k + Len(ms) \in 1..Len(cs) /\ cs[k + Len(ms)] = ns[k]
    BY <1>1
  <2> QED BY <2>1, <2>2 DEF Carries
<1> QED BY <1>2, <1>3

(* Sending the messages ns, which carry the next n reports.                *)
LEMMA HoldsConcat ==
  ASSUME NEW ms \in Seq(Message), NEW ns \in Seq(Message), NEW out \in Nat, NEW n \in Nat,
         Holds(ms, out), Ordered(ns), Within(ns, out, out + n),
         \A r \in (out + 1)..(out + n) : Carries(ns, r)
  PROVE  Holds(ms \o ns, out + n)
<1>1. Ordered(ms \o ns) /\ Within(ms \o ns, 0, out + n)
  <2>1. /\ 0 \in Nat /\ out + n \in Nat /\ 0 <= out /\ out <= out + n
        /\ Ordered(ms) /\ Within(ms, 0, out)
    BY DEF Holds
  <2> QED BY <2>1, OrderedConcat
<1>2. ASSUME NEW r \in 1..(out + n) PROVE Carries(ms \o ns, r)
  <2>1. Carries(ms, r) \/ Carries(ns, r)
    <3>1. r \in 1..out \/ r \in (out + 1)..(out + n)
      OBVIOUS
    <3> QED BY <3>1 DEF Holds
  <2> QED BY <2>1, CarriesConcat
<1> QED BY <1>1, <1>2 DEF Holds

(* Sending a message without reports: READY or UNLOADED.                   *)
LEMMA HoldsAppend ==
  ASSUME NEW ms \in Seq(Message), NEW out \in Nat, Holds(ms, out),
         NEW m \in Message, m.reports = <<>>
  PROVE  Holds(Append(ms, m), out)
<1> DEFINE ns == <<m>>
<1>1. ns \in Seq(Message) /\ Len(ns) = 1 /\ ns[1] = m /\ Append(ms, m) = ms \o ns
  OBVIOUS
<1>2. \A k \in 1..Len(ns) : Len(ns[k].reports) = 0
  BY <1>1
<1> HIDE DEF ns
<1>3. Ordered(ns) /\ Within(ns, out, out + 0)
  BY <1>2 DEF Ordered, Within
<1>4. \A r \in (out + 1)..(out + 0) : Carries(ns, r)
  OBVIOUS
<1>5. Holds(ms \o ns, out + 0)
  BY <1>1, <1>3, <1>4, HoldsConcat
<1> QED BY <1>1, <1>5

(* Sending the next of the messages that are pending.                      *)
LEMMA HoldsSend ==
  ASSUME NEW ms \in Seq(Message), NEW ns \in Seq(Message), ns # <<>>, Reporting(ns),
         NEW out \in Nat, Outgoing(ms, ns, out)
  PROVE  /\ Outgoing(Append(ms, Head(ns)), Tail(ns), out)
         /\ \E base \in Nat : IsRun(Head(ns).reports, base)
<1>1. PICK lo \in Nat : Holds(ms, lo) /\ Pending(ns, lo, out)
  BY DEF Outgoing
<1>2. /\ Head(ns) = ns[1] /\ ns[1] \in Message /\ Tail(ns) \in Seq(Message)
      /\ Len(ns) \in Nat /\ Len(ns) > 0 /\ Len(Tail(ns)) = Len(ns) - 1
      /\ \A k \in 1..(Len(ns) - 1) : Tail(ns)[k] = ns[k + 1]
  OBVIOUS
<1> DEFINE m == ns[1]
           s == m.reports
<1>3. s \in Seq(Report) /\ Len(s) \in Nat
  BY <1>2 DEF Message
<1>4. IsRun(s, lo) /\ Pending(Tail(ns), lo + Len(s), out)
  <2>1. CASE Len(ns) = 1 /\ IsRun(s, lo) /\ out = lo + Len(s)
    <3> DEFINE rest == Tail(ns)
    <3>1. rest \in Seq(Message) /\ Len(rest) = 0
      BY <1>2, <2>1
    <3> HIDE DEF rest
    <3>2. rest = <<>>
      BY <3>1
    <3>3. IsRun(s, lo) /\ out = lo + Len(s)
      BY <2>1
    <3>4. lo + Len(s) \in Nat
      BY <1>3
    <3> HIDE DEF s
    <3>5. Pending(rest, lo + Len(s), out)
      BY <3>2, <3>3, <3>4, PendingNone
    <3> QED BY <3>3, <3>5 DEF rest
  <2>2. CASE /\ out = lo + Len(ns)
             /\ \A k \in 1..Len(ns) : Len(ns[k].reports) = 1 /\ ns[k].reports[1].n = lo + k
    <3>1. Len(s) = 1 /\ s[1].n = lo + 1
      BY <1>2, <2>2
    <3> HIDE DEF s
    <3>2. \A i \in 1..Len(s) : i = 1
      BY <3>1
    <3>3. IsRun(s, lo)
      BY <3>1, <3>2 DEF IsRun
    <3>4. ASSUME NEW k \in 1..Len(Tail(ns))
          PROVE  Len(Tail(ns)[k].reports) = 1 /\ Tail(ns)[k].reports[1].n = (lo + 1) + k
      <4>1. k + 1 \in 1..Len(ns) /\ Tail(ns)[k] = ns[k + 1] /\ k \in Nat
        BY <1>2
      <4>2. Len(ns[k + 1].reports) = 1 /\ ns[k + 1].reports[1].n = lo + (k + 1)
        BY <2>2, <4>1
      <4>3. lo + (k + 1) = (lo + 1) + k
        BY <4>1
      <4> QED BY <4>1, <4>2, <4>3
    <3>5. out = (lo + 1) + Len(Tail(ns))
      BY <1>2, <2>2
    <3> QED BY <3>1, <3>3, <3>4, <3>5 DEF Pending
  <2> QED BY <1>1, <2>1, <2>2 DEF Pending
<1>5. Holds(Append(ms, m), lo + Len(s))
  <2> DEFINE one == <<m>>
  <2>1. one \in Seq(Message) /\ Len(one) = 1 /\ one[1] = m /\ Append(ms, m) = ms \o one
    BY <1>2
  <2> HIDE DEF one
  <2>2. Pending(one, lo, lo + Len(s))
    BY <1>4, <2>1 DEF Pending
  <2>3. /\ Ordered(one) /\ Within(one, lo, lo + Len(s))
        /\ \A r \in (lo + 1)..(lo + Len(s)) : Carries(one, r)
    <3>1. lo + Len(s) \in Nat
      BY <1>3
    <3> HIDE DEF s
    <3> QED BY <2>1, <2>2, <3>1, PendingRun
  <2> HIDE DEF s, m
  <2> QED BY <1>1, <1>3, <2>1, <2>3, HoldsConcat
<1>6. lo + Len(s) \in Nat
  BY <1>3
<1> QED BY <1>2, <1>4, <1>5, <1>6 DEF Outgoing

(* Giving the reports s to Reporter::signal.                               *)
LEMMA HoldsGiven ==
  ASSUME NEW ms \in Seq(Message), NEW out \in Nat, Outgoing(ms, <<>>, out),
         NEW s \in Seq(Report), s # <<>>, IsRun(s, out)
  PROVE  Outgoing(ms, SignalMessages(s), out + Len(s))
<1>1. PICK lo \in Nat : Holds(ms, lo) /\ Pending(<<>>, lo, out)
  BY DEF Outgoing
<1>2. lo = out
  BY <1>1, NonePending
<1>3. Pending(SignalMessages(s), out, out + Len(s))
  BY SignalMessagesRun
<1> QED BY <1>1, <1>2, <1>3 DEF Outgoing

(* READY and UNLOADED are sent whatever is pending.                        *)
LEMMA OutgoingAppend ==
  ASSUME NEW ms \in Seq(Message), NEW ns \in Seq(Message), NEW out \in Nat, Outgoing(ms, ns, out),
         NEW m \in Message, m.reports = <<>>
  PROVE  Outgoing(Append(ms, m), ns, out)
BY HoldsAppend DEF Outgoing

LEMMA FitsConcat ==
  ASSUME NEW ms \in Seq(Message), NEW ns \in Seq(Message), Fits(ms), Fits(ns)
  PROVE  Fits(ms \o ns)
<1> DEFINE cs == ms \o ns
<1>1. /\ Len(cs) = Len(ms) + Len(ns) /\ Len(ms) \in Nat /\ Len(ns) \in Nat
      /\ \A k \in 1..Len(cs) : cs[k] = IF k <= Len(ms) THEN ms[k] ELSE ns[k - Len(ms)]
  BY ConcatProperties
<1> HIDE DEF cs
<1>2. ASSUME NEW k \in 1..Len(cs)
      PROVE  /\ Len(cs[k].reports) <= BatchSize
             /\ Len(cs[k].reports) > 1 => ~(JoinedSize(cs[k].reports) > MaxMsgSize)
  <2>1. CASE k <= Len(ms)
    <3>1. k \in 1..Len(ms) /\ cs[k] = ms[k]
      BY <1>1, <2>1
    <3> QED BY <3>1 DEF Fits
  <2>2. CASE k > Len(ms)
    <3>1. PICK q \in 1..Len(ns) : cs[k] = ns[q]
      BY <1>1, <2>2
    <3> QED BY <3>1 DEF Fits
  <2> QED BY <2>1, <2>2, <1>1
<1> QED BY <1>2 DEF Fits, cs

LEMMA FitsSend ==
  ASSUME NEW s \in Seq(Report), Len(s) <= BatchSize
  PROVE  Fits(SignalMessages(s))
<1>1. CASE JoinedSize(s) > MaxMsgSize
  <2> DEFINE ms == SignalMessages(s)
  <2>1. /\ Len(ms) = Len(s)
        /\ \A k \in 1..Len(s) : ms[k].reports = <<s[k]>>
    BY <1>1 DEF SignalMessages, Joined
  <2> HIDE DEF ms
  <2>2. ASSUME NEW k \in 1..Len(ms) PROVE Len(ms[k].reports) = 1
    <3>1. ms[k].reports = <<s[k]>>
      BY <2>1
    <3> QED BY <3>1
  <2>3. 1 <= BatchSize /\ ~(1 > 1)
    BY SenderAssumption
  <2>4. Fits(ms)
    BY <2>2, <2>3 DEF Fits
  <2> QED BY <2>4 DEF ms
<1>2. CASE ~(JoinedSize(s) > MaxMsgSize)
  <2>1. Len(SignalMessages(s)) = 1 /\ SignalMessages(s)[1].reports = s
    BY <1>2 DEF SignalMessages, Joined
  <2>2. \A k \in 1..Len(SignalMessages(s)) : SignalMessages(s)[k].reports = s
    BY <2>1
  <2> QED BY <1>2, <2>2 DEF Fits
<1> QED BY <1>1, <1>2

LEMMA FitsAppend ==
  ASSUME NEW ms \in Seq(Message), Fits(ms), NEW m \in Message,
         Len(m.reports) <= BatchSize,
         Len(m.reports) > 1 => ~(JoinedSize(m.reports) > MaxMsgSize)
  PROVE  Fits(Append(ms, m))
<1> DEFINE ns == <<m>>
<1>1. ns \in Seq(Message) /\ Len(ns) = 1 /\ ns[1] = m /\ Append(ms, m) = ms \o ns
  OBVIOUS
<1> HIDE DEF ns
<1>2. \A k \in 1..Len(ns) : ns[k] = m
  BY <1>1
<1>4. Fits(ns)
  BY <1>2 DEF Fits
<1>5. Fits(ms \o ns)
  BY <1>1, <1>4, FitsConcat
<1> QED BY <1>1, <1>5

(* A message without reports.                                              *)
LEMMA FitsEmpty ==
  ASSUME NEW ms \in Seq(Message), Fits(ms), NEW m \in Message, m.reports = <<>>
  PROVE  Fits(Append(ms, m))
<1>1. Len(m.reports) <= BatchSize /\ ~(Len(m.reports) > 1)
  <2>1. Len(<<>>) = 0 /\ 0 <= BatchSize
    BY SenderAssumption
  <2> QED BY <2>1
<1> QED BY <1>1, FitsAppend

(* The next of the messages that are pending, and those after it.          *)
LEMMA FitsNext ==
  ASSUME NEW ms \in Seq(Message), Fits(ms), NEW ns \in Seq(Message), ns # <<>>, Fits(ns), Reporting(ns)
  PROVE  Fits(Append(ms, Head(ns))) /\ Fits(Tail(ns)) /\ Reporting(Tail(ns))
<1>1. /\ Head(ns) = ns[1] /\ ns[1] \in Message /\ Len(ns) \in Nat /\ Len(ns) > 0
      /\ Len(Tail(ns)) = Len(ns) - 1
      /\ \A k \in 1..(Len(ns) - 1) : Tail(ns)[k] = ns[k + 1]
  OBVIOUS
<1>2. /\ Len(ns[1].reports) <= BatchSize
      /\ Len(ns[1].reports) > 1 => ~(JoinedSize(ns[1].reports) > MaxMsgSize)
  BY <1>1 DEF Fits
<1>3. Fits(Append(ms, Head(ns)))
  BY <1>1, <1>2, FitsAppend
<1>4. \A k \in 1..Len(Tail(ns)) : k + 1 \in 1..Len(ns) /\ Tail(ns)[k] = ns[k + 1]
  BY <1>1
<1>5. Fits(Tail(ns))
  BY <1>4 DEF Fits
<1>6. Reporting(Tail(ns))
  BY <1>4 DEF Reporting
<1> QED BY <1>3, <1>5, <1>6
-----------------------------------------------------------------------------
(* The invariant of an agent depends on these five values alone.           *)
LEMMA AgentFrame ==
  ASSUME NEW b \in Agents, AgentInv(b),
         pushed'[b] = pushed[b], signalQueue'[b] = signalQueue[b],
         buffer'[b] = buffer[b], unsent'[b] = unsent[b], sent'[b] = sent[b]
  PROVE  AgentInv(b)'
BY DEF AgentInv, Out, IsRun

(* The variables keep their types.                                         *)
LEMMA StepType ==
  ASSUME TypeOK, [Next]_vars
  PROVE  TypeOK'
<1> USE SenderAssumption DEF TypeOK
<1>1. Ready \in Message /\ Unloaded \in Message
  BY DEF Ready, Unloaded, Message
<1>2. CASE UNCHANGED vars
  BY <1>2 DEF vars
<1>3. ASSUME NEW a \in Agents, Start(a) PROVE TypeOK'
  BY <1>1, <1>3 DEF Start
<1>4. ASSUME NEW a \in Agents, Push(a) PROVE TypeOK'
  <2>1. PICK size \in Sizes :
          signalQueue' = [signalQueue EXCEPT ![a] =
                            Append(@, [n |-> pushed[a] + 1, size |-> size])]
    BY <1>4 DEF Push
  <2>2. [n |-> pushed[a] + 1, size |-> size] \in Report
    BY DEF Report
  <2>3. Append(signalQueue[a], [n |-> pushed[a] + 1, size |-> size]) \in Seq(Report)
    BY <2>2
  <2> QED BY <1>4, <2>1, <2>3 DEF Push
<1>5. ASSUME NEW a \in Agents, Pop(a) PROVE TypeOK'
  <2> DEFINE joined == Append(buffer[a], Head(signalQueue[a]))
  <2>1. /\ signalQueue[a] \in Seq(Report) /\ signalQueue[a] # <<>>
        /\ buffer[a] \in Seq(Report)
    BY <1>5 DEF Pop
  <2>2. Tail(signalQueue[a]) \in Seq(Report) /\ joined \in Seq(Report)
    BY <2>1, HeadTailProperties, AppendProperties
  <2> HIDE DEF joined
  <2>3. SignalMessages(joined) \in Seq(Message)
    BY <2>2, SignalMessagesType
  <2>4. signalQueue' \in [Agents -> Seq(Report)]
    BY <1>5, <2>2 DEF Pop
  <2>5. /\ buffer' \in [Agents -> Seq(Report)]
        /\ unsent' \in [Agents -> Seq(Message)]
    <3>1. CASE Len(joined) = BatchSize
      <4>1. /\ unsent' = [unsent EXCEPT ![a] = SignalMessages(joined)]
            /\ buffer' = [buffer EXCEPT ![a] = <<>>]
        BY <1>5, <3>1 DEF Pop, joined
      <4> QED BY <4>1, <2>3
    <3>2. CASE Len(joined) # BatchSize
      <4>1. unsent' = unsent /\ buffer' = [buffer EXCEPT ![a] = joined]
        BY <1>5, <3>2 DEF Pop, joined
      <4> QED BY <4>1, <2>2
    <3> QED BY <3>1, <3>2
  <2> QED BY <1>5, <2>4, <2>5 DEF Pop
<1>6. ASSUME NEW a \in Agents, Drained(a) PROVE TypeOK'
  BY <1>6 DEF Drained
<1>7. ASSUME NEW a \in Agents, Flush(a) PROVE TypeOK'
  <2>1. buffer[a] \in Seq(Report)
    OBVIOUS
  <2>2. SignalMessages(buffer[a]) \in Seq(Message)
    BY <2>1, SignalMessagesType
  <2>3. /\ buffer' \in [Agents -> Seq(Report)]
        /\ unsent' \in [Agents -> Seq(Message)]
    <3>1. CASE buffer[a] # <<>>
      <4>1. /\ unsent' = [unsent EXCEPT ![a] = SignalMessages(buffer[a])]
            /\ buffer' = [buffer EXCEPT ![a] = <<>>]
        BY <1>7, <3>1 DEF Flush
      <4> QED BY <2>2, <4>1
    <3>2. CASE buffer[a] = <<>>
      BY <1>7, <3>2 DEF Flush
    <3> QED BY <3>1, <3>2
  <2> QED BY <1>7, <2>3 DEF Flush
<1>8. ASSUME NEW a \in Agents, Unload(a) PROVE TypeOK'
  BY <1>1, <1>8 DEF Unload
<1>9. ASSUME NEW a \in Agents, Exit(a) PROVE TypeOK'
  BY <1>9 DEF Exit
<1>10. ASSUME NEW a \in Agents, SendPiece(a) PROVE TypeOK'
  <2>1. /\ unsent[a] \in Seq(Message) /\ unsent[a] # <<>> /\ sent[a] \in Seq(Message)
        /\ sent' = [sent EXCEPT ![a] = Append(@, Head(unsent[a]))]
        /\ unsent' = [unsent EXCEPT ![a] = Tail(@)]
    BY <1>10 DEF SendPiece
  <2>2. Tail(unsent[a]) \in Seq(Message) /\ Head(unsent[a]) \in Message
    BY <2>1, HeadTailProperties
  <2>3. Append(sent[a], Head(unsent[a])) \in Seq(Message)
    BY <2>1, <2>2, AppendProperties
  <2> QED BY <1>10, <2>1, <2>2, <2>3 DEF SendPiece
<1> QED BY <1>2, <1>3, <1>4, <1>5, <1>6, <1>7, <1>8, <1>9, <1>10 DEF Next

(* The inductive invariant holds at first.                                 *)
LEMMA InitInv == Init => IInv
<1> SUFFICES ASSUME Init PROVE IInv
  OBVIOUS
<1>1. TypeOK
  BY DEF Init, TypeOK
<1>2. ASSUME NEW a \in Agents PROVE AgentInv(a)
  <2>1. /\ pushed[a] = 0 /\ Len(signalQueue[a]) = 0
        /\ Len(buffer[a]) = 0 /\ Len(sent[a]) = 0
        /\ unsent[a] = <<>> /\ Len(unsent[a]) = 0
    BY DEF Init
  <2>2. Out(a) = 0 /\ 0 < BatchSize
    BY <2>1, SenderAssumption DEF Out
  <2>3. Holds(sent[a], 0) /\ Fits(sent[a]) /\ Fits(unsent[a]) /\ Reporting(unsent[a])
    BY <2>1 DEF Holds, Ordered, Within, Fits, Reporting
  <2>4. Outgoing(sent[a], unsent[a], Out(a))
    BY <2>1, <2>2, <2>3, PendingNone DEF Outgoing
  <2> QED BY <2>1, <2>2, <2>3, <2>4 DEF AgentInv, IsRun
<1> QED BY <1>1, <1>2 DEF IInv

(* ... and every step keeps it.                                            *)
LEMMA StepInv ==
  ASSUME IInv, [Next]_vars
  PROVE  IInv'
<1>1. TypeOK'
  BY StepType DEF IInv
<1>2. CASE UNCHANGED vars
  BY <1>1, <1>2, AgentFrame DEF IInv, vars
<1>3. ASSUME NEW a \in Agents, Start(a) PROVE IInv'
  <2>1. /\ AgentInv(a) /\ sent[a] \in Seq(Message) /\ unsent[a] \in Seq(Message) /\ Out(a) \in Nat
        /\ Ready \in Message /\ Ready.reports = <<>>
    <3>1. Out(a) \in Nat
      BY DEF IInv, AgentInv, TypeOK, Out
    <3>2. Ready \in Message /\ Ready.reports = <<>>
      BY DEF Ready, Message
    <3> QED BY <3>1, <3>2 DEF IInv, TypeOK
  <2>2. /\ sent'[a] = Append(sent[a], Ready) /\ Out(a)' = Out(a)
        /\ UNCHANGED <<pushed, signalQueue, buffer, unsent>>
    BY <1>3 DEF Start, IInv, TypeOK, Out
  <2>3. Outgoing(sent'[a], unsent'[a], Out(a)')
    BY <2>1, <2>2, OutgoingAppend DEF AgentInv
  <2>4. Fits(sent'[a])
    BY <2>1, <2>2, FitsEmpty DEF AgentInv
  <2>5. AgentInv(a)'
    BY <2>1, <2>2, <2>3, <2>4 DEF AgentInv, IsRun
  <2>6. ASSUME NEW b \in Agents, b # a PROVE AgentInv(b)'
    <3>1. /\ pushed'[b] = pushed[b] /\ signalQueue'[b] = signalQueue[b]
          /\ buffer'[b] = buffer[b] /\ unsent'[b] = unsent[b] /\ sent'[b] = sent[b] /\ AgentInv(b)
      BY <1>3, <2>6 DEF IInv, TypeOK, Start
    <3> QED BY <3>1, AgentFrame
  <2> QED BY <1>1, <2>5, <2>6 DEF IInv
<1>4. ASSUME NEW a \in Agents, Push(a) PROVE IInv'
  <2> DEFINE q == signalQueue[a]
  <2>1. PICK size \in Sizes :
          signalQueue' = [signalQueue EXCEPT ![a] =
                            Append(@, [n |-> pushed[a] + 1, size |-> size])]
    BY <1>4 DEF Push
  <2> DEFINE r == [n |-> pushed[a] + 1, size |-> size]
  <2>2. /\ AgentInv(a) /\ q \in Seq(Report) /\ pushed[a] \in Nat /\ buffer[a] \in Seq(Report)
        /\ r \in Report
    <3>1. AgentInv(a) /\ q \in Seq(Report) /\ pushed[a] \in Nat /\ buffer[a] \in Seq(Report)
      BY DEF IInv, TypeOK
    <3> QED BY <3>1 DEF Report
  <2>3. /\ signalQueue'[a] = Append(q, r) /\ pushed'[a] = pushed[a] + 1
        /\ UNCHANGED <<buffer, unsent, sent>>
    BY <1>4, <2>1 DEF Push, IInv, TypeOK
  <2>4. /\ Len(Append(q, r)) = Len(q) + 1 /\ Len(q) \in Nat /\ Len(buffer[a]) \in Nat
        /\ \A i \in 1..Len(q) : Append(q, r)[i] = q[i]
        /\ Append(q, r)[Len(q) + 1].n = pushed[a] + 1
    BY <2>2
  <2> HIDE DEF q, r
  <2>5. Out(a)' = Out(a)
    <3>1. /\ Out(a) = pushed[a] - Len(buffer[a]) - Len(q)
          /\ Out(a)' = pushed'[a] - Len(buffer'[a]) - Len(signalQueue'[a])
      BY DEF Out, q
    <3>2. Out(a)' = (pushed[a] + 1) - Len(buffer[a]) - (Len(q) + 1)
      BY <2>3, <2>4, <3>1
    <3>3. pushed[a] \in Nat /\ Len(buffer[a]) \in Nat /\ Len(q) \in Nat
      BY <2>2, <2>4
    <3>4. (pushed[a] + 1) - Len(buffer[a]) - (Len(q) + 1)
          = pushed[a] - Len(buffer[a]) - Len(q)
      BY <3>3, MinusBoth
    <3> QED BY <3>1, <3>2, <3>4
  <2>6. IsRun(Append(q, r), pushed[a] - Len(q))
    <3>1. \A i \in 1..(Len(q) + 1) : i \in 1..Len(q) \/ i = Len(q) + 1
      BY <2>4
    <3> QED BY <2>2, <2>4, <3>1 DEF IsRun, AgentInv, q
  <2>7. pushed'[a] - Len(signalQueue'[a]) = pushed[a] - Len(q)
    BY <2>2, <2>3, <2>4
  <2>8. AgentInv(a)'
    BY <2>2, <2>3, <2>5, <2>6, <2>7 DEF AgentInv
  <2>9. ASSUME NEW b \in Agents, b # a PROVE AgentInv(b)'
    <3>1. /\ pushed'[b] = pushed[b] /\ signalQueue'[b] = signalQueue[b]
          /\ buffer'[b] = buffer[b] /\ unsent'[b] = unsent[b] /\ sent'[b] = sent[b] /\ AgentInv(b)
      BY <1>4, <2>9 DEF IInv, TypeOK, Push
    <3> QED BY <3>1, AgentFrame
  <2> QED BY <1>1, <2>8, <2>9 DEF IInv
<1>5. ASSUME NEW a \in Agents, Pop(a) PROVE IInv'
  <2> DEFINE q == signalQueue[a]
             joined == Append(buffer[a], Head(q))
  <2>1. /\ AgentInv(a) /\ q \in Seq(Report) /\ q # <<>> /\ pushed[a] \in Nat
        /\ buffer[a] \in Seq(Report) /\ sent[a] \in Seq(Message) /\ unsent[a] = <<>>
    BY <1>5 DEF IInv, TypeOK, Pop, Idle
  <2>2. /\ Head(q) \in Report /\ Head(q) = q[1]
        /\ Len(q) \in Nat /\ Len(q) > 0
        /\ Len(Tail(q)) = Len(q) - 1
        /\ \A i \in 1..(Len(q) - 1) : Tail(q)[i] = q[i + 1]
    BY <2>1
  <2>3. /\ joined \in Seq(Report)
        /\ Len(joined) = Len(buffer[a]) + 1 /\ Len(buffer[a]) \in Nat
        /\ \A i \in 1..Len(buffer[a]) : joined[i] = buffer[a][i]
        /\ joined[Len(buffer[a]) + 1] = q[1]
    BY <2>1, <2>2
  <2> HIDE DEF q, joined
  <2>4. IsRun(q, pushed[a] - Len(q)) /\ IsRun(buffer[a], Out(a))
    BY <2>1 DEF AgentInv, q
  <2>5. Out(a) = pushed[a] - Len(buffer[a]) - Len(q) /\ Out(a) \in Nat
    BY <2>1, <2>2, <2>3 DEF AgentInv, Out, q
  <2>6. IsRun(joined, Out(a))
    <3>1. q[1].n = pushed[a] - Len(q) + 1
      BY <2>2, <2>4 DEF IsRun
    <3>2. ASSUME NEW i \in 1..Len(joined) PROVE joined[i].n = Out(a) + i
      <4>1. CASE i \in 1..Len(buffer[a])
        BY <2>3, <2>4, <4>1 DEF IsRun
      <4>2. CASE i = Len(buffer[a]) + 1
        <5>1. joined[i].n = pushed[a] - Len(q) + 1
          BY <2>3, <3>1, <4>2
        <5>2. /\ pushed[a] \in Nat /\ Len(buffer[a]) \in Nat /\ Len(q) \in Nat
              /\ Out(a) = pushed[a] - Len(buffer[a]) - Len(q)
          BY <2>1, <2>2, <2>3, <2>5
        <5> QED BY <4>2, <5>1, <5>2
      <4> QED BY <2>3, <4>1, <4>2
    <3> QED BY <3>2 DEF IsRun
  <2>7. IsRun(Tail(q), pushed[a] - Len(Tail(q)))
    <3>1. ASSUME NEW i \in 1..Len(Tail(q))
          PROVE  Tail(q)[i].n = pushed[a] - Len(Tail(q)) + i
      <4>1. i + 1 \in 1..Len(q) /\ Tail(q)[i] = q[i + 1]
        BY <2>2
      <4>2. q[i + 1].n = pushed[a] - Len(q) + (i + 1)
        BY <4>1, <2>4 DEF IsRun
      <4>3. pushed[a] - Len(q) + (i + 1) = pushed[a] - Len(Tail(q)) + i
        <5>1. pushed[a] \in Nat /\ Len(q) \in Nat /\ Len(Tail(q)) = Len(q) - 1
          BY <2>1, <2>2
        <5> QED BY <5>1
      <4> QED BY <4>1, <4>2, <4>3
    <3> QED BY <3>1 DEF IsRun
  <2>8. signalQueue'[a] = Tail(q) /\ UNCHANGED <<pushed, sent>>
    BY <1>5 DEF Pop, IInv, TypeOK, q
  <2>9. ASSUME Len(joined) = BatchSize PROVE AgentInv(a)'
    <3>1. unsent'[a] = SignalMessages(joined) /\ buffer'[a] = <<>>
      BY <1>5, <2>9 DEF Pop, IInv, TypeOK, q, joined
    <3>2. Out(a)' = Out(a) + Len(joined)
      <4>1. Out(a)' = pushed[a] - 0 - (Len(q) - 1)
        BY <2>2, <2>8, <3>1 DEF Out
      <4>2. /\ pushed[a] \in Nat /\ Len(buffer[a]) \in Nat /\ Len(q) \in Nat
            /\ Out(a) = pushed[a] - Len(buffer[a]) - Len(q)
            /\ Len(joined) = Len(buffer[a]) + 1
        BY <2>1, <2>2, <2>3, <2>5
      <4> QED BY <4>1, <4>2
    <3>0. joined # <<>>
      <4>1. Len(joined) # 0
        BY <2>3
      <4> QED BY <4>1
    <3>3. Outgoing(sent'[a], unsent'[a], Out(a)')
      BY <2>1, <2>3, <2>5, <2>6, <2>8, <3>0, <3>1, <3>2, HoldsGiven DEF AgentInv
    <3>4. Fits(unsent'[a]) /\ Reporting(unsent'[a])
      BY <2>3, <2>5, <2>6, <2>9, <3>0, <3>1, FitsSend, SignalMessagesRun, SenderAssumption
    <3>5. Fits(sent'[a])
      BY <2>1, <2>8 DEF AgentInv
    <3>6. Len(buffer'[a]) = 0 /\ IsRun(buffer'[a], Out(a)')
      BY <3>1 DEF IsRun
    <3>7. Out(a)' >= 0 /\ 0 < BatchSize
      BY <2>3, <2>5, <3>2, SenderAssumption
    <3>8. IsRun(signalQueue'[a], pushed'[a] - Len(signalQueue'[a]))
      BY <2>7, <2>8
    <3>9. Len(buffer'[a]) < BatchSize
      BY <3>6, <3>7
    <3> QED BY <3>3, <3>4, <3>5, <3>6, <3>7, <3>8, <3>9 DEF AgentInv
  <2>10. ASSUME Len(joined) # BatchSize PROVE AgentInv(a)'
    <3>1. sent'[a] = sent[a] /\ unsent'[a] = unsent[a] /\ buffer'[a] = joined
      BY <1>5, <2>10 DEF Pop, IInv, TypeOK, q, joined
    <3>2. Out(a)' = Out(a)
      <4>1. Out(a)' = pushed[a] - (Len(buffer[a]) + 1) - (Len(q) - 1)
        BY <2>2, <2>3, <2>8, <3>1 DEF Out
      <4>2. /\ pushed[a] \in Nat /\ Len(buffer[a]) \in Nat /\ Len(q) \in Nat
            /\ Out(a) = pushed[a] - Len(buffer[a]) - Len(q)
        BY <2>1, <2>2, <2>3, <2>5
      <4> QED BY <4>1, <4>2
    <3>3. Len(joined) < BatchSize
      BY <2>1, <2>3, <2>10, SenderAssumption DEF AgentInv
    <3>4. IsRun(signalQueue'[a], pushed'[a] - Len(signalQueue'[a]))
      BY <2>7, <2>8
    <3>5. IsRun(buffer'[a], Out(a)') /\ Len(buffer'[a]) < BatchSize
      BY <2>6, <3>1, <3>2, <3>3
    <3>6. /\ Out(a)' >= 0 /\ Outgoing(sent'[a], unsent'[a], Out(a)')
          /\ Fits(sent'[a]) /\ Fits(unsent'[a]) /\ Reporting(unsent'[a])
      BY <2>1, <3>1, <3>2 DEF AgentInv
    <3> QED BY <3>4, <3>5, <3>6 DEF AgentInv
  <2>11. AgentInv(a)'
    BY <2>9, <2>10
  <2>12. ASSUME NEW b \in Agents, b # a PROVE AgentInv(b)'
    <3>1. /\ pushed'[b] = pushed[b] /\ signalQueue'[b] = signalQueue[b]
          /\ buffer'[b] = buffer[b] /\ unsent'[b] = unsent[b] /\ sent'[b] = sent[b] /\ AgentInv(b)
      BY <1>5, <2>12 DEF IInv, TypeOK, Pop
    <3> QED BY <3>1, AgentFrame
  <2> QED BY <1>1, <2>11, <2>12 DEF IInv
<1>6. ASSUME NEW a \in Agents, Drained(a) PROVE IInv'
  BY <1>1, <1>6, AgentFrame DEF IInv, Drained
<1>7. ASSUME NEW a \in Agents, Flush(a) PROVE IInv'
  <2> DEFINE s == buffer[a]
  <2>1. /\ AgentInv(a) /\ s \in Seq(Report) /\ sent[a] \in Seq(Message) /\ unsent[a] = <<>>
        /\ Len(s) \in Nat /\ Len(signalQueue[a]) \in Nat /\ pushed[a] \in Nat
    BY <1>7 DEF IInv, TypeOK, Flush, Idle
  <2> HIDE DEF s
  <2>2. CASE s = <<>>
    BY <1>1, <1>7, <2>2, AgentFrame DEF IInv, Flush, s
  <2>3. CASE s # <<>>
    <3>1. /\ unsent'[a] = SignalMessages(s) /\ buffer'[a] = <<>>
          /\ UNCHANGED <<pushed, signalQueue, sent>>
      BY <1>7, <2>3 DEF Flush, IInv, TypeOK, s
    <3>2. Out(a)' = Out(a) + Len(s) /\ Out(a) \in Nat
      BY <2>1, <3>1 DEF Out, AgentInv, s
    <3>0. IsRun(s, Out(a)) /\ Len(s) < BatchSize
      BY <2>1 DEF AgentInv, s
    <3>3. Outgoing(sent'[a], unsent'[a], Out(a)')
      BY <2>1, <2>3, <3>0, <3>1, <3>2, HoldsGiven DEF AgentInv
    <3>4. Fits(unsent'[a]) /\ Reporting(unsent'[a])
      BY <2>1, <2>3, <3>0, <3>1, <3>2, FitsSend, SignalMessagesRun, SenderAssumption
    <3>5. Fits(sent'[a])
      BY <2>1, <3>1 DEF AgentInv
    <3>6. Len(buffer'[a]) = 0 /\ IsRun(buffer'[a], Out(a)')
      BY <3>1 DEF IsRun
    <3>7. Out(a)' >= 0 /\ 0 < BatchSize
      BY <2>1, <3>2, SenderAssumption
    <3>8. AgentInv(a)'
      BY <2>1, <3>1, <3>3, <3>4, <3>5, <3>6, <3>7 DEF AgentInv
    <3>9. ASSUME NEW b \in Agents, b # a PROVE AgentInv(b)'
      <4>1. /\ pushed'[b] = pushed[b] /\ signalQueue'[b] = signalQueue[b]
            /\ buffer'[b] = buffer[b] /\ unsent'[b] = unsent[b] /\ sent'[b] = sent[b] /\ AgentInv(b)
        BY <1>7, <2>3, <3>9 DEF IInv, TypeOK, Flush
      <4> QED BY <4>1, AgentFrame
    <3> QED BY <1>1, <3>8, <3>9 DEF IInv
  <2> QED BY <2>2, <2>3
<1>8. ASSUME NEW a \in Agents, Unload(a) PROVE IInv'
  <2>1. /\ AgentInv(a) /\ sent[a] \in Seq(Message) /\ unsent[a] \in Seq(Message) /\ Out(a) \in Nat
        /\ Unloaded \in Message /\ Unloaded.reports = <<>>
    <3>1. Out(a) \in Nat
      BY DEF IInv, AgentInv, TypeOK, Out
    <3>2. Unloaded \in Message /\ Unloaded.reports = <<>>
      BY DEF Unloaded, Message
    <3> QED BY <3>1, <3>2 DEF IInv, TypeOK
  <2>2. /\ sent'[a] = Append(sent[a], Unloaded) /\ Out(a)' = Out(a)
        /\ UNCHANGED <<pushed, signalQueue, buffer, unsent>>
    BY <1>8 DEF Unload, IInv, TypeOK, Out
  <2>3. Outgoing(sent'[a], unsent'[a], Out(a)')
    BY <2>1, <2>2, OutgoingAppend DEF AgentInv
  <2>4. Fits(sent'[a])
    BY <2>1, <2>2, FitsEmpty DEF AgentInv
  <2>5. AgentInv(a)'
    BY <2>1, <2>2, <2>3, <2>4 DEF AgentInv, IsRun
  <2>6. ASSUME NEW b \in Agents, b # a PROVE AgentInv(b)'
    <3>1. /\ pushed'[b] = pushed[b] /\ signalQueue'[b] = signalQueue[b]
          /\ buffer'[b] = buffer[b] /\ unsent'[b] = unsent[b] /\ sent'[b] = sent[b] /\ AgentInv(b)
      BY <1>8, <2>6 DEF IInv, TypeOK, Unload
    <3> QED BY <3>1, AgentFrame
  <2> QED BY <1>1, <2>5, <2>6 DEF IInv
<1>9. ASSUME NEW a \in Agents, Exit(a) PROVE IInv'
  BY <1>1, <1>9, AgentFrame DEF IInv, Exit
<1>10. ASSUME NEW a \in Agents, SendPiece(a) PROVE IInv'
  <2>1. /\ AgentInv(a) /\ sent[a] \in Seq(Message) /\ unsent[a] \in Seq(Message) /\ unsent[a] # <<>>
    BY <1>10 DEF IInv, TypeOK, SendPiece
  <2>2. Out(a) \in Nat
    BY DEF IInv, AgentInv, TypeOK, Out
  <2>3. /\ sent'[a] = Append(sent[a], Head(unsent[a])) /\ unsent'[a] = Tail(unsent[a])
        /\ UNCHANGED <<pushed, signalQueue, buffer>> /\ Out(a)' = Out(a)
    BY <1>10 DEF SendPiece, IInv, TypeOK, Out
  <2>4. Outgoing(sent'[a], unsent'[a], Out(a)')
    BY <2>1, <2>2, <2>3, HoldsSend DEF AgentInv
  <2>5. Fits(sent'[a]) /\ Fits(unsent'[a]) /\ Reporting(unsent'[a])
    BY <2>1, <2>3, FitsNext DEF AgentInv
  <2>6. AgentInv(a)'
    BY <2>1, <2>3, <2>4, <2>5 DEF AgentInv, IsRun
  <2>7. ASSUME NEW b \in Agents, b # a PROVE AgentInv(b)'
    <3>1. /\ pushed'[b] = pushed[b] /\ signalQueue'[b] = signalQueue[b]
          /\ buffer'[b] = buffer[b] /\ unsent'[b] = unsent[b] /\ sent'[b] = sent[b] /\ AgentInv(b)
      BY <1>10, <2>7 DEF IInv, TypeOK, SendPiece
    <3> QED BY <3>1, AgentFrame
  <2> QED BY <1>1, <2>6, <2>7 DEF IInv
<1> QED BY <1>2, <1>3, <1>4, <1>5, <1>6, <1>7, <1>8, <1>9, <1>10 DEF Next

(* The invariant implies the properties of SignalSender.                   *)
LEMMA InvImplies == IInv => SentInOrder /\ NothingLost /\ MessageFits
<1> SUFFICES ASSUME IInv PROVE SentInOrder /\ NothingLost /\ MessageFits
  OBVIOUS
<1>0. ASSUME NEW a \in Agents
      PROVE  /\ Ordered(sent[a])
             /\ \A r \in 1..pushed[a] : (Carries(sent[a], r) \/ Carries(unsent[a], r)) <=> r <= Out(a)
  <2>0. /\ Out(a) \in Nat /\ sent[a] \in Seq(Message) /\ unsent[a] \in Seq(Message)
        /\ Outgoing(sent[a], unsent[a], Out(a))
    BY DEF IInv, AgentInv, TypeOK, Out
  <2>1. PICK lo \in Nat : Holds(sent[a], lo) /\ Pending(unsent[a], lo, Out(a))
    BY <2>0 DEF Outgoing
  <2>2. /\ lo <= Out(a) /\ Within(unsent[a], lo, Out(a))
        /\ \A r \in (lo + 1)..Out(a) : Carries(unsent[a], r)
    BY <2>0, <2>1, PendingRun
  <2>3. ASSUME NEW r \in 1..pushed[a]
        PROVE  (Carries(sent[a], r) \/ Carries(unsent[a], r)) <=> r <= Out(a)
    <3>0. r \in Nat
      OBVIOUS
    <3>1. ASSUME Carries(sent[a], r) PROVE r <= Out(a)
      <4>1. r <= lo
        BY <2>1, <3>1 DEF Carries, Holds, Within
      <4> QED BY <2>0, <2>2, <3>0, <4>1
    <3>2. ASSUME Carries(unsent[a], r) PROVE r <= Out(a)
      BY <2>2, <3>2 DEF Carries, Within
    <3>3. ASSUME r <= Out(a) PROVE Carries(sent[a], r) \/ Carries(unsent[a], r)
      <4>1. r \in 1..lo \/ r \in (lo + 1)..Out(a)
        BY <2>0, <3>0, <3>3
      <4> QED BY <2>1, <2>2, <4>1 DEF Holds
    <3> QED BY <3>1, <3>2, <3>3
  <2> QED BY <2>1, <2>3 DEF Holds
<1>1. SentInOrder
  BY <1>0 DEF SentInOrder
<1>3. NothingLost
  BY <1>0 DEF NothingLost, Out
<1>4. MessageFits
  BY DEF IInv, AgentInv, Fits, MessageFits
<1> QED BY <1>1, <1>3, <1>4

(* READY is the first message, and the only one of its kind.               *)
ReadyInv ==
  \A a \in Agents :
    /\ phase[a] = "loading" => Len(sent[a]) = 0
    /\ phase[a] \in {"running", "unloading"} => Len(sent[a]) > 0
    /\ \A k \in 1..Len(sent[a]) : sent[a][k].kind = "READY" <=> k = 1

(* Appending messages that are not READY to a nonempty history.            *)
LEMMA ReadyConcat ==
  ASSUME NEW ms \in Seq(Message), NEW ns \in Seq(Message), Len(ms) > 0,
         \A k \in 1..Len(ms) : ms[k].kind = "READY" <=> k = 1,
         \A k \in 1..Len(ns) : ns[k].kind # "READY"
  PROVE  /\ Len(ms \o ns) > 0
         /\ \A k \in 1..Len(ms \o ns) : (ms \o ns)[k].kind = "READY" <=> k = 1
<1> DEFINE cs == ms \o ns
<1>1. /\ Len(cs) = Len(ms) + Len(ns) /\ Len(ms) \in Nat /\ Len(ns) \in Nat
      /\ \A k \in 1..Len(cs) : cs[k] = IF k <= Len(ms) THEN ms[k] ELSE ns[k - Len(ms)]
  BY ConcatProperties
<1> HIDE DEF cs
<1>2. ASSUME NEW k \in 1..Len(cs) PROVE cs[k].kind = "READY" <=> k = 1
  <2>1. CASE k <= Len(ms)
    BY <1>1, <2>1
  <2>2. CASE k > Len(ms)
    <3>1. PICK q \in 1..Len(ns) : cs[k] = ns[q]
      BY <1>1, <2>2
    <3>2. k # 1
      BY <1>1, <2>2
    <3> QED BY <3>1, <3>2
  <2> QED BY <2>1, <2>2, <1>1
<1>3. Len(cs) > 0
  BY <1>1
<1> QED BY <1>2, <1>3 DEF cs

LEMMA StepReady ==
  ASSUME IInv, ReadyInv, [Next]_vars
  PROVE  ReadyInv'
<1> DEFINE R(ph, ms) ==
      /\ ph = "loading" => Len(ms) = 0
      /\ ph \in {"running", "unloading"} => Len(ms) > 0
      /\ \A k \in 1..Len(ms) : ms[k].kind = "READY" <=> k = 1
<1> SUFFICES ASSUME NEW b \in Agents PROVE R(phase'[b], sent'[b])
  BY DEF ReadyInv
<1>0. R(phase[b], sent[b])
  BY DEF ReadyInv
<1>1. TypeOK /\ sent[b] \in Seq(Message) /\ unsent[b] \in Seq(Message) /\ Reporting(unsent[b])
  BY DEF IInv, AgentInv, TypeOK
<1>2. ASSUME phase'[b] = phase[b] \/ phase'[b] = "gone", sent'[b] = sent[b]
      PROVE  R(phase'[b], sent'[b])
  BY <1>0, <1>2
<1>3. ASSUME NEW m \in Message, m.kind # "READY", Len(sent[b]) > 0, phase'[b] # "loading",
             sent'[b] = Append(sent[b], m)
      PROVE  R(phase'[b], sent'[b])
  <2> DEFINE ns == <<m>>
  <2>1. ns \in Seq(Message) /\ Len(ns) = 1 /\ ns[1] = m /\ Append(sent[b], m) = sent[b] \o ns
    BY <1>1
  <2> HIDE DEF ns
  <2>2. \A k \in 1..Len(ns) : ns[k].kind # "READY"
    BY <1>3, <2>1
  <2> QED BY <1>0, <1>1, <1>3, <2>1, <2>2, ReadyConcat
<1> HIDE DEF R
<1>4. CASE UNCHANGED vars
  BY <1>2, <1>4 DEF vars
<1>5. ASSUME NEW a \in Agents, Start(a) PROVE R(phase'[b], sent'[b])
  <2>1. CASE a = b
    <3>1. /\ phase'[b] = "running" /\ Len(sent[b]) = 0
          /\ sent'[b] = Append(sent[b], Ready)
      BY <1>0, <1>1, <1>5, <2>1 DEF Start, TypeOK, R
    <3>2. Len(sent'[b]) = 1 /\ sent'[b][1] = Ready
      BY <1>1, <3>1
    <3> QED BY <3>1, <3>2 DEF R, Ready
  <2>2. CASE a # b
    BY <1>1, <1>2, <1>5, <2>2 DEF Start, TypeOK
  <2> QED BY <2>1, <2>2
<1>6. ASSUME NEW a \in Agents, Push(a) \/ Pop(a) \/ Drained(a) \/ Flush(a) PROVE R(phase'[b], sent'[b])
  BY <1>2, <1>6 DEF Push, Pop, Drained, Flush
<1>7. ASSUME NEW a \in Agents, SendPiece(a) PROVE R(phase'[b], sent'[b])
  <2>1. CASE a = b
    <3>1. /\ unsent[b] # <<>> /\ phase'[b] = phase[b] /\ phase[b] \in {"running", "unloading"}
          /\ sent'[b] = Append(sent[b], Head(unsent[b]))
      BY <1>1, <1>7, <2>1 DEF SendPiece, Threads, TypeOK
    <3>2. Len(sent[b]) > 0
      BY <1>0, <3>1 DEF R
    <3>3. Head(unsent[b]) = unsent[b][1] /\ unsent[b][1] \in Message /\ 1 \in 1..Len(unsent[b])
      BY <1>1, <3>1
    <3>4. Head(unsent[b]).kind # "READY"
      BY <1>1, <3>3 DEF Reporting
    <3> QED BY <1>3, <3>1, <3>2, <3>3, <3>4
  <2>2. CASE a # b
    BY <1>1, <1>2, <1>7, <2>2 DEF SendPiece, TypeOK
  <2> QED BY <2>1, <2>2
<1>8. ASSUME NEW a \in Agents, Unload(a) PROVE R(phase'[b], sent'[b])
  <2>1. CASE a = b
    <3>1. /\ phase'[b] = "unloading" /\ Len(sent[b]) > 0
          /\ sent'[b] = Append(sent[b], Unloaded)
      BY <1>0, <1>1, <1>8, <2>1 DEF Unload, TypeOK, R
    <3>2. Unloaded \in Message /\ Unloaded.kind # "READY"
      BY DEF Unloaded, Message
    <3> QED BY <1>3, <3>1, <3>2
  <2>2. CASE a # b
    BY <1>1, <1>2, <1>8, <2>2 DEF Unload, TypeOK
  <2> QED BY <2>1, <2>2
<1>9. ASSUME NEW a \in Agents, Exit(a) PROVE R(phase'[b], sent'[b])
  BY <1>1, <1>2, <1>9 DEF Exit, TypeOK
<1> QED BY <1>4, <1>5, <1>6, <1>7, <1>8, <1>9 DEF Next
-----------------------------------------------------------------------------
(* The variables of every reachable state have their types.                *)
THEOREM TypeCorrect == Spec => []TypeOK
<1>1. Init => TypeOK
  BY InitInv DEF IInv
<1>2. TypeOK /\ [Next]_vars => TypeOK'
  BY StepType
<1> QED BY <1>1, <1>2, PTL DEF Spec

(* IInv is an invariant.                                                   *)
THEOREM Invariance == Spec => []IInv
<1>1. Init => IInv
  BY InitInv
<1>2. IInv /\ [Next]_vars => IInv'
  BY StepInv
<1> QED BY <1>1, <1>2, PTL DEF Spec

(* Batching, flushing and splitting keep the reports of a JVM in the order *)
(* in which its threads queued them, and send none of them twice.          *)
THEOREM OrderPreserved == Spec => []SentInOrder
BY Invariance, InvImplies, PTL

(* The reports sent or still to be sent of a batch are, at any time, just  *)
(* the ones queued so far but for those in the queue and in the buffer.    *)
THEOREM NoReportLost == Spec => []NothingLost
BY Invariance, InvImplies, PTL

(* No message joins more than BatchSize reports, nor several reports whose *)
(* joined length is above MaxMsgSize.                                      *)
THEOREM MessagesFit == Spec => []MessageFits
BY Invariance, InvImplies, PTL

(* A connection starts with READY and carries it once.                     *)
THEOREM ReadyLeads == Spec => []ReadyFirst
<1>1. Init => ReadyInv
  BY DEF Init, ReadyInv
<1>2. IInv /\ ReadyInv /\ [Next]_vars => ReadyInv'
  BY StepReady
<1>3. ReadyInv => ReadyFirst
  BY DEF ReadyInv, ReadyFirst
<1> QED BY <1>1, <1>2, <1>3, Invariance, PTL DEF Spec
-----------------------------------------------------------------------------
(* What the monitor relies on: a message is either a REPORT of consecutive *)
(* reports or carries none.                                                *)
Shaped(ms) ==
  \A k \in 1..Len(ms) :
    /\ ms[k].kind = "REPORT" <=> ms[k].reports # <<>>
    /\ \E base \in Nat : IsRun(ms[k].reports, base)

ShapeInv == \A a \in Agents : Shaped(sent[a])

LEMMA ShapedConcat ==
  ASSUME NEW ms \in Seq(Message), NEW ns \in Seq(Message), Shaped(ms), Shaped(ns)
  PROVE  Shaped(ms \o ns)
<1> DEFINE cs == ms \o ns
<1>1. /\ Len(cs) = Len(ms) + Len(ns) /\ Len(ms) \in Nat /\ Len(ns) \in Nat
      /\ \A k \in 1..Len(ms) : cs[k] = ms[k]
      /\ \A k \in 1..Len(ns) : cs[Len(ms) + k] = ns[k]
  OBVIOUS
<1> HIDE DEF cs
<1>2. ASSUME NEW k \in 1..Len(cs)
      PROVE  \/ k \in 1..Len(ms) /\ cs[k] = ms[k]
             \/ \E l \in 1..Len(ns) : cs[k] = ns[l]
  <2>1. CASE k <= Len(ms)
    BY <1>1, <2>1
  <2>2. CASE ~(k <= Len(ms))
    <3>1. k - Len(ms) \in 1..Len(ns) /\ Len(ms) + (k - Len(ms)) = k
      BY <1>1, <2>2
    <3> QED BY <1>1, <3>1
  <2> QED BY <2>1, <2>2
<1>3. Shaped(cs)
  BY <1>2 DEF Shaped
<1> QED BY <1>3 DEF cs

(* A message without reports.                                              *)
LEMMA ShapedAppend ==
  ASSUME NEW ms \in Seq(Message), Shaped(ms),
         NEW m \in Message, m.kind # "REPORT", m.reports = <<>>
  PROVE  Shaped(Append(ms, m))
<1> DEFINE ns == <<m>>
<1>1. ns \in Seq(Message) /\ Len(ns) = 1 /\ ns[1] = m /\ Append(ms, m) = ms \o ns
  OBVIOUS
<1> HIDE DEF ns
<1>2. IsRun(<<>>, 0)
  BY DEF IsRun
<1>3. \A k \in 1..Len(ns) : k = 1
  BY <1>1
<1>4. Shaped(ns)
  BY <1>1, <1>2, <1>3 DEF Shaped
<1> QED BY <1>1, <1>4, ShapedConcat

(* A message of consecutive reports.                                       *)
LEMMA ShapedSend ==
  ASSUME NEW ms \in Seq(Message), Shaped(ms), NEW m \in Message,
         m.kind = "REPORT", Len(m.reports) > 0, NEW base \in Nat, IsRun(m.reports, base)
  PROVE  Shaped(Append(ms, m))
<1> DEFINE ns == <<m>>
<1>1. ns \in Seq(Message) /\ Len(ns) = 1 /\ ns[1] = m /\ Append(ms, m) = ms \o ns
  OBVIOUS
<1> HIDE DEF ns
<1>2. \A k \in 1..Len(ns) : k = 1
  BY <1>1
<1>3. m.reports # <<>>
  OBVIOUS
<1>4. Shaped(ns)
  BY <1>1, <1>2, <1>3 DEF Shaped
<1> QED BY <1>1, <1>4, ShapedConcat

(* What a step does to the messages of agent b: nothing, or it adds READY, *)
(* UNLOADED or the next of the messages for consecutive reports.           *)
LEMMA StepSends ==
  ASSUME IInv, [Next]_vars, NEW b \in Agents
  PROVE  \/ sent'[b] = sent[b]
         \/ \E m \in {Ready, Unloaded} : sent'[b] = Append(sent[b], m)
         \/ \E m \in Message, base \in Nat :
              /\ m.kind = "REPORT" /\ Len(m.reports) > 0 /\ IsRun(m.reports, base)
              /\ sent'[b] = Append(sent[b], m)
<1> DEFINE Goal == \/ sent'[b] = sent[b]
                   \/ \E m \in {Ready, Unloaded} : sent'[b] = Append(sent[b], m)
                   \/ \E m \in Message, base \in Nat :
                        /\ m.kind = "REPORT" /\ Len(m.reports) > 0 /\ IsRun(m.reports, base)
                        /\ sent'[b] = Append(sent[b], m)
<1>0. /\ sent \in [Agents -> Seq(Message)] /\ sent[b] \in Seq(Message) /\ unsent[b] \in Seq(Message)
      /\ Out(b) \in Nat /\ Outgoing(sent[b], unsent[b], Out(b)) /\ Reporting(unsent[b])
  BY DEF IInv, TypeOK, AgentInv, Out
<1>1. ASSUME NEW a \in Agents, Start(a) \/ Unload(a) PROVE Goal
  BY <1>0, <1>1 DEF Start, Unload
<1>2. ASSUME NEW a \in Agents, Push(a) \/ Pop(a) \/ Drained(a) \/ Flush(a) \/ Exit(a) PROVE Goal
  BY <1>2 DEF Push, Pop, Drained, Flush, Exit
<1>3. ASSUME NEW a \in Agents, SendPiece(a) PROVE Goal
  <2>1. CASE a = b
    <3>1. unsent[b] # <<>> /\ sent'[b] = Append(sent[b], Head(unsent[b]))
      BY <1>0, <1>3, <2>1 DEF SendPiece
    <3>2. PICK base \in Nat : IsRun(Head(unsent[b]).reports, base)
      BY <1>0, <3>1, HoldsSend
    <3>3. Head(unsent[b]) = unsent[b][1] /\ unsent[b][1] \in Message /\ 1 \in 1..Len(unsent[b])
      BY <1>0, <3>1
    <3>4. Head(unsent[b]).kind = "REPORT" /\ Len(Head(unsent[b]).reports) > 0
      BY <1>0, <3>3 DEF Reporting
    <3> QED BY <3>1, <3>2, <3>3, <3>4
  <2>2. CASE a # b
    BY <1>0, <1>3, <2>2 DEF SendPiece
  <2> QED BY <2>1, <2>2
<1>4. CASE UNCHANGED vars
  BY <1>4 DEF vars
<1> QED BY <1>1, <1>2, <1>3, <1>4 DEF Next

LEMMA StepShape ==
  ASSUME IInv, ShapeInv, [Next]_vars
  PROVE  ShapeInv'
<1> SUFFICES ASSUME NEW b \in Agents PROVE Shaped(sent'[b])
  BY DEF ShapeInv
<1>1. Shaped(sent[b]) /\ sent[b] \in Seq(Message)
  BY DEF ShapeInv, IInv, TypeOK
<1>2. /\ Ready \in Message /\ Ready.kind # "REPORT" /\ Ready.reports = <<>>
      /\ Unloaded \in Message /\ Unloaded.kind # "REPORT" /\ Unloaded.reports = <<>>
  BY DEF Ready, Unloaded, Message
<1>3. \A m \in {Ready, Unloaded} : Shaped(Append(sent[b], m))
  BY <1>1, <1>2, ShapedAppend
<1>4. ASSUME NEW m \in Message, NEW base \in Nat,
             m.kind = "REPORT", Len(m.reports) > 0, IsRun(m.reports, base)
      PROVE  Shaped(Append(sent[b], m))
  BY <1>1, <1>4, ShapedSend
<1> QED BY <1>1, <1>3, <1>4, StepSends

(* What was sent stays.                                                    *)
LEMMA StepExtends ==
  ASSUME IInv, [Next]_vars, NEW b \in Agents
  PROVE  /\ Len(sent[b]) <= Len(sent'[b])
         /\ \A k \in 1..Len(sent[b]) : sent'[b][k] = sent[b][k]
<1>1. sent[b] \in Seq(Message)
  BY DEF IInv, TypeOK
<1>2. Ready \in Message /\ Unloaded \in Message
  BY DEF Ready, Unloaded, Message
<1>3. ASSUME NEW m \in Message, sent'[b] = Append(sent[b], m)
      PROVE  /\ Len(sent[b]) <= Len(sent'[b])
             /\ \A k \in 1..Len(sent[b]) : sent'[b][k] = sent[b][k]
  BY <1>1, <1>3
<1>4. CASE sent'[b] = sent[b]
  BY <1>1, <1>4
<1> QED BY <1>2, <1>3, <1>4, StepSends

(* The first k messages of ms carry the reports 1, ..., lo and no other.    *)
Brought(ms, k, r) ==
  \E j \in 1..k : \E i \in 1..Len(ms[j].reports) : ms[j].reports[i].n = r
UpTo(ms, k, lo) == \A r \in Nat : Brought(ms, k, r) <=> r \in 1..lo

(* The reports of a message continue those of the messages before it.      *)
LEMMA NextRun ==
  ASSUME NEW ms \in Seq(Message), NEW out \in Nat, Holds(ms, out), Shaped(ms),
         NEW k \in 1..Len(ms), NEW lo \in Nat, UpTo(ms, k - 1, lo)
  PROVE  /\ IsRun(ms[k].reports, lo)
         /\ UpTo(ms, k, lo + Len(ms[k].reports))
<1> DEFINE s == ms[k].reports
<1>1. s \in Seq(Report) /\ Len(s) \in Nat /\ k \in Nat \ {0} /\ Len(ms) \in Nat
  <2>1. ms[k] \in Message
    OBVIOUS
  <2> QED BY <2>1 DEF Message
<1>2. PICK base \in Nat : IsRun(s, base)
  BY DEF Shaped
<1>3. ASSUME NEW j \in 1..Len(ms), NEW i \in 1..Len(ms[j].reports)
      PROVE  ms[j].reports[i].n \in 1..out
  <2>1. ms[j].reports[i].n \in Nat
    BY RankType
  <2> QED BY <2>1 DEF Holds, Within
<1>4. ASSUME Len(s) > 0 PROVE base = lo
  <2>1. 1 \in 1..Len(s) /\ s[1].n = base + 1
    BY <1>1, <1>2, <1>4 DEF IsRun
  <2>2. ASSUME base < lo PROVE FALSE
    <3>1. base + 1 \in 1..lo
      BY <2>2
    <3>2. PICK j \in 1..(k - 1) : \E i \in 1..Len(ms[j].reports) : ms[j].reports[i].n = base + 1
      <4>1. base + 1 \in Nat
        OBVIOUS
      <4>2. Brought(ms, k - 1, base + 1)
        BY <3>1, <4>1 DEF UpTo
      <4> QED BY <4>2 DEF Brought
    <3>3. j \in 1..Len(ms) /\ j < k
      BY <1>1
    <3>4. PICK i \in 1..Len(ms[j].reports) : ms[j].reports[i].n = base + 1
      BY <3>2
    <3>5. ms[j].reports[i].n < s[1].n
      BY <2>1, <3>3 DEF Holds, Ordered
    <3> QED BY <2>1, <3>4, <3>5
  <2>3. ASSUME base > lo PROVE FALSE
    <3>1. base + 1 \in 1..out
      BY <1>3, <2>1
    <3>2. lo + 1 \in 1..out /\ lo + 1 <= base
      BY <2>3, <3>1
    <3>3. PICK j \in 1..Len(ms) : \E i \in 1..Len(ms[j].reports) : ms[j].reports[i].n = lo + 1
      BY <3>2 DEF Holds, Carries
    <3>4. PICK i \in 1..Len(ms[j].reports) : ms[j].reports[i].n = lo + 1
      BY <3>3
    <3>5. CASE j < k
      <4>1. j \in 1..(k - 1)
        BY <1>1, <3>5
      <4>2. Brought(ms, k - 1, lo + 1)
        BY <3>4, <4>1 DEF Brought
      <4>3. lo + 1 \in 1..lo
        BY <4>2 DEF UpTo
      <4> QED BY <4>3
    <3>6. CASE j = k
      <4>1. s[i].n = base + i /\ i >= 1 /\ i \in Int
        BY <1>1, <1>2, <3>4, <3>6 DEF IsRun
      <4> QED BY <3>2, <3>4, <3>6, <4>1
    <3>7. CASE j > k
      <4>1. s[1].n < ms[j].reports[i].n
        BY <2>1, <3>7 DEF Holds, Ordered
      <4> QED BY <2>1, <3>2, <3>4, <4>1
    <3> QED BY <1>1, <3>5, <3>6, <3>7
  <2> QED BY <2>2, <2>3
<1>5. IsRun(s, lo)
  <2>1. CASE Len(s) > 0
    BY <1>2, <1>4, <2>1
  <2>2. CASE ~(Len(s) > 0)
    BY <1>1, <2>2 DEF IsRun
  <2> QED BY <2>1, <2>2
<1>6. ASSUME NEW r \in Nat PROVE Brought(ms, k, r) <=> r \in 1..(lo + Len(s))
  <2>1. Brought(ms, k, r) <=> (Brought(ms, k - 1, r) \/ \E i \in 1..Len(s) : s[i].n = r)
    <3>1. 1..k = (1..(k - 1)) \cup {k}
      BY <1>1
    <3> QED BY <3>1 DEF Brought
  <2>2. (\E i \in 1..Len(s) : s[i].n = r) <=> r \in (lo + 1)..(lo + Len(s))
    <3>1. ASSUME NEW i \in 1..Len(s), s[i].n = r PROVE r \in (lo + 1)..(lo + Len(s))
      <4>1. r = lo + i
        BY <1>5, <3>1 DEF IsRun
      <4> QED BY <1>1, <4>1
    <3>2. ASSUME r \in (lo + 1)..(lo + Len(s)) PROVE \E i \in 1..Len(s) : s[i].n = r
      <4>1. r - lo \in 1..Len(s) /\ lo + (r - lo) = r
        BY <1>1, <3>2
      <4>2. s[r - lo].n = r
        BY <1>5, <4>1 DEF IsRun
      <4> QED BY <4>1, <4>2
    <3> QED BY <3>1, <3>2
  <2>3. Brought(ms, k - 1, r) <=> r \in 1..lo
    BY DEF UpTo
  <2> HIDE DEF s
  <2> QED BY <1>1, <2>1, <2>2, <2>3
<1> QED BY <1>5, <1>6 DEF UpTo

(* The first k messages of a history that grows stay the same.             *)
LEMMA UpToStays ==
  ASSUME IInv, [Next]_vars, NEW b \in Agents, NEW k \in Nat, k <= Len(sent[b]),
         NEW lo \in Nat, UpTo(sent[b], k, lo)
  PROVE  UpTo(sent'[b], k, lo) /\ k <= Len(sent'[b])
<1>1. sent[b] \in Seq(Message) /\ Len(sent[b]) \in Nat
  BY DEF IInv, TypeOK
<1>2. \A j \in 1..k : sent'[b][j] = sent[b][j]
  BY <1>1, StepExtends
<1>3. k <= Len(sent'[b])
  <2>1. Len(sent'[b]) \in Nat
    <3>1. IInv'
      BY StepInv
    <3> QED BY <3>1 DEF IInv, TypeOK
  <2> QED BY <1>1, <2>1, StepExtends
<1>4. \A r \in Nat : Brought(sent'[b], k, r) <=> Brought(sent[b], k, r)
  BY <1>2 DEF Brought
<1> QED BY <1>3, <1>4 DEF UpTo
-----------------------------------------------------------------------------
(* The pieces of connection a that have been pushed.                       *)
Of(s, a) == {s[h] : h \in {h \in 1 .. Len(s) : s[h].conn = a}}

(* The pieces a thread has still to push are the reports after the m-th, k *)
(* of them, or one READY or UNLOADED.                                      *)
Waiting(td, m, k) ==
  \/ k = Len(td) /\ \A i \in 1 .. Len(td) : td[i].kind = "REPORT" /\ td[i].n = m + i
  \/ k = 0 /\ Len(td) = 1 /\ td[1].kind # "REPORT"

(* The reports pushed, the set of pieces being S, and those still to push  *)
(* are those of the tk messages of ms taken so far.                        *)
Progress(S, td, tk, ms) ==
  \E m, k \in Nat : Ranks(S) = 1 .. m /\ Waiting(td, m, k) /\ UpTo(ms, tk, m + k)

(* The pieces of a connection start with its announcement and READY, which *)
(* is all of its first message.                                            *)
Stage(S, td, tk, cn) ==
  /\ cn # "running" => tk = 0
  /\ tk = 0 => td = <<>>
  /\ tk = 1 => Len(td) <= 1
  /\ \A i \in 1 .. Len(td) : td[i].kind # "CONNECTED" /\ (td[i].kind = "READY" <=> tk = 1)
  /\ KindsOf(S) = {"CONNECTED"} <=> (S # {} /\ (tk = 0 \/ (tk = 1 /\ td # <<>>)))

(* A connection is pushed nothing of before it is announced.               *)
Announced(S, cn, ta) ==
  S = {} <=> (cn = "none" \/ (cn = "accepted" /\ ta # <<>>))

ConnInv(a) ==
  /\ taken[a] <= Len(sent[a])
  /\ \A i \in 1 .. Len(todo[a]) : todo[a][i].conn = a
  /\ Announced(Of(accepted, a), conn[a], todo[Acceptor])
  /\ Stage(Of(accepted, a), todo[a], taken[a], conn[a])
  /\ Progress(Of(accepted, a), todo[a], taken[a], sent[a])

(* One connection is announced at a time.                                  *)
AcceptorInv ==
  /\ \A d, e \in Agents : conn[d] = "accepted" /\ conn[e] = "accepted" => d = e
  /\ todo[Acceptor] # <<>> =>
       \E d \in Agents : conn[d] = "accepted" /\ todo[Acceptor] = <<InboxP!Connected(d)>>

(* The inductive invariant.                                                *)
PipelineInv ==
  /\ IInv /\ ReadyInv /\ ShapeInv
  /\ InboxP!IInv
  /\ AcceptorInv
  /\ \A a \in Agents : ConnInv(a)
  /\ InOrder(accepted)
-----------------------------------------------------------------------------
LEMMA InboxConstants == InboxP!InboxAssumption
BY SenderAssumption, PipelineAssumption DEF InboxP!InboxAssumption

LEMMA SameInboxInit ==
  ASSUME Inbox!InboxInit
  PROVE  InboxP!InboxInit
BY DEF Inbox!InboxInit, Inbox!Writers, Inbox!Slots, Inbox!NotLoaded, Inbox!Connected,
       InboxP!InboxInit, InboxP!Writers, InboxP!Slots, InboxP!NotLoaded, InboxP!Connected

LEMMA SameInboxNext ==
  ASSUME Inbox!InboxNext
  PROVE  InboxP!InboxNext
<1>1. ASSUME NEW c \in Agents, Inbox!Accept(c) PROVE InboxP!Accept(c)
  BY <1>1 DEF Inbox!Accept, Inbox!Connected, InboxP!Accept, InboxP!Connected
<1>2. ASSUME NEW c \in Agents, Inbox!StartThread(c) PROVE InboxP!StartThread(c)
  BY <1>2 DEF Inbox!StartThread, InboxP!StartThread
<1>3. ASSUME NEW c \in Agents, Inbox!TakeMessage(c) PROVE InboxP!TakeMessage(c)
  BY <1>3 DEF Inbox!TakeMessage, Inbox!Pieces, InboxP!TakeMessage, InboxP!Pieces
<1>4. ASSUME NEW w \in Inbox!Writers, Inbox!LoadIndex(w) PROVE InboxP!LoadIndex(w)
  BY <1>4 DEF Inbox!LoadIndex, Inbox!NotLoaded, Inbox!NextIndex,
              InboxP!LoadIndex, InboxP!NotLoaded, InboxP!NextIndex
<1>5. ASSUME NEW w \in Inbox!Writers, Inbox!StoreIndex(w) PROVE InboxP!StoreIndex(w)
  BY <1>5 DEF Inbox!StoreIndex, Inbox!Writers, Inbox!NotLoaded, Inbox!NextIndex,
              InboxP!StoreIndex, InboxP!Writers, InboxP!NotLoaded, InboxP!NextIndex
<1>6. ASSUME Inbox!Handle PROVE InboxP!Handle
  BY <1>6 DEF Inbox!Handle, Inbox!NextIndex, InboxP!Handle, InboxP!NextIndex
<1>7. Inbox!Writers = InboxP!Writers
  BY DEF Inbox!Writers, InboxP!Writers
<1> QED BY <1>1, <1>2, <1>3, <1>4, <1>5, <1>6, <1>7 DEF Inbox!InboxNext, InboxP!InboxNext
-----------------------------------------------------------------------------
(* A piece pushed adds itself to those of its connection, and leaves those *)
(* of the others.                                                          *)
LEMMA OfAppend ==
  ASSUME NEW P, NEW s \in Seq(P), NEW p \in P, NEW a
  PROVE  Of(Append(s, p), a) = IF p.conn = a THEN Of(s, a) \cup {p} ELSE Of(s, a)
<1> DEFINE t == Append(s, p)
           n == Len(s)
<1>1. n \in Nat /\ Len(t) = n + 1 /\ t[n + 1] = p /\ \A h \in 1 .. n : t[h] = s[h]
  BY AppendProperties
<1> HIDE DEF t, n
<1>2. ASSUME NEW x PROVE x \in Of(t, a) <=> (x \in Of(s, a) \/ (p.conn = a /\ x = p))
  <2>1. ASSUME x \in Of(t, a) PROVE x \in Of(s, a) \/ (p.conn = a /\ x = p)
    <3>1. PICK h \in 1 .. (n + 1) : t[h].conn = a /\ x = t[h]
      BY <1>1, <2>1 DEF Of
    <3>2. CASE h = n + 1
      BY <1>1, <3>1, <3>2
    <3>3. CASE h # n + 1
      <4>1. h \in 1 .. n
        BY <1>1, <3>3
      <4> QED BY <1>1, <3>1, <4>1 DEF Of, n
    <3> QED BY <3>2, <3>3
  <2>2. ASSUME x \in Of(s, a) PROVE x \in Of(t, a)
    <3>1. PICK h \in 1 .. n : s[h].conn = a /\ x = s[h]
      BY <2>2 DEF Of, n
    <3>2. h \in 1 .. Len(t)
      BY <1>1
    <3> QED BY <1>1, <3>1, <3>2 DEF Of
  <2>3. ASSUME p.conn = a, x = p PROVE x \in Of(t, a)
    <3>1. n + 1 \in 1 .. Len(t)
      BY <1>1
    <3> QED BY <1>1, <2>3, <3>1 DEF Of
  <2> QED BY <2>1, <2>2, <2>3
<1> QED BY <1>2 DEF t

(* What comes before a piece does not depend on what comes after it.       *)
LEMMA EarlierStays ==
  ASSUME NEW s, NEW t, NEW n \in Nat, \A h \in 1 .. n : t[h] = s[h], NEW i \in 1 .. n
  PROVE  Earlier(t, i) = Earlier(s, i)
BY DEF Earlier

LEMMA InOrderAppend ==
  ASSUME NEW P, NEW s \in Seq(P), NEW p \in P, InOrder(s),
         p.kind = "CONNECTED" <=> Of(s, p.conn) = {},
         p.kind = "READY" <=> KindsOf(Of(s, p.conn)) = {"CONNECTED"},
         p.kind = "REPORT" => Ranks(Of(s, p.conn)) = 1 .. p.n - 1
  PROVE  InOrder(Append(s, p))
<1> DEFINE t == Append(s, p)
           n == Len(s)
<1>1. n \in Nat /\ Len(t) = n + 1 /\ t[n + 1] = p /\ \A h \in 1 .. n : t[h] = s[h]
  BY AppendProperties
<1> HIDE DEF t, n
<1>2. ASSUME NEW i \in 1 .. n PROVE Earlier(t, i) = Earlier(s, i) /\ t[i] = s[i]
  BY <1>1, EarlierStays
<1>3. Earlier(t, n + 1) = Of(s, p.conn)
  <2>1. 1 .. (n + 1) - 1 = 1 .. n
    BY <1>1
  <2> QED BY <1>1, <2>1 DEF Earlier, Of, n
<1>4. ASSUME NEW i \in 1 .. Len(t)
      PROVE  /\ t[i].kind = "CONNECTED" <=> Earlier(t, i) = {}
             /\ t[i].kind = "READY" <=> KindsOf(Earlier(t, i)) = {"CONNECTED"}
             /\ t[i].kind = "REPORT" => Ranks(Earlier(t, i)) = 1 .. t[i].n - 1
  <2>1. CASE i = n + 1
    BY <1>1, <1>3, <2>1
  <2>2. CASE i # n + 1
    <3>1. i \in 1 .. n
      BY <1>1, <2>2
    <3> QED BY <1>2, <3>1 DEF InOrder, n
  <2> QED BY <2>1, <2>2
<1>5. InOrder(t)
  BY <1>4 DEF InOrder
<1> QED BY <1>5 DEF t

(* What holds of everything pushed holds of what has been dispatched.      *)
LEMMA InOrderPrefix ==
  ASSUME NEW P, NEW s \in Seq(P), NEW t \in Seq(P), InOrder(s \o t)
  PROVE  InOrder(s)
<1> DEFINE u == s \o t
           n == Len(s)
<1>1. n \in Nat /\ Len(t) \in Nat /\ Len(u) = n + Len(t) /\ \A h \in 1 .. n : u[h] = s[h]
  BY ConcatProperties
<1> HIDE DEF u, n
<1>2. InOrder(u)
  BY DEF u
<1>3. ASSUME NEW i \in 1 .. n
      PROVE  /\ s[i].kind = "CONNECTED" <=> Earlier(s, i) = {}
             /\ s[i].kind = "READY" <=> KindsOf(Earlier(s, i)) = {"CONNECTED"}
             /\ s[i].kind = "REPORT" => Ranks(Earlier(s, i)) = 1 .. s[i].n - 1
  <2>1. Earlier(u, i) = Earlier(s, i) /\ u[i] = s[i]
    BY <1>1, EarlierStays
  <2>2. i \in 1 .. Len(u)
    BY <1>1
  <2> QED BY <1>2, <2>1, <2>2 DEF InOrder
<1> QED BY <1>3 DEF InOrder, n

LEMMA KindsAdd ==
  ASSUME NEW S, NEW p
  PROVE  KindsOf(S \cup {p}) = KindsOf(S) \cup {p.kind}
BY DEF KindsOf

LEMMA RanksAdd ==
  ASSUME NEW S, NEW p
  PROVE  Ranks(S \cup {p}) = IF p.kind = "REPORT" THEN Ranks(S) \cup {p.n} ELSE Ranks(S)
<1>1. ASSUME NEW r PROVE r \in Ranks(S \cup {p}) <=> (r \in Ranks(S) \/ (p.kind = "REPORT" /\ r = p.n))
  BY DEF Ranks
<1> QED BY <1>1

LEMMA NoPieces == Ranks({}) = {} /\ KindsOf({}) = {}
BY DEF Ranks, KindsOf
-----------------------------------------------------------------------------
(* A thread pushes the next of the pieces it has to push.                  *)
LEMMA PushPiece ==
  ASSUME NEW S, S # {}, NEW td \in Seq(InboxP!Piece), td # <<>>, NEW tk \in Nat, NEW cn, NEW ms,
         Stage(S, td, tk, cn), Progress(S, td, tk, ms)
  PROVE  /\ Stage(S \cup {Head(td)}, Tail(td), tk, cn)
         /\ Progress(S \cup {Head(td)}, Tail(td), tk, ms)
         /\ Head(td).kind # "CONNECTED"
         /\ Head(td).kind = "READY" <=> KindsOf(S) = {"CONNECTED"}
         /\ Head(td).kind = "REPORT" => Ranks(S) = 1 .. Head(td).n - 1
<1> DEFINE p == Head(td)
           rest == Tail(td)
           l == Len(td)
           S2 == S \cup {p}
<1>1. /\ l \in Nat \ {0} /\ p = td[1] /\ Len(rest) = l - 1
      /\ \A i \in 1 .. l - 1 : rest[i] = td[i + 1]
  BY HeadTailProperties
<1>2. 1 \in 1 .. l /\ \A i \in 1 .. l - 1 : i + 1 \in 1 .. l
  BY <1>1
<1> HIDE DEF p, rest, l, S2
<1>3. /\ cn # "running" => tk = 0
      /\ tk # 0
      /\ tk = 1 => l <= 1
      /\ \A i \in 1 .. l : td[i].kind # "CONNECTED" /\ (td[i].kind = "READY" <=> tk = 1)
      /\ KindsOf(S) = {"CONNECTED"} <=> tk = 1
  BY DEF Stage, l
<1>4. p.kind # "CONNECTED" /\ (p.kind = "READY" <=> KindsOf(S) = {"CONNECTED"})
  BY <1>1, <1>2, <1>3
<1>5. Stage(S2, rest, tk, cn)
  <2>1. tk = 1 => rest = <<>>
    <3>1. rest \in Seq(InboxP!Piece)
      BY HeadTailProperties DEF rest
    <3>2. tk = 1 => Len(rest) = 0
      BY <1>1, <1>3
    <3> QED BY <3>1, <3>2, EmptySeq
  <2>2. KindsOf(S2) # {"CONNECTED"}
    BY <1>4, KindsAdd DEF S2
  <2>3. ASSUME NEW i \in 1 .. Len(rest)
        PROVE  rest[i].kind # "CONNECTED" /\ (rest[i].kind = "READY" <=> tk = 1)
    <3>1. rest[i] = td[i + 1] /\ i + 1 \in 1 .. l
      BY <1>1, <1>2
    <3> QED BY <1>3, <3>1
  <2>4. tk = 1 => Len(rest) <= 1
    BY <1>1, <1>3
  <2> QED BY <1>3, <2>1, <2>2, <2>3, <2>4 DEF Stage
<1>6. PICK m \in Nat, k \in Nat : Ranks(S) = 1 .. m /\ Waiting(td, m, k) /\ UpTo(ms, tk, m + k)
  BY DEF Progress
<1>7. CASE k = l /\ \A i \in 1 .. l : td[i].kind = "REPORT" /\ td[i].n = m + i
  <2>1. p.kind = "REPORT" /\ p.n = m + 1
    BY <1>1, <1>2, <1>7
  <2>2. Ranks(S2) = 1 .. (m + 1)
    <3>1. Ranks(S2) = (1 .. m) \cup {m + 1}
      BY <1>6, <2>1, RanksAdd DEF S2
    <3> QED BY <3>1
  <2>3. Waiting(rest, m + 1, k - 1)
    <3>1. ASSUME NEW i \in 1 .. Len(rest) PROVE rest[i].kind = "REPORT" /\ rest[i].n = (m + 1) + i
      <4>1. rest[i] = td[i + 1] /\ i + 1 \in 1 .. l /\ m + (i + 1) = (m + 1) + i
        BY <1>1, <1>2
      <4> QED BY <1>7, <4>1
    <3> QED BY <1>1, <1>7, <3>1 DEF Waiting
  <2>4. m + 1 \in Nat /\ k - 1 \in Nat /\ (m + 1) + (k - 1) = m + k /\ (m + 1) - 1 = m
    BY <1>1, <1>7
  <2>5. Progress(S2, rest, tk, ms)
    BY <1>6, <2>2, <2>3, <2>4 DEF Progress
  <2> QED BY <1>4, <1>5, <1>6, <2>1, <2>4, <2>5 DEF p, rest, S2
<1>8. CASE k = 0 /\ l = 1 /\ td[1].kind # "REPORT"
  <2>1. Ranks(S2) = 1 .. m
    BY <1>1, <1>6, <1>8, RanksAdd DEF S2
  <2>2. Waiting(rest, m, 0)
    BY <1>1, <1>8 DEF Waiting
  <2>3. Progress(S2, rest, tk, ms)
    BY <1>6, <1>8, <2>1, <2>2 DEF Progress
  <2> QED BY <1>1, <1>4, <1>5, <1>8, <2>3 DEF p, rest, S2
<1> QED BY <1>6, <1>7, <1>8 DEF Waiting, l

(* A thread takes the next message of its connection.                      *)
LEMMA TakePieces ==
  ASSUME NEW ms \in Seq(Message), NEW out \in Nat,
         Holds(ms, out), Shaped(ms),
         \A k \in 1 .. Len(ms) : ms[k].kind = "READY" <=> k = 1,
         NEW S, S # {}, NEW tk \in Nat, tk + 1 \in 1 .. Len(ms),
         Stage(S, <<>>, tk, "running"), Progress(S, <<>>, tk, ms), NEW c
  PROVE  /\ Stage(S, InboxP!Pieces(c, ms[tk + 1]), tk + 1, "running")
         /\ Progress(S, InboxP!Pieces(c, ms[tk + 1]), tk + 1, ms)
         /\ \A i \in 1 .. Len(InboxP!Pieces(c, ms[tk + 1])) :
              InboxP!Pieces(c, ms[tk + 1])[i].conn = c
<1> DEFINE msg == ms[tk + 1]
           td == InboxP!Pieces(c, msg)
<1>1. /\ msg.kind \in {"READY", "REPORT", "UNLOADED"} /\ msg.reports \in Seq(Report)
      /\ Len(msg.reports) \in Nat
      /\ msg.kind = "REPORT" <=> msg.reports # <<>>
      /\ msg.kind = "READY" <=> tk = 0
  <2>1. msg \in Message
    OBVIOUS
  <2>2. msg.kind = "REPORT" <=> msg.reports # <<>>
    BY DEF Shaped
  <2>3. msg.kind = "READY" <=> tk = 0
    BY DEF Message
  <2> QED BY <2>1, <2>2, <2>3 DEF Message
<1>2. PICK m \in Nat : Ranks(S) = 1 .. m /\ UpTo(ms, tk, m)
  <2>1. PICK m \in Nat, k \in Nat : Ranks(S) = 1 .. m /\ Waiting(<<>>, m, k) /\ UpTo(ms, tk, m + k)
    BY DEF Progress
  <2>2. k = 0 /\ m + k = m
    BY <2>1 DEF Waiting
  <2> QED BY <2>1, <2>2
<1>3. /\ IsRun(msg.reports, m)
      /\ UpTo(ms, tk + 1, m + Len(msg.reports))
  <2>1. (tk + 1) - 1 = tk
    OBVIOUS
  <2> QED BY <1>2, <2>1, NextRun
<1>4. /\ tk + 1 # 0 /\ tk + 1 \in Nat
      /\ KindsOf(S) = {"CONNECTED"} <=> tk + 1 = 1
      /\ tk + 1 = 1 <=> tk = 0
  BY DEF Stage
<1>5. CASE msg.reports = <<>>
  <2>1. td = <<[conn |-> c, kind |-> msg.kind, n |-> 0]>> /\ msg.kind # "REPORT"
    BY <1>1, <1>5 DEF InboxP!Pieces
  <2> HIDE DEF td, msg
  <2>2. Len(td) = 1 /\ td[1].kind = msg.kind /\ td[1].conn = c /\ td # <<>>
    BY <2>1
  <2>3. \A i \in 1 .. Len(td) : td[i].kind = msg.kind /\ td[i].conn = c
    BY <2>2
  <2>4. Stage(S, td, tk + 1, "running")
    BY <1>1, <1>4, <2>2, <2>3 DEF Stage
  <2>5. Progress(S, td, tk + 1, ms)
    <3>1. Waiting(td, m, 0)
      BY <2>1, <2>2 DEF Waiting
    <3>2. m + Len(msg.reports) = m + 0
      BY <1>5
    <3> QED BY <1>2, <1>3, <3>1, <3>2 DEF Progress
  <2> QED BY <2>3, <2>4, <2>5 DEF td, msg
<1>6. CASE msg.reports # <<>>
  <2>1. /\ td = [i \in 1 .. Len(msg.reports) |->
                   [conn |-> c, kind |-> msg.kind, n |-> msg.reports[i].n]]
        /\ msg.kind = "REPORT"
    BY <1>1, <1>6 DEF InboxP!Pieces
  <2>2. tk # 0 /\ Len(msg.reports) # 0
    BY <1>1, <1>6, <2>1, EmptySeq
  <2> HIDE DEF td, msg
  <2>3. /\ Len(td) = Len(msg.reports)
        /\ \A i \in 1 .. Len(td) : /\ td[i].kind = "REPORT" /\ td[i].conn = c
                                   /\ td[i].n = msg.reports[i].n
    BY <1>1, <2>1
  <2>4. Stage(S, td, tk + 1, "running")
    BY <1>4, <2>2, <2>3 DEF Stage
  <2>5. Progress(S, td, tk + 1, ms)
    <3>1. Waiting(td, m, Len(msg.reports))
      BY <1>3, <2>3 DEF Waiting, IsRun
    <3> QED BY <1>1, <1>2, <1>3, <3>1 DEF Progress
  <2> QED BY <2>3, <2>4, <2>5 DEF td, msg
<1> QED BY <1>5, <1>6
-----------------------------------------------------------------------------
(* What the invariant says of the types of the variables.                  *)
LEMMA Types ==
  ASSUME PipelineInv
  PROVE  /\ taken \in [Agents -> Nat] /\ conn \in [Agents -> {"none", "accepted", "running"}]
         /\ todo \in [Agents \cup {Acceptor} -> Seq(InboxP!Piece)]
         /\ accepted \in Seq(InboxP!Piece)
         /\ sent \in [Agents -> Seq(Message)]
         /\ Acceptor \notin Agents
         /\ InboxP!Writers = Agents \cup {Acceptor}
BY PipelineAssumption
   DEF PipelineInv, IInv, TypeOK, InboxP!IInv, InboxP!InboxTypeOK, InboxP!Writers

(* The messages the agents send are messages for the inbox.                *)
LEMMA SentOK ==
  ASSUME PipelineInv
  PROVE  InboxP!SentOK
<1> SUFFICES ASSUME NEW c \in Agents
             PROVE  /\ Len(sent[c]) \in Nat
                    /\ \A i \in 1 .. Len(sent[c]) : InboxP!Pieces(c, sent[c][i]) \in Seq(InboxP!Piece)
  BY DEF InboxP!SentOK
<1>1. sent[c] \in Seq(Message)
  BY Types
<1>2. ASSUME NEW m \in Message PROVE InboxP!Pieces(c, m) \in Seq(InboxP!Piece)
  <2>1. /\ m.reports \in Seq(Report) /\ Len(m.reports) \in Nat
        /\ m.kind \in InboxP!Kinds
    BY DEF Message, InboxP!Kinds
  <2>2. \A i \in 1 .. Len(m.reports) : m.reports[i] \in Report
    BY <2>1, ElementOfSeq
  <2>3. \A i \in 1 .. Len(m.reports) : m.reports[i].n \in Nat
    BY <2>2 DEF Report
  <2>4. \A n \in Nat : [conn |-> c, kind |-> m.kind, n |-> n] \in InboxP!Piece
    BY <2>1 DEF InboxP!Piece, InboxP!Writers
  <2>5. [i \in 1 .. Len(m.reports) |-> [conn |-> c, kind |-> m.kind, n |-> m.reports[i].n]]
          \in Seq(InboxP!Piece)
    BY <2>1, <2>3, <2>4
  <2>6. <<[conn |-> c, kind |-> m.kind, n |-> 0]>> \in Seq(InboxP!Piece)
    BY <2>4
  <2> QED BY <2>5, <2>6 DEF InboxP!Pieces
<1> QED BY <1>1, <1>2

LEMMA AgentsInit ==
  ASSUME PipelineInit, NEW a \in Agents
  PROVE  ConnInv(a)
<1>1. /\ taken[a] = 0 /\ conn[a] = "none" /\ todo[a] = <<>> /\ accepted = <<>>
      /\ sent[a] = <<>>
  BY DEF PipelineInit, Inbox!InboxInit, Inbox!Writers, Init
<1>2. Of(<<>>, a) = {}
  BY DEF Of
<1>3. Announced({}, "none", todo[Acceptor])
  BY DEF Announced
<1>4. Stage({}, <<>>, 0, "none")
  BY NoPieces DEF Stage
<1>5. Progress({}, <<>>, 0, <<>>)
  <2>1. Ranks({}) = 1 .. 0
    BY NoPieces
  <2>2. Waiting(<<>>, 0, 0)
    BY DEF Waiting
  <2>3. UpTo(<<>>, 0, 0 + 0)
    BY DEF UpTo, Brought
  <2> QED BY <2>1, <2>2, <2>3 DEF Progress
<1>6. taken[a] <= Len(sent[a]) /\ \A i \in 1 .. Len(todo[a]) : todo[a][i].conn = a
  <2>1. Len(<<>>) = 0
    OBVIOUS
  <2> QED BY <1>1, <2>1
<1>7. Of(accepted, a) = {} /\ Announced(Of(accepted, a), conn[a], todo[Acceptor])
  BY <1>1, <1>2, <1>3
<1>8. /\ Stage(Of(accepted, a), todo[a], taken[a], conn[a])
      /\ Progress(Of(accepted, a), todo[a], taken[a], sent[a])
  BY <1>1, <1>2, <1>4, <1>5
<1> QED BY <1>6, <1>7, <1>8 DEF ConnInv

LEMMA PipelineInitInv == PipelineInit => PipelineInv
<1> SUFFICES ASSUME PipelineInit PROVE PipelineInv
  OBVIOUS
<1>1. IInv /\ ReadyInv /\ ShapeInv
  <2>1. Init
    BY DEF PipelineInit
  <2>2. IInv
    BY <2>1, InitInv
  <2> QED BY <2>1, <2>2 DEF Init, ReadyInv, ShapeInv, Shaped
<1>2. InboxP!IInv
  BY SameInboxInit, InboxConstants, InboxP!InitInv DEF PipelineInit
<1>3. AcceptorInv
  BY DEF PipelineInit, Inbox!InboxInit, Inbox!Writers, AcceptorInv
<1>4. InOrder(accepted)
  BY DEF PipelineInit, Inbox!InboxInit, InOrder
<1> QED BY <1>1, <1>2, <1>3, <1>4, AgentsInit DEF PipelineInv

(* A step that changes nothing of what the invariant says of agent a.      *)
LEMMA ConnFrame ==
  ASSUME NEW a \in Agents, ConnInv(a), taken'[a] = taken[a], sent'[a] = sent[a],
         todo'[a] = todo[a], conn'[a] = conn[a], Of(accepted', a) = Of(accepted, a),
         Announced(Of(accepted, a), conn[a], todo'[Acceptor])
  PROVE  ConnInv(a)'
BY DEF ConnInv

(* The agents' half of the invariant does not change when the inbox steps. *)
LEMMA SenderFrame ==
  ASSUME IInv, ReadyInv, ShapeInv, UNCHANGED senderVars
  PROVE  (IInv /\ ReadyInv /\ ShapeInv)'
BY DEF senderVars, IInv, TypeOK, AgentInv, Out,
       ReadyInv, ShapeInv

(* A step of an agent.                                                     *)
LEMMA SenderStep ==
  ASSUME PipelineInv, Next, UNCHANGED inboxVars
  PROVE  PipelineInv'
<1>1. Next /\ IInv /\ ReadyInv /\ ShapeInv
  BY DEF PipelineInv
<1>2. (IInv /\ ReadyInv /\ ShapeInv)'
  <2>1. IInv' /\ ShapeInv'
    BY <1>1, StepInv, StepShape
  <2>2. ReadyInv'
    BY <1>1, StepReady
  <2> QED BY <2>1, <2>2
<1>3. InboxP!IInv'
  <2>1. UNCHANGED InboxP!inboxVars
    BY DEF inboxVars, InboxP!inboxVars
  <2> QED BY <2>1, InboxConstants, InboxP!StutterInv DEF PipelineInv
<1>4. AcceptorInv' /\ InOrder(accepted)'
  BY DEF PipelineInv, AcceptorInv, inboxVars
<1>5. ASSUME NEW a \in Agents PROVE ConnInv(a)'
  <2>1. ConnInv(a) /\ taken[a] \in Nat /\ taken[a] <= Len(sent[a])
    BY Types DEF PipelineInv, ConnInv
  <2>2. PICK m \in Nat, k \in Nat : /\ Ranks(Of(accepted, a)) = 1 .. m /\ Waiting(todo[a], m, k)
                                   /\ UpTo(sent[a], taken[a], m + k)
    BY <2>1 DEF ConnInv, Progress
  <2>3. UpTo(sent'[a], taken[a], m + k) /\ taken[a] <= Len(sent'[a])
    BY <1>1, <2>1, <2>2, UpToStays
  <2>4. Progress(Of(accepted, a), todo[a], taken[a], sent'[a])
    BY <2>2, <2>3 DEF Progress
  <2> QED BY <2>1, <2>3, <2>4 DEF ConnInv, inboxVars
<1> QED BY <1>2, <1>3, <1>4, <1>5 DEF PipelineInv

(* The steps of the inbox that push nothing and take nothing.              *)
LEMMA QuietStep ==
  ASSUME PipelineInv, NEW a \in Agents,
         UNCHANGED <<taken, conn, todo, accepted, sent>>
  PROVE  ConnInv(a)' /\ AcceptorInv' /\ InOrder(accepted)'
BY DEF PipelineInv, ConnInv, AcceptorInv

LEMMA AcceptStep ==
  ASSUME PipelineInv, NEW c \in Agents, InboxP!Accept(c), UNCHANGED senderVars
  PROVE  /\ \A a \in Agents : ConnInv(a)'
         /\ AcceptorInv' /\ InOrder(accepted)'
<1>1. /\ conn[c] = "none" /\ \A d \in Agents : conn[d] # "accepted"
      /\ conn' = [conn EXCEPT ![c] = "accepted"]
      /\ todo' = [todo EXCEPT ![Acceptor] = <<InboxP!Connected(c)>>]
      /\ UNCHANGED <<taken, accepted, sent>>
  BY DEF InboxP!Accept, senderVars
<1>2. /\ conn'[c] = "accepted" /\ \A a \in Agents \ {c} : conn'[a] = conn[a]
      /\ todo'[Acceptor] = <<InboxP!Connected(c)>> /\ todo'[Acceptor] # <<>>
      /\ \A a \in Agents : todo'[a] = todo[a]
  BY <1>1, Types
<1>3. ASSUME NEW a \in Agents, a # c PROVE ConnInv(a)'
  <2>1. ConnInv(a)
    BY DEF PipelineInv
  <2>2. Announced(Of(accepted, a), conn[a], todo'[Acceptor])
    BY <1>1, <2>1 DEF ConnInv, Announced
  <2> QED BY <1>1, <1>2, <1>3, <2>1, <2>2, ConnFrame
<1>4. ConnInv(c)'
  <2>1. ConnInv(c)
    BY DEF PipelineInv
  <2>2. Announced(Of(accepted, c), "accepted", todo'[Acceptor])
    BY <1>1, <1>2, <2>1 DEF ConnInv, Announced
  <2>3. Stage(Of(accepted, c), todo[c], taken[c], "accepted")
    BY <1>1, <2>1 DEF ConnInv, Stage
  <2> QED BY <1>1, <1>2, <2>1, <2>2, <2>3 DEF ConnInv
<1>5. AcceptorInv'
  <2>1. \A d \in Agents : conn'[d] = "accepted" => d = c
    BY <1>1, <1>2
  <2> QED BY <1>2, <2>1 DEF AcceptorInv, InboxP!Connected
<1> QED BY <1>1, <1>3, <1>4, <1>5 DEF PipelineInv

LEMMA StartThreadStep ==
  ASSUME PipelineInv, NEW c \in Agents, InboxP!StartThread(c), UNCHANGED senderVars
  PROVE  /\ \A a \in Agents : ConnInv(a)'
         /\ AcceptorInv' /\ InOrder(accepted)'
<1>1. /\ conn[c] = "accepted" /\ todo[Acceptor] = <<>>
      /\ conn' = [conn EXCEPT ![c] = "running"]
      /\ UNCHANGED <<taken, todo, accepted, sent>>
  BY DEF InboxP!StartThread, senderVars
<1>2. conn'[c] = "running" /\ \A a \in Agents \ {c} : conn'[a] = conn[a]
  BY <1>1, Types
<1>3. ASSUME NEW a \in Agents, a # c PROVE ConnInv(a)'
  BY <1>1, <1>2, <1>3, ConnFrame DEF PipelineInv, ConnInv
<1>4. ConnInv(c)'
  <2>1. ConnInv(c)
    BY DEF PipelineInv
  <2>2. Announced(Of(accepted, c), "running", todo[Acceptor])
    BY <1>1, <2>1 DEF ConnInv, Announced
  <2>3. Stage(Of(accepted, c), todo[c], taken[c], "running")
    BY <1>1, <2>1 DEF ConnInv, Stage
  <2> QED BY <1>1, <1>2, <2>1, <2>2, <2>3 DEF ConnInv
<1>5. AcceptorInv'
  BY <1>1, <1>2 DEF PipelineInv, AcceptorInv
<1> QED BY <1>1, <1>3, <1>4, <1>5 DEF PipelineInv

LEMMA TakeMessageStep ==
  ASSUME PipelineInv, NEW c \in Agents, InboxP!TakeMessage(c), UNCHANGED senderVars
  PROVE  /\ \A a \in Agents : ConnInv(a)'
         /\ AcceptorInv' /\ InOrder(accepted)'
<1> DEFINE pieces == InboxP!Pieces(c, sent[c][taken[c] + 1])
<1>1. /\ conn[c] = "running" /\ todo[c] = <<>> /\ taken[c] < Len(sent[c])
      /\ taken' = [taken EXCEPT ![c] = @ + 1]
      /\ todo' = [todo EXCEPT ![c] = pieces]
      /\ UNCHANGED <<conn, accepted, sent>>
  BY DEF InboxP!TakeMessage, senderVars
<1>2. /\ taken[c] \in Nat /\ Len(sent[c]) \in Nat /\ sent[c] \in Seq(Message)
      /\ Acceptor # c
  BY Types
<1>3. /\ taken'[c] = taken[c] + 1 /\ todo'[c] = pieces /\ todo'[Acceptor] = todo[Acceptor]
      /\ \A a \in Agents \ {c} : taken'[a] = taken[a] /\ todo'[a] = todo[a]
  <2> HIDE DEF pieces
  <2> QED BY <1>1, <1>2, Types
<1>4. ASSUME NEW a \in Agents, a # c PROVE ConnInv(a)'
  BY <1>1, <1>3, <1>4, ConnFrame DEF PipelineInv, ConnInv
<1>5. ConnInv(c)'
  <2> DEFINE S == Of(accepted, c)
  <2>1. ConnInv(c)
    BY DEF PipelineInv
  <2>2. S # {} /\ Stage(S, <<>>, taken[c], "running") /\ Progress(S, <<>>, taken[c], sent[c])
    BY <1>1, <2>1 DEF ConnInv, Announced
  <2>7. /\ Outgoing(sent[c], unsent[c], Out(c))
        /\ Shaped(sent[c])
        /\ \A k \in 1 .. Len(sent[c]) : sent[c][k].kind = "READY" <=> k = 1
    BY DEF PipelineInv, IInv, AgentInv, ShapeInv, ReadyInv
  <2>3. PICK lo \in Nat : Holds(sent[c], lo)
    BY <2>7 DEF Outgoing
  <2>4. taken[c] + 1 \in 1 .. Len(sent[c])
    BY <1>1, <1>2
  <2> HIDE DEF S
  <2>5. /\ Stage(S, pieces, taken[c] + 1, "running")
        /\ Progress(S, pieces, taken[c] + 1, sent[c])
        /\ \A i \in 1 .. Len(pieces) : pieces[i].conn = c
    BY <1>2, <2>2, <2>3, <2>4, <2>7, TakePieces
  <2> HIDE DEF pieces
  <2>6. taken[c] + 1 <= Len(sent[c])
    BY <1>1, <1>2
  <2> QED BY <1>1, <1>3, <2>1, <2>5, <2>6 DEF ConnInv, S
<1>6. AcceptorInv'
  <2> HIDE DEF pieces
  <2> QED BY <1>1, <1>3 DEF PipelineInv, AcceptorInv
<1> QED BY <1>1, <1>4, <1>5, <1>6 DEF PipelineInv

(* The accept thread pushes its announcement.                              *)
LEMMA StoreAnnouncement ==
  ASSUME PipelineInv, InboxP!StoreIndex(Acceptor), UNCHANGED senderVars
  PROVE  /\ \A a \in Agents : ConnInv(a)'
         /\ AcceptorInv' /\ InOrder(accepted)'
<1>1. todo[Acceptor] # <<>>
  <2>1. Acceptor \in InboxP!Writers
    BY Types
  <2> QED BY <2>1 DEF PipelineInv, InboxP!IInv, InboxP!ThreadsInv, InboxP!StoreIndex
<1>2. PICK d \in Agents : conn[d] = "accepted" /\ todo[Acceptor] = <<InboxP!Connected(d)>>
  BY <1>1 DEF PipelineInv, AcceptorInv
<1> DEFINE p == InboxP!Connected(d)
<1>3. p.conn = d /\ p.kind = "CONNECTED" /\ p \in InboxP!Piece
  BY Types DEF InboxP!Connected, InboxP!Piece
<1> HIDE DEF p
<1>4. Head(todo[Acceptor]) = p /\ Tail(todo[Acceptor]) = <<>>
  BY <1>2 DEF p
<1>5. /\ accepted' = Append(accepted, p)
      /\ todo' = [todo EXCEPT ![Acceptor] = <<>>]
      /\ UNCHANGED <<taken, conn, sent>>
  BY <1>4 DEF InboxP!StoreIndex, senderVars
<1>6. todo'[Acceptor] = <<>> /\ \A a \in Agents : todo'[a] = todo[a]
  BY <1>5, Types
<1>7. ASSUME NEW a \in Agents
      PROVE  Of(accepted', a) = IF d = a THEN Of(accepted, a) \cup {p} ELSE Of(accepted, a)
  BY <1>3, <1>5, Types, OfAppend
<1>8. \A a \in Agents : conn[a] = "accepted" => a = d
  BY <1>2 DEF PipelineInv, AcceptorInv
<1>9. ASSUME NEW a \in Agents, a # d PROVE ConnInv(a)'
  <2>1. ConnInv(a)
    BY DEF PipelineInv
  <2>2. Announced(Of(accepted, a), conn[a], todo'[Acceptor])
    BY <1>8, <1>9, <2>1 DEF ConnInv, Announced
  <2> QED BY <1>5, <1>6, <1>7, <1>9, <2>1, <2>2, ConnFrame
<1>10. Of(accepted, d) = {}
  BY <1>1, <1>2 DEF PipelineInv, ConnInv, Announced
<1>11. ConnInv(d)'
  <2>1. ConnInv(d)
    BY DEF PipelineInv
  <2>2. Of(accepted', d) = {p} /\ KindsOf({p}) = {"CONNECTED"} /\ Ranks({p}) = Ranks({})
    <3>1. Of(accepted', d) = {} \cup {p}
      BY <1>7, <1>10
    <3>2. KindsOf({} \cup {p}) = {} \cup {"CONNECTED"}
      BY <1>3, KindsAdd, NoPieces
    <3>3. Ranks({} \cup {p}) = Ranks({})
      BY <1>3, RanksAdd
    <3> QED BY <3>1, <3>2, <3>3
  <2>3. Announced({p}, "accepted", <<>>)
    BY DEF Announced
  <2>4. Stage({}, todo[d], taken[d], "accepted") /\ Progress({}, todo[d], taken[d], sent[d])
    BY <1>2, <1>10, <2>1 DEF ConnInv
  <2>5. Stage({p}, todo[d], taken[d], "accepted")
    BY <2>2, <2>4 DEF Stage
  <2>6. Progress({p}, todo[d], taken[d], sent[d])
    BY <2>2, <2>4 DEF Progress
  <2> QED BY <1>2, <1>5, <1>6, <2>1, <2>2, <2>3, <2>5, <2>6 DEF ConnInv
<1>12. AcceptorInv'
  BY <1>5, <1>6 DEF PipelineInv, AcceptorInv
<1>13. InOrder(accepted)'
  <2>1. KindsOf(Of(accepted, d)) # {"CONNECTED"}
    BY <1>10, NoPieces
  <2> QED BY <1>3, <1>5, <1>10, <2>1, Types, InOrderAppend DEF PipelineInv
<1> QED BY <1>9, <1>11, <1>12, <1>13

(* The thread of a connection pushes a piece.                              *)
LEMMA StorePiece ==
  ASSUME PipelineInv, NEW c \in Agents, InboxP!StoreIndex(c), UNCHANGED senderVars
  PROVE  /\ \A a \in Agents : ConnInv(a)'
         /\ AcceptorInv' /\ InOrder(accepted)'
<1> DEFINE td == todo[c]
           p == Head(td)
           S == Of(accepted, c)
<1>1. td # <<>> /\ conn[c] = "running"
  BY Types DEF PipelineInv, InboxP!IInv, InboxP!ThreadsInv, InboxP!StoreIndex
<1>2. ConnInv(c)
  BY DEF PipelineInv
<1>3. td \in Seq(InboxP!Piece) /\ taken[c] \in Nat /\ c # Acceptor
  BY Types
<1>4. p \in InboxP!Piece /\ p.conn = c
  <2>1. 1 \in 1 .. Len(td) /\ p = td[1] /\ p \in InboxP!Piece
    BY <1>1, <1>3, HeadTailProperties
  <2> QED BY <1>2, <2>1 DEF ConnInv
<1>5. /\ accepted' = Append(accepted, p)
      /\ todo' = [todo EXCEPT ![c] = Tail(td)]
      /\ UNCHANGED <<taken, conn, sent>>
  BY DEF InboxP!StoreIndex, senderVars
<1>6. /\ todo'[c] = Tail(td) /\ todo'[Acceptor] = todo[Acceptor]
      /\ \A a \in Agents \ {c} : todo'[a] = todo[a]
  <2> HIDE DEF td
  <2> QED BY <1>3, <1>5, Types
<1>7. S # {} /\ Stage(S, td, taken[c], conn[c]) /\ Progress(S, td, taken[c], sent[c])
  BY <1>1, <1>2 DEF ConnInv, Announced
<1> HIDE DEF S
<1>8. /\ Stage(S \cup {p}, Tail(td), taken[c], conn[c])
      /\ Progress(S \cup {p}, Tail(td), taken[c], sent[c])
      /\ p.kind # "CONNECTED"
      /\ p.kind = "READY" <=> KindsOf(S) = {"CONNECTED"}
      /\ p.kind = "REPORT" => Ranks(S) = 1 .. p.n - 1
  BY <1>1, <1>3, <1>7, PushPiece
<1>9. \A i \in 1 .. Len(Tail(td)) : Tail(td)[i].conn = c
  <2>1. /\ Len(td) \in Nat /\ Len(Tail(td)) = Len(td) - 1
        /\ \A i \in 1 .. Len(Tail(td)) : Tail(td)[i] = td[i + 1]
    BY <1>1, <1>3, HeadTailProperties
  <2>2. \A i \in 1 .. Len(Tail(td)) : i + 1 \in 1 .. Len(td)
    BY <2>1
  <2> QED BY <1>2, <2>1, <2>2 DEF ConnInv
<1> HIDE DEF td, p
<1>10. ASSUME NEW a \in Agents
       PROVE  Of(accepted', a) = IF c = a THEN Of(accepted, a) \cup {p} ELSE Of(accepted, a)
  BY <1>4, <1>5, Types, OfAppend
<1>11. ASSUME NEW a \in Agents, a # c PROVE ConnInv(a)'
  BY <1>5, <1>6, <1>10, <1>11, ConnFrame DEF PipelineInv, ConnInv
<1>12. ConnInv(c)'
  <2>1. Of(accepted', c) = S \cup {p}
    BY <1>10 DEF S
  <2>2. Announced(S \cup {p}, conn[c], todo[Acceptor])
    BY <1>1 DEF Announced
  <2> QED BY <1>2, <1>5, <1>6, <1>8, <1>9, <2>1, <2>2 DEF ConnInv
<1>13. AcceptorInv'
  BY <1>5, <1>6 DEF PipelineInv, AcceptorInv
<1>14. InOrder(accepted)'
  BY <1>4, <1>5, <1>7, <1>8, Types, InOrderAppend DEF PipelineInv, S
<1> QED BY <1>11, <1>12, <1>13, <1>14

(* A step of the monitor.                                                  *)
LEMMA InboxStep ==
  ASSUME PipelineInv, Inbox!InboxNext, UNCHANGED senderVars
  PROVE  PipelineInv'
<1>1. InboxP!InboxNext
  BY SameInboxNext
<1>2. InboxP!IInv'
  BY <1>1, SentOK, InboxConstants, InboxP!StepInv DEF PipelineInv
<1>3. (IInv /\ ReadyInv /\ ShapeInv)'
  BY SenderFrame DEF PipelineInv
<1>4. (\A a \in Agents : ConnInv(a)') /\ AcceptorInv' /\ InOrder(accepted)'
  <2>1. CASE \E w \in InboxP!Writers : InboxP!LoadIndex(w)
    BY <2>1, QuietStep DEF InboxP!LoadIndex, senderVars, PipelineInv, AcceptorInv
  <2>2. CASE InboxP!Handle
    BY <2>2, QuietStep DEF InboxP!Handle, senderVars, PipelineInv, AcceptorInv
  <2>3. CASE \E w \in InboxP!Writers : InboxP!StoreIndex(w)
    BY <2>3, Types, StoreAnnouncement, StorePiece
  <2> QED BY <1>1, <2>1, <2>2, <2>3, AcceptStep, StartThreadStep, TakeMessageStep
          DEF InboxP!InboxNext
<1> QED BY <1>2, <1>3, <1>4 DEF PipelineInv

LEMMA StutterStep ==
  ASSUME PipelineInv, UNCHANGED pipelineVars
  PROVE  PipelineInv'
<1>1. (IInv /\ ReadyInv /\ ShapeInv)'
  BY SenderFrame DEF PipelineInv, pipelineVars, senderVars
<1>2. InboxP!IInv'
  <2>1. UNCHANGED InboxP!inboxVars
    BY DEF pipelineVars, InboxP!inboxVars
  <2> QED BY <2>1, InboxConstants, InboxP!StutterInv DEF PipelineInv
<1> QED BY <1>1, <1>2 DEF PipelineInv, ConnInv, AcceptorInv, pipelineVars
-----------------------------------------------------------------------------
(* PipelineInv is an invariant.                                            *)
THEOREM PipelineInvariance == PipelineSpec => []PipelineInv
<1>1. PipelineInv /\ [PipelineNext]_pipelineVars => PipelineInv'
  BY SenderStep, InboxStep, StutterStep DEF PipelineNext
<1> QED BY PipelineInitInv, <1>1, PTL DEF PipelineSpec

(* Unless two connections raced on _iq, the dispatcher sees of every JVM   *)
(* its announcement, READY and then its reports: none missing, none twice  *)
(* and in the order in which the JVM's threads queued them.                *)
THEOREM ReportsInOrder == PipelineSpec => []DispatchedInOrder
<1>1. PipelineInv => DispatchedInOrder
  <2> SUFFICES ASSUME PipelineInv, ~raced PROVE InOrder(handled)
    BY DEF DispatchedInOrder
  <2>1. accepted = handled \o InboxP!Queued /\ InOrder(accepted)
    BY DEF PipelineInv, InboxP!IInv, InboxP!IntactUnlessRaced
  <2>2. handled \in Seq(InboxP!Piece) /\ InboxP!Queued \in Seq(InboxP!Piece)
    BY InboxConstants, InboxP!QueuedType DEF PipelineInv, InboxP!IInv, InboxP!InboxTypeOK
  <2> QED BY <2>1, <2>2, InOrderPrefix
<1> QED BY <1>1, PipelineInvariance, PTL
=============================================================================
