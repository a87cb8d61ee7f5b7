--------------------------- MODULE ReportAccounts ---------------------------
(***************************************************************************)
(* What the monitor adds up from the reports of the targets: a heap report *)
(* per class, a timer report per thread and method, a signal report per    *)
(* thread and method, a jammed report per message and the ranking of the   *)
(* methods seen in the traffic (monitor/src).  Names, stacks and           *)
(* descriptors are values; a map of the code is a function on its keys.    *)
(***************************************************************************)
EXTENDS Integers, SequencesExt

(* The value f has at x, or the one operator[] of a C++ map puts there.    *)
At(f, x, default) == IF x \in DOMAIN f THEN f[x] ELSE default

(* f with v at x.                                                          *)
Put(f, x, v) == [y \in DOMAIN f \cup {x} |-> IF y = x THEN v ELSE f[y]]

Nothing == [x \in {} |-> 0]

(* A map of counts after `++counts[x]`.                                    *)
Counted(counts, x) == Put(counts, x, At(counts, x, 0) + 1)

Larger(a, b) == IF a > b THEN a ELSE b
-----------------------------------------------------------------------------
(* HeapReport: the objects of a class, and how often each stack made one.  *)
NewHeapReport == [lifetime |-> 0, current |-> 0, max |-> 0, stacks |-> Nothing]

(* Mutant: the maximum is taken before the object is counted.              *)
HeapAddMaxFirst(report, stack) ==
  [lifetime |-> report.lifetime + 1,
   current  |-> report.current + 1,
   max      |-> Larger(report.max, report.current),
   stacks   |-> Counted(report.stacks, stack)]

(* HeapReport::operator+=.                                                 *)
HeapAdd(report, stack) ==
  [lifetime |-> report.lifetime + 1,
   current  |-> report.current + 1,
   max      |-> Larger(report.max, report.current + 1),
   stacks   |-> Counted(report.stacks, stack)]

(* What HeapMonitor::process does of a create event: it adds the event to  *)
(* the report, and adds it again in the argument of the call to the        *)
(* handler.                                                                *)
HeapCreated(report, stack) == HeapAdd(HeapAdd(report, stack), stack)

(* HeapReport::operator-=.                                                 *)
HeapFreed(report) == [report EXCEPT !.current = @ - 1]
-----------------------------------------------------------------------------
(* TimerReport.  The name is the thread and the method that the report     *)
(* shows; the key, which a default constructor leaves empty, is only set   *)
(* when a message is parsed.                                               *)
CONSTANT NoName

NewTimerReport == [name |-> NoName, key |-> NoName, time |-> 0, elapsed |-> 0]

(* A timer report as it is parsed from a message of the agent.             *)
TimerMessage(name, time) == [name |-> name, key |-> name, time |-> time, elapsed |-> 0]

(* Mutant: the elapsed time is overwritten as well.                        *)
TimerAssignAll(old, report) ==
  [old EXCEPT !.name = report.name, !.time = report.time, !.elapsed = report.elapsed]

(* TimerReport::operator= : the key and the direction stay what they were, *)
(* and so does the elapsed time unless the other one is larger.            *)
TimerAssign(old, report) ==
  [old EXCEPT !.name = report.name, !.time = report.time, !.elapsed = Larger(@, report.elapsed)]

(* TimerReport::operator+=.                                                *)
TimerAdd(old, report) == [old EXCEPT !.elapsed = @ + report.time - old.time]
-----------------------------------------------------------------------------
(* SignalReport: the signals of a thread and method, counted by stack and  *)
(* by the values of the arguments and fields that came with them.          *)
NewSignalReport == [count |-> 0, stacks |-> Nothing, markers |-> Nothing, signals |-> <<>>]

(* SignalReport::operator+=, with StackReport::operator+= and MarkerField's *)
(* (the report of a key is only ever given signals of that key).           *)
SignalAdd(report, signal) ==
  [count   |-> report.count + 1,
   stacks  |-> Counted(report.stacks, signal.stack),
   markers |-> Counted(report.markers, signal.values),
   signals |-> Append(report.signals, signal)]

(* The reports after `_signalReports[rpt.key()] += rpt`.                   *)
SignalsWith(reports, signal) ==
  Put(reports, signal.key, SignalAdd(At(reports, signal.key, NewSignalReport), signal))

(* SignalReport& operator>>: the report of a list of signals.              *)
SignalReportOf(signals) == FoldLeft(SignalAdd, NewSignalReport, signals)
-----------------------------------------------------------------------------
(* JammedReport: the stacks of the waiter and of the owner are its key.    *)
JammedMessage(key, monitors) == [key |-> key, monitors |-> monitors]

(* JammedReport::operator+=.                                               *)
JammedAdd(report, other) == [key |-> other.key, monitors |-> report.monitors \cup other.monitors]

NewJammedReport == [key |-> NoName, monitors |-> {}]
-----------------------------------------------------------------------------
(* Traffic.  A frame of a message has the method's name, whether it holds  *)
(* a monitor, and whether its descriptor says "thook", or "java" or "sun"  *)
(* anywhere, in the types of its parameters too; the outermost frame       *)
(* comes first.                                                            *)

(* The frames construct_traffic keeps, the topmost first.                  *)
KeptFrame(kept, frame) == IF frame.hook THEN kept ELSE <<frame>> \o kept

KeptFrames(message) == FoldLeft(KeptFrame, <<>>, message.frames)

(* StackTrace, as construct_traffic and addFrame build it: the marks that  *)
(* are updated, and the number that each frame keeps for itself.           *)
TraceOf(message) ==
  LET kept  == KeptFrames(message)
      marks == [i \in 1 .. Len(kept) |-> kept[i].monitor]
  IN  [thread   |-> message.thread,
       frames   |-> [i \in 1 .. Len(kept) |-> kept[i].name],
       monitors |-> marks,
       own      |-> marks]

(* The counters after a stack: one for each frame that is not the          *)
(* system's, and one more for the topmost of those.                        *)
CountFrames(counters, message) ==
  LET ranked == SelectSeq(KeptFrames(message), LAMBDA frame : ~frame.system)
      once   == FoldLeft(LAMBDA counts, frame : Counted(counts, frame.name), counters, ranked)
  IN  IF ranked = <<>> THEN counters ELSE Counted(once, ranked[1].name)

(* stop_watch_traffic's list, the most counted first.  std::sort orders    *)
(* the methods with equal counts as it happens to.                         *)
Rankings(counters) ==
  {list \in SetToSeqs({[method |-> m, count |-> counters[m]] : m \in DOMAIN counters}) :
     \A i, j \in 1 .. Len(list) : i < j => list[i].count >= list[j].count}
=============================================================================
