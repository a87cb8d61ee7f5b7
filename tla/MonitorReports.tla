--------------------------- MODULE MonitorReports ---------------------------
(***************************************************************************)
(* The reports of the targets inside the monitor program: the thread that  *)
(* takes messages (Monitor<T>::mhandler) adds each one to the monitor's    *)
(* accounts and posts the result to the main window (FRListener's signals, *)
(* queued to FRMain); the thread of the listener does the resets and the   *)
(* rankings that the main window asks for; the main window shows what it   *)
(* is given, and keeps it in the session, which is saved and loaded.       *)
(*                                                                         *)
(* A message is handled when it is sent: ReportPipeline is about the way   *)
(* between, which delivers in order.  Each step of mhandler, and each map  *)
(* that a reset clears, is one step here.                                  *)
(***************************************************************************)
EXTENDS ViewerTables, SessionFile, StackColumns

CONSTANTS
  Kinds,           \* what targets may be asked for: kinds of report, how many, and
                   \* how often somebody presses a key or a button
  Classes,         \* classes whose objects are monitored
  Stacks,          \* stacks that signal
  TimerKeys,       \* a thread and a method that is timed
  SignalKeys,      \* a thread and a method that signals
  Values,          \* what the arguments of a signal may be
  JamKeys,         \* stacks of a waiter and of an owner
  Monitors,        \* names of what they wait for
  LoadedClasses,   \* a name and a number of methods each
  Samples,         \* what a sample of the traffic may hold of a thread
  MaxPosted,       \* how many reports the main window may be behind
  MaxResets, MaxSaves, MaxLoads, MaxTime

ASSUME BoundsAssumption ==
  {MaxPosted, MaxResets, MaxSaves, MaxLoads, MaxTime} \subseteq Nat

ASSUME SamplesAssumption ==
  \A sample \in Samples :
    Len(sample.frames) \in Nat /\ DOMAIN sample.frames = 1 .. Len(sample.frames)

ASSUME NamesAssumption == NoName \notin TimerKeys

VARIABLES
  asked,           \* the kinds of report asked for
  program,         \* the targets: objects on the heap, activations, time
  mon,             \* Monitor<T>: the accounts
  clearing,        \* the maps that Monitor<T>::reset has still to clear
  requests,        \* posted to the listener's thread: resets and rankings
  queue,           \* posted to the main window
  main,            \* FRMain: _signalReports, _detailDescriptors, _heapReports
  shown,           \* the tables of the viewers
  windows,         \* the detail windows that are open
  session,         \* Session
  views,           \* PersistorFile::_views
  file,            \* the file that sessions are saved in
  crashed,         \* whether the program has stopped at an error
  past             \* what has happened, for the properties and the bounds

vars == <<asked, program, mon, clearing, requests, queue, main, shown, windows, session, views, file,
          crashed, past>>
gui  == <<main, shown, windows, session, views, file>>

NoFile == Nothing
-----------------------------------------------------------------------------
NewMonitor ==
  [heap |-> Nothing, tagOf |-> Nothing, timers |-> Nothing, counters |-> Nothing, jams |-> Nothing]

NewTables ==
  [heap |-> Nothing, signals |-> Nothing, timers |-> Nothing, jams |-> Nothing, classes |-> NewClassTable,
   columns |-> Nothing, cells |-> Nothing, marks |-> Nothing, ranking |-> <<>>]

NewProgram == [objects |-> {}, born |-> 0, open |-> Nothing, now |-> 1]

NewMain == [signals |-> Nothing, holders |-> Nothing, heap |-> Nothing]

NoWindows == [signals |-> Nothing, heap |-> Nothing]

NewPast ==
  [reports |-> 0, resets |-> 0, saves |-> 0, loads |-> 0, presses |-> 0, mixed |-> FALSE, muddled |-> {},
   made |-> Nothing, spent |-> Nothing, sampled |-> {}, stale |-> {}, shaken |-> FALSE, fresh |-> FALSE]

(* A monitor that has just been started, with its targets.                 *)
Started ==
  /\ program' = NewProgram /\ mon' = NewMonitor /\ clearing' = <<>> /\ requests' = <<>> /\ queue' = <<>>
  /\ main' = NewMain /\ shown' = NewTables /\ windows' = NoWindows
  /\ session' = NewSession /\ views' = NoLines /\ crashed' = FALSE

Init ==
  /\ asked \in Kinds
  /\ program = NewProgram /\ mon = NewMonitor /\ clearing = <<>> /\ requests = <<>> /\ queue = <<>>
  /\ main = NewMain /\ shown = NewTables /\ windows = NoWindows
  /\ session = NewSession /\ views = NoLines /\ file = NoFile /\ crashed = FALSE
  /\ past = NewPast

(* A report of a kind, with what the thread that handles it posts.         *)
Reported(kind, posted) ==
  /\ kind \in asked.kinds /\ ~crashed /\ past.reports < asked.reports /\ Len(queue) < MaxPosted
  /\ queue' = queue \o posted
  /\ UNCHANGED <<asked, clearing, requests, gui>>

Post(kind, report) == <<[kind |-> kind, report |-> report]>>
-----------------------------------------------------------------------------
(* Mutant: the tag is kept for the first object of a class only.           *)
TaggedFirst(tag, class) ==
  IF class \in DOMAIN mon.heap THEN mon.tagOf ELSE Put(mon.tagOf, tag, [class |-> class, left |-> <<>>])

(* HeapMonitor's lookup of a tag's report, with an object's tag in it.     *)
Tagged(tag, class) == Put(mon.tagOf, tag, [class |-> class, left |-> <<>>])

(* Monitor<T>::service_heap_event, for an object that a constructor has    *)
(* begun to make (HeapMonitor::process).  The tag is the time in           *)
(* microseconds, which two objects may share; an object whose constructor  *)
(* calls another monitored one is reported by each of them, and keeps the  *)
(* last tag.                                                               *)
HeapCreate(class, stack, object, tag) ==
  LET report == HeapCreated(At(mon.heap, class, NewHeapReport), stack)
      made   == [id |-> object, class |-> class, tag |-> tag, counted |-> TRUE]
      before == {o \in program.objects : o.id = object}
      others == program.objects \ before
  IN  /\ Reported("heap", Post("heap", [class |-> class, report |-> report]))
      /\ mon' = [mon EXCEPT !.heap = Put(@, class, report),
                            !.tagOf = Tagged(tag, class)]
      /\ program' = [program EXCEPT !.objects = others \cup {made}, !.born = Larger(@, object), !.now = tag]
      /\ past' = [past EXCEPT !.reports = @ + 1,
                              !.made = Put(@, class, At(@, class, 0) + 1),
                              !.mixed = @ \/ before # {} \/ \E o \in others : o.tag = tag]
      /\ UNCHANGED crashed

(* The same for an object that the collector has freed (ObjectFree).  The  *)
(* tag is looked up without a test whether it is there, and may lead to a  *)
(* report that a reset has just destroyed: what is left of it may be read  *)
(* or not.                                                                 *)
HeapFree(object) ==
  LET known == object.tag \in DOMAIN mon.tagOf
      to    == mon.tagOf[object.tag]
      freed == HeapFreed(IF to.left = <<>> THEN mon.heap[to.class] ELSE to.left[1])
  IN  /\ object \in program.objects
      /\ program' = [program EXCEPT !.objects = @ \ {object}]
      /\ \/ /\ known
            /\ Reported("heap", Post("heap", [class |-> to.class, report |-> freed]))
            /\ mon' = IF to.left = <<>> THEN [mon EXCEPT !.heap[to.class] = freed]
                      ELSE [mon EXCEPT !.tagOf[object.tag].left = <<freed>>]
            /\ past' = [past EXCEPT !.reports = @ + 1, !.mixed = @ \/ to.left # <<>>]
            /\ UNCHANGED crashed
         \/ /\ known => to.left # <<>>
            /\ Reported("heap", <<>>)
            /\ crashed' = TRUE
            /\ UNCHANGED <<mon, past>>

(* Monitor<T>::service_timer, for a method that is entered and for one     *)
(* that returns; an exception leaves a method without a word.              *)
TimerEnter(key) ==
  LET old == At(mon.timers, key, NewTimerReport)
  IN  /\ Reported("timers", <<>>)
      /\ mon' = [mon EXCEPT !.timers = Put(@, key, TimerAssign(old, TimerMessage(key, program.now)))]
      /\ program' = [program EXCEPT !.open = Put(@, key, Append(At(@, key, <<>>), program.now))]
      /\ past' = [past EXCEPT !.reports = @ + 1,
                              !.muddled = IF At(program.open, key, <<>>) # <<>> THEN @ \cup {key} ELSE @]
      /\ UNCHANGED crashed

TimerExit(key, i) ==
  LET report == TimerAdd(At(mon.timers, key, NewTimerReport), TimerMessage(key, program.now))
  IN  /\ i \in DOMAIN At(program.open, key, <<>>)
      /\ Reported("timers", Post("timer", report))
      /\ mon' = [mon EXCEPT !.timers = Put(@, key, report)]
      /\ program' = [program EXCEPT !.open[key] = RemoveAt(@, i)]
      /\ past' = [past EXCEPT !.reports = @ + 1,
                              !.spent = Put(@, key, At(@, key, 0) + program.now - program.open[key][i])]
      /\ UNCHANGED crashed

TimerThrow(key) ==
  /\ At(program.open, key, <<>>) # <<>>
  /\ program' = [program EXCEPT !.open[key] = Front(@)]
  /\ UNCHANGED <<asked, mon, clearing, requests, queue, gui, crashed, past>>

Tick ==
  /\ "timers" \in asked.kinds /\ program.now < MaxTime
  /\ program' = [program EXCEPT !.now = @ + 1]
  /\ UNCHANGED <<asked, mon, clearing, requests, queue, gui, crashed, past>>

(* Monitor<T>::service_signal.                                             *)
SignalReported(key, stack, values) ==
  /\ Reported("signals", Post("signal", [key |-> key, stack |-> stack, values |-> values]))
  /\ past' = [past EXCEPT !.reports = @ + 1]
  /\ UNCHANGED <<program, mon, crashed>>

(* Monitor<T>::service_jammed: the accounts are kept by the whole message. *)
JammedReported(key, monitor) ==
  LET message == JammedMessage(key, {Name(monitor)})
      report  == JammedAdd(At(mon.jams, message, NewJammedReport), message)
  IN  /\ Reported("jams", Post("jam", report))
      /\ mon' = [mon EXCEPT !.jams = Put(@, message, report)]
      /\ past' = [past EXCEPT !.reports = @ + 1]
      /\ UNCHANGED <<program, crashed>>

(* Monitor<T>::service_loaded.                                             *)
ClassReported(class) ==
  /\ Reported("classes", Post("classes", <<[name |-> Name(class.name), methods |-> class.methods]>>))
  /\ past' = [past EXCEPT !.reports = @ + 1]
  /\ UNCHANGED <<program, mon, crashed>>

(* Monitor<T>::service_traffic.                                            *)
TrafficReported(sample) ==
  /\ Reported("traffic", Post("traffic", <<TraceOf(sample)>>))
  /\ mon' = [mon EXCEPT !.counters = CountFrames(@, sample)]
  /\ past' = [past EXCEPT !.reports = @ + 1]
  /\ UNCHANGED <<program, crashed>>
-----------------------------------------------------------------------------
(* The listener's thread takes the next request (FRListener::reset,        *)
(* FRListener::stop_traffic).                                              *)
StartReset ==
  /\ ~crashed /\ clearing = <<>> /\ requests # <<>> /\ Head(requests) = "reset"
  /\ requests' = Tail(requests)
  /\ clearing' = <<"timers", "counters", "jams", "heap", "tagOf">>
  /\ UNCHANGED <<asked, program, mon, queue, gui, crashed, past>>

(* Monitor<T>::reset clears one map after another, with mhandler running.  *)
ClearNext ==
  LET map  == Head(clearing)
      open == {key \in DOMAIN program.open : program.open[key] # <<>>}
      left(to) == IF to.left = <<>> THEN [to EXCEPT !.left = <<mon.heap[to.class]>>] ELSE to
      cleared  == [mon EXCEPT ![map] = NewMonitor[map]]
  IN  /\ ~crashed /\ clearing # <<>>
      /\ mon' = IF map = "heap" THEN [cleared EXCEPT !.tagOf = [tag \in DOMAIN @ |-> left(@[tag])]]
                ELSE cleared
      /\ clearing' = Tail(clearing)
      /\ program' = IF map # "heap" THEN program
                    ELSE [program EXCEPT !.objects = {[o EXCEPT !.counted = FALSE] : o \in @}]
      /\ past' = CASE map = "timers" -> [past EXCEPT !.spent = Nothing, !.muddled = open]
                   [] map = "heap"   -> [past EXCEPT !.made = Nothing]
                   [] OTHER          -> past
      /\ UNCHANGED <<asked, requests, queue, gui, crashed>>

RankMethods ==
  /\ ~crashed /\ clearing = <<>> /\ requests # <<>> /\ Head(requests) = "stop_traffic"
  /\ requests' = Tail(requests)
  /\ \E ranks \in Rankings(mon.counters) : queue' = queue \o Post("ranks", ranks)
  /\ UNCHANGED <<asked, program, mon, clearing, gui, crashed, past>>
-----------------------------------------------------------------------------
(* FRMain::update_list, on what it changes: the reports, the holders of    *)
(* details, the table, the detail windows and the session.                 *)
ListUpdated(g, signal) ==
  LET reports == SignalsWith(g.main.signals, signal)
      report  == reports[signal.key]
      opened  == g.windows.signals
  IN  [g EXCEPT
         !.main.signals = reports,
         !.main.holders = Put(@, signal.key, report),
         !.session = AddSignal(@, signal),
         !.shown.signals = CountRow(@, signal.key, report.count),
         !.windows.signals =
            IF signal.key \in DOMAIN opened THEN Put(opened, signal.key, DetailUpdate(opened[signal.key], report))
            ELSE opened]

(* The signals of a report of a file, one after the other.                 *)
SignalsShown(g, signals) == FoldLeft(ListUpdated, g, signals)

(* FRMain::update_timed_list.                                              *)
TimedListUpdated(g, report) ==
  [g EXCEPT !.session = AddTimer(@, report), !.shown.timers = CountRow(@, report.name, report.elapsed)]

(* FRMain::update_heap.                                                    *)
HeapUpdated(g, class, report) ==
  LET opened == g.windows.heap
  IN  [g EXCEPT
         !.main.heap = Put(@, class, report),
         !.shown.heap = HeapRow(@, class, report),
         !.windows.heap =
            IF class \in DOMAIN opened THEN Put(opened, class, StackRows(opened[class], report.stacks))
            ELSE opened]

(* TrafficViewer::update_traffic for one stack: the column of its thread,  *)
(* and the cells of the column and of its marks if the column says that it *)
(* has changed.                                                            *)
TraceShown(tables, trace) ==
  LET t      == trace.thread
      update == ColumnUpdate(At(tables.columns, t, <<>>), trace)
      stacks == [i \in DOMAIN update.column |-> update.column[i].frames]
      marks  == [i \in DOMAIN update.column |-> update.column[i].monitors]
      drawn(cells, column) == Put(cells, t, IF update.changed THEN Painted(At(cells, t, <<>>), column)
                                            ELSE At(cells, t, <<>>))
  IN  [tables EXCEPT !.columns = Put(@, t, update.column),
                     !.cells   = drawn(@, stacks),
                     !.marks   = drawn(@, marks)]

(* update_traffic marks the stacks it is given, and those are what the     *)
(* session gets (FRMain::update_traffic).                                  *)
TrafficShown(tables, traces) == FoldLeft(TraceShown, tables, traces)

TraceMarked(tables, trace) == ColumnUpdate(At(tables.columns, trace.thread, <<>>), trace).trace

TrafficUpdated(g, traces) ==
  [g EXCEPT !.shown = TrafficShown(@, traces), !.session = AddTraffic(@, <<TraceMarked(g.shown, traces[1])>>)]

(* TrafficViewer::update_ranking: QTableWidget::clear empties the rows and *)
(* leaves them where they are.                                             *)
RankingShown(tables, ranks) ==
  [tables EXCEPT !.ranking = [i \in DOMAIN @ |-> Blank] \o ranks]

(* FRMain::method_ranking, update_class_viewer and update_jammed.          *)
RankingUpdated(g, ranks) == [g EXCEPT !.shown = RankingShown(@, ranks), !.session = AddRankings(@, ranks)]

ClassesUpdated(g, details) ==
  [g EXCEPT !.shown.classes = FoldLeft(ClassLoaded, @, details), !.session = AddClasses(@, details)]

JammedUpdated(g, report) ==
  [g EXCEPT !.shown.jams = JammedRow(@, report), !.session = AddJammed(@, report)]

Gui == [main |-> main, shown |-> shown, windows |-> windows, session |-> session]

(* The main window's thread takes the next report.                         *)
Handled(post) ==
  CASE post.kind = "signal"  -> ListUpdated(Gui, post.report)
    [] post.kind = "timer"   -> TimedListUpdated(Gui, post.report)
    [] post.kind = "heap"    -> HeapUpdated(Gui, post.report.class, post.report.report)
    [] post.kind = "traffic" -> TrafficUpdated(Gui, post.report)
    [] post.kind = "ranks"   -> RankingUpdated(Gui, post.report)
    [] post.kind = "classes" -> ClassesUpdated(Gui, post.report)
    [] post.kind = "jam"     -> JammedUpdated(Gui, post.report)

GuiBecomes(g) == main' = g.main /\ shown' = g.shown /\ windows' = g.windows /\ session' = g.session

Deliver ==
  /\ ~crashed /\ queue # <<>>
  /\ GuiBecomes(Handled(Head(queue)))
  /\ queue' = Tail(queue)
  /\ past' = [past EXCEPT !.fresh = FALSE,
                          !.sampled = IF Head(queue).kind # "traffic" THEN @ ELSE @ \cup {Head(queue).report[1]}]
  /\ UNCHANGED <<asked, program, mon, clearing, requests, views, file, crashed>>
-----------------------------------------------------------------------------
(* FRMain::reset_viewers.  The detail windows, what they are shown from    *)
(* and the session stay.                                                   *)
ResetViewers ==
  /\ ~crashed /\ past.resets < MaxResets
  /\ shown' = [NewTables EXCEPT !.classes = ClassesCleared(shown.classes)]
  /\ requests' = Append(requests, "reset")
  /\ main' = [main EXCEPT !.signals = Nothing]
  /\ past' = [past EXCEPT !.resets = @ + 1, !.sampled = {}, !.stale = DOMAIN windows.signals,
                          !.shaken = TRUE, !.fresh = FALSE]
  /\ UNCHANGED <<asked, program, mon, clearing, queue, windows, session, views, file, crashed>>

(* FRMain::stop_watching_traffic.                                          *)
StopTraffic ==
  /\ ~crashed /\ "traffic" \in asked.kinds /\ past.presses < asked.presses
  /\ requests' = Append(requests, "stop_traffic")
  /\ past' = [past EXCEPT !.presses = @ + 1]
  /\ UNCHANGED <<asked, program, mon, clearing, queue, gui, crashed>>

(* FRMain::show_detail and show_heap_detail, for a row of the table.       *)
ShowDetail(key) ==
  /\ ~crashed /\ key \in DOMAIN shown.signals
  /\ windows' = [windows EXCEPT !.signals = Put(@, key, DetailUpdate(At(@, key, NewDetail), main.holders[key]))]
  /\ UNCHANGED <<asked, program, mon, clearing, requests, queue, main, shown, session, views, file, crashed, past>>

ShowHeapDetail(class) ==
  /\ ~crashed /\ class \in DOMAIN shown.heap
  /\ windows' = [windows EXCEPT !.heap = Put(@, class, StackRows(At(@, class, Nothing), main.heap[class].stacks))]
  /\ UNCHANGED <<asked, program, mon, clearing, requests, queue, main, shown, session, views, file, crashed, past>>

(* FClassViewer::methods_for_class, on the row of a class.                 *)
PressClass(r) ==
  /\ ~crashed /\ past.presses < asked.presses /\ shown.classes.rows[r].method = 0
  /\ shown' = [shown EXCEPT !.classes = ClassPressed(@, r)]
  /\ past' = [past EXCEPT !.presses = @ + 1]
  /\ UNCHANGED <<asked, program, mon, clearing, requests, queue, main, windows, session, views, file, crashed>>
-----------------------------------------------------------------------------
(* FRMain::session_save.                                                   *)
SessionSave ==
  /\ ~crashed /\ "files" \in asked.kinds /\ past.saves < MaxSaves
  /\ file' \in Written(session)
  /\ past' = [past EXCEPT !.saves = @ + 1]
  /\ UNCHANGED <<asked, program, mon, clearing, requests, queue, main, shown, windows, session, views, crashed>>

(* FRMain::session_load.  What it shows goes to the session again, except  *)
(* for the classes, the jammed reports and the traffic; the timers come in *)
(* the order of a map, and of two with one name the last is seen.  The     *)
(* parser does not survive a timer without a name at the start.            *)
LoadShown(loaded) ==
  LET jams    == SetToSeq({loaded.jammed[k] : k \in DOMAIN loaded.jammed})
      signals == SetToSeq({loaded.signals[k].signals : k \in DOMAIN loaded.signals})
      g0 == [Gui EXCEPT !.session = loaded,
                        !.shown.classes = FoldLeft(ClassLoaded, @, loaded.classes),
                        !.shown.jams = FoldLeft(JammedRow, @, jams)]
      g1 == [g0 EXCEPT !.shown = RankingShown(TrafficShown(@, loaded.traffic), loaded.rankings)]
      g2 == FoldLeft(SignalsShown, g1, signals)
  IN  {FoldLeft(TimedListUpdated, g2, timers) : timers \in Listings(loaded.timers)}

SessionLoad ==
  /\ ~crashed /\ "files" \in asked.kinds /\ file # NoFile /\ past.loads < MaxLoads
  /\ views' = Viewed(views, file)
  /\ \/ /\ views'.timers # <<>> /\ views'.timers[1].name = NoName
        /\ crashed' = TRUE
        /\ past' = [past EXCEPT !.loads = @ + 1, !.shaken = TRUE]
        /\ UNCHANGED <<main, shown, windows, session, requests>>
     \/ /\ ~(views'.timers # <<>> /\ views'.timers[1].name = NoName)
        /\ \E loaded \in LoadedSessions(session, views') : \E g \in LoadShown(loaded) : GuiBecomes(g)
        /\ requests' = Append(requests, "reset")
        /\ past' = [past EXCEPT !.loads = @ + 1, !.shaken = TRUE, !.sampled = @ \cup ToSet(session'.traffic)]
        /\ UNCHANGED crashed
  /\ UNCHANGED <<asked, program, mon, clearing, queue, file>>

(* The program is started again, after it was closed or has crashed.       *)
Restart ==
  /\ "files" \in asked.kinds /\ file # NoFile /\ past.reports > 0
  /\ Started
  /\ past' = [NewPast EXCEPT !.reports = asked.reports, !.resets = past.resets, !.saves = past.saves,
                             !.fresh = TRUE]
  /\ UNCHANGED <<asked, file>>
-----------------------------------------------------------------------------
Heap ==
  \/ \E class \in Classes, stack \in Stacks, object \in 1 .. program.born + 1, gap \in {0, 1} :
       /\ object <= program.born => \E o \in program.objects : o.id = object
       /\ HeapCreate(class, stack, object, program.now + gap)
  \/ \E object \in program.objects : HeapFree(object)

Timers ==
  \/ Tick
  \/ \E key \in TimerKeys :
       \/ TimerEnter(key)
       \/ \E i \in 1 .. 2 : TimerExit(key, i)
       \/ TimerThrow(key)

Others ==
  \/ \E key \in SignalKeys, stack \in Stacks, values \in Values : SignalReported(key, stack, values)
  \/ \E key \in JamKeys, monitor \in Monitors : JammedReported(key, monitor)
  \/ \E class \in LoadedClasses : ClassReported(class)
  \/ \E sample \in Samples : TrafficReported(sample)

Listener == StartReset \/ ClearNext \/ RankMethods

Window ==
  \/ Deliver
  \/ ResetViewers
  \/ StopTraffic
  \/ \E key \in SignalKeys : ShowDetail(key)
  \/ \E class \in Classes : ShowHeapDetail(class)
  \/ \E r \in DOMAIN shown.classes.rows : PressClass(r)
  \/ SessionSave
  \/ SessionLoad

Next == Heap \/ Timers \/ Others \/ Listener \/ Window \/ Restart

Spec == Init /\ [][Next]_vars
-----------------------------------------------------------------------------
(* While every object on the heap has had a tag of its own, the report of  *)
(* a class says as many current objects as there are, and as many again as *)
(* were made since the reset: HeapMonitor::process adds a creation twice.  *)
(* The stacks add up to the lifetime, and the maximum is in between.       *)
HeapBalance ==
  crashed \/ past.mixed \/ \A class \in DOMAIN mon.heap :
    LET report == mon.heap[class]
        made   == At(past.made, class, 0)
        alive  == Cardinality({o \in program.objects : o.class = class /\ o.counted})
    IN  /\ report.current = made + alive
        /\ report.lifetime = 2 * made
        /\ SumFunction(report.stacks) = report.lifetime
        /\ report.current <= report.max /\ report.max <= report.lifetime

(* The current objects that the heap window is about to show are those on  *)
(* the heap.                                                               *)
HeapCountsObjects ==
  past.mixed \/ past.shaken \/ \A class \in DOMAIN mon.heap :
    mon.heap[class].current = Cardinality({o \in program.objects : o.class = class})

(* No report of a target can stop the program unless somebody has reset it *)
(* or loaded a session since it was started.                               *)
OnlyResetKills == crashed => past.shaken

(* The elapsed time of a timer is the time spent in the activations of its *)
(* method that have returned since the reset, however many have left by an *)
(* exception, as long as no two of one thread's name were open at once and *)
(* none was open at the reset.                                             *)
TimerTruth ==
  \A key \in DOMAIN mon.timers \ past.muddled : mon.timers[key].elapsed = At(past.spent, key, 0)

(* When nothing is posted any more, in either direction, the windows show  *)
(* what the monitor has in its accounts.  A reset clears them in different *)
(* threads, with reports of what is cleared on the way.                    *)
SettledShowsAccounts ==
  (queue = <<>> /\ requests = <<>> /\ clearing = <<>> /\ ~crashed) =>
    /\ past.mixed \/ \A class \in DOMAIN mon.heap :
         /\ class \in DOMAIN shown.heap
         /\ \A part \in {"lifetime", "current", "max"} : shown.heap[class][part] = mon.heap[class][part]
    /\ past.mixed \/ \A class \in DOMAIN mon.heap \cap DOMAIN windows.heap :
         \A stack \in DOMAIN mon.heap[class].stacks :
           windows.heap[class][stack] = mon.heap[class].stacks[stack]
    /\ \A key \in DOMAIN mon.timers \ past.muddled :
         mon.timers[key].elapsed > 0 =>
           /\ key \in DOMAIN shown.timers
           /\ shown.timers[key] = mon.timers[key].elapsed

(* The rows of a detail window, those that share the row with the asterisk *)
(* counted there, add up to the number of signals in the signal window,    *)
(* and so do the stacks, unless the window is from before a reset.         *)
DetailAddsUp ==
  \A key \in DOMAIN windows.signals \ past.stale :
    LET detail == windows.signals[key]
    IN  /\ key \in DOMAIN shown.signals
        /\ detail.star + SumFunction(detail.own) = shown.signals[key]
        /\ SumFunction(detail.stacks) = shown.signals[key]

(* No stack of a column is part of another one, each stack sampled in the  *)
(* thread since the reset is in one of the column's, and the cells show    *)
(* the column's stacks.                                                    *)
ColumnsCover ==
  /\ \A t \in DOMAIN shown.columns : \A i, j \in DOMAIN shown.columns[t] :
       LET a == shown.columns[t][i].frames
           b == shown.columns[t][j].frames
       IN  i # j => a # b /\ ~Extends(a, b)
  /\ \A sample \in past.sampled :
       sample.thread \in DOMAIN shown.columns =>
         Covering(shown.columns[sample.thread], sample) # {}
  /\ \A t \in DOMAIN shown.columns :
       shown.cells[t] = Layout([i \in DOMAIN shown.columns[t] |-> shown.columns[t][i].frames])

(* A frame is marked only if it has been seen to hold a monitor with the   *)
(* same frames beneath it, although the marks wander from a stack of the   *)
(* column to a sample and on to another stack; those that come from a file *)
(* are not (ParsedTraffic).                                                *)
MarksAreSeen ==
  past.loads = 0 => \A t \in DOMAIN shown.columns : \A i \in DOMAIN shown.columns[t] :
    LET stack == shown.columns[t][i]
        outer(frames, k) == SubSeq(frames, Len(frames) - k + 1, Len(frames))
        mark(trace, k)   == trace.monitors[Len(trace.monitors) - k + 1]
    IN  \A k \in 1 .. Len(stack.frames) : mark(stack, k) > 0 =>
          \E sample \in past.sampled :
            /\ sample.thread = t /\ Len(sample.frames) >= k
            /\ outer(sample.frames, k) = outer(stack.frames, k)
            /\ mark(sample, k) > 0

(* What the parser reads in the lines of a kind: the first name and one of *)
(* the first monitors are short of their first characters.                 *)
ReadNames(lines) ==
  [i \in DOMAIN lines |-> IF i = 1 THEN Clipped(lines[1].name) ELSE lines[i].name]

ReadMonitors(lines, i) ==
  IF i = 1 THEN {(lines[1].monitors \ {m}) \cup {Clipped(m)} : m \in lines[1].monitors}
  ELSE {lines[i].monitors}

(* A program that has just been started shows, when it loads a file, what  *)
(* the parser reads in it: each signal once, each jammed report once, with *)
(* its monitors, and each class as often as the file has it.               *)
LoadShowsFile ==
  [][(past.fresh /\ past.loads = 0 /\ past'.loads = 1 /\ ~crashed') =>
       LET classes == ReadNames(file.classes)
       IN  /\ \A i \in DOMAIN file.signals :
                shown'.signals[file.signals[i][1].key] = Len(file.signals[i])
           /\ DOMAIN shown'.jams = {file.jammed[i].key : i \in DOMAIN file.jammed}
           /\ \A i \in DOMAIN file.jammed :
                /\ shown'.jams[file.jammed[i].key].count = 1
                /\ shown'.jams[file.jammed[i].key].monitors \in ReadMonitors(file.jammed, i)
           /\ shown'.classes.loads =
                [nm \in ToSet(classes) |-> Cardinality({i \in DOMAIN classes : classes[i] = nm})]]_vars

(* And of each timer the longest time that is read.                        *)
LoadShowsTimers ==
  [][(past.fresh /\ past.loads = 0 /\ past'.loads = 1 /\ ~crashed') =>
       LET timers    == ReadNames(file.timers)
           times(nm) == {file.timers[i].elapsed : i \in {k \in DOMAIN timers : timers[k] = nm}}
       IN  shown'.timers = [nm \in ToSet(timers) |-> Max(times(nm))]]_vars

(* A program that has just been started has, when it loads a file, the     *)
(* session that was stored: test_Session.cpp requires that they are equal, *)
(* which compares the classes and the jammed reports.                      *)
LoadGivesStored ==
  (past.fresh /\ past.loads = 1 /\ ~crashed) =>
    /\ session.classes = file.classes
    /\ {session.jammed[key] : key \in DOMAIN session.jammed} = ToSet(file.jammed)
=============================================================================
