---------------------------- MODULE SessionFile -----------------------------
(***************************************************************************)
(* The session (session/src): what it keeps of the reports that reach the  *)
(* main window, and what a file of it holds.  A file has a line per kind   *)
(* of report, which starts with the kind's tag; the reader cuts the tag    *)
(* off, and the parser of each report cuts off one character more, which   *)
(* is the tag again for every report but some: what it takes from those is *)
(* the first character of a name.                                          *)
(***************************************************************************)
EXTENDS ReportAccounts

(* A name with the number of characters that parsing has cut off its front. *)
Name(text) == [text |-> text, lost |-> 0]

Clipped(name) == [name EXCEPT !.lost = @ + 1]

NewSession ==
  [classes |-> <<>>, jammed |-> Nothing, traffic |-> <<>>, rankings |-> <<>>,
   signals |-> Nothing, timers |-> Nothing]
-----------------------------------------------------------------------------
(* Session::update, one for each kind of report.                           *)
AddClasses(session, details) == [session EXCEPT !.classes = @ \o details]

AddJammed(session, report) ==
  [session EXCEPT !.jammed =
     Put(@, report.key, IF report.key \in DOMAIN @ THEN JammedAdd(@[report.key], report) ELSE report)]

AddTraffic(session, traces) == [session EXCEPT !.traffic = @ \o traces]

AddRankings(session, ranks) == [session EXCEPT !.rankings = ranks]

AddSignal(session, signal) == [session EXCEPT !.signals = SignalsWith(@, signal)]

AddTimer(session, report) ==
  [session EXCEPT !.timers = Put(@, report.key, TimerAssign(At(@, report.key, NewTimerReport), report))]
-----------------------------------------------------------------------------
(* The lines of a file, by kind.  Session::store writes the maps in the    *)
(* order in which they happen to be.                                       *)
NoLines == [classes |-> <<>>, jammed |-> <<>>, traffic |-> <<>>, signals |-> <<>>, timers |-> <<>>]

Listings(map) == {[i \in DOMAIN order |-> map[order[i]]] : order \in SetToSeqs(DOMAIN map)}

Written(session) ==
  {[classes |-> session.classes, jammed |-> j, traffic |-> session.traffic,
    signals |-> [i \in DOMAIN s |-> s[i].signals], timers |-> t] :
     j \in Listings(session.jammed), s \in Listings(session.signals), t \in Listings(session.timers)}

(* PersistorFile::get_all_views: a line of the file replaces what the      *)
(* reader has of its kind.  A kind with nothing in it has no line that     *)
(* counts, and what an earlier file said of it stays.  The line of the     *)
(* rankings starts with another character than the one it is asked by, so  *)
(* it is never found.                                                      *)
Viewed(views, lines) ==
  [kind \in DOMAIN views |-> IF lines[kind] = <<>> THEN views[kind] ELSE lines[kind]]

(* What the parsers make of the lines.  A monitor's name is cut in the     *)
(* first jammed report, of any of its monitors as the set lists them.      *)
ParsedClasses(line) ==
  [i \in DOMAIN line |-> IF i = 1 THEN [line[1] EXCEPT !.name = Clipped(@)] ELSE line[i]]

ParsedJammed(line) ==
  IF line = <<>> THEN {<<>>}
  ELSE {[line EXCEPT ![1].monitors = (@ \ {m}) \cup {Clipped(m)}] : m \in line[1].monitors}

(* operator>> of StackTrace reads the list of monitors, with an empty item *)
(* at its end, and addFrame puts the number that each frame keeps for      *)
(* itself after it.                                                        *)
ParsedTraffic(line) ==
  [i \in DOMAIN line |-> [line[i] EXCEPT !.monitors = @ \o <<0>> \o line[i].own]]

(* Mutant: the two numbers of a timer are read in the other order.         *)
ParsedTimersSwapped(line) ==
  [i \in DOMAIN line |->
     LET name == IF i = 1 THEN Clipped(line[1].name) ELSE line[i].name
     IN  [line[i] EXCEPT !.name = name, !.key = name, !.time = line[i].elapsed, !.elapsed = line[i].time]]

(* operator>> of TimerReport.                                              *)
ParsedTimers(line) ==
  [i \in DOMAIN line |->
     LET name == IF i = 1 THEN Clipped(line[1].name) ELSE line[i].name
     IN  [line[i] EXCEPT !.name = name, !.key = name]]

(* Session::load: the classes are read into an emptied list, the traffic   *)
(* is added to what there is, and the others replace what has their key.   *)
PutJammed(map, report) == Put(map, report.key, report)

PutSignals(map, report) == Put(map, report.signals[1].key, report)

PutTimer(map, report) == Put(map, report.key, TimerAssign(At(map, report.key, NewTimerReport), report))

LoadedSessions(session, views) ==
  LET signalReports == [i \in DOMAIN views.signals |-> SignalReportOf(views.signals[i])]
  IN  {[session EXCEPT
          !.classes = ParsedClasses(views.classes),
          !.traffic = @ \o ParsedTraffic(views.traffic),
          !.jammed  = FoldLeft(PutJammed, @, jams),
          !.signals = FoldLeft(PutSignals, @, signalReports),
          !.timers  = FoldLeft(PutTimer, @, ParsedTimers(views.timers))] : jams \in ParsedJammed(views.jammed)}
=============================================================================
