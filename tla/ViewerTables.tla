---------------------------- MODULE ViewerTables ----------------------------
(***************************************************************************)
(* The tables of the viewers (gui/src): what each update of the monitor's  *)
(* reports does to the rows that a window shows.                           *)
(***************************************************************************)
EXTENDS ReportAccounts

(* A detail window (DetailViewerModel) has a row per stack and a row per   *)
(* combination of values that was seen more than once; the combinations    *)
(* seen once share the row "( * )", whose number is star.                  *)
NewDetail == [stacks |-> Nothing, own |-> Nothing, folded |-> {}, star |-> 0]

(* Mutant: a combination that moves out stays counted in the shared row.   *)
DetailMarkersKept(detail, markers) ==
  LET new   == DOMAIN markers \ (DOMAIN detail.own \cup detail.folded)
      once  == {v \in new : markers[v] <= 1}
      leave == {v \in detail.folded \cap DOMAIN markers : markers[v] # 1}
      rows  == DOMAIN detail.own \cup leave \cup (new \ once)
  IN  [detail EXCEPT
         !.folded = (@ \ leave) \cup once,
         !.star   = @ + Cardinality(once),
         !.own    = [v \in rows |-> IF v \in DOMAIN markers THEN markers[v] ELSE @[v]]]

(* DetailViewerModel::update_args_markers: a combination moves out of the  *)
(* shared row when its count is no longer one; the counts of the others    *)
(* that have a row are written anew.                                       *)
DetailMarkers(detail, markers) ==
  LET new   == DOMAIN markers \ (DOMAIN detail.own \cup detail.folded)
      once  == {v \in new : markers[v] <= 1}
      leave == {v \in detail.folded \cap DOMAIN markers : markers[v] # 1}
      rows  == DOMAIN detail.own \cup leave \cup (new \ once)
  IN  [detail EXCEPT
         !.folded = (@ \ leave) \cup once,
         !.star   = @ + Cardinality(once) - Cardinality(leave),
         !.own    = [v \in rows |-> IF v \in DOMAIN markers THEN markers[v] ELSE @[v]]]

(* DetailViewerModel::update_stack_view, and the table of stacks of        *)
(* HeapDetailViewer::update: a row per stack, with its count.              *)
StackRows(rows, stacks) ==
  [s \in DOMAIN rows \cup DOMAIN stacks |-> IF s \in DOMAIN stacks THEN stacks[s] ELSE rows[s]]

(* DetailViewer::update with the details of a signal.                      *)
DetailUpdate(detail, holder) ==
  DetailMarkers([detail EXCEPT !.stacks = StackRows(@, holder.stacks)], holder.markers)
-----------------------------------------------------------------------------
(* Mutant: only the row of a new class gets the current number.            *)
HeapRowOnce(rows, class, report) ==
  Put(rows, class, [lifetime |-> report.lifetime, max |-> report.max,
                    current |-> At(rows, class, report).current])

(* HeapViewer::update, FSignalViewer::update_count and                     *)
(* FTimerViewer::update_time: a row for a name, with its latest numbers.   *)
HeapRow(rows, class, report) ==
  Put(rows, class, [lifetime |-> report.lifetime, current |-> report.current, max |-> report.max])

CountRow(rows, name, count) == Put(rows, name, count)

(* Mutant: the first report is counted when its rows are made, and again.  *)
JammedRowTwice(rows, report) ==
  LET row == At(rows, report.key, [count |-> 1, monitors |-> report.monitors])
  IN  Put(rows, report.key, [row EXCEPT !.count = @ + 1])

(* JammedViewerModel::update: the first report of a pair of stacks puts    *)
(* its rows there, with its monitors; each one adds to the count.          *)
JammedRow(rows, report) ==
  LET row == At(rows, report.key, [count |-> 0, monitors |-> report.monitors])
  IN  Put(rows, report.key, [row EXCEPT !.count = @ + 1])
-----------------------------------------------------------------------------
(* FClassViewer: the rows of classes, each with the rows of its methods    *)
(* beneath it when it is expanded, how often each class was loaded, and    *)
(* the class that _row_class gives for a row.  A row of a class has the    *)
(* method 0; the methods of a class are numbered.                          *)
ClassRow(name) == [class |-> name, method |-> 0]

NewClassTable ==
  [rows |-> <<>>, loads |-> Nothing, methods |-> Nothing, expanded |-> {}, rowClass |-> Nothing]

(* The step of FClassViewer::update for one class.                         *)
ClassLoaded(table, detail) ==
  LET counted == [table EXCEPT !.loads = Counted(@, detail.name)]
  IN  IF detail.name \in DOMAIN table.methods THEN counted
      ELSE [counted EXCEPT !.rows    = Append(@, ClassRow(detail.name)),
                           !.methods = Put(@, detail.name, detail.methods)]

(* FClassViewer::methods_for_class with expand_methods and                 *)
(* collapse_methods, for the class in row r: the rows of the methods are   *)
(* put below it or taken away again, and _row_class is told of those rows  *)
(* only, not of the ones that move.                                        *)
ClassPressed(table, r) ==
  LET name  == table.rows[r].class
      n     == table.methods[name]
      above == SubSeq(table.rows, 1, r)
      added == [m \in 1 .. n |-> [class |-> name, method |-> m]]
      below == r + 1 .. r + n
  IN  IF name \notin table.expanded
        THEN [table EXCEPT
                !.rows     = above \o added \o SubSeq(@, r + 1, Len(@)),
                !.expanded = @ \cup {name},
                !.rowClass = [q \in DOMAIN @ \cup below |-> IF q \in below THEN name ELSE @[q]]]
        ELSE [table EXCEPT
                !.rows     = above \o SubSeq(@, r + n + 1, Len(@)),
                !.expanded = @ \ {name},
                !.rowClass = IF n = 0 THEN @ ELSE Restrict(@, DOMAIN @ \ {r + 1})]

(* FClassViewer::reset_all, which leaves _row_class as it is.              *)
ClassesCleared(table) == [NewClassTable EXCEPT !.rowClass = table.rowClass]
=============================================================================
