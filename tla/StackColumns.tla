---------------------------- MODULE StackColumns ----------------------------
(***************************************************************************)
(* The column of a thread in the traffic window (gui/src/StackColumn.cpp   *)
(* and the comparisons of monitor/src/StackTrace.cpp).  A column keeps the *)
(* stacks sampled so far, each once: a stack that another one extends is   *)
(* covered by it.                                                          *)
(***************************************************************************)
EXTENDS Integers, Sequences

(* StackTrace::operator> : one stack reaches what the other one does, from *)
(* the outermost frame, which is the last, and goes on.                    *)
Extends(longer, shorter) ==
  /\ longer # shorter
  /\ Len(longer) >= Len(shorter)
  /\ \A i \in 1 .. Len(shorter) : longer[i + Len(longer) - Len(shorter)] = shorter[i]

(* Mutant: the stacks are aligned at the top.                              *)
MarkedFromTop(these, others) ==
  [i \in 1 .. Len(these) |->
     IF i \in 1 .. Len(others) /\ these[i] = 0 /\ others[i] > 0 THEN 1 ELSE these[i]]

(* One side of StackTrace::update_monitors: the frames, aligned from the   *)
(* outermost, that hold a monitor in the other stack are marked in this.   *)
Marked(these, others) ==
  [i \in 1 .. Len(these) |->
     LET o == i + Len(others) - Len(these)
     IN  IF o \in 1 .. Len(others) /\ these[i] = 0 /\ others[o] > 0 THEN 1 ELSE these[i]]

(* The stacks of a column that a new one extends, and those that it merely *)
(* repeats or that extend it.                                              *)
Outgrown(column, trace) == {i \in 1 .. Len(column) : Extends(trace.frames, column[i].frames)}

(* Mutant: a stack that is there already is not found.                     *)
CoveringLonger(column, trace) == {i \in 1 .. Len(column) : Extends(column[i].frames, trace.frames)}

Covering(column, trace) ==
  {i \in 1 .. Len(column) : column[i].frames = trace.frames \/ Extends(column[i].frames, trace.frames)}

(* The loop of StackColumn::update over the stacks before one that the     *)
(* trace outgrows, if there is one: the marks of each stack that covers    *)
(* the trace and of the trace are exchanged, and what was found last says  *)
(* whether the column has changed.                                         *)
FirstOutgrown(column, trace) ==
  IF Outgrown(column, trace) = {} THEN Len(column) + 1
  ELSE CHOOSE i \in Outgrown(column, trace) : \A j \in Outgrown(column, trace) : i <= j

Passes(column, trace) ==
  LET pass[i \in 0 .. Len(column)] ==
        IF i = 0 THEN [column |-> column, marks |-> trace.monitors, changed |-> FALSE]
        ELSE LET before == pass[i - 1]
                 mine   == Marked(column[i].monitors, before.marks)
                 marks  == Marked(before.marks, column[i].monitors)
             IN  IF i \notin Covering(column, trace) \/ i >= FirstOutgrown(column, trace) THEN before
                 ELSE [column  |-> [before.column EXCEPT ![i].monitors = mine],
                       marks   |-> marks,
                       changed |-> mine # column[i].monitors \/ marks # before.marks]
  IN  pass

(* StackColumn::update: the column after it, what it returned, and the     *)
(* trace, whose marks it changes although it is passed as a const.         *)
ColumnUpdate(column, trace) ==
  LET last    == Passes(column, trace)[Len(column)]
      marked  == [trace EXCEPT !.monitors = last.marks]
      outgrown == FirstOutgrown(column, trace)
  IN  IF Outgrown(column, trace) # {}
        THEN [column |-> [last.column EXCEPT ![outgrown] = marked], changed |-> TRUE, trace |-> marked]
      ELSE IF Covering(column, trace) = {}
        THEN [column |-> Append(last.column, marked), changed |-> TRUE, trace |-> marked]
      ELSE [column |-> last.column, changed |-> last.changed, trace |-> marked]
-----------------------------------------------------------------------------
(* TrafficViewer::update_traffic writes the frames of a column's stacks one *)
(* below the other with an empty cell between, over what the column has    *)
(* shown, and their marks likewise in the column beside it.                *)
CONSTANT Blank

Layout(blocks) ==
  LET lay[i \in 0 .. Len(blocks)] ==
        IF i = 0 THEN <<>>
        ELSE IF i = 1 THEN blocks[1]
        ELSE lay[i - 1] \o <<Blank>> \o blocks[i]
  IN  lay[Len(blocks)]

Painted(cells, blocks) ==
  LET text == Layout(blocks)
  IN  [r \in 1 .. (IF Len(cells) > Len(text) THEN Len(cells) ELSE Len(text)) |->
         IF r <= Len(text) THEN text[r] ELSE cells[r]]
=============================================================================
