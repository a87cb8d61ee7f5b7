---------------------------- MODULE TargetStatus ----------------------------
(***************************************************************************)
(* The window of targets: a row per JVM with its status, the menu that     *)
(* connects and disconnects a JVM, and the box that connects each new one  *)
(* (gui/src/FRStatus.cpp, AboutHelpViewer.cpp).  What the window shows is  *)
(* a guess: the profiler of a JVM is switched by commands that travel to   *)
(* it, and its acknowledgements come back later, when the user may have    *)
(* selected another row, closed the window or opened a menu, whose event   *)
(* loop goes on handling reports.                                          *)
(***************************************************************************)
EXTENDS Naturals, Sequences, SequencesExt, FiniteSets

CONSTANTS
  N,        (* the number of JVMs, named in the order in which they start  *)
  MaxUser,  (* bound of the model: how many things the user does           *)
  MaxEnds   (* bound of the model: how many JVMs end                       *)

ASSUME StatusAssumption == N \in Nat /\ MaxUser \in Nat /\ MaxEnds \in Nat

Jvms == 1 .. N

VARIABLES
  life,     (* each JVM: "new", "running", "unloading" or "gone"           *)
  on,       (* its _runProfile                                             *)
  reload,   (* its reload_monitor: "busy", "waiting" or "reloading"  *)
  commands, (* the commands on their way to it                             *)
  reports,  (* its reports on their way to the GUI thread                  *)
  window,   (* "closed", "wired" or, opened by a report, "unwired"         *)
  view,     (* what the window holds                                       *)
  menu,     (* the menu that is open, and the row it was opened for        *)
  acts,     (* how many things the user has done                           *)
  ended,    (* why the monitor has ended: "no", "report", "menu" or "send" *)
  missed,   (* the JVMs whose last command woke nobody                     *)
  strayed,  (* the JVMs whose row misses an acknowledgement or has another's *)
  reopened, (* the window has been closed since it was first opened        *)
  slipped   (* a menu has acted on a row it was not opened for             *)

jvmVars == <<life, on, reload, missed>>
viewVars == <<window, view, menu, ended, strayed, reopened, slipped>>
vars == <<jvmVars, commands, reports, viewVars, acts>>

Statuses == {"NOT_CONNECTED", "CONNECTED", "DROPPED"}

(* Rows are numbered from 1; the current row is 0 when none is.            *)
EmptyView ==
  [rows |-> <<>>, items |-> [j \in {} |-> 1], status |-> <<>>, hidden |-> {}, current |-> 0, auto |-> TRUE]

NoMenu == [offers |-> "nothing", row |-> 0]

HasRow(v, r) == r \in 1 .. Len(v.rows)
-----------------------------------------------------------------------------
Init ==
  /\ life = [j \in Jvms |-> "new"]
  /\ on = [j \in Jvms |-> FALSE]
  /\ reload = [j \in Jvms |-> "busy"]
  /\ commands = [j \in Jvms |-> <<>>]
  /\ reports = [j \in Jvms |-> <<>>]
  /\ window \in {"closed", "wired"}
  /\ view = EmptyView
  /\ menu = NoMenu
  /\ acts = 0
  /\ ended = "no"
  /\ missed = {}
  /\ strayed = {}
  /\ reopened = FALSE
  /\ slipped = FALSE

Alive(j) == life[j] \in {"running", "unloading"}

(* Agent_OnLoad ends with READY; the threads start later, in VMInit.       *)
Load(j) ==
  /\ life[j] = "new"
  /\ \A k \in 1 .. j - 1 : life[k] # "new"
  /\ life' = [life EXCEPT ![j] = "running"]
  /\ reports' = [reports EXCEPT ![j] = <<"ready">>]
  /\ UNCHANGED <<on, reload, missed, commands, acts>> /\ UNCHANGED viewVars

(* CommandBridge stores the flag and notifies reload_monitor, which may    *)
(* not be waiting.                                                         *)
ReadCommand(j) ==
  /\ Alive(j)
  /\ commands[j] # <<>>
  /\ commands' = [commands EXCEPT ![j] = Tail(@)]
  /\ on' = [on EXCEPT ![j] = Head(commands[j]) = "turn_on_profiler"]
  /\ IF reload[j] = "waiting"
     THEN /\ reload' = [reload EXCEPT ![j] = "reloading"]
          /\ UNCHANGED missed
     ELSE /\ missed' = missed \cup {j}
          /\ UNCHANGED reload
  /\ UNCHANGED <<life, reports, acts>> /\ UNCHANGED viewVars

(* Mutant: the acknowledgement does not look at the flag.                  *)
AcknowledgeOn(j) ==
  /\ Alive(j)
  /\ reload[j] = "reloading"
  /\ reload' = [reload EXCEPT ![j] = "busy"]
  /\ reports' = [reports EXCEPT ![j] = Append(@, "ack_on")]
  /\ missed' = missed \ {j}
  /\ UNCHANGED <<life, on, commands, acts>> /\ UNCHANGED viewVars

(* reload_monitor has retransformed the classes and says what it found.    *)
Acknowledge(j) ==
  /\ Alive(j)
  /\ reload[j] = "reloading"
  /\ reload' = [reload EXCEPT ![j] = "busy"]
  /\ reports' = [reports EXCEPT ![j] = Append(@, IF on[j] THEN "ack_on" ELSE "ack_off")]
  /\ missed' = missed \ {j}
  /\ UNCHANGED <<life, on, commands, acts>> /\ UNCHANGED viewVars

Wait(j) ==
  /\ Alive(j)
  /\ reload[j] = "busy"
  /\ reload' = [reload EXCEPT ![j] = "waiting"]
  /\ UNCHANGED <<life, on, missed, commands, reports, acts>> /\ UNCHANGED viewVars

MayEnd(j) == Cardinality({k \in Jvms : life[k] \in {"unloading", "gone"}} \ {j}) < MaxEnds

(* Agent_OnUnload: acknowledgements that signal_sender has not sent yet    *)
(* follow UNLOADED.                                                        *)
Unload(j) ==
  /\ life[j] = "running"
  /\ MayEnd(j)
  /\ life' = [life EXCEPT ![j] = "unloading"]
  /\ \E n \in 0 .. Len(reports[j]) :
       /\ "ready" \notin ToSet(SubSeq(reports[j], n + 1, Len(reports[j])))
       /\ reports' = [reports EXCEPT ![j] = InsertAt(@, n + 1, "unloaded")]
  /\ UNCHANGED <<on, reload, missed, commands, acts>> /\ UNCHANGED viewVars

(* The process ends, with or without the farewell, and its state with it.  *)
Exit(j) ==
  /\ Alive(j)
  /\ MayEnd(j)
  /\ life' = [life EXCEPT ![j] = "gone"]
  /\ on' = [on EXCEPT ![j] = FALSE]
  /\ reload' = [reload EXCEPT ![j] = "busy"]
  /\ missed' = missed \ {j}
  /\ UNCHANGED <<commands, reports, acts>> /\ UNCHANGED viewVars

(* A command for a JVM that is gone is dropped when its socket is erased   *)
(* already; before that the failing send ends the monitor.                 *)
SendFails(j) ==
  /\ life[j] = "gone"
  /\ commands[j] # <<>>
  /\ commands' = [commands EXCEPT ![j] = <<>>]
  /\ ended' \in {"no", "send"}
  /\ UNCHANGED <<window, view, menu, strayed, reopened, slipped, reports, acts>>
  /\ UNCHANGED jvmVars
-----------------------------------------------------------------------------
(* FRMain hears the window only if view_about opened it.                   *)
SendTo(j, command, w) ==
  commands' = IF w = "wired" THEN [commands EXCEPT ![j] = Append(@, command)] ELSE commands

(* A pointer to an item that is not there is followed.                     *)
Crash(why) == ended' = why /\ UNCHANGED <<view, commands, strayed>>

(* The map from a JVM to its row, after an assignment to j.                *)
Put(items, j, r) == [k \in DOMAIN items \cup {j} |-> IF k = j THEN r ELSE items[k]]

(* A new row becomes the current one and is shown as connected at once if  *)
(* the box is checked.                                                     *)
NewRow(v, j) ==
  LET r == Len(v.rows) + 1 IN
  [v EXCEPT !.rows = Append(@, j),
            !.items = Put(@, j, r),
            !.status = Append(@, IF v.auto THEN "CONNECTED" ELSE "NOT_CONNECTED"),
            !.current = IF v.auto THEN r ELSE @]

(* Mutant: the row is shown as connected, and no command is sent.          *)
RemoteReadyShownOnly(v, w, j) ==
  /\ view' = IF j \in DOMAIN v.items THEN v ELSE NewRow(v, j)
  /\ UNCHANGED <<commands, ended, strayed>>

(* A JVM is ready.                                                         *)
RemoteReady(v, w, j) ==
  /\ view' = IF j \in DOMAIN v.items THEN v ELSE NewRow(v, j)
  /\ IF j \notin DOMAIN v.items /\ v.auto
     THEN SendTo(j, "turn_on_profiler", w)
     ELSE UNCHANGED commands
  /\ UNCHANGED <<ended, strayed>>

(* A JVM has unloaded the agent.  The map gives the first row to a JVM it  *)
(* does not know.                                                          *)
RemoteDisconnected(v, j) ==
  LET r == IF j \in DOMAIN v.items THEN v.items[j] ELSE 1 IN
  IF HasRow(v, r)
  THEN /\ view' = [v EXCEPT !.items = Put(@, j, r), !.status[r] = "DROPPED"]
       /\ strayed' = IF v.rows[r] = j THEN strayed ELSE strayed \cup {v.rows[r]}
       /\ UNCHANGED <<commands, ended>>
  ELSE Crash("report")

(* An acknowledgement sets the status of the current row.                  *)
RemoteAck(v, j, s) ==
  LET r == v.current IN
  IF HasRow(v, r)
  THEN /\ view' = [v EXCEPT !.status[r] = s]
       /\ strayed' = IF v.rows[r] = j THEN strayed \ {j} ELSE strayed \cup {j, v.rows[r]}
       /\ UNCHANGED <<commands, ended>>
  ELSE Crash("report")

(* The GUI thread handles the next report of j; it opens the window if it  *)
(* is closed.                                                              *)
HandleReport(j) ==
  /\ reports[j] # <<>>
  /\ reports' = [reports EXCEPT ![j] = Tail(@)]
  /\ LET w == IF window = "closed" THEN "unwired" ELSE window
         v == IF window = "closed" THEN EmptyView ELSE view
         report == Head(reports[j])
     IN /\ window' = w
        /\ \/ report = "ready" /\ RemoteReady(v, w, j)
           \/ report = "unloaded" /\ RemoteDisconnected(v, j)
           \/ report = "ack_on" /\ RemoteAck(v, j, "CONNECTED")
           \/ report = "ack_off" /\ RemoteAck(v, j, "NOT_CONNECTED")
  /\ UNCHANGED <<menu, reopened, slipped, acts>> /\ UNCHANGED jvmVars
-----------------------------------------------------------------------------
Acts ==
  /\ acts < MaxUser
  /\ acts' = acts + 1
  /\ UNCHANGED <<reports, missed>> /\ UNCHANGED <<life, on, reload>>

Idle == window # "closed" /\ menu = NoMenu

Select(r) ==
  /\ Acts
  /\ Idle
  /\ r # view.current
  /\ view' = [view EXCEPT !.current = r]
  /\ UNCHANGED <<commands, window, menu, ended, strayed, reopened, slipped>>

ToggleAuto ==
  /\ Acts
  /\ Idle
  /\ view' = [view EXCEPT !.auto = ~@]
  /\ UNCHANGED <<commands, window, menu, ended, strayed, reopened, slipped>>

(* Mutant: the entries of connected and dropped rows are swapped.         *)
ShowMenuSwapped ==
  /\ Acts
  /\ Idle
  /\ LET s == IF HasRow(view, view.current) THEN view.status[view.current] ELSE "NOT_CONNECTED"
         offers == CASE s = "NOT_CONNECTED" -> "Connect"
                     [] s = "CONNECTED" -> "Acknowledge"
                     [] s = "DROPPED" -> "Disconnect"
     IN menu' = [offers |-> offers, row |-> view.current]
  /\ UNCHANGED <<commands, window, view, ended, strayed, reopened, slipped>>

(* show_menu offers what the status of the current row allows; no row at   *)
(* all counts as not connected.                                            *)
ShowMenu ==
  /\ Acts
  /\ Idle
  /\ LET s == IF HasRow(view, view.current) THEN view.status[view.current] ELSE "NOT_CONNECTED"
         offers == CASE s = "NOT_CONNECTED" -> "Connect"
                     [] s = "DROPPED" -> "Acknowledge"
                     [] s = "CONNECTED" -> "Disconnect"
     IN menu' = [offers |-> offers, row |-> view.current]
  /\ UNCHANGED <<commands, window, view, ended, strayed, reopened, slipped>>

Dismiss ==
  /\ menu # NoMenu
  /\ menu' = NoMenu
  /\ UNCHANGED <<commands, reports, window, view, ended, strayed, reopened, slipped, acts>>
  /\ UNCHANGED jvmVars

(* The entry acts on the row that is current by then.                      *)
Trigger ==
  /\ menu # NoMenu
  /\ menu' = NoMenu
  /\ slipped' = (slipped \/ menu.row # view.current)
  /\ LET r == view.current IN
     \/ /\ menu.offers = "Acknowledge"
        /\ view' = [view EXCEPT !.hidden = @ \cup {r}]
        /\ UNCHANGED <<commands, ended, strayed>>
     \/ /\ menu.offers \in {"Connect", "Disconnect"}
        /\ ~HasRow(view, r)
        /\ Crash("menu")
     \/ /\ HasRow(view, r)
        /\ \/ menu.offers = "Connect" /\ SendTo(view.rows[r], "turn_on_profiler", window)
           \/ menu.offers = "Disconnect" /\ SendTo(view.rows[r], "turn_off_profiler", window)
        /\ UNCHANGED <<view, ended, strayed>>
  /\ UNCHANGED <<reports, window, reopened, acts>> /\ UNCHANGED jvmVars

(* Closing the window forgets its rows.                                    *)
CloseWindow ==
  /\ Acts
  /\ Idle
  /\ window' = "closed"
  /\ view' = EmptyView
  /\ reopened' = TRUE
  /\ UNCHANGED <<commands, menu, ended, strayed, slipped>>

(* <Targets> in the menu: FRMain::view_about.                              *)
OpenWindow ==
  /\ Acts
  /\ window = "closed"
  /\ window' = "wired"
  /\ UNCHANGED <<commands, view, menu, ended, strayed, reopened, slipped>>

User ==
  \/ \E r \in DOMAIN view.rows : Select(r)
  \/ ToggleAuto \/ ShowMenu \/ Dismiss \/ Trigger \/ CloseWindow \/ OpenWindow

Jvm(j) ==
  Load(j) \/ ReadCommand(j) \/ Acknowledge(j) \/ Wait(j) \/ Unload(j) \/ Exit(j)

(* What happens after the monitor has ended is of no interest.             *)
Next ==
  /\ ended = "no"
  /\ \/ \E j \in Jvms : Jvm(j) \/ SendFails(j) \/ HandleReport(j)
     \/ User

(* The threads of the JVMs, the connections and the GUI thread run; users  *)
(* and applications do as they please.                                     *)
Running(action) == ended = "no" /\ action

Fairness ==
  \A j \in Jvms :
    /\ WF_vars(Running(ReadCommand(j)))
    /\ WF_vars(Running(Acknowledge(j) \/ Wait(j)))
    /\ WF_vars(Running(SendFails(j)))
    /\ WF_vars(Running(HandleReport(j)))

Spec == Init /\ [][Next]_vars /\ Fairness
-----------------------------------------------------------------------------
Commands == {"turn_on_profiler", "turn_off_profiler"}
Reports == {"ready", "ack_on", "ack_off", "unloaded"}

(* The JVMs, and what is on its way to and from them.                      *)
Types ==
  /\ life \in [Jvms -> {"new", "running", "unloading", "gone"}]
  /\ on \in [Jvms -> BOOLEAN]
  /\ reload \in [Jvms -> {"busy", "waiting", "reloading"}]
  /\ commands \in [Jvms -> Seq(Commands)]
  /\ reports \in [Jvms -> Seq(Reports)]
  /\ window \in {"closed", "wired", "unwired"}

(* A view: as many rows as statuses, and every item is one of a row.       *)
ViewTypeOK(v) ==
  /\ v \in [rows : Seq(Jvms), items : [DOMAIN v.items -> Nat], status : Seq(Statuses),
             hidden : SUBSET Nat, current : Nat, auto : BOOLEAN]
  /\ Len(v.status) = Len(v.rows)
  /\ v.current <= Len(v.rows)
  /\ \A j \in DOMAIN v.items : j \in Jvms /\ HasRow(v, v.items[j])

TypeOK ==
  /\ Types
  /\ ViewTypeOK(view)
  /\ menu \in [offers : {"nothing", "Connect", "Acknowledge", "Disconnect"}, row : Nat]
  /\ ended \in {"no", "report", "menu", "send"}
  /\ missed \subseteq Jvms /\ strayed \subseteq Jvms

(* Nothing is on its way to or from j.                                     *)
Settled(j) ==
  /\ life[j] = "running"
  /\ commands[j] = <<>> /\ reports[j] = <<>> /\ reload[j] # "reloading"

(* Once nothing is on its way, the row of a running JVM says whether it is *)
(* profiled, unless an acknowledgement went to another row, a command woke *)
(* nobody, or the window cannot speak to FRMain or has lost its rows.      *)
ShownTruthfully ==
  \A j \in DOMAIN view.items :
    (Settled(j) /\ j \notin missed \cup strayed /\ window = "wired" /\ ~reopened /\ ended = "no")
       => view.status[view.items[j]] = IF on[j] THEN "CONNECTED" ELSE "NOT_CONNECTED"

(* Every report finds the item it is about, selected or looked up, unless  *)
(* the window has lost rows: commands are only sent from the current row.  *)
(* Only rows of JVMs that have unloaded are hidden, unless an entry acted  *)
(* on another row than its menu was opened for, or rows have been lost.    *)
RowsFound ==
  /\ ended = "report" => reopened
  /\ \A r \in view.hidden :
       slipped \/ reopened \/ life[view.rows[r]] \in {"unloading", "gone"}

ShownConnected(j) ==
  /\ window = "wired"
  /\ j \in DOMAIN view.items
  /\ view.status[view.items[j]] = "CONNECTED"

(* A row shown as connected before its JVM has answered comes true.        *)
ConnectedComesTrue ==
  \A j \in Jvms :
    ShownConnected(j)
      ~> \/ on[j] \/ ~ShownConnected(j)
         \/ j \in strayed \cup missed \/ reopened
         \/ life[j] = "gone" \/ ended # "no"
=============================================================================
