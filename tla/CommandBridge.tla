---------------------------- MODULE CommandBridge ---------------------------
(***************************************************************************)
(* The command side of an agent (class CommandBridge, agent/src/Agent.cpp). *)
(* The thread that reads the monitor's commands sets three flags that other *)
(* threads of the agent test, and notifies the condition variable on which *)
(* each of these threads waits.  Neither the stores nor the notifications  *)
(* are made under the mutex the waiting threads hold, so a notification    *)
(* that finds nobody waiting is lost.                                      *)
(*                                                                         *)
(* The flags and the condition variables have the same names here:         *)
(* "profiler" (_runProfile, _profilerCond), "loading" (_load_watch_interval *)
(* > 0, _load_watch_cond) and "traffic" (_millis > 0, _traffic_cond).      *)
(***************************************************************************)
EXTENDS Naturals, Sequences

CONSTANTS
  Commands,    (* the commands the monitor may send                        *)
  MaxCommands  (* bound of the model: commands received                    *)

ASSUME BridgeAssumption ==
  /\ Commands \subseteq {"turn_on_profiler", "turn_off_profiler", "watch_loading",
                         "stop_watch_loading", "watch_traffic", "stop_watch_traffic"}
  /\ MaxCommands \in Nat

VARIABLES
  flag,        (* what the threads of the agent test                       *)
  todo,        (* the stores and notifications left of the current command *)
  waiting,     (* the condition variables whose thread is blocked on it    *)
  missed,      (* those whose last notification found nobody waiting       *)
  received     (* how many commands have been received                     *)

bridgeVars == <<flag, todo, waiting, missed, received>>

Conditions == {"profiler", "loading", "traffic"}

Store(c, v) == [op |-> "store", cond |-> c, value |-> v]
Notify(c) == [op |-> "notify", cond |-> c, value |-> TRUE]

(* Mutant: the thread is notified before the flag is stored.               *)
SetLate(c, v) == <<Notify(c), Store(c, v)>>

Set(c, v) == <<Store(c, v), Notify(c)>>

(* Mutant: turning the profiler off leaves the watches on.                 *)
ProgramKeepsWatches(cmd) ==
  CASE cmd = "turn_on_profiler" -> Set("profiler", TRUE)
    [] cmd = "turn_off_profiler" -> Set("profiler", FALSE)
    [] cmd = "watch_loading" -> IF flag["profiler"] THEN Set("loading", TRUE) ELSE <<>>
    [] cmd = "stop_watch_loading" -> Set("loading", FALSE)
    [] cmd = "watch_traffic" -> IF flag["profiler"] THEN Set("traffic", TRUE) ELSE <<>>
    [] cmd = "stop_watch_traffic" -> Set("traffic", FALSE)

(* What CommandBridge::message does of a command: the watches are ignored  *)
(* while the profiler is off, and turning it off stops both.               *)
Program(cmd) ==
  CASE cmd = "turn_on_profiler" -> Set("profiler", TRUE)
    [] cmd = "turn_off_profiler" ->
         Set("profiler", FALSE) \o Set("loading", FALSE) \o Set("traffic", FALSE)
    [] cmd = "watch_loading" -> IF flag["profiler"] THEN Set("loading", TRUE) ELSE <<>>
    [] cmd = "stop_watch_loading" -> Set("loading", FALSE)
    [] cmd = "watch_traffic" -> IF flag["profiler"] THEN Set("traffic", TRUE) ELSE <<>>
    [] cmd = "stop_watch_traffic" -> Set("traffic", FALSE)
-----------------------------------------------------------------------------
BridgeInit ==
  /\ flag = [c \in Conditions |-> FALSE]
  /\ todo = <<>>
  /\ waiting = {}
  /\ missed = {}
  /\ received = 0

(* CommandBridge::message is called with the next command.                 *)
Receive(cmd) ==
  /\ todo = <<>>
  /\ received < MaxCommands
  /\ received' = received + 1
  /\ todo' = Program(cmd)
  /\ UNCHANGED <<flag, waiting, missed>>

(* The next store of the command.                                          *)
StoreFlag ==
  /\ todo # <<>>
  /\ Head(todo).op = "store"
  /\ flag' = [flag EXCEPT ![Head(todo).cond] = Head(todo).value]
  /\ todo' = Tail(todo)
  /\ UNCHANGED <<waiting, missed, received>>

(* The next notify_one of the command: one thread waits on each variable.  *)
NotifyOne ==
  /\ todo # <<>>
  /\ Head(todo).op = "notify"
  /\ LET c == Head(todo).cond IN
       /\ waiting' = waiting \ {c}
       /\ missed' = IF c \in waiting THEN missed \ {c} ELSE missed \cup {c}
  /\ todo' = Tail(todo)
  /\ UNCHANGED <<flag, received>>

Bridge == (\E cmd \in Commands : Receive(cmd)) \/ StoreFlag \/ NotifyOne

(* A thread blocks on condition variable c.                                *)
Block(c) ==
  /\ waiting' = waiting \cup {c}
  /\ UNCHANGED <<flag, todo, missed, received>>
-----------------------------------------------------------------------------
BridgeTypeOK ==
  /\ flag \in [Conditions -> BOOLEAN]
  /\ waiting \subseteq Conditions
  /\ missed \subseteq Conditions
  /\ received \in 0 .. MaxCommands

(* Between two commands nothing is watched while the profiler is off: no   *)
(* order of commands leaves a watch behind.                                *)
WatchedOnlyWhileProfiling ==
  todo = <<>> => (flag["loading"] \/ flag["traffic"] => flag["profiler"])
=============================================================================
