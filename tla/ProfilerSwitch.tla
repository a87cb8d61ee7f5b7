--------------------------- MODULE ProfilerSwitch ---------------------------
(***************************************************************************)
(* How profiling is turned on and off in a running JVM (agent/src/Agent.cpp *)
(* reload_monitor and ClassFileLoadHook).  The JVM calls ClassFileLoadHook *)
(* on whatever thread loads a class, and again on the thread               *)
(* reload_monitor for every class it retransforms; the hook instruments a  *)
(* class that has signals, or restores it, according to _runProfile, which *)
(* it reads three times.  All these threads share one class buffer, _fr.   *)
(***************************************************************************)
EXTENDS CommandBridge

CONSTANTS
  Classes,     (* the classes the application loads                        *)
  Signals,     (* those that have a signal                                 *)
  Trackable,   (* those not of packages java/ and sun/                     *)
  Loaders,     (* the application threads that load classes                *)
  Reloader,    (* the thread reload_monitor                                *)
  NoClass      (* no class                                                 *)

ASSUME SwitchAssumption ==
  /\ Signals \subseteq Classes
  /\ Trackable \subseteq Classes
  /\ Reloader \notin Loaders
  /\ NoClass \notin Classes

VARIABLES
  reloaderAt,  (* reload_monitor: "begin", "blocked", "snapshot", "retransform" *)
  targets,     (* the classes it has still to retransform                  *)
  lastAck,     (* the last ACK_PROFILER_... it queued: "none", "on", "off" *)
  at,          (* where each thread is in ClassFileLoadHook                *)
  name,        (* the class the hook was called for                        *)
  loaded,      (* the hook's local of that name: it has loaded _fr         *)
  fr,          (* the class whose bytes _fr holds                          *)
  result,      (* the bytes the hook returns                               *)
  allLoaded,   (* _all_loadedClasses                                       *)
  saved,       (* the classes whose original bytes are in _origClass       *)
  code,        (* the bytes the JVM runs for each class                    *)
  overlap,     (* two hooks overlapped, or a hook and a snapshot           *)
  undefined    (* remove_hooks has read an entry of _origClass that was    *)
               (* never written: nothing is claimed of what follows        *)

switchVars == <<reloaderAt, targets, lastAck, at, name, loaded, fr, result,
                allLoaded, saved, code, overlap, undefined>>

Threads == Loaders \cup {Reloader}
Plain(c) == [of |-> c, hooked |-> FALSE]
Hooked(c) == [of |-> c, hooked |-> TRUE]
NotLoaded == Plain(NoClass)
Profiling == flag["profiler"]
InHook == {t \in Threads : at[t] # "out"}
-----------------------------------------------------------------------------
SwitchInit ==
  /\ BridgeInit
  /\ reloaderAt = "begin" /\ targets = {} /\ lastAck = "none"
  /\ at = [t \in Threads |-> "out"]
  /\ name = [t \in Threads |-> NoClass]
  /\ loaded = [t \in Threads |-> FALSE]
  /\ fr = NoClass
  /\ result = [t \in Threads |-> NotLoaded]
  /\ allLoaded = {} /\ saved = {}
  /\ code = [c \in Classes |-> NotLoaded]
  /\ overlap = FALSE /\ undefined = FALSE

(* The JVM calls ClassFileLoadHook for class c on thread t.                *)
EnterHook(t, c) ==
  /\ at[t] = "out"
  /\ at' = [at EXCEPT ![t] = "track?"]
  /\ name' = [name EXCEPT ![t] = c]
  /\ loaded' = [loaded EXCEPT ![t] = FALSE]
  /\ result' = [result EXCEPT ![t] = Plain(c)]
  /\ overlap' = (overlap \/ InHook # {})
  /\ UNCHANGED <<lastAck, fr, allLoaded, saved, code, undefined>>

(* An application thread loads a class, once.                              *)
Load(t, c) ==
  /\ t \in Loaders
  /\ code[c] = NotLoaded
  /\ \A u \in Threads : at[u] # "out" => name[u] # c
  /\ EnterHook(t, c)
  /\ UNCHANGED <<reloaderAt, targets>>
  /\ UNCHANGED bridgeVars

(* The hook goes on to step next, and leaves the rest of the state alone.  *)
GoTo(t, next) ==
  /\ at' = [at EXCEPT ![t] = next]
  /\ UNCHANGED <<reloaderAt, targets, lastAck, name, allLoaded, code, overlap>>
  /\ UNCHANGED bridgeVars

(* First reading of _runProfile: is the class to be tracked?               *)
TestTrack(t) ==
  LET track == Profiling /\ name[t] \in Trackable IN
  /\ at[t] = "track?"
  /\ GoTo(t, IF track THEN "track" ELSE "hook?")
  /\ fr' = IF track THEN name[t] ELSE fr
  /\ loaded' = [loaded EXCEPT ![t] = track]
  /\ UNCHANGED <<result, saved, undefined>>

(* track_class lists the class with the methods it finds in _fr.           *)
Track(t) ==
  /\ at[t] = "track"
  /\ GoTo(t, "hook?")
  /\ UNCHANGED <<fr, loaded, result, saved, undefined>>

(* Mutant: _fr is taken to hold the class already.                         *)
TestHookStale(t) ==
  LET hook == Profiling /\ name[t] \in Signals IN
  /\ at[t] = "hook?"
  /\ GoTo(t, IF hook THEN "hook" ELSE "restore?")
  /\ loaded' = [loaded EXCEPT ![t] = @ \/ hook]
  /\ UNCHANGED <<fr, result, saved, undefined>>

(* Second reading: are hooks to be added?                                  *)
TestHook(t) ==
  LET hook == Profiling /\ name[t] \in Signals IN
  /\ at[t] = "hook?"
  /\ GoTo(t, IF hook THEN "hook" ELSE "restore?")
  /\ fr' = IF hook /\ ~loaded[t] THEN name[t] ELSE fr
  /\ loaded' = [loaded EXCEPT ![t] = @ \/ hook]
  /\ UNCHANGED <<result, saved, undefined>>

(* Mutant: the original bytes are not saved.                               *)
AddHooksUnsaved(t) ==
  /\ at[t] = "hook"
  /\ GoTo(t, "restore?")
  /\ result' = [result EXCEPT ![t] = Hooked(fr)]
  /\ UNCHANGED <<fr, loaded, saved, undefined>>

(* add_hooks instruments what _fr holds; the original bytes are saved and  *)
(* the instrumentation is reported.                                        *)
AddHooks(t) ==
  /\ at[t] = "hook"
  /\ GoTo(t, "restore?")
  /\ result' = [result EXCEPT ![t] = Hooked(fr)]
  /\ saved' = saved \cup {name[t]}
  /\ UNCHANGED <<fr, loaded, undefined>>

(* Third reading: are hooks to be removed?  remove_hooks returns the bytes *)
(* saved for the class, whether or not there are any.                      *)
TestRestore(t) ==
  LET restore == ~Profiling /\ name[t] \in Signals /\ name[t] \in allLoaded IN
  /\ at[t] = "restore?"
  /\ GoTo(t, "insert")
  /\ fr' = IF restore THEN name[t] ELSE fr
  /\ result' = IF restore THEN [result EXCEPT ![t] = Plain(name[t])] ELSE result
  /\ undefined' = (undefined \/ (restore /\ name[t] \notin saved))
  /\ UNCHANGED <<loaded, saved>>

(* The hook records the class under _all_loaded_mutex and returns; the JVM *)
(* uses the bytes it returned.                                             *)
LeaveHook(t) ==
  /\ at[t] = "insert"
  /\ allLoaded' = allLoaded \cup {name[t]}
  /\ code' = [code EXCEPT ![name[t]] = result[t]]
  /\ at' = [at EXCEPT ![t] = "out"]
  /\ name' = [name EXCEPT ![t] = NoClass]
  /\ loaded' = [loaded EXCEPT ![t] = FALSE]
  /\ result' = [result EXCEPT ![t] = NotLoaded]
  /\ UNCHANGED <<reloaderAt, targets, lastAck, fr, saved, overlap, undefined>>
  /\ UNCHANGED bridgeVars

Hook(t) == TestTrack(t) \/ Track(t) \/ TestHook(t) \/ AddHooks(t) \/ TestRestore(t) \/ LeaveHook(t)

hookVars == <<at, name, loaded, fr, result, allLoaded, saved, code, undefined>>

(* reload_monitor waits on _profilerCond, without a predicate.             *)
Wait ==
  /\ reloaderAt = "begin"
  /\ reloaderAt' = "blocked"
  /\ Block("profiler")
  /\ UNCHANGED <<targets, lastAck, overlap, hookVars>>

(* It was notified: it collects the loaded classes that have signals.      *)
Snapshot ==
  /\ reloaderAt = "blocked"
  /\ "profiler" \notin waiting
  /\ reloaderAt' = "retransform"
  /\ targets' = Signals \cap allLoaded
  /\ overlap' = (overlap \/ InHook # {})
  /\ UNCHANGED <<lastAck, hookVars>>
  /\ UNCHANGED bridgeVars

(* RetransformClasses calls the hook for each of them.                     *)
Retransform(c) ==
  /\ reloaderAt = "retransform"
  /\ c \in targets
  /\ EnterHook(Reloader, c)
  /\ targets' = targets \ {c}
  /\ UNCHANGED reloaderAt
  /\ UNCHANGED bridgeVars

(* The round is over: it acknowledges what _runProfile is now.             *)
Acknowledge ==
  /\ reloaderAt = "retransform"
  /\ targets = {}
  /\ at[Reloader] = "out"
  /\ lastAck' = IF Profiling THEN "on" ELSE "off"
  /\ reloaderAt' = "begin"
  /\ UNCHANGED <<targets, overlap, hookVars>>
  /\ UNCHANGED bridgeVars

Reload == Wait \/ Snapshot \/ (\E c \in Classes : Retransform(c)) \/ Acknowledge

SwitchNext ==
  \/ Bridge /\ UNCHANGED switchVars
  \/ \E t \in Loaders, c \in Classes : Load(t, c)
  \/ \E t \in Threads : Hook(t)
  \/ Reload

allSwitchVars == <<bridgeVars, switchVars>>

(* Every thread of the process runs.                                       *)
SwitchFairness ==
  /\ WF_allSwitchVars((StoreFlag \/ NotifyOne) /\ UNCHANGED switchVars)
  /\ \A t \in Threads : WF_allSwitchVars(Hook(t))
  /\ WF_allSwitchVars(Reload)

SwitchSpec == SwitchInit /\ [][SwitchNext]_allSwitchVars /\ SwitchFairness
-----------------------------------------------------------------------------
SwitchTypeOK ==
  /\ BridgeTypeOK
  /\ reloaderAt \in {"begin", "blocked", "retransform"}
  /\ targets \subseteq Signals
  /\ lastAck \in {"none", "on", "off"}
  /\ at \in [Threads -> {"out", "track?", "track", "hook?", "hook", "restore?", "insert"}]
  /\ name \in [Threads -> Classes \cup {NoClass}]
  /\ loaded \in [Threads -> BOOLEAN]
  /\ fr \in Classes \cup {NoClass}
  /\ result \in [Threads -> [of : Classes \cup {NoClass}, hooked : BOOLEAN]]
  /\ allLoaded \subseteq Classes
  /\ saved \subseteq Signals
  /\ code \in [Classes -> [of : Classes \cup {NoClass}, hooked : BOOLEAN]]
  /\ overlap \in BOOLEAN
  /\ undefined \in BOOLEAN

(* No command is under way, none is lost, and no thread is in the hook.    *)
Settled ==
  /\ todo = <<>>
  /\ reloaderAt = "blocked" /\ "profiler" \in waiting
  /\ "profiler" \notin missed
  /\ InHook = {}

(* Once a command has had its effect, every loaded class that has a signal *)
(* is instrumented if the profiler is on, with its original bytes saved,   *)
(* and as it was compiled if it is off, whatever commands came before and  *)
(* whenever the class was loaded; the last acknowledgement agrees.  Only a *)
(* lost notification or overlapping hooks may leave it otherwise.          *)
InstrumentedWhenSettled ==
  Settled /\ ~overlap /\ ~undefined =>
    /\ lastAck # "none" => (lastAck = "on") = Profiling
    /\ \A c \in Signals : code[c] # NotLoaded =>
         /\ code[c] = IF Profiling THEN Hooked(c) ELSE Plain(c)
         /\ Profiling => c \in saved

(* A class is never given the bytes of another one unless two threads were *)
(* in the hook at a time.                                                  *)
OwnCode ==
  ~overlap => \A c \in Classes : code[c].of \in {c, NoClass}

(* What was asked is done: a class that has a signal is in the end         *)
(* instrumented while the profiler is on, and as it was compiled while it  *)
(* is off, if the profiler is not switched again, the notification was not *)
(* lost on a busy reload_monitor and no hooks overlapped.                  *)
DoneAsAsked ==
  \A on \in BOOLEAN, c \in Signals :
    Profiling = on /\ code[c] # NotLoaded
      ~> \/ code[c] = IF on THEN Hooked(c) ELSE Plain(c)
         \/ Profiling # on
         \/ "profiler" \in missed
         \/ overlap \/ undefined
=============================================================================
