----------------------------- MODULE ClassWatch -----------------------------
(***************************************************************************)
(* The two threads of an agent that watch the application while they are   *)
(* told to (agent/src/Agent.cpp): class_loading_monitor reports the classes *)
(* that ClassFileLoadHook has listed in _loadedClasses, traffic_monitor     *)
(* samples the call stacks.  Both are the same loop around a condition     *)
(* variable; they run beside the bridge, the hooks and reload_monitor of   *)
(* ProfilerSwitch.                                                         *)
(***************************************************************************)
EXTENDS ProfilerSwitch, FiniteSets

VARIABLES
  loadedClasses, (* _loadedClasses                                         *)
  watchAt,     (* each loop: "start", "work", "copy", "clear", "check",     *)
               (* "recheck"                                                *)
  asleep,      (* its wait: "no", "blocking" (flag seen off), "blocked"    *)
  tracked,     (* how many times each class was listed                     *)
  reported,    (* how many times each class was reported                   *)
  copying,     (* how many classes _loadedClasses had when its copy began  *)
  late         (* how many times each class was listed while the list was  *)
               (* being copied, or copied and not yet cleared              *)

watchVars == <<loadedClasses, watchAt, asleep, tracked, reported, copying, late>>

Watchers == {"loading", "traffic"}

(* How often class c is among the first n of a list.                       *)
Listed(c, s, n) == Cardinality({i \in 1 .. n : s[i] = c})

(* The steps of a loop that test its flag, and where they lead.            *)
Tests == {"start", "check", "recheck"}
After(step) == IF step = "check" THEN "recheck" ELSE "work"
-----------------------------------------------------------------------------
WatchInit ==
  /\ SwitchInit
  /\ loadedClasses = <<>>
  /\ watchAt = [w \in Watchers |-> "start"]
  /\ asleep = [w \in Watchers |-> "no"]
  /\ tracked = [c \in Classes |-> 0]
  /\ reported = [c \in Classes |-> 0]
  /\ copying = 0
  /\ late = [c \in Classes |-> 0]

(* The loop reads its flag: it goes on (after its delay, when it is between *)
(* two reports) or enters wait(), which read the flag too.                 *)
Test(w) ==
  /\ asleep[w] = "no"
  /\ watchAt[w] \in Tests
  /\ IF flag[w]
     THEN watchAt' = [watchAt EXCEPT ![w] = After(@)] /\ UNCHANGED asleep
     ELSE asleep' = [asleep EXCEPT ![w] = "blocking"] /\ UNCHANGED watchAt
  /\ UNCHANGED <<loadedClasses, tracked, reported, copying, late>>
  /\ UNCHANGED allSwitchVars

(* wait() blocks: a notification made since it read the flag is lost.      *)
Sleep(w) ==
  /\ asleep[w] = "blocking"
  /\ asleep' = [asleep EXCEPT ![w] = "blocked"]
  /\ Block(w)
  /\ UNCHANGED <<loadedClasses, watchAt, tracked, reported, copying, late>>
  /\ UNCHANGED switchVars

(* Notified, wait() reads the flag again.                                  *)
Awake(w) ==
  /\ asleep[w] = "blocked"
  /\ w \notin waiting
  /\ asleep' = [asleep EXCEPT ![w] = "no"]
  /\ UNCHANGED <<loadedClasses, watchAt, tracked, reported, copying, late>>
  /\ UNCHANGED allSwitchVars

(* class_loading_monitor begins to copy _loadedClasses, if it has any; it  *)
(* does not take the mutex of track_class.                                 *)
CopyClasses ==
  /\ watchAt["loading"] = "work"
  /\ watchAt' = [watchAt EXCEPT !["loading"] = IF loadedClasses # <<>> THEN "copy" ELSE "check"]
  /\ copying' = Len(loadedClasses)
  /\ UNCHANGED <<loadedClasses, asleep, tracked, reported, late>>
  /\ UNCHANGED allSwitchVars

(* The copy is made and queued.  A class listed since it began may be in it *)
(* or not.                                                                 *)
ReportClasses ==
  /\ watchAt["loading"] = "copy"
  /\ watchAt' = [watchAt EXCEPT !["loading"] = "clear"]
  /\ \E n \in copying .. Len(loadedClasses) :
       reported' = [c \in Classes |-> reported[c] + Listed(c, loadedClasses, n)]
  /\ copying' = 0
  /\ UNCHANGED <<loadedClasses, asleep, tracked, late>>
  /\ UNCHANGED allSwitchVars

(* Mutant: the classes reported stay listed.                               *)
ClearNothing ==
  /\ watchAt["loading"] = "clear"
  /\ watchAt' = [watchAt EXCEPT !["loading"] = "check"]
  /\ UNCHANGED <<loadedClasses, asleep, tracked, reported, copying, late>>
  /\ UNCHANGED allSwitchVars

(* ... and then it clears the list, without the mutex too.                 *)
ClearClasses ==
  /\ watchAt["loading"] = "clear"
  /\ watchAt' = [watchAt EXCEPT !["loading"] = "check"]
  /\ loadedClasses' = <<>>
  /\ UNCHANGED <<asleep, tracked, reported, copying, late>>
  /\ UNCHANGED allSwitchVars

(* traffic_monitor suspends the threads and queues their stacks.           *)
Sample ==
  /\ watchAt["traffic"] = "work"
  /\ watchAt' = [watchAt EXCEPT !["traffic"] = "check"]
  /\ UNCHANGED <<loadedClasses, asleep, tracked, reported, copying, late>>
  /\ UNCHANGED allSwitchVars

(* track_class, on the thread that is in the hook.                         *)
TrackClass(t) ==
  /\ Track(t)
  /\ loadedClasses' = Append(loadedClasses, name[t])
  /\ tracked' = [tracked EXCEPT ![name[t]] = @ + 1]
  /\ late' = IF watchAt["loading"] \in {"copy", "clear"}
             THEN [late EXCEPT ![name[t]] = @ + 1] ELSE late
  /\ UNCHANGED <<watchAt, asleep, reported, copying>>

(* A command.                                                              *)
Command ==
  /\ Bridge
  /\ UNCHANGED switchVars
  /\ UNCHANGED <<loadedClasses, watchAt, asleep, tracked, reported, copying, late>>

Watch(w) == Test(w) \/ Sleep(w) \/ Awake(w)

(* The rest of ProfilerSwitch, as it is.                                   *)
OtherHook(t) == TestTrack(t) \/ TestHook(t) \/ AddHooks(t) \/ TestRestore(t) \/ LeaveHook(t)

WatchNext ==
  \/ Command
  \/ \E t \in Loaders, c \in Classes : Load(t, c) /\ UNCHANGED watchVars
  \/ \E t \in Threads : OtherHook(t) /\ UNCHANGED watchVars
  \/ \E t \in Threads : TrackClass(t)
  \/ Reload /\ UNCHANGED watchVars
  \/ \E w \in Watchers : Watch(w)
  \/ CopyClasses
  \/ ReportClasses
  \/ ClearClasses
  \/ Sample

allVars == <<bridgeVars, switchVars, watchVars>>

(* Every thread of the process runs, and every delay ends.                 *)
WatchFairness ==
  /\ WF_allVars(todo # <<>> /\ Command)
  /\ \A t \in Threads :
       WF_allVars(TrackClass(t) \/ (OtherHook(t) /\ UNCHANGED watchVars))
  /\ WF_allVars(Reload /\ UNCHANGED watchVars)
  /\ WF_allVars(Watch("loading") \/ CopyClasses \/ ReportClasses \/ ClearClasses)
  /\ WF_allVars(Watch("traffic") \/ Sample)

WatchSpec == WatchInit /\ [][WatchNext]_allVars /\ WatchFairness
-----------------------------------------------------------------------------
WatchTypeOK ==
  /\ SwitchTypeOK
  /\ loadedClasses \in Seq(Classes)
  /\ watchAt \in [Watchers -> Tests \cup {"work", "copy", "clear"}]
  /\ asleep \in [Watchers -> {"no", "blocking", "blocked"}]
  /\ tracked \in [Classes -> Nat]
  /\ reported \in [Classes -> Nat]
  /\ copying \in 0 .. Len(loadedClasses)
  /\ late \in [Classes -> Nat]

(* A listed class is reported once or still listed, and never reported     *)
(* twice; however often the two threads meet in _loadedClasses, no more    *)
(* listings of a class are lost than were made while the list was copied   *)
(* and cleared.                                                            *)
EveryListingCounts ==
  \A c \in Classes :
    LET left == IF watchAt["loading"] = "clear" THEN 0
                ELSE Listed(c, loadedClasses, Len(loadedClasses))
    IN /\ reported[c] + left <= tracked[c]
       /\ tracked[c] <= reported[c] + left + late[c]
=============================================================================
