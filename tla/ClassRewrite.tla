---------------------------- MODULE ClassRewrite -----------------------------
(***************************************************************************)
(* How the agent instruments classes: the hook list is loaded line by line *)
(* (Config.cpp, Signals), then the JVM hands over one class after another  *)
(* and gets back other bytes (ClassFileLoadHook in Agent.cpp, AgentHooks.h,*)
(* FrenchRoast).  The profiler is on; when it is turned off, a class gets  *)
(* its original bytes back, and it may be hooked again later.              *)
(*                                                                         *)
(* ProfilerSwitch has the threads that run this at the same time; here     *)
(* there is one, and what it does to the code of each method is explicit.  *)
(***************************************************************************)
EXTENDS ClassFile, Signals

CONSTANTS Worlds,     \* records of lines, a hook list, files, class files, and
                      \* maxReads, a bound: how often a class is handed over
          Untracked,  \* names of classes with "java/" or "sun/" in them
          Junk        \* values an uninitialised _size may have

VARIABLES world,      \* the member of Worlds this JVM runs in
          junk,       \* the value of every _size that is not set
          lines,      \* lines of the hook list not yet loaded
          sigs,       \* _hooks
          fr,         \* _fr, the class read last
          class,      \* the class that is being hooked, or None
          done,       \* how many of its signals are applied
          handed,     \* the bytes the JVM got for a class, if not its own
          artifacts,  \* _artifacts
          reports,    \* the instrumentation reports queued
          reads,      \* classes handed over so far
          fate        \* "running" or how the process ended

vars == <<world, junk, lines, sigs, fr, class, done, handed, artifacts,
          reports, reads, fate>>

None    == "none"
Package == "java/lang/Package"
Object  == "(Ljava/lang/Object;)V"
Timed   == "(JLjava/lang/String;Ljava/lang/String;)V"

HOOK_SIGNAL_DESCRIPTOR == [class |-> Package, name |-> "thook", type |-> Object]
HOOK_TIMER_DESCRIPTOR  == [class |-> Package, name |-> "timerhook", type |-> Timed]
HOOK_MONITOR_HEAP_DESCRIPTOR ==
    [class |-> Package, name |-> "heaphook", type |-> Object]

\* The methods that are called by what is inserted, and the texts of the pool
\* that are needed for it.
AgentMethods == {HOOK_SIGNAL_DESCRIPTOR, HOOK_TIMER_DESCRIPTOR,
                 HOOK_MONITOR_HEAP_DESCRIPTOR, TimeMethod, ThreadMethod,
                 NameMethod}
AgentTexts == (UNION {{m.class, m.name, m.type} : m \in AgentMethods})
              \union ToSet(TimerNames) \union {"enter", "exit"}

\* What the lines of the hooks files are, once they are parsed: a flag is one of
\* three, and a name has letters, digits, underscores and stars only.
ASSUME StarredAssumption == "*" \in Starred

ASSUME LinesAssumption ==
    \A w \in Worlds :
        /\ InRow(w.lines)
        /\ \A line \in ToSet(w.lines) :
              /\ InRow(line.flags)
              /\ ToSet(line.flags) \subseteq {"ENTER", "EXIT", "TIMER"}
              /\ line.method.name \notin {"", "<init>"}

\* What the class files are: their methods have different names or types, no
\* number is printed like one of the agent's texts, and java/lang/Package has
\* none of the hooks.
ASSUME WorldsAssumption ==
    \A w \in Worlds : \A c \in DOMAIN w.files :
        /\ IsClassFile(w.files[c])
        /\ \A e \in ToSet(w.files[c].pool) :
              e.tag \in TwoSlots \union {"Integer"} => e.text \notin AgentTexts
        /\ c = Package => \A f \in ToSet(w.files[c].methods) :
               f.key.name \notin {"thook", "timerhook", "heaphook"}

NoClass == [pool |-> EmptyPool, interfaces |-> 0, fields |-> <<>>,
            methods |-> <<>>, attributes |-> <<>>]

Init ==
    /\ world \in Worlds
    /\ junk \in Junk
    /\ lines = world.lines
    /\ sigs = NoSignals
    /\ fr = NoClass
    /\ class = None
    /\ done = 0
    /\ handed = <<>>
    /\ artifacts = <<>>
    /\ reports = <<>>
    /\ reads = 0
    /\ fate = "running"
-----------------------------------------------------------------------------
(***************************************************************************)
(* Agent_OnLoad: the next line; one that is refused ends the JVM.          *)
(***************************************************************************)
LoadLine ==
    /\ fate = "running"
    /\ lines # <<>>
    /\ lines' = Tail(lines)
    /\ IF Refused(Head(lines))
           THEN /\ fate' = "refused"
                /\ UNCHANGED sigs
           ELSE /\ sigs' = load_signal(sigs, Head(lines))
                /\ UNCHANGED fate
    /\ UNCHANGED <<world, junk, fr, class, done, handed, artifacts, reports,
                   reads>>

Ready == fate = "running" /\ lines = <<>> /\ class = None /\ reads < world.maxReads

ok_to_track(c) == c \notin Untracked

(***************************************************************************)
(* ClassFileLoadHook for java/lang/Package: the native methods of the      *)
(* hooks are added to it.                                                  *)
(***************************************************************************)
add_thook_to_package ==
    /\ Ready
    /\ Package \in DOMAIN world.files
    /\ reads' = reads + 1
    /\ fate' = ReadFate(world.files[Package])
    /\ fr' = LET f == load_from_buffer(fr.pool, world.files[Package])
                 signal == add_native_method(f, "thook", Object)
                 timer  == add_native_method(signal, "timerhook", Timed)
             IN  add_native_method(timer, "heaphook", Object)
    /\ handed' = IF fate' # "running" THEN handed
                 ELSE Put(handed, Package, load_to_buffer(fr', junk))
    /\ UNCHANGED <<world, junk, lines, sigs, class, done, artifacts, reports>>

(***************************************************************************)
(* ClassFileLoadHook for any other class, when it is loaded and whenever   *)
(* reload_monitor retransforms it, hooked or not: its own bytes are read,  *)
(* and if it has signals, they are applied next.                           *)
(***************************************************************************)
ReadClass ==
    \E c \in DOMAIN world.files \ {Package} :
        /\ Ready
        /\ ok_to_track(c) \/ is_signal_class(sigs, c)
        /\ reads' = reads + 1
        /\ fate' = ReadFate(world.files[c])
        /\ fr' = IF fate' = "running"
                     THEN load_from_buffer(fr.pool, world.files[c]) ELSE fr
        /\ class' = IF is_signal_class(sigs, c) THEN c ELSE None
        /\ done' = 0
        /\ UNCHANGED <<world, junk, lines, sigs, handed, artifacts, reports>>

(***************************************************************************)
(* The methods a signal for all methods, or for the heap, applies to: all  *)
(* whose name or type does not have "main" in it, all constructors of them.*)
(***************************************************************************)
Skipped(key)     == {key.name, key.type} \cap MainLike # {}
Constructor(key) == key.name = "<init>"

Hookable(f)     == {key \in DOMAIN f.methods : ~Skipped(key)}
Descriptors(f)  == SetToSeq(Hookable(f))
Constructors(f) == SetToSeq({key \in Hookable(f) : Constructor(key)})

(***************************************************************************)
(* The calls of add_method_call for a signal.                              *)
(***************************************************************************)
CallIn(key, callTo, flags) == [key |-> key, callTo |-> callTo, flags |-> flags]

\* Mutant: the flags of the signal are used for constructors too.
add_hooks_to_all_methodsSame(keys, s) ==
    [k \in DOMAIN keys |-> CallIn(keys[k], HOOK_SIGNAL_DESCRIPTOR, s.flags)]

add_hooks_to_all_methods(keys, s) ==
    [k \in DOMAIN keys |->
        CallIn(keys[k], HOOK_SIGNAL_DESCRIPTOR,
               IF Constructor(keys[k]) THEN {"EXIT"} ELSE s.flags)]

add_hooks_to_all_constructors(keys, s) ==
    [k \in DOMAIN keys |->
        CallIn(keys[k], HOOK_MONITOR_HEAP_DESCRIPTOR, s.flags)]

(***************************************************************************)
(* The body of the loop of add_hooks for one signal s; a method that is    *)
(* not there leaves the class alone and marks the signal.                  *)
(***************************************************************************)
HookOf(s) == IF "TIMER" \in s.flags THEN HOOK_TIMER_DESCRIPTOR
                                    ELSE HOOK_SIGNAL_DESCRIPTOR

ByName(s)     == "TIMER" \in s.flags \/ ~(all(s) \/ monitor_heap(s))
Matches(f, s) == ByName(s) => has_method(f, s.name)

CallsFor(f, s) ==
    CASE ~Matches(f, s)          -> <<>>
      [] ByName(s) /\ Matches(f, s) -> <<CallIn(s.name, HookOf(s), s.flags)>>
      [] ~ByName(s) /\ all(s)    -> add_hooks_to_all_methods(Descriptors(f), s)
      [] ~ByName(s) /\ ~all(s)   ->
            add_hooks_to_all_constructors(Constructors(f), s)

WithCall(f, c) == add_method_call(f, c.key, c.callTo, c.flags)

hook(f, s) == FoldLeft(WithCall, f, CallsFor(f, s))

(***************************************************************************)
(* _artifacts, by class and method.                                        *)
(***************************************************************************)
Named(f, s) ==
    {s.name} \union
    (IF all(s) /\ "TIMER" \notin s.flags THEN Hookable(f) ELSE {})

\* Mutant: what is noted first stays.
NoteArtifactsFirst(f, s) ==
    IF monitor_heap(s) THEN artifacts
    ELSE artifacts
         @@ [k \in {<<class, key>> : key \in Named(f, s)} |-> s.artifacts]

NoteArtifacts(f, s) ==
    IF monitor_heap(s) THEN artifacts
    ELSE [k \in {<<class, key>> : key \in Named(f, s)} |-> s.artifacts]
         @@ artifacts

(***************************************************************************)
(* The descriptor of a name without types is made from parts that are not  *)
(* there: what is read past the end of a vector ends the JVM, or not.      *)
(***************************************************************************)
OutOfRange(s) == ~monitor_heap(s) /\ s.name = NoName

(***************************************************************************)
(* One turn of the loop of add_hooks, which ends by writing the class.     *)
(***************************************************************************)
add_hooks ==
    /\ fate = "running"
    /\ class # None
    /\ done < Len(OfClass(sigs, class))
    /\ LET s == OfClass(sigs, class)[done + 1]
       IN  /\ fr' = hook(fr, s)
           /\ artifacts' = NoteArtifacts(fr, s)
           /\ sigs' = IF Matches(fr, s) THEN sigs
                      ELSE [sigs EXCEPT !.hlist[class][done + 1] =
                                            mark_invalid(@)]
           /\ \/ fate' = IF Ended(fr') THEN "exited" ELSE "running"
              \/ OutOfRange(s) /\ fate' = "crashed"
           /\ handed' = IF fate' # "running" THEN handed
                        ELSE Put(handed, class, load_to_buffer(fr', junk))
    /\ done' = done + 1
    /\ UNCHANGED <<world, junk, lines, class, reports, reads>>

(***************************************************************************)
(* The end of ClassFileLoadHook: InstrumentationReport, the signals that   *)
(* are valid and those that are not.                                       *)
(***************************************************************************)
InstrumentationReport(c) ==
    [class |-> c,
     valid   |-> {s.name : s \in {x \in ToSet(OfClass(sigs, c)) : x.valid}},
     invalid |-> {s.name : s \in {x \in ToSet(OfClass(sigs, c)) : ~x.valid}}]

LeaveHook ==
    /\ fate = "running"
    /\ class # None
    /\ done = Len(OfClass(sigs, class))
    /\ reports' = Append(reports, InstrumentationReport(class))
    /\ class' = None
    /\ UNCHANGED <<world, junk, lines, sigs, fr, done, handed, artifacts, reads,
                   fate>>

(***************************************************************************)
(* The profiler is turned off: the class is read once more and gets its    *)
(* original bytes.                                                         *)
(***************************************************************************)
remove_hooks ==
    \E c \in DOMAIN handed \ {Package} :
        /\ Ready
        /\ reads' = reads + 1
        /\ fr' = load_from_buffer(fr.pool, world.files[c])
        /\ handed' = [x \in DOMAIN handed \ {c} |-> handed[x]]
        /\ UNCHANGED <<world, junk, lines, sigs, class, done, artifacts,
                       reports, fate>>

Next == \/ LoadLine
        \/ add_thook_to_package
        \/ ReadClass
        \/ add_hooks
        \/ LeaveHook
        \/ remove_hooks

Spec == Init /\ [][Next]_vars
==============================================================================
