# French-Roast: a TLA+ verification project

French-Roast profiles Java applications. An *agent* (a JVMTI library) runs in
each profiled JVM; it rewrites classes as they are loaded so that chosen methods
call back into it, and sends reports to one *monitor*, a Qt application, over a
TCP connection. The monitor sends back the list of hooks and commands that turn
the profiler and two watches on and off. This directory holds TLA+ models of
the parts of the program whose correctness depends on the order in which threads,
messages and calls act, the TLC configurations that check them, and proofs for every
value of the constants.

All paths below are relative to `src/modules/`.

## 1. Inventory

| Component | State it keeps | Operations | Interacts with |
|---|---|---|---|
| **Report queue and sender** (`agent/src/Agent.cpp` 66, 198-318; `Reporter.cpp`) | `_signalQueue`, the batch buffer of `signal_sender` | hooks and callbacks push; `signal_sender` pops, joins up to nine, flushes every 20 ms; `Reporter::signal` splits long batches; `ready`, `unloaded` | every JVM thread pushes; writes to the connection |
| **Commands** (`Agent.cpp` 76-159) | `_runProfile`, two intervals, three condition variables | `turn_on/off_profiler`, `watch/stop_watch_loading`, `watch/stop_watch_traffic` | called by the connection thread; tested by hooks and watches |
| **Profiler switch** (`Agent.cpp` 326-373, 399-445; `AgentHooks`) | `_origClass`, `_all_loadedClasses`, the shared `_fr` class buffer | `ClassFileLoadHook` instruments or restores a class; `reload_monitor` retransforms all | JVM class loading, commands |
| **Watches** (`Agent.cpp` 382-394, 480-680) | `_loadedClasses` | `class_loading_monitor`, `traffic_monitor` | hook, commands, report queue |
| **Report texts** (`AgentSignalReporting.cpp`, `AgentUtil.cpp`) | jmethod and class caches | walk stack and fields, format | callbacks |
| **Hook configuration** (`Config.cpp`) | hooks, server address | `load` connects and blocks until `<end>` | monitor, `Agent_OnLoad` |
| **Network** (`network/include/Connector.h`, `FRSocket.cpp`) | socket map; 2 receive buffers per connection | `send_message`, `process_instream`, accept loop, `handle_error` | agent and monitor both |
| **Dispatcher** (`monitor/include/Monitor.h`, `Monitor.cpp`) | ring buffer `_iq`, table of handlers, reports | `message` pushes pieces, `mhandler` dispatches what is queued, then sleeps 50 ms | connection threads, GUI listener |
| **Accounting** (`HeapMonitor.h`, `TimerReport`, `JammedReport`, `SignalReport`, `StackReport`, `MarkerField`) | totals, open timers, live objects | `process`, `+=`, `reset` | dispatcher |
| **Pure algorithms** (`StackTrace`, `Descriptor`, `ClassDetail`, `typeTokenizer`) | none | parsing, merging, formatting | dispatcher, GUI |
| **Session** (`session/`) | what the main window was given, and a file's lines by kind | `update`, `store`, `load`, `reset` | GUI |
| **Signals** (`signal/`) | for each class its signals, with name, flags and artifacts; marker fields by class and method | `load`, validation, `mark_invalid` | agent, editor |
| **GUI** (`gui/src`) | a row of status per target, traffic columns, tables of details and jams | slots that handle reports and buttons | monitor |
| **Instrumentation: reading** (`ConstantPoolComponents`, `OpCode`, `Instruction`, `MethodInfo`, `StackMapFrame`) | constant pool with two maps of keys, table of opcodes, methods with code, attributes and frames | `load_from_buffer`, `add_info`, `reset` | one `FrenchRoast` object for all classes |
| **Instrumentation: rewriting** (`FrenchRoast`, `MethodInfo`, `AgentHooks.h`) | the class read last, `_artifacts` | `add_hooks`, `update_method`, `add_instructions`, `adjust_frames`, `load_to_buffer` | `ClassFileLoadHook`; its callbacks read `_artifacts` |

### What is hard here

* **Nothing but one mutex orders the agent's threads.** Flags are atomics stored
  and notified without the mutex of the waiting thread; one wait has no
  predicate; the class hook runs on any thread with one shared buffer.
* **Batches.** A report may travel with eight others, be flushed alone after 20 ms,
  or be split from a batch that is too long, while the process may end at
  any point.
* **Fragments.** TCP delivers any piece of the stream; the receiver re-frames it
  in place in a fixed buffer.
* **One consumer, but many producers.** The monitor queues pieces in a
  single-producer ring.
* **Commands without answers.** The GUI learns what a JVM does from
  acknowledgements that come later, on another thread.
* **Rewriting offsets.** Inserting instructions moves every branch,
  exception range, frame and switch of a method; several hooks go into one method,
  one after the other, each with the addresses the one before has left. An error shows only
  in the JVM's verifier, or as a jump to the wrong place.
* **One object for all classes.** The pool and its maps of keys are reused from class to class.

`PROJECT.json` lists each hazard at its line with the properties for it.

### What makes each component correct

* Sender: nothing lost, nothing doubled, in order, in messages the receiver can hold; an incomplete batch is sent.
* Connection: a FIFO of whole messages however the stream is cut.
* Dispatcher: each piece queued is handled, whole, in the order of its connection.
* Switch: the bytes of every class agree with the last command once it has
  taken effect; a restored class gets its own original bytes.
* Watches: each class is listed and reported; a stopped watch comes to rest.
* Hook configuration: a JVM that starts gets the hooks and is not left waiting.
* Accounting: what is shown is what the reports received add up to.
* Session: what is loaded is what was stored, and is shown.
* GUI status: a row says what its own JVM does.
* Instrumentation: every branch still reaches the instruction it reached, every frame
  is that of its place, the stack has room, the lengths are true, and the hooks are those the list asks for.
* Callbacks: a signal tells the arguments and fields the list asks for.

## 2. Modules

| Module | Models | Composes |
|---|---|---|
| `SignalSender` | report queue, `signal_sender`, `Reporter`, life of the process | |
| `SocketStream` | `process_instream` on a fragmented stream | refines `FifoChannel` |
| `FifoChannel` | *abstract*: what a connection promises | |
| `MonitorInbox` | `Monitor::message`, `_iq`, `mhandler`, accept loop | |
| `ReportPipeline` | the way of a report from the queue of the agent to the dispatcher | extends `SignalSender`; `MonitorInbox` (`INSTANCE`) |
| `CommandBridge` | flags, stores and notifications of the commands | |
| `ProfilerSwitch` | `ClassFileLoadHook`, `reload_monitor` | extends `CommandBridge` |
| `ClassWatch` | both watch loops, `track_class` | extends `ProfilerSwitch` |
| `HooksHandshake` | `Config::load`, `LocalListener`, dispatch of the requests, `FRListener::validated_signals`, the Editor | |
| `ReportAccounts` | what the monitor adds up: heap, timer, signal and jammed reports, the ranking of methods | |
| `StackColumns` | the column of stacks of a thread, its marks and its cells | |
| `ViewerTables` | the tables of the other viewers | extends `ReportAccounts` |
| `SessionFile` | the session's updates, a file's lines and what its parsers make of them | extends `ReportAccounts` |
| `MonitorReports` | the threads that account, reset, show, save and load | extends `ViewerTables`, `SessionFile`, `StackColumns` |
| `TargetStatus` | the window of targets, its menu, the commands and acknowledgements behind it | |
| `Maps` | `operator[]` of the maps of the rewriter | |
| `Signals` | a line of the hook list: what is accepted, what is kept | |
| `OpCodes` | the table of instructions | |
| `StackFrames` | the frames of a StackMapTable | |
| `MethodCode` | insertion into the code of one method | extends `OpCodes`, `StackFrames` |
| `ConstantPool` | the pool, its keys, what is added | |
| `ClassFile` | reading, changing and writing a class | extends `MethodCode`, `ConstantPool` |
| `ClassRewrite` | the hook list is loaded, classes are read, hooked, reported and restored | extends `ClassFile`, `Signals` |
| `HookCalls` | what `thook` tells when a hooked method is called | extends `ClassRewrite` |
| `RewriteSafety` | the properties of the four modules above | extends `HookCalls` |
| `SocketStreamProofs` | theorems about `SocketStream` | extends it |
| `MonitorInboxProofs` | theorems about `MonitorInbox` | extends it |
| `ReportPipelineProofs` | theorems about `SignalSender` and `ReportPipeline` | extends `ReportPipeline`; `MonitorInboxProofs` (`INSTANCE`) |
| `ClassWatchProofs` | theorems about `CommandBridge`, `ProfilerSwitch` and `ClassWatch` | extends `ClassWatch` |
| `HooksHandshakeProofs` | theorems about `HooksHandshake` | extends it |
| `TargetStatusProofs` | theorems about `TargetStatus` | extends it |
| `MonitorReportsProofs` | theorems about `MonitorReports` and its libraries | extends it |
| `RewriteInvariants` | the inductive invariants of `RewriteSafety` | extends it |
| `RewriteSafetyProofs` | theorems about the rewriting of classes | extends `RewriteInvariants` |

The modules whose name starts with `MC` give the constants their values for TLC.

### How state and actions correspond to the code

**SignalSender.** `signalQueue` is `_signalQueue`, a linearizable multi-producer
queue, so a push is one step. A report is its rank and its size; a
message is the sequence of reports joined in it. `Pop` is one turn of
the inner loop of `signal_sender`, with the send when the ninth report completes a
batch; `Drained` and `Flush` are the 20 ms sleep and what follows it.
`SignalMessages` is what `Reporter::signal` makes of a batch, and `SendPiece` each of its calls of
`send_message`: while one is still to be made (`unsent`) `signal_sender` waits, other threads go on, and the process may end. `Unload` runs on the thread
that unloads the agent while the others go on, and `Exit` ends the
process at any time: this stands for the end of `Agent_OnUnload`, a crash and the `exit`
of `FRSocket::handle_error`.

**SocketStream.** The stream is a sequence of characters; "E" stands for
`~<end>`. `Recv` takes any non-empty prefix of what is in transit that fits the
request, so every fragmentation happens. `Deliver` and `Shift` are the scan of
`process_instream` and its in-place shift. Dying on a long message is a state, not an
omission. Mapped on `FifoChannel`, what is in transit and in the buffers is the
channel's content.

**MonitorInbox.** A push on `_iq` is two steps, the read of the write
index and the store of the element and the index, as the single-producer ring performs it;
`raced` records that two threads were between them at once. `mhandler` is one
action per piece. The `connected~` piece is queued as any other; it dispatches to the
default handler because no handler has that name, so its handling has no effect.

**CommandBridge.** A command becomes a program of stores and notifications that the
bridge executes one at a time. `waiting` is the set of condition variables with a
blocked thread; a notification that finds nobody is remembered in `missed`.

**ProfilerSwitch.** `ClassFileLoadHook` is one action for each of its
three readings of `_runProfile` and for each use of what it shares with other
threads. The bytes of a class are abstracted to whose code they are and whether they
hold hooks. `undefined` is a history variable: it becomes true when the code restores from a
`ClassPtr` that was never filled, after which the bytes may be anything.

**ClassWatch.** Each watch loop is `Test`, `Sleep`, `Awake` and its
work. `CopyClasses`, `ReportClasses` and `ClearClasses` are separate because the code takes no
lock: `track_class` may list a class while the list is copied, which may then have it or not, and before
it is cleared. `late` counts such listings. When the vector is reallocated during the copy the code reads
memory that is freed; that outcome is left out.

**HooksHandshake.** A JVM's `at` is the list it waits for; `inbox` is its present connection.
`ReadEnd` is the whole of what `<end>` brings about: the connection is closed, what
came in the same `recv` is still loaded, the JVM connects again. Four threads take part: `Mhandler`
(`Dispatch`, `SendOpcode`), the GUI thread (`HandleEvent` and all that the user does),
the thread of `FRListener` (`TakeCall`, `Answer`, `ClearRequests`: its loop over
`_signal_requests` is not atomic) and the JVMs. `dropped` and `ignored` are history variables:
the requests cleared unanswered, and those that woke an Editor which is not connected to
`FRMain` or whose text is not valid.

**TargetStatus.** `view` is what dies with the window: rows, the map from JVMs to
rows, statuses, hidden rows, the current row and the box. Reports of one JVM
arrive in order, those of two in any order, so the queue of the GUI thread is folded into
`reports`. `HandleReport` opens the window when it is closed, unwired as in the code.
`ShowMenu` and `Trigger` are two steps because `QMenu::exec` handles other events in between.
`missed`, `strayed`, `reopened` and `slipped` are history variables that
name the exceptions of the properties. JVMs are named in the order in which
they start, which makes no difference to what can happen and halves the states.

**ReportAccounts, StackColumns, ViewerTables, SessionFile.** Each is a library of
operators without state, one for each function of the code that changes a report, a
column, a table or the session. A map of counts is a function to numbers, and `Counted` is `++` on one of its entries. A frame is its name
and its mark; a name in a file is cut (`Clipped`), never spelt. The order in which an
unordered map is listed is a choice (`Listings`).

**MonitorReports.** `mon` is `Monitor<T>`'s accounts, `main` the maps of `FRMain`,
`shown` the tables, `windows` the detail windows, `session` and `views` the `Session` with its
`PersistorFile`. Three threads take part: `mhandler` (one action per kind of report, which posts the
result), the listener's (`StartReset`, then `ClearNext` for each map; `RankMethods`) and the
GUI's (`Deliver` and all that the user does). `program` is what really happens in the
targets: objects on the heap with their tags, activations of timed methods, time. `past` keeps
what the properties except: `mixed` (two objects have shared a tag, or one has had two,
or a free event wrote to a report that a reset had destroyed), `muddled`
(timers with two activations at once, or open at a reset), `stale` (detail windows from before a
reset), `shaken` (a reset or a load). A report that a reset destroyed while its tag is still in the other map may
be read as it was or end the program. A message is handled when it is sent, because
`ReportPipeline` shows that the way between keeps the order.

**Signals.** A line of a list is a record of the parts the regular expressions of `SignalValidator` cut
it into; `Accepted` says which parts may come together, `Refused` which lines make `load` throw out of
`Agent_OnLoad`. `load_signal` keeps what `load` keeps, by class and in order.

**OpCodes, StackFrames, MethodCode.** An instruction keeps its opcode, address, operand and offsets as in
`Instruction`. Two members are the model's own: `no`, the place it had in the file, and `part`, its place
in an inserted group. `add_instructions` is the whole of `MethodInfo::add_instructions`: the layout from
address 0 with the padding of switches, the map from old to new addresses with and without `sticky`, the targets
taken in the order in which they were collected, exceptions by the same map (0 for an address that is
not there), and `adjust_frames`, which ends the process when frames and targets differ in number.
A frame's `_size` that nobody sets is `Unset`, and one value of `Junk` for the whole behaviour.

**ConstantPool, ClassFile.** The pool keeps both of its maps, with the one key that entries of all tags share. What
is not about methods is kept as lengths. A class file the reader does not understand has a fate: *crashed* (a null pointer is
read), *exited* (`exit` is called) or *astray* (what follows is read from the wrong place). Reading an unknown tag, `wide` or
`goto_w` loses what the code loses. `update_method` is the list of its insertions (`Insertions`: heap alone, or entry,
exits and timer in this order), each made by `add_instructions` at every place `Places` finds in the code as the
insertions before it left it; the pool is extended first, as `add_method_ref_index` does, and `max_stack` is raised once, since
nothing between reads it.

**ClassRewrite.** `LoadLine` is one line of the list, `ReadClass` the beginning of `ClassFileLoadHook`, `add_hooks` one
turn of its loop over the signals of the class, which ends by writing the class, `LeaveHook` the report,
`remove_hooks` the restoring of a class, `add_thook_to_package` the branch for `java/lang/Package`.
`fr` is the one `FrenchRoast` object and goes from class to class with what it holds. The interleavings
of several threads in these functions are those of `ProfilerSwitch`; one thread runs here.

**HookCalls.** `thook` may run between any two of these steps, because other threads call hooked methods
while a class is hooked. `typeTokenizer`, `Descriptor` and `populate_artifacts` work on the characters
of the type. A value is read from the local variable at its slot: it may be another argument, of a wrong type (JVMTI
reports an error and the signal has no more arguments) or the wrong kind of object (undefined).

## 3. Runs

| Run | Configuration | Properties | Shows |
|---|---|---|---|
| `socket_stream` | `MCSocketStream.cfg` | `ImplementsChannel`, `EveryMessageDelivered` | under every fragmentation the receiver is a FIFO of whole messages (it implements `FifoChannel`), and only a broken connection or a message longer than the limit keeps one from arriving |
| `monitor_inbox` | `MCMonitorInbox.cfg` | `IntactUnlessRaced`, `EveryPieceHandled` | the ring loses nothing as long as no two threads push at once, which takes two connections |
| `report_pipeline` | `MCReportPipeline.cfg` | `SentInOrder`, `NothingLost`, `MessageFits`, `ReadyFirst`, `EveryReportSent`, `DispatchedInOrder`, `EveryReportDispatched` | however the application pushes, and wherever between the pieces of a batch the process ends, `signal_sender` batches, flushes and splits without losing, doubling or swapping a report, in messages that fit; an incomplete batch is sent; and so it goes on to the dispatcher |
| `profiler_switch` | `MCProfilerSwitch.cfg` | `InstrumentedWhenSettled`, `OwnCode`, `DoneAsAsked` | the last command has its effect in the end, and classes agree with it then, except after a lost notification or overlapping hooks |
| `class_watch` | `MCClassWatch.cfg` | `EveryListingCounts`, `WatchedOnlyWhileProfiling` | no listing is reported twice, and none is lost but those made while the list is copied and cleared; watches that are on only while the profiler is |
| `hooks_handshake` | `MCHooksHandshake.cfg` | `OneValidList`, `HooksArrive` | each JVM gets one list of hooks, which has passed validation, unless its request is lost in one of the two ways the code has |
| `target_status` | `MCTargetStatus.cfg` | `ShownTruthfully`, `RowsFound`, `ConnectedComesTrue` | when a row tells the truth, and when a report or a menu entry can miss its row |
| `monitor_reports` | `MCMonitorReports.cfg` | `HeapBalance`, `OnlyResetKills`, `TimerTruth`, `SettledShowsAccounts`, `DetailAddsUp`, `ColumnsCover`, `MarksAreSeen`, `LoadShowsFile`, `LoadShowsTimers` | what each account says of the targets, and each table of the accounts, through resets, saves and loads |
| `heap_counts_twice` | `HeapCountsTwice.cfg` | `HeapCountsObjects` *(violated)* | the current objects shown are not those on the heap |
| `session_differs` | `SessionDiffers.cfg` | `LoadGivesStored` *(violated)* | a session that is loaded is not the one that was stored |
| `instrument` | `MCClassRewrite.cfg` | `BranchesKept`, `FramesMatch`, `ExitsCalled`, `StackFits`, `OperandsResolve`, `LengthsTrue`, `HooksAsAsked`, `RewrittenAfresh`, `Survives`, `TellsAsAsked` | what classes become when they are hooked, restored and hooked again, and what their hooks tell |
| `exit_hooks` | `ExitHooks.cfg` | `AnyMethodHooked` *(violated)* | a getter hooked at its exit is not valid bytecode any more |

Every configuration sets `CHECK_DEADLOCK FALSE`: applications end, users stop, and the bounds run out.

**Bounds.** `BatchSize` 2 rather than nine and `MaxMsgSize` such that a full
batch of short reports fits and one with a long one does not: with four reports full batches, flushes
and splits all occur. The receive buffer keeps the code's proportions (a message of
the greatest length fits, one longer by more than the slack does not). The ring has
room for one or two pieces, so that it is full and empty and wraps around. Two
connections are the least for a race; `report_pipeline` has one agent, so that no push races, and
its reports share the ring with the message of the accept loop. Four commands are the least
that give on, off, on and a watch; one class loader thread beside
`reload_monitor` is the least with overlapping hooks. Two JVMs are the least with which a request
is cleared with another's, or an acknowledgement finds another row selected; one of them
may end in `target_status`, and it takes two things the user does for each of the situations its
properties except (a menu opened while a JVM starts needs one). Three things the user does to
the Editor cover edit, validate and close in every order; one valid and one
invalid text are all that validation tells apart. One line of opcodes is as good as many:
each is a line that is not `<end>`.

In `monitor_reports` each initial state asks the targets for one kind of report, alone or with a
session file, because accounts of different kinds share nothing but the queue, the
reset and the file. Three heap reports of two classes are the least with a
creation, a free event and another in between of which two share a tag; four timer reports and three units of time
give a recursive method, an exception and two keys; four signals of two values fill the
shared row, leave it and have a row updated; four class reports and two presses expand
two classes with more loaded between. Three samples of two branches with a
common root, with and without marks, repeat, extend and branch a stack, with a mark carried between two.
One reset, one save and one load with `MaxPosted` = 2 reports behind cover a reset with
reports of both sides of it in flight and a file loaded by a program that has reports of its own
or by a new one.

In `instrument` an initial state is a *world*: a hook list and a set of class files, some two hundred of them, each with both values
of `Junk` (3, the size an extended frame has, and another one). The methods are those javac makes of
an if, a loop, a conditional expression, a try, a switch of either kind, an early return, a getter, a
constructor with and without arguments, a call of an interface, code past 63 and 255 bytes, and the
ones the reader cannot understand; `Compile` gives their addresses, so that a switch occurs with
several paddings. Each is hooked with every flag, alone and after others. The lists
have stars, heap lines, comments, untyped and absent names and lines that are refused; the pools have long and double
entries, entries that are there already, a text and a double that read like two indices, a `main` in a name and in a type, and unknown tags. `maxReads`, 2 or 3 by the world, lets a class be hooked, restored and hooked
again, or three classes follow each other in one pool. `Depths` are three frames and twelve, less and more than
`thook` has room for. Nothing is fair in this run: it has no liveness property.

**What the properties of `instrument` except.** The rewriter has limits, and each property says where it stops to hold, as
an operator of its own: `Movable` (a `tableswitch`, `wide`, a first instruction that branches, a range that
ends with the code, targets after the last return), `FramesMovable` (a stack item further than 63, an uninitialised
object), `NotReached` (a branch straight to an exit), `ValueWaits` (a value on the stack at the exit), `LeftToChance`,
`Overlooks` (a method with `main` anywhere in its name or type gets nothing from a star or a heap line), `Confused` (a text or number that reads like the indices of two texts, as 20.21 does, is taken for their name and type),
`Handled` (what `Survives` asks of classes) and `Tellable` (types `typeTokenizer` counts right). Each is about the class file and the list, and the
worlds have members on both sides of it.

**Fairness.** Weak fairness on the threads of a process: each is a loop that the
operating system schedules, and every sleep ends. There is no fairness
on anything the application or the user decides: pushes, loads, commands, connections
and the end of a process, nor on the user's menus and windows. `Reload` and the watches are fair only while they
are not blocked, because a blocked thread's action is not enabled.

**Runs expected to fail.** Each checks a claim of the documentation that the code
does not keep; `PROJECT.json` "findings" quotes it: a creation is counted twice; the getter
of the user manual, hooked at its exit, needs a deeper stack than it declares; and a session that is
stored and loaded is not equal to itself, as the session's tests require it to be: the parsers cut off the first letter of two names. Other differences between code and
documentation or tests have no run of their own: a command that is meant for
other JVMs ends one that still loads its hooks (`ReadLine` of `HooksHandshake`), pushes of two connections overlap in the
single-producer ring (`IntactUnlessRaced` excepts it), a command can be missed by
`reload_monitor` (`InstrumentedWhenSettled` excepts it), a class listed between the report
and the clear is never reported (`EveryListingCounts` bounds how many), a star passes over methods that have `main`
somewhere in their types (`Overlooks`), and in a class that has a text or a double 20.21 the call of a hook may
refer to it instead of a name and type (`OperandsResolve` excepts it).

No configuration uses symmetry: most check liveness, for which it is unsound.

## 4. Proofs

The safety properties that TLC checks on small instances of the components below, TLAPS proves for every
value of their constants: any number of agents, JVMs, classes and threads, any sizes and limits, any
texts, and any of the bounds (`MaxPushed`, `MaxCommands`, `MaxUser`, ...), which are constants of the theorems too.

| Module | Theorem | Says |
|---|---|---|
| `ReportPipelineProofs` | `TypeCorrect`, `Invariance` | types and inductive invariant of `SignalSender` |
| | `OrderPreserved` | `[]SentInOrder` |
| | `NoReportLost` | `[]NothingLost` |
| | `MessagesFit` | `[]MessageFits` |
| | `ReadyLeads` | `[]ReadyFirst` |
| | `PipelineInvariance` | the inductive invariant of `ReportPipeline` |
| | `ReportsInOrder` | `[]DispatchedInOrder` |
| `SocketStreamProofs` | `StreamInvariance` | the inductive invariant |
| | `StreamImplementsChannel` | `Spec => FifoChannel!Spec` |
| `MonitorInboxProofs` | `Invariance` | the inductive invariant |
| | `QueueIntact` | `[]IntactUnlessRaced` |
| `ClassWatchProofs` | `SwitchInvariance` | the inductive invariant of `ProfilerSwitch` |
| | `InstrumentedAsAsked` | `[]InstrumentedWhenSettled` |
| | `BytesNotMixed` | `[]OwnCode` |
| | `WatchInvariance`, `WatchTypes` | the inductive invariant of `ClassWatch`; types |
| | `ListingsCount` | `[]EveryListingCounts` |
| | `NothingWatchedWhenOff` | `[]WatchedOnlyWhileProfiling` |
| | `SwitchUndisturbed` | what is proved of the switch still holds with the watches running beside it |
| `HooksHandshakeProofs` | `HandshakeInvariance`, `TypeCorrect` | the inductive invariant; types |
| | `HooksOnceAndValid` | `[]OneValidList` |
| `TargetStatusProofs` | `StatusInvariance`, `TypeCorrect` | the inductive invariant; types |
| | `ReportsFindTheirRows` | `[]RowsFound` |
| | `RowsTellTheTruth` | `[]ShownTruthfully` |
| `MonitorReportsProofs` | `ReportShapes`, `WindowsHaveShape` | types of the accounts; of windows, session, file and posts |
| | `NothingButAResetKills` | `[]OnlyResetKills` |
| | `TimersAreTrue` | `[]TimerTruth` |
| | `HeapIsBalanced` | `[]HeapBalance` |
| | `DetailsAddUp` | `[]DetailAddsUp` |
| | `SettledWindowsAreTrue` | `[]SettledShowsAccounts` |
| | `ColumnsAreCovers` | `[]ColumnsCover` |
| | `MarksAreEarned` | `[]MarksAreSeen` |
| | `FilesAreShown` | `LoadShowsFile` |
| `RewriteSafetyProofs` | `AlwaysAfresh` | `[]RewrittenAfresh` |
| | `LengthsStayTrue` | `[]LengthsTrue` |
| | `EntriesStay` | `[]EntriesKept`, a part of `OperandsResolve` |
| | `OperandsAreFound` | `[]OperandsResolve` |
| | `HooksAreAsAsked` | `[]HooksAsAsked` |

Each rests on the assumption of its model (`SenderAssumption`, `StreamAssumption`,
`InboxAssumption`, `PipelineAssumption`, `BridgeAssumption` and `SwitchAssumption`,
`HandshakeAssumption`, `StatusAssumption`, `BoundsAssumption`, `SamplesAssumption` and `NamesAssumption`, `WorldsAssumption`, `StarredAssumption` and `LinesAssumption`)
and, two theorems excepted, on nothing else: that limits are positive, that the
kinds of commands and of user actions are those of the code, that the accept thread is no connection,
`reload_monitor` no loader, NUL no character of a message; that what a sample of the traffic holds of a thread is a list of
frames, which is all the parser of the message can make; and that no timer's key, a thread's name and a method's with `:` between
them, is the empty name of a report that has not been parsed; that the parts of a class file are in a row, lengths and
addresses numbers, types of frames bytes, that every entry of a pool refers to entries with the tags that the class file format asks for
and no number in it is printed like one of the agent's texts, that an instruction of a class file can be told from the inserted ones, which have `no = 0`,
that no two methods of a class agree in name and type, that the instructions of a method follow one another from address 0 on and a
constructor returns nothing, and that after it has called another one (`IsCode`; the verifier of the JVM takes no other class but `java/lang/Object`, whose constructor
calls none and which is loaded before the agent), that `java/lang/Package`, to which the
agent adds its hooks, has none of them, and that a line of the hooks files, once it is parsed, has flags among `ENTER`, `EXIT` and `TIMER` and a method's name that is neither
empty nor `<init>`, whose characters the parser does not take. TLC evaluates them in the runs. `SenderAssumption` and `PipelineAssumption` together imply `InboxAssumption`. The exceptions are `OperandsAreFound` and `HooksAreAsAsked`, which take `Numerals(Nat)` as a hypothesis: the decimal texts of
different indices differ, no pair of them with a dot between reads like a single one or like another pair, and none is a text of the agent.
The prover knows nothing of what `ToString` and the joining of strings result in; TLC evaluates `Numerals(0 .. 12)`.

None of the properties is inductive alone. What had to be added, and why:

**SignalSender.** `IInv` says where each rank is: the
queue holds the last ranks pushed, consecutively; the buffer holds the ones
just before them, or the pieces that `Reporter::signal` has still to send do; everything smaller is in `sent`, in order; and the
buffer is shorter than a batch. A `Pop` moves the first rank of the queue to the end of the
buffer; a `Flush` or a full batch moves the buffer to `unsent`, whole or
split, from whose front `SendPiece` moves it to the end of `sent`, and the lemmas about `SignalMessages` say that neither changes the ranks,
their order or the limit.

**SocketStream.** What has been received and what is in transit are one sequence, the *pending*
bytes. `StreamInv`: there are positions, one per message sent, at which it ends in all that was ever sent, and from the
last message delivered on the pending bytes are those of the messages, as far as they go. No step but the delivery
changes where a byte is in that sequence, however it is cut; a reset only shortens it. As no message
contains NUL, the first NUL in `flowbuf` is the end of the next message, so `Deliver` hands over
exactly that message and is a `Deliver` of the channel; `Send` and the end of the connection are its
`Send` and `Close`, all else stutters. `FifoChannel` states no liveness, so this is the whole refinement.

**MonitorInbox.** That the ring holds what was pushed needs that a thread which has read `write_index`
finds it unchanged, and the ring not full, when it stores (`RoomInv`): it can be broken only by another
thread between those two steps, which is when `raced` becomes true.

**ReportPipeline.** `PipelineInv` is the invariants of both parts together with, for each agent, how far its
reports are: what `_iq` has accepted of it, what its thread has still to push of the current message,
and what later messages hold are consecutive ranks (`Progress`), after the announcement and READY (`Stage`).

**ProfilerSwitch.** `AgreeInv`: once the last command has been heard (`InStep`), whatever the round of
`reload_monitor` has done so far, and the step each thread is at inside the hook, agree with
`_runProfile`. It needs that while no two threads are in the hook `_fr` holds the class of the one that is
(`AloneInv`), and how the stores of a command follow each other (`BridgeInv`).

**ClassWatch.** The watches leave `SwitchInv` as it is. Of a class, the listings made up to the beginning of a copy
are reported or still listed, and those made since are counted by `late`, whether the copy has them or not; how many the
list had when the copy began (`copying`) tells the two apart.

**HooksHandshake.** A JVM is given one list because it asks once (`AsksOnce`), is noted once
(`Once(requests)`), walked once (`Once(left)`), and because of what its inbox may hold at each stage (`Fresh`, `Given`): nothing but
commands, or exactly one line and its `<end>`. A text is valid when sent because `validated` says so of the current text
(`ValidInv`), which an edit, a closing or `add_hook` takes back.

**TargetStatus.** Until the window has been closed rows and JVMs correspond (`ViewOK`); a JVM without a row has done nothing but
announce itself (`Known`), so every report finds its row; no command is on its way while no row was
ever current (`Quiet`), so every acknowledgement finds one; and the last acknowledgement on its way
to the window is the right one (`Truth`), so that the row is right when none is left.

**MonitorReports.** Its accounts and tables are sums, folds and lists over all that has been reported, so the first part of
`MonitorReportsProofs` is induction over data: on the naturals and on finite sets with a set in the place of the predicate
(`NatSetInduction`, `FiniteSetInduction`), and the folds and `SumFunction` unfolded through the function each of them
chooses. Then there is one invariant for each property:

* `HeapKept`. A report is `Balanced` for what has been made since it was created and what of it is alive, *and*
  `TagsKept`: each tag leads to a report of its object's class, and a report that the monitor still has counts the object. Without the latter a
  death could be counted in a report that never counted the birth. It is given up where `past.mixed` is set.
* `TimersKept`. A timer that has not been muddled has the time of the one activation open, if any; only then is
  what it adds at the exit the time that has passed.
* `DetailsKept`. A report's stacks add up to its count, and so do its combinations of values; both copies of a report and the table agree; in a detail
  window that is not stale each combination has a row of its own with the report's count, or is one of those, seen once each, that the shared row
  counts.
* `SettlesKept`. Of each class and each timer: the *last* post about it that waits has what is in the accounts, or none waits and the
  table has it, or a reset that will clear it is waiting. The property is what is left of this when nothing waits.
* `ColumnsKept`. A column is an antichain for the order "is an outer part of", every stack sampled is an outer part of a stack
  in it, and the cells are `Layout` of its frames. Two stacks that are both outer parts of a third are comparable, so a new stack outgrows one stack
  of a column at most, and the update that replaces the first one replaces all. A layout only grows with its column, which is why
  painting over the old cells leaves none behind.
* `MarksKept`. Each mark of each stack of a column is `Earned`: a sample of its thread with the same outer frames held a monitor there. Marks are aligned
  from the outermost frame, so they go with the frames when a longer stack takes over.
* `NamesKept`, `FreshKept`. In the session and in a file each list of signals is of one key, its own, and a file has a key once, since
  `store` walks maps; a program that has loaded nothing and shown nothing has empty tables and maps. So the lines of a key
  make one report, its list is walked once, and each row is what one line put there. `LoadShowsFile` says what is read of the
signals, the jammed reports with their monitors and the classes by their names, each name as the parsers cut it; the timers are in `LoadShowsTimers`, which is only model-checked.

**RewriteSafety.** One reader and writer, `_fr`, serves all classes. `RewriteInv` holds beside it the class that a new reader would
have: after the first `n` signals of a class, the one in hand and the one read afresh and given the same signals are the same but for
`ids` (`InHand`), and so is what each class was given (`Given`). `ids` is what
`reset` leaves behind; a class refers to its own entries only, whose `ids` reading it has replaced. Every operator that changes a
class (`load_from_buffer`, `add_info`, `update_method`, `add_hooks`, ...) is shown to make equal classes of equal ones; where it is a
fold, along the run of its accumulators. `Grown`: each of them keeps the entries a pool had and counts what it adds, so that an
operand of the class's own code means what it meant.

`LengthsTrue` needs what the methods in hand are like (`SizedInv`, of each method `Sized`): the length kept for the code is that of
its instructions, and its exceptions are as many as the file has. Reading gives it, because a method whose instructions do
not add up to the declared length is out of step (`InStep`). `Layout` counts from address 0, so what it lays out ends where
the lengths add up (`LaidOut`), with the paddings of switches as they have become; moving branches, exceptions and frames changes
no length of the code, and a frame is counted with the size it is written with unless it is `LeftToChance`. That what is
written has the declared length is then arithmetic.

`OperandsResolve` goes through three invariants of a pool. `PoolSound`: an index has one entry, and what is found by a key is an entry with that key.
`PoolFits`: every entry is one of the class file's or one that was added, and refers to entries of the right tags. `Clear`: no number or text of the class file
reads like two indices of texts in the pool, which is `~Confused`; then what is found by the indices of a name and a type is a
name and type, and what is found by a text that the class file's numbers do not have is that text. So each step of `RefTo`, `add_class` and `add_string` finds
what it has just added or something equal to it, and `Means`, what an inserted instruction refers to, stays true while the pool grows (`Later`).
That it needs `Clear` is how the collision of `20.21` in section 3 was found.

`HooksAsAsked` compares two walks: from a line of the hooks files to the signal of a class, the calls `CallsFor` makes of it and the instructions `update_method` inserts,
and back from the instructions of the class that is written to the lines. `CountInv` holds between them, for each class in hand or written:
`LinesIn`, the signals of a class are the lines that name it, in order; `JudgedAll` and `MarkedTo`, a signal is marked invalid exactly if it has nothing to
hook there; and `CountedTo`, after `n` signals a method calls each hook as often as those `n` ask (`Wanted`). What an insertion does to that count is `Grew`: instructions
are `Placed` one after the other, so an address belongs to one of them; every exit that `get_return_addresses` lists is the start of one (`ExitsOf`), and from the last exit to the first, so
that what is inserted before one moves none of those still to come (`PlacesFit`); what is inserted is no return, so there are as many exits afterwards; and an operand that is inserted is
the one index of its hook (`RefCalls`), by `OperandsResolve`. A constructor's returns stay after its super call (`Late`), hence the call to `heaphook` at address 4 and
those at its exits do not meet. Of what the verifier of the JVM checks, the proof needs `IsCode` only.

**Only model-checked.** The liveness properties (`EveryReportSent`, `EveryMessageDelivered`, `EveryPieceHandled`,
`EveryReportDispatched`, `DoneAsAsked`, `HooksArrive`, `ConnectedComesTrue`): the prover handles neither fairness nor `ENABLED`. `LoadShowsTimers`: what a list of timers with equal names leaves is a fold that has not been unfolded here.
Of `RewriteSafety`, six properties of a rewritten class, of which it is proved that they would be the same in a new
reader (`AlwaysAfresh`):

* `BranchesKept`, `FramesMatch`, `ExitsCalled`: offsets have 16 bits and are cut off without a test, and a target that is
  not the start of an instruction is moved to 0. So they hold of classes that are short and well-formed, as those of
  the worlds are; stated of every class file they are false, and the code has no bound to take as an assumption.
* `StackFits`: follows every path through a method, and needs a class the JVM's verifier would take.
* `Survives`: needs as many frames as targets after every insertion, so it rests on `BranchesKept`.
* `TellsAsAsked`: goes through the characters of a type.

## 5. Not modelled

* Spurious wake-ups of condition variables. They only give `reload_monitor` an extra round
  and the watches an extra test.
* Text: how reports are written and parsed, except for the characters that loading a session cuts off and the types of methods.
* In `MonitorReports`: the closing of viewers and detail windows, `_exit`, the Editor's table, a message with several
  stacks of traffic or several classes (each is a message of its own), and the data race inside one map of the monitor between
  `mhandler` and a reset, which has no defined outcome; each handler and each `clear` is a step.
* In the pool of a class, that its count and indices are shorts: with more than 32767 of them a class is not read, or a reference not found.
* Two threads inside `add_hooks` at once: `ProfilerSwitch` says which class's bytes result, `ClassRewrite` is
  sequential.
* In `instrument`: the bytes of what is only counted (fields, attributes, access flags); that a method is static (its first local
  variable, which the hook passes on, is then its first argument, or absent); the
  caches of classes, methods and fields; `timerhook` and `heaphook`, which only push.
* Reading the opcodes and hooks from local files, and printing a class (`FrenchRoast` and `MethodInfo` to text).
* `FindClass` in `reload_monitor`: which classes the JVM's loader finds.
* The socket map's data race: it has no defined outcome to state properties of.
* In `TargetStatus`, the other windows: closing the last one ends the program. Watch commands are in
  `ClassWatch` and `HooksHandshake`.
* What a send to a JVM that has just ended does is a choice of `SendFails` only in `TargetStatus`;
  in `HooksHandshake` such a send has no effect.
* Windows, painting, syntax colours; `gui_curses`, which includes headers that no longer exist.

## 6. Plan

1. *Done, proved*: the report pipeline (`SignalSender`, `SocketStream`, `MonitorInbox`, `ReportPipeline`).
2. *Done, proved*: commands, switch, watches.
3. *Done, proved*: `HooksHandshake`: `Config::load`, the requests, listener, Editor.
4. *Done, proved*: `TargetStatus`: a row per JVM, menu, acknowledgements.
5. *Done, proved*: `MonitorReports` with its libraries: accounts, tables, columns, session.
6. *Done, checked*: `ClassRewrite` with its libraries: signals, insertion, frames, pool, callbacks.
   *Proved* of it: `RewrittenAfresh`, `LengthsTrue`, `OperandsResolve` and `HooksAsAsked`.
7. Proofs left: `BranchesKept` and `FramesMatch`, for class files whose methods stay short enough for every offset and whose
   branches reach instructions; those conditions are to be stated first.
8. The Editor's table of instrumented methods, which applies the instrumentation reports; the closing of detail windows.
