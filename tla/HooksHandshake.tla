--------------------------- MODULE HooksHandshake ---------------------------
(***************************************************************************)
(* How a JVM that starts gets its opcodes and its hooks.  Config::load     *)
(* (agent/src/Config.cpp) blocks twice, each time on a connection of its   *)
(* own that the JVM closes when it reads "<end>".  Four threads of the     *)
(* monitor take part: mhandler dispatches the requests and sends the       *)
(* opcodes; the GUI thread has the Editor validate its text; the thread of *)
(* FRListener sends the validated text to every JVM that has asked, and    *)
(* also broadcasts the commands that start and stop the watches; and the   *)
(* user edits, validates, opens and closes the Editor meanwhile.           *)
(***************************************************************************)
EXTENDS Naturals, Sequences, SequencesExt, FiniteSets

CONSTANTS
  Jvms,        (* the JVMs that may be started                             *)
  Texts,       (* what the Editor may hold                                 *)
  ValidTexts,  (* the texts that pass validation                           *)
  InitText,    (* the text that was saved                                  *)
  OpcodeLines, (* the number of lines of the opcode file                   *)
  UserActions, (* the things the user does in this instance                *)
  MaxUser      (* bound of the model: how many of them                     *)

ASSUME HandshakeAssumption ==
  /\ ValidTexts \subseteq Texts
  /\ InitText \in Texts
  /\ OpcodeLines \in Nat
  /\ UserActions \subseteq {"open", "close", "edit", "add_hook", "save", "validate", "watch"}
  /\ MaxUser \in Nat

VARIABLES
  at,          (* each JVM: "new", the list it waits for, "loaded" or "died" *)
  inbox,       (* what its present connection has not delivered yet        *)
  got,         (* the texts of hooks it has loaded                         *)
  iq,          (* the requests mhandler has not dispatched                 *)
  sending,     (* the opcode lines mhandler has still to send, and to whom *)
  requests,    (* _signal_requests                                         *)
  gui,         (* the events queued for the GUI thread                     *)
  calls,       (* the calls queued for the thread of FRListener            *)
  answering,   (* validated_signals: "no", or the text it sends            *)
  left,        (* ... and the requests its loop has still to visit         *)
  editor,      (* the Editor's window: "closed", "wired" or "unwired"      *)
  text,        (* its text, or the saved one while it is closed            *)
  saved,       (* the text that was saved last                             *)
  validated,   (* _validated                                               *)
  watching,    (* _watchTraffic, _watchLoading                             *)
  acts,        (* how many things the user has done                        *)
  dropped,     (* the requests cleared without an answer                   *)
  ignored      (* the requests the Editor was woken for in vain            *)

jvmVars == <<at, inbox, got>>
monitorVars == <<iq, sending>>
listenerVars == <<requests, calls, answering, left, dropped>>
editorVars == <<editor, text, saved, validated, ignored>>
vars == <<at, inbox, got, iq, sending, requests, gui, calls, answering, left,
          editor, text, saved, validated, watching, acts, dropped, ignored>>

Line(t) == [kind |-> "line", text |-> t]
End == [kind |-> "end", text |-> InitText]
Command == [kind |-> "command", text |-> InitText]
Loading(j) == at[j] \in {"opcodes", "hooks"}
-----------------------------------------------------------------------------
Init ==
  /\ at = [j \in Jvms |-> "new"]
  /\ inbox = [j \in Jvms |-> <<>>]
  /\ got = [j \in Jvms |-> <<>>]
  /\ iq = <<>>
  /\ sending = <<>>
  /\ requests = <<>>
  /\ gui = <<>>
  /\ calls = <<>>
  /\ answering = "no"
  /\ left = <<>>
  /\ editor \in {"closed", "wired"}
  /\ text = InitText
  /\ saved = InitText
  /\ validated = FALSE
  /\ watching = FALSE
  /\ acts = 0
  /\ dropped = {}
  /\ ignored = {}

(* The JVM is started: it connects and asks for the opcodes.               *)
Connect(j) ==
  /\ at[j] = "new"
  /\ at' = [at EXCEPT ![j] = "opcodes"]
  /\ iq' = Append(iq, [kind |-> "opcodes", jvm |-> j])
  /\ UNCHANGED <<inbox, got, sending, gui, watching, acts>>
  /\ UNCHANGED listenerVars /\ UNCHANGED editorVars

TextsOf(items) == [i \in 1 .. Len(items) |-> items[i].text]
LoadedBy(j, items) == IF at[j] = "hooks" THEN got[j] \o TextsOf(items) ELSE got[j]
Lines(items) ==
  LET upTo[i \in 0 .. Len(items)] ==
        IF i = 0 THEN <<>>
        ELSE IF items[i].kind = "line" THEN Append(upTo[i - 1], items[i]) ELSE upTo[i - 1]
  IN upTo[Len(items)]

(* A line is loaded; anything else that is not "<end>" makes load throw    *)
(* out of Agent_OnLoad, which ends the JVM.                                *)
ReadLine(j) ==
  /\ Loading(j)
  /\ inbox[j] # <<>>
  /\ Head(inbox[j]).kind # "end"
  /\ IF Head(inbox[j]).kind = "line"
     THEN /\ got' = [got EXCEPT ![j] = LoadedBy(j, <<Head(inbox[j])>>)]
          /\ inbox' = [inbox EXCEPT ![j] = Tail(@)]
          /\ UNCHANGED at
     ELSE /\ at' = [at EXCEPT ![j] = "died"]
          /\ inbox' = [inbox EXCEPT ![j] = <<>>]
          /\ UNCHANGED got
  /\ UNCHANGED <<iq, sending, gui, watching, acts>>
  /\ UNCHANGED listenerVars /\ UNCHANGED editorVars

(* "<end>" closes the connection, but what came in the same recv is still  *)
(* loaded; then the JVM connects again and sends its next request, or      *)
(* READY.                                                                  *)
ReadEnd(j) ==
  /\ Loading(j)
  /\ inbox[j] # <<>>
  /\ Head(inbox[j]).kind = "end"
  /\ \E n \in 0 .. Len(inbox[j]) - 1 :
       LET rest == SubSeq(Tail(inbox[j]), 1, n)
           next == IF at[j] = "opcodes" THEN "hooks" ELSE "loaded"
       IN IF Command \in ToSet(rest)
          THEN /\ at' = [at EXCEPT ![j] = "died"]
               /\ UNCHANGED <<got, iq>>
          ELSE /\ at' = [at EXCEPT ![j] = next]
               /\ got' = [got EXCEPT ![j] = LoadedBy(j, Lines(rest))]
               /\ iq' = Append(iq, [kind |-> next, jvm |-> j])
  /\ inbox' = [inbox EXCEPT ![j] = <<>>]
  /\ UNCHANGED <<sending, gui, watching, acts>>
  /\ UNCHANGED listenerVars /\ UNCHANGED editorVars
-----------------------------------------------------------------------------
(* mhandler dispatches the next request.  For the hooks FRListener notes   *)
(* the connection and wakes the Editor; the vector it appends to may be    *)
(* the one validated_signals walks, which may then not see its remaining   *)
(* elements any more.                                                      *)
Dispatch ==
  /\ sending = <<>>
  /\ iq # <<>>
  /\ iq' = Tail(iq)
  /\ LET j == Head(iq).jvm IN
     \/ /\ Head(iq).kind = "opcodes"
        /\ sending' = [i \in 1 .. OpcodeLines + 1 |->
                         [to |-> j, item |-> IF i <= OpcodeLines THEN Line(InitText) ELSE End]]
        /\ UNCHANGED <<requests, gui, left>>
     \/ /\ Head(iq).kind = "hooks"
        /\ requests' = Append(requests, j)
        /\ gui' = Append(gui, "validate")
        /\ left' \in {left, <<>>}
        /\ UNCHANGED sending
     \/ /\ Head(iq).kind = "loaded"
        /\ gui' = Append(gui, "ready")
        /\ UNCHANGED <<sending, requests, left>>
  /\ UNCHANGED <<calls, answering, dropped, watching, acts>>
  /\ UNCHANGED jvmVars /\ UNCHANGED editorVars

(* transmit_lines sends the next line of the opcode file.                  *)
SendOpcode ==
  /\ sending # <<>>
  /\ LET j == Head(sending).to IN
       inbox' = IF at[j] = "opcodes"
                THEN [inbox EXCEPT ![j] = Append(@, Head(sending).item)]
                ELSE inbox
  /\ sending' = Tail(sending)
  /\ UNCHANGED <<at, got, iq, gui, watching, acts>>
  /\ UNCHANGED listenerVars /\ UNCHANGED editorVars
-----------------------------------------------------------------------------
(* Editor::validate_signals: the text is sent if it is valid, and the      *)
(* validation is skipped while the text has not changed since it passed.   *)
(* Only an Editor that was opened in one of two ways is connected to       *)
(* FRMain.                                                                 *)
Validate(ed, always) ==
  LET passes == (validated /\ ~always) \/ text \in ValidTexts IN
  /\ validated' = (validated \/ passes)
  /\ calls' = IF passes /\ ed = "wired"
              THEN Append(calls, [kind |-> "hooks", text |-> text])
              ELSE calls

Broadcast == [kind |-> "broadcast", text |-> InitText]

(* The GUI thread handles its next event: a JVM wants hooks, or is ready.  *)
HandleEvent ==
  /\ gui # <<>>
  /\ gui' = Tail(gui)
  /\ \/ /\ Head(gui) = "validate"
        /\ LET ed == IF editor = "closed" THEN "wired" ELSE editor IN
             /\ editor' = ed
             /\ Validate(ed, FALSE)
             /\ ignored' = IF calls' = calls THEN ignored \cup ToSet(requests) ELSE ignored
     \/ /\ Head(gui) = "ready"
        /\ calls' = IF watching THEN Append(calls, Broadcast) ELSE calls
        /\ UNCHANGED <<editor, validated, ignored>>
  /\ UNCHANGED <<text, saved, iq, sending, requests, answering, left, dropped, watching, acts>>
  /\ UNCHANGED jvmVars

User(action) == action \in UserActions /\ acts < MaxUser /\ acts' = acts + 1

OpenEditor ==
  /\ User("open")
  /\ editor = "closed"
  /\ editor' = "wired"
  /\ UNCHANGED <<text, saved, validated, calls, watching>>

(* Closing the Editor forgets its text.                                    *)
CloseEditor ==
  /\ User("close")
  /\ editor # "closed"
  /\ editor' = "closed"
  /\ text' = saved
  /\ validated' = FALSE
  /\ UNCHANGED <<saved, calls, watching>>

(* Mutant: a changed text counts as validated still.                       *)
EditKeepsValidated ==
  /\ User("edit")
  /\ editor # "closed"
  /\ text' \in Texts
  /\ UNCHANGED <<editor, saved, validated, calls, watching>>

Edit ==
  /\ User("edit")
  /\ editor # "closed"
  /\ text' \in Texts
  /\ validated' = FALSE
  /\ UNCHANGED <<editor, saved, calls, watching>>

(* <s> on a descriptor in another window: FRMain::add_hook, which creates  *)
(* the Editor if need be and does not connect it.                          *)
AddHook ==
  /\ User("add_hook")
  /\ editor' = IF editor = "closed" THEN "unwired" ELSE editor
  /\ text' \in Texts
  /\ validated' = FALSE
  /\ UNCHANGED <<saved, calls, watching>>

Save ==
  /\ User("save")
  /\ editor # "closed"
  /\ saved' = text
  /\ UNCHANGED <<editor, text, validated, calls, watching>>

ValidateButton ==
  /\ User("validate")
  /\ editor # "closed"
  /\ Validate(editor, TRUE)
  /\ UNCHANGED <<editor, text, saved, watching>>

(* The user starts or stops a watch; every JVM is told.                    *)
Watch ==
  /\ User("watch")
  /\ watching' = ~watching
  /\ calls' = Append(calls, Broadcast)
  /\ UNCHANGED <<editor, text, saved, validated>>

UserActs ==
  /\ OpenEditor \/ CloseEditor \/ Edit \/ AddHook \/ Save \/ ValidateButton \/ Watch
  /\ UNCHANGED <<gui, requests, answering, left, dropped, ignored>>
  /\ UNCHANGED jvmVars /\ UNCHANGED monitorVars

(* A JVM that runs reports what it instrumented: Editor::update, through   *)
(* an instance that nothing connects.                                      *)
InstrumentationReport ==
  /\ \E j \in Jvms : at[j] = "loaded"
  /\ editor = "closed"
  /\ editor' = "unwired"
  /\ UNCHANGED <<text, saved, validated, ignored, gui, watching, acts>>
  /\ UNCHANGED jvmVars /\ UNCHANGED monitorVars /\ UNCHANGED listenerVars
-----------------------------------------------------------------------------
(* The thread of FRListener takes its next call: validated_signals begins, *)
(* or a command goes to every connection there is.                         *)
TakeCall ==
  /\ answering = "no"
  /\ calls # <<>>
  /\ calls' = Tail(calls)
  /\ IF Head(calls).kind = "hooks"
     THEN /\ answering' = Head(calls).text
          /\ left' = requests
          /\ UNCHANGED inbox
     ELSE /\ inbox' = [j \in Jvms |-> IF Loading(j) THEN Append(inbox[j], Command) ELSE inbox[j]]
          /\ UNCHANGED <<answering, left>>
  /\ UNCHANGED <<at, got, gui, requests, dropped, watching, acts>>
  /\ UNCHANGED monitorVars /\ UNCHANGED editorVars

(* Mutant: the list is sent without its "<end>".                           *)
AnswerWithoutEnd ==
  /\ answering # "no"
  /\ left # <<>>
  /\ left' = Tail(left)
  /\ inbox' = IF at[Head(left)] = "hooks"
              THEN [inbox EXCEPT ![Head(left)] = Append(@, Line(answering))]
              ELSE inbox
  /\ UNCHANGED <<at, got, gui, requests, calls, answering, dropped, watching, acts>>
  /\ UNCHANGED monitorVars /\ UNCHANGED editorVars

(* ... it sends the text to the next connection that asked.                *)
Answer ==
  /\ answering # "no"
  /\ left # <<>>
  /\ left' = Tail(left)
  /\ inbox' = IF at[Head(left)] = "hooks"
              THEN [inbox EXCEPT ![Head(left)] = @ \o <<Line(answering), End>>]
              ELSE inbox
  /\ UNCHANGED <<at, got, gui, requests, calls, answering, dropped, watching, acts>>
  /\ UNCHANGED monitorVars /\ UNCHANGED editorVars

(* j waits for its hooks no more, or some have been sent to it.            *)
Answered(j) ==
  \/ at[j] # "hooks"
  \/ got[j] # <<>>
  \/ \E i \in DOMAIN inbox[j] : inbox[j][i].kind = "line"

(* ... and clears the requests, the ones noted meanwhile included.         *)
ClearRequests ==
  /\ answering # "no"
  /\ left = <<>>
  /\ answering' = "no"
  /\ requests' = <<>>
  /\ dropped' = dropped \cup {j \in ToSet(requests) : ~Answered(j)}
  /\ UNCHANGED <<gui, calls, left, watching, acts>>
  /\ UNCHANGED jvmVars /\ UNCHANGED monitorVars /\ UNCHANGED editorVars

Jvm(j) == ReadLine(j) \/ ReadEnd(j)
Mhandler == Dispatch \/ SendOpcode
Listener == TakeCall \/ Answer \/ ClearRequests

Next ==
  \/ \E j \in Jvms : Connect(j) \/ Jvm(j)
  \/ Mhandler
  \/ HandleEvent
  \/ Listener
  \/ UserActs
  \/ InstrumentationReport

(* Every thread runs; users and applications do as they please.            *)
Fairness ==
  /\ \A j \in Jvms : WF_vars(Jvm(j))
  /\ WF_vars(Mhandler)
  /\ WF_vars(HandleEvent)
  /\ WF_vars(Listener)

Spec == Init /\ [][Next]_vars /\ Fairness
-----------------------------------------------------------------------------
(* What is on its way: to a JVM, from one, to the GUI and the listener.     *)
Item == [kind : {"line", "end", "command"}, text : Texts]
Request == [kind : {"opcodes", "hooks", "loaded"}, jvm : Jvms]
Call == [kind : {"hooks", "broadcast"}, text : Texts]
Delivery == [to : Jvms, item : Item]

(* The queues and what the JVMs have loaded.                               *)
Types ==
  /\ at \in [Jvms -> {"new", "opcodes", "hooks", "loaded", "died"}]
  /\ inbox \in [Jvms -> Seq(Item)]
  /\ got \in [Jvms -> Seq(Texts)]
  /\ iq \in Seq(Request)
  /\ sending \in Seq(Delivery)
  /\ requests \in Seq(Jvms)
  /\ gui \in Seq({"validate", "ready"})
  /\ calls \in Seq(Call)
  /\ left \in Seq(Jvms)
  /\ text \in Texts
  /\ saved \in Texts

TypeOK ==
  /\ Types
  /\ answering \in Texts \cup {"no"}
  /\ editor \in {"closed", "wired", "unwired"}
  /\ validated \in BOOLEAN /\ watching \in BOOLEAN
  /\ dropped \subseteq Jvms /\ ignored \subseteq Jvms

(* No JVM is given a text that has not passed validation, whatever the     *)
(* user typed since the last validation and whichever Editor window is up; *)
(* and a JVM that runs has loaded one list of hooks, once: two validations *)
(* on the way do not answer it twice.                                      *)
OneValidList ==
  \A j \in Jvms :
    /\ ToSet(got[j]) \subseteq ValidTexts
    /\ Len(got[j]) <= 1
    /\ at[j] = "loaded" => Len(got[j]) = 1

(* A JVM that asks for hooks gets them, unless its request was cleared     *)
(* with another's, or the Editor was not connected or its text not valid   *)
(* when the request woke it.                                               *)
HooksArrive ==
  \A j \in Jvms :
    at[j] = "hooks" ~> (at[j] # "hooks" \/ j \in dropped \/ j \in ignored)
=============================================================================
