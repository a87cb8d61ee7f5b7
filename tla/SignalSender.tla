---------------------------- MODULE SignalSender ----------------------------
(***************************************************************************)
(* The reporting half of the agents (agent/src/Agent.cpp, Reporter.cpp).   *)
(* Every JVMTI callback and every agent thread pushes its report on one    *)
(* lock-free queue, _signalQueue; the thread signal_sender pops them, joins *)
(* up to nine with "<end>" and hands the joined text to the Reporter, which *)
(* sends it as one message unless it is longer than MAX_MSG_SIZE.          *)
(*                                                                         *)
(* A report is a record: its rank n in the order the queue accepted it (a  *)
(* history value the code does not have) and its size.  A message is the   *)
(* sequence of the reports joined in it.  What becomes of a message once   *)
(* it is sent is the business of SocketStream and MonitorInbox.            *)
(***************************************************************************)
EXTENDS Integers, Sequences, SequencesExt

CONSTANTS
  Agents,      (* the JVMs being profiled                                  *)
  Sizes,       (* the sizes a report may have                              *)
  BatchSize,   (* 9 in the code: reports joined in one message             *)
  MaxMsgSize,  (* MAX_MSG_SIZE, 3000 in the code                           *)
  EndSize,     (* the length of the separator "<end>"                      *)
  MaxPushed    (* bound of the model: reports pushed by one agent          *)

ASSUME SenderAssumption ==
  /\ Sizes \subseteq Nat \ {0}
  /\ BatchSize \in Nat \ {0}
  /\ MaxMsgSize \in Nat \ {0}
  /\ EndSize \in Nat \ {0}
  /\ MaxPushed \in Nat

VARIABLES
  phase,       (* the life of an agent: "loading", "running", "unloading", "gone" *)
  pushed,      (* how many reports the queue has accepted                  *)
  signalQueue, (* _signalQueue, a linearizable multi-producer FIFO         *)
  buffer,      (* the reports joined in signal_sender's buffer             *)
  senderAt,    (* where signal_sender is: "pop" or "sleep"                 *)
  unsent,      (* the messages that Reporter::signal has still to send     *)
  sent         (* every message written to the socket, in order            *)

vars == <<phase, pushed, signalQueue, buffer, senderAt, unsent, sent>>

Report == [n : Nat \ {0}, size : Sizes]
Message == [kind : {"READY", "REPORT", "UNLOADED"}, reports : Seq(Report)]
Ready == [kind |-> "READY", reports |-> <<>>]
Unloaded == [kind |-> "UNLOADED", reports |-> <<>>]
Joined(s) == [kind |-> "REPORT", reports |-> s]

(* The length of the text signal_sender has joined.                        *)
JoinedSize(s) ==
  FoldLeft(LAMBDA acc, r : acc + r.size, EndSize * (Len(s) - 1), s)

(* Mutant: the length of the joined text is not looked at.                 *)
SignalMessagesUnsplit(s) == <<Joined(s)>>

(* What Reporter::signal sends: one message, or one message per report     *)
(* when the joined text is longer than MAX_MSG_SIZE.                       *)
SignalMessages(s) ==
  IF JoinedSize(s) > MaxMsgSize
  THEN [i \in 1..Len(s) |-> Joined(<<s[i]>>)]
  ELSE <<Joined(s)>>

(* The threads VMInit starts run until the process ends.                   *)
Threads(a) == phase[a] \in {"running", "unloading"}
-----------------------------------------------------------------------------
Init ==
  /\ phase = [a \in Agents |-> "loading"]
  /\ pushed = [a \in Agents |-> 0]
  /\ signalQueue = [a \in Agents |-> <<>>]
  /\ buffer = [a \in Agents |-> <<>>]
  /\ senderAt = [a \in Agents |-> "pop"]
  /\ unsent = [a \in Agents |-> <<>>]
  /\ sent = [a \in Agents |-> <<>>]

(* Mutant: the agent starts without announcing itself.                     *)
StartSilently(a) ==
  /\ phase[a] = "loading"
  /\ phase' = [phase EXCEPT ![a] = "running"]
  /\ UNCHANGED <<pushed, signalQueue, buffer, senderAt, unsent, sent>>

(* Agent_OnLoad ends with _rptr.ready(); VMInit then starts signal_sender  *)
(* and the other threads.                                                  *)
Start(a) ==
  /\ phase[a] = "loading"
  /\ phase' = [phase EXCEPT ![a] = "running"]
  /\ sent' = [sent EXCEPT ![a] = Append(@, Ready)]
  /\ UNCHANGED <<pushed, signalQueue, buffer, senderAt, unsent>>

(* A callback or an agent thread queues a report.                          *)
Push(a) ==
  /\ Threads(a)
  /\ pushed[a] < MaxPushed
  /\ pushed' = [pushed EXCEPT ![a] = @ + 1]
  /\ \E size \in Sizes :
       signalQueue' = [signalQueue EXCEPT ![a] =
                         Append(@, [n |-> pushed[a] + 1, size |-> size])]
  /\ UNCHANGED <<phase, buffer, senderAt, unsent, sent>>

(* signal_sender is done with Reporter::signal.                            *)
Idle(a) == Threads(a) /\ unsent[a] = <<>>

(* Mutant: the rest of a batch is given up when a piece has been sent.     *)
SendPieceOnly(a) ==
  /\ Threads(a)
  /\ unsent[a] # <<>>
  /\ sent' = [sent EXCEPT ![a] = Append(@, Head(unsent[a]))]
  /\ unsent' = [unsent EXCEPT ![a] = <<>>]
  /\ UNCHANGED <<phase, pushed, signalQueue, buffer, senderAt>>

(* Reporter::signal sends the next message; other threads go on between    *)
(* the pieces of a batch, and the process may end there.                   *)
SendPiece(a) ==
  /\ Threads(a)
  /\ unsent[a] # <<>>
  /\ sent' = [sent EXCEPT ![a] = Append(@, Head(unsent[a]))]
  /\ unsent' = [unsent EXCEPT ![a] = Tail(@)]
  /\ UNCHANGED <<phase, pushed, signalQueue, buffer, senderAt>>

(* signal_sender pops a report and joins it; the ninth report completes a  *)
(* batch, which is given to Reporter::signal.                              *)
Pop(a) ==
  LET joined == Append(buffer[a], Head(signalQueue[a])) IN
  /\ Idle(a)
  /\ senderAt[a] = "pop"
  /\ signalQueue[a] # <<>>
  /\ signalQueue' = [signalQueue EXCEPT ![a] = Tail(@)]
  /\ IF Len(joined) = BatchSize
     THEN /\ unsent' = [unsent EXCEPT ![a] = SignalMessages(joined)]
          /\ buffer' = [buffer EXCEPT ![a] = <<>>]
     ELSE /\ buffer' = [buffer EXCEPT ![a] = joined]
          /\ UNCHANGED unsent
  /\ UNCHANGED <<phase, pushed, senderAt, sent>>

(* The queue is empty: signal_sender sleeps 20 milliseconds.               *)
Drained(a) ==
  /\ Idle(a)
  /\ senderAt[a] = "pop"
  /\ signalQueue[a] = <<>>
  /\ senderAt' = [senderAt EXCEPT ![a] = "sleep"]
  /\ UNCHANGED <<phase, pushed, signalQueue, buffer, unsent, sent>>

(* Mutant: the buffer is not cleared after an incomplete batch is sent.    *)
FlushKeepsBuffer(a) ==
  /\ Idle(a)
  /\ senderAt[a] = "sleep"
  /\ senderAt' = [senderAt EXCEPT ![a] = "pop"]
  /\ unsent' = [unsent EXCEPT ![a] = IF buffer[a] # <<>> THEN SignalMessages(buffer[a]) ELSE @]
  /\ UNCHANGED <<phase, pushed, signalQueue, buffer, sent>>

(* Mutant: only full batches are sent.                                     *)
FlushNothing(a) ==
  /\ Idle(a)
  /\ senderAt[a] = "sleep"
  /\ senderAt' = [senderAt EXCEPT ![a] = "pop"]
  /\ UNCHANGED <<phase, pushed, signalQueue, buffer, unsent, sent>>

(* signal_sender wakes up and gives an incomplete batch to the Reporter.   *)
Flush(a) ==
  /\ Idle(a)
  /\ senderAt[a] = "sleep"
  /\ senderAt' = [senderAt EXCEPT ![a] = "pop"]
  /\ IF buffer[a] # <<>>
     THEN /\ unsent' = [unsent EXCEPT ![a] = SignalMessages(buffer[a])]
          /\ buffer' = [buffer EXCEPT ![a] = <<>>]
     ELSE UNCHANGED <<unsent, buffer>>
  /\ UNCHANGED <<phase, pushed, signalQueue, sent>>

(* Agent_OnUnload reports UNLOADED from the thread that unloads the agent; *)
(* the other threads still run.                                            *)
Unload(a) ==
  /\ phase[a] = "running"
  /\ phase' = [phase EXCEPT ![a] = "unloading"]
  /\ sent' = [sent EXCEPT ![a] = Append(@, Unloaded)]
  /\ UNCHANGED <<pushed, signalQueue, buffer, senderAt, unsent>>

(* The process ends: after Agent_OnUnload, by a crash of the JVM, or by    *)
(* the exit(0) of a socket error.                                          *)
Exit(a) ==
  /\ phase[a] # "gone"
  /\ phase' = [phase EXCEPT ![a] = "gone"]
  /\ UNCHANGED <<pushed, signalQueue, buffer, senderAt, unsent, sent>>

Next ==
  \E a \in Agents :
    \/ Start(a) \/ Push(a) \/ Unload(a) \/ Exit(a)
    \/ Pop(a) \/ Drained(a) \/ Flush(a) \/ SendPiece(a)

(* signal_sender is a loop that never blocks.                              *)
Fairness ==
  \A a \in Agents : WF_vars(Pop(a) \/ Drained(a) \/ Flush(a) \/ SendPiece(a))

Spec == Init /\ [][Next]_vars /\ Fairness
-----------------------------------------------------------------------------
(* The variables hold values of their types.                               *)
TypeOK ==
  /\ phase \in [Agents -> {"loading", "running", "unloading", "gone"}]
  /\ pushed \in [Agents -> Nat]
  /\ signalQueue \in [Agents -> Seq(Report)]
  /\ buffer \in [Agents -> Seq(Report)]
  /\ senderAt \in [Agents -> {"pop", "sleep"}]
  /\ unsent \in [Agents -> Seq(Message)]
  /\ sent \in [Agents -> Seq(Message)]

(* Ranks increase within a message and from one message to a later one.    *)
Ordered(ms) ==
  /\ \A k \in 1..Len(ms) : \A i, j \in 1..Len(ms[k].reports) :
       i < j => ms[k].reports[i].n < ms[k].reports[j].n
  /\ \A k, l \in 1..Len(ms) : k < l =>
       \A i \in 1..Len(ms[k].reports), j \in 1..Len(ms[l].reports) :
         ms[k].reports[i].n < ms[l].reports[j].n

(* The report of rank r is in one of the messages.                         *)
Carries(ms, r) ==
  \E k \in 1..Len(ms) : \E i \in 1..Len(ms[k].reports) : ms[k].reports[i].n = r

(* Reports leave in the order the queue accepted them, and none leaves     *)
(* twice, whether signal_sender sent a full batch, flushed an incomplete   *)
(* one, or Reporter::signal split a long one.                              *)
SentInOrder == \A a \in Agents : Ordered(sent[a])

(* No report is lost in the agent, and none is sent before it is popped:   *)
(* all but the ones still in the buffer and in the queue have been sent or *)
(* are in a piece that Reporter::signal has still to send.                 *)
NothingLost ==
  \A a \in Agents : \A r \in 1..pushed[a] :
    (Carries(sent[a], r) \/ Carries(unsent[a], r))
      <=> r <= pushed[a] - Len(buffer[a]) - Len(signalQueue[a])

(* A message is never longer than MAX_MSG_SIZE unless a single report is,  *)
(* which is what the receive buffer of Connector.h relies on.              *)
MessageFits ==
  \A a \in Agents : \A k \in 1..Len(sent[a]) :
    /\ Len(sent[a][k].reports) <= BatchSize
    /\ Len(sent[a][k].reports) > 1 => ~(JoinedSize(sent[a][k].reports) > MaxMsgSize)

(* The monitor hears READY, once, before any report: it is what makes the  *)
(* monitor know the connection's host and pid.                             *)
ReadyFirst ==
  \A a \in Agents : \A k \in 1..Len(sent[a]) :
    sent[a][k].kind = "READY" <=> k = 1

(* Every report accepted by the queue is sent while the process lives: an  *)
(* incomplete batch does not wait for a ninth report.                      *)
EveryReportSent ==
  \A a \in Agents : \A r \in 1..MaxPushed :
    pushed[a] >= r ~> (Carries(sent[a], r) \/ phase[a] = "gone")
=============================================================================
