--------------------------- MODULE ReportPipeline ---------------------------
(***************************************************************************)
(* The way of a report from a profiled JVM to the monitor's dispatcher:    *)
(* SignalSender in each agent, one connection per agent, MonitorInbox in   *)
(* the monitor.  The two share the variable sent; between them a           *)
(* connection is the FIFO that SocketStream implements: the inbox takes    *)
(* the messages of a connection whole and in order.                        *)
(***************************************************************************)
EXTENDS SignalSender

CONSTANTS
  Acceptor,    (* the thread that accepts connections                      *)
  Capacity     (* of _iq                                                   *)

ASSUME PipelineAssumption ==
  /\ Acceptor \notin Agents
  /\ Capacity \in Nat \ {0}

VARIABLES
  taken, conn, todo, loaded, slots, writeIndex, readIndex, accepted, handled, raced

senderVars == <<phase, pushed, signalQueue, buffer, senderAt, unsent, sent>>
inboxVars == <<taken, conn, todo, loaded, slots, writeIndex, readIndex,
               accepted, handled, raced>>
pipelineVars == <<phase, pushed, signalQueue, buffer, senderAt, unsent, sent,
                  taken, conn, todo, loaded, slots, writeIndex, readIndex,
                  accepted, handled, raced>>

Inbox == INSTANCE MonitorInbox WITH Conns <- Agents, Histories <- {}

PipelineInit == Init /\ Inbox!InboxInit

PipelineNext ==
  \/ Next /\ UNCHANGED inboxVars
  \/ Inbox!InboxNext /\ UNCHANGED senderVars

PipelineFairness ==
  /\ \A a \in Agents :
       /\ WF_pipelineVars((Pop(a) \/ Drained(a) \/ Flush(a) \/ SendPiece(a)) /\ UNCHANGED inboxVars)
       /\ WF_pipelineVars(Inbox!Accept(a) /\ UNCHANGED senderVars)
       /\ WF_pipelineVars(Inbox!StartThread(a) /\ UNCHANGED senderVars)
       /\ WF_pipelineVars(Inbox!TakeMessage(a) /\ UNCHANGED senderVars)
  /\ \A w \in Agents \cup {Acceptor} :
       WF_pipelineVars((Inbox!LoadIndex(w) \/ Inbox!StoreIndex(w)) /\ UNCHANGED senderVars)
  /\ WF_pipelineVars(Inbox!Handle /\ UNCHANGED senderVars)

PipelineSpec == PipelineInit /\ [][PipelineNext]_pipelineVars /\ PipelineFairness
-----------------------------------------------------------------------------
(* What a sequence of pieces holds before its i-th of the same connection, *)
(* and the ranks of the reports and the kinds there are in a set of pieces. *)
Earlier(s, i) == {s[h] : h \in {h \in 1 .. i - 1 : s[h].conn = s[i].conn}}
Ranks(pieces) == {p.n : p \in {p \in pieces : p.kind = "REPORT"}}
KindsOf(pieces) == {p.kind : p \in pieces}

(* A connection's announcement comes first, then READY, then the agent's   *)
(* reports with none missing, none twice and in the order in which they    *)
(* were queued in the JVM (an UNLOADED may come between).                  *)
InOrder(s) ==
  \A i \in 1 .. Len(s) :
    /\ s[i].kind = "CONNECTED" <=> Earlier(s, i) = {}
    /\ s[i].kind = "READY" <=> KindsOf(Earlier(s, i)) = {"CONNECTED"}
    /\ s[i].kind = "REPORT" => Ranks(Earlier(s, i)) = 1 .. s[i].n - 1

(* Unless two connections raced on _iq, the dispatcher sees the pieces of  *)
(* every connection in this order.                                         *)
DispatchedInOrder == ~raced => InOrder(handled)

(* A report queued in a JVM reaches the dispatcher, unless the JVM ends    *)
(* first or two connections raced on _iq.                                  *)
EveryReportDispatched ==
  \A a \in Agents : \A r \in 1 .. MaxPushed :
    pushed[a] >= r ~>
      ( \/ \E i \in 1 .. Len(handled) :
             handled[i].conn = a /\ handled[i].kind = "REPORT" /\ handled[i].n = r
        \/ phase[a] = "gone"
        \/ raced )
=============================================================================
