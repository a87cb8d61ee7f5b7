---------------------------- MODULE MonitorInbox ----------------------------
(***************************************************************************)
(* The receiving half of the monitor (monitor/include/Monitor.h, with      *)
(* wait_for_client_connection of network/include/Connector.h).  The accept *)
(* thread announces each connection with a "connected~" message and then   *)
(* starts a thread for it; every such thread calls Monitor::message, which *)
(* splits a message at "<end>" and pushes the pieces on _iq, waiting       *)
(* busily while _iq is full; the one thread mhandler pops and dispatches.  *)
(*                                                                         *)
(* _iq is a boost::lockfree::spsc_queue, a ring for ONE producer.  Its push *)
(* reads write_index, fills that slot and stores the next index; the model *)
(* separates the read from the store, because several threads push here.   *)
(***************************************************************************)
EXTENDS Integers, Sequences

CONSTANTS
  Conns,       (* the connections                                          *)
  Acceptor,    (* the accept thread                                        *)
  Capacity,    (* 15000 in the code: what _iq can hold                     *)
  Histories    (* bound of the model: what the connections may carry       *)

Kinds == {"READY", "REPORT", "UNLOADED"}
Carried == [kind : Kinds, reports : Seq([n : Nat])]

ASSUME InboxAssumption ==
  /\ Acceptor \notin Conns
  /\ Capacity \in Nat \ {0}
  /\ Histories \subseteq [Conns -> Seq(Carried)]

VARIABLES
  sent,        (* the messages of each connection: the environment         *)
  taken,       (* how many of them its thread has handed to message()      *)
  conn,        (* "none", "accepted" (announced), "running" (has a thread) *)
  todo,        (* the pieces a thread has still to push                    *)
  loaded,      (* the write_index a thread has read, or NotLoaded          *)
  slots,       (* the ring of _iq                                          *)
  writeIndex,  (* write_index_                                             *)
  readIndex,   (* read_index_                                              *)
  accepted,    (* every piece whose push returned true, in order           *)
  handled,     (* every piece mhandler has dispatched, in order            *)
  raced        (* a push finished while another had read its write_index   *)

vars == <<sent, taken, conn, todo, loaded, slots, writeIndex, readIndex,
          accepted, handled, raced>>
inboxVars == <<taken, conn, todo, loaded, slots, writeIndex, readIndex,
               accepted, handled, raced>>

Writers == Conns \cup {Acceptor}
Slots == 0 .. Capacity              \* one slot more than it can hold
NotLoaded == Capacity + 1
NextIndex(i) == (i + 1) % (Capacity + 1)

(* Mutant: the split keeps only the last report of a message.              *)
PiecesLast(c, m) ==
  IF m.reports = <<>>
  THEN <<[conn |-> c, kind |-> m.kind, n |-> 0]>>
  ELSE <<[conn |-> c, kind |-> m.kind, n |-> m.reports[Len(m.reports)].n]>>

(* Monitor::message: the pieces of a message.  READY and UNLOADED have     *)
(* no "<end>" in them and are one piece.                                   *)
Pieces(c, m) ==
  IF m.reports = <<>>
  THEN <<[conn |-> c, kind |-> m.kind, n |-> 0]>>
  ELSE [i \in 1 .. Len(m.reports) |->
          [conn |-> c, kind |-> m.kind, n |-> m.reports[i].n]]

Connected(c) == [conn |-> c, kind |-> "CONNECTED", n |-> 0]

(* What _iq holds, oldest first.                                           *)
Queued ==
  [i \in 1 .. ((writeIndex - readIndex) % (Capacity + 1)) |->
     slots[(readIndex + i - 1) % (Capacity + 1)]]
-----------------------------------------------------------------------------
InboxInit ==
  /\ taken = [c \in Conns |-> 0]
  /\ conn = [c \in Conns |-> "none"]
  /\ todo = [w \in Writers |-> <<>>]
  /\ loaded = [w \in Writers |-> NotLoaded]
  /\ slots = [i \in Slots |-> Connected(Acceptor)]
  /\ writeIndex = 0
  /\ readIndex = 0
  /\ accepted = <<>>
  /\ handled = <<>>
  /\ raced = FALSE

(* wait_for_client_connection: the accept thread calls message("connected~..."). *)
Accept(c) ==
  /\ conn[c] = "none"
  /\ \A d \in Conns : conn[d] # "accepted"
  /\ conn' = [conn EXCEPT ![c] = "accepted"]
  /\ todo' = [todo EXCEPT ![Acceptor] = <<Connected(c)>>]
  /\ UNCHANGED <<taken, loaded, slots, writeIndex, readIndex, accepted, handled, raced>>

(* message() has returned: the accept thread starts the connection's thread. *)
StartThread(c) ==
  /\ conn[c] = "accepted"
  /\ todo[Acceptor] = <<>>
  /\ conn' = [conn EXCEPT ![c] = "running"]
  /\ UNCHANGED <<taken, todo, loaded, slots, writeIndex, readIndex, accepted, handled, raced>>

(* process_instream delivers the next message of c: message() splits it.   *)
TakeMessage(c) ==
  /\ conn[c] = "running"
  /\ todo[c] = <<>>
  /\ taken[c] < Len(sent[c])
  /\ taken' = [taken EXCEPT ![c] = @ + 1]
  /\ todo' = [todo EXCEPT ![c] = Pieces(c, sent[c][taken[c] + 1])]
  /\ UNCHANGED <<conn, loaded, slots, writeIndex, readIndex, accepted, handled, raced>>

(* Mutant: the piece is pushed though the ring is full.                    *)
LoadIndexUnchecked(w) ==
  /\ todo[w] # <<>>
  /\ loaded[w] = NotLoaded
  /\ loaded' = [loaded EXCEPT ![w] = writeIndex]
  /\ UNCHANGED <<taken, conn, todo, slots, writeIndex, readIndex, accepted, handled, raced>>

(* _iq.push reads write_index; when the ring is full it returns false and  *)
(* message() tries again, so the step is enabled when there is room.       *)
LoadIndex(w) ==
  /\ todo[w] # <<>>
  /\ loaded[w] = NotLoaded
  /\ NextIndex(writeIndex) # readIndex
  /\ loaded' = [loaded EXCEPT ![w] = writeIndex]
  /\ UNCHANGED <<taken, conn, todo, slots, writeIndex, readIndex, accepted, handled, raced>>

(* _iq.push fills the slot and stores the index after the one it read.     *)
StoreIndex(w) ==
  /\ loaded[w] # NotLoaded
  /\ slots' = [slots EXCEPT ![loaded[w]] = Head(todo[w])]
  /\ writeIndex' = NextIndex(loaded[w])
  /\ accepted' = Append(accepted, Head(todo[w]))
  /\ todo' = [todo EXCEPT ![w] = Tail(@)]
  /\ loaded' = [loaded EXCEPT ![w] = NotLoaded]
  /\ raced' = (raced \/ \E v \in Writers \ {w} : loaded[v] # NotLoaded)
  /\ UNCHANGED <<taken, conn, readIndex, handled>>

(* Mutant: the handler takes no piece while a push is under way.           *)
HandleWhenQuiet ==
  /\ readIndex # writeIndex
  /\ \A w \in Writers : todo[w] = <<>>
  /\ handled' = Append(handled, slots[readIndex])
  /\ readIndex' = NextIndex(readIndex)
  /\ UNCHANGED <<taken, conn, todo, loaded, slots, writeIndex, accepted, raced>>

(* mhandler pops a piece and dispatches it.                                *)
Handle ==
  /\ readIndex # writeIndex
  /\ handled' = Append(handled, slots[readIndex])
  /\ readIndex' = NextIndex(readIndex)
  /\ UNCHANGED <<taken, conn, todo, loaded, slots, writeIndex, accepted, raced>>

InboxNext ==
  \/ \E c \in Conns : Accept(c) \/ StartThread(c) \/ TakeMessage(c)
  \/ \E w \in Writers : LoadIndex(w) \/ StoreIndex(w)
  \/ Handle

Init == InboxInit /\ sent \in Histories

Next == InboxNext /\ UNCHANGED sent

(* Every thread of the monitor runs; mhandler polls every 50 milliseconds. *)
Fairness ==
  /\ \A c \in Conns :
       WF_vars((StartThread(c) \/ TakeMessage(c)) /\ UNCHANGED sent)
  /\ \A w \in Writers :
       WF_vars((LoadIndex(w) \/ StoreIndex(w)) /\ UNCHANGED sent)
  /\ WF_vars(Handle /\ UNCHANGED sent)

Spec == Init /\ [][Next]_vars /\ Fairness
-----------------------------------------------------------------------------
Piece == [conn : Writers, kind : Kinds \cup {"CONNECTED"}, n : Nat]

InboxTypeOK ==
  /\ taken \in [Conns -> Nat]
  /\ conn \in [Conns -> {"none", "accepted", "running"}]
  /\ todo \in [Writers -> Seq(Piece)]
  /\ loaded \in [Writers -> Slots \cup {NotLoaded}]
  /\ slots \in [Slots -> Piece]
  /\ writeIndex \in Slots
  /\ readIndex \in Slots
  /\ accepted \in Seq(Piece)
  /\ handled \in Seq(Piece)
  /\ raced \in BOOLEAN

(* Unless two pushes overlapped, the ring is a FIFO: what was pushed is    *)
(* what has been dispatched followed by what is queued.  It takes two      *)
(* connections: the pushes of one never overlap with one another nor with  *)
(* the accept thread's announcement of it.                                 *)
IntactUnlessRaced ==
  /\ ~raced => accepted = handled \o Queued
  /\ raced => \E c, d \in Conns : c # d /\ conn[c] # "none" /\ conn[d] # "none"

(* Every piece that message() is given is dispatched, however full the     *)
(* queue is, unless two pushes overlapped.                                 *)
EveryPieceHandled ==
  \A c \in Conns :
    conn[c] = "running" ~>
      (raced \/ (taken[c] = Len(sent[c]) /\ todo[c] = <<>> /\ handled = accepted))
=============================================================================
