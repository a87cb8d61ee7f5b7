---------------------------- MODULE FifoChannel -----------------------------
(***************************************************************************)
(* What the rest of French-Roast takes a connection to be: messages are    *)
(* delivered whole, in the order they were sent, none twice and none that  *)
(* was not sent; a connection that breaks may lose a suffix of them.       *)
(* SocketStream implements it with a byte stream; SignalSender feeds it    *)
(* and MonitorInbox reads from it.                                         *)
(***************************************************************************)
EXTENDS Naturals, Sequences

CONSTANTS
  Messages,    (* what may be sent                                         *)
  MaxSent      (* bound of the model: messages sent                        *)

VARIABLES
  sent,        (* every message sent, in order                             *)
  delivered,   (* every message handed to the Listener, in order           *)
  up           (* the connection still accepts messages                    *)

vars == <<sent, delivered, up>>

Init == sent = <<>> /\ delivered = <<>> /\ up = TRUE

Send(m) ==
  /\ up
  /\ Len(sent) < MaxSent
  /\ sent' = Append(sent, m)
  /\ UNCHANGED <<delivered, up>>

Deliver ==
  /\ Len(delivered) < Len(sent)
  /\ delivered' = Append(delivered, sent[Len(delivered) + 1])
  /\ UNCHANGED <<sent, up>>

Close ==
  /\ up
  /\ up' = FALSE
  /\ UNCHANGED <<sent, delivered>>

Next == (\E m \in Messages : Send(m)) \/ Deliver \/ Close

Spec == Init /\ [][Next]_vars
=============================================================================
