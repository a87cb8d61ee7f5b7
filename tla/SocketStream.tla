---------------------------- MODULE SocketStream ----------------------------
(***************************************************************************)
(* A connection as the code has it (network/include/Connector.h,           *)
(* FRSocket.cpp).  FRSocket::send writes the characters of a message and   *)
(* its terminating NUL to a TCP stream; process_instream, one thread per   *)
(* connection, reads the stream in fragments of any size up to             *)
(* MAX_MSG_SIZE, collects them in flowbuf, copies each NUL-terminated      *)
(* piece to strbuf and hands it to the Listener, and moves the incomplete  *)
(* rest to the front of flowbuf.                                           *)
(*                                                                         *)
(* A message is a sequence of characters.  The module checks that this     *)
(* reassembly implements FifoChannel, and when its buffers are too small.  *)
(***************************************************************************)
EXTENDS Integers, Sequences

CONSTANTS
  Char,        (* the characters of a message                              *)
  NUL,         (* the terminator, no character of any message              *)
  Messages,    (* what may be sent                                         *)
  MaxSent,     (* bound of the model: messages sent                        *)
  MaxMsgSize,  (* MAX_MSG_SIZE, 3000 in the code                           *)
  Slack        (* 10 in the code: what flowbuf has beyond 2 * MAX_MSG_SIZE *)

RecvSize == MaxMsgSize              \* sizeof(databuf)
FlowSize == 2 * MaxMsgSize + Slack  \* sizeof(flowbuf)
StrSize  == 2 * MaxMsgSize          \* sizeof(strbuf)

ASSUME StreamAssumption ==
  /\ NUL \notin Char
  /\ Messages \subseteq Seq(Char)
  /\ MaxSent \in Nat
  /\ MaxMsgSize \in Nat \ {0}
  /\ Slack \in Nat

VARIABLES
  sent,        (* every message sent, in order                             *)
  stream,      (* the bytes sent and not yet received                      *)
  peer,        (* the sender's end: "open", "closed", or "reset"           *)
  flowbuf,     (* the bytes in flowbuf                                     *)
  start,       (* how many of them have been delivered                     *)
  readerAt,    (* process_instream: "recv", "scan", or "gone"              *)
  delivered,   (* every message handed to the Listener, in order           *)
  fault        (* "none", "terminated" (flowbuf would overflow), or        *)
               (* "smashed" (strbuf is overrun, which is undefined)        *)

vars == <<sent, stream, peer, flowbuf, start, readerAt, delivered, fault>>

(* The position of the first NUL of flowbuf that is not yet delivered.     *)
IsNextEnd(e) ==
  /\ e \in (start + 1) .. Len(flowbuf)
  /\ flowbuf[e] = NUL
  /\ \A i \in (start + 1) .. (e - 1) : flowbuf[i] # NUL
-----------------------------------------------------------------------------
Init ==
  /\ sent = <<>> /\ stream = <<>> /\ peer = "open"
  /\ flowbuf = <<>> /\ start = 0 /\ readerAt = "recv"
  /\ delivered = <<>> /\ fault = "none"

(* FRSocket::send writes length + 1 bytes.                                 *)
Send(m) ==
  /\ peer = "open"
  /\ fault = "none"
  /\ Len(sent) < MaxSent
  /\ sent' = Append(sent, m)
  /\ stream' = stream \o Append(m, NUL)
  /\ UNCHANGED <<peer, flowbuf, start, readerAt, delivered, fault>>

(* The sender closes its end; what it has sent can still be read.          *)
PeerClose ==
  /\ peer = "open"
  /\ peer' = "closed"
  /\ UNCHANGED <<sent, stream, flowbuf, start, readerAt, delivered, fault>>

(* The connection breaks: what has not been read is gone.                  *)
PeerReset ==
  /\ peer # "reset"
  /\ peer' = "reset"
  /\ stream' = <<>>
  /\ UNCHANGED <<sent, flowbuf, start, readerAt, delivered, fault>>

(* recv returns n bytes; flowbuf takes them or the process terminates.     *)
Recv(n) ==
  /\ readerAt = "recv"
  /\ fault = "none"
  /\ n <= Len(stream)
  /\ IF Len(flowbuf) + n > FlowSize
     THEN /\ fault' = "terminated"
          /\ UNCHANGED <<stream, flowbuf, readerAt>>
     ELSE /\ flowbuf' = flowbuf \o SubSeq(stream, 1, n)
          /\ stream' = SubSeq(stream, n + 1, Len(stream))
          /\ readerAt' = "scan"
          /\ UNCHANGED fault
  /\ UNCHANGED <<sent, peer, start, delivered>>

(* The scan meets a NUL: the piece it ends is copied to strbuf with the    *)
(* NUL and handed to the Listener.                                         *)
Deliver ==
  /\ readerAt = "scan"
  /\ fault = "none"
  /\ \E e \in 1 .. Len(flowbuf) :
       /\ IsNextEnd(e)
       /\ IF e - start > StrSize
          THEN /\ fault' = "smashed"
               /\ UNCHANGED <<start, delivered>>
          ELSE /\ delivered' = Append(delivered, SubSeq(flowbuf, start + 1, e - 1))
               /\ start' = e
               /\ UNCHANGED fault
  /\ UNCHANGED <<sent, stream, peer, flowbuf, readerAt>>

(* Mutant: the incomplete rest of a fragment is discarded.                 *)
ShiftDiscards ==
  /\ readerAt = "scan"
  /\ fault = "none"
  /\ \A e \in 1 .. Len(flowbuf) : ~IsNextEnd(e)
  /\ flowbuf' = <<>>
  /\ start' = 0
  /\ readerAt' = "recv"
  /\ UNCHANGED <<sent, stream, peer, delivered, fault>>

(* The scan is over: the incomplete rest moves to the front of flowbuf.    *)
Shift ==
  /\ readerAt = "scan"
  /\ fault = "none"
  /\ \A e \in 1 .. Len(flowbuf) : ~IsNextEnd(e)
  /\ flowbuf' = SubSeq(flowbuf, start + 1, Len(flowbuf))
  /\ start' = 0
  /\ readerAt' = "recv"
  /\ UNCHANGED <<sent, stream, peer, delivered, fault>>

(* Mutant: the loop ends as soon as the sender has closed its end.         *)
EndOfStreamEarly ==
  /\ readerAt = "recv"
  /\ fault = "none"
  /\ peer # "open"
  /\ readerAt' = "gone"
  /\ UNCHANGED <<sent, stream, peer, flowbuf, start, delivered, fault>>

(* recv returns 0 or an error: the loop ends and the socket is erased.     *)
EndOfStream ==
  /\ readerAt = "recv"
  /\ fault = "none"
  /\ peer # "open"
  /\ stream = <<>>
  /\ readerAt' = "gone"
  /\ UNCHANGED <<sent, stream, peer, flowbuf, start, delivered, fault>>

Reader == (\E n \in 1..RecvSize : Recv(n)) \/ Deliver \/ Shift \/ EndOfStream

Next == (\E m \in Messages : Send(m)) \/ PeerClose \/ PeerReset \/ Reader

(* The thread of process_instream runs, and TCP delivers what it took.     *)
Spec == Init /\ [][Next]_vars /\ WF_vars(Reader)
-----------------------------------------------------------------------------
TypeOK ==
  /\ sent \in Seq(Seq(Char))
  /\ stream \in Seq(Char \cup {NUL})
  /\ peer \in {"open", "closed", "reset"}
  /\ flowbuf \in Seq(Char \cup {NUL})
  /\ start \in 0 .. Len(flowbuf)
  /\ readerAt \in {"recv", "scan", "gone"}
  /\ delivered \in Seq(Seq(Char))
  /\ fault \in {"none", "terminated", "smashed"}

(* The byte stream, cut anywhere, behaves as a FIFO of messages.           *)
Channel == INSTANCE FifoChannel WITH up <- peer = "open" /\ fault = "none"
ImplementsChannel == Channel!Spec

(* Every message sent is delivered, also when the sender closes its end    *)
(* after it; only a broken connection or a message longer than             *)
(* MAX_MSG_SIZE + 10 prevents it, however the stream is fragmented.        *)
EveryMessageDelivered ==
  \A k \in 1 .. MaxSent :
    Len(sent) >= k ~>
      \/ Len(delivered) >= k
      \/ peer = "reset"
      \/ \E i \in DOMAIN sent : Len(sent[i]) > MaxMsgSize + Slack
=============================================================================
