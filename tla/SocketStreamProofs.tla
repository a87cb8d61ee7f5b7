------------------------- MODULE SocketStreamProofs -------------------------
(***************************************************************************)
(* TLAPS: the byte stream of SocketStream implements the FIFO channel of   *)
(* messages that the other parts rely on, for messages and buffers of any  *)
(* size, however the stream is cut into fragments, and even when a buffer  *)
(* is too small: then nothing more is delivered.                           *)
(***************************************************************************)
EXTENDS SocketStream, SequenceTheorems, TLAPS

(* The bytes that were sent and are not yet handed to the Listener: those  *)
(* left in flowbuf, then those of the stream.                              *)
Pending == (Len(flowbuf) - start) + Len(stream)
Byte(x) ==
  IF x <= Len(flowbuf) - start THEN flowbuf[start + x]
  ELSE stream[x - (Len(flowbuf) - start)]

(* pos[i] is where message i ends in all that was ever sent.               *)
Offsets(pos) ==
  /\ pos \in [0 .. Len(sent) -> Nat]
  /\ \A i \in 1 .. Len(sent) : pos[i] = pos[i - 1] + Len(sent[i]) + 1
  /\ \A i, j \in 0 .. Len(sent) : i <= j => pos[i] <= pos[j]

(* The pending bytes are those of the messages not yet delivered, as far   *)
(* as they go; only a reset cuts them short.                               *)
Framed(pos) ==
  LET done == pos[Len(delivered)] IN
  /\ Pending <= pos[Len(sent)] - done
  /\ peer = "open" => Pending = pos[Len(sent)] - done
  /\ \A i \in Len(delivered) + 1 .. Len(sent) :
       /\ \A j \in 1 .. Len(sent[i]) :
            pos[i - 1] - done + j <= Pending => Byte(pos[i - 1] - done + j) = sent[i][j]
       /\ pos[i] - done <= Pending => Byte(pos[i] - done) = NUL

(* The inductive invariant.                                                *)
StreamInv ==
  /\ TypeOK
  /\ Len(delivered) <= Len(sent)
  /\ \E pos : Offsets(pos) /\ Framed(pos)
-----------------------------------------------------------------------------
LEMMA StreamInitInv == Init => StreamInv
<1> SUFFICES ASSUME Init PROVE StreamInv
  OBVIOUS
<1>1. TypeOK
  BY DEF Init, TypeOK
<1> DEFINE none == [i \in 0 .. 0 |-> 0]
<1>2. Len(sent) = 0 /\ Len(delivered) = 0 /\ Pending = 0
  BY DEF Init, Pending
<1>3. Offsets(none)
  BY <1>2 DEF Offsets
<1>4. Framed(none)
  BY <1>2 DEF Framed
<1> QED BY <1>1, <1>2, <1>3, <1>4 DEF StreamInv

(* A message ends after the ones before it.                                *)
LEMMA OffsetsGrow ==
  ASSUME NEW pos, Offsets(pos), sent \in Seq(Seq(Char)),
         NEW k \in Nat, NEW i \in k + 1 .. Len(sent)
  PROVE  /\ i \in 1 .. Len(sent) /\ i - 1 \in 0 .. Len(sent) /\ k \in 0 .. Len(sent)
         /\ Len(sent[i]) \in Nat /\ pos[k] \in Nat /\ pos[i - 1] \in Nat /\ pos[i] \in Nat
         /\ pos[i] = pos[i - 1] + Len(sent[i]) + 1 /\ pos[i - 1] >= pos[k]
         /\ pos[i - 1] - pos[k] \in Nat /\ pos[i] - pos[k] \in Nat \ {0}
<1>1. i \in 1 .. Len(sent) /\ i - 1 \in 0 .. Len(sent) /\ k \in 0 .. Len(sent) /\ k <= i - 1
  OBVIOUS
<1>2. Len(sent[i]) \in Nat
  BY <1>1
<1>3. pos[k] \in Nat /\ pos[i - 1] \in Nat /\ pos[i] \in Nat
  <2>1. i \in 0 .. Len(sent) /\ pos \in [0 .. Len(sent) -> Nat]
    BY <1>1 DEF Offsets
  <2> QED BY <1>1, <2>1
<1>4. pos[i] = pos[i - 1] + Len(sent[i]) + 1 /\ pos[i - 1] >= pos[k]
  BY <1>1, <1>3 DEF Offsets
<1>5. pos[i - 1] - pos[k] \in Nat /\ pos[i] - pos[k] \in Nat \ {0}
  <2>1. \A a, b, l \in Nat : a >= b => a - b \in Nat /\ (a + l + 1) - b \in Nat \ {0}
    OBVIOUS
  <2>2. pos[i - 1] - pos[k] \in Nat
    BY <1>3, <1>4, <2>1
  <2>3. (pos[i - 1] + Len(sent[i]) + 1) - pos[k] \in Nat \ {0}
    BY <1>2, <1>3, <1>4, <2>1
  <2> QED BY <1>4, <2>2, <2>3
<1> QED BY <1>1, <1>2, <1>3, <1>4, <1>5

(* A step that sends and delivers nothing may only cut the pending bytes.  *)
LEMMA SameBytes ==
  ASSUME StreamInv, TypeOK', UNCHANGED <<sent, delivered>>, Pending' <= Pending,
         peer' = "open" => peer = "open" /\ Pending' = Pending,
         \A x \in 1 .. Pending' : Byte(x)' = Byte(x)
  PROVE  StreamInv'
<1>1. PICK pos : Offsets(pos) /\ Framed(pos)
  BY DEF StreamInv
<1>2. Offsets(pos)'
  BY <1>1 DEF Offsets
<1>3. /\ Len(sent) \in Nat /\ Len(delivered) \in Nat /\ Len(delivered) <= Len(sent)
      /\ Pending \in Int /\ Pending' \in Int
      /\ \A i \in 1 .. Len(sent) : Len(sent[i]) \in Nat
  BY DEF StreamInv, TypeOK, Pending
<1>4. PICK done : done = pos[Len(delivered)]
  OBVIOUS
<1>5. done \in Nat /\ pos[Len(sent)] \in Nat
  BY <1>1, <1>3, <1>4 DEF Offsets
<1>7. ASSUME NEW i \in Len(delivered) + 1 .. Len(sent)
      PROVE  /\ i \in 1 .. Len(sent) /\ pos[i - 1] - done \in Nat
             /\ pos[i] - done \in Nat \ {0}
  BY <1>1, <1>3, <1>4, OffsetsGrow DEF StreamInv, TypeOK
<1>8. Framed(pos)'
  <2>1. Pending' <= pos[Len(sent)] - done
    BY <1>1, <1>3, <1>4, <1>5 DEF Framed
  <2>2. peer' = "open" => Pending' = pos[Len(sent)] - done
    BY <1>1, <1>4 DEF Framed
  <2>3. ASSUME NEW i \in Len(delivered) + 1 .. Len(sent),
               NEW j \in 1 .. Len(sent[i]), pos[i - 1] - done + j <= Pending'
        PROVE  Byte(pos[i - 1] - done + j)' = sent[i][j]
    <3>1. pos[i - 1] - done + j \in 1 .. Pending' /\ pos[i - 1] - done + j <= Pending
      BY <1>3, <1>5, <1>7, <2>3
    <3>2. Byte(pos[i - 1] - done + j) = sent[i][j]
      BY <1>1, <1>4, <3>1 DEF Framed
    <3> QED BY <3>1, <3>2
  <2>4. ASSUME NEW i \in Len(delivered) + 1 .. Len(sent), pos[i] - done <= Pending'
        PROVE  Byte(pos[i] - done)' = NUL
    <3>1. pos[i] - done \in 1 .. Pending' /\ pos[i] - done <= Pending
      BY <1>3, <1>5, <1>7, <2>4
    <3>2. Byte(pos[i] - done) = NUL
      BY <1>1, <1>4, <3>1 DEF Framed
    <3> QED BY <3>1, <3>2
  <2> QED BY <1>4, <2>1, <2>2, <2>3, <2>4 DEF Framed
<1> QED BY <1>2, <1>3, <1>8 DEF StreamInv

LEMMA CloseInv ==
  ASSUME StreamInv, PeerClose \/ EndOfStream
  PROVE  StreamInv'
<1>1. UNCHANGED <<sent, stream, flowbuf, start, delivered, fault>>
      /\ (peer' = "open" => peer = "open")
  BY DEF PeerClose, EndOfStream
<1>2. TypeOK'
  BY DEF StreamInv, TypeOK, PeerClose, EndOfStream
<1>3. Pending' = Pending /\ \A x : Byte(x)' = Byte(x)
  BY <1>1 DEF Pending, Byte
<1>4. Pending \in Int
  BY DEF StreamInv, TypeOK, Pending
<1> QED BY <1>1, <1>2, <1>3, <1>4, SameBytes

LEMMA ResetInv ==
  ASSUME StreamInv, PeerReset
  PROVE  StreamInv'
<1>1. stream' = <<>> /\ peer' = "reset" /\ UNCHANGED <<sent, flowbuf, start, readerAt, delivered, fault>>
  BY DEF PeerReset
<1>2. TypeOK'
  BY <1>1 DEF StreamInv, TypeOK
<1>3. Len(flowbuf) \in Nat /\ start \in 0 .. Len(flowbuf) /\ Len(stream) \in Nat
  BY DEF StreamInv, TypeOK
<1>4. Pending' = Len(flowbuf) - start
  BY <1>1, <1>3 DEF Pending
<1>5. Pending' <= Pending
  BY <1>3, <1>4 DEF Pending
<1>6. ASSUME NEW x \in 1 .. Pending' PROVE Byte(x)' = Byte(x)
  BY <1>1, <1>4, <1>6 DEF Byte
<1> QED BY <1>1, <1>2, <1>5, <1>6, SameBytes

(* The bytes recv returns go from the stream to flowbuf, in their order.   *)
LEMMA RecvInv ==
  ASSUME StreamInv, NEW n \in 1 .. RecvSize, Recv(n)
  PROVE  StreamInv'
<1>1. /\ n \in Nat /\ n >= 1 /\ n <= Len(stream)
      /\ UNCHANGED <<sent, peer, start, delivered>>
  BY StreamAssumption DEF Recv, RecvSize
<1>2. /\ flowbuf \in Seq(Char \cup {NUL}) /\ stream \in Seq(Char \cup {NUL})
      /\ Len(flowbuf) \in Nat /\ Len(stream) \in Nat /\ start \in 0 .. Len(flowbuf)
  BY DEF StreamInv, TypeOK
<1>3. CASE Len(flowbuf) + n > FlowSize
  <2>1. fault' = "terminated" /\ UNCHANGED <<stream, flowbuf, readerAt>>
    BY <1>3 DEF Recv
  <2>2. TypeOK'
    BY <1>1, <2>1 DEF StreamInv, TypeOK
  <2>3. Pending' = Pending /\ \A x : Byte(x)' = Byte(x)
    BY <1>1, <2>1 DEF Pending, Byte
  <2>4. Pending \in Int
    BY <1>2 DEF Pending
  <2> QED BY <1>1, <2>2, <2>3, <2>4, SameBytes
<1>4. CASE ~(Len(flowbuf) + n > FlowSize)
  <2> DEFINE chunk == SubSeq(stream, 1, n)
             rest == SubSeq(stream, n + 1, Len(stream))
  <2>1. flowbuf' = flowbuf \o chunk /\ stream' = rest /\ readerAt' = "scan" /\ fault' = fault
    BY <1>4 DEF Recv
  <2>2. /\ chunk \in Seq(Char \cup {NUL}) /\ Len(chunk) = n
        /\ \A i \in 1 .. n : chunk[i] = stream[i]
    BY <1>1, <1>2, SubSeqProperties
  <2>3. /\ rest \in Seq(Char \cup {NUL}) /\ Len(rest) = Len(stream) - n
        /\ \A i \in 1 .. Len(stream) - n : rest[i] = stream[i + n]
    BY <1>1, <1>2, SubSeqProperties
  <2> HIDE DEF chunk, rest
  <2>4. /\ flowbuf' \in Seq(Char \cup {NUL}) /\ Len(flowbuf') = Len(flowbuf) + n
        /\ \A i \in 1 .. Len(flowbuf) : flowbuf'[i] = flowbuf[i]
        /\ \A i \in 1 .. n : flowbuf'[Len(flowbuf) + i] = stream[i]
    BY <1>1, <1>2, <2>1, <2>2
  <2>5. TypeOK'
    BY <1>1, <1>2, <2>1, <2>3, <2>4 DEF StreamInv, TypeOK
  <2>6. Pending' = Pending /\ Pending \in Int
    BY <1>1, <1>2, <2>1, <2>3, <2>4 DEF Pending
  <2>7. ASSUME NEW x \in 1 .. Pending' PROVE Byte(x)' = Byte(x)
    <3> DEFINE had == Len(flowbuf) - start
    <3>1. Pending' = had + Len(stream) /\ had \in Nat /\ Len(flowbuf') - start' = had + n
      BY <1>1, <1>2, <2>4, <2>6 DEF Pending
    <3>2. CASE x <= had
      <4>1. start + x \in 1 .. Len(flowbuf)
        BY <1>2, <3>2
      <4>2. Byte(x) = flowbuf[start + x]
        BY <3>2 DEF Byte
      <4>3. Byte(x)' = flowbuf'[start' + x]
        BY <1>1, <3>1, <3>2 DEF Byte
      <4> QED BY <1>1, <2>4, <4>1, <4>2, <4>3
    <3>3. CASE x > had /\ x <= had + n
      <4>1. x - had \in 1 .. n /\ start + x = Len(flowbuf) + (x - had)
        BY <1>1, <1>2, <3>1, <3>3
      <4>2. Byte(x) = stream[x - had]
        BY <3>1, <3>3 DEF Byte
      <4>3. Byte(x)' = flowbuf'[start' + x]
        BY <1>1, <3>1, <3>3 DEF Byte
      <4>4. flowbuf'[Len(flowbuf) + (x - had)] = stream[x - had]
        BY <2>4, <4>1
      <4> QED BY <1>1, <4>1, <4>2, <4>3, <4>4
    <3>4. CASE x > had + n
      <4>1. x - (had + n) \in 1 .. Len(stream) - n /\ (x - (had + n)) + n = x - had
        BY <1>1, <1>2, <2>7, <3>1, <3>4
      <4>2. Byte(x) = stream[x - had]
        BY <1>1, <3>1, <3>4 DEF Byte
      <4>3. Byte(x)' = stream'[x - (had + n)]
        BY <1>1, <3>1, <3>4 DEF Byte
      <4>4. rest[x - (had + n)] = stream[x - had]
        <5>1. rest[x - (had + n)] = stream[(x - (had + n)) + n]
          BY <2>3, <4>1
        <5> QED BY <4>1, <5>1
      <4> QED BY <2>1, <4>2, <4>3, <4>4
    <3> QED BY <1>1, <3>1, <3>2, <3>3, <3>4
  <2> QED BY <1>1, <2>5, <2>6, <2>7, SameBytes
<1> QED BY <1>3, <1>4

(* The incomplete rest of flowbuf is all that is left of it.               *)
LEMMA ShiftInv ==
  ASSUME StreamInv, Shift
  PROVE  StreamInv'
<1>1. /\ flowbuf' = SubSeq(flowbuf, start + 1, Len(flowbuf)) /\ start' = 0 /\ readerAt' = "recv"
      /\ UNCHANGED <<sent, stream, peer, delivered, fault>>
  BY DEF Shift
<1>2. /\ flowbuf \in Seq(Char \cup {NUL}) /\ stream \in Seq(Char \cup {NUL})
      /\ Len(flowbuf) \in Nat /\ Len(stream) \in Nat /\ start \in 0 .. Len(flowbuf)
  BY DEF StreamInv, TypeOK
<1>3. /\ flowbuf' \in Seq(Char \cup {NUL}) /\ Len(flowbuf') = Len(flowbuf) - start
      /\ \A i \in 1 .. Len(flowbuf) - start : flowbuf'[i] = flowbuf[start + i]
  <2>1. start + 1 \in 1 .. Len(flowbuf) + 1
    BY <1>2
  <2> QED BY <1>1, <1>2, <2>1, SubSeqProperties
<1>4. TypeOK'
  BY <1>1, <1>3 DEF StreamInv, TypeOK
<1>5. Pending' = Pending /\ Pending \in Int
  BY <1>1, <1>2, <1>3 DEF Pending
<1>6. ASSUME NEW x \in 1 .. Pending' PROVE Byte(x)' = Byte(x)
  <2>1. Len(flowbuf') - start' = Len(flowbuf) - start
    BY <1>1, <1>2, <1>3
  <2>2. CASE x <= Len(flowbuf) - start
    <3>1. Byte(x)' = flowbuf'[start' + x] /\ Byte(x) = flowbuf[start + x]
      BY <2>1, <2>2 DEF Byte
    <3>2. start' + x = x /\ x \in 1 .. Len(flowbuf) - start
      BY <1>1, <1>2, <1>5, <2>2
    <3> QED BY <1>3, <3>1, <3>2
  <2>3. CASE ~(x <= Len(flowbuf) - start)
    BY <1>1, <2>1, <2>3 DEF Byte
  <2> QED BY <2>2, <2>3
<1> QED BY <1>1, <1>4, <1>5, <1>6, SameBytes

LEMMA Appended ==
  ASSUME NEW S, NEW s \in Seq(S), NEW t \in Seq(S)
  PROVE  /\ s \o t \in Seq(S) /\ Len(s \o t) = Len(s) + Len(t)
         /\ \A i \in 1 .. Len(s) : (s \o t)[i] = s[i]
         /\ \A j \in 1 .. Len(t) : (s \o t)[Len(s) + j] = t[j]
OBVIOUS

(* FRSocket::send adds one message to the end of the stream.               *)
LEMMA SendInv ==
  ASSUME StreamInv, NEW m \in Messages, Send(m)
  PROVE  StreamInv'
<1>1. /\ peer = "open" /\ sent' = Append(sent, m) /\ stream' = stream \o Append(m, NUL)
      /\ UNCHANGED <<peer, flowbuf, start, readerAt, delivered, fault>>
  BY DEF Send
<1>2. /\ m \in Seq(Char) /\ Len(m) \in Nat /\ sent \in Seq(Seq(Char)) /\ Len(sent) \in Nat
      /\ stream \in Seq(Char \cup {NUL}) /\ Len(stream) \in Nat
      /\ Len(flowbuf) \in Nat /\ start \in 0 .. Len(flowbuf)
      /\ Len(delivered) \in Nat /\ Len(delivered) <= Len(sent)
  BY StreamAssumption DEF StreamInv, TypeOK
<1>3. /\ sent' \in Seq(Seq(Char)) /\ Len(sent') = Len(sent) + 1 /\ sent'[Len(sent) + 1] = m
      /\ \A i \in 1 .. Len(sent) : sent'[i] = sent[i]
  BY <1>1, <1>2
<1>4. /\ stream' \in Seq(Char \cup {NUL}) /\ Len(stream') = Len(stream) + Len(m) + 1
      /\ \A i \in 1 .. Len(stream) : stream'[i] = stream[i]
      /\ \A j \in 1 .. Len(m) : stream'[Len(stream) + j] = m[j]
      /\ stream'[Len(stream) + Len(m) + 1] = NUL
  <2> DEFINE bytes == Append(m, NUL)
  <2>1. /\ bytes \in Seq(Char \cup {NUL}) /\ Len(bytes) = Len(m) + 1 /\ bytes[Len(m) + 1] = NUL
        /\ \A j \in 1 .. Len(m) : bytes[j] = m[j]
    <3>1. m \in Seq(Char \cup {NUL})
      BY <1>2
    <3> QED BY <1>2, <3>1
  <2> HIDE DEF bytes
  <2>2. stream' = stream \o bytes
    BY <1>1 DEF bytes
  <2>3. /\ stream' \in Seq(Char \cup {NUL}) /\ Len(stream') = Len(stream) + Len(bytes)
        /\ \A i \in 1 .. Len(stream) : stream'[i] = stream[i]
        /\ \A j \in 1 .. Len(bytes) : stream'[Len(stream) + j] = bytes[j]
    <3>1. stream \in Seq(Char \cup {NUL}) /\ bytes \in Seq(Char \cup {NUL})
      BY <1>2, <2>1
    <3>2. /\ stream \o bytes \in Seq(Char \cup {NUL})
          /\ Len(stream \o bytes) = Len(stream) + Len(bytes)
          /\ \A i \in 1 .. Len(stream) : (stream \o bytes)[i] = stream[i]
          /\ \A j \in 1 .. Len(bytes) : (stream \o bytes)[Len(stream) + j] = bytes[j]
      BY <3>1, Appended
    <3> QED BY <2>2, <3>2
  <2>4. Len(m) + 1 \in 1 .. Len(bytes) /\ \A j \in 1 .. Len(m) : j \in 1 .. Len(bytes)
    BY <1>2, <2>1
  <2>5. stream'[Len(stream) + (Len(m) + 1)] = NUL
    BY <2>1, <2>3, <2>4
  <2>6. \A j \in 1 .. Len(m) : stream'[Len(stream) + j] = m[j]
    BY <2>1, <2>3, <2>4
  <2>7. /\ Len(stream) + (Len(m) + 1) = Len(stream) + Len(m) + 1
        /\ Len(stream) + Len(bytes) = Len(stream) + Len(m) + 1
    BY <1>2, <2>1
  <2> QED BY <2>3, <2>5, <2>6, <2>7
<1>5. TypeOK'
  BY <1>1, <1>3, <1>4 DEF StreamInv, TypeOK
<1>6. PICK pos : Offsets(pos) /\ Framed(pos)
  BY DEF StreamInv
<1>7. pos \in [0 .. Len(sent) -> Nat] /\ pos[Len(sent)] \in Nat
  <2>1. Len(sent) \in 0 .. Len(sent)
    BY <1>2
  <2> QED BY <1>6, <2>1 DEF Offsets
<1> DEFINE last == Len(sent) + 1
<1>8. PICK longer : longer = [i \in 0 .. last |-> IF i <= Len(sent) THEN pos[i]
                                                ELSE pos[Len(sent)] + Len(m) + 1]
  OBVIOUS
<1>9. /\ longer \in [0 .. last -> Nat] /\ longer[last] = pos[Len(sent)] + Len(m) + 1
      /\ \A i \in 0 .. Len(sent) : longer[i] = pos[i]
  BY <1>2, <1>7, <1>8
<1>10. Offsets(longer)'
  <2>1. ASSUME NEW i \in 1 .. Len(sent')
        PROVE  longer[i] = longer[i - 1] + Len(sent'[i]) + 1
    <3>1. CASE i = last
      <4>1. i - 1 = Len(sent) /\ longer[Len(sent)] = pos[Len(sent)]
        BY <1>2, <1>9, <3>1
      <4> QED BY <1>3, <1>9, <3>1, <4>1
    <3>2. CASE i # last
      <4>1. i \in 1 .. Len(sent) /\ i \in 0 .. Len(sent) /\ i - 1 \in 0 .. Len(sent)
        BY <1>2, <1>3, <3>2
      <4>2. pos[i] = pos[i - 1] + Len(sent[i]) + 1
        BY <1>6, <4>1 DEF Offsets
      <4> QED BY <1>3, <1>9, <4>1, <4>2
    <3> QED BY <3>1, <3>2
  <2>2. ASSUME NEW i \in 0 .. Len(sent'), NEW j \in 0 .. Len(sent'), i <= j
        PROVE  longer[i] <= longer[j]
    <3>1. CASE j # last
      <4>1. i \in 0 .. Len(sent) /\ j \in 0 .. Len(sent)
        BY <1>2, <1>3, <2>2, <3>1
      <4> QED BY <1>6, <1>9, <2>2, <4>1 DEF Offsets
    <3>2. CASE j = last /\ i # last
      <4>1. i \in 0 .. Len(sent) /\ Len(sent) \in 0 .. Len(sent) /\ i <= Len(sent)
        BY <1>2, <1>3, <3>2
      <4>2. pos[i] <= pos[Len(sent)] /\ pos[i] \in Nat
        BY <1>6, <1>7, <4>1 DEF Offsets
      <4> QED BY <1>2, <1>7, <1>9, <3>2, <4>1, <4>2
    <3>3. CASE j = last /\ i = last
      BY <1>2, <1>7, <1>9, <3>3
    <3> QED BY <3>1, <3>2, <3>3
  <2> QED BY <1>3, <1>9, <2>1, <2>2 DEF Offsets
<1>11. PICK done : done = pos[Len(delivered)]
  OBVIOUS
<1>12. /\ done \in Nat /\ longer[Len(delivered)] = done /\ longer[Len(sent)] = pos[Len(sent)]
  BY <1>2, <1>7, <1>9, <1>11
<1>13. Pending \in Nat /\ Pending = pos[Len(sent)] - done /\ Pending' = Pending + Len(m) + 1
  <2>1. Pending \in Nat /\ Pending' = Pending + Len(m) + 1
    BY <1>1, <1>2, <1>4 DEF Pending
  <2> QED BY <1>1, <1>6, <1>11, <2>1 DEF Framed
<1>14. ASSUME NEW x \in 1 .. Pending PROVE Byte(x)' = Byte(x)
  <2>1. CASE x <= Len(flowbuf) - start
    BY <1>1, <2>1 DEF Byte
  <2>2. CASE ~(x <= Len(flowbuf) - start)
    <3>1. x - (Len(flowbuf) - start) \in 1 .. Len(stream)
      BY <1>2, <2>2 DEF Pending
    <3> QED BY <1>1, <1>4, <2>2, <3>1 DEF Byte
  <2> QED BY <2>1, <2>2
<1>15. PICK n : n = Pending
  OBVIOUS
<1>16. ASSUME NEW j \in 1 .. Len(m) + 1
       PROVE  Byte(n + j)' = stream'[Len(stream) + j]
  <2>1. /\ ~(n + j <= Len(flowbuf) - start)
        /\ (n + j) - (Len(flowbuf) - start) = Len(stream) + j
    BY <1>2, <1>15 DEF Pending
  <2>2. Byte(n + j)' = stream'[(n + j) - (Len(flowbuf) - start)]
    BY <1>1, <2>1 DEF Byte
  <2> QED BY <2>1, <2>2
<1>17. ASSUME NEW i \in Len(delivered) + 1 .. Len(sent')
       PROVE  /\ \A j \in 1 .. Len(sent'[i]) :
                   longer[i - 1] - done + j <= Pending' => Byte(longer[i - 1] - done + j)' = sent'[i][j]
              /\ longer[i] - done <= Pending' => Byte(longer[i] - done)' = NUL
  <2>1. CASE i = last
    <3>1. i - 1 = Len(sent) /\ sent'[i] = m /\ longer[i - 1] - done = n
          /\ longer[i] - done = n + (Len(m) + 1)
      <4>1. i - 1 = Len(sent) /\ sent'[i] = m
        BY <1>2, <1>3, <2>1
      <4>2. longer[i - 1] = pos[Len(sent)] /\ longer[i] = pos[Len(sent)] + Len(m) + 1
        BY <1>9, <1>12, <2>1, <4>1
      <4>3. \A a, b \in Nat : (a + b + 1) - done = (a - done) + (b + 1)
        BY <1>12
      <4>4. (pos[Len(sent)] + Len(m) + 1) - done = n + (Len(m) + 1)
        BY <1>2, <1>7, <1>13, <1>15, <4>3
      <4> QED BY <1>13, <1>15, <4>1, <4>2, <4>4
    <3>2. Len(m) + 1 \in 1 .. Len(m) + 1 /\ \A j \in 1 .. Len(m) : j \in 1 .. Len(m) + 1
      BY <1>2
    <3>3. ASSUME NEW j \in 1 .. Len(m) PROVE Byte(n + j)' = m[j]
      BY <1>4, <1>16, <3>2
    <3>4. Byte(n + (Len(m) + 1))' = NUL
      <4>1. Len(stream) + (Len(m) + 1) = Len(stream) + Len(m) + 1
        BY <1>2
      <4> QED BY <1>4, <1>16, <3>2, <4>1
    <3> QED BY <3>1, <3>3, <3>4
  <2>2. CASE i # last
    <3>1. i \in Len(delivered) + 1 .. Len(sent)
      BY <1>2, <1>3, <2>2
    <3>2. /\ i \in 1 .. Len(sent) /\ i - 1 \in 0 .. Len(sent) /\ Len(sent[i]) \in Nat
          /\ pos[i] \in Nat /\ pos[i - 1] \in Nat /\ pos[i] = pos[i - 1] + Len(sent[i]) + 1
          /\ pos[i - 1] - done \in Nat /\ pos[i] - done \in Nat \ {0}
      BY <1>2, <1>6, <1>11, <3>1, OffsetsGrow
    <3>3. sent'[i] = sent[i] /\ longer[i] = pos[i] /\ longer[i - 1] = pos[i - 1]
      <4>1. i \in 0 .. Len(sent)
        BY <1>2, <3>2
      <4> QED BY <1>3, <1>9, <3>2, <4>1
    <3>4. pos[i] <= pos[Len(sent)]
      <4>1. i \in 0 .. Len(sent) /\ Len(sent) \in 0 .. Len(sent) /\ i <= Len(sent)
        BY <1>2, <3>2
      <4> QED BY <1>6, <4>1 DEF Offsets
    <3>5. PICK p, q : p = pos[i - 1] - done /\ q = pos[i] - done
      OBVIOUS
    <3>6. p \in Nat /\ q \in 1 .. Pending /\ q = p + Len(sent[i]) + 1
      <4>1. \A a, b \in Nat : (a + b + 1) - done = (a - done) + b + 1
        BY <1>12
      <4>2. q = p + Len(sent[i]) + 1
        BY <3>2, <3>5, <4>1
      <4>3. \A a, b \in Nat : a <= b => a - done <= b - done
        BY <1>12
      <4>4. q <= Pending
        BY <1>7, <1>13, <3>2, <3>4, <3>5, <4>3
      <4> QED BY <1>13, <3>2, <3>5, <4>2, <4>4
    <3>7. ASSUME NEW j \in 1 .. Len(sent[i]) PROVE Byte(p + j)' = sent[i][j]
      <4>1. p + j \in 1 .. Pending
        <5>1. \A l \in Nat : \A k \in 1 .. l : \A a \in Nat :
                p + l + 1 <= a => p + k \in 1 .. a
          BY <3>6
        <5>2. p + Len(sent[i]) + 1 <= Pending /\ Len(sent[i]) \in Nat /\ Pending \in Nat
          BY <1>13, <3>2, <3>6
        <5> QED BY <5>1, <5>2
      <4>2. Byte(p + j) = sent[i][j]
        BY <1>6, <1>11, <1>13, <3>1, <3>5, <4>1 DEF Framed
      <4> QED BY <1>14, <4>1, <4>2
    <3>8. Byte(q)' = NUL
      <4>1. Byte(q) = NUL
        <5>1. q <= Pending
          BY <1>13, <3>6
        <5> QED BY <1>6, <1>11, <3>1, <3>5, <5>1 DEF Framed
      <4> QED BY <1>14, <3>6, <4>1
    <3> QED BY <3>3, <3>5, <3>7, <3>8
  <2> QED BY <2>1, <2>2
<1>18. Framed(longer)'
  <2>1. Pending' = longer[Len(sent')] - done
    BY <1>2, <1>3, <1>7, <1>9, <1>12, <1>13
  <2>2. Pending' \in Int
    BY <1>2, <1>13
  <2>3. PICK all, new : all = longer[Len(sent')] /\ new = Pending'
    OBVIOUS
  <2>4. new = all - done /\ new <= all - done
    BY <2>1, <2>2, <2>3
  <2> QED BY <1>1, <1>12, <1>17, <2>3, <2>4 DEF Framed
<1>19. Len(delivered') <= Len(sent')
  BY <1>1, <1>2, <1>3
<1> QED BY <1>5, <1>10, <1>18, <1>19 DEF StreamInv
-----------------------------------------------------------------------------
(* The piece that ends at the next NUL is the next message, all of it: no  *)
(* character of a message is NUL.                                          *)
LEMMA NextPiece ==
  ASSUME TypeOK, Len(delivered) <= Len(sent), NEW pos, Offsets(pos), Framed(pos),
         NEW e \in 1 .. Len(flowbuf), IsNextEnd(e)
  PROVE  /\ Len(delivered) + 1 \in 1 .. Len(sent)
         /\ SubSeq(flowbuf, start + 1, e - 1) = sent[Len(delivered) + 1]
         /\ pos[Len(delivered) + 1] = pos[Len(delivered)] + (e - start)
<1>1. /\ flowbuf \in Seq(Char \cup {NUL}) /\ Len(flowbuf) \in Nat /\ start \in 0 .. Len(flowbuf)
      /\ Len(stream) \in Nat /\ sent \in Seq(Seq(Char)) /\ Len(sent) \in Nat
      /\ Len(delivered) \in Nat /\ NUL \notin Char
  BY StreamAssumption DEF TypeOK
<1>2. /\ e \in start + 1 .. Len(flowbuf) /\ flowbuf[e] = NUL
      /\ \A i \in start + 1 .. e - 1 : flowbuf[i] # NUL
  BY DEF IsNextEnd
<1>3. PICK len : len = e - start
  OBVIOUS
<1>4. /\ len \in 1 .. Len(flowbuf) - start /\ len \in Nat /\ Pending \in Nat /\ len <= Pending
      /\ e = start + len
  BY <1>1, <1>2, <1>3 DEF Pending
<1>5. PICK k : k = Len(delivered) + 1
  OBVIOUS
<1>6. /\ k \in Nat /\ k - 1 = Len(delivered)
  BY <1>1, <1>5
<1>7. k \in 1 .. Len(sent)
  <2> SUFFICES ASSUME Len(delivered) = Len(sent) PROVE FALSE
    BY <1>1, <1>5
  <2>1. pos[Len(sent)] \in Nat
    <3>1. Len(sent) \in 0 .. Len(sent)
      BY <1>1
    <3> QED BY <3>1 DEF Offsets
  <2>2. Pending <= pos[Len(sent)] - pos[Len(sent)]
    BY DEF Framed
  <2> QED BY <1>4, <2>1, <2>2
<1>8. /\ Len(sent[k]) \in Nat /\ pos[k] \in Nat /\ pos[k - 1] \in Nat
      /\ pos[k] = pos[k - 1] + Len(sent[k]) + 1 /\ sent[k] \in Seq(Char)
  <2>1. k \in (k - 1) + 1 .. Len(sent) /\ k - 1 \in Nat
    BY <1>6, <1>7
  <2> QED BY <1>1, <1>7, <2>1, OffsetsGrow
<1>9. PICK m : m = sent[k]
  OBVIOUS
<1>10. /\ m \in Seq(Char) /\ Len(m) \in Nat /\ pos[k] - pos[k - 1] = Len(m) + 1
       /\ \A j \in 1 .. Len(m) : pos[k - 1] - pos[k - 1] + j = j
  BY <1>8, <1>9
<1>11. /\ \A j \in 1 .. Len(m) : j <= Pending => Byte(j) = m[j]
       /\ Len(m) + 1 <= Pending => Byte(Len(m) + 1) = NUL
  <2>1. k \in Len(delivered) + 1 .. Len(sent)
    BY <1>5, <1>7
  <2>2. /\ \A j \in 1 .. Len(m) : pos[k - 1] - pos[k - 1] + j <= Pending
                                 => Byte(pos[k - 1] - pos[k - 1] + j) = m[j]
        /\ pos[k] - pos[k - 1] <= Pending => Byte(pos[k] - pos[k - 1]) = NUL
    BY <1>6, <1>9, <2>1 DEF Framed
  <2> QED BY <1>10, <2>2
<1>12. \A j \in 1 .. len : Byte(j) = flowbuf[start + j]
  <2>1. \A j \in 1 .. len : j <= Len(flowbuf) - start
    BY <1>1, <1>4
  <2> QED BY <2>1 DEF Byte
<1>13. len = Len(m) + 1
  <2>1. ~(len <= Len(m))
    <3> SUFFICES ASSUME len <= Len(m) PROVE FALSE
      OBVIOUS
    <3>1. len \in 1 .. Len(m) /\ len \in 1 .. len
      BY <1>4, <1>10
    <3>2. Byte(len) = m[len] /\ Byte(len) = NUL
      BY <1>2, <1>4, <1>11, <1>12, <3>1
    <3>3. m[len] \in Char
      BY <1>10, <3>1
    <3> QED BY <1>1, <3>2, <3>3
  <2>2. ~(len > Len(m) + 1)
    <3> SUFFICES ASSUME len > Len(m) + 1 PROVE FALSE
      OBVIOUS
    <3>1. Len(m) + 1 \in 1 .. len /\ Len(m) + 1 <= Pending
          /\ start + (Len(m) + 1) \in start + 1 .. e - 1
      BY <1>1, <1>4, <1>10
    <3> QED BY <1>2, <1>11, <1>12, <3>1
  <2> QED BY <1>4, <1>10, <2>1, <2>2
<1>14. SubSeq(flowbuf, start + 1, e - 1) = m
  <2> DEFINE piece == SubSeq(flowbuf, start + 1, e - 1)
  <2>1. /\ piece \in Seq(Char \cup {NUL}) /\ Len(piece) = Len(m)
        /\ \A i \in 1 .. Len(m) : piece[i] = flowbuf[start + i]
    <3>1. start + 1 \in Int /\ e - 1 \in Int
          /\ \A i \in start + 1 .. e - 1 : flowbuf[i] \in Char \cup {NUL}
      BY <1>1, <1>2
    <3>2. (e - 1) - (start + 1) + 1 = Len(m)
          /\ (IF start + 1 <= e - 1 THEN (e - 1) - (start + 1) + 1 ELSE 0) = Len(m)
      BY <1>1, <1>4, <1>10, <1>13
    <3>3. /\ piece \in Seq(Char \cup {NUL})
          /\ Len(piece) = (IF start + 1 <= e - 1 THEN (e - 1) - (start + 1) + 1 ELSE 0)
          /\ \A i \in 1 .. (e - 1) - (start + 1) + 1 : piece[i] = flowbuf[start + 1 + i - 1]
      BY <3>1, SubSeqProperties
    <3>4. \A i \in 1 .. Len(m) : start + 1 + i - 1 = start + i
      BY <1>1
    <3> QED BY <3>2, <3>3, <3>4
  <2> HIDE DEF piece
  <2>2. ASSUME NEW i \in 1 .. Len(m) PROVE piece[i] = m[i]
    <3>1. i \in 1 .. len /\ i <= Pending
      BY <1>4, <1>10, <1>13
    <3> QED BY <1>11, <1>12, <2>1, <3>1
  <2>3. m \in Seq(Char \cup {NUL})
    BY <1>10
  <2>4. piece = m
    BY <2>1, <2>2, <2>3
  <2> QED BY <2>4 DEF piece
<1>15. pos[Len(delivered) + 1] = pos[Len(delivered)] + (e - start)
  BY <1>3, <1>4, <1>5, <1>6, <1>8, <1>10, <1>13
<1> QED BY <1>5, <1>7, <1>9, <1>14, <1>15

LEMMA DeliverInv ==
  ASSUME StreamInv, Deliver
  PROVE  StreamInv'
<1>1. PICK e \in 1 .. Len(flowbuf) :
        /\ IsNextEnd(e)
        /\ IF e - start > StrSize
           THEN fault' = "smashed" /\ UNCHANGED <<start, delivered>>
           ELSE /\ delivered' = Append(delivered, SubSeq(flowbuf, start + 1, e - 1))
                /\ start' = e
                /\ UNCHANGED fault
  BY DEF Deliver
<1>2. UNCHANGED <<sent, stream, peer, flowbuf, readerAt>>
  BY DEF Deliver
<1>3. CASE e - start > StrSize
  <2>1. fault' = "smashed" /\ UNCHANGED <<start, delivered>>
    BY <1>1, <1>3
  <2>2. TypeOK'
    BY <1>2, <2>1 DEF StreamInv, TypeOK
  <2>3. Pending' = Pending /\ \A x : Byte(x)' = Byte(x)
    BY <1>2, <2>1 DEF Pending, Byte
  <2>4. Pending \in Int
    BY DEF StreamInv, TypeOK, Pending
  <2> QED BY <1>2, <2>1, <2>2, <2>3, <2>4, SameBytes
<1>4. CASE ~(e - start > StrSize)
  <2>1. PICK pos : Offsets(pos) /\ Framed(pos)
    BY DEF StreamInv
  <2>2. PICK k, len : k = Len(delivered) + 1 /\ len = e - start
    OBVIOUS
  <2>3. /\ k \in 1 .. Len(sent) /\ SubSeq(flowbuf, start + 1, e - 1) = sent[k]
        /\ pos[k] = pos[Len(delivered)] + len
    BY <1>1, <2>1, <2>2, NextPiece DEF StreamInv
  <2>4. delivered' = Append(delivered, sent[k]) /\ start' = e /\ fault' = fault
    BY <1>1, <1>4, <2>3
  <2>5. /\ sent \in Seq(Seq(Char)) /\ Len(sent) \in Nat /\ delivered \in Seq(Seq(Char))
        /\ Len(delivered) \in Nat /\ Len(flowbuf) \in Nat /\ start \in 0 .. Len(flowbuf)
        /\ Len(stream) \in Nat /\ len \in Nat /\ e \in start + 1 .. Len(flowbuf)
    BY <1>1, <2>2 DEF StreamInv, TypeOK, IsNextEnd
  <2>6. delivered' \in Seq(Seq(Char)) /\ Len(delivered') = k /\ k \in Nat
    BY <2>2, <2>3, <2>4, <2>5
  <2>7. TypeOK'
    BY <1>2, <2>4, <2>5, <2>6 DEF StreamInv, TypeOK
  <2>8. Offsets(pos)'
    BY <1>2, <2>1 DEF Offsets
  <2>9. Pending' = Pending - len /\ Pending \in Nat
    BY <1>2, <2>2, <2>4, <2>5 DEF Pending
  <2>10. ASSUME NEW x \in Int PROVE Byte(x)' = Byte(x + len)
    <3>1. /\ x <= Len(flowbuf) - e <=> x + len <= Len(flowbuf) - start
          /\ e + x = start + (x + len)
          /\ x - (Len(flowbuf) - e) = (x + len) - (Len(flowbuf) - start)
      BY <2>2, <2>5
    <3>2. Byte(x)' = IF x <= Len(flowbuf) - e THEN flowbuf[e + x] ELSE stream[x - (Len(flowbuf) - e)]
      BY <1>2, <2>4 DEF Byte
    <3> QED BY <3>1, <3>2 DEF Byte
  <2>11. PICK old, new, all : old = pos[Len(delivered)] /\ new = pos[k] /\ all = pos[Len(sent)]
    OBVIOUS
  <2>12. old \in Nat /\ new \in Nat /\ all \in Nat /\ new = old + len
    <3>1. Len(delivered) \in 0 .. Len(sent) /\ k \in 0 .. Len(sent) /\ Len(sent) \in 0 .. Len(sent)
      BY <2>2, <2>3, <2>5
    <3> QED BY <2>1, <2>3, <2>11, <3>1 DEF Offsets
  <2>13. /\ Pending <= all - old
         /\ peer = "open" => Pending = all - old
         /\ \A i \in Len(delivered) + 1 .. Len(sent) :
              /\ \A j \in 1 .. Len(sent[i]) :
                   pos[i - 1] - old + j <= Pending => Byte(pos[i - 1] - old + j) = sent[i][j]
              /\ pos[i] - old <= Pending => Byte(pos[i] - old) = NUL
    BY <2>1, <2>11 DEF Framed
  <2>14. ASSUME NEW i \in k + 1 .. Len(sent)
         PROVE  /\ \A j \in 1 .. Len(sent[i]) :
                     pos[i - 1] - new + j <= Pending' => Byte(pos[i - 1] - new + j)' = sent[i][j]
                /\ pos[i] - new <= Pending' => Byte(pos[i] - new)' = NUL
    <3>1. i \in Len(delivered) + 1 .. Len(sent)
      BY <2>2, <2>5, <2>6
    <3>2. pos[i - 1] \in Nat /\ pos[i] \in Nat
      BY <2>1, <2>5, <3>1, OffsetsGrow
    <3>3. ASSUME NEW j \in 1 .. Len(sent[i]), pos[i - 1] - new + j <= Pending'
          PROVE  Byte(pos[i - 1] - new + j)' = sent[i][j]
      <4>1. PICK x : x = pos[i - 1] - new + j
        OBVIOUS
      <4>2. x \in Int /\ x + len = pos[i - 1] - old + j /\ x + len <= Pending
        <5>1. x \in Int /\ x + len = pos[i - 1] - old + j
          <6>1. \A a \in Nat, b \in Int : a - new + b \in Int /\ (a - new + b) + len = a - old + b
            BY <2>5, <2>12
          <6>2. j \in Int
            OBVIOUS
          <6> QED BY <3>2, <4>1, <6>1, <6>2
        <5>2. x <= Pending - len
          BY <2>9, <3>3, <4>1
        <5> QED BY <2>5, <2>9, <5>1, <5>2
      <4>3. Byte(x + len) = sent[i][j]
        BY <2>13, <3>1, <4>2
      <4> QED BY <2>10, <4>1, <4>2, <4>3
    <3>4. ASSUME pos[i] - new <= Pending' PROVE Byte(pos[i] - new)' = NUL
      <4>1. PICK x : x = pos[i] - new
        OBVIOUS
      <4>2. x \in Int /\ x + len = pos[i] - old /\ x + len <= Pending
        <5>1. x \in Int /\ x + len = pos[i] - old
          BY <2>5, <2>12, <3>2, <4>1
        <5>2. x <= Pending - len
          BY <2>9, <3>4, <4>1
        <5> QED BY <2>5, <2>9, <5>1, <5>2
      <4>3. Byte(x + len) = NUL
        BY <2>13, <3>1, <4>2
      <4> QED BY <2>10, <4>1, <4>2, <4>3
    <3> QED BY <3>3, <3>4
  <2>15. Framed(pos)'
    <3>1. pos[Len(delivered')] = new /\ pos[Len(sent')] = all
      BY <1>2, <2>6, <2>11
    <3>2. Pending' <= all - new /\ (peer' = "open" => Pending' = all - new)
      BY <1>2, <2>5, <2>9, <2>12, <2>13
    <3> QED BY <1>2, <2>6, <2>14, <3>1, <3>2 DEF Framed
  <2>16. Len(delivered') <= Len(sent')
    BY <1>2, <2>3, <2>5, <2>6
  <2> QED BY <2>7, <2>8, <2>15, <2>16 DEF StreamInv
<1> QED BY <1>3, <1>4

LEMMA StreamStepInv ==
  ASSUME StreamInv, Next
  PROVE  StreamInv'
BY SendInv, CloseInv, ResetInv, RecvInv, DeliverInv, ShiftInv DEF Next, Reader

LEMMA StreamStutterInv ==
  ASSUME StreamInv, UNCHANGED vars
  PROVE  StreamInv'
<1>1. UNCHANGED <<sent, stream, peer, flowbuf, start, readerAt, delivered, fault>>
  BY DEF vars
<1>2. TypeOK'
  BY <1>1 DEF StreamInv, TypeOK
<1>3. Pending' = Pending /\ \A x : Byte(x)' = Byte(x)
  BY <1>1 DEF Pending, Byte
<1>4. Pending \in Int
  BY DEF StreamInv, TypeOK, Pending
<1> QED BY <1>1, <1>2, <1>3, <1>4, SameBytes
-----------------------------------------------------------------------------
(* The invariant holds of every behaviour.                                 *)
THEOREM StreamInvariance == Spec => []StreamInv
<1>1. Init => StreamInv
  BY StreamInitInv
<1>2. StreamInv /\ [Next]_vars => StreamInv'
  BY StreamStepInv, StreamStutterInv
<1> QED BY <1>1, <1>2, PTL DEF Spec

(* A step of the stream is a step of the channel or invisible to it.       *)
LEMMA StepSimulation ==
  ASSUME StreamInv, Next
  PROVE  [Channel!Next]_Channel!vars
<1>1. ASSUME NEW m \in Messages, Send(m) PROVE Channel!Send(m)
  BY <1>1 DEF Send, Channel!Send
<1>2. CASE PeerClose \/ PeerReset
  BY <1>2 DEF PeerClose, PeerReset, Channel!Next, Channel!Close, Channel!vars
<1>3. ASSUME NEW n \in 1 .. RecvSize, Recv(n) PROVE [Channel!Next]_Channel!vars
  BY <1>3 DEF Recv, Channel!Next, Channel!Close, Channel!vars
<1>4. ASSUME Deliver PROVE [Channel!Next]_Channel!vars
  <2>1. PICK e \in 1 .. Len(flowbuf) :
          /\ IsNextEnd(e)
          /\ IF e - start > StrSize
             THEN fault' = "smashed" /\ UNCHANGED <<start, delivered>>
             ELSE /\ delivered' = Append(delivered, SubSeq(flowbuf, start + 1, e - 1))
                  /\ start' = e
                  /\ UNCHANGED fault
    BY <1>4 DEF Deliver
  <2>2. fault = "none" /\ UNCHANGED <<sent, stream, peer, flowbuf, readerAt>>
    BY <1>4 DEF Deliver
  <2>3. CASE e - start > StrSize
    BY <2>1, <2>2, <2>3 DEF Channel!Next, Channel!Close, Channel!vars
  <2>4. CASE ~(e - start > StrSize)
    <3>1. PICK pos : Offsets(pos) /\ Framed(pos)
      BY DEF StreamInv
    <3>2. /\ Len(delivered) + 1 \in 1 .. Len(sent)
          /\ SubSeq(flowbuf, start + 1, e - 1) = sent[Len(delivered) + 1]
      BY <2>1, <3>1, NextPiece DEF StreamInv
    <3>3. Len(delivered) < Len(sent)
      BY <3>2 DEF StreamInv, TypeOK
    <3> QED BY <2>1, <2>2, <2>4, <3>2, <3>3 DEF Channel!Next, Channel!Deliver
  <2> QED BY <2>3, <2>4
<1>5. CASE Shift \/ EndOfStream
  BY <1>5 DEF Shift, EndOfStream, Channel!vars
<1> QED BY <1>1, <1>2, <1>3, <1>4, <1>5 DEF Next, Reader, Channel!Next

(* Messages are delivered whole, in the order they were sent, none twice   *)
(* and none that was not sent, whatever fragments recv returns, wherever   *)
(* the connection breaks and whichever buffer overflows.                   *)
THEOREM StreamImplementsChannel == Spec => ImplementsChannel
<1>1. Init => Channel!Init
  BY DEF Init, Channel!Init
<1>2. StreamInv /\ [Next]_vars => [Channel!Next]_Channel!vars
  <2>1. StreamInv /\ UNCHANGED vars => UNCHANGED Channel!vars
    BY DEF vars, Channel!vars
  <2> QED BY <2>1, StepSimulation
<1> QED BY <1>1, <1>2, StreamInvariance, PTL DEF Spec, ImplementsChannel, Channel!Spec
=============================================================================
