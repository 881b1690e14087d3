--------------------------- MODULE ReceiverProofs ---------------------------
(***************************************************************************)
(* What holds of Receiver for every set of clients, every set of requests, *)
(* every buffer and chunk size and any number of failing IOS calls.        *)
(***************************************************************************)
EXTENDS Receiver, SequenceTheorems, TLAPS

-----------------------------------------------------------------------------
(* Types                                                                   *)

\* Writing bytes of a request into the buffer keeps it a buffer.
LEMMA FillType ==
  ASSUME NEW buf \in [Index -> Chars \cup {Nul}], NEW s \in Seq(Chars),
         NEW at \in Nat, NEW n \in Nat, at + n <= Len(s)
  PROVE  Fill(buf, s, at, n) \in [Index -> Chars \cup {Nul}]
<1> SUFFICES ASSUME NEW i \in Index
             PROVE  (IF i \in at .. at + n - 1 THEN s[i + 1] ELSE buf[i]) \in Chars \cup {Nul}
  BY DEF Fill
<1>1. CASE i \in at .. at + n - 1
  <2>1. i + 1 \in 1 .. Len(s)
    BY <1>1 DEF Index
  <2> QED
    BY <1>1, <2>1
<1>2. CASE i \notin at .. at + n - 1
  BY <1>2
<1> QED
  BY <1>1, <1>2

\* What arrives is part of what the client sends, nothing arrives from a client
\* that is not connected, and what is read has arrived.
Arrived == /\ \A c \in Conns : sent[c] <= Len(stream[c])
           /\ \A c \in Conns : status[c] = "idle" => sent[c] = 0
           /\ Serving => connfd \in Conns /\ total <= sent[connfd]

\* A stream is a finite sequence of characters, also that of an idle client.
LEMMA StreamType ==
  ASSUME TypeOK, NEW c \in Conns
  PROVE  stream[c] \in Seq(Chars) /\ Len(stream[c]) \in Nat
<1>1. stream[c] \in Seq(Chars)
  BY ReceiverAssumption, EmptySeq DEF TypeOK
<1> QED
  BY <1>1, LenProperties

\* Descriptors, with the part of the startup in which none is open.
Descriptors == NoneLeaked /\ (pc \in {"init", "socket"} => listenfd = "closed")

Basic == TypeOK /\ Arrived /\ Descriptors

\* It holds at first.
LEMMA BasicInit == Init => Basic
<1> USE ReceiverAssumption DEF Init
<1>1. Init => TypeOK
  BY EmptySeq DEF TypeOK, Blank, Index
<1>2. Init => Arrived
  BY EmptySeq DEF Arrived, Serving
<1>3. Init => Descriptors
  BY DEF Descriptors, NoneLeaked, Serving
<1> QED
  BY <1>1, <1>2, <1>3 DEF Basic

\* Every step of the thread and of the clients keeps it.
LEMMA BasicNext == Basic /\ [Next]_vars => Basic'
<1> SUFFICES ASSUME Basic, [Next]_vars PROVE Basic'
  OBVIOUS
<1> USE ReceiverAssumption DEF Basic, Arrived, Descriptors, NoneLeaked, Serving, Fault
<1>1. CASE InitializeNetwork
  BY <1>1 DEF InitializeNetwork, TypeOK, clients
<1>2. CASE OpenSocket
  BY <1>2 DEF OpenSocket, TypeOK, clients
<1>3. CASE Bind
  BY <1>3 DEF Bind, TypeOK, clients
<1>4. CASE Listen
  BY <1>4 DEF Listen, TypeOK, clients
<1>5. CASE CloseListener
  BY <1>5 DEF CloseListener, TypeOK, clients
<1>6. CASE ClearBuffers
  BY <1>6 DEF ClearBuffers, TypeOK, clients, Blank, Index
<1>7. CASE Accept
  <2>1. CASE Fault /\ UNCHANGED <<pc, connfd, backlog, status, total, bytes>>
    BY <1>7, <2>1 DEF Accept, TypeOK
  <2>2. CASE backlog # <<>> /\ connfd' = Head(backlog) /\ UNCHANGED faults
    <3>1. Head(backlog) \in Conns /\ Tail(backlog) \in Seq(Conns)
      BY <2>2, HeadTailProperties DEF TypeOK
    <3>2. /\ pc = "accept" /\ pc' = "read"
          /\ backlog' = Tail(backlog)
          /\ status' = [status EXCEPT ![Head(backlog)] = "open"]
          /\ total' = 0 /\ bytes' = 0
          /\ UNCHANGED <<inFront, listenfd, recvBuff, sendBuff, size, stream, sent, gone, reply>>
      BY <1>7, <2>2 DEF Accept, TypeOK
    <3>3. TypeOK'
      BY <2>2, <3>1, <3>2 DEF TypeOK
    <3>4. Arrived'
      BY <2>2, <3>1, <3>2 DEF TypeOK
    <3>5. Descriptors'
      BY <2>2, <3>1, <3>2 DEF TypeOK
    <3> QED
      BY <3>3, <3>4, <3>5
  <2> QED
    BY <1>7, <2>1, <2>2 DEF Accept
<1>8. CASE Read
  <2>1. /\ pc = "read" /\ connfd \in Conns /\ pc' \in {"read", "frame", "overrun"}
        /\ UNCHANGED <<inFront, listenfd, connfd, sendBuff, size, clients>>
    BY <1>8 DEF Read, Store, AfterSearch, TypeOK
  <2>2. ASSUME NEW n \in 1 .. Chunk, n <= Available, total' = total + n, bytes' = n,
               recvBuff' = Fill(recvBuff, stream[connfd], total, n), UNCHANGED faults
        PROVE  Basic'
    <3>1. total + n <= sent[connfd] /\ total + n <= Len(stream[connfd])
      <4>1. sent[connfd] \in Nat /\ Len(stream[connfd]) \in Nat /\ total \in Nat
        BY <2>1, StreamType DEF TypeOK
      <4>2. sent[connfd] <= Len(stream[connfd])
        BY <2>1
      <4> QED
        BY <2>2, <4>1, <4>2 DEF Available
    <3>2. recvBuff' \in [Index -> Chars \cup {Nul}]
      <4>1. stream[connfd] \in Seq(Chars) /\ n \in Nat /\ total \in Nat
        BY <2>1, StreamType DEF TypeOK
      <4>2. recvBuff \in [Index -> Chars \cup {Nul}]
        BY DEF TypeOK
      <4>3. Fill(recvBuff, stream[connfd], total, n) \in [Index -> Chars \cup {Nul}]
        BY <3>1, <4>1, <4>2, FillType
      <4> QED
        BY <2>2, <4>3
    <3>3. TypeOK'
      BY <2>1, <2>2, <3>2 DEF TypeOK, clients
    <3>4. Arrived'
      BY <2>1, <2>2, <3>1 DEF TypeOK, clients
    <3> QED
      BY <2>1, <3>3, <3>4 DEF clients
  <2>3. CASE bytes' \in {-1, 0} /\ UNCHANGED <<recvBuff, total>> /\ (Fault \/ UNCHANGED faults)
    <3>1. TypeOK'
      BY <2>1, <2>3 DEF TypeOK, clients
    <3> QED
      BY <2>1, <2>3, <3>1 DEF clients
  <2> QED
    BY <1>8, <2>2, <2>3 DEF Read, Store
<1>9. CASE Frame
  BY <1>9 DEF Frame, TypeOK, clients
<1>10. CASE Execute
  BY <1>10 DEF Execute, Halt, TypeOK, clients
<1>11. CASE Write
  <2>1. reply' \in [Conns -> Seq(Conns \cup {NoConn})]
    <3>1. CASE UNCHANGED reply
      BY <3>1 DEF TypeOK
    <3>2. CASE reply' = [reply EXCEPT ![connfd] = Append(@, sendBuff)]
      <4>1. connfd \in Conns /\ reply[connfd] \in Seq(Conns \cup {NoConn})
        BY <1>11 DEF Write, TypeOK
      <4>2. Append(reply[connfd], sendBuff) \in Seq(Conns \cup {NoConn})
        BY <4>1, AppendProperties DEF TypeOK
      <4> QED
        BY <3>2, <4>1, <4>2 DEF TypeOK
    <3> QED
      BY <1>11, <3>1, <3>2 DEF Write
  <2>2. /\ pc = "write" /\ pc' = "close" /\ (faults' \in 0 .. MaxFaults)
        /\ UNCHANGED <<inFront, listenfd, connfd, recvBuff, total, bytes, sendBuff, size>>
        /\ UNCHANGED <<status, backlog, stream, sent, gone>>
    BY <1>11 DEF Write, TypeOK
  <2>3. TypeOK'
    BY <2>1, <2>2 DEF TypeOK
  <2> QED
    BY <2>2, <2>3
<1>12. CASE CloseConn
  BY <1>12 DEF CloseConn, TypeOK
<1>13. ASSUME NEW c \in Conns, NEW s \in Streams, Connect(c, s) PROVE Basic'
  <2>1. s \in Seq(Chars) /\ Len(s) \in Nat
    BY LenProperties
  <2>5. Append(backlog, c) \in Seq(Conns)
    BY AppendProperties DEF TypeOK
  <2>2. TypeOK'
    BY <1>13, <2>1, <2>5 DEF Connect, TypeOK, server
  <2>3. Arrived'
    BY <1>13, <2>1 DEF Connect, TypeOK, server
  <2>4. Descriptors'
    BY <1>13 DEF Connect, TypeOK, server
  <2> QED
    BY <2>2, <2>3, <2>4
<1>14. ASSUME NEW c \in Conns, NEW n \in Nat, Deliver(c, n) PROVE Basic'
  <2>1. Len(stream[c]) \in Nat
    BY StreamType
  <2>4. sent' \in [Conns -> Nat]
    BY <1>14 DEF Deliver, TypeOK
  <2>2. TypeOK'
    <3>1. UNCHANGED <<server, status, backlog, stream, gone, reply, faults>>
      BY <1>14 DEF Deliver
    <3> QED
      BY <2>4, <3>1 DEF TypeOK, server
  <2>3. Arrived'
    BY <1>14, <2>1 DEF Deliver, TypeOK, server
  <2> QED
    BY <1>14, <2>2, <2>3 DEF Deliver, server
<1>15. ASSUME NEW c \in Conns, HangUp(c) PROVE Basic'
  BY <1>15 DEF HangUp, TypeOK, server
<1>16. ASSUME NEW c \in Conns, Leave(c) PROVE Basic'
  <2>1. TypeOK'
    BY <1>16 DEF Leave, TypeOK, server
  <2>2. Arrived'
    BY <1>16 DEF Leave, TypeOK, server
  <2> QED
    BY <1>16, <2>1, <2>2 DEF Leave, TypeOK, server
<1>17. CASE UNCHANGED vars
  BY <1>17 DEF vars, server, clients, TypeOK
<1> QED
  <2>1. ASSUME NEW c \in Conns, SendSome(c) PROVE Basic'
    BY <2>1, <1>14, StreamType DEF SendSome
  <2> QED
    BY <1>1, <1>2, <1>3, <1>4, <1>5, <1>6, <1>7, <1>8, <1>9, <1>10, <1>11, <1>12,
       <1>13, <1>15, <1>16, <1>17, <2>1 DEF Next, Server, Client

\* Every behaviour of the receiver is well typed, for all constants.
THEOREM TypeCorrect == Spec => []TypeOK
<1>1. Spec => []Basic
  BY BasicInit, BasicNext, PTL DEF Spec
<1> QED
  BY <1>1, PTL DEF Basic

\* No connection and no listening socket is leaked, however calls fail.
THEOREM NothingLeaked == Spec => []NoneLeaked
<1>1. Spec => []Basic
  BY BasicInit, BasicNext, PTL DEF Spec
<1>2. Basic => NoneLeaked
  BY DEF Basic, Descriptors
<1> QED
  BY <1>1, <1>2, PTL

-----------------------------------------------------------------------------
(* Framing                                                                 *)

\* The first n characters of s, and nothing else, are in buf.
Mirrors(buf, s, n) ==
  \A i \in Index : buf[i] = IF i < n THEN s[i + 1] ELSE Nul

\* From one accept to the next, recvBuff mirrors what was read of this request.
Framing ==
  /\ pc = "accept" => Mirrors(recvBuff, <<>>, 0)
  /\ pc \in {"read", "frame"} => Mirrors(recvBuff, stream[connfd], total)
  /\ pc = "frame" /\ bytes >= 0 => HasEof(recvBuff) \/ Unended(recvBuff)
  /\ RequestFramed

\* A read extends the mirrored part.
LEMMA FillMirrors ==
  ASSUME NEW buf, NEW s, NEW at \in Nat, NEW n \in Nat, Mirrors(buf, s, at)
  PROVE  Mirrors(Fill(buf, s, at, n), s, at + n)
BY ReceiverAssumption DEF Mirrors, Fill, Index

\* Nothing but bytes of the request is in a buffer without a terminator.
LEMMA UnendedIsFull ==
  ASSUME NEW buf, NEW s, NEW n \in Nat, Mirrors(buf, s, n), Unended(buf)
  PROVE  n >= BufSize /\ s[BufSize] # Eof
<1>1. BufSize - 1 \in Index
  BY ReceiverAssumption DEF Index
<1>2. buf[BufSize - 1] = IF BufSize - 1 < n THEN s[BufSize] ELSE Nul
  BY <1>1, ReceiverAssumption DEF Mirrors
<1>3. buf[BufSize - 1] \notin {Eof, Nul}
  BY <1>1 DEF Unended
<1> QED
  BY <1>2, <1>3, ReceiverAssumption

\* Once a mirrored part of a client's request holds an Eof, its last character
\* is one, since nothing but Eof follows an Eof.
LEMMA LastIsEof ==
  ASSUME NEW buf, NEW s \in Seq(Chars), ClientShaped(s), NEW n \in 0 .. Len(s),
         Mirrors(buf, s, n), HasEof(buf)
  PROVE  n >= 1 /\ s[n] = Eof
<1>1. PICK i \in Index : buf[i] = Eof
  BY DEF HasEof
<1>2. i < n /\ s[i + 1] = Eof
  BY <1>1, ReceiverAssumption DEF Mirrors
<1>3. Len(s) \in Nat /\ i \in Nat
  BY LenProperties DEF Index
<1>4. PICK k \in 0 .. Len(s) - 1 : \A j \in 1 .. Len(s) : s[j] = Eof <=> j > k
  BY DEF ClientShaped
<1>5. i + 1 > k
  BY <1>2, <1>3, <1>4
<1> QED
  BY <1>2, <1>3, <1>4, <1>5

\* Every step keeps the buffer a copy of what has arrived.
LEMMA FramingNext ==
  ASSUME WellBehaved, Basic, Framing, [Next]_vars
  PROVE  Framing'
<1> USE DEF Framing, RequestFramed
<1>0. \A c \in Conns : status[c] = "open" <=> (Serving /\ c = connfd)
  BY DEF Basic, Descriptors, NoneLeaked
<1>1. CASE ClearBuffers
  BY <1>1 DEF ClearBuffers, Mirrors, Blank, Index
<1>2. CASE Accept
  <2>1. CASE UNCHANGED <<pc, connfd>>
    BY <1>2, <2>1 DEF Accept
  <2>2. CASE pc' = "read" /\ total' = 0
    BY <1>2, <2>2 DEF Accept, Mirrors, Index
  <2> QED
    BY <1>2, <2>1, <2>2 DEF Accept
<1>3. CASE Read
  <2>1. pc = "read" /\ UNCHANGED <<stream, connfd>> /\ Mirrors(recvBuff, stream[connfd], total)
    BY <1>3 DEF Read, clients
  <2>2. ASSUME NEW n \in 1 .. Chunk, total' = total + n, bytes' = n,
               recvBuff' = Fill(recvBuff, stream[connfd], total, n),
               pc' = "overrun" \/ pc' \in AfterSearch(recvBuff')
        PROVE  Framing'
    <3>1. total \in Nat /\ n \in Nat
      BY ReceiverAssumption DEF Basic, TypeOK
    <3>2. Mirrors(recvBuff', stream[connfd], total + n)
      BY <2>1, <2>2, <3>1, FillMirrors
    <3>3. Mirrors(recvBuff, stream[connfd], total)'
      BY <2>1, <2>2, <3>2 DEF Mirrors
    <3>4. pc' = "frame" => (HasEof(recvBuff) \/ Unended(recvBuff))'
      BY <2>2 DEF HasEof, Unended, AfterSearch
    <3>5. pc' \in {"read", "frame", "overrun"}
      BY <2>2 DEF AfterSearch
    <3> QED
      BY <3>3, <3>4, <3>5
  <2>3. CASE UNCHANGED <<recvBuff, total>> /\ bytes' = 0
             /\ pc' \in AfterSearch(recvBuff)
    BY <2>1, <2>3 DEF Mirrors, HasEof, Unended, AfterSearch
  <2>4. CASE UNCHANGED <<recvBuff, total>> /\ bytes' = -1 /\ pc' = "frame"
    BY <2>1, <2>4 DEF Mirrors
  <2> QED
    BY <1>3, <2>2, <2>3, <2>4 DEF Read, Store
<1>4. CASE Frame
  <2> DEFINE s == stream[connfd]
  <2>1. /\ pc = "frame" /\ pc' = IF bytes < 0 THEN "close" ELSE "exec"
        /\ recvBuff' = [i \in Index |-> IF i = total - 1 THEN Nul ELSE recvBuff[i]]
        /\ UNCHANGED <<stream, connfd, total, bytes>>
    BY <1>4 DEF Frame, clients
  <2>2. CASE bytes < 0
    BY <2>1, <2>2
  <2>3. CASE bytes >= 0
    <3>1. connfd \in Conns /\ total \in Nat /\ total <= sent[connfd]
      BY <2>1 DEF Basic, TypeOK, Arrived, Serving
    <3>2. s \in Seq(Chars) /\ Len(s) \in Nat
      BY <3>1, StreamType DEF Basic
    <3>3. total \in 0 .. Len(s)
      <4>1. sent[connfd] \in Nat /\ sent[connfd] <= Len(s)
        BY <3>1 DEF Basic, TypeOK, Arrived
      <4> QED
        BY <3>1, <3>2, <4>1
    <3>4. Mirrors(recvBuff, s, total) /\ (HasEof(recvBuff) \/ Unended(recvBuff))
      BY <2>1, <2>3
    <3>5. CASE ~ Len(s) <= BufSize
      BY <2>1, <2>3, <3>5
    <3>6. CASE Len(s) <= BufSize
      <4>1. s # <<>>
        <5>1. total >= 1
          <6>1. CASE HasEof(recvBuff)
            BY <3>1, <3>4, <6>1, ReceiverAssumption DEF HasEof, Mirrors, Index
          <6>2. CASE Unended(recvBuff)
            BY <3>1, <3>4, <6>2, UnendedIsFull, ReceiverAssumption
          <6> QED
            BY <3>4, <6>1, <6>2
        <5> QED
          BY <3>1, <3>3, <5>1, EmptySeq
      <4>2. ClientShaped(s)
        BY <3>1, <4>1 DEF Basic, TypeOK, WellBehaved
      <4>3. HasEof(recvBuff)
        <5>1. CASE Unended(recvBuff)
          <6>1. total >= BufSize /\ s[BufSize] # Eof
            BY <3>1, <3>4, <5>1, UnendedIsFull
          <6>2. Len(s) = BufSize
            BY <3>2, <3>3, <3>6, <6>1, ReceiverAssumption
          <6>3. PICK k \in 0 .. Len(s) - 1 : \A j \in 1 .. Len(s) : s[j] = Eof <=> j > k
            BY <4>2 DEF ClientShaped
          <6> QED
            BY <3>2, <6>1, <6>2, <6>3, ReceiverAssumption
        <5> QED
          BY <3>4, <5>1
      <4>4. total >= 1 /\ s[total] = Eof
        BY <3>2, <3>3, <3>4, <4>2, <4>3, LastIsEof
      <4>5. \A i \in Index : recvBuff'[i] = IF i < total - 1 THEN s[i + 1] ELSE Nul
        <5>1. SUFFICES ASSUME NEW i \in Index
                       PROVE  recvBuff'[i] = IF i < total - 1 THEN s[i + 1] ELSE Nul
          OBVIOUS
        <5>2. recvBuff'[i] = IF i = total - 1 THEN Nul ELSE recvBuff[i]
          BY <2>1
        <5>3. recvBuff[i] = IF i < total THEN s[i + 1] ELSE Nul
          BY <3>4 DEF Mirrors
        <5> QED
          BY <3>1, <5>2, <5>3 DEF Index
      <4> QED
        BY <2>1, <2>3, <3>2, <3>3, <4>4, <4>5
    <3> QED
      BY <3>5, <3>6
  <2> QED
    BY <2>2, <2>3 DEF Basic, TypeOK
<1>5. CASE Execute \/ Write \/ CloseConn
  BY <1>5 DEF Execute, Halt, Write, CloseConn
<1>6. CASE InitializeNetwork \/ OpenSocket \/ Bind \/ Listen \/ CloseListener
  BY <1>6 DEF InitializeNetwork, OpenSocket, Bind, Listen, CloseListener
<1>7. ASSUME NEW c \in Conns, NEW s \in Streams, Connect(c, s) PROVE Framing'
  <2>1. UNCHANGED <<pc, connfd, recvBuff, total, bytes>>
        /\ stream' = [stream EXCEPT ![c] = s] /\ status[c] = "idle"
    BY <1>7 DEF Connect, server
  <2>2. Serving => UNCHANGED stream[connfd]
    BY <1>0, <2>1 DEF Basic, TypeOK, Arrived
  <2> QED
    BY <2>1, <2>2 DEF Serving, Mirrors, HasEof, Unended
<1>8. ASSUME NEW c \in Conns, Leave(c) PROVE Framing'
  <2>1. UNCHANGED <<pc, connfd, recvBuff, total, bytes>>
        /\ stream' = [stream EXCEPT ![c] = <<>>] /\ status[c] = "closed"
    BY <1>8 DEF Leave, server
  <2>2. Serving => UNCHANGED stream[connfd]
    BY <1>0, <2>1 DEF Basic, TypeOK, Arrived
  <2> QED
    BY <2>1, <2>2 DEF Serving, Mirrors, HasEof, Unended
<1>9. ASSUME UNCHANGED <<pc, connfd, recvBuff, total, bytes, stream>> PROVE Framing'
  BY <1>9 DEF Mirrors, HasEof, Unended
<1> QED
  <2>1. ASSUME NEW c \in Conns, SendSome(c) \/ HangUp(c) PROVE Framing'
    BY <2>1, <1>9 DEF SendSome, Deliver, HangUp, server
  <2>2. CASE UNCHANGED vars
    BY <2>2, <1>9 DEF vars, server, clients
  <2> QED
    BY <1>1, <1>2, <1>3, <1>4, <1>5, <1>6, <1>7, <1>8, <2>1, <2>2 DEF Next, Server, Client

\* Clients that behave like netmemoryaccess_client.py have the requests that fit
\* the buffer executed as they sent them, for every cut and every history.
THEOREM RequestsFramed == ASSUME WellBehaved PROVE Spec => []RequestFramed
<1>1. Init => Basic /\ Framing
  BY BasicInit DEF Init, Framing, RequestFramed
<1>2. Basic /\ Framing /\ [Next]_vars => (Basic /\ Framing)'
  BY BasicNext, FramingNext
<1>3. Framing => RequestFramed
  BY DEF Framing
<1> QED
  BY <1>1, <1>2, <1>3, PTL DEF Spec

\* What the stores of the loop rest on: a request that ends it has at least one
\* character, because a cleared buffer holds no Eof; a failing call counts.
Contained ==
  /\ pc = "accept" => Mirrors(recvBuff, <<>>, 0)
  /\ pc \in {"read", "frame"} => Mirrors(recvBuff, stream[connfd], total)
  /\ pc = "frame" /\ total = 0 => faults > 0
  /\ StoresInBuffer

\* A blank buffer ends no search: it neither holds an Eof nor lacks the Nul.
LEMMA BlankGoesOn ==
  ASSUME NEW buf, NEW s, Mirrors(buf, s, 0)
  PROVE  AfterSearch(buf) = {"read"}
<1>1. \A i \in Index : buf[i] = Nul
  BY DEF Mirrors, Index
<1>2. 0 \in Index
  BY ReceiverAssumption DEF Index
<1>3. ~ HasEof(buf) /\ ~ Unended(buf)
  BY <1>1, <1>2, ReceiverAssumption DEF HasEof, Unended
<1> QED
  BY <1>3 DEF AfterSearch

\* Every step keeps what was touched outside of the buffer.
LEMMA ContainedNext ==
  ASSUME Basic, Contained, [Next]_vars
  PROVE  Contained'
<1> USE DEF Contained, StoresInBuffer
<1>0. \A c \in Conns : status[c] = "open" <=> (Serving /\ c = connfd)
  BY DEF Basic, Descriptors, NoneLeaked
<1>1. CASE ClearBuffers
  BY <1>1 DEF ClearBuffers, Mirrors, Blank, Index
<1>2. CASE Accept
  <2>1. CASE UNCHANGED <<pc, connfd>> /\ Fault
    BY <1>2, <2>1 DEF Accept, Fault, Basic, TypeOK
  <2>2. CASE pc' = "read" /\ total' = 0 /\ UNCHANGED faults
    BY <1>2, <2>2 DEF Accept, Mirrors, Index
  <2> QED
    BY <1>2, <2>1, <2>2 DEF Accept
<1>3. CASE Read
  <2>1. /\ pc = "read" /\ UNCHANGED <<stream, connfd, inFront>>
        /\ Mirrors(recvBuff, stream[connfd], total)
    BY <1>3 DEF Read, clients
  <2>2. ASSUME NEW n \in 1 .. Chunk, n <= Available, total' = total + n, UNCHANGED faults,
               recvBuff' = Fill(recvBuff, stream[connfd], total, n),
               pc' \in IF total + n > BufSize THEN {"overrun"} ELSE AfterSearch(recvBuff')
        PROVE  Contained'
    <3>1. total \in Nat /\ n \in Nat /\ n >= 1
      BY ReceiverAssumption DEF Basic, TypeOK
    <3>2. Mirrors(recvBuff', stream[connfd], total + n)
      BY <2>1, <2>2, <3>1, FillMirrors
    <3>3. Mirrors(recvBuff, stream[connfd], total)'
      BY <2>1, <2>2, <3>2 DEF Mirrors
    <3>4. pc' = "overrun" => Len(stream[connfd]) > BufSize
      <4>1. connfd \in Conns /\ sent[connfd] \in Nat /\ sent[connfd] <= Len(stream[connfd])
        BY <2>1 DEF Basic, TypeOK, Arrived, Serving
      <4>2. Len(stream[connfd]) \in Nat
        BY <4>1, StreamType DEF Basic
      <4>3. total + n <= Len(stream[connfd])
        BY <2>2, <3>1, <4>1, <4>2 DEF Available
      <4>4. pc' = "overrun" => total + n > BufSize
        BY <2>2 DEF AfterSearch
      <4> QED
        BY <3>1, <4>2, <4>3, <4>4, ReceiverAssumption
    <3>5. pc' \in {"read", "frame", "overrun"}
      BY <2>2 DEF AfterSearch
    <3> QED
      BY <2>1, <2>2, <3>1, <3>3, <3>4, <3>5
  <2>3. CASE UNCHANGED <<recvBuff, total, faults>> /\ pc' \in AfterSearch(recvBuff)
    <3>1. pc' \in {"read", "frame"}
      BY <2>3 DEF AfterSearch
    <3>2. total = 0 => pc' = "read"
      BY <2>1, <2>3, BlankGoesOn
    <3> QED
      BY <2>1, <2>3, <3>1, <3>2 DEF Mirrors
  <2>4. CASE UNCHANGED <<recvBuff, total>> /\ Fault /\ pc' = "frame"
    BY <2>1, <2>4 DEF Mirrors, Fault, Basic, TypeOK
  <2> QED
    BY <1>3, <2>2, <2>3, <2>4 DEF Read, Store
<1>4. CASE Frame
  BY <1>4 DEF Frame, clients
<1>5. CASE Execute \/ Write \/ CloseConn
  BY <1>5 DEF Execute, Halt, Write, CloseConn, Fault, Basic, TypeOK
<1>6. CASE InitializeNetwork \/ OpenSocket \/ Bind \/ Listen \/ CloseListener
  BY <1>6 DEF InitializeNetwork, OpenSocket, Bind, Listen, CloseListener, Fault, Basic, TypeOK
<1>7. ASSUME NEW c \in Conns, NEW s \in Streams, Connect(c, s) PROVE Contained'
  <2>1. UNCHANGED <<pc, connfd, recvBuff, total, inFront, faults>>
        /\ stream' = [stream EXCEPT ![c] = s] /\ status[c] = "idle"
    BY <1>7 DEF Connect, server
  <2>2. Serving => UNCHANGED stream[connfd]
    BY <1>0, <2>1 DEF Basic, TypeOK, Arrived
  <2> QED
    BY <2>1, <2>2 DEF Serving, Mirrors
<1>8. ASSUME NEW c \in Conns, Leave(c) PROVE Contained'
  <2>1. UNCHANGED <<pc, connfd, recvBuff, total, inFront, faults>>
        /\ stream' = [stream EXCEPT ![c] = <<>>] /\ status[c] = "closed"
    BY <1>8 DEF Leave, server
  <2>2. Serving => UNCHANGED stream[connfd]
    BY <1>0, <2>1 DEF Basic, TypeOK, Arrived
  <2> QED
    BY <2>1, <2>2 DEF Serving, Mirrors
<1>9. ASSUME UNCHANGED <<pc, connfd, recvBuff, total, inFront, faults, stream>> PROVE Contained'
  BY <1>9 DEF Mirrors
<1> QED
  <2>1. ASSUME NEW c \in Conns, SendSome(c) \/ HangUp(c) PROVE Contained'
    BY <2>1, <1>9 DEF SendSome, Deliver, HangUp, server
  <2>2. CASE UNCHANGED vars
    BY <2>2, <1>9 DEF vars, server, clients
  <2> QED
    BY <1>1, <1>2, <1>3, <1>4, <1>5, <1>6, <1>7, <1>8, <2>1, <2>2 DEF Next, Server, Client

\* For all clients and requests, of whatever shape: bytes are stored behind
\* recvBuff only for a request longer than it, in front of it only after a
\* failing call.
THEOREM StoresContained == Spec => []StoresInBuffer
<1>1. Init => Basic /\ Contained
  BY BasicInit DEF Init, Contained, StoresInBuffer
<1>2. Basic /\ Contained /\ [Next]_vars => (Basic /\ Contained)'
  BY BasicNext, ContainedNext
<1>3. Contained => StoresInBuffer
  BY DEF Contained
<1> QED
  BY <1>1, <1>2, <1>3, PTL DEF Spec

-----------------------------------------------------------------------------
(* Answers, and the service                                                *)

\* The connections that wait for accept are different ones.
Queued == /\ \A i \in 1 .. Len(backlog) : status[backlog[i]] = "waiting"
          /\ \A i, j \in 1 .. Len(backlog) : backlog[i] = backlog[j] => i = j

\* The backlog is empty at first.
LEMMA QueuedInit == Init => Queued
BY DEF Init, Queued

\* The first of the backlog is a connection that waits.
LEMMA HeadWaits ==
  ASSUME TypeOK, Queued, backlog # <<>>
  PROVE  Head(backlog) \in Conns /\ status[Head(backlog)] = "waiting"
<1>1. backlog \in Seq(Conns)
  BY DEF TypeOK
<1>2. Len(backlog) \in Nat \ {0} /\ Head(backlog) = backlog[1] /\ Head(backlog) \in Conns
  BY <1>1, EmptySeq, HeadTailProperties
<1> QED
  BY <1>2 DEF Queued

\* Every step keeps the backlog those that wait, each once.
LEMMA QueuedNext == Basic /\ Queued /\ [Next]_vars => Queued'
<1> SUFFICES ASSUME Basic, Queued, [Next]_vars PROVE Queued'
  OBVIOUS
<1>0. backlog \in Seq(Conns) /\ Len(backlog) \in Nat /\ \A i \in 1 .. Len(backlog) : backlog[i] \in Conns
  BY LenProperties, ElementOfSeq DEF Basic, TypeOK
<1>1. ASSUME backlog # <<>>, backlog' = Tail(backlog),
             status' = [status EXCEPT ![Head(backlog)] = "open"]
      PROVE  Queued'
  <2>1. /\ Len(Tail(backlog)) = Len(backlog) - 1
        /\ \A i \in 1 .. Len(Tail(backlog)) : Tail(backlog)[i] = backlog[i + 1]
        /\ Head(backlog) = backlog[1] /\ Len(backlog) >= 1
    BY <1>0, <1>1, HeadTailProperties, EmptySeq
  <2>2. \A i \in 2 .. Len(backlog) : backlog[i] # backlog[1]
    BY <1>0, <2>1 DEF Queued
  <2>3. \A i \in 2 .. Len(backlog) : status'[backlog[i]] = "waiting"
    BY <1>0, <1>1, <2>1, <2>2 DEF Queued, Basic, TypeOK
  <2> QED
    BY <1>0, <1>1, <2>1, <2>3 DEF Queued
<1>2. CASE UNCHANGED <<backlog, status>>
  BY <1>2 DEF Queued
<1>3. ASSUME NEW c \in Conns, NEW s \in Streams, Connect(c, s) PROVE Queued'
  <2>1. /\ backlog' = Append(backlog, c) /\ status[c] = "idle"
        /\ status' = [status EXCEPT ![c] = "waiting"]
    BY <1>3 DEF Connect
  <2>2. /\ Len(Append(backlog, c)) = Len(backlog) + 1
        /\ \A i \in 1 .. Len(backlog) : Append(backlog, c)[i] = backlog[i]
        /\ Append(backlog, c)[Len(backlog) + 1] = c
    BY <1>0, AppendProperties
  <2>3. \A i \in 1 .. Len(backlog) : backlog[i] # c
    BY <2>1 DEF Queued
  <2>4. status' \in [Conns -> {"idle", "waiting", "open", "closed"}] /\ status'[c] = "waiting"
    BY <2>1 DEF Basic, TypeOK
  <2>5. \A i \in 1 .. Len(backlog') : status'[backlog'[i]] = "waiting"
    <3>1. \A i \in 1 .. Len(backlog) : status'[backlog[i]] = "waiting"
      BY <1>0, <2>1, <2>3 DEF Queued, Basic, TypeOK
    <3> QED
      BY <1>0, <2>1, <2>2, <2>4, <3>1
  <2>6. \A i, j \in 1 .. Len(backlog') : backlog'[i] = backlog'[j] => i = j
    BY <1>0, <2>1, <2>2, <2>3 DEF Queued
  <2> QED
    BY <2>5, <2>6 DEF Queued
<1>4. ASSUME UNCHANGED backlog,
             NEW c \in Conns, status[c] \in {"open", "closed"}, NEW v,
             status' = [status EXCEPT ![c] = v]
      PROVE  Queued'
  BY <1>0, <1>4 DEF Queued, Basic, TypeOK
<1>5. CASE InitializeNetwork \/ OpenSocket \/ Bind \/ Listen \/ CloseListener \/ ClearBuffers
  BY <1>2, <1>5 DEF InitializeNetwork, OpenSocket, Bind, Listen, CloseListener, ClearBuffers, clients
<1>6. CASE Accept
  BY <1>1, <1>2, <1>6 DEF Accept
<1>7. CASE Read \/ Frame \/ Execute \/ Write
  BY <1>2, <1>7 DEF Read, Frame, Execute, Halt, Write, clients
<1>8. CASE CloseConn
  <2>1. connfd \in Conns /\ status[connfd] = "open"
    BY <1>8 DEF CloseConn, Basic, Arrived, Descriptors, NoneLeaked, Serving
  <2> QED
    BY <1>4, <1>8, <2>1 DEF CloseConn
<1>9. ASSUME NEW c \in Conns, SendSome(c) \/ HangUp(c) PROVE Queued'
  BY <1>2, <1>9 DEF SendSome, Deliver, HangUp
<1>10. ASSUME NEW c \in Conns, Leave(c) PROVE Queued'
  BY <1>4, <1>10 DEF Leave
<1>11. CASE UNCHANGED vars
  BY <1>2, <1>11 DEF vars, clients
<1> QED
  BY <1>3, <1>5, <1>6, <1>7, <1>8, <1>9, <1>10, <1>11 DEF Next, Server, Client

\* Only the connection about to be closed has an answer before it is closed,
\* and what is about to be written is the answer of the connection served.
Answers ==
  /\ ReplyIsOwn
  /\ \A c \in Conns :
       reply[c] # <<>> => status[c] = "closed" \/ (pc = "close" /\ connfd = c)
  /\ pc = "write" /\ size > 0 => sendBuff = connfd

\* There is no answer at first.
LEMMA AnswersInit == Init => Answers
BY DEF Init, Answers, ReplyIsOwn

\* Every step keeps an answer with the connection it is for.
LEMMA AnswersNext == Basic /\ Queued /\ Answers /\ [Next]_vars => Answers'
<1> SUFFICES ASSUME Basic, Queued, Answers, [Next]_vars PROVE Answers'
  OBVIOUS
<1> USE DEF Answers, ReplyIsOwn
<1>0. \A c \in Conns : status[c] = "open" <=> (Serving /\ c = connfd)
  BY DEF Basic, Descriptors, NoneLeaked
<1>1. CASE InitializeNetwork \/ OpenSocket \/ Bind \/ Listen \/ CloseListener \/ ClearBuffers
  BY <1>1 DEF InitializeNetwork, OpenSocket, Bind, Listen, CloseListener, ClearBuffers, clients
<1>2. CASE Accept
  <2>1. CASE UNCHANGED <<pc, status, connfd>>
    BY <1>2, <2>1 DEF Accept
  <2>2. CASE backlog # <<>> /\ pc' = "read" /\ status' = [status EXCEPT ![Head(backlog)] = "open"]
             /\ connfd' = Head(backlog)
    <3>1. pc = "accept" /\ UNCHANGED <<reply, sendBuff, size>> /\ Head(backlog) \in Conns
      BY <1>2, <2>2, HeadTailProperties DEF Accept, Basic, TypeOK
    <3>2. \A c \in Conns : reply[c] # <<>> => status[c] = "closed"
      BY <3>1
    <3>3. \A c \in Conns : c # Head(backlog) => status'[c] = status[c]
      BY <2>2 DEF Basic, TypeOK
    <3>4. reply[Head(backlog)] = <<>>
      <4>1. status[Head(backlog)] = "waiting"
        BY <2>2, HeadWaits DEF Basic
      <4> QED
        BY <3>1, <3>2, <4>1
    <3> QED
      BY <2>2, <3>1, <3>2, <3>3, <3>4
  <2> QED
    BY <1>2, <2>1, <2>2 DEF Accept
<1>3. CASE Read \/ Frame
  BY <1>3 DEF Read, Store, AfterSearch, Frame, clients
<1>4. CASE Execute
  BY <1>4 DEF Execute, Halt, clients
<1>5. CASE Write
  <2>1. pc = "write" /\ pc' = "close" /\ UNCHANGED <<connfd, sendBuff, size, status>>
    BY <1>5 DEF Write
  <2>2. connfd \in Conns /\ reply[connfd] = <<>>
    BY <1>0, <2>1 DEF Basic, Arrived, Serving
  <2>3. CASE UNCHANGED reply
    BY <2>1, <2>3
  <2>4. CASE size > 0 /\ reply' = [reply EXCEPT ![connfd] = Append(@, sendBuff)]
    <3>1. Append(<<>>, connfd) = <<connfd>>
      OBVIOUS
    <3>2. reply' = [reply EXCEPT ![connfd] = <<connfd>>]
      BY <2>1, <2>2, <2>4, <3>1
    <3> QED
      BY <2>1, <2>2, <3>2 DEF Basic, TypeOK
  <2> QED
    BY <1>5, <2>3, <2>4 DEF Write
<1>6. CASE CloseConn
  BY <1>6 DEF CloseConn, Basic, TypeOK
<1>7. ASSUME NEW c \in Conns, NEW s \in Streams, Connect(c, s) PROVE Answers'
  BY <1>0, <1>7 DEF Connect, server, Basic, TypeOK, Serving
<1>8. ASSUME NEW c \in Conns, Leave(c) PROVE Answers'
  BY <1>0, <1>8 DEF Leave, server, Basic, TypeOK, Serving
<1>9. ASSUME NEW c \in Conns, SendSome(c) \/ HangUp(c) PROVE Answers'
  BY <1>9 DEF SendSome, Deliver, HangUp, server
<1>10. CASE UNCHANGED vars
  BY <1>10 DEF vars, server, clients
<1> QED
  BY <1>1, <1>2, <1>3, <1>4, <1>5, <1>6, <1>7, <1>8, <1>9, <1>10 DEF Next, Server, Client

\* A client gets at most one answer, its own.
THEOREM RepliesOwn == Spec => []ReplyIsOwn
<1>1. Init => Basic /\ Queued /\ Answers
  BY BasicInit, QueuedInit, AnswersInit
<1>2. Basic /\ Queued /\ Answers /\ [Next]_vars => (Basic /\ Queued /\ Answers)'
  BY BasicNext, QueuedNext, AnswersNext
<1>3. Answers => ReplyIsOwn
  BY DEF Answers
<1> QED
  BY <1>1, <1>2, <1>3, PTL DEF Spec

\* Every step of the receiver is a step of the service, or changes nothing the
\* clients see.
LEMMA StepSimulation ==
  ASSUME Basic, Basic', Answers, [Next]_vars
  PROVE  [Svc!Next]_(Svc!vars)
<1> USE DEF Svc!Next, Svc!vars, Serving
<1>0. \A c \in Conns : status[c] = "open" <=> (Serving /\ c = connfd)
  BY DEF Basic, Descriptors, NoneLeaked
<1>1. CASE InitializeNetwork \/ OpenSocket \/ Bind \/ Listen \/ CloseListener \/ ClearBuffers
  BY <1>1 DEF InitializeNetwork, OpenSocket, Bind, Listen, CloseListener, ClearBuffers, clients
<1>2. CASE Accept
  BY <1>2 DEF Accept, Svc!Begin
<1>3. CASE Read \/ Frame \/ Execute
  BY <1>3 DEF Read, Store, AfterSearch, Frame, Execute, Halt, clients
<1>4. CASE Write
  <2>1. /\ pc = "write" /\ pc' = "close"
        /\ UNCHANGED <<connfd, status, backlog>> /\ connfd \in Conns /\ reply[connfd] = <<>>
    BY <1>0, <1>4 DEF Write, Basic, Arrived, Answers
  <2>2. CASE UNCHANGED reply
    BY <2>1, <2>2
  <2>3. CASE size > 0 /\ reply' = [reply EXCEPT ![connfd] = Append(@, sendBuff)]
    <3>1. Append(<<>>, connfd) = <<connfd>>
      OBVIOUS
    <3>2. reply' = [reply EXCEPT ![connfd] = <<connfd>>]
      BY <2>1, <2>3, <3>1 DEF Answers
    <3> QED
      BY <2>1, <3>2 DEF Svc!Answer
  <2> QED
    BY <1>4, <2>2, <2>3 DEF Write
<1>5. CASE CloseConn
  <2>1. connfd \in Conns
    BY <1>5 DEF CloseConn, Basic, Arrived
  <2> QED
    BY <1>5, <2>1 DEF CloseConn, Svc!Finish
<1>6. ASSUME NEW c \in Conns, NEW s \in Streams, Connect(c, s) PROVE Svc!Arrive(c)
  BY <1>6 DEF Connect, server, Svc!Arrive
<1>7. ASSUME NEW c \in Conns, Leave(c) PROVE Svc!Depart(c)
  BY <1>7 DEF Leave, server, Svc!Depart
<1>8. ASSUME NEW c \in Conns, SendSome(c) \/ HangUp(c) PROVE UNCHANGED Svc!vars
  BY <1>8 DEF SendSome, Deliver, HangUp, server
<1>9. CASE UNCHANGED vars
  BY <1>9 DEF vars, server, clients
<1> QED
  BY <1>1, <1>2, <1>3, <1>4, <1>5, <1>6, <1>7, <1>8, <1>9 DEF Next, Server, Client

\* receiverLoop implements the service its clients expect.
THEOREM ImplementsService == Spec => Service
<1>1. Init => Basic /\ Queued /\ Answers /\ Svc!Init
  BY BasicInit, QueuedInit, AnswersInit DEF Init, Svc!Init, Serving
<1>2. Basic /\ Queued /\ Answers /\ [Next]_vars => (Basic /\ Queued /\ Answers)'
  BY BasicNext, QueuedNext, AnswersNext
<1>3. Basic /\ Basic' /\ Answers /\ [Next]_vars => [Svc!Next]_(Svc!vars)
  BY StepSimulation
<1> QED
  BY <1>1, <1>2, <1>3, PTL DEF Spec, Service, Svc!Spec
=============================================================================
