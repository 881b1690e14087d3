------------------------------ MODULE Receiver ------------------------------
(***************************************************************************)
(* The receiver thread of the memory accessor: receiverLoop of             *)
(* source/netmemoryaccess.cpp, with the clients that talk to it and the    *)
(* part of the console's socket service (IOS) it calls.                    *)
(*                                                                         *)
(* Every Mynet_* call blocks in IOS, so each is one step and clients may   *)
(* act between any two of them.  A request is the sequence of characters   *)
(* its client sends; what matters about a character is whether it is Eof   *)
(* (NETMEMORYACCESS_EOF), the terminator Nul, Space, or anything else.     *)
(***************************************************************************)
EXTENDS Integers, Sequences, FiniteSets

CONSTANTS Conns,        \* the connections clients may open (and reopen)
          NoConn,       \* connfd before the first accept
          Chars,        \* the characters of requests
          Eof, Nul,     \* the end-of-request character; the C terminator
          Space,        \* the character that separates words
          Streams,      \* what a client may send on one connection
          BufSize,      \* BUFSIZE: length of recvBuff
          Chunk,        \* READ_CHUNK_SIZE: most a single read asks for
          MaxFaults,    \* bound on the failing calls of a behaviour
          ClientsAbort  \* may a client leave before it has sent everything?

ASSUME ReceiverAssumption ==
  /\ NoConn \notin Conns
  /\ Eof \in Chars
  /\ Nul \notin Chars
  /\ Space \notin {Eof, Nul}
  /\ Streams \subseteq Seq(Chars)
  /\ BufSize \in Nat \ {0}
  /\ Chunk \in Nat \ {0}
  /\ MaxFaults \in Nat
  /\ ClientsAbort \in BOOLEAN

VARIABLES
  pc,        \* where receiverLoop is
  listenfd,  \* the listening socket: "closed" (or none yet) or "open"
  connfd,    \* the connection accepted last
  recvBuff,  \* the request buffer, indexed from 0
  total,     \* totalReceived
  bytes,     \* what the last Mynet_read returned (any error is -1)
  sendBuff,  \* whose answer the response buffer holds (NoConn: it is blank)
  inFront,   \* the byte in front of recvBuff: "intact", or "cleared" by Frame
  size,      \* the response's size: 0, or 1 for "some bytes"
  status,    \* status[c]: idle, waiting (for accept), open, closed
  backlog,   \* connections waiting for accept, oldest first
  stream,    \* stream[c]: what the client of c sends
  sent,      \* sent[c]: how much of it has reached the console
  gone,      \* gone[c]: the client has closed its end
  reply,     \* reply[c]: whose answers the client has received
  faults     \* calls that have failed so far

server  == <<pc, listenfd, connfd, recvBuff, total, bytes, sendBuff,
             inFront, size>>
clients == <<status, backlog, stream, sent, gone, reply>>
vars    == <<server, clients, faults>>

Index == 0 .. BufSize - 1
Blank == [i \in Index |-> Nul]

\* Definitions named Wrong... are the code with a plausible mistake; no action
\* uses them, the properties are tested against them.

\* strchr(recvBuff, NETMEMORYACCESS_EOF) finds one: it ends at the first Nul.
HasEof(buf) == \E i \in Index : /\ buf[i] = Eof
                                /\ \A j \in 0 .. i - 1 : buf[j] # Nul

\* A buffer that holds neither: strchr searches on in what lies behind it.
Unended(buf) == \A i \in Index : buf[i] \notin {Eof, Nul}

\* Where the loop's condition leads, with either outcome for such a search.
AfterSearch(buf) ==
  {pcs \in {"frame", "read"} : \/ Unended(buf)
                              \/ pcs = "frame" <=> HasEof(buf)}

\* The memcpy of Mynet_recvfrom: n bytes of stream s, from offset at, as far as
\* they fall into recvBuff.
Fill(buf, s, at, n) ==
  [i \in Index |-> IF i \in at .. at + n - 1 THEN s[i + 1] ELSE buf[i]]

-----------------------------------------------------------------------------
(* Start of the thread: the network, the commands, the listening socket.   *)

Init ==
  /\ pc = "init"
  /\ listenfd = "closed"
  /\ connfd = NoConn
  /\ recvBuff = Blank
  /\ total = 0
  /\ bytes = 0
  /\ sendBuff = NoConn
  /\ size = 0
  /\ status = [c \in Conns |-> "idle"]
  /\ backlog = <<>>
  /\ stream = [c \in Conns |-> <<>>]
  /\ sent = [c \in Conns |-> 0]
  /\ gone = [c \in Conns |-> FALSE]
  /\ reply = [c \in Conns |-> <<>>]
  /\ inFront = "intact"
  /\ faults = 0

\* An IOS call or an allocation of the thread fails; MaxFaults bounds how often.
Fault == faults < MaxFaults /\ faults' = faults + 1

\* initializeNetwork (specified by NetInit), then initCommands.
InitializeNetwork ==
  /\ pc = "init"
  /\ \/ pc' = "socket" /\ UNCHANGED faults
     \/ pc' = "done" /\ Fault
  /\ UNCHANGED <<inFront, listenfd, connfd, recvBuff, total, bytes, sendBuff, size, clients>>

OpenSocket ==
  /\ pc = "socket"
  /\ \/ listenfd' = "open" /\ pc' = "bind" /\ UNCHANGED faults
     \/ listenfd' = "closed" /\ pc' = "done" /\ Fault
  /\ UNCHANGED <<inFront, connfd, recvBuff, total, bytes, sendBuff, size, clients>>

\* Mynet_bind and Mynet_listen: either failure goes on to Mynet_close(listenfd).
Bind ==
  /\ pc = "bind"
  /\ \/ pc' = "listen" /\ UNCHANGED faults
     \/ pc' = "unlisten" /\ Fault
  /\ UNCHANGED <<inFront, listenfd, connfd, recvBuff, total, bytes, sendBuff, size, clients>>

Listen ==
  /\ pc = "listen"
  /\ \/ pc' = "clear" /\ UNCHANGED faults
     \/ pc' = "unlisten" /\ Fault
  /\ UNCHANGED <<inFront, listenfd, connfd, recvBuff, total, bytes, sendBuff, size, clients>>

CloseListener ==
  /\ pc = "unlisten"
  /\ listenfd' = "closed"
  /\ pc' = "done"
  /\ UNCHANGED <<inFront, connfd, recvBuff, total, bytes, sendBuff, size, clients, faults>>

-----------------------------------------------------------------------------
(* One turn of the endless loop.                                           *)

WrongClearBuffers ==  \* recvBuff is not cleared
  /\ pc = "clear"
  /\ sendBuff' = NoConn
  /\ pc' = "accept"
  /\ UNCHANGED <<inFront, listenfd, connfd, recvBuff, total, bytes, size, clients, faults>>

ClearBuffers ==
  /\ pc = "clear"
  /\ sendBuff' = NoConn
  /\ recvBuff' = Blank
  /\ pc' = "accept"
  /\ UNCHANGED <<inFront, listenfd, connfd, total, bytes, size, clients, faults>>

WrongAccept ==  \* the newest connection first
  /\ pc = "accept" /\ backlog # <<>>
  /\ connfd' = backlog[Len(backlog)]
  /\ backlog' = SubSeq(backlog, 1, Len(backlog) - 1)
  /\ status' = [status EXCEPT ![connfd'] = "open"]
  /\ total' = 0
  /\ bytes' = 0
  /\ pc' = "read"
  /\ UNCHANGED <<inFront, listenfd, recvBuff, sendBuff, size, stream, sent, gone, reply, faults>>

\* Mynet_accept blocks until a client waits, or fails and is called again.
Accept ==
  /\ pc = "accept"
  /\ \/ /\ backlog # <<>>
        /\ connfd' = Head(backlog)
        /\ backlog' = Tail(backlog)
        /\ status' = [status EXCEPT ![Head(backlog)] = "open"]
        /\ total' = 0
        /\ bytes' = 0
        /\ pc' = "read"
        /\ UNCHANGED faults
     \/ /\ Fault
        /\ UNCHANGED <<pc, connfd, backlog, status, total, bytes>>
  /\ UNCHANGED <<inFront, listenfd, recvBuff, sendBuff, size, stream, sent, gone, reply>>

\* Characters that have arrived and were not read yet.
Available == sent[connfd] - total

\* n bytes are stored behind those received so far.  Bytes stored behind
\* recvBuff overwrite what lies there: the model ends, in "overrun".
Store(n) ==
  /\ recvBuff' = Fill(recvBuff, stream[connfd], total, n)
  /\ total' = total + n
  /\ bytes' = n
  /\ pc' \in IF total + n > BufSize THEN {"overrun"} ELSE AfterSearch(recvBuff')

WrongRead ==  \* the loop also ends at the end of the stream
  /\ pc = "read"
  /\ \/ \E n \in 1 .. Chunk : n <= Available /\ Store(n) /\ UNCHANGED faults
     \/ /\ Available = 0 /\ gone[connfd]
        /\ bytes' = 0
        /\ pc' = "frame"
        /\ UNCHANGED <<recvBuff, total, faults>>
     \/ Fault /\ bytes' = -1 /\ pc' = "frame" /\ UNCHANGED <<recvBuff, total>>
  /\ UNCHANGED <<inFront, listenfd, connfd, sendBuff, size, clients>>

WrongStore ==  \* the result is added before it is known to be no error
  /\ pc = "read"
  /\ \/ \E n \in 1 .. Chunk : n <= Available /\ Store(n) /\ UNCHANGED faults
     \/ Fault /\ bytes' = -1 /\ total' = total - 1 /\ pc' = "frame" /\ UNCHANGED recvBuff
  /\ UNCHANGED <<inFront, listenfd, connfd, sendBuff, size, clients>>

\* One Mynet_read, which asks for Chunk bytes whatever room is left, and the
\* loop's condition: a short read, the end of the stream (0 bytes), or an error,
\* which leaves the loop at once.
Read ==
  /\ pc = "read"
  /\ \/ \E n \in 1 .. Chunk : n <= Available /\ Store(n) /\ UNCHANGED faults
     \/ /\ Available = 0 /\ gone[connfd]
        /\ bytes' = 0
        /\ pc' \in AfterSearch(recvBuff)
        /\ UNCHANGED <<recvBuff, total, faults>>
     \/ /\ Fault
        /\ bytes' = -1
        /\ pc' = "frame"
        /\ UNCHANGED <<recvBuff, total>>
  /\ UNCHANGED <<inFront, listenfd, connfd, sendBuff, size, clients>>

WrongFrame ==  \* the error path forgets Mynet_close(connfd)
  /\ pc = "frame"
  /\ recvBuff' = [i \in Index |-> IF i = total - 1 THEN Nul ELSE recvBuff[i]]
  /\ inFront' = IF total = 0 THEN "cleared" ELSE inFront
  /\ pc' = IF bytes < 0 THEN "clear" ELSE "exec"
  /\ UNCHANGED <<listenfd, connfd, total, bytes, sendBuff, size, clients, faults>>

\* recvBuff[totalReceived-NETMEMORYACCESS_EOF_SIZE] = '\0', then the test of
\* bytes.  For total = 0 the store falls in front of recvBuff.
Frame ==
  /\ pc = "frame"
  /\ recvBuff' = [i \in Index |-> IF i = total - 1 THEN Nul ELSE recvBuff[i]]
  /\ inFront' = IF total = 0 THEN "cleared" ELSE inFront
  /\ pc' = IF bytes < 0 THEN "close" ELSE "exec"
  /\ UNCHANGED <<listenfd, connfd, total, bytes, sendBuff, size, clients, faults>>

\* The request has no words: nothing but separators in front of the terminator.
Wordless(buf) == \E i \in Index : /\ buf[i] = Nul
                                  /\ \A j \in 0 .. i - 1 : buf[j] = Space

\* findCommand(attrs[0]) of no words reads address 0; an allocation fails.
Halt == /\ pc' = "crashed"
        /\ IF Wordless(recvBuff) THEN UNCHANGED faults ELSE Fault
        /\ UNCHANGED <<size, sendBuff>>

WrongExecute ==  \* size keeps its value when no command is found
  /\ pc = "exec"
  /\ \/ /\ ~ Wordless(recvBuff)
        /\ \/ size' = 1 /\ sendBuff' = connfd
           \/ UNCHANGED <<size, sendBuff>>
        /\ pc' = "write"
        /\ UNCHANGED faults
     \/ Halt
  /\ UNCHANGED <<inFront, listenfd, connfd, recvBuff, total, bytes, clients>>

\* parseAndExecute: an unknown command returns false, a response of size 0; from
\* a request without a word, or when an allocation fails, it does not return.
Execute ==
  /\ pc = "exec"
  /\ \/ /\ ~ Wordless(recvBuff)
        /\ \/ size' = 1 /\ sendBuff' = connfd
           \/ size' = 0 /\ UNCHANGED sendBuff
        /\ pc' = "write"
        /\ UNCHANGED faults
     \/ Halt
  /\ UNCHANGED <<inFront, listenfd, connfd, recvBuff, total, bytes, clients>>

\* Mynet_write, whose result is ignored: a failing write loses the response.
Write ==
  /\ pc = "write"
  /\ \/ /\ reply' = IF size > 0 THEN [reply EXCEPT ![connfd] = Append(@, sendBuff)]
                                ELSE reply
        /\ UNCHANGED faults
     \/ Fault /\ UNCHANGED reply
  /\ pc' = "close"
  /\ UNCHANGED <<inFront, listenfd, connfd, recvBuff, total, bytes, sendBuff, size,
                 status, backlog, stream, sent, gone>>

CloseConn ==
  /\ pc = "close"
  /\ status' = [status EXCEPT ![connfd] = "closed"]
  /\ pc' = "clear"
  /\ UNCHANGED <<inFront, listenfd, connfd, recvBuff, total, bytes, sendBuff, size,
                 backlog, stream, sent, gone, reply, faults>>

Server == \/ InitializeNetwork \/ OpenSocket \/ Bind \/ Listen \/ CloseListener
          \/ ClearBuffers \/ Accept \/ Read \/ Frame \/ Execute \/ Write \/ CloseConn

-----------------------------------------------------------------------------
(* The clients, as netmemoryaccess_client.py behaves, and the network.     *)

Listening == pc \notin {"init", "socket", "bind", "listen", "unlisten", "done"}

Connect(c, s) ==
  /\ Listening
  /\ status[c] = "idle"
  /\ status' = [status EXCEPT ![c] = "waiting"]
  /\ backlog' = Append(backlog, c)
  /\ stream' = [stream EXCEPT ![c] = s]
  /\ UNCHANGED <<server, sent, gone, reply, faults>>

\* n more characters of c's request arrive.
Deliver(c, n) ==
  /\ status[c] \in {"waiting", "open"}
  /\ ~gone[c]
  /\ n \in 1 .. Len(stream[c]) - sent[c]
  /\ sent' = [sent EXCEPT ![c] = @ + n]
  /\ UNCHANGED <<server, status, backlog, stream, gone, reply, faults>>

HangUp(c) ==
  /\ status[c] \in {"waiting", "open"}
  /\ ~gone[c]
  /\ ClientsAbort \/ sent[c] = Len(stream[c])
  /\ gone' = [gone EXCEPT ![c] = TRUE]
  /\ UNCHANGED <<server, status, backlog, stream, sent, reply, faults>>

\* The client is done with a closed connection; it may open another.
Leave(c) ==
  /\ status[c] = "closed"
  /\ status' = [status EXCEPT ![c] = "idle"]
  /\ stream' = [stream EXCEPT ![c] = <<>>]
  /\ sent' = [sent EXCEPT ![c] = 0]
  /\ gone' = [gone EXCEPT ![c] = FALSE]
  /\ reply' = [reply EXCEPT ![c] = <<>>]
  /\ UNCHANGED <<server, backlog, faults>>

SendSome(c) == \E n \in 1 .. Len(stream[c]) : Deliver(c, n)

Client(c) == \/ \E s \in Streams : Connect(c, s)
             \/ SendSome(c) \/ HangUp(c) \/ Leave(c)

Next == Server \/ \E c \in Conns : Client(c)

Spec == Init /\ [][Next]_vars

\* A step of the thread that no client can hold up: Mynet_read waits for bytes or
\* the end of the stream (its guards), Mynet_write until its client takes the
\* answer or leaves.  A call that fails is never owed.
Unheld == /\ Server
          /\ faults' = faults
          /\ pc = "write" => size = 0 \/ gone[connfd]

\* The thread is scheduled whenever it can run and IOS completes its calls.
\* Clients owe nothing: they may connect and stay silent for ever.
FairSpec == Spec /\ WF_vars(Unheld)

\* Clients that send all they have unless they leave, and take their answers.
PromptSpec == /\ Spec
              /\ WF_vars(Server /\ faults' = faults)
              /\ \A c \in Conns : WF_vars(SendSome(c))

-----------------------------------------------------------------------------
(* Properties.                                                             *)

\* The shape of every variable.
TypeOK ==
  /\ pc \in {"init", "socket", "bind", "listen", "unlisten", "clear", "accept",
             "read", "frame", "exec", "write", "close", "done", "overrun", "crashed"}
  /\ listenfd \in {"closed", "open"}
  /\ connfd \in Conns \cup {NoConn}
  /\ recvBuff \in [Index -> Chars \cup {Nul}]
  /\ total \in Nat
  /\ bytes \in -1 .. Chunk
  /\ sendBuff \in Conns \cup {NoConn}
  /\ size \in {0, 1}
  /\ status \in [Conns -> {"idle", "waiting", "open", "closed"}]
  /\ backlog \in Seq(Conns)
  /\ stream \in [Conns -> Streams \cup {<<>>}]
  /\ sent \in [Conns -> Nat]
  /\ gone \in [Conns -> BOOLEAN]
  /\ reply \in [Conns -> Seq(Conns \cup {NoConn})]
  /\ inFront \in {"intact", "cleared"}
  /\ faults \in 0 .. MaxFaults

\* What the client sends: a command, then one to four characters Eof
\* (netmemoryaccess_client.py pads with Eof to a multiple of four).
ClientShaped(s) ==
  \E k \in 0 .. Len(s) - 1 : \A i \in 1 .. Len(s) : s[i] = Eof <=> i > k

\* The clients are netmemoryaccess_client.py, which bounds no request.
WellBehaved == \A s \in Streams : ClientShaped(s)

\* However TCP cuts the request up and whatever request came before, the text
\* handed to parseAndExecute is what this client sent, up to the last Eof
\* received, which has been replaced by the terminator: no command cut
\* short, no character of an earlier request.  This holds of every request
\* that fits the buffer, also next to requests that do not.
RequestFramed ==
  pc = "exec" /\ Len(stream[connfd]) <= BufSize =>
    /\ total \in 1 .. Len(stream[connfd])
    /\ stream[connfd][total] = Eof
    /\ \A i \in Index :
         recvBuff[i] = IF i < total - 1 THEN stream[connfd][i + 1] ELSE Nul

\* totalReceived is never compared with BUFSIZE, and the terminator is stored
\* before the error of a read is looked at: bytes are stored behind recvBuff
\* only for a request longer than it, and in front of it only after a failing
\* call.  What earlier connections left in totalReceived or in the buffer, or
\* a client that leaves, never moves a store out of the buffer.
StoresInBuffer ==
  /\ pc = "overrun" => Len(stream[connfd]) > BufSize
  /\ inFront = "cleared" => faults > 0

Serving == pc \in {"read", "frame", "exec", "write", "close", "overrun", "crashed"}

\* No descriptor is leaked, on the error paths either: the only connection
\* Mynet_accept has returned and Mynet_close has not been given is the one
\* being served (for ever, when its request halts the console), and a thread that has returned has closed its listening
\* socket (IOS has few descriptors, and nobody else would close them).
NoneLeaked ==
  /\ \A c \in Conns : status[c] = "open" <=> (Serving /\ c = connfd)
  /\ pc = "done" => listenfd = "closed"

\* A client gets at most one answer, and the answer to its own request:
\* neither sendBuff nor size carries over from the previous connection.
ReplyIsOwn == \A c \in Conns : reply[c] \in {<<>>, <<c>>}

\* The accessor, as its clients see it.
Svc == INSTANCE RequestService
         WITH queue <- backlog, serving <- IF Serving THEN connfd ELSE NoConn

\* receiverLoop implements it: connections served one at a time, in the order
\* of arrival, each answered at most once and by its own answer.
Service == Svc!Spec

\* README.md:7-9: once the network runs, commands can be sent.  Everyone who
\* connects is served and closed, whatever the earlier clients did.
Served == \A c \in Conns : status[c] = "waiting" ~> status[c] = "closed"

\* The client being served holds the thread up: no Eof is among what it has sent,
\* whether it has left or just stays silent, or it does not take its answer.
Stalled == \/ pc = "read" /\ \A i \in 1 .. sent[connfd] : stream[connfd][i] # Eof
           \/ pc = "write" /\ size > 0 /\ ~gone[connfd]

\* No call has a timeout and there is one connection at a time, so a client that
\* stalls for ever keeps everyone else waiting.  The other two ways are a request
\* that does not fit the buffer and one that halts the console.  No finite number
\* of failing calls, no cut of a request into reads, no client that leaves with
\* its request complete and no history of earlier connections stops the loop.
\* (A Mynet_accept that fails for ever is called for ever.)
ServedUnlessStalled ==
  \A c \in Conns :
    status[c] = "waiting" ~>
      (status[c] = "closed" \/ []Stalled \/ pc \in {"overrun", "crashed"})
=============================================================================
