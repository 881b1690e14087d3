--------------------------- MODULE RequestService ---------------------------
(***************************************************************************)
(* What the memory accessor promises to the outside: clients connect, wait *)
(* in the order they arrived, are served one at a time, get at most one    *)
(* answer, which is the answer to their own request, and are then closed.  *)
(* How a request is received, framed and executed is left to Receiver,     *)
(* which implements this specification.                                    *)
(***************************************************************************)
EXTENDS Sequences

CONSTANTS Conns,  \* the connections clients may open
          NoConn  \* stands for "no connection"

VARIABLES status,  \* status[c]: where connection c is in its life
          queue,   \* the waiting connections, in the order they arrived
          serving, \* the connection being served, or NoConn
          reply    \* reply[c]: whose answers the client of c has received

vars == <<status, queue, serving, reply>>

Init == /\ status = [c \in Conns |-> "idle"]
        /\ queue = <<>>
        /\ serving = NoConn
        /\ reply = [c \in Conns |-> <<>>]

Arrive(c) == /\ status[c] = "idle"
             /\ status' = [status EXCEPT ![c] = "waiting"]
             /\ queue' = Append(queue, c)
             /\ UNCHANGED <<serving, reply>>

Begin == /\ serving = NoConn
         /\ queue # <<>>
         /\ serving' = Head(queue)
         /\ queue' = Tail(queue)
         /\ status' = [status EXCEPT ![Head(queue)] = "open"]
         /\ UNCHANGED reply

Answer(c) == /\ serving = c
             /\ reply[c] = <<>>
             /\ reply' = [reply EXCEPT ![c] = <<c>>]
             /\ UNCHANGED <<status, queue, serving>>

Finish(c) == /\ serving = c
             /\ status' = [status EXCEPT ![c] = "closed"]
             /\ serving' = NoConn
             /\ UNCHANGED <<queue, reply>>

Depart(c) == /\ status[c] = "closed"
             /\ status' = [status EXCEPT ![c] = "idle"]
             /\ reply' = [reply EXCEPT ![c] = <<>>]
             /\ UNCHANGED <<queue, serving>>

Next == \/ Begin
        \/ \E c \in Conns : Arrive(c) \/ Answer(c) \/ Finish(c) \/ Depart(c)

Spec == Init /\ [][Next]_vars
=============================================================================
