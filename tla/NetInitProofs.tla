---------------------------- MODULE NetInitProofs ----------------------------
(***************************************************************************)
(* Whatever the numbers of attempts and tries, the descriptors IOS gives   *)
(* out and the calls that fail, bringing up the network leaks no           *)
(* descriptor, and where it succeeds the sockets can be used.              *)
(***************************************************************************)
EXTENDS NetInit, TLAPS

Receiving == {"attempt", "manage", "link", "unmanage", "top", "kd", "nwc24", "unkd",
              "startup", "host", "check", "error", "forget", "return", "done"}
Drawing   == {"frame", "host", "draw"}

\* TypeOK, with the places that each thread has, and the counters' bounds.
Shape ==
  /\ pc \in [Threads -> Receiving \cup Drawing]
  /\ pc["receiver"] \in Receiving
  /\ pc["title"] \in Drawing
  /\ netfd \in Int
  /\ fd \in Int
  /\ ret \in Int
  /\ attempt \in 0 .. MaxInitRetries
  /\ ~At("attempt") /\ ~At("done") => attempt < MaxInitRetries
  /\ ip \in [Threads -> {"none", "addr", "error"}]
  /\ retries \in [Threads -> 0 .. MaxIpRetries]
  /\ \A t \in Threads : pc[t] = "host" => retries[t] < MaxIpRetries
  /\ shown \in {"nothing", "none", "addr", "error"}
  /\ device \in [Handles -> {"free", "manage", "top", "kd", "game"}]
  /\ theirs \subseteq Handles
  /\ started \in BOOLEAN
  /\ leased \in BOOLEAN
  /\ faults \in 0 .. MaxFaults

\* Where the receiver has net_ip_top_fd open.
HasTop == \/ pc["receiver"] \in {"kd", "nwc24", "unkd", "startup", "host", "check", "error"}
          \/ pc["receiver"] \in {"return", "done"} /\ ret >= 0

\* Which file each descriptor is open on, at every place of the receiver.
Holding ==
  /\ \A h \in Handles :
       device[h] = IF HasTop /\ h = netfd THEN "top"
                   ELSE IF pc["receiver"] \in {"link", "unmanage"} /\ h = fd THEN "manage"
                   ELSE IF pc["receiver"] \in {"nwc24", "unkd"} /\ h = fd THEN "kd"
                   ELSE IF h \in theirs THEN "game" ELSE "free"
  /\ HasTop => netfd \in Handles \ theirs
  /\ ~HasTop /\ pc["receiver"] # "forget" => netfd < 0
  /\ pc["receiver"] \in {"link", "unmanage", "nwc24", "unkd"} => fd \in Handles \ theirs
  /\ pc["receiver"] \in {"nwc24", "unkd"} => fd # netfd

\* What the result says: an error on the way to a failing return, an address
\* or the error of IOCTL_SO_GETHOSTID on the way to a successful one.
Result ==
  /\ pc["receiver"] \in {"error", "forget"} => ret < 0
  /\ At("attempt") /\ attempt > 0 => ret < 0
  /\ pc["receiver"] \in {"host", "check"} => started
  /\ pc["receiver"] \in {"return", "done"} /\ ret >= 0 => started /\ ip["receiver"] # "none"
  /\ ip["receiver"] = "addr" => leased

Inv == Shape /\ Holding /\ Result

\* An error stays an error, and a descriptor is not changed.
LEMMA Converted ==
  ASSUME NEW r \in Int
  PROVE  /\ Convert(r) \in Int
         /\ r >= 0 => Convert(r) = r
         /\ r < 0 => Convert(r) < 0
<1>1. CASE r >= 0
  BY <1>1 DEF Convert
<1>2. CASE r < 0 /\ (-r > MapSize \/ ErrorMap[-r] = 0)
  BY <1>2 DEF Convert, NET_UNKNOWN_ERROR_OFFSET
<1>3. CASE r < 0 /\ ~(-r > MapSize \/ ErrorMap[-r] = 0)
  <2>1. -r \in 0 .. MapSize
    BY <1>3 DEF MapSize
  <2>2. ErrorMap[-r] \in Byte
    <3> DEFINE Errnos == {EAGAIN, EALREADY, EINVAL, EINPROGRESS, EISCONN, ENETDOWN, Beyond, 0}
    <3>1. ErrorMap[-r] \in Errnos
      BY <2>1 DEF ErrorMap, MapSize
    <3>2. Errnos \subseteq Byte
      BY ErrnoAssumption DEF Byte
    <3> QED
      BY <3>1, <3>2
  <2>3. ErrorMap[-r] > 0 /\ ErrorMap[-r] \in Int
    BY <1>3, <2>2 DEF Byte
  <2>4. Convert(r) = -ErrorMap[-r]
    BY <1>3 DEF Convert
  <2> QED
    BY <2>3, <2>4, <1>3
<1> QED
  BY <1>1, <1>2, <1>3

\* What an IOS_Open does to the descriptors.
LEMMA Opened ==
  ASSUME Shape, NEW file \in {"manage", "top", "kd"}, NEW v, Open(file, v)
  PROVE  /\ theirs' = theirs /\ started' = started /\ leased' = leased
         /\ faults' \in 0 .. MaxFaults
         /\ v \in Int
         /\ device' \in [Handles -> {"free", "manage", "top", "kd", "game"}]
         /\ \/ /\ v \in Handles /\ device[v] = "free"
               /\ device' = [device EXCEPT ![v] = file]
            \/ v < 0 /\ device' = device
<1>1. ASSUME NEW h \in Handles, device[h] = "free", device' = [device EXCEPT ![h] = file],
             v = Convert(h), UNCHANGED <<theirs, started, leased, faults>>
      PROVE  /\ theirs' = theirs /\ started' = started /\ leased' = leased /\ faults' \in 0 .. MaxFaults
             /\ v \in Int /\ v \in Handles /\ device[v] = "free"
             /\ device' = [device EXCEPT ![v] = file]
  <2>1. h \in Int /\ h >= 0
    BY NetInitAssumption
  <2>2. v = h
    BY <1>1, <2>1, Converted
  <2> QED
    BY <1>1, <2>1, <2>2 DEF Shape
<1>2. ASSUME NEW e \in IosErrors, v = Convert(e), Fault \/ UNCHANGED faults, UNCHANGED ios
      PROVE  /\ theirs' = theirs /\ started' = started /\ leased' = leased /\ faults' \in 0 .. MaxFaults
             /\ v \in Int /\ v < 0 /\ device' = device
  <2>1. e \in Int /\ e < 0
    BY NetInitAssumption
  <2> QED
    BY <1>2, <2>1, Converted, NetInitAssumption DEF Shape, Fault, ios
<1> QED
  BY <1>1, <1>2 DEF Open, Shape

\* An IOS_Ioctl gives any result, and may use up one of the failures.
LEMMA Answered ==
  ASSUME Shape, NEW v, Ioctl(v)
  PROVE  v \in Int /\ faults' \in 0 .. MaxFaults
<1>1. CASE v = Convert(0) /\ UNCHANGED faults
  BY <1>1, Converted DEF Shape
<1>2. ASSUME NEW e \in IosErrors, v = Convert(e), Fault
      PROVE  v \in Int /\ faults' \in 0 .. MaxFaults
  BY <1>2, Converted, NetInitAssumption DEF Shape, Fault
<1> QED
  BY <1>1, <1>2 DEF Ioctl

\* It holds at first: nothing is open.
LEMMA InvInit == Init => Inv
<1> SUFFICES ASSUME Init PROVE Inv
  OBVIOUS
<1> USE NetInitAssumption DEF Init
<1>1. Shape
  <2>1. pc["receiver"] = "attempt" /\ pc["title"] = "frame"
    BY DEF Threads
  <2>2. pc \in [Threads -> Receiving \cup Drawing]
    BY DEF Receiving, Drawing
  <2>3. \A t \in Threads : pc[t] = "host" => retries[t] < MaxIpRetries
    BY <2>1 DEF Threads
  <2>4. /\ ip \in [Threads -> {"none", "addr", "error"}]
        /\ retries \in [Threads -> 0 .. MaxIpRetries]
        /\ device \in [Handles -> {"free", "manage", "top", "kd", "game"}]
        /\ theirs \subseteq Handles
    OBVIOUS
  <2>5. started \in BOOLEAN /\ leased \in BOOLEAN
    OBVIOUS
  <2>6. /\ netfd \in Int /\ fd \in Int /\ ret \in Int
        /\ attempt \in 0 .. MaxInitRetries /\ faults \in 0 .. MaxFaults
    OBVIOUS
  <2>7. /\ pc["receiver"] \in Receiving /\ pc["title"] \in Drawing /\ At("attempt")
        /\ shown \in {"nothing", "none", "addr", "error"}
    BY <2>1 DEF Receiving, Drawing, At
  <2> QED
    BY <2>2, <2>3, <2>4, <2>5, <2>6, <2>7 DEF Shape
<1>2. Holding
  BY DEF Holding, HasTop, Threads
<1>3. Result
  BY DEF Result, Threads, At
<1> QED
  BY <1>1, <1>2, <1>3 DEF Inv

\* The results that make initializeNetwork try again are errors.
LEMMA Negative == -EAGAIN \in Int /\ -EAGAIN < 0 /\ -ETIMEDOUT \in Int /\ -ETIMEDOUT < 0
BY ErrnoAssumption DEF Byte

\* A step of one thread leaves the other where it is.
LEMMA Went ==
  ASSUME Shape, NEW t \in Threads, NEW l \in Receiving \cup Drawing, Goto(t, l)
  PROVE  /\ pc' \in [Threads -> Receiving \cup Drawing]
         /\ pc'[t] = l
         /\ \A u \in Threads \ {t} : pc'[u] = pc[u]
BY DEF Shape, Goto

\* Every step keeps the places of the thread and the values they go with.
LEMMA ShapeNext == Inv /\ [Next]_vars => Shape'
<1> SUFFICES ASSUME Inv, [Next]_vars PROVE Shape'
  OBVIOUS
<1> USE NetInitAssumption DEF Inv, Shape, Receiving, Drawing, At, Threads, Goto
<1>1. CASE Attempt
  BY <1>1 DEF Attempt, receiver, ios
<1>2. CASE OpenManage
  <2>1. Open("manage", fd')
    BY <1>2 DEF OpenManage
  <2>2. /\ fd' \in Int /\ device' \in [Handles -> {"free", "manage", "top", "kd", "game"}]
        /\ theirs' = theirs /\ started' = started /\ leased' = leased /\ faults' \in 0 .. MaxFaults
    BY <2>1, Opened
  <2> QED
    BY <1>2, <2>2 DEF OpenManage, IPC_ENOENT, receiver
<1>3. CASE LinkStatus
  BY <1>3, Answered DEF LinkStatus, receiver, ios
<1>4. CASE CloseManage
  BY <1>4 DEF CloseManage, receiver, ios, Close
<1>5. CASE OpenTop
  <2>1. Open("top", netfd')
    BY <1>5 DEF OpenTop
  <2>2. /\ netfd' \in Int /\ device' \in [Handles -> {"free", "manage", "top", "kd", "game"}]
        /\ theirs' = theirs /\ started' = started /\ leased' = leased /\ faults' \in 0 .. MaxFaults
    BY <2>1, Opened
  <2> QED
    BY <1>5, <2>2 DEF OpenTop, receiver
<1>6. CASE OpenKd
  <2>1. Open("kd", fd')
    BY <1>6 DEF OpenKd
  <2>2. /\ fd' \in Int /\ device' \in [Handles -> {"free", "manage", "top", "kd", "game"}]
        /\ theirs' = theirs /\ started' = started /\ leased' = leased /\ faults' \in 0 .. MaxFaults
    BY <2>1, Opened
  <2> QED
    BY <1>6, <2>2 DEF OpenKd, receiver
<1>7. CASE Nwc24Startup
  BY <1>7, Answered DEF Nwc24Startup, receiver, ios
<1>8. CASE CloseKd
  BY <1>8 DEF CloseKd, receiver, ios, Close
<1>9. CASE SoStartup
  BY <1>9, Answered DEF SoStartup, receiver, ios
<1>10. CASE CheckIp
  BY <1>10, Negative DEF CheckIp, receiver, ios
<1>11. CASE CloseTop
  BY <1>11 DEF CloseTop, receiver, ios, Close
<1>12. CASE ForgetTop
  BY <1>12 DEF ForgetTop, receiver, ios
<1>13. CASE Return
  BY <1>13, Negative DEF Return, receiver, ios
<1>14. ASSUME NEW t \in Threads, GetHostIp(t) PROVE Shape'
  BY <1>14 DEF GetHostIp, receiver, ios, HostId, Fault
<1>15. CASE Frame
  BY <1>15 DEF Frame, receiver, ios
<1>16. CASE Draw
  BY <1>16 DEF Draw, receiver, ios
<1>17. CASE Lease
  BY <1>17 DEF Lease, receiver, ios
<1>18. CASE UNCHANGED vars
  BY <1>18 DEF receiver, ios, vars
<1>19. ASSUME NEW h \in Handles, GameOpens(h) \/ GameCloses(h) PROVE Shape'
  <2>1. device' \in [Handles -> {"free", "manage", "top", "kd", "game"}]
    BY <1>19 DEF GameOpens, GameCloses
  <2>2. theirs' \subseteq Handles
    BY <1>19 DEF GameOpens, GameCloses
  <2>3. UNCHANGED <<pc, netfd, receiver, ip, retries, shown, started, leased, faults>>
    BY <1>19 DEF GameOpens, GameCloses
  <2> QED
    BY <2>1, <2>2, <2>3 DEF receiver
<1> QED
  BY <1>1, <1>2, <1>3, <1>4, <1>5, <1>6, <1>7, <1>8, <1>9, <1>10, <1>11, <1>12, <1>13,
     <1>14, <1>15, <1>16, <1>17, <1>18, <1>19 DEF Next, Receiver, Title, Threads

\* Every step keeps the count of the descriptors that somebody holds.
LEMMA HoldingNext == Inv /\ [Next]_vars => Holding'
<1> SUFFICES ASSUME Inv, [Next]_vars PROVE Holding'
  OBVIOUS
<1> USE NetInitAssumption DEF Inv, Shape, Receiving, At, Threads, Goto, HasTop, Holding, Result
<1>1. CASE Attempt
  BY <1>1 DEF Attempt, receiver, ios
<1>2. CASE OpenManage
  BY <1>2, Opened DEF OpenManage, IPC_ENOENT, receiver, ios
<1>3. CASE LinkStatus
  BY <1>3, Answered DEF LinkStatus, receiver, ios
<1>4. CASE CloseManage
  BY <1>4 DEF CloseManage, receiver, ios, Close
<1>5. CASE OpenTop
  BY <1>5, Opened DEF OpenTop, receiver, ios
<1>6. CASE OpenKd
  BY <1>6, Opened DEF OpenKd, receiver, ios
<1>7. CASE Nwc24Startup
  BY <1>7, Answered DEF Nwc24Startup, receiver, ios
<1>8. CASE CloseKd
  BY <1>8 DEF CloseKd, receiver, ios, Close
<1>9. CASE SoStartup
  BY <1>9, Answered DEF SoStartup, receiver, ios
<1>10. CASE CheckIp
  BY <1>10, Negative DEF CheckIp, receiver, ios
<1>11. CASE CloseTop
  BY <1>11 DEF CloseTop, receiver, ios, Close
<1>12. CASE ForgetTop
  BY <1>12 DEF ForgetTop, receiver, ios
<1>13. CASE Return
  BY <1>13, Negative DEF Return, receiver, ios
<1>14. ASSUME NEW t \in Threads, GetHostIp(t) PROVE Holding'
  BY <1>14 DEF GetHostIp, receiver, ios, HostId, Fault
<1>15. CASE Frame
  BY <1>15 DEF Frame, receiver, ios
<1>16. CASE Draw
  BY <1>16 DEF Draw, receiver, ios
<1>17. CASE Lease
  BY <1>17 DEF Lease, receiver, ios
<1>18. CASE UNCHANGED vars
  BY <1>18 DEF receiver, ios, vars
<1>19. ASSUME NEW h \in Handles, GameOpens(h) \/ GameCloses(h) PROVE Holding'
  BY <1>19 DEF GameOpens, GameCloses, receiver
<1> QED
  BY <1>1, <1>2, <1>3, <1>4, <1>5, <1>6, <1>7, <1>8, <1>9, <1>10, <1>11, <1>12, <1>13,
     <1>14, <1>15, <1>16, <1>17, <1>18, <1>19 DEF Next, Receiver, Title, Threads

\* Every step keeps what the results say of the network.
LEMMA ResultNext == Inv /\ [Next]_vars => Result'
<1> SUFFICES ASSUME Inv, [Next]_vars PROVE Result'
  OBVIOUS
<1> USE NetInitAssumption DEF Inv, Shape, Receiving, At, Threads, Goto, Holding, HasTop, Result
<1>1. CASE Attempt
  BY <1>1 DEF Attempt, receiver, ios
<1>2. CASE OpenManage
  BY <1>2, Opened DEF OpenManage, IPC_ENOENT, receiver, ios
<1>3. CASE LinkStatus
  BY <1>3, Answered DEF LinkStatus, receiver, ios
<1>4. CASE CloseManage
  BY <1>4 DEF CloseManage, receiver, ios, Close
<1>5. CASE OpenTop
  BY <1>5, Opened DEF OpenTop, receiver, ios
<1>6. CASE OpenKd
  BY <1>6, Opened DEF OpenKd, receiver, ios
<1>7. CASE Nwc24Startup
  BY <1>7, Answered DEF Nwc24Startup, receiver, ios
<1>8. CASE CloseKd
  BY <1>8 DEF CloseKd, receiver, ios, Close
<1>9. CASE SoStartup
  <2>1. At("startup") /\ ret' \in Int /\ started' = (started \/ ret' >= 0) /\ leased' = leased
    BY <1>9, Answered DEF SoStartup
  <2>2. pc'["receiver"] = IF ret' < 0 THEN "error" ELSE "host"
    BY <1>9 DEF SoStartup
  <2>3. ip'["receiver"] = "none"
    BY <1>9 DEF SoStartup
  <2>4. ret' >= 0 => started'
    BY <2>1, Zenon
  <2> QED
    BY <2>1, <2>2, <2>3, <2>4
<1>10. CASE CheckIp
  BY <1>10, Negative DEF CheckIp, receiver, ios
<1>11. CASE CloseTop
  BY <1>11 DEF CloseTop, receiver, ios, Close
<1>12. CASE ForgetTop
  BY <1>12 DEF ForgetTop, receiver, ios
<1>13. CASE Return
  BY <1>13, Negative DEF Return, receiver, ios
<1>14. ASSUME NEW t \in Threads, GetHostIp(t) PROVE Result'
  BY <1>14 DEF GetHostIp, receiver, ios, HostId, Fault
<1>15. CASE Frame
  BY <1>15 DEF Frame, receiver, ios
<1>16. CASE Draw
  BY <1>16 DEF Draw, receiver, ios
<1>17. CASE Lease
  BY <1>17 DEF Lease, receiver, ios
<1>18. CASE UNCHANGED vars
  BY <1>18 DEF receiver, ios, vars
<1>19. ASSUME NEW h \in Handles, GameOpens(h) \/ GameCloses(h) PROVE Result'
  BY <1>19 DEF GameOpens, GameCloses, receiver
<1> QED
  BY <1>1, <1>2, <1>3, <1>4, <1>5, <1>6, <1>7, <1>8, <1>9, <1>10, <1>11, <1>12, <1>13,
     <1>14, <1>15, <1>16, <1>17, <1>18, <1>19 DEF Next, Receiver, Title, Threads

\* So every step keeps all of it.
LEMMA InvNext == Inv /\ [Next]_vars => Inv'
BY ShapeNext, HoldingNext, ResultNext DEF Inv

\* Every variable keeps its type, and the counters of attempts and tries their
\* bounds, whatever both threads do.
THEOREM TypeCorrect == Spec => []TypeOK
<1>1. Inv => TypeOK
  <2>1. Receiving \cup Drawing \subseteq
          {"attempt", "manage", "link", "unmanage", "top", "kd", "nwc24", "unkd", "startup",
           "host", "check", "error", "forget", "return", "done", "frame", "draw"}
    BY DEF Receiving, Drawing
  <2> QED
    BY <2>1 DEF Inv, Shape, TypeOK
<1> QED
  BY <1>1, InvInit, InvNext, PTL DEF Spec

\* Whichever calls fail, an attempt leaves no descriptor open but that of
\* net_ip_top_fd, which is open on /dev/net/ip/top, and closes none of the
\* descriptors that the rest of the game has open.
THEOREM NothingLeaks == Spec => []HandlesBalanced
<1>1. ASSUME Inv PROVE HandlesBalanced
  <2>1. \A h \in Handles : h \in Nat
    BY NetInitAssumption
  <2>2. ASSUME At("attempt") \/ At("done") PROVE InUse \ theirs = {netfd} \cap Nat
    <3>1. CASE HasTop
      BY <1>1, <2>1, <2>2, <3>1 DEF Inv, Holding, InUse, At
    <3>2. CASE ~HasTop
      BY <1>1, <2>1, <2>2, <3>2 DEF Inv, Shape, Holding, InUse, At
    <3> QED
      BY <3>1, <3>2
  <2>3. netfd \in InUse /\ ~At("forget") => device[netfd] = "top"
    BY <1>1, <2>1 DEF Inv, Shape, Holding, HasTop, InUse, At
  <2>4. \A h \in theirs : device[h] = "game"
    BY <1>1 DEF Inv, Shape, Holding
  <2> QED
    BY <2>2, <2>3, <2>4 DEF HandlesBalanced
<1> QED
  BY <1>1, InvInit, InvNext, PTL DEF Spec

\* Where initializeNetwork returns success, sockets can be used.
THEOREM SuccessIsUsable == Spec => []UpIsUsable
<1>1. Inv => UpIsUsable
  BY DEF Inv, Shape, Holding, HasTop, Result, UpIsUsable, At, Threads
<1> QED
  BY <1>1, InvInit, InvNext, PTL DEF Spec
=============================================================================
