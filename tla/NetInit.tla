------------------------------ MODULE NetInit -------------------------------
(***************************************************************************)
(* Bringing up the network: initializeNetwork and Mynet_init in the        *)
(* receiver thread, while the main thread draws the title screen and asks  *)
(* for the address with Mynet_gethostip in every frame.  They share        *)
(* net_ip_top_fd, with no lock.  Every IOS call blocks its thread, so the  *)
(* other may run between any two of them, and so may the game, which opens *)
(* and closes descriptors of its own.                                      *)
(***************************************************************************)
EXTENDS NetError

CONSTANTS MaxInitRetries,  \* MAX_INIT_RETRIES of netmemoryaccess.h
          MaxIpRetries,    \* MAX_IP_RETRIES of network_wii.cpp
          Handles,         \* the descriptors IOS gives out
          IosErrors,       \* the errors IOS answers with
          MaxFaults        \* bound on the IOS calls that fail

ASSUME NetInitAssumption ==
  /\ MaxInitRetries \in Nat \ {0}
  /\ MaxIpRetries \in Nat \ {0}
  /\ Handles \subseteq Nat
  /\ IosErrors \subseteq {r \in Int : r < 0}
  /\ MaxFaults \in Nat

Threads == {"receiver", "title"}

VARIABLES
  pc,       \* pc[t]: where thread t is
  netfd,    \* net_ip_top_fd
  fd,       \* the receiver's ncd_fd or kd_fd
  ret,      \* what Mynet_init is about to return
  attempt,  \* i of initializeNetwork
  ip,       \* ip[t]: ip_addr: "none" (0), "addr", or "error" (an IOS error)
  retries,  \* retries[t] of Mynet_gethostip
  shown,    \* what the title screen shows ("nothing" before its first frame)
  device,   \* device[h]: the file handle h is open on, or "free"  (IOS)
  theirs,   \* the handles the rest of the game has opened and not closed
  started,  \* has IOCTL_SO_STARTUP succeeded?                     (IOS)
  leased,   \* has the console got an address?                     (IOS)
  faults    \* IOS calls that have failed so far

receiver == <<fd, ret, attempt>>
ios      == <<device, theirs, started, leased>>
vars     == <<pc, netfd, receiver, ip, retries, shown, ios, faults>>

Init ==
  /\ pc = [t \in Threads |-> IF t = "receiver" THEN "attempt" ELSE "frame"]
  /\ netfd = -1
  /\ fd = -1
  /\ ret = 0
  /\ attempt = 0
  /\ ip = [t \in Threads |-> "none"]
  /\ retries = [t \in Threads |-> 0]
  /\ shown = "nothing"
  /\ device = [h \in Handles |-> "free"]
  /\ theirs = {}
  /\ started = FALSE
  /\ leased = FALSE
  /\ faults = 0

\* The definitions named Wrong... are the code with a plausible mistake; no
\* action uses them, the properties are tested against them.

Goto(t, label) == pc' = [pc EXCEPT ![t] = label]
At(label) == pc["receiver"] = label
Fault == faults < MaxFaults /\ faults' = faults + 1

Full == \A h \in Handles : device[h] # "free"

\* IOS_Open: v is the converted result, an error also when no handle is free.
Open(file, v) ==
  \/ \E h \in Handles : /\ device[h] = "free"
                        /\ device' = [device EXCEPT ![h] = file]
                        /\ v = Convert(h)
                        /\ UNCHANGED <<theirs, started, leased, faults>>
  \/ \E e \in IosErrors : /\ v = Convert(e)
                          /\ IF Full THEN UNCHANGED faults ELSE Fault
                          /\ UNCHANGED ios

\* An IOS_Ioctl whose converted result is v.
Ioctl(v) == \/ v = Convert(0) /\ UNCHANGED faults
            \/ \E e \in IosErrors : v = Convert(e) /\ Fault

Close(h) == device' = [x \in Handles |-> IF x = h THEN "free" ELSE device[x]]

-----------------------------------------------------------------------------
(* initializeNetwork and Mynet_init: the receiver thread.                  *)

\* The loop's head and the test of net_ip_top_fd.
Attempt ==
  /\ At("attempt")
  /\ IF attempt = MaxInitRetries THEN Goto("receiver", "done") /\ UNCHANGED ret
     ELSE IF netfd >= 0 THEN Goto("receiver", "return") /\ ret' = 0
     ELSE Goto("receiver", "manage") /\ UNCHANGED ret
  /\ UNCHANGED <<netfd, fd, attempt, ip, retries, shown, ios, faults>>

\* _open_manage_fd: its loop compares a converted result with IPC_ENOENT.
OpenManage ==
  /\ At("manage")
  /\ Open("manage", fd')
  /\ IF fd' = IPC_ENOENT THEN Goto("receiver", "manage") /\ UNCHANGED ret
     ELSE IF fd' < 0 THEN Goto("receiver", "return") /\ ret' = fd'
     ELSE Goto("receiver", "link") /\ UNCHANGED ret
  /\ UNCHANGED <<netfd, attempt, ip, retries, shown>>

LinkStatus ==
  /\ At("link")
  /\ Ioctl(ret')
  /\ Goto("receiver", "unmanage")
  /\ UNCHANGED <<netfd, fd, attempt, ip, retries, shown, ios>>

CloseManage ==
  /\ At("unmanage")
  /\ Close(fd)
  /\ Goto("receiver", IF ret < 0 THEN "return" ELSE "top")
  /\ UNCHANGED <<netfd, fd, ret, attempt, ip, retries, shown, theirs, started, leased, faults>>

OpenTop ==
  /\ At("top")
  /\ Open("top", netfd')
  /\ IF netfd' < 0 THEN Goto("receiver", "return") /\ ret' = netfd'
                   ELSE Goto("receiver", "kd") /\ UNCHANGED ret
  /\ UNCHANGED <<fd, attempt, ip, retries, shown>>

\* MyNWC24iStartupSocket.
OpenKd ==
  /\ At("kd")
  /\ Open("kd", fd')
  /\ IF fd' < 0 THEN Goto("receiver", "error") /\ ret' = fd'
                ELSE Goto("receiver", "nwc24") /\ UNCHANGED ret
  /\ UNCHANGED <<netfd, attempt, ip, retries, shown>>

Nwc24Startup ==
  /\ At("nwc24")
  /\ Ioctl(ret')
  /\ Goto("receiver", "unkd")
  /\ UNCHANGED <<netfd, fd, attempt, ip, retries, shown, ios>>

WrongCloseKd ==  \* the failing branch closes net_ip_top_fd, which error: closes again
  /\ At("unkd")
  /\ device' = [h \in Handles |-> IF h = fd \/ (h = netfd /\ ret < 0) THEN "free" ELSE device[h]]
  /\ Goto("receiver", IF ret < 0 THEN "error" ELSE "startup")
  /\ UNCHANGED <<netfd, fd, ret, attempt, ip, retries, shown, theirs, started, leased, faults>>

CloseKd ==
  /\ At("unkd")
  /\ Close(fd)
  /\ Goto("receiver", IF ret < 0 THEN "error" ELSE "startup")
  /\ UNCHANGED <<netfd, fd, ret, attempt, ip, retries, shown, theirs, started, leased, faults>>

SoStartup ==
  /\ At("startup")
  /\ Ioctl(ret')
  /\ started' = (started \/ ret' >= 0)
  /\ Goto("receiver", IF ret' < 0 THEN "error" ELSE "host")
  /\ ip' = [ip EXCEPT !["receiver"] = "none"]
  /\ retries' = [retries EXCEPT !["receiver"] = 0]
  /\ UNCHANGED <<netfd, fd, attempt, shown, device, theirs, leased>>

\* The test of ip_addr in Mynet_init.
CheckIp ==
  /\ At("check")
  /\ IF ip["receiver"] = "none"
     THEN ret' = -ETIMEDOUT /\ Goto("receiver", "error")
     ELSE ret' = 0 /\ Goto("receiver", "return")
  /\ UNCHANGED <<netfd, fd, attempt, ip, retries, shown, ios, faults>>

\* error: the descriptor is closed, then forgotten.
CloseTop ==
  /\ At("error")
  /\ Close(netfd)
  /\ Goto("receiver", "forget")
  /\ UNCHANGED <<netfd, receiver, ip, retries, shown, theirs, started, leased, faults>>

WrongForgetTop ==  \* net_ip_top_fd is not reset
  /\ At("forget")
  /\ Goto("receiver", "return")
  /\ UNCHANGED <<netfd, receiver, ip, retries, shown, ios, faults>>

ForgetTop ==
  /\ At("forget")
  /\ netfd' = -1
  /\ Goto("receiver", "return")
  /\ UNCHANGED <<receiver, ip, retries, shown, ios, faults>>

WrongReturn ==  \* the loop counter is not advanced
  /\ At("return")
  /\ Goto("receiver", IF ret \in {-EAGAIN, -ETIMEDOUT} THEN "attempt" ELSE "done")
  /\ UNCHANGED <<netfd, receiver, ip, retries, shown, ios, faults>>

\* Back in initializeNetwork with the result.
Return ==
  /\ At("return")
  /\ IF ret \in {-EAGAIN, -ETIMEDOUT}
     THEN attempt' = attempt + 1 /\ Goto("receiver", "attempt")
     ELSE UNCHANGED attempt /\ Goto("receiver", "done")
  /\ UNCHANGED <<netfd, fd, ret, ip, retries, shown, ios, faults>>

-----------------------------------------------------------------------------
(* Mynet_gethostip, of either thread, and the title screen.                *)

\* IOCTL_SO_GETHOSTID on whatever netfd names now; its result is not converted.
\* Another device than /dev/net/ip/top answers as it likes.
HostId(v) ==
  IF netfd \in Handles /\ device[netfd] = "top" /\ started
  THEN \/ v = (IF leased THEN "addr" ELSE "none")
          /\ UNCHANGED faults
       \/ v = "error" /\ Fault
  ELSE /\ v # "error" => netfd \in Handles /\ device[netfd] \notin {"free", "top"}
       /\ UNCHANGED faults

WrongGetHostIp(t) ==  \* one retry too many
  /\ pc[t] = "host"
  /\ \E v \in {"none", "addr", "error"} :
       /\ HostId(v)
       /\ ip' = [ip EXCEPT ![t] = v]
       /\ retries' = [retries EXCEPT ![t] = @ + 1]
       /\ Goto(t, IF v = "none" /\ retries[t] < MaxIpRetries THEN "host"
                  ELSE IF t = "receiver" THEN "check" ELSE "draw")
  /\ UNCHANGED <<netfd, receiver, shown, ios>>

\* One turn of the loop; the loop ends with an answer or after MaxIpRetries.
GetHostIp(t) ==
  /\ pc[t] = "host"
  /\ \E v \in {"none", "addr", "error"} :
       /\ HostId(v)
       /\ ip' = [ip EXCEPT ![t] = v]
       /\ retries' = [retries EXCEPT ![t] = @ + 1]
       /\ Goto(t, IF v = "none" /\ retries[t] + 1 < MaxIpRetries THEN "host"
                  ELSE IF t = "receiver" THEN "check" ELSE "draw")
  /\ UNCHANGED <<netfd, receiver, shown, ios>>

WrongFrame ==  \* what was found once is kept
  /\ pc["title"] = "frame"
  /\ retries' = [retries EXCEPT !["title"] = 0]
  /\ Goto("title", IF netfd < 0 \/ ip["title"] # "none" THEN "draw" ELSE "host")
  /\ UNCHANGED <<netfd, receiver, ip, shown, ios, faults>>

\* seq_titleMainOverride, up to the test in Mynet_gethostip.
Frame ==
  /\ pc["title"] = "frame"
  /\ ip' = [ip EXCEPT !["title"] = "none"]
  /\ retries' = [retries EXCEPT !["title"] = 0]
  /\ Goto("title", IF netfd < 0 THEN "draw" ELSE "host")
  /\ UNCHANGED <<netfd, receiver, shown, ios, faults>>

Draw ==
  /\ pc["title"] = "draw"
  /\ shown' = ip["title"]
  /\ Goto("title", "frame")
  /\ UNCHANGED <<netfd, receiver, ip, retries, ios, faults>>

\* The console gets its address some time after the sockets were started.
Lease ==
  /\ started /\ ~leased
  /\ leased' = TRUE
  /\ UNCHANGED <<pc, netfd, receiver, ip, retries, shown, device, theirs, started, faults>>

\* The rest of the game opens a descriptor, and closes one of its own.
GameOpens(h) ==
  /\ device[h] = "free"
  /\ device' = [device EXCEPT ![h] = "game"]
  /\ theirs' = theirs \cup {h}
  /\ UNCHANGED <<pc, netfd, receiver, ip, retries, shown, started, leased, faults>>

GameCloses(h) ==
  /\ h \in theirs
  /\ device' = [device EXCEPT ![h] = "free"]
  /\ theirs' = theirs \ {h}
  /\ UNCHANGED <<pc, netfd, receiver, ip, retries, shown, started, leased, faults>>

Receiver == \/ Attempt \/ OpenManage \/ LinkStatus \/ CloseManage \/ OpenTop
            \/ OpenKd \/ Nwc24Startup \/ CloseKd \/ SoStartup \/ CheckIp
            \/ CloseTop \/ ForgetTop \/ Return \/ GetHostIp("receiver")

Title == Frame \/ Draw \/ GetHostIp("title")

Next == \/ Receiver \/ Title \/ Lease
        \/ \E h \in Handles : GameOpens(h) \/ GameCloses(h)

Spec == Init /\ [][Next]_vars

\* Both threads are scheduled for ever (the title screen is drawn in every
\* frame); nobody promises an address, and the game owes nothing.
FairSpec == Spec /\ WF_vars(Receiver) /\ WF_vars(Title)

-----------------------------------------------------------------------------
(* Properties.                                                             *)

\* The shape of every variable; the retry counters stay within their bounds.
TypeOK ==
  /\ pc \in [Threads -> {"attempt", "manage", "link", "unmanage", "top", "kd", "nwc24",
                         "unkd", "startup", "host", "check", "error", "forget",
                         "return", "done", "frame", "draw"}]
  /\ netfd \in Int
  /\ fd \in Int
  /\ ret \in Int
  /\ attempt \in 0 .. MaxInitRetries
  /\ ip \in [Threads -> {"none", "addr", "error"}]
  /\ retries \in [Threads -> 0 .. MaxIpRetries]
  /\ shown \in {"nothing", "none", "addr", "error"}
  /\ device \in [Handles -> {"free", "manage", "top", "kd", "game"}]
  /\ theirs \subseteq Handles
  /\ started \in BOOLEAN
  /\ leased \in BOOLEAN
  /\ faults \in 0 .. MaxFaults

InUse == {h \in Handles : device[h] # "free"}

\* No attempt, whichever call of it fails, leaves a descriptor of IOS open
\* except the one in net_ip_top_fd; none closes a descriptor twice, which would
\* close what the game has opened under the same number in between; and when
\* net_ip_top_fd names an open descriptor it is one of /dev/net/ip/top, so that
\* the title thread, which reads it at any time, talks to no other device.  The
\* last is not so between IOS_Close and the reset of net_ip_top_fd (lines
\* 361-362): a number reused there gets the title thread's ioctl.
HandlesBalanced ==
  /\ At("attempt") \/ At("done") => InUse \ theirs = {netfd} \cap Nat
  /\ \A h \in theirs : device[h] = "game"
  /\ netfd \in InUse /\ ~At("forget") => device[netfd] = "top"

\* Success means that the sockets can be used, and the receiver may go on to
\* Mynet_socket: net_ip_top_fd is open, IOS has started its sockets, and there
\* is an address (network_wii.cpp:351, "Unable to obtain IP address"), or
\* IOCTL_SO_GETHOSTID itself has failed, whose error code Mynet_init takes for
\* one (line 350).
UpIsUsable ==
  At("done") /\ ret >= 0 =>
    /\ netfd \in Handles /\ device[netfd] = "top" /\ started
    /\ leased \/ ip["receiver"] = "error"

\* Bringing up the network ends, with or without an address.
InitEnds == <>At("done")

\* README.md:9: once the network is up and the console has its address, the
\* title screen comes to display it, whatever it displayed before.
AddressShown == (At("done") /\ ret >= 0 /\ leased) ~> (shown = "addr")
=============================================================================
