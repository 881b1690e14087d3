\* Failing IOS calls, clients that may leave early, and clients that stay silent.
SPECIFICATION FairSpec
CONSTANTS
  c1 = c1
  c2 = c2
  a = a
  E = E
  S = S
  Z = Z
  NoConn = NoConn
  Conns = {c1, c2}
  Chars <- MCChars
  Eof = E
  Nul = Z
  Space = S
  Streams <- MCStreams
  BufSize = 3
  Chunk = 2
  MaxFaults = 2
  ClientsAbort = TRUE
INVARIANTS TypeOK RequestFramed StoresInBuffer NoneLeaked ReplyIsOwn
PROPERTIES Service ServedUnlessStalled
\* The thread returns when its socket cannot be set up, and the model ends in an overrun or a crash.
CHECK_DEADLOCK FALSE
