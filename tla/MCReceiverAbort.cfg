\* No IOS call fails and clients send and take all they have, but may leave early.
SPECIFICATION PromptSpec
CONSTANTS
  c1 = c1
  c2 = c2
  a = a
  E = E
  S = S
  Z = Z
  NoConn = NoConn
  Conns = {c1, c2}
  Chars <- MCChars
  Eof = E
  Nul = Z
  Space = S
  Streams <- MCFitting
  BufSize = 3
  Chunk = 2
  MaxFaults = 0
  ClientsAbort = TRUE
PROPERTIES Served
\* A thread that has returned or halted stops, and so may its clients.
CHECK_DEADLOCK FALSE
