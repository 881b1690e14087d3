\* Every command with numbers at the limits of a word and of MEM1.
SPECIFICATION Spec
CONSTANTS
  U = 2
  Word = 32
  Half = 16
  Lo = 16
  Hi = 19
  responseSize = 8
  Payloads <- MCPayloads
  Requests <- MCRequests
INVARIANTS TypeOK NumbersRead WritesWithinMem1 AnswersRight DecodesIntoItsBuffer
PROPERTIES WritesTheData
\* An allocation of a negative length crashes the console.
CHECK_DEADLOCK FALSE
