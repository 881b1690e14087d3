\* The released words may be used again before the handler has read them.
SPECIFICATION Spec
CONSTANTS
  a = a
  b = b
  Sep = Sep
  Other = Other
  MaxLength = 5
  Chars <- MCChars
  Texts <- MCTexts
  Names <- MCNames
  argc <- MCargc
  ANY_ARGC <- MCAny
  Initial <- MCInitial
INVARIANTS AnswersRequest
\* A request without a word, and removeCommand, may crash the console.
CHECK_DEADLOCK FALSE
