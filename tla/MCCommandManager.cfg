\* Requests over two letters and the space, any use of the released words.
SPECIFICATION FairSpec
CONSTANTS
  a = a
  b = b
  Sep = Sep
  Other = Other
  MaxLength = 6
  Chars <- MCChars
  Texts <- MCTexts
  Names <- MCNames
  argc <- MCargc
  ANY_ARGC <- MCAny
  Initial <- MCInitial
INVARIANTS TypeOK HandlerGetsItsArguments SplitResult AnswersUndisturbed
PROPERTIES RejectsOnlyMalformed RequestEnds
\* A request without a word, and removeCommand, may crash the console.
CHECK_DEADLOCK FALSE
