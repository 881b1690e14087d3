SPECIFICATION FairSpec
CONSTANTS
  ReqSize = 19
  RespSize = 26
  MaxLength = 63
  Sizes = 32
  MaxAdded = 2
  MaxAnswered = 0
  MaxIdle = 1
  Requests <- MCRequests
  Additions <- MCAdditions
  Answers <- MCAnswers
INVARIANTS
  TypeOK
  RequestOnWire
  ParserInStep
  ResponseFaithful
  HeaderFound
  FailureJustified
  SocketReleased
PROPERTY Returns
