SPECIFICATION Spec
CONSTANTS
  Base = 4
  MaxInt32 = 127
  Called <- AllFunctions
  Seeds = {0, 1, 2, 3, 4, 5, 6}
  ErrOkAnywhere = FALSE
  Trial <- Values
  Encoding <- EncodeAll
  Decoding <- DecodeAll
  OnWire <- WireAll
INVARIANTS Inv ArgumentsOnWire ReplyUnderstood OnlyShortFails ErrorReported AnswersReachCaller EventsUnderstood
CHECK_DEADLOCK FALSE
