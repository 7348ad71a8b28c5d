SPECIFICATION Spec
CONSTANTS
  Base = 4
  MaxInt32 = 127
  Called <- DiskErrors
  Seeds = {0, 1, 2, 3, 4, 5, 6}
  ErrOkAnywhere = FALSE
  Trial <- Values
  Encoding <- EncodeAll
  Decoding <- DecodeAll
  OnWire <- WireAll
INVARIANTS ResultsUnderstood
CHECK_DEADLOCK FALSE
