SPECIFICATION Spec
CONSTANTS
  PlainCalls = {p1}
  Downloads = {d1}
  Uploads = {u1}
  Consoles = {b1}
  NoCall = NoCall
  MaxSerial = 2
  SinkMayFail = TRUE
  AnswersAfterEof = TRUE
  SendsErrOk = TRUE
INVARIANTS RegisteredOpen Correlated NoOrphanWait Inv
PROPERTIES Implements
CHECK_DEADLOCK FALSE
