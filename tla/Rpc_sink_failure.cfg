SPECIFICATION FairSpec
CONSTANTS
  PlainCalls = {p1}
  Downloads = {d1}
  Uploads = {}
  Consoles = {}
  NoCall = NoCall
  MaxSerial = 2
  SinkMayFail = TRUE
  AnswersAfterEof = FALSE
  SendsErrOk = FALSE
PROPERTIES LossReleasesCallers
CHECK_DEADLOCK FALSE
