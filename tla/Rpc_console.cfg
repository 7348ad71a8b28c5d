SPECIFICATION FairSpec
CONSTANTS
  PlainCalls = {p1}
  Downloads = {}
  Uploads = {}
  Consoles = {b1}
  NoCall = NoCall
  MaxSerial = 2
  SinkMayFail = FALSE
  AnswersAfterEof = FALSE
  SendsErrOk = FALSE
INVARIANTS ListenerNeverWedged
PROPERTIES LossReleasesCallers EndedCallsReturn StdinEofEndsConsole
