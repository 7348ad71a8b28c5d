SPECIFICATION FairServerSpec
CONSTANTS
  PlainCalls = {}
  Downloads = {d1}
  Uploads = {u1}
  Consoles = {}
  NoCall = NoCall
  MaxSerial = 2
  SinkMayFail = FALSE
  AnswersAfterEof = FALSE
  SendsErrOk = FALSE
PROPERTIES CallsReturn
