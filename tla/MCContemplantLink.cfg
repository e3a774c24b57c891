SPECIFICATION FairSpec
CONSTANTS
  s1 = s1
  s2 = s2
  Conn = {s1, s2}
  NoConn = NoConn
  WireCap = 1
  OutCap = 1
  ResponseCap = 1
  BeatCap = 1
  MaxPolls = 2
  MaxFaults = 2
INVARIANTS TypeOK
PROPERTIES Recovers HeartbeatsFlow AnswersLeave
