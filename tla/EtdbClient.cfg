SPECIFICATION FairSpec
CONSTANTS
  MaxSplits = 6
  MaxSlot = 2
  IntMod = 16
  Lower <- MCLower
  Decimal <- MCDecimal
  MaxConn = 2
  RequestNums = {1, 3}
  Phases = 2
  Lines <- MCLines
  MaxLines = 2
  LibFunctions <- MCFunctions
  MaxCalls = 3
  ReqLen = 1
  RespLen = 2
  MaxRecs = 2
INVARIANTS InStep ShownAnswers BenchLag WildUse
PROPERTIES QuitCause ClientProgress
CHECK_DEADLOCK FALSE
