SPECIFICATION Spec
CONSTANTS
  TextFields = {"model"}
  NumericFields = {"cpu MHz"}
  OtherKeys = {"icache"}
  Infos <- MCInfos
  MaxLines = 5
INVARIANTS TypeOK EveryProcessorInOrder FieldsOfOwnLines
CHECK_DEADLOCK FALSE
