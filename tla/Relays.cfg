SPECIFICATION RelaySpec
CONSTANTS
  Statements = {s1, s2}
  NoStatement = NoStatement
  MaxRows = 2
  NetCap = 2
  Modulus = 6
  MaxSets = 2
  MaxCols = 2
  FlagCap = 2
  MaxMessages = 2
CHECK_DEADLOCK FALSE
INVARIANTS RowsOwnColumns MySQLAligned LastWordsReachClient MongoFaithful
PROPERTY AnswersDelivered
