SPECIFICATION FairLinkSpec
CONSTANTS
  Openers <- Server
  Writers <- Nobody
  Closers <- Nobody
  SessClosers <- Client
  Controllers <- Both
  LinkMayFail = TRUE
  MaxID = 4
  MaxChunks = 0
  AcceptCap = 2
  ControlCap = 1
  WireCap = 2
  Control <- Messages
  MaxControl = 2
CHECK_DEADLOCK FALSE
INVARIANTS ServingMeansRegistered
PROPERTIES LeftAgentForgotten RegistrationAnswered
