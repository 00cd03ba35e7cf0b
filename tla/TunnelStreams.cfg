SPECIFICATION FairSpec
CONSTANTS
  Openers <- Server
  Writers <- Server
  Closers <- Server
  SessClosers <- Server
  Controllers <- Nobody
  LinkMayFail = TRUE
  MaxID = 2
  MaxChunks = 2
  AcceptCap = 1
  ControlCap = 1
  WireCap = 2
  Control = {c1}
  MaxControl = 0
CHECK_DEADLOCK FALSE
PROPERTIES ImplementsByteStream OpenedReaderReleased CloseReachesReader
