SPECIFICATION Spec
CONSTANTS
  Openers <- Both
  Writers <- Client
  Closers <- Client
  SessClosers <- Client
  Controllers <- Client
  LinkMayFail = FALSE
  MaxID = 2
  MaxChunks = 1
  AcceptCap = 1
  ControlCap = 1
  WireCap = 2
  Control = {c1}
  MaxControl = 2
CHECK_DEADLOCK FALSE
INVARIANTS NoIdCollision RemoteCloseNeverError OpenedStreamsEnded
