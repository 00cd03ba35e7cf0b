SPECIFICATION EdgeSpec
CONSTANTS
  RunIds = {r1, r2, none}
  EmptyId = none
  MaxStreams = 2
  MaxJobs = 3
  InboxCap = 1
  MaxStale = 2
  MaxFaults = 2
  MaxBackoff = 4
  MaxWait = 3
  PollEvery = 2
  Batch = 2
CHECK_DEADLOCK FALSE
INVARIANT SeriesWhole
