SPECIFICATION LoginSpec
CONSTANTS
  UpstreamModes = {"none", "prefer", "require"}
  Methods = {"trust", "password", "scram"}
  Modes = {"none", "prefer", "require"}
  MaxRounds = 2
  MaxReply = 2
  SniffCap = 44
CHECK_DEADLOCK FALSE
INVARIANTS LetInByServer SeqAligned RequiredMeansTLS HandoverExact OutcomeReported LoginAttributed
PROPERTY LoginsConclude
