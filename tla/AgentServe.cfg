SPECIFICATION FairSpec
CONSTANTS
  Configs <- MCConfigs
  Sessions = {s1, s2}
  Opens <- MCOpens
CHECK_DEADLOCK FALSE
INVARIANT PolicyKept
PROPERTIES UpstreamReleased ServesUntilCancelled
