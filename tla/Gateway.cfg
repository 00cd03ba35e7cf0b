SPECIFICATION FairSpec
CONSTANTS
  A = A
  t1 = t1
  t2 = t2
  Conns = {c1, c2}
  Clients = {k1}
  AgentIds = {A}
  Targets = {t1, t2}
  Registrations <- OneAgent
  NoConn = NoConn
CHECK_DEADLOCK FALSE
INVARIANTS RegistryServes LastRegistrantWins FinalCounts
PROPERTY RelayReturns
