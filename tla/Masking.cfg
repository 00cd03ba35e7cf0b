SPECIFICATION FairSpec
CONSTANTS
  Names <- MCNames
  Blank = ""
  ToLower <- MCToLower
  TrimSpace <- MCTrimSpace
  Tokens <- MCTokens
  Static <- MCStatic
  Served <- MCServed
  Results <- MCResults
CHECK_DEADLOCK FALSE
INVARIANTS RowUnderOneRuleSet RulesAreServed
PROPERTY RefreshReaches
