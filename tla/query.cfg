SPECIFICATION QuerySpec
CONSTANTS
  IntBits = 3
  BlockRows = 1
  SlotsPerPage = 2
  Tables <- MCTables
  IndexesOf <- MCIndexesOf
  Statements <- MCStatements
  RuleSets <- MCRuleSets
  Databases <- MCDatabases
  Faults <- MCFaults
CHECK_DEADLOCK FALSE
INVARIANTS  ExecutorsAgree ErrorsReported NothingHeld HangsExplained  WritesApplied
