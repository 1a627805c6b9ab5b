SPECIFICATION Spec

CONSTANTS
  Implementations <- MCImplementations
  Tasks <- MCTasks
  NodeChain <- MCNodeChain
  MaxUpgrades = 2

CHECK_DEADLOCK FALSE

INVARIANTS
  ContractReadsTypeOK
  FeatureTruthful
  VerdictExact
  CancelRevertExplained

PROPERTIES
  CheckReports
  CancelCompleted
