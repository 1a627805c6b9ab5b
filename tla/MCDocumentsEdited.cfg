SPECIFICATION Spec
CONSTANTS
  alice = alice
  bob = bob
  contract = contract
  elsewhere = elsewhere
  zero = zero
  stranger = stranger
  none = none
  absent = absent
  n1 = n1
  n2 = n2
  Accounts = {alice, bob}
  ZeroAddress <- zero
  Stranger <- stranger
  NoSignature <- none
  UINT256 = 8
  RecoveryId <- MCRecoveryId
  UINT64 = 4
  Absent <- absent
  NodeChainID = 1
  Metadata <- MCMetadata
  SignOptions <- EditedSignOptions
  CancelOptions <- EditedCancelOptions
  TokenOptions <- EditedTokenOptions
  ForeignCalls <- OneForeignCall
  WallClock = {1}
  Edits <- MCEdits
  MaxDocuments = 2
  MaxCalls = 2
  MaxSignatures = 3
  TokenDomain <- MCTokenDomain
PROPERTIES
  VerifiedCallSigned
  VerdictsTruthful
CHECK_DEADLOCK FALSE
