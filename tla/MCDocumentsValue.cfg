SPECIFICATION Spec
CONSTANTS
  alice = alice
  bob = bob
  contract = contract
  elsewhere = elsewhere
  zero = zero
  stranger = stranger
  none = none
  absent = absent
  n1 = n1
  n2 = n2
  Accounts = {alice, bob}
  ZeroAddress <- zero
  Stranger <- stranger
  NoSignature <- none
  UINT256 = 8
  RecoveryId <- MCRecoveryId
  UINT64 = 4
  Absent <- absent
  NodeChainID = 1
  Metadata <- MCMetadata
  SignOptions <- MCSignOptions
  CancelOptions <- ShortCancelOptions
  TokenOptions <- ShortTokenOptions
  ForeignCalls <- MCForeignCalls
  WallClock = {1, 3}
  Edits <- NoEdits
  MaxDocuments = 2
  MaxCalls = 3
  MaxSignatures = 4
  TokenDomain <- MCTokenDomain
INVARIANT ValueIsUint256
CHECK_DEADLOCK FALSE
