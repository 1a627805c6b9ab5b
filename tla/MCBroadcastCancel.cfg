SPECIFICATION FairSpec
CONSTANTS
  alice = alice
  bob = bob
  carol = carol
  contract = contract
  elsewhere = elsewhere
  zero = zero
  stranger = stranger
  none = none
  noPlan = noPlan
  noMessage = noMessage
  noTx = noTx
  n1 = n1
  i1 = i1
  i2 = i2
  Accounts <- MCAccounts
  ZeroAddress <- zero
  Stranger <- stranger
  NoSignature <- none
  UINT256 = 2
  RecoveryId <- MCRecoveryId
  Nonces = {n1}
  Owner <- alice
  TokenDomain <- MCTokenDomain
  Signable <- CancelSignable
  Submitted <- MCSubmitted
  Amounts = {1}
  MaxTime = 2
  OtherContracts = {elsewhere}
  GasPrices = {1}
  WarmGas = 68
  FreshGas = 85
  Outsiders = {bob}
  Invocations = {i1, i2}
  Plans <- CancelPlans
  NoPlan <- noPlan
  NoMessage <- noMessage
  NoTx <- noTx
INVARIANTS
  OneSuccessPerAuthorization
PROPERTIES
  PendingResolved
  CancelConsumes
CHECK_DEADLOCK FALSE
