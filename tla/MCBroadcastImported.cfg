SPECIFICATION Spec
CONSTANTS
  alice = alice
  bob = bob
  carol = carol
  contract = contract
  elsewhere = elsewhere
  zero = zero
  stranger = stranger
  none = none
  noPlan = noPlan
  noMessage = noMessage
  noTx = noTx
  n1 = n1
  i1 = i1
  i2 = i2
  Accounts <- MCAccounts
  ZeroAddress <- zero
  Stranger <- stranger
  NoSignature <- none
  UINT256 = 2
  RecoveryId <- MCRecoveryId
  Nonces = {n1}
  Owner <- alice
  TokenDomain <- MCTokenDomain
  Signable <- ImportedSignable
  Submitted <- MCSubmitted
  Amounts = {1}
  MaxTime = 1
  OtherContracts = {elsewhere}
  GasPrices = {1}
  WarmGas = 68
  FreshGas = 85
  Outsiders = {}
  Invocations = {i1, i2}
  Plans <- ImportedPlans
  NoPlan <- noPlan
  NoMessage <- noMessage
  NoTx <- noTx
INVARIANTS
  HopelessNeverSent
CHECK_DEADLOCK FALSE
