SPECIFICATION TokenSpec
CONSTANTS
  alice = alice
  bob = bob
  carol = carol
  contract = contract
  zero = zero
  stranger = stranger
  none = none
  n1 = n1
  Accounts <- MCAccounts
  ZeroAddress <- zero
  Stranger <- stranger
  NoSignature <- none
  UINT256 = 4
  RecoveryId <- MCRecoveryId
  Nonces = {n1}
  Owner <- alice
  TokenDomain <- MCTokenDomain
  Signable <- MCSignable
  Submitted <- MCSubmitted
  Amounts = {2}
  MaxTime = 3
INVARIANTS
  TypeOK
  SlotConsumedOnce
  ConsumedIffLogged
  EffectBacked
  ReceiveNeedsPayee
  SupplyConserved
  SignedMessageExecutes
  VerifyAgreesWithToken
PROPERTY ImplementsLedger
CHECK_DEADLOCK FALSE
