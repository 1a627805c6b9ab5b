----------------------------- MODULE EIP3009Token -----------------------------
(***************************************************************************)
(* The token contract, solidity-eip3009-token/src/EIP3009Token.sol.        *)
(*                                                                         *)
(* An action is one call that succeeds, from its first check to its last   *)
(* effect: the EVM runs one call at a time, and a call that reverts leaves *)
(* no trace in the state of the contract.  Anybody may submit any          *)
(* arguments with any signature that exists, at any time and any number of *)
(* times.  Signatures are those that key holders produce with              *)
(* SignAuthorization, and the upper-half twins derived from them.          *)
(***************************************************************************)
EXTENDS Authorizations, Sequences, FiniteSets, Functions

CONSTANTS
  Nonces,         \* bytes32 authorization nonces
  Owner,          \* initialOwner of the contract
  TokenDomain,    \* the EIP-712 domain of the contract
  Signable,       \* what key holders may sign: [Key, Domain, Authorization]
  Submitted,      \* argument records of the calls that may be submitted
  Amounts,        \* amounts of plain mints and transfers
  MaxTime         \* bound of block.timestamp

TransferArguments ==
  [Kind : TransferKinds, From : Addresses, To : Addresses, Value : 0 .. UINT256 - 1,
   ValidAfter : Nat, ValidBefore : Nat, Nonce : Nonces]

CancelArguments ==
  [Kind : {CancelAuthorization}, Authorizer : Addresses, Nonce : Nonces]

Arguments == TransferArguments \cup CancelArguments

\* What an Authorization may hold before it is packed.
Terms ==
  [Kind : TransferKinds, From : Addresses, To : Addresses, Value : Int,
   ValidAfter : Nat, ValidBefore : Nat, Nonce : Nonces] \cup CancelArguments

ASSUME TokenAssumption ==
  /\ Owner \in Accounts
  /\ ValidDomain(TokenDomain)
  /\ Amounts \subseteq 0 .. UINT256 - 1
  /\ MaxTime \in Nat

\* An address has 20 bytes.
ASSUME AccountsAssumption == IsFiniteSet(Accounts)

ASSUME SubmittedAssumption == Submitted \subseteq Arguments

(***************************************************************************)
(* Key holders sign what the CLI can put into an Authorization, and a      *)
(* signature, with any v, is told apart from a missing one.                *)
(***************************************************************************)
ASSUME SignableAssumption ==
  \A s \in Signable :
    LET rs == RawSignature(s.Key, TypedDataHash(s.Domain, s.Authorization)) IN
    /\ s.Key \in Accounts /\ s.Authorization \in Terms
    /\ rs.recid \in {0, 1}
    /\ \A v \in {0, 1, 27, 28}, some \in {rs, HighS(rs)} : NoSignature # [V |-> v, RS |-> some]

VARIABLES
  balances,            \* ERC20._balances
  totalSupply,         \* ERC20._totalSupply
  authorizationState,  \* TRUE for a nonce that is used or canceled
  timestamp,           \* block.timestamp
  log,                 \* the events emitted, each with the call that emitted it
  signed               \* the (r, s) signatures that key holders have produced

tokenVars == <<balances, totalSupply, authorizationState, timestamp, log, signed>>

TokenInit ==
  /\ balances = [a \in Addresses |-> 0]
  /\ totalSupply = 0
  /\ authorizationState = [a \in Addresses |-> [n \in Nonces |-> FALSE]]
  /\ timestamp = 0
  /\ log = <<>>
  /\ signed = {}

(***************************************************************************)
(* The calls that can be submitted: calldata as EncodeExecuteCalldata      *)
(* builds it, from whatever pieces the submitter has.                      *)
(***************************************************************************)
Signatures == signed \cup {HighS(rs) : rs \in signed}

Calls == [args : Submitted, v : SolidityVs \cup {0, 1}, rs : Signatures]

-----------------------------------------------------------------------------
(* ECDSA.recover and _hashTypedDataV4 of OpenZeppelin. *)

HashTypedDataV4(structHash) ==
  [domainSeparator |-> DomainSeparator(TokenDomain), structHash |-> structHash]

Recovered(digest, v, rs) ==
  IF v \in SolidityVs /\ ~rs.high THEN RecoverKey(digest, v - 27, rs) ELSE Stranger

-----------------------------------------------------------------------------
(* The internal checks of the contract. *)

TRANSFER_WITH_AUTHORIZATION_TYPEHASH == "TransferWithAuthorization"
RECEIVE_WITH_AUTHORIZATION_TYPEHASH == "ReceiveWithAuthorization"
CANCEL_AUTHORIZATION_TYPEHASH == "CancelAuthorization"

\* Mutant: both functions hash with one type hash.
OneTypeStructHash(typeHash, args) ==
  <<RECEIVE_WITH_AUTHORIZATION_TYPEHASH, args.From, args.To, args.Value,
    args.ValidAfter, args.ValidBefore, args.Nonce>>

TransferStructHash(typeHash, args) ==
  <<typeHash, args.From, args.To, args.Value, args.ValidAfter, args.ValidBefore, args.Nonce>>

CancelStructHash(args) == <<CANCEL_AUTHORIZATION_TYPEHASH, args.Authorizer, args.Nonce>>

RequireValidTime(validAfter, validBefore) ==
  /\ timestamp > validAfter
  /\ timestamp < validBefore

RequireUnusedAuthorization(authorizer, nonce) == ~authorizationState[authorizer][nonce]

\* Mutant: a recovered key is enough, whoever it belongs to.
AnySigner(expectedSigner, structHash, c) ==
  Recovered(HashTypedDataV4(structHash), c.v, c.rs) # Stranger

RequireValidSignature(expectedSigner, structHash, c) ==
  Recovered(HashTypedDataV4(structHash), c.v, c.rs) = expectedSigner

RequireTransferAuthorization(typeHash, c) ==
  /\ RequireValidTime(c.args.ValidAfter, c.args.ValidBefore)
  /\ RequireUnusedAuthorization(c.args.From, c.args.Nonce)
  /\ RequireValidSignature(c.args.From, TransferStructHash(typeHash, c.args), c)

\* Mutant: the balance is not checked.
Overdraft(from, to, value) == ZeroAddress \notin {from, to}

\* ERC20._transfer does not revert.
Transferable(from, to, value) ==
  /\ ZeroAddress \notin {from, to}
  /\ value <= balances[from]

\* What each function requires of a call, as its guard and for gas estimation.
TransferAccepted(caller, c) ==
  /\ c.args.Kind = TransferAuthorization
  /\ RequireTransferAuthorization(TRANSFER_WITH_AUTHORIZATION_TYPEHASH, c)
  /\ Transferable(c.args.From, c.args.To, c.args.Value)

ReceiveAccepted(caller, c) ==
  /\ c.args.Kind = ReceiveAuthorization
  /\ caller = c.args.To
  /\ RequireTransferAuthorization(RECEIVE_WITH_AUTHORIZATION_TYPEHASH, c)
  /\ Transferable(c.args.From, c.args.To, c.args.Value)

\* Mutant: cancelAuthorization without _requireUnusedAuthorization.
CancelAnyway(caller, c) ==
  /\ c.args.Kind = CancelAuthorization
  /\ RequireValidSignature(c.args.Authorizer, CancelStructHash(c.args), c)

CancelAccepted(caller, c) ==
  /\ c.args.Kind = CancelAuthorization
  /\ RequireUnusedAuthorization(c.args.Authorizer, c.args.Nonce)
  /\ RequireValidSignature(c.args.Authorizer, CancelStructHash(c.args), c)

CallAccepted(caller, c) ==
  \/ TransferAccepted(caller, c)
  \/ ReceiveAccepted(caller, c)
  \/ CancelAccepted(caller, c)

-----------------------------------------------------------------------------
(* Effects. *)

\* Mutant: the nonce is marked only by the functions that move funds.
MarkedWhenMoved(event, authorizer, caller, c) ==
  /\ authorizationState' =
       [authorizationState EXCEPT ![authorizer][c.args.Nonce] = event = "AuthorizationUsed"]
  /\ log' = Append(log, [event |-> event, authorizer |-> authorizer, nonce |-> c.args.Nonce,
                         caller |-> caller, timestamp |-> timestamp, call |-> c])

\* Mutant: every function emits AuthorizationUsed.
EmitUsed(event, authorizer, caller, c) ==
  /\ authorizationState' = [authorizationState EXCEPT ![authorizer][c.args.Nonce] = TRUE]
  /\ log' = Append(log, [event |-> "AuthorizationUsed", authorizer |-> authorizer,
                         nonce |-> c.args.Nonce, caller |-> caller,
                         timestamp |-> timestamp, call |-> c])

\* authorizationState[authorizer][nonce] = true, and the event
MarkAndEmit(event, authorizer, caller, c) ==
  /\ authorizationState' = [authorizationState EXCEPT ![authorizer][c.args.Nonce] = TRUE]
  /\ log' = Append(log, [event |-> event, authorizer |-> authorizer, nonce |-> c.args.Nonce,
                         caller |-> caller, timestamp |-> timestamp, call |-> c])

\* Mutant: both balances are read before either is written.
StaleTransfer(from, to, value) ==
  balances' = [balances EXCEPT ![from] = @ - value,
                               ![to] = (balances[to] + value) % UINT256]

\* ERC20._update: the debit is written before the credit is read; the credit
\* is not checked.
Transfer(from, to, value) ==
  LET debited == [balances EXCEPT ![from] = @ - value] IN
  balances' = [debited EXCEPT ![to] = (@ + value) % UINT256]

-----------------------------------------------------------------------------
(* The calls. *)

TransferWithAuthorization(caller, c) ==
  /\ TransferAccepted(caller, c)
  /\ MarkAndEmit("AuthorizationUsed", c.args.From, caller, c)
  /\ Transfer(c.args.From, c.args.To, c.args.Value)
  /\ UNCHANGED <<totalSupply, timestamp, signed>>

ReceiveWithAuthorization(caller, c) ==
  /\ ReceiveAccepted(caller, c)
  /\ MarkAndEmit("AuthorizationUsed", c.args.From, caller, c)
  /\ Transfer(c.args.From, c.args.To, c.args.Value)
  /\ UNCHANGED <<totalSupply, timestamp, signed>>

CancelAuthorizationCall(caller, c) ==
  /\ CancelAccepted(caller, c)
  /\ MarkAndEmit("AuthorizationCanceled", c.args.Authorizer, caller, c)
  /\ UNCHANGED <<balances, totalSupply, timestamp, signed>>

\* onlyOwner; ERC20._mint reverts when the supply would overflow.
Mint(caller, to, value) ==
  /\ caller = Owner
  /\ to # ZeroAddress
  /\ totalSupply + value < UINT256
  /\ totalSupply' = totalSupply + value
  /\ balances' = [balances EXCEPT ![to] = (@ + value) % UINT256]
  /\ UNCHANGED <<authorizationState, timestamp, log, signed>>

\* ERC20.transfer, inherited: payers can also empty their accounts with it.
PlainTransfer(caller, to, value) ==
  /\ Transferable(caller, to, value)
  /\ Transfer(caller, to, value)
  /\ UNCHANGED <<totalSupply, authorizationState, timestamp, log, signed>>

\* A block with a later timestamp begins.
Tick ==
  /\ timestamp < MaxTime
  /\ timestamp' = timestamp + 1
  /\ UNCHANGED <<balances, totalSupply, authorizationState, log, signed>>

\* A key holder signs, with the CLI or a wallet that does what it does.
Sign(s) ==
  /\ \E m \in SignAuthorization(s.Domain, s.Authorization, s.Key) :
       signed' = signed \cup {m.Signature.RS}
  /\ UNCHANGED <<balances, totalSupply, authorizationState, timestamp, log>>

AuthorizationCall(caller, c) ==
  \/ TransferWithAuthorization(caller, c)
  \/ ReceiveWithAuthorization(caller, c)
  \/ CancelAuthorizationCall(caller, c)

TokenNext ==
  \/ \E caller \in Accounts, c \in Calls : AuthorizationCall(caller, c)
  \/ \E caller, to \in Accounts, value \in Amounts : Mint(caller, to, value)
  \/ \E caller, to \in Accounts, value \in Amounts : PlainTransfer(caller, to, value)
  \/ \E s \in Signable : Sign(s)
  \/ Tick

TokenSpec == TokenInit /\ [][TokenNext]_tokenVars
===============================================================================
