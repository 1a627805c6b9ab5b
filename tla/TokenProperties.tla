---------------------------- MODULE TokenProperties ----------------------------
(***************************************************************************)
(* What the token contract promises, and what the CLI may expect of it.    *)
(***************************************************************************)
EXTENDS EIP3009Token

Entries == 1 .. Len(log)

LogEntries ==
  [event : {"AuthorizationUsed", "AuthorizationCanceled"},
   authorizer : Addresses, nonce : Nonces, caller : Accounts, timestamp : Nat,
   call : [args : Submitted, v : SolidityVs \cup {0, 1}, rs : Signatures]]

(* Every variable has its type; a consumed slot, a recorded call and a        *)
(* balance stay within the domains the contract declares for them.            *)
TypeOK ==
  /\ balances \in [Addresses -> 0 .. UINT256 - 1]
  /\ totalSupply \in 0 .. UINT256 - 1
  /\ authorizationState \in [Addresses -> [Nonces -> BOOLEAN]]
  /\ timestamp \in 0 .. MaxTime
  /\ log \in Seq(LogEntries)

(* A nonce of an account is consumed at most once, by one transfer, one        *)
(* receive or one cancellation, however often and by whomever the calls are    *)
(* submitted (EIP3009Token.sol:98, 118).                                       *)
SlotConsumedOnce ==
  \A i, j \in Entries :
    log[i].authorizer = log[j].authorizer /\ log[i].nonce = log[j].nonce => i = j

(* authorizationState, which clients query, is TRUE exactly for the nonces an  *)
(* event was emitted for (EIP3009Token.sol:101-102, 123-124).                  *)
ConsumedIffLogged ==
  \A a \in Addresses, n \in Nonces :
    authorizationState[a][n] <=>
      \E i \in Entries : log[i].authorizer = a /\ log[i].nonce = n

(* Whatever consumed a nonce was signed by its authorizer: the very arguments  *)
(* that were executed, as the function that executed them, for this contract   *)
(* and chain, as the CLI hashes them; and a payment fell inside its window     *)
(* (EIP3009Token.sol:120-121, eip712.go:87).                                   *)
EffectBacked ==
  \A i \in Entries :
    LET entry == log[i]  args == entry.call.args IN
    /\ entry.authorizer = SignerAddress(args)
    /\ entry.nonce = args.Nonce
    /\ \E rs \in signed :
         rs.signer = entry.authorizer /\ rs.digest = TypedDataHash(TokenDomain, args)
    /\ args.Kind \in TransferKinds =>
         /\ entry.event = "AuthorizationUsed"
         /\ entry.timestamp > args.ValidAfter
         /\ entry.timestamp < args.ValidBefore
    /\ args.Kind = CancelAuthorization => entry.event = "AuthorizationCanceled"

(* A payer who gave out nothing but receive authorizations for a nonce is only *)
(* ever debited in a call that the payee made: nobody else can turn the        *)
(* signature into a transfer (EIP3009Token.sol:72, 88, 92).                    *)
ReceiveNeedsPayee ==
  \A i \in Entries :
    LET entry == log[i]  args == entry.call.args IN
    /\ entry.event = "AuthorizationUsed"
    /\ \A rs \in signed :
         rs.signer = entry.authorizer /\ rs.digest.structHash[1] # TypeHash(CancelAuthorization)
           /\ rs.digest.structHash[7] = entry.nonce
         => rs.digest.structHash[1] = TypeHash(ReceiveAuthorization)
    => entry.caller = args.To

(* The balances add up to the supply: authorized payments, also of an account  *)
(* to itself, neither create nor destroy tokens, and the unchecked credit of   *)
(* ERC20._update never wraps (EIP3009Token.sol:57, 74, 94).                    *)
SupplyConserved == SumFunction(balances) = totalSupply

-----------------------------------------------------------------------------
(* The CLI and the contract agree. *)

\* Who can execute a message: anybody, except that a receive is its payee's.
Executors(auth) == IF auth.Kind = ReceiveAuthorization THEN Accounts \cap {auth.To} ELSE Accounts

\* Everything but the time is in order for the message a key holder signed.
ReadyButForTime(s) ==
  LET auth == AbiArguments(s.Authorization) IN
  /\ s.Key = SignerAddress(auth)
  /\ DomainSeparator(s.Domain) = DomainSeparator(TokenDomain)
  /\ ~authorizationState[SignerAddress(auth)][auth.Nonce]
  /\ auth.Kind \in TransferKinds => auth.Value <= balances[auth.From]

AllExecute(s) ==
  \A m \in SignAuthorization(s.Domain, s.Authorization, s.Key) :
    m.Signature.RS \in signed =>
      \A caller \in Executors(s.Authorization) :
        CallAccepted(caller, EncodeExecuteCalldata(m))

(* A message that the CLI's sign or cancel produced for this contract, encoded *)
(* by EncodeExecuteCalldata, is accepted by the contract whenever its slot is  *)
(* open, the payer can pay and the time is inside the window, also if the      *)
(* value was packed modulo 2^256 (types.go:148-156, calldata.go:101).  Inside   *)
(* is strictly between: validAfter itself is still too early, although the     *)
(* help of --valid-after calls it the earliest valid timestamp (cli.go:469).   *)
SignedMessageExecutes ==
  \A s \in Signable :
    /\ ReadyButForTime(s)
    /\ s.Authorization.Kind \in TransferKinds =>
         timestamp \in (s.Authorization.ValidAfter + 1) .. (s.Authorization.ValidBefore - 1)
    => AllExecute(s)

(* --verify is the contract's own check: whatever call the contract accepts    *)
(* verifies as a message, and a message that verifies carries a signature the  *)
(* contract accepts, provided that its s is of the lower half and its v is 27  *)
(* or 28, which VerifySignedAuthorization does not ask for (eip712.go:99).     *)
VerifyAgreesWithToken ==
  \A c \in Calls :
    LET message == [Domain |-> TokenDomain, Authorization |-> c.args,
                    Signature |-> [V |-> c.v, RS |-> c.rs]]
        structHash == IF c.args.Kind = CancelAuthorization THEN CancelStructHash(c.args)
                      ELSE TransferStructHash(TypeHash(c.args.Kind), c.args)
    IN
    /\ (\E caller \in Accounts : CallAccepted(caller, c)) => VerifySignedAuthorization(message)
    /\ VerifySignedAuthorization(message) /\ c.v \in SolidityVs /\ ~c.rs.high
         => RequireValidSignature(SignerAddress(c.args), structHash, c)

-----------------------------------------------------------------------------
(***************************************************************************)
(* The abstract ledger.  A slot is used or canceled according to the event *)
(* that was emitted for it, and an account consents to the terms of a      *)
(* signature as soon as it has produced it for this contract.              *)
(***************************************************************************)
LoggedAs(event, a, n) ==
  \E i \in Entries : log[i].event = event /\ log[i].authorizer = a /\ log[i].nonce = n

slotView ==
  [a \in Addresses |-> [n \in Nonces |->
     IF LoggedAs("AuthorizationUsed", a, n) THEN "used"
     ELSE IF LoggedAs("AuthorizationCanceled", a, n) THEN "canceled" ELSE "open"]]

consentView ==
  {<<rs.signer, rs.digest.structHash>> :
     rs \in {s \in signed : s.digest.domainSeparator = DomainSeparator(TokenDomain)}}

Ledger == INSTANCE AuthorizationLedger
            WITH Modulus <- UINT256, balance <- balances, slot <- slotView, consent <- consentView

(* The contract implements the ledger: every call moves exactly the value its  *)
(* authorizer consented to in the step that consumes the slot, or consumes the *)
(* slot and moves nothing (EIP3009Token.sol:60-103).                           *)
ImplementsLedger == Ledger!LedgerSpec
===============================================================================
