------------------------- MODULE EIP3009TokenProofs --------------------------
(***************************************************************************)
(* What the token guarantees for any accounts, nonces, signatures, width   *)
(* of uint256 and calls: what it does by itself, that it implements        *)
(* AuthorizationLedger, that it neither creates nor loses tokens, and that *)
(* it accepts what the CLI signs and verifies.                             *)
(***************************************************************************)
EXTENDS TokenProperties, FoldLemmas, TLAPS

(* Every signature that exists was produced by the holder of a key on          *)
(* something that this holder may sign.                                        *)
SignedByHolders ==
  \A rs \in signed :
    \E s \in Signable : rs = RawSignature(s.Key, TypedDataHash(s.Domain, s.Authorization))

(* A receive was called by its payee.                                          *)
PayeeCalled ==
  \A i \in Entries :
    log[i].call.args.Kind = ReceiveAuthorization => log[i].caller = log[i].call.args.To

(* The inductive invariant: the slots mirror the log, and every entry of the   *)
(* log is backed by a signature that exists.                                   *)
TokenInv ==
  /\ TypeOK
  /\ SignedByHolders
  /\ ConsumedIffLogged
  /\ SlotConsumedOnce
  /\ EffectBacked
  /\ PayeeCalled

-----------------------------------------------------------------------------
(* Arguments that fit the ABI are packed unchanged, so that both sides hash    *)
(* the same structure (eip712.go:42 and EIP3009Token.sol:120).                 *)
LEMMA PackedArguments ==
  ASSUME NEW args \in Arguments
  PROVE  /\ AbiArguments(args) = args
         /\ args.Kind \in TransferKinds =>
              AuthorizationStructHash(args) = TransferStructHash(TypeHash(args.Kind), args)
         /\ args.Kind = CancelAuthorization =>
              AuthorizationStructHash(args) = CancelStructHash(args)
<1>1. CASE args \in TransferArguments
  <2>1. args.Kind \in TransferKinds /\ args.Kind # CancelAuthorization
    BY <1>1 DEF TransferArguments, TransferKinds, TransferAuthorization, ReceiveAuthorization,
                CancelAuthorization
  <2>2. args.Value \in 0 .. UINT256 - 1 /\ args = [args EXCEPT !.Value = args.Value]
    BY <1>1 DEF TransferArguments
  <2>3. U256(args.Value) = args.Value
    BY <2>2, WidthAssumption DEF U256
  <2>4. AbiArguments(args) = args
    BY <2>1, <2>2, <2>3 DEF AbiArguments
  <2> QED
    BY <2>1, <2>4 DEF AuthorizationStructHash, TransferStructHash
<1>2. CASE args \in CancelArguments
  <2>1. args.Kind = CancelAuthorization /\ args.Kind \notin TransferKinds
    BY <1>2 DEF CancelArguments, TransferKinds, TransferAuthorization, ReceiveAuthorization,
                CancelAuthorization
  <2>2. TypeHash(args.Kind) = CANCEL_AUTHORIZATION_TYPEHASH
    BY <2>1 DEF TypeHash, CANCEL_AUTHORIZATION_TYPEHASH, CancelAuthorization,
                TransferAuthorization, ReceiveAuthorization
  <2> QED
    BY <2>1, <2>2 DEF AuthorizationStructHash, AbiArguments, CancelStructHash
<1> QED
  BY <1>1, <1>2 DEF Arguments

(* A signature that recovers to an address somebody may have was produced by   *)
(* that very address for that very digest; twins with the upper s never pass.  *)
LEMMA RecoveredIsSigner ==
  ASSUME SignedByHolders, NEW rs \in Signatures, NEW digest, NEW v,
         NEW signer \in Addresses, Recovered(digest, v, rs) = signer
  PROVE  rs \in signed /\ rs.signer = signer /\ rs.digest = digest /\ v \in SolidityVs
<1>1. signer # Stranger
  BY AddressAssumption DEF Addresses
<1>2. v \in SolidityVs /\ ~rs.high /\ rs.signer = signer /\ rs.digest = digest
  BY <1>1 DEF Recovered, RecoverKey
<1>3. ASSUME NEW low \in signed, rs = HighS(low)
      PROVE  FALSE
  <2>1. PICK s \in Signable : low = RawSignature(s.Key, TypedDataHash(s.Domain, s.Authorization))
    BY DEF SignedByHolders
  <2>2. rs.high = TRUE
    BY <1>3, <2>1 DEF HighS, RawSignature
  <2> QED
    BY <1>2, <2>2
<1> QED
  BY <1>2, <1>3 DEF Signatures

-----------------------------------------------------------------------------
(* A call in progress: everything a successful authorization call does, with   *)
(* the three functions taken together.                                         *)
Consumes(event, authorizer, caller, c) ==
  /\ authorizer = SignerAddress(c.args)
  /\ authorizer \in Addresses /\ c.args.Nonce \in Nonces
  /\ RequireUnusedAuthorization(authorizer, c.args.Nonce)
  /\ c.rs \in signed
  /\ c.rs.signer = authorizer
  /\ c.rs.digest = TypedDataHash(TokenDomain, c.args)
  /\ MarkAndEmit(event, authorizer, caller, c)
  /\ c.args.Kind \in TransferKinds =>
       /\ event = "AuthorizationUsed"
       /\ RequireValidTime(c.args.ValidAfter, c.args.ValidBefore)
  /\ c.args.Kind = CancelAuthorization => event = "AuthorizationCanceled"
  /\ c.args.Kind = ReceiveAuthorization => caller = c.args.To
  /\ event \in {"AuthorizationUsed", "AuthorizationCanceled"}
  /\ UNCHANGED <<totalSupply, timestamp, signed>>

(* A payment that passes the contract's checks was signed, by its payer, as    *)
(* the CLI hashes it.                                                          *)
LEMMA TransferSigned ==
  ASSUME TokenInv, NEW c \in Calls, NEW typeHash, c.args.Kind \in TransferKinds,
         typeHash = TypeHash(c.args.Kind), RequireTransferAuthorization(typeHash, c)
  PROVE  /\ c.args \in TransferArguments
         /\ c.rs \in signed /\ c.rs.signer = c.args.From
         /\ c.rs.digest = TypedDataHash(TokenDomain, c.args)
<1>1. c.args \in Arguments /\ c.rs \in Signatures
  BY SubmittedAssumption DEF Calls
<1>2. c.args \in TransferArguments
  BY <1>1 DEF Arguments, CancelArguments, TransferKinds, TransferAuthorization,
              ReceiveAuthorization, CancelAuthorization
<1>3. c.args.From \in Addresses
  BY <1>2 DEF TransferArguments
<1>4. Recovered(HashTypedDataV4(TransferStructHash(typeHash, c.args)), c.v, c.rs) = c.args.From
  BY DEF RequireTransferAuthorization, RequireValidSignature
<1>5. /\ c.rs \in signed /\ c.rs.signer = c.args.From
      /\ c.rs.digest = HashTypedDataV4(TransferStructHash(typeHash, c.args))
  <2> SignedByHolders
    BY DEF TokenInv
  <2> QED
    BY <1>1, <1>3, <1>4, RecoveredIsSigner
<1>6. AuthorizationStructHash(c.args) = TransferStructHash(typeHash, c.args)
  BY <1>1, PackedArguments
<1> QED
  BY <1>2, <1>5, <1>6 DEF HashTypedDataV4, TypedDataHash

(* So was a cancellation, by its authorizer.                                   *)
LEMMA CancelSigned ==
  ASSUME TokenInv, NEW c \in Calls, c.args.Kind = CancelAuthorization,
         RequireValidSignature(c.args.Authorizer, CancelStructHash(c.args), c)
  PROVE  /\ c.args \in CancelArguments
         /\ c.rs \in signed /\ c.rs.signer = c.args.Authorizer
         /\ c.rs.digest = TypedDataHash(TokenDomain, c.args)
<1>1. c.args \in Arguments /\ c.rs \in Signatures
  BY SubmittedAssumption DEF Calls
<1>2. c.args \in CancelArguments
  BY <1>1 DEF Arguments, TransferArguments, TransferKinds, TransferAuthorization,
              ReceiveAuthorization, CancelAuthorization
<1>3. c.args.Authorizer \in Addresses
  BY <1>2 DEF CancelArguments
<1>4. Recovered(HashTypedDataV4(CancelStructHash(c.args)), c.v, c.rs) = c.args.Authorizer
  BY DEF RequireValidSignature
<1>5. /\ c.rs \in signed /\ c.rs.signer = c.args.Authorizer
      /\ c.rs.digest = HashTypedDataV4(CancelStructHash(c.args))
  <2> SignedByHolders
    BY DEF TokenInv
  <2> QED
    BY <1>1, <1>3, <1>4, RecoveredIsSigner
<1>6. AuthorizationStructHash(c.args) = CancelStructHash(c.args)
  BY <1>1, PackedArguments
<1> QED
  BY <1>2, <1>5, <1>6 DEF HashTypedDataV4, TypedDataHash

(* Every call that succeeds consumes a slot that was open, with a backing      *)
(* signature, inside the window and called by the payee if it is a receive.    *)
LEMMA CallConsumes ==
  ASSUME TokenInv, NEW caller \in Accounts, NEW c \in Calls, AuthorizationCall(caller, c)
  PROVE  \E event, authorizer : Consumes(event, authorizer, caller, c)
<1> USE DEF TransferKinds, TransferAuthorization, ReceiveAuthorization, CancelAuthorization
<1>1. CASE TransferWithAuthorization(caller, c)
  <2>1. /\ c.args.Kind = TransferAuthorization
        /\ RequireTransferAuthorization(TRANSFER_WITH_AUTHORIZATION_TYPEHASH, c)
        /\ MarkAndEmit("AuthorizationUsed", c.args.From, caller, c)
        /\ UNCHANGED <<totalSupply, timestamp, signed>>
    BY <1>1 DEF TransferWithAuthorization, TransferAccepted
  <2>2. TRANSFER_WITH_AUTHORIZATION_TYPEHASH = TypeHash(c.args.Kind)
    BY <2>1 DEF TypeHash, TRANSFER_WITH_AUTHORIZATION_TYPEHASH
  <2>3. /\ c.args \in TransferArguments
        /\ c.rs \in signed /\ c.rs.signer = c.args.From
        /\ c.rs.digest = TypedDataHash(TokenDomain, c.args)
    BY <2>1, <2>2, TransferSigned
  <2>4. Consumes("AuthorizationUsed", c.args.From, caller, c)
    BY <2>1, <2>3 DEF Consumes, RequireTransferAuthorization, SignerAddress, TransferArguments
  <2> QED
    BY <2>4
<1>2. CASE ReceiveWithAuthorization(caller, c)
  <2>1. /\ c.args.Kind = ReceiveAuthorization
        /\ caller = c.args.To
        /\ RequireTransferAuthorization(RECEIVE_WITH_AUTHORIZATION_TYPEHASH, c)
        /\ MarkAndEmit("AuthorizationUsed", c.args.From, caller, c)
        /\ UNCHANGED <<totalSupply, timestamp, signed>>
    BY <1>2 DEF ReceiveWithAuthorization, ReceiveAccepted
  <2>2. RECEIVE_WITH_AUTHORIZATION_TYPEHASH = TypeHash(c.args.Kind)
    BY <2>1 DEF TypeHash, RECEIVE_WITH_AUTHORIZATION_TYPEHASH
  <2>3. /\ c.args \in TransferArguments
        /\ c.rs \in signed /\ c.rs.signer = c.args.From
        /\ c.rs.digest = TypedDataHash(TokenDomain, c.args)
    BY <2>1, <2>2, TransferSigned
  <2>4. Consumes("AuthorizationUsed", c.args.From, caller, c)
    BY <2>1, <2>3 DEF Consumes, RequireTransferAuthorization, SignerAddress, TransferArguments
  <2> QED
    BY <2>4
<1>3. CASE CancelAuthorizationCall(caller, c)
  <2>1. /\ c.args.Kind = CancelAuthorization
        /\ RequireUnusedAuthorization(c.args.Authorizer, c.args.Nonce)
        /\ RequireValidSignature(c.args.Authorizer, CancelStructHash(c.args), c)
        /\ MarkAndEmit("AuthorizationCanceled", c.args.Authorizer, caller, c)
        /\ UNCHANGED <<totalSupply, timestamp, signed>>
    BY <1>3 DEF CancelAuthorizationCall, CancelAccepted
  <2>2. /\ c.args \in CancelArguments
        /\ c.rs \in signed /\ c.rs.signer = c.args.Authorizer
        /\ c.rs.digest = TypedDataHash(TokenDomain, c.args)
    BY <2>1, CancelSigned
  <2>3. Consumes("AuthorizationCanceled", c.args.Authorizer, caller, c)
    BY <2>1, <2>2 DEF Consumes, SignerAddress, CancelArguments
  <2> QED
    BY <2>3
<1> QED
  BY <1>1, <1>2, <1>3 DEF AuthorizationCall

-----------------------------------------------------------------------------
(* The invariant holds initially and every step preserves it.                  *)
LEMMA TokenInvInit == TokenInit => TokenInv
<1> SUFFICES ASSUME TokenInit PROVE TokenInv
  OBVIOUS
<1>1. log = <<>> /\ Entries = {} /\ signed = {}
  BY DEF TokenInit, Entries
<1>2. TypeOK
  BY <1>1, WidthAssumption, TokenAssumption DEF TypeOK, TokenInit
<1>3. ConsumedIffLogged
  BY <1>1 DEF ConsumedIffLogged, TokenInit
<1> QED
  BY <1>1, <1>2, <1>3 DEF TokenInv, SignedByHolders, SlotConsumedOnce, EffectBacked, PayeeCalled

\* An ERC-20 movement keeps every balance within a uint256.
LEMMA TransferTyped ==
  ASSUME balances \in [Addresses -> 0 .. UINT256 - 1],
         NEW from \in Addresses, NEW to \in Addresses, NEW value \in 0 .. UINT256 - 1,
         Transferable(from, to, value), Transfer(from, to, value)
  PROVE  balances' \in [Addresses -> 0 .. UINT256 - 1]
<1>1. balances[from] - value \in 0 .. UINT256 - 1
  BY WidthAssumption DEF Transferable
<1> DEFINE debited == [balances EXCEPT ![from] = @ - value]
<1>2. debited \in [Addresses -> 0 .. UINT256 - 1]
  BY <1>1
<1>3. (debited[to] + value) % UINT256 \in 0 .. UINT256 - 1
  BY <1>2, WidthAssumption
<1>4. balances' = [debited EXCEPT ![to] = (debited[to] + value) % UINT256]
  BY DEF Transfer
<1> HIDE DEF debited
<1> QED
  BY <1>2, <1>3, <1>4

\* Recorded calls stay well typed when signatures are added.
LEMMA LogTyped ==
  ASSUME log \in Seq(LogEntries), signed \subseteq signed', UNCHANGED log
  PROVE  log' \in Seq(LogEntries')
<1>1. Signatures \subseteq Signatures'
  BY DEF Signatures
<1>2. LogEntries \subseteq LogEntries'
  BY <1>1 DEF LogEntries
<1> QED
  BY <1>2

(* Consuming a slot respects the types.                                        *)
LEMMA ConsumesTyped ==
  ASSUME TokenInv, NEW caller \in Accounts, NEW c \in Calls, NEW event, NEW authorizer,
         Consumes(event, authorizer, caller, c)
  PROVE  /\ totalSupply' \in 0 .. UINT256 - 1 /\ timestamp' \in 0 .. MaxTime
         /\ authorizationState' \in [Addresses -> [Nonces -> BOOLEAN]]
         /\ log' \in Seq(LogEntries')
<1>1. authorizationState' \in [Addresses -> [Nonces -> BOOLEAN]]
  BY DEF Consumes, MarkAndEmit, TokenInv, TypeOK
<1> DEFINE entry == [event |-> event, authorizer |-> authorizer, nonce |-> c.args.Nonce,
                     caller |-> caller, timestamp |-> timestamp, call |-> c]
<1>2. timestamp \in Nat
  BY TokenAssumption DEF TokenInv, TypeOK
<1>3. entry \in LogEntries
  BY <1>2 DEF Consumes, LogEntries, Calls
<1>4. LogEntries' = LogEntries
  BY DEF Consumes, LogEntries, Signatures
<1>5. log' = Append(log, entry)
  BY DEF Consumes, MarkAndEmit
<1>6. log \in Seq(LogEntries)
  BY DEF TokenInv, TypeOK
<1> HIDE DEF entry
<1>7. log' \in Seq(LogEntries')
  BY <1>3, <1>4, <1>5, <1>6
<1> QED
  BY <1>1, <1>7 DEF Consumes, TokenInv, TypeOK

(* Every step respects the types.                                              *)
LEMMA TypeOKStep == TokenInv /\ [TokenNext]_tokenVars => TypeOK'
<1> SUFFICES ASSUME TokenInv, [TokenNext]_tokenVars PROVE TypeOK'
  OBVIOUS
<1> USE DEF TypeOK
<1>1. ASSUME NEW caller \in Accounts, NEW c \in Calls, AuthorizationCall(caller, c)
      PROVE  TypeOK'
  <2>1. PICK event, authorizer : Consumes(event, authorizer, caller, c)
    BY <1>1, CallConsumes
  <2>2. balances' \in [Addresses -> 0 .. UINT256 - 1]
    <3>0. balances \in [Addresses -> 0 .. UINT256 - 1] /\ c.args \in Arguments
      BY SubmittedAssumption DEF TokenInv, Calls
    <3>1. ASSUME TransferWithAuthorization(caller, c) \/ ReceiveWithAuthorization(caller, c)
          PROVE  balances' \in [Addresses -> 0 .. UINT256 - 1]
      <4>1. c.args.Kind \in TransferKinds
        BY <3>1 DEF TransferWithAuthorization, ReceiveWithAuthorization, TransferAccepted,
                    ReceiveAccepted, TransferKinds
      <4>2. c.args \in TransferArguments
        BY <3>0, <4>1 DEF Arguments, CancelArguments, TransferKinds, TransferAuthorization,
                          ReceiveAuthorization, CancelAuthorization
      <4>3. c.args.From \in Addresses /\ c.args.To \in Addresses /\ c.args.Value \in 0 .. UINT256 - 1
        BY <4>2 DEF TransferArguments
      <4>4. /\ Transferable(c.args.From, c.args.To, c.args.Value)
            /\ Transfer(c.args.From, c.args.To, c.args.Value)
        BY <3>1 DEF TransferWithAuthorization, ReceiveWithAuthorization, TransferAccepted,
                    ReceiveAccepted
      <4> QED
        BY <3>0, <4>3, <4>4, TransferTyped
    <3>2. ASSUME CancelAuthorizationCall(caller, c)
          PROVE  balances' \in [Addresses -> 0 .. UINT256 - 1]
      BY <3>0, <3>2 DEF CancelAuthorizationCall
    <3> QED
      BY <1>1, <3>1, <3>2 DEF AuthorizationCall
  <2> QED
    BY <2>1, <2>2, <1>1, ConsumesTyped
<1>2. ASSUME NEW caller \in Accounts, NEW to \in Accounts, NEW value \in Amounts,
             Mint(caller, to, value)
      PROVE  TypeOK'
  <2>1. value \in 0 .. UINT256 - 1 /\ to \in Addresses /\ UINT256 \in Nat
    BY TokenAssumption, WidthAssumption DEF Addresses
  <2>2. /\ totalSupply \in 0 .. UINT256 - 1
        /\ totalSupply' = totalSupply + value /\ totalSupply + value < UINT256
    BY <1>2 DEF Mint, TokenInv
  <2>3. totalSupply' \in 0 .. UINT256 - 1
    BY <2>1, <2>2
  <2>4. balances \in [Addresses -> 0 .. UINT256 - 1]
    BY DEF TokenInv
  <2>5. (balances[to] + value) % UINT256 \in 0 .. UINT256 - 1
    BY <2>1, <2>4, WidthAssumption
  <2>6. balances' \in [Addresses -> 0 .. UINT256 - 1]
    BY <1>2, <2>4, <2>5 DEF Mint
  <2>7. log' \in Seq(LogEntries')
    BY <1>2, LogTyped DEF Mint, TokenInv
  <2> QED
    BY <1>2, <2>3, <2>6, <2>7 DEF Mint, TokenInv
<1>3. ASSUME NEW caller \in Accounts, NEW to \in Accounts, NEW value \in Amounts,
             PlainTransfer(caller, to, value)
      PROVE  TypeOK'
  <2>1. value \in 0 .. UINT256 - 1 /\ to \in Addresses /\ caller \in Addresses
    BY TokenAssumption DEF Addresses
  <2>2. balances' \in [Addresses -> 0 .. UINT256 - 1]
    BY <1>3, <2>1, TransferTyped DEF PlainTransfer, TokenInv
  <2>3. log' \in Seq(LogEntries')
    BY <1>3, LogTyped DEF PlainTransfer, TokenInv
  <2> QED
    BY <1>3, <2>2, <2>3 DEF PlainTransfer, TokenInv
<1>4. ASSUME NEW s \in Signable, Sign(s)
      PROVE  TypeOK'
  <2>1. signed \subseteq signed'
    BY <1>4 DEF Sign
  <2>2. log' \in Seq(LogEntries')
    BY <1>4, <2>1, LogTyped DEF Sign, TokenInv
  <2> QED
    BY <1>4, <2>2 DEF Sign, TokenInv
<1>5. ASSUME Tick
      PROVE  TypeOK'
  <2>1. log' \in Seq(LogEntries')
    BY <1>5, LogTyped DEF Tick, TokenInv
  <2>2. timestamp' \in 0 .. MaxTime
    BY <1>5, TokenAssumption DEF Tick, TokenInv
  <2> QED
    BY <1>5, <2>1, <2>2 DEF Tick, TokenInv
<1>6. ASSUME UNCHANGED tokenVars
      PROVE  TypeOK'
  <2>1. log' \in Seq(LogEntries')
    BY <1>6, LogTyped DEF tokenVars, TokenInv
  <2> QED
    BY <1>6, <2>1 DEF tokenVars, TokenInv
<1> QED
  BY <1>1, <1>2, <1>3, <1>4, <1>5, <1>6 DEF TokenNext

(* The only steps that touch the slots, the log or the signatures are the      *)
(* authorization calls and the signing of something.                           *)
LEMMA StepCases ==
  ASSUME TokenInv, [TokenNext]_tokenVars
  PROVE  \/ \E caller \in Accounts, c \in Calls : \E event, authorizer :
              Consumes(event, authorizer, caller, c)
         \/ \E s \in Signable :
              /\ signed' = signed \cup {RawSignature(s.Key, TypedDataHash(s.Domain, s.Authorization))}
              /\ UNCHANGED <<log, authorizationState>>
         \/ UNCHANGED <<log, authorizationState, signed>>
<1>1. ASSUME NEW caller \in Accounts, NEW c \in Calls, AuthorizationCall(caller, c)
      PROVE  \E event, authorizer : Consumes(event, authorizer, caller, c)
  BY <1>1, CallConsumes
<1>2. ASSUME NEW s \in Signable, Sign(s)
      PROVE  /\ signed' = signed \cup {RawSignature(s.Key, TypedDataHash(s.Domain, s.Authorization))}
             /\ UNCHANGED <<log, authorizationState>>
  <2>1. PICK m \in SignAuthorization(s.Domain, s.Authorization, s.Key) :
          signed' = signed \cup {m.Signature.RS}
    BY <1>2 DEF Sign
  <2>2. m.Signature.RS = RawSignature(s.Key, TypedDataHash(s.Domain, s.Authorization))
    BY <2>1 DEF SignAuthorization
  <2> QED
    BY <1>2, <2>1, <2>2 DEF Sign
<1>3. ASSUME \/ \E caller \in Accounts, to \in Accounts, value \in Amounts :
                  Mint(caller, to, value) \/ PlainTransfer(caller, to, value)
             \/ Tick
             \/ UNCHANGED tokenVars
      PROVE  UNCHANGED <<log, authorizationState, signed>>
  BY <1>3 DEF Mint, PlainTransfer, Tick, tokenVars
<1> QED
  BY <1>1, <1>2, <1>3 DEF TokenNext

(* What a call appends to the log.                                             *)
LEMMA Appended ==
  ASSUME TokenInv, NEW caller \in Accounts, NEW c \in Calls, NEW event, NEW authorizer,
         Consumes(event, authorizer, caller, c)
  PROVE  /\ Len(log) \in Nat /\ Entries' = Entries \cup {Len(log) + 1}
         /\ \A i \in Entries : log'[i] = log[i]
         /\ log'[Len(log) + 1].event = event
         /\ log'[Len(log) + 1].authorizer = authorizer
         /\ log'[Len(log) + 1].nonce = c.args.Nonce
         /\ log'[Len(log) + 1].caller = caller
         /\ log'[Len(log) + 1].timestamp = timestamp
         /\ log'[Len(log) + 1].call = c
<1> DEFINE entry == [event |-> event, authorizer |-> authorizer, nonce |-> c.args.Nonce,
                     caller |-> caller, timestamp |-> timestamp, call |-> c]
<1>1. log \in Seq(LogEntries)
  BY DEF TokenInv, TypeOK
<1>2. log' = Append(log, entry)
  BY DEF Consumes, MarkAndEmit
<1> HIDE DEF entry
<1>3. Len(log) \in Nat /\ Len(log') = Len(log) + 1 /\ log'[Len(log) + 1] = entry
  BY <1>1, <1>2
<1>4. \A i \in 1 .. Len(log) : log'[i] = log[i]
  BY <1>1, <1>2
<1>5. Entries' = Entries \cup {Len(log) + 1}
  BY <1>3 DEF Entries
<1> QED
  BY <1>3, <1>4, <1>5 DEF Entries, entry

(* New signatures come from key holders.                                       *)
LEMMA SignedByHoldersStep == TokenInv /\ [TokenNext]_tokenVars => SignedByHolders'
<1> SUFFICES ASSUME TokenInv, [TokenNext]_tokenVars PROVE SignedByHolders'
  OBVIOUS
<1>1. SignedByHolders
  BY DEF TokenInv
<1>2. \/ signed' = signed
      \/ \E s \in Signable :
           signed' = signed \cup {RawSignature(s.Key, TypedDataHash(s.Domain, s.Authorization))}
  BY StepCases DEF Consumes
<1> QED
  BY <1>1, <1>2 DEF SignedByHolders

(* Slots and log change together.                                              *)
LEMMA ConsumedIffLoggedStep == TokenInv /\ [TokenNext]_tokenVars => ConsumedIffLogged'
<1> SUFFICES ASSUME TokenInv, [TokenNext]_tokenVars PROVE ConsumedIffLogged'
  OBVIOUS
<1>0. ConsumedIffLogged /\ authorizationState \in [Addresses -> [Nonces -> BOOLEAN]]
  BY DEF TokenInv, TypeOK
<1>1. ASSUME NEW caller \in Accounts, NEW c \in Calls, NEW event, NEW authorizer,
             Consumes(event, authorizer, caller, c)
      PROVE  ConsumedIffLogged'
  <2>1. authorizer \in Addresses /\ c.args.Nonce \in Nonces
    BY <1>1 DEF Consumes
  <2>2. authorizationState' = [authorizationState EXCEPT ![authorizer][c.args.Nonce] = TRUE]
    BY <1>1 DEF Consumes, MarkAndEmit
  <2> SUFFICES ASSUME NEW a \in Addresses, NEW n \in Nonces
               PROVE  authorizationState'[a][n] <=>
                        \E i \in Entries' : log'[i].authorizer = a /\ log'[i].nonce = n
    BY DEF ConsumedIffLogged
  <2>3. authorizationState'[a][n] <=>
          authorizationState[a][n] \/ (a = authorizer /\ n = c.args.Nonce)
    BY <1>0, <2>1, <2>2
  <2>4. (\E i \in Entries' : log'[i].authorizer = a /\ log'[i].nonce = n) <=>
          \/ \E i \in Entries : log[i].authorizer = a /\ log[i].nonce = n
          \/ a = authorizer /\ n = c.args.Nonce
    BY <1>1, Appended
  <2> QED
    BY <1>0, <2>3, <2>4 DEF ConsumedIffLogged
<1>2. ASSUME UNCHANGED <<log, authorizationState>>
      PROVE  ConsumedIffLogged'
  BY <1>0, <1>2 DEF ConsumedIffLogged, Entries
<1> QED
  BY <1>1, <1>2, StepCases

(* A slot that is consumed was in no entry of the log before.                  *)
LEMMA SlotConsumedOnceStep == TokenInv /\ [TokenNext]_tokenVars => SlotConsumedOnce'
<1> SUFFICES ASSUME TokenInv, [TokenNext]_tokenVars PROVE SlotConsumedOnce'
  OBVIOUS
<1>0. ConsumedIffLogged /\ SlotConsumedOnce
  BY DEF TokenInv
<1>1. ASSUME NEW caller \in Accounts, NEW c \in Calls, NEW event, NEW authorizer,
             Consumes(event, authorizer, caller, c)
      PROVE  SlotConsumedOnce'
  \* the new entry's slot was open, so no earlier entry is about it
  <2>1. \A i \in Entries : ~(log[i].authorizer = authorizer /\ log[i].nonce = c.args.Nonce)
    BY <1>0, <1>1 DEF Consumes, RequireUnusedAuthorization, ConsumedIffLogged
  <2>2. /\ Entries' = Entries \cup {Len(log) + 1}
        /\ \A i \in Entries : log'[i] = log[i]
        /\ log'[Len(log) + 1].authorizer = authorizer
        /\ log'[Len(log) + 1].nonce = c.args.Nonce
    BY <1>1, Appended
  <2> QED
    BY <1>0, <2>1, <2>2 DEF SlotConsumedOnce
<1>2. ASSUME UNCHANGED log
      PROVE  SlotConsumedOnce'
  BY <1>0, <1>2 DEF SlotConsumedOnce, Entries
<1> QED
  BY <1>1, <1>2, StepCases

(* A new entry is backed by a signature, and old ones stay backed.             *)
LEMMA EffectBackedStep == TokenInv /\ [TokenNext]_tokenVars => EffectBacked'
<1> SUFFICES ASSUME TokenInv, [TokenNext]_tokenVars PROVE EffectBacked'
  OBVIOUS
<1>0. EffectBacked
  BY DEF TokenInv
<1> DEFINE Backed(entry, signatures) ==
      /\ entry.authorizer = SignerAddress(entry.call.args)
      /\ entry.nonce = entry.call.args.Nonce
      /\ \E rs \in signatures :
           rs.signer = entry.authorizer /\ rs.digest = TypedDataHash(TokenDomain, entry.call.args)
      /\ entry.call.args.Kind \in TransferKinds =>
           /\ entry.event = "AuthorizationUsed"
           /\ entry.timestamp > entry.call.args.ValidAfter
           /\ entry.timestamp < entry.call.args.ValidBefore
      /\ entry.call.args.Kind = CancelAuthorization => entry.event = "AuthorizationCanceled"
<1>1. \A i \in Entries : Backed(log[i], signed)
  BY <1>0 DEF EffectBacked
<1>2. ASSUME NEW caller \in Accounts, NEW c \in Calls, NEW event, NEW authorizer,
             Consumes(event, authorizer, caller, c)
      PROVE  \A i \in Entries' : Backed(log'[i], signed')
  <2>1. /\ Entries' = Entries \cup {Len(log) + 1}
        /\ \A i \in Entries : log'[i] = log[i]
        /\ log'[Len(log) + 1].event = event
        /\ log'[Len(log) + 1].authorizer = authorizer
        /\ log'[Len(log) + 1].nonce = c.args.Nonce
        /\ log'[Len(log) + 1].timestamp = timestamp
        /\ log'[Len(log) + 1].call = c
    BY <1>2, Appended
  <2>2. signed' = signed
    BY <1>2 DEF Consumes
  <2>3. Backed(log'[Len(log) + 1], signed')
    BY <1>2, <2>1, <2>2 DEF Consumes, RequireValidTime
  <2> HIDE DEF Backed
  <2> QED
    BY <1>1, <2>1, <2>2, <2>3
<1>3. ASSUME UNCHANGED log, signed \subseteq signed'
      PROVE  \A i \in Entries' : Backed(log'[i], signed')
  BY <1>1, <1>3 DEF Entries
<1>4. \A i \in Entries' : Backed(log'[i], signed')
  <2> HIDE DEF Backed
  <2> QED
    BY <1>2, <1>3, StepCases
<1> QED
  BY <1>4 DEF EffectBacked

(* A new entry of a receive has the payee as its caller.                       *)
LEMMA PayeeCalledStep == TokenInv /\ [TokenNext]_tokenVars => PayeeCalled'
<1> SUFFICES ASSUME TokenInv, [TokenNext]_tokenVars PROVE PayeeCalled'
  OBVIOUS
<1>0. PayeeCalled
  BY DEF TokenInv
<1>1. ASSUME NEW caller \in Accounts, NEW c \in Calls, NEW event, NEW authorizer,
             Consumes(event, authorizer, caller, c)
      PROVE  PayeeCalled'
  <2>1. /\ Entries' = Entries \cup {Len(log) + 1}
        /\ \A i \in Entries : log'[i] = log[i]
        /\ log'[Len(log) + 1].caller = caller
        /\ log'[Len(log) + 1].call = c
    BY <1>1, Appended
  <2>2. c.args.Kind = ReceiveAuthorization => caller = c.args.To
    BY <1>1 DEF Consumes
  <2> QED
    BY <1>0, <2>1, <2>2 DEF PayeeCalled
<1>2. ASSUME UNCHANGED log
      PROVE  PayeeCalled'
  BY <1>0, <1>2 DEF PayeeCalled, Entries
<1> QED
  BY <1>1, <1>2, StepCases

(* The inductive invariant holds in every reachable state.                     *)
THEOREM TokenInvariant == TokenSpec => []TokenInv
<1>1. TokenInit => TokenInv
  BY TokenInvInit
<1>2. TokenInv /\ [TokenNext]_tokenVars => TokenInv'
  BY TypeOKStep, SignedByHoldersStep, ConsumedIffLoggedStep, SlotConsumedOnceStep,
     EffectBackedStep, PayeeCalledStep
  DEF TokenInv
<1> QED
  BY <1>1, <1>2, PTL DEF TokenSpec

-----------------------------------------------------------------------------
(* Every balance stays within a uint256, every record within its type.         *)
THEOREM TypeCorrectness == TokenSpec => []TypeOK
<1>1. TokenInv => TypeOK
  BY DEF TokenInv
<1> QED
  BY <1>1, TokenInvariant, PTL

(* No nonce of an account is consumed twice, whatever is submitted.            *)
THEOREM SlotsConsumedOnce == TokenSpec => []SlotConsumedOnce
<1>1. TokenInv => SlotConsumedOnce
  BY DEF TokenInv
<1> QED
  BY <1>1, TokenInvariant, PTL

(* authorizationState mirrors the events.                                      *)
THEOREM StateMirrorsLog == TokenSpec => []ConsumedIffLogged
<1>1. TokenInv => ConsumedIffLogged
  BY DEF TokenInv
<1> QED
  BY <1>1, TokenInvariant, PTL

(* Whatever consumed a nonce was signed by its authorizer, word for word.      *)
THEOREM EffectsBacked == TokenSpec => []EffectBacked
<1>1. TokenInv => EffectBacked
  BY DEF TokenInv
<1> QED
  BY <1>1, TokenInvariant, PTL

(* A receive authorization is of use to nobody but its payee.                  *)
THEOREM ReceivesNeedPayee == TokenSpec => []ReceiveNeedsPayee
<1>1. TokenInv => ReceiveNeedsPayee
  <2> SUFFICES ASSUME TokenInv, NEW i \in Entries,
                      log[i].event = "AuthorizationUsed",
                      \A rs \in signed :
                        rs.signer = log[i].authorizer
                          /\ rs.digest.structHash[1] # TypeHash(CancelAuthorization)
                          /\ rs.digest.structHash[7] = log[i].nonce
                        => rs.digest.structHash[1] = TypeHash(ReceiveAuthorization)
               PROVE  log[i].caller = log[i].call.args.To
    BY DEF ReceiveNeedsPayee
  <2> DEFINE args == log[i].call.args
  <2>1. PICK rs \in signed :
          rs.signer = log[i].authorizer /\ rs.digest = TypedDataHash(TokenDomain, args)
    BY DEF TokenInv, EffectBacked
  <2>2. args \in Arguments
    <3>1. log[i] \in LogEntries
      BY DEF TokenInv, TypeOK, Entries
    <3> QED
      BY <3>1, SubmittedAssumption DEF LogEntries
  <2>3. args.Kind # CancelAuthorization
    BY DEF TokenInv, EffectBacked
  <2>4. args.Kind \in TransferKinds
    BY <2>2, <2>3 DEF Arguments, TransferArguments, CancelArguments
  <2>5. rs.digest.structHash = TransferStructHash(TypeHash(args.Kind), args)
    BY <2>1, <2>2, <2>4, PackedArguments DEF TypedDataHash
  <2>6. args.Nonce = log[i].nonce
    BY DEF TokenInv, EffectBacked
  <2>7. rs.digest.structHash[1] = TypeHash(args.Kind) /\ rs.digest.structHash[7] = log[i].nonce
    BY <2>5, <2>6 DEF TransferStructHash
  <2>8. /\ TypeHash(TransferAuthorization) # TypeHash(CancelAuthorization)
        /\ TypeHash(ReceiveAuthorization) # TypeHash(CancelAuthorization)
        /\ TypeHash(TransferAuthorization) # TypeHash(ReceiveAuthorization)
    BY DEF TypeHash, TransferAuthorization, ReceiveAuthorization, CancelAuthorization
  <2>9. args.Kind = ReceiveAuthorization
    BY <2>1, <2>4, <2>7, <2>8 DEF TransferKinds
  <2> QED
    BY <2>9 DEF TokenInv, PayeeCalled
<1> QED
  BY <1>1, TokenInvariant, PTL

-----------------------------------------------------------------------------
(* The refinement of AuthorizationLedger. *)

\* The slot a call consumes goes from open to consumed, and no other changes.
LEMMA SlotStep ==
  ASSUME TokenInv, NEW caller \in Accounts, NEW c \in Calls, NEW event, NEW authorizer,
         Consumes(event, authorizer, caller, c)
  PROVE  /\ slotView[authorizer][c.args.Nonce] = "open"
         /\ slotView' =
              [slotView EXCEPT ![authorizer][c.args.Nonce] =
                 IF event = "AuthorizationUsed" THEN "used" ELSE "canceled"]
<1>0. /\ authorizer \in Addresses /\ c.args.Nonce \in Nonces
      /\ event \in {"AuthorizationUsed", "AuthorizationCanceled"}
  BY DEF Consumes
<1>1. \A i \in Entries : ~(log[i].authorizer = authorizer /\ log[i].nonce = c.args.Nonce)
  BY DEF Consumes, RequireUnusedAuthorization, ConsumedIffLogged, TokenInv
<1>2. /\ Entries' = Entries \cup {Len(log) + 1}
      /\ \A i \in Entries : log'[i] = log[i]
      /\ log'[Len(log) + 1].event = event
      /\ log'[Len(log) + 1].authorizer = authorizer
      /\ log'[Len(log) + 1].nonce = c.args.Nonce
  BY Appended
<1>3. \A e \in {"AuthorizationUsed", "AuthorizationCanceled"}, a \in Addresses, n \in Nonces :
        LoggedAs(e, a, n)' <=>
          LoggedAs(e, a, n) \/ (e = event /\ a = authorizer /\ n = c.args.Nonce)
  BY <1>2 DEF LoggedAs
<1>4. \A e \in {"AuthorizationUsed", "AuthorizationCanceled"} :
        ~LoggedAs(e, authorizer, c.args.Nonce)
  BY <1>1 DEF LoggedAs
<1>5. slotView[authorizer][c.args.Nonce] = "open"
  BY <1>0, <1>4 DEF slotView
<1>6. \A a \in Addresses, n \in Nonces :
        slotView'[a][n] =
          IF a = authorizer /\ n = c.args.Nonce
          THEN IF event = "AuthorizationUsed" THEN "used" ELSE "canceled"
          ELSE slotView[a][n]
  BY <1>0, <1>3, <1>4 DEF slotView
<1>7. /\ slotView \in [Addresses -> [Nonces -> {"used", "canceled", "open"}]]
      /\ slotView' \in [Addresses -> [Nonces -> {"used", "canceled", "open"}]]
  BY DEF slotView
<1> DEFINE after == [slotView EXCEPT ![authorizer][c.args.Nonce] =
                       IF event = "AuthorizationUsed" THEN "used" ELSE "canceled"]
<1>8. /\ after \in [Addresses -> [Nonces -> {"used", "canceled", "open"}]]
      /\ \A a \in Addresses, n \in Nonces : after[a][n] = slotView'[a][n]
  BY <1>0, <1>6, <1>7
<1> HIDE DEF after
<1>9. \A a \in Addresses : after[a] = slotView'[a]
  BY <1>7, <1>8
<1>10. after = slotView'
  BY <1>7, <1>8, <1>9
<1> QED
  BY <1>5, <1>10 DEF after

\* Whoever signed for this contract has consented to what was signed.
LEMMA SignerConsents ==
  ASSUME TokenInv, NEW caller \in Accounts, NEW c \in Calls, NEW event, NEW authorizer,
         Consumes(event, authorizer, caller, c)
  PROVE  <<authorizer, AuthorizationStructHash(c.args)>> \in consentView
<1>1. /\ c.rs \in signed /\ c.rs.signer = authorizer
      /\ c.rs.digest.domainSeparator = DomainSeparator(TokenDomain)
      /\ c.rs.digest.structHash = AuthorizationStructHash(c.args)
  BY DEF Consumes, TypedDataHash
<1> QED
  BY <1>1 DEF consentView

(* A call of the contract is a use or a cancellation in the ledger.            *)
LEMMA CallIsLedgerStep ==
  ASSUME TokenInv, NEW caller \in Accounts, NEW c \in Calls, AuthorizationCall(caller, c)
  PROVE  Ledger!LedgerNext
<1>0. PICK event, authorizer : Consumes(event, authorizer, caller, c)
  BY CallConsumes
<1>1. c.args \in Arguments
  BY SubmittedAssumption DEF Calls
<1>2. /\ slotView[authorizer][c.args.Nonce] = "open"
      /\ slotView' = [slotView EXCEPT ![authorizer][c.args.Nonce] =
                        IF event = "AuthorizationUsed" THEN "used" ELSE "canceled"]
  BY <1>0, SlotStep
<1>3. <<authorizer, AuthorizationStructHash(c.args)>> \in consentView
  BY <1>0, SignerConsents
<1>4. UNCHANGED consentView
  BY <1>0 DEF Consumes, consentView
<1>5. CASE TransferWithAuthorization(caller, c) \/ ReceiveWithAuthorization(caller, c)
  <2>1. /\ c.args.Kind \in TransferKinds
        /\ c.args.Value <= balances[c.args.From]
        /\ Transfer(c.args.From, c.args.To, c.args.Value)
    BY <1>5 DEF TransferWithAuthorization, ReceiveWithAuthorization, TransferAccepted,
                ReceiveAccepted, TransferKinds, Transferable
  <2>2. event = "AuthorizationUsed" /\ authorizer = c.args.From
    BY <1>0, <2>1 DEF Consumes, SignerAddress
  <2> DEFINE terms == AuthorizationStructHash(c.args)
  <2>3. terms = TransferStructHash(TypeHash(c.args.Kind), c.args)
    BY <1>1, <2>1, PackedArguments
  <2>4. TypeHash(c.args.Kind) \in {"TransferWithAuthorization", "ReceiveWithAuthorization"}
    <3>1. ASSUME c.args.Kind = TransferAuthorization
          PROVE  TypeHash(c.args.Kind) = "TransferWithAuthorization"
      BY <3>1 DEF TypeHash, TransferAuthorization, ReceiveAuthorization, CancelAuthorization
    <3>2. ASSUME c.args.Kind = ReceiveAuthorization
          PROVE  TypeHash(c.args.Kind) = "ReceiveWithAuthorization"
      BY <3>2 DEF TypeHash, TransferAuthorization, ReceiveAuthorization, CancelAuthorization
    <3> QED
      BY <2>1, <3>1, <3>2 DEF TransferKinds
  <2>5. /\ terms[1] \in {"TransferWithAuthorization", "ReceiveWithAuthorization"}
        /\ terms[2] = c.args.From /\ terms[3] = c.args.To /\ terms[4] = c.args.Value
        /\ terms[7] = c.args.Nonce
    BY <2>3, <2>4 DEF TransferStructHash
  <2>6. balances' = Ledger!Moved(c.args.From, c.args.To, c.args.Value)
    BY <2>1 DEF Transfer, Ledger!Moved
  <2> HIDE DEF terms
  <2>7. Ledger!Use(authorizer, terms)
    BY <1>2, <1>4, <2>1, <2>2, <2>5, <2>6 DEF Ledger!Use
  <2>8. <<authorizer, terms>> \in consentView
    BY <1>3 DEF terms
  <2> QED
    BY <2>7, <2>8 DEF Ledger!LedgerNext
<1>6. CASE CancelAuthorizationCall(caller, c)
  <2>1. c.args.Kind = CancelAuthorization /\ UNCHANGED balances
    BY <1>6 DEF CancelAuthorizationCall, CancelAccepted
  <2>2. event = "AuthorizationCanceled" /\ authorizer = c.args.Authorizer
    BY <1>0, <2>1 DEF Consumes, SignerAddress, TransferKinds, TransferAuthorization,
                      ReceiveAuthorization, CancelAuthorization
  <2> DEFINE terms == AuthorizationStructHash(c.args)
  <2>3. terms = CancelStructHash(c.args)
    BY <1>1, <2>1, PackedArguments
  <2>4. /\ terms[1] = "CancelAuthorization" /\ terms[2] = c.args.Authorizer
        /\ terms[3] = c.args.Nonce
    BY <2>3 DEF CancelStructHash, CANCEL_AUTHORIZATION_TYPEHASH
  <2> HIDE DEF terms
  <2>5. Ledger!Cancel(authorizer, terms)
    BY <1>2, <1>4, <2>1, <2>2, <2>4 DEF Ledger!Cancel
  <2>6. <<authorizer, terms>> \in consentView
    BY <1>3 DEF terms
  <2> QED
    BY <2>5, <2>6 DEF Ledger!LedgerNext
<1> QED
  BY <1>5, <1>6 DEF AuthorizationCall

(* Every step of the token is a step of the ledger or leaves it alone.         *)
LEMMA StepIsLedgerStep ==
  ASSUME TokenInv, [TokenNext]_tokenVars
  PROVE  [Ledger!LedgerNext]_(Ledger!ledgerVars)
<1>1. ASSUME NEW caller \in Accounts, NEW c \in Calls, AuthorizationCall(caller, c)
      PROVE  Ledger!LedgerNext
  BY <1>1, CallIsLedgerStep
<1>2. ASSUME NEW caller \in Accounts, NEW to \in Accounts, NEW value \in Amounts,
             Mint(caller, to, value)
      PROVE  Ledger!LedgerNext
  <2>1. UNCHANGED <<slotView, consentView>>
    BY <1>2 DEF Mint, slotView, consentView, LoggedAs, Entries
  <2>2. Ledger!Mint(to, value)
    BY <1>2, <2>1 DEF Mint, Ledger!Mint
  <2> QED
    BY <2>2, TokenAssumption DEF Ledger!LedgerNext
<1>3. ASSUME NEW caller \in Accounts, NEW to \in Accounts, NEW value \in Amounts,
             PlainTransfer(caller, to, value)
      PROVE  Ledger!LedgerNext
  <2>1. UNCHANGED <<slotView, consentView>>
    BY <1>3 DEF PlainTransfer, slotView, consentView, LoggedAs, Entries
  <2>2. Ledger!Pay(caller, to, value)
    BY <1>3, <2>1 DEF PlainTransfer, Transferable, Transfer, Ledger!Pay, Ledger!Moved
  <2> QED
    BY <2>2, TokenAssumption DEF Ledger!LedgerNext
<1>4. ASSUME NEW s \in Signable, Sign(s)
      PROVE  Ledger!LedgerNext
  <2>1. UNCHANGED <<slotView, balances>>
    BY <1>4 DEF Sign, slotView, LoggedAs, Entries
  <2>2. consentView \subseteq consentView'
    BY <1>4 DEF Sign, consentView
  <2> QED
    BY <2>1, <2>2 DEF Ledger!Consent, Ledger!LedgerNext
<1>5. ASSUME Tick \/ UNCHANGED tokenVars
      PROVE  UNCHANGED Ledger!ledgerVars
  <2>1. UNCHANGED <<balances, log, signed>>
    BY <1>5 DEF Tick, tokenVars
  <2> QED
    BY <2>1 DEF Ledger!ledgerVars, slotView, consentView, LoggedAs, Entries
<1> QED
  BY <1>1, <1>2, <1>3, <1>4, <1>5 DEF TokenNext

(* The contract implements the abstract ledger: each call that succeeds is one *)
(* use or one cancellation of a slot on consented terms, and nothing else      *)
(* touches a slot.                                                             *)
THEOREM TokenImplementsLedger == TokenSpec => ImplementsLedger
<1>1. TokenInit => Ledger!LedgerInit
  <2> SUFFICES ASSUME TokenInit PROVE Ledger!LedgerInit
    OBVIOUS
  <2>1. Entries = {} /\ signed = {}
    BY DEF TokenInit, Entries
  <2> QED
    BY <2>1 DEF TokenInit, Ledger!LedgerInit, slotView, consentView, LoggedAs
<1>2. TokenInv /\ [TokenNext]_tokenVars => [Ledger!LedgerNext]_(Ledger!ledgerVars)
  BY StepIsLedgerStep
<1> QED
  BY <1>1, <1>2, TokenInvariant, PTL DEF TokenSpec, ImplementsLedger, Ledger!LedgerSpec

-----------------------------------------------------------------------------
(* The supply. *)

(* There are finitely many addresses, so the balances have a sum.              *)
LEMMA AddressesFinite == IsFiniteSet(Addresses)
BY AccountsAssumption, FS_AddElement DEF Addresses

(* The remainder of what fits is itself.                                       *)
LEMMA Fits ==
  ASSUME NEW n \in Nat, n < UINT256
  PROVE  n % UINT256 = n
BY WidthAssumption

\* The sum is within a uint256.
SupplyInv == TokenInv /\ SupplyConserved

(* An account can be credited with what the sum leaves room for.               *)
LEMMA CreditAdds ==
  ASSUME NEW b \in [Addresses -> Nat], NEW to \in Addresses, NEW value \in Nat,
         SumFunction(b) + value < UINT256
  PROVE  SumFunction([b EXCEPT ![to] = (@ + value) % UINT256]) = SumFunction(b) + value
<1>1. b[to] \in Nat /\ b[to] <= SumFunction(b) /\ SumFunction(b) \in Nat
  BY AddressesFinite, SumBounds
<1>2. (b[to] + value) % UINT256 = b[to] + value
  BY <1>1, Fits, WidthAssumption
<1>3. SumFunction([b EXCEPT ![to] = b[to] + value]) = SumFunction(b) - b[to] + (b[to] + value)
  BY <1>1, b[to] + value \in Nat, AddressesFinite, SumUpdate
<1>4. [b EXCEPT ![to] = (b[to] + value) % UINT256] = [b EXCEPT ![to] = b[to] + value]
  BY <1>2
<1>5. SumFunction([b EXCEPT ![to] = b[to] + value]) = SumFunction(b) + value
  BY <1>1, <1>3
<1> QED BY <1>4, <1>5

(* A movement within the balances keeps their sum, also from an account to     *)
(* itself.                                                                     *)
LEMMA TransferConserves ==
  ASSUME balances \in [Addresses -> 0 .. UINT256 - 1], SumFunction(balances) < UINT256,
         NEW from \in Addresses, NEW to \in Addresses, NEW value \in Nat,
         Transferable(from, to, value), Transfer(from, to, value)
  PROVE  SumFunction(balances') = SumFunction(balances)
<1> DEFINE debited == [balances EXCEPT ![from] = balances[from] - value]
<1>1. balances \in [Addresses -> Nat] /\ balances[from] - value \in Nat
  BY DEF Transferable
<1>2. debited \in [Addresses -> Nat]
  BY <1>1
<1>3. SumFunction(debited) = SumFunction(balances) - balances[from] + (balances[from] - value)
  BY <1>1, AddressesFinite, SumUpdate
<1>4. SumFunction(balances) \in Nat
  BY <1>1, AddressesFinite, SumBounds
<1>5. SumFunction(debited) + value = SumFunction(balances)
  BY <1>1, <1>3, <1>4
<1>6. balances' = [debited EXCEPT ![to] = (@ + value) % UINT256]
  BY DEF Transfer
<1> HIDE DEF debited
<1>7. SumFunction(debited) + value < UINT256
  BY <1>5
<1>8. SumFunction(balances') = SumFunction(debited) + value
  BY <1>2, <1>6, <1>7, CreditAdds
<1> QED BY <1>5, <1>8

(* Only payments, mints and plain transfers touch the balances.                *)
LEMMA SupplyStep == SupplyInv /\ [TokenNext]_tokenVars => SupplyConserved'
<1> SUFFICES ASSUME SupplyInv, [TokenNext]_tokenVars PROVE SupplyConserved'
  OBVIOUS
<1>0. /\ TokenInv /\ balances \in [Addresses -> 0 .. UINT256 - 1] /\ UINT256 \in Nat
      /\ totalSupply \in 0 .. UINT256 - 1 /\ SumFunction(balances) = totalSupply
  BY WidthAssumption DEF SupplyInv, TokenInv, TypeOK, SupplyConserved
<1>1. ASSUME NEW from \in Addresses, NEW to \in Addresses, NEW value \in Nat,
             Transferable(from, to, value), Transfer(from, to, value), UNCHANGED totalSupply
      PROVE  SupplyConserved'
  <2>1. SumFunction(balances) < UINT256
    BY <1>0
  <2>2. SumFunction(balances') = SumFunction(balances)
    BY <1>0, <1>1, <2>1, TransferConserves
  <2> QED BY <1>0, <1>1, <2>2 DEF SupplyConserved
<1>2. ASSUME NEW caller \in Accounts, NEW c \in Calls, AuthorizationCall(caller, c)
      PROVE  SupplyConserved'
  <2>1. CASE TransferWithAuthorization(caller, c) \/ ReceiveWithAuthorization(caller, c)
    <3>1. /\ c.args \in Submitted /\ c.args.Kind \in TransferKinds
          /\ Transferable(c.args.From, c.args.To, c.args.Value)
          /\ Transfer(c.args.From, c.args.To, c.args.Value) /\ UNCHANGED totalSupply
      BY <2>1 DEF TransferWithAuthorization, ReceiveWithAuthorization, TransferAccepted,
                  ReceiveAccepted, Calls, TransferKinds
    <3>2. c.args \in TransferArguments
      BY <3>1, SubmittedAssumption DEF Arguments, CancelArguments, TransferKinds, TransferAuthorization,
                                       ReceiveAuthorization, CancelAuthorization
    <3>3. c.args.From \in Addresses /\ c.args.To \in Addresses /\ c.args.Value \in Nat
      BY <1>0, <3>2 DEF TransferArguments
    <3> QED BY <1>1, <3>1, <3>3
  <2>2. CASE CancelAuthorizationCall(caller, c)
    BY <1>0, <2>2 DEF CancelAuthorizationCall, SupplyConserved
  <2> QED BY <1>2, <2>1, <2>2 DEF AuthorizationCall
<1>3. ASSUME NEW caller \in Accounts, NEW to \in Accounts, NEW value \in Amounts, Mint(caller, to, value)
      PROVE  SupplyConserved'
  <2>1. value \in Nat /\ to \in Addresses /\ balances \in [Addresses -> Nat]
    BY <1>0, TokenAssumption DEF Addresses
  <2>2. /\ SumFunction(balances) + value < UINT256 /\ totalSupply' = totalSupply + value
        /\ balances' = [balances EXCEPT ![to] = (@ + value) % UINT256]
    BY <1>0, <1>3 DEF Mint
  <2>3. SumFunction(balances') = SumFunction(balances) + value
    BY <2>1, <2>2, CreditAdds
  <2> QED BY <1>0, <2>2, <2>3 DEF SupplyConserved
<1>4. ASSUME NEW caller \in Accounts, NEW to \in Accounts, NEW value \in Amounts,
             PlainTransfer(caller, to, value)
      PROVE  SupplyConserved'
  <2>1. value \in Nat /\ caller \in Addresses /\ to \in Addresses
    BY <1>0, TokenAssumption DEF Addresses
  <2> QED BY <1>1, <1>4, <2>1 DEF PlainTransfer
<1>5. ASSUME (\E s \in Signable : Sign(s)) \/ Tick \/ UNCHANGED tokenVars
      PROVE  SupplyConserved'
  BY <1>0, <1>5 DEF Sign, Tick, tokenVars, SupplyConserved
<1> QED BY <1>2, <1>3, <1>4, <1>5 DEF TokenNext

(* Whatever is minted, paid and transferred, the balances add up to the supply *)
(* (EIP3009Token.sol:57, 74, 94).                                              *)
THEOREM SupplyIsConserved == TokenSpec => []SupplyConserved
<1>1. TokenInit => SupplyConserved
  <2> SUFFICES ASSUME TokenInit PROVE SupplyConserved
    OBVIOUS
  <2>1. SumFunction([a \in Addresses |-> 0]) = 0
    BY AddressesFinite, SumZero
  <2> QED BY <2>1 DEF TokenInit, SupplyConserved
<1>2. TokenInv /\ SupplyConserved /\ [TokenNext]_tokenVars => SupplyConserved'
  BY SupplyStep DEF SupplyInv
<1> QED BY <1>1, <1>2, TokenInvariant, PTL DEF TokenSpec

-----------------------------------------------------------------------------
(* The agreement of the CLI with the contract. *)

(* Terms keep everything but the excess of their value when they are packed,   *)
(* and hash to the same structure before and after (eip712.go:42).             *)
LEMMA PackedTerms ==
  ASSUME NEW auth \in Terms
  PROVE  /\ AbiArguments(auth) \in Arguments
         /\ AbiArguments(auth).Kind = auth.Kind
         /\ SignerAddress(AbiArguments(auth)) = SignerAddress(auth)
         /\ auth.Kind \in TransferKinds =>
              /\ AbiArguments(auth).From = auth.From /\ AbiArguments(auth).To = auth.To
              /\ AbiArguments(auth).ValidAfter = auth.ValidAfter
              /\ AbiArguments(auth).ValidBefore = auth.ValidBefore
         /\ AuthorizationStructHash(auth) = AuthorizationStructHash(AbiArguments(auth))
<1> DEFINE a == AbiArguments(auth)
<1>1. CASE auth \in CancelArguments
  <2>1. auth.Kind = CancelAuthorization /\ auth.Kind \notin TransferKinds
    BY <1>1 DEF CancelArguments, TransferKinds, TransferAuthorization, ReceiveAuthorization,
                CancelAuthorization
  <2>2. a = auth
    BY <2>1 DEF AbiArguments
  <2> QED
    BY <1>1, <2>1, <2>2 DEF Arguments
<1>2. CASE auth \notin CancelArguments
  <2>1. auth \in [Kind : TransferKinds, From : Addresses, To : Addresses, Value : Int,
                  ValidAfter : Nat, ValidBefore : Nat, Nonce : Nonces]
    BY <1>2 DEF Terms
  <2>2. U256(auth.Value) \in 0 .. UINT256 - 1
    BY <2>1, WidthAssumption DEF U256
  <2>3. a = [auth EXCEPT !.Value = U256(auth.Value)]
    BY <2>1 DEF AbiArguments
  <2>4. /\ a \in TransferArguments
        /\ a.Kind = auth.Kind /\ a.From = auth.From /\ a.To = auth.To
        /\ a.ValidAfter = auth.ValidAfter /\ a.ValidBefore = auth.ValidBefore
    BY <2>1, <2>2, <2>3 DEF TransferArguments
  <2>5. a \in Arguments
    BY <2>4 DEF Arguments
  <2>6. AbiArguments(a) = a
    BY <2>5, PackedArguments
  <2>7. SignerAddress(a) = SignerAddress(auth)
    BY <2>1, <2>4 DEF SignerAddress
  <2>8. AuthorizationStructHash(auth) = AuthorizationStructHash(a)
    BY <2>6 DEF AuthorizationStructHash
  <2> QED
    BY <2>1, <2>4, <2>5, <2>7, <2>8
<1> QED
  BY <1>1, <1>2

(* The structure that the contract hashes for a call.                          *)
CallStructHash(args) ==
  IF args.Kind = CancelAuthorization THEN CancelStructHash(args)
  ELSE TransferStructHash(TypeHash(args.Kind), args)

LEMMA SameStructHash ==
  ASSUME NEW args \in Arguments
  PROVE  HashTypedDataV4(CallStructHash(args)) = TypedDataHash(TokenDomain, args)
<1>1. args.Kind \in TransferKinds \/ args.Kind = CancelAuthorization
  BY DEF Arguments, TransferArguments, CancelArguments
<1>2. CancelAuthorization \notin TransferKinds
  BY DEF TransferKinds, TransferAuthorization, ReceiveAuthorization, CancelAuthorization
<1>3. AuthorizationStructHash(args) = CallStructHash(args)
  BY <1>1, <1>2, PackedArguments DEF CallStructHash
<1> QED
  BY <1>3 DEF HashTypedDataV4, TypedDataHash

-----------------------------------------------------------------------------
(* What a key holder signed for this contract passes the contract's check of   *)
(* the signature.                                                              *)
LEMMA SignedRecovers ==
  ASSUME NEW s \in Signable, NEW m \in SignAuthorization(s.Domain, s.Authorization, s.Key),
         s.Key = SignerAddress(AbiArguments(s.Authorization)),
         DomainSeparator(s.Domain) = DomainSeparator(TokenDomain)
  PROVE  LET c == EncodeExecuteCalldata(m) IN
         /\ c.args = AbiArguments(s.Authorization)
         /\ RequireValidSignature(SignerAddress(c.args), CallStructHash(c.args), c)
<1> DEFINE rs == RawSignature(s.Key, TypedDataHash(s.Domain, s.Authorization))
           c  == EncodeExecuteCalldata(m)
           a  == AbiArguments(s.Authorization)
<1>1. s.Authorization \in Terms /\ rs.recid \in {0, 1}
  BY SignableAssumption
<1>2. m = [Domain |-> s.Domain, Authorization |-> s.Authorization,
           Signature |-> [V |-> rs.recid + 27, RS |-> rs]]
  BY DEF SignAuthorization
<1>3. c.args = a /\ c.v = rs.recid + 27 /\ c.rs = rs
  BY <1>2 DEF EncodeExecuteCalldata
<1>4. c.v \in SolidityVs /\ c.v - 27 = rs.recid
  BY <1>1, <1>3 DEF SolidityVs
<1>5. HashTypedDataV4(CallStructHash(a)) = TypedDataHash(TokenDomain, a)
  BY <1>1, PackedTerms, SameStructHash
<1>6. TypedDataHash(TokenDomain, a) = TypedDataHash(s.Domain, s.Authorization)
  BY <1>1, PackedTerms DEF TypedDataHash
<1>7. rs.digest = TypedDataHash(s.Domain, s.Authorization) /\ rs.signer = s.Key /\ rs.high = FALSE
  BY DEF RawSignature
<1>8. Recovered(HashTypedDataV4(CallStructHash(a)), c.v, c.rs) = s.Key
  BY <1>3, <1>4, <1>5, <1>6, <1>7 DEF Recovered, RecoverKey
<1> QED
  BY <1>3, <1>8 DEF RequireValidSignature

(* A message that the CLI signed is accepted by the contract whenever its slot *)
(* is open, the payer can pay and the time is inside the window, also where    *)
(* its value wraps (types.go:148, calldata.go:101).                            *)
LEMMA SignedExecutes == SignedMessageExecutes
<1> SUFFICES ASSUME NEW s \in Signable, ReadyButForTime(s),
                    s.Authorization.Kind \in TransferKinds =>
                      timestamp \in (s.Authorization.ValidAfter + 1) .. (s.Authorization.ValidBefore - 1),
                    NEW m \in SignAuthorization(s.Domain, s.Authorization, s.Key),
                    NEW caller \in Executors(s.Authorization)
             PROVE  CallAccepted(caller, EncodeExecuteCalldata(m))
  BY DEF SignedMessageExecutes, AllExecute
<1> DEFINE auth == s.Authorization
           a    == AbiArguments(auth)
           c    == EncodeExecuteCalldata(m)
<1>1. auth \in Terms
  BY SignableAssumption
<1>2. ValidAuthorization(auth)
  BY DEF SignAuthorization
<1>3. c.args = a /\ RequireValidSignature(SignerAddress(a), CallStructHash(a), c)
  BY SignedRecovers DEF ReadyButForTime
<1>4. a \in Arguments /\ a.Kind = auth.Kind
  BY <1>1, PackedTerms
<1>5. RequireUnusedAuthorization(SignerAddress(a), a.Nonce)
  BY DEF ReadyButForTime, RequireUnusedAuthorization
<1>6. CASE auth.Kind \in TransferKinds
  <2>1. /\ a.From = auth.From /\ a.To = auth.To
        /\ a.ValidAfter = auth.ValidAfter /\ a.ValidBefore = auth.ValidBefore
    BY <1>1, <1>6, PackedTerms
  <2>2. SignerAddress(a) = a.From /\ a.Kind # CancelAuthorization
    BY <1>4, <1>6 DEF SignerAddress, TransferKinds, TransferAuthorization, ReceiveAuthorization,
                      CancelAuthorization
  <2>3. RequireValidTime(a.ValidAfter, a.ValidBefore)
    <3>1. auth.ValidAfter \in Nat /\ auth.ValidBefore \in Nat
      BY <1>4, <1>6, <2>1, <2>2 DEF Arguments, TransferArguments, CancelArguments
    <3> QED
      BY <1>6, <2>1, <3>1 DEF RequireValidTime
  <2>4. RequireTransferAuthorization(TypeHash(a.Kind), c)
    BY <1>3, <1>5, <2>2, <2>3 DEF RequireTransferAuthorization, CallStructHash
  <2>5. Transferable(a.From, a.To, a.Value)
    <3>1. a.Value <= balances[a.From]
      BY <1>4, <1>6 DEF ReadyButForTime
    <3>2. ZeroAddress \notin {auth.From, auth.To}
      BY <1>2, <1>6 DEF ValidAuthorization, TransferKinds, TransferAuthorization,
                        ReceiveAuthorization, CancelAuthorization
    <3> QED
      BY <2>1, <3>1, <3>2 DEF Transferable
  <2>6. CASE a.Kind = TransferAuthorization
    <3>1. TypeHash(a.Kind) = TRANSFER_WITH_AUTHORIZATION_TYPEHASH
      BY <2>6 DEF TypeHash, TRANSFER_WITH_AUTHORIZATION_TYPEHASH, TransferAuthorization,
                  ReceiveAuthorization, CancelAuthorization
    <3> QED
      BY <1>3, <2>4, <2>5, <2>6, <3>1 DEF CallAccepted, TransferAccepted
  <2>7. CASE a.Kind = ReceiveAuthorization
    <3>1. TypeHash(a.Kind) = RECEIVE_WITH_AUTHORIZATION_TYPEHASH
      BY <2>7 DEF TypeHash, RECEIVE_WITH_AUTHORIZATION_TYPEHASH, TransferAuthorization,
                  ReceiveAuthorization, CancelAuthorization
    <3>2. caller = a.To
      BY <1>4, <2>1, <2>7 DEF Executors
    <3> QED
      BY <1>3, <2>4, <2>5, <2>7, <3>1, <3>2 DEF CallAccepted, ReceiveAccepted
  <2> QED
    BY <1>4, <1>6, <2>6, <2>7 DEF TransferKinds
<1>7. CASE auth.Kind \notin TransferKinds
  <2>1. a.Kind = CancelAuthorization /\ SignerAddress(a) = a.Authorizer
    BY <1>4, <1>7 DEF Arguments, TransferArguments, CancelArguments, SignerAddress
  <2>2. RequireValidSignature(a.Authorizer, CancelStructHash(a), c)
    BY <1>3, <2>1 DEF CallStructHash
  <2> QED
    BY <1>3, <1>5, <2>1, <2>2 DEF CallAccepted, CancelAccepted
<1> QED
  BY <1>6, <1>7

(* So it is in every state of the contract.                                    *)
THEOREM SignedMessagesExecute == TokenSpec => []SignedMessageExecutes
BY SignedExecutes, PTL

-----------------------------------------------------------------------------
(* A signature with a v is never a missing one.                                *)
LEMMA SignatureIsThere ==
  ASSUME SignedByHolders, NEW c \in Calls
  PROVE  NoSignature # [V |-> c.v, RS |-> c.rs]
<1>1. c.v \in {0, 1, 27, 28} /\ c.rs \in Signatures
  BY DEF Calls, SolidityVs
<1>2. PICK low \in signed : c.rs \in {low, HighS(low)}
  BY <1>1 DEF Signatures
<1>3. PICK s \in Signable : low = RawSignature(s.Key, TypedDataHash(s.Domain, s.Authorization))
  BY <1>2 DEF SignedByHolders
<1> QED
  BY <1>1, <1>2, <1>3, SignableAssumption

(* A holder of a key that is not the zero address made the signature of any    *)
(* call that the contract accepts.                                             *)
LEMMA AcceptedIsValid ==
  ASSUME TokenInv, NEW c \in Calls, NEW caller \in Accounts, CallAccepted(caller, c)
  PROVE  /\ ValidAuthorization(c.args)
         /\ RequireValidSignature(SignerAddress(c.args), CallStructHash(c.args), c)
<1>1. CASE TransferAccepted(caller, c) \/ ReceiveAccepted(caller, c)
  <2>1. /\ c.args.Kind \in TransferKinds /\ c.args.Kind # CancelAuthorization
        /\ RequireTransferAuthorization(TypeHash(c.args.Kind), c)
        /\ Transferable(c.args.From, c.args.To, c.args.Value)
    BY <1>1 DEF TransferAccepted, ReceiveAccepted, TransferKinds, TransferAuthorization,
                ReceiveAuthorization, CancelAuthorization, TypeHash,
                TRANSFER_WITH_AUTHORIZATION_TYPEHASH, RECEIVE_WITH_AUTHORIZATION_TYPEHASH
  <2>2. c.args.Value >= 0
    <3>1. c.args \in TransferArguments
      BY <2>1, TransferSigned
    <3> QED
      BY <3>1, WidthAssumption DEF TransferArguments
  <2>3. ValidAuthorization(c.args)
    BY <2>1, <2>2 DEF ValidAuthorization, Transferable
  <2> QED
    BY <2>1, <2>3 DEF RequireTransferAuthorization, SignerAddress, CallStructHash
<1>2. CASE CancelAccepted(caller, c)
  <2>1. /\ c.args.Kind = CancelAuthorization /\ c.args.Kind \notin TransferKinds
        /\ RequireValidSignature(c.args.Authorizer, CancelStructHash(c.args), c)
    BY <1>2 DEF CancelAccepted, TransferKinds, TransferAuthorization, ReceiveAuthorization,
                CancelAuthorization
  <2>2. c.rs \in signed /\ c.rs.signer = c.args.Authorizer
    BY <2>1, CancelSigned
  <2>3. PICK s \in Signable : c.rs = RawSignature(s.Key, TypedDataHash(s.Domain, s.Authorization))
    BY <2>2 DEF TokenInv, SignedByHolders
  <2>4. c.args.Authorizer \in Accounts
    BY <2>2, <2>3, SignableAssumption DEF RawSignature
  <2>5. ValidAuthorization(c.args)
    BY <2>1, <2>4, AddressAssumption DEF ValidAuthorization
  <2> QED
    BY <2>1, <2>5 DEF SignerAddress, CallStructHash
<1> QED
  BY <1>1, <1>2 DEF CallAccepted

(* --verify and the contract judge every call alike, apart from the v and s    *)
(* that only the contract refuses (eip712.go:99, EIP3009Token.sol:142).        *)
LEMMA VerifyAgrees == TokenInv => VerifyAgreesWithToken
<1> SUFFICES ASSUME TokenInv, NEW c \in Calls
             PROVE  LET message == [Domain |-> TokenDomain, Authorization |-> c.args,
                                    Signature |-> [V |-> c.v, RS |-> c.rs]]
                    IN
                    /\ (\E caller \in Accounts : CallAccepted(caller, c)) =>
                         VerifySignedAuthorization(message)
                    /\ VerifySignedAuthorization(message) /\ c.v \in SolidityVs /\ ~c.rs.high
                         => RequireValidSignature(SignerAddress(c.args), CallStructHash(c.args), c)
  BY DEF VerifyAgreesWithToken, CallStructHash
<1> DEFINE message == [Domain |-> TokenDomain, Authorization |-> c.args,
                       Signature |-> [V |-> c.v, RS |-> c.rs]]
<1>1. c.args \in Arguments /\ c.v \in SolidityVs \cup {0, 1}
  BY SubmittedAssumption DEF Calls
<1>2. HashTypedDataV4(CallStructHash(c.args)) = TypedDataHash(TokenDomain, c.args)
  BY <1>1, SameStructHash
<1>3. ASSUME NEW caller \in Accounts, CallAccepted(caller, c)
      PROVE  VerifySignedAuthorization(message)
  <2>1. /\ ValidAuthorization(c.args)
        /\ Recovered(TypedDataHash(TokenDomain, c.args), c.v, c.rs) = SignerAddress(c.args)
    BY <1>2, <1>3, AcceptedIsValid DEF RequireValidSignature
  <2>2. SignerAddress(c.args) # Stranger
    BY <1>1, AddressAssumption DEF SignerAddress, Arguments, TransferArguments, CancelArguments,
         Addresses, TransferKinds, TransferAuthorization, ReceiveAuthorization, CancelAuthorization
  <2>3. c.v \in SolidityVs /\ RecoverKey(TypedDataHash(TokenDomain, c.args), c.v - 27, c.rs)
                                = SignerAddress(c.args)
    BY <2>1, <2>2 DEF Recovered
  <2>4. message.Signature # NoSignature
    BY SignatureIsThere DEF TokenInv
  <2>5. ValidDomain(TokenDomain)
    BY TokenAssumption
  <2> QED
    BY <2>1, <2>3, <2>4, <2>5 DEF VerifySignedAuthorization, RecoveryBit
<1>4. ASSUME VerifySignedAuthorization(message), c.v \in SolidityVs, ~c.rs.high
      PROVE  RequireValidSignature(SignerAddress(c.args), CallStructHash(c.args), c)
  <2>1. RecoverKey(TypedDataHash(TokenDomain, c.args), c.v - 27, c.rs) = SignerAddress(c.args)
    BY <1>4 DEF VerifySignedAuthorization, RecoveryBit
  <2> QED
    BY <1>2, <1>4, <2>1 DEF RequireValidSignature, Recovered
<1> QED
  BY <1>3, <1>4

(* So they do in every state, for every signature made so far.                 *)
THEOREM VerifyMatchesToken == TokenSpec => []VerifyAgreesWithToken
BY TokenInvariant, VerifyAgrees, PTL
==============================================================================
