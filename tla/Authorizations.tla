---------------------------- MODULE Authorizations ----------------------------
(***************************************************************************)
(* The data that the CLI and the token contract share: EIP-712 domains,    *)
(* EIP-3009 authorizations, their typed-data hash, signatures over it, and *)
(* the calldata that carries them to the contract                          *)
(* (internal/eip3009/types.go, eip712.go, calldata.go).                    *)
(*                                                                         *)
(* Cryptography is symbolic.  A hash is the tuple of what is hashed, so it *)
(* is injective.  The (r, s) part of a signature is a record that names    *)
(* who signed which digest; recovering the key from it with another digest *)
(* or another recovery bit yields Stranger, an address nobody holds.       *)
(***************************************************************************)
EXTENDS Integers

CONSTANTS
  Accounts,           \* addresses whose private key somebody holds
  ZeroAddress,        \* common.Address{}
  Stranger,           \* what recovery yields for a digest that was not signed
  NoSignature,        \* a nil *Signature
  UINT256,            \* one more than the largest uint256
  RecoveryId(_, _)    \* recovery bit of the signature of a key on a digest

ASSUME AddressAssumption ==
  /\ ZeroAddress \notin Accounts
  /\ Stranger \notin Accounts \cup {ZeroAddress}

ASSUME WidthAssumption == UINT256 \in Nat \ {0}

Addresses == Accounts \cup {ZeroAddress}

TransferAuthorization == "transferWithAuthorization"
ReceiveAuthorization == "receiveWithAuthorization"
CancelAuthorization == "cancelAuthorization"
TransferKinds == {TransferAuthorization, ReceiveAuthorization}

(***************************************************************************)
(* go-ethereum's abi package packs a big integer modulo 2^256, and refuses *)
(* to pack a negative one as a uint256.                                    *)
(***************************************************************************)
Packable(auth) == auth.Kind \in TransferKinds => auth.Value >= 0

U256(n) == n % UINT256

AbiArguments(auth) ==
  IF auth.Kind \in TransferKinds THEN [auth EXCEPT !.Value = U256(@)] ELSE auth

ValidDomain(domain) ==
  /\ domain.Name # "" /\ domain.Version # ""
  /\ domain.ChainID > 0
  /\ domain.VerifyingContract # ZeroAddress

ValidAuthorization(auth) ==
  \/ /\ auth.Kind \in TransferKinds
     /\ ZeroAddress \notin {auth.From, auth.To}
     /\ auth.Value >= 0
  \/ /\ auth.Kind = CancelAuthorization
     /\ auth.Authorizer # ZeroAddress

SignerAddress(auth) ==
  IF auth.Kind \in TransferKinds THEN auth.From ELSE auth.Authorizer

(***************************************************************************)
(* The typed-data hash.  A type hash is the name of its primary type.      *)
(***************************************************************************)
TypeHash(kind) ==
  CASE kind = TransferAuthorization -> "TransferWithAuthorization"
    [] kind = ReceiveAuthorization  -> "ReceiveWithAuthorization"
    [] kind = CancelAuthorization   -> "CancelAuthorization"

DomainSeparator(domain) == [domain EXCEPT !.ChainID = U256(@)]

\* Mutant: recipient and sender are packed in the wrong order.
SwappedStructHash(auth) ==
  LET a == AbiArguments(auth) IN
  IF a.Kind = CancelAuthorization
  THEN <<TypeHash(a.Kind), a.Authorizer, a.Nonce>>
  ELSE <<TypeHash(a.Kind), a.To, a.From, a.Value, a.ValidAfter, a.ValidBefore, a.Nonce>>

AuthorizationStructHash(auth) ==
  LET a == AbiArguments(auth) IN
  IF a.Kind = CancelAuthorization
  THEN <<TypeHash(a.Kind), a.Authorizer, a.Nonce>>
  ELSE <<TypeHash(a.Kind), a.From, a.To, a.Value, a.ValidAfter, a.ValidBefore, a.Nonce>>

TypedDataHash(domain, auth) ==
  [domainSeparator |-> DomainSeparator(domain),
   structHash      |-> AuthorizationStructHash(auth)]

(***************************************************************************)
(* Signatures.  secp256k1 signing is deterministic (RFC 6979) and yields   *)
(* the s of the lower half; whoever has a signature can derive the one     *)
(* with the s of the upper half and the other recovery bit.                *)
(***************************************************************************)
RawSignature(key, digest) ==
  [signer |-> key, digest |-> digest, recid |-> RecoveryId(key, digest), high |-> FALSE]

HighS(rs) == [rs EXCEPT !.recid = 1 - @, !.high = TRUE]

RecoverKey(digest, bit, rs) ==
  IF rs.digest = digest /\ rs.recid = bit THEN rs.signer ELSE Stranger

\* What SignAuthorization can return: one message, or none if it refuses.
SignAuthorization(domain, auth, key) ==
  LET rs == RawSignature(key, TypedDataHash(domain, auth)) IN
  {m \in {[Domain |-> domain, Authorization |-> auth,
           Signature |-> [V |-> rs.recid + 27, RS |-> rs]]} :
     ValidDomain(domain) /\ ValidAuthorization(auth)}

SolidityVs == {27, 28}

RecoveryBit(v) == IF v \in SolidityVs THEN v - 27 ELSE v

\* Mutant: the recovered address is not compared with the expected one.
VerifyRecoverable(m) ==
  /\ m.Signature # NoSignature
  /\ ValidDomain(m.Domain) /\ ValidAuthorization(m.Authorization)
  /\ m.Signature.V \in SolidityVs \cup {0, 1}
  /\ RecoverKey(TypedDataHash(m.Domain, m.Authorization),
                RecoveryBit(m.Signature.V), m.Signature.RS) # Stranger

\* VerifySignedAuthorization returns no error.
VerifySignedAuthorization(m) ==
  /\ m.Signature # NoSignature
  /\ ValidDomain(m.Domain) /\ ValidAuthorization(m.Authorization)
  /\ m.Signature.V \in SolidityVs \cup {0, 1}
  /\ RecoverKey(TypedDataHash(m.Domain, m.Authorization),
                RecoveryBit(m.Signature.V), m.Signature.RS)
       = SignerAddress(m.Authorization)

(***************************************************************************)
(* Imported signatures.  A wallet may give v as 0 or 1; a policy, which is *)
(* a flag of broadcast or the answer to its prompt, says what is sent.     *)
(***************************************************************************)
Policies == {"normalize-v", "keep-v", "prompt", "non-interactive"}

\* resolveSignatureVForBroadcast: the signatures it can come out with; none
\* if it returns an error.  A prompt may be answered either way, or wrongly.
ResolveSignatureV(signature, policy) ==
  LET normalized == [V |-> signature.V + 27, RS |-> signature.RS] IN
  {resolved \in {signature, normalized} :
     \/ signature.V \in SolidityVs /\ resolved = signature
     \/ /\ signature.V \in {0, 1}
        /\ \/ policy \in {"normalize-v", "prompt"} /\ resolved = normalized
           \/ policy \in {"keep-v", "prompt"} /\ resolved = signature}

(***************************************************************************)
(* Execution calldata: the method is the kind, then the packed arguments.  *)
(***************************************************************************)
EncodeExecuteCalldata(m) ==
  [args |-> AbiArguments(m.Authorization),
   v    |-> m.Signature.V,
   rs   |-> m.Signature.RS]
===============================================================================
