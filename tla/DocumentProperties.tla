--------------------------- MODULE DocumentProperties ---------------------------
(***************************************************************************)
(* What may be relied on when documents and calldata travel between        *)
(* commands, wallets and people.                                           *)
(***************************************************************************)
EXTENDS Documents

CONSTANT TokenDomain   \* the domain of the deployed EIP3009Token

Token == TokenDomain.VerifyingContract

(***************************************************************************)
(* The constructor of EIP3009Token gives name() and version() the values   *)
(* of the EIP-712 domain, and the node is the one of its chain.            *)
(***************************************************************************)
ASSUME DeploymentAssumption ==
  /\ Token \in DOMAIN Metadata
  /\ Metadata[Token] = [Name |-> TokenDomain.Name, Version |-> TokenDomain.Version]
  /\ TokenDomain.ChainID = NodeChainID
  /\ TokenDomain = [field \in DomainFields |-> TokenDomain[field]] /\ ValidDomain(TokenDomain)

(* Every document can be read back, as one message, and says the same when it  *)
(* is written again (message.go:15, json.go:10).                               *)
ReadBack ==
  \A doc \in documents :
    /\ Cardinality(ParseMessageJSON(doc)) = 1
    /\ \A m \in ParseMessageJSON(doc) :
         TypedDataObject(m) = IF "typedData" \in DOMAIN doc THEN doc.typedData
                              ELSE [field \in {"primaryType", "domain", "message"} |-> doc[field]]

(* A signature stays with the terms it was given for: however a document was   *)
(* printed, signed by a wallet, extracted from JSON or from calldata and sent, *)
(* it carries a signature beside the terms its signer saw, up to the modulus   *)
(* of the ABI (message.go:28-45, calldata.go:133).                             *)
TermsPreserved ==
  /\ \A doc \in documents : \A m \in ParseMessageJSON(doc) :
       m.Signature # NoSignature => <<AbiArguments(m.Authorization), m.Signature.RS>> \in originals
  /\ \A c \in calldatas : <<c.args, c.rs>> \in originals

(* A document that says signatureValid verifies when it is read back, also if  *)
(* --token replaced its contract or its v was normalized after the signature   *)
(* was verified (cli.go:184-226, 317-344).                                     *)
SignatureValidTruthful ==
  \A doc \in documents :
    "signatureValid" \in DOMAIN doc /\ TRUE \in doc.signatureValid =>
      \A m \in ParseMessageJSON(doc) : VerifySignedAuthorization(m)

\* The contract accepts the signature for the message's terms.
Authorizes(m) ==
  RecoverKey(TypedDataHash(TokenDomain, m.Authorization),
             RecoveryBit(m.Signature.V), m.Signature.RS) = SignerAddress(m.Authorization)

\* The message is one for the token, once the options of cancel are applied,
\* and no option contradicts the token's domain or the message.
Cancels(o, m) ==
  /\ m.Signature # NoSignature /\ Authorizes(m)
  /\ Given(o.Token, m.Domain.VerifyingContract) = Token
  /\ o.Name \in {"", TokenDomain.Name} /\ o.Version \in {"", TokenDomain.Version}
  /\ o.ChainID \in {Absent, TokenDomain.ChainID}
  /\ o.Nonce \in {Absent, m.Authorization.Nonce}
  /\ o.Authorizer \in {Absent, SignerAddress(m.Authorization)}

(* An emergency cancel hits the message it is aimed at: whatever cancel signs  *)
(* for a document of a message the contract would accept, also one recovered   *)
(* from calldata, the contract accepts too, for the same authorizer and nonce; *)
(* and it signs if the key is the authorizer's and the chain is known          *)
(* (cli.go:614-722).                                                           *)
CancelRevokes ==
  \A doc \in documents, o \in CancelOptions : \A m \in ParseMessageJSON(doc) :
    Cancels(o, m) =>
      /\ \A c \in CancelResult(o, {m}) :
           /\ Authorizes(c) /\ c.Domain.VerifyingContract = Token
           /\ SignerAddress(c.Authorization) = SignerAddress(m.Authorization)
           /\ c.Authorization.Nonce = m.Authorization.Nonce
      /\ o.Key = SignerAddress(m.Authorization) /\ (m.Domain.ChainID > 0 \/ o.ChainID # Absent) =>
           CancelResult(o, {m}) # {}

(* cancel takes the domain from the message and asks the node for what it      *)
(* lacks; "--token is required when --message does not include                 *)
(* domain.verifyingContract" (cli.go:595, 690-698).  So with --token it cancels*)
(* what extract recovered from calldata without a token.                       *)
TokenCompletesMessage ==
  \A doc \in documents, o \in CancelOptions : \A m \in ParseMessageJSON(doc) :
    /\ Cancels(o, m) /\ o.Key = SignerAddress(m.Authorization)
    /\ m.Domain.VerifyingContract = ZeroAddress /\ o.Token # Absent
    => CancelResult(o, {m}) # {}

(* A deadline given as --ttl lies ahead of the clock it was added to, however  *)
(* near that is to the last timestamp of 64 bits (cli.go:736-752).             *)
TTLDeadlineAhead ==
  [][\A o \in SignOptions, now \in WallClock :
       o.TTL # 0 /\ (RunSign(o, now) \/ RunSignDryRun(o, now)) =>
         \A doc \in documents' \ documents : \A m \in ParseMessageJSON(doc) :
           m.Authorization.ValidBefore > now]_vars

(* broadcast --verify publishes only what the account that pays has signed,    *)
(* argument for argument, whatever became of the document in between: a field  *)
(* changed on top or in typedData, typedData or the kind removed, another      *)
(* domain (cli.go:312-320, message.go:15-74).                                  *)
VerifiedCallSigned ==
  [][\A doc \in documents, policy \in Policies :
       RunBroadcast(doc, TRUE, policy) =>
         \A c \in calldatas' \ calldatas :
           <<c.args, c.rs>> \in originals /\ c.rs.signer = SignerAddress(c.args)]_vars

(* Every verdict that a command writes is its own, never that of the document  *)
(* it has read: what it prints as valid verifies when it is read back.         *)
VerdictsTruthful ==
  [][(\E doc \in documents : EditDocument(doc)) \/
     \A doc \in documents' \ documents :
       "signatureValid" \in DOMAIN doc /\ TRUE \in doc.signatureValid =>
         \A m \in ParseMessageJSON(doc) : VerifySignedAuthorization(m)]_vars

(* The typed data that is printed declares value as a uint256 (json.go:100),   *)
(* and so it is one.                                                           *)
ValueIsUint256 ==
  \A doc \in documents : \A m \in ParseMessageJSON(doc) :
    m.Authorization.Kind \in TransferKinds => m.Authorization.Value \in 0 .. UINT256 - 1
===============================================================================
