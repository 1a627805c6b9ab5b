------------------------------- MODULE Documents -------------------------------
(***************************************************************************)
(* The documents that the commands sign, extract, cancel and broadcast     *)
(* write and read back, and the calldata that is published in between      *)
(* (internal/cli/cli.go; internal/eip3009/json.go, message.go,             *)
(* calldata.go).  A document is handed from one command to the next, maybe *)
(* through a wallet that signs it; what it means must survive the journey. *)
(***************************************************************************)
EXTENDS Authorizations, FiniteSets

CONSTANTS
  UINT64,         \* one more than the largest uint64
  Absent,         \* a nil *big.Int, or an option that is not given
  NodeChainID,    \* what the node answers to ChainID
  Metadata,       \* name and version of the contracts that answer for them
  SignOptions,    \* command lines of sign
  CancelOptions,  \* command lines of cancel
  TokenOptions,   \* values of --token of extract
  ForeignCalls,   \* calldata that other programs published
  WallClock,      \* values of time.Now().Unix()
  Edits(_),       \* what may be made of a document by hand or elsewhere
  MaxDocuments,   \* bound on the documents kept at a time
  MaxCalls,       \* bound on the calldata published
  MaxSignatures   \* bound on the signatures made

ASSUME DocumentsAssumption ==
  /\ UINT64 \in Nat \ {0} /\ UINT64 <= UINT256
  /\ Absent \notin Int \cup Addresses
  /\ NodeChainID \in Nat \ {0}
  /\ WallClock \subseteq 0 .. UINT64 - 1

\* Options have the types of their flags; a nonce that is not given is drawn.
ASSUME OptionsAssumption ==
  /\ \A o \in SignOptions :
       /\ o.Key \in Accounts /\ o.From \in Addresses /\ o.Nonce # Absent
       /\ {o.Value, o.ChainID} \subseteq Int
       /\ {o.ValidAfter, o.ValidBefore, o.TTL} \subseteq 0 .. UINT64 - 1
  /\ \A o \in CancelOptions : o.Key \in Accounts /\ o.ChainID \in Int \cup {Absent}

VARIABLES
  documents,      \* the JSON documents somebody keeps
  calldatas,      \* the calldata that was published
  originals       \* arguments with a signature, as their signer joined them

vars == <<documents, calldatas, originals>>

-----------------------------------------------------------------------------
(* Writing documents: json.go *)

PrimaryType(kind) == TypeHash(kind)

DomainObject(domain) ==
  [domain EXCEPT !.ChainID = IF domain.ChainID = Absent THEN 0 ELSE domain.ChainID]

MessageObject(auth) == [field \in DOMAIN auth \ {"Kind"} |-> auth[field]]

TypedDataObject(m) ==
  [primaryType |-> PrimaryType(m.Authorization.Kind),
   domain      |-> DomainObject(m.Domain),
   message     |-> MessageObject(m.Authorization)]

\* valid is {} when signatureValid is nil; NoSignature stands for no signature.
SignedAuthorizationObject(m, valid) ==
  [authorizationType |-> m.Authorization.Kind,
   domain            |-> DomainObject(m.Domain),
   message           |-> MessageObject(m.Authorization),
   typedData         |-> TypedDataObject(m),
   signature         |-> m.Signature,
   signatureValid    |-> valid]

-----------------------------------------------------------------------------
(* Reading documents and calldata: message.go, calldata.go *)

Kinds == TransferKinds \cup {CancelAuthorization}

Spellings(kind) ==
  CASE kind = TransferAuthorization -> {"", "transfer", TransferAuthorization, "TransferWithAuthorization"}
    [] kind = ReceiveAuthorization  -> {"receive", ReceiveAuthorization, "ReceiveWithAuthorization"}
    [] kind = CancelAuthorization   -> {"cancel", CancelAuthorization, "CancelAuthorization"}

\* Mutant: the type hash names are not known.
MethodNamesOnly(text) == {kind \in Kinds : text = kind}

\* None if the text is not supported, as for every parser below.
NormalizeAuthorizationKind(text) == {kind \in Kinds : text \in Spellings(kind)}

ParseKind(root) ==
  NormalizeAuthorizationKind(
    IF "authorizationType" \in DOMAIN root THEN root.authorizationType
    ELSE IF "primaryType" \in DOMAIN root THEN root.primaryType
    ELSE "")

AuthorizationFields(kind) ==
  IF kind = CancelAuthorization THEN {"Authorizer", "Nonce"}
  ELSE {"From", "To", "Value", "ValidAfter", "ValidBefore", "Nonce"}

\* firstRaw: a cancel may name its authorizer "from".
SourceField(field, message) ==
  IF field = "Authorizer" /\ field \notin DOMAIN message THEN "From" ELSE field

ParseAuthorization(kind, message) ==
  IF \E field \in AuthorizationFields(kind) : SourceField(field, message) \notin DOMAIN message
  THEN {}
  ELSE {auth \in {[field \in AuthorizationFields(kind) \cup {"Kind"} |->
                     IF field = "Kind" THEN kind ELSE message[SourceField(field, message)]]} :
          /\ SignerAddress(auth) \in Addresses /\ auth.Nonce # Absent
          /\ kind \in TransferKinds =>
               auth.Value \in Int /\ {auth.ValidAfter, auth.ValidBefore} \subseteq 0 .. UINT64 - 1}

DomainFields == {"Name", "Version", "ChainID", "VerifyingContract"}

\* parseOptionalString: a domain may leave out its name and its version.
ParseDomain(domain) ==
  IF ~ {"ChainID", "VerifyingContract"} \subseteq DOMAIN domain THEN {}
  ELSE {d \in {[field \in DomainFields |-> IF field \in DOMAIN domain THEN domain[field] ELSE ""]} :
          d.ChainID \in Int}

ParseSignature(doc) ==
  IF "signature" \in DOMAIN doc THEN doc.signature ELSE NoSignature

\* typedData, where there is one, is what counts; the signature is beside it.
ParseMessageJSON(doc) ==
  LET root == IF "typedData" \in DOMAIN doc THEN doc.typedData ELSE doc IN
  UNION {{[Domain |-> domain, Authorization |-> auth, Signature |-> ParseSignature(doc)] :
            domain \in ParseDomain(root.domain), auth \in ParseAuthorization(kind, root.message)} :
           kind \in {k \in ParseKind(root) : {"domain", "message"} \subseteq DOMAIN root}}

\* The arguments of the methods: uint256 except for addresses and nonce.
HasFields(auth) ==
  /\ auth.Kind \in Kinds
  /\ auth = [field \in AuthorizationFields(auth.Kind) \cup {"Kind"} |-> auth[field]]
  /\ SignerAddress(auth) \in Addresses /\ auth.Nonce # Absent

IsArguments(args) ==
  /\ HasFields(args)
  /\ args.Kind \in TransferKinds =>
       args.Value \in 0 .. UINT256 - 1 /\ {args.ValidAfter, args.ValidBefore} \subseteq Nat

\* Other programs publish what the signature in it was given for.
ASSUME ForeignAssumption ==
  \A c \in ForeignCalls :
    IsArguments(c.args) /\ c.rs.digest.structHash = AuthorizationStructHash(c.args)

NoDomain == [Name |-> "", Version |-> "", ChainID |-> Absent, VerifyingContract |-> ZeroAddress]

Decoded(c, args) ==
  [Domain |-> NoDomain, Authorization |-> args, Signature |-> [V |-> c.v, RS |-> c.rs]]

\* Mutant: the window is cut to 64 bits.
DecodeTruncated(c) ==
  {Decoded(c, IF c.args.Kind = CancelAuthorization THEN c.args
              ELSE [c.args EXCEPT !.ValidAfter = c.args.ValidAfter % UINT64,
                                  !.ValidBefore = c.args.ValidBefore % UINT64])}

DecodeExecuteCalldata(c) ==
  {Decoded(c, args) : args \in
     {a \in {c.args} : a.Kind \in TransferKinds => a.ValidAfter < UINT64 /\ a.ValidBefore < UINT64}}

-----------------------------------------------------------------------------
(* The commands, cli.go.  An option that is not given is "", Absent, or 0   *)
(* where the flag is a number.                                             *)

Init ==
  /\ documents = {}
  /\ calldatas = ForeignCalls
  /\ originals = {<<c.args, c.rs>> : c \in ForeignCalls}

Keep(doc) ==
  /\ documents' = documents \cup {doc}
  /\ Cardinality(documents') <= MaxDocuments

Publish(m) ==
  /\ calldatas' = calldatas \cup {EncodeExecuteCalldata(m)}
  /\ Cardinality(calldatas') <= MaxCalls

Join(m) ==
  /\ originals' = originals \cup {<<AbiArguments(m.Authorization), m.Signature.RS>>}
  /\ Cardinality(originals') <= MaxSignatures

\* Mutant: the sum may wrap.
ResolveWrapping(o, now) ==
  {t \in {o.ValidBefore, (now + o.TTL) % UINT64} :
     \/ o.TTL = 0 /\ o.ValidBefore # 0 /\ t = o.ValidBefore
     \/ o.TTL # 0 /\ o.ValidBefore = 0 /\ t = (now + o.TTL) % UINT64}

ResolveValidBefore(o, now) ==
  {t \in {o.ValidBefore, (now + o.TTL) % UINT64} :
     \/ o.TTL = 0 /\ o.ValidBefore # 0 /\ t = o.ValidBefore
     \/ /\ o.TTL # 0 /\ o.ValidBefore = 0 /\ (UINT64 - 1) - now >= o.TTL
        /\ t = (now + o.TTL) % UINT64}

\* What buildSignedAuthorization is about to sign.
UnsignedMessages(o, now) ==
  LET from == IF o.DryRun \/ o.From # ZeroAddress THEN o.From ELSE o.Key IN
  {[Domain        |-> [Name |-> o.Name, Version |-> o.Version, ChainID |-> o.ChainID,
                       VerifyingContract |-> o.Token],
    Authorization |-> [Kind |-> kind, From |-> from, To |-> o.To, Value |-> o.Value,
                       ValidAfter |-> o.ValidAfter, ValidBefore |-> validBefore,
                       Nonce |-> o.Nonce],
    Signature     |-> NoSignature] :
   kind \in {k \in NormalizeAuthorizationKind(o.Type) \cap TransferKinds :
               /\ o.Value >= 0 /\ from # ZeroAddress
               /\ o.DryRun \/ from = o.Key},
   validBefore \in ResolveValidBefore(o, now)}

SignedMessages(o, now) ==
  UNION {{m \in SignAuthorization(u.Domain, u.Authorization, o.Key) :
            o.Verify => VerifySignedAuthorization(m)} : u \in UnsignedMessages(o, now)}

RunSignDryRun(o, now) ==
  /\ o.DryRun
  /\ \E u \in UnsignedMessages(o, now) : Keep(TypedDataObject(u))
  /\ UNCHANGED <<calldatas, originals>>

RunSign(o, now) ==
  /\ ~o.DryRun
  /\ \E m \in SignedMessages(o, now) :
       /\ Keep(SignedAuthorizationObject(m, IF o.Verify THEN {TRUE} ELSE {}))
       /\ Join(m)
  /\ UNCHANGED calldatas

(***************************************************************************)
(* A wallet signs the typed data of an unsigned document, with whatever    *)
(* account is selected, and gives v its own way.                           *)
(***************************************************************************)
WalletSigns(key, offset, doc) ==
  /\ ParseSignature(doc) = NoSignature
  /\ \E u \in ParseMessageJSON(doc) :
       LET rs == RawSignature(key, TypedDataHash(u.Domain, u.Authorization))
           signature == [V |-> rs.recid + offset, RS |-> rs]
       IN
       /\ u.Authorization.Kind \in TransferKinds => u.Authorization.Value \in 0 .. UINT256 - 1
       /\ Keep([field \in DOMAIN doc \cup {"signature"} |->
                  IF field = "signature" THEN signature ELSE doc[field]])
       /\ Join([u EXCEPT !.Signature = signature])
  /\ UNCHANGED calldatas

\* Mutant: the signature is checked before --token replaces the contract.
ExtractEarly(m, token) ==
  SignedAuthorizationObject(
    IF token = Absent THEN m ELSE [m EXCEPT !.Domain.VerifyingContract = token],
    IF m.Signature = NoSignature THEN {} ELSE {VerifySignedAuthorization(m)})

Extract(m, token) ==
  LET shown == IF token = Absent THEN m ELSE [m EXCEPT !.Domain.VerifyingContract = token] IN
  SignedAuthorizationObject(shown,
    IF m.Signature = NoSignature THEN {} ELSE {VerifySignedAuthorization(shown)})

RunExtractMessage(doc, token) ==
  /\ \E m \in ParseMessageJSON(doc) : Keep(Extract(m, token))
  /\ UNCHANGED <<calldatas, originals>>

RunExtractCalldata(c, token) ==
  /\ \E m \in DecodeExecuteCalldata(c) : Keep(Extract(m, token))
  /\ UNCHANGED <<calldatas, originals>>

-----------------------------------------------------------------------------
(* cancel; sources has the message of --message, if it is given. *)

Given(option, otherwise) == IF option # Absent THEN option ELSE otherwise
GivenText(option, otherwise) == IF option # "" THEN option ELSE otherwise

CancelDomain(o, domain) ==
  LET verifying == Given(o.Token, domain.VerifyingContract)
      name      == GivenText(o.Name, domain.Name)
      version   == GivenText(o.Version, domain.Version)
  IN
  IF verifying # ZeroAddress /\ ("" \in {name, version} => verifying \in DOMAIN Metadata)
  THEN {[Name    |-> GivenText(name, Metadata[verifying].Name),
         Version |-> GivenText(version, Metadata[verifying].Version),
         ChainID |-> Given(o.ChainID, Given(domain.ChainID, NodeChainID)),
         VerifyingContract |-> verifying]}
  ELSE {}

\* Mutant: the authorizer is the holder of the key, whoever signed the message.
KeyIsAuthorizer(o, sources) == o.Key

CancelAuthorizer(o, sources) ==
  Given(o.Authorizer, IF sources = {} THEN o.Key
                      ELSE SignerAddress((CHOOSE m \in sources : TRUE).Authorization))

CancelNonce(o, sources) ==
  Given(o.Nonce, IF sources = {} THEN Absent
                 ELSE (CHOOSE m \in sources : TRUE).Authorization.Nonce)

CancelResult(o, sources) ==
  LET authorizer == CancelAuthorizer(o, sources)
      nonce == CancelNonce(o, sources)
      base == IF sources = {} THEN NoDomain ELSE (CHOOSE m \in sources : TRUE).Domain
      auth == [Kind |-> CancelAuthorization, Authorizer |-> authorizer, Nonce |-> nonce]
  IN
  UNION {{m \in SignAuthorization(domain, auth, o.Key) :
            /\ authorizer = o.Key /\ nonce # Absent
            /\ o.Verify => VerifySignedAuthorization(m)} : domain \in CancelDomain(o, base)}

RunCancel(o, sources) ==
  \E m \in CancelResult(o, sources) :
    /\ Keep(SignedAuthorizationObject(m, {o.Verify}))
    /\ Join(m)
    /\ IF o.DryRun THEN UNCHANGED calldatas ELSE Publish(m)

(***************************************************************************)
(* broadcast, without the dialogue with the node that Broadcast.tla has.   *)
(***************************************************************************)

\* Mutant: a document that says it was verified is believed.
BelieveDocument(doc, m) == "signatureValid" \in DOMAIN doc /\ TRUE \in doc.signatureValid

PassesVerify(doc, m) == VerifySignedAuthorization(m)

RunBroadcast(doc, verify, policy) ==
  /\ \E m \in ParseMessageJSON(doc) :
       /\ m.Signature # NoSignature /\ Packable(m.Authorization)
       /\ verify => PassesVerify(doc, m)
       /\ \E resolved \in ResolveSignatureV(m.Signature, policy) :
            LET sent == [m EXCEPT !.Signature = resolved] IN
            Publish(sent) /\ Keep(SignedAuthorizationObject(sent, {verify}))
  /\ UNCHANGED originals

\* Files are deleted.
Discard(doc) ==
  /\ documents' = documents \ {doc}
  /\ UNCHANGED <<calldatas, originals>>

\* Documents are copied out, corrected, converted or tampered with.
EditDocument(doc) ==
  /\ \E edited \in Edits(doc) : Keep(edited)
  /\ UNCHANGED <<calldatas, originals>>

Next ==
  \/ \E o \in SignOptions, now \in WallClock : RunSignDryRun(o, now) \/ RunSign(o, now)
  \/ \E key \in Accounts, offset \in {0, 27}, doc \in documents : WalletSigns(key, offset, doc)
  \/ \E doc \in documents, token \in TokenOptions : RunExtractMessage(doc, token)
  \/ \E c \in calldatas, token \in TokenOptions : RunExtractCalldata(c, token)
  \/ \E o \in CancelOptions : RunCancel(o, {})
  \/ \E o \in CancelOptions, doc \in documents :
       \E m \in ParseMessageJSON(doc) : RunCancel(o, {m})
  \/ \E doc \in documents, verify \in BOOLEAN, policy \in Policies : RunBroadcast(doc, verify, policy)
  \/ \E doc \in documents : Discard(doc) \/ EditDocument(doc)

Spec == Init /\ [][Next]_vars
===============================================================================
