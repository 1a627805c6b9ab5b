----------------------------- MODULE DocumentProofs -----------------------------
(***************************************************************************)
(* The journey of the documents, proved for every set of accounts, options *)
(* and foreign calldata.  First, what is printed is read back as it was;   *)
(* then every step is one of six forms (StepForms), and each theorem has   *)
(* the invariant that these forms keep: ReadBackInv, SoundInv, KnownInv,   *)
(* VerdictInv.  What may be done to a document between two commands is a   *)
(* hypothesis of each theorem: nothing but copies (OnlyCopies), or         *)
(* anything but a forged signature (NothingForged).                        *)
(***************************************************************************)
EXTENDS DocumentProperties, FiniteSetTheorems, TLAPS

(***************************************************************************)
(* What an Authorization can hold: the fields of its kind, a value that is *)
(* an integer and a window of 64 bits.                                     *)
(***************************************************************************)
Well(auth) ==
  /\ HasFields(auth)
  /\ auth.Kind \in TransferKinds =>
       auth.Value \in Int /\ {auth.ValidAfter, auth.ValidBefore} \subseteq 0 .. UINT64 - 1

IsDomain(domain) ==
  /\ domain = [field \in DomainFields |-> domain[field]]
  /\ domain.ChainID \in Int \cup {Absent}

\* What a document says at the top or in its typedData.
Root(doc) == IF "typedData" \in DOMAIN doc THEN doc.typedData ELSE doc

-----------------------------------------------------------------------------
(* The three kinds are spelled differently.                                    *)
LEMMA KindsDiffer ==
  /\ TransferAuthorization # ReceiveAuthorization /\ TransferAuthorization # CancelAuthorization
  /\ ReceiveAuthorization # CancelAuthorization
  /\ Kinds = {TransferAuthorization, ReceiveAuthorization, CancelAuthorization}
  /\ CancelAuthorization \notin TransferKinds
BY DEF Kinds, TransferKinds, TransferAuthorization, ReceiveAuthorization, CancelAuthorization

LEMMA SpellingsDiffer ==
  ASSUME NEW k1 \in Kinds, NEW k2 \in Kinds, NEW text, text \in Spellings(k1), text \in Spellings(k2)
  PROVE  k1 = k2
BY KindsDiffer DEF Spellings, TransferAuthorization, ReceiveAuthorization, CancelAuthorization

LEMMA TypeHashNormalizes ==
  ASSUME NEW kind \in Kinds
  PROVE  NormalizeAuthorizationKind(TypeHash(kind)) = {kind}
<1>1. TypeHash(kind) \in Spellings(kind)
  BY KindsDiffer DEF Spellings, TypeHash
<1> QED BY <1>1, SpellingsDiffer DEF NormalizeAuthorizationKind

(* What a message is read as.                                                  *)
LEMMA Parsed ==
  ASSUME NEW doc, NEW m \in ParseMessageJSON(doc)
  PROVE  \E kind \in ParseKind(Root(doc)), domain \in ParseDomain(Root(doc).domain) :
           \E auth \in ParseAuthorization(kind, Root(doc).message) :
             m = [Domain |-> domain, Authorization |-> auth, Signature |-> ParseSignature(doc)]
BY DEF ParseMessageJSON, Root

LEMMA ParsedKind ==
  ASSUME NEW root, NEW kind \in ParseKind(root)
  PROVE  kind \in Kinds /\ ParseKind(root) = {kind}
<1>1. ASSUME NEW text, kind \in NormalizeAuthorizationKind(text)
      PROVE  kind \in Kinds /\ NormalizeAuthorizationKind(text) = {kind}
  BY <1>1, SpellingsDiffer DEF NormalizeAuthorizationKind
<1> QED BY <1>1 DEF ParseKind

LEMMA ParsedAuthorization ==
  ASSUME NEW kind \in Kinds, NEW message, NEW auth \in ParseAuthorization(kind, message)
  PROVE  Well(auth) /\ auth.Kind = kind /\ ParseAuthorization(kind, message) = {auth}
<1> DEFINE read == [field \in AuthorizationFields(kind) \cup {"Kind"} |->
                      IF field = "Kind" THEN kind ELSE message[SourceField(field, message)]]
<1>1. auth = read /\ ParseAuthorization(kind, message) = {auth}
  BY DEF ParseAuthorization
<1>2. auth.Kind = kind /\ auth = [field \in AuthorizationFields(kind) \cup {"Kind"} |-> auth[field]]
  BY <1>1
<1>3. /\ SignerAddress(auth) \in Addresses /\ auth.Nonce # Absent
      /\ kind \in TransferKinds =>
           auth.Value \in Int /\ {auth.ValidAfter, auth.ValidBefore} \subseteq 0 .. UINT64 - 1
  BY DEF ParseAuthorization
<1> HIDE DEF read
<1> QED BY <1>1, <1>2, <1>3 DEF Well, HasFields

LEMMA ParsedWell ==
  ASSUME NEW doc, NEW m \in ParseMessageJSON(doc)
  PROVE  /\ Well(m.Authorization) /\ IsDomain(m.Domain) /\ m.Domain.ChainID \in Int
         /\ m = [Domain |-> m.Domain, Authorization |-> m.Authorization, Signature |-> ParseSignature(doc)]
         /\ m.Signature = ParseSignature(doc)
         /\ ParseMessageJSON(doc) = {m}
<1>1. PICK kind \in ParseKind(Root(doc)), domain \in ParseDomain(Root(doc).domain) :
        \E auth \in ParseAuthorization(kind, Root(doc).message) :
          m = [Domain |-> domain, Authorization |-> auth, Signature |-> ParseSignature(doc)]
  BY Parsed
<1>2. PICK auth \in ParseAuthorization(kind, Root(doc).message) :
        m = [Domain |-> domain, Authorization |-> auth, Signature |-> ParseSignature(doc)]
  BY <1>1
<1>3. kind \in Kinds /\ ParseKind(Root(doc)) = {kind}
  BY ParsedKind
<1>4. Well(auth) /\ ParseAuthorization(kind, Root(doc).message) = {auth}
  BY <1>3, ParsedAuthorization
<1>5. IsDomain(domain) /\ domain.ChainID \in Int /\ ParseDomain(Root(doc).domain) = {domain}
  BY DEF ParseDomain, IsDomain, DomainFields
<1>6. ParseMessageJSON(doc) = {m}
  BY <1>2, <1>3, <1>4, <1>5 DEF ParseMessageJSON, Root
<1> QED BY <1>2, <1>4, <1>5, <1>6

-----------------------------------------------------------------------------
(* What is written can be read: the same authorization, the same signature,    *)
(* and the domain with 0 for a chain id that is not known.                     *)
ReadsAs(m, signature) ==
  [Domain |-> DomainObject(m.Domain), Authorization |-> m.Authorization, Signature |-> signature]

\* The fields by which typed data is read.
TypedDataFields == {"primaryType", "domain", "message"}
Terms(doc) == IF "typedData" \in DOMAIN doc THEN doc.typedData
              ELSE [field \in TypedDataFields |-> doc[field]]
IsTypedData(doc) ==
  TypedDataFields \subseteq DOMAIN Root(doc) /\ "authorizationType" \notin DOMAIN Root(doc)

LEMMA TypedDataRead ==
  ASSUME NEW m, Well(m.Authorization), IsDomain(m.Domain),
         NEW doc, IsTypedData(doc), Terms(doc) = TypedDataObject(m)
  PROVE  ParseMessageJSON(doc) = {ReadsAs(m, ParseSignature(doc))}
<1> DEFINE auth == m.Authorization
           root == Root(doc)
<1>0. /\ root.primaryType = PrimaryType(auth.Kind) /\ root.domain = DomainObject(m.Domain)
      /\ root.message = MessageObject(auth)
      /\ "primaryType" \in DOMAIN root /\ "authorizationType" \notin DOMAIN root
      /\ {"domain", "message"} \subseteq DOMAIN root
  BY DEF Root, Terms, TypedDataFields, TypedDataObject, IsTypedData
<1>1. auth.Kind \in Kinds
  BY DEF Well, HasFields
<1>2. ParseKind(root) = {auth.Kind}
  BY <1>0, <1>1, TypeHashNormalizes DEF ParseKind, PrimaryType
<1>3. root.message = [field \in AuthorizationFields(auth.Kind) |-> auth[field]]
  <2>1. "Kind" \notin AuthorizationFields(auth.Kind)
    BY DEF AuthorizationFields
  <2>2. DOMAIN auth \ {"Kind"} = AuthorizationFields(auth.Kind)
    BY <2>1 DEF Well, HasFields
  <2> QED BY <1>0, <2>2 DEF MessageObject
<1>4. \A field \in AuthorizationFields(auth.Kind) : SourceField(field, root.message) = field
  BY <1>3 DEF SourceField
<1>5. auth = [field \in AuthorizationFields(auth.Kind) \cup {"Kind"} |->
                IF field = "Kind" THEN auth.Kind ELSE root.message[SourceField(field, root.message)]]
  BY <1>3, <1>4 DEF Well, HasFields
<1>6. ParseAuthorization(auth.Kind, root.message) = {auth}
  <2>1. \A field \in AuthorizationFields(auth.Kind) :
          SourceField(field, root.message) \in DOMAIN root.message
    BY <1>3, <1>4
  <2> HIDE DEF auth, root
  <2> QED BY <1>5, <2>1 DEF ParseAuthorization, Well, HasFields, auth
<1>7. root.domain = DomainObject(m.Domain) /\ ParseDomain(root.domain) = {DomainObject(m.Domain)}
  <2> DEFINE d == DomainObject(m.Domain)
  <2>1. d = [field \in DomainFields |-> d[field]] /\ d.ChainID \in Int
    BY DEF DomainObject, IsDomain, DomainFields
  <2>3. {"ChainID", "VerifyingContract"} \subseteq DOMAIN d /\ DOMAIN d = DomainFields
    BY <2>1 DEF DomainFields
  <2>2. root.domain = d
    BY <1>0
  <2> HIDE DEF d, root
  <2>4. ParseDomain(d) = {[field \in DomainFields |-> d[field]]}
    BY <2>1, <2>3 DEF ParseDomain
  <2> QED BY <1>0, <2>1, <2>2, <2>4 DEF d
<1> HIDE DEF auth, root
<1> QED BY <1>0, <1>2, <1>6, <1>7 DEF ParseMessageJSON, Root, ReadsAs, auth, root

\* A message as a command holds it, before it is written.
IsMessage(m) ==
  /\ Well(m.Authorization) /\ IsDomain(m.Domain)
  /\ m = [Domain |-> m.Domain, Authorization |-> m.Authorization, Signature |-> m.Signature]
  /\ m.Domain.ChainID = Absent => m.Domain.Name = ""

\* The document says that its signature is valid.
Claims(doc) == "signatureValid" \in DOMAIN doc /\ TRUE \in doc.signatureValid

LEMMA PrintedRead ==
  ASSUME NEW m, IsMessage(m), NEW valid, NEW doc, doc = SignedAuthorizationObject(m, valid)
  PROVE  /\ ParseMessageJSON(doc) = {ReadsAs(m, m.Signature)} /\ ParseSignature(doc) = m.Signature
         /\ IsTypedData(doc) /\ Terms(doc) = TypedDataObject(m)
         /\ Claims(doc) <=> TRUE \in valid
<1>1. "typedData" \in DOMAIN doc /\ doc.typedData = TypedDataObject(m)
  BY DEF SignedAuthorizationObject
<1>2. IsTypedData(doc) /\ Terms(doc) = TypedDataObject(m)
  BY <1>1 DEF IsTypedData, TypedDataFields, Terms, Root, TypedDataObject
<1>3. ParseSignature(doc) = m.Signature
  BY DEF SignedAuthorizationObject, ParseSignature
<1>4. Claims(doc) <=> TRUE \in valid
  BY DEF SignedAuthorizationObject, Claims
<1> QED BY <1>2, <1>3, <1>4, TypedDataRead DEF IsMessage

LEMMA DryRunRead ==
  ASSUME NEW m, IsMessage(m), NEW doc, doc = TypedDataObject(m)
  PROVE  /\ ParseMessageJSON(doc) = {ReadsAs(m, NoSignature)} /\ ParseSignature(doc) = NoSignature
         /\ IsTypedData(doc) /\ Terms(doc) = TypedDataObject(m) /\ ~Claims(doc)
<1>1. DOMAIN doc = TypedDataFields /\ doc = [field \in TypedDataFields |-> doc[field]]
  BY DEF TypedDataObject, TypedDataFields
<1>2. IsTypedData(doc) /\ Terms(doc) = TypedDataObject(m)
  BY <1>1 DEF IsTypedData, Terms, Root, TypedDataFields
<1>3. ParseSignature(doc) = NoSignature /\ ~Claims(doc)
  BY <1>1 DEF TypedDataFields, ParseSignature, Claims
<1> QED BY <1>2, <1>3, TypedDataRead DEF IsMessage

(* A message that verifies, or that knows its chain, is read as it was written.*)
LEMMA ReadsAsWritten ==
  ASSUME NEW m, IsMessage(m), m.Domain.ChainID # Absent
  PROVE  ReadsAs(m, m.Signature) = m
BY DEF IsMessage, ReadsAs, DomainObject, IsDomain, DomainFields

LEMMA VerifiedRead ==
  ASSUME NEW m, IsMessage(m), VerifySignedAuthorization(m)
  PROVE  ReadsAs(m, m.Signature) = m
BY ReadsAsWritten DEF IsMessage, VerifySignedAuthorization, ValidDomain

(* Writing again what was read changes nothing.                                *)
LEMMA WrittenAgain ==
  ASSUME NEW m, IsMessage(m), NEW signature
  PROVE  TypedDataObject(ReadsAs(m, signature)) = TypedDataObject(m)
<1>1. DomainObject(DomainObject(m.Domain)) = DomainObject(m.Domain)
  BY DocumentsAssumption DEF IsMessage, DomainObject, IsDomain, DomainFields
<1> QED BY <1>1 DEF TypedDataObject, ReadsAs

(* A wallet adds the signature and nothing else.                               *)
Beside(doc, signature) ==
  [field \in DOMAIN doc \cup {"signature"} |-> IF field = "signature" THEN signature ELSE doc[field]]

LEMMA SignedBeside ==
  ASSUME NEW doc, NEW u \in ParseMessageJSON(doc), NEW signature, NEW new, new = Beside(doc, signature)
  PROVE  /\ ParseMessageJSON(new) = {[u EXCEPT !.Signature = signature]}
         /\ ParseSignature(new) = signature /\ (Claims(new) <=> Claims(doc))
         /\ IsTypedData(doc) => IsTypedData(new) /\ Terms(new) = Terms(doc)
<1>1. /\ \A field : field # "signature" => (field \in DOMAIN new <=> field \in DOMAIN doc)
      /\ \A field \in DOMAIN new : field # "signature" => new[field] = doc[field]
      /\ ParseSignature(new) = signature
  BY DEF Beside, ParseSignature
<1>2. Claims(new) <=> Claims(doc)
  BY <1>1 DEF Claims
<1>3. PICK domain, auth : u = [Domain |-> domain, Authorization |-> auth, Signature |-> ParseSignature(doc)]
  BY Parsed
<1>4. ASSUME "typedData" \in DOMAIN doc
      PROVE  Root(new) = Root(doc) /\ Terms(new) = Terms(doc)
  BY <1>1, <1>4 DEF Root, Terms
<1>5. ASSUME "typedData" \notin DOMAIN doc
      PROVE  /\ Root(new) = new /\ Root(doc) = doc
             /\ IsTypedData(doc) => IsTypedData(new) /\ Terms(new) = Terms(doc)
  <2>1. "typedData" \notin DOMAIN new /\ Root(new) = new /\ Root(doc) = doc
    BY <1>1, <1>5 DEF Root
  <2>2. ASSUME IsTypedData(doc)
        PROVE  IsTypedData(new) /\ Terms(new) = Terms(doc)
    <3>1. \A field \in TypedDataFields : field \in DOMAIN new /\ new[field] = doc[field]
      BY <1>1, <2>1, <2>2 DEF IsTypedData, TypedDataFields
    <3> QED BY <1>1, <1>5, <2>1, <2>2, <3>1 DEF IsTypedData, Terms
  <2> QED BY <2>1, <2>2
<1>6. /\ ParseKind(Root(new)) = ParseKind(Root(doc))
      /\ {"domain", "message"} \subseteq DOMAIN Root(doc) => 
           /\ {"domain", "message"} \subseteq DOMAIN Root(new)
           /\ Root(new).domain = Root(doc).domain /\ Root(new).message = Root(doc).message
  BY <1>1, <1>4, <1>5 DEF ParseKind
<1>7. {"domain", "message"} \subseteq DOMAIN Root(doc)
  BY DEF ParseMessageJSON, Root
<1>8. ParseMessageJSON(new) =
        UNION {{[Domain |-> d, Authorization |-> a, Signature |-> signature] :
                  d \in ParseDomain(Root(doc).domain), a \in ParseAuthorization(kind, Root(doc).message)} :
                 kind \in ParseKind(Root(doc))}
  BY <1>1, <1>6, <1>7 DEF ParseMessageJSON, Root
<1>9. [u EXCEPT !.Signature = signature] \in ParseMessageJSON(new)
  <2>1. PICK kind \in ParseKind(Root(doc)), d \in ParseDomain(Root(doc).domain) :
          \E a \in ParseAuthorization(kind, Root(doc).message) :
            u = [Domain |-> d, Authorization |-> a, Signature |-> ParseSignature(doc)]
    BY Parsed
  <2>2. PICK a \in ParseAuthorization(kind, Root(doc).message) :
          u = [Domain |-> d, Authorization |-> a, Signature |-> ParseSignature(doc)]
    BY <2>1
  <2>3. [u EXCEPT !.Signature = signature] = [Domain |-> d, Authorization |-> a, Signature |-> signature]
    BY <2>2
  <2> QED BY <1>8, <2>3
<1>10. ParseMessageJSON(new) = {[u EXCEPT !.Signature = signature]}
  BY <1>9, ParsedWell
<1> QED BY <1>1, <1>2, <1>4, <1>5, <1>10 DEF IsTypedData

-----------------------------------------------------------------------------
(* The arguments that are packed for a message, and what is decoded from them. *)
LEMMA PackedIsArguments ==
  ASSUME NEW auth, Well(auth)
  PROVE  /\ IsArguments(AbiArguments(auth))
         /\ AuthorizationStructHash(AbiArguments(auth)) = AuthorizationStructHash(auth)
<1>1. CASE auth.Kind \notin TransferKinds
  BY <1>1 DEF AbiArguments, IsArguments, Well
<1>2. CASE auth.Kind \in TransferKinds
  <2> DEFINE a == AbiArguments(auth)
  <2>1. a = [auth EXCEPT !.Value = U256(@)]
    BY <1>2 DEF AbiArguments
  <2>2. auth.Value \in Int /\ U256(auth.Value) \in 0 .. UINT256 - 1
        /\ U256(U256(auth.Value)) = U256(auth.Value)
    BY <1>2, WidthAssumption DEF Well, U256
  <2>3. auth = [field \in AuthorizationFields(auth.Kind) \cup {"Kind"} |-> auth[field]]
    BY DEF Well, HasFields
  <2>4. {"Value", "Kind", "From", "Nonce", "ValidAfter", "ValidBefore"}
          \subseteq AuthorizationFields(auth.Kind) \cup {"Kind"}
    BY <1>2, KindsDiffer DEF AuthorizationFields
  <2>5. /\ DOMAIN a = AuthorizationFields(auth.Kind) \cup {"Kind"} /\ a.Value = U256(auth.Value)
        /\ \A field \in DOMAIN a : field # "Value" => a[field] = auth[field]
    BY <2>1, <2>3, <2>4
  <2>6. a.Kind = auth.Kind /\ a.Nonce = auth.Nonce /\ SignerAddress(a) = SignerAddress(auth)
        /\ a.ValidAfter = auth.ValidAfter /\ a.ValidBefore = auth.ValidBefore
    BY <1>2, <2>4, <2>5 DEF SignerAddress
  <2>7. a = [field \in AuthorizationFields(a.Kind) \cup {"Kind"} |-> a[field]]
    BY <2>1, <2>3, <2>5, <2>6
  <2>8. HasFields(a)
    BY <2>6, <2>7 DEF Well, HasFields
  <2>9. IsArguments(a)
    BY <1>2, <2>2, <2>5, <2>6, <2>8, DocumentsAssumption DEF IsArguments, Well
  <2>10. [a EXCEPT !.Value = U256(@)] = a
    <3> HIDE DEF a
    <3> QED BY <2>2, <2>5, <2>7
  <2>11. AbiArguments(a) = a
    BY <1>2, <2>6, <2>10 DEF AbiArguments
  <2> HIDE DEF a
  <2> QED BY <2>9, <2>11 DEF AuthorizationStructHash, a
<1> QED BY <1>1, <1>2

LEMMA ArgumentsPacked ==
  ASSUME NEW args, IsArguments(args)
  PROVE  AbiArguments(args) = args
<1>1. CASE args.Kind \in TransferKinds
  <2>1. U256(args.Value) = args.Value
    BY <1>1, WidthAssumption DEF IsArguments, U256
  <2> QED BY <1>1, <2>1 DEF AbiArguments, IsArguments, HasFields
<1> QED BY <1>1 DEF AbiArguments

LEMMA DecodedIsMessage ==
  ASSUME NEW c, IsArguments(c.args), NEW m \in DecodeExecuteCalldata(c)
  PROVE  /\ IsMessage(m) /\ m = Decoded(c, c.args)
         /\ m.Authorization = c.args /\ m.Domain = NoDomain /\ m.Signature.RS = c.rs
         /\ AbiArguments(m.Authorization) = c.args
<1>1. m = Decoded(c, c.args)
  BY DEF DecodeExecuteCalldata
<1>2. m.Authorization = c.args /\ m.Domain = NoDomain /\ m.Signature = [V |-> c.v, RS |-> c.rs]
      /\ m = [Domain |-> m.Domain, Authorization |-> m.Authorization, Signature |-> m.Signature]
  BY <1>1 DEF Decoded
<1>3. c.args.Kind \in TransferKinds => c.args.ValidAfter < UINT64 /\ c.args.ValidBefore < UINT64
  BY DEF DecodeExecuteCalldata
<1>4. Well(c.args)
  BY <1>3, WidthAssumption, DocumentsAssumption DEF Well, IsArguments
<1>5. IsDomain(NoDomain) /\ NoDomain.Name = ""
  BY DEF IsDomain, NoDomain, DomainFields
<1>6. IsMessage(m)
  BY <1>2, <1>4, <1>5 DEF IsMessage
<1> QED BY <1>1, <1>2, <1>6, ArgumentsPacked

LEMMA ParsedIsMessage ==
  ASSUME NEW doc, NEW m \in ParseMessageJSON(doc)
  PROVE  IsMessage(m)
BY ParsedWell, DocumentsAssumption DEF IsMessage

(* extract shows the message, maybe with another contract.                     *)
Shown(m, token) == IF token = Absent THEN m ELSE [m EXCEPT !.Domain.VerifyingContract = token]

LEMMA ShownIsMessage ==
  ASSUME NEW m, IsMessage(m), NEW token
  PROVE  /\ IsMessage(Shown(m, token))
         /\ Shown(m, token).Authorization = m.Authorization /\ Shown(m, token).Signature = m.Signature
         /\ \A field \in {"Name", "Version", "ChainID"} :
              Shown(m, token).Domain[field] = m.Domain[field]
<1> DEFINE d == [m.Domain EXCEPT !.VerifyingContract = token]
<1>1. ASSUME token # Absent
      PROVE  Shown(m, token) = [Domain |-> d, Authorization |-> m.Authorization, Signature |-> m.Signature]
  BY <1>1 DEF Shown, IsMessage
<1>2. IsDomain(d) /\ \A field \in {"Name", "Version", "ChainID"} : d[field] = m.Domain[field]
  BY DEF IsMessage, IsDomain, DomainFields
<1> HIDE DEF d
<1>3. CASE token = Absent
  BY <1>3 DEF Shown
<1>4. CASE token # Absent
  <2> DEFINE shown == Shown(m, token)
  <2>1. /\ shown = [Domain |-> d, Authorization |-> m.Authorization, Signature |-> m.Signature]
        /\ shown.Domain = d /\ shown.Authorization = m.Authorization /\ shown.Signature = m.Signature
    BY <1>1, <1>4
  <2> HIDE DEF shown
  <2>2. IsMessage(shown)
    BY <1>2, <2>1 DEF IsMessage
  <2> QED BY <1>2, <2>1, <2>2 DEF shown
<1> QED BY <1>3, <1>4

-----------------------------------------------------------------------------
(***************************************************************************)
(* What a step can do.  A command prints a message that it has signed, or  *)
(* one that carries the terms and the signature of a message it has read.  *)
(***************************************************************************)
Prints(m, valid) ==
  /\ IsMessage(m) /\ (TRUE \in valid => VerifySignedAuthorization(m))
  /\ documents' = documents \cup {SignedAuthorizationObject(m, valid)}

Signs(m) ==
  /\ m.Signature.RS.digest = TypedDataHash(m.Domain, m.Authorization)
  /\ m.Domain.ChainID # Absent
  /\ originals' = originals \cup {<<AbiArguments(m.Authorization), m.Signature.RS>>}
  /\ calldatas' \subseteq calldatas \cup {EncodeExecuteCalldata(m)}

Carries(m, read) ==
  /\ m.Authorization = read.Authorization
  /\ \A field \in {"Name", "Version", "ChainID"} : m.Domain[field] = read.Domain[field]
  /\ \/ m.Signature = NoSignature /\ read.Signature = NoSignature
     \/ read.Signature # NoSignature /\ m.Signature.RS = read.Signature.RS

Relays(m, read) ==
  /\ Carries(m, read) /\ originals' = originals
  /\ \/ calldatas' = calldatas
     \/ read.Signature # NoSignature /\ calldatas' = calldatas \cup {EncodeExecuteCalldata(m)}

\* The messages that a command can read.
Readable(m) ==
  \/ \E doc \in documents : m \in ParseMessageJSON(doc)
  \/ \E c \in calldatas : m \in DecodeExecuteCalldata(c)

CallsWell == \A c \in calldatas : IsArguments(c.args)

(* sign: what SignAuthorization returns was checked and signed.                *)
LEMMA Signed ==
  ASSUME NEW domain, NEW auth, NEW key, Well(auth), IsDomain(domain), domain.ChainID # Absent,
         NEW m \in SignAuthorization(domain, auth, key)
  PROVE  /\ IsMessage(m) /\ m.Domain = domain /\ m.Authorization = auth
         /\ m.Signature.RS.digest = TypedDataHash(domain, auth)
         /\ m.Signature.RS.signer = key /\ m.Signature.RS.recid = RecoveryId(key, TypedDataHash(domain, auth))
         /\ m.Signature.V = m.Signature.RS.recid + 27
         /\ ValidDomain(domain) /\ ValidAuthorization(auth)
<1> DEFINE digest == TypedDataHash(domain, auth)
           rs == RawSignature(key, digest)
<1>1. /\ m = [Domain |-> domain, Authorization |-> auth, Signature |-> [V |-> rs.recid + 27, RS |-> rs]]
      /\ ValidDomain(domain) /\ ValidAuthorization(auth)
  BY DEF SignAuthorization
<1>2. rs.signer = key /\ rs.digest = digest /\ rs.recid = RecoveryId(key, digest)
  BY DEF RawSignature
<1> HIDE DEF rs
<1>3. m.Domain = domain /\ m.Authorization = auth /\ m.Signature = [V |-> rs.recid + 27, RS |-> rs]
      /\ m.Signature.RS = rs
  BY <1>1
<1>4. IsMessage(m)
  BY <1>1, <1>3 DEF IsMessage
<1> QED BY <1>1, <1>2, <1>3, <1>4

LEMMA UnsignedIsMessage ==
  ASSUME NEW o \in SignOptions, NEW now \in WallClock, NEW u \in UnsignedMessages(o, now)
  PROVE  /\ IsMessage(u) /\ u.Domain.ChainID # Absent /\ u.Signature = NoSignature
         /\ u.Authorization.ValidBefore \in ResolveValidBefore(o, now)
<1> DEFINE from == IF o.DryRun \/ o.From # ZeroAddress THEN o.From ELSE o.Key
<1>1. PICK kind \in NormalizeAuthorizationKind(o.Type) \cap TransferKinds,
           validBefore \in ResolveValidBefore(o, now) :
        u = [Domain        |-> [Name |-> o.Name, Version |-> o.Version, ChainID |-> o.ChainID,
                                VerifyingContract |-> o.Token],
             Authorization |-> [Kind |-> kind, From |-> from, To |-> o.To, Value |-> o.Value,
                                ValidAfter |-> o.ValidAfter, ValidBefore |-> validBefore,
                                Nonce |-> o.Nonce],
             Signature     |-> NoSignature]
  BY DEF UnsignedMessages
<1>2. from \in Addresses
  BY OptionsAssumption DEF Addresses
<1>3. validBefore \in 0 .. UINT64 - 1
  BY OptionsAssumption, DocumentsAssumption DEF ResolveValidBefore
<1> HIDE DEF from
<1>4. /\ u.Domain = [Name |-> o.Name, Version |-> o.Version, ChainID |-> o.ChainID,
                     VerifyingContract |-> o.Token]
      /\ u.Authorization = [Kind |-> kind, From |-> from, To |-> o.To, Value |-> o.Value,
                            ValidAfter |-> o.ValidAfter, ValidBefore |-> validBefore, Nonce |-> o.Nonce]
      /\ u.Signature = NoSignature
      /\ u = [Domain |-> u.Domain, Authorization |-> u.Authorization, Signature |-> u.Signature]
  BY <1>1
<1>5. HasFields(u.Authorization)
  <2>1. AuthorizationFields(kind) = {"From", "To", "Value", "ValidAfter", "ValidBefore", "Nonce"}
    BY KindsDiffer DEF AuthorizationFields
  <2>2. SignerAddress(u.Authorization) = from
    BY <1>4 DEF SignerAddress
  <2>3. u.Authorization = [field \in AuthorizationFields(kind) \cup {"Kind"} |-> u.Authorization[field]]
    BY <1>4, <2>1
  <2> QED BY <1>2, <1>4, <2>2, <2>3, OptionsAssumption DEF HasFields, Kinds
<1>6. Well(u.Authorization)
  BY <1>3, <1>4, <1>5, OptionsAssumption DEF Well
<1>7. IsDomain(u.Domain) /\ u.Domain.ChainID # Absent
  BY <1>4, OptionsAssumption, DocumentsAssumption DEF IsDomain, DomainFields
<1>8. IsMessage(u)
  BY <1>4, <1>6, <1>7 DEF IsMessage
<1> QED BY <1>4, <1>7, <1>8

LEMMA SignStep ==
  ASSUME NEW o \in SignOptions, NEW now \in WallClock, RunSign(o, now)
  PROVE  \E m, valid : Prints(m, valid) /\ Signs(m)
<1>1. PICK m \in SignedMessages(o, now) :
        /\ Keep(SignedAuthorizationObject(m, IF o.Verify THEN {TRUE} ELSE {}))
        /\ Join(m) /\ UNCHANGED calldatas
  BY DEF RunSign
<1>2. PICK u \in UnsignedMessages(o, now) :
        /\ m \in SignAuthorization(u.Domain, u.Authorization, o.Key)
        /\ o.Verify => VerifySignedAuthorization(m)
  BY DEF SignedMessages
<1>3. Well(u.Authorization) /\ IsDomain(u.Domain) /\ u.Domain.ChainID # Absent
  BY UnsignedIsMessage DEF IsMessage
<1>4. /\ IsMessage(m) /\ m.Domain = u.Domain /\ m.Authorization = u.Authorization
      /\ m.Signature.RS.digest = TypedDataHash(u.Domain, u.Authorization)
  BY <1>2, <1>3, Signed
<1>5. Prints(m, IF o.Verify THEN {TRUE} ELSE {})
  BY <1>1, <1>2, <1>4 DEF Prints, Keep
<1>6. Signs(m)
  BY <1>1, <1>3, <1>4 DEF Signs, Join
<1> QED BY <1>5, <1>6

(* cancel signs for the domain and the nonce that it has found.                *)
CancelTerms(o, sources) ==
  [Kind |-> CancelAuthorization, Authorizer |-> CancelAuthorizer(o, sources), Nonce |-> CancelNonce(o, sources)]

CancelBase(sources) == IF sources = {} THEN NoDomain ELSE (CHOOSE m \in sources : TRUE).Domain

LEMMA CancelDomainKnown ==
  ASSUME NEW o \in CancelOptions, NEW base, base.ChainID \in Int \cup {Absent},
         NEW domain \in CancelDomain(o, base)
  PROVE  IsDomain(domain) /\ domain.ChainID # Absent
<1>1. PICK name, version, verifying :
        domain = [Name |-> name, Version |-> version,
                  ChainID |-> Given(o.ChainID, Given(base.ChainID, NodeChainID)),
                  VerifyingContract |-> verifying]
  BY DEF CancelDomain
<1>2. Given(o.ChainID, Given(base.ChainID, NodeChainID)) \in Int
  BY OptionsAssumption, DocumentsAssumption DEF Given
<1>3. domain.ChainID \in Int /\ domain = [field \in DomainFields |-> domain[field]]
  BY <1>1, <1>2 DEF DomainFields
<1> QED BY <1>3, DocumentsAssumption DEF IsDomain

LEMMA CancelSigned ==
  ASSUME NEW o \in CancelOptions, NEW sources, CancelBase(sources).ChainID \in Int \cup {Absent},
         NEW m \in CancelResult(o, sources)
  PROVE  \E domain \in CancelDomain(o, CancelBase(sources)) :
           /\ IsDomain(domain) /\ domain.ChainID # Absent
           /\ Well(CancelTerms(o, sources)) /\ CancelAuthorizer(o, sources) = o.Key
           /\ m \in SignAuthorization(domain, CancelTerms(o, sources), o.Key)
           /\ o.Verify => VerifySignedAuthorization(m)
<1>1. PICK domain \in CancelDomain(o, CancelBase(sources)) :
        /\ m \in SignAuthorization(domain, CancelTerms(o, sources), o.Key)
        /\ CancelAuthorizer(o, sources) = o.Key /\ CancelNonce(o, sources) # Absent
        /\ o.Verify => VerifySignedAuthorization(m)
  BY DEF CancelResult, CancelTerms, CancelBase
<1> DEFINE auth == CancelTerms(o, sources)
<1>2. /\ auth = [Kind |-> CancelAuthorization, Authorizer |-> o.Key, Nonce |-> CancelNonce(o, sources)]
      /\ auth.Kind = CancelAuthorization /\ auth.Authorizer = o.Key /\ auth.Nonce # Absent
  BY <1>1 DEF CancelTerms
<1>3. AuthorizationFields(auth.Kind) = {"Authorizer", "Nonce"}
  BY <1>2 DEF AuthorizationFields
<1>4. SignerAddress(auth) \in Addresses
  BY <1>2, KindsDiffer, OptionsAssumption DEF SignerAddress, Addresses
<1>5. Well(auth)
  <2> HIDE DEF auth
  <2> QED BY <1>2, <1>3, <1>4, KindsDiffer DEF Well, HasFields
<1> QED BY <1>1, <1>5, CancelDomainKnown

LEMMA CancelStep ==
  ASSUME NEW o \in CancelOptions, NEW sources, CancelBase(sources).ChainID \in Int \cup {Absent},
         RunCancel(o, sources)
  PROVE  \E m, valid : Prints(m, valid) /\ Signs(m)
<1>1. PICK m \in CancelResult(o, sources) :
        /\ Keep(SignedAuthorizationObject(m, {o.Verify})) /\ Join(m)
        /\ IF o.DryRun THEN UNCHANGED calldatas ELSE Publish(m)
  BY DEF RunCancel
<1>2. PICK domain \in CancelDomain(o, CancelBase(sources)) :
        /\ IsDomain(domain) /\ domain.ChainID # Absent /\ Well(CancelTerms(o, sources))
        /\ m \in SignAuthorization(domain, CancelTerms(o, sources), o.Key)
        /\ o.Verify => VerifySignedAuthorization(m)
  BY CancelSigned
<1>3. /\ IsMessage(m) /\ m.Domain = domain /\ m.Authorization = CancelTerms(o, sources)
      /\ m.Signature.RS.digest = TypedDataHash(domain, CancelTerms(o, sources))
  BY <1>2, Signed
<1>4. Prints(m, {o.Verify})
  BY <1>1, <1>2, <1>3 DEF Prints, Keep
<1>5. calldatas' \subseteq calldatas \cup {EncodeExecuteCalldata(m)}
  BY <1>1 DEF Publish
<1>6. Signs(m)
  BY <1>1, <1>2, <1>3, <1>5 DEF Signs, Join
<1> QED BY <1>4, <1>6

(* extract prints what it has read, and its own verdict.                       *)
LEMMA ExtractPrints ==
  ASSUME NEW read, IsMessage(read), NEW token, Keep(Extract(read, token)),
         UNCHANGED <<calldatas, originals>>
  PROVE  \E m, valid : Prints(m, valid) /\ Relays(m, read)
<1> DEFINE m == Shown(read, token)
           valid == IF m.Signature = NoSignature THEN {} ELSE {VerifySignedAuthorization(m)}
<1>1. Extract(read, token) = SignedAuthorizationObject(m, valid)
  BY ShownIsMessage DEF Extract, Shown
<1>2. TRUE \in valid => VerifySignedAuthorization(m)
  OBVIOUS
<1>3. IsMessage(m) /\ Carries(m, read)
  <2> HIDE DEF m
  <2> QED BY ShownIsMessage DEF m, Carries
<1> HIDE DEF m, valid
<1>4. Prints(m, valid)
  BY <1>1, <1>2, <1>3 DEF Prints, Keep
<1>5. Relays(m, read)
  BY <1>3 DEF Relays
<1> QED BY <1>4, <1>5

(* broadcast publishes what it has read, with the v that was resolved.         *)
LEMMA ResolvedVerifies ==
  ASSUME NEW m, IsMessage(m), NEW policy, NEW resolved \in ResolveSignatureV(m.Signature, policy)
  PROVE  /\ resolved.RS = m.Signature.RS
         /\ VerifySignedAuthorization(m) /\ resolved # NoSignature =>
              VerifySignedAuthorization([m EXCEPT !.Signature = resolved])
<1> DEFINE sent == [m EXCEPT !.Signature = resolved]
<1>1. resolved.RS = m.Signature.RS
  BY DEF ResolveSignatureV
<1>2. ASSUME m.Signature.V \in SolidityVs \cup {0, 1}
      PROVE  resolved.V \in SolidityVs \cup {0, 1} /\ RecoveryBit(resolved.V) = RecoveryBit(m.Signature.V)
  BY <1>2 DEF ResolveSignatureV, SolidityVs, RecoveryBit
<1>3. sent.Signature = resolved /\ sent.Domain = m.Domain /\ sent.Authorization = m.Authorization
  BY DEF IsMessage
<1> HIDE DEF sent
<1>4. VerifySignedAuthorization(m) /\ resolved # NoSignature => VerifySignedAuthorization(sent)
  BY <1>1, <1>2, <1>3 DEF VerifySignedAuthorization
<1> QED BY <1>1, <1>4 DEF sent

(***************************************************************************)
(* Two facts about signatures, which their byte format guarantees and the  *)
(* symbolic model leaves open: what is signed is told apart from a nil     *)
(* pointer, and its recovery id is a bit.                                  *)
(***************************************************************************)
SignatureFormat ==
  /\ \A v, rs : [V |-> v, RS |-> rs] # NoSignature
  /\ \A key, digest : RecoveryId(key, digest) \in {0, 1}

LEMMA BroadcastStep ==
  ASSUME SignatureFormat, NEW doc \in documents, NEW verify, NEW policy,
         RunBroadcast(doc, verify, policy)
  PROVE  \E read, m, valid : Readable(read) /\ Prints(m, valid) /\ Relays(m, read)
<1>1. PICK read \in ParseMessageJSON(doc) :
        /\ read.Signature # NoSignature
        /\ verify => PassesVerify(doc, read)
        /\ \E resolved \in ResolveSignatureV(read.Signature, policy) :
             LET sent == [read EXCEPT !.Signature = resolved] IN
             Publish(sent) /\ Keep(SignedAuthorizationObject(sent, {verify}))
  BY DEF RunBroadcast
<1>2. PICK resolved \in ResolveSignatureV(read.Signature, policy) :
        LET sent == [read EXCEPT !.Signature = resolved] IN
        Publish(sent) /\ Keep(SignedAuthorizationObject(sent, {verify}))
  BY <1>1
<1> DEFINE m == [read EXCEPT !.Signature = resolved]
<1>3. IsMessage(read) /\ Readable(read)
  BY ParsedIsMessage DEF Readable
<1>4. resolved # NoSignature
  BY <1>1 DEF SignatureFormat, ResolveSignatureV
<1>5. resolved.RS = read.Signature.RS
      /\ (VerifySignedAuthorization(read) => VerifySignedAuthorization(m))
  BY <1>3, <1>4, ResolvedVerifies
<1>6. /\ m.Signature = resolved /\ m.Domain = read.Domain /\ m.Authorization = read.Authorization
      /\ m = [Domain |-> m.Domain, Authorization |-> m.Authorization, Signature |-> m.Signature]
  <2>1. read = [Domain |-> read.Domain, Authorization |-> read.Authorization, Signature |-> read.Signature]
    BY <1>3 DEF IsMessage
  <2>2. m = [Domain |-> read.Domain, Authorization |-> read.Authorization, Signature |-> resolved]
    BY <2>1
  <2> HIDE DEF m
  <2> QED BY <2>2
<1>7. Publish(m) /\ Keep(SignedAuthorizationObject(m, {verify}))
  BY <1>2
<1>8. UNCHANGED originals
  BY DEF RunBroadcast
<1> HIDE DEF m
<1>9. Prints(m, {verify})
  <2>1. TRUE \in {verify} => VerifySignedAuthorization(m)
    BY <1>1, <1>5 DEF PassesVerify
  <2>2. IsMessage(m)
    BY <1>3, <1>6 DEF IsMessage
  <2> QED BY <1>7, <2>1, <2>2 DEF Prints, Keep
<1>10. Relays(m, read)
  BY <1>1, <1>5, <1>6, <1>7, <1>8 DEF Relays, Carries, Publish
<1> QED BY <1>3, <1>9, <1>10

(* What is left is a dry run, a wallet, a file that is deleted or edited.      *)
DryRuns(u) ==
  /\ IsMessage(u) /\ documents' = documents \cup {TypedDataObject(u)}
  /\ UNCHANGED <<calldatas, originals>>

WalletAdds(doc, u, signature) ==
  /\ ParseSignature(doc) = NoSignature /\ ParseMessageJSON(doc) = {u}
  /\ signature.RS.digest = TypedDataHash(u.Domain, u.Authorization)
  /\ documents' = documents \cup {Beside(doc, signature)}
  /\ originals' = originals \cup {<<AbiArguments(u.Authorization), signature.RS>>}
  /\ calldatas' = calldatas

LEMMA DryRunStep ==
  ASSUME NEW o \in SignOptions, NEW now \in WallClock, RunSignDryRun(o, now)
  PROVE  \E u : DryRuns(u)
<1>1. PICK u \in UnsignedMessages(o, now) : Keep(TypedDataObject(u)) /\ UNCHANGED <<calldatas, originals>>
  BY DEF RunSignDryRun
<1> QED BY <1>1, UnsignedIsMessage DEF DryRuns, Keep

LEMMA WalletStep ==
  ASSUME NEW key, NEW offset, NEW doc \in documents, WalletSigns(key, offset, doc)
  PROVE  \E u, signature : WalletAdds(doc, u, signature)
<1> DEFINE Rs(u) == RawSignature(key, TypedDataHash(u.Domain, u.Authorization))
<1>1. PICK u \in ParseMessageJSON(doc) :
        LET signature == [V |-> Rs(u).recid + offset, RS |-> Rs(u)] IN
        /\ Keep(Beside(doc, signature))
        /\ Join([u EXCEPT !.Signature = signature])
  BY DEF WalletSigns, Beside
<1> DEFINE signature == [V |-> Rs(u).recid + offset, RS |-> Rs(u)]
<1>2. signature.RS.digest = TypedDataHash(u.Domain, u.Authorization)
  BY DEF RawSignature
<1>3. Keep(Beside(doc, signature)) /\ Join([u EXCEPT !.Signature = signature])
  BY <1>1
<1> HIDE DEF signature, Rs
<1>4. LET m == [u EXCEPT !.Signature = signature] IN
      m.Signature = signature /\ m.Authorization = u.Authorization
  BY ParsedWell
<1>5. ParseMessageJSON(doc) = {u} /\ ParseSignature(doc) = NoSignature /\ calldatas' = calldatas
  BY ParsedWell DEF WalletSigns
<1> QED BY <1>2, <1>3, <1>4, <1>5 DEF WalletAdds, Keep, Join

LEMMA StepForms ==
  ASSUME SignatureFormat, CallsWell, Next
  PROVE  \/ \E m, valid : Prints(m, valid) /\ Signs(m)
         \/ \E read, m, valid : Readable(read) /\ Prints(m, valid) /\ Relays(m, read)
         \/ \E u : DryRuns(u)
         \/ \E doc \in documents : \E u, signature : WalletAdds(doc, u, signature)
         \/ documents' \subseteq documents /\ UNCHANGED <<calldatas, originals>>
         \/ \E doc \in documents : EditDocument(doc)
<1>1. ASSUME NEW o \in SignOptions, NEW now \in WallClock, RunSignDryRun(o, now) \/ RunSign(o, now)
      PROVE  (\E m, valid : Prints(m, valid) /\ Signs(m)) \/ (\E u : DryRuns(u))
  BY <1>1, SignStep, DryRunStep
<1>2. ASSUME NEW key \in Accounts, NEW offset \in {0, 27}, NEW doc \in documents,
             WalletSigns(key, offset, doc)
      PROVE  \E u, signature : WalletAdds(doc, u, signature)
  BY <1>2, WalletStep
<1>3. ASSUME NEW doc \in documents, NEW token \in TokenOptions, RunExtractMessage(doc, token)
      PROVE  \E read, m, valid : Readable(read) /\ Prints(m, valid) /\ Relays(m, read)
  <2>1. PICK read \in ParseMessageJSON(doc) :
          Keep(Extract(read, token)) /\ UNCHANGED <<calldatas, originals>>
    BY <1>3 DEF RunExtractMessage
  <2>2. IsMessage(read) /\ Readable(read)
    BY ParsedIsMessage DEF Readable
  <2> QED BY <2>1, <2>2, ExtractPrints
<1>4. ASSUME NEW c \in calldatas, NEW token \in TokenOptions, RunExtractCalldata(c, token)
      PROVE  \E read, m, valid : Readable(read) /\ Prints(m, valid) /\ Relays(m, read)
  <2>1. PICK read \in DecodeExecuteCalldata(c) :
          Keep(Extract(read, token)) /\ UNCHANGED <<calldatas, originals>>
    BY <1>4 DEF RunExtractCalldata
  <2>2. IsArguments(c.args)
    BY DEF CallsWell
  <2>3. IsMessage(read)
    BY <2>2, DecodedIsMessage
  <2>4. Readable(read)
    BY DEF Readable
  <2> QED BY <2>1, <2>3, <2>4, ExtractPrints
<1>5. ASSUME NEW o \in CancelOptions, RunCancel(o, {})
      PROVE  \E m, valid : Prints(m, valid) /\ Signs(m)
  <2>1. CancelBase({}).ChainID = Absent
    BY DEF CancelBase, NoDomain
  <2> QED BY <1>5, <2>1, CancelStep
<1>6. ASSUME NEW o \in CancelOptions, NEW doc \in documents, NEW read \in ParseMessageJSON(doc),
             RunCancel(o, {read})
      PROVE  \E m, valid : Prints(m, valid) /\ Signs(m)
  <2>1. CancelBase({read}) = read.Domain
    BY DEF CancelBase
  <2>2. read.Domain.ChainID \in Int
    BY ParsedWell
  <2> QED BY <1>6, <2>1, <2>2, CancelStep
<1>7. ASSUME NEW doc \in documents, NEW verify \in BOOLEAN, NEW policy \in Policies,
             RunBroadcast(doc, verify, policy)
      PROVE  \E read, m, valid : Readable(read) /\ Prints(m, valid) /\ Relays(m, read)
  BY <1>7, BroadcastStep
<1>8. ASSUME NEW doc \in documents, Discard(doc) \/ EditDocument(doc)
      PROVE  \/ documents' \subseteq documents /\ UNCHANGED <<calldatas, originals>>
             \/ EditDocument(doc)
  BY <1>8 DEF Discard
<1> QED BY <1>1, <1>2, <1>3, <1>4, <1>5, <1>6, <1>7, <1>8 DEF Next

-----------------------------------------------------------------------------
(***************************************************************************)
(* Documents may be copied and reformatted between two commands, and lose  *)
(* what is not read, as long as they say the same.                         *)
(***************************************************************************)
OnlyCopies ==
  \A doc : \A copy \in Edits(doc) :
    /\ ParseMessageJSON(copy) = ParseMessageJSON(doc)
    /\ Claims(copy) => Claims(doc)
    /\ IsTypedData(doc) => IsTypedData(copy) /\ Terms(copy) = Terms(doc)

LEMMA CallsWellInit == ASSUME Init PROVE CallsWell
BY ForeignAssumption DEF Init, CallsWell

LEMMA CallsWellStep ==
  ASSUME SignatureFormat, CallsWell, [Next]_vars
  PROVE  CallsWell'
<1>1. ASSUME NEW m, IsMessage(m), calldatas' \subseteq calldatas \cup {EncodeExecuteCalldata(m)}
      PROVE  CallsWell'
  <2>1. IsArguments(EncodeExecuteCalldata(m).args)
    BY <1>1, PackedIsArguments DEF IsMessage, EncodeExecuteCalldata
  <2> QED BY <1>1, <2>1 DEF CallsWell
<1>2. ASSUME calldatas' = calldatas PROVE CallsWell'
  BY <1>2 DEF CallsWell
<1>3. CASE UNCHANGED vars
  BY <1>2, <1>3 DEF vars
<1>4. CASE Next
  <2>1. CASE \E m, valid : Prints(m, valid) /\ Signs(m)
    BY <1>1, <2>1 DEF Prints, Signs
  <2>2. CASE \E read, m, valid : Readable(read) /\ Prints(m, valid) /\ Relays(m, read)
    BY <1>1, <2>2 DEF Prints, Relays
  <2>3. CASE \E u : DryRuns(u)
    BY <1>2, <2>3 DEF DryRuns
  <2>4. CASE \E doc \in documents : \E u, signature : WalletAdds(doc, u, signature)
    BY <1>2, <2>4 DEF WalletAdds
  <2>5. CASE documents' \subseteq documents /\ UNCHANGED <<calldatas, originals>>
    BY <1>2, <2>5
  <2>6. CASE \E doc \in documents : EditDocument(doc)
    BY <1>2, <2>6 DEF EditDocument
  <2> QED BY <1>4, <2>1, <2>2, <2>3, <2>4, <2>5, <2>6, StepForms
<1> QED BY <1>3, <1>4

\* The document is the typed data of a message.
Rereadable(doc) == \E m : IsMessage(m) /\ IsTypedData(doc) /\ Terms(doc) = TypedDataObject(m)

ReadBackInv == CallsWell /\ \A doc \in documents : Rereadable(doc)

LEMMA ReadBackStep ==
  ASSUME SignatureFormat, OnlyCopies, ReadBackInv, [Next]_vars
  PROVE  ReadBackInv'
<1>1. CallsWell /\ CallsWell' /\ \A doc \in documents : Rereadable(doc)
  BY CallsWellStep DEF ReadBackInv
<1>2. ASSUME NEW m, NEW valid, Prints(m, valid) PROVE \A doc \in documents' : Rereadable(doc)
  <2>1. Rereadable(SignedAuthorizationObject(m, valid))
    BY <1>2, PrintedRead DEF Prints, Rereadable
  <2> QED BY <1>1, <1>2, <2>1 DEF Prints
<1>3. ASSUME NEW u, DryRuns(u) PROVE \A doc \in documents' : Rereadable(doc)
  <2>1. Rereadable(TypedDataObject(u))
    BY <1>3, DryRunRead DEF DryRuns, Rereadable
  <2> QED BY <1>1, <1>3, <2>1 DEF DryRuns
<1>4. ASSUME NEW doc \in documents, NEW u, NEW signature, WalletAdds(doc, u, signature)
      PROVE  \A new \in documents' : Rereadable(new)
  <2>1. u \in ParseMessageJSON(doc)
    BY <1>4 DEF WalletAdds
  <2>2. IsTypedData(doc) => IsTypedData(Beside(doc, signature)) /\ Terms(Beside(doc, signature)) = Terms(doc)
    BY <2>1, SignedBeside
  <2>3. Rereadable(Beside(doc, signature))
    BY <1>1, <2>2 DEF Rereadable
  <2> QED BY <1>1, <1>4, <2>3 DEF WalletAdds
<1>5. ASSUME NEW doc \in documents, EditDocument(doc) PROVE \A new \in documents' : Rereadable(new)
  <2>1. PICK copy \in Edits(doc) : documents' = documents \cup {copy}
    BY <1>5 DEF EditDocument, Keep
  <2>2. Rereadable(copy)
    BY <1>1 DEF OnlyCopies, Rereadable
  <2> QED BY <1>1, <2>1, <2>2
<1>6. CASE documents' \subseteq documents
  BY <1>1, <1>6 DEF ReadBackInv
<1>7. CASE UNCHANGED vars
  BY <1>6, <1>7 DEF vars
<1>8. CASE Next
  <2>1. \A doc \in documents' : Rereadable(doc)
    BY <1>1, <1>2, <1>3, <1>4, <1>5, <1>6, <1>8, StepForms DEF ReadBackInv
  <2> QED BY <1>1, <2>1 DEF ReadBackInv
<1> QED BY <1>7, <1>8

LEMMA ReadBackFollows ==
  ASSUME ReadBackInv
  PROVE  ReadBack
<1> SUFFICES ASSUME NEW doc \in documents
             PROVE  /\ Cardinality(ParseMessageJSON(doc)) = 1
                    /\ \A m \in ParseMessageJSON(doc) : TypedDataObject(m) = Terms(doc)
  BY DEF ReadBack, Terms, TypedDataFields
<1>1. PICK m : IsMessage(m) /\ IsTypedData(doc) /\ Terms(doc) = TypedDataObject(m)
  BY DEF ReadBackInv, Rereadable
<1>2. ParseMessageJSON(doc) = {ReadsAs(m, ParseSignature(doc))}
  BY <1>1, TypedDataRead DEF IsMessage
<1>3. Cardinality({ReadsAs(m, ParseSignature(doc))}) = 1
  BY FS_Singleton
<1> QED BY <1>1, <1>2, <1>3, WrittenAgain

(* Every document can be read back, as one message, and says the same when it  *)
(* is written again (message.go:15, json.go:10).                               *)
THEOREM DocumentsReadBack ==
  ASSUME SignatureFormat, OnlyCopies
  PROVE  Spec => []ReadBack
<1>1. Init => ReadBackInv
  BY CallsWellInit DEF Init, ReadBackInv
<1>2. ReadBackInv /\ [Next]_vars => ReadBackInv'
  BY ReadBackStep
<1>3. ReadBackInv => ReadBack
  BY ReadBackFollows
<1> QED BY <1>1, <1>2, <1>3, PTL DEF Spec

-----------------------------------------------------------------------------
(***************************************************************************)
(* A signature that is read stands beside the terms it was given for, and  *)
(* the domain beside it is the one of its digest, as far as it is known.   *)
(***************************************************************************)
Near(domain, separator) ==
  /\ domain.Name \in {"", separator.Name} /\ domain.Version \in {"", separator.Version}
  /\ domain.ChainID \in {0, Absent} \/ U256(domain.ChainID) = separator.ChainID

Sound(m) ==
  m.Signature # NoSignature =>
    /\ <<AbiArguments(m.Authorization), m.Signature.RS>> \in originals
    /\ Near(m.Domain, m.Signature.RS.digest.domainSeparator)

SoundInv ==
  /\ CallsWell /\ \A c \in calldatas : <<c.args, c.rs>> \in originals
  /\ \A doc \in documents : \A m \in ParseMessageJSON(doc) :
       Sound(m) /\ (Claims(doc) => VerifySignedAuthorization(m))

LEMMA SoundRead ==
  ASSUME SoundInv, NEW m, Readable(m)
  PROVE  IsMessage(m) /\ Sound(m)
<1>1. CASE \E doc \in documents : m \in ParseMessageJSON(doc)
  BY <1>1, ParsedIsMessage DEF SoundInv
<1>2. ASSUME NEW c \in calldatas, m \in DecodeExecuteCalldata(c)
      PROVE  IsMessage(m) /\ Sound(m)
  <2>1. IsArguments(c.args) /\ <<c.args, c.rs>> \in originals
    BY DEF SoundInv, CallsWell
  <2>2. IsMessage(m) /\ m.Domain = NoDomain /\ m.Signature.RS = c.rs /\ AbiArguments(m.Authorization) = c.args
    BY <1>2, <2>1, DecodedIsMessage
  <2>3. Near(NoDomain, c.rs.digest.domainSeparator)
    BY DEF Near, NoDomain
  <2> QED BY <2>1, <2>2, <2>3 DEF Sound
<1> QED BY <1>1, <1>2 DEF Readable

(* A domain is near the separator made of it.                                  *)
LEMMA OwnSeparator ==
  ASSUME NEW m, IsMessage(m), NEW auth
  PROVE  Near(m.Domain, TypedDataHash(m.Domain, auth).domainSeparator)
<1> DEFINE s == DomainSeparator(m.Domain)
<1>1. s.Name = m.Domain.Name /\ s.Version = m.Domain.Version /\ s.ChainID = U256(m.Domain.ChainID)
  BY DEF DomainSeparator, IsMessage, IsDomain, DomainFields
<1>2. TypedDataHash(m.Domain, auth).domainSeparator = s
  BY DEF TypedDataHash
<1> HIDE DEF s
<1> QED BY <1>1, <1>2 DEF Near

(* What is read of a written message is as near to the separator as it was.    *)
LEMMA NearRead ==
  ASSUME NEW m, IsMessage(m), NEW separator, Near(m.Domain, separator), NEW signature
  PROVE  Near(ReadsAs(m, signature).Domain, separator)
<1> DEFINE d == DomainObject(m.Domain)
<1>1. /\ d.Name = m.Domain.Name /\ d.Version = m.Domain.Version
      /\ d.ChainID = IF m.Domain.ChainID = Absent THEN 0 ELSE m.Domain.ChainID
  BY DEF DomainObject, IsMessage, IsDomain, DomainFields
<1>2. ReadsAs(m, signature).Domain = d
  BY DEF ReadsAs
<1> HIDE DEF d
<1> QED BY <1>1, <1>2 DEF Near

(* What is printed is sound if the message was.                                *)
LEMMA SoundPrinted ==
  ASSUME NEW m, NEW valid, Prints(m, valid),
         m.Signature # NoSignature =>
           /\ <<AbiArguments(m.Authorization), m.Signature.RS>> \in originals'
           /\ Near(m.Domain, m.Signature.RS.digest.domainSeparator),
         NEW doc, doc = SignedAuthorizationObject(m, valid), NEW read \in ParseMessageJSON(doc)
  PROVE  Sound(read)' /\ (Claims(doc) => VerifySignedAuthorization(read))
<1>1. IsMessage(m) /\ read = ReadsAs(m, m.Signature) /\ (Claims(doc) <=> TRUE \in valid)
  BY PrintedRead DEF Prints
<1>2. read.Authorization = m.Authorization /\ read.Signature = m.Signature
  BY <1>1 DEF ReadsAs
<1>3. m.Signature # NoSignature => Near(read.Domain, m.Signature.RS.digest.domainSeparator)
  BY <1>1, NearRead
<1>4. Claims(doc) => VerifySignedAuthorization(read)
  BY <1>1, VerifiedRead DEF Prints
<1> QED BY <1>2, <1>3, <1>4 DEF Sound

LEMMA SoundStep ==
  ASSUME SignatureFormat, OnlyCopies, SoundInv, [Next]_vars
  PROVE  SoundInv'
<1> DEFINE Good(doc) == \A m \in ParseMessageJSON(doc) :
                          Sound(m)' /\ (Claims(doc) => VerifySignedAuthorization(m))
<1>1. CallsWell' /\ \A c \in calldatas : <<c.args, c.rs>> \in originals
  BY CallsWellStep DEF SoundInv
<1>2. SUFFICES originals \subseteq originals'
               /\ (\A c \in calldatas' : <<c.args, c.rs>> \in originals')
               /\ (\A doc \in documents' \ documents : Good(doc))
  <2>1. ASSUME originals \subseteq originals', NEW doc \in documents PROVE Good(doc)
    BY <2>1 DEF SoundInv, Sound
  <2> QED BY <1>1, <2>1 DEF SoundInv
<1>3. ASSUME NEW m, NEW valid, Prints(m, valid), Signs(m)
      PROVE  /\ originals \subseteq originals' /\ \A c \in calldatas' : <<c.args, c.rs>> \in originals'
             /\ \A doc \in documents' \ documents : Good(doc)
  <2>1. <<AbiArguments(m.Authorization), m.Signature.RS>> \in originals'
    BY <1>3 DEF Signs
  <2>2. Near(m.Domain, m.Signature.RS.digest.domainSeparator)
    BY <1>3, OwnSeparator DEF Prints, Signs
  <2>3. Good(SignedAuthorizationObject(m, valid))
    BY <1>3, <2>1, <2>2, SoundPrinted
  <2>4. \A c \in calldatas' : <<c.args, c.rs>> \in originals'
    <3>1. calldatas' \subseteq calldatas \cup {EncodeExecuteCalldata(m)} /\ originals \subseteq originals'
      BY <1>3 DEF Signs
    <3>2. EncodeExecuteCalldata(m).args = AbiArguments(m.Authorization)
          /\ EncodeExecuteCalldata(m).rs = m.Signature.RS
      BY DEF EncodeExecuteCalldata
    <3> QED BY <1>1, <2>1, <3>1, <3>2
  <2> QED BY <1>3, <2>3, <2>4 DEF Prints, Signs
<1>4. ASSUME NEW read, NEW m, NEW valid, Readable(read), Prints(m, valid), Relays(m, read)
      PROVE  /\ originals \subseteq originals' /\ \A c \in calldatas' : <<c.args, c.rs>> \in originals'
             /\ \A doc \in documents' \ documents : Good(doc)
  <2>1. Sound(read)
    BY <1>4, SoundRead
  <2>2. m.Authorization = read.Authorization /\ originals' = originals
        /\ (m.Signature # NoSignature => read.Signature # NoSignature)
        /\ (read.Signature # NoSignature => m.Signature.RS = read.Signature.RS)
    BY <1>4 DEF Relays, Carries
  <2>3. ASSUME NEW separator, Near(read.Domain, separator) PROVE Near(m.Domain, separator)
    BY <1>4, <2>3 DEF Relays, Carries, Near
  <2>4. read.Signature # NoSignature =>
          /\ <<AbiArguments(m.Authorization), m.Signature.RS>> \in originals'
          /\ Near(m.Domain, m.Signature.RS.digest.domainSeparator)
    BY <2>1, <2>2, <2>3 DEF Sound
  <2>5. Good(SignedAuthorizationObject(m, valid))
    BY <1>4, <2>2, <2>4, SoundPrinted
  <2>6. \A c \in calldatas' : <<c.args, c.rs>> \in originals'
    <3>1. calldatas' = calldatas
          \/ (read.Signature # NoSignature /\ calldatas' = calldatas \cup {EncodeExecuteCalldata(m)})
      BY <1>4 DEF Relays
    <3>2. EncodeExecuteCalldata(m).args = AbiArguments(m.Authorization)
          /\ EncodeExecuteCalldata(m).rs = m.Signature.RS
      BY DEF EncodeExecuteCalldata
    <3> QED BY <1>1, <2>2, <2>4, <3>1, <3>2
  <2> QED BY <1>4, <2>2, <2>5, <2>6 DEF Prints
<1>5. ASSUME NEW u, DryRuns(u)
      PROVE  /\ originals \subseteq originals' /\ \A c \in calldatas' : <<c.args, c.rs>> \in originals'
             /\ \A doc \in documents' \ documents : Good(doc)
  <2> DEFINE doc == TypedDataObject(u)
  <2>1. ParseMessageJSON(doc) = {ReadsAs(u, NoSignature)} /\ ~Claims(doc)
    BY <1>5, DryRunRead DEF DryRuns
  <2> HIDE DEF doc
  <2>2. Good(doc)
    BY <2>1 DEF ReadsAs, Sound
  <2> QED BY <1>1, <1>5, <2>2 DEF DryRuns, doc
<1>6. ASSUME NEW doc \in documents, NEW u, NEW signature, WalletAdds(doc, u, signature)
      PROVE  /\ originals \subseteq originals' /\ \A c \in calldatas' : <<c.args, c.rs>> \in originals'
             /\ \A new \in documents' \ documents : Good(new)
  <2> DEFINE new == Beside(doc, signature)
             read == [u EXCEPT !.Signature = signature]
  <2>1. u \in ParseMessageJSON(doc) /\ ParseSignature(doc) = NoSignature
    BY <1>6 DEF WalletAdds
  <2>2. ParseMessageJSON(new) = {read} /\ (Claims(new) <=> Claims(doc))
    BY <2>1, SignedBeside
  <2>3. u.Signature = NoSignature /\ IsMessage(u)
    BY <2>1, ParsedWell, ParsedIsMessage
  <2>4. ~Claims(doc)
    BY <2>1, <2>3 DEF SoundInv, VerifySignedAuthorization
  <2>5. read.Domain = u.Domain /\ read.Authorization = u.Authorization /\ read.Signature = signature
    BY <2>3 DEF IsMessage
  <2> HIDE DEF new, read
  <2>6. Near(u.Domain, signature.RS.digest.domainSeparator)
    BY <1>6, <2>3, OwnSeparator DEF WalletAdds
  <2>7. Sound(read)'
    BY <1>6, <2>5, <2>6 DEF Sound, WalletAdds
  <2>8. Good(new)
    BY <2>2, <2>4, <2>7
  <2> QED BY <1>1, <1>6, <2>8 DEF WalletAdds, new
<1>7. ASSUME NEW doc \in documents, EditDocument(doc)
      PROVE  /\ originals \subseteq originals' /\ \A c \in calldatas' : <<c.args, c.rs>> \in originals'
             /\ \A new \in documents' \ documents : Good(new)
  <2>1. PICK copy \in Edits(doc) : documents' = documents \cup {copy} /\ UNCHANGED <<calldatas, originals>>
    BY <1>7 DEF EditDocument, Keep
  <2>2. ParseMessageJSON(copy) = ParseMessageJSON(doc) /\ (Claims(copy) => Claims(doc))
    BY DEF OnlyCopies
  <2>3. Good(copy)
    BY <2>1, <2>2 DEF SoundInv, Sound
  <2> QED BY <1>1, <2>1, <2>3
<1>8. CASE documents' \subseteq documents /\ UNCHANGED <<calldatas, originals>>
  BY <1>1, <1>8
<1> HIDE DEF Good
<1>9. CASE Next
  <2>1. CallsWell
    BY DEF SoundInv
  <2> QED BY <1>3, <1>4, <1>5, <1>6, <1>7, <1>8, <1>9, <2>1, StepForms
<1>10. CASE UNCHANGED vars
  BY <1>8, <1>10 DEF vars
<1> QED BY <1>9, <1>10

LEMMA SoundHolds ==
  ASSUME SignatureFormat, OnlyCopies
  PROVE  Spec => []SoundInv
<1>1. Init => SoundInv
  BY CallsWellInit DEF Init, SoundInv
<1>2. SoundInv /\ [Next]_vars => SoundInv'
  BY SoundStep
<1> QED BY <1>1, <1>2, PTL DEF Spec

(* A signature stays with the terms it was given for: however a document was   *)
(* printed, signed by a wallet, extracted from JSON or from calldata and sent, *)
(* it carries a signature beside the terms its signer saw, up to the modulus   *)
(* of the ABI (message.go:28-45, calldata.go:133).                             *)
THEOREM TermsStay ==
  ASSUME SignatureFormat, OnlyCopies
  PROVE  Spec => []TermsPreserved
<1>1. SoundInv => TermsPreserved
  BY DEF SoundInv, Sound, TermsPreserved
<1> QED BY <1>1, SoundHolds, PTL

(* A document that says signatureValid verifies when it is read back, also if  *)
(* --token replaced its contract or its v was normalized after the signature   *)
(* was verified (cli.go:184-226, 317-344).                                     *)
THEOREM ValidIsTrue ==
  ASSUME SignatureFormat, OnlyCopies
  PROVE  Spec => []SignatureValidTruthful
<1>1. SoundInv => SignatureValidTruthful
  BY DEF SoundInv, Claims, SignatureValidTruthful
<1> QED BY <1>1, SoundHolds, PTL

-----------------------------------------------------------------------------
(* The separator of a domain has its parts.                                    *)
LEMMA SeparatorParts ==
  ASSUME NEW d, d = [field \in DomainFields |-> d[field]]
  PROVE  DomainSeparator(d) = [Name |-> d.Name, Version |-> d.Version, ChainID |-> U256(d.ChainID),
                               VerifyingContract |-> d.VerifyingContract]
BY DEF DomainSeparator, DomainFields

LEMMA ZeroIsNotPositive == ~(0 > 0)
OBVIOUS

LEMMA TokenParts ==
  /\ TokenDomain = [field \in DomainFields |-> TokenDomain[field]]
  /\ Token \in DOMAIN Metadata /\ Token # ZeroAddress
  /\ Metadata[Token].Name = TokenDomain.Name /\ Metadata[Token].Version = TokenDomain.Version
  /\ TokenDomain.Name # "" /\ TokenDomain.Version # ""
  /\ TokenDomain.ChainID = NodeChainID
<1>1. Metadata[Token] = [Name |-> TokenDomain.Name, Version |-> TokenDomain.Version]
  BY DeploymentAssumption
<1>2. TokenDomain.Name # "" /\ TokenDomain.Version # "" /\ Token # ZeroAddress
  BY DeploymentAssumption DEF ValidDomain, Token
<1>3. Metadata[Token].Name = TokenDomain.Name /\ Metadata[Token].Version = TokenDomain.Version
  BY <1>1
<1> QED BY <1>2, <1>3, DeploymentAssumption

(* An emergency cancel.  The domain that cancel works out for a message of the *)
(* token has the token's separator, whatever the message lacks.                *)
LEMMA CancelDomainIsToken ==
  ASSUME NEW o \in CancelOptions, NEW domain, domain.ChainID \in Int,
         Given(o.Token, domain.VerifyingContract) = Token,
         o.Name \in {"", TokenDomain.Name}, o.Version \in {"", TokenDomain.Version},
         o.ChainID \in {Absent, TokenDomain.ChainID},
         Near(domain, DomainSeparator(TokenDomain))
  PROVE  LET found == [Name |-> TokenDomain.Name, Version |-> TokenDomain.Version,
                       ChainID |-> Given(o.ChainID, domain.ChainID), VerifyingContract |-> Token] IN
         /\ CancelDomain(o, domain) = {found}
         /\ found.ChainID > 0 => DomainSeparator(found) = DomainSeparator(TokenDomain)
<1> DEFINE chain == Given(o.ChainID, domain.ChainID)
           found == [Name |-> TokenDomain.Name, Version |-> TokenDomain.Version,
                     ChainID |-> chain, VerifyingContract |-> Token]
           separator == DomainSeparator(TokenDomain)
<1>1. separator = [Name |-> TokenDomain.Name, Version |-> TokenDomain.Version,
                   ChainID |-> U256(TokenDomain.ChainID), VerifyingContract |-> Token]
  BY TokenParts, SeparatorParts DEF Token
<1>2. /\ Metadata[Token].Name = TokenDomain.Name /\ Metadata[Token].Version = TokenDomain.Version
      /\ Token # ZeroAddress /\ Token \in DOMAIN Metadata
      /\ TokenDomain.Name # "" /\ TokenDomain.Version # ""
  BY TokenParts
<1> HIDE DEF separator
<1>3. domain.ChainID # Absent /\ Given(domain.ChainID, NodeChainID) = domain.ChainID
  BY DocumentsAssumption DEF Given
<1>4. /\ GivenText(o.Name, domain.Name) \in {"", TokenDomain.Name}
      /\ GivenText(o.Version, domain.Version) \in {"", TokenDomain.Version}
  <2>1. separator.Name = TokenDomain.Name /\ separator.Version = TokenDomain.Version
    BY <1>1
  <2> QED BY <2>1 DEF GivenText, Near, separator
<1>5. /\ GivenText(GivenText(o.Name, domain.Name), Metadata[Token].Name) = TokenDomain.Name
      /\ GivenText(GivenText(o.Version, domain.Version), Metadata[Token].Version) = TokenDomain.Version
  BY <1>2, <1>4 DEF GivenText
<1>6. CancelDomain(o, domain) = {found}
  BY <1>2, <1>3, <1>5 DEF CancelDomain
<1>7. ASSUME chain > 0 PROVE U256(chain) = U256(TokenDomain.ChainID)
  <2>1. CASE o.ChainID = Absent
    <3>1. chain = domain.ChainID
      BY <2>1 DEF Given
    <3>2. separator.ChainID = U256(TokenDomain.ChainID)
      BY <1>1
    <3>3. domain.ChainID > 0
      BY <1>7, <3>1
    <3>4. domain.ChainID # 0
      BY <3>3, ZeroIsNotPositive
    <3>5. U256(domain.ChainID) = separator.ChainID
      BY <1>3, <3>4 DEF Near, separator
    <3> QED BY <3>1, <3>2, <3>5
  <2>2. CASE o.ChainID # Absent
    BY <2>2 DEF Given
  <2> QED BY <2>1, <2>2
<1>8. found.ChainID = chain
  OBVIOUS
<1> HIDE DEF chain
<1>9. DomainSeparator(found) = [Name |-> TokenDomain.Name, Version |-> TokenDomain.Version,
                                ChainID |-> U256(chain), VerifyingContract |-> Token]
  <2>1. found = [field \in DomainFields |-> found[field]]
    BY DEF DomainFields
  <2> QED BY <2>1, SeparatorParts
<1> HIDE DEF found
<1>10. found.ChainID > 0 => DomainSeparator(found) = separator
  BY <1>1, <1>7, <1>8, <1>9
<1> QED BY <1>6, <1>10 DEF found, chain, separator

LEMMA CancelTarget ==
  ASSUME SoundInv, NEW doc \in documents, NEW o \in CancelOptions, NEW m \in ParseMessageJSON(doc),
         Cancels(o, m)
  PROVE  /\ m.Domain.ChainID \in Int /\ Near(m.Domain, DomainSeparator(TokenDomain))
         /\ SignerAddress(m.Authorization) \in Addresses /\ m.Authorization.Nonce # Absent
         /\ CancelTerms(o, {m}) = [Kind |-> CancelAuthorization,
                                   Authorizer |-> SignerAddress(m.Authorization),
                                   Nonce |-> m.Authorization.Nonce]
         /\ CancelAuthorizer(o, {m}) = SignerAddress(m.Authorization)
         /\ CancelNonce(o, {m}) = m.Authorization.Nonce
<1>1. /\ m.Domain.ChainID \in Int /\ Sound(m) /\ m.Signature # NoSignature
      /\ SignerAddress(m.Authorization) \in Addresses /\ m.Authorization.Nonce # Absent
  BY ParsedWell DEF SoundInv, Well, HasFields, Cancels
<1>2. SignerAddress(m.Authorization) # Stranger
  BY <1>1, AddressAssumption DEF Addresses
<1>3. m.Signature.RS.digest = TypedDataHash(TokenDomain, m.Authorization)
  BY <1>2 DEF Cancels, Authorizes, RecoverKey
<1>4. m.Signature.RS.digest.domainSeparator = DomainSeparator(TokenDomain)
  BY <1>3 DEF TypedDataHash
<1>5. Near(m.Domain, DomainSeparator(TokenDomain))
  BY <1>1, <1>4 DEF Sound
<1>6. CancelAuthorizer(o, {m}) = SignerAddress(m.Authorization)
      /\ CancelNonce(o, {m}) = m.Authorization.Nonce
  BY DEF Cancels, CancelAuthorizer, CancelNonce, Given
<1> QED BY <1>1, <1>5, <1>6 DEF CancelTerms

LEMMA CancelHits ==
  ASSUME SignatureFormat, SoundInv,
         NEW doc \in documents, NEW o \in CancelOptions, NEW m \in ParseMessageJSON(doc), Cancels(o, m)
  PROVE  /\ \A c \in CancelResult(o, {m}) :
              /\ Authorizes(c) /\ c.Domain.VerifyingContract = Token
              /\ SignerAddress(c.Authorization) = SignerAddress(m.Authorization)
              /\ c.Authorization.Nonce = m.Authorization.Nonce
         /\ o.Key = SignerAddress(m.Authorization) /\ (m.Domain.ChainID > 0 \/ o.ChainID # Absent) =>
              CancelResult(o, {m}) # {}
<1> DEFINE auth == CancelTerms(o, {m})
           found == [Name |-> TokenDomain.Name, Version |-> TokenDomain.Version,
                     ChainID |-> Given(o.ChainID, m.Domain.ChainID), VerifyingContract |-> Token]
           signer == SignerAddress(m.Authorization)
<1>1. /\ m.Domain.ChainID \in Int /\ Near(m.Domain, DomainSeparator(TokenDomain))
      /\ signer \in Addresses /\ m.Authorization.Nonce # Absent
      /\ auth = [Kind |-> CancelAuthorization, Authorizer |-> signer, Nonce |-> m.Authorization.Nonce]
      /\ CancelAuthorizer(o, {m}) = signer /\ CancelNonce(o, {m}) = m.Authorization.Nonce
  BY CancelTarget
<1>2. auth.Kind = CancelAuthorization /\ auth.Authorizer = signer /\ auth.Nonce = m.Authorization.Nonce
      /\ SignerAddress(auth) = signer
  BY <1>1, KindsDiffer DEF SignerAddress
<1>3. /\ CancelDomain(o, m.Domain) = {found}
      /\ found.ChainID > 0 => DomainSeparator(found) = DomainSeparator(TokenDomain)
  BY <1>1, CancelDomainIsToken DEF Cancels
<1>4. CancelBase({m}) = m.Domain
  BY DEF CancelBase
<1>5. found.VerifyingContract = Token /\ found.ChainID = Given(o.ChainID, m.Domain.ChainID)
      /\ found.Name = TokenDomain.Name /\ found.Version = TokenDomain.Version
  OBVIOUS
<1> HIDE DEF auth, found, signer
<1>6. ASSUME NEW c \in SignAuthorization(found, auth, signer), IsDomain(found), found.ChainID # Absent,
             Well(auth), signer # ZeroAddress
      PROVE  /\ Authorizes(c) /\ c.Domain = found /\ c.Authorization = auth
             /\ c.Signature # NoSignature => VerifySignedAuthorization(c)
  <2> DEFINE rs == c.Signature.RS
  <2>1. /\ c.Domain = found /\ c.Authorization = auth /\ rs.digest = TypedDataHash(found, auth)
        /\ rs.signer = signer /\ rs.recid \in {0, 1} /\ c.Signature.V = rs.recid + 27
        /\ ValidDomain(found) /\ ValidAuthorization(auth)
    BY <1>6, Signed DEF SignatureFormat
  <2>2. DomainSeparator(found) = DomainSeparator(TokenDomain)
    BY <1>3, <2>1 DEF ValidDomain
  <2>3. TypedDataHash(TokenDomain, auth) = TypedDataHash(found, auth)
    BY <2>2 DEF TypedDataHash
  <2>4. c.Signature.V \in SolidityVs /\ RecoveryBit(c.Signature.V) = rs.recid
    BY <2>1 DEF SolidityVs, RecoveryBit
  <2> HIDE DEF rs
  <2>5. RecoverKey(TypedDataHash(found, auth), RecoveryBit(c.Signature.V), rs) = signer
    BY <2>1, <2>4 DEF RecoverKey
  <2> QED BY <1>2, <2>1, <2>3, <2>4, <2>5 DEF rs, Authorizes, VerifySignedAuthorization
<1>7. ASSUME NEW c \in CancelResult(o, {m})
      PROVE  /\ Authorizes(c) /\ c.Domain.VerifyingContract = Token
             /\ SignerAddress(c.Authorization) = signer
             /\ c.Authorization.Nonce = m.Authorization.Nonce
  <2>1. PICK domain \in CancelDomain(o, m.Domain) :
          /\ IsDomain(domain) /\ domain.ChainID # Absent /\ Well(auth) /\ CancelAuthorizer(o, {m}) = o.Key
          /\ c \in SignAuthorization(domain, auth, o.Key)
    BY <1>1, <1>4, CancelSigned DEF auth
  <2>2. domain = found /\ o.Key = signer
    BY <1>1, <1>3, <2>1
  <2>3. signer # ZeroAddress
    BY <2>2, OptionsAssumption, AddressAssumption
  <2> QED BY <1>2, <1>5, <1>6, <2>1, <2>2, <2>3
<1>8. ASSUME o.Key = signer, m.Domain.ChainID > 0 \/ o.ChainID # Absent
      PROVE  CancelResult(o, {m}) # {}
  <2>1. found.ChainID \in Int /\ found.ChainID > 0
    <3>1. o.ChainID \in {Absent, NodeChainID}
      BY TokenParts DEF Cancels
    <3> QED BY <1>1, <1>5, <1>8, <3>1, DocumentsAssumption DEF Given
  <2>2. ValidDomain(found) /\ IsDomain(found) /\ found.ChainID # Absent
    <3>1. ValidDomain(found)
      BY <1>5, <2>1, TokenParts DEF ValidDomain
    <3>2. found = [field \in DomainFields |-> found[field]]
      BY DEF found, DomainFields
    <3> QED BY <2>1, <3>1, <3>2, DocumentsAssumption DEF IsDomain
  <2>3. signer # ZeroAddress
    BY <1>8, OptionsAssumption, AddressAssumption
  <2>4. ValidAuthorization(auth)
    BY <1>2, <2>3 DEF ValidAuthorization
  <2>5. Well(auth)
    <3>1. AuthorizationFields(auth.Kind) = {"Authorizer", "Nonce"}
      BY <1>2 DEF AuthorizationFields
    <3> QED BY <1>1, <1>2, <3>1, KindsDiffer DEF Well, HasFields
  <2> DEFINE rs == RawSignature(o.Key, TypedDataHash(found, auth))
             c == [Domain |-> found, Authorization |-> auth, Signature |-> [V |-> rs.recid + 27, RS |-> rs]]
  <2>6. c \in SignAuthorization(found, auth, o.Key)
    BY <2>2, <2>4 DEF SignAuthorization
  <2>7. c.Signature # NoSignature
    BY DEF SignatureFormat
  <2> HIDE DEF rs, c
  <2>8. VerifySignedAuthorization(c)
    BY <1>6, <1>8, <2>2, <2>3, <2>5, <2>6, <2>7
  <2>9. c \in CancelResult(o, {m})
    BY <1>1, <1>3, <1>4, <1>8, <2>6, <2>8 DEF CancelResult, CancelTerms, CancelBase, auth
  <2> QED BY <2>9
<1> QED BY <1>7, <1>8 DEF signer

(* An emergency cancel hits the message it is aimed at: whatever cancel signs  *)
(* for a document of a message the contract would accept, also one recovered   *)
(* from calldata, the contract accepts too, for the same authorizer and nonce; *)
(* and it signs if the key is the authorizer's and the chain is known          *)
(* (cli.go:614-722).                                                           *)
THEOREM CancelIsAimed ==
  ASSUME SignatureFormat, OnlyCopies
  PROVE  Spec => []CancelRevokes
<1>1. SoundInv => CancelRevokes
  BY CancelHits DEF CancelRevokes
<1> QED BY <1>1, SoundHolds, PTL

-----------------------------------------------------------------------------
(***************************************************************************)
(* Documents may also be edited at will.  Then nothing is left to rely on  *)
(* but that a signature cannot be made up without its key: an edited       *)
(* document has the signature that was in it, with another v perhaps, or   *)
(* none.                                                                   *)
(***************************************************************************)
NothingForged ==
  \A doc : \A edited \in Edits(doc) :
    ParseSignature(edited) # NoSignature =>
      ParseSignature(doc) # NoSignature /\ ParseSignature(edited).RS = ParseSignature(doc).RS

\* The signature was given for arguments that are on record.
Known(rs) ==
  \E args : /\ IsArguments(args) /\ rs.digest.structHash = AuthorizationStructHash(args)
            /\ <<args, rs>> \in originals

KnownInv ==
  /\ CallsWell /\ \A c \in calldatas : Known(c.rs)
  /\ \A doc \in documents : ParseSignature(doc) # NoSignature => Known(ParseSignature(doc).RS)

(* The struct hash tells the arguments apart.                                  *)
LEMMA TypeHashesDiffer ==
  ASSUME NEW k1 \in Kinds, NEW k2 \in Kinds, TypeHash(k1) = TypeHash(k2)
  PROVE  k1 = k2
BY KindsDiffer DEF TypeHash, TransferAuthorization, ReceiveAuthorization, CancelAuthorization

LEMMA CancelKind ==
  ASSUME NEW auth, HasFields(auth)
  PROVE  /\ auth.Kind = CancelAuthorization <=> auth.Kind \notin TransferKinds
         /\ auth.Kind = CancelAuthorization =>
              auth = [Kind |-> auth.Kind, Authorizer |-> auth.Authorizer, Nonce |-> auth.Nonce]
         /\ auth.Kind \in TransferKinds =>
              auth = [Kind |-> auth.Kind, From |-> auth.From, To |-> auth.To, Value |-> auth.Value,
                      ValidAfter |-> auth.ValidAfter, ValidBefore |-> auth.ValidBefore,
                      Nonce |-> auth.Nonce]
<1>1. auth.Kind = CancelAuthorization <=> auth.Kind \notin TransferKinds
  BY KindsDiffer DEF HasFields, Kinds
<1>2. CASE auth.Kind = CancelAuthorization
  <2>1. AuthorizationFields(auth.Kind) = {"Authorizer", "Nonce"}
    BY <1>2 DEF AuthorizationFields
  <2> QED BY <1>1, <1>2, <2>1 DEF HasFields
<1>3. CASE auth.Kind \in TransferKinds
  <2>1. AuthorizationFields(auth.Kind) = {"From", "To", "Value", "ValidAfter", "ValidBefore", "Nonce"}
    BY <1>1, <1>3 DEF AuthorizationFields
  <2> QED BY <1>1, <1>3, <2>1 DEF HasFields
<1> QED BY <1>1, <1>2, <1>3

LEMMA StructHashParts ==
  ASSUME NEW a, IsArguments(a)
  PROVE  AuthorizationStructHash(a) =
           IF a.Kind = CancelAuthorization THEN <<TypeHash(a.Kind), a.Authorizer, a.Nonce>>
           ELSE <<TypeHash(a.Kind), a.From, a.To, a.Value, a.ValidAfter, a.ValidBefore, a.Nonce>>
BY ArgumentsPacked DEF AuthorizationStructHash

LEMMA StructHashInjective ==
  ASSUME NEW a, IsArguments(a), NEW b, IsArguments(b),
         AuthorizationStructHash(a) = AuthorizationStructHash(b)
  PROVE  a = b
<1>1. HasFields(a) /\ HasFields(b) /\ a.Kind \in Kinds /\ b.Kind \in Kinds
  BY DEF IsArguments, HasFields
<1>2. AuthorizationStructHash(a)[1] = TypeHash(a.Kind) /\ AuthorizationStructHash(b)[1] = TypeHash(b.Kind)
  BY StructHashParts
<1>3. a.Kind = b.Kind
  BY <1>1, <1>2, TypeHashesDiffer
<1>4. CASE a.Kind = CancelAuthorization
  <2>1. <<TypeHash(a.Kind), a.Authorizer, a.Nonce>> = <<TypeHash(b.Kind), b.Authorizer, b.Nonce>>
    BY <1>3, <1>4, StructHashParts
  <2>2. a.Authorizer = b.Authorizer /\ a.Nonce = b.Nonce
    BY <2>1
  <2>3. AuthorizationFields(a.Kind) = {"Authorizer", "Nonce"}
    BY <1>4 DEF AuthorizationFields
  <2>4. \A field \in AuthorizationFields(a.Kind) \cup {"Kind"} : a[field] = b[field]
    BY <1>3, <2>2, <2>3
  <2> QED BY <1>1, <1>3, <2>4 DEF HasFields
<1>5. CASE a.Kind # CancelAuthorization
  <2>1. <<TypeHash(a.Kind), a.From, a.To, a.Value, a.ValidAfter, a.ValidBefore, a.Nonce>>
          = <<TypeHash(b.Kind), b.From, b.To, b.Value, b.ValidAfter, b.ValidBefore, b.Nonce>>
    BY <1>3, <1>5, StructHashParts
  <2>2. /\ a.From = b.From /\ a.To = b.To /\ a.Value = b.Value
        /\ a.ValidAfter = b.ValidAfter /\ a.ValidBefore = b.ValidBefore /\ a.Nonce = b.Nonce
    BY <2>1
  <2>3. AuthorizationFields(a.Kind) = {"From", "To", "Value", "ValidAfter", "ValidBefore", "Nonce"}
    BY <1>5 DEF AuthorizationFields
  <2>4. \A field \in AuthorizationFields(a.Kind) \cup {"Kind"} : a[field] = b[field]
    BY <1>3, <2>2, <2>3
  <2> QED BY <1>1, <1>3, <2>4 DEF HasFields
<1> QED BY <1>4, <1>5

LEMMA KnownRead ==
  ASSUME KnownInv, NEW m, Readable(m), m.Signature # NoSignature
  PROVE  Known(m.Signature.RS)
<1>1. CASE \E doc \in documents : m \in ParseMessageJSON(doc)
  BY <1>1, ParsedWell DEF KnownInv
<1>2. ASSUME NEW c \in calldatas, m \in DecodeExecuteCalldata(c) PROVE Known(m.Signature.RS)
  BY <1>2, DecodedIsMessage DEF KnownInv, CallsWell
<1> QED BY <1>1, <1>2 DEF Readable

LEMMA KnownStep ==
  ASSUME SignatureFormat, NothingForged, KnownInv, [Next]_vars
  PROVE  KnownInv'
<1> DEFINE Good(doc) == ParseSignature(doc) # NoSignature => Known(ParseSignature(doc).RS)'
<1>1. CallsWell'
  BY CallsWellStep DEF KnownInv
<1>2. ASSUME originals \subseteq originals', NEW rs, Known(rs) PROVE Known(rs)'
  BY <1>2 DEF Known
<1>3. SUFFICES originals \subseteq originals'
               /\ (\A c \in calldatas' \ calldatas : Known(c.rs)')
               /\ (\A doc \in documents' \ documents : Good(doc))
  <2>1. ASSUME originals \subseteq originals', NEW doc \in documents PROVE Good(doc)
    BY <1>2, <2>1 DEF KnownInv
  <2>2. ASSUME originals \subseteq originals', NEW c \in calldatas PROVE Known(c.rs)'
    BY <1>2, <2>2 DEF KnownInv
  <2> QED BY <1>1, <2>1, <2>2 DEF KnownInv
<1>4. ASSUME NEW auth, Well(auth), NEW domain, NEW rs, rs.digest = TypedDataHash(domain, auth),
             <<AbiArguments(auth), rs>> \in originals'
      PROVE  Known(rs)'
  <2>1. IsArguments(AbiArguments(auth))
        /\ AuthorizationStructHash(AbiArguments(auth)) = AuthorizationStructHash(auth)
    BY <1>4, PackedIsArguments
  <2>2. rs.digest.structHash = AuthorizationStructHash(auth)
    BY <1>4 DEF TypedDataHash
  <2> QED BY <1>4, <2>1, <2>2 DEF Known
<1>5. ASSUME NEW m, NEW valid, Prints(m, valid), Signs(m)
      PROVE  /\ originals \subseteq originals' /\ \A c \in calldatas' \ calldatas : Known(c.rs)'
             /\ \A doc \in documents' \ documents : Good(doc)
  <2>1. Well(m.Authorization) /\ <<AbiArguments(m.Authorization), m.Signature.RS>> \in originals'
    BY <1>5 DEF Prints, Signs, IsMessage
  <2>2. Known(m.Signature.RS)'
    BY <1>4, <1>5, <2>1 DEF Signs
  <2>3. Good(SignedAuthorizationObject(m, valid))
    BY <1>5, <2>2, PrintedRead DEF Prints
  <2>4. EncodeExecuteCalldata(m).rs = m.Signature.RS
    BY DEF EncodeExecuteCalldata
  <2> HIDE DEF Good
  <2> QED BY <1>5, <2>2, <2>3, <2>4 DEF Prints, Signs
<1>6. ASSUME NEW read, NEW m, NEW valid, Readable(read), Prints(m, valid), Relays(m, read)
      PROVE  /\ originals \subseteq originals' /\ \A c \in calldatas' \ calldatas : Known(c.rs)'
             /\ \A doc \in documents' \ documents : Good(doc)
  <2>1. originals' = originals
        /\ (m.Signature # NoSignature => read.Signature # NoSignature)
        /\ (read.Signature # NoSignature => m.Signature.RS = read.Signature.RS)
    BY <1>6 DEF Relays, Carries
  <2>2. read.Signature # NoSignature => Known(m.Signature.RS)'
    BY <1>2, <1>6, <2>1, KnownRead
  <2>3. Good(SignedAuthorizationObject(m, valid))
    BY <1>6, <2>1, <2>2, PrintedRead DEF Prints
  <2>4. EncodeExecuteCalldata(m).rs = m.Signature.RS
    BY DEF EncodeExecuteCalldata
  <2>5. \A c \in calldatas' \ calldatas : Known(c.rs)'
    BY <1>6, <2>2, <2>4 DEF Relays
  <2> HIDE DEF Good
  <2> QED BY <1>6, <2>1, <2>3, <2>5 DEF Prints
<1>7. ASSUME NEW u, DryRuns(u)
      PROVE  /\ originals \subseteq originals' /\ \A c \in calldatas' \ calldatas : Known(c.rs)'
             /\ \A doc \in documents' \ documents : Good(doc)
  <2>1. Good(TypedDataObject(u))
    BY <1>7, DryRunRead DEF DryRuns
  <2> HIDE DEF Good
  <2> QED BY <1>7, <2>1 DEF DryRuns
<1>8. ASSUME NEW doc \in documents, NEW u, NEW signature, WalletAdds(doc, u, signature)
      PROVE  /\ originals \subseteq originals' /\ \A c \in calldatas' \ calldatas : Known(c.rs)'
             /\ \A new \in documents' \ documents : Good(new)
  <2>1. u \in ParseMessageJSON(doc)
    BY <1>8 DEF WalletAdds
  <2>2. Well(u.Authorization) /\ ParseSignature(Beside(doc, signature)) = signature
    BY <2>1, ParsedWell, SignedBeside
  <2>3. Known(signature.RS)'
    BY <1>4, <1>8, <2>2 DEF WalletAdds
  <2>4. Good(Beside(doc, signature))
    BY <2>2, <2>3
  <2> HIDE DEF Good
  <2> QED BY <1>8, <2>4 DEF WalletAdds
<1>9. ASSUME NEW doc \in documents, EditDocument(doc)
      PROVE  /\ originals \subseteq originals' /\ \A c \in calldatas' \ calldatas : Known(c.rs)'
             /\ \A new \in documents' \ documents : Good(new)
  <2>1. PICK edited \in Edits(doc) : documents' = documents \cup {edited} /\ UNCHANGED <<calldatas, originals>>
    BY <1>9 DEF EditDocument, Keep
  <2>2. Good(edited)
    BY <1>2, <2>1 DEF NothingForged, KnownInv
  <2> HIDE DEF Good
  <2> QED BY <2>1, <2>2
<1>10. CASE documents' \subseteq documents /\ UNCHANGED <<calldatas, originals>>
  BY <1>10
<1> HIDE DEF Good
<1>11. CASE Next
  <2>1. CallsWell
    BY DEF KnownInv
  <2> QED BY <1>5, <1>6, <1>7, <1>8, <1>9, <1>10, <1>11, <2>1, StepForms
<1>12. CASE UNCHANGED vars
  BY <1>10, <1>12 DEF vars
<1> QED BY <1>11, <1>12

LEMMA VerifiedBroadcast ==
  ASSUME KnownInv, NEW doc \in documents, NEW policy, RunBroadcast(doc, TRUE, policy),
         NEW c \in calldatas' \ calldatas
  PROVE  <<c.args, c.rs>> \in originals /\ c.rs.signer = SignerAddress(c.args)
<1>1. PICK m \in ParseMessageJSON(doc) :
        /\ VerifySignedAuthorization(m)
        /\ \E resolved \in ResolveSignatureV(m.Signature, policy) :
             Publish([m EXCEPT !.Signature = resolved])
  BY DEF RunBroadcast, PassesVerify
<1>2. PICK resolved \in ResolveSignatureV(m.Signature, policy) : Publish([m EXCEPT !.Signature = resolved])
  BY <1>1
<1> DEFINE sent == [m EXCEPT !.Signature = resolved]
           auth == m.Authorization
           rs == m.Signature.RS
<1>3. IsMessage(m) /\ Well(auth) /\ resolved.RS = rs
  BY <1>2, ParsedIsMessage, ResolvedVerifies DEF IsMessage
<1>4. sent.Authorization = auth /\ sent.Signature = resolved
  BY <1>3 DEF IsMessage
<1>5. c.args = AbiArguments(auth) /\ c.rs = rs
  <2>1. c = EncodeExecuteCalldata(sent)
    BY <1>2 DEF Publish
  <2> HIDE DEF sent
  <2> QED BY <1>3, <1>4, <2>1 DEF EncodeExecuteCalldata
<1> HIDE DEF sent
<1>6. SignerAddress(auth) # Stranger
  BY <1>3, AddressAssumption DEF Well, HasFields, Addresses
<1>7. rs.digest = TypedDataHash(m.Domain, auth) /\ rs.signer = SignerAddress(auth)
  BY <1>1, <1>6 DEF VerifySignedAuthorization, RecoverKey
<1>8. Known(rs)
  BY <1>1, ParsedWell DEF KnownInv, VerifySignedAuthorization
<1>9. PICK args : /\ IsArguments(args) /\ rs.digest.structHash = AuthorizationStructHash(args)
                  /\ <<args, rs>> \in originals
  BY <1>8 DEF Known
<1>10. rs.digest.structHash = AuthorizationStructHash(auth)
  BY <1>7 DEF TypedDataHash
<1>11. IsArguments(AbiArguments(auth))
       /\ AuthorizationStructHash(AbiArguments(auth)) = AuthorizationStructHash(auth)
  BY <1>3, PackedIsArguments
<1>12. args = AbiArguments(auth)
  BY <1>9, <1>10, <1>11, StructHashInjective
<1>13. SignerAddress(AbiArguments(auth)) = SignerAddress(auth)
  <2>1. CASE auth.Kind \in TransferKinds
    <3>1. auth.From = AbiArguments(auth).From /\ AbiArguments(auth).Kind = auth.Kind
      BY <2>1, <1>3, CancelKind DEF AbiArguments, Well
    <3> QED BY <2>1, <3>1 DEF SignerAddress
  <2>2. CASE auth.Kind \notin TransferKinds
    BY <2>2 DEF AbiArguments
  <2> QED BY <2>1, <2>2
<1> QED BY <1>5, <1>7, <1>9, <1>12, <1>13

(* broadcast --verify publishes only what the account that pays has signed,    *)
(* argument for argument, whatever became of the document in between, unless   *)
(* somebody can forge a signature (cli.go:312-320, message.go:15-74).          *)
THEOREM VerifiedIsSigned ==
  ASSUME SignatureFormat, NothingForged
  PROVE  Spec => VerifiedCallSigned
<1>1. Init => KnownInv
  <2>1. ASSUME Init, NEW c \in calldatas PROVE Known(c.rs)
    BY <2>1, ForeignAssumption DEF Init, Known
  <2> QED BY <2>1, CallsWellInit DEF Init, KnownInv
<1>2. KnownInv /\ [Next]_vars => KnownInv'
  BY KnownStep
<1>3. KnownInv /\ [Next]_vars =>
        [\A doc \in documents, policy \in Policies :
           RunBroadcast(doc, TRUE, policy) =>
             \A c \in calldatas' \ calldatas :
               <<c.args, c.rs>> \in originals /\ c.rs.signer = SignerAddress(c.args)]_vars
  BY VerifiedBroadcast
<1> QED BY <1>1, <1>2, <1>3, PTL DEF Spec, VerifiedCallSigned

(***************************************************************************)
(* An edit that takes the signature away takes the verdict with it.        *)
(***************************************************************************)
VerdictsNeedSignatures ==
  \A doc : \A edited \in Edits(doc) :
    Claims(edited) /\ ParseSignature(edited) = NoSignature =>
      Claims(doc) /\ ParseSignature(doc) = NoSignature

VerdictInv == CallsWell /\ \A doc \in documents : Claims(doc) => ParseSignature(doc) # NoSignature

LEMMA PrintedVerdict ==
  ASSUME NEW m, NEW valid, Prints(m, valid), NEW doc, doc = SignedAuthorizationObject(m, valid), Claims(doc)
  PROVE  /\ ParseSignature(doc) # NoSignature
         /\ \A read \in ParseMessageJSON(doc) : VerifySignedAuthorization(read)
<1>1. /\ IsMessage(m) /\ VerifySignedAuthorization(m) /\ ParseSignature(doc) = m.Signature
      /\ ParseMessageJSON(doc) = {ReadsAs(m, m.Signature)}
  BY PrintedRead DEF Prints
<1>2. ReadsAs(m, m.Signature) = m /\ m.Signature # NoSignature
  BY <1>1, VerifiedRead DEF VerifySignedAuthorization
<1> QED BY <1>1, <1>2

LEMMA VerdictStep ==
  ASSUME SignatureFormat, VerdictsNeedSignatures, VerdictInv, [Next]_vars
  PROVE  /\ VerdictInv'
         /\ \/ \E doc \in documents : EditDocument(doc)
            \/ \A doc \in documents' \ documents :
                 Claims(doc) => \A m \in ParseMessageJSON(doc) : VerifySignedAuthorization(m)
<1> DEFINE Good(doc) == Claims(doc) => /\ ParseSignature(doc) # NoSignature
                                       /\ \A m \in ParseMessageJSON(doc) : VerifySignedAuthorization(m)
<1>1. CallsWell /\ CallsWell' /\ \A doc \in documents : Claims(doc) => ParseSignature(doc) # NoSignature
  BY CallsWellStep DEF VerdictInv
<1>2. ASSUME NEW m, NEW valid, Prints(m, valid)
      PROVE  \A doc \in documents' \ documents : Good(doc)
  <2>1. Good(SignedAuthorizationObject(m, valid))
    BY <1>2, PrintedVerdict
  <2> HIDE DEF Good
  <2> QED BY <1>2, <2>1 DEF Prints
<1>3. ASSUME NEW u, DryRuns(u)
      PROVE  \A doc \in documents' \ documents : Good(doc)
  <2>1. Good(TypedDataObject(u))
    BY <1>3, DryRunRead DEF DryRuns
  <2> HIDE DEF Good
  <2> QED BY <1>3, <2>1 DEF DryRuns
<1>4. ASSUME NEW doc \in documents, NEW u, NEW signature, WalletAdds(doc, u, signature)
      PROVE  \A new \in documents' \ documents : Good(new)
  <2>1. u \in ParseMessageJSON(doc) /\ ~Claims(doc)
    BY <1>1, <1>4 DEF WalletAdds
  <2>2. Good(Beside(doc, signature))
    BY <2>1, SignedBeside
  <2> HIDE DEF Good
  <2> QED BY <1>4, <2>2 DEF WalletAdds
<1>5. ASSUME NEW doc \in documents, EditDocument(doc)
      PROVE  \A new \in documents' \ documents : Claims(new) => ParseSignature(new) # NoSignature
  <2>1. PICK edited \in Edits(doc) : documents' = documents \cup {edited}
    BY <1>5 DEF EditDocument, Keep
  <2>2. Claims(edited) => ParseSignature(edited) # NoSignature
    BY <1>1 DEF VerdictsNeedSignatures
  <2> QED BY <2>1, <2>2
<1>6. CASE documents' \subseteq documents
  BY <1>1, <1>6 DEF VerdictInv
<1>7. CASE Next /\ \E doc \in documents : EditDocument(doc)
  BY <1>1, <1>5, <1>7 DEF VerdictInv
<1>8. CASE \A doc \in documents' \ documents : Good(doc)
  BY <1>1, <1>8 DEF VerdictInv
<1> HIDE DEF Good
<1>9. CASE UNCHANGED vars
  BY <1>6, <1>9 DEF vars
<1>10. CASE Next
  BY <1>1, <1>2, <1>3, <1>4, <1>6, <1>7, <1>8, <1>10, StepForms
<1> QED BY <1>9, <1>10

(* Every verdict that a command writes is its own, never that of the document  *)
(* it has read: what it prints as valid verifies when it is read back.         *)
THEOREM VerdictsAreTrue ==
  ASSUME SignatureFormat, VerdictsNeedSignatures
  PROVE  Spec => VerdictsTruthful
<1>1. Init => VerdictInv
  BY CallsWellInit DEF Init, VerdictInv
<1>2. VerdictInv /\ [Next]_vars => VerdictInv'
  BY VerdictStep
<1>3. VerdictInv /\ [Next]_vars =>
        [(\E doc \in documents : EditDocument(doc)) \/
         \A doc \in documents' \ documents :
           "signatureValid" \in DOMAIN doc /\ TRUE \in doc.signatureValid =>
             \A m \in ParseMessageJSON(doc) : VerifySignedAuthorization(m)]_vars
  BY VerdictStep DEF Claims
<1> QED BY <1>1, <1>2, <1>3, PTL DEF Spec, VerdictsTruthful

-----------------------------------------------------------------------------
LEMMA DeadlineAhead ==
  ASSUME NEW o \in SignOptions, NEW now \in WallClock, o.TTL # 0,
         NEW validBefore \in ResolveValidBefore(o, now)
  PROVE  validBefore > now
<1>1. o.TTL \in 0 .. UINT64 - 1 /\ now \in 0 .. UINT64 - 1 /\ UINT64 \in Nat
  BY OptionsAssumption, DocumentsAssumption
<1>2. (UINT64 - 1) - now >= o.TTL /\ validBefore = (now + o.TTL) % UINT64
  BY DEF ResolveValidBefore
<1>3. now + o.TTL \in 0 .. UINT64 - 1
  BY <1>1, <1>2
<1>4. (now + o.TTL) % UINT64 = now + o.TTL
  BY <1>1, <1>3
<1> QED BY <1>1, <1>2, <1>4

(* A deadline given as --ttl lies ahead of the clock it was added to, however  *)
(* near that is to the last timestamp of 64 bits, whatever else is done with   *)
(* the documents (cli.go:736-752).                                             *)
THEOREM DeadlinesAhead == Spec => TTLDeadlineAhead
<1>1. ASSUME NEW o \in SignOptions, NEW now \in WallClock, o.TTL # 0,
             RunSign(o, now) \/ RunSignDryRun(o, now),
             NEW doc \in documents' \ documents, NEW m \in ParseMessageJSON(doc)
      PROVE  m.Authorization.ValidBefore > now
  <2>1. CASE RunSign(o, now)
    <3>1. PICK written \in SignedMessages(o, now) :
            Keep(SignedAuthorizationObject(written, IF o.Verify THEN {TRUE} ELSE {}))
      BY <2>1 DEF RunSign
    <3>2. PICK u \in UnsignedMessages(o, now) : written \in SignAuthorization(u.Domain, u.Authorization, o.Key)
      BY DEF SignedMessages
    <3>3. /\ IsMessage(u) /\ u.Domain.ChainID # Absent
          /\ u.Authorization.ValidBefore \in ResolveValidBefore(o, now)
      BY UnsignedIsMessage
    <3>4. Well(u.Authorization) /\ IsDomain(u.Domain)
      BY <3>3 DEF IsMessage
    <3>5. IsMessage(written) /\ written.Authorization = u.Authorization
      BY <3>2, <3>3, <3>4, Signed
    <3>6. m = ReadsAs(written, written.Signature)
      BY <3>1, <3>5, PrintedRead DEF Keep
    <3>7. m.Authorization = u.Authorization
      BY <3>5, <3>6 DEF ReadsAs
    <3> QED BY <1>1, <3>3, <3>7, DeadlineAhead
  <2>2. CASE RunSignDryRun(o, now)
    <3>1. PICK u \in UnsignedMessages(o, now) : Keep(TypedDataObject(u))
      BY <2>2 DEF RunSignDryRun
    <3>2. IsMessage(u) /\ u.Authorization.ValidBefore \in ResolveValidBefore(o, now)
      BY UnsignedIsMessage
    <3>3. m = ReadsAs(u, NoSignature)
      BY <3>1, <3>2, DryRunRead DEF Keep
    <3>4. m.Authorization = u.Authorization
      BY <3>3 DEF ReadsAs
    <3> QED BY <1>1, <3>2, <3>4, DeadlineAhead
  <2> QED BY <1>1, <2>1, <2>2
<1>2. [Next]_vars =>
        [\A o \in SignOptions, now \in WallClock :
           o.TTL # 0 /\ (RunSign(o, now) \/ RunSignDryRun(o, now)) =>
             \A doc \in documents' \ documents : \A m \in ParseMessageJSON(doc) :
               m.Authorization.ValidBefore > now]_vars
  BY <1>1
<1> QED BY <1>2, PTL DEF Spec, TTLDeadlineAhead
===============================================================================
