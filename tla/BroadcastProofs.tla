---------------------------- MODULE BroadcastProofs ----------------------------
(***************************************************************************)
(* What holds of any number of invocations with any plans: the composed    *)
(* system uses the token as TokenSpec says, so that all its theorems carry *)
(* over, and nothing is sent to the token that could never succeed.        *)
(***************************************************************************)
EXTENDS BroadcastProperties, EIP3009TokenProofs

\* What cannot go wrong any more with a transaction that is sent to the token.
Sound(tx) ==
  /\ tx.call.v \in SolidityVs /\ ~tx.call.rs.high
  /\ tx.call.rs.signer = SignerAddress(tx.call.args)
  /\ tx.call.rs.digest = TypedDataHash(TokenDomain, tx.call.args)
  /\ tx.call.args.Kind = ReceiveAuthorization => tx.from = tx.call.args.To

TransactionOK(tx) ==
  /\ tx.from \in Accounts
  /\ tx.to = Token => tx.call \in Calls /\ Sound(tx)

InvocationOK(i) ==
  /\ pc[i] \in Calling => plan[i] \in Plans /\ EncodeExecuteCalldata(message[i]) \in Calls
  /\ pc[i] = "SendTransaction" => TransactionOK(sent[i])

LocalTypes ==
  /\ pc \in [Invocations -> {"Start", "Done"} \cup Calling]
  /\ DOMAIN plan = Invocations /\ DOMAIN message = Invocations /\ DOMAIN sent = Invocations

\* The inductive invariant: what is on its way is a call that can be submitted,
\* and what got past EstimateGas is sound.
BroadcastInv ==
  /\ TokenInv
  /\ LocalTypes
  /\ txpool \subseteq accepted
  /\ \A tx \in accepted : TransactionOK(tx)
  /\ \A i \in Invocations : InvocationOK(i)

-----------------------------------------------------------------------------
\* Whatever is signed stays signed.
LEMMA CallsGrow ==
  ASSUME signed \subseteq signed'
  PROVE  /\ Calls \subseteq Calls'
         /\ \A tx : TransactionOK(tx) => TransactionOK(tx)'
<1>1. Signatures \subseteq Signatures'
  BY DEF Signatures
<1>2. Calls \subseteq Calls'
  BY <1>1 DEF Calls
<1> QED
  BY <1>2 DEF TransactionOK, Sound

(* The message an invocation starts with is a call somebody may submit.        *)
LEMMA BroadcastMessageIsCall ==
  ASSUME NEW p \in Plans, p.Command = "broadcast",
         p.Message.Signature.RS \in Signatures, NEW m \in BroadcastMessages(p)
  PROVE  EncodeExecuteCalldata(m) \in Calls
<1>1. PICK resolved \in ResolveSignatureV(p.Message.Signature, p.Policy) :
        m = [Domain |-> p.Message.Domain, Authorization |-> p.Message.Authorization,
             Signature |-> resolved]
  BY DEF BroadcastMessages
<1>2. resolved.V \in SolidityVs \cup {0, 1} /\ resolved.RS = p.Message.Signature.RS
  BY DEF ResolveSignatureV, SolidityVs
<1>3. AbiArguments(p.Message.Authorization) \in Submitted
  BY PlansCovered
<1>4. EncodeExecuteCalldata(m) =
        [args |-> AbiArguments(p.Message.Authorization), v |-> resolved.V,
         rs |-> p.Message.Signature.RS]
  BY <1>1, <1>2 DEF EncodeExecuteCalldata
<1> QED
  BY <1>2, <1>3, <1>4 DEF Calls

(* So is what cancel signs, and signing it is something a holder may do.       *)
LEMMA CancelMessageIsCall ==
  ASSUME NEW p \in Plans, p.Command = "cancel", NEW m \in CancelMessages(p),
         signed' = signed \cup {m.Signature.RS}
  PROVE  /\ EncodeExecuteCalldata(m) \in Calls'
         /\ \E s \in Signable :
              \E m2 \in SignAuthorization(s.Domain, s.Authorization, s.Key) :
                m2.Signature.RS = m.Signature.RS
<1> DEFINE auth == CancelAuthorizationOf(p)
           rs == RawSignature(p.Key, TypedDataHash(p.Message.Domain, auth))
           s == [Key |-> p.Key, Domain |-> p.Message.Domain, Authorization |-> auth]
<1>1. p.Key = SignerAddress(p.Message.Authorization) /\ auth \in Submitted /\ s \in Signable
  BY PlansCovered DEF CancelMessages
<1>2. m \in SignAuthorization(p.Message.Domain, auth, p.Key)
  BY DEF CancelMessages
<1>3. m = [Domain |-> p.Message.Domain, Authorization |-> auth,
           Signature |-> [V |-> rs.recid + 27, RS |-> rs]]
  BY <1>2 DEF SignAuthorization
<1>4. rs.recid \in {0, 1}
  BY <1>1, PlansCovered DEF RawSignature
<1>5. AbiArguments(auth) = auth
  BY DEF AbiArguments, CancelAuthorizationOf, TransferKinds, TransferAuthorization,
         ReceiveAuthorization, CancelAuthorization
<1> HIDE DEF auth, rs
<1>6. EncodeExecuteCalldata(m) = [args |-> auth, v |-> rs.recid + 27, rs |-> rs]
  BY <1>3, <1>5 DEF EncodeExecuteCalldata
<1>7. rs \in Signatures'
  BY <1>3 DEF Signatures
<1>8. rs.recid + 27 \in SolidityVs \cup {0, 1}
  BY <1>4 DEF SolidityVs
<1>9. EncodeExecuteCalldata(m) \in Calls'
  BY <1>1, <1>6, <1>7, <1>8 DEF Calls
<1> QED
  BY <1>1, <1>2, <1>9

(* Whatever the contract accepts at EstimateGas is sound, and stays so.        *)
LEMMA AcceptedIsSound ==
  ASSUME TokenInv, NEW caller \in Accounts, NEW c \in Calls, CallAccepted(caller, c),
         NEW tx, tx.call = c, tx.from = caller
  PROVE  Sound(tx)
<1> USE DEF TransferKinds, TransferAuthorization, ReceiveAuthorization, CancelAuthorization
<1>1. c.args \in Arguments /\ c.rs \in Signatures /\ SignedByHolders
  BY SubmittedAssumption DEF Calls, TokenInv
<1>2. ASSUME NEW digest, NEW signer \in Addresses, Recovered(digest, c.v, c.rs) = signer
      PROVE  c.v \in SolidityVs /\ ~c.rs.high
  <2>1. signer # Stranger
    BY AddressAssumption DEF Addresses
  <2> QED
    BY <1>2, <2>1 DEF Recovered
<1>3. ASSUME c.args.Kind \in TransferKinds,
             RequireTransferAuthorization(TypeHash(c.args.Kind), c),
             c.args.Kind = ReceiveAuthorization => caller = c.args.To
      PROVE  Sound(tx)
  <2>1. /\ c.args \in TransferArguments /\ c.rs.signer = c.args.From
        /\ c.rs.digest = TypedDataHash(TokenDomain, c.args)
    BY <1>3, TransferSigned
  <2>2. Recovered(HashTypedDataV4(TransferStructHash(TypeHash(c.args.Kind), c.args)), c.v, c.rs)
          = c.args.From
    BY <1>3 DEF RequireTransferAuthorization, RequireValidSignature
  <2>3. c.args.From \in Addresses
    BY <2>1 DEF TransferArguments
  <2>4. c.v \in SolidityVs /\ ~c.rs.high
    BY <1>2, <2>2, <2>3
  <2>5. SignerAddress(c.args) = c.args.From
    BY <1>3 DEF SignerAddress
  <2> QED
    BY <1>3, <2>1, <2>4, <2>5 DEF Sound
<1>4. CASE TransferAccepted(caller, c)
  <2>1. c.args.Kind = TransferAuthorization
    BY <1>4 DEF TransferAccepted
  <2>2. TypeHash(c.args.Kind) = TRANSFER_WITH_AUTHORIZATION_TYPEHASH
    BY <2>1 DEF TypeHash, TRANSFER_WITH_AUTHORIZATION_TYPEHASH
  <2> QED
    BY <1>3, <1>4, <2>1, <2>2 DEF TransferAccepted
<1>5. CASE ReceiveAccepted(caller, c)
  <2>1. c.args.Kind = ReceiveAuthorization
    BY <1>5 DEF ReceiveAccepted
  <2>2. TypeHash(c.args.Kind) = RECEIVE_WITH_AUTHORIZATION_TYPEHASH
    BY <2>1 DEF TypeHash, RECEIVE_WITH_AUTHORIZATION_TYPEHASH
  <2> QED
    BY <1>3, <1>5, <2>1, <2>2 DEF ReceiveAccepted
<1>6. CASE CancelAccepted(caller, c)
  <2>1. /\ c.args.Kind = CancelAuthorization
        /\ RequireValidSignature(c.args.Authorizer, CancelStructHash(c.args), c)
    BY <1>6 DEF CancelAccepted
  <2>2. /\ c.args \in CancelArguments /\ c.rs.signer = c.args.Authorizer
        /\ c.rs.digest = TypedDataHash(TokenDomain, c.args)
    BY <2>1, CancelSigned
  <2>3. c.args.Authorizer \in Addresses
    BY <2>2 DEF CancelArguments
  <2>4. c.v \in SolidityVs /\ ~c.rs.high
    BY <1>2, <2>1, <2>3 DEF RequireValidSignature
  <2>5. SignerAddress(c.args) = c.args.Authorizer
    BY <2>1 DEF SignerAddress
  <2> QED
    BY <2>1, <2>2, <2>4, <2>5 DEF Sound
<1> QED
  BY <1>4, <1>5, <1>6 DEF CallAccepted

(* Every step of the system is a step of the token, or leaves it alone.        *)
LEMMA StepIsTokenStep ==
  ASSUME BroadcastInv, [Next]_vars
  PROVE  [TokenNext]_tokenVars
<1>1. ASSUME NEW i \in Invocations, NEW p \in Plans, StartBroadcast(i, p)
      PROVE  UNCHANGED tokenVars
  BY <1>1 DEF StartBroadcast
<1>2. ASSUME NEW i \in Invocations, NEW p \in Plans, StartCancel(i, p)
      PROVE  TokenNext
  <2>1. PICK m \in CancelMessages(p) : signed' = signed \cup {m.Signature.RS}
    BY <1>2 DEF StartCancel
  <2>2. PICK s \in Signable :
          \E m2 \in SignAuthorization(s.Domain, s.Authorization, s.Key) :
            m2.Signature.RS = m.Signature.RS
    BY <1>2, <2>1, CancelMessageIsCall DEF StartCancel
  <2>3. Sign(s)
    BY <1>2, <2>1, <2>2 DEF StartCancel, Sign
  <2> QED
    BY <2>3 DEF TokenNext
<1>3. ASSUME NEW i \in Invocations, Step(i)
      PROVE  UNCHANGED tokenVars
  BY <1>3 DEF Step, AskChainID, AskPendingNonce, AskGasPrice, AskGasAndSign, Send,
              SendUnanswered, WriteOutput, Fail
<1>4. ASSUME NEW tx \in txpool, NEW caller \in Accounts, AuthorizationCall(caller, tx.call),
             tx.to = Token
      PROVE  TokenNext
  <2>1. tx.call \in Calls
    BY <1>4 DEF BroadcastInv, TransactionOK
  <2> QED
    BY <1>4, <2>1 DEF TokenNext
<1>5. ASSUME MineOne
      PROVE  [TokenNext]_tokenVars
  <2>1. PICK tx \in txpool : MineCall(tx) \/ MineReverted(tx) \/ MineNoCode(tx)
    BY <1>5 DEF MineOne
  <2>2. tx.from \in Accounts
    BY DEF BroadcastInv, TransactionOK
  <2> QED
    BY <1>4, <2>1, <2>2 DEF MineCall, MineReverted, MineNoCode
<1>6. ASSUME NEW outsider \in Outsiders, NEW tx \in txpool, Copied(outsider, tx)
      PROVE  TokenNext
  BY <1>4, <1>6, NodeAssumption DEF Copied
<1>7. ASSUME Environment
      PROVE  TokenNext
  BY <1>7, NodeAssumption, TokenAssumption DEF Environment, TokenNext
<1>8. CASE NodeStep
  BY <1>5, <1>6, <1>7, <1>8 DEF NodeStep
<1>9. CASE UNCHANGED vars
  BY <1>9 DEF vars
<1> QED
  BY <1>1, <1>2, <1>3, <1>8, <1>9 DEF Next

(* The token's invariant, as one step of the token's proof shows it.           *)
LEMMA TokenInvStep == TokenInv /\ [TokenNext]_tokenVars => TokenInv'
  BY TypeOKStep, SignedByHoldersStep, ConsumedIffLoggedStep, SlotConsumedOnceStep,
     EffectBackedStep, PayeeCalledStep
  DEF TokenInv

(* No step unsigns anything.                                                   *)
LEMMA SignaturesGrow == TokenInv /\ [TokenNext]_tokenVars => signed \subseteq signed'
  BY StepCases DEF Consumes

(* Nothing is on its way at first.                                             *)
LEMMA BroadcastInvInit == Init => BroadcastInv
<1> SUFFICES ASSUME Init PROVE BroadcastInv
  OBVIOUS
<1>1. TokenInv
  BY TokenInvInit DEF Init
<1>2. \A i \in Invocations : pc[i] = "Start"
  BY DEF Init
<1>3. txpool = {} /\ accepted = {}
  BY DEF Init, NodeInit
<1>4. LocalTypes
  BY DEF Init, LocalTypes
<1> QED
  BY <1>1, <1>2, <1>3, <1>4 DEF BroadcastInv, InvocationOK, Calling

(* Every step preserves the invariant.                                         *)
LEMMA BroadcastInvStep ==
  ASSUME BroadcastInv, [Next]_vars
  PROVE  BroadcastInv'
<1>1. TokenInv' /\ signed \subseteq signed'
  BY StepIsTokenStep, TokenInvStep, SignaturesGrow DEF BroadcastInv
<1>2. Calls \subseteq Calls' /\ \A tx : TransactionOK(tx) => TransactionOK(tx)'
  BY <1>1, CallsGrow
<1> DEFINE PoolInv == txpool \subseteq accepted /\ \A tx \in accepted : TransactionOK(tx)
<1>3. PoolInv /\ LocalTypes /\ \A i \in Invocations : InvocationOK(i)
  BY DEF BroadcastInv
<1>4. ASSUME UNCHANGED nodeVars
      PROVE  PoolInv'
  BY <1>2, <1>3, <1>4 DEF nodeVars
<1>5. ASSUME NEW i \in Invocations, pc[i] = "SendTransaction", SendTransaction(sent[i])
      PROVE  PoolInv'
  <2>1. TransactionOK(sent[i])
    BY <1>3, <1>5 DEF InvocationOK
  <2> QED
    BY <1>2, <1>3, <1>5, <2>1 DEF SendTransaction
<1>6. ASSUME UNCHANGED <<plan, message, sent>>, NEW i \in Invocations, NEW next,
             pc[i] \in Calling, next \in {"Done"} \cup Calling, next # "SendTransaction",
             pc' = [pc EXCEPT ![i] = next]
      PROVE  LocalTypes' /\ \A j \in Invocations : InvocationOK(j)'
  <2>1. LocalTypes'
    BY <1>3, <1>6 DEF LocalTypes
  <2>2. \A j \in Invocations : pc'[j] \in Calling => pc[j] \in Calling
    BY <1>3, <1>6 DEF LocalTypes
  <2>3. \A j \in Invocations : pc'[j] = "SendTransaction" => pc[j] = "SendTransaction"
    BY <1>3, <1>6 DEF LocalTypes
  <2> QED
    BY <1>2, <1>3, <1>6, <2>1, <2>2, <2>3 DEF InvocationOK
<1>7. ASSUME NEW i \in Invocations, NEW p \in Plans, StartBroadcast(i, p) \/ StartCancel(i, p)
      PROVE  BroadcastInv'
  <2>1. PICK m : /\ Ready(i, p, m)
                 /\ EncodeExecuteCalldata(m) \in Calls'
    <3>1. CASE StartBroadcast(i, p)
      BY <1>2, <3>1, BroadcastMessageIsCall DEF StartBroadcast
    <3>2. CASE StartCancel(i, p)
      BY <3>2, CancelMessageIsCall DEF StartCancel
    <3> QED
      BY <1>7, <3>1, <3>2
  <2>2. /\ pc' = [pc EXCEPT ![i] = "ChainID"] /\ plan' = [plan EXCEPT ![i] = p]
        /\ message' = [message EXCEPT ![i] = m] /\ UNCHANGED <<nodeVars, sent>>
    BY <2>1 DEF Ready
  <2>3. LocalTypes'
    BY <1>3, <2>2 DEF LocalTypes, Calling
  <2>4. InvocationOK(i)'
    BY <1>3, <2>1, <2>2 DEF InvocationOK, LocalTypes
  <2>5. \A j \in Invocations \ {i} : InvocationOK(j)'
    <3>1. \A j \in Invocations \ {i} :
            pc'[j] = pc[j] /\ plan'[j] = plan[j] /\ message'[j] = message[j] /\ sent'[j] = sent[j]
      BY <1>3, <2>2 DEF LocalTypes
    <3> QED
      BY <1>2, <1>3, <3>1 DEF InvocationOK
  <2>6. PoolInv'
    BY <1>4, <2>2
  <2> QED
    BY <1>1, <2>3, <2>4, <2>5, <2>6 DEF BroadcastInv
<1>8. ASSUME NEW i \in Invocations,
             \/ AskChainID(i) \/ AskPendingNonce(i) \/ AskGasPrice(i)
             \/ Send(i) \/ SendUnanswered(i) \/ WriteOutput(i)
      PROVE  BroadcastInv'
  <2>1. PoolInv'
    BY <1>4, <1>5, <1>8 DEF AskChainID, AskPendingNonce, AskGasPrice, Send, SendUnanswered,
                            WriteOutput, Goto
  <2>2. /\ UNCHANGED <<plan, message, sent>> /\ pc[i] \in Calling
        /\ \E next \in {"Done"} \cup Calling :
             next # "SendTransaction" /\ pc' = [pc EXCEPT ![i] = next]
    BY <1>8 DEF AskChainID, AskPendingNonce, AskGasPrice, Send, SendUnanswered, WriteOutput,
                Goto, Calling
  <2>3. LocalTypes' /\ \A j \in Invocations : InvocationOK(j)'
    BY <1>6, <2>2
  <2> QED
    BY <1>1, <2>1, <2>3 DEF BroadcastInv
<1>9. ASSUME NEW i \in Invocations, Fail(i)
      PROVE  BroadcastInv'
  <2>1. UNCHANGED <<nodeVars, plan, message, sent>> /\ pc' = [pc EXCEPT ![i] = "Done"]
    BY <1>9 DEF Fail
  <2>2. LocalTypes' /\ \A j \in Invocations : pc'[j] = pc[j] \/ pc'[j] = "Done"
    BY <1>3, <2>1 DEF LocalTypes
  <2>3. \A j \in Invocations : InvocationOK(j)'
    BY <1>2, <1>3, <2>1, <2>2 DEF InvocationOK, Calling
  <2> QED
    BY <1>1, <1>4, <2>1, <2>2, <2>3 DEF BroadcastInv
<1>10. ASSUME NEW i \in Invocations, AskGasAndSign(i)
       PROVE  BroadcastInv'
  <2> DEFINE to == message[i].Domain.VerifyingContract
             c == EncodeExecuteCalldata(message[i])
  <2>1. PICK gas \in EstimateGas(plan[i].Key, to, c) :
          sent' = [sent EXCEPT ![i] =
                     [from |-> plan[i].Key, nonce |-> draft[i].nonce,
                      gasPrice |-> draft[i].gasPrice, gasLimit |-> gas + gas \div 5,
                      to |-> to, call |-> c]]
    BY <1>10 DEF AskGasAndSign
  <2>2. /\ pc[i] = "EstimateGas" /\ pc' = [pc EXCEPT ![i] = "SendTransaction"]
        /\ UNCHANGED <<nodeVars, plan, message>>
    BY <1>10 DEF AskGasAndSign, Goto
  <2>3. plan[i] \in Plans /\ c \in Calls
    BY <1>3, <2>2 DEF InvocationOK, Calling
  <2>4. plan[i].Key \in Accounts
    BY <2>3, PlansAssumption
  <2>5. to = Token => CallAccepted(plan[i].Key, c)
    BY <2>1 DEF EstimateGas
  <2> DEFINE tx == [from |-> plan[i].Key, nonce |-> draft[i].nonce,
                    gasPrice |-> draft[i].gasPrice, gasLimit |-> gas + gas \div 5,
                    to |-> to, call |-> c]
  <2>6. tx.from = plan[i].Key /\ tx.call = c /\ tx.to = to
    OBVIOUS
  <2>7. sent' = [sent EXCEPT ![i] = tx]
    BY <2>1
  <2> HIDE DEF tx, c, to
  <2>8. TransactionOK(tx)
    BY <2>3, <2>4, <2>5, <2>6, AcceptedIsSound DEF TransactionOK, BroadcastInv
  <2>9. /\ LocalTypes'
        /\ sent'[i] = tx /\ pc'[i] = "SendTransaction"
        /\ \A j \in Invocations \ {i} : pc'[j] = pc[j] /\ sent'[j] = sent[j]
    BY <1>3, <2>2, <2>7 DEF LocalTypes, Calling
  <2>10. InvocationOK(i)'
    BY <1>2, <2>2, <2>3, <2>8, <2>9 DEF InvocationOK, c
  <2>11. \A j \in Invocations \ {i} : InvocationOK(j)'
    BY <1>2, <1>3, <2>2, <2>9 DEF InvocationOK
  <2> QED
    BY <1>1, <1>4, <2>2, <2>9, <2>10, <2>11 DEF BroadcastInv
<1>11. ASSUME UNCHANGED cliVars, PoolInv'
       PROVE  BroadcastInv'
  BY <1>1, <1>2, <1>3, <1>11 DEF BroadcastInv, InvocationOK, LocalTypes, cliVars
<1>12. ASSUME NodeStep
       PROVE  PoolInv'
  <2>1. ASSUME NEW tx \in txpool, NEW status, Mine(tx, status)
        PROVE  PoolInv'
    BY <1>2, <1>3, <2>1 DEF Mine
  <2> QED
    BY <1>4, <1>12, <2>1 DEF NodeStep, MineOne, MineCall, MineReverted, MineNoCode, Copied,
                             Environment
<1>13. CASE UNCHANGED vars
  BY <1>4, <1>11, <1>13 DEF vars
<1> QED
  BY <1>7, <1>8, <1>9, <1>10, <1>11, <1>12, <1>13 DEF Next, Step

(* The inductive invariant holds: what is pending or about to be sent to the   *)
(* token is a call that somebody may submit, and it is sound.                  *)
THEOREM BroadcastInvariant == Spec => []BroadcastInv
<1>1. Init => BroadcastInv
  BY BroadcastInvInit
<1>2. BroadcastInv /\ [Next]_vars => BroadcastInv'
  BY BroadcastInvStep
<1> QED
  BY <1>1, <1>2, PTL DEF Spec

(* The system uses the token as TokenSpec allows, so that whatever is proved   *)
(* of the token holds however many invocations race, retry and fail.           *)
THEOREM SystemImplementsToken == Spec => TokenSpec
<1>1. Init => TokenInit
  BY DEF Init
<1>2. BroadcastInv /\ [Next]_vars => [TokenNext]_tokenVars
  BY StepIsTokenStep
<1> QED
  BY <1>1, <1>2, BroadcastInvariant, PTL DEF Spec, TokenSpec

(* No authorization takes effect twice through any number of invocations.      *)
THEOREM SystemSlotsConsumedOnce == Spec => []SlotConsumedOnce
  BY SystemImplementsToken, SlotsConsumedOnce, PTL

(* Nothing is sent to the token that could never have succeeded.               *)
THEOREM NothingHopelessSent == Spec => []HopelessNeverSent
<1>1. BroadcastInv => HopelessNeverSent
  BY DEF BroadcastInv, TransactionOK, Sound, HopelessNeverSent, Authorizer
<1> QED
  BY <1>1, BroadcastInvariant, PTL

-----------------------------------------------------------------------------
(* The simulation reverts for whatever was consumed before the start.          *)
StartedInv ==
  /\ DOMAIN startedAt = Invocations
  /\ \A i \in Invocations :
       /\ startedAt[i] \in 0 .. Len(log)
       /\ pc[i] = "Start" => sent[i] = NoTx
  /\ ConsumedNotRebroadcast

\* The log only grows.
LEMMA LogGrows ==
  ASSUME BroadcastInv, [Next]_vars
  PROVE  /\ Len(log) \in Nat /\ Len(log') \in Nat /\ Len(log) <= Len(log')
         /\ \A n \in 1 .. Len(log) : log'[n] = log[n]
<1>0. TokenInv /\ [TokenNext]_tokenVars
  BY StepIsTokenStep DEF BroadcastInv
<1>1. Len(log) \in Nat
  BY <1>0 DEF TokenInv, TypeOK
<1>2. ASSUME NEW caller \in Accounts, NEW c \in Calls, NEW event, NEW authorizer,
             Consumes(event, authorizer, caller, c)
      PROVE  Len(log') = Len(log) + 1 /\ \A n \in 1 .. Len(log) : log'[n] = log[n]
  <2>1. \A n \in 1 .. Len(log) : log'[n] = log[n]
    BY <1>0, <1>2, Appended DEF Entries
  <2> DEFINE entry == [event |-> event, authorizer |-> authorizer, nonce |-> c.args.Nonce,
                       caller |-> caller, timestamp |-> timestamp, call |-> c]
  <2>2. log' = Append(log, entry)
    BY <1>2 DEF Consumes, MarkAndEmit
  <2> HIDE DEF entry
  <2>3. Len(log') = Len(log) + 1
    BY <1>0, <2>2 DEF TokenInv, TypeOK
  <2> QED
    BY <2>1, <2>3
<1> QED
  BY <1>0, <1>1, <1>2, StepCases

\* What the contract accepts is open, so no event so far has consumed it.
LEMMA AcceptedIsOpen ==
  ASSUME TokenInv, NEW caller \in Accounts, NEW c \in Calls, CallAccepted(caller, c)
  PROVE  ~\E n \in Entries : log[n].authorizer = SignerAddress(c.args) /\ log[n].nonce = c.args.Nonce
<1> USE DEF TransferKinds, TransferAuthorization, ReceiveAuthorization, CancelAuthorization
<1>1. c.args \in Arguments
  BY SubmittedAssumption DEF Calls
<1>2. /\ SignerAddress(c.args) \in Addresses /\ c.args.Nonce \in Nonces
      /\ ~authorizationState[SignerAddress(c.args)][c.args.Nonce]
  BY <1>1 DEF CallAccepted, TransferAccepted, ReceiveAccepted, CancelAccepted, SignerAddress,
              RequireTransferAuthorization, RequireUnusedAuthorization, Arguments,
              TransferArguments, CancelArguments
<1> QED
  BY <1>2 DEF TokenInv, ConsumedIffLogged

(* EstimateGas finds the slot open, so nothing before the start consumed it.   *)
LEMMA StartedInvStep ==
  ASSUME BroadcastInv, StartedInv, [Next]_vars
  PROVE  StartedInv'
<1>1. /\ \A i \in Invocations :
           /\ startedAt[i] \in 0 .. Len(log)
           /\ pc[i] = "Start" => sent[i] = NoTx
           /\ sent[i] # NoTx /\ sent[i].to = Token =>
                \A n \in 1 .. startedAt[i] :
                  ~(log[n].authorizer = Authorizer(sent[i]) /\ log[n].nonce = AuthorizationNonce(sent[i]))
      /\ DOMAIN startedAt = Invocations /\ LocalTypes
  BY DEF StartedInv, ConsumedNotRebroadcast, ConsumedWithin, BroadcastInv
<1>2. /\ Len(log) \in Nat /\ Len(log') \in Nat /\ Len(log) <= Len(log')
      /\ \A n \in 1 .. Len(log) : log'[n] = log[n]
  BY LogGrows
<1> DEFINE Kept(i) ==
      /\ startedAt'[i] \in 0 .. Len(log')
      /\ pc'[i] = "Start" => sent'[i] = NoTx
      /\ sent'[i] # NoTx /\ sent'[i].to = Token =>
           \A n \in 1 .. startedAt'[i] :
             ~(log'[n].authorizer = SignerAddress(sent'[i].call.args)
               /\ log'[n].nonce = sent'[i].call.args.Nonce)
<1>3. ASSUME DOMAIN startedAt' = Invocations, \A i \in Invocations : Kept(i)
      PROVE  StartedInv'
  BY <1>3 DEF StartedInv, ConsumedNotRebroadcast, ConsumedWithin, Authorizer, AuthorizationNonce
<1>4. ASSUME NEW i \in Invocations, sent'[i] = sent[i], startedAt'[i] = startedAt[i],
             pc'[i] = "Start" => pc[i] = "Start"
      PROVE  Kept(i)
  BY <1>1, <1>2, <1>4 DEF Authorizer, AuthorizationNonce
<1>5. ASSUME UNCHANGED <<sent, startedAt>>,
             \A i \in Invocations : pc'[i] = "Start" => pc[i] = "Start"
      PROVE  StartedInv'
  BY <1>1, <1>3, <1>4, <1>5
<1>6. ASSUME NEW i \in Invocations, NEW p \in Plans, StartBroadcast(i, p) \/ StartCancel(i, p)
      PROVE  StartedInv'
  <2>1. /\ pc[i] = "Start" /\ UNCHANGED sent
        /\ pc' = [pc EXCEPT ![i] = "ChainID"]
        /\ startedAt' = [startedAt EXCEPT ![i] = Len(log)]
    BY <1>6 DEF StartBroadcast, StartCancel, Ready
  <2>2. Kept(i)
    BY <1>1, <1>2, <2>1
  <2>3. \A j \in Invocations \ {i} : Kept(j)
    BY <1>1, <1>4, <2>1 DEF LocalTypes
  <2> QED
    BY <1>1, <1>3, <2>1, <2>2, <2>3
<1>7. ASSUME NEW i \in Invocations, AskGasAndSign(i)
      PROVE  StartedInv'
  <2> DEFINE to == message[i].Domain.VerifyingContract
             c == EncodeExecuteCalldata(message[i])
  <2>1. PICK gas \in EstimateGas(plan[i].Key, to, c) :
          sent' = [sent EXCEPT ![i] =
                     [from |-> plan[i].Key, nonce |-> draft[i].nonce,
                      gasPrice |-> draft[i].gasPrice, gasLimit |-> gas + gas \div 5,
                      to |-> to, call |-> c]]
    BY <1>7 DEF AskGasAndSign
  <2>2. /\ pc[i] = "EstimateGas" /\ pc' = [pc EXCEPT ![i] = "SendTransaction"]
        /\ UNCHANGED <<log, startedAt>>
    BY <1>7 DEF AskGasAndSign, Goto, tokenVars
  <2>3. c \in Calls /\ plan[i].Key \in Accounts
    BY <2>2, PlansAssumption DEF BroadcastInv, InvocationOK, Calling
  <2>4. to = Token => CallAccepted(plan[i].Key, c)
    BY <2>1 DEF EstimateGas
  <2>5. sent'[i].call = c /\ sent'[i].to = to /\ \A j \in Invocations \ {i} : sent'[j] = sent[j]
    BY <1>1, <2>1 DEF LocalTypes
  <2> HIDE DEF to, c
  <2>6. to = Token => ~\E n \in Entries : log[n].authorizer = SignerAddress(c.args)
                                            /\ log[n].nonce = c.args.Nonce
    BY <2>3, <2>4, AcceptedIsOpen DEF BroadcastInv
  <2>7. 1 .. startedAt[i] \subseteq Entries
    BY <1>1, <1>2 DEF Entries
  <2>8. pc'[i] = "SendTransaction" /\ startedAt'[i] \in 0 .. Len(log')
    BY <1>1, <2>2 DEF LocalTypes
  <2>9. Kept(i)
    BY <2>2, <2>5, <2>6, <2>7, <2>8
  <2>10. \A j \in Invocations \ {i} : Kept(j)
    BY <1>1, <1>4, <2>2, <2>5 DEF LocalTypes
  <2> QED
    BY <1>1, <1>3, <2>2, <2>9, <2>10
<1>8. ASSUME NEW i \in Invocations, Step(i), ~AskGasAndSign(i)
      PROVE  StartedInv'
  <2>1. /\ UNCHANGED <<sent, startedAt>>
        /\ \E next \in {"Done"} \cup Calling : pc' = [pc EXCEPT ![i] = next]
    BY <1>8 DEF Step, AskChainID, AskPendingNonce, AskGasPrice, Send, SendUnanswered,
                WriteOutput, Fail, Goto, Calling
  <2> QED
    BY <1>1, <1>5, <2>1 DEF LocalTypes, Calling
<1>9. CASE UNCHANGED cliVars
  BY <1>5, <1>9 DEF cliVars
<1> QED
  BY <1>6, <1>7, <1>8, <1>9 DEF Next, vars

(* An invocation started after the use or the cancellation of an authorization *)
(* never builds a transaction for it: at EstimateGas it is consumed still.     *)
THEOREM NeverRebroadcast == Spec => []ConsumedNotRebroadcast
<1>1. Init => StartedInv
  <2> SUFFICES ASSUME Init PROVE StartedInv
    OBVIOUS
  <2>1. log = <<>> /\ \A i \in Invocations : startedAt[i] = 0 /\ sent[i] = NoTx
    BY DEF Init, TokenInit
  <2> QED
    BY <2>1 DEF Init, StartedInv, ConsumedNotRebroadcast
<1>2. BroadcastInv /\ StartedInv /\ [Next]_vars => StartedInv'
  BY StartedInvStep
<1>3. StartedInv => ConsumedNotRebroadcast
  BY DEF StartedInv
<1> QED
  BY <1>1, <1>2, <1>3, BroadcastInvariant, PTL DEF Spec
===============================================================================
