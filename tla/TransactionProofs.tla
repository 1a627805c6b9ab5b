-------------------------- MODULE TransactionProofs --------------------------
(***************************************************************************)
(* What becomes of the nonces of an account, of the transactions that were *)
(* reported, and what their receipts say, however many invocations share a *)
(* key: nothing waits for a nonce that nobody uses, nothing is lost except *)
(* to a rival that asked for its nonce too early to know of it, at most    *)
(* one transaction of an authorization succeeds, and one that reverts was  *)
(* overtaken after the node had simulated it.                              *)
(***************************************************************************)
EXTENDS BroadcastProofs

NonceTaken(a, n) == \E t \in txpool : t.from = a /\ t.nonce = n

\* Every nonce below n is mined or pending.
Reached(a, n) == \A k \in 0 .. n - 1 : k < accountNonce[a] \/ NonceTaken(a, k)

PoolShape ==
  /\ IsFiniteSet(txpool)
  /\ accountNonce \in [Accounts -> Nat]
  /\ \A t \in accepted : t.nonce \in Nat
  /\ \A t1, t2 \in txpool : SameSlot(t1, t2) => t1 = t2
  /\ \A t \in txpool : t.nonce >= accountNonce[t.from] /\ Reached(t.from, t.nonce)

\* What was accepted is pending, or too old to be sent again, or displaced.
AcceptedPlaced ==
  \A tx \in accepted :
    \/ tx.nonce < accountNonce[tx.from]
    \/ NonceTaken(tx.from, tx.nonce)

Asked == {"SuggestGasPrice", "EstimateGas", "SendTransaction"}

\* The nonce an invocation was told: what it knows of does not use it.
DraftOK(i) ==
  /\ pc[i] \in Asked =>
       /\ Reached(plan[i].Key, draft[i].nonce)
       /\ \A tx \in draft[i].after : ~(tx.from = plan[i].Key /\ tx.nonce = draft[i].nonce)
  /\ pc[i] = "SendTransaction" => sent[i].from = plan[i].Key /\ sent[i].nonce = draft[i].nonce

DraftInv ==
  /\ draft \in [Invocations -> [nonce : Nat, gasPrice : Nat, after : SUBSET accepted]]
  /\ \A i \in Invocations : DraftOK(i)

PoolInv == BroadcastInv /\ PoolShape /\ AcceptedPlaced /\ DraftInv

(* There is a free nonce among the first that could be, since the pool has no  *)
(* more transactions than that, and the node answers with the least.           *)
LEMMA PendingNonceIsFree ==
  ASSUME IsFiniteSet(txpool), accountNonce \in [Accounts -> Nat],
         \A t \in txpool : t.nonce \in Nat, NEW a \in Accounts,
         NEW n, n = PendingNonceAt(a)
  PROVE  /\ n \in Nat /\ n >= accountNonce[a]
         /\ ~NonceTaken(a, n)
         /\ Reached(a, n)
<1> DEFINE low == accountNonce[a]
           size == Cardinality(txpool)
           Free == {k \in low .. low + size : ~NonceTaken(a, k)}
<1>1. low \in Nat /\ size \in Nat
  BY FS_CardinalityType
<1>2. Free # {}
  <2> SUFFICES ASSUME \A k \in low .. low + size : NonceTaken(a, k)
               PROVE  FALSE
    OBVIOUS
  <2> DEFINE used == {t.nonce : t \in txpool}
             nonceOf == [t \in txpool |-> t.nonce]
  <2>1. nonceOf \in Surjection(txpool, used)
    BY DEF Surjection
  <2>2. IsFiniteSet(used) /\ Cardinality(used) <= size
    <3> HIDE DEF used, nonceOf
    <3> QED BY <2>1, FS_Surjection
  <2>3. low .. low + size \subseteq used
    BY DEF NonceTaken
  <2>4. Cardinality(low .. low + size) = size + 1
    BY <1>1, FS_Interval
  <2>5. Cardinality(low .. low + size) <= Cardinality(used) /\ Cardinality(used) \in Nat
    <3> HIDE DEF used
    <3> QED BY <2>2, <2>3, FS_Subset, FS_CardinalityType
  <2> HIDE DEF used, size, low
  <2> QED BY <1>1, <2>2, <2>4, <2>5
<1>3. Free \in SUBSET Nat
  BY <1>1
<1>4. PICK m \in Free : \A k \in Free : m <= k
  <2> HIDE DEF Free
  <2> QED BY <1>2, <1>3, LeastNatural
<1>5. m \in low .. low + size /\ ~NonceTaken(a, m)
  OBVIOUS
<1>6. \A k \in low .. m - 1 : NonceTaken(a, k)
  BY <1>1, <1>4, <1>5
<1>7. /\ n \in low .. low + size /\ ~NonceTaken(a, n)
      /\ \A k \in low .. n - 1 : NonceTaken(a, k)
  BY <1>5, <1>6 DEF PendingNonceAt, NonceTaken
<1>8. n \in Nat /\ n >= low
  BY <1>1, <1>7
<1> QED BY <1>1, <1>7, <1>8 DEF Reached

-----------------------------------------------------------------------------
(* What a step may do to the node.                                             *)
LEMMA NodeCases ==
  ASSUME BroadcastInv, [Next]_vars
  PROVE  \/ UNCHANGED nodeVars
         \/ \E i \in Invocations : /\ pc[i] = "SendTransaction" /\ SendTransaction(sent[i])
                                   /\ pc' \in {[pc EXCEPT ![i] = "WriteOutput"], [pc EXCEPT ![i] = "Done"]}
                                   /\ UNCHANGED <<plan, draft, sent>>
         \/ \E tx \in txpool, status \in {"success", "reverted"} : Mine(tx, status) /\ UNCHANGED cliVars
<1>1. ASSUME NEW i \in Invocations, NEW p \in Plans, StartBroadcast(i, p) \/ StartCancel(i, p)
      PROVE  UNCHANGED nodeVars
  BY <1>1 DEF StartBroadcast, StartCancel, Ready
<1>2. ASSUME NEW i \in Invocations, Step(i)
      PROVE  \/ UNCHANGED nodeVars
             \/ /\ pc[i] = "SendTransaction" /\ SendTransaction(sent[i])
                /\ pc' \in {[pc EXCEPT ![i] = "WriteOutput"], [pc EXCEPT ![i] = "Done"]}
                /\ UNCHANGED <<plan, draft, sent>>
  BY <1>2 DEF Step, AskChainID, AskPendingNonce, AskGasPrice, AskGasAndSign, Send,
              SendUnanswered, WriteOutput, Fail, Goto
<1>3. ASSUME NodeStep, UNCHANGED cliVars
      PROVE  \/ UNCHANGED nodeVars
             \/ \E tx \in txpool, status \in {"success", "reverted"} : Mine(tx, status) /\ UNCHANGED cliVars
  BY <1>3 DEF NodeStep, MineOne, MineCall, MineReverted, MineNoCode, Copied, Environment
<1>4. CASE UNCHANGED vars
  BY <1>4 DEF vars
<1> QED BY <1>1, <1>2, <1>3, <1>4 DEF Next

(* A nonce that is mined or pending stays so.                                  *)
LEMMA ReachedStays ==
  ASSUME PoolInv, [Next]_vars, NEW a \in Accounts, NEW n \in Nat
  PROVE  /\ n < accountNonce[a] \/ NonceTaken(a, n) => (n < accountNonce[a] \/ NonceTaken(a, n))'
         /\ accountNonce[a] <= accountNonce'[a]
<1>0. /\ accountNonce \in [Accounts -> Nat]
      /\ \A t \in txpool : t \in accepted /\ t.nonce \in Nat /\ t.from \in Accounts
  BY DEF PoolInv, PoolShape, BroadcastInv, TransactionOK
<1>1. CASE UNCHANGED nodeVars
  BY <1>0, <1>1 DEF nodeVars, NonceTaken
<1>2. ASSUME NEW i \in Invocations, SendTransaction(sent[i])
      PROVE  /\ n < accountNonce[a] \/ NonceTaken(a, n) => (n < accountNonce[a] \/ NonceTaken(a, n))'
             /\ accountNonce[a] <= accountNonce'[a]
  BY <1>0, <1>2 DEF SendTransaction, SameSlot, NonceTaken
<1>3. ASSUME NEW tx \in txpool, NEW status, Mine(tx, status)
      PROVE  /\ n < accountNonce[a] \/ NonceTaken(a, n) => (n < accountNonce[a] \/ NonceTaken(a, n))'
             /\ accountNonce[a] <= accountNonce'[a]
  <2>1. /\ tx.nonce = accountNonce[tx.from] /\ tx.from \in Accounts
        /\ accountNonce'[tx.from] = tx.nonce + 1
        /\ \A b \in Accounts \ {tx.from} : accountNonce'[b] = accountNonce[b]
        /\ txpool' = txpool \ {tx}
    BY <1>0, <1>3 DEF Mine
  <2>2. accountNonce[a] <= accountNonce'[a]
    BY <1>0, <2>1
  <2>3. ASSUME NEW t \in txpool, t.from = a, t.nonce = n
        PROVE  (n < accountNonce[a] \/ NonceTaken(a, n))'
    BY <1>0, <2>1, <2>3 DEF NonceTaken
  <2>4. ASSUME n < accountNonce[a]
        PROVE  n < accountNonce'[a]
    BY <1>0, <2>1, <2>4
  <2> QED BY <2>2, <2>3, <2>4 DEF NonceTaken
<1> QED BY <1>1, <1>2, <1>3, NodeCases DEF PoolInv

\* So does everything below a nonce that was reached.
LEMMA ReachedAllStays ==
  ASSUME PoolInv, [Next]_vars, NEW a \in Accounts, NEW n \in Nat, Reached(a, n)
  PROVE  Reached(a, n)'
<1>1. \A k \in 0 .. n - 1 : k \in Nat
  OBVIOUS
<1> QED BY <1>1, ReachedStays DEF Reached

(* Sending and mining keep the pool in order.                                  *)
LEMMA PoolShapeStep ==
  ASSUME PoolInv, [Next]_vars
  PROVE  PoolShape' /\ AcceptedPlaced'
<1>0. /\ PoolShape /\ AcceptedPlaced /\ BroadcastInv
      /\ \A t \in accepted : t.nonce \in Nat /\ t.from \in Accounts
      /\ txpool \subseteq accepted
  BY DEF PoolInv, PoolShape, BroadcastInv, TransactionOK
<1>1. CASE UNCHANGED nodeVars
  BY <1>0, <1>1 DEF nodeVars, PoolShape, AcceptedPlaced, Reached, NonceTaken, SameSlot
<1>2. ASSUME NEW i \in Invocations, pc[i] = "SendTransaction", SendTransaction(sent[i])
      PROVE  PoolShape' /\ AcceptedPlaced'
  <2> DEFINE tx == sent[i]
  <2>1. /\ tx.from \in Accounts /\ tx.nonce \in Nat /\ tx.nonce >= accountNonce[tx.from]
        /\ Reached(tx.from, tx.nonce)
    BY <1>0, <1>2 DEF PoolInv, DraftInv, DraftOK, Asked, InvocationOK, BroadcastInv, TransactionOK,
                      SendTransaction, SendAccepted
  <2>2. /\ txpool' = {t \in txpool : ~SameSlot(t, tx)} \cup {tx}
        /\ accepted' = accepted \cup {tx} /\ UNCHANGED <<accountNonce, receipts>>
    BY <1>2 DEF SendTransaction
  <2> HIDE DEF tx
  <2>3. IsFiniteSet(txpool')
    <3>1. IsFiniteSet({t \in txpool : ~SameSlot(t, tx)})
      BY <1>0, FS_Subset DEF PoolShape
    <3> QED BY <2>2, <3>1, FS_AddElement
  <2>4. \A t1, t2 \in txpool' : SameSlot(t1, t2) => t1 = t2
    BY <1>0, <2>2 DEF PoolShape, SameSlot
  <2>5. \A t \in txpool' : t.nonce >= accountNonce'[t.from] /\ Reached(t.from, t.nonce)'
    <3> SUFFICES ASSUME NEW t \in txpool'
                 PROVE  t.nonce >= accountNonce'[t.from] /\ Reached(t.from, t.nonce)'
      OBVIOUS
    <3>1. t.from \in Accounts /\ t.nonce \in Nat /\ t.nonce >= accountNonce[t.from] /\ Reached(t.from, t.nonce)
      BY <1>0, <2>1, <2>2 DEF PoolShape
    <3>2. Reached(t.from, t.nonce)'
      BY <3>1, ReachedAllStays
    <3> QED BY <2>2, <3>1, <3>2
  <2>6. AcceptedPlaced'
    <3> SUFFICES ASSUME NEW t \in accepted'
                 PROVE  t.nonce < accountNonce'[t.from] \/ NonceTaken(t.from, t.nonce)'
      BY DEF AcceptedPlaced
    <3>1. CASE t = tx
      BY <2>2, <3>1 DEF NonceTaken
    <3>2. CASE t \in accepted
      BY <1>0, <3>2, ReachedStays DEF AcceptedPlaced
    <3> QED BY <2>2, <3>1, <3>2
  <2>7. accountNonce' \in [Accounts -> Nat] /\ \A t \in accepted' : t.nonce \in Nat
    BY <1>0, <2>1, <2>2 DEF PoolShape
  <2> QED BY <2>3, <2>4, <2>5, <2>6, <2>7 DEF PoolShape
<1>3. ASSUME NEW tx \in txpool, NEW status, Mine(tx, status)
      PROVE  PoolShape' /\ AcceptedPlaced'
  <2>1. /\ tx.nonce = accountNonce[tx.from] /\ tx.from \in Accounts /\ tx.nonce \in Nat
        /\ accountNonce' = [accountNonce EXCEPT ![tx.from] = @ + 1]
        /\ txpool' = txpool \ {tx} /\ accepted' = accepted
    BY <1>0, <1>3 DEF Mine
  <2>2. IsFiniteSet(txpool')
    BY <1>0, <2>1, FS_RemoveElement DEF PoolShape
  <2>3. accountNonce' \in [Accounts -> Nat] /\ accountNonce'[tx.from] = tx.nonce + 1
        /\ \A b \in Accounts \ {tx.from} : accountNonce'[b] = accountNonce[b]
    BY <1>0, <2>1 DEF PoolShape
  <2>4. \A t \in txpool' : t.nonce >= accountNonce'[t.from] /\ Reached(t.from, t.nonce)'
    <3> SUFFICES ASSUME NEW t \in txpool'
                 PROVE  t.nonce >= accountNonce'[t.from] /\ Reached(t.from, t.nonce)'
      OBVIOUS
    <3>1. /\ t.from \in Accounts /\ t.nonce \in Nat /\ t.nonce >= accountNonce[t.from]
          /\ Reached(t.from, t.nonce)
      BY <1>0, <2>1 DEF PoolShape
    <3>2. Reached(t.from, t.nonce)'
      BY <3>1, ReachedAllStays
    <3>3. t.from = tx.from => t.nonce # tx.nonce
      BY <1>0, <2>1 DEF PoolShape, SameSlot
    <3> QED BY <2>1, <2>3, <3>1, <3>2, <3>3
  <2>5. AcceptedPlaced'
    BY <1>0, <2>1, ReachedStays DEF AcceptedPlaced
  <2>6. /\ \A t1, t2 \in txpool' : SameSlot(t1, t2) => t1 = t2
        /\ \A t \in accepted' : t.nonce \in Nat
    BY <1>0, <2>1 DEF PoolShape, SameSlot
  <2> QED BY <2>2, <2>3, <2>4, <2>5, <2>6 DEF PoolShape
<1> QED BY <1>0, <1>1, <1>2, <1>3, NodeCases

(* What an invocation knows of its nonce stays true until it has sent.         *)
LEMMA DraftInvStep ==
  ASSUME PoolInv, [Next]_vars
  PROVE  DraftInv'
<1>0. /\ BroadcastInv /\ PoolShape /\ AcceptedPlaced /\ DraftInv /\ LocalTypes
      /\ \A t \in accepted : t.nonce \in Nat /\ t.from \in Accounts
      /\ txpool \subseteq accepted
  BY DEF PoolInv, PoolShape, BroadcastInv, TransactionOK
<1>1. accepted \subseteq accepted'
  BY NodeCases, <1>0 DEF nodeVars, SendTransaction, Mine
<1>2. ASSUME NEW i \in Invocations, pc[i] \in Calling
      PROVE  plan[i].Key \in Accounts
  BY <1>0, <1>2, PlansAssumption DEF BroadcastInv, InvocationOK
<1>3. ASSUME NEW i \in Invocations, plan'[i] = plan[i], sent'[i] = sent[i],
             draft'[i].nonce = draft[i].nonce, draft'[i].after = draft[i].after,
             pc'[i] \in Asked => pc[i] \in Asked,
             pc'[i] = "SendTransaction" => pc[i] = "SendTransaction"
      PROVE  DraftOK(i)'
  <2>1. CASE pc'[i] \in Asked
    <3>1. plan[i].Key \in Accounts /\ draft[i].nonce \in Nat /\ Reached(plan[i].Key, draft[i].nonce)
      BY <1>0, <1>2, <1>3, <2>1 DEF DraftInv, DraftOK, Asked, Calling
    <3>2. PICK a \in Accounts, n \in Nat : a = plan[i].Key /\ n = draft[i].nonce
      BY <3>1
    <3>3. Reached(a, n)'
      BY <3>1, <3>2, ReachedAllStays
    <3>4. Reached(plan[i].Key, draft[i].nonce)'
      BY <1>3, <3>2, <3>3 DEF Reached, NonceTaken
    <3> QED BY <1>0, <1>3, <2>1, <3>4 DEF DraftInv, DraftOK
  <2>2. CASE pc'[i] \notin Asked
    BY <2>2 DEF DraftOK, Asked
  <2> QED BY <2>1, <2>2
<1> DEFINE Drafts == [nonce : Nat, gasPrice : Nat, after : SUBSET accepted]
           DraftsNext == [nonce : Nat, gasPrice : Nat, after : SUBSET accepted']
<1>4. draft \in [Invocations -> Drafts] /\ Drafts \subseteq DraftsNext
  BY <1>0, <1>1 DEF DraftInv
<1>5. ASSUME draft' \in [Invocations -> DraftsNext], \A i \in Invocations : DraftOK(i)'
      PROVE  DraftInv'
  BY <1>5 DEF DraftInv
<1>6. ASSUME NEW i \in Invocations, AskPendingNonce(i)
      PROVE  DraftInv'
  <2> DEFINE n == PendingNonceAt(plan[i].Key)
  <2>1. /\ pc[i] = "PendingNonceAt" /\ pc' = [pc EXCEPT ![i] = "SuggestGasPrice"]
        /\ draft' = [draft EXCEPT ![i].nonce = n, ![i].after = accepted]
        /\ UNCHANGED <<nodeVars, plan, sent>>
    BY <1>6 DEF AskPendingNonce, Goto
  <2>2. plan[i].Key \in Accounts
    BY <1>2, <2>1 DEF Calling
  <2>3. /\ n \in Nat /\ n >= accountNonce[plan[i].Key]
        /\ ~NonceTaken(plan[i].Key, n) /\ Reached(plan[i].Key, n)
    BY <1>0, <2>2, PendingNonceIsFree DEF PoolShape
  <2> HIDE DEF n
  <2>4. /\ draft'[i] \in DraftsNext /\ draft'[i].nonce = n /\ draft'[i].after = accepted
        /\ \A j \in Invocations \ {i} : draft'[j] = draft[j]
        /\ draft' \in [Invocations -> DraftsNext]
    BY <1>1, <1>4, <2>1, <2>3
  <2>5. DraftOK(i)'
    <3>1. pc'[i] = "SuggestGasPrice"
      BY <1>0, <2>1 DEF LocalTypes
    <3>2. Reached(plan[i].Key, draft[i].nonce)'
      BY <2>1, <2>3, <2>4 DEF Reached, NonceTaken, nodeVars
    <3>3. \A tx \in accepted : ~(tx.from = plan[i].Key /\ tx.nonce = n)
      BY <1>0, <2>2, <2>3 DEF AcceptedPlaced, PoolShape
    <3> QED BY <2>1, <2>4, <3>1, <3>2, <3>3 DEF DraftOK
  <2>6. \A j \in Invocations \ {i} : DraftOK(j)'
    BY <1>0, <1>3, <2>1, <2>4 DEF LocalTypes
  <2> QED BY <1>5, <2>4, <2>5, <2>6
<1>7. ASSUME NEW i \in Invocations, AskGasPrice(i)
      PROVE  DraftInv'
  <2>1. PICK price \in GasPrices : draft' = [draft EXCEPT ![i].gasPrice = price]
    BY <1>7 DEF AskGasPrice
  <2>2. /\ pc[i] = "SuggestGasPrice" /\ pc' = [pc EXCEPT ![i] = "EstimateGas"]
        /\ UNCHANGED <<plan, sent>>
    BY <1>7 DEF AskGasPrice, Goto
  <2>3. /\ draft' \in [Invocations -> DraftsNext]
        /\ \A j \in Invocations : draft'[j].nonce = draft[j].nonce /\ draft'[j].after = draft[j].after
    BY <1>4, <2>1, NodeAssumption
  <2>4. \A j \in Invocations : DraftOK(j)'
    BY <1>0, <1>3, <2>2, <2>3 DEF LocalTypes, Asked
  <2> QED BY <1>5, <2>3, <2>4
<1>8. ASSUME NEW i \in Invocations, AskGasAndSign(i)
      PROVE  DraftInv'
  <2>1. /\ pc[i] = "EstimateGas" /\ pc' = [pc EXCEPT ![i] = "SendTransaction"]
        /\ UNCHANGED <<nodeVars, plan, draft>>
    BY <1>8 DEF AskGasAndSign, Goto
  <2>2. /\ sent'[i].from = plan[i].Key /\ sent'[i].nonce = draft[i].nonce
        /\ \A j \in Invocations \ {i} : sent'[j] = sent[j]
    BY <1>0, <1>8 DEF AskGasAndSign, LocalTypes
  <2>3. draft' \in [Invocations -> DraftsNext]
    BY <1>4, <2>1
  <2>4. DraftOK(i)'
    BY <1>0, <2>1, <2>2 DEF DraftInv, DraftOK, Asked, Reached, NonceTaken, nodeVars
  <2>5. \A j \in Invocations \ {i} : DraftOK(j)'
    BY <1>0, <1>3, <2>1, <2>2 DEF LocalTypes
  <2> QED BY <1>5, <2>3, <2>4, <2>5
<1>9. ASSUME UNCHANGED <<plan, sent, draft>>,
             \A i \in Invocations : /\ pc'[i] \in Asked => pc[i] \in Asked
                                    /\ pc'[i] = "SendTransaction" => pc[i] = "SendTransaction"
      PROVE  DraftInv'
  BY <1>3, <1>4, <1>5, <1>9
<1>10. ASSUME NEW i \in Invocations, NEW p \in Plans, StartBroadcast(i, p) \/ StartCancel(i, p)
       PROVE  DraftInv'
  <2>1. /\ pc' = [pc EXCEPT ![i] = "ChainID"] /\ plan' = [plan EXCEPT ![i] = p]
        /\ UNCHANGED <<sent, draft>>
    BY <1>10 DEF StartBroadcast, StartCancel, Ready
  <2>2. DraftOK(i)'
    BY <1>0, <2>1 DEF DraftOK, Asked, LocalTypes
  <2>3. \A j \in Invocations \ {i} : DraftOK(j)'
    BY <1>0, <1>3, <2>1 DEF LocalTypes
  <2> QED BY <1>4, <1>5, <2>1, <2>2, <2>3
<1>11. ASSUME NEW i \in Invocations,
              AskChainID(i) \/ Send(i) \/ SendUnanswered(i) \/ WriteOutput(i) \/ Fail(i)
       PROVE  DraftInv'
  <2>1. /\ UNCHANGED <<plan, sent, draft>>
        /\ pc' \in {[pc EXCEPT ![i] = "PendingNonceAt"], [pc EXCEPT ![i] = "WriteOutput"],
                    [pc EXCEPT ![i] = "Done"]}
    BY <1>11 DEF AskChainID, Send, SendUnanswered, WriteOutput, Fail, Goto
  <2> QED BY <1>0, <1>9, <2>1 DEF LocalTypes, Asked
<1>12. CASE UNCHANGED cliVars
  BY <1>9, <1>12 DEF cliVars
<1> QED BY <1>6, <1>7, <1>8, <1>10, <1>11, <1>12 DEF Next, Step, vars

THEOREM PoolInvariant == Spec => []PoolInv
<1>1. Init => PoolShape /\ AcceptedPlaced /\ DraftInv
  <2> SUFFICES ASSUME Init PROVE PoolShape /\ AcceptedPlaced /\ DraftInv
    OBVIOUS
  <2>1. txpool = {} /\ accepted = {} /\ accountNonce = [a \in Accounts |-> 0] /\ IsFiniteSet(txpool)
    BY FS_EmptySet DEF Init, NodeInit
  <2>2. PoolShape /\ AcceptedPlaced
    BY <2>1 DEF PoolShape, AcceptedPlaced
  <2>3. \A i \in Invocations : pc[i] = "Start"
    BY DEF Init
  <2>4. draft \in [Invocations -> [nonce : Nat, gasPrice : Nat, after : SUBSET accepted]]
    BY DEF Init
  <2> QED BY <2>2, <2>3, <2>4 DEF DraftInv, DraftOK, Asked
<1>2. PoolInv /\ [Next]_vars => (PoolShape /\ AcceptedPlaced /\ DraftInv)'
  BY PoolShapeStep, DraftInvStep
<1> QED BY <1>1, <1>2, BroadcastInvariant, PTL DEF Spec, PoolInv

(* No pending transaction waits for a nonce that nobody will use, however many *)
(* invocations draw nonces for one key, race, fail and are retried.            *)
THEOREM NoGap == Spec => []NoNonceGap
<1>1. PoolInv => NoNonceGap
  <2> SUFFICES ASSUME PoolInv, NEW tx \in txpool
               PROVE  /\ tx.nonce >= accountNonce[tx.from]
                      /\ \A k \in accountNonce[tx.from] .. tx.nonce - 1 :
                           \E t \in txpool : t.from = tx.from /\ t.nonce = k
    BY DEF NoNonceGap
  <2>1. /\ tx.from \in Accounts /\ accountNonce[tx.from] \in Nat /\ tx.nonce \in Nat
        /\ tx.nonce >= accountNonce[tx.from] /\ Reached(tx.from, tx.nonce)
    BY DEF PoolInv, PoolShape, BroadcastInv, TransactionOK
  <2> QED BY <2>1 DEF Reached, NonceTaken
<1> QED BY <1>1, PoolInvariant, PTL

-----------------------------------------------------------------------------
Over == {"WriteOutput", "Done"}

\* j displaced what i sent, and asked for its nonce before that was accepted.
DisplacedBy(j, tx) ==
  /\ pc[j] \in Over /\ sent[j] \in accepted
  /\ SameSlot(tx, sent[j]) /\ tx.gasPrice < sent[j].gasPrice
  /\ tx \notin draft[j].after

Accounted(tx) == tx \in txpool \cup Mined \/ \E j \in Invocations : DisplacedBy(j, tx)

ReportInv ==
  /\ DOMAIN exit = Invocations
  /\ \A i \in Invocations :
       /\ exit[i] = "reported" => pc[i] = "Done"
       /\ pc[i] = "WriteOutput" \/ exit[i] = "reported" => Accounted(sent[i])

\* An invocation that is over changes nothing any more.
LEMMA OverStays ==
  ASSUME BroadcastInv, DraftInv, [Next]_vars, NEW i \in Invocations, pc[i] \in Over
  PROVE  /\ pc'[i] \in Over /\ sent'[i] = sent[i] /\ draft'[i] = draft[i]
         /\ pc[i] = "Done" => pc'[i] = "Done"
<1>0. LocalTypes /\ DOMAIN draft = Invocations
  BY DEF BroadcastInv, DraftInv
<1>1. ASSUME NEW j \in Invocations, NEW p \in Plans, StartBroadcast(j, p) \/ StartCancel(j, p)
      PROVE  pc'[i] = pc[i] /\ sent'[i] = sent[i] /\ draft'[i] = draft[i]
  BY <1>0, <1>1 DEF StartBroadcast, StartCancel, Ready, LocalTypes, Over
<1>2. ASSUME NEW j \in Invocations, Step(j)
      PROVE  pc'[i] \in {pc[i], "Done"} /\ sent'[i] = sent[i] /\ draft'[i] = draft[i]
  <2>1. CASE j = i
    BY <1>0, <1>2, <2>1 DEF Step, AskChainID, AskPendingNonce, AskGasPrice, AskGasAndSign, Send,
       SendUnanswered, WriteOutput, Fail, Goto, LocalTypes, Over
  <2>2. CASE j # i
    <3>1. /\ pc'[i] = pc[i] /\ sent'[i] = sent[i]
      BY <1>0, <1>2, <2>2 DEF Step, AskChainID, AskPendingNonce, AskGasPrice, AskGasAndSign, Send,
         SendUnanswered, WriteOutput, Fail, Goto, LocalTypes
    <3>2. draft'[i] = draft[i]
      BY <1>0, <1>2, <2>2 DEF Step, AskChainID, AskPendingNonce, AskGasPrice, AskGasAndSign, Send,
         SendUnanswered, WriteOutput, Fail
    <3> QED BY <3>1, <3>2
  <2> QED BY <2>1, <2>2
<1>3. CASE UNCHANGED cliVars
  BY <1>3 DEF cliVars
<1> QED BY <1>1, <1>2, <1>3 DEF Next, vars, Over

(* What is accounted for stays so: if it is displaced, then by an invocation   *)
(* that could not know of it.                                                  *)
LEMMA AccountedStays ==
  ASSUME PoolInv, [Next]_vars, NEW tx, Accounted(tx)
  PROVE  Accounted(tx)'
<1>0. BroadcastInv /\ DraftInv /\ LocalTypes /\ txpool \subseteq accepted
  BY DEF PoolInv, BroadcastInv
<1>1. CASE \E j \in Invocations : DisplacedBy(j, tx)
  <2>1. PICK j \in Invocations : DisplacedBy(j, tx)
    BY <1>1
  <2>2. accepted \subseteq accepted'
    BY NodeCases, <1>0 DEF nodeVars, SendTransaction, Mine
  <2>3. pc'[j] \in Over /\ sent'[j] = sent[j] /\ draft'[j] = draft[j]
    BY <1>0, <2>1, OverStays DEF DisplacedBy
  <2> QED BY <2>1, <2>2, <2>3 DEF DisplacedBy, Accounted, SameSlot
<1>2. CASE tx \in txpool \cup Mined
  <2>1. CASE UNCHANGED nodeVars
    BY <1>2, <2>1 DEF nodeVars, Accounted, Mined
  <2>2. ASSUME NEW t \in txpool, NEW status, Mine(t, status)
        PROVE  Accounted(tx)'
    <3>1. /\ txpool' = txpool \ {t} /\ receipts' = receipts \cup {[tx |-> t, status |-> status]}
      BY <2>2 DEF Mine
    <3>2. Mined \subseteq Mined'
      BY <3>1 DEF Mined
    <3>3. t \in Mined'
      <4>1. PICK r : r = [tx |-> t, status |-> status]
        OBVIOUS
      <4>2. r \in receipts' /\ r.tx = t
        BY <3>1, <4>1
      <4> QED BY ONLY <4>2 DEF Mined
    <3> QED BY <1>2, <3>1, <3>2, <3>3 DEF Accounted
  <2>3. ASSUME NEW j \in Invocations, pc[j] = "SendTransaction", SendTransaction(sent[j]),
               pc' \in {[pc EXCEPT ![j] = "WriteOutput"], [pc EXCEPT ![j] = "Done"]},
               UNCHANGED <<plan, draft, sent>>
        PROVE  Accounted(tx)'
    <3>1. /\ SendAccepted(sent[j]) /\ receipts' = receipts
          /\ txpool' = {t \in txpool : ~SameSlot(t, sent[j])} \cup {sent[j]}
          /\ sent[j] \in accepted'
      BY <2>3 DEF SendTransaction
    <3>2. CASE tx \in Mined
      BY <3>1, <3>2 DEF Mined, Accounted
    <3>3. CASE tx \in txpool /\ ~SameSlot(tx, sent[j])
      BY <3>1, <3>3 DEF Accounted
    <3>4. CASE tx \in txpool /\ SameSlot(tx, sent[j])
      <4>1. tx.gasPrice < sent[j].gasPrice
        BY <3>1, <3>4 DEF SendAccepted
      <4>2. /\ sent[j].from = plan[j].Key /\ sent[j].nonce = draft[j].nonce
            /\ \A t \in draft[j].after : ~(t.from = plan[j].Key /\ t.nonce = draft[j].nonce)
        BY <1>0, <2>3 DEF DraftInv, DraftOK, Asked
      <4>3. tx \notin draft[j].after
        BY <3>4, <4>2 DEF SameSlot
      <4>4. pc'[j] \in Over /\ sent'[j] = sent[j] /\ draft'[j] = draft[j]
        BY <1>0, <2>3 DEF LocalTypes, Over
      <4> QED BY <3>1, <3>4, <4>1, <4>3, <4>4 DEF Accounted, DisplacedBy, SameSlot
    <3> QED BY <1>2, <3>2, <3>3, <3>4
  <2> QED BY <1>0, <2>1, <2>2, <2>3, NodeCases
<1> QED BY <1>1, <1>2 DEF Accounted

LEMMA ReportInvStep ==
  ASSUME PoolInv, ReportInv, [Next]_vars
  PROVE  ReportInv'
<1>0. BroadcastInv /\ DraftInv /\ LocalTypes /\ DOMAIN exit = Invocations
  BY DEF PoolInv, BroadcastInv, ReportInv
<1>1. ASSUME NEW i \in Invocations, exit'[i] = "reported"
      PROVE  /\ pc'[i] = "Done"
             /\ pc[i] = "WriteOutput" \/ exit[i] = "reported"
  <2>1. CASE exit[i] = "reported"
    BY <1>0, <2>1, OverStays DEF ReportInv, Over
  <2>2. CASE exit[i] # "reported"
    <3>1. \A j \in Invocations, p \in Plans : ~StartBroadcast(j, p) /\ ~StartCancel(j, p)
      BY <1>1, <2>2 DEF StartBroadcast, StartCancel, Ready
    <3>2. exit' # exit
      BY <1>1, <2>2
    <3>3. PICK j \in Invocations : WriteOutput(j) \/ Fail(j) \/ SendUnanswered(j)
      BY <3>1, <3>2 DEF Next, Step, AskChainID, AskPendingNonce, AskGasPrice, AskGasAndSign, Send,
         vars, cliVars
    <3>4. exit'[i] \in {exit[i], "failed"} \/ (j = i /\ WriteOutput(i))
      BY <1>0, <3>3 DEF WriteOutput, Fail, SendUnanswered
    <3>5. WriteOutput(i)
      BY <1>1, <2>2, <3>4
    <3> QED BY <1>0, <3>5 DEF WriteOutput, Goto, LocalTypes
  <2> QED BY <2>1, <2>2
<1>2. ASSUME NEW i \in Invocations, pc'[i] = "WriteOutput"
      PROVE  pc[i] = "WriteOutput" \/ sent'[i] \in txpool'
  <2>1. ASSUME NEW j \in Invocations, NEW p \in Plans, StartBroadcast(j, p) \/ StartCancel(j, p)
        PROVE  pc[i] = "WriteOutput"
    BY <1>0, <1>2, <2>1 DEF StartBroadcast, StartCancel, Ready, LocalTypes
  <2>2. ASSUME NEW j \in Invocations, Step(j), ~Send(j)
        PROVE  pc[i] = "WriteOutput"
    BY <1>0, <1>2, <2>2 DEF Step, AskChainID, AskPendingNonce, AskGasPrice, AskGasAndSign,
       SendUnanswered, WriteOutput, Fail, Goto, LocalTypes
  <2>3. ASSUME NEW j \in Invocations, Send(j)
        PROVE  pc[i] = "WriteOutput" \/ sent'[i] \in txpool'
    BY <1>0, <1>2, <2>3 DEF Send, Goto, SendTransaction, LocalTypes
  <2>4. CASE UNCHANGED cliVars
    BY <1>2, <2>4 DEF cliVars
  <2> QED BY <2>1, <2>2, <2>3, <2>4 DEF Next, vars
<1>3. ASSUME NEW i \in Invocations, pc[i] = "WriteOutput" \/ exit[i] = "reported"
      PROVE  Accounted(sent[i])'
  <2>1. Accounted(sent[i]) /\ pc[i] \in Over
    BY <1>3 DEF ReportInv, Over
  <2>2. PICK tx : tx = sent[i]
    OBVIOUS
  <2>3. Accounted(tx)' /\ sent'[i] = tx
    BY <1>0, <2>1, <2>2, AccountedStays, OverStays
  <2> QED BY <2>3 DEF Accounted, DisplacedBy, SameSlot
<1>4. ASSUME NEW i \in Invocations, pc'[i] = "WriteOutput" \/ exit'[i] = "reported"
      PROVE  Accounted(sent[i])'
  <2>1. CASE pc[i] = "WriteOutput" \/ exit[i] = "reported"
    BY <1>3, <2>1
  <2>2. CASE sent'[i] \in txpool'
    BY <2>2 DEF Accounted
  <2> QED BY <1>1, <1>2, <1>4, <2>1, <2>2
<1>5. DOMAIN exit' = Invocations
  BY <1>0 DEF Next, Step, StartBroadcast, StartCancel, Ready, AskChainID, AskPendingNonce, AskGasPrice,
     AskGasAndSign, Send, SendUnanswered, WriteOutput, Fail, vars, cliVars
<1> QED BY <1>1, <1>4, <1>5 DEF ReportInv

(* A reported transaction is pending or mined, or lost to one of the same key  *)
(* and nonce at a higher price whose invocation did not know of it.            *)
THEOREM ReportsAccounted == Spec => []ReportedAccounted
<1>1. Init => ReportInv
  BY DEF Init, ReportInv
<1>2. PoolInv /\ ReportInv /\ [Next]_vars => ReportInv'
  BY ReportInvStep
<1>3. ReportInv => ReportedAccounted
  BY DEF ReportInv, ReportedAccounted, Accounted, DisplacedBy
<1> QED BY <1>1, <1>2, <1>3, PoolInvariant, PTL DEF Spec

-----------------------------------------------------------------------------
(* The receipts. *)

Successes == {r \in receipts : r.status = "success" /\ r.tx.to = Token}

\* A new receipt is that of a call that took effect, or says nothing of the token.
LEMMA ReceiptCases ==
  ASSUME BroadcastInv, [Next]_vars
  PROVE  \/ receipts' = receipts
         \/ \E tx \in txpool :
              /\ tx \in accepted /\ tx.from \in Accounts
              /\ \/ /\ receipts' = receipts \cup {[tx |-> tx, status |-> "success"]}
                    /\ tx.to = Token /\ tx.call \in Calls /\ AuthorizationCall(tx.from, tx.call)
                 \/ /\ receipts' = receipts \cup {[tx |-> tx, status |-> "success"]}
                    /\ tx.to # Token /\ UNCHANGED tokenVars
                 \/ /\ receipts' = receipts \cup {[tx |-> tx, status |-> "reverted"]}
                    /\ tx.to = Token /\ tx.call \in Calls /\ UNCHANGED tokenVars
                    /\ GasNeeded(tx.call) > tx.gasLimit \/ ~CallAccepted(tx.from, tx.call)
<1>1. \A tx \in txpool : tx \in accepted /\ TransactionOK(tx)
  BY DEF BroadcastInv
<1>2. ASSUME NEW tx \in txpool, MineCall(tx) \/ MineReverted(tx) \/ MineNoCode(tx)
      PROVE  /\ tx \in accepted /\ tx.from \in Accounts
             /\ \/ /\ receipts' = receipts \cup {[tx |-> tx, status |-> "success"]}
                   /\ tx.to = Token /\ tx.call \in Calls /\ AuthorizationCall(tx.from, tx.call)
                \/ /\ receipts' = receipts \cup {[tx |-> tx, status |-> "success"]}
                   /\ tx.to # Token /\ UNCHANGED tokenVars
                \/ /\ receipts' = receipts \cup {[tx |-> tx, status |-> "reverted"]}
                   /\ tx.to = Token /\ tx.call \in Calls /\ UNCHANGED tokenVars
                   /\ GasNeeded(tx.call) > tx.gasLimit \/ ~CallAccepted(tx.from, tx.call)
  BY <1>1, <1>2 DEF MineCall, MineReverted, MineNoCode, Mine, TransactionOK
<1>3. ASSUME NEW i \in Invocations, NEW p \in Plans, StartBroadcast(i, p) \/ StartCancel(i, p)
      PROVE  receipts' = receipts
  BY <1>3 DEF StartBroadcast, StartCancel, Ready, nodeVars
<1>4. ASSUME NEW i \in Invocations, Step(i)
      PROVE  receipts' = receipts
  BY <1>4 DEF Step, AskChainID, AskPendingNonce, AskGasPrice, AskGasAndSign, Send,
              SendUnanswered, WriteOutput, Fail, SendTransaction, nodeVars
<1>5. ASSUME NodeStep, ~MineOne
      PROVE  receipts' = receipts
  BY <1>5 DEF NodeStep, Copied, Environment, nodeVars
<1>6. CASE UNCHANGED vars
  BY <1>6 DEF vars, nodeVars
<1> QED
  BY <1>2, <1>3, <1>4, <1>5, <1>6 DEF Next, NodeStep, MineOne

(* The slot a call consumes was open, so no earlier receipt is for it.         *)
LEMMA OneSuccessStep ==
  ASSUME BroadcastInv, OneSuccessPerAuthorization, [Next]_vars
  PROVE  OneSuccessPerAuthorization'
<1> DEFINE Logged(r) == \E n \in 1 .. Len(log) : log[n].caller = r.tx.from /\ log[n].call = r.tx.call
           SameAuthorization(r1, r2) ==
             /\ SignerAddress(r1.tx.call.args) = SignerAddress(r2.tx.call.args)
             /\ r1.tx.call.args.Nonce = r2.tx.call.args.Nonce
<1>1. /\ \A r \in Successes : Logged(r)
      /\ \A r1, r2 \in Successes : SameAuthorization(r1, r2) => r1 = r2
  BY DEF OneSuccessPerAuthorization, Successes, Authorizer, AuthorizationNonce
<1>2. ASSUME \A r \in Successes' : Logged(r)',
             \A r1, r2 \in Successes' : SameAuthorization(r1, r2) => r1 = r2
      PROVE  OneSuccessPerAuthorization'
  BY <1>2 DEF OneSuccessPerAuthorization, Successes, Authorizer, AuthorizationNonce
<1>3. \A r \in Successes : Logged(r)'
  <2>1. Len(log) \in Nat /\ Len(log') \in Nat /\ Len(log) <= Len(log')
        /\ \A n \in 1 .. Len(log) : log'[n] = log[n]
    BY LogGrows
  <2> QED BY <1>1, <2>1
<1>4. CASE Successes' = Successes
  BY <1>1, <1>2, <1>3, <1>4
<1>5. ASSUME NEW tx \in txpool, tx.from \in Accounts, tx.to = Token, tx.call \in Calls,
             receipts' = receipts \cup {[tx |-> tx, status |-> "success"]},
             AuthorizationCall(tx.from, tx.call)
      PROVE  OneSuccessPerAuthorization'
  <2> DEFINE new == [tx |-> tx, status |-> "success"]
  <2>1. Successes' = Successes \cup {new}
    BY <1>5 DEF Successes
  <2>2. PICK event, authorizer : Consumes(event, authorizer, tx.from, tx.call)
    BY <1>5, CallConsumes DEF BroadcastInv
  <2>3. Logged(new)'
    <3>1. /\ Len(log) \in Nat /\ Entries' = Entries \cup {Len(log) + 1}
          /\ log'[Len(log) + 1].caller = tx.from /\ log'[Len(log) + 1].call = tx.call
      BY <1>5, <2>2, Appended DEF BroadcastInv
    <3> QED BY <3>1 DEF Entries
  <2>4. CallAccepted(tx.from, tx.call)
    BY <1>5 DEF AuthorizationCall, TransferWithAuthorization, ReceiveWithAuthorization,
                CancelAuthorizationCall, CallAccepted
  <2>5. ~\E n \in Entries : /\ log[n].authorizer = SignerAddress(tx.call.args)
                            /\ log[n].nonce = tx.call.args.Nonce
    BY <1>5, <2>4, AcceptedIsOpen DEF BroadcastInv
  <2>6. \A n \in Entries : /\ log[n].authorizer = SignerAddress(log[n].call.args)
                           /\ log[n].nonce = log[n].call.args.Nonce
    BY DEF BroadcastInv, TokenInv, EffectBacked
  <2>7. \A r \in Successes : ~SameAuthorization(r, new)
    BY <1>1, <2>5, <2>6 DEF Entries
  <2>8. \A r1, r2 \in Successes' : SameAuthorization(r1, r2) => r1 = r2
    BY <1>1, <2>1, <2>7
  <2> QED BY <1>2, <1>3, <2>1, <2>3, <2>8
<1>6. \/ Successes' = Successes
      \/ \E tx \in txpool :
           /\ tx.from \in Accounts /\ tx.to = Token /\ tx.call \in Calls
           /\ receipts' = receipts \cup {[tx |-> tx, status |-> "success"]}
           /\ AuthorizationCall(tx.from, tx.call)
  BY ReceiptCases DEF Successes
<1> QED BY <1>4, <1>5, <1>6

(* However many transactions carry an authorization or its cancellation, one   *)
(* receipt at most says success, and its call is the one in the log.           *)
THEOREM OneSuccess == Spec => []OneSuccessPerAuthorization
<1>1. Init => OneSuccessPerAuthorization
  BY DEF Init, NodeInit, OneSuccessPerAuthorization
<1>2. BroadcastInv /\ OneSuccessPerAuthorization /\ [Next]_vars => OneSuccessPerAuthorization'
  BY OneSuccessStep
<1> QED BY <1>1, <1>2, BroadcastInvariant, PTL DEF Spec

-----------------------------------------------------------------------------
(***************************************************************************)
(* What EstimateGas found and nothing takes back: the signature, the two   *)
(* addresses, the payee's call, the beginning of the window, and gas for a *)
(* recipient whose balance is in place.                                    *)
(***************************************************************************)
SignatureHolds(c) ==
  IF c.args.Kind = CancelAuthorization
  THEN RequireValidSignature(c.args.Authorizer, CancelStructHash(c.args), c)
  ELSE RequireValidSignature(c.args.From, TransferStructHash(TypeHash(c.args.Kind), c.args), c)

Lasting(tx) ==
  tx.to = Token =>
    /\ tx.gasLimit \in Nat /\ tx.gasLimit >= WarmGas
    /\ SignatureHolds(tx.call)
    /\ tx.call.args.Kind = ReceiveAuthorization => tx.from = tx.call.args.To
    /\ tx.call.args.Kind \in TransferKinds =>
         /\ ZeroAddress \notin {tx.call.args.From, tx.call.args.To}
         /\ timestamp > tx.call.args.ValidAfter

LastingInv ==
  /\ \A tx \in accepted : Lasting(tx)
  /\ \A i \in Invocations : pc[i] = "SendTransaction" => Lasting(sent[i])

\* The clock does not run backwards.
LEMMA TimeGrows ==
  ASSUME BroadcastInv, [Next]_vars
  PROVE  timestamp \in Nat /\ timestamp' \in Nat /\ timestamp <= timestamp'
<1>1. timestamp \in Nat
  BY TokenAssumption DEF BroadcastInv, TokenInv, TypeOK
<1>2. timestamp' = timestamp \/ timestamp' = timestamp + 1
  BY StepIsTokenStep DEF TokenNext, AuthorizationCall, TransferWithAuthorization,
     ReceiveWithAuthorization, CancelAuthorizationCall, Mint, PlainTransfer, Sign, Tick, tokenVars
<1> QED BY <1>1, <1>2

LEMMA KindOfCall ==
  ASSUME NEW c \in Calls
  PROVE  \/ c.args.Kind = TransferAuthorization /\ c.args \in TransferArguments
         \/ c.args.Kind = ReceiveAuthorization /\ c.args \in TransferArguments
         \/ c.args.Kind = CancelAuthorization /\ c.args \in CancelArguments
BY SubmittedAssumption DEF Calls, Arguments, TransferArguments, CancelArguments, TransferKinds

(* What is lasting stays so.                                                   *)
LEMMA LastingStays ==
  ASSUME BroadcastInv, [Next]_vars, NEW tx, Lasting(tx), tx.to = Token => tx.call \in Calls
  PROVE  Lasting(tx)'
<1>1. timestamp \in Nat /\ timestamp' \in Nat /\ timestamp <= timestamp'
  BY TimeGrows
<1>2. CASE tx.to = Token
  <2>1. tx.call.args.Kind \in TransferKinds => tx.call.args.ValidAfter \in Nat
    BY <1>2, KindOfCall DEF TransferArguments, TransferKinds, TransferAuthorization,
       ReceiveAuthorization, CancelAuthorization
  <2>2. tx.call.args.Kind \in TransferKinds => timestamp' > tx.call.args.ValidAfter
    BY <1>1, <1>2, <2>1 DEF Lasting
  <2> QED BY <1>2, <2>2 DEF Lasting
<1> QED BY <1>2 DEF Lasting

(* A call the node has simulated with success is lasting.                      *)
LEMMA SimulatedIsLasting ==
  ASSUME NEW caller, NEW c \in Calls, CallAccepted(caller, c),
         NEW tx, tx.call = c, tx.from = caller,
         tx.gasLimit = GasNeeded(c) + GasNeeded(c) \div 5
  PROVE  Lasting(tx)
<1> USE DEF TransferKinds, TransferAuthorization, ReceiveAuthorization, CancelAuthorization
<1>1. tx.gasLimit \in Nat /\ tx.gasLimit >= WarmGas
  <2>1. GasNeeded(c) \in Nat /\ GasNeeded(c) >= WarmGas
    BY NodeAssumption DEF GasNeeded
  <2>2. \A g \in Nat : g \div 5 \in Nat
    OBVIOUS
  <2> QED BY <2>1, <2>2, NodeAssumption
<1>2. CASE TransferAccepted(caller, c)
  BY <1>1, <1>2 DEF TransferAccepted, RequireTransferAuthorization, RequireValidTime, Transferable,
     Lasting, SignatureHolds, TypeHash, TRANSFER_WITH_AUTHORIZATION_TYPEHASH
<1>3. CASE ReceiveAccepted(caller, c)
  BY <1>1, <1>3 DEF ReceiveAccepted, RequireTransferAuthorization, RequireValidTime, Transferable,
     Lasting, SignatureHolds, TypeHash, RECEIVE_WITH_AUTHORIZATION_TYPEHASH
<1>4. CASE CancelAccepted(caller, c)
  BY <1>1, <1>4 DEF CancelAccepted, Lasting, SignatureHolds
<1> QED BY <1>2, <1>3, <1>4 DEF CallAccepted

(* What the node accepts next was about to be sent.                            *)
LEMMA AcceptedComesFromSent ==
  ASSUME BroadcastInv, [Next]_vars
  PROVE  \A tx \in accepted' : \/ tx \in accepted
                               \/ \E i \in Invocations : pc[i] = "SendTransaction" /\ tx = sent[i]
<1>1. ASSUME NEW i \in Invocations, NEW p \in Plans, StartBroadcast(i, p) \/ StartCancel(i, p)
      PROVE  accepted' = accepted
  BY <1>1 DEF StartBroadcast, StartCancel, Ready, nodeVars
<1>2. ASSUME NEW i \in Invocations, Step(i)
      PROVE  \/ accepted' = accepted
             \/ pc[i] = "SendTransaction" /\ accepted' = accepted \cup {sent[i]}
  BY <1>2 DEF Step, AskChainID, AskPendingNonce, AskGasPrice, AskGasAndSign, Send,
              SendUnanswered, WriteOutput, Fail, Goto, SendTransaction, nodeVars
<1>3. ASSUME NodeStep
      PROVE  accepted' = accepted
  BY <1>3 DEF NodeStep, MineOne, MineCall, MineReverted, MineNoCode, Mine, Copied, Environment,
              nodeVars
<1>4. CASE UNCHANGED vars
  BY <1>4 DEF vars, nodeVars
<1> QED BY <1>1, <1>2, <1>3, <1>4 DEF Next

(* What is about to be sent was so before, or has just been simulated.         *)
LEMMA SentComesFromEstimate ==
  ASSUME BroadcastInv, [Next]_vars, NEW i \in Invocations, pc'[i] = "SendTransaction"
  PROVE  \/ pc[i] = "SendTransaction" /\ sent'[i] = sent[i]
         \/ AskGasAndSign(i)
<1>0. LocalTypes
  BY DEF BroadcastInv
<1>1. ASSUME NEW j \in Invocations, NEW p \in Plans, StartBroadcast(j, p) \/ StartCancel(j, p)
      PROVE  pc[i] = "SendTransaction" /\ sent'[i] = sent[i]
  BY <1>0, <1>1 DEF StartBroadcast, StartCancel, Ready, LocalTypes
<1>2. ASSUME NEW j \in Invocations, Step(j), ~AskGasAndSign(j)
      PROVE  pc[i] = "SendTransaction" /\ sent'[i] = sent[i]
  BY <1>0, <1>2 DEF Step, AskChainID, AskPendingNonce, AskGasPrice, Send, SendUnanswered,
                    WriteOutput, Fail, Goto, LocalTypes
<1>3. ASSUME NEW j \in Invocations, AskGasAndSign(j), j # i
      PROVE  pc[i] = "SendTransaction" /\ sent'[i] = sent[i]
  BY <1>0, <1>3 DEF AskGasAndSign, Goto, LocalTypes
<1>4. CASE UNCHANGED cliVars
  BY <1>4 DEF cliVars
<1> QED BY <1>1, <1>2, <1>3, <1>4 DEF Next, vars

LEMMA LastingInvStep ==
  ASSUME BroadcastInv, LastingInv, [Next]_vars
  PROVE  LastingInv'
<1>1. ASSUME NEW tx, Lasting(tx), TransactionOK(tx)
      PROVE  Lasting(tx)'
  BY <1>1, LastingStays DEF TransactionOK
<1>2. \A tx \in accepted' : Lasting(tx)'
  BY <1>1, AcceptedComesFromSent DEF LastingInv, BroadcastInv, InvocationOK
<1>3. ASSUME NEW i \in Invocations, AskGasAndSign(i)
      PROVE  Lasting(sent[i])'
  <2> DEFINE to == message[i].Domain.VerifyingContract
             c == EncodeExecuteCalldata(message[i])
  <2>1. PICK gas \in EstimateGas(plan[i].Key, to, c) :
          sent' = [sent EXCEPT ![i] =
                     [from |-> plan[i].Key, nonce |-> draft[i].nonce,
                      gasPrice |-> draft[i].gasPrice, gasLimit |-> gas + gas \div 5,
                      to |-> to, call |-> c]]
    BY <1>3 DEF AskGasAndSign
  <2>2. c \in Calls /\ DOMAIN sent = Invocations
    BY <1>3 DEF AskGasAndSign, Goto, BroadcastInv, InvocationOK, LocalTypes, Calling
  <2>3. gas = GasNeeded(c) /\ (to = Token => CallAccepted(plan[i].Key, c))
    BY <2>1 DEF EstimateGas
  <2>4. /\ sent'[i].from = plan[i].Key /\ sent'[i].call = c /\ sent'[i].to = to
        /\ sent'[i].gasLimit = gas + gas \div 5
    BY <2>1, <2>2
  <2> HIDE DEF c, to
  <2>5. PICK tx : tx = sent'[i]
    OBVIOUS
  <2>6. Lasting(tx)
    BY <2>2, <2>3, <2>4, <2>5, SimulatedIsLasting DEF Lasting
  <2>7. Lasting(tx)'
    BY <2>2, <2>4, <2>5, <2>6, LastingStays
  <2> QED BY <2>5, <2>7 DEF Lasting
<1>4. ASSUME NEW i \in Invocations, pc'[i] = "SendTransaction"
      PROVE  Lasting(sent[i])'
  <2>1. CASE AskGasAndSign(i)
    BY <1>3, <2>1
  <2>2. CASE pc[i] = "SendTransaction" /\ sent'[i] = sent[i]
    <3>1. PICK tx : tx = sent[i]
      OBVIOUS
    <3>2. Lasting(tx)'
      BY <1>1, <2>2, <3>1 DEF LastingInv, BroadcastInv, InvocationOK
    <3> QED BY <2>2, <3>1, <3>2 DEF Lasting
  <2> QED BY <1>4, <2>1, <2>2, SentComesFromEstimate
<1> QED BY <1>2, <1>4 DEF LastingInv

(* What is lasting reverts for one of the reasons that may arise later.        *)
LEMMA RevertHasReason ==
  ASSUME BroadcastInv, NEW tx, Lasting(tx), tx.to = Token, tx.call \in Calls,
         GasNeeded(tx.call) > tx.gasLimit \/ ~CallAccepted(tx.from, tx.call)
  PROVE  LET args == tx.call.args IN
         \/ authorizationState[SignerAddress(args)][args.Nonce]
         \/ /\ args.Kind \in TransferKinds
            /\ \/ timestamp >= args.ValidBefore
               \/ balances[args.From] < args.Value
               \/ balances[args.To] = 0 /\ tx.gasLimit < FreshGas
<1> USE DEF TransferKinds, TransferAuthorization, ReceiveAuthorization, CancelAuthorization
<1> DEFINE args == tx.call.args
<1>0. timestamp \in Nat /\ \A a \in Addresses : balances[a] \in Nat
  BY TokenAssumption, WidthAssumption DEF BroadcastInv, TokenInv, TypeOK
<1>1. CASE GasNeeded(tx.call) > tx.gasLimit
  BY <1>1, NodeAssumption DEF Lasting, GasNeeded
<1>2. CASE ~CallAccepted(tx.from, tx.call) /\ args.Kind = CancelAuthorization
  BY <1>2 DEF Lasting, SignatureHolds, CallAccepted, CancelAccepted, RequireUnusedAuthorization,
     SignerAddress
<1>3. ASSUME ~CallAccepted(tx.from, tx.call), args.Kind \in TransferKinds
      PROVE  \/ authorizationState[args.From][args.Nonce]
             \/ timestamp >= args.ValidBefore
             \/ balances[args.From] < args.Value
  <2>1. args \in TransferArguments /\ args.From \in Addresses /\ args.Value \in Nat
        /\ args.ValidAfter \in Nat /\ args.ValidBefore \in Nat
    BY <1>3, KindOfCall, WidthAssumption DEF TransferArguments
  <2>2. SUFFICES ASSUME ~authorizationState[args.From][args.Nonce],
                        ~(timestamp >= args.ValidBefore), ~(balances[args.From] < args.Value)
                 PROVE  FALSE
    OBVIOUS
  <2>3. timestamp < args.ValidBefore /\ args.Value <= balances[args.From]
    BY <1>0, <2>1, <2>2
  <2>4. /\ RequireValidTime(args.ValidAfter, args.ValidBefore)
        /\ RequireUnusedAuthorization(args.From, args.Nonce)
        /\ Transferable(args.From, args.To, args.Value)
    BY <1>3, <2>2, <2>3 DEF Lasting, RequireValidTime, RequireUnusedAuthorization, Transferable
  <2>5. RequireValidSignature(args.From, TransferStructHash(TypeHash(args.Kind), args), tx.call)
    BY <1>3 DEF Lasting, SignatureHolds
  <2>6. RequireTransferAuthorization(TypeHash(args.Kind), tx.call)
    BY <2>4, <2>5 DEF RequireTransferAuthorization
  <2>7. CASE args.Kind = TransferAuthorization
    BY <1>3, <2>4, <2>6, <2>7 DEF CallAccepted, TransferAccepted, TypeHash,
       TRANSFER_WITH_AUTHORIZATION_TYPEHASH
  <2>8. CASE args.Kind = ReceiveAuthorization
    BY <1>3, <2>4, <2>6, <2>8 DEF CallAccepted, ReceiveAccepted, TypeHash, Lasting,
       RECEIVE_WITH_AUTHORIZATION_TYPEHASH
  <2> QED BY <1>3, <2>7, <2>8
<1>4. CASE ~CallAccepted(tx.from, tx.call) /\ args.Kind \in TransferKinds
  BY <1>3, <1>4 DEF SignerAddress
<1> QED BY <1>1, <1>2, <1>4, KindOfCall

(* A transaction that reverts was overtaken: whatever the prices, the margins  *)
(* and the invocations, its slot, its window, the payer's or the recipient's   *)
(* balance changed after EstimateGas.                                          *)
THEOREM RevertsExplained == Spec => RevertExplained
<1>1. Init => LastingInv
  <2> SUFFICES ASSUME Init PROVE LastingInv
    OBVIOUS
  <2> QED BY DEF Init, NodeInit, LastingInv
<1>2. BroadcastInv /\ LastingInv /\ [Next]_vars => LastingInv'
  BY LastingInvStep
<1> DEFINE Explained ==
      \A r \in receipts' \ receipts :
        r.status = "reverted" =>
          LET args == r.tx.call.args IN
          \/ authorizationState[Authorizer(r.tx)][args.Nonce]
          \/ /\ args.Kind \in TransferKinds
             /\ \/ timestamp >= args.ValidBefore
                \/ balances[args.From] < args.Value
                \/ balances[args.To] = 0 /\ r.tx.gasLimit < FreshGas
<1>3. BroadcastInv /\ LastingInv /\ [Next]_vars => Explained
  <2> SUFFICES ASSUME BroadcastInv, LastingInv, [Next]_vars, NEW r \in receipts' \ receipts,
                      r.status = "reverted"
               PROVE  LET args == r.tx.call.args IN
                      \/ authorizationState[Authorizer(r.tx)][args.Nonce]
                      \/ /\ args.Kind \in TransferKinds
                         /\ \/ timestamp >= args.ValidBefore
                            \/ balances[args.From] < args.Value
                            \/ balances[args.To] = 0 /\ r.tx.gasLimit < FreshGas
    OBVIOUS
  <2>1. PICK tx \in accepted : /\ r.tx = tx /\ tx.to = Token /\ tx.call \in Calls
                               /\ GasNeeded(tx.call) > tx.gasLimit \/ ~CallAccepted(tx.from, tx.call)
    BY ReceiptCases
  <2>2. Lasting(tx)
    BY DEF LastingInv
  <2> QED BY <2>1, <2>2, RevertHasReason DEF Authorizer
<1>4. BroadcastInv /\ LastingInv /\ [Next]_vars => [Explained]_vars
  BY <1>3
<1> QED BY <1>1, <1>2, <1>4, BroadcastInvariant, PTL DEF Spec, RevertExplained

-----------------------------------------------------------------------------
(* The types. *)

\* NoTx is not a transaction.
NoTxIsNone ==
  \A from, nonce, gasPrice, gasLimit, to, call :
    NoTx # [from |-> from, nonce |-> nonce, gasPrice |-> gasPrice, gasLimit |-> gasLimit,
            to |-> to, call |-> call]

SentOK(i) ==
  /\ pc[i] \in {"SendTransaction", "WriteOutput"} => sent[i] # NoTx
  /\ pc[i] = "WriteOutput" => sent[i] \in accepted
  /\ exit[i] = "reported" => pc[i] = "Done" /\ sent[i] \in accepted

SentInv ==
  /\ Mined \subseteq accepted
  /\ exit \in [Invocations -> {"running", "failed", "reported"}]
  /\ \A i \in Invocations : SentOK(i)

\* A step of the node keeps what was accepted, and mines only that.
LEMMA MinedWasAccepted ==
  ASSUME BroadcastInv, [Next]_vars, Mined \subseteq accepted
  PROVE  accepted \subseteq accepted' /\ Mined' \subseteq accepted'
<1>1. CASE UNCHANGED nodeVars
  BY <1>1 DEF nodeVars, Mined
<1>2. ASSUME NEW i \in Invocations, SendTransaction(sent[i])
      PROVE  accepted \subseteq accepted' /\ Mined' \subseteq accepted'
  BY <1>2 DEF SendTransaction, Mined
<1>3. ASSUME NEW tx \in txpool, NEW status, Mine(tx, status)
      PROVE  accepted \subseteq accepted' /\ Mined' \subseteq accepted'
  BY <1>3 DEF Mine, Mined, BroadcastInv
<1> QED BY <1>1, <1>2, <1>3, NodeCases

\* The step of an invocation keeps its own transaction in order.
LEMMA OwnSentStep ==
  ASSUME NoTxIsNone, BroadcastInv, SentInv, NEW i \in Invocations, Step(i),
         accepted \subseteq accepted'
  PROVE  /\ exit' \in [Invocations -> {"running", "failed", "reported"}]
         /\ SentOK(i)'
<1>0. /\ LocalTypes /\ SentOK(i)
      /\ exit \in [Invocations -> {"running", "failed", "reported"}]
  BY DEF BroadcastInv, SentInv
<1>1. CASE AskChainID(i) \/ AskPendingNonce(i) \/ AskGasPrice(i)
  BY <1>0, <1>1 DEF AskChainID, AskPendingNonce, AskGasPrice, Goto, LocalTypes, SentOK
<1>2. CASE AskGasAndSign(i)
  <2>1. /\ pc'[i] = "SendTransaction" /\ exit' = exit /\ exit[i] # "reported"
        /\ sent'[i] # NoTx
    BY <1>0, <1>2 DEF AskGasAndSign, Goto, LocalTypes, SentOK, NoTxIsNone
  <2> QED BY <1>0, <2>1 DEF SentOK
<1>3. CASE Send(i)
  BY <1>0, <1>3 DEF Send, SendTransaction, Goto, LocalTypes, SentOK
<1>4. CASE SendUnanswered(i)
  BY <1>0, <1>4 DEF SendUnanswered, SendTransaction, Goto, LocalTypes, SentOK
<1>5. CASE WriteOutput(i)
  BY <1>0, <1>5 DEF WriteOutput, Goto, LocalTypes, SentOK
<1>6. CASE Fail(i)
  BY <1>0, <1>6 DEF Fail, LocalTypes, SentOK
<1> QED BY <1>1, <1>2, <1>3, <1>4, <1>5, <1>6 DEF Step

\* An invocation does not touch the variables of another.
LEMMA OthersKept ==
  ASSUME BroadcastInv, DOMAIN exit = Invocations, NEW i \in Invocations, NEW j \in Invocations,
         i # j, Step(i)
  PROVE  pc'[j] = pc[j] /\ sent'[j] = sent[j] /\ exit'[j] = exit[j]
<1>0. LocalTypes
  BY DEF BroadcastInv
<1> QED BY <1>0 DEF Step, AskChainID, AskPendingNonce, AskGasPrice, AskGasAndSign, Send,
       SendUnanswered, WriteOutput, Fail, Goto, LocalTypes

LEMMA SentInvStep ==
  ASSUME NoTxIsNone, BroadcastInv, SentInv, [Next]_vars
  PROVE  SentInv'
<1>0. /\ LocalTypes /\ Mined \subseteq accepted
      /\ exit \in [Invocations -> {"running", "failed", "reported"}]
      /\ \A i \in Invocations : SentOK(i)
  BY DEF BroadcastInv, SentInv
<1>1. accepted \subseteq accepted' /\ Mined' \subseteq accepted'
  BY <1>0, MinedWasAccepted
<1>2. ASSUME NEW i \in Invocations, NEW p \in Plans, StartBroadcast(i, p) \/ StartCancel(i, p)
      PROVE  SentInv'
  <2>1. /\ pc[i] = "Start" /\ pc' = [pc EXCEPT ![i] = "ChainID"]
        /\ sent' = sent /\ exit' = exit
    BY <1>2 DEF StartBroadcast, StartCancel, Ready
  <2>2. \A j \in Invocations : SentOK(j)'
    BY <1>0, <1>1, <2>1 DEF SentOK, LocalTypes
  <2> QED BY <1>0, <1>1, <2>1, <2>2 DEF SentInv
<1>3. ASSUME NEW i \in Invocations, Step(i)
      PROVE  SentInv'
  <2>1. exit' \in [Invocations -> {"running", "failed", "reported"}] /\ SentOK(i)'
    BY <1>1, <1>3, OwnSentStep
  <2>2. ASSUME NEW j \in Invocations, j # i
        PROVE  SentOK(j)'
    BY <1>0, <1>1, <1>3, <2>2, OthersKept DEF SentOK
  <2> QED BY <1>1, <2>1, <2>2 DEF SentInv
<1>4. CASE UNCHANGED cliVars
  <2>1. \A j \in Invocations : SentOK(j)'
    BY <1>0, <1>1, <1>4 DEF SentOK, cliVars
  <2> QED BY <1>0, <1>1, <1>4, <2>1 DEF SentInv, cliVars
<1> QED BY <1>2, <1>3, <1>4 DEF Next, vars

(* The records of the node and of the invocations are well formed, the pool    *)
(* holds one transaction per sender and nonce, and what was reported had been  *)
(* accepted, for any number of invocations with any plans (client.go:93).      *)
THEOREM BroadcastTypes ==
  ASSUME NoTxIsNone
  PROVE  Spec => []BroadcastTypeOK
<1>1. Init => SentInv
  BY DEF Init, NodeInit, SentInv, SentOK, Mined
<1>2. PoolInv /\ SentInv /\ [Next]_vars => SentInv'
  BY SentInvStep DEF PoolInv
<1>3. PoolInv /\ SentInv => BroadcastTypeOK
  BY DEF PoolInv, PoolShape, BroadcastInv, LocalTypes, SentInv, SentOK, BroadcastTypeOK
<1> QED BY <1>1, <1>2, <1>3, PoolInvariant, PTL DEF Spec
==============================================================================
