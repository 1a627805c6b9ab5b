--------------------------- MODULE ContractReadsProofs ---------------------------
(***************************************************************************)
(* Whatever implementations there are and however often the contract is    *)
(* upgraded, what check reports is true of some implementation that was in *)
(* force, and what cancel sends is taken by one.                           *)
(***************************************************************************)
EXTENDS ContractReadsProperties, TLAPS

\* What every call came to is explained by an implementation or a failure.
CallsExplained ==
  \A method \in Features : \A result \in read[method] :
    /\ result.OK => \E i \in inForce : Offers(i, method)
    /\ ~result.OK => method \in failed \/ \E i \in inForce : ~Offers(i, method)

\* check drops no call before it reports.
NothingSkipped ==
  status = "running" /\ task.Command = "check" =>
    \A method \in Features : method \in pending \/ read[method] # {}

\* The verdict and the note follow from the lines of the report.
VerdictFollows ==
  \A r \in report :
    /\ r.Supported = (Features \ {"CANCEL_AUTHORIZATION_TYPEHASH"} \subseteq r.features)
    /\ r.Notes = ("CANCEL_AUTHORIZATION_TYPEHASH" \notin r.features)
    /\ r.features \subseteq Features

Started == status = "idle" => report = {} /\ read = [method \in Methods |-> {}] /\ failed = {}

\* Nothing is sent before all that is signed was read.
ReadsFirst == status \in {"idle", "running"} => tx = "none"

\* What is sent was simulated: an implementation takes it.
SentAfterEstimate ==
  status = "SendTransaction" \/ tx # "none" =>
    \E i \in inForce : Outcome(i, CancelDomain) # "reverted"

ReadsInv ==
  /\ ContractReadsTypeOK
  /\ read = [method \in Methods |-> read[method]]
  /\ Started
  /\ CallsExplained
  /\ NothingSkipped
  /\ FeatureTruthful
  /\ VerdictFollows
  /\ ReadsFirst
  /\ SentAfterEstimate
  /\ CancelRevertExplained

(* The next call is a pending one.                                           *)
LEMMA NextCallPending ==
  ASSUME NEW method \in NextCall PROVE method \in pending
BY DEF NextCall

(* An answer that check counts is one that the implementation offers.        *)
LEMMA ResultIsOffer ==
  ASSUME NEW i \in Implementations, NEW method \in Features
  PROVE  Result(method, i.answers[method]).OK <=> Offers(i, method)
BY DEF Result, Decodes, Expected, Offers, Features, TypeHashes

(* Initially nothing is read.                                                *)
LEMMA ReadsInit == Init => ReadsInv
<1> SUFFICES ASSUME Init PROVE ReadsInv
  OBVIOUS
<1> USE ContractReadsAssumption DEF Init
<1>1. ContractReadsTypeOK
  BY DEF ContractReadsTypeOK
<1>2. read = [method \in Methods |-> read[method]] /\ Started
  BY DEF Started
<1>3. CallsExplained /\ NothingSkipped
  BY DEF CallsExplained, NothingSkipped, Features, Methods
<1>4. /\ FeatureTruthful /\ VerdictFollows
      /\ ReadsFirst /\ SentAfterEstimate /\ CancelRevertExplained
  BY DEF FeatureTruthful, VerdictFollows, ReadsFirst, SentAfterEstimate, CancelRevertExplained
<1> QED BY <1>1, <1>2, <1>3, <1>4 DEF ReadsInv

(* A call that is answered, or fails, is recorded and explained.             *)
LEMMA ReadsLearn ==
  ASSUME ReadsInv, NEW method \in Methods, CallView(method) \/ CallFails(method)
  PROVE  ReadsInv'
<1> USE DEF ReadsInv
<1> DEFINE result == IF method \in failed' THEN RpcError
                     ELSE Result(method, IF method = "eth_chainId" THEN NodeChain ELSE contract.answers[method])
<1>0. method \in pending /\ status = "running" /\ method \notin failed /\ read[method] = {}
  <2>1. method \notin {TxCalls[n] : n \in DOMAIN TxCalls}
    BY DEF TxCalls, Methods, Features, TypeHashes
  <2> QED BY <2>1, NextCallPending DEF CallView, CallFails, ContractReadsTypeOK, RpcError
<1>1. Learn(method, result)
  BY <1>0 DEF CallView, CallFails
<1>2. UNCHANGED <<contract, inForce, upgrades, task, report, tx>> /\ failed' \in {failed, failed \cup {method}}
  BY DEF CallView, CallFails
<1>3. /\ read' = [m \in Methods |-> IF m = method THEN {result} ELSE read[m]]
      /\ pending' = pending \ {method}
      /\ status' \in {"running", "error"}
  BY <1>0, <1>1 DEF Learn
<1>4. ContractReadsTypeOK'
  <2>1. failed' \subseteq {m \in Methods : read'[m] = {RpcError}} \cup {TxCalls[n] : n \in DOMAIN TxCalls}
    BY <1>0, <1>2, <1>3 DEF ContractReadsTypeOK
  <2> QED BY <1>2, <1>3, <2>1 DEF ContractReadsTypeOK
<1>5. (read = [m \in Methods |-> read[m]])' /\ Started'
  BY <1>3 DEF Started
<1>6. CallsExplained'
  <2>1. ASSUME method \in Features
        PROVE  /\ result.OK => \E i \in inForce : Offers(i, method)
               /\ ~result.OK => method \in failed' \/ \E i \in inForce : ~Offers(i, method)
    <3>1. contract \in inForce /\ contract \in Implementations /\ method # "eth_chainId"
      BY <2>1 DEF ContractReadsTypeOK, Features, TypeHashes
    <3>2. CASE method \in failed'
      BY <3>2 DEF RpcError
    <3>3. CASE method \notin failed'
      <4>1. result.OK <=> Offers(contract, method)
        BY <2>1, <3>1, <3>3, ResultIsOffer
      <4> QED BY <3>1, <4>1
    <3> QED BY <3>2, <3>3
  <2>2. \A m \in Features : m \in Methods
    BY DEF Methods
  <2> HIDE DEF result
  <2> QED BY <1>2, <1>3, <2>1, <2>2 DEF CallsExplained
<1>7. NothingSkipped'
  BY <1>0, <1>2, <1>3 DEF NothingSkipped, Methods
<1>8. FeatureTruthful'
  BY <1>2 DEF FeatureTruthful
<1>9. /\ VerdictFollows'
      /\ ReadsFirst' /\ SentAfterEstimate' /\ CancelRevertExplained'
  BY <1>0, <1>2, <1>3 DEF VerdictFollows, ReadsFirst, SentAfterEstimate, CancelRevertExplained
<1> QED BY <1>4, <1>5, <1>6, <1>7, <1>8, <1>9

(* The report is made of the calls, all of which were made.                  *)
LEMMA ReadsReport ==
  ASSUME ReadsInv, WriteReport
  PROVE  ReadsInv'
<1> USE DEF ReadsInv, WriteReport
<1>1. ContractReadsTypeOK' /\ (read = [method \in Methods |-> read[method]])' /\ Started'
  BY DEF ContractReadsTypeOK, Started
<1>2. CallsExplained' /\ NothingSkipped' /\ ReadsFirst' /\ SentAfterEstimate' /\ CancelRevertExplained'
  BY DEF CallsExplained, NothingSkipped, ReadsFirst, SentAfterEstimate, CancelRevertExplained
<1>3. FeatureTruthful'
  <2> SUFFICES ASSUME NEW r \in report', NEW method \in Features
               PROVE  /\ method \in r.features => \E i \in inForce : Offers(i, method)
                      /\ method \notin r.features => method \in failed \/ \E i \in inForce : ~Offers(i, method)
    BY DEF FeatureTruthful
  <2>1. r.features = {m \in Features : IsOK(m)}
    OBVIOUS
  <2>2. read[method] # {}
    BY DEF NothingSkipped
  <2> QED BY <2>1, <2>2 DEF CallsExplained, IsOK
<1>4. VerdictFollows'
  <2> SUFFICES ASSUME NEW r \in report'
               PROVE  /\ r.Supported = (Features \ {"CANCEL_AUTHORIZATION_TYPEHASH"} \subseteq r.features)
                      /\ r.Notes = ("CANCEL_AUTHORIZATION_TYPEHASH" \notin r.features)
                      /\ r.features \subseteq Features
    BY DEF VerdictFollows
  <2>1. /\ r.features = {m \in Features : IsOK(m)}
        /\ r.Supported = Supported
        /\ r.Notes = ~IsOK("CANCEL_AUTHORIZATION_TYPEHASH")
    OBVIOUS
  <2>2. Supported = (Features \ {"CANCEL_AUTHORIZATION_TYPEHASH"} \subseteq r.features)
    BY <2>1 DEF Supported, Features, TypeHashes
  <2>3. "CANCEL_AUTHORIZATION_TYPEHASH" \in Features
    BY DEF Features, TypeHashes
  <2> QED BY <2>1, <2>2, <2>3
<1> QED BY <1>1, <1>2, <1>3, <1>4

(* A command begins with nothing read.                                       *)
LEMMA ReadsBegin ==
  ASSUME ReadsInv, Begin
  PROVE  ReadsInv'
<1> USE DEF ReadsInv, Begin
<1>1. ContractReadsTypeOK'
  BY ContractReadsAssumption DEF ContractReadsTypeOK, Started, Reads, Methods, Features
<1>2. (read = [method \in Methods |-> read[method]])' /\ Started'
  BY DEF Started
<1>3. CallsExplained'
  BY DEF Started, CallsExplained, Methods
<1>4. NothingSkipped'
  BY DEF NothingSkipped, Reads
<1>5. FeatureTruthful' /\ VerdictFollows'
  BY DEF Started, FeatureTruthful, VerdictFollows
<1>6. ReadsFirst' /\ SentAfterEstimate' /\ CancelRevertExplained'
  BY DEF ReadsFirst, SentAfterEstimate, CancelRevertExplained
<1> QED BY <1>1, <1>2, <1>3, <1>4, <1>5, <1>6

(* What is signed and sent leaves the reads and the report alone.            *)
LEMMA ReadsStay ==
  ASSUME ReadsInv, UNCHANGED <<contract, inForce, upgrades, readVars>>,
         status' = "running" => status = "running",
         status' = "idle" => status = "idle" /\ failed' = failed,
         failed \subseteq failed',
         ContractReadsTypeOK'
  PROVE  /\ (read = [method \in Methods |-> read[method]])' /\ Started'
         /\ CallsExplained' /\ NothingSkipped' /\ FeatureTruthful' /\ VerdictFollows'
         /\ CancelDomain' = CancelDomain
<1> USE DEF ReadsInv, readVars
<1>1. (read = [method \in Methods |-> read[method]])' /\ Started' /\ NothingSkipped'
  BY DEF Started, NothingSkipped
<1>2. CallsExplained' /\ FeatureTruthful' /\ VerdictFollows'
  BY DEF CallsExplained, FeatureTruthful, VerdictFollows
<1>3. CancelDomain' = CancelDomain
  BY DEF CancelDomain, Value
<1> QED BY <1>1, <1>2, <1>3

(* A command that signs, asks the node, estimates or gives up sends nothing, *)
(* and an estimate that succeeds names the contract in force as one that     *)
(* takes the call.                                                           *)
LEMMA ReadsEstimated ==
  ASSUME ReadsInv, WriteExtraction \/ SignCancel \/ AskNode \/ EstimateGas
  PROVE  ReadsInv'
<1> USE DEF ReadsInv
<1>1. /\ UNCHANGED <<contract, inForce, upgrades, failed, tx, readVars>>
      /\ status \in {"running", "ChainID", "PendingNonceAt", "SuggestGasPrice", "EstimateGas"}
      /\ status' \in {"ok", "error"} \cup {TxCalls[n] : n \in DOMAIN TxCalls}
      /\ status' \notin {"idle", "running"}
      /\ status' = "SendTransaction" => Outcome(contract, CancelDomain) # "reverted"
  BY DEF WriteExtraction, SignCancel, AskNode, EstimateGas, TxCalls
<1>2. ContractReadsTypeOK'
  BY <1>1 DEF ContractReadsTypeOK, readVars
<1>3. /\ (read = [method \in Methods |-> read[method]])' /\ Started'
      /\ CallsExplained' /\ NothingSkipped' /\ FeatureTruthful' /\ VerdictFollows'
      /\ CancelDomain' = CancelDomain
  BY <1>1, <1>2, ReadsStay
<1>4. ReadsFirst' /\ CancelRevertExplained'
  BY <1>1, <1>3 DEF ReadsFirst, CancelRevertExplained
<1>5. SentAfterEstimate'
  BY <1>1, <1>3 DEF SentAfterEstimate, ContractReadsTypeOK
<1> QED BY <1>2, <1>3, <1>4, <1>5

(* A transaction that is sent, or lost, was estimated; the contract that     *)
(* makes it revert is another one than the one that was asked.               *)
LEMMA ReadsSent ==
  ASSUME ReadsInv, SendTransaction \/ NodeFails \/ Mine
  PROVE  ReadsInv'
<1> USE DEF ReadsInv
<1>1. /\ UNCHANGED <<contract, inForce, upgrades, readVars>>
      /\ failed \subseteq failed' /\ failed' \subseteq failed \cup {TxCalls[n] : n \in DOMAIN TxCalls}
      /\ status' \in {status, "ok", "error"}
      /\ tx' # "none" => status = "SendTransaction" \/ tx # "none"
      /\ status' = "SendTransaction" => status = "SendTransaction"
      /\ status' \in {"idle", "running"} => status' = status /\ failed' = failed /\ tx # "none"
      /\ tx' = "reverted" => tx = "reverted" \/ Outcome(contract, CancelDomain) = "reverted"
      /\ tx' \in {tx, "pending", "canceled", "ignored", "reverted"}
  BY DEF SendTransaction, NodeFails, Mine, Outcome, TxCalls
<1>2. ContractReadsTypeOK'
  BY <1>1 DEF ContractReadsTypeOK, readVars
<1>3. /\ (read = [method \in Methods |-> read[method]])' /\ Started'
      /\ CallsExplained' /\ NothingSkipped' /\ FeatureTruthful' /\ VerdictFollows'
      /\ CancelDomain' = CancelDomain
  BY <1>1, <1>2, ReadsStay
<1>4. ReadsFirst'
  BY <1>1 DEF ReadsFirst
<1>5. SentAfterEstimate'
  BY <1>1, <1>3 DEF SentAfterEstimate
<1>6. CancelRevertExplained'
  <2>1. CASE tx = "reverted"
    BY <1>1, <1>3, <2>1 DEF CancelRevertExplained
  <2>2. CASE tx # "reverted"
    BY <1>1, <1>3, <2>2 DEF CancelRevertExplained, SentAfterEstimate, ContractReadsTypeOK
  <2> QED BY <2>1, <2>2
<1> QED BY <1>2, <1>3, <1>4, <1>5, <1>6

(* An upgrade adds an implementation, and takes none back.                   *)
LEMMA ReadsUpgrade ==
  ASSUME ReadsInv, Upgrade
  PROVE  ReadsInv'
<1> USE DEF ReadsInv, Upgrade, readVars
<1>1. ContractReadsTypeOK'
  <2>1. upgrades' \in 0 .. MaxUpgrades
    BY ContractReadsAssumption DEF ContractReadsTypeOK
  <2>2. contract' \in inForce' /\ inForce' \subseteq Implementations
    BY DEF ContractReadsTypeOK
  <2> QED BY <2>1, <2>2 DEF ContractReadsTypeOK
<1>2. CallsExplained'
  BY DEF CallsExplained
<1>3. FeatureTruthful'
  BY DEF FeatureTruthful
<1>4. CancelDomain' = CancelDomain
  BY DEF CancelDomain, Value
<1>5. SentAfterEstimate'
  BY <1>4 DEF SentAfterEstimate
<1>6. CancelRevertExplained'
  BY <1>4 DEF CancelRevertExplained
<1> QED BY <1>1, <1>2, <1>3, <1>5, <1>6 DEF Started, NothingSkipped, VerdictFollows, ReadsFirst

(* A stuttering step changes nothing.                                        *)
LEMMA ReadsStutter ==
  ASSUME ReadsInv, UNCHANGED vars
  PROVE  ReadsInv'
<1> USE DEF ReadsInv, vars
<1>1. ContractReadsTypeOK'
  BY DEF ContractReadsTypeOK, readVars
<1>2. /\ (read = [method \in Methods |-> read[method]])' /\ Started'
      /\ CallsExplained' /\ NothingSkipped' /\ FeatureTruthful' /\ VerdictFollows'
      /\ CancelDomain' = CancelDomain
  BY <1>1, ReadsStay
<1> QED BY <1>1, <1>2 DEF ReadsFirst, SentAfterEstimate, CancelRevertExplained

(* The invariant holds, whatever the implementations and the upgrades.       *)
THEOREM ReadsInvariant == Spec => []ReadsInv
<1>1. ReadsInv /\ [Next]_vars => ReadsInv'
  BY ReadsLearn, ReadsBegin, ReadsReport, ReadsEstimated, ReadsSent, ReadsUpgrade, ReadsStutter DEF Next, Command
<1> QED BY <1>1, ReadsInit, PTL DEF Spec

(* The type invariant.                                                       *)
THEOREM ReadsTypeCorrect == Spec => []ContractReadsTypeOK
BY ReadsInvariant, PTL DEF ReadsInv

(* Each line of check's report is true of an implementation in force while   *)
(* it ran (client.go:52-63).                                                 *)
THEOREM ReportTruthful == Spec => []FeatureTruthful
BY ReadsInvariant, PTL DEF ReadsInv

(* A verdict about a contract that did not change is exact.                  *)
THEOREM VerdictIsExact == Spec => []VerdictExact
<1>1. ReadsInv => VerdictExact
  <2> SUFFICES ASSUME ReadsInv, NEW r \in report, NEW i \in inForce, inForce = {i}
               PROVE  LET offers == {method \in Features : Offers(i, method)} IN
                      /\ r.Supported => Features \ offers \subseteq {"CANCEL_AUTHORIZATION_TYPEHASH"}
                      /\ ~r.Supported => failed # {} \/ ~(Features \ {"CANCEL_AUTHORIZATION_TYPEHASH"} \subseteq offers)
                      /\ ~r.Notes => "CANCEL_AUTHORIZATION_TYPEHASH" \in offers
    BY DEF VerdictExact
  <2>1. \A method \in Features : /\ method \in r.features => Offers(i, method)
                                 /\ method \notin r.features => failed # {} \/ ~Offers(i, method)
    BY DEF ReadsInv, FeatureTruthful
  <2>2. /\ r.Supported = (Features \ {"CANCEL_AUTHORIZATION_TYPEHASH"} \subseteq r.features)
        /\ r.Notes = ("CANCEL_AUTHORIZATION_TYPEHASH" \notin r.features)
        /\ "CANCEL_AUTHORIZATION_TYPEHASH" \in Features
    BY DEF ReadsInv, VerdictFollows, Features, TypeHashes
  <2> QED BY <2>1, <2>2
<1> QED BY <1>1, ReadsInvariant, PTL

(* A transaction of cancel reverts only if the contract was upgraded after   *)
(* its estimate: whatever was read, a contract in force took what is sent.   *)
THEOREM CancelRevertsExplained == Spec => []CancelRevertExplained
BY ReadsInvariant, PTL DEF ReadsInv
===============================================================================
