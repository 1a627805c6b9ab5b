------------------------------ MODULE ContractReads ------------------------------
(***************************************************************************)
(* The commands that read views of a contract, one RPC at a time, always   *)
(* at the latest block: check asks whether it implements EIP-3009, extract *)
(* for decimals and symbol, cancel for what its EIP-712 domain lacks       *)
(* (internal/eip3009/client.go, internal/cli/cli.go).  What cancel signs   *)
(* and sends then is judged by the contract of that moment.  The contract  *)
(* may be a proxy that is upgraded between any two calls, the node may     *)
(* fail at any.  The slot that is canceled is open: Broadcast has the rest.*)
(***************************************************************************)
EXTENDS Naturals, Sequences

CONSTANTS
  Implementations,  \* records: answers to the Methods, the domain in use, and
                    \* what a call of cancelAuthorization comes to
  Tasks,            \* command lines of check, extract and cancel
  NodeChain,        \* what the node answers to eth_chainId
  MaxUpgrades       \* bound on the upgrades

TypeHashes ==
  {"TRANSFER_WITH_AUTHORIZATION_TYPEHASH", "RECEIVE_WITH_AUTHORIZATION_TYPEHASH",
   "CANCEL_AUTHORIZATION_TYPEHASH"}

Features == {"authorizationState"} \cup TypeHashes

Methods == Features \cup {"decimals", "symbol", "eth_chainId", "name", "version"}

\* The order in which any command makes its calls.
CallOrder ==
  <<"authorizationState", "TRANSFER_WITH_AUTHORIZATION_TYPEHASH",
    "RECEIVE_WITH_AUTHORIZATION_TYPEHASH", "CANCEL_AUTHORIZATION_TYPEHASH",
    "decimals", "symbol", "eth_chainId", "name", "version">>

\* The calls of BroadcastAuthorization.
TxCalls == <<"ChainID", "PendingNonceAt", "SuggestGasPrice", "EstimateGas", "SendTransaction">>

\* Reverts, an account without code, and data of another type.
NoValue == {"reverts", "empty", "undecodable"}

ASSUME ContractReadsAssumption ==
  /\ MaxUpgrades \in Nat
  /\ \A i \in Implementations :
       /\ Methods \subseteq DOMAIN i.answers
       /\ i.cancelAuthorization \in {"checks", "reverts", "ignores"}
  /\ \A t \in Tasks : t.Command \in {"check", "extract", "cancel"}

VARIABLES
  contract,   \* the implementation behind the token address
  inForce,    \* those that were, since the command started
  upgrades,   \* how many upgrades there were
  task,       \* the command line
  status,     \* "idle", "running", the next of the TxCalls, "ok" or "error"
  pending,    \* the methods still to be called
  read,       \* what each call came to: {} if it was not made
  failed,     \* the calls that the node failed to answer
  report,     \* {the SupportReport} once it is written
  tx          \* the transaction: "none", "pending", or what came of it

readVars == <<task, pending, read, report>>
vars == <<contract, inForce, upgrades, status, failed, tx, readVars>>

Init ==
  /\ contract \in Implementations
  /\ inForce = {contract}
  /\ upgrades = 0
  /\ task \in Tasks
  /\ status = "idle"
  /\ pending = {}
  /\ read = [method \in Methods |-> {}]
  /\ failed = {}
  /\ report = {}
  /\ tx = "none"

-----------------------------------------------------------------------------
(* What is read *)

\* Mutant: cancel takes the version from the message or the option only.
ReadsWithoutVersion(t) ==
  CASE t.Command = "check" -> Features
    [] t.Command = "cancel" -> {"eth_chainId", "name"} \ t.Given
    [] OTHER -> {}

\* t.Given: what a flag or the message gives already.
Reads(t) ==
  CASE t.Command = "check" -> Features
    [] t.Command = "extract" -> IF t.Rpc /\ t.Token THEN {"decimals", "symbol"} \ t.Given ELSE {}
    [] t.Command = "cancel" -> {"eth_chainId", "name", "version"} \ t.Given

\* Mutant: whatever comes back is an answer.
AnyAnswer(answer) == answer # "reverts"

\* callView.
Decodes(answer) == answer \notin NoValue

\* checkTypeHash compares, checkAuthorizationState and the metadata only decode.
Expected(method, answer) == method \in TypeHashes => answer = method

Result(method, answer) ==
  [OK    |-> Decodes(answer) /\ Expected(method, answer),
   Value |-> IF Decodes(answer) THEN answer ELSE ""]

RpcError == [OK |-> FALSE, Value |-> ""]

\* Mutant: check gives up like the other commands.
EveryCommandStops(t) == TRUE

StopsAtError(t) == t.Command # "check"

Begin ==
  /\ status = "idle"
  /\ inForce' = {contract}
  /\ IF task.Command = "cancel" /\ ~task.Token
     THEN status' = "error" /\ pending' = pending
     ELSE status' = "running" /\ pending' = Reads(task)
  /\ UNCHANGED <<contract, upgrades, task, read, failed, report, tx>>

\* Mutant: a call that failed is made again, and its failure counted.
LearnAndRetry(method, result) ==
  /\ read' = [read EXCEPT ![method] = {result}]
  /\ pending' = IF result.OK THEN pending \ {method} ELSE pending
  /\ status' = status

Learn(method, result) ==
  /\ read' = [read EXCEPT ![method] = {result}]
  /\ pending' = pending \ {method}
  /\ status' = IF result.OK \/ ~StopsAtError(task) THEN status ELSE "error"

NextCall ==
  {CallOrder[i] : i \in {k \in DOMAIN CallOrder :
     CallOrder[k] \in pending /\ \A earlier \in 1 .. k - 1 : CallOrder[earlier] \notin pending}}

CallView(method) ==
  /\ status = "running" /\ method \in NextCall
  /\ Learn(method, Result(method, IF method = "eth_chainId" THEN NodeChain
                                 ELSE contract.answers[method]))
  /\ UNCHANGED <<contract, inForce, upgrades, task, failed, report, tx>>

CallFails(method) ==
  /\ status = "running" /\ method \in NextCall
  /\ Learn(method, RpcError)
  /\ failed' = failed \cup {method}
  /\ UNCHANGED <<contract, inForce, upgrades, task, report, tx>>

-----------------------------------------------------------------------------
(* What is made of it *)

IsOK(method) == \E result \in read[method] : result.OK

\* Mutant: the receive function is not part of the verdict.
TransferOnly == IsOK("authorizationState") /\ IsOK("TRANSFER_WITH_AUTHORIZATION_TYPEHASH")

Supported ==
  /\ IsOK("authorizationState")
  /\ IsOK("TRANSFER_WITH_AUTHORIZATION_TYPEHASH")
  /\ IsOK("RECEIVE_WITH_AUTHORIZATION_TYPEHASH")

WriteReport ==
  /\ status = "running" /\ pending = {} /\ task.Command = "check"
  /\ report' = {[features  |-> {method \in Features : IsOK(method)},
                 Supported |-> Supported,
                 Notes     |-> ~IsOK("CANCEL_AUTHORIZATION_TYPEHASH")]}
  /\ status' = "ok"
  /\ UNCHANGED <<contract, inForce, upgrades, task, pending, read, failed, tx>>

WriteExtraction ==
  /\ status = "running" /\ pending = {} /\ task.Command = "extract"
  /\ status' = "ok"
  /\ UNCHANGED <<contract, inForce, upgrades, failed, tx, readVars>>

Value(method, otherwise) ==
  IF read[method] = {} THEN otherwise ELSE (CHOOSE result \in read[method] : TRUE).Value

CancelDomain ==
  [Name    |-> Value("name", task.Domain.Name),
   Version |-> Value("version", task.Domain.Version),
   ChainID |-> Value("eth_chainId", task.Domain.ChainID)]

ValidateDomain(domain) == domain.Name # "" /\ domain.Version # "" /\ domain.ChainID # ""

\* The end of buildCancelAuthorization; a dry run goes on to the output.
SignCancel ==
  /\ status = "running" /\ pending = {} /\ task.Command = "cancel"
  /\ status' = IF ~task.OwnKey \/ ~ValidateDomain(CancelDomain) THEN "error"
               ELSE IF task.DryRun THEN "ok" ELSE TxCalls[1]
  /\ UNCHANGED <<contract, inForce, upgrades, failed, tx, readVars>>

-----------------------------------------------------------------------------
(* What the contract makes of it *)

\* A contract without the function reverts, unless its fallback or the lack of
\* any code ignores the call; one that has it recovers the signer of a hash
\* over its own domain.
Outcome(implementation, domain) ==
  CASE implementation.cancelAuthorization = "ignores" -> "ignored"
    [] implementation.cancelAuthorization = "checks" /\ implementation.domain = domain -> "canceled"
    [] OTHER -> "reverted"

\* ChainID, PendingNonceAt, SuggestGasPrice: nothing that matters here.
AskNode ==
  /\ \E n \in 1 .. 3 : status = TxCalls[n] /\ status' = TxCalls[n + 1]
  /\ UNCHANGED <<contract, inForce, upgrades, failed, tx, readVars>>

\* Mutant: the gas limit is a constant.
FixGas ==
  /\ status = "EstimateGas" /\ status' = "SendTransaction"
  /\ UNCHANGED <<contract, inForce, upgrades, failed, tx, readVars>>

\* The node simulates the call.
EstimateGas ==
  /\ status = "EstimateGas"
  /\ status' = IF Outcome(contract, CancelDomain) = "reverted" THEN "error" ELSE "SendTransaction"
  /\ UNCHANGED <<contract, inForce, upgrades, failed, tx, readVars>>

SendTransaction ==
  /\ status = "SendTransaction" /\ status' = "ok"
  /\ tx' = "pending"
  /\ UNCHANGED <<contract, inForce, upgrades, failed, readVars>>

\* An RPC without an answer; the transaction may have arrived all the same.
NodeFails ==
  /\ \E n \in DOMAIN TxCalls : status = TxCalls[n]
  /\ status' = "error" /\ failed' = failed \cup {status}
  /\ tx' \in IF status = "SendTransaction" THEN {tx, "pending"} ELSE {tx}
  /\ UNCHANGED <<contract, inForce, upgrades, readVars>>

Mine ==
  /\ tx = "pending" /\ tx' = Outcome(contract, CancelDomain)
  /\ UNCHANGED <<contract, inForce, upgrades, status, failed, readVars>>

\* As long as it matters to the command or to its transaction.
Upgrade ==
  /\ status \notin {"idle", "ok", "error"} \/ tx = "pending"
  /\ upgrades < MaxUpgrades /\ upgrades' = upgrades + 1
  /\ contract' \in Implementations
  /\ inForce' = inForce \cup {contract'}
  /\ UNCHANGED <<status, failed, tx, readVars>>

Command ==
  \/ Begin \/ WriteReport \/ WriteExtraction
  \/ SignCancel \/ AskNode \/ EstimateGas \/ SendTransaction \/ NodeFails
  \/ \E method \in Methods : CallView(method) \/ CallFails(method)

Next == Command \/ Mine \/ Upgrade

\* The command runs on, whether the node answers or fails; what is pending is
\* mined.
Spec == Init /\ [][Next]_vars /\ WF_vars(Command) /\ WF_vars(Mine)
===============================================================================
