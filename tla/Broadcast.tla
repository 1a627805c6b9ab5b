------------------------------- MODULE Broadcast -------------------------------
(***************************************************************************)
(* The invocations of "eip3009 broadcast" and "eip3009 cancel"             *)
(* (internal/cli/cli.go runBroadcast, runCancel) and the steps of          *)
(* BroadcastAuthorization (internal/eip3009/client.go:93), one action per  *)
(* RPC.  Invocations run concurrently, share keys and messages, fail at    *)
(* any step and know nothing of each other; retrying is invoking again.    *)
(***************************************************************************)
EXTENDS Node

CONSTANTS
  Invocations,   \* the processes
  Plans,         \* the arguments they may be given
  NoPlan, NoMessage, NoTx

(***************************************************************************)
(* A plan is what the command line says: Message is the parsed --message,  *)
(* Key the address of the private key, Verify whether --verify is given,   *)
(* and Policy what becomes of an imported v of 0 or 1.                     *)
(***************************************************************************)
ASSUME PlansAssumption ==
  \A p \in Plans :
    /\ p.Command \in {"broadcast", "cancel"}
    /\ p.Key \in Accounts
    /\ p.Verify \in BOOLEAN
    /\ p.Policy \in Policies
    /\ p.Message.Domain.VerifyingContract \in {Token} \cup OtherContracts

VARIABLES
  pc,         \* the next call of every invocation
  plan,       \* what its command line said
  message,    \* the signed authorization it broadcasts
  draft,      \* nonce and gas price it was told, and what was accepted by then
  sent,       \* the transaction it built
  exit,       \* "running", "failed" (exit code 1) or "reported" (a txHash)
  startedAt   \* length of the log when it started

cliVars == <<pc, plan, message, draft, sent, exit, startedAt>>
vars == <<tokenVars, nodeVars, cliVars>>

Calling == {"ChainID", "PendingNonceAt", "SuggestGasPrice", "EstimateGas",
            "SendTransaction", "WriteOutput"}

Init ==
  /\ TokenInit /\ NodeInit
  /\ pc = [i \in Invocations |-> "Start"]
  /\ plan = [i \in Invocations |-> NoPlan]
  /\ message = [i \in Invocations |-> NoMessage]
  /\ draft = [i \in Invocations |-> [nonce |-> 0, gasPrice |-> 0, after |-> {}]]
  /\ sent = [i \in Invocations |-> NoTx]
  /\ exit = [i \in Invocations |-> "running"]
  /\ startedAt = [i \in Invocations |-> 0]

-----------------------------------------------------------------------------
(* What an invocation does before it asks the node for anything. *)

BroadcastMessages(p) ==
  {[Domain |-> p.Message.Domain, Authorization |-> p.Message.Authorization,
    Signature |-> resolved] :
     resolved \in {s \in ResolveSignatureV(p.Message.Signature, p.Policy) :
                     p.Verify => VerifySignedAuthorization(p.Message)}}

\* buildCancelAuthorization from --message: the authorizer must hold the key.
CancelAuthorizationOf(p) ==
  [Kind |-> CancelAuthorization, Authorizer |-> SignerAddress(p.Message.Authorization),
   Nonce |-> p.Message.Authorization.Nonce]

CancelMessages(p) ==
  {m \in SignAuthorization(p.Message.Domain, CancelAuthorizationOf(p), p.Key) :
     p.Key = SignerAddress(p.Message.Authorization)}

(***************************************************************************)
(* What plans carry is among the calls that are submitted, and what cancel *)
(* signs is among the things its key holder may sign.                      *)
(***************************************************************************)
ASSUME PlansCovered ==
  \A p \in Plans :
    /\ p.Command = "broadcast" => AbiArguments(p.Message.Authorization) \in Submitted
    /\ p.Command = "cancel" /\ p.Key = SignerAddress(p.Message.Authorization) =>
         /\ CancelAuthorizationOf(p) \in Submitted
         /\ [Key |-> p.Key, Domain |-> p.Message.Domain,
             Authorization |-> CancelAuthorizationOf(p)] \in Signable
         /\ RecoveryId(p.Key, TypedDataHash(p.Message.Domain, CancelAuthorizationOf(p))) \in {0, 1}

\* The checks of BroadcastAuthorization before its first RPC.
SenderAllowed(m, key) ==
  m.Authorization.Kind = ReceiveAuthorization => key = m.Authorization.To

Ready(i, p, m) ==
  /\ SenderAllowed(m, p.Key) /\ Packable(m.Authorization)
  /\ pc' = [pc EXCEPT ![i] = "ChainID"]
  /\ plan' = [plan EXCEPT ![i] = p]
  /\ message' = [message EXCEPT ![i] = m]
  /\ startedAt' = [startedAt EXCEPT ![i] = Len(log)]
  /\ UNCHANGED <<nodeVars, draft, sent, exit>>

StartBroadcast(i, p) ==
  /\ pc[i] = "Start" /\ p.Command = "broadcast"
  /\ p.Message.Signature # NoSignature
  /\ p.Message.Signature.RS \in Signatures
  /\ \E m \in BroadcastMessages(p) : Ready(i, p, m)
  /\ UNCHANGED tokenVars

StartCancel(i, p) ==
  /\ pc[i] = "Start" /\ p.Command = "cancel"
  /\ \E m \in CancelMessages(p) :
       /\ signed' = signed \cup {m.Signature.RS}
       /\ Ready(i, p, m)
  /\ UNCHANGED <<balances, totalSupply, authorizationState, timestamp, log>>

\* The invocation ends with exit code 1: a local check, an RPC, an interrupt
\* or the writing of the output failed.
Fail(i) ==
  /\ pc[i] # "Done"
  /\ pc' = [pc EXCEPT ![i] = "Done"]
  /\ exit' = [exit EXCEPT ![i] = "failed"]
  /\ UNCHANGED <<tokenVars, nodeVars, plan, message, draft, sent, startedAt>>

-----------------------------------------------------------------------------
(* The calls of BroadcastAuthorization, in their order. *)

Goto(i, from, to) ==
  /\ pc[i] = from
  /\ pc' = [pc EXCEPT ![i] = to]

AskChainID(i) ==
  /\ Goto(i, "ChainID", "PendingNonceAt")
  /\ UNCHANGED <<tokenVars, nodeVars, plan, message, draft, sent, exit, startedAt>>

\* Mutant: the nonce of the latest block.
AskLatestNonce(i) ==
  /\ Goto(i, "PendingNonceAt", "SuggestGasPrice")
  /\ draft' = [draft EXCEPT ![i].nonce = LatestNonceAt(plan[i].Key), ![i].after = accepted]
  /\ UNCHANGED <<tokenVars, nodeVars, plan, message, sent, exit, startedAt>>

\* Mutant: the pending nonce is taken for one that is in use.
AskUsedNonce(i) ==
  /\ Goto(i, "PendingNonceAt", "SuggestGasPrice")
  /\ draft' = [draft EXCEPT ![i].nonce = PendingNonceAt(plan[i].Key) + 1, ![i].after = accepted]
  /\ UNCHANGED <<tokenVars, nodeVars, plan, message, sent, exit, startedAt>>

AskPendingNonce(i) ==
  /\ Goto(i, "PendingNonceAt", "SuggestGasPrice")
  /\ draft' = [draft EXCEPT ![i].nonce = PendingNonceAt(plan[i].Key), ![i].after = accepted]
  /\ UNCHANGED <<tokenVars, nodeVars, plan, message, sent, exit, startedAt>>

AskGasPrice(i) ==
  /\ Goto(i, "SuggestGasPrice", "EstimateGas")
  /\ \E price \in GasPrices : draft' = [draft EXCEPT ![i].gasPrice = price]
  /\ UNCHANGED <<tokenVars, nodeVars, plan, message, sent, exit, startedAt>>

\* Mutant: a fixed gas limit instead of an estimate.
FixGasAndSign(i) ==
  /\ Goto(i, "EstimateGas", "SendTransaction")
  /\ sent' = [sent EXCEPT ![i] =
                [from |-> plan[i].Key, nonce |-> draft[i].nonce,
                 gasPrice |-> draft[i].gasPrice, gasLimit |-> FreshGas,
                 to |-> message[i].Domain.VerifyingContract,
                 call |-> EncodeExecuteCalldata(message[i])]]
  /\ UNCHANGED <<tokenVars, nodeVars, plan, message, draft, exit, startedAt>>

\* EstimateGas, the margin of a fifth, and NewTransaction.
AskGasAndSign(i) ==
  LET to == message[i].Domain.VerifyingContract
      c == EncodeExecuteCalldata(message[i])
  IN
  /\ Goto(i, "EstimateGas", "SendTransaction")
  /\ \E gas \in EstimateGas(plan[i].Key, to, c) :
       sent' = [sent EXCEPT ![i] =
                  [from |-> plan[i].Key, nonce |-> draft[i].nonce,
                   gasPrice |-> draft[i].gasPrice, gasLimit |-> gas + gas \div 5,
                   to |-> to, call |-> c]]
  /\ UNCHANGED <<tokenVars, nodeVars, plan, message, draft, exit, startedAt>>

\* Mutant: the error of SendTransaction is ignored.
SendUnchecked(i) ==
  /\ Goto(i, "SendTransaction", "WriteOutput")
  /\ SendTransaction(sent[i]) \/ (~SendAccepted(sent[i]) /\ UNCHANGED nodeVars)
  /\ UNCHANGED <<tokenVars, plan, message, draft, sent, exit, startedAt>>

Send(i) ==
  /\ Goto(i, "SendTransaction", "WriteOutput")
  /\ SendTransaction(sent[i])
  /\ UNCHANGED <<tokenVars, plan, message, draft, sent, exit, startedAt>>

\* The node takes the transaction, but its answer does not arrive.
SendUnanswered(i) ==
  /\ Goto(i, "SendTransaction", "Done")
  /\ SendTransaction(sent[i])
  /\ exit' = [exit EXCEPT ![i] = "failed"]
  /\ UNCHANGED <<tokenVars, plan, message, draft, sent, startedAt>>

\* writeOutput with the txHash, after which the process exits with code 0.
WriteOutput(i) ==
  /\ Goto(i, "WriteOutput", "Done")
  /\ exit' = [exit EXCEPT ![i] = "reported"]
  /\ UNCHANGED <<tokenVars, nodeVars, plan, message, draft, sent, startedAt>>

Step(i) ==
  \/ AskChainID(i) \/ AskPendingNonce(i) \/ AskGasPrice(i) \/ AskGasAndSign(i)
  \/ Send(i) \/ SendUnanswered(i) \/ WriteOutput(i) \/ Fail(i)

Next ==
  \/ \E i \in Invocations, p \in Plans : StartBroadcast(i, p) \/ StartCancel(i, p)
  \/ \E i \in Invocations : Step(i)
  \/ NodeStep /\ UNCHANGED cliVars

Spec == Init /\ [][Next]_vars

(***************************************************************************)
(* The node goes on mining, and every RPC of a started invocation is       *)
(* answered or fails; whether an invocation is ever started is up to the   *)
(* user, and nothing is promised about time or the rest of the world.      *)
(***************************************************************************)
Fairness ==
  /\ WF_vars(MineOne /\ UNCHANGED cliVars)
  /\ \A i \in Invocations : WF_vars(pc[i] # "Start" /\ Step(i))

FairSpec == Spec /\ Fairness
===============================================================================
