------------------------- MODULE ContractReadsProperties -------------------------
(***************************************************************************)
(* What is expected of reads that are made one after the other while the   *)
(* contract may change and the node may fail.                              *)
(***************************************************************************)
EXTENDS ContractReads

\* The type invariant: a call was made, or is to be made, but not both.
ContractReadsTypeOK ==
  /\ contract \in inForce /\ inForce \subseteq Implementations
  /\ upgrades \in 0 .. MaxUpgrades
  /\ task \in Tasks
  /\ status \in {"idle", "running", "ok", "error"} \cup {TxCalls[n] : n \in DOMAIN TxCalls}
  /\ pending \subseteq Methods
  /\ \A method \in pending : read[method] = {}
  /\ failed \subseteq {method \in Methods : read[method] = {RpcError}}
                     \cup {TxCalls[n] : n \in DOMAIN TxCalls}
  /\ tx \in {"none", "pending", "canceled", "ignored", "reverted"}

\* What it means, of an implementation, to offer a function of EIP-3009 as
\* this program signs for it: the view exists and has the expected type hash.
Offers(implementation, method) ==
  /\ implementation.answers[method] \notin NoValue
  /\ method # "authorizationState" => implementation.answers[method] = method

\* Each line of check's report is true of some implementation that was in
\* force while check ran, and a line that denies a feature without a failed
\* call is true of one that lacked it.
FeatureTruthful ==
  \A r \in report, method \in Features :
    /\ method \in r.features => \E i \in inForce : Offers(i, method)
    /\ method \notin r.features =>
         method \in failed \/ \E i \in inForce : ~Offers(i, method)

\* The verdict as a whole is about one contract only if it was the same
\* throughout: then "supported" says that it has the two transfer functions
\* and the state, and "not supported", if no call failed, that it has not.
VerdictExact ==
  \A r \in report, i \in inForce :
    inForce = {i} =>
      LET offers == {method \in Features : Offers(i, method)} IN
      /\ r.Supported => Features \ offers \subseteq {"CANCEL_AUTHORIZATION_TYPEHASH"}
      /\ ~r.Supported => failed # {} \/ ~(Features \ {"CANCEL_AUTHORIZATION_TYPEHASH"} \subseteq offers)
      /\ ~r.Notes => "CANCEL_AUTHORIZATION_TYPEHASH" \in offers

\* check always reports, however many of its calls are refused or fail.
CheckReports == task.Command = "check" => <>(report # {})

\* The metadata of the contract is that of its EIP-712 domain.
DomainPublished(implementation) ==
  /\ implementation.answers["name"] = implementation.domain.Name
  /\ implementation.answers["version"] = implementation.domain.Version
  /\ implementation.domain.ChainID = NodeChain

GivenRight(implementation) ==
  /\ "name" \in task.Given => task.Domain.Name = implementation.domain.Name
  /\ "version" \in task.Given => task.Domain.Version = implementation.domain.Version
  /\ "eth_chainId" \in task.Given => task.Domain.ChainID = implementation.domain.ChainID

\* cancel completes the domain of a contract that publishes it, whatever part
\* of it is given, and its transaction cancels (or a dry run succeeds), unless
\* the node fails or the contract is upgraded meanwhile (cli.go:666-712).
CancelCompleted ==
  /\ task.Command = "cancel" /\ task.Token /\ task.OwnKey
  /\ contract.cancelAuthorization = "checks"
  /\ DomainPublished(contract) /\ ValidateDomain(contract.domain) /\ GivenRight(contract)
  => <>(\/ IF task.DryRun THEN status = "ok" ELSE tx = "canceled"
        \/ failed # {} \/ upgrades > 0)

\* A transaction of cancel reverts only if the contract was upgraded after its
\* estimate to one that takes another domain.  Whatever cancel has read before,
\* between and after upgrades, it sends nothing for a mixture of domains that
\* no contract used: it was in force for one that takes it (client.go:122).
CancelRevertExplained ==
  tx = "reverted" =>
    \E before, after \in inForce :
      /\ Outcome(before, CancelDomain) # "reverted"
      /\ Outcome(after, CancelDomain) = "reverted"
===============================================================================
