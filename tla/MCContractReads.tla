----------------------------- MODULE MCContractReads -----------------------------
(***************************************************************************)
(* Contracts with all of EIP-3009, with parts of it, with other type       *)
(* hashes, with a fallback that answers anything, and accounts without     *)
(* code; one of them publishes another name than that of its domain.       *)
(***************************************************************************)
EXTENDS ContractReadsProperties

MCNodeChain == "chain"

Whole ==
  [answers |-> [method \in Methods |->
     CASE method = "authorizationState" -> "false"
       [] method = "decimals" -> "6"
       [] method = "symbol"   -> "USDC"
       [] method = "name"     -> "USD Coin"
       [] method = "version"  -> "2"
       [] OTHER -> method],
   domain |-> [Name |-> "USD Coin", Version |-> "2", ChainID |-> "chain"],
   cancelAuthorization |-> "checks"]

Without(method, answer) == [Whole EXCEPT !.answers[method] = answer]

AlwaysAnswers(answer, effect) ==
  [Whole EXCEPT !.answers = [method \in Methods |-> answer], !.cancelAuthorization = effect]

MCImplementations ==
  {Whole,
   AlwaysAnswers("reverts", "reverts"),
   AlwaysAnswers("empty", "ignores"),
   AlwaysAnswers("undecodable", "ignores"),
   Without("authorizationState", "undecodable"),
   Without("TRANSFER_WITH_AUTHORIZATION_TYPEHASH", "other"),
   Without("RECEIVE_WITH_AUTHORIZATION_TYPEHASH", "reverts"),
   Without("RECEIVE_WITH_AUTHORIZATION_TYPEHASH", "TRANSFER_WITH_AUTHORIZATION_TYPEHASH"),
   [Without("CANCEL_AUTHORIZATION_TYPEHASH", "reverts") EXCEPT !.cancelAuthorization = "reverts"],
   Without("name", "USDC"),
   Without("version", "reverts"),
   Without("version", ""),
   [Whole EXCEPT !.answers["name"] = "USDC", !.answers["version"] = "1",
                 !.domain.Name = "USDC", !.domain.Version = "1"]}

Task(name, given) ==
  [Command |-> name, Rpc |-> TRUE, Token |-> TRUE, OwnKey |-> TRUE, DryRun |-> FALSE,
   Given |-> given,
   Domain |-> [Name    |-> IF "name" \in given THEN "USD Coin" ELSE "",
               Version |-> IF "version" \in given THEN "2" ELSE "",
               ChainID |-> IF "eth_chainId" \in given THEN "chain" ELSE ""]]

MCTasks ==
  {Task("check", {}), [Task("cancel", {}) EXCEPT !.Token = FALSE],
   [Task("cancel", {}) EXCEPT !.OwnKey = FALSE], [Task("cancel", {}) EXCEPT !.DryRun = TRUE],
   [Task("extract", {}) EXCEPT !.Rpc = FALSE], [Task("extract", {}) EXCEPT !.Token = FALSE]}
  \cup {Task("extract", given) : given \in SUBSET {"decimals", "symbol"}}
  \cup {Task("cancel", given) : given \in SUBSET {"eth_chainId", "name", "version"}}
===============================================================================
