--------------------------------- MODULE Node ---------------------------------
(***************************************************************************)
(* The Ethereum node behind --rpc, as far as client.go relies on it: the   *)
(* methods of TxClient that read or change its state, and the mining of    *)
(* what was sent.  The node is not part of the repository.  A transaction  *)
(* is identified by its contents, as its hash is.                          *)
(***************************************************************************)
EXTENDS EIP3009Token, FiniteSets

CONSTANTS
  OtherContracts, \* addresses without code that a message may name by mistake
  GasPrices,      \* what SuggestGasPrice may answer
  WarmGas,        \* gas of a call that finds the recipient's balance in place
  FreshGas,       \* gas of a call that creates the recipient's balance
  Outsiders       \* accounts that copy the calldata of pending transactions

Token == TokenDomain.VerifyingContract

ASSUME NodeAssumption ==
  /\ Token \notin OtherContracts
  /\ GasPrices \subseteq Nat
  /\ WarmGas \in Nat /\ FreshGas \in Nat /\ WarmGas <= FreshGas
  /\ Outsiders \subseteq Accounts

VARIABLES
  txpool,         \* pending transactions, at most one per sender and nonce
  accountNonce,   \* number of mined transactions of every account
  receipts,       \* mined transactions with their status
  accepted        \* every transaction the node has ever accepted

nodeVars == <<txpool, accountNonce, receipts, accepted>>

NodeInit ==
  /\ txpool = {}
  /\ accountNonce = [a \in Accounts |-> 0]
  /\ receipts = {}
  /\ accepted = {}

SameSlot(tx1, tx2) == tx1.from = tx2.from /\ tx1.nonce = tx2.nonce

Mined == {r.tx : r \in receipts}

-----------------------------------------------------------------------------
(* TxClient *)

\* NonceAt, which TxClient does not offer: it does not count pending ones.
LatestNonceAt(account) == accountNonce[account]

\* The first nonce of the account that no pending transaction uses.
PendingNonceAt(account) ==
  CHOOSE n \in accountNonce[account] .. accountNonce[account] + Cardinality(txpool) :
    /\ ~\E tx \in txpool : tx.from = account /\ tx.nonce = n
    /\ \A k \in accountNonce[account] .. n - 1 :
         \E tx \in txpool : tx.from = account /\ tx.nonce = k

GasNeeded(c) ==
  IF c.args.Kind \in TransferKinds /\ balances[c.args.To] = 0 THEN FreshGas ELSE WarmGas

\* The answers of EstimateGas, which simulates the call: none if it reverts.
EstimateGas(from, to, c) ==
  {g \in {GasNeeded(c)} : to = Token => CallAccepted(from, c)}

\* A pending transaction is replaced only at a higher price; a transaction
\* already known, underpriced or with a nonce already mined is refused.
SendAccepted(tx) ==
  /\ tx.nonce >= accountNonce[tx.from]
  /\ \A t \in txpool : SameSlot(t, tx) => t.gasPrice < tx.gasPrice

SendTransaction(tx) ==
  /\ SendAccepted(tx)
  /\ txpool' = {t \in txpool : ~SameSlot(t, tx)} \cup {tx}
  /\ accepted' = accepted \cup {tx}
  /\ UNCHANGED <<accountNonce, receipts>>

-----------------------------------------------------------------------------
(* Mining: the next transaction of an account is executed in one step. *)

Mine(tx, status) ==
  /\ tx.nonce = accountNonce[tx.from]
  /\ accountNonce' = [accountNonce EXCEPT ![tx.from] = @ + 1]
  /\ txpool' = txpool \ {tx}
  /\ receipts' = receipts \cup {[tx |-> tx, status |-> status]}
  /\ UNCHANGED accepted

MineCall(tx) ==
  /\ tx.to = Token /\ GasNeeded(tx.call) <= tx.gasLimit
  /\ AuthorizationCall(tx.from, tx.call)
  /\ Mine(tx, "success")

MineReverted(tx) ==
  /\ tx.to = Token
  /\ GasNeeded(tx.call) > tx.gasLimit \/ ~CallAccepted(tx.from, tx.call)
  /\ Mine(tx, "reverted")
  /\ UNCHANGED tokenVars

\* A call to an address without code succeeds and does nothing.
MineNoCode(tx) ==
  /\ tx.to # Token
  /\ Mine(tx, "success")
  /\ UNCHANGED tokenVars

MineOne == \E tx \in txpool : MineCall(tx) \/ MineReverted(tx) \/ MineNoCode(tx)

\* Somebody else gets the calldata of a pending transaction mined first.
Copied(outsider, tx) ==
  /\ tx.to = Token
  /\ AuthorizationCall(outsider, tx.call)
  /\ UNCHANGED nodeVars

\* The rest of the world: blocks, other signatures, other token movements.
Environment ==
  /\ \/ \E to \in Accounts, value \in Amounts : Mint(Owner, to, value)
     \/ \E from \in Outsiders, to \in Accounts, value \in Amounts : PlainTransfer(from, to, value)
     \/ \E s \in Signable : Sign(s)
     \/ Tick
  /\ UNCHANGED nodeVars

NodeStep ==
  \/ MineOne
  \/ \E outsider \in Outsiders, tx \in txpool : Copied(outsider, tx)
  \/ Environment
===============================================================================
