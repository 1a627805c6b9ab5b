-------------------------- MODULE AuthorizationLedger --------------------------
(***************************************************************************)
(* What EIP-3009 promises to the holders of a token, with no calldata,     *)
(* signature encoding, caller or clock in it.  Every account has one slot  *)
(* per nonce.  A slot is consumed once, by one use or by one cancellation, *)
(* and only on terms that the account itself has consented to; a use moves *)
(* the value of those terms in the same step.                              *)
(***************************************************************************)
EXTENDS Integers

CONSTANTS Accounts, Addresses, Nonces, Modulus

VARIABLES
  balance,    \* tokens of every address
  slot,       \* "open", "used" or "canceled" for every account and nonce
  consent     \* pairs <<account, terms>>: what each account has agreed to

ledgerVars == <<balance, slot, consent>>

LedgerInit ==
  /\ balance = [a \in Addresses |-> 0]
  /\ slot = [a \in Addresses |-> [n \in Nonces |-> "open"]]
  /\ consent = {}

Moved(from, to, value) ==
  LET debited == [balance EXCEPT ![from] = @ - value] IN
  [debited EXCEPT ![to] = (@ + value) % Modulus]

Consent ==
  /\ consent \subseteq consent'
  /\ UNCHANGED <<balance, slot>>

\* terms are <<type, from, to, value, validAfter, validBefore, nonce>>
Use(from, terms) ==
  /\ terms[1] \in {"TransferWithAuthorization", "ReceiveWithAuthorization"}
  /\ terms[2] = from
  /\ slot[from][terms[7]] = "open"
  /\ terms[4] <= balance[from]
  /\ slot' = [slot EXCEPT ![from][terms[7]] = "used"]
  /\ balance' = Moved(from, terms[3], terms[4])
  /\ UNCHANGED consent

\* terms are <<type, authorizer, nonce>>
Cancel(authorizer, terms) ==
  /\ terms[1] = "CancelAuthorization"
  /\ terms[2] = authorizer
  /\ slot[authorizer][terms[3]] = "open"
  /\ slot' = [slot EXCEPT ![authorizer][terms[3]] = "canceled"]
  /\ UNCHANGED <<balance, consent>>

\* Plain ERC-20 movements, which do not concern the slots.
Mint(to, value) ==
  /\ balance' = [balance EXCEPT ![to] = (@ + value) % Modulus]
  /\ UNCHANGED <<slot, consent>>

Pay(from, to, value) ==
  /\ value <= balance[from]
  /\ balance' = Moved(from, to, value)
  /\ UNCHANGED <<slot, consent>>

LedgerNext ==
  \/ Consent
  \/ \E agreed \in consent : Use(agreed[1], agreed[2]) \/ Cancel(agreed[1], agreed[2])
  \/ \E to \in Accounts, value \in 0 .. Modulus - 1 : Mint(to, value)
  \/ \E from, to \in Accounts, value \in 0 .. Modulus - 1 : Pay(from, to, value)

LedgerSpec == LedgerInit /\ [][LedgerNext]_ledgerVars
===============================================================================
