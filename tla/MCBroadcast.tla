------------------------------ MODULE MCBroadcast ------------------------------
(***************************************************************************)
(* Small instances of the broadcasting system: two invocations, a payer    *)
(* alice with a single token, a payee bob and a relayer carol.             *)
(***************************************************************************)
EXTENDS BroadcastProperties, TLC

CONSTANTS alice, bob, carol, contract, elsewhere, zero, stranger, none,
          noPlan, noMessage, noTx, n1, i1, i2

MCAccounts == {alice, bob, carol}
MCRecoveryId(key, digest) == IF digest.structHash[1] = "CancelAuthorization" THEN 1 ELSE 0

MCTokenDomain == [Name |-> "Token", Version |-> "1", ChainID |-> 1, VerifyingContract |-> contract]
OtherChain == [MCTokenDomain EXCEPT !.ChainID = 2]
NotTheToken == [MCTokenDomain EXCEPT !.VerifyingContract = elsewhere]

Payment(kind) ==
  [Kind |-> kind, From |-> alice, To |-> bob, Value |-> 1,
   ValidAfter |-> 0, ValidBefore |-> 2, Nonce |-> n1]
Gift == Payment(TransferAuthorization)
Pull == Payment(ReceiveAuthorization)
Revoke == [Kind |-> CancelAuthorization, Authorizer |-> alice, Nonce |-> n1]

Signed(domain, auth) == CHOOSE m \in SignAuthorization(domain, auth, alice) : TRUE
Imported(m) == [m EXCEPT !.Signature.V = @ - 27]
UpperHalf(m) == [m EXCEPT !.Signature.RS = HighS(@), !.Signature.V = 55 - @]
Altered(m) == [m EXCEPT !.Authorization.To = carol]

Signing(domain, auth) == [Key |-> alice, Domain |-> domain, Authorization |-> auth]
MCSubmitted == {Gift, Pull, Revoke, [Pull EXCEPT !.To = carol]}

BroadcastPlan(m, key, verify, policy) ==
  [Command |-> "broadcast", Message |-> m, Key |-> key, Verify |-> verify, Policy |-> policy]
CancelPlan(m) ==
  [Command |-> "cancel", Message |-> m, Key |-> alice, Verify |-> TRUE, Policy |-> "keep-v"]

(* Retry: one message sent twice with the same key. *)
RetrySignable == {Signing(MCTokenDomain, Gift)}
RetryPlans == {BroadcastPlan(Signed(MCTokenDomain, Gift), carol, TRUE, "keep-v")}

(* Cancel: the authorizer cancels what a relayer broadcasts. *)
CancelSignable == {Signing(MCTokenDomain, Gift), Signing(MCTokenDomain, Revoke)}
CancelPlans ==
  {BroadcastPlan(Signed(MCTokenDomain, Gift), carol, FALSE, "keep-v"),
   CancelPlan(Signed(MCTokenDomain, Gift))}

(* Imported: messages that are damaged, foreign, or in the wrong hands. *)
ImportedSignable ==
  {Signing(MCTokenDomain, Pull), Signing(OtherChain, Gift), Signing(NotTheToken, Gift)}
ImportedPlans ==
  LET pull == Signed(MCTokenDomain, Pull) IN
  {BroadcastPlan(pull, bob, TRUE, "keep-v"),
   BroadcastPlan(pull, carol, FALSE, "keep-v"),
   BroadcastPlan(Imported(pull), bob, TRUE, "prompt"),
   BroadcastPlan(UpperHalf(pull), bob, TRUE, "normalize-v"),
   BroadcastPlan(Altered(pull), carol, FALSE, "keep-v"),
   BroadcastPlan(Signed(OtherChain, Gift), carol, TRUE, "keep-v"),
   BroadcastPlan(Signed(NotTheToken, Gift), carol, TRUE, "keep-v")}
===============================================================================
