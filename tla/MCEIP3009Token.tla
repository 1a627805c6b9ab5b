---------------------------- MODULE MCEIP3009Token ----------------------------
(***************************************************************************)
(* A small instance of the token: three accounts, one nonce, uint256 of    *)
(* four values, and signatures that invite replay, cross use and tampering.*)
(***************************************************************************)
EXTENDS TokenProperties, TLC

CONSTANTS alice, bob, carol, contract, zero, stranger, none, n1

MCAccounts == {alice, bob, carol}

\* The recovery bit depends on the key and on the digest.
MCRecoveryId(key, digest) ==
  IF key = alice /\ digest.structHash[1] # "CancelAuthorization" THEN 0 ELSE 1

MCTokenDomain == [Name |-> "Token", Version |-> "1", ChainID |-> 1, VerifyingContract |-> contract]
OtherChain == [MCTokenDomain EXCEPT !.ChainID = 2]

Payment(kind, from, to, value, after, before, nonce) ==
  [Kind |-> kind, From |-> from, To |-> to, Value |-> value,
   ValidAfter |-> after, ValidBefore |-> before, Nonce |-> nonce]
Cancellation(authorizer, nonce) ==
  [Kind |-> CancelAuthorization, Authorizer |-> authorizer, Nonce |-> nonce]

Gift    == Payment(TransferAuthorization, alice, bob, 1, 0, 3, n1)
Pull    == Payment(ReceiveAuthorization, alice, bob, 1, 0, 3, n1)
Narrow  == Payment(TransferAuthorization, alice, alice, 2, 1, 3, n1)
Huge    == Payment(TransferAuthorization, bob, alice, 5, 0, 9, n1)   \* 5 % 4 = 1
Revoke  == Cancellation(alice, n1)

SignedBy(key, domain, auths) ==
  {[Key |-> key, Domain |-> domain, Authorization |-> a] : a \in auths}

\* Alice signs three authorizations that compete for one nonce, one of them a
\* payment to herself in a window of one second, and one for another chain; bob
\* signs a forgery of hers and a payment whose value exceeds a uint256.
MCSignable ==
  SignedBy(alice, MCTokenDomain, {Pull, Narrow, Revoke})
  \cup SignedBy(alice, OtherChain, {Pull}) \cup SignedBy(bob, MCTokenDomain, {Pull, Huge})

\* What the CLI encodes, a transfer that nobody signed, and altered copies.
MCSubmitted ==
  {AbiArguments(a) : a \in {Gift, Pull, Narrow, Revoke, Huge}}
  \cup {[Pull EXCEPT !.To = carol], [Narrow EXCEPT !.ValidAfter = 0], Cancellation(bob, n1)}
===============================================================================
