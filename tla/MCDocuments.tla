------------------------------ MODULE MCDocuments ------------------------------
(***************************************************************************)
(* Small instances of the documents: alice and bob sign, with a uint256 of *)
(* eight and a uint64 of four values.                                      *)
(***************************************************************************)
EXTENDS DocumentProperties, TLC

CONSTANTS alice, bob, contract, elsewhere, zero, stranger, none, absent, n1, n2

MCRecoveryId(key, digest) == IF key = alice THEN 0 ELSE 1

MCTokenDomain == [Name |-> "Token", Version |-> "1", ChainID |-> 1, VerifyingContract |-> contract]
MCMetadata == contract :> [Name |-> "Token", Version |-> "1"]

(* sign *)
SignFor(type, token, value, key) ==
  [Type |-> type, Token |-> token, Name |-> "Token", Version |-> "1", ChainID |-> 1,
   From |-> zero, To |-> bob, Value |-> value, ValidAfter |-> 0, ValidBefore |-> 0,
   TTL |-> 2, Nonce |-> n1, Key |-> key, DryRun |-> FALSE, Verify |-> TRUE]
Gift == SignFor("", contract, 1, alice)
Pull == [SignFor("receive", contract, 1, alice) EXCEPT !.DryRun = TRUE, !.From = alice]
Astray == SignFor("transfer", elsewhere, 1, alice)
Huge == [SignFor("transfer", contract, 9, bob) EXCEPT !.TTL = 0, !.ValidBefore = 3, !.Verify = FALSE]
Negative == SignFor("transfer", contract, -1, alice)
Revoke == SignFor("cancel", contract, 0, alice)
NotMine == [Gift EXCEPT !.From = bob]
MCSignOptions == {Gift, Pull, Astray, Huge, Negative, Revoke, NotMine}

(* cancel *)
CancelBy(key, token, chainID) ==
  [Token |-> token, Name |-> "", Version |-> "", ChainID |-> chainID, Authorizer |-> absent,
   Nonce |-> absent, Key |-> key, DryRun |-> TRUE, Verify |-> TRUE]
MCCancelOptions ==
  {CancelBy(alice, absent, absent),
   CancelBy(alice, contract, 1),
   CancelBy(bob, absent, absent),
   [CancelBy(bob, contract, absent) EXCEPT !.Nonce = n2, !.DryRun = FALSE, !.Verify = FALSE]}
ShortCancelOptions == {CancelBy(alice, contract, absent)}

(* Calldata of other programs: a message of alice, and one whose window does *)
(* not fit 64 bits.                                                          *)
Foreign(before) ==
  LET auth == [Kind |-> TransferAuthorization, From |-> alice, To |-> bob, Value |-> 2,
               ValidAfter |-> 0, ValidBefore |-> before, Nonce |-> n2]
      rs == RawSignature(alice, TypedDataHash(MCTokenDomain, auth))
  IN [args |-> auth, v |-> rs.recid + 27, rs |-> rs]
MCForeignCalls == {Foreign(3), Foreign(5)}
MCTokenOptions == {absent, contract, elsewhere}
ShortTokenOptions == {absent}

NoEdits(doc) == {}

(* What people and other programs make of a document: the copy on top or the *)
(* one that counts is changed, one of them or the kind is left out, the      *)
(* domain is filled in, and a cancel names its authorizer "from".            *)
Redirected(message) == IF "To" \in DOMAIN message THEN [message EXCEPT !.To = alice] ELSE message
Without(doc, field) == [f \in DOMAIN doc \ {field} |-> doc[f]]
RenameAuthorizer(message) ==
  IF "Authorizer" \in DOMAIN message
  THEN [f \in {"From", "Nonce"} |-> IF f = "From" THEN message.Authorizer ELSE message[f]]
  ELSE message
MCEdits(doc) ==
  {Without(doc, "typedData")}
  \cup (IF "message" \in DOMAIN doc THEN {[doc EXCEPT !.message = Redirected(@)]} ELSE {})
  \cup (IF "typedData" \in DOMAIN doc
        THEN {[doc EXCEPT !.typedData.message = Redirected(@)],
              [doc EXCEPT !.typedData.domain = MCTokenDomain],
              [doc EXCEPT !.typedData.message = RenameAuthorizer(@)],
              [doc EXCEPT !.typedData = Without(@, "primaryType")]} ELSE {})

OneForeignCall == {Foreign(3)}
EditedTokenOptions == {contract}
EditedSignOptions == {[Pull EXCEPT !.DryRun = FALSE], Astray}
EditedCancelOptions ==
  {CancelBy(alice, absent, absent), CancelBy(bob, absent, absent),
   [CancelBy(alice, contract, 1) EXCEPT !.DryRun = FALSE]}
===============================================================================
