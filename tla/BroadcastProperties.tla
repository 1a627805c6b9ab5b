-------------------------- MODULE BroadcastProperties --------------------------
(***************************************************************************)
(* What may be relied on when invocations of broadcast and cancel, other   *)
(* users of the chain and the token contract run together.                 *)
(***************************************************************************)
EXTENDS Broadcast

Authorizer(tx) == SignerAddress(tx.call.args)
AuthorizationNonce(tx) == tx.call.args.Nonce

\* The slot of the transaction's authorization was consumed by the first k events.
ConsumedWithin(k, tx) ==
  \E n \in 1 .. k : log[n].authorizer = Authorizer(tx) /\ log[n].nonce = AuthorizationNonce(tx)

(* Transactions are well formed, the pool holds one per sender and nonce, and  *)
(* an invocation has a transaction exactly when it got past EstimateGas.       *)
BroadcastTypeOK ==
  /\ txpool \subseteq accepted
  /\ Mined \subseteq accepted
  /\ accountNonce \in [Accounts -> Nat]
  /\ \A tx1, tx2 \in txpool : SameSlot(tx1, tx2) => tx1 = tx2
  /\ pc \in [Invocations -> {"Start", "Done"} \cup Calling]
  /\ exit \in [Invocations -> {"running", "failed", "reported"}]
  /\ \A i \in Invocations :
       /\ pc[i] \in {"SendTransaction", "WriteOutput"} => sent[i] # NoTx
       /\ exit[i] = "reported" => pc[i] = "Done" /\ sent[i] \in accepted

(* Retrying is safe: however many transactions carry an authorization, or its  *)
(* cancellation, the receipt of at most one of them says success, and that one *)
(* is the one that left its event (client.go:132, EIP3009Token.sol:118).       *)
OneSuccessPerAuthorization ==
  \A r1, r2 \in {r \in receipts : r.status = "success" /\ r.tx.to = Token} :
    /\ Authorizer(r1.tx) = Authorizer(r2.tx) /\ AuthorizationNonce(r1.tx) = AuthorizationNonce(r2.tx)
       => r1 = r2
    /\ \E n \in 1 .. Len(log) : log[n].caller = r1.tx.from /\ log[n].call = r1.tx.call

(* An invocation that is started after the authorization was used or canceled  *)
(* never builds a transaction for it: the simulation of EstimateGas reverts.   *)
(* The end-to-end script relies on it after a cancellation (client.go:122).    *)
ConsumedNotRebroadcast ==
  \A i \in Invocations :
    sent[i] # NoTx /\ sent[i].to = Token => ~ConsumedWithin(startedAt[i], sent[i])

(* Nothing is sent to the token that could never have succeeded: a signature   *)
(* of somebody else, for another chain or of altered terms, an upper-half s, a *)
(* v that was kept at 0 or 1, or a receive by anybody but the payee, with or   *)
(* without --verify (client.go:101, 122; cli.go:383).                          *)
HopelessNeverSent ==
  \A tx \in accepted :
    tx.to = Token =>
      /\ tx.call.v \in SolidityVs /\ ~tx.call.rs.high
      /\ tx.call.rs.signer = Authorizer(tx)
      /\ tx.call.rs.digest = TypedDataHash(TokenDomain, tx.call.args)
      /\ tx.call.args.Kind = ReceiveAuthorization => tx.from = tx.call.args.To

(* If a transaction that the CLI sent to the token reverts, something happened *)
(* between EstimateGas and mining: the slot was consumed, the window ended,    *)
(* the payer spent the tokens, or the recipient's balance had to be created at *)
(* a cost above the margin of a fifth (client.go:122-132).                     *)
RevertExplained ==
  [][\A r \in receipts' \ receipts :
       r.status = "reverted" =>
         LET args == r.tx.call.args IN
         \/ authorizationState[Authorizer(r.tx)][args.Nonce]
         \/ /\ args.Kind \in TransferKinds
            /\ \/ timestamp >= args.ValidBefore
               \/ balances[args.From] < args.Value
               \/ balances[args.To] = 0 /\ r.tx.gasLimit < FreshGas
    ]_vars

(* The pending transactions of an account follow its mined ones without a gap, *)
(* so none of them waits for a nonce that nobody will use (client.go:112).     *)
NoNonceGap ==
  \A tx \in txpool :
    /\ tx.nonce >= accountNonce[tx.from]
    /\ \A k \in accountNonce[tx.from] .. tx.nonce - 1 :
         \E t \in txpool : t.from = tx.from /\ t.nonce = k

(* A txHash that was reported stands for a transaction that is pending or      *)
(* mined.  It can be lost only to a transaction of the same key, with the same *)
(* nonce and a higher price, whose invocation had asked for its nonce before   *)
(* this one was accepted: running one at a time never loses any                *)
(* (client.go:112-132).                                                        *)
ReportedAccounted ==
  \A i \in Invocations :
    exit[i] = "reported" =>
      \/ sent[i] \in txpool \cup Mined
      \/ \E j \in Invocations :
           /\ sent[j] \in accepted
           /\ SameSlot(sent[i], sent[j]) /\ sent[i].gasPrice < sent[j].gasPrice
           /\ sent[i] \notin draft[j].after

-----------------------------------------------------------------------------
(* Liveness, under FairSpec. *)

(* Whatever the node has pending for an invocation is mined, successfully or   *)
(* not, or displaced in the end; it does not wait forever.                     *)
PendingResolved ==
  \A i \in Invocations : sent[i] \in txpool ~> sent[i] \notin txpool

\* Another invocation uses the key.
KeyShared(i, key) == \E j \in Invocations \ {i} : plan[j] # NoPlan /\ plan[j].Key = key

(* After a cancellation of a message for this token was reported, the slot is  *)
(* consumed in the end, by the cancellation or by a use that came first,       *)
(* provided that no other invocation uses the authorizer's key (README.md:123).*)
CancelConsumes ==
  \A i \in Invocations, p \in {q \in Plans : q.Command = "cancel" /\ q.Message.Domain = TokenDomain} :
    exit[i] = "reported" /\ plan[i] = p /\ ~KeyShared(i, p.Key)
      ~> authorizationState[p.Key][p.Message.Authorization.Nonce] \/ KeyShared(i, p.Key)
===============================================================================
