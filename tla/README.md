# Verification of eip3009

`eip3009` is a command line for EIP-3009 tokens (`internal/cli`,
`internal/eip3009`) together with a token contract
(`solidity-eip3009-token/src/EIP3009Token.sol`). A payer signs an authorization
offline; somebody else executes it on the chain, once, inside a window of time;
the payer may cancel it as long as it is not executed. The modules of this
directory say what that means, model the code, check it with TLC on small
instances, and prove the properties that matter most with TLAPS.

## The system

| Component | State it keeps | Operations | What makes it correct |
| --- | --- | --- | --- |
| Token contract | balances, supply, `authorizationState`, events | transfer/receive/cancel with authorization, mint, plain transfer | a nonce is consumed once; whatever takes effect was signed, for this contract, by the right function and caller, in its window; balances add up |
| Authorizations | none | hash, sign, verify, encode | the CLI and the contract agree on what is signed and what is valid |
| Documents and calldata | JSON files, published calldata | sign, dry-run, extract, cancel, broadcast write and read them | terms and signature stay together; `signatureValid` is true; a cancellation hits its message |
| Broadcasting | one process per invocation | the six RPCs of `BroadcastAuthorization`, then the output | retries are safe; nothing hopeless is sent; nothing waits for ever; a reported transaction is accounted for |
| Ethereum node (external) | pool, account nonces, receipts | what `TxClient` offers, mining | - |
| Amounts | none | parse `--value`, `--amount`, `--decimals`; show a value | the amount typed is the amount signed; what is shown is exact and reads back |
| Support check and other reads | the answers so far | `check`, and the reads of `extract` and `cancel` | every line of the report is true of a contract that was there; a cancellation whose domain was pieced together from two contracts reverts only because of an upgrade after its estimate |
| Keys and standard input | one terminal or pipe, one reader after the other | message, prompt about v, key, password | consent is given by a person or a flag; a pipe serves one purpose; what is typed with the echo off is never shown; nothing hangs |

The parts meet in five ways. Documents go from one command to the next, maybe
through a wallet. Commands talk to a node by RPC; every answer may be out of
date when it is used. Transactions of any number of invocations and of other
users compete in the node's pool. The contract judges calldata that anybody may
submit with pieces from anywhere. The readers of one invocation share its
standard input.

What is hard: two invocations with one key between `PendingNonceAt` and
`SendTransaction`; the state that `EstimateGas` simulates against being gone
when the transaction is mined; a send whose answer, or whose output file, is
lost and which is tried again; a cancellation racing the transfer it cancels;
front-runners that copy calldata; hashing in two languages; documents that pass
through several commands and lose their domain on the way, or are edited there;
a proxy that is upgraded between two views of one command; a terminal on which
somebody types too early, and a pipe that one reader empties for the next;
boundaries of time windows, integer widths and decimal fractions. `PROJECT.json` lists each of them under
`hazards`, at its line.

## Modules

| Module | Models | Notes |
| --- | --- | --- |
| `Authorizations` | `types.go`, `eip712.go`, `EncodeExecuteCalldata`, v policies | operators only |
| `EIP3009Token` | `EIP3009Token.sol` | one action per call that succeeds |
| `AuthorizationLedger` | - | the abstract promise of EIP-3009 |
| `TokenProperties` | - | properties and the refinement mapping |
| `Node` | the node behind `--rpc` | external; extends `EIP3009Token` |
| `Broadcast` | `client.go:93`, `runBroadcast`, `runCancel` | composes invocations, node and token |
| `BroadcastProperties` | - | safety, action and liveness properties |
| `Documents` | `json.go`, `message.go`, decoding of calldata, `runSign`, `runExtract`, `runCancel`, `runBroadcast` | documents and calldata in circulation |
| `DocumentProperties` | - | their properties |
| `Amounts` | `amount.go`, `ExtractionObject`, the amounts of `runSign` and `runExtract` | texts are sequences of digits and signs |
| `AmountProperties` | - | exactness, round trip |
| `ContractReads` | `client.go:40-136`, `138-186`, `runCheck`, the reads of `runExtract`, `runCancel` | one action per RPC |
| `ContractReadsProperties` | - | truth of the report, transactions of cancel, progress |
| `StandardInput` | `readInputArg`, `resolveSignatureVForBroadcast`, `loadPrivateKey`, `readSecret` | one invocation, a person or another program |
| `StandardInputProperties` | - | consent, secrets, progress |
| `FoldLemmas` | - | recursion and induction over sets; least naturals; folds and sums over finite sets |
| `EIP3009TokenProofs` | - | the token: safety, the refinement, the supply, the agreement with the CLI |
| `BroadcastProofs`, `TransactionProofs` | - | broadcasting: what is sent; then nonces, reports and receipts |
| `DocumentProofs`, `AmountProofs`, `ContractReadsProofs`, `StandardInputProofs` | - | the modules of these names |
| `MCEIP3009Token`, `MCBroadcast`, `MCDocuments`, `MCAmounts`, `MCContractReads`, `MCStandardInput` | - | instances for TLC |

**Cryptography** is symbolic. A hash is the tuple of what is hashed. The `(r, s)`
of a signature is a record of who signed which digest, with the recovery bit
and whether s is of the upper half; recovering it with anything else yields
`Stranger`. `HighS` is the second signature anyone can derive from a first.
Integers keep their width: `U256` is the packing of go-ethereum's ABI, which
wraps, and `UINT64` limits windows in messages.

**The token.** A call is one atomic action with all checks of the function as
its guard, because the EVM runs one call at a time and undoes a call that
reverts. `CallAccepted` is that guard by itself, used for gas estimation and
for reverted transactions. `log` holds the events, each with the call that
emitted it. Calls are any submitted arguments with any signature that exists:
replay, the wrong function, altered terms and upper-half twins included.

**Broadcasting.** An invocation's `pc` names its next RPC. The local part of a
command (parsing, `--verify`, resolving v, the check that a receive is sent by
its payee) is one action, since nothing else can see it; each RPC is one, and
so is the output. `Fail` may end an invocation at any point: an RPC error, a
local error or an interrupt. `SendUnanswered` is the send whose answer is lost.
Trying again is another invocation with the same plan. `draft.after` and
`startedAt` are history variables: what the node had accepted when the nonce
was asked for, and how long the event log was at the start. The node keeps one
transaction per sender and nonce and replaces it at a higher price only. It
mines each account's transactions in order, and charges more gas when the
recipient's balance has to be created.

**Documents.** A document is a record with the fields of the JSON that matter:
`authorizationType` or `primaryType`, `domain`, `message`, `typedData`,
`signature`, `signatureValid`. Parsers and commands that can fail return sets,
empty for an error. `originals` is a history variable with each pair of
arguments and signature as its signer made it. Documents are created by `sign`,
signed by wallets, rewritten by `extract`, used by `cancel` and `broadcast`,
recovered from calldata, edited (`Edits` says how: a field changed on top or in
`typedData`, one of the two or the kind left out, the domain filled in, an
authorizer called `from`), and deleted. Text fields are trimmed, numbers are
numbers: how they are spelled in JSON is not modelled.

**Amounts.** A trimmed text is a sequence of digits and the characters point,
minus and plus, so the parsers and `FormatTokenValue` work digit by digit as in
the code; `PadFraction`, `PadDigits` and `TrimRightZeros` are its three string
operations. `sign` turns options into a value, `extract` shows it, with the
decimals of the flag or of the token, and a person copies what was shown into
the next command. The reference, `Denotes`, compares integers only: the text
without its point, scaled by its number of decimals. A text without any digit
denotes nothing.

**Reads of a contract.** `check`, `extract` and `cancel` read views one after the
other, each at the latest block. `Upgrade` may replace the implementation
between two of them (the token address may be a proxy), `CallFails` is an RPC
without an answer. `check` goes on after an error, the others stop.
`inForce`, a history variable, has the implementations since the command
started. `cancel` goes on to sign for the domain it has put together
(`SignCancel`) and makes the five RPCs of `BroadcastAuthorization`, each of
which the node may fail to answer (`NodeFails`); nothing of what was read is
looked at again. `Outcome` is what the contract in force makes of the
transaction: it recovers the signer over its own domain, or has no such
function, or ignores the call. `EstimateGas` asks it once and `Mine` once more,
with upgrades before, between and after. Nonces, keys and competing
transactions are the subject of `Broadcast`, which has one contract.

**Standard input.** `stdin` holds lines that are written and not read. Every
reader has its own way with it: `io.ReadAll` takes everything up to the end of
the input, a `bufio.Reader` takes a line and an unknown part of what is behind
it, `term.ReadPassword` takes exactly one line. On a terminal an end of file
ends one read only. A person answers what is asked and may type lines too early
or by mistake, the secret included (`Slip`); a program fills a pipe and closes
it. The prompt for a secret and the moment when the echo goes off
(`TurnEchoOff`) are two steps, and a person may answer the prompt in between.
A secret becomes visible where it is typed with the echo on, and where a wrong
answer is printed in the error. `typed`, a history variable, has what a person
typed at which stage. Messages and keys from standard input are trimmed, so
empty lines around them do not count (`Says`). `ok` means that everything was
read; what the command does then is in the other modules. Whether a document
parses, a key is a key and a password opens the keystore is a matter of which
line was read.

## Runs

| Run | Question | Result |
| --- | --- | --- |
| `token` | three authorizations of one nonce, a forgery, another chain's, altered copies, a value that wraps, in any order: once, signed, by the payee? does the contract implement the ledger, and accept what the CLI signs and verifies? | holds |
| `broadcast_retry` | two invocations send one message with one key while a front-runner copies calldata, tokens move and time passes | holds |
| `broadcast_cancel` | cancel against broadcast, with liveness | holds |
| `broadcast_imported` | seven messages that are damaged, foreign or in the wrong hands, with every v policy that matters | holds |
| `documents` | any journey of documents between sign, wallet, extract, cancel and broadcast | holds |
| `documents_edited` | documents are edited between two commands: what does `--verify` still promise, and are the verdicts right? | holds |
| `amounts` | every short text with every `--decimals`, shown and typed again: is anything lost? | holds |
| `amounts_digits` | is an amount without any digit refused? | violated: a point is signed as zero |
| `contract_reads` | `check`, `extract`, `cancel` against thirteen kinds of contracts, with upgrades and failures between any two calls, until what `cancel` sent is mined | holds |
| `standard_input` | every command line that reads standard input, with a person who slips, or a pipe with none, one or several of the things that are read | holds |
| `documents_token` | can a message recovered from calldata be canceled with `--token`? | violated: its chain id is printed as 0 |
| `documents_value` | is the printed value a uint256, as the printed types say? | violated: no upper bound |

Some results deserve a remark. `ReportedAccounted` does not say that a reported
transaction is never lost. Two invocations that asked for their nonce at the
same time get the same one, and the one with the higher gas price displaces the
other after its hash was reported. The property says that this is the only way,
and that it needs the same key at the same time. `RevertExplained` enumerates
why a transaction that was simulated successfully can still revert; the last
reason is that a fifth of headroom does not pay for creating a balance that was
emptied in between (85 against 81 in the model's units). `SignedMessageExecutes`
holds strictly inside the window: at `validAfter` itself the contract still
rejects, although the help of `--valid-after` calls it the "earliest valid
timestamp" (`cli.go:469`). `TypedAmountExact` is about amounts with a digit. The code means to refuse one
without (`invalid amount`, `amount.go:52-54`), but has replaced the empty whole
part by `0` three lines before, so the test never succeeds and `--amount .` is
signed as zero: the finding of `amounts_digits`. `VerdictExact` needs that the
contract was the same throughout: `check` can report a mixture that no contract
ever was, and `FeatureTruthful`, line by line, is all that is left then.
`CancelRevertExplained` is the corresponding promise of `cancel`, whose domain
may be such a mixture too: because the node simulates the very transaction, it
is sent only if a contract in force took it, and reverts only if an upgrade came
after that. `OnePurposePerPipe` says that commands with two readers on one pipe
fail rather than take the one thing for the other. `ConsentGiven` and
`SecretHidden` name what the code cannot exclude. A line that was typed before
the question about v, an empty one included, answers it. A secret is visible if
it was typed too early, for `--stdin-private-key` or `--stdin-password` at a
terminal, or in the instant between the prompt and the switching off of the echo
(`cli.go:855-856`). The properties say that there is no other way, and that no
pipe gives consent.

### Bounds

The instances have two or three accounts, one or two nonces and a uint256 of
two to eight values, enough for wrap-around to occur. `token` has one nonce, for
which three of alice's authorizations compete, and the slots of three accounts.
`MaxTime` reaches beyond every window. Two invocations are enough for every pairwise race (same nonce,
displacement, send against cancel, retry after failure), and each may also run
after the other, which is a retry. `Amounts` are the plain mints and transfers
with which payers are funded and emptied. `GasPrices` has two values where
displacement matters. `broadcast_cancel` uses one value to keep the liveness
check small; its third account is the relayer. In `Documents`, `MaxDocuments`
is 2: files can be deleted, so journeys are of any length (the state graph is
21 steps deep), but no command reads more than one document. `MaxCalls` and
`MaxSignatures` bound published calldata and signatures, two of which others
made. `ForeignCalls` has a window that does not fit 64 bits, and `WallClock` a
time so late that a `--ttl` overflows. `documents_edited` has fewer options,
because an edit multiplies documents, but every kind of edit on every document.
`amounts` has all texts of up to four characters of two digits and the point
(leading, inner and trailing zeros, two points, none), some with signs, and
decimals from none to one beyond the bound. `contract_reads` allows two
upgrades: one makes a mixture, the second returns to the first contract or goes
on to a third, also between estimate and mining. `standard_input` allows two lines that nobody asked for, enough to
fill an answer and the input after it, and pipes of up to three lines, as many
as there are readers.
`CHECK_DEADLOCK FALSE` is set because the systems may really stop: all commands
done, nothing to mine, time at its bound.

### Fairness

`FairSpec` assumes that the node goes on mining as long as it can, and that an
invocation that was started gets an answer or an error to each of its RPCs.
The code starts no retries and sets no deadline (`cli.go:33`), so nothing is
assumed about starting invocations, and neither time nor other users are fair.
`PendingResolved` and `CancelConsumes` hold under these assumptions.
`CancelConsumes` excludes other users of the authorizer's key, whose
transactions can displace the cancellation.

`ContractReads` assumes that a command whose call was answered or failed goes on
(`WF_vars(Command)`), and that a pending transaction is mined (`WF_vars(Mine)`,
for `CancelCompleted`); upgrades are never forced. `StandardInput` assumes that the program runs, that a
person answers a question in the end, and that the other program writes what it
has and closes the pipe; `Ends` would be false for a terminal that is left
alone. Slips are never forced.

## Proofs

TLAPS proves, for all values of the constants that satisfy the stated
assumptions:

- `TypeCorrectness`, `SlotsConsumedOnce`, `StateMirrorsLog`, `EffectsBacked`,
  `ReceivesNeedPayee`: the safety of the token, for any accounts, nonces,
  signable terms, submitted arguments and width of uint256. The inductive
  invariant is `TokenInv`. None of its parts is inductive alone:
  `SlotConsumedOnce` needs `ConsumedIffLogged` to know that an open slot is in
  no entry of the log; `EffectBacked` needs `SignedByHolders` to know that what
  the contract recovers is what a holder signed. `CallConsumes` reduces the
  three calls to one description of what any of them does, and `StepCases` the
  next-state relation to three cases, so that each part is proved once.
- `TokenImplementsLedger`: every call maps to a use or a cancellation of the
  abstract ledger, everything else to a step of the ledger or a stutter.
- `SupplyIsConserved`: the balances add up to the supply and the supply fits a
  uint256. `SupplyInv` needs both halves at once: a credit does not wrap because
  the sum does not, and the sum is kept because no credit wraps. What the sum is
  comes from `FoldLemmas`, by induction over the finite set of addresses.
- `SystemImplementsToken`: any number of invocations, the node and other users
  together take only steps of `TokenSpec`; the token's theorems carry over
  (`SystemSlotsConsumedOnce`). The invariant `BroadcastInv` says that whatever
  is pending or about to be sent is a call that may be submitted.
- `NothingHopelessSent`: what got past `EstimateGas` is sound for good
  (`AcceptedIsSound`). This is the same invariant.
- `NeverRebroadcast`: `EstimateGas` finds the slot open, so no event up to the
  start of the invocation consumed it, and the log only grows.
- `SignedMessagesExecute`, `VerifyMatchesToken`: the CLI and the contract agree.
  `PackedTerms` and `SameStructHash` say that both hash the same structure,
  before and after a value was packed; what the CLI signed recovers to its
  signer in the contract (`SignedRecovers`). Only the second needs the
  invariant, to know that a holder of a key made each signature.
- `OneSuccess`: a receipt of success is written in the step that appends the
  event of its slot, so a second one would consume the slot twice.
- `RevertsExplained`: what `EstimateGas` found is split into what lasts
  (`Lasting`: signature, payee, addresses, beginning of the window, gas) and the
  rest; `LastingInv` carries the first part from the estimate through sending to
  mining, and if a call is then refused, it is for the second part.
- `PoolInvariant`, `NoGap`, `ReportsAccounted`: `PendingNonceAt` is the least
  nonce from the account's on that no pending transaction has; it exists because
  the pool is finite (`LeastNatural`), and everything below it is taken
  (`PendingNonceIsFree`). `Reached` is kept by every step, since a transaction
  leaves the pool by being mined in order or by being displaced by one of the
  same nonce. `DraftOK` says that what an invocation knew of when it asked does
  not have its nonce; so whatever displaces a transaction had asked before that
  was accepted.
- `BroadcastTypes`: `SentInv` follows a transaction from `EstimateGas` to the
  output; what is reported had been accepted. Its hypothesis `NoTxIsNone` says
  that `NoTx`, which stands for no transaction, is not a record of one.
- `ConsentIsGiven`, `SecretIsHidden`, `PipeServesOnePurpose`: `InputInv` adds to
  the three properties where in its course a command can be: a secret that waits
  to be read by another reader is on the screen already (`EarlySecretShown`), a
  person who does not slip leaves nothing behind for the next question
  (`NothingLeft`), a message takes all that a pipe will ever have, and the secret
  is the last thing that is read. None of the three is inductive without these.
- `StandardInputTypes`: every way of a broadcast to its key leads through the
  decision about v (`Decided`), also where the message is not read at all.
- `DocumentsReadBack`, `TermsStay`, `ValidIsTrue`, `CancelIsAimed`: documents on
  any journey between sign, wallet, extract, cancel and broadcast, for any
  options, accounts and foreign calldata. `StepForms` reduces the commands to six
  forms (a document printed, read and printed again, signed, recovered from
  calldata, copied or deleted, calldata published), and each property is kept by
  each form. `ReadBackInv` says that every document parses to one well-formed
  message, `SoundInv` adds that its signature is on record with its arguments and
  that its claim is true. `StructHashInjective` says that equal structure hashes
  come from equal terms, so a signature that verifies was made for these terms.
- `VerifiedIsSigned`, `VerdictsAreTrue`: the same where documents are edited by
  hand, so that nothing is known of them but their signatures (`KnownInv`).
- `DeadlinesAhead`: what `--ttl` makes of the clock, for any width of uint64.
- `ReadsTypeCorrect`, `ReportTruthful`, `VerdictIsExact`,
  `CancelRevertsExplained`: `ReadsInv` explains every answer so far by an
  implementation that was in force or by a failure (`CallsExplained`), and says
  that `check` skips nothing. The verdict follows from the lines of the report.
  For `cancel` it says that nothing is sent while views are read (`ReadsFirst`),
  so the domain does not change any more once it was estimated, and that whatever
  is about to be sent, or was, some contract in force had taken
  (`SentAfterEstimate`).
- `TypedIsSigned`, `ShownIsMeant`, `ShownIsReadBack`: amounts of any length, with
  any decimals; the first for those with a digit. First what digits stand for, by induction over their number:
  `NumberOf` of a concatenation (`NumberOfConcat`), of padded digits (`Padded`),
  of the digits of a number (`DigitsOfShape`), and that the zeros that are cut
  are the zeros that padding puts back (`Trimmed`). Then the parser:
  `PartsOfText` splits a text at its point, `ParsedExactly` says that what is
  accepted means what it says. Then the formatter: `FormattedReadsBack`, from
  which `FormattedExactly` follows by `ParsedExactly`. `AmountInv` says of every
  value in the commands where it came from; the three properties alone are not
  inductive, as a value does not tell which text was typed for it.

The theorems about documents have hypotheses that are not assumptions on a
constant, because they are about everything an edit or a signature may be:
`SignatureFormat` (a signature is not a nil pointer, and a recovery id is 0 or 1;
`crypto.Sign` returns nothing else); `OnlyCopies` (nobody changes what a
document says between two commands), which is what the first four mean by a
journey; `NothingForged` (whoever edits a document cannot make up an `(r, s)`),
for `VerifiedIsSigned`; `VerdictsNeedSignatures` (an edit that leaves a claim of
validity leaves the signature that it is about), for `VerdictsAreTrue`. The
edits of `documents_edited` are of this kind, and `documents` has none.

Assumptions: `AddressAssumption`, `WidthAssumption` (Authorizations),
`TokenAssumption`, `SubmittedAssumption`, `SignableAssumption`,
`AccountsAssumption` (EIP3009Token), `NodeAssumption` (Node), `PlansAssumption`,
`PlansCovered` (Broadcast), `DocumentsAssumption`, `OptionsAssumption`,
`ForeignAssumption` (Documents), `DeploymentAssumption` (DocumentProperties),
`AmountsAssumption`, `ContractReadsAssumption`, `StandardInputAssumption`. `SignableAssumption` says
that keys belong to accounts and sign terms that the CLI can represent, and that
a recovery bit is 0 or 1; `PlansCovered` that the submitted arguments and
signable terms include what the plans use; `AccountsAssumption` that there are
finitely many accounts, so that balances have a sum; `OptionsAssumption` that
options have the types of their flags; `ForeignAssumption` that other programs
publish calldata with the signature that was made for it;
`DeploymentAssumption` that the token's domain is one the CLI can print; and
`AmountsAssumption` that what is typed is a text and decimals fit a uint8. TLC
evaluates all of them in the runs.

Induction. The library states induction and recursion for an operator as a
parameter, which no installed prover can instantiate. `FoldLemmas` states them
for sets instead: a recursion's step is a function of a candidate solution and
an argument, its solution exists and is unique (`WFRecursion`, `ObeysUnique`),
and a proof by induction takes a minimal element of the set of counterexamples
(`WFMin`; `LeastNatural` and `NaturalInduction` over the naturals, whose least
elements come from finite intervals; `SequenceInduction` over the length of a
sequence). `SumFunction`, which the community modules define by a recursive
`CHOOSE`, is so shown to add one element at a time (`SumAdds`), whatever order
it chooses; `FoldLeft`, to go from digit to digit (`NumberOfReads`). The
recursive functions `TenTo` and `DigitsOf` are shown to obey their equations
(`TenToRecursive`, `DigitsOfRecursive`).

Only model-checked: the liveness properties (`PendingResolved`,
`CancelConsumes`, `CheckReports`, `CancelCompleted`, `Ends`,
`AnsweringSucceeds`), which are out of the prover's reach.

## Not modelled

- **OpenZeppelin's other functions** (`approve`, `transferFrom`, ownership): no
  authorization depends on them.
- **Node**: no reorganisations, eviction or base fee; gas is two numbers.
- **Text**: the spelling of JSON numbers, hex strings and flags, apart from the
  names of authorization kinds and from amounts.
- **Files**: `@file` arguments and keystores are read without error; a crash
  while `--output` is written, which loses a document and nothing else.
- **`IsMethodNotFoundError`**: nothing in the program calls it.
- **Process entry point** (`main.go`): hands its arguments to `cli.Run`.
- **Deployment, tests, CI and the end-to-end script**: read, not modelled.

## Plan

1. Broadcast: three invocations with two keys; `cancel` without a message; the
   chain id in the signed transaction.
2. Documents: calldata that outsiders compose; a crash while `--output` is
   written over the document that was read.
3. Token: `approve`, `transferFrom` and the ownership functions, which move the
   balances that payers need.
