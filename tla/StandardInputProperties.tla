------------------------ MODULE StandardInputProperties -------------------------
(***************************************************************************)
(* What is expected of the readers that share one standard input.          *)
(***************************************************************************)
EXTENDS StandardInput

\* The type invariant; with it, no key is loaded for a broadcast whose v is
\* still to be decided.
StandardInputTypeOK ==
  /\ stdin \in Seq(Lines) /\ script \in Seq(Lines)
  /\ slips \in 0 .. MaxSlips
  /\ stage \in {"message", "version", "answer", "key", "prompt", "secret", "end"}
  /\ exit \in {"running", "ok", "error"}
  /\ (stage = "end") = (exit # "running")
  /\ command.Name = "broadcast" /\ (stage \in {"key", "prompt", "secret"} \/ exit = "ok")
       => sentV # "undecided"

\* resolveSignatureVForBroadcast, canPrompt: v changes, or is kept, because of
\* a flag or because a person answered at a terminal, after the question or,
\* which nothing prevents, too early.  Nothing that comes through a pipe, no end
\* of file and no line of another reader is taken for consent.
ConsentGiven ==
  sentV \in {"normalized", "kept"} =>
    \/ command.NormalizeV \/ command.Yes \/ command.KeepV
    \/ /\ terminal /\ used["answer"] # {}
       /\ slips > 0 \/ \E t \in typed : t.stage = "answer"

\* Each reader may take more than it uses, so no command that succeeds has
\* taken two things from one pipe: where two were meant to come through it,
\* the command fails instead of taking the one for the other.
OnePurposePerPipe ==
  exit = "ok" /\ ~terminal => Cardinality({p \in Purposes : used[p] # {}}) <= 1

\* A secret is on the screen only if a person typed it there with the echo on:
\* unasked, for a flag that reads all of standard input, or in the instant
\* between the prompt and term.ReadPassword (cli.go:855-856).  What was typed as
\* hidden input (README.md:95), or came through a pipe, is never shown, not even
\* in a message about a wrong answer.
SecretHidden ==
  \A secret \in exposed :
    \E t \in typed :
      /\ t.line = secret /\ t.stage # "secret"
      /\ slips > 0 \/ t.stage = "prompt" \/ SecretFrom = "all of stdin"

\* Every invocation ends, whatever is typed or piped, if the person answers
\* and the pipe is closed.
Ends == <>(exit # "running")

WellFormed ==
  /\ ~ArgumentsRefused
  /\ SecretFrom # "refused"
  /\ MessageArg # "" /\ MessageArg # "-" => Parses(<<MessageArg>>)

\* A person who is only asked, and answers, gets through all questions of a
\* well-formed command line, whatever has to be read before: no reader leaves
\* a line or an end of file behind that the next one trips over.
AnsweringSucceeds == terminal /\ WellFormed => <>(exit = "ok" \/ slips > 0)
===============================================================================
