------------------------------ MODULE StandardInput ------------------------------
(***************************************************************************)
(* One invocation of the command line and its standard input               *)
(* (internal/cli/cli.go).  The message, the answer to the question about v *)
(* and the key may all be read from it, one after the other, each through  *)
(* a reader of its own.  It is a terminal with a person, or a pipe that    *)
(* another program fills and closes.                                       *)
(*                                                                         *)
(* Input is a sequence of lines; a document counts as one line.  On a      *)
(* terminal "^D" ends the read that meets it, and only that one.           *)
(***************************************************************************)
EXTENDS Naturals, Sequences, FiniteSets, SequencesExt

CONSTANTS
  CommandLines,  \* the options that decide what is read
  Scripts,       \* the lines another program may write to the pipe
  MaxSlips       \* bound on the lines a person types that nobody asked for

VARIABLES
  command,   \* the command line
  terminal,  \* whether standard input is a terminal
  stdin,     \* lines that are written or typed and not read yet
  script,    \* lines the other program still writes, pipes only
  closed,    \* the pipe is closed
  slips,     \* lines that nobody asked for
  typed,     \* what a person typed, and at which stage
  stage,     \* what the command does next
  sentV,     \* what becomes of an imported v
  used,      \* what was read from standard input, by its purpose
  exposed,   \* secrets that appeared on the screen
  exit       \* "running", "error", or "ok" once everything is read

vars ==
  <<command, terminal, stdin, script, closed, slips, typed, stage, sentV, used, exposed, exit>>

Unsigned  == "unsigned document"
Signed    == "document with v 27 or 28"
Imported  == "document with v 0 or 1"
Documents == {Unsigned, Signed, Imported}
Calldata  == "calldata"
Key       == "private key"
Password  == "password"
Secrets   == {Key, Password}
EndOfFile == "^D"
Lines     == Documents \cup Secrets \cup {Calldata, EndOfFile, "", "y", "n"}
Purposes  == {"message", "answer", "key", "password"}

ASSUME StandardInputAssumption ==
  /\ MaxSlips \in Nat
  /\ \A lines \in Scripts : lines \in Seq(Lines)

Init ==
  /\ command \in CommandLines /\ terminal \in BOOLEAN
  /\ stdin = <<>> /\ closed = FALSE /\ slips = 0 /\ typed = {}
  /\ script \in IF terminal THEN {<<>>} ELSE Scripts
  /\ stage = "message" /\ sentV = "as signed"
  /\ used = [purpose \in Purposes |-> {}]
  /\ exposed = {}
  /\ exit = "running"

-----------------------------------------------------------------------------
(***************************************************************************)
(* The readers: what they read and the lines they leave, none while the    *)
(* read blocks.                                                            *)
(***************************************************************************)

From(first) == SubSeq(stdin, first, Len(stdin))

\* Mutant: only a line is read, and what a buffer took with it is lost.
FirstLine ==
  {[lines |-> SubSeq(stdin, 1, 1), rest |-> From(left)] :
     left \in IF stdin = <<>> THEN {} ELSE 2 .. Len(stdin) + 1}

IsFirstEndOfFile(i) == stdin[i] = EndOfFile /\ \A j \in 1 .. i - 1 : stdin[j] # EndOfFile

\* io.ReadAll: up to the end of file.
ReadAll ==
  IF terminal THEN {[lines |-> SubSeq(stdin, 1, i - 1), rest |-> From(i + 1)] :
                      i \in {i \in 1 .. Len(stdin) : IsFirstEndOfFile(i)}}
  ELSE IF closed THEN {[lines |-> stdin, rest |-> <<>>]}
  ELSE {}

Line(i) == IF stdin[i] = EndOfFile THEN "" ELSE stdin[i]

\* ReadString of a new bufio.Reader: on a pipe its buffer swallows as much of
\* what follows as is there.
ReadLine ==
  IF stdin # <<>> THEN {[line |-> Line(1), rest |-> From(left)] :
                          left \in IF terminal THEN {2} ELSE 2 .. Len(stdin) + 1}
  ELSE IF closed THEN {[line |-> "", rest |-> <<>>]}
  ELSE {}

\* term.ReadPassword: one line with the echo off.
ReadPasswordLine == IF stdin = <<>> THEN {} ELSE {[line |-> stdin[1], rest |-> From(2)]}

Use(purpose, lines) == used' = [used EXCEPT ![purpose] = @ \cup lines]

Exit(code) == stage' = "end" /\ exit' = code

GoTo(next) == stage' = next /\ exit' = exit

-----------------------------------------------------------------------------
(* The commands *)

MessageArg == IF command.Calldata # "" THEN command.Calldata ELSE command.Message

\* The surrounding white space is trimmed.
Says(lines, content) ==
  \E i \in DOMAIN lines : lines[i] = content /\ \A j \in DOMAIN lines \ {i} : lines[j] = ""

\* json.Unmarshal refuses more than one document.
Parses(lines) ==
  IF command.Calldata # "" THEN Says(lines, Calldata)
  ELSE \E doc \in Documents : Says(lines, doc)

AfterMessage(lines) ==
  IF ~Parses(lines) THEN Exit("error") /\ sentV' = sentV
  ELSE /\ CASE command.Name = "extract"   -> Exit("ok")
            [] command.Name = "broadcast" -> GoTo("version")
            [] OTHER -> GoTo("key")
       /\ sentV' = IF Says(lines, Imported) THEN "undecided" ELSE sentV

\* What the command line alone decides; validate of signatureVOptions and the
\* one of two arguments that extract insists on.
ArgumentsRefused ==
  \/ command.Name = "extract" /\ (command.Message = "") = (command.Calldata = "")
  \/ /\ command.Name = "broadcast"
     /\ \/ command.Message = ""
        \/ command.KeepV /\ (command.NormalizeV \/ command.Yes)

\* readInputArg and the parsers.
ReadMessage ==
  /\ stage = "message"
  /\ \/ ArgumentsRefused /\ Exit("error") /\ UNCHANGED <<sentV, stdin, used>>
     \/ /\ ~ArgumentsRefused /\ MessageArg = ""
        /\ GoTo("key")
        /\ UNCHANGED <<sentV, stdin, used>>
     \/ /\ ~ArgumentsRefused /\ MessageArg \notin {"", "-"}
        /\ AfterMessage(<<MessageArg>>)
        /\ UNCHANGED <<stdin, used>>
     \/ /\ ~ArgumentsRefused /\ MessageArg = "-"
        /\ \E read \in ReadAll :
             /\ AfterMessage(read.lines)
             /\ stdin' = read.rest
             /\ Use("message", ToSet(read.lines))
  /\ UNCHANGED <<script, closed, slips, typed, exposed>>

\* Mutant: a pipe may be asked, too.
AlwaysPrompts == TRUE

CanPrompt == terminal

\* Mutant: the key is loaded whatever v is.
LeaveVersion ==
  /\ stage = "version" /\ GoTo("key")
  /\ UNCHANGED <<sentV, stdin, script, closed, slips, typed, used, exposed>>

\* resolveSignatureVForBroadcast up to the question.
ResolveVersion ==
  /\ stage = "version"
  /\ \/ sentV # "undecided" /\ GoTo("key") /\ sentV' = sentV
     \/ sentV = "undecided" /\ command.KeepV /\ GoTo("key") /\ sentV' = "kept"
     \/ /\ sentV = "undecided" /\ ~command.KeepV /\ (command.NormalizeV \/ command.Yes)
        /\ GoTo("key") /\ sentV' = "normalized"
     \/ /\ sentV = "undecided" /\ ~command.KeepV /\ ~(command.NormalizeV \/ command.Yes)
        /\ IF CanPrompt THEN GoTo("answer") ELSE Exit("error")
        /\ sentV' = sentV
  /\ UNCHANGED <<stdin, script, closed, slips, typed, used, exposed>>

\* promptNormalizeSignatureV: an answer it does not know is printed.
ReadAnswer ==
  /\ stage = "answer"
  /\ \E read \in ReadLine :
       /\ \/ read.line \in {"", "y"} /\ GoTo("key") /\ sentV' = "normalized" /\ exposed' = exposed
          \/ read.line = "n" /\ GoTo("key") /\ sentV' = "kept" /\ exposed' = exposed
          \/ /\ read.line \notin {"", "y", "n"}
             /\ Exit("error") /\ sentV' = sentV
             /\ exposed' = exposed \cup (Secrets \cap {read.line})
       /\ stdin' = read.rest
       /\ Use("answer", {read.line})
  /\ UNCHANGED <<script, closed, slips, typed>>

KeySources == {source \in {"PrivateKey", "StdinKey", "Keystore"} : command[source]}

Secret        == IF command.Keystore THEN Password ELSE Key
SecretPurpose == IF command.Keystore THEN "password" ELSE "key"

\* Where loadPrivateKey and readPassword take the secret from.
SecretFrom ==
  CASE command.Name = "sign" /\ command.DryRun -> "nowhere"
    [] Cardinality(KeySources) > 1            -> "refused"
    [] KeySources = {"PrivateKey"}            -> "arguments"
    [] KeySources = {"StdinKey"}              -> "all of stdin"
    [] KeySources = {}                        -> "prompt"
    [] OTHER -> IF command.PasswordArg THEN "arguments"
                ELSE IF command.StdinPassword THEN "all of stdin" ELSE "prompt"

LoadPrivateKey ==
  /\ stage = "key"
  /\ \/ SecretFrom \in {"nowhere", "arguments"} /\ Exit("ok") /\ UNCHANGED <<stdin, used>>
     \/ SecretFrom = "refused" /\ Exit("error") /\ UNCHANGED <<stdin, used>>
     \/ /\ SecretFrom = "prompt" /\ GoTo(IF terminal THEN "prompt" ELSE "secret")
        /\ UNCHANGED <<stdin, used>>
     \/ /\ SecretFrom = "all of stdin"
        /\ \E read \in ReadAll :
             /\ Exit(IF Says(read.lines, Secret) THEN "ok" ELSE "error")
             /\ stdin' = read.rest
             /\ Use(SecretPurpose, ToSet(read.lines))
  /\ UNCHANGED <<script, closed, slips, typed, sentV, exposed>>

\* term.ReadPassword, after the prompt was written.
TurnEchoOff ==
  /\ stage = "prompt" /\ GoTo("secret")
  /\ UNCHANGED <<stdin, script, closed, slips, typed, sentV, used, exposed>>

\* Mutant: an empty secret is asked for again.
AskAgain(line) == IF line = "" THEN GoTo("secret") ELSE Exit(IF line = Secret THEN "ok" ELSE "error")

\* An empty line is refused, or is no key and not the password.
TakeSecret(line) == Exit(IF line = Secret THEN "ok" ELSE "error")

\* The rest of readSecret.
ReadSecret ==
  /\ stage = "secret"
  /\ \E read \in IF terminal THEN ReadPasswordLine ELSE ReadLine :
       /\ TakeSecret(read.line)
       /\ stdin' = read.rest
       /\ Use(SecretPurpose, {read.line})
  /\ UNCHANGED <<script, closed, slips, typed, sentV, exposed>>

Step ==
  /\ ReadMessage \/ ResolveVersion \/ ReadAnswer \/ LoadPrivateKey \/ TurnEchoOff \/ ReadSecret
  /\ UNCHANGED <<command, terminal>>

-----------------------------------------------------------------------------
(***************************************************************************)
(* The person at the terminal, or the program at the other end of the pipe. *)
(***************************************************************************)

\* Mutant: the terminal is left as it is while the secret is typed.
EchoStays == FALSE

EchoOff == stage = "secret"

ReadingAll ==
  \/ stage = "message" /\ MessageArg = "-" /\ ~ArgumentsRefused
  \/ stage = "key" /\ SecretFrom = "all of stdin"

\* What a person types next who does as the command asks.
Asked ==
  CASE ReadingAll /\ stdin # <<>> -> {EndOfFile} \ ToSet(stdin)
    [] ReadingAll /\ stdin = <<>> /\ stage = "message" ->
         IF command.Calldata # "" THEN {Calldata} ELSE Documents
    [] ReadingAll /\ stdin = <<>> /\ stage = "key" -> {Secret}
    [] stage = "answer" /\ stdin = <<>> -> {"", "y", "n"}
    [] stage \in {"prompt", "secret"} /\ stdin = <<>> -> {Secret}
    [] OTHER -> {}

Type(line) ==
  /\ terminal /\ exit = "running"
  /\ stdin' = Append(stdin, line)
  /\ typed' = typed \cup {[stage |-> stage, line |-> line]}
  /\ exposed' = exposed \cup (IF EchoOff THEN {} ELSE Secrets \cap {line})
  /\ UNCHANGED <<command, terminal, script, closed, stage, sentV, used, exit>>

Answer == \E line \in Asked : Type(line) /\ slips' = slips

\* A line that nobody asked for, too early or by mistake.
Slip ==
  /\ slips < MaxSlips /\ slips' = slips + 1
  /\ \E line \in {"", "y", "n", EndOfFile, Secret} : Type(line)

Write ==
  /\ script # <<>> /\ exit = "running"
  /\ stdin' = Append(stdin, Head(script)) /\ script' = Tail(script)
  /\ UNCHANGED <<command, terminal, closed, slips, typed, stage, sentV, used, exposed, exit>>

Close ==
  /\ ~terminal /\ ~closed /\ script = <<>>
  /\ closed' = TRUE
  /\ UNCHANGED <<command, terminal, stdin, script, slips, typed, stage, sentV, used, exposed, exit>>

Next == Step \/ Answer \/ Slip \/ Write \/ Close

\* The program runs, a person answers in the end, a pipe is filled and closed.
Fairness == WF_vars(Step) /\ WF_vars(Answer) /\ WF_vars(Write \/ Close)

Spec == Init /\ [][Next]_vars /\ Fairness
===============================================================================
