--------------------------- MODULE StandardInputProofs ---------------------------
(***************************************************************************)
(* Whatever the command line, whatever the pipe carries and however often  *)
(* a person slips: a pipe gives no consent and serves one purpose, and no  *)
(* secret is shown but one that was typed with the echo on.                *)
(***************************************************************************)
EXTENDS StandardInputProperties, FiniteSetTheorems, SequenceTheorems, TLAPS

Shape ==
  /\ stdin \in Seq(Lines) /\ script \in Seq(Lines)
  /\ used = [purpose \in Purposes |-> used[purpose]]
  /\ (stage = "end") = (exit # "running")
  /\ stage = "answer" => terminal
  /\ terminal => ~closed
  /\ slips \in Nat

\* As long as something else is read, the echo is on: a secret that was typed
\* too early is on the screen.
EarlySecretShown ==
  terminal /\ stage \in {"message", "version", "answer"} =>
    \A i \in 1 .. Len(stdin) : stdin[i] \in Secrets => stdin[i] \in exposed

\* A person who types nothing unasked finds every question as the one before
\* left it: the message ends with its end of file, and nothing is behind it.
NothingLeft ==
  terminal /\ slips = 0 =>
    /\ stage = "message" =>
         /\ \A i \in 1 .. Len(stdin) : stdin[i] = EndOfFile => i = Len(stdin)
         /\ ~ReadingAll => stdin = <<>>
    /\ stage = "version" => stdin = <<>>
    /\ stage = "answer" /\ stdin # <<>> => \E t \in typed : t.stage = "answer"

\* A message takes all there is and ever will be in a pipe.
MessageTakesAll ==
  /\ closed \/ terminal => script = <<>>
  /\ ~terminal /\ used["message"] # {} => closed /\ stdin = <<>>

\* The secret is read last and once.
SecretLast ==
  /\ used["key"] # {} => ~command.Keystore
  /\ used["password"] # {} => command.Keystore
  /\ stage # "end" => used["key"] = {} /\ used["password"] = {}

PipeRoles ==
  ~terminal =>
    /\ used["answer"] = {}
    /\ exit = "ok" /\ used["message"] # {} => used["key"] = {} /\ used["password"] = {}

InputInv ==
  /\ Shape /\ EarlySecretShown /\ NothingLeft
  /\ MessageTakesAll /\ SecretLast /\ PipeRoles
  /\ ConsentGiven /\ SecretHidden

(* Initially nothing is written, typed or read.                              *)
LEMMA InputInit == Init => InputInv
<1> SUFFICES ASSUME Init PROVE InputInv
  OBVIOUS
<1> USE DEF Init
<1>1. Shape
  <2>1. stdin \in Seq(Lines) /\ script \in Seq(Lines)
    <3>1. <<>> \in Seq(Lines)
      BY EmptySeq
    <3>2. CASE terminal
      BY <3>1, <3>2
    <3>3. CASE ~terminal
      BY <3>1, <3>3, StandardInputAssumption
    <3> QED BY <3>2, <3>3
  <2>2. terminal => ~closed
    OBVIOUS
  <2> QED BY <2>1, <2>2 DEF Shape
<1>2. \A purpose \in Purposes : used[purpose] = {}
  OBVIOUS
<1>3. MessageTakesAll /\ SecretLast /\ PipeRoles
  BY <1>2 DEF MessageTakesAll, SecretLast, PipeRoles, Purposes
<1>4. EarlySecretShown /\ NothingLeft
  <2>1. Len(stdin) = 0
    BY EmptySeq
  <2>2. ~\E i \in 1 .. Len(stdin) : TRUE
    BY ONLY <2>1
  <2> QED BY <2>2 DEF EarlySecretShown, NothingLeft
<1>5. ConsentGiven /\ SecretHidden
  BY DEF ConsentGiven, SecretHidden
<1> QED BY <1>1, <1>3, <1>4, <1>5 DEF InputInv

(* What a reader leaves is the end of what was there.                        *)
LEMMA FromIsPart ==
  ASSUME stdin \in Seq(Lines), NEW first \in 1 .. Len(stdin) + 1
  PROVE  /\ From(first) \in Seq(Lines)
         /\ \A i \in 1 .. Len(From(first)) : \E j \in 1 .. Len(stdin) : From(first)[i] = stdin[j]
<1>1. From(first) \in Seq(Lines)
  BY DEF From
<1>2. Len(From(first)) = Len(stdin) - first + 1
  BY DEF From
<1>3. \A i \in 1 .. Len(From(first)) : From(first)[i] = stdin[first + i - 1] /\ first + i - 1 \in 1 .. Len(stdin)
  BY <1>2 DEF From
<1> QED BY <1>1, <1>3

(* So it is for ReadAll; a pipe is left empty.                               *)
LEMMA ReadAllLeaves ==
  ASSUME stdin \in Seq(Lines), NEW r \in ReadAll
  PROVE  /\ r.rest \in Seq(Lines)
         /\ \A i \in 1 .. Len(r.rest) : \E j \in 1 .. Len(stdin) : r.rest[i] = stdin[j]
         /\ ~terminal => closed /\ r.lines = stdin /\ r.rest = <<>>
<1>1. CASE terminal
  <2>1. PICK e \in 1 .. Len(stdin) : r.rest = From(e + 1)
    BY <1>1 DEF ReadAll
  <2> QED BY <1>1, <2>1, FromIsPart
<1>2. CASE ~terminal
  <2>1. closed /\ r = [lines |-> stdin, rest |-> <<>>]
    BY <1>2 DEF ReadAll
  <2> QED BY <2>1, <1>2
<1> QED BY <1>1, <1>2

(* At a terminal ReadAll leaves what is behind the first end of file.        *)
LEMMA ReadAllTakesAll ==
  ASSUME stdin \in Seq(Lines), terminal, NEW r \in ReadAll,
         \A i \in 1 .. Len(stdin) : stdin[i] = EndOfFile => i = Len(stdin)
  PROVE  r.rest = <<>>
<1>1. PICK e \in 1 .. Len(stdin) : IsFirstEndOfFile(e) /\ r.rest = From(e + 1)
  BY DEF ReadAll
<1>2. e = Len(stdin) /\ Len(stdin) \in Nat
  BY <1>1, LenProperties DEF IsFirstEndOfFile
<1>3. From(Len(stdin) + 1) \in Seq(Lines) /\ Len(From(Len(stdin) + 1)) = 0
  BY <1>2 DEF From
<1>4. From(Len(stdin) + 1) = <<>>
  BY <1>3, EmptySeq
<1> QED BY <1>1, <1>2, <1>4

(* Nothing is no secret, and no document.                                    *)
LEMMA NothingSaysNothing ==
  ASSUME NEW content PROVE ~Says(<<>>, content)
BY DEF Says

(* And for ReadLine, whose line was there, or is empty.                      *)
LEMMA ReadLineLeaves ==
  ASSUME stdin \in Seq(Lines), NEW r \in ReadLine
  PROVE  /\ r.rest \in Seq(Lines)
         /\ r.line = "" \/ \E i \in 1 .. Len(stdin) : r.line = stdin[i]
         /\ \A i \in 1 .. Len(r.rest) : \E j \in 1 .. Len(stdin) : r.rest[i] = stdin[j]
         /\ stdin = <<>> => r.line = "" /\ r.rest = <<>>
<1>1. CASE stdin = <<>>
  <2>1. r = [line |-> "", rest |-> <<>>]
    BY <1>1 DEF ReadLine
  <2>2. r.line = "" /\ r.rest = <<>>
    BY <2>1
  <2>3. r.rest \in Seq(Lines) /\ Len(r.rest) = 0
    BY <2>2, EmptySeq
  <2>4. ~\E i \in 1 .. Len(r.rest) : TRUE
    BY <2>3
  <2> QED BY <2>2, <2>3, <2>4
<1>2. CASE stdin # <<>>
  <2>1. PICK left \in 2 .. Len(stdin) + 1 : r = [line |-> Line(1), rest |-> From(left)]
    <3>1. 2 \in 2 .. Len(stdin) + 1
      BY <1>2
    <3> QED BY <1>2, <3>1 DEF ReadLine
  <2>2. 1 \in 1 .. Len(stdin)
    BY <1>2
  <2>3. r.line = Line(1) /\ r.rest = From(left)
    BY <2>1
  <2>4. r.line = "" \/ r.line = stdin[1]
    BY <2>3 DEF Line
  <2>5. /\ r.rest \in Seq(Lines)
        /\ \A i \in 1 .. Len(r.rest) : \E j \in 1 .. Len(stdin) : r.rest[i] = stdin[j]
    BY <2>1, <2>3, FromIsPart
  <2> QED BY <1>2, <2>2, <2>4, <2>5
<1> QED BY <1>1, <1>2

(* What AfterMessage may do.                                                 *)
LEMMA AfterMessageSteps ==
  ASSUME NEW lines, AfterMessage(lines), exit = "running"
  PROVE  /\ stage' \in {"end", "version", "key"}
         /\ (stage' = "end") = (exit' # "running")
         /\ sentV' \in {"undecided", sentV}
<1>1. stage' \in {"end", "version", "key"} /\ (stage' = "end") = (exit' # "running")
  <2>1. CASE ~Parses(lines)
    BY <2>1 DEF AfterMessage, Exit
  <2>2. CASE Parses(lines) /\ command.Name = "extract"
    BY <2>2 DEF AfterMessage, Exit
  <2>3. CASE Parses(lines) /\ command.Name = "broadcast"
    BY <2>3 DEF AfterMessage, GoTo
  <2>4. CASE Parses(lines) /\ command.Name \notin {"extract", "broadcast"}
    BY <2>4 DEF AfterMessage, GoTo
  <2> QED BY <2>1, <2>2, <2>3, <2>4
<1>2. sentV' \in {"undecided", sentV}
  BY DEF AfterMessage
<1> QED BY <1>1, <1>2

(* Reading the message.                                                      *)
LEMMA InputReadMessage ==
  ASSUME InputInv, ReadMessage, UNCHANGED <<command, terminal>>
  PROVE  InputInv'
<1> USE DEF InputInv
<1>0. stage = "message" /\ exit = "running" /\ UNCHANGED <<script, closed, slips, typed, exposed>>
  BY DEF ReadMessage, Shape
<1>1. ASSUME UNCHANGED <<stdin, used>>, stage' \in {"end", "version", "key"},
             (stage' = "end") = (exit' # "running"), sentV' \in {"undecided", sentV},
             stage' = "version" => ~ReadingAll
      PROVE  InputInv'
  <2>1. Shape'
    BY <1>0, <1>1 DEF Shape
  <2>2. EarlySecretShown' /\ MessageTakesAll' /\ SecretLast' /\ PipeRoles'
    BY <1>0, <1>1 DEF EarlySecretShown, MessageTakesAll, SecretLast, PipeRoles
  <2>4. NothingLeft'
    BY <1>0, <1>1 DEF NothingLeft
  <2>3. ConsentGiven' /\ SecretHidden'
    BY <1>0, <1>1 DEF ConsentGiven, SecretHidden, SecretFrom, KeySources
  <2> QED BY <2>1, <2>2, <2>3, <2>4
<1>2. CASE UNCHANGED <<stdin, used>> /\ UNCHANGED sentV /\ (Exit("error") \/ GoTo("key"))
  BY <1>0, <1>1, <1>2 DEF Exit, GoTo
<1>3. CASE UNCHANGED <<stdin, used>> /\ MessageArg # "-" /\ AfterMessage(<<MessageArg>>)
  <2>1. ~ReadingAll
    BY <1>0, <1>3 DEF ReadingAll
  <2> QED BY <1>0, <1>1, <1>3, <2>1, AfterMessageSteps
<1>4. ASSUME NEW r \in ReadAll, AfterMessage(r.lines), stdin' = r.rest, Use("message", ToSet(r.lines))
      PROVE  InputInv'
  <2>1. /\ stage' \in {"end", "version", "key"} /\ (stage' = "end") = (exit' # "running")
        /\ sentV' \in {"undecided", sentV}
    BY <1>0, <1>4, AfterMessageSteps
  <2>2. used' = [purpose \in Purposes |-> IF purpose = "message" THEN used["message"] \cup ToSet(r.lines)
                                          ELSE used[purpose]]
    BY <1>4 DEF Use, Shape, Purposes
  <2>3. /\ stdin' \in Seq(Lines)
        /\ \A i \in 1 .. Len(stdin') : \E j \in 1 .. Len(stdin) : stdin'[i] = stdin[j]
        /\ ~terminal => closed /\ stdin' = <<>>
    BY <1>4, ReadAllLeaves DEF Shape
  <2>4. Shape'
    BY <1>0, <2>1, <2>2, <2>3 DEF Shape
  <2>5. EarlySecretShown'
    BY <1>0, <2>3 DEF EarlySecretShown
  <2>9. NothingLeft'
    <3>1. terminal /\ slips = 0 => stdin' = <<>>
      BY <1>0, <1>4, ReadAllTakesAll DEF NothingLeft, Shape
    <3> QED BY <1>0, <2>1, <3>1 DEF NothingLeft
  <2>6. MessageTakesAll'
    BY <1>0, <2>3 DEF MessageTakesAll
  <2>7. SecretLast' /\ PipeRoles'
    BY <1>0, <2>1, <2>2 DEF SecretLast, PipeRoles, Purposes
  <2>8. ConsentGiven' /\ SecretHidden'
    BY <1>0, <2>1, <2>2 DEF ConsentGiven, SecretHidden, SecretFrom, KeySources, Purposes
  <2> QED BY <2>4, <2>5, <2>6, <2>7, <2>8, <2>9
<1> QED BY <1>2, <1>3, <1>4 DEF ReadMessage

(* The question about v is decided by a flag, or put to a terminal.          *)
LEMMA InputResolveVersion ==
  ASSUME InputInv, ResolveVersion, UNCHANGED <<command, terminal>>
  PROVE  InputInv'
<1> USE DEF InputInv
<1>0. /\ stage = "version" /\ stage' \in {"end", "key", "answer"} /\ (stage' = "end") = (exit' # "running")
      /\ exit' \in {exit, "error"}
      /\ stage' = "answer" => terminal
      /\ UNCHANGED <<stdin, script, closed, slips, typed, used, exposed, command, terminal>>
  BY DEF ResolveVersion, Exit, GoTo, CanPrompt, Shape
<1>1. Shape'
  BY <1>0 DEF Shape
<1>2. EarlySecretShown' /\ NothingLeft'
  BY <1>0 DEF EarlySecretShown, NothingLeft
<1>5. MessageTakesAll'
  BY <1>0 DEF MessageTakesAll
<1>6. SecretLast' /\ PipeRoles'
  BY <1>0 DEF SecretLast, PipeRoles
<1>3. ConsentGiven'
  BY <1>0 DEF ConsentGiven, ResolveVersion
<1>4. SecretHidden'
  BY <1>0 DEF SecretHidden, SecretFrom, KeySources
<1> QED BY <1>1, <1>2, <1>3, <1>4, <1>5, <1>6

(* The answer is a person's; a secret among the lines is on the screen.      *)
LEMMA InputReadAnswer ==
  ASSUME InputInv, ReadAnswer, UNCHANGED <<command, terminal>>
  PROVE  InputInv'
<1> USE DEF InputInv
<1>0. PICK r \in ReadLine :
        /\ stage = "answer" /\ terminal /\ stdin' = r.rest /\ Use("answer", {r.line})
        /\ stage' \in {"end", "key"} /\ (stage' = "end") = (exit' # "running")
        /\ exposed' \in {exposed, exposed \cup (Secrets \cap {r.line})}
        /\ UNCHANGED <<script, closed, slips, typed, command, terminal>>
  BY DEF ReadAnswer, Exit, GoTo, Shape
<1>1. stdin' \in Seq(Lines) /\ (r.line \in Secrets => r.line \in exposed)
  BY <1>0, ReadLineLeaves DEF Shape, EarlySecretShown, Secrets, Key, Password
<1>2. used' = [purpose \in Purposes |-> IF purpose = "answer" THEN used["answer"] \cup {r.line}
                                        ELSE used[purpose]]
  BY <1>0 DEF Use, Shape, Purposes
<1>3. Shape' /\ EarlySecretShown' /\ NothingLeft' /\ PipeRoles'
  BY <1>0, <1>1, <1>2 DEF Shape, EarlySecretShown, NothingLeft, PipeRoles
<1>4. MessageTakesAll' /\ SecretLast'
  BY <1>0, <1>2 DEF MessageTakesAll, SecretLast, Purposes
<1>5. ConsentGiven'
  <2>1. stdin # <<>>
    BY <1>0 DEF ReadLine, Shape
  <2>2. slips > 0 \/ \E t \in typed : t.stage = "answer"
    BY <1>0, <2>1 DEF NothingLeft, Shape
  <2>3. used'["answer"] # {}
    BY <1>2 DEF Purposes
  <2> QED BY <1>0, <2>2, <2>3 DEF ConsentGiven
<1>6. SecretHidden'
  <2>1. exposed' = exposed
    BY <1>0, <1>1
  <2> QED BY <1>0, <2>1 DEF SecretHidden, SecretFrom, KeySources
<1> QED BY <1>3, <1>4, <1>5, <1>6

(* A secret that was read, from wherever, is the last thing; from a pipe     *)
(* that gave the message nothing but an empty line is left to be read.       *)
LEMMA InputTakeSecret ==
  ASSUME InputInv, UNCHANGED <<command, terminal, script, closed, slips, typed, sentV, exposed>>,
         stage \in {"key", "secret"}, stage' = "end", exit' \in {"ok", "error"},
         NEW lines, Use(SecretPurpose, lines),
         stdin' \in Seq(Lines),
         ~terminal /\ closed /\ stdin = <<>> => exit' = "error" /\ stdin' = <<>>
  PROVE  InputInv'
<1> USE DEF InputInv
<1>1. used' = [purpose \in Purposes |-> IF purpose = SecretPurpose THEN used[purpose] \cup lines
                                         ELSE used[purpose]]
  BY DEF Use, Shape, SecretPurpose, Purposes
<1>2. Shape'
  BY <1>1 DEF Shape
<1>3. EarlySecretShown' /\ NothingLeft'
  BY DEF EarlySecretShown, NothingLeft
<1>4. /\ used'["message"] = used["message"] /\ used'["answer"] = used["answer"]
      /\ command.Keystore => used'["key"] = used["key"]
      /\ ~command.Keystore => used'["password"] = used["password"]
  BY <1>1 DEF Purposes, SecretPurpose
<1>5. MessageTakesAll'
  BY <1>4 DEF MessageTakesAll
<1>6. SecretLast'
  BY <1>4 DEF SecretLast
<1>7. PipeRoles'
  BY <1>4 DEF PipeRoles, MessageTakesAll
<1>8. ConsentGiven' /\ SecretHidden'
  BY <1>4 DEF ConsentGiven, SecretHidden, SecretFrom, KeySources
<1> QED BY <1>2, <1>3, <1>5, <1>6, <1>7, <1>8

(* On the way to the prompt, and behind it, nothing is read.                 *)
LEMMA InputGoesOn ==
  ASSUME InputInv, UNCHANGED <<command, terminal, stdin, script, closed, slips, typed, sentV, used, exposed>>,
         stage \in {"key", "prompt"}, stage' \in {"end", "prompt", "secret"},
         (stage' = "end") = (exit' # "running")
  PROVE  InputInv'
<1> USE DEF InputInv
<1>1. Shape' /\ EarlySecretShown' /\ NothingLeft'
  BY DEF Shape, EarlySecretShown, NothingLeft
<1>2. MessageTakesAll' /\ SecretLast' /\ PipeRoles'
  <2>1. stage # "end" /\ exit = "running"
    BY DEF Shape
  <2>2. SecretLast'
    BY <2>1 DEF SecretLast
  <2> QED BY <2>1, <2>2 DEF MessageTakesAll, SecretLast, PipeRoles
<1>3. ConsentGiven' /\ SecretHidden'
  BY DEF ConsentGiven, SecretHidden, SecretFrom, KeySources
<1> QED BY <1>1, <1>2, <1>3

(* Loading the key without a prompt.                                         *)
LEMMA InputLoadPrivateKey ==
  ASSUME InputInv, LoadPrivateKey, UNCHANGED <<command, terminal>>
  PROVE  InputInv'
<1> USE DEF InputInv
<1>0. stage = "key" /\ UNCHANGED <<script, closed, slips, typed, sentV, exposed>>
  BY DEF LoadPrivateKey
<1>1. CASE /\ UNCHANGED <<stdin, used>>
           /\ \/ Exit("ok") \/ Exit("error")
              \/ GoTo(IF terminal THEN "prompt" ELSE "secret")
  <2>0. stage' \in {"end", "prompt", "secret"} /\ (stage' = "end") = (exit' # "running")
    BY <1>0, <1>1 DEF Exit, GoTo, Shape
  <2> QED BY <1>0, <1>1, <2>0, InputGoesOn
<1>2. ASSUME NEW r \in ReadAll, Exit(IF Says(r.lines, Secret) THEN "ok" ELSE "error"),
             stdin' = r.rest, Use(SecretPurpose, ToSet(r.lines))
      PROVE  InputInv'
  <2>1. stage' = "end" /\ exit' \in {"ok", "error"} /\ (r.lines = <<>> => exit' = "error")
    BY <1>2, NothingSaysNothing DEF Exit
  <2>2. /\ stdin' \in Seq(Lines)
        /\ ~terminal => r.lines = stdin /\ stdin' = <<>>
    BY <1>2, ReadAllLeaves DEF Shape
  <2>3. ~terminal /\ stdin = <<>> => exit' = "error" /\ stdin' = <<>>
    BY <2>1, <2>2
  <2> QED BY <1>0, <1>2, <2>1, <2>2, <2>3, InputTakeSecret
<1> QED BY <1>1, <1>2 DEF LoadPrivateKey

(* The prompt, before the echo is off.                                       *)
LEMMA InputTurnEchoOff ==
  ASSUME InputInv, TurnEchoOff, UNCHANGED <<command, terminal>>
  PROVE  InputInv'
<1>1. /\ stage = "prompt" /\ stage' = "secret" /\ exit' = exit
      /\ UNCHANGED <<stdin, script, closed, slips, typed, sentV, used, exposed>>
  BY DEF TurnEchoOff, GoTo
<1>2. (stage' = "end") = (exit' # "running")
  BY <1>1 DEF InputInv, Shape
<1> QED BY <1>1, <1>2, InputGoesOn

(* The secret, after it.                                                     *)
LEMMA InputReadSecret ==
  ASSUME InputInv, ReadSecret, UNCHANGED <<command, terminal>>
  PROVE  InputInv'
<1> USE DEF InputInv
<1>0. PICK r \in IF terminal THEN ReadPasswordLine ELSE ReadLine :
        /\ stage = "secret" /\ TakeSecret(r.line) /\ stdin' = r.rest /\ Use(SecretPurpose, {r.line})
        /\ UNCHANGED <<script, closed, slips, typed, sentV, exposed>>
  BY DEF ReadSecret
<1>1. stage' = "end" /\ exit' \in {"ok", "error"} /\ (r.line = "" => exit' = "error")
  BY <1>0 DEF TakeSecret, Exit, Secret, Key, Password
<1>2. stdin' \in Seq(Lines) /\ (~terminal /\ stdin = <<>> => r.line = "" /\ stdin' = <<>>)
  <2>1. CASE terminal
    <3>1. stdin # <<>> /\ r = [line |-> stdin[1], rest |-> From(2)]
      BY <1>0, <2>1 DEF ReadPasswordLine
    <3>2. 2 \in 1 .. Len(stdin) + 1 /\ stdin \in Seq(Lines)
      BY <3>1 DEF Shape
    <3>3. stdin' = From(2)
      BY <1>0, <3>1
    <3> QED BY <2>1, <3>2, <3>3, FromIsPart
  <2>2. CASE ~terminal
    BY <1>0, <2>2, ReadLineLeaves DEF Shape
  <2> QED BY <2>1, <2>2
<1> QED BY <1>0, <1>1, <1>2, InputTakeSecret

LEMMA NextIndex ==
  ASSUME NEW n \in Nat, NEW i \in 1 .. n + 1
  PROVE  i \in 1 .. n \/ i = n + 1
OBVIOUS

(* What is typed comes last.                                                 *)
LEMMA TypedLast ==
  ASSUME NEW line \in Lines, NEW lines \in Seq(Lines)
  PROVE  /\ Append(lines, line) \in Seq(Lines)
         /\ Len(Append(lines, line)) = Len(lines) + 1
         /\ \A i \in 1 .. Len(lines) : Append(lines, line)[i] = lines[i]
         /\ Append(lines, line)[Len(lines) + 1] = line
         /\ Len(lines) \in Nat
<1>1. Len(lines) \in Nat
  BY LenProperties
<1>2. Append(lines, line) \in Seq(Lines) /\ Len(Append(lines, line)) = Len(lines) + 1
  BY AppendProperties
<1>3. \A i \in 1 .. Len(lines) : Append(lines, line)[i] = lines[i]
  BY AppendProperties
<1>4. Append(lines, line)[Len(lines) + 1] = line
  BY AppendProperties
<1> QED BY <1>1, <1>2, <1>3, <1>4

(* What is asked for: a secret only where the command wants one, and nothing  *)
(* behind the end of a message.                                              *)
LEMMA AskedShape ==
  ASSUME NEW line \in Asked, stdin \in Seq(Lines)
  PROVE  /\ line \in Lines
         /\ line \in Secrets => stage \in {"prompt", "secret"} \/ SecretFrom = "all of stdin"
         /\ stage # "version"
         /\ stage = "message" => ReadingAll /\ \A i \in 1 .. Len(stdin) : stdin[i] # EndOfFile
<1> USE DEF Lines, Secrets, Key, Password, Documents, Calldata, EndOfFile, Unsigned, Signed, Imported
<1>1. CASE ReadingAll /\ stdin # <<>>
  <2>1. line \in {EndOfFile} \ ToSet(stdin)
    BY <1>1 DEF Asked
  <2>2. \A i \in 1 .. Len(stdin) : stdin[i] # EndOfFile
    <3>1. DOMAIN stdin = 1 .. Len(stdin)
      BY LenProperties
    <3>2. \A i \in DOMAIN stdin : stdin[i] \in ToSet(stdin)
      BY DEF ToSet
    <3>3. EndOfFile \notin ToSet(stdin)
      BY ONLY <2>1
    <3> QED BY ONLY <3>1, <3>2, <3>3
  <2> QED BY <1>1, <2>1, <2>2 DEF ReadingAll
<1>2. CASE ReadingAll /\ stdin = <<>> /\ stage = "message"
  <2>1. ~\E i \in 1 .. Len(stdin) : TRUE
    BY <1>2, EmptySeq
  <2> QED BY <1>2, <2>1 DEF Asked
<1>3. CASE ReadingAll /\ stdin = <<>> /\ stage # "message"
  BY <1>3 DEF Asked, ReadingAll, Secret
<1>4. CASE ~ReadingAll /\ stage = "answer"
  BY <1>4 DEF Asked
<1>5. CASE ~ReadingAll /\ stage # "answer"
  BY <1>5 DEF Asked, Secret
<1> QED BY <1>1, <1>2, <1>3, <1>4, <1>5

(* What is typed, asked for or not.                                          *)
LEMMA InputType ==
  ASSUME InputInv, NEW line \in Lines, Type(line),
         (slips' = slips /\ line \in Asked) \/ slips' = slips + 1
  PROVE  InputInv'
<1> USE DEF InputInv
<1>0. /\ terminal /\ exit = "running" /\ stdin' = Append(stdin, line) /\ stdin \in Seq(Lines)
      /\ typed' = typed \cup {[stage |-> stage, line |-> line]}
      /\ exposed' = exposed \cup (IF EchoOff THEN {} ELSE Secrets \cap {line})
      /\ UNCHANGED <<command, terminal, script, closed, stage, sentV, used, exit>>
  BY DEF Type, Shape
<1>1. /\ stdin' \in Seq(Lines) /\ Len(stdin') = Len(stdin) + 1
      /\ \A i \in 1 .. Len(stdin) : stdin'[i] = stdin[i]
      /\ stdin'[Len(stdin) + 1] = line /\ Len(stdin) \in Nat
  BY <1>0, TypedLast, Zenon
<1>2. slips \in Nat /\ slips' \in Nat /\ (slips > 0 => slips' > 0)
  BY DEF Shape
<1>3. slips' = slips + 1 => slips' > 0
  BY <1>2
<1>4. (slips' = slips /\ line \in Asked) \/ slips' = slips + 1
  OBVIOUS
<1>5. Shape'
  BY <1>0, <1>1, <1>2 DEF Shape
<1>6. \E t \in typed' : t.stage = stage /\ t.line = line
  <2> DEFINE entry == [stage |-> stage, line |-> line]
  <2>1. entry.stage = stage /\ entry.line = line
    OBVIOUS
  <2>2. entry \in typed'
    BY <1>0
  <2> HIDE DEF entry
  <2> QED BY <2>1, <2>2
<1>7. ASSUME NEW i \in 1 .. Len(stdin')
      PROVE  (i \in 1 .. Len(stdin) /\ stdin'[i] = stdin[i]) \/ (i = Len(stdin') /\ stdin'[i] = line)
  <2>1. i \in 1 .. Len(stdin) \/ i = Len(stdin) + 1
    BY <1>1, NextIndex
  <2> QED BY <1>1, <2>1
<1>8. EarlySecretShown'
  <2> SUFFICES ASSUME stage \in {"message", "version", "answer"}, NEW i \in 1 .. Len(stdin'),
                      stdin'[i] \in Secrets
               PROVE  stdin'[i] \in exposed'
    BY <1>0 DEF EarlySecretShown
  <2>1. exposed' = exposed \cup (Secrets \cap {line})
    BY <1>0 DEF EchoOff
  <2> QED BY <1>0, <1>7, <2>1 DEF EarlySecretShown
<1>9. NothingLeft'
  <2> SUFFICES ASSUME slips' = 0 PROVE NothingLeft'
    BY DEF NothingLeft
  <2>1. slips = 0 /\ line \in Asked
    BY <1>2
  <2>2. stage # "version" /\ (stage = "message" => ReadingAll /\ \A i \in 1 .. Len(stdin) : stdin[i] # EndOfFile)
    BY <1>0, <2>1, AskedShape
  <2>3. stage = "message" => \A i \in 1 .. Len(stdin') : stdin'[i] = EndOfFile => i = Len(stdin')
    BY <1>7, <2>2
  <2>4. stage = "message" => ReadingAll'
    BY <1>0, <2>2 DEF ReadingAll, MessageArg, ArgumentsRefused
  <2>5. stage = "answer" => \E t \in typed' : t.stage = "answer"
    BY ONLY <1>6
  <2> QED BY <1>0, <2>2, <2>3, <2>4, <2>5 DEF NothingLeft
<1>10. MessageTakesAll' /\ SecretLast' /\ PipeRoles'
  BY <1>0 DEF MessageTakesAll, SecretLast, PipeRoles
<1>11. ConsentGiven'
  BY <1>0, <1>2 DEF ConsentGiven
<1>12. SecretFrom' = SecretFrom
  BY <1>0, Zenon DEF SecretFrom, KeySources
<1>13. SecretHidden'
  <2> SUFFICES ASSUME NEW secret \in exposed'
               PROVE  \E t \in typed' : /\ t.line = secret /\ t.stage # "secret"
                                        /\ slips' > 0 \/ t.stage = "prompt" \/ SecretFrom = "all of stdin"
    BY <1>12 DEF SecretHidden
  <2>1. CASE secret \in exposed
    BY <1>0, <1>2, <2>1 DEF SecretHidden
  <2>2. CASE secret \notin exposed
    <3>1. secret = line /\ line \in Secrets /\ stage # "secret"
      BY <1>0, <2>2 DEF EchoOff
    <3>2. slips' > 0 \/ stage = "prompt" \/ SecretFrom = "all of stdin"
      <4>1. CASE slips' = slips /\ line \in Asked
        BY <1>0, <3>1, <4>1, AskedShape
      <4>2. CASE slips' = slips + 1
        BY <1>3, <4>2, Zenon
      <4> QED BY ONLY <1>4, <4>1, <4>2
    <3> QED BY <1>6, <3>1, <3>2
  <2> QED BY <2>1, <2>2
<1> QED BY <1>5, <1>8, <1>9, <1>10, <1>11, <1>13

LEMMA InputPerson ==
  ASSUME InputInv, Answer \/ Slip
  PROVE  InputInv'
<1>1. CASE Answer
  <2>1. PICK line \in Asked : Type(line) /\ slips' = slips
    BY <1>1 DEF Answer
  <2>2. line \in Lines
    BY <2>1, AskedShape DEF InputInv, Shape
  <2> QED BY <2>1, <2>2, InputType
<1>2. CASE Slip
  <2>1. PICK line \in {"", "y", "n", EndOfFile, Secret} : Type(line)
    BY <1>2 DEF Slip
  <2>2. line \in Lines /\ slips' = slips + 1
    BY <1>2, <2>1 DEF Slip, Lines, Secret, Secrets, Key, Password, EndOfFile
  <2> QED BY <2>1, <2>2, InputType
<1> QED BY <1>1, <1>2

(* The other end of the pipe.                                                *)
LEMMA InputPipe ==
  ASSUME InputInv, Write \/ Close \/ UNCHANGED vars
  PROVE  InputInv'
<1> USE DEF InputInv
<1>1. CASE Write
  <2>0. /\ ~terminal /\ ~closed /\ script # <<>> /\ stdin' = Append(stdin, Head(script)) /\ script' = Tail(script)
        /\ UNCHANGED <<command, terminal, closed, slips, typed, stage, sentV, used, exposed, exit>>
    BY <1>1 DEF Write, MessageTakesAll
  <2>1. Shape'
    <3>1. Head(script) \in Lines /\ Tail(script) \in Seq(Lines)
      BY <2>0, HeadTailProperties DEF Shape
    <3>2. Append(stdin, Head(script)) \in Seq(Lines)
      BY <3>1, AppendProperties DEF Shape
    <3> QED BY <2>0, <3>1, <3>2 DEF Shape
  <2>2. EarlySecretShown' /\ NothingLeft' /\ MessageTakesAll' /\ SecretLast' /\ PipeRoles'
    BY <2>0 DEF EarlySecretShown, NothingLeft, MessageTakesAll, SecretLast, PipeRoles
  <2>3. ConsentGiven' /\ SecretHidden'
    BY <2>0 DEF ConsentGiven, SecretHidden, SecretFrom, KeySources
  <2> QED BY <2>1, <2>2, <2>3
<1>2. CASE Close \/ UNCHANGED vars
  <2>0. /\ UNCHANGED <<command, terminal, stdin, script, slips, typed, stage, sentV, used, exposed, exit>>
        /\ closed' = closed \/ (~terminal /\ closed' /\ script = <<>>)
    BY <1>2 DEF Close, vars
  <2>1. Shape' /\ EarlySecretShown'
    BY <2>0 DEF Shape, EarlySecretShown
  <2>2. MessageTakesAll' /\ SecretLast' /\ PipeRoles'
    BY <2>0 DEF MessageTakesAll, SecretLast, PipeRoles
  <2>3. NothingLeft'
    BY <2>0 DEF NothingLeft, ReadingAll, MessageArg, ArgumentsRefused
  <2>4. ConsentGiven' /\ SecretHidden'
    BY <2>0 DEF ConsentGiven, SecretHidden, SecretFrom, KeySources
  <2> QED BY <2>1, <2>2, <2>3, <2>4
<1> QED BY <1>1, <1>2

(* The invariant, for every command line, terminal and pipe.                 *)
THEOREM InputInvariant == Spec => []InputInv
<1>1. InputInv /\ [Next]_vars => InputInv'
  BY InputReadMessage, InputResolveVersion, InputReadAnswer, InputLoadPrivateKey, InputTurnEchoOff,
     InputReadSecret, InputPerson, InputPipe DEF Next, Step
<1> QED BY <1>1, InputInit, PTL DEF Spec

(* An imported v is changed or kept because of a flag or a person's answer,  *)
(* which was typed after the question unless the person slipped.             *)
THEOREM ConsentIsGiven == Spec => []ConsentGiven
BY InputInvariant, PTL DEF InputInv

(* A secret is on the screen only because a person typed it with the echo    *)
(* on; neither hidden input nor a pipe puts it there.                        *)
THEOREM SecretIsHidden == Spec => []SecretHidden
BY InputInvariant, PTL DEF InputInv

(* A command that succeeds has taken one thing at most from its pipe.        *)
THEOREM PipeServesOnePurpose == Spec => []OnePurposePerPipe
<1>1. InputInv => OnePurposePerPipe
  <2> SUFFICES ASSUME InputInv, exit = "ok", ~terminal
               PROVE  Cardinality({p \in Purposes : used[p] # {}}) <= 1
    BY DEF OnePurposePerPipe
  <2>1. PICK purpose \in Purposes : {p \in Purposes : used[p] # {}} \subseteq {purpose}
    BY DEF InputInv, PipeRoles, SecretLast, Purposes
  <2>2. IsFiniteSet({purpose}) /\ Cardinality({purpose}) = 1
    BY FS_Singleton
  <2> QED BY <2>1, <2>2, FS_Subset
<1> QED BY <1>1, InputInvariant, PTL

-----------------------------------------------------------------------------
(* The stages. *)

\* A key is loaded for a broadcast only when v is decided.
Decided ==
  command.Name = "broadcast" /\ (stage \in {"key", "prompt", "secret"} \/ exit = "ok") => sentV # "undecided"

StageInv ==
  /\ slips \in 0 .. MaxSlips
  /\ stage \in {"message", "version", "answer", "key", "prompt", "secret", "end"}
  /\ exit \in {"running", "ok", "error"}
  /\ Decided

\* After its message a broadcast goes to resolveSignatureVForBroadcast.
LEMMA AfterMessageDecides ==
  ASSUME NEW lines, AfterMessage(lines), exit = "running", command' = command
  PROVE  /\ stage' \in {"version", "key", "end"}
         /\ exit' \in {"running", "ok", "error"}
         /\ Decided'
<1>1. CASE ~Parses(lines)
  BY <1>1 DEF AfterMessage, Exit, Decided
<1>2. CASE Parses(lines) /\ command.Name = "extract"
  BY <1>2 DEF AfterMessage, Exit, Decided
<1>3. CASE Parses(lines) /\ command.Name = "broadcast"
  BY <1>3 DEF AfterMessage, GoTo, Decided
<1>4. CASE Parses(lines) /\ command.Name \notin {"extract", "broadcast"}
  BY <1>4 DEF AfterMessage, GoTo, Decided
<1> QED BY <1>1, <1>2, <1>3, <1>4

LEMMA StageInvProgram ==
  ASSUME InputInv, StageInv, Step
  PROVE  StageInv'
<1>0. slips' = slips /\ command' = command
  BY DEF Step, ReadMessage, ResolveVersion, ReadAnswer, LoadPrivateKey, TurnEchoOff, ReadSecret
<1>1. CASE ReadMessage
  <2>0. stage = "message" /\ exit = "running"
    BY <1>1 DEF ReadMessage, InputInv, Shape
  <2>1. CASE Exit("error")
    BY <1>0, <2>0, <2>1 DEF Exit, StageInv, Decided
  <2>2. CASE ~ArgumentsRefused /\ MessageArg = "" /\ GoTo("key")
    <3>1. command.Name # "broadcast"
      BY <2>2 DEF ArgumentsRefused, MessageArg
    <3> QED BY <1>0, <2>0, <2>2, <3>1 DEF GoTo, StageInv, Decided
  <2>3. ASSUME NEW lines, AfterMessage(lines)
        PROVE  StageInv'
    BY <1>0, <2>0, <2>3, AfterMessageDecides DEF StageInv
  <2> QED BY <1>1, <2>1, <2>2, <2>3 DEF ReadMessage
<1>2. CASE ResolveVersion
  <2>1. exit = "running"
    BY <1>2 DEF ResolveVersion, InputInv, Shape
  <2> QED BY <1>0, <1>2, <2>1 DEF ResolveVersion, GoTo, Exit, StageInv, Decided
<1>3. CASE ReadAnswer
  <2>1. exit = "running"
    BY <1>3 DEF ReadAnswer, InputInv, Shape
  <2>2. \/ GoTo("key") /\ sentV' \in {"normalized", "kept"}
        \/ Exit("error")
    BY <1>3 DEF ReadAnswer
  <2> QED BY <1>0, <2>1, <2>2 DEF GoTo, Exit, StageInv, Decided
<1>4. CASE LoadPrivateKey
  <2>1. /\ stage = "key" /\ sentV' = sentV
        /\ stage' \in {"end", "prompt", "secret"} /\ exit' \in {exit, "ok", "error"}
    BY <1>4 DEF LoadPrivateKey, Exit, GoTo
  <2> QED BY <1>0, <2>1 DEF StageInv, Decided
<1>5. CASE ReadSecret
  <2>1. stage = "secret" /\ sentV' = sentV /\ stage' = "end" /\ exit' \in {"ok", "error"}
    BY <1>5 DEF ReadSecret, TakeSecret, Exit
  <2> QED BY <1>0, <2>1 DEF StageInv, Decided
<1>6. CASE TurnEchoOff
  BY <1>0, <1>6 DEF TurnEchoOff, GoTo, StageInv, Decided
<1> QED BY <1>1, <1>2, <1>3, <1>4, <1>5, <1>6 DEF Step

\* What is typed or piped decides nothing.
LEMMA StageInvWorld ==
  ASSUME StageInv, Answer \/ Slip \/ Write \/ Close \/ UNCHANGED vars
  PROVE  StageInv'
<1>0. slips \in 0 .. MaxSlips /\ MaxSlips \in Nat
  BY StandardInputAssumption DEF StageInv
<1>1. ASSUME NEW line, Type(line)
      PROVE  UNCHANGED <<command, stage, sentV, exit>>
  BY <1>1 DEF Type
<1>2. CASE Answer
  <2>1. UNCHANGED <<command, stage, sentV, exit>> /\ slips' = slips
    BY <1>1, <1>2 DEF Answer
  <2> QED BY <1>0, <2>1 DEF StageInv, Decided
<1>3. CASE Slip
  <2>1. UNCHANGED <<command, stage, sentV, exit>>
    BY <1>1, <1>3 DEF Slip
  <2>2. slips < MaxSlips /\ slips' = slips + 1
    BY <1>3 DEF Slip
  <2>3. slips' \in 0 .. MaxSlips
    BY <1>0, <2>2
  <2> QED BY <2>1, <2>3 DEF StageInv, Decided
<1>4. CASE Write \/ Close \/ UNCHANGED vars
  <2>1. UNCHANGED <<command, stage, sentV, exit, slips>>
    BY <1>4 DEF Write, Close, vars
  <2> QED BY <2>1 DEF StageInv, Decided
<1> QED BY <1>2, <1>3, <1>4

(* The records of an invocation are well formed, it is over exactly when its   *)
(* exit code is known, and no key is loaded for a broadcast whose v is still   *)
(* to be decided (cli.go:278, 363).                                            *)
THEOREM StandardInputTypes == Spec => []StandardInputTypeOK
<1>1. Init => StageInv
  <2> SUFFICES ASSUME Init PROVE StageInv
    OBVIOUS
  <2>1. slips = 0 /\ stage = "message" /\ sentV = "as signed" /\ exit = "running"
    BY DEF Init
  <2>2. 0 \in 0 .. MaxSlips
    BY StandardInputAssumption
  <2> QED BY <2>1, <2>2 DEF StageInv, Decided
<1>2. InputInv /\ StageInv /\ [Next]_vars => StageInv'
  BY StageInvProgram, StageInvWorld DEF Next
<1>3. InputInv /\ StageInv => StandardInputTypeOK
  BY DEF InputInv, Shape, StageInv, Decided, StandardInputTypeOK
<1> QED BY <1>1, <1>2, <1>3, InputInvariant, PTL DEF Spec
===============================================================================
