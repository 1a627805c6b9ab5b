----------------------------- MODULE MCStandardInput -----------------------------
(***************************************************************************)
(* The command lines that differ in what they read, and pipes that carry   *)
(* too little, the right thing, or several things.                         *)
(***************************************************************************)
EXTENDS StandardInputProperties

CommandLine(name, message) ==
  [Name |-> name, Message |-> message, Calldata |-> "", DryRun |-> FALSE,
   NormalizeV |-> FALSE, KeepV |-> FALSE, Yes |-> FALSE,
   PrivateKey |-> FALSE, StdinKey |-> FALSE, Keystore |-> FALSE,
   PasswordArg |-> FALSE, StdinPassword |-> FALSE]

SecretOptions(line) ==
  {line,
   [line EXCEPT !.PrivateKey = TRUE],
   [line EXCEPT !.StdinKey = TRUE],
   [line EXCEPT !.Keystore = TRUE],
   [line EXCEPT !.Keystore = TRUE, !.PasswordArg = TRUE],
   [line EXCEPT !.Keystore = TRUE, !.StdinPassword = TRUE],
   [line EXCEPT !.Keystore = TRUE, !.StdinKey = TRUE]}

PolicyOptions(line) ==
  {line,
   [line EXCEPT !.NormalizeV = TRUE],
   [line EXCEPT !.KeepV = TRUE],
   [line EXCEPT !.Yes = TRUE],
   [line EXCEPT !.Yes = TRUE, !.KeepV = TRUE]}

MCCommandLines ==
  UNION {SecretOptions(line) :
           line \in UNION {PolicyOptions(CommandLine("broadcast", message)) :
                            message \in {"", "-", Imported, Signed}}
                    \cup {CommandLine("cancel", message) : message \in {"", "-", Signed}}
                    \cup {CommandLine("sign", ""), [CommandLine("sign", "") EXCEPT !.DryRun = TRUE]}}
  \cup {[CommandLine("extract", message) EXCEPT !.Calldata = calldata] :
          message \in {"", "-"}, calldata \in {"", "-", Calldata}}

MCScripts ==
  {<<>>, <<Key>>, <<Password>>, <<Signed>>, <<Calldata>>, <<Imported>>, <<"", Key>>, <<"y", Key>>,
   <<"", Signed>>, <<Imported, Key>>, <<Signed, Password>>, <<Imported, "y", Key>>, <<Key, Key>>}
===============================================================================
