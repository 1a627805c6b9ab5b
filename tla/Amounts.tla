--------------------------------- MODULE Amounts ---------------------------------
(***************************************************************************)
(* Token amounts: what sign makes of --value, --amount and --decimals, and *)
(* how extract shows a value again (internal/eip3009/amount.go, the end of *)
(* json.go, the two commands in internal/cli/cli.go).  The person at the   *)
(* terminal copies what extract showed into the next command.              *)
(*                                                                         *)
(* A text, trimmed, is the sequence of its characters: a digit is its      *)
(* number, the other characters that matter are named below.  What a       *)
(* parser returns is a set, empty if it refuses.                           *)
(***************************************************************************)
EXTENDS Integers, Sequences, FiniteSets, SequencesExt

CONSTANTS
  Texts,           \* what may be typed as --value or --amount
  DecimalsFlags,   \* what may be given as --decimals; -1 is the default
  MaxUint8,        \* math.MaxUint8
  TokenDecimals,   \* what the contract answers to decimals()
  TokenSymbol,     \* what it answers to symbol()
  ImportedValues   \* values of the messages of other programs

Point == 10
Minus == 11
Plus  == 12
Characters == 0 .. Plus

ASSUME AmountsAssumption ==
  /\ MaxUint8 \in Nat /\ TokenDecimals \in 0 .. MaxUint8
  /\ DecimalsFlags \subseteq Int /\ ImportedValues \subseteq Int
  /\ \A text \in Texts : text \in Seq(Characters)

VARIABLES
  typed,     \* the options of sign that the value comes from, {} if imported
  message,   \* {the value of the message}, {} if there is none or it is a cancel
  shown      \* {what extract wrote about it}, {} before

vars == <<typed, message, shown>>

-----------------------------------------------------------------------------
(* amount.go *)

IsDecimalDigits(text) == text # <<>> /\ ToSet(text) \subseteq 0 .. 9

NumberOf(digits) == FoldLeft(LAMBDA number, digit : 10 * number + digit, 0, digits)

\* big.Int.SetString with base 10.
SetString(text) ==
  LET signed == text # <<>> /\ Head(text) \in {Minus, Plus}
      digits == IF signed THEN Tail(text) ELSE text
  IN IF ~IsDecimalDigits(digits) THEN {}
     ELSE IF signed /\ Head(text) = Minus THEN {- NumberOf(digits)} ELSE {NumberOf(digits)}

\* big.Int.String of a number that is not negative.
DigitsOf[number \in Nat] ==
  IF number < 10 THEN <<number>> ELSE Append(DigitsOf[number \div 10], number % 10)

\* The scale, big.Int.Exp of 10.
TenTo[decimals \in Nat] == IF decimals = 0 THEN 1 ELSE 10 * TenTo[decimals - 1]

Zeros(count) == [i \in 1 .. count |-> 0]

WholeOf(text) ==
  LET whole == IF Contains(text, Point) THEN SubSeq(text, 1, SelectInSeq(text, LAMBDA c : c = Point) - 1)
               ELSE text
  IN IF whole = <<>> THEN <<0>> ELSE whole

FractionOf(text) ==
  IF Contains(text, Point) THEN SubSeq(text, SelectInSeq(text, LAMBDA c : c = Point) + 1, Len(text))
  ELSE <<>>

\* Mutant: the fraction is padded on the wrong side.
PadLeft(fraction, decimals) == Zeros(decimals - Len(fraction)) \o fraction

PadFraction(fraction, decimals) == fraction \o Zeros(decimals - Len(fraction))

ParseHumanAmount(amount, decimals) ==
  LET whole == WholeOf(amount)
      fraction == FractionOf(amount)
  IN IF /\ amount # <<>> /\ Head(amount) # Minus
        /\ IsDecimalDigits(whole) /\ (fraction # <<>> => IsDecimalDigits(fraction))
        /\ Len(fraction) <= decimals
     THEN {NumberOf(whole) * TenTo[decimals] + NumberOf(PadFraction(fraction, decimals))}
     ELSE {}

\* decimals is {} where the code has nil.
ParseTokenValue(value, amount, decimals) ==
  CASE value # <<>> /\ amount = <<>> -> SetString(value) \cap Nat
    [] value = <<>> /\ amount # <<>> -> UNION {ParseHumanAmount(amount, d) : d \in decimals}
    [] OTHER -> {}

TrimRightZeros(text) ==
  SubSeq(text, 1, CHOOSE n \in 0 .. Len(text) :
                    /\ n > 0 => text[n] # 0
                    /\ \A i \in n + 1 .. Len(text) : text[i] = 0)

\* Mutant: the zeros before the first digit of the fraction are lost.
Unpadded(digits, decimals) == digits

PadDigits(digits, decimals) == Zeros(decimals - Len(digits)) \o digits

FormatMagnitude(size, decimals) ==
  LET whole    == DigitsOf[size \div TenTo[decimals]]
      fraction == TrimRightZeros(PadDigits(DigitsOf[size % TenTo[decimals]], decimals))
  IN IF decimals = 0 \/ fraction = <<>> THEN whole ELSE whole \o <<Point>> \o fraction

\* Mutant: a negative value is shown as a positive one.
FormatUnsigned(value, decimals) ==
  FormatMagnitude(IF value < 0 THEN - value ELSE value, decimals)

FormatTokenValue(value, decimals) ==
  IF value < 0 THEN <<Minus>> \o FormatMagnitude(- value, decimals)
  ELSE FormatMagnitude(value, decimals)

-----------------------------------------------------------------------------
(* The commands *)

Init == typed = {} /\ message = {} /\ shown = {}

\* {} refuses the flag; {{}} is a nil pointer.
DecimalsPtr(flag) ==
  IF flag < 0 THEN {{}} ELSE IF flag > MaxUint8 THEN {} ELSE {{flag}}

\* sign, with the contract's decimals looked up by the person or not.
Sign(value, amount, flag) ==
  \E decimals \in DecimalsPtr(flag) :
    \E result \in ParseTokenValue(value, amount, decimals) :
      /\ typed' = {[value |-> value, amount |-> amount, decimals |-> decimals]}
      /\ message' = {result}
      /\ shown' = {}

\* Another program made the message; a cancel has no value.
Import(values) ==
  /\ typed' = {}
  /\ message' = values
  /\ shown' = {}

ExtractionObject(decimals, symbol) ==
  [valueRaw       |-> message,
   valueFormatted |-> {FormatTokenValue(v, d) : v \in message, d \in decimals},
   amountSymbol   |-> IF message # {} /\ decimals # {} THEN symbol ELSE "",
   decimals       |-> decimals,
   symbol         |-> symbol]

\* The flags win over the contract, which is asked only if there is a node to ask.
Extract(flag, symbolFlag, rpc) ==
  \E given \in DecimalsPtr(flag) :
    LET decimals == IF rpc /\ given = {} THEN {TokenDecimals} ELSE given
        symbol   == IF rpc /\ symbolFlag = "" THEN TokenSymbol ELSE symbolFlag
    IN
    /\ shown' = {ExtractionObject(decimals, symbol)}
    /\ UNCHANGED <<typed, message>>

\* What was shown, to be copied.
ShownTexts == UNION {s.valueFormatted : s \in shown}

Next ==
  \/ \E text \in Texts, flag \in DecimalsFlags : Sign(<<>>, text, flag)
  \/ \E text \in Texts, flag \in DecimalsFlags : Sign(text, <<>>, flag)
  \/ \E text \in ShownTexts, s \in shown : \E flag \in s.decimals : Sign(<<>>, text, flag)
  \/ \E values \in {{}} \cup {{n} : n \in ImportedValues} : Import(values)
  \/ \E flag \in DecimalsFlags, symbol \in {"", TokenSymbol}, rpc \in BOOLEAN :
       Extract(flag, symbol, rpc)

Spec == Init /\ [][Next]_vars
===============================================================================
