---------------------------- MODULE AmountProperties -----------------------------
(***************************************************************************)
(* What is expected of the amounts: between the text that is typed, the    *)
(* value that is signed and the text that is shown, nothing is lost.       *)
(***************************************************************************)
EXTENDS Amounts

HasDigit(text) == \E i \in DOMAIN text : text[i] \in 0 .. 9

\* The text says the number value / 10^decimals, however it is written:
\* without its point it is an integer, which its fraction scales.  A text
\* without any digit says nothing.
Denotes(text, decimals, value) ==
  LET negative == Head(text) = Minus
      unsigned == IF negative THEN Tail(text) ELSE text
      number   == NumberOf(RemoveFirst(unsigned, Point))
      scaled   == number * TenTo[decimals]
  IN /\ HasDigit(text)
     /\ (IF negative THEN - scaled ELSE scaled) = value * TenTo[Len(FractionOf(unsigned))]

\* What sign puts in the message for an amount with digits is exactly the
\* amount that was typed, to the last unit: nothing is rounded, scaled by the
\* wrong power or cut (amount.go:33-77).
TypedAmountExact ==
  \A t \in typed, v \in message, d \in UNION {s.decimals : s \in typed} :
    HasDigit(t.amount) => Denotes(t.amount, d, v)

\* An amount without any digit is refused, as the test for an empty whole and
\* an empty fraction says, which answers "invalid amount" (amount.go:52-54).
AmountHasDigit == \A t \in typed : t.amount # <<>> => HasDigit(t.amount)

\* What extract shows is exactly the value, negative ones included.
ShownExact ==
  \A s \in shown, v \in message, text \in ShownTexts :
    \A d \in s.decimals : Denotes(text, d, v)

\* What extract shows, typed as --amount with the decimals it shows, is the
\* same value again.
ShownReadsBack ==
  \A s \in shown, v \in message \cap Nat, text \in ShownTexts :
    \A d \in s.decimals : ParseTokenValue(<<>>, text, {d}) = {v}
===============================================================================
