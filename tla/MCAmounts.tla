-------------------------------- MODULE MCAmounts --------------------------------
(***************************************************************************)
(* Every text of up to four characters over two digits and the point,      *)
(* some with signs; decimals of up to three, the default and one too many. *)
(***************************************************************************)
EXTENDS AmountProperties

MCPlain == UNION {[1 .. n -> {0, 7, Point}] : n \in 1 .. 4}
MCTexts == MCPlain \cup {<<sign>> \o text : sign \in {Minus, Plus}, text \in {<<>>, <<0>>, <<7, 0>>}}
MCDecimalsFlags == -1 .. 4
MCImportedValues == {-1, -70, -105, -1700, 0, 1, 99, 1000, 100700}
MCTokenSymbol == "TKN"
===============================================================================
