------------------------------ MODULE AmountProofs ------------------------------
(***************************************************************************)
(* Amounts of any length, with any decimals: what is typed is what is      *)
(* signed, what is shown is what is in the message, and reads back.  First *)
(* what digits stand for, by induction over their number; then that the    *)
(* parser and the formatter respect it; last the commands.                 *)
(***************************************************************************)
EXTENDS AmountProperties, FoldLemmas, SequenceTheorems, TLAPS

(* Induction over the length of a sequence.                                    *)
LEMMA SequenceInduction ==
  ASSUME NEW S, NEW P, <<>> \in P, \A s \in Seq(S), e \in S : s \in P => Append(s, e) \in P
  PROVE  \A s \in Seq(S) : s \in P
<1> DEFINE Q == {n \in Nat : \A s \in Seq(S) : Len(s) = n => s \in P}
<1>1. 0 \in Q
  BY EmptySeq
<1>2. ASSUME NEW n \in Nat, n \in Q
      PROVE  n + 1 \in Q
  <2> SUFFICES ASSUME NEW s \in Seq(S), Len(s) = n + 1
               PROVE  s \in P
    OBVIOUS
  <2>1. s # <<>>
    BY EmptySeq
  <2>2. PICK front \in Seq(S), e \in S : s = Append(front, e)
    BY <2>1, SequenceEmptyOrAppend
  <2>3. Len(front) = n
    BY <2>2, AppendProperties, LenProperties
  <2> QED BY <1>2, <2>2, <2>3
<1>3. \A n \in Nat : n \in Q
  <2> HIDE DEF Q
  <2> QED BY <1>1, <1>2, NaturalInduction
<1> QED BY <1>3, LenProperties

-----------------------------------------------------------------------------
(* Powers of ten. *)

LEMMA TenToRecursive ==
  TenTo = [n \in Nat |-> IF n = 0 THEN 1 ELSE 10 * TenTo[n - 1]]
<1> DEFINE Step(g, n) == IF n = 0 THEN 1 ELSE 10 * g[n - 1]
           step == [p \in [Nat -> Nat] \X Nat |-> Step(p[1], p[2])]
           Recursive(g) == g = [n \in Nat |-> IF n = 0 THEN 1 ELSE 10 * g[n - 1]]
<1>1. ASSUME NEW g \in [Nat -> Nat], NEW n \in Nat
      PROVE  step[<<g, n>>] = Step(g, n) /\ Step(g, n) \in Nat
  <2>1. n = 0 \/ (n - 1 \in Nat /\ g[n - 1] \in Nat)
    OBVIOUS
  <2> QED BY <2>1
<1>2. ReadsBelow(Less, Nat, Nat, step)
  <2> SUFFICES ASSUME NEW n \in Nat, NEW g \in [Nat -> Nat], NEW h \in [Nat -> Nat],
                      \A k \in Nat : <<k, n>> \in Less => g[k] = h[k]
               PROVE  step[<<g, n>>] = step[<<h, n>>]
    BY DEF ReadsBelow
  <2>1. n = 0 \/ (n - 1 \in Nat /\ <<n - 1, n>> \in Less)
    BY DEF Less
  <2>2. Step(g, n) = Step(h, n)
    BY <2>1
  <2> HIDE DEF step, Step
  <2> QED BY <1>1, <2>2
<1>3. PICK g \in [Nat -> Nat] : \A n \in Nat : g[n] = step[<<g, n>>]
  <2>1. \A h \in [Nat -> Nat], n \in Nat : step[<<h, n>>] \in Nat
    BY <1>1
  <2> HIDE DEF step
  <2> DEFINE D == Nat
  <2>2. /\ IsWellFoundedOn(Less, D) /\ IsTransitivelyClosedOn(Less, D)
        /\ ReadsBelow(Less, D, Nat, step)
        /\ \A h \in [D -> Nat], n \in D : step[<<h, n>>] \in Nat
    BY <1>2, <2>1, LessIsWellFounded
  <2> HIDE DEF D
  <2>3. \E g \in [D -> Nat] : \A n \in D : g[n] = step[<<g, n>>]
    BY <2>2, 0 \in Nat, WFRecursion
  <2> QED BY <2>3 DEF D
<1>4. Recursive(g)
  <2>1. \A n \in Nat : g[n] = Step(g, n)
    BY <1>1, <1>3
  <2>2. g = [n \in Nat |-> g[n]]
    OBVIOUS
  <2> HIDE DEF step
  <2> QED BY <2>1, <2>2
<1>5. TenTo = CHOOSE h : Recursive(h)
  BY DEF TenTo
<1> HIDE DEF step
<1> QED BY <1>4, <1>5

LEMMA TenToValues ==
  /\ TenTo[0] = 1
  /\ \A n \in Nat : TenTo[n] \in Nat \ {0} /\ TenTo[n + 1] = 10 * TenTo[n]
<1>1. TenTo[0] = 1
  BY TenToRecursive
<1>2. \A n \in Nat : TenTo[n + 1] = 10 * TenTo[n]
  <2> SUFFICES ASSUME NEW n \in Nat PROVE TenTo[n + 1] = 10 * TenTo[n]
    OBVIOUS
  <2>1. n + 1 \in Nat /\ n + 1 # 0 /\ n + 1 - 1 = n
    OBVIOUS
  <2> QED BY <2>1, TenToRecursive
<1>3. \A n \in Nat : TenTo[n] \in Nat \ {0}
  <2> DEFINE P == {n \in Nat : TenTo[n] \in Nat \ {0}}
  <2>1. 0 \in P
    BY <1>1
  <2>2. \A n \in Nat : n \in P => n + 1 \in P
    BY <1>2
  <2>3. \A n \in Nat : n \in P
    <3> HIDE DEF P
    <3> QED BY <2>1, <2>2, NaturalInduction
  <2> QED BY <2>3
<1> QED BY <1>1, <1>2, <1>3

LEMMA TenToAdds ==
  ASSUME NEW m \in Nat, NEW n \in Nat
  PROVE  TenTo[m + n] = TenTo[m] * TenTo[n]
<1> DEFINE P == {k \in Nat : TenTo[m + k] = TenTo[m] * TenTo[k]}
<1>1. 0 \in P
  <2>1. m + 0 = m /\ TenTo[m] \in Nat /\ TenTo[0] = 1
    BY TenToValues
  <2> QED BY <2>1
<1>2. ASSUME NEW k \in Nat, k \in P
      PROVE  k + 1 \in P
  <2>1. m + (k + 1) = (m + k) + 1 /\ m + k \in Nat
    OBVIOUS
  <2>2. TenTo[m + (k + 1)] = 10 * TenTo[m + k] /\ TenTo[k + 1] = 10 * TenTo[k]
    BY <2>1, TenToValues
  <2>3. TenTo[m + k] = TenTo[m] * TenTo[k] /\ TenTo[m] \in Nat /\ TenTo[k] \in Nat
    BY <1>2, TenToValues
  <2>4. 10 * (TenTo[m] * TenTo[k]) = TenTo[m] * (10 * TenTo[k])
    BY <2>3
  <2> QED BY <2>2, <2>3, <2>4
<1>3. n \in P
  <2> HIDE DEF P
  <2> QED BY <1>1, <1>2, NaturalInduction
<1> QED BY <1>3

-----------------------------------------------------------------------------
(* What digits stand for. *)

\* The number that the first digits of s stand for, for every number of them.
Reads(s, p) ==
  /\ p \in [0 .. Len(s) -> Nat]
  /\ p[0] = 0
  /\ \A k \in 1 .. Len(s) : p[k] = 10 * p[k - 1] + s[k]

LEMMA MaxOfIndices ==
  ASSUME NEW n \in Nat, NEW T \in SUBSET (1 .. n), T # {}
  PROVE  Max(T) \in T /\ \A y \in T : Max(T) >= y
<1> DEFINE Bounds == {k \in Nat : \A y \in T : k >= y}
<1>1. n \in Bounds
  OBVIOUS
<1>2. PICK m \in Bounds : \A k \in Bounds : m <= k
  <2>1. Bounds \in SUBSET Nat /\ Bounds # {}
    BY <1>1
  <2> HIDE DEF Bounds
  <2> QED BY <2>1, LeastNatural
<1>3. m \in T
  <2> SUFFICES ASSUME m \notin T PROVE FALSE
    OBVIOUS
  <2>1. PICK y \in T : TRUE
    OBVIOUS
  <2>2. m \in Nat /\ m >= y /\ y >= 1
    BY <1>2
  <2>3. m - 1 \in Nat /\ \A z \in T : m - 1 >= z
    BY <1>2, <2>2
  <2>4. m - 1 \in Bounds
    BY <2>3
  <2> QED BY <1>2, <2>2, <2>4
<1>4. \A y \in T : m >= y
  BY <1>2
<1> QED BY <1>3, <1>4 DEF Max

LEMMA MaxOfFirst ==
  ASSUME NEW k \in Nat, k # 0
  PROVE  Max(1 .. k) = k
<1>0. k \in 1 .. k
  OBVIOUS
<1>1. Max(1 .. k) \in 1 .. k /\ \A y \in 1 .. k : Max(1 .. k) >= y
  <2> DEFINE T == 1 .. k
  <2>1. T \in SUBSET (1 .. k) /\ T # {}
    BY <1>0
  <2> HIDE DEF T
  <2>2. Max(T) \in T /\ \A y \in T : Max(T) >= y
    BY <2>1, MaxOfIndices
  <2> QED BY <2>2 DEF T
<1> QED BY <1>0, <1>1

(* NumberOf, a fold of the community modules, goes from digit to digit.        *)
LEMMA NumberOfReads ==
  ASSUME NEW s \in Seq(Nat)
  PROVE  \E p : Reads(s, p) /\ NumberOf(s) = p[Len(s)]
<1> DEFINE n == Len(s)
           S == 1 .. n
           pick == [T \in SUBSET S |-> Max(T)]
           add == [p \in S \X Nat |-> 10 * p[2] + s[p[1]]]
           Recursive(h) ==
             h = [T \in SUBSET S |-> IF T = {} THEN 0 ELSE 10 * h[T \ {Max(T)}] + s[Max(T)]]
           partial == CHOOSE h : Recursive(h)
<1>0. n \in Nat /\ DOMAIN s = S /\ IsFiniteSet(S) /\ \A k \in S : s[k] \in Nat
  <2>1. n \in Nat /\ DOMAIN s = S /\ \A k \in S : s[k] \in Nat
    BY LenProperties
  <2> QED BY <2>1, FS_Interval
<1>1. \A T \in SUBSET S : T # {} => Max(T) \in T
  BY <1>0, MaxOfIndices
<1>2. NumberOf(s) = partial[S]
  BY <1>0 DEF NumberOf, FoldLeft, MapThenFoldSet
<1>3. PICK g : Folds(S, Nat, 0, pick, add, g)
  <2>1. \A T \in SUBSET S : T # {} => pick[T] \in T
    BY <1>1
  <2>2. \A x \in S, v \in Nat : add[<<x, v>>] \in Nat
    BY <1>0
  <2> HIDE DEF pick, add, S
  <2> QED BY <1>0, <2>1, <2>2, 0 \in Nat, FoldExists
<1>4. g \in [SUBSET S -> Nat] /\ g[{}] = 0
  BY <1>3 DEF Folds
<1>5. \A T \in SUBSET S : T # {} => g[T] = 10 * g[T \ {Max(T)}] + s[Max(T)]
  <2> SUFFICES ASSUME NEW T \in SUBSET S, T # {}
               PROVE  g[T] = 10 * g[T \ {Max(T)}] + s[Max(T)]
    OBVIOUS
  <2>1. Max(T) \in S /\ pick[T] = Max(T) /\ T \ {Max(T)} \in SUBSET S
    BY <1>1
  <2>2. g[T] = add[<<Max(T), g[T \ {Max(T)}]>>]
    <3> HIDE DEF add, pick
    <3> QED BY <1>3, <2>1 DEF Folds
  <2>3. g[T \ {Max(T)}] \in Nat
    BY <1>4, <2>1
  <2> HIDE DEF S, pick
  <2> QED BY <2>1, <2>2, <2>3
<1>6. Recursive(g)
  <2>1. g = [T \in SUBSET S |-> g[T]]
    BY <1>4
  <2> HIDE DEF S, pick, add
  <2> QED BY <1>4, <1>5, <2>1
<1>7. Recursive(partial)
  BY <1>6
<1> HIDE DEF partial
<1>8. /\ partial[{}] = 0
      /\ \A T \in SUBSET S : T # {} => partial[T] = 10 * partial[T \ {Max(T)}] + s[Max(T)]
  BY <1>7
<1>9. ASSUME NEW k \in 1 .. n
      PROVE  partial[1 .. k] = 10 * partial[1 .. k - 1] + s[k]
  <2>1. Max(1 .. k) = k /\ 1 .. k \in SUBSET S /\ 1 .. k # {} /\ (1 .. k) \ {k} = 1 .. k - 1
    BY <1>0, MaxOfFirst
  <2> QED BY <1>8, <2>1
<1> DEFINE p == [k \in 0 .. n |-> partial[1 .. k]]
<1>10. p[0] = 0
  <2>1. 1 .. 0 = {} /\ 0 \in 0 .. n
    BY <1>0
  <2> QED BY <1>8, <2>1
<1>11. \A k \in 1 .. n : p[k] = 10 * p[k - 1] + s[k]
  <2> SUFFICES ASSUME NEW k \in 1 .. n PROVE p[k] = 10 * p[k - 1] + s[k]
    OBVIOUS
  <2>1. k \in 0 .. n /\ k - 1 \in 0 .. n
    BY <1>0
  <2> QED BY <1>9, <2>1
<1>12. \A k \in 0 .. n : p[k] \in Nat
  <2> DEFINE Q == {k \in Nat : k <= n => p[k] \in Nat}
  <2> HIDE DEF p
  <2>1. 0 \in Q
    BY <1>10
  <2>2. ASSUME NEW k \in Nat, k \in Q
        PROVE  k + 1 \in Q
    <3>1. CASE k + 1 <= n
      <4>1. k + 1 \in 1 .. n /\ k + 1 - 1 = k /\ p[k] \in Nat /\ s[k + 1] \in Nat
        BY <1>0, <2>2, <3>1
      <4> QED BY <1>11, <4>1
    <3>2. CASE ~(k + 1 <= n)
      BY <3>2
    <3> QED BY <3>1, <3>2
  <2>3. \A k \in Nat : k \in Q
    <3> HIDE DEF Q
    <3> QED BY <2>1, <2>2, NaturalInduction
  <2> QED BY <1>0, <2>3
<1>13. p[n] = NumberOf(s)
  BY <1>0, <1>2
<1>14. p = [k \in 0 .. n |-> p[k]]
  OBVIOUS
<1> HIDE DEF p, S, pick, add
<1>15. p \in [0 .. n -> Nat]
  BY <1>12, <1>14
<1> QED BY <1>10, <1>11, <1>13, <1>15 DEF Reads

\* Sequences that begin alike are read alike as far as that.
LEMMA ReadsAlike ==
  ASSUME NEW s \in Seq(Nat), NEW t \in Seq(Nat), NEW p, NEW q, Reads(s, p), Reads(t, q),
         NEW m \in Nat, m <= Len(s), m <= Len(t), \A k \in 1 .. m : s[k] = t[k]
  PROVE  p[m] = q[m]
<1> DEFINE Q == {k \in Nat : k <= m => p[k] = q[k]}
<1>0. Len(s) \in Nat /\ Len(t) \in Nat
  BY LenProperties
<1>1. 0 \in Q
  BY DEF Reads
<1>2. ASSUME NEW k \in Nat, k \in Q
      PROVE  k + 1 \in Q
  <2> SUFFICES ASSUME k + 1 <= m PROVE p[k + 1] = q[k + 1]
    OBVIOUS
  <2>1. /\ k + 1 \in 1 .. Len(s) /\ k + 1 \in 1 .. Len(t) /\ k + 1 \in 1 .. m
        /\ k + 1 - 1 = k /\ p[k] = q[k]
    BY <1>0, <1>2
  <2>2. p[k + 1] = 10 * p[k] + s[k + 1] /\ q[k + 1] = 10 * q[k] + t[k + 1]
    BY <2>1 DEF Reads
  <2> QED BY <2>1, <2>2
<1>3. m \in Q
  <2> HIDE DEF Q
  <2> QED BY <1>1, <1>2, NaturalInduction
<1> QED BY <1>3

(* No digits are 0, one more digit shifts what was there.                      *)
LEMMA NumberOfEmpty == NumberOf(<<>>) = 0
<1>1. <<>> \in Seq(Nat) /\ Len(<<>>) = 0
  BY EmptySeq
<1>2. PICK p : Reads(<<>>, p) /\ NumberOf(<<>>) = p[Len(<<>>)]
  BY <1>1, NumberOfReads
<1> QED BY <1>1, <1>2 DEF Reads

LEMMA NumberOfAppend ==
  ASSUME NEW s \in Seq(Nat), NEW digit \in Nat
  PROVE  NumberOf(Append(s, digit)) = 10 * NumberOf(s) + digit /\ NumberOf(s) \in Nat
<1> DEFINE t == Append(s, digit)
<1>1. /\ t \in Seq(Nat) /\ Len(t) = Len(s) + 1 /\ Len(s) \in Nat
      /\ \A k \in 1 .. Len(s) : s[k] = t[k]
      /\ t[Len(s) + 1] = digit
  BY AppendProperties, LenProperties
<1> HIDE DEF t
<1>2. PICK p : Reads(s, p) /\ NumberOf(s) = p[Len(s)]
  BY NumberOfReads
<1>3. PICK q : Reads(t, q) /\ NumberOf(t) = q[Len(t)]
  BY <1>1, NumberOfReads
<1>4. p[Len(s)] = q[Len(s)]
  <2>1. Len(s) \in Nat /\ Len(s) <= Len(s) /\ Len(s) <= Len(t)
    BY <1>1
  <2> DEFINE m == Len(s)
  <2>2. /\ m \in Nat /\ m <= Len(s) /\ m <= Len(t) /\ \A k \in 1 .. m : s[k] = t[k]
        /\ t \in Seq(Nat) /\ Reads(s, p) /\ Reads(t, q)
    BY <1>1, <1>2, <1>3, <2>1
  <2> HIDE DEF m
  <2>3. p[m] = q[m]
    BY <2>2, ReadsAlike
  <2> QED BY <2>3 DEF m
<1>5. Len(s) + 1 \in 1 .. Len(t) /\ Len(s) + 1 - 1 = Len(s) /\ Len(s) \in 0 .. Len(s)
  BY <1>1
<1>6. q[Len(s) + 1] = 10 * q[Len(s)] + t[Len(s) + 1]
  BY <1>3, <1>5 DEF Reads
<1>7. p[Len(s)] \in Nat
  BY <1>2, <1>5 DEF Reads
<1>8. NumberOf(t) = 10 * NumberOf(s) + digit /\ NumberOf(s) \in Nat
  BY <1>1, <1>2, <1>3, <1>4, <1>6, <1>7
<1> QED BY <1>8 DEF t

LEMMA NumberOfIsNat ==
  ASSUME NEW s \in Seq(Nat)
  PROVE  NumberOf(s) \in Nat
BY NumberOfAppend, 0 \in Nat

LEMMA NumberOfConcat ==
  ASSUME NEW s \in Seq(Nat), NEW t \in Seq(Nat)
  PROVE  NumberOf(s \o t) = NumberOf(s) * TenTo[Len(t)] + NumberOf(t)
<1> DEFINE P == {u \in Seq(Nat) : NumberOf(s \o u) = NumberOf(s) * TenTo[Len(u)] + NumberOf(u)}
<1>1. <<>> \in P
  <2>1. s \o <<>> = s /\ <<>> \in Seq(Nat) /\ Len(<<>>) = 0
    BY ConcatEmptySeq, EmptySeq
  <2>2. NumberOf(s) \in Nat
    BY NumberOfIsNat
  <2>3. NumberOf(s) * TenTo[0] + NumberOf(<<>>) = NumberOf(s)
    BY <2>2, TenToValues, NumberOfEmpty
  <2> QED BY <2>1, <2>3
<1>2. ASSUME NEW u \in Seq(Nat), NEW e \in Nat, u \in P
      PROVE  Append(u, e) \in P
  <2>1. s \o u \in Seq(Nat) /\ Append(u, e) \in Seq(Nat) /\ Len(u) \in Nat /\ Len(Append(u, e)) = Len(u) + 1
    BY ConcatProperties, AppendProperties, LenProperties
  <2>2. s \o Append(u, e) = Append(s \o u, e)
    <3>1. Append(u, e) = u \o <<e>>
      BY AppendIsConcat
    <3>2. Append(s \o u, e) = (s \o u) \o <<e>>
      BY <2>1, AppendIsConcat
    <3>3. <<e>> \in Seq(Nat)
      OBVIOUS
    <3>4. (s \o u) \o <<e>> = s \o (u \o <<e>>)
      BY <3>3, ConcatAssociative
    <3> QED BY <3>1, <3>2, <3>4
  <2>3. /\ NumberOf(Append(s \o u, e)) = 10 * NumberOf(s \o u) + e
        /\ NumberOf(Append(u, e)) = 10 * NumberOf(u) + e
    BY <2>1, NumberOfAppend
  <2>4. NumberOf(s) \in Nat /\ NumberOf(u) \in Nat /\ TenTo[Len(u)] \in Nat
        /\ TenTo[Len(u) + 1] = 10 * TenTo[Len(u)]
    BY <2>1, NumberOfIsNat, TenToValues
  <2>5. NumberOf(s \o u) = NumberOf(s) * TenTo[Len(u)] + NumberOf(u)
    BY <1>2
  <2>6. ASSUME NEW a \in Nat, NEW b \in Nat, NEW c \in Nat
        PROVE  10 * (a * c + b) + e = a * (10 * c) + (10 * b + e)
    OBVIOUS
  <2>7. 10 * (NumberOf(s) * TenTo[Len(u)] + NumberOf(u)) + e
          = NumberOf(s) * (10 * TenTo[Len(u)]) + (10 * NumberOf(u) + e)
    BY <2>4, <2>6
  <2> QED BY <2>1, <2>2, <2>3, <2>4, <2>5, <2>7
<1>3. \A u \in Seq(Nat) : u \in P
  <2> HIDE DEF P
  <2> QED BY <1>1, <1>2, SequenceInduction
<1> QED BY <1>3

Digits == 0 .. 9

LEMMA DigitsAreNumbers ==
  ASSUME NEW s \in Seq(Digits)
  PROVE  s \in Seq(Nat)
<1>1. Digits \subseteq Nat
  BY DEF Digits
<1> QED BY <1>1, SeqMonotonic

LEMMA ZerosShape ==
  ASSUME NEW count \in Int
  PROVE  /\ Zeros(count) \in Seq(Digits)
         /\ Len(Zeros(count)) = IF count <= 0 THEN 0 ELSE count
         /\ count <= 0 => Zeros(count) = <<>>
         /\ \A i \in 1 .. count : Zeros(count)[i] = 0
<1>1. CASE count <= 0
  <2>1. 1 .. count = {} /\ 1 .. 0 = {}
    BY <1>1
  <2>2. Zeros(count) = [i \in 1 .. 0 |-> 0]
    BY <2>1 DEF Zeros
  <2>3. Zeros(count) \in [1 .. 0 -> Digits]
    BY <2>1, <2>2
  <2>4. Zeros(count) \in Seq(Digits)
    BY <2>3, 0 \in Nat, SeqDef
  <2>5. Len(Zeros(count)) = 0
    <3>1. DOMAIN Zeros(count) = 1 .. Len(Zeros(count)) /\ DOMAIN Zeros(count) = {}
          /\ Len(Zeros(count)) \in Nat
      BY <2>1, <2>2, <2>4, LenProperties
    <3>2. 1 \notin 1 .. Len(Zeros(count))
      BY <3>1
    <3> QED BY <3>1, <3>2
  <2>6. Zeros(count) = <<>>
    BY <2>4, <2>5, EmptySeq
  <2> QED BY <1>1, <2>1, <2>4, <2>5, <2>6
<1>2. CASE count > 0
  <2>1. count \in Nat /\ 0 \in Digits
    BY <1>2 DEF Digits
  <2>2. Zeros(count) \in [1 .. count -> Digits]
    BY <2>1 DEF Zeros
  <2>3. Zeros(count) \in Seq(Digits)
    BY <2>1, <2>2, SeqDef
  <2>4. Len(Zeros(count)) = count
    <3>1. DOMAIN Zeros(count) = 1 .. Len(Zeros(count)) /\ DOMAIN Zeros(count) = 1 .. count
          /\ Len(Zeros(count)) \in Nat
      BY <2>2, <2>3, LenProperties
    <3> DEFINE n == Len(Zeros(count))
    <3>2. 1 .. n = 1 .. count /\ n \in Nat /\ count \in Nat
      BY <2>1, <3>1
    <3> HIDE DEF n
    <3>3. count \in 1 .. n /\ (n # 0 => n \in 1 .. count)
      BY <1>2, <3>2
    <3>4. n = count
      BY <3>2, <3>3
    <3> QED BY <3>4 DEF n
  <2> QED BY <1>2, <2>3, <2>4 DEF Zeros
<1> QED BY <1>1, <1>2

LEMMA NumberOfZeros ==
  ASSUME NEW n \in Nat
  PROVE  NumberOf(Zeros(n)) = 0
<1> DEFINE P == {k \in Nat : NumberOf(Zeros(k)) = 0}
<1>1. 0 \in P
  BY ZerosShape, NumberOfEmpty
<1>2. ASSUME NEW k \in Nat, k \in P
      PROVE  k + 1 \in P
  <2>1. /\ Zeros(k) \in Seq(Nat) /\ Len(Zeros(k)) = k /\ \A i \in 1 .. k : Zeros(k)[i] = 0
        /\ Zeros(k + 1) \in Seq(Nat) /\ Len(Zeros(k + 1)) = k + 1
        /\ \A i \in 1 .. k + 1 : Zeros(k + 1)[i] = 0
    BY ZerosShape, DigitsAreNumbers
  <2>2. /\ Append(Zeros(k), 0) \in Seq(Nat) /\ Len(Append(Zeros(k), 0)) = k + 1
        /\ \A i \in 1 .. k : Append(Zeros(k), 0)[i] = Zeros(k)[i]
        /\ Append(Zeros(k), 0)[k + 1] = 0
    BY <2>1, AppendProperties
  <2>3. \A i \in 1 .. k + 1 : Zeros(k + 1)[i] = Append(Zeros(k), 0)[i]
    BY <2>1, <2>2
  <2>4. Zeros(k + 1) = Append(Zeros(k), 0)
    BY <2>1, <2>2, <2>3, SeqEqual
  <2>5. NumberOf(Append(Zeros(k), 0)) = 10 * NumberOf(Zeros(k)) + 0
    BY <2>1, 0 \in Nat, NumberOfAppend
  <2>6. NumberOf(Zeros(k)) = 0
    BY <1>2
  <2>7. NumberOf(Append(Zeros(k), 0)) = 0
    BY <2>5, <2>6
  <2>8. NumberOf(Zeros(k + 1)) = 0
    BY <2>4, <2>7, Zenon
  <2>9. k + 1 \in Nat
    OBVIOUS
  <2> QED BY <2>8, <2>9
<1>3. n \in P
  <2> HIDE DEF P
  <2> QED BY <1>1, <1>2, NaturalInduction
<1> QED BY <1>3

(* Zeros behind multiply, zeros in front do nothing.                           *)
LEMMA Padded ==
  ASSUME NEW s \in Seq(Digits), NEW n \in Nat
  PROVE  /\ s \o Zeros(n) \in Seq(Digits) /\ Len(s \o Zeros(n)) = Len(s) + n
         /\ NumberOf(s \o Zeros(n)) = NumberOf(s) * TenTo[n]
         /\ Zeros(n) \o s \in Seq(Digits) /\ Len(Zeros(n) \o s) = n + Len(s)
         /\ NumberOf(Zeros(n) \o s) = NumberOf(s)
<1>1. Zeros(n) \in Seq(Digits) /\ Len(Zeros(n)) = n
  BY ZerosShape
<1>2. /\ s \o Zeros(n) \in Seq(Digits) /\ Len(s \o Zeros(n)) = Len(s) + n
      /\ Zeros(n) \o s \in Seq(Digits) /\ Len(Zeros(n) \o s) = n + Len(s)
  BY <1>1, ConcatProperties
<1>3. s \in Seq(Nat) /\ Zeros(n) \in Seq(Nat)
  BY <1>1, DigitsAreNumbers
<1>4. /\ NumberOf(s) \in Nat /\ TenTo[n] \in Nat /\ TenTo[Len(s)] \in Nat
      /\ NumberOf(Zeros(n)) = 0
  BY <1>3, NumberOfIsNat, NumberOfZeros, LenProperties, TenToValues
<1>5. NumberOf(s \o Zeros(n)) = NumberOf(s) * TenTo[n] + 0
  BY <1>1, <1>3, <1>4, NumberOfConcat
<1>6. NumberOf(Zeros(n) \o s) = 0 * TenTo[Len(s)] + NumberOf(s)
  BY <1>3, <1>4, NumberOfConcat
<1>7. NumberOf(s) * TenTo[n] + 0 = NumberOf(s) * TenTo[n] /\ 0 * TenTo[Len(s)] + NumberOf(s) = NumberOf(s)
  BY <1>4
<1> QED BY <1>2, <1>5, <1>6, <1>7

-----------------------------------------------------------------------------
(* The digits of a number. *)

LEMMA TensAndUnits ==
  ASSUME NEW n \in Nat
  PROVE  /\ n \div 10 \in Nat /\ n % 10 \in Digits
         /\ n = 10 * (n \div 10) + (n % 10)
         /\ ~(n < 10) => n \div 10 < n
         /\ n < 10 => n \in Digits
BY DEF Digits

LEMMA DigitsOfRecursive ==
  DigitsOf = [n \in Nat |-> IF n < 10 THEN <<n>> ELSE Append(DigitsOf[n \div 10], n % 10)]
<1> DEFINE V == Seq(Digits)
           Step(g, n) == IF n < 10 THEN <<n>> ELSE Append(g[n \div 10], n % 10)
           step == [p \in [Nat -> V] \X Nat |-> Step(p[1], p[2])]
           Recursive(g) == g = [n \in Nat |-> IF n < 10 THEN <<n>> ELSE Append(g[n \div 10], n % 10)]
<1>0. <<>> \in V
  BY EmptySeq
<1>1. ASSUME NEW g \in [Nat -> V], NEW n \in Nat
      PROVE  step[<<g, n>>] = Step(g, n) /\ Step(g, n) \in V
  <2>1. n < 10 => <<n>> \in V
    BY TensAndUnits
  <2>2. g[n \div 10] \in Seq(Digits) /\ n % 10 \in Digits
    BY TensAndUnits
  <2>3. Append(g[n \div 10], n % 10) \in Seq(Digits)
    BY <2>2, AppendProperties
  <2>4. step[<<g, n>>] = Step(g, n)
    <3> HIDE DEF V, Step
    <3> QED OBVIOUS
  <2> QED BY <2>1, <2>3, <2>4
<1> HIDE DEF V
<1>2. ReadsBelow(Less, Nat, V, step)
  <2> SUFFICES ASSUME NEW n \in Nat, NEW g \in [Nat -> V], NEW h \in [Nat -> V],
                      \A k \in Nat : <<k, n>> \in Less => g[k] = h[k]
               PROVE  step[<<g, n>>] = step[<<h, n>>]
    BY DEF ReadsBelow
  <2>1. n < 10 \/ (n \div 10 \in Nat /\ <<n \div 10, n>> \in Less)
    BY TensAndUnits DEF Less
  <2>2. n < 10 \/ g[n \div 10] = h[n \div 10]
    BY <2>1
  <2>3. Step(g, n) = Step(h, n)
    BY <2>2
  <2> HIDE DEF step, Step
  <2> QED BY <1>1, <2>3
<1>3. PICK g \in [Nat -> V] : \A n \in Nat : g[n] = step[<<g, n>>]
  <2>1. \A h \in [Nat -> V], n \in Nat : step[<<h, n>>] \in V
    BY <1>1
  <2> HIDE DEF step
  <2> DEFINE D == Nat
  <2>2. /\ IsWellFoundedOn(Less, D) /\ IsTransitivelyClosedOn(Less, D)
        /\ ReadsBelow(Less, D, V, step)
        /\ \A h \in [D -> V], n \in D : step[<<h, n>>] \in V
    BY <1>2, <2>1, LessIsWellFounded
  <2> HIDE DEF D
  <2>3. \E g \in [D -> V] : \A n \in D : g[n] = step[<<g, n>>]
    BY <1>0, <2>2, WFRecursion
  <2> QED BY <2>3 DEF D
<1>4. Recursive(g)
  <2>1. \A n \in Nat : g[n] = Step(g, n)
    BY <1>1, <1>3
  <2>2. g = [n \in Nat |-> g[n]]
    OBVIOUS
  <2> HIDE DEF step
  <2> QED BY <2>1, <2>2
<1>5. DigitsOf = CHOOSE h : Recursive(h)
  BY DEF DigitsOf
<1> HIDE DEF step
<1> QED BY <1>4, <1>5

(* They stand for the number, and are no more than its size asks for.          *)
LEMMA DigitsOfShape ==
  ASSUME NEW n \in Nat
  PROVE  /\ DigitsOf[n] \in Seq(Digits) /\ DigitsOf[n] # <<>>
         /\ NumberOf(DigitsOf[n]) = n
         /\ \A k \in Nat : k > 0 /\ n < TenTo[k] => Len(DigitsOf[n]) <= k
<1> DEFINE Shape(m) == /\ DigitsOf[m] \in Seq(Digits) /\ DigitsOf[m] # <<>>
                       /\ NumberOf(DigitsOf[m]) = m
                       /\ \A k \in Nat : k > 0 /\ m < TenTo[k] => Len(DigitsOf[m]) <= k
           Bad == {m \in Nat : ~Shape(m)}
<1>1. SUFFICES ASSUME Bad # {} PROVE FALSE
  OBVIOUS
<1>2. PICK m \in Bad : \A k \in Bad : m <= k
  <2>1. Bad \in SUBSET Nat
    OBVIOUS
  <2> HIDE DEF Bad
  <2> QED BY <1>1, <2>1, LeastNatural
<1>3. m \in Nat /\ ~Shape(m) /\ \A k \in Nat : k < m => Shape(k)
  BY <1>2
<1> HIDE DEF Bad
<1>4. CASE m < 10
  <2>1. DigitsOf[m] = <<m>> /\ m \in Digits
    BY <1>3, <1>4, DigitsOfRecursive, TensAndUnits
  <2>2. <<m>> \in Seq(Digits) /\ <<m>> # <<>> /\ Len(<<m>>) = 1
    BY <2>1
  <2>3. NumberOf(<<m>>) = m
    <3>1. <<>> \in Seq(Nat) /\ Append(<<>>, m) = <<m>>
      BY EmptySeq
    <3>2. NumberOf(Append(<<>>, m)) = 10 * NumberOf(<<>>) + m
      BY <1>3, <3>1, NumberOfAppend
    <3>3. 10 * NumberOf(<<>>) + m = m
      BY <1>3, NumberOfEmpty
    <3> QED BY <3>1, <3>2, <3>3
  <2> QED BY <1>3, <2>1, <2>2, <2>3
<1>5. CASE ~(m < 10)
  <2> DEFINE q == m \div 10
             u == m % 10
  <2>1. q \in Nat /\ u \in Digits /\ u \in Nat /\ m = 10 * q + u /\ q < m
    BY <1>3, <1>5, TensAndUnits DEF Digits
  <2>2. DigitsOf[m] = Append(DigitsOf[q], u)
    BY <1>3, <1>5, DigitsOfRecursive
  <2> HIDE DEF q, u
  <2>3. Shape(q)
    BY <1>3, <2>1
  <2>4. /\ Append(DigitsOf[q], u) \in Seq(Digits) /\ Append(DigitsOf[q], u) # <<>>
        /\ Len(Append(DigitsOf[q], u)) = Len(DigitsOf[q]) + 1 /\ Len(DigitsOf[q]) \in Nat
    BY <2>1, <2>3, AppendProperties, LenProperties
  <2>5. NumberOf(Append(DigitsOf[q], u)) = 10 * NumberOf(DigitsOf[q]) + u
    BY <2>1, <2>3, DigitsAreNumbers, NumberOfAppend
  <2>6. ASSUME NEW k \in Nat, k > 0, m < TenTo[k]
        PROVE  Len(DigitsOf[q]) + 1 <= k
    <3>1. k - 1 \in Nat /\ k - 1 + 1 = k
      BY <2>6
    <3>2. TenTo[k] = 10 * TenTo[k - 1] /\ TenTo[k - 1] \in Nat
      BY <3>1, TenToValues
    <3>3. k - 1 > 0
      <4>1. k = 1 => TenTo[k] = 10
        BY <3>2, TenToValues
      <4> QED BY <1>3, <1>5, <2>6, <3>1, <4>1
    <3>4. q < TenTo[k - 1]
      BY <2>1, <2>6, <3>2
    <3>5. Len(DigitsOf[q]) <= k - 1
      BY <2>3, <3>1, <3>3, <3>4
    <3> QED BY <2>4, <3>1, <3>5
  <2>7. NumberOf(DigitsOf[m]) = m
    BY <2>1, <2>2, <2>3, <2>5
  <2> QED BY <1>3, <2>2, <2>4, <2>6, <2>7
<1> QED BY <1>4, <1>5

(* The zeros at the right end go, and nothing else.                            *)
LEMMA Trimmed ==
  ASSUME NEW text \in Seq(Digits)
  PROVE  /\ TrimRightZeros(text) \in Seq(Digits)
         /\ Len(TrimRightZeros(text)) <= Len(text)
         /\ PadFraction(TrimRightZeros(text), Len(text)) = text
<1> DEFINE n == Len(text)
           Rest(k) == \A i \in k + 1 .. n : text[i] = 0
           Ends == {k \in 0 .. n : Rest(k)}
           IsEnd(k) == (k > 0 => text[k] # 0) /\ Rest(k)
<1>0. n \in Nat /\ \A i \in 1 .. n : text[i] \in Digits
  BY LenProperties
<1>1. n \in Ends
  BY <1>0
<1>2. PICK e \in Ends : \A k \in Ends : e <= k
  <2>1. Ends \in SUBSET Nat /\ Ends # {}
    BY <1>0, <1>1
  <2> HIDE DEF Ends
  <2> QED BY <2>1, LeastNatural
<1>3. e \in 0 .. n /\ IsEnd(e)
  <2>1. ASSUME e > 0, text[e] = 0
        PROVE  FALSE
    <3>1. \A i \in e - 1 + 1 .. n : i = e \/ i \in e + 1 .. n
      BY <1>0, <1>2
    <3>2. e - 1 \in Ends
      BY <1>0, <1>2, <2>1, <3>1
    <3>3. e \in Nat
      BY <1>0, <1>2
    <3> HIDE DEF Ends
    <3>4. e <= e - 1
      BY <1>2, <3>2
    <3> QED BY <3>3, <3>4
  <2> QED BY <1>2, <2>1
<1> DEFINE c == CHOOSE k \in 0 .. n : IsEnd(k)
<1>4. c \in 0 .. n /\ Rest(c)
  BY <1>3
<1>5. TrimRightZeros(text) = SubSeq(text, 1, c)
  BY DEF TrimRightZeros
<1> HIDE DEF c, n
<1> DEFINE t == SubSeq(text, 1, c)
<1>6. t \in Seq(Digits) /\ Len(t) = c /\ \A i \in 1 .. c : t[i] = text[i]
  BY <1>0, <1>4, SubSeqProperties
<1> HIDE DEF t
<1> DEFINE z == Zeros(n - c)
<1>7. z \in Seq(Digits) /\ Len(z) = n - c /\ \A i \in 1 .. n - c : z[i] = 0
  <2> DEFINE m == n - c
  <2>1. m \in Nat
    BY <1>0, <1>4
  <2> HIDE DEF m
  <2>2. Zeros(m) \in Seq(Digits) /\ Len(Zeros(m)) = m /\ \A i \in 1 .. m : Zeros(m)[i] = 0
    BY <2>1, ZerosShape
  <2> QED BY <2>2 DEF m
<1> HIDE DEF z
<1>8. /\ t \o z \in Seq(Digits) /\ Len(t \o z) = n
      /\ \A i \in 1 .. n : (t \o z)[i] = IF i <= c THEN t[i] ELSE z[i - c]
  <2>1. /\ t \o z \in Seq(Digits) /\ Len(t \o z) = Len(t) + Len(z)
        /\ \A i \in 1 .. Len(t) + Len(z) :
             (t \o z)[i] = IF i <= Len(t) THEN t[i] ELSE z[i - Len(t)]
    BY <1>6, <1>7, ConcatProperties
  <2>2. Len(t) = c /\ Len(t) + Len(z) = n
    BY <1>0, <1>4, <1>6, <1>7
  <2> QED BY <2>1, <2>2
<1>9. ASSUME NEW i \in 1 .. n
      PROVE  (t \o z)[i] = text[i]
  <2>1. CASE i <= c
    BY <1>0, <1>4, <1>6, <1>8, <2>1
  <2>2. CASE ~(i <= c)
    <3>1. i - c \in 1 .. n - c /\ i \in c + 1 .. n
      BY <1>0, <1>4, <2>2
    <3>2. (t \o z)[i] = z[i - c] /\ z[i - c] = 0 /\ text[i] = 0
      BY <1>4, <1>7, <1>8, <2>2, <3>1
    <3> QED BY <3>2
  <2> QED BY <2>1, <2>2
<1>10. t \o z = text
  BY <1>8, <1>9, SeqEqual DEF n
<1>11. PadFraction(t, n) = t \o z
  BY <1>6 DEF PadFraction, z
<1> QED BY <1>0, <1>4, <1>5, <1>6, <1>10, <1>11 DEF n, t

-----------------------------------------------------------------------------
(* Parsing: the point splits the text. *)

PointOf(text) == SelectInSeq(text, LAMBDA c : c = Point)

LEMMA AtThePoint ==
  ASSUME NEW text \in Seq(Characters), Contains(text, Point)
  PROVE  /\ PointOf(text) \in 1 .. Len(text)
         /\ text[PointOf(text)] = Point
         /\ \A i \in 1 .. Len(text) : text[i] = Point => PointOf(text) <= i
         /\ WholeOf(text) = IF SubSeq(text, 1, PointOf(text) - 1) = <<>> THEN <<0>>
                            ELSE SubSeq(text, 1, PointOf(text) - 1)
         /\ FractionOf(text) = SubSeq(text, PointOf(text) + 1, Len(text))
         /\ RemoveFirst(text, Point)
              = SubSeq(text, 1, PointOf(text) - 1) \o SubSeq(text, PointOf(text) + 1, Len(text))
<1> DEFINE Points == {i \in 1 .. Len(text) : text[i] = Point}
<1>0. Len(text) \in Nat
  BY LenProperties
<1>1. Points # {} /\ Points \in SUBSET Nat
  BY <1>0 DEF Contains
<1>2. PointOf(text) = Min(Points)
  BY <1>1 DEF PointOf, SelectInSeq
<1>3. Min(Points) \in Points /\ \A i \in Points : Min(Points) <= i
  <2> HIDE DEF Points
  <2>1. \E m \in Points : \A i \in Points : m <= i
    BY <1>1, LeastNatural
  <2> QED BY <2>1 DEF Min
<1>4. /\ PointOf(text) \in 1 .. Len(text) /\ text[PointOf(text)] = Point
      /\ \A i \in 1 .. Len(text) : text[i] = Point => PointOf(text) <= i
  BY <1>2, <1>3
<1>5. WholeOf(text) = IF SubSeq(text, 1, PointOf(text) - 1) = <<>> THEN <<0>>
                      ELSE SubSeq(text, 1, PointOf(text) - 1)
  BY DEF WholeOf, PointOf, SelectInSeq
<1>6. FractionOf(text) = SubSeq(text, PointOf(text) + 1, Len(text))
  BY DEF FractionOf, PointOf, SelectInSeq
<1>7. RemoveFirst(text, Point)
        = SubSeq(text, 1, PointOf(text) - 1) \o SubSeq(text, PointOf(text) + 1, Len(text))
  BY DEF RemoveFirst, RemoveAt, Contains, PointOf, SelectInSeq
<1> QED BY <1>4, <1>5, <1>6, <1>7

LEMMA PartsOfText ==
  ASSUME NEW text \in Seq(Characters)
  PROVE  \E before \in Seq(Characters) :
           /\ FractionOf(text) \in Seq(Characters)
           /\ WholeOf(text) = IF before = <<>> THEN <<0>> ELSE before
           /\ RemoveFirst(text, Point) = before \o FractionOf(text)
<1>1. CASE Contains(text, Point)
  <2> DEFINE p == PointOf(text)
             before == SubSeq(text, 1, p - 1)
  <2>1. p \in 1 .. Len(text) /\ Len(text) \in Nat /\ \A i \in 1 .. Len(text) : text[i] \in Characters
    BY <1>1, AtThePoint, LenProperties
  <2> HIDE DEF p
  <2>2. p - 1 \in Int /\ p + 1 \in Int /\ Len(text) \in Int /\ 1 \in Int
    BY <2>1
  <2>3. \A i \in 1 .. p - 1 : text[i] \in Characters
    BY <2>1
  <2>4. \A i \in p + 1 .. Len(text) : text[i] \in Characters
    BY <2>1
  <2>5. before \in Seq(Characters)
    BY <2>2, <2>3, SubSeqProperties
  <2>6. SubSeq(text, p + 1, Len(text)) \in Seq(Characters)
    BY <2>2, <2>4, SubSeqProperties
  <2>7. /\ WholeOf(text) = IF before = <<>> THEN <<0>> ELSE before
        /\ FractionOf(text) = SubSeq(text, p + 1, Len(text))
        /\ RemoveFirst(text, Point) = before \o SubSeq(text, p + 1, Len(text))
    BY <1>1, AtThePoint DEF p
  <2> HIDE DEF before
  <2> QED BY <2>5, <2>6, <2>7
<1>2. CASE ~Contains(text, Point)
  <2>1. /\ WholeOf(text) = IF text = <<>> THEN <<0>> ELSE text
        /\ FractionOf(text) = <<>>
    BY <1>2 DEF WholeOf, FractionOf
  <2>2. RemoveFirst(text, Point) = text
    BY <1>2 DEF RemoveFirst, Contains
  <2>3. text \o <<>> = text /\ <<>> \in Seq(Characters)
    BY ConcatEmptySeq, EmptySeq
  <2> QED BY <2>1, <2>2, <2>3
<1> QED BY <1>1, <1>2

LEMMA OnlyDigits ==
  ASSUME NEW S, NEW text \in Seq(S), text # <<>>
  PROVE  IsDecimalDigits(text) <=> text \in Seq(Digits)
<1>1. Len(text) \in Nat /\ text \in [1 .. Len(text) -> S] /\ DOMAIN text = 1 .. Len(text)
  BY LenProperties
<1>2. ASSUME IsDecimalDigits(text)
      PROVE  text \in Seq(Digits)
  <2>1. \A i \in 1 .. Len(text) : text[i] \in Digits
    BY <1>1, <1>2 DEF IsDecimalDigits, ToSet, Digits
  <2>2. text \in [1 .. Len(text) -> Digits]
    BY <1>1, <2>1
  <2> QED BY <1>1, <2>2, SeqDef
<1>3. ASSUME text \in Seq(Digits)
      PROVE  IsDecimalDigits(text)
  <2>1. \A i \in 1 .. Len(text) : text[i] \in 0 .. 9
    BY <1>3, ElementOfSeq DEF Digits
  <2> QED BY <1>1, <2>1 DEF IsDecimalDigits, ToSet
<1> QED BY <1>2, <1>3

\* What ParseHumanAmount accepts, and what it makes of it.
LEMMA ParsedAmount ==
  ASSUME NEW text \in Seq(Characters), NEW decimals \in Nat,
         NEW value \in ParseHumanAmount(text, decimals)
  PROVE  /\ text # <<>> /\ Head(text) # Minus
         /\ \E before \in Seq(Digits), fraction \in Seq(Digits) :
              /\ FractionOf(text) = fraction /\ Len(fraction) <= decimals
              /\ RemoveFirst(text, Point) = before \o fraction
              /\ value = NumberOf(before) * TenTo[decimals] + NumberOf(PadFraction(fraction, decimals))
<1> DEFINE fraction == FractionOf(text)
<1>1. PICK before \in Seq(Characters) :
        /\ fraction \in Seq(Characters)
        /\ WholeOf(text) = IF before = <<>> THEN <<0>> ELSE before
        /\ RemoveFirst(text, Point) = before \o fraction
  BY PartsOfText
<1>2. /\ text # <<>> /\ Head(text) # Minus
      /\ IsDecimalDigits(WholeOf(text)) /\ (fraction # <<>> => IsDecimalDigits(fraction))
      /\ Len(fraction) <= decimals
      /\ value = NumberOf(WholeOf(text)) * TenTo[decimals]
                   + NumberOf(PadFraction(fraction, decimals))
  BY DEF ParseHumanAmount
<1> HIDE DEF fraction
<1>3. <<>> \in Seq(Digits)
  BY EmptySeq
<1>4. fraction \in Seq(Digits)
  BY <1>1, <1>2, <1>3, OnlyDigits
<1>5. before \in Seq(Digits)
  <2>1. CASE before = <<>>
    BY <1>3, <2>1
  <2>2. CASE before # <<>>
    BY <1>1, <1>2, <2>2, OnlyDigits
  <2> QED BY <2>1, <2>2
<1>6. NumberOf(WholeOf(text)) = NumberOf(before)
  <2>1. CASE before = <<>>
    <3>1. <<>> \in Seq(Nat) /\ Append(<<>>, 0) = <<0>>
      BY EmptySeq
    <3>2. NumberOf(Append(<<>>, 0)) = 10 * NumberOf(<<>>) + 0
      BY <3>1, 0 \in Nat, NumberOfAppend
    <3>3. NumberOf(<<0>>) = 0
      BY <3>1, <3>2, NumberOfEmpty
    <3> QED BY <1>1, <2>1, <3>3, NumberOfEmpty
  <2>2. CASE before # <<>>
    BY <1>1, <2>2
  <2> QED BY <2>1, <2>2
<1>7. value = NumberOf(before) * TenTo[decimals] + NumberOf(PadFraction(fraction, decimals))
  BY <1>2, <1>6
<1> QED BY <1>1, <1>2, <1>4, <1>5, <1>7 DEF fraction

(* What is parsed is what the text says, if it has a digit.                    *)
LEMMA ParsedExactly ==
  ASSUME NEW text \in Seq(Characters), NEW decimals \in Nat,
         NEW value \in ParseHumanAmount(text, decimals)
  PROVE  (HasDigit(text) => Denotes(text, decimals, value)) /\ value \in Nat
<1>1. Head(text) # Minus
  BY ParsedAmount
<1>2. PICK before \in Seq(Digits), fraction \in Seq(Digits) :
        /\ FractionOf(text) = fraction /\ Len(fraction) <= decimals
        /\ RemoveFirst(text, Point) = before \o fraction
        /\ value = NumberOf(before) * TenTo[decimals] + NumberOf(PadFraction(fraction, decimals))
  BY ParsedAmount
<1> DEFINE l == Len(fraction)
           m == decimals - l
           a == NumberOf(before)
           b == NumberOf(fraction)
<1>3. l \in Nat /\ m \in Nat /\ a \in Nat /\ b \in Nat /\ decimals = m + l
  BY <1>2, LenProperties, DigitsAreNumbers, NumberOfIsNat
<1>4. NumberOf(before \o fraction) = a * TenTo[l] + b
  BY DigitsAreNumbers, NumberOfConcat
<1>5. NumberOf(PadFraction(fraction, decimals)) = b * TenTo[m]
  BY <1>3, Padded DEF PadFraction
<1> HIDE DEF l, m, a, b
<1>6. TenTo[decimals] = TenTo[m] * TenTo[l] /\ TenTo[m] \in Nat /\ TenTo[l] \in Nat
  BY <1>3, TenToAdds, TenToValues
<1>7. value = a * (TenTo[m] * TenTo[l]) + b * TenTo[m]
  BY <1>2, <1>5, <1>6 DEF a
<1>8. ASSUME NEW x \in Nat, NEW y \in Nat
      PROVE  /\ (a * y + b) * (x * y) = (a * (x * y) + b * x) * y
             /\ a * (x * y) + b * x \in Nat
  BY <1>3
<1>9. (a * TenTo[l] + b) * (TenTo[m] * TenTo[l]) = value * TenTo[l] /\ value \in Nat
  BY <1>6, <1>7, <1>8
<1>10. NumberOf(RemoveFirst(text, Point)) * TenTo[decimals] = value * TenTo[Len(FractionOf(text))]
  BY <1>2, <1>4, <1>6, <1>9 DEF l
<1> QED BY <1>1, <1>9, <1>10 DEF Denotes

-----------------------------------------------------------------------------
(* Formatting: what is written is read back. *)

Written(whole, fraction) == IF fraction = <<>> THEN whole ELSE whole \o <<Point>> \o fraction

LEMMA WrittenParts ==
  ASSUME NEW whole \in Seq(Digits), whole # <<>>, NEW fraction \in Seq(Digits)
  PROVE  /\ Written(whole, fraction) \in Seq(Characters)
         /\ Written(whole, fraction) # <<>>
         /\ Head(Written(whole, fraction)) \in Digits /\ Head(Written(whole, fraction)) # Minus
         /\ WholeOf(Written(whole, fraction)) = whole
         /\ FractionOf(Written(whole, fraction)) = fraction
<1>1. /\ Digits \subseteq Characters /\ Point \in Characters
      /\ Minus \notin Digits /\ Point \notin Digits /\ Point # Minus
  BY DEF Digits, Characters, Point, Minus, Plus
<1>2. whole \in Seq(Characters) /\ fraction \in Seq(Characters)
  BY <1>1, SeqMonotonic
<1>3. Len(whole) \in Nat \ {0} /\ Len(fraction) \in Nat
  BY LenProperties, EmptySeq
<1>4. \A i \in 1 .. Len(whole) : whole[i] \in Digits
  BY ElementOfSeq
<1>5. CASE fraction = <<>>
  <2>1. Written(whole, fraction) = whole
    BY <1>5 DEF Written
  <2>2. ~Contains(whole, Point)
    BY <1>1, <1>4 DEF Contains
  <2>3. WholeOf(whole) = whole /\ FractionOf(whole) = <<>>
    BY <2>2 DEF WholeOf, FractionOf
  <2>4. Head(whole) \in Digits
    BY HeadTailProperties
  <2> QED BY <1>1, <1>2, <1>5, <2>1, <2>3, <2>4
<1>6. CASE fraction # <<>>
  <2> DEFINE text == whole \o <<Point>> \o fraction
             n == Len(whole)
             start == whole \o <<Point>>
  <2>1. Written(whole, fraction) = text
    BY <1>6 DEF Written
  <2>2. <<Point>> \in Seq(Characters) /\ Len(<<Point>>) = 1 /\ <<Point>>[1] = Point
    BY <1>1
  <2>3. /\ start \in Seq(Characters) /\ Len(start) = n + 1
        /\ \A i \in 1 .. n + 1 : start[i] = IF i <= n THEN whole[i] ELSE <<Point>>[i - n]
    BY <1>2, <2>2, ConcatProperties
  <2> HIDE DEF start
  <2>4. /\ start \o fraction \in Seq(Characters) /\ Len(start \o fraction) = Len(start) + Len(fraction)
        /\ \A i \in 1 .. Len(start) + Len(fraction) :
             (start \o fraction)[i] = IF i <= Len(start) THEN start[i] ELSE fraction[i - Len(start)]
    <3>1. start \in Seq(Characters) /\ fraction \in Seq(Characters)
      BY <1>2, <2>3
    <3> QED BY ONLY <3>1, ConcatProperties
  <2>5. text = start \o fraction
    BY DEF start
  <2> HIDE DEF text
  <2>6. text \in Seq(Characters) /\ Len(text) = n + 1 + Len(fraction) /\ Len(text) \in Nat
    BY <1>3, <2>3, <2>4, <2>5
  <2>7. \A i \in 1 .. n : text[i] = whole[i]
    <3> SUFFICES ASSUME NEW i \in 1 .. n PROVE text[i] = whole[i]
      OBVIOUS
    <3>1. i \in 1 .. n + 1 /\ i <= n /\ i \in 1 .. Len(start) + Len(fraction) /\ i <= Len(start)
      BY <1>3, <2>3
    <3> QED BY <2>3, <2>4, <2>5, <3>1
  <2>8. text[n + 1] = Point
    <3>1. /\ n + 1 \in 1 .. n + 1 /\ ~(n + 1 <= n) /\ n + 1 - n = 1
          /\ n + 1 \in 1 .. Len(start) + Len(fraction) /\ n + 1 <= Len(start)
      BY <1>3, <2>3
    <3>2. start[n + 1] = <<Point>>[n + 1 - n]
      BY <2>3, <3>1
    <3> QED BY <2>2, <2>4, <2>5, <3>1, <3>2
  <2>9. \A i \in 1 .. Len(fraction) : text[n + 1 + i] = fraction[i]
    <3> SUFFICES ASSUME NEW i \in 1 .. Len(fraction) PROVE text[n + 1 + i] = fraction[i]
      OBVIOUS
    <3> DEFINE j == n + 1 + i
    <3>1. /\ j \in 1 .. Len(start) + Len(fraction) /\ ~(j <= Len(start)) /\ j - Len(start) = i
      BY <1>3, <2>3
    <3> HIDE DEF j
    <3>2. text[j] = fraction[j - Len(start)]
      BY <2>4, <2>5, <3>1
    <3> QED BY <3>1, <3>2 DEF j
  <2>10. Contains(text, Point)
    BY <1>3, <2>6, <2>8 DEF Contains
  <2>11. PointOf(text) = n + 1
    <3> DEFINE p == PointOf(text)
    <3>1. /\ p \in 1 .. Len(text) /\ text[p] = Point
          /\ \A i \in 1 .. Len(text) : text[i] = Point => p <= i
      BY <2>6, <2>10, AtThePoint
    <3> HIDE DEF p
    <3>2. p <= n + 1
      BY <1>3, <2>6, <2>8, <3>1
    <3>3. p \notin 1 .. n
      BY <1>1, <1>4, <2>7, <3>1
    <3>4. p = n + 1
      BY <1>3, <3>1, <3>2, <3>3
    <3> QED BY <3>4 DEF p
  <2>12. SubSeq(text, 1, n) = whole
    <3>1. \A i \in 1 .. n : text[i] \in Digits
      BY <1>4, <2>7
    <3>2. /\ SubSeq(text, 1, n) \in Seq(Digits)
          /\ Len(SubSeq(text, 1, n)) = IF 1 <= n THEN n - 1 + 1 ELSE 0
          /\ \A i \in 1 .. n - 1 + 1 : SubSeq(text, 1, n)[i] = text[1 + i - 1]
      BY <1>3, <3>1, SubSeqProperties
    <3>3. Len(SubSeq(text, 1, n)) = n
      BY <1>3, <3>2
    <3>4. \A i \in 1 .. n : SubSeq(text, 1, n)[i] = whole[i]
      <4> SUFFICES ASSUME NEW i \in 1 .. n PROVE SubSeq(text, 1, n)[i] = whole[i]
        OBVIOUS
      <4>1. i \in 1 .. n - 1 + 1 /\ 1 + i - 1 = i
        BY <1>3
      <4> QED BY <2>7, <3>2, <4>1
    <3> QED BY <3>2, <3>3, <3>4, SeqEqual
  <2>13. SubSeq(text, n + 2, Len(text)) = fraction
    <3> DEFINE s == SubSeq(text, n + 2, Len(text))
    <3>1. \A i \in n + 2 .. Len(text) : text[i] \in Characters
      <4>1. \A i \in n + 2 .. Len(text) : i \in 1 .. Len(text)
        BY <1>3, <2>6
      <4> QED BY <2>6, <4>1, ElementOfSeq
    <3>2. n + 2 \in Int /\ Len(text) \in Int /\ Len(text) - (n + 2) + 1 = Len(fraction)
      BY <1>3, <2>6
    <3>3. /\ s \in Seq(Characters)
          /\ Len(s) = IF n + 2 <= Len(text) THEN Len(text) - (n + 2) + 1 ELSE 0
          /\ \A i \in 1 .. Len(text) - (n + 2) + 1 : s[i] = text[n + 2 + i - 1]
      BY <3>1, <3>2, SubSeqProperties
    <3> HIDE DEF s
    <3>4. Len(s) = Len(fraction)
      BY <1>3, <2>6, <3>2, <3>3
    <3>5. \A i \in 1 .. Len(s) : s[i] = fraction[i]
      <4> SUFFICES ASSUME NEW i \in 1 .. Len(fraction) PROVE s[i] = fraction[i]
        BY <3>4
      <4>1. n + 2 + i - 1 = n + 1 + i
        BY <1>3
      <4> QED BY <2>9, <3>2, <3>3, <4>1
    <3>6. s = fraction
      BY <1>2, <3>3, <3>4, <3>5, SeqEqual
    <3> QED BY <3>6 DEF s
  <2>14. n + 1 - 1 = n /\ n + 1 + 1 = n + 2
    BY <1>3
  <2>15. WholeOf(text) = whole /\ FractionOf(text) = fraction
    <3>1. PointOf(text) - 1 = n /\ PointOf(text) + 1 = n + 2
      BY <2>11, <2>14
    <3>2. /\ WholeOf(text) = IF SubSeq(text, 1, PointOf(text) - 1) = <<>> THEN <<0>>
                             ELSE SubSeq(text, 1, PointOf(text) - 1)
          /\ FractionOf(text) = SubSeq(text, PointOf(text) + 1, Len(text))
      BY <2>6, <2>10, AtThePoint
    <3>3. /\ WholeOf(text) = IF SubSeq(text, 1, n) = <<>> THEN <<0>> ELSE SubSeq(text, 1, n)
          /\ FractionOf(text) = SubSeq(text, n + 2, Len(text))
      BY <3>1, <3>2
    <3> QED BY <2>12, <2>13, <3>3
  <2>16. text # <<>> /\ Head(text) \in Digits /\ Head(text) # Minus
    <3>1. text # <<>>
      BY <1>3, <2>6, EmptySeq
    <3>2. Head(text) = text[1]
      BY <2>6, <3>1
    <3>3. text[1] \in Digits
      BY <1>3, <1>4, <2>7
    <3> QED BY <1>1, <3>1, <3>2, <3>3
  <2> QED BY <2>1, <2>6, <2>15, <2>16
<1> QED BY <1>5, <1>6

LEMMA WrittenHasDigit ==
  ASSUME NEW whole \in Seq(Digits), whole # <<>>, NEW fraction \in Seq(Digits)
  PROVE  HasDigit(Written(whole, fraction))
<1> DEFINE text == Written(whole, fraction)
<1>1. text \in Seq(Characters) /\ text # <<>> /\ Head(text) \in Digits
  BY WrittenParts
<1> HIDE DEF text
<1>2. 1 \in DOMAIN text /\ text[1] = Head(text)
  BY <1>1
<1>3. HasDigit(text)
  BY <1>1, <1>2 DEF HasDigit, Digits
<1> QED BY <1>3 DEF text

LEMMA WrittenIsParsed ==
  ASSUME NEW whole \in Seq(Digits), whole # <<>>, NEW fraction \in Seq(Digits),
         NEW decimals \in Nat, Len(fraction) <= decimals
  PROVE  ParseHumanAmount(Written(whole, fraction), decimals)
           = {NumberOf(whole) * TenTo[decimals] + NumberOf(PadFraction(fraction, decimals))}
<1>1. IsDecimalDigits(whole) /\ (fraction # <<>> => IsDecimalDigits(fraction))
  BY OnlyDigits
<1> QED BY <1>1, WrittenParts DEF ParseHumanAmount

LEMMA FormattedReadsBack ==
  ASSUME NEW n \in Nat, NEW decimals \in Nat
  PROVE  LET text == FormatMagnitude(n, decimals)
         IN /\ text \in Seq(Characters) /\ text # <<>> /\ Head(text) # Minus /\ HasDigit(text)
            /\ ParseHumanAmount(text, decimals) = {n}
<1> DEFINE scale == TenTo[decimals]
           q == n \div scale
           r == n % scale
           whole == DigitsOf[q]
           padded == PadDigits(DigitsOf[r], decimals)
           fraction == TrimRightZeros(padded)
<1>1. scale \in Nat /\ scale > 0
  BY TenToValues
<1>2. q \in Nat /\ r \in Nat /\ r < scale /\ n = q * scale + r
  <2> HIDE DEF scale
  <2> QED BY <1>1
<1> HIDE DEF q, r
<1>3. whole \in Seq(Digits) /\ whole # <<>> /\ NumberOf(whole) = q
  BY <1>2, DigitsOfShape
<1> HIDE DEF whole
<1>4. <<>> \in Seq(Digits) /\ Len(<<>>) = 0
  BY EmptySeq
<1>5. CASE decimals = 0
  <2>1. FormatMagnitude(n, decimals) = Written(whole, <<>>)
    BY <1>5 DEF FormatMagnitude, Written, whole, q
  <2>2. scale = 1 /\ r = 0
    BY <1>2, <1>5, TenToValues
  <2>3. NumberOf(PadFraction(<<>>, decimals)) = 0
    <3>1. PadFraction(<<>>, decimals) = <<>> \o Zeros(0)
      BY <1>4, <1>5 DEF PadFraction
    <3>2. NumberOf(<<>> \o Zeros(0)) = NumberOf(<<>>) * TenTo[0]
      BY <1>4, 0 \in Nat, Padded
    <3> QED BY <3>1, <3>2, NumberOfEmpty, TenToValues
  <2>4. ParseHumanAmount(Written(whole, <<>>), decimals) = {NumberOf(whole) * scale + 0}
    <3>1. Len(<<>>) <= decimals
      BY <1>4
    <3>2. ParseHumanAmount(Written(whole, <<>>), decimals)
            = {NumberOf(whole) * TenTo[decimals] + NumberOf(PadFraction(<<>>, decimals))}
      BY <1>3, <1>4, <3>1, WrittenIsParsed
    <3> QED BY <2>3, <3>2
  <2>5. NumberOf(whole) * scale + 0 = n
    BY <1>2, <1>3, <2>2
  <2> QED BY <1>3, <1>4, <2>1, <2>4, <2>5, WrittenParts, WrittenHasDigit
<1>6. CASE decimals # 0
  <2>1. /\ DigitsOf[r] \in Seq(Digits) /\ NumberOf(DigitsOf[r]) = r
        /\ Len(DigitsOf[r]) \in Nat /\ Len(DigitsOf[r]) <= decimals
    BY <1>2, <1>6, DigitsOfShape, LenProperties
  <2>2. decimals - Len(DigitsOf[r]) \in Nat
    BY <2>1
  <2>3. padded \in Seq(Digits) /\ Len(padded) = decimals /\ NumberOf(padded) = r
    <3>1. /\ padded \in Seq(Digits) /\ NumberOf(padded) = NumberOf(DigitsOf[r])
          /\ Len(padded) = (decimals - Len(DigitsOf[r])) + Len(DigitsOf[r])
      BY <2>1, <2>2, Padded DEF PadDigits
    <3> QED BY <2>1, <3>1
  <2> HIDE DEF padded
  <2>4. fraction \in Seq(Digits) /\ Len(fraction) <= decimals /\ PadFraction(fraction, decimals) = padded
    BY <2>3, Trimmed
  <2>5. FormatMagnitude(n, decimals) = Written(whole, fraction)
    BY <1>6 DEF FormatMagnitude, Written, whole, padded, q, r
  <2> HIDE DEF fraction
  <2>6. ParseHumanAmount(Written(whole, fraction), decimals) = {NumberOf(whole) * scale + r}
    BY <1>3, <2>3, <2>4, WrittenIsParsed
  <2>7. NumberOf(whole) * scale + r = n
    BY <1>2, <1>3
  <2> QED BY <1>3, <2>4, <2>5, <2>6, <2>7, WrittenParts, WrittenHasDigit
<1> QED BY <1>5, <1>6

(* What is shown says the value, also a negative one.                          *)
LEMMA FormattedExactly ==
  ASSUME NEW value \in Int, NEW decimals \in Nat
  PROVE  LET text == FormatTokenValue(value, decimals)
         IN text \in Seq(Characters) /\ Denotes(text, decimals, value)
<1>1. CASE value >= 0
  <2> DEFINE text == FormatMagnitude(value, decimals)
  <2>1. value \in Nat /\ FormatTokenValue(value, decimals) = text
    BY <1>1 DEF FormatTokenValue
  <2>2. text \in Seq(Characters) /\ HasDigit(text) /\ ParseHumanAmount(text, decimals) = {value}
    BY <2>1, FormattedReadsBack
  <2> HIDE DEF text
  <2>3. value \in ParseHumanAmount(text, decimals)
    BY <2>2
  <2>4. Denotes(text, decimals, value)
    BY <2>2, <2>3, ParsedExactly
  <2> QED BY <2>1, <2>2, <2>4
<1>2. CASE value < 0
  <2> DEFINE size == - value
             unsigned == FormatMagnitude(size, decimals)
             text == <<Minus>> \o unsigned
  <2>1. size \in Nat /\ FormatTokenValue(value, decimals) = text
    BY <1>2 DEF FormatTokenValue
  <2> HIDE DEF size
  <2>2. /\ unsigned \in Seq(Characters) /\ unsigned # <<>> /\ Head(unsigned) # Minus
        /\ HasDigit(unsigned) /\ ParseHumanAmount(unsigned, decimals) = {size}
    BY <2>1, FormattedReadsBack
  <2> HIDE DEF unsigned
  <2>3. size \in ParseHumanAmount(unsigned, decimals)
    BY <2>2
  <2>4. Denotes(unsigned, decimals, size)
    BY <2>2, <2>3, ParsedExactly
  <2>5. Minus \in Characters
    BY DEF Minus, Characters, Plus
  <2>6. /\ text \in Seq(Characters) /\ text # <<>> /\ Head(text) = Minus /\ Tail(text) = unsigned
    BY <2>2, <2>5
  <2>11. HasDigit(text)
    <3>1. PICK i \in DOMAIN unsigned : unsigned[i] \in 0 .. 9
      BY <2>2 DEF HasDigit
    <3>2. i + 1 \in DOMAIN text /\ text[i + 1] = unsigned[i]
      BY <2>2, <2>5
    <3> QED BY <3>1, <3>2 DEF HasDigit
  <2> HIDE DEF text
  <2> DEFINE number == NumberOf(RemoveFirst(unsigned, Point))
             l == Len(FractionOf(unsigned))
  <2>7. number * TenTo[decimals] = size * TenTo[l]
    BY <2>2, <2>4 DEF Denotes
  <2>8. TenTo[l] \in Nat
    <3>1. l \in Nat
      BY <2>2, PartsOfText, LenProperties
    <3> HIDE DEF l
    <3> QED BY <3>1, TenToValues
  <2>9. - (size * TenTo[l]) = value * TenTo[l]
    <3> HIDE DEF l
    <3> QED BY <2>1, <2>8 DEF size
  <2>10. Denotes(text, decimals, value)
    <3>1. Denotes(text, decimals, value) <=> - (number * TenTo[decimals]) = value * TenTo[l]
      BY <2>6, <2>11 DEF Denotes
    <3> QED BY <2>7, <2>9, <3>1
  <2> QED BY <2>1, <2>6, <2>10
<1> QED BY <1>1, <1>2

-----------------------------------------------------------------------------
(* The commands. *)

AtMostOne(S) == \A x, y \in S : x = y

\* What sign read, and that the value was read from it.
TypedValue ==
  /\ AtMostOne(typed)
  /\ \A t \in typed :
       /\ t.amount \in Seq(Characters)
       /\ t.decimals \subseteq Nat /\ AtMostOne(t.decimals)
       /\ \A v \in message : v \in ParseTokenValue(t.value, t.amount, t.decimals)

Formatted(values, decimals) == {FormatTokenValue(v, d) : v \in values, d \in decimals}

\* What extract made of the value.
ShownValue ==
  /\ AtMostOne(shown)
  /\ \A s \in shown :
       /\ s.decimals \subseteq Nat /\ AtMostOne(s.decimals)
       /\ s.valueFormatted = Formatted(message, s.decimals)

\* Strengthens the three properties: it says where each value comes from.
AmountInv ==
  /\ message \subseteq Int /\ AtMostOne(message)
  /\ TypedValue
  /\ ShownValue

LEMMA FlagDecimals ==
  ASSUME NEW flag \in Int, NEW decimals \in DecimalsPtr(flag)
  PROVE  decimals \subseteq Nat /\ AtMostOne(decimals)
BY AmountsAssumption DEF DecimalsPtr, AtMostOne

\* No value that sign takes is negative.
LEMMA SignedIsNat ==
  ASSUME NEW value, NEW amount \in Seq(Characters), NEW decimals \in SUBSET Nat,
         NEW result \in ParseTokenValue(value, amount, decimals)
  PROVE  result \in Nat
<1>1. CASE value # <<>> /\ amount = <<>>
  BY <1>1 DEF ParseTokenValue
<1>2. CASE value = <<>> /\ amount # <<>>
  <2>1. PICK d \in decimals : result \in ParseHumanAmount(amount, d)
    BY <1>2 DEF ParseTokenValue
  <2> QED BY <2>1, ParsedExactly
<1>3. CASE ~(value # <<>> /\ amount = <<>>) /\ ~(value = <<>> /\ amount # <<>>)
  BY <1>3 DEF ParseTokenValue
<1> QED BY <1>1, <1>2, <1>3

LEMMA SignKeeps ==
  ASSUME NEW value, NEW amount \in Seq(Characters), NEW flag \in Int, Sign(value, amount, flag)
  PROVE  AmountInv'
<1>0. PICK decimals \in DecimalsPtr(flag) :
        \E result \in ParseTokenValue(value, amount, decimals) :
          /\ typed' = {[value |-> value, amount |-> amount, decimals |-> decimals]}
          /\ message' = {result}
          /\ shown' = {}
  BY DEF Sign
<1>1. PICK result \in ParseTokenValue(value, amount, decimals) :
        /\ typed' = {[value |-> value, amount |-> amount, decimals |-> decimals]}
        /\ message' = {result}
        /\ shown' = {}
  BY <1>0
<1>2. decimals \in SUBSET Nat /\ AtMostOne(decimals)
  BY FlagDecimals
<1>3. result \in Int
  BY <1>2, SignedIsNat
<1>4. message' \subseteq Int /\ AtMostOne(message')
  BY <1>1, <1>3 DEF AtMostOne
<1>5. TypedValue'
  <2> DEFINE t == [value |-> value, amount |-> amount, decimals |-> decimals]
  <2>1. t.value = value /\ t.amount = amount /\ t.decimals = decimals
    OBVIOUS
  <2> HIDE DEF t
  <2>2. typed' = {t}
    BY <1>1 DEF t
  <2>3. AtMostOne(typed')
    BY <2>2 DEF AtMostOne
  <2>4. \A v \in message' : v \in ParseTokenValue(t.value, t.amount, t.decimals)
    BY <1>1, <2>1
  <2> QED BY <1>2, <2>1, <2>2, <2>3, <2>4 DEF TypedValue
<1>6. ShownValue'
  BY <1>1 DEF ShownValue, AtMostOne
<1> QED BY <1>4, <1>5, <1>6 DEF AmountInv

LEMMA ImportKeeps ==
  ASSUME NEW values \in {{}} \cup {{n} : n \in ImportedValues}, Import(values)
  PROVE  AmountInv'
<1>1. values \subseteq Int /\ AtMostOne(values)
  BY AmountsAssumption DEF AtMostOne
<1>2. typed' = {} /\ message' = values /\ shown' = {}
  BY DEF Import
<1>3. TypedValue' /\ ShownValue'
  BY <1>2 DEF TypedValue, ShownValue, AtMostOne
<1> QED BY <1>1, <1>2, <1>3 DEF AmountInv

LEMMA ExtractKeeps ==
  ASSUME NEW flag \in Int, NEW symbol, NEW rpc \in BOOLEAN, AmountInv, Extract(flag, symbol, rpc)
  PROVE  AmountInv'
<1>1. PICK given \in DecimalsPtr(flag) :
        /\ \E found : shown' = {ExtractionObject(IF rpc /\ given = {} THEN {TokenDecimals} ELSE given, found)}
        /\ UNCHANGED <<typed, message>>
  BY Zenon DEF Extract
<1> DEFINE decimals == IF rpc /\ given = {} THEN {TokenDecimals} ELSE given
           texts == Formatted(message, decimals)
<1>2. decimals \subseteq Nat /\ AtMostOne(decimals)
  <2>1. given \subseteq Nat /\ AtMostOne(given)
    BY FlagDecimals
  <2>2. {TokenDecimals} \subseteq Nat /\ AtMostOne({TokenDecimals})
    BY AmountsAssumption DEF AtMostOne
  <2> QED BY <2>1, <2>2
<1>3. PICK s : shown' = {s} /\ s.decimals = decimals /\ s.valueFormatted = texts
  <2>1. PICK found : shown' = {ExtractionObject(decimals, found)}
    BY <1>1
  <2> HIDE DEF decimals
  <2>2. /\ ExtractionObject(decimals, found).decimals = decimals
        /\ ExtractionObject(decimals, found).valueFormatted = texts
    BY DEF ExtractionObject, Formatted
  <2> HIDE DEF texts
  <2> QED BY <2>1, <2>2
<1>4. message' = message /\ typed' = typed
  BY <1>1
<1>5. texts = Formatted(message', decimals)
  BY <1>4
<1> HIDE DEF texts, decimals
<1>6. ShownValue'
  <2>1. AtMostOne(shown') /\ \A r \in shown' : r = s
    BY <1>3 DEF AtMostOne
  <2>2. s.valueFormatted = Formatted(message', s.decimals)
    BY <1>3, <1>5
  <2> QED BY <1>2, <1>3, <2>1, <2>2 DEF ShownValue
<1>7. TypedValue'
  BY <1>4 DEF AmountInv, TypedValue
<1> QED BY <1>4, <1>6, <1>7 DEF AmountInv

\* The texts to be copied are those of the message, in the decimals shown.
LEMMA ShownTextsShape ==
  ASSUME AmountInv
  PROVE  /\ \A text \in ShownTexts : text \in Seq(Characters)
         /\ \A s \in shown, v \in message, text \in ShownTexts : \A d \in s.decimals :
              d \in Nat /\ v \in Int /\ text = FormatTokenValue(v, d)
<1>1. ASSUME NEW text \in ShownTexts
      PROVE  \E s \in shown, v \in message : \E d \in s.decimals : text = FormatTokenValue(v, d)
  <2>1. PICK s \in shown : text \in s.valueFormatted
    BY <1>1 DEF ShownTexts
  <2>2. text \in {FormatTokenValue(v, d) : v \in message, d \in s.decimals}
    BY <2>1 DEF AmountInv, ShownValue, Formatted
  <2> QED BY <2>2
<1>2. ASSUME NEW text \in ShownTexts
      PROVE  text \in Seq(Characters)
  <2>1. PICK s \in shown, v \in message : \E d \in s.decimals : text = FormatTokenValue(v, d)
    BY <1>1
  <2>2. PICK d \in s.decimals : text = FormatTokenValue(v, d)
    BY <2>1
  <2>3. v \in Int /\ d \in Nat
    BY DEF AmountInv, ShownValue
  <2> QED BY <2>2, <2>3, FormattedExactly
<1>3. ASSUME NEW s \in shown, NEW v \in message, NEW text \in ShownTexts, NEW d \in s.decimals
      PROVE  d \in Nat /\ v \in Int /\ text = FormatTokenValue(v, d)
  <2>1. PICK r \in shown, w \in message : \E e \in r.decimals : text = FormatTokenValue(w, e)
    BY <1>1
  <2>2. PICK e \in r.decimals : text = FormatTokenValue(w, e)
    BY <2>1
  <2>3. r = s /\ w = v
    BY DEF AmountInv, ShownValue, AtMostOne
  <2>4. e = d
    BY <2>3 DEF AmountInv, ShownValue, AtMostOne
  <2>5. v \in Int /\ d \in Nat
    BY DEF AmountInv, ShownValue
  <2> QED BY <2>2, <2>3, <2>4, <2>5
<1> QED BY <1>2, <1>3

LEMMA AmountInvInitially ==
  ASSUME Init
  PROVE  AmountInv
BY DEF Init, AmountInv, TypedValue, ShownValue, AtMostOne

LEMMA AmountInvKept ==
  ASSUME AmountInv, [Next]_vars
  PROVE  AmountInv'
<1>0. <<>> \in Seq(Characters)
  BY EmptySeq
<1>1. CASE \E text \in Texts, flag \in DecimalsFlags : Sign(<<>>, text, flag)
  <2>1. PICK text \in Texts, flag \in DecimalsFlags : Sign(<<>>, text, flag)
    BY <1>1
  <2> QED BY <2>1, SignKeeps, AmountsAssumption
<1>2. CASE \E text \in Texts, flag \in DecimalsFlags : Sign(text, <<>>, flag)
  <2>1. PICK text \in Texts, flag \in DecimalsFlags : Sign(text, <<>>, flag)
    BY <1>2
  <2> QED BY <1>0, <2>1, SignKeeps, AmountsAssumption
<1>3. CASE \E text \in ShownTexts, s \in shown : \E flag \in s.decimals : Sign(<<>>, text, flag)
  <2>1. PICK text \in ShownTexts, s \in shown : \E flag \in s.decimals : Sign(<<>>, text, flag)
    BY <1>3
  <2>2. PICK flag \in s.decimals : Sign(<<>>, text, flag)
    BY <2>1
  <2>3. text \in Seq(Characters) /\ flag \in Int
    BY ShownTextsShape DEF AmountInv, ShownValue
  <2> QED BY <2>2, <2>3, SignKeeps
<1>4. CASE \E values \in {{}} \cup {{n} : n \in ImportedValues} : Import(values)
  BY <1>4, ImportKeeps
<1>5. CASE \E flag \in DecimalsFlags, symbol \in {"", TokenSymbol}, rpc \in BOOLEAN :
             Extract(flag, symbol, rpc)
  <2>1. PICK flag \in DecimalsFlags, symbol \in {"", TokenSymbol}, rpc \in BOOLEAN :
          Extract(flag, symbol, rpc)
    BY <1>5
  <2>2. flag \in Int
    BY AmountsAssumption
  <2> QED BY <2>1, <2>2, ExtractKeeps
<1>6. CASE UNCHANGED vars
  BY <1>6 DEF vars, AmountInv, TypedValue, ShownValue
<1> QED BY <1>1, <1>2, <1>3, <1>4, <1>5, <1>6 DEF Next

LEMMA AmountInvAlways == Spec => []AmountInv
<1>1. Init => AmountInv
  BY AmountInvInitially
<1>2. AmountInv /\ [Next]_vars => AmountInv'
  BY AmountInvKept
<1> QED BY <1>1, <1>2, PTL DEF Spec

(* The value that is signed is the amount that was typed, if it has a digit,   *)
(* to the last unit, whatever its length and the decimals (ParseHumanAmount).  *)
THEOREM TypedIsSigned == Spec => []TypedAmountExact
<1>1. ASSUME AmountInv
      PROVE  TypedAmountExact
  <2> SUFFICES ASSUME NEW t \in typed, NEW v \in message, NEW d \in UNION {s.decimals : s \in typed},
                      HasDigit(t.amount)
               PROVE  Denotes(t.amount, d, v)
    BY DEF TypedAmountExact
  <2>0. t.amount # <<>>
    BY DEF HasDigit
  <2>1. PICK s \in typed : d \in s.decimals
    OBVIOUS
  <2>2. s = t
    BY <1>1 DEF AmountInv, TypedValue, AtMostOne
  <2>3. /\ t.amount \in Seq(Characters) /\ d \in Nat
        /\ v \in ParseTokenValue(t.value, t.amount, t.decimals)
        /\ \A e \in t.decimals : e = d
    BY <1>1, <2>1, <2>2 DEF AmountInv, TypedValue, AtMostOne
  <2>4. v \in ParseHumanAmount(t.amount, d)
    <3>1. t.value = <<>> /\ v \in UNION {ParseHumanAmount(t.amount, e) : e \in t.decimals}
      BY <2>0, <2>3 DEF ParseTokenValue
    <3>2. PICK e \in t.decimals : v \in ParseHumanAmount(t.amount, e)
      BY <3>1
    <3> QED BY <2>3, <3>2
  <2> QED BY <2>3, <2>4, ParsedExactly
<1> QED BY <1>1, AmountInvAlways, PTL

(* What extract shows is the value of the message, a negative one of another   *)
(* program included (FormatTokenValue).                                        *)
THEOREM ShownIsMeant == Spec => []ShownExact
<1>1. ASSUME AmountInv
      PROVE  ShownExact
  <2> SUFFICES ASSUME NEW s \in shown, NEW v \in message, NEW text \in ShownTexts,
                      NEW d \in s.decimals
               PROVE  Denotes(text, d, v)
    BY DEF ShownExact
  <2>1. d \in Nat /\ v \in Int /\ text = FormatTokenValue(v, d)
    BY <1>1, ShownTextsShape
  <2> QED BY <2>1, FormattedExactly
<1> QED BY <1>1, AmountInvAlways, PTL

(* What extract shows, typed as the amount of the next command, is the value   *)
(* again (FormatTokenValue and ParseTokenValue).                               *)
THEOREM ShownIsReadBack == Spec => []ShownReadsBack
<1>1. ASSUME AmountInv
      PROVE  ShownReadsBack
  <2> SUFFICES ASSUME NEW s \in shown, NEW v \in message \cap Nat, NEW text \in ShownTexts,
                      NEW d \in s.decimals
               PROVE  ParseTokenValue(<<>>, text, {d}) = {v}
    BY DEF ShownReadsBack
  <2>1. d \in Nat /\ v \in Nat /\ text = FormatTokenValue(v, d)
    BY <1>1, ShownTextsShape
  <2>2. text = FormatMagnitude(v, d)
    BY <2>1 DEF FormatTokenValue
  <2>3. text # <<>> /\ ParseHumanAmount(text, d) = {v}
    BY <2>1, <2>2, FormattedReadsBack
  <2>4. ParseTokenValue(<<>>, text, {d}) = UNION {ParseHumanAmount(text, e) : e \in {d}}
    BY <2>3 DEF ParseTokenValue
  <2> QED BY <2>3, <2>4
<1> QED BY <1>1, AmountInvAlways, PTL
===============================================================================
