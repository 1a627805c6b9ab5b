------------------------------- MODULE FoldLemmas -------------------------------
(***************************************************************************)
(* Recursion and induction, and what folds and sums over a finite set are. *)
(* The folds of the community modules are defined by a recursive CHOOSE.   *)
(* The library states recursion and induction for an operator, which no    *)
(* prover can instantiate; here both are stated for sets: the step of a    *)
(* recursion is a function, what is proved by induction is that a set of   *)
(* counterexamples has no minimal element.                                 *)
(***************************************************************************)
EXTENDS Integers, FiniteSets, Functions, FiniteSetTheorems, WellFoundedInduction, TLAPS

(***************************************************************************)
(* Recursion over a well-founded, transitive relation.  The step is a      *)
(* function of a candidate and an argument, which reads the candidate only *)
(* below the argument.                                                     *)
(***************************************************************************)
ReadsBelow(R, S, V, step) ==
  \A x \in S : \A g, h \in [S -> V] :
    (\A y \in S : <<y, x>> \in R => g[y] = h[y]) => step[<<g, x>>] = step[<<h, x>>]

\* g obeys the recursion at x and below.
Obeys(R, S, step, g, x) ==
  \A y \in S : y = x \/ <<y, x>> \in R => g[y] = step[<<g, y>>]

LEMMA ObeysUnique ==
  ASSUME NEW R, NEW S, IsWellFoundedOn(R, S), IsTransitivelyClosedOn(R, S),
         NEW V, NEW step, ReadsBelow(R, S, V, step),
         NEW x \in S, NEW g \in [S -> V], NEW h \in [S -> V],
         Obeys(R, S, step, g, x), Obeys(R, S, step, h, x)
  PROVE  g[x] = h[x]
<1> DEFINE Differ == {y \in S : (y = x \/ <<y, x>> \in R) /\ g[y] # h[y]}
<1>1. SUFFICES ASSUME Differ # {} PROVE FALSE
  OBVIOUS
<1>2. PICK y \in Differ : \A z \in Differ : <<z, y>> \notin R
  <2>1. Differ \subseteq S
    OBVIOUS
  <2> HIDE DEF Differ
  <2> QED BY <1>1, <2>1, WFMin
<1>3. y \in S /\ (y = x \/ <<y, x>> \in R) /\ g[y] # h[y]
  BY <1>2
<1>4. ASSUME NEW z \in S, <<z, y>> \in R
      PROVE  g[z] = h[z]
  <2>1. <<z, x>> \in R
    BY <1>3, <1>4 DEF IsTransitivelyClosedOn
  <2> QED BY <1>2, <1>4, <2>1
<1>5. step[<<g, y>>] = step[<<h, y>>]
  BY <1>3, <1>4 DEF ReadsBelow
<1> QED BY <1>3, <1>5 DEF Obeys

LEMMA WFRecursion ==
  ASSUME NEW R, NEW S, IsWellFoundedOn(R, S), IsTransitivelyClosedOn(R, S),
         NEW V, NEW v0 \in V, NEW step, ReadsBelow(R, S, V, step),
         \A g \in [S -> V], x \in S : step[<<g, x>>] \in V
  PROVE  \E g \in [S -> V] : \A x \in S : g[x] = step[<<g, x>>]
<1> DEFINE Good(g, x) == g \in [S -> V] /\ Obeys(R, S, step, g, x)
           G(x) == CHOOSE g : Good(g, x)
           Solved(x) == \E g : Good(g, x)
           Joined(x) == [y \in S |-> IF <<y, x>> \in R THEN G(y)[y] ELSE v0]
<1>1. ASSUME NEW x \in S, \A y \in S : <<y, x>> \in R => Solved(y)
      PROVE  /\ Joined(x) \in [S -> V]
             /\ \A y \in S : <<y, x>> \in R => Joined(x)[y] = G(y)[y] /\ Obeys(R, S, step, Joined(x), y)
  <2>1. \A y \in S : <<y, x>> \in R => Good(G(y), y)
    BY <1>1
  <2>2. Joined(x) \in [S -> V]
    BY <2>1
  <2>3. \A y \in S : <<y, x>> \in R => Joined(x)[y] = G(y)[y]
    OBVIOUS
  <2>4. ASSUME NEW y \in S, <<y, x>> \in R
        PROVE  Joined(x)[y] = step[<<Joined(x), y>>]
    <3>1. ASSUME NEW z \in S, <<z, y>> \in R
          PROVE  G(y)[z] = Joined(x)[z]
      <4>1. <<z, x>> \in R
        BY <2>4, <3>1 DEF IsTransitivelyClosedOn
      <4>2. Good(G(y), y) /\ Good(G(z), z)
        BY <2>1, <2>4, <4>1
      <4>3. Obeys(R, S, step, G(y), z)
        BY <2>4, <3>1, <4>2 DEF Obeys, IsTransitivelyClosedOn
      <4> HIDE DEF Joined, G
      <4>4. G(y)[z] = G(z)[z]
        BY <4>2, <4>3, ObeysUnique
      <4> QED BY <2>3, <4>1, <4>4
    <3>2. step[<<G(y), y>>] = step[<<Joined(x), y>>]
      <4> HIDE DEF Joined, G
      <4> QED BY <2>1, <2>2, <2>4, <3>1 DEF ReadsBelow
    <3>3. G(y)[y] = step[<<G(y), y>>]
      <4> HIDE DEF G
      <4> QED BY <2>1, <2>4 DEF Obeys
    <3> HIDE DEF Joined, G
    <3> QED BY <2>3, <2>4, <3>2, <3>3
  <2>5. ASSUME NEW y \in S, <<y, x>> \in R
        PROVE  Obeys(R, S, step, Joined(x), y)
    <3> HIDE DEF Joined
    <3> QED BY <2>4, <2>5 DEF Obeys, IsTransitivelyClosedOn
  <2> HIDE DEF Joined, G
  <2> QED BY <2>2, <2>3, <2>5
<1>2. \A x \in S : Solved(x)
  <2> DEFINE Unsolved == {x \in S : ~Solved(x)}
  <2>1. SUFFICES ASSUME Unsolved # {} PROVE FALSE
    OBVIOUS
  <2>2. PICK x \in Unsolved : \A y \in Unsolved : <<y, x>> \notin R
    <3>1. Unsolved \subseteq S
      OBVIOUS
    <3> HIDE DEF Unsolved
    <3> QED BY <2>1, <3>1, WFMin
  <2>3. x \in S /\ ~Solved(x)
    BY <2>2
  <2>4. \A y \in S : <<y, x>> \in R => Solved(y)
    BY <2>2
  <2> DEFINE h == Joined(x)
             k == [h EXCEPT ![x] = step[<<h, x>>]]
  <2>5. h \in [S -> V] /\ \A y \in S : <<y, x>> \in R => Obeys(R, S, step, h, y)
    <3> HIDE DEF Solved, Joined, G
    <3> QED BY <1>1, <2>3, <2>4
  <2> HIDE DEF h
  <2>6. <<x, x>> \notin R
    BY <2>3, WellFoundedIsIrreflexive
  <2>7. k \in [S -> V] /\ k[x] = step[<<h, x>>] /\ \A y \in S : y # x => k[y] = h[y]
    BY <2>3, <2>5
  <2> HIDE DEF k
  <2>8. \A y \in S : <<y, x>> \in R => k[y] = h[y]
    BY <2>6, <2>7
  <2>9. step[<<k, x>>] = step[<<h, x>>]
    BY <2>3, <2>5, <2>7, <2>8 DEF ReadsBelow
  <2>10. ASSUME NEW y \in S, <<y, x>> \in R
         PROVE  k[y] = step[<<k, y>>]
    <3>1. \A z \in S : <<z, y>> \in R => k[z] = h[z]
      BY <2>3, <2>8, <2>10 DEF IsTransitivelyClosedOn
    <3>2. step[<<k, y>>] = step[<<h, y>>]
      BY <2>5, <2>7, <3>1 DEF ReadsBelow
    <3>3. h[y] = step[<<h, y>>]
      BY <2>5, <2>10 DEF Obeys
    <3> QED BY <2>8, <2>10, <3>2, <3>3
  <2>11. Good(k, x)
    BY <2>3, <2>7, <2>9, <2>10 DEF Obeys
  <2> QED BY <2>3, <2>11
<1> DEFINE g == [x \in S |-> G(x)[x]]
<1>3. \A x \in S : Good(G(x), x)
  BY <1>2
<1>4. g \in [S -> V]
  BY <1>3
<1>5. ASSUME NEW x \in S
      PROVE  g[x] = step[<<g, x>>]
  <2>1. ASSUME NEW y \in S, <<y, x>> \in R
        PROVE  G(x)[y] = g[y]
    <3>1. Good(G(x), x) /\ Good(G(y), y)
      BY <1>3
    <3>2. Obeys(R, S, step, G(x), y)
      BY <2>1, <3>1 DEF Obeys, IsTransitivelyClosedOn
    <3>3. g[y] = G(y)[y]
      OBVIOUS
    <3> HIDE DEF G, g
    <3> QED BY <3>1, <3>2, <3>3, ObeysUnique
  <2>2. g[x] = G(x)[x] /\ Good(G(x), x)
    BY <1>3
  <2> HIDE DEF g, G
  <2>3. step[<<G(x), x>>] = step[<<g, x>>]
    BY <1>4, <2>1, <2>2 DEF ReadsBelow
  <2> QED BY <2>2, <2>3 DEF Obeys
<1> HIDE DEF g
<1> QED BY <1>4, <1>5

-----------------------------------------------------------------------------
(* Every set of naturals has a least element, as the subsets of a finite set   *)
(* are well-founded.                                                           *)
LEMMA LeastNatural ==
  ASSUME NEW S \in SUBSET Nat, S # {}
  PROVE  \E n \in S : \A k \in S : n <= k
<1> DEFINE Below(n) == 0 .. n - 1
           Belows == {Below(n) : n \in S}
<1>1. Belows \subseteq FiniteSubsetsOf(Nat) /\ Belows # {}
  <2>1. \A n \in S : IsFiniteSet(Below(n)) /\ Below(n) \in SUBSET Nat
    BY FS_Interval
  <2> QED BY <2>1 DEF FiniteSubsetsOf
<1>2. PICK X \in Belows : \A Y \in Belows : <<Y, X>> \notin StrictSubsetOrdering(Nat)
  <2> HIDE DEF Belows
  <2> QED BY <1>1, WFMin, FS_StrictSubsetOrderingWellFounded
<1>3. PICK n \in S : X = Below(n)
  OBVIOUS
<1>4. ASSUME NEW k \in S, k < n
      PROVE  FALSE
  <2>1. Below(k) \subseteq Below(n) /\ k \in Below(n) /\ k \notin Below(k)
    BY <1>4
  <2>2. Below(k) \in SUBSET Nat /\ Below(n) \in SUBSET Nat /\ Below(k) \in Belows
    OBVIOUS
  <2> HIDE DEF Below, Belows
  <2>3. <<Below(k), Below(n)>> \in StrictSubsetOrdering(Nat)
    BY <2>1, <2>2 DEF StrictSubsetOrdering
  <2> QED BY <1>2, <1>3, <2>2, <2>3
<1> QED BY <1>4

(* Induction over the natural numbers.                                         *)
LEMMA NaturalInduction ==
  ASSUME NEW P, 0 \in P, \A n \in Nat : n \in P => n + 1 \in P
  PROVE  \A n \in Nat : n \in P
<1> DEFINE Bad == Nat \ P
<1>1. SUFFICES ASSUME Bad # {} PROVE FALSE
  OBVIOUS
<1>2. PICK n \in Bad : \A k \in Bad : n <= k
  <2>1. Bad \in SUBSET Nat
    OBVIOUS
  <2> HIDE DEF Bad
  <2> QED BY <1>1, <2>1, LeastNatural
<1>3. n \in Nat /\ n # 0 /\ n \notin P
  OBVIOUS
<1>4. n - 1 \in Nat /\ n - 1 \notin Bad
  BY <1>2, <1>3
<1>5. n - 1 \in P
  BY <1>4
<1> QED BY <1>3, <1>4, <1>5

\* Recursion over the natural numbers may use all that is less.
Less == {pair \in Nat \X Nat : pair[1] < pair[2]}

LEMMA LessIsWellFounded == IsWellFoundedOn(Less, Nat) /\ IsTransitivelyClosedOn(Less, Nat)
<1>1. ASSUME NEW T \in SUBSET Nat, T # {}
      PROVE  \E x \in T : \A y \in T : ~(<<y, x>> \in Less)
  <2>1. PICK x \in T : \A y \in T : x <= y
    BY <1>1, LeastNatural
  <2> QED BY <2>1 DEF Less
<1>2. IsWellFoundedOn(Less, Nat)
  BY <1>1, MinWF
<1>3. IsTransitivelyClosedOn(Less, Nat)
  BY DEF IsTransitivelyClosedOn, Less
<1> QED BY <1>2, <1>3

-----------------------------------------------------------------------------
(* Folding a finite set: from v0 on, one element after the other is added, in  *)
(* the order in which they are picked, the last first.                         *)
Folds(S, V, v0, pick, add, g) ==
  /\ g \in [SUBSET S -> V]
  /\ g[{}] = v0
  /\ \A T \in SUBSET S : T # {} => g[T] = add[<<pick[T], g[T \ {pick[T]}]>>]

LEMMA FoldExists ==
  ASSUME NEW S, IsFiniteSet(S), NEW V, NEW v0 \in V, NEW pick, NEW add,
         \A T \in SUBSET S : T # {} => pick[T] \in T,
         \A x \in S, v \in V : add[<<x, v>>] \in V
  PROVE  \E g : Folds(S, V, v0, pick, add, g)
<1> DEFINE Step(g, T) == IF T = {} THEN v0 ELSE add[<<pick[T], g[T \ {pick[T]}]>>]
           step == [p \in [SUBSET S -> V] \X SUBSET S |-> Step(p[1], p[2])]
           R == StrictSubsetOrdering(S)
<1>1. IsWellFoundedOn(R, SUBSET S) /\ IsTransitivelyClosedOn(R, SUBSET S)
  <2>1. SUBSET S = FiniteSubsetsOf(S)
    BY FS_Subset DEF FiniteSubsetsOf
  <2>2. IsTransitivelyClosedOn(R, SUBSET S)
    BY DEF IsTransitivelyClosedOn, StrictSubsetOrdering
  <2>3. IsWellFoundedOn(R, FiniteSubsetsOf(S))
    BY FS_StrictSubsetOrderingWellFounded
  <2> HIDE DEF R
  <2> QED BY <2>1, <2>2, <2>3
<1>2. \A T \in SUBSET S : T # {} =>
        pick[T] \in S /\ T \ {pick[T]} \in SUBSET S /\ <<T \ {pick[T]}, T>> \in R
  BY DEF StrictSubsetOrdering
<1>3. ASSUME NEW g \in [SUBSET S -> V], NEW T \in SUBSET S
      PROVE  step[<<g, T>>] = Step(g, T) /\ Step(g, T) \in V
  <2>1. step[<<g, T>>] = Step(g, T)
    OBVIOUS
  <2>2. CASE T # {}
    <3>1. pick[T] \in S /\ g[T \ {pick[T]}] \in V
      BY <1>2, <2>2
    <3> QED BY <2>1, <2>2, <3>1
  <2> QED BY <2>1, <2>2
<1>4. ReadsBelow(R, SUBSET S, V, step)
  <2> SUFFICES ASSUME NEW T \in SUBSET S, NEW g \in [SUBSET S -> V], NEW h \in [SUBSET S -> V],
                      \A U \in SUBSET S : <<U, T>> \in R => g[U] = h[U]
               PROVE  step[<<g, T>>] = step[<<h, T>>]
    BY DEF ReadsBelow
  <2>1. step[<<g, T>>] = Step(g, T) /\ step[<<h, T>>] = Step(h, T)
    BY <1>3
  <2> HIDE DEF R, step
  <2> QED BY <1>2, <2>1
<1>5. PICK g \in [SUBSET S -> V] : \A T \in SUBSET S : g[T] = step[<<g, T>>]
  <2>1. \A h \in [SUBSET S -> V], T \in SUBSET S : step[<<h, T>>] \in V
    BY <1>3
  <2> HIDE DEF R, step
  <2> DEFINE D == SUBSET S
  <2>2. /\ IsWellFoundedOn(R, D) /\ IsTransitivelyClosedOn(R, D) /\ ReadsBelow(R, D, V, step)
        /\ \A h \in [D -> V], T \in D : step[<<h, T>>] \in V
    BY <1>1, <1>4, <2>1
  <2> HIDE DEF D
  <2>3. \E g \in [D -> V] : \A T \in D : g[T] = step[<<g, T>>]
    BY <2>2, WFRecursion
  <2> QED BY <2>3 DEF D
<1>6. \A T \in SUBSET S : g[T] = Step(g, T)
  BY <1>3, <1>5
<1> HIDE DEF step, R
<1> QED BY <1>6 DEF Folds

-----------------------------------------------------------------------------
(* Sums: SumFunction of the community modules adds up a function over its      *)
(* finite domain, element by element in an order that it chooses.              *)

Chosen(T) == CHOOSE x \in T : TRUE

Adds(f, S, partial) ==
  /\ partial \in [SUBSET S -> Nat]
  /\ partial[{}] = 0
  /\ \A T \in SUBSET S : T # {} => partial[T] = f[Chosen(T)] + partial[T \ {Chosen(T)}]

(* Induction over the subsets of a finite set.                                 *)
LEMMA SubsetInduction ==
  ASSUME NEW S, IsFiniteSet(S), NEW P,
         \A T \in SUBSET S : (\A U \in SUBSET S : U \subseteq T /\ U # T => U \in P) => T \in P
  PROVE  \A T \in SUBSET S : T \in P
<1> DEFINE Bad == (SUBSET S) \ P
<1>1. SUFFICES ASSUME Bad # {} PROVE FALSE
  OBVIOUS
<1>2. Bad \subseteq FiniteSubsetsOf(S)
  BY FS_Subset DEF FiniteSubsetsOf
<1>3. PICK T \in Bad : \A U \in Bad : <<U, T>> \notin StrictSubsetOrdering(S)
  <2> HIDE DEF Bad
  <2> QED BY <1>1, <1>2, WFMin, FS_StrictSubsetOrderingWellFounded
<1>4. \A U \in SUBSET S : U \subseteq T /\ U # T => U \in P
  BY <1>3 DEF StrictSubsetOrdering
<1>5. T \in SUBSET S /\ T \notin P
  OBVIOUS
<1> HIDE DEF Bad
<1> QED BY <1>4, <1>5, Zenon

LEMMA SumAdds ==
  ASSUME NEW S, IsFiniteSet(S), NEW f \in [S -> Nat]
  PROVE  \E partial : Adds(f, S, partial) /\ SumFunction(f) = partial[S]
<1> DEFINE pick == [T \in SUBSET S |-> Chosen(T)]
           add == [p \in S \X Nat |-> f[p[1]] + p[2]]
           Recursive(h) ==
             h = [T \in SUBSET S |-> IF T = {} THEN 0
                                     ELSE f[CHOOSE x \in T : TRUE] + h[T \ {CHOOSE x \in T : TRUE}]]
           partial == CHOOSE h : Recursive(h)
<1>1. \A T \in SUBSET S : T # {} => pick[T] = Chosen(T) /\ Chosen(T) \in T
  BY DEF Chosen
<1>2. \A x \in S, v \in Nat : add[<<x, v>>] = f[x] + v /\ f[x] + v \in Nat
  OBVIOUS
<1>3. PICK g : Folds(S, Nat, 0, pick, add, g)
  <2> HIDE DEF pick, add
  <2> QED BY <1>1, <1>2, 0 \in Nat, FoldExists
<1>4. \A T \in SUBSET S : T # {} => g[T] = f[Chosen(T)] + g[T \ {Chosen(T)}]
  <2> HIDE DEF pick, add
  <2> SUFFICES ASSUME NEW T \in SUBSET S, T # {}
               PROVE  g[T] = f[Chosen(T)] + g[T \ {Chosen(T)}]
    OBVIOUS
  <2>1. g[T] = add[<<Chosen(T), g[T \ {Chosen(T)}]>>] /\ Chosen(T) \in S
    BY <1>1, <1>3 DEF Folds
  <2>2. T \ {Chosen(T)} \in SUBSET S /\ g[T \ {Chosen(T)}] \in Nat
    BY <1>3 DEF Folds
  <2> QED BY <1>2, <2>1, <2>2
<1> HIDE DEF pick, add
<1>5. g \in [SUBSET S -> Nat] /\ g[{}] = 0
  BY <1>3 DEF Folds
<1>6. Recursive(g)
  <2>1. g = [T \in SUBSET S |-> g[T]]
    BY <1>5
  <2> QED BY <1>4, <1>5, <2>1 DEF Chosen
<1>7. Recursive(partial)
  BY <1>6
<1>8. partial[{}] = 0
        /\ \A T \in SUBSET S : T # {} => partial[T] = f[Chosen(T)] + partial[T \ {Chosen(T)}]
  <2> HIDE DEF partial
  <2> QED BY <1>7 DEF Chosen
<1>9. partial \in [SUBSET S -> Nat]
  <2> HIDE DEF partial
  <2> DEFINE P == {T \in SUBSET S : partial[T] \in Nat}
  <2>1. ASSUME NEW T \in SUBSET S, \A U \in SUBSET S : U \subseteq T /\ U # T => U \in P
        PROVE  T \in P
    <3>1. CASE T = {}
      BY <1>8, <3>1
    <3>2. CASE T # {}
      <4>1. T \ {Chosen(T)} \in P /\ f[Chosen(T)] \in Nat
        BY <1>1, <2>1, <3>2
      <4> QED BY <1>8, <3>2, <4>1
    <3> QED BY <3>1, <3>2
  <2>2. SUBSET S \subseteq P
    <3> HIDE DEF P
    <3>1. \A T \in SUBSET S : (\A U \in SUBSET S : U \subseteq T /\ U # T => U \in P) => T \in P
      BY <2>1
    <3>2. \A T \in SUBSET S : T \in P
      BY <3>1, SubsetInduction
    <3> QED BY <3>2
  <2>3. partial = [T \in SUBSET S |-> partial[T]]
    BY <1>7
  <2> QED BY <2>2, <2>3
<1>10. SumFunction(f) = partial[S]
  BY DEF SumFunction, SumFunctionOnSet, FoldFunctionOnSet, MapThenFoldSet
<1> HIDE DEF partial
<1> QED BY <1>8, <1>9, <1>10 DEF Adds

(* What becomes of the sum when one member changes.                            *)
LEMMA SumUpdate ==
  ASSUME NEW S, IsFiniteSet(S), NEW f \in [S -> Nat], NEW a \in S, NEW v \in Nat
  PROVE  SumFunction([f EXCEPT ![a] = v]) = SumFunction(f) - f[a] + v
<1> DEFINE h == [f EXCEPT ![a] = v]
<1>0. h \in [S -> Nat] /\ h[a] = v /\ \A x \in S : x # a => h[x] = f[x]
  OBVIOUS
<1> HIDE DEF h
<1>1. PICK p : Adds(f, S, p) /\ SumFunction(f) = p[S]
  BY SumAdds
<1>2. PICK q : Adds(h, S, q) /\ SumFunction(h) = q[S]
  BY <1>0, SumAdds
<1> DEFINE P == {T \in SUBSET S : q[T] = IF a \in T THEN p[T] - f[a] + v ELSE p[T]}
<1>3. ASSUME NEW T \in SUBSET S, \A U \in SUBSET S : U \subseteq T /\ U # T => U \in P
      PROVE  T \in P
  <2>1. CASE T = {}
    BY <1>1, <1>2, <2>1 DEF Adds
  <2>2. CASE T # {}
    <3> DEFINE c == Chosen(T)
               U == T \ {c}
    <3>1. c \in T /\ U \in SUBSET S /\ U \in P
      BY <1>3, <2>2 DEF Chosen
    <3>2. p[T] = f[c] + p[U] /\ q[T] = h[c] + q[U] /\ p[U] \in Nat /\ f[c] \in Nat /\ f[a] \in Nat
      BY <1>1, <1>2, <2>2, <3>1 DEF Adds
    <3>3. CASE c = a
      BY <1>0, <3>1, <3>2, <3>3
    <3>4. CASE c # a
      <4>1. a \in T <=> a \in U
        BY <3>4
      <4>2. h[c] = f[c]
        BY <1>0, <3>1, <3>4
      <4> HIDE DEF c, U
      <4> QED BY <3>1, <3>2, <4>1, <4>2
    <3> QED BY <3>3, <3>4
  <2> QED BY <2>1, <2>2
<1>4. S \in P
  <2> HIDE DEF P
  <2> QED BY <1>3, SubsetInduction
<1> QED BY <1>1, <1>2, <1>4 DEF h

(* A sum of naturals is one, and is not less than any two of its members.       *)
LEMMA SumBounds ==
  ASSUME NEW S, IsFiniteSet(S), NEW f \in [S -> Nat]
  PROVE  /\ SumFunction(f) \in Nat
         /\ \A a \in S : f[a] <= SumFunction(f)
         /\ \A a, b \in S : a # b => f[a] + f[b] <= SumFunction(f)
<1>1. ASSUME NEW g \in [S -> Nat]
      PROVE  SumFunction(g) \in Nat
  <2>1. PICK p : Adds(g, S, p) /\ SumFunction(g) = p[S]
    BY SumAdds
  <2> QED BY <2>1 DEF Adds
<1>2. ASSUME NEW g \in [S -> Nat], NEW a \in S
      PROVE  SumFunction([g EXCEPT ![a] = 0]) = SumFunction(g) - g[a] /\ [g EXCEPT ![a] = 0] \in [S -> Nat]
  <2>1. SumFunction([g EXCEPT ![a] = 0]) = SumFunction(g) - g[a] + 0
    BY <1>2, 0 \in Nat, SumUpdate
  <2>2. SumFunction(g) \in Nat /\ g[a] \in Nat
    BY <1>1
  <2> QED BY <2>1, <2>2
<1>3. ASSUME NEW a \in S
      PROVE  f[a] <= SumFunction(f)
  <2> DEFINE g == [f EXCEPT ![a] = 0]
  <2>1. SumFunction(g) = SumFunction(f) - f[a] /\ g \in [S -> Nat] /\ f[a] \in Nat
    BY <1>2
  <2> HIDE DEF g
  <2>2. SumFunction(g) \in Nat /\ SumFunction(f) \in Nat
    BY <1>1, <2>1
  <2> QED BY <2>1, <2>2
<1>4. ASSUME NEW a \in S, NEW b \in S, a # b
      PROVE  f[a] + f[b] <= SumFunction(f)
  <2> DEFINE g == [f EXCEPT ![a] = 0]
             h == [g EXCEPT ![b] = 0]
  <2>1. SumFunction(g) = SumFunction(f) - f[a] /\ g \in [S -> Nat] /\ g[b] = f[b]
    BY <1>2, <1>4
  <2> HIDE DEF g
  <2>2. SumFunction(h) = SumFunction(g) - g[b] /\ h \in [S -> Nat]
    BY <1>2, <1>4, <2>1
  <2> HIDE DEF h
  <2>3. SumFunction(h) \in Nat /\ SumFunction(g) \in Nat /\ SumFunction(f) \in Nat
    BY <1>1, <2>1, <2>2
  <2> QED BY <2>1, <2>2, <2>3
<1> QED BY <1>1, <1>3, <1>4

(* Nothing adds up to nothing.                                                 *)
LEMMA SumZero ==
  ASSUME NEW S, IsFiniteSet(S)
  PROVE  SumFunction([x \in S |-> 0]) = 0
<1> DEFINE f == [x \in S |-> 0]
<1>0. f \in [S -> Nat] /\ \A x \in S : f[x] = 0
  OBVIOUS
<1> HIDE DEF f
<1>1. PICK p : Adds(f, S, p) /\ SumFunction(f) = p[S]
  BY <1>0, SumAdds
<1> DEFINE P == {T \in SUBSET S : p[T] = 0}
<1>2. ASSUME NEW T \in SUBSET S, \A U \in SUBSET S : U \subseteq T /\ U # T => U \in P
      PROVE  T \in P
  <2>1. CASE T = {}
    BY <1>1, <2>1 DEF Adds
  <2>2. CASE T # {}
    <3>1. Chosen(T) \in T /\ T \ {Chosen(T)} \in P
      BY <1>2, <2>2 DEF Chosen
    <3> QED BY <1>0, <1>1, <2>2, <3>1 DEF Adds
  <2> QED BY <2>1, <2>2
<1>3. S \in P
  <2> HIDE DEF P
  <2> QED BY <1>2, SubsetInduction
<1> QED BY <1>1, <1>3 DEF f
===============================================================================
