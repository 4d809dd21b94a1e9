------------------------ MODULE FundingEscrowProofs ------------------------
(***************************************************************************)
(* What every operation of one escrow preserves, for any target, plan, fee,  *)
(* windows and set of funders.  EscrowInv is the inductive part of the        *)
(* properties: the books follow the plan, refunds and payments exclude each   *)
(* other, and a wallet has either claimed its whole share or nothing.        *)
(* Finite sums come first, as the folds of the community modules compute      *)
(* them.  The folds are recursive over the subsets of a finite set in an      *)
(* order that CHOOSE determines; strict inclusion is well founded there, so   *)
(* what holds of all subsets follows as no counterexample is minimal.         *)
(***************************************************************************)
EXTENDS FundingEscrow, Functions, FiniteSetsExt, FiniteSetTheorems, WellFoundedInduction, TLAPS

\* The sum of f over the indices in S
Total(f, S) == FoldFunctionOnSet(+, 0, f, S)

-----------------------------------------------------------------------------
(* Induction over the subsets of a finite set *)

\* A nonempty family of subsets of a finite set has a minimal member.
LEMMA MinimalSubset ==
    ASSUME NEW S, IsFiniteSet(S), NEW B \in SUBSET SUBSET S, B # {}
    PROVE  \E T \in B : \A U \in B : U \subseteq T => U = T
<1>1. IsWellFoundedOn(StrictSubsetOrdering(S), FiniteSubsetsOf(S))
  BY FS_StrictSubsetOrderingWellFounded
<1>2. B \subseteq FiniteSubsetsOf(S)
  BY FS_FiniteSubsetsOfFinite
<1>3. PICK T \in B : \A U \in B : <<U, T>> \notin StrictSubsetOrdering(S)
  BY <1>1, <1>2, WFMin
<1>4. \A U \in B : U \subseteq T /\ U # T => <<U, T>> \in StrictSubsetOrdering(S)
  BY DEF StrictSubsetOrdering
<1>5. \A U \in B : U \subseteq T => U = T
  BY <1>3, <1>4
<1>6. QED
  BY <1>5

\* What holds of the empty set, and of a set whenever it holds of the set without
\* any one of its elements, holds of every subset of a finite set.
LEMMA SubsetInduction ==
    ASSUME NEW S, IsFiniteSet(S), NEW Good, {} \in Good,
           \A T \in SUBSET S : T # {} /\ (\A x \in T : T \ {x} \in Good) => T \in Good
    PROVE  SUBSET S \subseteq Good
<1> DEFINE Bad == {T \in SUBSET S : T \notin Good}
<1>1. SUFFICES ASSUME Bad # {}
               PROVE  FALSE
  OBVIOUS
<1>2. PICK T \in Bad : \A U \in Bad : U \subseteq T => U = T
  <2>1. Bad \in SUBSET SUBSET S
    OBVIOUS
  <2> HIDE DEF Bad
  <2>2. QED
    BY <1>1, <2>1, MinimalSubset
<1>3. \A x \in T : T \ {x} \in Good
  BY <1>2
<1>4. QED
  BY <1>3

-----------------------------------------------------------------------------
(* The recursion of the folds *)

Chosen(s) == CHOOSE x \in s : TRUE

\* `it' sums f over the subsets of S the way MapThenFoldSet does.
Sums(it, f, S) ==
    it = [s \in SUBSET S |->
            IF s = {} THEN 0 ELSE f[Chosen(s)] + it[s \ {Chosen(s)}]]

\* A fold takes an element of what is left.
LEMMA ChosenIsMember ==
    ASSUME NEW s, s # {}
    PROVE  Chosen(s) \in s
  BY DEF Chosen

\* There is such a function.
LEMMA SumsExist ==
    ASSUME NEW S, IsFiniteSet(S), NEW f
    PROVE  \E it : Sums(it, f, S)
<1> DEFINE Step(it) == [s \in SUBSET S |->
                           IF s = {} THEN 0 ELSE f[Chosen(s)] + it[s \ {Chosen(s)}]]
           Solves(it, s) == it[s] = Step(it)[s]
           Good == {T \in SUBSET S : \E it : \A s \in SUBSET S :
                       Cardinality(s) <= Cardinality(T) => Solves(it, s)}
<1>1. {} \in Good
  <2> DEFINE zero == [s \in SUBSET S |-> 0]
  <2>1. \A s \in SUBSET S : Cardinality(s) <= Cardinality({}) => s = {}
    BY FS_EmptySet, FS_Subset, FS_CardinalityType
  <2>2. \A s \in SUBSET S : Cardinality(s) <= Cardinality({}) => Solves(zero, s)
    BY <2>1
  <2>3. QED
    BY <2>2
<1>2. ASSUME NEW T \in SUBSET S, T # {}, \A x \in T : T \ {x} \in Good
      PROVE  T \in Good
  <2> PICK x \in T : TRUE
    BY <1>2
  <2>1. PICK it : \A s \in SUBSET S :
                     Cardinality(s) <= Cardinality(T \ {x}) => Solves(it, s)
    BY <1>2
  <2>2. Cardinality(T) = Cardinality(T \ {x}) + 1 /\ Cardinality(T \ {x}) \in Nat
    BY FS_Subset, FS_RemoveElement, FS_CardinalityType
  <2>3. ASSUME NEW s \in SUBSET S, Cardinality(s) <= Cardinality(T)
        PROVE  Solves(Step(it), s)
    <3>1. CASE s = {}
      BY <3>1
    <3>2. CASE s # {}
      <4> DEFINE r == s \ {Chosen(s)}
      <4>1. Chosen(s) \in s
        BY <3>2, ChosenIsMember
      <4>2. r \in SUBSET S /\ Cardinality(r) = Cardinality(s) - 1
            /\ Cardinality(s) \in Nat
        BY <4>1, FS_Subset, FS_RemoveElement, FS_CardinalityType
      <4>3. Cardinality(r) <= Cardinality(T \ {x})
        BY <2>2, <2>3, <4>2
      <4>4. Solves(it, r)
        <5> HIDE DEF r, Solves
        <5> QED BY <2>1, <4>2, <4>3
      <4>5. QED
        BY <3>2, <4>2, <4>4
    <3>3. QED
      BY <3>1, <3>2
  <2>4. QED
    BY <2>3
<1>3. S \in Good
  <2> HIDE DEF Good
  <2>1. QED
    BY <1>1, <1>2, SubsetInduction
<1>4. PICK it : \A s \in SUBSET S : Solves(it, s)
  BY <1>3, FS_Subset
<1>5. Sums(Step(it), f, S)
  <2>1. \A s \in SUBSET S : Solves(Step(it), s)
    BY <1>4
  <2>2. QED
    BY <2>1 DEF Sums
<1>6. QED
  BY <1>5

\* Any two of them agree where what they sum agrees.
LEMMA SumsAgree ==
    ASSUME NEW S, IsFiniteSet(S), NEW f, NEW it, Sums(it, f, S),
           NEW T \in SUBSET S, NEW g, NEW jt, Sums(jt, g, T),
           \A x \in T : f[x] = g[x]
    PROVE  \A U \in SUBSET T : it[U] = jt[U]
<1> DEFINE Good == {U \in SUBSET T : it[U] = jt[U]}
<1>1. IsFiniteSet(T)
  BY FS_Subset
<1>2. {} \in Good
  BY DEF Sums
<1>3. ASSUME NEW U \in SUBSET T, U # {}, \A x \in U : U \ {x} \in Good
      PROVE  U \in Good
  <2>1. Chosen(U) \in U
    BY <1>3, ChosenIsMember
  <2>2. it[U] = f[Chosen(U)] + it[U \ {Chosen(U)}]
    BY <1>3 DEF Sums
  <2>3. jt[U] = g[Chosen(U)] + jt[U \ {Chosen(U)}]
    BY <1>3 DEF Sums
  <2>4. it[U \ {Chosen(U)}] = jt[U \ {Chosen(U)}] /\ f[Chosen(U)] = g[Chosen(U)]
    BY <1>3, <2>1
  <2>5. QED
    BY <2>2, <2>3, <2>4
<1>4. SUBSET T \subseteq Good
  <2> HIDE DEF Good
  <2>1. QED
    BY <1>1, <1>2, <1>3, SubsetInduction
<1>5. QED
  BY <1>4

\* Sums of integers are integers.
LEMMA SumsType ==
    ASSUME NEW S, IsFiniteSet(S), NEW f, NEW it, Sums(it, f, S),
           \A x \in S : f[x] \in Int
    PROVE  \A T \in SUBSET S : it[T] \in Int
<1> DEFINE Good == {T \in SUBSET S : it[T] \in Int}
<1>1. {} \in Good
  BY DEF Sums
<1>2. ASSUME NEW T \in SUBSET S, T # {}, \A x \in T : T \ {x} \in Good
      PROVE  T \in Good
  <2>1. Chosen(T) \in T
    BY <1>2, ChosenIsMember
  <2>2. it[T] = f[Chosen(T)] + it[T \ {Chosen(T)}]
    BY <1>2 DEF Sums
  <2>3. it[T \ {Chosen(T)}] \in Int /\ f[Chosen(T)] \in Int
    BY <1>2, <2>1
  <2>4. QED
    BY <2>2, <2>3
<1>3. SUBSET S \subseteq Good
  <2> HIDE DEF Good
  <2>1. QED
    BY <1>1, <1>2, SubsetInduction
<1>4. QED
  BY <1>3

\* Adding an element adds its value, whatever order the fold takes.
LEMMA SumsAdd ==
    ASSUME NEW S, IsFiniteSet(S), NEW f, NEW it, Sums(it, f, S),
           \A x \in S : f[x] \in Int
    PROVE  \A T \in SUBSET S : \A x \in T : it[T] = it[T \ {x}] + f[x]
<1> DEFINE Adds(T) == \A x \in T : it[T] = it[T \ {x}] + f[x]
           Good == {T \in SUBSET S : Adds(T)}
<1>1. {} \in Good
  OBVIOUS
<1>2. ASSUME NEW T \in SUBSET S, T # {}, \A x \in T : T \ {x} \in Good
      PROVE  T \in Good
  <2>1. PICK c \in T : it[T] = f[c] + it[T \ {c}]
    <3>1. Chosen(T) \in T
      BY <1>2, ChosenIsMember
    <3>2. it[T] = f[Chosen(T)] + it[T \ {Chosen(T)}]
      BY <1>2 DEF Sums
    <3>3. QED
      BY <3>1, <3>2
  <2>2. \A x \in T : \A y \in T \ {x} : it[T \ {x}] = it[(T \ {x}) \ {y}] + f[y]
    BY <1>2
  <2>3. \A U \in SUBSET T : it[U] \in Int
    BY SumsType
  <2>4. ASSUME NEW x \in T
        PROVE  it[T] = it[T \ {x}] + f[x]
    <3>1. CASE x = c
      BY <2>1, <2>3, <3>1
    <3>2. CASE x # c
      <4> DEFINE rest == (T \ {c}) \ {x}
      <4>1. rest = (T \ {x}) \ {c}
        OBVIOUS
      <4>2. it[T \ {c}] = it[rest] + f[x]
        BY <2>1, <2>2, <3>2
      <4>3. it[T \ {x}] = it[rest] + f[c]
        BY <2>1, <2>2, <3>2, <4>1
      <4>4. it[rest] \in Int /\ f[c] \in Int /\ f[x] \in Int
        BY <2>1, <2>3
      <4> HIDE DEF rest
      <4>5. QED
        BY <2>1, <4>2, <4>3, <4>4
    <3>3. QED
      BY <3>1, <3>2
  <2>5. QED
    BY <2>4
<1>3. SUBSET S \subseteq Good
  <2> HIDE DEF Good
  <2>1. QED
    BY <1>1, <1>2, SubsetInduction
<1>4. QED
  BY <1>3

-----------------------------------------------------------------------------
(* Sums over a finite set *)

\* The fold is one of those functions, at the whole set.
LEMMA TotalSums ==
    ASSUME NEW S, IsFiniteSet(S), NEW f
    PROVE  \E it : Sums(it, f, S) /\ Total(f, S) = it[S]
<1> DEFINE it == CHOOSE it : Sums(it, f, S)
<1>1. Sums(it, f, S)
  BY SumsExist
<1>2. Total(f, S) = it[S]
  BY DEF Total, FoldFunctionOnSet, MapThenFoldSet, Sums, Chosen
<1>3. QED
  BY <1>1, <1>2

\* An empty sum is nothing.
LEMMA TotalOfNothing ==
    ASSUME NEW f
    PROVE  Total(f, {}) = 0
  BY TotalSums, FS_EmptySet DEF Sums

\* A sum of integers is an integer.
LEMMA TotalType ==
    ASSUME NEW S, IsFiniteSet(S), NEW f, \A x \in S : f[x] \in Int
    PROVE  Total(f, S) \in Int
  BY TotalSums, SumsType

\* A sum depends on nothing but its terms.
LEMMA TotalSame ==
    ASSUME NEW S, IsFiniteSet(S), NEW f, NEW g, \A x \in S : f[x] = g[x]
    PROVE  Total(f, S) = Total(g, S)
<1>1. PICK it : Sums(it, f, S) /\ Total(f, S) = it[S]
  BY TotalSums
<1>2. PICK jt : Sums(jt, g, S) /\ Total(g, S) = jt[S]
  BY TotalSums
<1>3. \A U \in SUBSET S : it[U] = jt[U]
  BY <1>1, <1>2, SumsAgree
<1>4. QED
  BY <1>1, <1>2, <1>3

\* A sum is the sum without a term, and the term.
LEMMA TotalRemove ==
    ASSUME NEW S, IsFiniteSet(S), NEW f, \A x \in S : f[x] \in Int, NEW x \in S
    PROVE  Total(f, S) = Total(f, S \ {x}) + f[x]
<1>1. PICK it : Sums(it, f, S) /\ Total(f, S) = it[S]
  BY TotalSums
<1>2. IsFiniteSet(S \ {x})
  BY FS_RemoveElement
<1>3. PICK jt : Sums(jt, f, S \ {x}) /\ Total(f, S \ {x}) = jt[S \ {x}]
  BY <1>2, TotalSums
<1>4. \A U \in SUBSET (S \ {x}) : it[U] = jt[U]
  <2>1. S \ {x} \in SUBSET S
    OBVIOUS
  <2>2. QED
    BY <1>1, <1>3, <2>1, SumsAgree
<1>5. it[S] = it[S \ {x}] + f[x]
  BY <1>1, SumsAdd
<1>6. QED
  BY <1>1, <1>3, <1>4, <1>5

\* A sum changes by what one of its terms changes.
LEMMA TotalChange ==
    ASSUME NEW S, IsFiniteSet(S), NEW f, NEW g, NEW x \in S,
           \A y \in S : f[y] \in Int /\ g[y] \in Int,
           \A y \in S \ {x} : f[y] = g[y]
    PROVE  Total(g, S) = Total(f, S) + (g[x] - f[x])
<1>1. IsFiniteSet(S \ {x})
  BY FS_RemoveElement
<1>2. Total(f, S \ {x}) = Total(g, S \ {x})
  BY <1>1, TotalSame
<1>3. Total(f, S) = Total(f, S \ {x}) + f[x]
  BY TotalRemove
<1>4. Total(g, S) = Total(g, S \ {x}) + g[x]
  BY TotalRemove
<1>5. Total(f, S \ {x}) \in Int
  BY <1>1, TotalType
<1>6. QED
  BY <1>2, <1>3, <1>4, <1>5

\* Terms that are nothing add nothing.
LEMMA TotalOfZeros ==
    ASSUME NEW S, IsFiniteSet(S), NEW f, \A x \in S : f[x] = 0
    PROVE  Total(f, S) = 0
<1>1. PICK it : Sums(it, f, S) /\ Total(f, S) = it[S]
  BY TotalSums
<1> DEFINE Good == {T \in SUBSET S : it[T] = 0}
<1>2. {} \in Good
  BY <1>1 DEF Sums
<1>3. ASSUME NEW T \in SUBSET S, T # {}, \A x \in T : T \ {x} \in Good
      PROVE  T \in Good
  <2>1. PICK x \in T : TRUE
    BY <1>3
  <2>2. it[T] = it[T \ {x}] + f[x]
    BY <1>1, SumsAdd
  <2>3. QED
    BY <1>3, <2>1, <2>2
<1>4. SUBSET S \subseteq Good
  <2> HIDE DEF Good
  <2>1. QED
    BY <1>2, <1>3, SubsetInduction
<1>5. QED
  BY <1>1, <1>4

\* Sums of natural numbers are natural numbers.
LEMMA TotalNat ==
    ASSUME NEW S, IsFiniteSet(S), NEW f, \A x \in S : f[x] \in Nat
    PROVE  Total(f, S) \in Nat
<1>1. PICK it : Sums(it, f, S) /\ Total(f, S) = it[S]
  BY TotalSums
<1> DEFINE Good == {T \in SUBSET S : it[T] \in Nat}
<1>2. {} \in Good
  BY <1>1 DEF Sums
<1>3. ASSUME NEW T \in SUBSET S, T # {}, \A x \in T : T \ {x} \in Good
      PROVE  T \in Good
  <2>1. PICK x \in T : TRUE
    BY <1>3
  <2>2. it[T] = it[T \ {x}] + f[x]
    BY <1>1, SumsAdd
  <2>3. QED
    BY <1>3, <2>1, <2>2
<1>4. SUBSET S \subseteq Good
  <2> HIDE DEF Good
  <2>1. QED
    BY <1>2, <1>3, SubsetInduction
<1>5. QED
  BY <1>1, <1>4

\* Sums are monotone.
LEMMA TotalMonotone ==
    ASSUME NEW S, IsFiniteSet(S), NEW f, NEW g,
           \A x \in S : f[x] \in Int /\ g[x] \in Int /\ f[x] <= g[x]
    PROVE  Total(f, S) <= Total(g, S)
<1>1. PICK it : Sums(it, f, S) /\ Total(f, S) = it[S]
  BY TotalSums
<1>2. PICK jt : Sums(jt, g, S) /\ Total(g, S) = jt[S]
  BY TotalSums
<1> DEFINE Good == {T \in SUBSET S : it[T] <= jt[T]}
<1>3. {} \in Good
  BY <1>1, <1>2 DEF Sums
<1>4. ASSUME NEW T \in SUBSET S, T # {}, \A x \in T : T \ {x} \in Good
      PROVE  T \in Good
  <2>1. PICK x \in T : TRUE
    BY <1>4
  <2>2. it[T] = it[T \ {x}] + f[x] /\ jt[T] = jt[T \ {x}] + g[x]
    BY <1>1, <1>2, SumsAdd
  <2>3. it[T \ {x}] \in Int /\ jt[T \ {x}] \in Int
    BY <1>1, <1>2, SumsType
  <2>4. it[T \ {x}] <= jt[T \ {x}]
    BY <1>4
  <2>5. QED
    BY <2>2, <2>3, <2>4
<1>5. SUBSET S \subseteq Good
  <2> HIDE DEF Good
  <2>1. QED
    BY <1>3, <1>4, SubsetInduction
<1>6. QED
  BY <1>1, <1>2, <1>5

\* Equal sums of terms of which none is larger have equal terms.
LEMMA TotalForcesEqual ==
    ASSUME NEW S, IsFiniteSet(S), NEW f, NEW g,
           \A x \in S : f[x] \in Int /\ g[x] \in Int /\ f[x] <= g[x],
           Total(f, S) = Total(g, S)
    PROVE  \A x \in S : f[x] = g[x]
<1>1. ASSUME NEW x \in S
      PROVE  f[x] = g[x]
  <2>1. IsFiniteSet(S \ {x})
    BY FS_RemoveElement
  <2>2. Total(f, S \ {x}) <= Total(g, S \ {x})
    BY <2>1, TotalMonotone
  <2>3. Total(f, S \ {x}) \in Int /\ Total(g, S \ {x}) \in Int
    BY <2>1, TotalType
  <2>4. /\ Total(f, S) = Total(f, S \ {x}) + f[x]
        /\ Total(g, S) = Total(g, S \ {x}) + g[x]
    BY TotalRemove
  <2>5. f[x] \in Int /\ g[x] \in Int /\ f[x] <= g[x]
    OBVIOUS
  <2>6. Total(f, S \ {x}) + f[x] = Total(g, S \ {x}) + g[x]
    BY <2>4
  <2>7. QED
    BY ONLY <2>2, <2>3, <2>5, <2>6, SMT
<1>2. QED
  BY <1>1

\* A sum over a part is the sum over the whole of the terms in that part.
LEMMA TotalOfPart ==
    ASSUME NEW S, IsFiniteSet(S), NEW P \in SUBSET S, NEW f, NEW g,
           \A x \in S : f[x] \in Int /\ g[x] = IF x \in P THEN f[x] ELSE 0
    PROVE  Total(f, P) = Total(g, S)
<1>1. PICK it : Sums(it, f, S)
  BY SumsExist
<1>2. PICK jt : Sums(jt, g, S) /\ Total(g, S) = jt[S]
  BY TotalSums
<1>3. /\ IsFiniteSet(S)
      /\ \A x \in S : f[x] \in Int
      /\ \A x \in S : g[x] \in Int
  OBVIOUS
<1>4. ASSUME NEW V \in SUBSET S, NEW y \in V
      PROVE  it[V] = it[V \ {y}] + f[y]
  <2>1. \A x \in S : f[x] \in Int
    BY <1>3
  <2>2. QED
    BY <1>1, <2>1, SumsAdd
<1>5. ASSUME NEW V \in SUBSET S, NEW y \in V
      PROVE  jt[V] = jt[V \ {y}] + g[y]
  <2>1. \A x \in S : g[x] \in Int
    BY <1>3
  <2>2. QED
    BY <1>2, <2>1, SumsAdd
<1> DEFINE Good == {U \in SUBSET S : jt[U] = it[U \cap P]}
<1>6. {} \in Good
  BY <1>1, <1>2 DEF Sums
<1>7. ASSUME NEW U \in SUBSET S, U # {}, \A x \in U : U \ {x} \in Good
      PROVE  U \in Good
  <2>1. PICK x \in U : TRUE
    BY <1>7
  <2>2. jt[U] = jt[U \ {x}] + g[x] /\ jt[U \ {x}] = it[(U \ {x}) \cap P]
    BY <1>7, <1>5
  <2>3. CASE x \in P
    <3>1. (U \ {x}) \cap P = (U \cap P) \ {x} /\ x \in U \cap P /\ U \cap P \in SUBSET S
      BY <2>3
    <3>2. it[U \cap P] = it[(U \cap P) \ {x}] + f[x]
      BY <1>4, <3>1
    <3>3. QED
      BY <2>2, <2>3, <3>1, <3>2
  <2>4. CASE x \notin P
    <3>1. (U \ {x}) \cap P = U \cap P /\ g[x] = 0
      BY <2>4
    <3>2. it[U \cap P] \in Int
      BY <1>1, SumsType
    <3>3. jt[U] = it[U \cap P] + 0
      BY <2>2, <3>1
    <3>4. QED
      BY <3>2, <3>3
  <2>5. QED
    BY <2>3, <2>4
<1>8. SUBSET S \subseteq Good
  <2> HIDE DEF Good
  <2>1. QED
    BY <1>6, <1>7, SubsetInduction
<1>9. jt[S] = it[P]
  <2>1. S \cap P = P
    OBVIOUS
  <2>2. QED
    BY <1>8, <2>1
<1>10. Total(f, P) = it[P]
  <2>1. IsFiniteSet(P)
    BY FS_Subset
  <2>2. PICK kt : Sums(kt, f, P) /\ Total(f, P) = kt[P]
    BY <2>1, TotalSums
  <2>3. \A U \in SUBSET P : it[U] = kt[U]
    BY <1>1, <2>2, SumsAgree
  <2>4. QED
    BY <2>2, <2>3
<1>11. QED
  BY <1>2, <1>9, <1>10

-----------------------------------------------------------------------------
(* Telescoping *)

\* The intervals ]end[x] - length[x], end[x]] of the x with a length cut 0..size
\* into pieces: each starts where another ends, or at 0; none overlap; the last
\* ends at size.
Tiles(S, length, end, size) ==
    /\ \A x \in S : length[x] > 0 =>
          /\ end[x] <= size
          /\ \/ end[x] = length[x]
             \/ \E y \in S : length[y] > 0 /\ end[y] = end[x] - length[x]
    /\ \A x, y \in S : length[x] > 0 /\ length[y] > 0 /\ x # y =>
          end[x] <= end[y] - length[y] \/ end[y] <= end[x] - length[x]
    /\ size = 0 \/ \E x \in S : length[x] > 0 /\ end[x] = size

\* What a function of the positions grows over the pieces adds up to what it grows
\* over the whole.
LEMMA TelescopingSum ==
    ASSUME NEW S, IsFiniteSet(S), NEW size \in Nat,
           NEW length \in [S -> Nat], NEW end \in [S -> Nat],
           \A x \in S : length[x] <= end[x],
           Tiles(S, length, end, size),
           NEW h, \A i \in 0..size : h[i] \in Int,
           NEW share,
           \A x \in S : share[x] = IF length[x] = 0 THEN 0
                                   ELSE h[end[x]] - h[end[x] - length[x]]
    PROVE  Total(share, S) = h[size] - h[0]
<1> DEFINE Upto(b) == {x \in S : length[x] = 0 \/ end[x] <= b}
           Cut(b) == b = 0 \/ \E x \in S : length[x] > 0 /\ end[x] = b
           Bad == {T \in SUBSET S : \E b \in 0..size :
                      T = Upto(b) /\ Cut(b) /\ Total(share, T) # h[b] - h[0]}
<1>1. \A x \in S : /\ length[x] \in Nat /\ end[x] \in Nat /\ length[x] <= end[x]
                   /\ length[x] > 0 => end[x] \in 0..size
                   /\ share[x] \in Int
  BY DEF Tiles
<1>2. SUFFICES ASSUME Bad # {}
               PROVE  FALSE
  <2>1. Cut(size) /\ size \in 0..size
    BY DEF Tiles
  <2>2. S = Upto(size)
    BY <1>1
  <2>3. QED
    BY <2>1, <2>2
<1>3. PICK T \in Bad : \A U \in Bad : U \subseteq T => U = T
  <2>1. Bad \in SUBSET SUBSET S
    OBVIOUS
  <2> HIDE DEF Bad
  <2>2. QED
    BY <1>2, <2>1, MinimalSubset
<1>4. PICK b \in 0..size : T = Upto(b) /\ Cut(b) /\ Total(share, T) # h[b] - h[0]
  BY <1>3
<1>5. IsFiniteSet(T) /\ T \subseteq S
  BY <1>3, FS_Subset
<1>6. b # 0
  <2>1. SUFFICES ASSUME b = 0
                 PROVE  Total(share, T) = 0
    BY <1>4
  <2>2. \A x \in T : share[x] = 0
    BY <1>1, <1>4, <2>1
  <2>3. QED
    BY <1>5, <2>2, TotalOfZeros
<1>7. PICK m \in S : length[m] > 0 /\ end[m] = b
  BY <1>4, <1>6
<1> DEFINE a == b - length[m]
<1>8. a \in 0..size /\ a < b /\ Cut(a)
  BY <1>1, <1>7 DEF Tiles
<1>9. m \in T /\ Upto(a) = T \ {m}
  <2>1. m \in T /\ m \notin Upto(a)
    BY <1>1, <1>4, <1>7, <1>8
  <2>2. Upto(a) \subseteq T
    BY <1>1, <1>4, <1>8
  <2>3. ASSUME NEW x \in T, x # m
        PROVE  x \in Upto(a)
    <3>1. CASE length[x] = 0
      BY <1>5, <3>1
    <3>2. CASE length[x] > 0
      <4>1. end[x] <= b /\ x \in S
        BY <1>4, <3>2
      <4>2. end[x] <= end[m] - length[m] \/ end[m] <= end[x] - length[x]
        BY <1>7, <2>3, <3>2, <4>1 DEF Tiles
      <4>3. end[x] <= a
        BY <1>1, <1>7, <3>2, <4>1, <4>2
      <4>4. QED
        BY <4>1, <4>3
    <3>3. QED
      BY <1>1, <1>5, <3>1, <3>2
  <2>4. QED
    BY <2>1, <2>2, <2>3
<1>10. Total(share, Upto(a)) = h[a] - h[0]
  <2>1. Upto(a) # T /\ Upto(a) \subseteq T
    BY <1>9
  <2>2. Upto(a) \notin Bad
    <3> HIDE DEF Bad, Upto
    <3>1. QED
      BY <1>3, <2>1
  <2>3. Upto(a) \in SUBSET S
    OBVIOUS
  <2>4. QED
    BY <1>8, <2>2, <2>3
<1>11. Total(share, T) = Total(share, T \ {m}) + share[m]
  <2>1. \A x \in T : share[x] \in Int
    BY <1>1, <1>5
  <2>2. QED
    BY <1>5, <1>9, <2>1, TotalRemove
<1>12. share[m] = h[b] - h[a]
  BY <1>1, <1>7
<1>13. h[a] \in Int /\ h[b] \in Int /\ h[0] \in Int
  BY <1>8
<1>14. QED
  <2> HIDE DEF a, Upto
  <2>1. QED
    BY <1>4, <1>9, <1>10, <1>11, <1>12, <1>13

-----------------------------------------------------------------------------
(* The invariant of one escrow *)

RefundStates == {"Refunded", "Cancelled", "Expired", "Voided"}

\* The books follow the payment plan.
BooksFollowPlan(e) ==
    /\ e.totalReleased = CumulativeAmount(e.currentTranche)
    /\ e.feePaid = CumulativeFee(e.totalReleased)
    /\ e.currentTranche > 0 => e.totalDeposited = Target

\* Where each state stands in the plan and in the refunds.
StateAgrees(e) ==
    /\ e.state \in {"Open", "Locked"} => e.currentTranche = 0
    /\ e.state \in {"Locked", "Active", "Released"} => e.totalDeposited = Target
    /\ e.state = "Active" => e.currentTranche > 0
    /\ e.currentTranche = Tranches <=> e.state = "Released"
    /\ e.refundsEnabled <=> e.state \in RefundStates

\* Every wallet's interval lies within the deposits.
IntervalsFit(e) ==
    \A f \in Funders : e.contributions[f] <= e.ends[f] /\ e.ends[f] <= e.totalDeposited

\* A wallet is refunded its whole share at once, and only after refunds opened.
RefundsAreShares(e) ==
    /\ e.refundsEnabled => e.refundPool = e.totalDeposited - e.totalReleased
    /\ ~e.refundsEnabled => e.totalRefunded = 0
    /\ \A f \in Funders :
          e.refundedAmounts[f] \in
              {0, IF e.refundsEnabled THEN Share(e, f, e.refundPool) ELSE 0}

EscrowInv(e) ==
    /\ BooksFollowPlan(e)
    /\ StateAgrees(e)
    /\ IntervalsFit(e)
    /\ RefundsAreShares(e)

-----------------------------------------------------------------------------
(* Floored quotients *)

\* A part of a whole, floored, is between nothing and the whole.
LEMMA MulDivBound ==
    ASSUME NEW a \in Nat, NEW b \in Nat, NEW d \in Nat \ {0}, b <= d
    PROVE  MulDiv(a, b, d) \in 0..a
  BY SMT DEF MulDiv

\* All of it is the whole, and none of it is nothing.
LEMMA MulDivEnds ==
    ASSUME NEW a \in Nat, NEW d \in Nat \ {0}
    PROVE  MulDiv(a, d, d) = a /\ MulDiv(a, 0, d) = 0
  BY SMT DEF MulDiv

\* The floored difference over an interval of length c is between 0 and c.
LEMMA MulDivInterval ==
    ASSUME NEW pool \in Nat, NEW total \in Nat \ {0}, NEW end \in Nat, NEW c \in Nat,
           c <= end, pool <= total
    PROVE  MulDiv(pool, end, total) - MulDiv(pool, end - c, total) \in 0..c
  <1> DEFINE x == pool * (end - c)
             y == pool * c
  <1>1. x \in Nat /\ y \in Nat /\ pool * end = x + y /\ y <= total * c
    BY SMT
  <1>2. x \div total <= (x + y) \div total /\ (x + y) \div total <= (x \div total) + c
    BY <1>1, SMT
  <1>3. x \div total \in Nat /\ (x + y) \div total \in Nat
    BY <1>1, SMT
  <1> QED BY <1>1, <1>2, <1>3, SMT DEF MulDiv

\* A fee taken on two consecutive cumulative amounts grows by at most what the
\* amount grows by.
LEMMA MulDivGrowth ==
    ASSUME NEW a \in Nat, NEW g \in Nat, NEW b \in Nat, NEW d \in Nat \ {0}, b <= d
    PROVE  MulDiv(a + g, b, d) - MulDiv(a, b, d) \in 0..g
  <1> DEFINE x == a * b
             y == g * b
  <1>1. x \in Nat /\ y \in Nat /\ (a + g) * b = x + y /\ y <= d * g
    BY SMT
  <1>2. x \div d <= (x + y) \div d /\ (x + y) \div d <= (x \div d) + g
    BY <1>1, SMT
  <1>3. x \div d \in Nat /\ (x + y) \div d \in Nat
    BY <1>1, SMT
  <1> QED BY <1>1, <1>2, <1>3, SMT DEF MulDiv

-----------------------------------------------------------------------------
(* The plan *)

LEMMA Sizes ==
    /\ Target \in Nat /\ Tranches \in Nat /\ Tranches > 0 /\ ExpiresAt \in Nat
    /\ ApprovalWindow \in Nat /\ NoEvidence \notin Evidence
    /\ ReviewWindow \in [0..(Tranches - 1) -> Nat \ {0}]
  BY EscrowAssumption

\* The cumulative amounts start at nothing, grow and end at the target.
LEMMA PlanAmounts ==
    /\ CumulativeAmount(0) = 0 /\ CumulativeAmount(Tranches) = Target
    /\ \A i \in 0..Tranches : CumulativeAmount(i) \in 0..Target
    /\ \A i \in 0..(Tranches - 1) :
          /\ GrossAmount(i) \in Nat /\ GrossAmount(i) > 0
          /\ CumulativeAmount(i) + GrossAmount(i) = CumulativeAmount(i + 1)
  <1>1. CumulativeAmount(0) = 0 /\ CumulativeAmount(Tranches) = Target
    BY EscrowAssumption, MulDivEnds DEF CumulativeAmount
  <1>2. ASSUME NEW i \in 0..Tranches PROVE CumulativeAmount(i) \in 0..Target
    <2>1. CumulativeBps[i] \in Nat /\ CumulativeBps[i] <= BpsScale
      BY EscrowAssumption
    <2> QED BY <2>1, EscrowAssumption, MulDivBound DEF CumulativeAmount
  <1>3. ASSUME NEW i \in 0..(Tranches - 1)
        PROVE  /\ GrossAmount(i) \in Nat /\ GrossAmount(i) > 0
               /\ CumulativeAmount(i) + GrossAmount(i) = CumulativeAmount(i + 1)
    <2>1. i \in 0..Tranches /\ i + 1 \in 0..Tranches
      BY EscrowAssumption
    <2>2. CumulativeAmount(i) \in Int /\ CumulativeAmount(i + 1) \in Int
      BY <2>1, <1>2
    <2>3. GrossAmount(i) > 0
      BY EscrowAssumption
    <2> QED BY <2>2, <2>3 DEF GrossAmount
  <1> QED BY <1>1, <1>2, <1>3

\* The cumulative fee is a part of what was released.
LEMMA FeeBound ==
    ASSUME NEW r \in Nat
    PROVE  CumulativeFee(r) \in 0..r
  <1>1. FeeBps \in Nat /\ FeeBps <= BpsScale /\ BpsScale \in Nat \ {0}
    BY EscrowAssumption
  <1> QED BY <1>1, MulDivBound DEF CumulativeFee

\* No more was released than deposited.
LEMMA PoolBound ==
    ASSUME NEW e \in Escrow, EscrowInv(e)
    PROVE  /\ e.totalDeposited - e.totalReleased \in 0..Target
           /\ e.totalReleased <= e.totalDeposited
  <1>1. /\ e.totalDeposited \in Nat /\ e.totalDeposited <= Target
        /\ e.currentTranche \in 0..Tranches /\ e.totalReleased \in 0..Target
    BY EscrowAssumption DEF Escrow
  <1>2. CASE e.currentTranche = 0
    BY <1>2, <1>1, PlanAmounts, Sizes DEF EscrowInv, BooksFollowPlan
  <1>3. CASE e.currentTranche > 0
    BY <1>3, <1>1, PlanAmounts, Sizes DEF EscrowInv, BooksFollowPlan
  <1> QED BY <1>1, <1>2, <1>3, Sizes

\* A share is part of the contribution it is computed from.
LEMMA ShareWithin ==
    ASSUME NEW e, NEW f \in Funders,
           e.contributions[f] \in Nat, e.ends[f] \in Nat,
           e.totalDeposited \in Nat, e.totalReleased \in Nat,
           e.totalReleased <= e.totalDeposited, IntervalsFit(e)
    PROVE  Share(e, f, e.totalDeposited - e.totalReleased) \in 0..e.contributions[f]
  <1> DEFINE total == e.totalDeposited
             pool == total - e.totalReleased
             c == e.contributions[f]
             end == e.ends[f]
  <1>1. /\ c <= end /\ end <= total /\ pool \in Nat /\ pool <= total
        /\ c \in Nat /\ end \in Nat /\ total \in Nat
    BY DEF IntervalsFit
  <1>2. CASE c = 0
    BY <1>2 DEF Share
  <1>3. CASE c # 0 /\ e.totalReleased = 0
    BY <1>3 DEF Share
  <1>4. CASE c # 0 /\ e.totalReleased # 0
    <2>1. Share(e, f, pool) = MulDiv(pool, end, total) - MulDiv(pool, end - c, total)
      BY <1>4 DEF Share
    <2> HIDE DEF total, c, end, pool
    <2>2. total \in Nat \ {0}
      BY <1>1, <1>4
    <2>3. MulDiv(pool, end, total) - MulDiv(pool, end - c, total) \in 0..c
      BY <1>1, <2>2, MulDivInterval
    <2>4. Share(e, f, pool) \in 0..c
      BY <2>1, <2>3
    <2> QED BY <2>4 DEF pool, total, c
  <1> QED BY <1>2, <1>3, <1>4

LEMMA ShareBound ==
    ASSUME NEW e \in Escrow, EscrowInv(e), NEW f \in Funders
    PROVE  Share(e, f, e.totalDeposited - e.totalReleased) \in 0..e.contributions[f]
  <1>1. /\ e.totalDeposited \in Nat /\ e.totalReleased \in Nat
        /\ e.contributions[f] \in Nat /\ e.ends[f] \in Nat
    BY Sizes DEF Escrow
  <1>2. e.totalReleased <= e.totalDeposited
    BY PoolBound
  <1>3. IntervalsFit(e)
    BY DEF EscrowInv
  <1> QED BY <1>1, <1>2, <1>3, ShareWithin

-----------------------------------------------------------------------------
(* The operations *)

LEMMA NewEscrowInv == NewEscrow \in Escrow /\ EscrowInv(NewEscrow)
  <1>1. NewEscrow \in Escrow
    BY Sizes DEF NewEscrow, Escrow, States, NoBallots, Ballots
  <1>2. BooksFollowPlan(NewEscrow)
    BY PlanAmounts, FeeBound DEF NewEscrow, BooksFollowPlan
  <1>3. StateAgrees(NewEscrow)
    BY Sizes DEF NewEscrow, StateAgrees, RefundStates
  <1>4. IntervalsFit(NewEscrow) /\ RefundsAreShares(NewEscrow)
    BY DEF NewEscrow, IntervalsFit, RefundsAreShares
  <1> QED BY <1>1, <1>2, <1>3, <1>4 DEF EscrowInv

\* What the plan, the intervals and the refunds depend on.
SameBooks(d, e) ==
    /\ d.totalDeposited = e.totalDeposited /\ d.totalReleased = e.totalReleased
    /\ d.totalRefunded = e.totalRefunded /\ d.feePaid = e.feePaid
    /\ d.contributions = e.contributions /\ d.ends = e.ends
    /\ d.currentTranche = e.currentTranche

SameRefunds(d, e) ==
    /\ d.refundsEnabled = e.refundsEnabled /\ d.refundPool = e.refundPool
    /\ d.refundedAmounts = e.refundedAmounts

\* An operation that moves no money only has to fit the plan's states.
LEMMA SameBooksInv ==
    ASSUME NEW e, EscrowInv(e), NEW d, SameBooks(d, e), SameRefunds(d, e), StateAgrees(d)
    PROVE  EscrowInv(d)
  <1>1. BooksFollowPlan(d)
    BY DEF EscrowInv, SameBooks, BooksFollowPlan
  <1>2. IntervalsFit(d)
    BY DEF EscrowInv, SameBooks, IntervalsFit
  <1>3. RefundsAreShares(d)
    BY DEF EscrowInv, SameBooks, SameRefunds, RefundsAreShares, Share
  <1> QED BY <1>1, <1>2, <1>3 DEF EscrowInv

\* A deposit widens the wallet's interval and keeps every interval within the
\* deposits.
LEMMA DepositFits ==
    ASSUME NEW e, e.contributions \in [Funders -> 0..Target], e.ends \in [Funders -> 0..Target],
           e.totalDeposited \in Nat, IntervalsFit(e),
           NEW f \in Funders, NEW amount \in Nat, e.totalDeposited + amount <= Target
    PROVE  /\ Credit(e.contributions, f, amount) \in [Funders -> 0..Target]
           /\ ExtendIntervals(e, f, amount) \in [Funders -> 0..Target]
           /\ \A g \in Funders :
                 /\ Credit(e.contributions, f, amount)[g] <= ExtendIntervals(e, f, amount)[g]
                 /\ ExtendIntervals(e, f, amount)[g] <= e.totalDeposited + amount
  <1> DEFINE old == e.contributions
             oldEnds == e.ends
             total == e.totalDeposited
             ends == ExtendIntervals(e, f, amount)
             contributions == Credit(old, f, amount)
  <1>1. /\ old \in [Funders -> 0..Target] /\ oldEnds \in [Funders -> 0..Target]
        /\ total \in Nat /\ Target \in Nat /\ total + amount \in 0..Target
        /\ \A g \in Funders : /\ old[g] \in Nat /\ oldEnds[g] \in Nat
                              /\ old[g] <= oldEnds[g] /\ oldEnds[g] <= total
    BY Sizes DEF IntervalsFit
  <1>2. contributions = [old EXCEPT ![f] = old[f] + amount]
    BY DEF Credit
  <1>3. ends = IF old[f] = 0 THEN [oldEnds EXCEPT ![f] = total + amount]
               ELSE [g \in Funders |-> IF old[g] > 0 /\ oldEnds[g] >= oldEnds[f]
                                       THEN oldEnds[g] + amount ELSE oldEnds[g]]
    BY DEF ExtendIntervals
  <1> HIDE DEF contributions, ends, old, oldEnds, total
  <1>4. \A g \in Funders : old[g] + amount \in 0..Target /\ oldEnds[g] + amount \in 0..Target
    BY <1>1
  <1>5. /\ contributions \in [Funders -> 0..Target]
        /\ \A g \in Funders : contributions[g] = old[g] + (IF g = f THEN amount ELSE 0)
    BY <1>1, <1>2, <1>4
  <1>6. /\ ends \in [Funders -> 0..Target]
        /\ \A g \in Funders : contributions[g] <= ends[g] /\ ends[g] <= total + amount
    <2>1. CASE old[f] = 0
      BY <1>1, <1>3, <1>5, <2>1
    <2>2. CASE old[f] # 0
      <3>1. ends \in [Funders -> 0..Target] /\ ends[f] = oldEnds[f] + amount
        BY <1>1, <1>3, <1>4, <2>2
      <3>2. \A g \in Funders : ends[g] = oldEnds[g] \/ ends[g] = oldEnds[g] + amount
        BY <1>3, <2>2
      <3> QED BY <1>1, <1>5, <3>1, <3>2
    <2> QED BY <2>1, <2>2
  <1> QED BY <1>5, <1>6 DEF contributions, ends, old, total

LEMMA DepositInv ==
    ASSUME NEW e \in Escrow, EscrowInv(e), NEW f \in Funders, NEW amount \in Nat,
           NEW now \in Nat, CanDeposit(e, amount, now)
    PROVE  Deposit(e, f, amount) \in Escrow /\ EscrowInv(Deposit(e, f, amount))
  <1> DEFINE d == Deposit(e, f, amount)
             ends == ExtendIntervals(e, f, amount)
             contributions == Credit(e.contributions, f, amount)
             total == e.totalDeposited + amount
  <1>1. e.state = "Open" /\ e.currentTranche = 0 /\ ~e.refundsEnabled
    BY DEF EscrowInv, CanDeposit, StateAgrees, RefundStates
  <1>2. e.totalDeposited \in Nat /\ total \in 0..Target
    <2>1. e.totalDeposited \in 0..Target
      BY DEF Escrow
    <2>2. amount <= Target - e.totalDeposited
      BY DEF CanDeposit
    <2> QED BY <2>1, <2>2, Sizes
  <1>3. /\ contributions \in [Funders -> 0..Target] /\ ends \in [Funders -> 0..Target]
        /\ \A g \in Funders : contributions[g] <= ends[g] /\ ends[g] <= total
    <2>1. e.contributions \in [Funders -> 0..Target] /\ e.ends \in [Funders -> 0..Target]
      BY DEF Escrow
    <2>2. IntervalsFit(e) /\ e.totalDeposited + amount <= Target
      BY <1>2, Sizes DEF EscrowInv
    <2> QED BY <2>1, <2>2, <1>2, DepositFits
  <1> HIDE DEF ends, contributions
  <1>4. /\ d.state = e.state /\ d.totalDeposited = total
        /\ d.totalReleased = e.totalReleased /\ d.feePaid = e.feePaid
        /\ d.totalRefunded = e.totalRefunded /\ d.currentTranche = e.currentTranche
        /\ d.contributions = contributions /\ d.ends = ends /\ SameRefunds(d, e)
    BY Zenon DEF Deposit, Escrow, SameRefunds, ends, contributions
  <1>5. d \in Escrow
    BY <1>2, <1>3, Zenon DEF Escrow, Deposit, ends, contributions
  <1> HIDE DEF d, total
  <1>6. BooksFollowPlan(d)
    BY <1>1, <1>4, Sizes DEF EscrowInv, BooksFollowPlan
  <1>7. StateAgrees(d)
    BY <1>1, <1>4 DEF EscrowInv, StateAgrees, SameRefunds
  <1>8. IntervalsFit(d)
    BY <1>3, <1>4 DEF IntervalsFit
  <1>9. RefundsAreShares(d)
    BY <1>1, <1>4 DEF EscrowInv, RefundsAreShares, SameRefunds
  <1> QED BY <1>5, <1>6, <1>7, <1>8, <1>9 DEF d, EscrowInv

LEMMA LockInv ==
    ASSUME NEW e \in Escrow, EscrowInv(e), NEW now \in Nat, CanLock(e, now)
    PROVE  Lock(e, now) \in Escrow /\ EscrowInv(Lock(e, now))
  <1> DEFINE d == Lock(e, now)
  <1>1. d.state = "Locked" /\ SameBooks(d, e) /\ SameRefunds(d, e)
    BY Zenon DEF Lock, Escrow, SameBooks, SameRefunds
  <1>2. now + ApprovalWindow \in Nat /\ "Locked" \in States
    BY Sizes DEF States
  <1>3. d \in Escrow
    BY <1>2, Zenon DEF Escrow, Lock
  <1> HIDE DEF d
  <1>4. StateAgrees(d)
    BY <1>1, Sizes DEF EscrowInv, StateAgrees, SameBooks, SameRefunds, CanLock, RefundStates
  <1> QED BY <1>1, <1>3, <1>4, SameBooksInv DEF d

LEMMA ApproveInv ==
    ASSUME NEW e \in Escrow, EscrowInv(e), NEW party \in Parties
    PROVE  Approve(e, party) \in Escrow /\ EscrowInv(Approve(e, party))
  <1> DEFINE d == Approve(e, party)
  <1>1. d.state = e.state /\ SameBooks(d, e) /\ SameRefunds(d, e)
    BY Zenon DEF Approve, Escrow, SameBooks, SameRefunds
  <1>2. e.approved \cup {party} \in SUBSET Parties
    BY DEF Escrow
  <1>3. d \in Escrow
    BY <1>2, Zenon DEF Escrow, Approve
  <1> HIDE DEF d
  <1>4. StateAgrees(d)
    BY <1>1 DEF EscrowInv, StateAgrees, SameBooks, SameRefunds
  <1> QED BY <1>1, <1>3, <1>4, SameBooksInv DEF d

LEMMA SubmitMilestoneInv ==
    ASSUME NEW e \in Escrow, EscrowInv(e), NEW evidence \in Evidence
    PROVE  SubmitMilestone(e, evidence) \in Escrow /\ EscrowInv(SubmitMilestone(e, evidence))
  <1> DEFINE d == SubmitMilestone(e, evidence)
  <1>1. d.state = e.state /\ SameBooks(d, e) /\ SameRefunds(d, e)
    BY Zenon DEF SubmitMilestone, Escrow, SameBooks, SameRefunds
  <1>2. /\ e.usedEvidence \cup {evidence} \in SUBSET Evidence
        /\ evidence \in Evidence \cup {NoEvidence} /\ {} \in SUBSET Parties
        /\ NoBallots \in [Funders -> Ballots] /\ 0 \in Nat
    BY DEF Escrow, NoBallots, Ballots
  <1>3. d \in Escrow
    BY <1>2, Zenon DEF Escrow, SubmitMilestone
  <1> HIDE DEF d
  <1>4. StateAgrees(d)
    BY <1>1 DEF EscrowInv, StateAgrees, SameBooks, SameRefunds
  <1> QED BY <1>1, <1>3, <1>4, SameBooksInv DEF d

LEMMA VoteInv ==
    ASSUME NEW e \in Escrow, EscrowInv(e), NEW f \in Funders, NEW ballot \in {"yes", "no"}
    PROVE  Vote(e, f, ballot) \in Escrow /\ EscrowInv(Vote(e, f, ballot))
  <1> DEFINE d == Vote(e, f, ballot)
             votes == [e.votes EXCEPT ![f] = ballot]
             weight == IF ballot = "yes" THEN e.yesWeight + e.contributions[f] ELSE e.yesWeight
  <1>1. d.state = e.state /\ SameBooks(d, e) /\ SameRefunds(d, e)
    BY Zenon DEF Vote, Escrow, SameBooks, SameRefunds
  <1>2. votes \in [Funders -> Ballots] /\ weight \in Nat
    <2>1. e.votes \in [Funders -> Ballots] /\ ballot \in Ballots
      BY DEF Escrow, Ballots
    <2>2. e.yesWeight \in Nat /\ e.contributions[f] \in Nat
      BY Sizes DEF Escrow
    <2>3. votes \in [Funders -> Ballots]
      BY <2>1
    <2>4. weight \in Nat
      BY <2>2
    <2> QED BY <2>3, <2>4
  <1>3. d \in Escrow
    BY <1>2, Zenon DEF Escrow, Vote
  <1> HIDE DEF d
  <1>4. StateAgrees(d)
    BY <1>1 DEF EscrowInv, StateAgrees, SameBooks, SameRefunds
  <1> QED BY <1>1, <1>3, <1>4, SameBooksInv DEF d

\* A payment moves the books to the plan's next tranche.
LEMMA ReleaseInv ==
    ASSUME NEW e \in Escrow, EscrowInv(e), NEW now \in Nat, NEW index, NEW evidence,
           CanRelease(e, index, evidence, now)
    PROVE  /\ Release(e, now) \in Escrow /\ EscrowInv(Release(e, now))
           /\ e.state \in {"Locked", "Active"} /\ index = e.currentTranche
           /\ index \in 0..(Tranches - 1)
           /\ TrancheFee(e) \in 0..GrossAmount(index)
           /\ Payment(e) = GrossAmount(index)
  <1> DEFINE d == Release(e, now)
             i == e.currentTranche
             gross == GrossAmount(i)
             released == CumulativeAmount(i + 1)
  <1>1. /\ e.state \in {"Locked", "Active"} /\ index = i /\ e.totalDeposited = Target
        /\ ~e.refundsEnabled /\ i \in 0..(Tranches - 1)
    <2>1. e.state \in {"Locked", "Active"} /\ index = i
      BY DEF CanRelease, Current
    <2>2. e.totalDeposited = Target /\ ~e.refundsEnabled /\ i # Tranches
      BY <2>1 DEF EscrowInv, StateAgrees, RefundStates
    <2>3. i \in 0..Tranches
      BY DEF Escrow
    <2> HIDE DEF i
    <2> QED BY <2>1, <2>2, <2>3, Sizes
  <1>2. /\ gross \in Nat /\ gross > 0 /\ e.totalReleased + gross = released
        /\ released \in 0..Target /\ e.totalReleased \in Nat
    <2>1. e.totalReleased = CumulativeAmount(i)
      BY DEF EscrowInv, BooksFollowPlan
    <2>2. i \in 0..Tranches /\ i + 1 \in 0..Tranches
      BY <1>1, Sizes
    <2>3. gross \in Nat /\ gross > 0 /\ CumulativeAmount(i) + gross = released
      BY <1>1, PlanAmounts
    <2>4. released \in 0..Target
      BY <2>2, PlanAmounts
    <2>5. CumulativeAmount(i) \in 0..Target
      BY <2>2, PlanAmounts
    <2> HIDE DEF i, gross, released
    <2> QED BY <2>1, <2>3, <2>4, <2>5, Sizes
  <1>3. /\ TrancheFee(e) \in 0..gross
        /\ e.feePaid + TrancheFee(e) = CumulativeFee(released)
        /\ CumulativeFee(released) \in 0..Target
    <2>1. FeeBps \in Nat /\ FeeBps <= BpsScale /\ BpsScale \in Nat \ {0}
      BY EscrowAssumption
    <2>2. CumulativeFee(e.totalReleased + gross) - CumulativeFee(e.totalReleased) \in 0..gross
      BY <2>1, <1>2, MulDivGrowth DEF CumulativeFee
    <2>3. e.feePaid = CumulativeFee(e.totalReleased)
      BY DEF EscrowInv, BooksFollowPlan
    <2>4. CumulativeFee(released) \in 0..released
      BY <1>2, FeeBound, Sizes
    <2>5. CumulativeFee(e.totalReleased) \in 0..e.totalReleased
      BY <1>2, FeeBound
    <2>6. TrancheFee(e) = CumulativeFee(released) - e.feePaid
      BY <1>2 DEF TrancheFee
    <2> HIDE DEF gross, released
    <2> QED BY <2>2, <2>3, <2>4, <2>5, <2>6, <1>2, Sizes
  <1>4. Payment(e) = gross
    <2> HIDE DEF gross
    <2>1. Payment(e) = (IF gross > TrancheFee(e) THEN gross - TrancheFee(e) ELSE 0) + TrancheFee(e)
      BY DEF Payment, gross
    <2> QED BY <2>1, <1>2, <1>3
  <1> HIDE DEF released
  <1>5. /\ d.totalDeposited = e.totalDeposited /\ d.totalReleased = released
        /\ d.totalRefunded = e.totalRefunded /\ d.feePaid = CumulativeFee(released)
        /\ d.contributions = e.contributions /\ d.ends = e.ends
        /\ d.currentTranche = i + 1 /\ SameRefunds(d, e)
        /\ d.state = IF i + 1 = Tranches THEN "Released" ELSE "Active"
    <2>1. /\ d.totalDeposited = e.totalDeposited /\ d.totalReleased = e.totalReleased + gross
          /\ d.totalRefunded = e.totalRefunded /\ d.feePaid = e.feePaid + TrancheFee(e)
          /\ d.contributions = e.contributions /\ d.ends = e.ends
          /\ d.currentTranche = i + 1 /\ SameRefunds(d, e)
          /\ d.state = IF i + 1 = Tranches THEN "Released" ELSE "Active"
      BY Zenon DEF Release, Escrow, SameRefunds
    <2> HIDE DEF d, gross, i
    <2> QED BY <2>1, <1>2, <1>3
  <1>6. d \in Escrow
    <2> DEFINE deadline == IF i + 1 = Tranches THEN e.approvalDeadline
                           ELSE now + ReviewWindow[i + 1]
               next == IF i + 1 = Tranches THEN "Released" ELSE "Active"
    <2>1. deadline \in Nat
      <3>1. CASE i + 1 = Tranches
        BY <3>1 DEF Escrow
      <3>2. CASE i + 1 # Tranches
        <4>1. i + 1 \in 0..(Tranches - 1)
          <5>1. i \in 0..(Tranches - 1)
            BY <1>1
          <5> HIDE DEF i
          <5> QED BY <3>2, <5>1, Sizes
        <4>2. ReviewWindow[i + 1] \in Nat
          BY <4>1, Sizes
        <4> QED BY <3>2, <4>2
      <3> QED BY <3>1, <3>2
    <2>2. /\ next \in States /\ {} \in SUBSET Parties /\ {} \in SUBSET Evidence
          /\ NoEvidence \in Evidence \cup {NoEvidence} /\ 0 \in Nat
          /\ NoBallots \in [Funders -> Ballots]
      BY DEF States, NoBallots, Ballots
    <2>3. i + 1 \in 0..Tranches
      BY <1>1, Sizes
    <2>4. e.totalReleased + gross \in 0..Target /\ e.feePaid + TrancheFee(e) \in 0..Target
      BY <1>2, <1>3
    <2> QED BY <2>1, <2>2, <2>3, <2>4, Zenon DEF Escrow, Release
  <1> HIDE DEF d, gross
  <1>7. BooksFollowPlan(d)
    BY <1>1, <1>5 DEF BooksFollowPlan, released
  <1>8. StateAgrees(d)
    BY <1>1, <1>5, Sizes DEF StateAgrees, SameRefunds, RefundStates
  <1>9. IntervalsFit(d)
    BY <1>5 DEF EscrowInv, IntervalsFit
  <1>10. RefundsAreShares(d)
    BY <1>1, <1>5 DEF EscrowInv, RefundsAreShares, SameRefunds
  <1> QED BY <1>1, <1>3, <1>4, <1>6, <1>7, <1>8, <1>9, <1>10 DEF d, gross, EscrowInv

\* Opening the refunds fixes the pool to what is unpaid.
LEMMA OpenRefundsInv ==
    ASSUME NEW e \in Escrow, EscrowInv(e), e.state \notin {"Released", "Refunded"},
           NEW next \in {"Cancelled", "Expired", "Voided"}, NEW availableAt \in Nat
    PROVE  /\ OpenRefunds(e, next, availableAt) \in Escrow
           /\ EscrowInv(OpenRefunds(e, next, availableAt))
           /\ SameBooks(OpenRefunds(e, next, availableAt), e)
           /\ OpenRefunds(e, next, availableAt).refundedAmounts = e.refundedAmounts
           /\ OpenRefunds(e, next, availableAt).refundsEnabled
           /\ OpenRefunds(e, next, availableAt).state = next
           /\ e.refundsEnabled => OpenRefunds(e, next, availableAt).refundPool = e.refundPool
  <1> DEFINE d == OpenRefunds(e, next, availableAt)
             pool == e.totalDeposited - e.totalReleased
  <1>1. /\ d.state = next /\ SameBooks(d, e) /\ d.refundsEnabled = TRUE
        /\ d.refundPool = pool /\ d.refundedAmounts = e.refundedAmounts
    BY Zenon DEF OpenRefunds, Escrow, SameBooks
  <1>2. next \in States /\ TRUE \in BOOLEAN
    BY DEF States
  <1>3. pool \in 0..Target
    BY PoolBound
  <1>4. d \in Escrow
    BY <1>2, <1>3, Zenon DEF Escrow, OpenRefunds
  <1> HIDE DEF d
  <1>5. BooksFollowPlan(d) /\ IntervalsFit(d)
    BY <1>1 DEF EscrowInv, BooksFollowPlan, IntervalsFit, SameBooks
  <1>6. StateAgrees(d)
    BY <1>1 DEF EscrowInv, StateAgrees, SameBooks, RefundStates
  <1>7. e.refundsEnabled => e.refundPool = pool
    BY DEF EscrowInv, RefundsAreShares
  <1>8. RefundsAreShares(d)
    <2>1. \A f \in Funders : Share(d, f, pool) = Share(e, f, pool)
      BY <1>1 DEF SameBooks, Share
    <2> HIDE DEF pool
    <2>2. \A f \in Funders : e.refundedAmounts[f] \in {0, Share(e, f, pool)}
      BY <1>7 DEF EscrowInv, RefundsAreShares
    <2>3. d.refundPool = d.totalDeposited - d.totalReleased
      BY <1>1 DEF SameBooks, pool
    <2> QED BY <1>1, <2>1, <2>2, <2>3 DEF RefundsAreShares
  <1> QED BY <1>1, <1>4, <1>5, <1>6, <1>7, <1>8 DEF d, EscrowInv

LEMMA InvalidateSelectionInv ==
    ASSUME NEW e \in Escrow, EscrowInv(e), e.state = "Locked", NEW now \in Nat
    PROVE  LET d == InvalidateSelection(e, now)
           IN /\ d \in Escrow /\ EscrowInv(d) /\ SameBooks(d, e)
              /\ d.refundsEnabled /\ d.state = "Cancelled" /\ d.approvalDeadline = 0
  <1> DEFINE o == OpenRefunds(e, "Cancelled", now)
             d == InvalidateSelection(e, now)
  <1>1. /\ o \in Escrow /\ EscrowInv(o) /\ SameBooks(o, e)
        /\ o.refundsEnabled /\ o.state = "Cancelled"
    BY OpenRefundsInv
  <1>2. d = [o EXCEPT !.approvalDeadline = 0, !.approved = {}]
    BY DEF InvalidateSelection
  <1> HIDE DEF o, d
  <1>3. d.state = o.state /\ SameBooks(d, o) /\ SameRefunds(d, o) /\ d.approvalDeadline = 0
    BY <1>1, <1>2, Zenon DEF Escrow, SameBooks, SameRefunds
  <1>4. 0 \in Nat /\ {} \in SUBSET Parties
    OBVIOUS
  <1>5. d \in Escrow
    BY <1>1, <1>2, <1>4, Zenon DEF Escrow
  <1>6. StateAgrees(d)
    BY <1>1, <1>3 DEF EscrowInv, StateAgrees, SameBooks, SameRefunds
  <1>7. EscrowInv(d)
    BY <1>1, <1>3, <1>6, SameBooksInv
  <1>8. SameBooks(d, e) /\ d.refundsEnabled
    BY <1>1, <1>3 DEF SameBooks, SameRefunds
  <1> QED BY <1>1, <1>3, <1>5, <1>7, <1>8 DEF d

\* A claim pays the claimant's whole share, once.
LEMMA ClaimInv ==
    ASSUME NEW e \in Escrow, EscrowInv(e), NEW f \in Funders, NEW now \in Nat,
           CanClaim(e, f, now)
    PROVE  LET d == Claim(e, f, now)
           IN /\ d \in Escrow /\ EscrowInv(d)
              /\ ClaimAmount(e, f, now) \in Nat /\ ClaimAmount(e, f, now) > 0
              /\ d.totalRefunded = e.totalRefunded + ClaimAmount(e, f, now)
              /\ d.totalDeposited = e.totalDeposited /\ d.totalReleased = e.totalReleased
              /\ d.currentTranche = e.currentTranche
              /\ d.refundsEnabled /\ d.state \in RefundStates
              /\ e.refundsEnabled => d.refundPool = e.refundPool
              /\ ~e.refundsEnabled => CanExpire(e, now)
              /\ d.approvalDeadline = e.approvalDeadline
  <1> DEFINE o == WithRefundsOpen(e, now)
             d == Claim(e, f, now)
             due == RefundDue(o, f)
             refunded == Credit(o.refundedAmounts, f, due)
  <1>1. /\ o \in Escrow /\ EscrowInv(o) /\ SameBooks(o, e) /\ o.refundsEnabled
        /\ o.state \in {"Cancelled", "Expired", "Voided"}
        /\ e.refundsEnabled => o.refundPool = e.refundPool
        /\ ~e.refundsEnabled => CanExpire(e, now)
        /\ o.approvalDeadline = e.approvalDeadline
    <2>1. CASE e.refundsEnabled
      <3>1. o = e
        BY <2>1 DEF WithRefundsOpen
      <3>2. e.state \in {"Cancelled", "Expired", "Voided"}
        BY <2>1 DEF EscrowInv, StateAgrees, RefundStates, CanClaim
      <3> HIDE DEF o
      <3> QED BY <2>1, <3>1, <3>2 DEF SameBooks
    <2>2. CASE ~e.refundsEnabled
      <3>1. o = OpenRefunds(e, "Expired", now) /\ CanExpire(e, now)
        BY <2>2 DEF WithRefundsOpen, Expire, CanClaim
      <3>2. e.state \notin {"Released", "Refunded"}
        BY DEF CanClaim
      <3> HIDE DEF o
      <3>3. o.approvalDeadline = e.approvalDeadline
        BY <3>1, Zenon DEF OpenRefunds, Escrow
      <3> QED BY <2>2, <3>1, <3>2, <3>3, OpenRefundsInv
    <2> QED BY <2>1, <2>2
  <1>2. /\ due # 0 /\ ClaimAmount(e, f, now) = due
        /\ d = [o EXCEPT !.refundedAmounts = refunded,
                         !.totalRefunded = o.totalRefunded + due,
                         !.state = IF o.totalRefunded + due = o.refundPool
                                   THEN "Refunded" ELSE o.state]
    BY Zenon DEF CanClaim, ClaimAmount, Claim
  <1> DEFINE next == IF o.totalRefunded + due = o.refundPool THEN "Refunded" ELSE o.state
  <1> HIDE DEF o, d
  <1>3. /\ Share(o, f, o.refundPool) \in Nat
        /\ o.refundedAmounts \in [Funders -> Nat] /\ o.totalRefunded \in Nat
        /\ o.refundedAmounts[f] \in {0, Share(o, f, o.refundPool)}
    <2>1. o.refundPool = o.totalDeposited - o.totalReleased
      BY <1>1 DEF EscrowInv, RefundsAreShares
    <2>2. Share(o, f, o.totalDeposited - o.totalReleased) \in 0..o.contributions[f]
      BY <1>1, ShareBound
    <2>3. o.contributions[f] \in Nat
      BY <1>1, Sizes DEF Escrow
    <2>4. Share(o, f, o.refundPool) \in Nat
      BY <2>1, <2>2, <2>3
    <2>5. o.refundedAmounts[f] \in {0, Share(o, f, o.refundPool)}
      BY <1>1 DEF EscrowInv, RefundsAreShares
    <2>6. o.refundedAmounts \in [Funders -> Nat] /\ o.totalRefunded \in Nat
      BY <1>1 DEF Escrow
    <2> QED BY <2>4, <2>5, <2>6
  <1>4. due = Share(o, f, o.refundPool) /\ due \in Nat /\ due > 0 /\ o.refundedAmounts[f] = 0
    <2>1. due = Share(o, f, o.refundPool) - o.refundedAmounts[f]
      BY DEF RefundDue
    <2> HIDE DEF due
    <2> QED BY <2>1, <1>2, <1>3
  <1>5. /\ refunded \in [Funders -> Nat]
        /\ \A g \in Funders : refunded[g] = IF g = f THEN due ELSE o.refundedAmounts[g]
    <2>1. refunded = [o.refundedAmounts EXCEPT ![f] = o.refundedAmounts[f] + due]
      BY DEF Credit
    <2> HIDE DEF due, refunded
    <2> QED BY <2>1, <1>3, <1>4
  <1> HIDE DEF due, refunded
  <1>6. /\ d.state = next /\ d.refundedAmounts = refunded
        /\ d.totalRefunded = o.totalRefunded + due
        /\ d.totalDeposited = o.totalDeposited /\ d.totalReleased = o.totalReleased
        /\ d.feePaid = o.feePaid /\ d.contributions = o.contributions /\ d.ends = o.ends
        /\ d.currentTranche = o.currentTranche /\ d.refundsEnabled = o.refundsEnabled
        /\ d.refundPool = o.refundPool /\ d.approvalDeadline = o.approvalDeadline
    BY <1>1, <1>2, Zenon DEF Escrow
  <1>7. next \in {"Refunded", "Cancelled", "Expired", "Voided"} /\ next \in States
    BY <1>1 DEF States
  <1> HIDE DEF next
  <1>8. d \in Escrow
    <2>1. o.totalRefunded + due \in Nat
      BY <1>3, <1>4
    <2> QED BY <2>1, <1>1, <1>2, <1>5, <1>7, ZenonT(60) DEF Escrow, next
  <1>9. BooksFollowPlan(d) /\ IntervalsFit(d)
    BY <1>1, <1>6 DEF EscrowInv, BooksFollowPlan, IntervalsFit
  <1>10. StateAgrees(d)
    BY <1>1, <1>6, <1>7 DEF EscrowInv, StateAgrees, RefundStates
  <1>11. RefundsAreShares(d)
    <2>1. \A g \in Funders : Share(d, g, d.refundPool) = Share(o, g, o.refundPool)
      BY <1>6 DEF Share
    <2> QED BY <2>1, <1>1, <1>4, <1>5, <1>6 DEF EscrowInv, RefundsAreShares
  <1>12. /\ d.totalRefunded = e.totalRefunded + due /\ d.totalDeposited = e.totalDeposited
         /\ d.totalReleased = e.totalReleased /\ d.currentTranche = e.currentTranche
    BY <1>1, <1>6 DEF SameBooks
  <1> QED BY <1>1, <1>2, <1>4, <1>6, <1>7, <1>8, <1>9, <1>10, <1>11, <1>12
          DEF d, EscrowInv, RefundStates

-----------------------------------------------------------------------------
(* Sums over the funders *)

\* The wallets' intervals cut the deposits into pieces.
IntervalsTile(e) == Tiles(Funders, e.contributions, e.ends, e.totalDeposited)

\* A deposit widens one piece, or adds one, and shifts what comes after.
LEMMA DepositTiles ==
    ASSUME NEW e, e.contributions \in [Funders -> Nat], e.ends \in [Funders -> Nat],
           e.totalDeposited \in Nat, IntervalsFit(e), IntervalsTile(e),
           NEW f \in Funders, NEW amount \in Nat \ {0}
    PROVE  Tiles(Funders, Credit(e.contributions, f, amount),
                 ExtendIntervals(e, f, amount), e.totalDeposited + amount)
  <1> DEFINE old == e.contributions
             oldEnds == e.ends
             total == e.totalDeposited
             length == Credit(old, f, amount)
             end == ExtendIntervals(e, f, amount)
  <1>1. /\ old \in [Funders -> Nat] /\ oldEnds \in [Funders -> Nat] /\ total \in Nat
        /\ \A g \in Funders : old[g] <= oldEnds[g] /\ oldEnds[g] <= total
        /\ Tiles(Funders, old, oldEnds, total)
    BY DEF IntervalsFit, IntervalsTile
  <1>2. length = [old EXCEPT ![f] = old[f] + amount]
    BY DEF Credit
  <1>3. end = IF old[f] = 0 THEN [oldEnds EXCEPT ![f] = total + amount]
              ELSE [g \in Funders |-> IF old[g] > 0 /\ oldEnds[g] >= oldEnds[f]
                                      THEN oldEnds[g] + amount ELSE oldEnds[g]]
    BY DEF ExtendIntervals
  <1> HIDE DEF old, oldEnds, total, length, end
  <1>4. \A g \in Funders : length[g] = IF g = f THEN old[g] + amount ELSE old[g]
    BY <1>1, <1>2
  <1>5. /\ total + amount \in Nat /\ old[f] \in Nat
        /\ \A g \in Funders : old[g] \in Nat /\ oldEnds[g] \in Nat
    BY <1>1
  <1>6. \A g \in Funders : old[g] > 0 =>
           \/ oldEnds[g] = old[g]
           \/ \E y \in Funders : old[y] > 0 /\ oldEnds[y] = oldEnds[g] - old[g]
    BY <1>1 DEF Tiles
  <1>7. \A g, y \in Funders : old[g] > 0 /\ old[y] > 0 /\ g # y =>
           oldEnds[g] <= oldEnds[y] - old[y] \/ oldEnds[y] <= oldEnds[g] - old[g]
    BY <1>1 DEF Tiles
  <1>8. total = 0 \/ \E g \in Funders : old[g] > 0 /\ oldEnds[g] = total
    BY <1>1 DEF Tiles
  <1>9. ASSUME old[f] = 0
        PROVE  Tiles(Funders, length, end, total + amount)
    <2>1. \A g \in Funders : end[g] = IF g = f THEN total + amount ELSE oldEnds[g]
      BY <1>1, <1>3, <1>9
    <2>2. ASSUME NEW g \in Funders, length[g] > 0
          PROVE  /\ end[g] <= total + amount
                 /\ \/ end[g] = length[g]
                    \/ \E y \in Funders : length[y] > 0 /\ end[y] = end[g] - length[g]
      <3>1. CASE g = f
        BY <1>4, <1>5, <1>8, <1>9, <2>1, <3>1
      <3>2. CASE g # f
        <4>1. old[g] > 0 /\ length[g] = old[g] /\ end[g] = oldEnds[g]
          BY <1>4, <2>1, <2>2, <3>2
        <4>2. \A y \in Funders : old[y] > 0 => length[y] > 0 /\ end[y] = oldEnds[y]
          BY <1>4, <1>9, <2>1
        <4> QED BY <1>1, <1>5, <1>6, <4>1, <4>2
      <3> QED BY <3>1, <3>2
    <2>3. ASSUME NEW g \in Funders, NEW y \in Funders, length[g] > 0, length[y] > 0, g # y
          PROVE  end[g] <= end[y] - length[y] \/ end[y] <= end[g] - length[g]
      BY <1>1, <1>4, <1>5, <1>7, <1>9, <2>1, <2>3
    <2>4. length[f] > 0 /\ end[f] = total + amount
      BY <1>4, <1>9, <2>1
    <2> QED BY <2>2, <2>3, <2>4 DEF Tiles
  <1>10. ASSUME old[f] # 0
         PROVE  Tiles(Funders, length, end, total + amount)
    <2>1. \A g \in Funders : end[g] = IF old[g] > 0 /\ oldEnds[g] >= oldEnds[f]
                                      THEN oldEnds[g] + amount ELSE oldEnds[g]
      BY <1>3, <1>10
    <2>2. \A g \in Funders : length[g] > 0 <=> old[g] > 0
      BY <1>4, <1>5, <1>10
    <2>3. ASSUME NEW g \in Funders, length[g] > 0
          PROVE  /\ end[g] <= total + amount
                 /\ \/ end[g] = length[g]
                    \/ \E y \in Funders : length[y] > 0 /\ end[y] = end[g] - length[g]
      <3>1. end[g] <= total + amount
        BY <1>1, <1>5, <2>1
      <3>2. \/ g = f
            \/ oldEnds[g] - old[g] >= oldEnds[f] /\ g # f
            \/ oldEnds[g] < oldEnds[f] /\ g # f
        BY <1>5, <1>7, <1>10, <2>2, <2>3
      <3>3. \/ end[g] - length[g] = oldEnds[g] - old[g] /\ oldEnds[g] <= oldEnds[f]
            \/ /\ end[g] - length[g] = oldEnds[g] - old[g] + amount
               /\ oldEnds[g] - old[g] >= oldEnds[f]
        BY <1>4, <1>5, <2>1, <2>2, <2>3, <3>2
      <3>4. end[g] \in Nat /\ length[g] \in Nat
        BY <1>4, <1>5, <2>1
      <3>5. CASE oldEnds[g] = old[g]
        <4>1. oldEnds[f] > 0 /\ oldEnds[g] - old[g] = 0
          BY <1>1, <1>5, <1>10, <3>5
        <4>2. end[g] = length[g]
          BY <1>5, <3>3, <3>4, <4>1
        <4> QED BY <3>1, <4>2
      <3>6. ASSUME NEW y \in Funders, old[y] > 0, oldEnds[y] = oldEnds[g] - old[g]
            PROVE  length[y] > 0 /\ end[y] = end[g] - length[g]
        <4>1. old[g] > 0
          BY <2>2, <2>3
        <4>2. CASE oldEnds[y] < oldEnds[f]
          BY <1>5, <2>1, <2>2, <3>3, <3>6, <4>2
        <4>3. CASE oldEnds[y] >= oldEnds[f]
          BY <1>5, <2>1, <2>2, <3>3, <3>6, <4>1, <4>3
        <4> QED BY <1>5, <4>2, <4>3
      <3> QED BY <1>6, <2>2, <2>3, <3>1, <3>5, <3>6
    <2>4. ASSUME NEW g \in Funders, NEW y \in Funders, length[g] > 0, length[y] > 0, g # y
          PROVE  end[g] <= end[y] - length[y] \/ end[y] <= end[g] - length[g]
      <3>1. /\ old[g] > 0 /\ old[y] > 0 /\ old[f] > 0
            /\ oldEnds[g] <= oldEnds[y] - old[y] \/ oldEnds[y] <= oldEnds[g] - old[g]
        BY <1>5, <1>7, <1>10, <2>2, <2>4
      <3>2. \A x \in {g, y} : x # f =>
               oldEnds[x] <= oldEnds[f] - old[f] \/ oldEnds[f] <= oldEnds[x] - old[x]
        BY <1>7, <3>1
      <3> QED BY <1>4, <1>5, <2>1, <2>4, <3>1, <3>2
    <2>5. \E g \in Funders : length[g] > 0 /\ end[g] = total + amount
      <3>1. PICK g \in Funders : old[g] > 0 /\ oldEnds[g] = total
        BY <1>1, <1>5, <1>8, <1>10
      <3> QED BY <1>1, <2>1, <2>2, <3>1
    <2> QED BY <2>3, <2>4, <2>5 DEF Tiles
  <1>11. Tiles(Funders, length, end, total + amount)
    BY <1>9, <1>10
  <1> QED BY <1>11 DEF length, end, old, total

\* The shares of what is unpaid add up to it, whatever was deposited in which order.
LEMMA SharesAddUp ==
    ASSUME NEW e, e.contributions \in [Funders -> Nat], e.ends \in [Funders -> Nat],
           e.totalDeposited \in Nat, e.totalReleased \in Nat,
           e.totalReleased <= e.totalDeposited, IntervalsFit(e), IntervalsTile(e)
    PROVE  Total([f \in Funders |-> Share(e, f, e.totalDeposited - e.totalReleased)], Funders)
              = e.totalDeposited - e.totalReleased
  <1> DEFINE total == e.totalDeposited
             pool == total - e.totalReleased
             share == [f \in Funders |-> Share(e, f, pool)]
             length == e.contributions
             end == e.ends
  <1>1. /\ length \in [Funders -> Nat] /\ end \in [Funders -> Nat]
        /\ total \in Nat /\ pool \in Nat
        /\ \A f \in Funders : length[f] <= end[f] /\ end[f] <= total
        /\ Tiles(Funders, length, end, total) /\ IsFiniteSet(Funders)
    BY EscrowAssumption DEF IntervalsFit, IntervalsTile
  <1>2. CASE e.totalReleased = 0
    <2> DEFINE h == [i \in 0..total |-> i]
    <2>1. \A f \in Funders : share[f] = IF length[f] = 0 THEN 0 ELSE length[f]
      BY <1>2 DEF Share
    <2>2. \A f \in Funders : share[f] = IF length[f] = 0 THEN 0
                                        ELSE h[end[f]] - h[end[f] - length[f]]
      BY <1>1, <2>1
    <2>3. \A i \in 0..total : h[i] \in Int
      BY <1>1
    <2>4. h[total] - h[0] = pool
      BY <1>1, <1>2
    <2> HIDE DEF h, share, length, end, total
    <2>5. Total(share, Funders) = h[total] - h[0]
      BY <1>1, <2>2, <2>3, TelescopingSum
    <2> QED BY <2>4, <2>5 DEF share, total
  <1>3. CASE e.totalReleased # 0
    <2> DEFINE h == [i \in 0..total |-> MulDiv(pool, i, total)]
    <2>1. total \in Nat \ {0} /\ pool <= total
      BY <1>1, <1>3
    <2>2. \A f \in Funders : share[f] = IF length[f] = 0 THEN 0
               ELSE MulDiv(pool, end[f], total) - MulDiv(pool, end[f] - length[f], total)
      BY <1>3 DEF Share
    <2>3. \A f \in Funders : share[f] = IF length[f] = 0 THEN 0
                                        ELSE h[end[f]] - h[end[f] - length[f]]
      BY <1>1, <2>2
    <2>4. \A i \in 0..total : h[i] \in Int
      <3>1. \A i \in 0..total : MulDiv(pool, i, total) \in 0..pool
        BY <1>1, <2>1, MulDivBound
      <3> QED BY <3>1, <1>1
    <2>5. h[total] = pool /\ h[0] = 0
      BY <1>1, <2>1, MulDivEnds
    <2> HIDE DEF h, share, length, end, total, pool
    <2>6. Total(share, Funders) = h[total] - h[0]
      <3>1. /\ total \in Nat /\ IsFiniteSet(Funders) /\ Tiles(Funders, length, end, total)
            /\ length \in [Funders -> Nat] /\ end \in [Funders -> Nat]
            /\ \A f \in Funders : length[f] <= end[f]
        BY <1>1
      <3> QED BY ONLY <3>1, <2>3, <2>4, TelescopingSum, SMT
    <2>7. Total(share, Funders) = pool
      BY <2>5, <2>6, <1>1
    <2> QED BY <2>7 DEF share, total, pool
  <1> QED BY <1>2, <1>3

\* What was refunded is the sum of what the wallets claimed, and an escrow counts
\* as refunded when that is the whole pool.
RefundsAddUp(e) ==
    /\ e.totalRefunded = Total(e.refundedAmounts, Funders)
    /\ e.state = "Refunded" => e.totalRefunded = e.refundPool

\* The tally is what the wallets that voted yes deposited; nobody votes while
\* deposits may still change.
YesVotes(votes, contributions) ==
    [f \in Funders |-> IF votes[f] = "yes" THEN contributions[f] ELSE 0]

VotesAddUp(e) ==
    /\ e.yesWeight = Total(YesVotes(e.votes, e.contributions), Funders)
    /\ e.state = "Open" => e.votes = NoBallots

SumsInv(e) ==
    /\ IntervalsTile(e)
    /\ RefundsAddUp(e)
    /\ VotesAddUp(e)

LEMMA NoBallotsNoWeight ==
    ASSUME NEW contributions
    PROVE  Total(YesVotes(NoBallots, contributions), Funders) = 0
  <1>1. \A f \in Funders : YesVotes(NoBallots, contributions)[f] = 0
    BY DEF YesVotes, NoBallots
  <1> QED BY <1>1, TotalOfZeros, EscrowAssumption

LEMMA NewEscrowSums == SumsInv(NewEscrow)
  <1>1. IntervalsTile(NewEscrow)
    BY DEF IntervalsTile, Tiles, NewEscrow
  <1>2. RefundsAddUp(NewEscrow)
    <2>1. Total([f \in Funders |-> 0], Funders) = 0
      BY TotalOfZeros, EscrowAssumption
    <2> QED BY <2>1 DEF RefundsAddUp, NewEscrow
  <1>3. VotesAddUp(NewEscrow)
    BY NoBallotsNoWeight DEF VotesAddUp, NewEscrow
  <1> QED BY <1>1, <1>2, <1>3 DEF SumsInv

\* An operation that leaves the deposits and the refunds alone, and the votes too
\* unless it voids them.
LEMMA SameSums ==
    ASSUME NEW e, SumsInv(e), NEW d,
           d.contributions = e.contributions, d.ends = e.ends,
           d.totalDeposited = e.totalDeposited,
           d.refundedAmounts = e.refundedAmounts, d.totalRefunded = e.totalRefunded,
           \/ d.votes = e.votes /\ d.yesWeight = e.yesWeight
           \/ d.votes = NoBallots /\ d.yesWeight = 0,
           \/ d.state = e.state /\ d.refundPool = e.refundPool
           \/ d.state \notin {"Open", "Refunded"}
    PROVE  SumsInv(d)
  <1>1. IntervalsTile(d)
    BY DEF SumsInv, IntervalsTile
  <1>2. RefundsAddUp(d)
    BY DEF SumsInv, RefundsAddUp
  <1>3. VotesAddUp(d)
    BY NoBallotsNoWeight DEF SumsInv, VotesAddUp
  <1> QED BY <1>1, <1>2, <1>3 DEF SumsInv

\* What keeps the sums when a deposit, a ballot or a refund changes them: stated of
\* the fields alone, because the independent escrow does the same with a record of
\* its own.
LEMMA DepositKeepsSums ==
    ASSUME NEW e, SumsInv(e), IntervalsFit(e), e.state = "Open",
           e.contributions \in [Funders -> Nat], e.ends \in [Funders -> Nat],
           e.totalDeposited \in Nat,
           NEW f \in Funders, NEW amount \in Nat \ {0},
           NEW d, d.contributions = Credit(e.contributions, f, amount),
           d.ends = ExtendIntervals(e, f, amount),
           d.totalDeposited = e.totalDeposited + amount,
           d.refundedAmounts = e.refundedAmounts, d.totalRefunded = e.totalRefunded,
           d.votes = e.votes, d.yesWeight = e.yesWeight,
           d.state = e.state, d.refundPool = e.refundPool
    PROVE  SumsInv(d)
  <1>1. IntervalsTile(d)
    <2>1. IntervalsTile(e)
      BY DEF SumsInv
    <2>2. Tiles(Funders, Credit(e.contributions, f, amount),
                ExtendIntervals(e, f, amount), e.totalDeposited + amount)
      BY <2>1, DepositTiles
    <2> QED BY <2>2 DEF IntervalsTile
  <1>2. RefundsAddUp(d)
    BY DEF SumsInv, RefundsAddUp
  <1>3. VotesAddUp(d)
    <2>1. e.votes = NoBallots
      BY DEF SumsInv, VotesAddUp
    <2>2. e.yesWeight = 0
      BY <2>1, NoBallotsNoWeight DEF SumsInv, VotesAddUp
    <2> QED BY <2>1, <2>2, NoBallotsNoWeight DEF VotesAddUp
  <1> QED BY <1>1, <1>2, <1>3 DEF SumsInv

LEMMA DepositSums ==
    ASSUME NEW e \in Escrow, EscrowInv(e), SumsInv(e), NEW f \in Funders,
           NEW amount \in Nat, NEW now \in Nat, CanDeposit(e, amount, now)
    PROVE  SumsInv(Deposit(e, f, amount))
  <1> DEFINE d == Deposit(e, f, amount)
  <1>1. /\ d.contributions = Credit(e.contributions, f, amount)
        /\ d.ends = ExtendIntervals(e, f, amount)
        /\ d.totalDeposited = e.totalDeposited + amount
        /\ d.refundedAmounts = e.refundedAmounts /\ d.totalRefunded = e.totalRefunded
        /\ d.votes = e.votes /\ d.yesWeight = e.yesWeight
        /\ d.state = e.state /\ d.refundPool = e.refundPool
    BY Zenon DEF Deposit, Escrow
  <1>2. /\ e.contributions \in [Funders -> Nat] /\ e.ends \in [Funders -> Nat]
        /\ e.totalDeposited \in Nat
    <2>1. /\ e.contributions \in [Funders -> 0..Target] /\ e.ends \in [Funders -> 0..Target]
          /\ e.totalDeposited \in 0..Target
      BY Zenon DEF Escrow
    <2>2. 0..Target \subseteq Nat
      BY Sizes
    <2> HIDE DEF d
    <2>3. \A c \in [Funders -> 0..Target] : c \in [Funders -> Nat]
      BY ONLY <2>2
    <2> QED BY ONLY <2>1, <2>2, <2>3
  <1>3. IntervalsFit(e) /\ e.state = "Open" /\ amount \in Nat \ {0}
    BY DEF EscrowInv, CanDeposit
  <1> HIDE DEF d
  <1>4. SumsInv(d)
    BY <1>1, <1>2, <1>3, DepositKeepsSums
  <1> QED BY <1>4 DEF d

LEMMA LockSums ==
    ASSUME NEW e \in Escrow, SumsInv(e), NEW now \in Nat
    PROVE  SumsInv(Lock(e, now))
  <1> DEFINE d == Lock(e, now)
  <1>1. /\ d.contributions = e.contributions /\ d.ends = e.ends
        /\ d.totalDeposited = e.totalDeposited
        /\ d.refundedAmounts = e.refundedAmounts /\ d.totalRefunded = e.totalRefunded
        /\ d.votes = e.votes /\ d.yesWeight = e.yesWeight /\ d.state = "Locked"
    BY Zenon DEF Lock, Escrow
  <1> HIDE DEF d
  <1>2. SumsInv(d)
    BY <1>1, SameSums
  <1> QED BY <1>2 DEF d

LEMMA ApproveSums ==
    ASSUME NEW e \in Escrow, SumsInv(e), NEW party \in Parties
    PROVE  SumsInv(Approve(e, party))
  <1> DEFINE d == Approve(e, party)
  <1>1. /\ d.contributions = e.contributions /\ d.ends = e.ends
        /\ d.totalDeposited = e.totalDeposited
        /\ d.refundedAmounts = e.refundedAmounts /\ d.totalRefunded = e.totalRefunded
        /\ d.votes = e.votes /\ d.yesWeight = e.yesWeight
        /\ d.state = e.state /\ d.refundPool = e.refundPool
    BY Zenon DEF Approve, Escrow
  <1> HIDE DEF d
  <1>2. SumsInv(d)
    BY <1>1, SameSums
  <1> QED BY <1>2 DEF d

LEMMA SubmitMilestoneSums ==
    ASSUME NEW e \in Escrow, SumsInv(e), NEW evidence \in Evidence
    PROVE  SumsInv(SubmitMilestone(e, evidence))
  <1> DEFINE d == SubmitMilestone(e, evidence)
  <1>1. /\ d.contributions = e.contributions /\ d.ends = e.ends
        /\ d.totalDeposited = e.totalDeposited
        /\ d.refundedAmounts = e.refundedAmounts /\ d.totalRefunded = e.totalRefunded
        /\ d.votes = NoBallots /\ d.yesWeight = 0
        /\ d.state = e.state /\ d.refundPool = e.refundPool
    BY Zenon DEF SubmitMilestone, Escrow
  <1> HIDE DEF d
  <1>2. SumsInv(d)
    BY <1>1, SameSums
  <1> QED BY <1>2 DEF d

\* A wallet's first ballot on the evidence adds its deposits to the tally, or nothing.
LEMMA VoteAdds ==
    ASSUME NEW votes \in [Funders -> Ballots], NEW contributions \in [Funders -> Nat],
           NEW f \in Funders, votes[f] = "none", NEW ballot \in {"yes", "no"}
    PROVE  Total(YesVotes([votes EXCEPT ![f] = ballot], contributions), Funders)
              = Total(YesVotes(votes, contributions), Funders)
                + (IF ballot = "yes" THEN contributions[f] ELSE 0)
  <1> DEFINE after == [votes EXCEPT ![f] = ballot]
             g == YesVotes(votes, contributions)
             h == YesVotes(after, contributions)
  <1>1. \A x \in Funders : after[x] = IF x = f THEN ballot ELSE votes[x]
    OBVIOUS
  <1>2. /\ \A x \in Funders : g[x] = IF votes[x] = "yes" THEN contributions[x] ELSE 0
        /\ \A x \in Funders : h[x] = IF after[x] = "yes" THEN contributions[x] ELSE 0
    BY DEF YesVotes
  <1> HIDE DEF after, g, h
  <1>3. /\ \A x \in Funders : g[x] \in Int /\ h[x] \in Int
        /\ \A x \in Funders \ {f} : g[x] = h[x]
    BY <1>1, <1>2
  <1>4. Total(h, Funders) = Total(g, Funders) + (h[f] - g[f])
    <2>1. IsFiniteSet(Funders)
      BY EscrowAssumption
    <2> QED BY <1>3, <2>1, TotalChange
  <1>5. g[f] = 0 /\ h[f] = IF ballot = "yes" THEN contributions[f] ELSE 0
    BY <1>1, <1>2
  <1>6. Total(h, Funders) = Total(g, Funders) + (IF ballot = "yes" THEN contributions[f] ELSE 0)
    BY <1>4, <1>5
  <1> QED BY <1>6 DEF after, g, h

LEMMA VoteKeepsSums ==
    ASSUME NEW e, SumsInv(e), NEW f \in Funders, NEW ballot \in {"yes", "no"},
           e.votes \in [Funders -> Ballots], e.contributions \in [Funders -> Nat],
           e.yesWeight \in Nat, e.votes[f] = "none", e.state # "Open",
           NEW d, d.contributions = e.contributions, d.ends = e.ends,
           d.totalDeposited = e.totalDeposited,
           d.refundedAmounts = e.refundedAmounts, d.totalRefunded = e.totalRefunded,
           d.votes = [e.votes EXCEPT ![f] = ballot],
           d.yesWeight = IF ballot = "yes" THEN e.yesWeight + e.contributions[f] ELSE e.yesWeight,
           d.state = e.state, d.refundPool = e.refundPool
    PROVE  SumsInv(d)
  <1>1. Total(YesVotes(d.votes, e.contributions), Funders)
           = Total(YesVotes(e.votes, e.contributions), Funders)
             + (IF ballot = "yes" THEN e.contributions[f] ELSE 0)
    <2> DEFINE votes == e.votes
               contributions == e.contributions
    <2>1. /\ votes \in [Funders -> Ballots] /\ contributions \in [Funders -> Nat]
          /\ votes[f] = "none" /\ d.votes = [votes EXCEPT ![f] = ballot]
          /\ f \in Funders /\ ballot \in {"yes", "no"}
      OBVIOUS
    <2> HIDE DEF votes, contributions
    <2>2. Total(YesVotes([votes EXCEPT ![f] = ballot], contributions), Funders)
             = Total(YesVotes(votes, contributions), Funders)
               + (IF ballot = "yes" THEN contributions[f] ELSE 0)
      BY ONLY <2>1, VoteAdds, Zenon
    <2> QED BY <2>1, <2>2 DEF votes, contributions
  <1>2. IntervalsTile(d) /\ RefundsAddUp(d)
    BY DEF SumsInv, IntervalsTile, RefundsAddUp
  <1>3. VotesAddUp(d)
    BY <1>1 DEF SumsInv, VotesAddUp
  <1> QED BY <1>2, <1>3 DEF SumsInv

LEMMA VoteSums ==
    ASSUME NEW e \in Escrow, SumsInv(e), NEW f \in Funders, NEW ballot \in {"yes", "no"},
           e.votes[f] = "none", e.state # "Open"
    PROVE  SumsInv(Vote(e, f, ballot))
  <1> DEFINE d == Vote(e, f, ballot)
  <1>1. /\ d.contributions = e.contributions /\ d.ends = e.ends
        /\ d.totalDeposited = e.totalDeposited
        /\ d.refundedAmounts = e.refundedAmounts /\ d.totalRefunded = e.totalRefunded
        /\ d.votes = [e.votes EXCEPT ![f] = ballot]
        /\ d.yesWeight = IF ballot = "yes" THEN e.yesWeight + e.contributions[f]
                         ELSE e.yesWeight
        /\ d.state = e.state /\ d.refundPool = e.refundPool
    BY Zenon DEF Vote, Escrow
  <1>2. /\ e.votes \in [Funders -> Ballots] /\ e.contributions \in [Funders -> Nat]
        /\ e.yesWeight \in Nat
    BY Sizes DEF Escrow
  <1> HIDE DEF d
  <1>3. SumsInv(d)
    BY <1>1, <1>2, VoteKeepsSums
  <1> QED BY <1>3 DEF d

LEMMA ReleaseSums ==
    ASSUME NEW e \in Escrow, SumsInv(e), NEW now \in Nat
    PROVE  SumsInv(Release(e, now))
  <1> DEFINE d == Release(e, now)
  <1>1. /\ d.contributions = e.contributions /\ d.ends = e.ends
        /\ d.totalDeposited = e.totalDeposited
        /\ d.refundedAmounts = e.refundedAmounts /\ d.totalRefunded = e.totalRefunded
        /\ d.votes = NoBallots /\ d.yesWeight = 0
        /\ d.state = IF e.currentTranche + 1 = Tranches THEN "Released" ELSE "Active"
    BY Zenon DEF Release, Escrow
  <1> HIDE DEF d
  <1>2. SumsInv(d)
    BY <1>1, SameSums
  <1> QED BY <1>2 DEF d

LEMMA OpenRefundsSums ==
    ASSUME NEW e \in Escrow, SumsInv(e), NEW next \in {"Cancelled", "Expired", "Voided"},
           NEW availableAt
    PROVE  SumsInv(OpenRefunds(e, next, availableAt))
  <1> DEFINE d == OpenRefunds(e, next, availableAt)
  <1>1. /\ d.contributions = e.contributions /\ d.ends = e.ends
        /\ d.totalDeposited = e.totalDeposited
        /\ d.refundedAmounts = e.refundedAmounts /\ d.totalRefunded = e.totalRefunded
        /\ d.votes = e.votes /\ d.yesWeight = e.yesWeight /\ d.state = next
    BY Zenon DEF OpenRefunds, Escrow
  <1> HIDE DEF d
  <1>2. SumsInv(d)
    BY <1>1, SameSums
  <1> QED BY <1>2 DEF d

LEMMA InvalidateSelectionSums ==
    ASSUME NEW e \in Escrow, EscrowInv(e), SumsInv(e), e.state = "Locked", NEW now \in Nat
    PROVE  SumsInv(InvalidateSelection(e, now))
  <1> DEFINE o == OpenRefunds(e, "Cancelled", now)
             d == InvalidateSelection(e, now)
  <1>1. o \in Escrow /\ o.state = "Cancelled"
    BY OpenRefundsInv
  <1>2. SumsInv(o)
    BY OpenRefundsSums
  <1>3. d = [o EXCEPT !.approvalDeadline = 0, !.approved = {}]
    BY DEF InvalidateSelection
  <1> HIDE DEF o, d
  <1>4. /\ d.contributions = o.contributions /\ d.ends = o.ends
        /\ d.totalDeposited = o.totalDeposited
        /\ d.refundedAmounts = o.refundedAmounts /\ d.totalRefunded = o.totalRefunded
        /\ d.votes = o.votes /\ d.yesWeight = o.yesWeight
        /\ d.state = o.state /\ d.refundPool = o.refundPool
    BY <1>1, <1>3, Zenon DEF Escrow
  <1>5. SumsInv(d)
    BY <1>2, <1>4, SameSums
  <1> QED BY <1>5 DEF d

LEMMA ClaimKeepsSums ==
    ASSUME NEW o, SumsInv(o), o.state \notin {"Refunded", "Open"},
           NEW f \in Funders, NEW due \in Nat,
           o.refundedAmounts \in [Funders -> Nat], o.totalRefunded \in Nat,
           NEW d, d.contributions = o.contributions, d.ends = o.ends,
           d.totalDeposited = o.totalDeposited, d.refundPool = o.refundPool,
           d.refundedAmounts = Credit(o.refundedAmounts, f, due),
           d.totalRefunded = o.totalRefunded + due,
           d.votes = o.votes, d.yesWeight = o.yesWeight,
           d.state = IF o.totalRefunded + due = o.refundPool THEN "Refunded" ELSE o.state
    PROVE  SumsInv(d)
  <1> DEFINE before == o.refundedAmounts
             refunded == Credit(before, f, due)
  <1>1. \A g \in Funders : refunded[g] = IF g = f THEN before[f] + due ELSE before[g]
    BY DEF Credit
  <1>2. before \in [Funders -> Nat]
    OBVIOUS
  <1> HIDE DEF before, refunded
  <1>3. Total(refunded, Funders) = Total(before, Funders) + due
    <2>1. IsFiniteSet(Funders)
      BY EscrowAssumption
    <2>2. \A g \in Funders : before[g] \in Int /\ refunded[g] \in Int
      BY <1>1, <1>2
    <2>3. \A g \in Funders \ {f} : before[g] = refunded[g]
      BY <1>1
    <2>4. refunded[f] - before[f] = due
      BY <1>1, <1>2
    <2>5. Total(refunded, Funders) = Total(before, Funders) + (refunded[f] - before[f])
      BY <2>1, <2>2, <2>3, TotalChange
    <2> QED BY <2>4, <2>5
  <1>4. IntervalsTile(d) /\ VotesAddUp(d)
    BY DEF SumsInv, IntervalsTile, VotesAddUp
  <1>5. RefundsAddUp(d)
    BY <1>3 DEF SumsInv, RefundsAddUp, before, refunded
  <1> QED BY <1>4, <1>5 DEF SumsInv

LEMMA ClaimSums ==
    ASSUME NEW e \in Escrow, EscrowInv(e), SumsInv(e), NEW f \in Funders, NEW now \in Nat,
           CanClaim(e, f, now)
    PROVE  SumsInv(Claim(e, f, now))
  <1> DEFINE o == WithRefundsOpen(e, now)
             d == Claim(e, f, now)
             due == RefundDue(o, f)
  <1>1. o \in Escrow /\ SumsInv(o) /\ o.state \notin {"Refunded", "Open"}
    <2>1. CASE e.refundsEnabled
      BY <2>1 DEF WithRefundsOpen, CanClaim, EscrowInv, StateAgrees, RefundStates
    <2>2. CASE ~e.refundsEnabled
      <3>1. o = OpenRefunds(e, "Expired", now)
        BY <2>2 DEF WithRefundsOpen, Expire
      <3>2. e.state \notin {"Released", "Refunded"}
        BY DEF CanClaim
      <3> HIDE DEF o
      <3> QED BY <3>1, <3>2, OpenRefundsInv, OpenRefundsSums
    <2> QED BY <2>1, <2>2
  <1>2. /\ ClaimAmount(e, f, now) = due
        /\ d = [o EXCEPT !.refundedAmounts = Credit(o.refundedAmounts, f, due),
                         !.totalRefunded = o.totalRefunded + due,
                         !.state = IF o.totalRefunded + due = o.refundPool
                                   THEN "Refunded" ELSE o.state]
    BY Zenon DEF ClaimAmount, Claim
  <1>3. due \in Nat
    BY <1>2, ClaimInv
  <1>4. o.refundedAmounts \in [Funders -> Nat] /\ o.totalRefunded \in Nat
    BY <1>1 DEF Escrow
  <1> HIDE DEF o, d, due
  <1>5. /\ d.contributions = o.contributions /\ d.ends = o.ends
        /\ d.totalDeposited = o.totalDeposited /\ d.refundPool = o.refundPool
        /\ d.refundedAmounts = Credit(o.refundedAmounts, f, due)
        /\ d.totalRefunded = o.totalRefunded + due
        /\ d.votes = o.votes /\ d.yesWeight = o.yesWeight
        /\ d.state = IF o.totalRefunded + due = o.refundPool THEN "Refunded" ELSE o.state
    BY <1>1, <1>2, Zenon DEF Escrow
  <1>6. SumsInv(d)
    BY <1>1, <1>3, <1>4, <1>5, ClaimKeepsSums
  <1> QED BY <1>6 DEF d

\* What the wallets deposited adds up to the deposits.
LEMMA DepositsAddUp ==
    ASSUME NEW e, e.contributions \in [Funders -> Nat], e.ends \in [Funders -> Nat],
           e.totalDeposited \in Nat, IntervalsFit(e), IntervalsTile(e)
    PROVE  Total(e.contributions, Funders) = e.totalDeposited
  <1> DEFINE whole == [contributions |-> e.contributions, ends |-> e.ends,
                       totalDeposited |-> e.totalDeposited, totalReleased |-> 0]
             shares == [f \in Funders |-> Share(whole, f, e.totalDeposited)]
  <1>1. IntervalsFit(whole) /\ IntervalsTile(whole)
    BY DEF IntervalsFit, IntervalsTile
  <1>2. /\ whole.contributions = e.contributions /\ whole.ends = e.ends
        /\ whole.totalDeposited = e.totalDeposited /\ whole.totalReleased = 0
    OBVIOUS
  <1>3. \A f \in Funders : shares[f] = e.contributions[f]
    BY DEF Share
  <1> HIDE DEF whole
  <1>4. Total(shares, Funders) = e.totalDeposited
    <2>1. Total([f \in Funders |-> Share(whole, f, whole.totalDeposited - whole.totalReleased)], Funders)
             = whole.totalDeposited - whole.totalReleased
      BY <1>1, <1>2, SharesAddUp
    <2>2. whole.totalDeposited - whole.totalReleased = e.totalDeposited
      BY <1>2
    <2> QED BY <2>1, <2>2
  <1>5. IsFiniteSet(Funders)
    BY EscrowAssumption
  <1> HIDE DEF shares
  <1>6. Total(shares, Funders) = Total(e.contributions, Funders)
    BY <1>3, <1>5, TotalSame
  <1> QED BY <1>4, <1>6

\* Together the wallets never claim more than what is unpaid.
LEMMA RefundsWithin ==
    ASSUME NEW e, e.contributions \in [Funders -> Nat], e.ends \in [Funders -> Nat],
           e.totalDeposited \in Nat, e.totalReleased \in Nat,
           e.totalReleased <= e.totalDeposited, IntervalsFit(e), SumsInv(e),
           \A f \in Funders :
              e.refundedAmounts[f] \in {0, Share(e, f, e.totalDeposited - e.totalReleased)}
    PROVE  e.totalRefunded \in 0..(e.totalDeposited - e.totalReleased)
  <1> DEFINE pool == e.totalDeposited - e.totalReleased
             shares == [f \in Funders |-> Share(e, f, pool)]
             refunds == e.refundedAmounts
  <1>1. Total(shares, Funders) = pool
    BY SharesAddUp DEF SumsInv
  <1>2. ASSUME NEW f \in Funders
        PROVE  shares[f] \in Nat /\ refunds[f] \in {0, shares[f]}
    <2>1. Share(e, f, pool) \in 0..e.contributions[f]
      BY ShareWithin
    <2> QED BY <2>1
  <1>3. IsFiniteSet(Funders) /\ e.totalRefunded = Total(refunds, Funders)
    BY EscrowAssumption DEF SumsInv, RefundsAddUp
  <1> HIDE DEF shares, refunds, pool
  <1>4. \A f \in Funders : refunds[f] \in Nat /\ shares[f] \in Nat /\ refunds[f] <= shares[f]
    BY <1>2
  <1>5. Total(refunds, Funders) <= Total(shares, Funders)
    BY <1>3, <1>4, TotalMonotone
  <1>6. Total(refunds, Funders) \in Nat
    BY <1>3, <1>4, TotalNat
  <1> QED BY <1>1, <1>3, <1>5, <1>6 DEF pool

\* The tally never exceeds the deposits.
LEMMA TallyWithin ==
    ASSUME NEW e, e.contributions \in [Funders -> Nat], e.ends \in [Funders -> Nat],
           e.totalDeposited \in Nat, IntervalsFit(e), SumsInv(e)
    PROVE  e.yesWeight \in 0..e.totalDeposited
  <1> DEFINE yes == YesVotes(e.votes, e.contributions)
             contributions == e.contributions
  <1>1. Total(contributions, Funders) = e.totalDeposited
    BY DepositsAddUp DEF SumsInv
  <1>2. \A f \in Funders : /\ yes[f] \in Nat /\ contributions[f] \in Nat
                           /\ yes[f] <= contributions[f]
    BY DEF YesVotes
  <1>3. IsFiniteSet(Funders) /\ e.yesWeight = Total(yes, Funders)
    BY EscrowAssumption DEF SumsInv, VotesAddUp
  <1> HIDE DEF yes, contributions
  <1>4. Total(yes, Funders) <= Total(contributions, Funders)
    BY <1>2, <1>3, TotalMonotone
  <1>5. Total(yes, Funders) \in Nat
    BY <1>2, <1>3, TotalNat
  <1> QED BY <1>1, <1>3, <1>4, <1>5

=============================================================================
