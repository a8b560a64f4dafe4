---------------------------- MODULE PagesProofs ----------------------------
(***************************************************************************)
(* Proofs about the pages, for any data, calendar, categories and choices. *)
(* First what every computation rests on: induction, sums over sets, sorts *)
(* and extremes.  Then the types, the rates, what is excluded, the sweep   *)
(* of balances, the places that show one amount, the line of net worth,    *)
(* the charts and the panel of what was found.                             *)
(***************************************************************************)
EXTENDS PagesSafety, FiniteSetTheorems, SequenceTheorems, WellFoundedInduction, TLAPS

------------------------------------------------------------------------------
\* Induction, over the natural numbers and over the subsets of a finite set.
\* What holds is named by the set of what it holds for.

LEMMA LessIsWellFounded ==
  \E R : /\ IsWellFoundedOn(R, Nat)
         /\ \A m, n \in Nat : n < m => <<n, m>> \in R
<1>1. IsWellFoundedOn(OpToRel(<, Nat), Nat)
  BY NatLessThanWellFounded
<1>2. \A m, n \in Nat : n < m => <<n, m>> \in OpToRel(<, Nat)
  BY DEF OpToRel
<1> QED BY <1>1, <1>2

LEMMA LeastNatural ==
  ASSUME NEW S, S \subseteq Nat, S # {}
  PROVE  \E m \in S : \A n \in S : m <= n
<1>1. PICK R : /\ IsWellFoundedOn(R, Nat)
               /\ \A m, n \in Nat : n < m => <<n, m>> \in R
  BY LessIsWellFounded, Zenon
<1>2. PICK m \in S : \A n \in S : <<n, m>> \notin R
  BY <1>1, WFMin, Zenon
<1>3. ASSUME NEW n \in S PROVE m <= n
  <2>1. ~(n < m)
    BY <1>1, <1>2
  <2> QED BY <2>1
<1> QED BY <1>3

LEMMA FromZero ==
  ASSUME NEW Good, 0 \in Good, \A n \in Nat : n \in Good => n + 1 \in Good
  PROVE  \A n \in Nat : n \in Good
<1> DEFINE Bad == {n \in Nat : n \notin Good}
<1> SUFFICES ASSUME Bad # {} PROVE FALSE
  OBVIOUS
<1>1. PICK m \in Bad : \A n \in Bad : m <= n
  <2>1. Bad \subseteq Nat
    OBVIOUS
  <2> HIDE DEF Bad
  <2> QED BY <2>1, LeastNatural, Zenon
<1>2. m # 0 /\ m - 1 \in Nat /\ m - 1 \notin Bad
  BY <1>1
<1>3. m - 1 + 1 \in Good
  BY <1>2
<1> QED BY <1>2, <1>3

\* From the empty set, one element at a time.
LEMMA FromEmpty ==
  ASSUME NEW S, IsFiniteSet(S), NEW Good, {} \in Good,
         \A T \in SUBSET S, x \in S : T \in Good /\ x \notin T => T \cup {x} \in Good
  PROVE  \A T \in SUBSET S : T \in Good
<1> DEFINE Bad == {n \in Nat : \E T \in SUBSET S : T \notin Good /\ Cardinality(T) = n}
<1>0. \A T \in SUBSET S : IsFiniteSet(T) /\ Cardinality(T) \in Nat
  BY FS_Subset, FS_CardinalityType
<1>1. Bad = {}
  <2> SUFFICES ASSUME Bad # {} PROVE FALSE
    OBVIOUS
  <2>1. PICK m \in Bad : \A n \in Bad : m <= n
    <3>1. Bad \subseteq Nat
      OBVIOUS
    <3> HIDE DEF Bad
    <3> QED BY <3>1, LeastNatural, Zenon
  <2>2. PICK T \in SUBSET S : T \notin Good /\ Cardinality(T) = m
    OBVIOUS
  <2>3. PICK x \in T : TRUE
    BY <2>2
  <2>4. T \ {x} \in SUBSET S /\ (T \ {x}) \cup {x} = T
    BY <2>3
  <2>5. Cardinality(T \ {x}) = m - 1
    BY <1>0, <2>2, <2>3, FS_RemoveElement
  <2>6. Cardinality(T \ {x}) \in Nat
    BY <1>0, <2>4
  <2>7. m - 1 \notin Bad
    BY <2>1, <2>5, <2>6
  <2>8. T \ {x} \in Good
    BY <2>4, <2>5, <2>6, <2>7
  <2> QED BY <2>2, <2>3, <2>4, <2>8, Zenon
<1> QED BY <1>0, <1>1

------------------------------------------------------------------------------
\* Sums.  A sum goes through the elements of a set in an order that CHOOSE
\* gives; that it ends, and that the order makes no difference, has to be
\* shown before anything is said about amounts.

Some(S) == CHOOSE x \in S : TRUE

SumStep(f, sums, S) == IF S = {} THEN 0 ELSE f[Some(S)] + sums[S \ {Some(S)}]

\* sums is a solution of the recursive definition, on the subsets of S.
Adds(f, S, sums) == sums = [T \in SUBSET S |-> SumStep(f, sums, T)]

LEMMA SomeOf ==
  ASSUME NEW S, S # {}
  PROVE  Some(S) \in S
BY DEF Some

\* There is one solution on the subsets of a finite set.
LEMMA AddsUnique ==
  ASSUME NEW f, NEW S, IsFiniteSet(S), NEW T \in SUBSET S, NEW g, NEW h,
         \A U \in SUBSET T : g[U] = SumStep(f, g, U) /\ h[U] = SumStep(f, h, U)
  PROVE  g[T] = h[T]
<1> DEFINE Bad == {n \in Nat : \E U \in SUBSET T : Cardinality(U) = n /\ g[U] # h[U]}
<1>0. \A U \in SUBSET T : IsFiniteSet(U) /\ Cardinality(U) \in Nat
  BY FS_Subset, FS_CardinalityType
<1>1. Bad = {}
  <2> SUFFICES ASSUME Bad # {} PROVE FALSE
    OBVIOUS
  <2>1. PICK m \in Bad : \A n \in Bad : m <= n
    <3>1. Bad \subseteq Nat
      OBVIOUS
    <3> HIDE DEF Bad
    <3> QED BY <3>1, LeastNatural, Zenon
  <2>2. PICK U \in SUBSET T : Cardinality(U) = m /\ g[U] # h[U]
    OBVIOUS
  <2>3. U # {}
    BY <2>2 DEF SumStep
  <2> DEFINE V == U \ {Some(U)}
  <2>4. Some(U) \in U /\ V \in SUBSET T
    BY <2>3, SomeOf
  <2>5. Cardinality(V) = m - 1 /\ Cardinality(V) \in Nat
    BY <1>0, <2>2, <2>4, FS_RemoveElement
  <2>6. g[V] = h[V]
    BY <2>1, <2>4, <2>5
  <2>7. g[U] = f[Some(U)] + g[V] /\ h[U] = f[Some(U)] + h[V]
    BY <2>3 DEF SumStep
  <2> QED BY <2>2, <2>6, <2>7
<1> QED BY <1>0, <1>1

LEMMA AddsExists ==
  ASSUME NEW f, NEW S, IsFiniteSet(S)
  PROVE  \E sums : Adds(f, S, sums)
<1> DEFINE Upto(n, g) ==
             \A T \in SUBSET S : Cardinality(T) <= n => g[T] = SumStep(f, g, T)
           Good == {n \in Nat : \E g : Upto(n, g)}
<1>0. \A T \in SUBSET S : IsFiniteSet(T) /\ Cardinality(T) \in Nat
  BY FS_Subset, FS_CardinalityType
<1>1. 0 \in Good
  <2> DEFINE g == [T \in SUBSET S |-> 0]
  <2>1. ASSUME NEW T \in SUBSET S, Cardinality(T) <= 0
        PROVE  g[T] = SumStep(f, g, T)
    <3>1. T = {}
      BY <1>0, <2>1, FS_EmptySet
    <3> QED BY <3>1 DEF SumStep
  <2> QED BY <2>1
<1>2. ASSUME NEW n \in Nat, n \in Good
      PROVE  n + 1 \in Good
  <2>1. PICK g : Upto(n, g)
    BY <1>2
  <2> DEFINE h == [T \in SUBSET S |-> SumStep(f, g, T)]
  <2>2. ASSUME NEW T \in SUBSET S, Cardinality(T) <= n
        PROVE  h[T] = g[T]
    BY <2>1, <2>2
  <2>3. ASSUME NEW T \in SUBSET S, Cardinality(T) <= n + 1
        PROVE  h[T] = SumStep(f, h, T)
    <3> DEFINE V == T \ {Some(T)}
    <3>1. CASE T = {}
      BY <3>1 DEF SumStep
    <3>2. CASE T # {}
      <4>1. Some(T) \in T /\ V \in SUBSET S
        BY <3>2, SomeOf
      <4>2. Cardinality(V) = Cardinality(T) - 1
        BY <1>0, <4>1, FS_RemoveElement
      <4>3. Cardinality(V) <= n
        BY <1>0, <2>3, <4>2
      <4>4. h[V] = g[V]
        BY <2>2, <4>1, <4>3
      <4>5. h[T] = f[Some(T)] + g[V]
        BY <3>2 DEF SumStep
      <4> HIDE DEF h
      <4> QED BY <3>2, <4>4, <4>5 DEF SumStep
    <3> QED BY <3>1, <3>2
  <2> HIDE DEF h
  <2> QED BY <2>3
<1>3. Cardinality(S) \in Good
  <2> HIDE DEF Good
  <2> QED BY <1>0, <1>1, <1>2, FromZero
<1>4. PICK g : Upto(Cardinality(S), g)
  BY <1>3
<1> DEFINE h == [T \in SUBSET S |-> g[T]]
<1>5. ASSUME NEW T \in SUBSET S
      PROVE  g[T] = SumStep(f, g, T)
  <2>1. Cardinality(T) <= Cardinality(S)
    BY FS_Subset
  <2> QED BY <1>4, <2>1
<1>6. ASSUME NEW T \in SUBSET S
      PROVE  SumStep(f, g, T) = SumStep(f, h, T)
  <2>1. T \ {Some(T)} \in SUBSET S
    OBVIOUS
  <2> QED BY <2>1 DEF SumStep
<1>7. Adds(f, S, h)
  BY <1>5, <1>6 DEF Adds
<1> QED BY <1>7

LEMMA SumAdds ==
  ASSUME NEW f, NEW S, IsFiniteSet(S)
  PROVE  \E sums : /\ Adds(f, S, sums)
                   /\ SumFunctionOnSet(f, S) = sums[S]
<1>1. SumFunctionOnSet(f, S) = (CHOOSE sums : Adds(f, S, sums))[S]
  BY DEF SumFunctionOnSet, FoldFunctionOnSet, MapThenFoldSet, Adds, SumStep, Some
<1> QED BY <1>1, AddsExists, Zenon

\* The equation of a sum.
LEMMA SumOfEmpty ==
  ASSUME NEW f
  PROVE  SumFunctionOnSet(f, {}) = 0
<1>1. PICK sums : Adds(f, {}, sums) /\ SumFunctionOnSet(f, {}) = sums[{}]
  BY SumAdds, FS_EmptySet
<1> QED BY <1>1 DEF Adds, SumStep

LEMMA SumOfSome ==
  ASSUME NEW f, NEW S, IsFiniteSet(S), S # {}
  PROVE  SumFunctionOnSet(f, S) = f[Some(S)] + SumFunctionOnSet(f, S \ {Some(S)})
<1> DEFINE T == S \ {Some(S)}
<1>1. PICK g : Adds(f, S, g) /\ SumFunctionOnSet(f, S) = g[S]
  BY SumAdds
<1>2. T \in SUBSET S /\ IsFiniteSet(T)
  BY FS_Subset
<1>3. PICK h : Adds(f, T, h) /\ SumFunctionOnSet(f, T) = h[T]
  BY <1>2, SumAdds
<1>4. \A U \in SUBSET T : g[U] = SumStep(f, g, U) /\ h[U] = SumStep(f, h, U)
  BY <1>1, <1>2, <1>3 DEF Adds
<1>5. g[T] = h[T]
  BY <1>2, <1>4, AddsUnique
<1>6. g[S] = f[Some(S)] + g[T]
  BY <1>1 DEF Adds, SumStep
<1> QED BY <1>1, <1>3, <1>5, <1>6

LEMMA SumIsInt ==
  ASSUME NEW f, NEW S, IsFiniteSet(S), \A x \in S : f[x] \in Int
  PROVE  SumFunctionOnSet(f, S) \in Int
<1> DEFINE Bad == {n \in Nat : \E T \in SUBSET S : Cardinality(T) = n /\ SumFunctionOnSet(f, T) \notin Int}
<1>0. \A T \in SUBSET S : IsFiniteSet(T) /\ Cardinality(T) \in Nat
  BY FS_Subset, FS_CardinalityType
<1>1. Bad = {}
  <2> SUFFICES ASSUME Bad # {} PROVE FALSE
    OBVIOUS
  <2>1. PICK m \in Bad : \A n \in Bad : m <= n
    <3>1. Bad \subseteq Nat
      OBVIOUS
    <3> HIDE DEF Bad
    <3> QED BY <3>1, LeastNatural, Zenon
  <2>2. PICK T \in SUBSET S : Cardinality(T) = m /\ SumFunctionOnSet(f, T) \notin Int
    OBVIOUS
  <2>3. T # {}
    BY <2>2, SumOfEmpty
  <2> DEFINE U == T \ {Some(T)}
  <2>4. Some(T) \in T /\ U \in SUBSET S
    BY <2>3, SomeOf
  <2>5. Cardinality(U) = m - 1 /\ Cardinality(U) \in Nat
    BY <1>0, <2>2, <2>4, FS_RemoveElement
  <2>6. SumFunctionOnSet(f, U) \in Int
    BY <2>1, <2>4, <2>5
  <2>7. SumFunctionOnSet(f, T) = f[Some(T)] + SumFunctionOnSet(f, U)
    BY <1>0, <2>3, SumOfSome
  <2> QED BY <2>2, <2>4, <2>6, <2>7
<1> QED BY <1>0, <1>1

\* Any element may be taken out first.
LEMMA SumWithout ==
  ASSUME NEW f, NEW S, IsFiniteSet(S), \A x \in S : f[x] \in Int, NEW y \in S
  PROVE  SumFunctionOnSet(f, S) = f[y] + SumFunctionOnSet(f, S \ {y})
<1> DEFINE Parts(T) == \A x \in T :
             SumFunctionOnSet(f, T) = f[x] + SumFunctionOnSet(f, T \ {x})
           Bad == {n \in Nat : \E T \in SUBSET S : Cardinality(T) = n /\ ~Parts(T)}
<1>0. \A T \in SUBSET S : IsFiniteSet(T) /\ Cardinality(T) \in Nat
  BY FS_Subset, FS_CardinalityType
<1>1. Bad = {}
  <2> SUFFICES ASSUME Bad # {} PROVE FALSE
    OBVIOUS
  <2>1. PICK m \in Bad : \A n \in Bad : m <= n
    <3>1. Bad \subseteq Nat
      OBVIOUS
    <3> HIDE DEF Bad
    <3> QED BY <3>1, LeastNatural, Zenon
  <2>2. PICK T \in SUBSET S : Cardinality(T) = m /\ ~Parts(T)
    OBVIOUS
  <2>3. PICK x \in T : SumFunctionOnSet(f, T) # f[x] + SumFunctionOnSet(f, T \ {x})
    BY <2>2
  <2> DEFINE s == Some(T)
             U == T \ {s}
  <2>4. s \in T /\ U \in SUBSET S /\ T # {}
    BY <2>3, SomeOf
  <2>5. SumFunctionOnSet(f, T) = f[s] + SumFunctionOnSet(f, U)
    BY <1>0, <2>4, SumOfSome
  <2>6. x # s
    BY <2>3, <2>5
  <2>7. Cardinality(U) = m - 1 /\ Cardinality(U) \in Nat
    BY <1>0, <2>2, <2>4, FS_RemoveElement
  <2>8. Parts(U)
    BY <2>1, <2>4, <2>7
  <2>9. SumFunctionOnSet(f, U) = f[x] + SumFunctionOnSet(f, U \ {x})
    BY <2>3, <2>6, <2>8
  <2> DEFINE V == T \ {x}
  <2>10. Cardinality(V) = m - 1 /\ V \in SUBSET S
    BY <1>0, <2>2, <2>3, FS_RemoveElement
  <2>11. Parts(V)
    BY <2>1, <2>7, <2>10
  <2>12. SumFunctionOnSet(f, V) = f[s] + SumFunctionOnSet(f, V \ {s})
    BY <2>4, <2>6, <2>11
  <2>13. V \ {s} = U \ {x}
    OBVIOUS
  <2>14. SumFunctionOnSet(f, U \ {x}) \in Int
    BY <1>0, SumIsInt
  <2>15. f[x] \in Int /\ f[s] \in Int
    BY <2>3, <2>4
  <2>16. SumFunctionOnSet(f, T \ {x}) = f[s] + SumFunctionOnSet(f, U \ {x})
    BY <2>12, <2>13
  <2> HIDE DEF U, V, s
  <2> QED BY <2>3, <2>5, <2>9, <2>14, <2>15, <2>16
<1> QED BY <1>0, <1>1

LEMMA SumWith ==
  ASSUME NEW f, NEW S, IsFiniteSet(S), NEW y, y \notin S,
         \A x \in S \cup {y} : f[x] \in Int
  PROVE  SumFunctionOnSet(f, S \cup {y}) = f[y] + SumFunctionOnSet(f, S)
<1>1. IsFiniteSet(S \cup {y}) /\ (S \cup {y}) \ {y} = S
  BY FS_AddElement
<1>2. SumFunctionOnSet(f, S \cup {y}) = f[y] + SumFunctionOnSet(f, (S \cup {y}) \ {y})
  BY <1>1, SumWithout
<1> QED BY <1>1, <1>2

\* The same values have the same sum, whatever they are the values of.
LEMMA SumReindexed ==
  ASSUME NEW S, IsFiniteSet(S), NEW f, NEW g, NEW h,
         \A x \in S : f[x] \in Int /\ g[h[x]] = f[x],
         \A x, y \in S : h[x] = h[y] => x = y
  PROVE  SumFunctionOnSet(g, {h[x] : x \in S}) = SumFunctionOnSet(f, S)
<1> DEFINE Good == {T \in SUBSET S :
             SumFunctionOnSet(g, {h[x] : x \in T}) = SumFunctionOnSet(f, T)}
<1>0. \A T \in SUBSET S : IsFiniteSet(T) /\ IsFiniteSet({h[x] : x \in T})
  <2> SUFFICES ASSUME NEW T \in SUBSET S
               PROVE  IsFiniteSet(T) /\ IsFiniteSet({h[x] : x \in T})
    OBVIOUS
  <2>1. IsFiniteSet(T)
    BY FS_Subset
  <2>2. IsFiniteSet({h[x] : x \in T})
    <3> DEFINE H == [x \in T |-> h[x]]
    <3>1. H \in Surjection(T, {h[x] : x \in T})
      BY DEF Surjection
    <3> QED BY <2>1, <3>1, FS_Surjection, Zenon DEF ExistsSurjection
  <2> QED BY <2>1, <2>2
<1>1. {} \in Good
  <2>1. {h[x] : x \in {}} = {}
    OBVIOUS
  <2> QED BY <2>1, SumOfEmpty
<1>2. ASSUME NEW T \in SUBSET S, NEW y \in S, T \in Good, y \notin T
      PROVE  T \cup {y} \in Good
  <2> DEFINE HT == {h[x] : x \in T}
  <2>1. {h[x] : x \in T \cup {y}} = HT \cup {h[y]}
    OBVIOUS
  <2>2. h[y] \notin HT
    BY <1>2
  <2>3. \A z \in HT \cup {h[y]} : g[z] \in Int
    OBVIOUS
  <2>4. IsFiniteSet(HT) /\ IsFiniteSet(T)
    BY <1>0
  <2>5. SumFunctionOnSet(g, HT) = SumFunctionOnSet(f, T)
    BY <1>2
  <2>6. SumFunctionOnSet(f, T \cup {y}) = f[y] + SumFunctionOnSet(f, T)
    BY <1>2, <2>4, SumWith
  <2> HIDE DEF HT
  <2>7. SumFunctionOnSet(g, HT \cup {h[y]}) = g[h[y]] + SumFunctionOnSet(g, HT)
    BY <2>2, <2>3, <2>4, SumWith
  <2> QED BY <2>1, <2>5, <2>6, <2>7
<1>3. S \in Good
  <2> HIDE DEF Good
  <2> QED BY <1>1, <1>2, FromEmpty
<1> QED BY <1>3

LEMMA SumOver ==
  ASSUME NEW S, IsFiniteSet(S), NEW T, NEW f, NEW g, NEW h,
         \A x \in S : f[x] \in Int /\ g[h[x]] = f[x] /\ h[x] \in T,
         \A x, y \in S : h[x] = h[y] => x = y,
         \A y \in T : \E x \in S : h[x] = y
  PROVE  SumFunctionOnSet(g, T) = SumFunctionOnSet(f, S)
<1>1. T = {h[x] : x \in S}
  OBVIOUS
<1>2. SumFunctionOnSet(g, {h[x] : x \in S}) = SumFunctionOnSet(f, S)
  BY SumReindexed
<1> QED BY <1>1, <1>2

LEMMA SumSame ==
  ASSUME NEW S, IsFiniteSet(S), NEW f, NEW g,
         \A x \in S : f[x] \in Int /\ g[x] = f[x]
  PROVE  SumFunctionOnSet(g, S) = SumFunctionOnSet(f, S)
<1> DEFINE h == [x \in S |-> x]
<1>1. {h[x] : x \in S} = S
  OBVIOUS
<1>2. \A x \in S : h[x] = x
  OBVIOUS
<1> HIDE DEF h
<1>3. SumFunctionOnSet(g, {h[x] : x \in S}) = SumFunctionOnSet(f, S)
  BY <1>2, SumReindexed
<1> QED BY <1>1, <1>3

LEMMA SumOfUnion ==
  ASSUME NEW f, NEW S, IsFiniteSet(S), NEW T, IsFiniteSet(T), S \cap T = {},
         \A x \in S \cup T : f[x] \in Int
  PROVE  SumFunctionOnSet(f, S \cup T) = SumFunctionOnSet(f, S) + SumFunctionOnSet(f, T)
<1> DEFINE Good == {U \in SUBSET T :
             SumFunctionOnSet(f, S \cup U)
               = SumFunctionOnSet(f, S) + SumFunctionOnSet(f, U)}
<1>0. SumFunctionOnSet(f, S) \in Int
  BY SumIsInt
<1>1. {} \in Good
  <2>1. S \cup {} = S
    OBVIOUS
  <2> QED BY <1>0, <2>1, SumOfEmpty
<1>2. ASSUME NEW U \in SUBSET T, NEW y \in T, U \in Good, y \notin U
      PROVE  U \cup {y} \in Good
  <2>1. IsFiniteSet(U) /\ IsFiniteSet(S \cup U)
    BY FS_Subset, FS_Union
  <2>2. SumFunctionOnSet(f, U) \in Int
    BY <2>1, SumIsInt
  <2>3. SumFunctionOnSet(f, U \cup {y}) = f[y] + SumFunctionOnSet(f, U)
    BY <1>2, <2>1, SumWith
  <2>4. y \notin S \cup U /\ S \cup (U \cup {y}) = (S \cup U) \cup {y}
    BY <1>2
  <2>5. SumFunctionOnSet(f, (S \cup U) \cup {y}) = f[y] + SumFunctionOnSet(f, S \cup U)
    BY <2>1, <2>4, SumWith
  <2>6. SumFunctionOnSet(f, S \cup U) = SumFunctionOnSet(f, S) + SumFunctionOnSet(f, U)
    BY <1>2
  <2>7. f[y] \in Int
    OBVIOUS
  <2>8. SumFunctionOnSet(f, (S \cup U) \cup {y})
          = SumFunctionOnSet(f, S) + SumFunctionOnSet(f, U \cup {y})
    <3> HIDE DEF Good
    <3> QED BY <1>0, <2>2, <2>3, <2>5, <2>6, <2>7
  <2> QED BY <2>4, <2>8
<1>3. T \in Good
  <2> HIDE DEF Good
  <2> QED BY <1>1, <1>2, FromEmpty
<1> QED BY <1>3

\* What counts for nothing may be left out.
LEMMA SumOfZeros ==
  ASSUME NEW f, NEW S, IsFiniteSet(S), \A x \in S : f[x] = 0
  PROVE  SumFunctionOnSet(f, S) = 0
<1> DEFINE Good == {T \in SUBSET S : SumFunctionOnSet(f, T) = 0}
<1>1. {} \in Good
  BY SumOfEmpty
<1>2. ASSUME NEW T \in SUBSET S, NEW y \in S, T \in Good, y \notin T
      PROVE  T \cup {y} \in Good
  <2>1. IsFiniteSet(T)
    BY FS_Subset
  <2>2. SumFunctionOnSet(f, T \cup {y}) = f[y] + SumFunctionOnSet(f, T)
    BY <1>2, <2>1, SumWith
  <2> QED BY <1>2, <2>2
<1>3. S \in Good
  <2> HIDE DEF Good
  <2> QED BY <1>1, <1>2, FromEmpty
<1> QED BY <1>3

LEMMA SumOfRest ==
  ASSUME NEW f, NEW S, IsFiniteSet(S), NEW T \in SUBSET S,
         \A x \in S : f[x] \in Int, \A x \in S \ T : f[x] = 0
  PROVE  SumFunctionOnSet(f, S) = SumFunctionOnSet(f, T)
<1>1. IsFiniteSet(T) /\ IsFiniteSet(S \ T) /\ S = T \cup (S \ T)
  BY FS_Subset
<1>2. SumFunctionOnSet(f, T \cup (S \ T))
        = SumFunctionOnSet(f, T) + SumFunctionOnSet(f, S \ T)
  <2>1. T \cap (S \ T) = {} /\ \A x \in T \cup (S \ T) : f[x] \in Int
    OBVIOUS
  <2> QED BY <1>1, <2>1, SumOfUnion
<1>3. SumFunctionOnSet(f, S \ T) = 0
  BY <1>1, SumOfZeros
<1>4. SumFunctionOnSet(f, T) \in Int
  BY <1>1, SumIsInt
<1>5. SumFunctionOnSet(f, S) = SumFunctionOnSet(f, T \cup (S \ T))
  BY <1>1, Zenon
<1> QED BY <1>2, <1>3, <1>4, <1>5

\* Sums of sums and differences.
LEMMA SumOfSums ==
  ASSUME NEW S, IsFiniteSet(S), NEW f, NEW g, NEW h,
         \A x \in S : f[x] \in Int /\ g[x] \in Int /\ h[x] = f[x] + g[x]
  PROVE  SumFunctionOnSet(h, S) = SumFunctionOnSet(f, S) + SumFunctionOnSet(g, S)
<1> DEFINE Good == {T \in SUBSET S :
             SumFunctionOnSet(h, T) = SumFunctionOnSet(f, T) + SumFunctionOnSet(g, T)}
<1>1. {} \in Good
  BY SumOfEmpty
<1>2. ASSUME NEW T \in SUBSET S, NEW y \in S, T \in Good, y \notin T
      PROVE  T \cup {y} \in Good
  <2>1. IsFiniteSet(T)
    BY FS_Subset
  <2>2. SumFunctionOnSet(h, T \cup {y}) = h[y] + SumFunctionOnSet(h, T)
    BY <1>2, <2>1, SumWith
  <2>3. SumFunctionOnSet(f, T \cup {y}) = f[y] + SumFunctionOnSet(f, T)
    BY <1>2, <2>1, SumWith
  <2>4. SumFunctionOnSet(g, T \cup {y}) = g[y] + SumFunctionOnSet(g, T)
    BY <1>2, <2>1, SumWith
  <2>5. SumFunctionOnSet(f, T) \in Int /\ SumFunctionOnSet(g, T) \in Int
    BY <2>1, SumIsInt
  <2>6. SumFunctionOnSet(h, T) = SumFunctionOnSet(f, T) + SumFunctionOnSet(g, T)
    BY <1>2
  <2> QED BY <2>2, <2>3, <2>4, <2>5, <2>6
<1>3. S \in Good
  <2> HIDE DEF Good
  <2> QED BY <1>1, <1>2, FromEmpty
<1> QED BY <1>3

LEMMA SumOfOpposites ==
  ASSUME NEW S, IsFiniteSet(S), NEW f, NEW g,
         \A x \in S : f[x] \in Int /\ g[x] = -f[x]
  PROVE  SumFunctionOnSet(g, S) = -SumFunctionOnSet(f, S)
<1> DEFINE h == [x \in S |-> f[x] + g[x]]
<1>1. \A x \in S : h[x] = 0 /\ g[x] \in Int /\ h[x] = f[x] + g[x]
  OBVIOUS
<1> HIDE DEF h
<1>2. SumFunctionOnSet(h, S) = 0
  BY <1>1, SumOfZeros
<1>3. SumFunctionOnSet(h, S) = SumFunctionOnSet(f, S) + SumFunctionOnSet(g, S)
  BY <1>1, SumOfSums
<1>4. SumFunctionOnSet(f, S) \in Int /\ SumFunctionOnSet(g, S) \in Int
  BY <1>1, SumIsInt
<1> QED BY <1>2, <1>3, <1>4

\* A sum by groups: every element of S is in the part of its key.
Grouped(f, S, key, K, parts, sums) ==
    /\ IsFiniteSet(S) /\ IsFiniteSet(K)
    /\ \A x \in S : f[x] \in Int /\ key[x] \in K
    /\ \A k \in K : /\ parts[k] \subseteq S
                    /\ \A x \in S : x \in parts[k] <=> key[x] = k
                    /\ sums[k] = SumFunctionOnSet(f, parts[k])

LEMMA SumByKey ==
  ASSUME NEW S, NEW f, NEW K, NEW key, NEW parts, NEW sums,
         Grouped(f, S, key, K, parts, sums)
  PROVE  SumFunctionOnSet(sums, K) = SumFunctionOnSet(f, S)
<1> USE DEF Grouped
<1> DEFINE Of(L) == {x \in S : key[x] \in L}
           Good == {L \in SUBSET K :
             SumFunctionOnSet(sums, L) = SumFunctionOnSet(f, Of(L))}
<1>0. \A L \in SUBSET K : IsFiniteSet(L) /\ IsFiniteSet(Of(L))
  BY FS_Subset
<1>a. \A k \in K : IsFiniteSet(parts[k])
  BY FS_Subset
<1>b. ASSUME NEW k \in K
      PROVE  sums[k] \in Int
  <2>1. SumFunctionOnSet(f, parts[k]) \in Int
    BY <1>a, SumIsInt
  <2> QED BY <2>1
<1>1. {} \in Good
  <2>1. Of({}) = {}
    OBVIOUS
  <2> QED BY <2>1, SumOfEmpty
<1>2. ASSUME NEW L \in SUBSET K, NEW k \in K, L \in Good, k \notin L
      PROVE  L \cup {k} \in Good
  <2>1. SumFunctionOnSet(sums, L \cup {k}) = sums[k] + SumFunctionOnSet(sums, L)
    BY <1>0, <1>2, <1>b, SumWith
  <2> DEFINE A == parts[k]
  <2>2. Of(L \cup {k}) = A \cup Of(L) /\ A \cap Of(L) = {}
    BY <1>2
  <2>3. SumFunctionOnSet(f, A \cup Of(L))
          = SumFunctionOnSet(f, A) + SumFunctionOnSet(f, Of(L))
    <3>1. IsFiniteSet(A) /\ IsFiniteSet(Of(L))
      BY <1>0, <1>a
    <3>2. \A x \in A \cup Of(L) : f[x] \in Int
      OBVIOUS
    <3> HIDE DEF A, Of
    <3> QED BY <2>2, <3>1, <3>2, SumOfUnion
  <2>4. SumFunctionOnSet(sums, L) = SumFunctionOnSet(f, Of(L))
    BY <1>2
  <2>5. sums[k] = SumFunctionOnSet(f, A)
    OBVIOUS
  <2>6. SumFunctionOnSet(sums, L \cup {k}) = SumFunctionOnSet(f, Of(L \cup {k}))
    <3> HIDE DEF A, Of
    <3> QED BY <2>1, <2>2, <2>3, <2>4, <2>5
  <2> QED BY <2>6
<1>3. K \in Good
  <2>1. IsFiniteSet(K)
    OBVIOUS
  <2> HIDE DEF Good, Grouped
  <2>2. \A L \in SUBSET K, k \in K : L \in Good /\ k \notin L => L \cup {k} \in Good
    BY <1>2
  <2>3. \A L \in SUBSET K : L \in Good
    BY <1>1, <2>1, <2>2, FromEmpty
  <2> QED BY <2>3
<1>4. Of(K) = S
  OBVIOUS
<1> QED BY <1>3, <1>4

------------------------------------------------------------------------------
\* Sorting.

LEMMA ItemsOf ==
  ASSUME NEW S, IsFiniteSet(S)
  PROVE  /\ SetToSeq(S) \in [1 .. Cardinality(S) -> S]
         /\ \A i, j \in 1 .. Cardinality(S) : SetToSeq(S)[i] = SetToSeq(S)[j] => i = j
         /\ \A x \in S : \E i \in 1 .. Cardinality(S) : SetToSeq(S)[i] = x
<1> DEFINE D == 1 .. Cardinality(S)
<1>1. ExistsBijection(D, S) /\ Cardinality(S) \in Nat
  BY FS_CardinalityType
<1>2. \E f \in [D -> S] : IsInjective(f)
  BY <1>1 DEF ExistsBijection, Bijection, Injection
<1>3. SetToSeq(S) = CHOOSE f \in [D -> S] : IsInjective(f)
  BY DEF SetToSeq
<1> DEFINE items == SetToSeq(S)
<1>4. items \in [D -> S] /\ IsInjective(items)
  BY <1>2, <1>3
<1>5. \A i, j \in D : items[i] = items[j] => i = j
  BY <1>4 DEF IsInjective
<1> HIDE DEF items
<1>6. IsFiniteSet(D) /\ Cardinality(D) = Cardinality(S)
  BY <1>1, FS_Interval
<1>7. {items[i] : i \in D} = S
  <2> DEFINE R == {items[i] : i \in D}
  <2>1. R \in SUBSET S
    BY <1>4
  <2>2. items \in Bijection(D, R)
    BY <1>4, <1>5 DEF Bijection, Injection, Surjection, IsInjective
  <2>3. IsFiniteSet(R) /\ Cardinality(R) = Cardinality(D)
    <3> HIDE DEF D, R
    <3> QED BY <1>6, <2>2, FS_Bijection DEF ExistsBijection
  <2>4. IsFiniteSet(S) /\ Cardinality(S) = Cardinality(R)
    BY <1>6, <2>3
  <2> HIDE DEF R
  <2>5. R = S
    BY <2>1, <2>4, FS_Subset
  <2> QED BY <2>5 DEF R
<1>8. \A x \in S : \E i \in D : items[i] = x
  BY <1>7
<1> QED BY <1>4, <1>5, <1>8 DEF items

\* A permutation of a finite set from its one-to-one map into itself.
LEMMA OneToOneIsOnto ==
  ASSUME NEW D, IsFiniteSet(D), NEW place \in [D -> D],
         \A i, j \in D : place[i] = place[j] => i = j
  PROVE  \A n \in D : \E i \in D : place[i] = n
<1> DEFINE R == {place[i] : i \in D}
<1>1. R \in SUBSET D
  OBVIOUS
<1>2. place \in Bijection(D, R)
  BY DEF Bijection, Injection, Surjection, IsInjective
<1>3. IsFiniteSet(R) /\ Cardinality(R) = Cardinality(D)
  <2> HIDE DEF R
  <2> QED BY <1>2, FS_Bijection DEF ExistsBijection
<1>4. R = D
  <2> HIDE DEF R
  <2> QED BY <1>1, <1>3, FS_Subset
<1> QED BY <1>4

LEMMA SortedFacts ==
  ASSUME NEW S, IsFiniteSet(S), NEW key \in [S -> Int]
  PROVE  LET s == SortedByKey(key)
         IN  /\ s \in [1 .. Cardinality(S) -> S]
             /\ \A i, j \in 1 .. Cardinality(S) : s[i] = s[j] => i = j
             /\ \A x \in S : \E i \in 1 .. Cardinality(S) : s[i] = x
             /\ \A i, j \in 1 .. Cardinality(S) : i < j => key[s[i]] <= key[s[j]]
<1> DEFINE D == 1 .. Cardinality(S)
           items == SetToSeq(S)
           Before(j, i) == \/ key[items[j]] < key[items[i]]
                           \/ key[items[j]] = key[items[i]] /\ j <= i
           Upto(i) == {j \in D : Before(j, i)}
           Place(i) == Cardinality(Upto(i))
           place == [i \in D |-> Place(i)]
<1>1. /\ items \in [D -> S]
      /\ \A i, j \in D : items[i] = items[j] => i = j
      /\ \A x \in S : \E i \in D : items[i] = x
  BY ItemsOf
<1>2. SortedByKey(key) = [n \in D |-> items[CHOOSE i \in D : Place(i) = n]]
  <2>1. DOMAIN key = S /\ DOMAIN items = D
    BY <1>1
  <2> QED BY <2>1 DEF SortedByKey
<1>3. Cardinality(S) \in Nat /\ IsFiniteSet(D) /\ Cardinality(D) = Cardinality(S)
  BY FS_CardinalityType, FS_Interval
<1>4. \A i \in D : key[items[i]] \in Int
  BY <1>1
<1> HIDE DEF items
<1>5. \A i \in D : Before(i, i)
  BY <1>4
<1>6. \A i, j \in D : Before(i, j) /\ i # j => ~Before(j, i)
  BY <1>3, <1>4
<1>7. \A i, j \in D : Before(i, j) \/ Before(j, i)
  BY <1>3, <1>4
<1>8. \A i, j, k \in D : Before(i, j) /\ Before(j, k) => Before(i, k)
  BY <1>3, <1>4
<1>9. ASSUME NEW i \in D
      PROVE  IsFiniteSet(Upto(i)) /\ Place(i) \in D
  <2>1. Upto(i) \in SUBSET D /\ Upto(i) # {}
    BY <1>5
  <2> HIDE DEF Upto
  <2>2. /\ IsFiniteSet(Upto(i)) /\ Cardinality(Upto(i)) <= Cardinality(D)
        /\ Cardinality(Upto(i)) \in Nat /\ Cardinality(Upto(i)) # 0
    BY <1>3, <2>1, FS_Subset, FS_CardinalityType, FS_EmptySet
  <2> QED BY <1>3, <2>2
<1>10. ASSUME NEW i \in D, NEW j \in D, Before(i, j), i # j
       PROVE  Place(i) < Place(j)
  <2>1. Upto(i) \subseteq Upto(j) /\ j \in Upto(j)
    BY <1>5, <1>8, <1>10
  <2>2. j \notin Upto(i)
    BY <1>6, <1>10
  <2> HIDE DEF Upto
  <2>3. Upto(i) \in SUBSET Upto(j) /\ Upto(i) # Upto(j)
    BY <2>1, <2>2
  <2>4. Cardinality(Upto(i)) <= Cardinality(Upto(j))
        /\ Cardinality(Upto(i)) # Cardinality(Upto(j))
    BY <1>9, <2>3, FS_Subset
  <2> QED BY <1>3, <1>9, <2>4
<1> HIDE DEF Before, Place
<1>11. ASSUME NEW i \in D, NEW j \in D, place[i] = place[j]
       PROVE  i = j
  <2>1. Place(i) = Place(j)
    BY <1>11
  <2>2. ~(Place(i) < Place(j)) /\ ~(Place(j) < Place(i))
    <3>1. Place(i) \in D
      BY <1>9
    <3> QED BY <2>1, <3>1
  <2> QED BY <1>7, <1>10, <2>2, Zenon
<1>12. \A n \in D : \E i \in D : Place(i) = n
  <2>1. place \in [D -> D]
    BY <1>9
  <2>2. \A n \in D : \E i \in D : place[i] = n
    <3> HIDE DEF place
    <3> QED BY <1>3, <1>11, <2>1, OneToOneIsOnto
  <2> QED BY <2>2
<1> DEFINE At(n) == CHOOSE i \in D : Place(i) = n
<1>13. \A n \in D : At(n) \in D /\ Place(At(n)) = n
  BY <1>12
<1> HIDE DEF At, place
<1> DEFINE s == SortedByKey(key)
<1>14. s = [n \in D |-> items[At(n)]]
  BY <1>2 DEF At
<1> HIDE DEF s
<1>15. s \in [D -> S]
  BY <1>1, <1>13, <1>14
<1>16. \A i, j \in D : s[i] = s[j] => i = j
  BY <1>1, <1>13, <1>14
<1>17. ASSUME NEW x \in S
       PROVE  \E n \in D : s[n] = x
  <2>1. PICK i \in D : items[i] = x
    BY <1>1
  <2>2. Place(i) \in D /\ At(Place(i)) \in D /\ Place(At(Place(i))) = Place(i)
    BY <1>9, <1>13
  <2>3. At(Place(i)) = i
    BY <1>11, <2>2 DEF place
  <2> QED BY <1>14, <2>1, <2>2, <2>3
<1>18. ASSUME NEW i \in D, NEW j \in D, i < j
       PROVE  key[s[i]] <= key[s[j]]
  <2>1. At(i) \in D /\ At(j) \in D /\ Place(At(i)) = i /\ Place(At(j)) = j
    BY <1>13
  <2>2. At(i) # At(j) /\ ~Before(At(j), At(i))
    BY <1>10, <1>18, <1>3, <2>1
  <2>3. Before(At(i), At(j))
    BY <1>7, <2>1, <2>2
  <2>4. key[items[At(i)]] <= key[items[At(j)]]
    BY <1>4, <2>1, <2>3 DEF Before
  <2> QED BY <1>14, <2>4
<1> QED BY <1>15, <1>16, <1>17, <1>18 DEF s

------------------------------------------------------------------------------
\* Smallest and greatest elements of a finite set of integers.

LEMMA MinIsLeast ==
  ASSUME NEW S, IsFiniteSet(S), S \subseteq Int, S # {}
  PROVE  Min(S) \in S /\ \A y \in S : Min(S) <= y
<1> DEFINE Least(T) == \E x \in T : \A y \in T : x <= y
           Good == {T \in SUBSET S : T # {} => Least(T)}
<1>1. {} \in Good
  OBVIOUS
<1>2. ASSUME NEW T \in SUBSET S, NEW x \in S, T \in Good, x \notin T
      PROVE  T \cup {x} \in Good
  <2>1. CASE T = {}
    BY <2>1
  <2>2. CASE T # {}
    <3>1. PICK m \in T : \A y \in T : m <= y
      BY <1>2, <2>2
    <3>2. CASE m <= x
      BY <3>1, <3>2
    <3>3. CASE ~(m <= x)
      <4>1. \A y \in T \cup {x} : x <= y
        BY <3>1, <3>3
      <4> QED BY <4>1
    <3> QED BY <3>2, <3>3
  <2> QED BY <2>1, <2>2
<1>3. S \in Good
  <2>1. \A T \in SUBSET S, x \in S : T \in Good /\ x \notin T => T \cup {x} \in Good
    BY <1>2
  <2> HIDE DEF Good
  <2>2. \A T \in SUBSET S : T \in Good
    BY <1>1, <2>1, FromEmpty, Zenon
  <2> QED BY <2>2
<1>4. \E x \in S : \A y \in S : x <= y
  BY <1>3
<1> QED BY <1>4 DEF Min

LEMMA MaxIsGreatest ==
  ASSUME NEW S, IsFiniteSet(S), S \subseteq Int, S # {}
  PROVE  Max(S) \in S /\ \A y \in S : y <= Max(S)
<1> DEFINE Greatest(T) == \E x \in T : \A y \in T : x >= y
           Good == {T \in SUBSET S : T # {} => Greatest(T)}
<1>1. {} \in Good
  OBVIOUS
<1>2. ASSUME NEW T \in SUBSET S, NEW x \in S, T \in Good, x \notin T
      PROVE  T \cup {x} \in Good
  <2>1. CASE T = {}
    BY <2>1
  <2>2. CASE T # {}
    <3>1. PICK m \in T : \A y \in T : m >= y
      BY <1>2, <2>2
    <3>2. CASE m >= x
      BY <3>1, <3>2
    <3>3. CASE ~(m >= x)
      <4>1. \A y \in T \cup {x} : x >= y
        BY <3>1, <3>3
      <4> QED BY <4>1
    <3> QED BY <3>2, <3>3
  <2> QED BY <2>1, <2>2
<1>3. S \in Good
  <2>1. \A T \in SUBSET S, x \in S : T \in Good /\ x \notin T => T \cup {x} \in Good
    BY <1>2
  <2> HIDE DEF Good
  <2>2. \A T \in SUBSET S : T \in Good
    BY <1>1, <2>1, FromEmpty, Zenon
  <2> QED BY <2>2
<1>4. PICK x \in S : \A y \in S : x >= y
  BY <1>3
<1>5. Max(S) \in S /\ \A y \in S : Max(S) >= y
  BY <1>4 DEF Max
<1> QED BY <1>5

------------------------------------------------------------------------------
\* The types of what a tab keeps.

LEMMA PeriodLengths ==
  ASSUME NEW granularity \in {"month", "quarter", "year"}
  PROVE  PeriodLength[granularity] \in Nat \ {0}
BY PeriodsAssumption

LEMMA IntervalTypes ==
  ASSUME NEW when \in Int, NEW kind
  PROVE  /\ InitialDuration(kind, when) \in [start : Int, end : Int]
         /\ \A months \in Int : LastMonths(months, when) \in [start : Int, end : Int]
         /\ \A granularity \in {"month", "quarter", "year"}, period \in Int :
              /\ PeriodOf(when, granularity) \in Int
              /\ PeriodInterval(period, granularity) \in [start : Int, end : Int]
<1>1. ASSUME NEW granularity \in {"month", "quarter", "year"}, NEW period \in Int
      PROVE  /\ PeriodOf(when, granularity) \in Int
             /\ PeriodInterval(period, granularity) \in [start : Int, end : Int]
  BY PeriodLengths DEF PeriodOf, PeriodInterval, Interval
<1>2. ASSUME NEW months \in Int
      PROVE  LastMonths(months, when) \in [start : Int, end : Int]
  <2>1. PeriodOf(when, "month") \in Int /\ PeriodLength["month"] \in Int
    BY PeriodLengths DEF PeriodOf
  <2>2. (PeriodOf(when, "month") - (months - 1)) * PeriodLength["month"] \in Int
    BY <2>1
  <2> QED BY <2>2 DEF LastMonths, Interval
<1>3. InitialDuration(kind, when) \in [start : Int, end : Int]
  <2>1. CASE kind \in PeriodPages
    <3>1. kind \in {"month", "quarter", "year"}
      BY <2>1 DEF PeriodPages
    <3>2. PeriodOf(when, kind) \in Int
      BY <3>1, PeriodLengths DEF PeriodOf
    <3>3. PeriodInterval(PeriodOf(when, kind), kind) \in [start : Int, end : Int]
      BY <1>1, <3>1, <3>2
    <3> QED BY <2>1, <3>3 DEF InitialDuration
  <2>2. CASE kind \notin PeriodPages
    BY <1>2, <2>2 DEF InitialDuration
  <2> QED BY <2>1, <2>2
<1> QED BY <1>1, <1>2, <1>3

\* The history of a snapshot with a transaction has a first and a last moment.
Times == {t.time : t \in transactions}

LEMMA TimesOf ==
  ASSUME snapshot \in DOMAIN Snapshots
  PROVE  /\ IsFiniteSet(transactions)
         /\ \A t \in transactions : WellFormed(t)
         /\ IsFiniteSet(Times) /\ Times \subseteq Int
<1>1. IsFiniteSet(transactions) /\ \A t \in transactions : WellFormed(t)
  BY SnapshotsAssumption DEF transactions
<1>2. IsFiniteSet(Times)
  <2> DEFINE f == [t \in transactions |-> t.time]
  <2>1. f \in Surjection(transactions, Times)
    BY DEF Surjection, Times
  <2> QED BY <1>1, <2>1, FS_Surjection, Zenon DEF ExistsSurjection
<1>3. Times \subseteq Int
  BY <1>1 DEF Times, WellFormed
<1> QED BY <1>1, <1>2, <1>3

LEMMA HistoryEnds ==
  ASSUME snapshot \in DOMAIN Snapshots, transactions # {}
  PROVE  /\ Min(Times) \in Times /\ \A when \in Times : Min(Times) <= when
         /\ Max(Times) \in Times /\ \A when \in Times : when <= Max(Times)
         /\ Min(Times) \in Int /\ Max(Times) \in Int
<1>1. Times # {}
  BY DEF Times
<1> QED BY <1>1, TimesOf, MinIsLeast, MaxIsGreatest

LEMMA SearchTypes ==
  ASSUME TypeOK, SearchNext, UNCHANGED <<Data, statsVars, overviewVars>>
  PROVE  TypeOK'
<1>1. UNCHANGED <<now, loaded, snapshot, page, duration, excluded, sorting, showAll,
                  range, hideBalances, cookie>>
  BY DEF Data, statsVars, overviewVars
<1> DEFINE Rest == /\ now \in DOMAIN AnswersAt /\ loaded \in DOMAIN AnswersAt
                   /\ snapshot \in DOMAIN Snapshots
                   /\ page \in AllPages
                   /\ duration \in [start : Int, end : Int]
                   /\ excluded \subseteq DefaultExcluded \cup DOMAIN Core.categories
                   /\ sorting \in {"DATE_ASC", "DATE_DESC", "AMOUNT_ASC", "AMOUNT_DESC"}
                   /\ showAll \in BOOLEAN
                   /\ range \in Ranges \cup {"1Y"} /\ hideBalances \in BOOLEAN
                   /\ cookie \in BOOLEAN
           Box  == /\ filters \in FormType
                   /\ \/ searchText \in TypedQueries \cup {<<>>}
                      \/ searchText = GenerateQuery(filters)
                   /\ showFilters \in BOOLEAN /\ showStats \in BOOLEAN
                   /\ displayLimit \in Nat
<1>2. TypeOK <=> Rest /\ Box
  BY DEF TypeOK
<1>3. TypeOK' <=> Rest' /\ Box'
  BY DEF TypeOK
<1>4. Rest'
  BY <1>1, <1>2
<1> SUFFICES Box'
  BY <1>3, <1>4
<1>5. ASSUME NEW form \in FormType, SetFilters(form)
      PROVE  Box'
  <2>1. \/ searchText' \in TypedQueries \cup {<<>>}
        \/ searchText' = GenerateQuery(form)
    BY <1>2, <1>5 DEF SetFilters, UpdateQueryOnFormChange
  <2> QED BY <1>2, <1>5, <2>1 DEF SetFilters
<1>6. CASE ToggleFilters \/ ToggleStats \/ TypeQuery \/ ShowMore
  <2>1. CASE ToggleFilters \/ ToggleStats
    BY <1>2, <2>1 DEF ToggleFilters, ToggleStats
  <2>2. CASE TypeQuery
    BY <1>2, <2>2 DEF TypeQuery
  <2>3. CASE ShowMore
    <3>1. PICK more \in MoreItems : displayLimit' = displayLimit + more
      BY <2>3 DEF ShowMore
    <3>2. displayLimit' \in Nat
      BY <1>2, <3>1, ItemsAssumption
    <3> QED BY <1>2, <2>3, <3>2 DEF ShowMore
  <2> QED BY <1>6, <2>1, <2>2, <2>3
<1>7. CASE ChooseType
  <2>1. PICK type \in TransactionTypes :
          SetFilters([filters EXCEPT !.types = Toggled(@, type)])
    BY <1>7 DEF ChooseType
  <2>2. [filters EXCEPT !.types = Toggled(@, type)] \in FormType
    BY <1>2 DEF FormType, Toggled
  <2> QED BY <1>5, <2>1, <2>2
<1>8. CASE TypeVendor
  <2>1. PICK text \in VendorTexts : SetFilters([filters EXCEPT !.vendor = text])
    BY <1>8 DEF TypeVendor
  <2>2. [filters EXCEPT !.vendor = text] \in FormType
    BY <1>2 DEF FormType
  <2> QED BY <1>5, <2>1, <2>2
<1>9. CASE ChooseAccount
  <2>1. PICK a \in DOMAIN Core.accounts :
          SetFilters([filters EXCEPT !.accounts = Toggled(@, a)])
    BY <1>9 DEF ChooseAccount
  <2>2. [filters EXCEPT !.accounts = Toggled(@, a)] \in FormType
    BY <1>2 DEF FormType, Toggled
  <2> QED BY <1>5, <2>1, <2>2
<1>10. CASE ChooseCategory
  <2>1. PICK c \in DOMAIN Core.categories :
          SetFilters([filters EXCEPT !.categories = Toggled(@, c)])
    BY <1>10 DEF ChooseCategory
  <2>2. [filters EXCEPT !.categories = Toggled(@, c)] \in FormType
    BY <1>2 DEF FormType, Toggled
  <2> QED BY <1>5, <2>1, <2>2
<1>11. CASE ChooseTrip
  <2>1. PICK trip \in DOMAIN Core.trips :
          SetFilters([filters EXCEPT !.trips = Toggled(@, trip)])
    BY <1>11 DEF ChooseTrip
  <2>2. [filters EXCEPT !.trips = Toggled(@, trip)] \in FormType
    BY <1>2 DEF FormType, Toggled
  <2> QED BY <1>5, <2>1, <2>2
<1>12. CASE ChooseTag
  <2>1. PICK g \in DOMAIN Core.tags :
          SetFilters([filters EXCEPT !.tags = Toggled(@, g)])
    BY <1>12 DEF ChooseTag
  <2>2. [filters EXCEPT !.tags = Toggled(@, g)] \in FormType
    BY <1>2 DEF FormType, Toggled
  <2> QED BY <1>5, <2>1, <2>2
<1>13. CASE ChooseFrom
  <2>1. PICK day \in DOMAIN FilterDays \cup {None} :
          SetFilters([filters EXCEPT !.from = day])
    BY <1>13 DEF ChooseFrom
  <2>2. [filters EXCEPT !.from = day] \in FormType
    BY <1>2 DEF FormType
  <2> QED BY <1>5, <2>1, <2>2
<1>14. CASE ChooseTo
  <2>1. PICK day \in DOMAIN FilterDays \cup {None} :
          SetFilters([filters EXCEPT !.to = day])
    BY <1>14 DEF ChooseTo
  <2>2. [filters EXCEPT !.to = day] \in FormType
    BY <1>2 DEF FormType
  <2> QED BY <1>5, <2>1, <2>2
<1>15. CASE MatchAllTags
  <2>1. SetFilters([filters EXCEPT !.allTags = ~@])
    BY <1>15 DEF MatchAllTags
  <2>2. [filters EXCEPT !.allTags = ~@] \in FormType
    BY <1>2 DEF FormType
  <2> QED BY <1>5, <2>1, <2>2
<1> QED
  BY <1>6, <1>7, <1>8, <1>9, <1>10, <1>11, <1>12, <1>13, <1>14, <1>15 DEF SearchNext

LEMMA StatsTypes ==
  ASSUME TypeOK, transactions # {}, StatsNext(page.kind, now),
         UNCHANGED <<Data, searchVars, overviewVars>>
  PROVE  TypeOK'
<1>1. now \in Int /\ loaded \in Int
  BY AnswersAssumption DEF TypeOK
<1>2. UNCHANGED <<now, loaded, snapshot, page, filters, searchText, showFilters, showStats,
                  displayLimit, range, hideBalances, cookie>>
  BY DEF Data, searchVars, overviewVars
<1> DEFINE Stats == /\ duration \in [start : Int, end : Int]
                    /\ excluded \subseteq DefaultExcluded \cup DOMAIN Core.categories
                    /\ sorting \in {"DATE_ASC", "DATE_DESC", "AMOUNT_ASC", "AMOUNT_DESC"}
                    /\ showAll \in BOOLEAN
<1>3. Stats
  BY DEF TypeOK
<1> SUFFICES Stats'
  BY <1>2 DEF TypeOK
<1>4. FirstTransactionMonth \in Int
  <2>1. Min(Times) \in Int
    BY HistoryEnds DEF TypeOK
  <2>2. PeriodInterval(PeriodOf(Min(Times), "month"), "month") \in [start : Int, end : Int]
    BY <2>1, IntervalTypes
  <2> QED BY <2>2 DEF FirstTransactionMonth, StartOfMonth, Times
<1>5. ASSUME NEW interval \in [start : Int, end : Int], SetDuration(interval)
      PROVE  Stats'
  BY <1>3, <1>5 DEF SetDuration
<1>6. \A day \in PickedDays \cup {None}, cleared \in Int : PickedDay(day, cleared) \in Int
  BY PickedDaysAssumption, UnitsAssumption, NoneAssumption DEF PickedDay, StartOfDay
<1>7. CASE PickCommonInterval(page.kind, now)
  <2>1. PICK interval \in CommonIntervals(now) : SetDuration(interval)
    BY <1>7 DEF PickCommonInterval
  <2>2. /\ LastMonths(6, now) \in [start : Int, end : Int]
        /\ LastMonths(12, now) \in [start : Int, end : Int]
    <3>1. \A months \in Int : LastMonths(months, now) \in [start : Int, end : Int]
      BY <1>1, IntervalTypes
    <3>2. 6 \in Int /\ 12 \in Int
      OBVIOUS
    <3> QED BY <3>1, <3>2
  <2>3. interval \in [start : Int, end : Int]
    BY <1>1, <1>4, <2>1, <2>2 DEF CommonIntervals, Interval
  <2> QED BY <1>5, <2>1, <2>3
<1>8. CASE SetFrom(page.kind)
  <2>1. PICK day \in PickedDays \cup {None} :
          SetDuration([duration EXCEPT !.start = PickedDay(day, FirstTransactionMonth)])
    BY <1>8 DEF SetFrom
  <2>2. PickedDay(day, FirstTransactionMonth) \in Int
    BY <1>4, <1>6, <2>1
  <2>3. [duration EXCEPT !.start = PickedDay(day, FirstTransactionMonth)]
          \in [start : Int, end : Int]
    BY <1>3, <2>2
  <2> QED BY <1>5, <2>1, <2>3
<1>9. CASE SetTo(page.kind, now)
  <2>1. PICK day \in PickedDays \cup {None} :
          SetDuration([duration EXCEPT !.end = PickedDay(day, now)])
    BY <1>9 DEF SetTo
  <2>2. PickedDay(day, now) \in Int
    BY <1>1, <1>6, <2>1
  <2>3. [duration EXCEPT !.end = PickedDay(day, now)] \in [start : Int, end : Int]
    BY <1>3, <2>2
  <2> QED BY <1>5, <2>1, <2>3
<1>10. CASE SelectPeriod(page.kind)
  <2>1. PICK interval \in Range(Slices(page.kind)) \ {duration} : SetDuration(interval)
    BY <1>10 DEF SelectPeriod
  <2>2. page.kind \in {"month", "quarter", "year"}
    BY <1>10 DEF SelectPeriod, PeriodPages
  <2>3. interval \in [start : Int, end : Int]
    <3>1. Min(Times) \in Int /\ Max(Times) \in Int
      BY HistoryEnds DEF TypeOK
    <3> DEFINE periods == SliceInterval(AllDataInterval, page.kind)
    <3>2. PICK i \in DOMAIN periods : interval = PeriodInterval(periods[i], page.kind)
      BY <2>1 DEF Slices, Range
    <3>3. periods[i] \in Int
      <4>1. /\ PeriodOf(Min(Times), page.kind) \in Int
            /\ PeriodOf(Max(Times), page.kind) \in Int
        BY <2>2, <3>1, PeriodLengths DEF PeriodOf
      <4>2. AllDataInterval = [start |-> Min(Times), end |-> Max(Times)]
        BY DEF AllDataInterval, Interval, Times
      <4> QED BY <3>2, <4>1, <4>2 DEF SliceInterval
    <3> QED BY <2>2, <3>2, <3>3, <1>1, IntervalTypes
  <2> QED BY <1>5, <2>1, <2>3
<1>11. CASE SelectExcluded(page.kind)
  BY <1>3, <1>11 DEF SelectExcluded
<1>12. CASE SortByDate(page.kind) \/ SortByAmount(page.kind) \/ ShowAll(page.kind)
  BY <1>3, <1>12 DEF SortByDate, SortByAmount, ShowAll
<1> QED BY <1>7, <1>8, <1>9, <1>10, <1>11, <1>12 DEF StatsNext

(* Whatever is clicked, typed and saved, a tab keeps what the pages can    *)
(* draw: filters of the form, a text that was typed or generated, ends of  *)
(* an interval that are moments, a page of something there is (the types   *)
(* of TypeOK, for pages of any data).                                      *)
THEOREM PagesTypeCorrect == Spec => []TypeOK
<1> USE AnswersAssumption
<1>1. NoFilters \in FormType
  BY DEF NoFilters, FormType
<1>2. Init => TypeOK
  <2> SUFFICES ASSUME Init PROVE TypeOK
    OBVIOUS
  <2>1. now \in DOMAIN AnswersAt /\ loaded \in DOMAIN AnswersAt /\ now \in Int
    BY DEF Init
  <2>2. snapshot \in DOMAIN Snapshots
    BY DEF Init
  <2>3. page \in AllPages
    BY DEF Init, AllPages
  <2>4. /\ filters \in FormType
        /\ searchText = <<>>
        /\ showFilters \in BOOLEAN /\ showStats \in BOOLEAN /\ displayLimit \in Nat
    BY <1>1, ItemsAssumption DEF Init, SearchInit
  <2>5. /\ duration \in [start : Int, end : Int]
        /\ excluded \subseteq DefaultExcluded \cup DOMAIN Core.categories
        /\ sorting \in {"DATE_ASC", "DATE_DESC", "AMOUNT_ASC", "AMOUNT_DESC"}
        /\ showAll \in BOOLEAN
    BY <2>1, IntervalTypes DEF Init, StatsInit, InitialSorting
  <2>6. range \in Ranges \cup {"1Y"} /\ hideBalances \in BOOLEAN /\ cookie \in BOOLEAN
    BY DEF Init, OverviewInit
  <2> QED BY <2>1, <2>2, <2>3, <2>4, <2>5, <2>6 DEF TypeOK
<1>3. TypeOK /\ [Next]_vars => TypeOK'
  <2> SUFFICES ASSUME TypeOK, [Next]_vars PROVE TypeOK'
    OBVIOUS
  <2>1. CASE Navigate
    <3>1. now' \in DOMAIN AnswersAt /\ loaded' \in DOMAIN AnswersAt /\ now \in Int
      BY <2>1 DEF Navigate, FetchAppData, TypeOK
    <3>2. snapshot' \in DOMAIN Snapshots
      BY <2>1 DEF Navigate, FetchAppData, TypeOK
    <3>3. page' \in AllPages
      BY <2>1 DEF Navigate, AllPages
    <3>4. /\ filters' \in FormType
          /\ searchText' = <<>>
          /\ showFilters' \in BOOLEAN /\ showStats' \in BOOLEAN /\ displayLimit' \in Nat
      BY <1>1, <2>1, ItemsAssumption DEF Navigate, ForgetSearch
    <3>5. /\ duration' \in [start : Int, end : Int]
          /\ excluded' \subseteq DefaultExcluded \cup DOMAIN Core.categories
          /\ sorting' \in {"DATE_ASC", "DATE_DESC", "AMOUNT_ASC", "AMOUNT_DESC"}
          /\ showAll' \in BOOLEAN
      BY <2>1, <3>1, IntervalTypes DEF Navigate, StatsOpened, InitialSorting
    <3>6. range' \in Ranges \cup {"1Y"} /\ hideBalances' \in BOOLEAN /\ cookie' \in BOOLEAN
      BY <2>1 DEF Navigate, OverviewOpened, TypeOK
    <3> QED BY <3>1, <3>2, <3>3, <3>4, <3>5, <3>6 DEF TypeOK
  <2>2. CASE Refresh
    <3>1. now' \in DOMAIN AnswersAt /\ loaded' \in DOMAIN AnswersAt
      BY <2>2 DEF Refresh, FetchAppData, TypeOK
    <3>2. snapshot' \in DOMAIN Snapshots
      BY <2>2 DEF Refresh, FetchAppData, TypeOK
    <3>3. searchText' = searchText
      BY <2>2 DEF Refresh, SearchRefreshed, UpdateQueryOnFormChange
    <3>4. UNCHANGED <<page, filters, showFilters, showStats, displayLimit, duration,
                      excluded, sorting, showAll, range, hideBalances, cookie>>
      BY <2>2 DEF Refresh, SearchRefreshed, statsVars, overviewVars
    <3>5. AllPages' = AllPages /\ FormType' = FormType
      BY DEF AllPages, FormType
    <3> QED BY <3>1, <3>2, <3>3, <3>4, <3>5 DEF TypeOK
  <2>3. CASE Tick
    BY <2>3 DEF Tick, TypeOK, searchVars, statsVars, overviewVars
  <2>4. CASE OnTransactions
    BY <2>4, SearchTypes DEF OnTransactions
  <2>5. CASE OnAccount
    BY <2>5, SearchTypes DEF OnAccount, SearchNext
  <2>6. CASE OnStats
    BY <2>6, StatsTypes DEF OnStats
  <2>7. CASE OnOverview
    BY <2>7 DEF OnOverview, OverviewNext, ChooseRange, ToggleHideBalances, TypeOK, Data,
                searchVars, statsVars
  <2>8. CASE UNCHANGED vars
    BY <2>8 DEF TypeOK, vars, searchVars, statsVars, overviewVars
  <2> QED BY <2>1, <2>2, <2>3, <2>4, <2>5, <2>6, <2>7, <2>8 DEF Next
<1> QED BY <1>2, <1>3, PTL DEF Spec

(* What the user typed over the generated query is replaced by typing or   *)
(* by a change of the form and by nothing else: data that arrives, the     *)
(* clock and the other buttons leave it (UpdateQueryOnFormChange).         *)
THEOREM TypedQueryIsKept == Spec => TypedQueryStays
<1> DEFINE Stays == page' = page /\ filters' = filters /\ searchText' # searchText
                       => searchText' \in TypedQueries
<1>1. ASSUME [Next]_vars
      PROVE  [Stays]_vars
  <2>1. CASE Navigate
    BY <2>1 DEF Navigate
  <2>2. CASE Refresh
    BY <2>2 DEF Refresh, SearchRefreshed, UpdateQueryOnFormChange
  <2>3. CASE Tick
    BY <2>3 DEF Tick, searchVars
  <2>4. ASSUME NEW form, SetFilters(form)
        PROVE  Stays
    BY <2>4 DEF SetFilters, UpdateQueryOnFormChange
  <2>5. CASE OnTransactions
    <3>1. ASSUME ToggleFilters \/ ToggleStats \/ TypeQuery \/ ShowMore
          PROVE  Stays
      BY <3>1 DEF ToggleFilters, ToggleStats, TypeQuery, ShowMore
    <3>2. ASSUME \/ ChooseType \/ TypeVendor \/ ChooseAccount \/ ChooseCategory
                 \/ ChooseTrip \/ ChooseTag \/ ChooseFrom \/ ChooseTo \/ MatchAllTags
          PROVE  Stays
      <4>1. \E form : SetFilters(form)
        BY <3>2, Zenon DEF ChooseType, TypeVendor, ChooseAccount, ChooseCategory,
                           ChooseTrip, ChooseTag, ChooseFrom, ChooseTo, MatchAllTags
      <4> QED BY <2>4, <4>1
    <3> QED BY <2>5, <3>1, <3>2 DEF OnTransactions, SearchNext
  <2>6. CASE OnAccount
    BY <2>6 DEF OnAccount, TypeQuery
  <2>7. CASE OnStats \/ OnOverview
    BY <2>7 DEF OnStats, OnOverview, searchVars
  <2>8. CASE UNCHANGED vars
    BY <2>8
  <2> QED BY <1>1, <2>1, <2>2, <2>3, <2>5, <2>6, <2>7, <2>8 DEF Next
<1>2. [Next]_vars => [Stays]_vars
  BY <1>1
<1> HIDE DEF Stays
<1>3. [][Next]_vars => [][Stays]_vars
  BY <1>2, PTL
<1> QED BY <1>3 DEF Spec, TypedQueryStays, Stays

------------------------------------------------------------------------------
\* Days and the values that are known on them.

LEMMA TimesGrows ==
  ASSUME NEW L \in Nat \ {0}, NEW a \in Int, NEW b \in Int, a < b
  PROVE  a * L < b * L /\ a * L \in Int /\ b * L \in Int
<1>1. (b - a) * L > 0
  OBVIOUS
<1> QED BY <1>1

LEMMA Quotient ==
  ASSUME NEW L \in Nat \ {0}, NEW w \in Int
  PROVE  (w \div L) * L <= w /\ w < (w \div L + 1) * L /\ w \div L \in Int
<1>1. w = L * (w \div L) + (w % L) /\ 0 <= w % L /\ w % L < L /\ w \div L \in Int
  OBVIOUS
<1> QED BY <1>1

LEMMA DaysAndMoments ==
  ASSUME NEW when \in Int
  PROVE  /\ DayOf(when) \in Int
         /\ StartOfDay(DayOf(when)) <= when /\ when < StartOfDay(DayOf(when) + 1)
         /\ \A a, b \in Int : a < b => StartOfDay(a) < StartOfDay(b)
         /\ \A a \in Int : StartOfDay(a) \in Int
<1>1. DayLength \in Nat \ {0}
  BY UnitsAssumption
<1>2. DayOf(when) \in Int /\ StartOfDay(DayOf(when)) <= when
        /\ when < StartOfDay(DayOf(when) + 1)
  BY <1>1, Quotient DEF DayOf, StartOfDay
<1>3. ASSUME NEW a \in Int, NEW b \in Int, a < b
      PROVE  StartOfDay(a) < StartOfDay(b)
  BY <1>1, <1>3, TimesGrows DEF StartOfDay
<1>4. \A a \in Int : StartOfDay(a) \in Int
  BY <1>1 DEF StartOfDay
<1> QED BY <1>2, <1>3, <1>4

\* From before the first day the first is the closest, from the last day on the last.
LEMMA ClosestIsAnEnd ==
  ASSUME NEW first \in Int, NEW last \in Int, first <= last, NEW when \in Int
  PROVE  /\ DayOf(when) < first => ClosestTo(first .. last, when) = first
         /\ last <= DayOf(when) => ClosestTo(first .. last, when) = last
<1> DEFINE w == DayOf(when)
<1>1. \A a \in Int : StartOfDay(a) \in Int
  BY DaysAndMoments
<1>2. \A a, b \in Int : a < b => StartOfDay(a) < StartOfDay(b)
  BY DaysAndMoments
<1>3. w \in Int /\ StartOfDay(w) <= when /\ when < StartOfDay(w + 1)
  BY DaysAndMoments
<1> HIDE DEF w
<1> DEFINE days == first .. last
           Closer(d, e) == Distance(StartOfDay(d), when) <= Distance(StartOfDay(e), when)
<1>4. ASSUME w < first
      PROVE  \A d \in days : d # first => Closer(first, d) /\ ~Closer(d, first)
  <2> SUFFICES ASSUME NEW d \in days, d # first
               PROVE  Closer(first, d) /\ ~Closer(d, first)
    OBVIOUS
  <2>1. StartOfDay(w + 1) <= StartOfDay(first)
    BY <1>1, <1>2, <1>3, <1>4
  <2>2. StartOfDay(first) < StartOfDay(d)
    BY <1>2
  <2>3. StartOfDay(first) \in Int /\ StartOfDay(d) \in Int /\ StartOfDay(w + 1) \in Int
    BY <1>1, <1>3
  <2> QED BY <2>1, <2>2, <2>3, <1>3 DEF Distance
<1>5. ASSUME last <= w
      PROVE  \A d \in days : d # last => Closer(last, d) /\ ~Closer(d, last)
  <2> SUFFICES ASSUME NEW d \in days, d # last
               PROVE  Closer(last, d) /\ ~Closer(d, last)
    OBVIOUS
  <2>1. StartOfDay(last) <= StartOfDay(w)
    BY <1>1, <1>2, <1>3, <1>5
  <2>2. StartOfDay(d) < StartOfDay(last)
    BY <1>2
  <2>3. StartOfDay(last) \in Int /\ StartOfDay(d) \in Int /\ StartOfDay(w) \in Int
    BY <1>1, <1>3
  <2> QED BY <2>1, <2>2, <2>3, <1>3 DEF Distance
<1>6. \A d \in days : Closer(d, d)
  BY <1>1 DEF Distance
<1>7. ASSUME NEW c \in days, \A d \in days : d # c => Closer(c, d) /\ ~Closer(d, c)
      PROVE  (CHOOSE d \in days : \A e \in days : Closer(d, e)) = c
  <2> HIDE DEF days, Closer
  <2>1. \A e \in days : Closer(c, e)
    BY <1>6, <1>7
  <2>2. \A d \in days : (\A e \in days : Closer(d, e)) => d = c
    BY <1>7
  <2> QED BY <2>1, <2>2
<1>8. ClosestTo(days, when) = CHOOSE d \in days : \A e \in days : Closer(d, e)
  BY DEF ClosestTo
<1>9. first \in days /\ last \in days
  OBVIOUS
<1> HIDE DEF days, Closer
<1> QED BY <1>4, <1>5, <1>7, <1>8, <1>9 DEF w, days

LEMMA FilledDays ==
  ASSUME NEW series, IsSeries(series), Backfills(series), loaded \in Int
  PROVE  \E last \in Int :
           /\ Min(DOMAIN series) \in Int /\ Min(DOMAIN series) <= last
           /\ Min(DOMAIN series) \in DOMAIN series
           /\ DOMAIN series \subseteq Min(DOMAIN series) .. last
           /\ DOMAIN Backfilled(series) = Min(DOMAIN series) .. last
           /\ \A d \in DOMAIN Backfilled(series) :
                 Backfilled(series)[d] = series[LastKnown(series, d)]
           /\ \A d \in DOMAIN series : series[d] = 0 => d = last
<1> DEFINE S == DOMAIN series
           today == DayOf(loaded)
           days == S \cup {today}
           IsLast(d) == d \notin S \cap {today} /\ \A e \in days : e <= d
           value == [d \in S |-> series[d]]
<1>1. IsFiniteSet(S) /\ S \subseteq Int /\ S # {}
  BY DEF IsSeries
<1>2. today \in Int
  BY DaysAndMoments
<1>3. \A d \in days : ~IsLast(d) => d \in S /\ series[d] # 0
  BY DEF Backfills
<1> HIDE DEF today
<1>4. IsFiniteSet(days) /\ days \subseteq Int /\ days # {}
  BY <1>1, <1>2, FS_AddElement
<1>5. Min(days) \in days /\ \A d \in days : Min(days) <= d
  BY <1>4, MinIsLeast
<1>6. Max(days) \in days /\ \A d \in days : d <= Max(days)
  BY <1>4, MaxIsGreatest
<1>7. Min(S) \in S /\ \A d \in S : Min(S) <= d
  BY <1>1, MinIsLeast
<1> HIDE DEF S
<1>8. Min(days) \in S
  <2>1. CASE today \in S
    BY <1>5, <2>1
  <2>2. CASE today \notin S
    <3>1. PICK d \in S : d # today
      BY <1>1, <2>2
    <3>2. CASE Min(days) = today
      <4>1. today < d
        BY <1>1, <1>2, <1>5, <3>1, <3>2
      <4>2. ~IsLast(today)
        BY <1>1, <1>2, <3>1, <4>1
      <4> QED BY <1>3, <4>2, <2>2
    <3> QED BY <1>5, <3>2
  <2> QED BY <2>1, <2>2
<1>9. Min(days) = Min(S)
  BY <1>1, <1>4, <1>5, <1>7, <1>8
<1>10. DOMAIN Backfilled(series) = (Min(days) .. Max(days)) \ ({today} \ S)
  BY DEF Backfilled, today, S
<1>11. \A d \in DOMAIN Backfilled(series) :
         Backfilled(series)[d] = series[LastKnown(series, d)]
  BY DEF Backfilled
<1>12. CASE today \in S
  <2>1. DOMAIN Backfilled(series) = Min(S) .. Max(days)
    BY <1>9, <1>10, <1>12
  <2>2. S \subseteq Min(S) .. Max(days) /\ Min(S) <= Max(days) /\ Max(days) \in Int
    BY <1>1, <1>4, <1>6, <1>7
  <2>3. ASSUME NEW d \in S, series[d] = 0
        PROVE  d = Max(days)
    <3>1. IsLast(d)
      BY <1>3, <2>3
    <3> QED BY <1>1, <1>4, <1>6, <3>1
  <2> QED BY <1>7, <1>11, <2>1, <2>2, <2>3, <1>1 DEF S
<1>13. CASE today \notin S
  <2>1. IsLast(today)
    BY <1>3, <1>13
  <2>2. Max(days) = today /\ \A d \in S : d < today
    <3>1. \A e \in days : e <= today
      BY <2>1
    <3>2. today \in days /\ \A d \in S : d \in days
      OBVIOUS
    <3> HIDE DEF days
    <3>3. Max(days) = today
      <4>1. Max(days) <= today
        BY <1>6, <3>1
      <4>2. today <= Max(days)
        BY <1>6, <3>2
      <4>3. Max(days) \in Int
        BY <1>4, <1>6
      <4> QED BY <1>2, <4>1, <4>2, <4>3
    <3>4. ASSUME NEW d \in S
          PROVE  d < today
      <4>1. d <= today /\ d # today /\ d \in Int
        BY <1>1, <1>13, <3>1, <3>2
      <4> QED BY <1>2, <4>1
    <3> QED BY <3>3, <3>4
  <2>3. DOMAIN Backfilled(series) = Min(S) .. (today - 1)
    <3>1. DOMAIN Backfilled(series) = (Min(S) .. today) \ {today}
      BY <1>9, <1>10, <1>13, <2>2
    <3>2. ASSUME NEW d
          PROVE  d \in (Min(S) .. today) \ {today} <=> d \in Min(S) .. (today - 1)
      BY <1>1, <1>2, <1>7
    <3> QED BY <3>1, <3>2
  <2>4. S \subseteq Min(S) .. (today - 1) /\ Min(S) <= today - 1 /\ today - 1 \in Int
    <3>1. Min(S) \in Int /\ Min(S) < today
      BY <1>1, <1>7, <2>2
    <3>2. ASSUME NEW d \in S
          PROVE  d \in Min(S) .. (today - 1)
      <4>1. d \in Int /\ Min(S) <= d /\ d < today
        BY <1>1, <1>7, <2>2
      <4> QED BY <1>2, <3>1, <4>1
    <3> QED BY <1>2, <3>1, <3>2
  <2>5. ASSUME NEW d \in S, series[d] = 0
        PROVE  d = today - 1
    <3>1. IsLast(d)
      BY <1>3, <2>5
    <3> QED BY <1>1, <1>2, <2>2, <3>1
  <2> QED BY <1>7, <1>11, <2>3, <2>4, <2>5, <1>1 DEF S
<1> QED BY <1>12, <1>13

LEMMA ValueLooksBack ==
  ASSUME NEW series, IsSeries(series), Backfills(series), loaded \in Int, NEW when \in Int
  PROVE  ValueAt(series, when) = KnownOn(series, when)
<1> DEFINE S == DOMAIN series
           w == DayOf(when)
           first == Min(S)
           filled == Backfilled(series)
           past == {d \in S : d <= w}
<1>1. w \in Int
  BY DaysAndMoments
<1>2. PICK last \in Int :
        /\ first \in Int /\ first <= last /\ first \in S
        /\ S \subseteq first .. last
        /\ DOMAIN filled = first .. last
        /\ \A d \in first .. last : filled[d] = series[LastKnown(series, d)]
        /\ \A d \in S : series[d] = 0 => d = last
  BY FilledDays
<1>3. IsFiniteSet(S) /\ S \subseteq Int
  BY DEF IsSeries
<1>4. KnownOn(series, when) = series[IF past = {} THEN first ELSE Max(past)]
  BY DEF KnownOn
<1>5. ValueAt(series, when)
        = IF w \in first .. last /\ filled[w] # 0
          THEN filled[w] ELSE filled[ClosestTo(first .. last, when)]
  BY <1>2 DEF ValueAt, ValueOrClosest
<1>6. \A d \in Int : LastKnown(series, d) = Max({e \in S : e <= d})
  BY DEF LastKnown
<1>7. /\ w < first => ClosestTo(first .. last, when) = first
      /\ last <= w => ClosestTo(first .. last, when) = last
  BY <1>2, ClosestIsAnEnd
<1> HIDE DEF S, w, first, filled
<1>8. CASE w < first
  <2> \A d \in S : d \in Int /\ first <= d
    BY <1>2
  <2>1. past = {}
    <3>1. \A d \in S : ~(d <= w)
      BY <1>1, <1>2, <1>8
    <3> QED BY <3>1
  <2>2. {e \in S : e <= first} = {first}
    <3>1. ASSUME NEW e \in S, e <= first
          PROVE  e = first
      BY <1>2, <3>1
    <3>2. first \in S /\ first <= first
      BY <1>2
    <3> QED BY <3>1, <3>2
  <2>3. LastKnown(series, first) = first
    <3>1. Max({first}) = first
      BY <1>2 DEF Max
    <3> QED BY <1>2, <1>6, <2>2, <3>1
  <2>4. ValueAt(series, when) = filled[first]
    BY <1>1, <1>2, <1>5, <1>7, <1>8
  <2>5. filled[first] = series[first]
    BY <1>2, <2>3
  <2> HIDE DEF past
  <2> QED BY <1>4, <2>1, <2>4, <2>5
<1>9. CASE last < w
  <2>1. past = S /\ {e \in S : e <= last} = S
    <3>1. \A e \in S : e <= last /\ e <= w
      BY <1>1, <1>2, <1>9
    <3> QED BY <3>1
  <2>2. ValueAt(series, when) = filled[last]
    BY <1>1, <1>2, <1>5, <1>7, <1>9
  <2>3. filled[last] = series[Max(S)]
    BY <1>2, <1>6, <2>1
  <2>4. S # {}
    BY <1>2
  <2> HIDE DEF past
  <2> QED BY <1>4, <2>1, <2>2, <2>3, <2>4
<1>10. CASE w \in first .. last
  <2>1. past # {}
    BY <1>1, <1>2, <1>3, <1>10
  <2>2. filled[w] = series[Max(past)]
    BY <1>1, <1>2, <1>6, <1>10
  <2>3. CASE filled[w] # 0
    <3> HIDE DEF past
    <3> QED BY <1>4, <1>5, <1>10, <2>1, <2>2, <2>3
  <2>4. CASE filled[w] = 0
    <3>1. Max(past) \in past
      <4>1. IsFiniteSet(past) /\ past \subseteq Int
        BY <1>3, FS_Subset
      <4> HIDE DEF past
      <4> QED BY <2>1, <4>1, MaxIsGreatest
    <3>2. Max(past) = last
      BY <1>2, <2>2, <2>4, <3>1
    <3>3. last <= w
      BY <3>1, <3>2
    <3>4. ClosestTo(first .. last, when) = last /\ w = last
      BY <1>1, <1>2, <1>7, <1>10, <3>3
    <3> HIDE DEF past
    <3> QED BY <1>4, <1>5, <2>1, <2>2, <2>4, <3>4
  <2> QED BY <2>3, <2>4
<1> QED BY <1>1, <1>2, <1>8, <1>9, <1>10

(* An amount is converted at the last value known on its day, and before   *)
(* the first known day at that day's: never at one from a later day,       *)
(* whatever days a rate or a quote is known for, and whenever the data     *)
(* came (ExchangeRates, StockQuotes and their backfill).                   *)
THEOREM RatesNeverLookAhead == Spec => []RatesLookBack
<1>1. ASSUME TypeOK, MarketModelBuilds, NEW series,
             series \in Range(market.rates) \cup Range(market.quotes),
             NEW when \in {t.time : t \in transactions} \cup {loaded, now}
      PROVE  ValueAt(series, when) = KnownOn(series, when)
  <2>1. IsSeries(series)
    BY <1>1, SnapshotsAssumption DEF TypeOK, market
  <2>2. Backfills(series)
    BY <1>1 DEF MarketModelBuilds
  <2>3. when \in Int /\ loaded \in Int
    BY <1>1, TimesOf, AnswersAssumption DEF TypeOK, Times
  <2> QED BY <2>1, <2>2, <2>3, ValueLooksBack
<1>2. TypeOK => RatesLookBack
  <2> SUFFICES ASSUME TypeOK, MarketModelBuilds,
                      NEW when \in {t.time : t \in transactions} \cup {loaded, now}
               PROVE  /\ \A pair \in DOMAIN market.rates :
                            FindRate(pair[1], pair[2], when)
                               = KnownOn(market.rates[pair], when)
                      /\ \A stock \in DOMAIN market.quotes :
                            FindQuote(stock, when) = KnownOn(market.quotes[stock], when)
    BY DEF RatesLookBack
  <2>1. ASSUME NEW pair \in DOMAIN market.rates
        PROVE  FindRate(pair[1], pair[2], when) = KnownOn(market.rates[pair], when)
    <3>1. pair = <<pair[1], pair[2]>>
      BY SnapshotsAssumption DEF TypeOK, market
    <3>2. FindRate(pair[1], pair[2], when) = ValueAt(market.rates[pair], when)
      BY <3>1, Zenon DEF FindRate
    <3>3. market.rates[pair] \in Range(market.rates) \cup Range(market.quotes)
      BY DEF Range
    <3> QED BY <1>1, <3>2, <3>3
  <2>2. ASSUME NEW stock \in DOMAIN market.quotes
        PROVE  FindQuote(stock, when) = KnownOn(market.quotes[stock], when)
    <3>1. market.quotes[stock] \in Range(market.rates) \cup Range(market.quotes)
      BY DEF Range
    <3> QED BY <1>1, <3>1 DEF FindQuote
  <2> QED BY <2>1, <2>2
<1> QED BY <1>2, PagesTypeCorrect, PTL

------------------------------------------------------------------------------
\* Amounts in the display currency are integers, or None.

LEMMA SequenceOf ==
  ASSUME NEW n \in Nat, NEW S, NEW s \in [1 .. n -> S]
  PROVE  s \in Seq(S) /\ Len(s) = n
OBVIOUS

LEMMA ValueIsInt ==
  ASSUME NEW series, IsSeries(series), Backfills(series), loaded \in Int, NEW when \in Int
  PROVE  ValueAt(series, when) \in Int
<1> DEFINE past == {d \in DOMAIN series : d <= DayOf(when)}
<1>1. IsFiniteSet(DOMAIN series) /\ DOMAIN series \subseteq Int /\ DOMAIN series # {}
  BY DEF IsSeries
<1>2. Min(DOMAIN series) \in DOMAIN series
  BY <1>1, MinIsLeast
<1>3. past # {} => Max(past) \in DOMAIN series
  <2>1. IsFiniteSet(past) /\ past \subseteq Int
    BY <1>1, FS_Subset
  <2>2. past \subseteq DOMAIN series
    OBVIOUS
  <2> HIDE DEF past
  <2> QED BY <2>1, <2>2, MaxIsGreatest
<1>4. KnownOn(series, when) = series[IF past = {} THEN Min(DOMAIN series) ELSE Max(past)]
  BY DEF KnownOn
<1> HIDE DEF past
<1>5. KnownOn(series, when) \in Int
  BY <1>2, <1>3, <1>4 DEF IsSeries
<1> QED BY <1>5, ValueLooksBack

LEMMA RatesAreInts ==
  ASSUME TypeOK, MarketModelBuilds, NEW when \in Int
  PROVE  /\ \A from, to : FindRate(from, to, when) \in Int
         /\ \A stock : FindQuote(stock, when) \in Int
<1>1. ASSUME NEW series \in Range(market.rates) \cup Range(market.quotes)
      PROVE  ValueAt(series, when) \in Int
  <2>1. IsSeries(series)
    BY SnapshotsAssumption DEF TypeOK, market
  <2>2. Backfills(series)
    BY DEF MarketModelBuilds
  <2>3. loaded \in Int
    BY AnswersAssumption DEF TypeOK
  <2> QED BY <2>1, <2>2, <2>3, ValueIsInt
<1>2. ASSUME NEW from, NEW to
      PROVE  FindRate(from, to, when) \in Int
  <2>1. CASE <<from, to>> \in DOMAIN market.rates
    <3>1. market.rates[<<from, to>>] \in Range(market.rates) \cup Range(market.quotes)
      BY <2>1 DEF Range
    <3>2. FindRate(from, to, when) = ValueAt(market.rates[<<from, to>>], when)
      BY <2>1 DEF FindRate
    <3> QED BY <1>1, <3>1, <3>2, Zenon
  <2>2. CASE <<from, to>> \notin DOMAIN market.rates
    BY <2>2 DEF FindRate
  <2> QED BY <2>1, <2>2
<1>3. ASSUME NEW stock
      PROVE  FindQuote(stock, when) \in Int
  <2>1. CASE stock \in DOMAIN market.quotes
    <3>1. market.quotes[stock] \in Range(market.rates) \cup Range(market.quotes)
      BY <2>1 DEF Range
    <3>2. FindQuote(stock, when) = ValueAt(market.quotes[stock], when)
      BY <2>1 DEF FindQuote
    <3> QED BY <1>1, <3>1, <3>2, Zenon
  <2>2. CASE stock \notin DOMAIN market.quotes
    BY <2>2 DEF FindQuote
  <2> QED BY <2>1, <2>2
<1> QED BY <1>2, <1>3

LEMMA AtRateIsInt ==
  ASSUME NEW amount \in Int, NEW rate \in Int
  PROVE  AtRate(amount, rate) \in Int \cup {None}
<1> DEFINE product == amount * rate
<1>1. product \in Int /\ -product \in Int
  OBVIOUS
<1>2. NanosMultiplier \in Nat \ {0}
  BY UnitsAssumption
<1> HIDE DEF product
<1>3. (-product) \div NanosMultiplier \in Int /\ product \div NanosMultiplier \in Int
  BY <1>1, <1>2, Quotient
<1>4. Truncated(product, NanosMultiplier) \in Int
  BY <1>3 DEF Truncated
<1> QED BY <1>4 DEF AtRate, product

LEMMA ExchangeIsInt ==
  ASSUME TypeOK, MarketModelBuilds, NEW amount \in Int, NEW unit, NEW to, NEW when \in Int
  PROVE  Exchange(amount, unit, to, when) \in Int \cup {None}
<1>1. ASSUME NEW value \in Int \cup {None}, NEW from
      PROVE  ExchangeCurrency(value, from, to, when) \in Int \cup {None}
  <2>1. CASE value = None
    BY <2>1 DEF ExchangeCurrency
  <2>2. CASE value # None
    <3>1. FindRate(from, to, when) \in Int
      BY RatesAreInts
    <3>2. AtRate(value, FindRate(from, to, when)) \in Int \cup {None}
      BY <2>2, <3>1, AtRateIsInt
    <3>3. \/ ExchangeCurrency(value, from, to, when) = value
          \/ ExchangeCurrency(value, from, to, when) = 0
          \/ ExchangeCurrency(value, from, to, when)
               = AtRate(value, FindRate(from, to, when))
      BY <2>2 DEF ExchangeCurrency
    <3> QED BY <3>2, <3>3
  <2> QED BY <2>1, <2>2
<1>2. StockValue(amount, unit, when) \in Int \cup {None}
  <2>1. FindQuote(unit, when) \in Int
    BY RatesAreInts
  <2> QED BY <2>1, AtRateIsInt DEF StockValue
<1>3. ExchangeStock(amount, unit, to, when) \in Int \cup {None}
  BY <1>1, <1>2 DEF ExchangeStock
<1> QED BY <1>1, <1>3 DEF Exchange

LEMMA AmountsOfTransaction ==
  ASSUME TypeOK, MarketModelBuilds, NEW t \in transactions
  PROVE  /\ t.time \in Int /\ OwnShare(t) \in Int
         /\ SortingAmount(t) \in Int \cup {None}
         /\ AmountAllParties(t) \in Int \cup {None}
         /\ AmountOwnShare(t) \in Int \cup {None}
<1>1. WellFormed(t)
  BY TimesOf DEF TypeOK
<1>2. t.time \in Int /\ t.amount \in Int
  BY <1>1 DEF WellFormed
<1>3. OwnShare(t) \in Int
  <2> DEFINE shares == [i \in DOMAIN t.companions |-> t.companions[i].amount]
  <2>1. IsFiniteSet(DOMAIN shares) /\ \A i \in DOMAIN shares : shares[i] \in Int
    BY <1>1 DEF WellFormed
  <2>2. OwnShare(t) = t.amount - SumFunctionOnSet(shares, DOMAIN shares)
    BY DEF OwnShare, SumFunction
  <2> HIDE DEF shares
  <2>3. SumFunctionOnSet(shares, DOMAIN shares) \in Int
    BY <2>1, SumIsInt
  <2> QED BY <1>2, <2>2, <2>3
<1>4. \A unit : /\ Exchange(t.amount, unit, DisplayCurrency, t.time) \in Int \cup {None}
                /\ Exchange(OwnShare(t), unit, DisplayCurrency, t.time) \in Int \cup {None}
  BY <1>2, <1>3, ExchangeIsInt
<1> QED BY <1>2, <1>3, <1>4 DEF SortingAmount, AmountAllParties, AmountOwnShare

LEMMA ExchangedAmounts ==
  ASSUME TypeOK, MarketModelBuilds, NEW t \in transactions
  PROVE  /\ ExchangedTransaction(t).t = t
         /\ ExchangedTransaction(t).own \in Int \cup {None}
         /\ ExchangedTransaction(t).all \in Int \cup {None}
BY AmountsOfTransaction DEF ExchangedTransaction

\* A sorted list shows each of its entries once.
LEMMA SortedShowsEach ==
  ASSUME NEW S, IsFiniteSet(S), NEW key \in [S -> Int]
  PROVE  Range(SortedByKey(key)) = S /\ Len(SortedByKey(key)) = Cardinality(S)
<1> DEFINE s == SortedByKey(key)
           n == Cardinality(S)
<1>1. n \in Nat
  BY FS_CardinalityType
<1>2. s \in [1 .. n -> S] /\ \A x \in S : \E i \in 1 .. n : s[i] = x
  BY SortedFacts
<1> HIDE DEF s, n
<1>3. Len(s) = n
  BY <1>1, <1>2, SequenceOf
<1>4. Range(s) = S
  BY <1>2 DEF Range
<1> QED BY <1>3, <1>4 DEF s, n

LEMMA ListShowsEach ==
  ASSUME TypeOK, MarketModelBuilds, NEW ts \in SUBSET transactions
  PROVE  LET rows == SortedTransactions(ts, sorting)
         IN  /\ Range(rows) \cup FailedToSort(ts, sorting) = ts
             /\ Len(rows) = Cardinality(Range(rows))
<1> DEFINE known == {t \in ts : SortingAmount(t) # None}
           rows == SortedTransactions(ts, sorting)
<1>1. IsFiniteSet(ts) /\ IsFiniteSet(known)
  <2>1. IsFiniteSet(ts)
    BY TimesOf, FS_Subset DEF TypeOK
  <2> QED BY <2>1, FS_Subset
<1>2. \A t \in ts : t.time \in Int /\ -t.time \in Int
  BY AmountsOfTransaction
<1>3. \A t \in known : SortingAmount(t) \in Int /\ -SortingAmount(t) \in Int
  BY AmountsOfTransaction
<1>4. CASE sorting \in {"DATE_ASC", "DATE_DESC"}
  <2>1. PICK key \in [ts -> Int] : rows = SortedByKey(key)
    <3>1. sorting = "DATE_ASC" => rows = SortedByKey([t \in ts |-> t.time])
      BY DEF SortedTransactions
    <3>2. sorting = "DATE_DESC" => rows = SortedByKey([t \in ts |-> -t.time])
      BY DEF SortedTransactions
    <3>3. [t \in ts |-> t.time] \in [ts -> Int] /\ [t \in ts |-> -t.time] \in [ts -> Int]
      BY <1>2
    <3> HIDE DEF rows
    <3> QED BY <1>4, <3>1, <3>2, <3>3
  <2>2. FailedToSort(ts, sorting) = {}
    BY <1>4 DEF FailedToSort
  <2> HIDE DEF rows
  <2>3. Range(rows) = ts /\ Len(rows) = Cardinality(ts)
    BY <1>1, <2>1, SortedShowsEach
  <2> QED BY <2>2, <2>3 DEF rows
<1>5. CASE sorting \in {"AMOUNT_ASC", "AMOUNT_DESC"}
  <2>1. PICK key \in [known -> Int] : rows = SortedByKey(key)
    <3>1. sorting = "AMOUNT_ASC" => rows = SortedByKey([t \in known |-> SortingAmount(t)])
      BY DEF SortedTransactions
    <3>2. sorting = "AMOUNT_DESC" => rows = SortedByKey([t \in known |-> -SortingAmount(t)])
      BY DEF SortedTransactions
    <3>3. /\ [t \in known |-> SortingAmount(t)] \in [known -> Int]
          /\ [t \in known |-> -SortingAmount(t)] \in [known -> Int]
      BY <1>3
    <3> HIDE DEF rows, known
    <3> QED BY <1>5, <3>1, <3>2, <3>3
  <2>2. FailedToSort(ts, sorting) = ts \ known
    BY <1>5 DEF FailedToSort
  <2>3. known \subseteq ts
    OBVIOUS
  <2> HIDE DEF rows, known
  <2>4. Range(rows) = known /\ Len(rows) = Cardinality(known)
    BY <1>1, <2>1, SortedShowsEach
  <2> QED BY <2>2, <2>3, <2>4 DEF rows
<1> QED BY <1>4, <1>5 DEF TypeOK

LEMMA WhatIsExchanged ==
  ASSUME NEW ts, NEW interval,
         \A t \in ts : ExchangedTransaction(t).t = t
  PROVE  LET input == ExchangedIntervalTransactions(ts, interval)
         IN  /\ input.xs = {x \in {ExchangedTransaction(t) : t \in ts} : ~FailsToExchange(x)}
             /\ \A x \in input.xs : x.t \in ts /\ x = ExchangedTransaction(x.t)
             /\ \A t \in ts :
                   /\ t \in input.failed <=> FailsToExchange(ExchangedTransaction(t))
                   /\ t \in input.failed <=> ExchangedTransaction(t) \notin input.xs
             /\ input.failed \subseteq ts
             /\ input.interval = interval
<1> DEFINE all == {ExchangedTransaction(t) : t \in ts}
           input == ExchangedIntervalTransactions(ts, interval)
<1>1. input = [xs       |-> {x \in all : ~FailsToExchange(x)},
               failed   |-> {x.t : x \in {y \in all : FailsToExchange(y)}},
               interval |-> interval]
  BY DEF ExchangedIntervalTransactions, Separated
<1>2. \A x \in all : x.t \in ts /\ x = ExchangedTransaction(x.t)
  OBVIOUS
<1>3. \A t \in ts : ExchangedTransaction(t) \in all
  OBVIOUS
<1> HIDE DEF all, input
<1>4. input.xs = {x \in all : ~FailsToExchange(x)}
  BY <1>1
<1>5. \A t : t \in input.failed <=> \E x \in all : FailsToExchange(x) /\ x.t = t
  BY <1>1
<1>6. ASSUME NEW t \in ts
      PROVE  /\ t \in input.failed <=> FailsToExchange(ExchangedTransaction(t))
             /\ t \in input.failed <=> ExchangedTransaction(t) \notin input.xs
  <2>1. t \in input.failed <=> FailsToExchange(ExchangedTransaction(t))
    BY <1>2, <1>3, <1>5
  <2> QED BY <1>3, <1>4, <2>1
<1>7. input.failed \subseteq ts
  BY <1>2, <1>5
<1>8. input.interval = interval
  BY <1>1
<1> QED BY <1>2, <1>4, <1>6, <1>7, <1>8 DEF input, all

(* No expense and no income is dropped silently, whatever the categories,  *)
(* the rates and the choices: each is charted, or named as not converted,  *)
(* or lies in a category the user excluded, itself or by one above it; and *)
(* a list shows each of its entries once, in whatever order                *)
(* (filterExcludedTransactions, useExchangedTransactions, SortableList).   *)
THEOREM NoExpenseIsDropped == Spec => []NothingDropped
<1>1. TypeOK => NothingDropped
  <2> SUFFICES ASSUME TypeOK, MarketModelBuilds, page.kind \in StatsPages
               PROVE  NothingDropped
    BY DEF NothingDropped
  <2> DEFINE input == StatsInput(page.kind)
             used == FilterExcluded(excluded)
             kept == {x.t : x \in ExpensesAllTime(input) \cup IncomeAllTime(input)}
             listed == {x.t : x \in Expenses(input)}
             wanted == {t \in transactions : ~IsExcluded(t) /\ (IsExpense(t) \/ IsIncome(t))}
  <2>1. \A t \in used : t \in transactions /\ ~IsOpeningBalance(t)
    BY DEF FilterExcluded
  <2>2. \A t \in transactions : t \in used <=> ~IsOpeningBalance(t) /\ ~IsExcluded(t)
    <3> SUFFICES ASSUME NEW t \in transactions, ~IsOpeningBalance(t)
                 PROVE  t \in used <=> ~IsExcluded(t)
      BY <2>1
    <3>1. t.category \in DOMAIN Core.categories
      BY TimesOf DEF TypeOK, WellFormed
    <3>2. \A c : t.category \in GetDescendants(c) <=> c \in Range(GetAncestors(t.category))
      BY <3>1 DEF GetDescendants
    <3>3. t \in used <=> ~(t.category \in excluded
                             \/ \E c \in excluded : t.category \in GetDescendants(c))
      BY DEF FilterExcluded
    <3> HIDE DEF used
    <3> QED BY <3>2, <3>3 DEF IsExcluded
  <2>3. \A t \in transactions : ExchangedTransaction(t).t = t
    BY ExchangedAmounts
  <2>4. /\ \A x \in input.xs : x.t \in used /\ x = ExchangedTransaction(x.t)
        /\ \A t \in used :
              /\ t \in input.failed <=> FailsToExchange(ExchangedTransaction(t))
              /\ t \in input.failed <=> ExchangedTransaction(t) \notin input.xs
        /\ input.failed \subseteq used
    <3>1. input = ExchangedIntervalTransactions(used, duration)
      BY DEF StatsInput, StatsPageProps
    <3>2. \A t \in used : ExchangedTransaction(t).t = t
      BY <2>1, <2>3
    <3> HIDE DEF input, used
    <3> QED BY <3>1, <3>2, WhatIsExchanged
  <2> HIDE DEF input, used
  <2>5. kept \cap input.failed = {} /\ kept \subseteq used
    BY <2>4 DEF ExpensesAllTime, IncomeAllTime
  <2>6. kept \cup input.failed = wanted
    <3>1. \A t \in used : t \in wanted <=> IsExpense(t) \/ IsIncome(t)
      BY <2>1, <2>2
    <3>2. wanted \subseteq used
      BY <2>2 DEF IsExpense, IsIncome, IsOpeningBalance, IsPersonalExpense,
                  IsThirdPartyExpense
    <3>3. \A t \in used : t \in kept <=> t \notin input.failed /\ t \in wanted
      <4>1. \A t \in used : t \in kept <=>
              ExchangedTransaction(t) \in input.xs /\ (IsExpense(t) \/ IsIncome(t))
        BY <2>1, <2>3, <2>4 DEF ExpensesAllTime, IncomeAllTime
      <4> QED BY <2>4, <3>1, <4>1
    <3>4. ASSUME NEW t \in input.failed
          PROVE  t \in wanted
      <4>1. t \in used /\ t.kind \in Kinds
        BY <2>1, <2>4, TimesOf DEF TypeOK, WellFormed
      <4>2. ~HasNoShare(t)
        <5>1. FailsToExchange(ExchangedTransaction(t))
          BY <2>4, <4>1
        <5>2. 0 # None
          BY NoneAssumption
        <5>3. HasNoShare(t) =>
                ExchangedTransaction(t).own = 0 /\ ExchangedTransaction(t).all = 0
          BY DEF ExchangedTransaction
        <5> QED BY <5>1, <5>2, <5>3 DEF FailsToExchange
      <4> QED BY <3>1, <4>1, <4>2 DEF HasNoShare, IsTransfer, IsOpeningBalance, Kinds,
                 IsExpense, IsIncome, IsPersonalExpense, IsThirdPartyExpense
    <3> HIDE DEF kept, wanted
    <3> QED BY <2>4, <2>5, <3>2, <3>3, <3>4
  <2>7. listed \subseteq transactions
    BY <2>1, <2>4 DEF Expenses, ExpensesAllTime
  <2>8. LET rows == SortedTransactions(listed, sorting)
        IN  /\ Range(rows) \cup FailedToSort(listed, sorting) = listed
            /\ Len(rows) = Cardinality(Range(rows))
    BY <2>7, ListShowsEach
  <2> QED BY <2>5, <2>6, <2>8 DEF NothingDropped, input
<1> QED BY <1>1, PagesTypeCorrect, PTL

------------------------------------------------------------------------------
\* A sweep over the sorted transactions has at each stop the balances of then.

Due(asOf) == {i \in DOMAIN Replayed : Replayed[i].time <= asOf}

Moved == {t \in transactions : ~IsOpeningBalance(t)}

LEMMA ReplayedInOrder ==
  ASSUME TypeOK
  PROVE  /\ IsFiniteSet(Moved)
         /\ DOMAIN Replayed = 1 .. Cardinality(Moved) /\ Cardinality(Moved) \in Nat
         /\ \A i \in DOMAIN Replayed : Replayed[i] \in Moved
         /\ \A i, j \in DOMAIN Replayed : Replayed[i] = Replayed[j] => i = j
         /\ \A t \in Moved : \E i \in DOMAIN Replayed : Replayed[i] = t
         /\ \A i, j \in DOMAIN Replayed : i < j => Replayed[i].time <= Replayed[j].time
         /\ \A i \in DOMAIN Replayed : Replayed[i].time \in Int
<1> DEFINE key == [t \in Moved |-> t.time]
           n == Cardinality(Moved)
<1>1. IsFiniteSet(Moved) /\ n \in Nat
  BY TimesOf, FS_Subset, FS_CardinalityType DEF TypeOK, Moved
<1>2. key \in [Moved -> Int]
  BY TimesOf DEF TypeOK, Moved, WellFormed
<1>3. Replayed = SortedByKey(key)
  BY DEF Replayed, Moved
<1>4. \A t \in Moved : key[t] = t.time
  OBVIOUS
<1> HIDE DEF key
<1>5. /\ Replayed \in [1 .. n -> Moved]
      /\ \A i, j \in 1 .. n : Replayed[i] = Replayed[j] => i = j
      /\ \A t \in Moved : \E i \in 1 .. n : Replayed[i] = t
      /\ \A i, j \in 1 .. n : i < j => key[Replayed[i]] <= key[Replayed[j]]
  BY <1>1, <1>2, <1>3, SortedFacts
<1> HIDE DEF n
<1>6. DOMAIN Replayed = 1 .. n /\ \A i \in 1 .. n : Replayed[i] \in Moved
  BY <1>5
<1>7. \A i \in 1 .. n : key[Replayed[i]] = Replayed[i].time /\ Replayed[i].time \in Int
  BY <1>2, <1>4, <1>6
<1> QED BY <1>1, <1>5, <1>6, <1>7 DEF n

\* From a stop that is not too far, the cursor gets to the last one that is due.
LEMMA CursorReaches ==
  ASSUME TypeOK, NEW cursor \in Nat, NEW asOf \in Int, 1 .. cursor \subseteq Due(asOf)
  PROVE  /\ Reaches(Replayed, cursor, asOf) \in Nat
         /\ cursor <= Reaches(Replayed, cursor, asOf)
         /\ Due(asOf) = 1 .. Reaches(Replayed, cursor, asOf)
<1> DEFINE D == DOMAIN Replayed
           at(i) == Replayed[i].time
           M == {cursor} \cup {i \in D : i > cursor /\ at(i) <= asOf}
           k == Reaches(Replayed, cursor, asOf)
<1>1. PICK n \in Nat : D = 1 .. n
  BY ReplayedInOrder
<1>2. \A i, j \in D : i < j => at(i) <= at(j)
  BY ReplayedInOrder
<1>3. \A i \in D : at(i) \in Int
  BY ReplayedInOrder
<1>4. k = Max(M)
  BY DEF Reaches
<1>5. \A i \in D : i \in Due(asOf) <=> at(i) <= asOf
  BY DEF Due
<1>6. Due(asOf) \subseteq D
  BY DEF Due
<1> HIDE DEF D, at, k
<1>7. IsFiniteSet(M) /\ M \subseteq Int /\ M # {}
  <2>1. IsFiniteSet(D)
    BY <1>1, FS_Interval
  <2>2. IsFiniteSet({i \in D : i > cursor /\ at(i) <= asOf})
    BY <2>1, FS_Subset
  <2> QED BY <1>1, <2>2, FS_AddElement
<1>8. k \in M /\ \A i \in M : i <= k
  BY <1>4, <1>7, MaxIsGreatest
<1>9. k \in Nat /\ cursor <= k
  BY <1>1, <1>8
<1>10. ASSUME NEW i
       PROVE  i \in Due(asOf) <=> i \in 1 .. k
  <2>1. CASE i \in 1 .. cursor
    BY <1>9, <2>1
  <2>2. CASE i \notin 1 .. cursor
    <3>1. ASSUME i \in Due(asOf)
          PROVE  i \in 1 .. k
      <4>1. i \in D /\ i \in 1 .. n
        BY <1>1, <1>6, <3>1
      <4>2. i > cursor /\ at(i) <= asOf
        BY <1>5, <2>2, <3>1, <4>1
      <4>3. i <= k
        BY <1>8, <4>1, <4>2
      <4> QED BY <1>9, <4>1, <4>3
    <3>2. ASSUME i \in 1 .. k
          PROVE  i \in Due(asOf)
      <4>1. k > cursor /\ i \in Int
        BY <1>9, <2>2, <3>2
      <4>2. k \in D /\ at(k) <= asOf
        BY <1>8, <4>1
      <4>3. i \in D
        BY <1>1, <1>9, <3>2, <4>2
      <4>4. i = k \/ i < k
        BY <1>9, <3>2
      <4>5. i < k => at(i) <= at(k)
        BY <1>2, <4>2, <4>3
      <4>6. at(i) <= asOf
        BY <1>3, <4>2, <4>3, <4>4, <4>5
      <4> QED BY <1>5, <4>3, <4>6
    <3> QED BY <3>1, <3>2
  <2> QED BY <2>1, <2>2
<1>11. Due(asOf) = 1 .. k
  BY <1>10
<1> QED BY <1>9, <1>11 DEF k

LEMMA EffectsAreInts ==
  ASSUME TypeOK, NEW t \in transactions, NEW a
  PROVE  /\ EffectOf(t, a) \in Int
         /\ ~IsOpeningBalance(t) => BalanceEffect(t, a) = EffectOf(t, a)
<1>1. t.kind \in Kinds /\ t.amount \in Int /\ t.received \in Int
  BY TimesOf DEF TypeOK, WellFormed
<1>2. ~IsOpeningBalance(t) => BalanceEffect(t, a) \in Int
  BY <1>1 DEF BalanceEffect, IsOpeningBalance, IsIncome, IsPersonalExpense,
              IsThirdPartyExpense, IsTransfer, Kinds
<1> QED BY <1>1, <1>2 DEF EffectOf

EffectsUpTo(a, k) == [i \in 1 .. k |-> BalanceEffect(Replayed[i], a)]

\* What a sweep has added up when its cursor is at k.
Swept(a, k) == Seeded[a] + SumFunctionOnSet(EffectsUpTo(a, k), 1 .. k)

LEMMA SweptIsBalance ==
  ASSUME TypeOK, NEW a \in DOMAIN Core.accounts, NEW k \in Nat, NEW asOf, Due(asOf) = 1 .. k
  PROVE  /\ Swept(a, k) = BalanceUntil(a, asOf)
         /\ Swept(a, k) \in Int /\ Seeded[a] \in Int
         /\ \A i \in 1 .. k : EffectsUpTo(a, k)[i] \in Int
<1> DEFINE effect == [t \in transactions |-> EffectOf(t, a)]
           opened == {t \in transactions : IsOpeningBalance(t)}
           own == {t \in transactions : IsOpeningBalance(t) /\ t.account = a}
           due == {Replayed[i] : i \in 1 .. k}
           until == {t \in transactions : IsOpeningBalance(t) \/ t.time <= asOf}
           untilEffect == [t \in until |-> EffectOf(t, a)]
           ownAmount == [t \in own |-> t.amount]
           effects == EffectsUpTo(a, k)
           Total(f, S) == SumFunctionOnSet(f, S)
<1>1. IsFiniteSet(opened) /\ IsFiniteSet(own) /\ IsFiniteSet(until) /\ IsFiniteSet(due)
  <2>1. due \subseteq transactions
    BY ReplayedInOrder DEF Due, Moved
  <2>2. IsFiniteSet(transactions)
    BY TimesOf DEF TypeOK
  <2> QED BY <2>1, <2>2, FS_Subset
<1>2. \A t \in transactions : effect[t] \in Int
  BY EffectsAreInts
<1>3. opened \cap due = {} /\ opened \cup due = until /\ own \subseteq opened
  <2>1. \A i \in 1 .. k : Replayed[i] \in Moved /\ Replayed[i].time <= asOf
    BY ReplayedInOrder DEF Due
  <2>2. ASSUME NEW t \in Moved, t.time <= asOf
        PROVE  t \in due
    <3>1. PICK i \in DOMAIN Replayed : Replayed[i] = t
      BY ReplayedInOrder
    <3>2. i \in 1 .. k
      BY <2>2, <3>1 DEF Due
    <3> QED BY <3>1, <3>2
  <2> QED BY <2>1, <2>2 DEF Moved
<1>4. \A t \in until : untilEffect[t] = effect[t]
  OBVIOUS
<1>5. \A t \in own : ownAmount[t] = effect[t]
  BY DEF EffectOf
<1>6. \A t \in opened \ own : effect[t] = 0
  BY DEF EffectOf
<1>7. \A i \in 1 .. k : effects[i] \in Int /\ effect[Replayed[i]] = effects[i]
  <2> SUFFICES ASSUME NEW i \in 1 .. k
               PROVE  effects[i] \in Int /\ effect[Replayed[i]] = effects[i]
    OBVIOUS
  <2>1. Replayed[i] \in transactions /\ ~IsOpeningBalance(Replayed[i])
    BY ReplayedInOrder DEF Due, Moved
  <2>2. effects[i] = BalanceEffect(Replayed[i], a)
    BY DEF EffectsUpTo
  <2> QED BY <2>1, <2>2, EffectsAreInts
<1>8. \A i, j \in 1 .. k : Replayed[i] = Replayed[j] => i = j
  BY ReplayedInOrder DEF Due
<1>9. IsFiniteSet(1 .. k)
  BY FS_Interval
<1>10. BalanceUntil(a, asOf) = Total(untilEffect, until)
  BY DEF BalanceUntil, SumFunction
<1>11. Seeded[a] = Total(ownAmount, own)
  BY DEF Seeded, SumFunction
<1>12. Swept(a, k) = Seeded[a] + Total(effects, 1 .. k)
  BY DEF Swept
<1>13. until \subseteq transactions /\ own \subseteq transactions
         /\ opened \subseteq transactions /\ due \subseteq transactions
  BY <1>3
<1> HIDE DEF effect, opened, own, due, until, untilEffect, ownAmount, effects
<1>14. Total(untilEffect, until) = Total(effect, until)
  <2>1. \A t \in until : effect[t] \in Int /\ untilEffect[t] = effect[t]
    BY <1>2, <1>4, <1>13
  <2> QED BY <1>1, <2>1, SumSame
<1>15. Total(effect, until) = Total(effect, opened) + Total(effect, due)
  <2>1. \A t \in opened \cup due : effect[t] \in Int
    BY <1>2, <1>13
  <2>2. Total(effect, opened \cup due) = Total(effect, opened) + Total(effect, due)
    BY <1>1, <1>3, <2>1, SumOfUnion
  <2> QED BY <1>3, <2>2
<1>16. Total(effect, opened) = Total(effect, own)
  <2>1. \A t \in opened : effect[t] \in Int
    BY <1>2, <1>13
  <2> QED BY <1>1, <1>3, <1>6, <2>1, SumOfRest
<1>17. Total(ownAmount, own) = Total(effect, own)
  <2>1. \A t \in own : effect[t] \in Int /\ ownAmount[t] = effect[t]
    BY <1>2, <1>5, <1>13
  <2> QED BY <1>1, <2>1, SumSame
<1>18. Total(effect, due) = Total(effects, 1 .. k)
  <2> DEFINE D == 1 .. k
  <2>1. \A i \in D : effects[i] \in Int /\ effect[Replayed[i]] = effects[i]
                        /\ Replayed[i] \in due
    BY <1>7 DEF due
  <2>2. IsFiniteSet(D) /\ \A i, j \in D : Replayed[i] = Replayed[j] => i = j
    BY <1>8, <1>9
  <2>3. \A t \in due : \E i \in D : Replayed[i] = t
    BY DEF due
  <2> HIDE DEF D
  <2>4. Total(effect, due) = Total(effects, D)
    BY <2>1, <2>2, <2>3, SumOver
  <2> QED BY <2>4 DEF D
<1>19. Total(effect, own) \in Int
  <2>1. \A t \in own : effect[t] \in Int
    BY <1>2, <1>13
  <2> QED BY <1>1, <2>1, SumIsInt
<1>20. Total(effects, 1 .. k) \in Int
  BY <1>7, <1>9, SumIsInt
<1> HIDE DEF Total
<1>21. Swept(a, k) = BalanceUntil(a, asOf)
  BY <1>10, <1>11, <1>12, <1>14, <1>15, <1>16, <1>17, <1>18
<1>22. Swept(a, k) \in Int /\ Seeded[a] \in Int
  BY <1>11, <1>12, <1>17, <1>19, <1>20
<1> QED BY <1>7, <1>21, <1>22 DEF effects

\* A sweep that is somewhere: its cursor, and what it has added up until there.
IsSweptTo(sweep, asOf) ==
    /\ sweep.cursor \in Nat
    /\ 1 .. sweep.cursor \subseteq Due(asOf)
    /\ DOMAIN sweep.balances = DOMAIN Core.accounts
    /\ \A a \in DOMAIN Core.accounts : sweep.balances[a] = Swept(a, sweep.cursor)

LEMMA SweepAdvances ==
  ASSUME TypeOK, NEW asOf \in Int, NEW sweep, IsSweptTo(sweep, asOf)
  PROVE  /\ IsSweptTo(AdvanceTo(Replayed, sweep, asOf), asOf)
         /\ AdvanceTo(Replayed, sweep, asOf).balances = BalancesUntil(asOf)
         /\ \A a \in DOMAIN Core.accounts : BalancesUntil(asOf)[a] \in Int
<1> DEFINE c == sweep.cursor
           k == Reaches(Replayed, c, asOf)
           next == AdvanceTo(Replayed, sweep, asOf)
<1>1. c \in Nat /\ 1 .. c \subseteq Due(asOf)
  BY DEF IsSweptTo
<1>2. k \in Nat /\ c <= k /\ Due(asOf) = 1 .. k
  BY <1>1, CursorReaches
<1>3. /\ next.cursor = k
      /\ DOMAIN next.balances = DOMAIN Core.accounts
      /\ \A a \in DOMAIN Core.accounts :
            next.balances[a] = sweep.balances[a]
               + SumFunction([i \in c + 1 .. k |-> BalanceEffect(Replayed[i], a)])
  BY DEF AdvanceTo, IsSweptTo
<1> HIDE DEF next, k
<1>4. ASSUME NEW a \in DOMAIN Core.accounts
      PROVE  /\ next.balances[a] = Swept(a, k)
             /\ next.balances[a] = BalanceUntil(a, asOf)
             /\ BalanceUntil(a, asOf) \in Int
  <2> DEFINE f == EffectsUpTo(a, c)
             g == EffectsUpTo(a, k)
             h == [i \in c + 1 .. k |-> BalanceEffect(Replayed[i], a)]
             Total(e, S) == SumFunctionOnSet(e, S)
  <2>1. /\ Swept(a, k) = BalanceUntil(a, asOf)
        /\ Swept(a, k) \in Int /\ Seeded[a] \in Int /\ \A i \in 1 .. k : g[i] \in Int
    BY <1>2, SweptIsBalance
  <2>2. next.balances[a] = Seeded[a] + Total(f, 1 .. c) + Total(h, c + 1 .. k)
    BY <1>3 DEF IsSweptTo, Swept, SumFunction
  <2>3. Swept(a, k) = Seeded[a] + Total(g, 1 .. k)
    BY DEF Swept
  <2>4. \A i \in 1 .. c : i \in 1 .. k /\ f[i] = g[i]
    BY <1>1, <1>2 DEF EffectsUpTo
  <2>5. \A i \in c + 1 .. k : i \in 1 .. k /\ h[i] = g[i]
    BY <1>1, <1>2 DEF EffectsUpTo
  <2>6. (1 .. c) \cap (c + 1 .. k) = {} /\ (1 .. c) \cup (c + 1 .. k) = 1 .. k
    BY <1>1, <1>2
  <2>7. IsFiniteSet(1 .. c) /\ IsFiniteSet(c + 1 .. k) /\ IsFiniteSet(1 .. k)
    <3>1. c \in Int /\ c + 1 \in Int /\ k \in Int /\ 1 \in Int
      BY <1>1, <1>2
    <3> QED BY <3>1, FS_Interval
  <2> HIDE DEF f, g, h
  <2>8. Total(f, 1 .. c) = Total(g, 1 .. c)
    BY <2>1, <2>4, <2>7, SumSame
  <2>9. Total(h, c + 1 .. k) = Total(g, c + 1 .. k)
    BY <2>1, <2>5, <2>7, SumSame
  <2>10. Total(g, 1 .. k) = Total(g, 1 .. c) + Total(g, c + 1 .. k)
    <3>1. \A i \in (1 .. c) \cup (c + 1 .. k) : g[i] \in Int
      BY <2>1, <2>6
    <3>2. Total(g, (1 .. c) \cup (c + 1 .. k)) = Total(g, 1 .. c) + Total(g, c + 1 .. k)
      BY <2>6, <2>7, <3>1, SumOfUnion
    <3> QED BY <2>6, <3>2
  <2>11. Total(g, 1 .. c) \in Int /\ Total(g, c + 1 .. k) \in Int
    BY <2>1, <2>4, <2>5, <2>7, SumIsInt
  <2> HIDE DEF Total
  <2>12. next.balances[a] = Swept(a, k)
    BY <2>1, <2>2, <2>3, <2>8, <2>9, <2>10, <2>11
  <2> QED BY <2>1, <2>12
<1>5. next.balances = BalancesUntil(asOf)
  <2>1. DOMAIN BalancesUntil(asOf) = DOMAIN Core.accounts
          /\ \A a \in DOMAIN Core.accounts : BalancesUntil(asOf)[a] = BalanceUntil(a, asOf)
    BY DEF BalancesUntil
  <2>2. next.balances = [a \in DOMAIN Core.accounts |-> next.balances[a]]
    BY <1>3 DEF AdvanceTo, IsSweptTo, next
  <2> QED BY <1>4, <2>2 DEF BalancesUntil
<1>6. IsSweptTo(next, asOf)
  BY <1>2, <1>3, <1>4 DEF IsSweptTo
<1>7. \A a \in DOMAIN Core.accounts : BalancesUntil(asOf)[a] \in Int
  BY <1>4 DEF BalancesUntil
<1> QED BY <1>5, <1>6, <1>7 DEF next

LEMMA SweepStarts ==
  ASSUME TypeOK, NEW asOf
  PROVE  IsSweptTo(BalanceSweep, asOf)
<1>1. 1 .. 0 = {}
  OBVIOUS
<1>2. ASSUME NEW a \in DOMAIN Core.accounts
      PROVE  BalanceSweep.balances[a] = Swept(a, 0)
  <2> DEFINE own == {t \in transactions : IsOpeningBalance(t) /\ t.account = a}
             ownAmount == [t \in own |-> t.amount]
  <2>1. IsFiniteSet(own) /\ \A t \in own : ownAmount[t] \in Int
    BY TimesOf, FS_Subset DEF TypeOK, WellFormed
  <2>2. Seeded[a] = SumFunctionOnSet(ownAmount, own)
    BY DEF Seeded, SumFunction
  <2> HIDE DEF own, ownAmount
  <2>3. Seeded[a] \in Int
    BY <2>1, <2>2, SumIsInt
  <2>4. SumFunctionOnSet(EffectsUpTo(a, 0), 1 .. 0) = 0
    BY <1>1, SumOfEmpty
  <2> QED BY <2>3, <2>4 DEF BalanceSweep, Swept
<1>3. DOMAIN BalanceSweep.balances = DOMAIN Core.accounts /\ BalanceSweep.cursor = 0
  BY DEF BalanceSweep, Seeded
<1> QED BY <1>1, <1>2, <1>3 DEF IsSweptTo

\* The balances of a moment are what adding up the transactions until then gives.
LEMMA BalancesOfThen ==
  ASSUME TypeOK, NEW asOf \in Int
  PROVE  /\ BalancesAsOf(asOf) = BalancesUntil(asOf)
         /\ \A a \in DOMAIN Core.accounts : BalancesUntil(asOf)[a] \in Int
BY SweepStarts, SweepAdvances DEF BalancesAsOf

------------------------------------------------------------------------------
\* What accounts are worth together.

Worth(balances, asOf) ==
    [a \in DOMAIN Core.accounts |->
        Exchange(balances[a], Core.accounts[a].unit, DisplayCurrency, asOf)]

\* The worth of a set of accounts is None, or the sum of what each of them is worth.
LEMMA SumOfBalancesIs ==
  ASSUME TypeOK, MarketModelBuilds, NEW asOf \in Int, NEW balances,
         \A a \in DOMAIN Core.accounts : balances[a] \in Int,
         NEW accounts \in SUBSET DOMAIN Core.accounts
  PROVE  LET worth == Worth(balances, asOf)
             sum   == SumOfBalances(balances, accounts, asOf)
         IN  /\ sum = None <=> \E a \in accounts : worth[a] = None
             /\ sum # None => /\ sum = SumFunctionOnSet(worth, accounts)
                              /\ \A a \in accounts : worth[a] \in Int
             /\ IsFiniteSet(accounts)
<1> DEFINE worth == Worth(balances, asOf)
           sum == SumOfBalances(balances, accounts, asOf)
           part == [a \in accounts |->
                       Exchange(balances[a], Core.accounts[a].unit, DisplayCurrency, asOf)]
<1>1. \A a \in accounts : part[a] = worth[a]
  BY DEF Worth
<1>2. \A a \in accounts : part[a] \in Int \cup {None}
  <2>1. \A a \in accounts : balances[a] \in Int
    OBVIOUS
  <2> QED BY <2>1, ExchangeIsInt
<1>3. IsFiniteSet(accounts)
  BY CoreAssumption, FS_Subset
<1>4. DOMAIN part = accounts
  OBVIOUS
<1>5. sum = IF None \in Range(part) THEN None ELSE SumFunctionOnSet(part, accounts)
  BY DEF SumOfBalances, SumKnown, SumFunction
<1> HIDE DEF worth, sum, part
<1>6. None \in Range(part) <=> \E a \in accounts : worth[a] = None
  BY <1>1, <1>4 DEF Range
<1>7. CASE None \in Range(part)
  BY <1>3, <1>5, <1>6, <1>7 DEF worth, sum
<1>8. CASE None \notin Range(part)
  <2>1. \A a \in accounts : worth[a] \in Int /\ part[a] = worth[a]
    BY <1>1, <1>2, <1>6, <1>8
  <2>2. SumFunctionOnSet(part, accounts) = SumFunctionOnSet(worth, accounts)
    BY <1>3, <2>1, SumSame
  <2>3. SumFunctionOnSet(worth, accounts) \in Int
    BY <1>3, <2>1, SumIsInt
  <2>4. sum # None
    BY <1>5, <1>8, <2>2, <2>3, NoneAssumption
  <2> QED BY <1>3, <1>5, <1>6, <1>8, <2>1, <2>2, <2>4 DEF worth, sum
<1> QED BY <1>7, <1>8

(* The totals of the banks are the net worth, whatever the banks, their    *)
(* accounts, archived ones included, the transactions and the rates are    *)
(* (BanksListItem, NetWorthHero).                                          *)
THEOREM BankTotalsMakeNetWorth == Spec => []BanksMakeNetWorth
<1>1. TypeOK => BanksMakeNetWorth
  <2> SUFFICES ASSUME TypeOK, MarketModelBuilds, NetWorth # None
               PROVE  SumOf([b \in DOMAIN Core.banks |-> BankTotal(b)]) = NetWorth
    BY DEF BanksMakeNetWorth
  <2> DEFINE accounts == DOMAIN Core.accounts
             banks == DOMAIN Core.banks
             worth == Worth(CurrentBalances, loaded)
             totals == [b \in banks |-> BankTotal(b)]
             bankOf == [a \in accounts |-> Core.accounts[a].bank]
             accountsOf == [b \in banks |-> AccountsForBank(b)]
  <2>1. loaded \in Int
    BY AnswersAssumption DEF TypeOK
  <2>2. \A a \in accounts : CurrentBalances[a] \in Int
    BY <2>1, BalancesOfThen DEF CurrentBalances
  <2>3. /\ NetWorth = SumFunctionOnSet(worth, accounts)
        /\ \A a \in accounts : worth[a] \in Int
    BY <2>1, <2>2, SumOfBalancesIs DEF NetWorth
  <2>4. \A b \in banks : /\ accountsOf[b] \subseteq accounts
                         /\ \A a \in accounts : a \in accountsOf[b] <=> bankOf[a] = b
    BY DEF AccountsForBank
  <2>5. ASSUME NEW b \in banks
        PROVE  totals[b] = SumFunctionOnSet(worth, accountsOf[b])
    <3>1. AccountsForBank(b) \in SUBSET accounts
      BY DEF AccountsForBank
    <3>2. \A a \in AccountsForBank(b) : worth[a] # None
      BY <2>3, <3>1, NoneAssumption
    <3>3. BankTotal(b) = SumFunctionOnSet(worth, AccountsForBank(b))
      BY <2>1, <2>2, <3>1, <3>2, SumOfBalancesIs DEF BankTotal
    <3>4. totals[b] = BankTotal(b) /\ accountsOf[b] = AccountsForBank(b)
      OBVIOUS
    <3> HIDE DEF totals, worth, accountsOf
    <3> QED BY <3>3, <3>4
  <2>6. /\ IsFiniteSet(accounts) /\ IsFiniteSet(banks)
        /\ \A a \in accounts : bankOf[a] \in banks
    BY CoreAssumption
  <2>7. SumOf(totals) = SumFunctionOnSet(totals, banks)
    BY DEF SumOf, SumFunction
  <2> HIDE DEF totals, worth, bankOf, accountsOf, accounts, banks
  <2>8. SumFunctionOnSet(totals, banks) = SumFunctionOnSet(worth, accounts)
    <3>1. Grouped(worth, accounts, bankOf, banks, accountsOf, totals)
      BY <2>3, <2>4, <2>5, <2>6 DEF Grouped
    <3> QED BY <3>1, SumByKey
  <2> QED BY <2>3, <2>7, <2>8 DEF totals, banks
<1> QED BY <1>1, PagesTypeCorrect, PTL

\* The rows of an account's page add up to the balance above them.
LEMMA RowsMakeBalance ==
  ASSUME TypeOK
  PROVE  AccountRowsAddUp
<1> SUFFICES ASSUME page.kind = "account"
             PROVE  AccountRowsAddUp
  BY DEF AccountRowsAddUp
<1> DEFINE a == page.of
           until == {t \in transactions : IsOpeningBalance(t) \/ t.time <= loaded}
           due == {t \in transactions : /\ BelongsToAccount(t, a)
                                        /\ t.time <= loaded \/ IsOpeningBalance(t)}
           effect == [t \in until |-> EffectOf(t, a)]
           row == [t \in due |-> RowAmount(t, a)]
<1>1. a \in DOMAIN Core.accounts
  BY DEF TypeOK, AllPages, Page, StatsPages, DurationPages, PeriodPages
<1>2. loaded \in Int
  BY AnswersAssumption DEF TypeOK
<1>3. CurrentBalances[a] = SumFunctionOnSet(effect, until)
  <2>1. CurrentBalances[a] = BalanceUntil(a, loaded)
    BY <1>1, <1>2, BalancesOfThen DEF CurrentBalances, BalancesUntil
  <2> QED BY <2>1 DEF BalanceUntil, SumFunction
<1>4. IsFiniteSet(until) /\ IsFiniteSet(due) /\ due \in SUBSET until
  BY TimesOf, FS_Subset DEF TypeOK
<1>5. \A t \in until : effect[t] \in Int
  BY EffectsAreInts
<1>6. ASSUME NEW t \in transactions
      PROVE  /\ BelongsToAccount(t, a) => RowAmount(t, a) = EffectOf(t, a)
             /\ ~BelongsToAccount(t, a) => EffectOf(t, a) = 0
  <2>1. /\ t.kind \in Kinds /\ t.amount \in Int /\ t.received \in Int
        /\ IsTransfer(t) => t.to # t.account
    BY TimesOf DEF TypeOK, WellFormed
  <2> HIDE DEF a
  <2> USE DEF BelongsToAccount, BankAccountsOf, RowAmount, EffectOf, BalanceEffect,
              IsExpense, IsPersonalExpense, IsThirdPartyExpense, IsIncome, IsTransfer,
              IsOpeningBalance
  <2>2. CASE t.kind = "PersonalExpense"
    BY <2>2
  <2>3. CASE t.kind = "ThirdPartyExpense"
    BY <2>3
  <2>4. CASE t.kind = "Income"
    BY <2>4
  <2>5. CASE t.kind = "Transfer"
    BY <2>1, <2>5
  <2>6. CASE t.kind = "OpeningBalance"
    BY <2>6
  <2> QED BY <2>1, <2>2, <2>3, <2>4, <2>5, <2>6 DEF Kinds
<1>7. \A t \in due : effect[t] \in Int /\ row[t] = effect[t]
  BY <1>5, <1>6
<1>8. \A t \in until \ due : effect[t] = 0
  BY <1>6
<1>9. SumFunction(row) = SumFunctionOnSet(row, due)
  BY DEF SumFunction
<1>10. AccountRowsAddUp <=> SumFunction(row) = CurrentBalances[a]
  BY DEF AccountRowsAddUp
<1> HIDE DEF until, due, effect, row, a
<1>11. SumFunctionOnSet(row, due) = SumFunctionOnSet(effect, due)
  BY <1>4, <1>7, SumSame
<1>12. SumFunctionOnSet(effect, until) = SumFunctionOnSet(effect, due)
  BY <1>4, <1>5, <1>8, SumOfRest
<1> QED BY <1>3, <1>9, <1>10, <1>11, <1>12

\* A rate that turns one amount into something turns every amount into something.
LEMMA RatesAreShared ==
  ASSUME TypeOK, MarketModelBuilds, NEW unit, NEW to, NEW when \in Int,
         NEW x \in Int, NEW y \in Int, Exchange(x, unit, to, when) \notin {None, 0}
  PROVE  Exchange(y, unit, to, when) # None
<1>1. ASSUME NEW rate \in Int, rate # 0, NEW amount \in Int
      PROVE  AtRate(amount, rate) \in Int
  <2>1. AtRate(amount, rate) = Truncated(amount * rate, NanosMultiplier)
    BY <1>1 DEF AtRate
  <2> DEFINE product == amount * rate
  <2>2. product \in Int /\ -product \in Int
    OBVIOUS
  <2>3. NanosMultiplier \in Nat \ {0}
    BY UnitsAssumption
  <2> HIDE DEF product
  <2>4. (-product) \div NanosMultiplier \in Int /\ product \div NanosMultiplier \in Int
    BY <2>2, <2>3, Quotient
  <2>5. Truncated(product, NanosMultiplier) \in Int
    BY <2>4 DEF Truncated
  <2> QED BY <2>1, <2>5 DEF product
<1>2. ASSUME NEW v \in Int \cup {None}, NEW w \in Int, NEW from,
             ExchangeCurrency(v, from, to, when) \notin {None, 0}
      PROVE  ExchangeCurrency(w, from, to, when) # None
  <2>1. v # None /\ w # None /\ 0 # None
    BY <1>2, NoneAssumption DEF ExchangeCurrency
  <2>2. CASE from = to
    BY <2>1, <2>2 DEF ExchangeCurrency
  <2>3. CASE from # to
    <3> DEFINE rate == FindRate(from, to, when)
    <3>1. rate \in Int
      BY RatesAreInts
    <3> HIDE DEF rate
    <3>2. v # 0 /\ ExchangeCurrency(v, from, to, when) = AtRate(v, rate)
      BY <1>2, <2>1, <2>3 DEF ExchangeCurrency, rate
    <3>3. rate # 0
      BY <1>2, <3>2 DEF AtRate
    <3>4. AtRate(w, rate) \in Int
      BY <1>1, <3>1, <3>3
    <3>5. \/ ExchangeCurrency(w, from, to, when) = 0
          \/ ExchangeCurrency(w, from, to, when) = AtRate(w, rate)
      BY <2>1, <2>3 DEF ExchangeCurrency, rate
    <3> QED BY <2>1, <3>4, <3>5, NoneAssumption
  <2> QED BY <2>2, <2>3
<1>3. CASE ~IsStock(unit)
  BY <1>2, <1>3 DEF Exchange
<1>4. CASE IsStock(unit)
  <2> DEFINE quote == FindQuote(unit, when)
             from == StockCurrency[unit]
  <2>1. quote \in Int
    BY RatesAreInts
  <2>2. ExchangeCurrency(StockValue(x, unit, when), from, to, when) \notin {None, 0}
    BY <1>4 DEF Exchange, ExchangeStock
  <2> HIDE DEF quote
  <2>3. StockValue(x, unit, when) \notin {None, 0}
    BY <2>2 DEF ExchangeCurrency
  <2>4. quote # 0 /\ x # 0
    BY <2>3 DEF StockValue, AtRate, quote
  <2>5. StockValue(x, unit, when) \in Int /\ StockValue(y, unit, when) \in Int
    BY <1>1, <2>1, <2>4 DEF StockValue, quote
  <2>6. ExchangeCurrency(StockValue(y, unit, when), from, to, when) # None
    BY <1>2, <2>2, <2>5
  <2> QED BY <1>4, <2>6 DEF Exchange, ExchangeStock
<1> QED BY <1>3, <1>4

\* The list of trips and the page of a trip agree on what it cost.
LEMMA TripCosts ==
  ASSUME TypeOK, MarketModelBuilds
  PROVE  TripCostsAgree
<1> SUFFICES ASSUME NEW trip,
                    \A t \in TransactionsOfTrip(trip) : ~IsIncome(t),
                    TripTotalSpend(trip) # None
             PROVE  TripTotalSpend(trip) = TripTextSummary(trip).gross
  BY DEF TripCostsAgree
<1> DEFINE ts == TransactionsOfTrip(trip)
           input == ExchangedTransactions(ts)
           spent == {x \in input.xs : IsExpense(x.t)}
           cost == [t \in ts |-> SpendOf(t)]
           all == All(spent)
           known == {t \in ts : ExchangedTransaction(t) \in input.xs}
           exchanged == [t \in known |-> ExchangedTransaction(t)]
<1>1. ts \subseteq transactions /\ IsFiniteSet(ts) /\ IsFiniteSet(known)
  <2>1. ts \subseteq transactions
    BY DEF TransactionsOfTrip
  <2> QED BY <2>1, TimesOf, FS_Subset DEF TypeOK
<1>2. \A t \in ts : IsExpense(t) /\ ~HasNoShare(t)
  BY DEF TransactionsOfTrip, OnSomeTrip, IsExpense, IsPersonalExpense, IsThirdPartyExpense,
         HasNoShare, IsTransfer, IsOpeningBalance
<1>3. \A t \in ts : AmountAllParties(t) \in Int /\ cost[t] = AmountAllParties(t)
  <2>1. \A t \in ts : AmountAllParties(t) # None
    BY DEF TripTotalSpend
  <2> QED BY <1>1, <1>2, <2>1, AmountsOfTransaction DEF SpendOf
<1>4. TripTotalSpend(trip) = SumFunctionOnSet(cost, ts)
  BY DEF TripTotalSpend, SumFunction
<1>5. TripTextSummary(trip).gross = SumFunctionOnSet(all, spent)
  BY DEF TripTextSummary, SumFunction, All
<1>6. /\ \A x \in input.xs : x.t \in ts /\ x = ExchangedTransaction(x.t)
      /\ \A t \in ts : /\ t \in input.failed <=> FailsToExchange(ExchangedTransaction(t))
                       /\ t \in input.failed <=> ExchangedTransaction(t) \notin input.xs
  <2>1. input = ExchangedIntervalTransactions(ts, None)
    BY DEF ExchangedTransactions
  <2>2. \A t \in ts : ExchangedTransaction(t).t = t
    BY <1>1, ExchangedAmounts
  <2> HIDE DEF input, ts
  <2> QED BY <2>1, <2>2, WhatIsExchanged
<1>7. \A t \in ts : /\ ExchangedTransaction(t).t = t
                    /\ ExchangedTransaction(t).own = AmountOwnShare(t)
                    /\ ExchangedTransaction(t).all = AmountAllParties(t)
  BY <1>2 DEF ExchangedTransaction
<1>8. ASSUME NEW t \in ts \ known
      PROVE  cost[t] = 0
  <2>1. FailsToExchange(ExchangedTransaction(t))
    BY <1>6, <1>8
  <2>2. AmountOwnShare(t) = None /\ AmountAllParties(t) # None
    BY <1>3, <1>7, <2>1, NoneAssumption DEF FailsToExchange
  <2>3. t \in transactions /\ t.time \in Int /\ t.amount \in Int /\ OwnShare(t) \in Int
    <3>1. t \in transactions
      BY <1>1
    <3>2. WellFormed(t)
      BY <3>1, TimesOf DEF TypeOK
    <3> QED BY <3>1, <3>2, AmountsOfTransaction DEF WellFormed
  <2>4. AmountAllParties(t) \in {None, 0}
    BY <2>2, <2>3, RatesAreShared DEF AmountAllParties, AmountOwnShare
  <2> QED BY <1>3, <2>2, <2>4
<1>9. \A t \in known : /\ exchanged[t] \in spent
                       /\ all[exchanged[t]] = cost[t]
  BY <1>2, <1>3, <1>7 DEF All
<1>10. \A t, u \in known : exchanged[t] = exchanged[u] => t = u
  <2>1. \A t \in known : t \in ts /\ exchanged[t] = ExchangedTransaction(t)
    OBVIOUS
  <2> HIDE DEF known, exchanged, ts
  <2> QED BY <1>7, <2>1
<1>11. \A x \in spent : \E t \in known : exchanged[t] = x
  <2> SUFFICES ASSUME NEW x \in spent PROVE \E t \in known : exchanged[t] = x
    OBVIOUS
  <2>1. x \in input.xs /\ x.t \in ts /\ x = ExchangedTransaction(x.t)
    BY <1>6
  <2>2. x.t \in known
    BY <2>1
  <2>3. exchanged[x.t] = x
    BY <2>1, <2>2
  <2> QED BY <2>2, <2>3
<1>12. known \in SUBSET ts
  OBVIOUS
<1> HIDE DEF ts, spent, cost, all, known, exchanged
<1>13. SumFunctionOnSet(cost, ts) = SumFunctionOnSet(cost, known)
  BY <1>1, <1>3, <1>8, <1>12, SumOfRest
<1>14. SumFunctionOnSet(all, spent) = SumFunctionOnSet(cost, known)
  <2>1. \A t \in known : cost[t] \in Int
    BY <1>3, <1>12
  <2> QED BY <1>1, <1>9, <1>10, <1>11, <2>1, SumOver
<1> QED BY <1>4, <1>5, <1>13, <1>14

(* What two places show of one thing agrees, for any accounts, transfers   *)
(* and rates: the rows that are due on an account's page add up to its     *)
(* balance, and what the list of trips says a trip cost is what the page   *)
(* of the trip says (TransactionsList, BalanceCard, TripsList).            *)
THEOREM PlacesShowTheSame == Spec => []PlacesAgree
<1>1. TypeOK => PlacesAgree
  BY RowsMakeBalance, TripCosts DEF PlacesAgree
<1> QED BY <1>1, PagesTypeCorrect, PTL

------------------------------------------------------------------------------
\* The line of net worth: the points a single sweep passes.

LEMMA QuotientIs ==
  ASSUME NEW d \in Nat \ {0}, NEW a \in Int, NEW q \in Int, q * d <= a, a < (q + 1) * d
  PROVE  a \div d = q
<1> DEFINE p == a \div d
<1>1. p * d <= a /\ a < (p + 1) * d /\ p \in Int
  BY Quotient
<1> HIDE DEF p
<1>2. /\ p * d \in Int /\ (p + 1) * d \in Int /\ q * d \in Int /\ (q + 1) * d \in Int
      /\ d \in Int
  BY <1>1
<1>3. ~(p < q)
  <2> SUFFICES ASSUME p < q PROVE FALSE
    OBVIOUS
  <2>1. CASE p + 1 = q
    BY <1>1, <1>2, <2>1
  <2>2. CASE p + 1 < q
    <3>1. (p + 1) * d < q * d
      BY <1>1, <2>2, TimesGrows
    <3> QED BY <1>1, <1>2, <3>1
  <2> QED BY <1>1, <2>1, <2>2
<1>4. ~(q < p)
  <2> SUFFICES ASSUME q < p PROVE FALSE
    OBVIOUS
  <2>1. CASE q + 1 = p
    BY <1>1, <1>2, <2>1
  <2>2. CASE q + 1 < p
    <3>1. (q + 1) * d < p * d
      BY <1>1, <2>2, TimesGrows
    <3> QED BY <1>1, <1>2, <3>1
  <2> QED BY <1>1, <2>1, <2>2
<1> QED BY <1>1, <1>3, <1>4 DEF p

LEMMA QuotientGrows ==
  ASSUME NEW d \in Nat \ {0}, NEW a \in Int, NEW b \in Int, a <= b
  PROVE  a \div d <= b \div d
<1> DEFINE p == a \div d
           q == b \div d
<1>1. p * d <= a /\ p \in Int /\ b < (q + 1) * d /\ q \in Int
  BY Quotient
<1> HIDE DEF p, q
<1>2. p * d \in Int /\ (q + 1) * d \in Int
  BY <1>1
<1>3. p * d < (q + 1) * d
  BY <1>1, <1>2
<1>4. p < q + 1
  <2> SUFFICES ASSUME ~(p < q + 1) PROVE FALSE
    OBVIOUS
  <2>1. CASE p = q + 1
    BY <1>2, <1>3, <2>1
  <2>2. CASE q + 1 < p
    <3>1. (q + 1) * d < p * d
      BY <1>1, <2>2, TimesGrows
    <3> QED BY <1>2, <1>3, <3>1
  <2> QED BY <1>1, <2>1, <2>2
<1> QED BY <1>1, <1>4 DEF p, q

\* The samples go from the start to the end and never back.
LEMMA SamplesGrow ==
  ASSUME NEW start \in Int, NEW end \in Int, start <= end, NEW count \in Nat
  PROVE  LET samples == EvenlySpaced(start, end, count)
         IN  \E n \in Nat \ {0} :
               /\ samples \in [1 .. n -> Int]
               /\ \A i, j \in 1 .. n : i <= j => samples[i] <= samples[j]
               /\ samples[n] = end
<1> DEFINE samples == EvenlySpaced(start, end, count)
<1>1. CASE count <= 1 \/ start = end
  <2>1. samples = <<end>>
    BY <1>1 DEF EvenlySpaced
  <2>2. samples \in [1 .. 1 -> Int] /\ samples[1] = end
    BY <2>1
  <2> HIDE DEF samples
  <2>3. \A i, j \in 1 .. 1 : i <= j => samples[i] <= samples[j]
    BY <2>2
  <2> QED BY <2>2, <2>3 DEF samples
<1>2. CASE ~(count <= 1 \/ start = end)
  <2> DEFINE w == end - start
             m == count - 1
             num(i) == 2 * (end - start) * (i - 1) + count - 1
             d == 2 * (count - 1)
  <2>1. samples = [i \in 1 .. count |-> start + num(i) \div d]
    BY <1>2 DEF EvenlySpaced
  <2>2. w \in Nat \ {0} /\ m \in Nat \ {0} /\ d \in Nat \ {0} /\ count \in Nat \ {0}
    BY <1>2
  <2>3. \A i \in 1 .. count : num(i) \in Int
    OBVIOUS
  <2>4. ASSUME NEW i \in 1 .. count, NEW j \in 1 .. count, i <= j
        PROVE  num(i) <= num(j)
    <3>1. 2 * w \in Nat \ {0} /\ i - 1 \in Int /\ j - 1 \in Int
      BY <2>2
    <3>2. (i - 1) * (2 * w) <= (j - 1) * (2 * w)
      <4>1. CASE i = j
        BY <3>1, <4>1
      <4>2. CASE i < j
        <5>1. i - 1 < j - 1
          BY <4>2
        <5> HIDE DEF w
        <5>2. (i - 1) * (2 * w) < (j - 1) * (2 * w)
              /\ (i - 1) * (2 * w) \in Int /\ (j - 1) * (2 * w) \in Int
          BY <3>1, <5>1, TimesGrows
        <5> QED BY <5>2
      <4> QED BY <2>4, <4>1, <4>2
    <3> QED BY <3>1, <3>2
  <2>5. num(count) \div d = w
    <3>1. num(count) = w * d + m /\ d = 2 * m
      OBVIOUS
    <3>2. w * d <= num(count) /\ num(count) < (w + 1) * d
      BY <2>2, <3>1
    <3>3. num(count) \in Int /\ w \in Int
      OBVIOUS
    <3> HIDE DEF num, w, d, m
    <3> QED BY <2>2, <3>2, <3>3, QuotientIs
  <2> HIDE DEF num, d, samples
  <2>6. \A i \in 1 .. count : num(i) \div d \in Int
    BY <2>2, <2>3, Quotient
  <2>7. samples \in [1 .. count -> Int]
    BY <2>1, <2>6
  <2>8. \A i, j \in 1 .. count : i <= j => samples[i] <= samples[j]
    <3> SUFFICES ASSUME NEW i \in 1 .. count, NEW j \in 1 .. count, i <= j
                 PROVE  samples[i] <= samples[j]
      OBVIOUS
    <3>1. num(i) \div d <= num(j) \div d
      BY <2>2, <2>3, <2>4, QuotientGrows
    <3> QED BY <2>1, <2>6, <3>1
  <2>9. samples[count] = end
    <3>1. samples[count] = start + num(count) \div d
      BY <2>1, <2>2
    <3> QED BY <2>5, <3>1
  <2> QED BY <2>2, <2>7, <2>8, <2>9 DEF samples
<1> QED BY <1>1, <1>2

SweepStep(samples, sweeps, i) ==
    IF i = 0 THEN BalanceSweep ELSE AdvanceTo(Replayed, sweeps[i - 1], samples[i])

\* The sweep over samples is what its recursive definition says.
LEMMA SweepsAre ==
  ASSUME NEW samples, Len(samples) \in Nat
  PROVE  \A i \in 0 .. Len(samples) :
            Sweeps(Replayed, samples)[i] = SweepStep(samples, Sweeps(Replayed, samples), i)
<1> DEFINE n == Len(samples)
           Upto(m, g) == \A i \in 0 .. n : i <= m => g[i] = SweepStep(samples, g, i)
           Good == {m \in Nat : \E g : Upto(m, g)}
<1>1. 0 \in Good
  <2> DEFINE g == [i \in 0 .. n |-> BalanceSweep]
  <2>1. \A i \in 0 .. n : i <= 0 => g[i] = SweepStep(samples, g, i)
    BY DEF SweepStep
  <2> QED BY <2>1
<1>2. ASSUME NEW m \in Nat, m \in Good
      PROVE  m + 1 \in Good
  <2>1. PICK g : Upto(m, g)
    BY <1>2
  <2> DEFINE h == [i \in 0 .. n |-> SweepStep(samples, g, i)]
  <2>2. \A i \in 0 .. n : i <= m => h[i] = g[i]
    BY <2>1
  <2>3. ASSUME NEW i \in 0 .. n, i <= m + 1
        PROVE  h[i] = SweepStep(samples, h, i)
    <3>1. CASE i = 0
      BY <3>1 DEF SweepStep
    <3>2. CASE i # 0
      <4>1. i - 1 \in 0 .. n /\ i - 1 <= m
        BY <2>3, <3>2
      <4>2. h[i - 1] = g[i - 1]
        BY <2>2, <4>1
      <4>3. h[i] = AdvanceTo(Replayed, g[i - 1], samples[i])
        BY <3>2 DEF SweepStep
      <4> HIDE DEF h
      <4> QED BY <3>2, <4>2, <4>3 DEF SweepStep
    <3> QED BY <3>1, <3>2
  <2> HIDE DEF h
  <2> QED BY <2>3
<1>3. n \in Good
  <2> HIDE DEF Good, n
  <2>1. n \in Nat
    BY DEF n
  <2> QED BY <1>1, <1>2, <2>1, FromZero
<1>4. PICK g : \A i \in 0 .. n : g[i] = SweepStep(samples, g, i)
  BY <1>3
<1> DEFINE h == [i \in 0 .. n |-> g[i]]
           Body(f) == [i \in 0 .. n |-> IF i = 0 THEN BalanceSweep
                                        ELSE AdvanceTo(Replayed, f[i - 1], samples[i])]
<1>5. h = Body(h)
  <2>1. ASSUME NEW i \in 0 .. n
        PROVE  h[i] = Body(h)[i]
    <3>1. CASE i = 0
      BY <1>4, <3>1 DEF SweepStep
    <3>2. CASE i # 0
      <4>1. i - 1 \in 0 .. n
        BY <3>2
      <4>2. h[i] = g[i] /\ h[i - 1] = g[i - 1]
        BY <4>1
      <4>3. g[i] = AdvanceTo(Replayed, g[i - 1], samples[i])
        BY <1>4, <3>2 DEF SweepStep
      <4>4. Body(h)[i] = AdvanceTo(Replayed, h[i - 1], samples[i])
        BY <3>2
      <4> HIDE DEF h, Body
      <4> QED BY <4>2, <4>3, <4>4
    <3> QED BY <3>1, <3>2
  <2> QED BY <2>1
<1> DEFINE s == Sweeps(Replayed, samples)
<1>6. s = CHOOSE f : f = Body(f)
  BY DEF Sweeps
<1> HIDE DEF Body, h
<1>7. s = Body(s)
  BY <1>5, <1>6
<1> HIDE DEF s
<1>8. ASSUME NEW i \in 0 .. n
      PROVE  s[i] = SweepStep(samples, s, i)
  <2>1. Body(s)[i] = SweepStep(samples, s, i)
    BY DEF Body, SweepStep
  <2> QED BY <1>7, <2>1
<1> QED BY <1>8 DEF s

LEMMA SweepsReplay ==
  ASSUME TypeOK, NEW n \in Nat, NEW samples \in [1 .. n -> Int],
         \A i, j \in 1 .. n : i <= j => samples[i] <= samples[j]
  PROVE  \A i \in 1 .. n :
            /\ Sweeps(Replayed, samples)[i].balances = BalancesUntil(samples[i])
            /\ \A a \in DOMAIN Core.accounts : BalancesUntil(samples[i])[a] \in Int
<1> DEFINE s == Sweeps(Replayed, samples)
           Reached(m) == /\ IsSweptTo(s[m], samples[m])
                         /\ s[m].balances = BalancesUntil(samples[m])
                         /\ \A a \in DOMAIN Core.accounts :
                               BalancesUntil(samples[m])[a] \in Int
           Good == {m \in Nat : m \in 1 .. n => Reached(m)}
<1>1. Len(samples) = n
  BY SequenceOf
<1>2. \A i \in 0 .. n : s[i] = SweepStep(samples, s, i)
  BY <1>1, SweepsAre
<1> HIDE DEF s
<1>3. 0 \in Good
  OBVIOUS
<1>4. ASSUME NEW m \in Nat, m \in Good
      PROVE  m + 1 \in Good
  <2> SUFFICES ASSUME m + 1 \in 1 .. n
               PROVE  Reached(m + 1)
    OBVIOUS
  <2>1. samples[m + 1] \in Int
    OBVIOUS
  <2>2. s[m + 1] = AdvanceTo(Replayed, s[m], samples[m + 1])
    <3>1. m + 1 \in 0 .. n /\ m + 1 # 0 /\ m + 1 - 1 = m
      OBVIOUS
    <3> QED BY <1>2, <3>1 DEF SweepStep
  <2>3. IsSweptTo(s[m], samples[m + 1])
    <3>1. CASE m = 0
      <4>1. s[m] = BalanceSweep
        BY <1>2, <3>1 DEF SweepStep
      <4> QED BY <4>1, SweepStarts
    <3>2. CASE m # 0
      <4>1. m \in 1 .. n /\ samples[m] \in Int /\ samples[m] <= samples[m + 1]
        BY <3>2
      <4>2. IsSweptTo(s[m], samples[m])
        BY <1>4, <4>1
      <4>3. Due(samples[m]) \subseteq Due(samples[m + 1])
        <5>1. \A i \in DOMAIN Replayed : Replayed[i].time \in Int
          BY ReplayedInOrder
        <5> QED BY <2>1, <4>1, <5>1 DEF Due
      <4> QED BY <4>2, <4>3 DEF IsSweptTo
    <3> QED BY <3>1, <3>2
  <2> QED BY <2>1, <2>2, <2>3, SweepAdvances
<1>5. ASSUME NEW i \in 1 .. n
      PROVE  Reached(i)
  <2>1. i \in Nat
    OBVIOUS
  <2>2. i \in Good
    <3> HIDE DEF Good
    <3> QED BY <1>3, <1>4, <2>1, FromZero
  <2> QED BY <2>2
<1> QED BY <1>5 DEF s

\* The points of the line are samples in their order, those that can be converted.
LEMMA PointsOfLine ==
  ASSUME TypeOK, MarketModelBuilds, NEW start \in Int, NEW end \in Int, start <= end
  PROVE  LET line == NetWorthTimeline(start, end)
             Known(when) == SumOfBalances(BalancesUntil(when), DOMAIN Core.accounts, when)
         IN  /\ \A i \in DOMAIN line : line[i].amount = Known(line[i].time)
             /\ Known(end) # None /\ line # <<>> => line[Len(line)].amount = Known(end)
<1> DEFINE Known(when) == SumOfBalances(BalancesUntil(when), DOMAIN Core.accounts, when)
           samples == EvenlySpaced(start, end, SampleCount)
           sweeps == Sweeps(Replayed, samples)
           line == NetWorthTimeline(start, end)
<1>1. \E n \in Nat \ {0} : /\ samples \in [1 .. n -> Int]
                           /\ \A i, j \in 1 .. n : i <= j => samples[i] <= samples[j]
                           /\ samples[n] = end
  <2>1. SampleCount \in Nat
    BY SamplesAssumption
  <2> QED BY <2>1, SamplesGrow, Zenon
<1>a. PICK n \in Nat \ {0} : /\ samples \in [1 .. n -> Int]
                             /\ \A i, j \in 1 .. n : i <= j => samples[i] <= samples[j]
                             /\ samples[n] = end
  <2> HIDE DEF samples
  <2> QED BY <1>1, Zenon
<1>2. \A i \in 1 .. n : sweeps[i].balances = BalancesUntil(samples[i])
  BY <1>a, SweepsReplay
<1> DEFINE amounts == [i \in DOMAIN samples |->
                         SumOfBalances(sweeps[i].balances, DOMAIN Core.accounts, samples[i])]
           kept == {j \in DOMAIN samples : amounts[j] # None}
           key == [i \in kept |-> i]
           order == SortedByKey(key)
           m == Cardinality(kept)
<1>3. line = [p \in DOMAIN order |->
                 [time |-> samples[order[p]], amount |-> amounts[order[p]]]]
  BY DEF NetWorthTimeline, TimelineAt, PointsOf
<1>4. \A i \in 1 .. n : amounts[i] = Known(samples[i])
  BY <1>a, <1>2
<1>5. IsFiniteSet(kept) /\ kept \subseteq 1 .. n
  <2>1. IsFiniteSet(1 .. n)
    BY FS_Interval
  <2>2. kept \subseteq 1 .. n
    BY <1>a
  <2> HIDE DEF kept
  <2> QED BY <2>1, <2>2, FS_Subset
<1>6. key \in [kept -> Int] /\ \A i \in kept : key[i] = i
  BY <1>5
<1>7. n \in kept <=> Known(end) # None
  BY <1>a, <1>4
<1> HIDE DEF sweeps, samples, amounts, kept, key
<1>8. /\ order \in [1 .. m -> kept]
      /\ \A x \in kept : \E p \in 1 .. m : order[p] = x
      /\ \A p, q \in 1 .. m : p < q => key[order[p]] <= key[order[q]]
  <2>1. IsFiniteSet(kept) /\ key \in [kept -> Int]
    BY <1>5, <1>6
  <2> QED BY <2>1, SortedFacts
<1>9. m \in Nat
  BY <1>5, FS_CardinalityType
<1> HIDE DEF order, m, line, Known
<1>a0. DOMAIN order = 1 .. m /\ \A p \in 1 .. m : order[p] \in 1 .. n
  BY <1>5, <1>8
<1>a1. \A p \in DOMAIN line : line[p].amount = Known(line[p].time)
  BY <1>3, <1>4, <1>a0
<1>a2. ASSUME Known(end) # None, line # <<>>
       PROVE  line[Len(line)].amount = Known(end)
  <2>1. Len(line) = m
    <3>1. line \in [1 .. m -> {line[p] : p \in 1 .. m}]
      BY <1>3, <1>a0
    <3> QED BY <1>9, <3>1, SequenceOf
  <2>2. PICK p \in 1 .. m : order[p] = n
    BY <1>7, <1>8, <1>a2
  <2>3. m \in 1 .. m /\ order[m] \in kept /\ order[m] \in 1 .. n
    <3>1. m \in 1 .. m
      BY <1>9, <2>2
    <3>2. order[m] \in kept
      BY <1>8, <3>1
    <3> QED BY <1>5, <3>1, <3>2
  <2>4. order[m] = n
    <3>1. CASE p = m
      BY <2>2, <3>1
    <3>2. CASE p # m
      <4>1. p < m
        BY <1>9, <3>2
      <4>2. key[order[p]] <= key[order[m]]
        BY <1>8, <2>3, <4>1
      <4>3. n <= order[m]
        BY <1>6, <1>7, <1>a2, <2>2, <2>3, <4>2
      <4> QED BY <1>a, <2>3, <4>3
    <3> QED BY <3>1, <3>2
  <2>5. line[m].amount = Known(samples[n])
    BY <1>3, <1>4, <1>a0, <2>3, <2>4
  <2> QED BY <1>a, <2>1, <2>5
<1> QED BY <1>a1, <1>a2 DEF line, Known

LEMMA RangeIsPast ==
  ASSUME TypeOK
  PROVE  RangeStart(range, now) \in Int /\ RangeStart(range, now) <= now
<1>1. now \in Int
  BY AnswersAssumption DEF TypeOK
<1>2. CASE range = "ALL"
  <2> DEFINE moments == {now} \cup Times
  <2>1. RangeStart(range, now) = Min(moments)
    BY <1>2 DEF RangeStart, Times
  <2>2. IsFiniteSet(moments) /\ moments \subseteq Int /\ now \in moments
    <3>1. IsFiniteSet(Times) /\ Times \subseteq Int
      BY TimesOf DEF TypeOK
    <3>2. IsFiniteSet(Times \cup {now})
      BY <3>1, FS_AddElement
    <3>3. moments = Times \cup {now}
      OBVIOUS
    <3> HIDE DEF moments
    <3> QED BY <1>1, <3>1, <3>2, <3>3
  <2> HIDE DEF moments
  <2>3. Min(moments) \in moments /\ Min(moments) <= now
    BY <2>2, MinIsLeast
  <2> QED BY <2>1, <2>2, <2>3
<1>3. CASE range # "ALL"
  <2>1. PeriodLength[range] \in Nat
    BY <1>3, RangesAssumption DEF TypeOK
  <2>2. RangeStart(range, now) = now - PeriodLength[range]
    BY <1>3 DEF RangeStart
  <2> QED BY <1>1, <2>1, <2>2
<1> QED BY <1>2, <1>3

(* The line of net worth, drawn in one sweep over the history, has at each *)
(* of its points what adding up the transactions until then gives, and     *)
(* ends at the amount above it when the data is of now; what a bank has    *)
(* gained is the difference of two such sums: for any history, any range   *)
(* and any number of samples (netWorthTimeline, advanceTo, BanksListItem). *)
THEOREM NetWorthIsReplayed == Spec => []NetWorthReplays
<1>1. TypeOK => NetWorthReplays
  <2> SUFFICES ASSUME TypeOK, MarketModelBuilds
               PROVE  \A line \in {NetWorthHero(range, now)} :
            /\ \A i \in DOMAIN line :
                  line[i].amount = SumOfBalances(BalancesUntil(line[i].time),
                                                 DOMAIN Core.accounts, line[i].time)
            /\ line # <<>> /\ loaded = now => line[Len(line)].amount = NetWorth
            /\ \A b \in DOMAIN Core.banks : BankChange(b, now) # None =>
                  BankChange(b, now) =
                      WorthOf(b, loaded) - WorthOf(b, now - PeriodLength["month"])
    BY DEF NetWorthReplays
  <2> DEFINE line == NetWorthHero(range, now)
             drawn == NetWorthTimeline(RangeStart(range, now), now)
             Known(when) == SumOfBalances(BalancesUntil(when), DOMAIN Core.accounts, when)
  <2>1. now \in Int /\ loaded \in Int
    BY AnswersAssumption DEF TypeOK
  <2>2. /\ \A i \in DOMAIN drawn : drawn[i].amount = Known(drawn[i].time)
        /\ Known(now) # None /\ drawn # <<>> => drawn[Len(drawn)].amount = Known(now)
    BY <2>1, RangeIsPast, PointsOfLine
  <2>3. NetWorth = Known(loaded)
    BY <2>1, BalancesOfThen DEF NetWorth, CurrentBalances
  <2>4. line = IF NetWorth = None THEN <<>> ELSE drawn
    BY DEF NetWorthHero
  <2>5. ASSUME NEW b \in DOMAIN Core.banks, BankChange(b, now) # None
        PROVE  BankChange(b, now) =
                  WorthOf(b, loaded) - WorthOf(b, now - PeriodLength["month"])
    <3> DEFINE since == now - PeriodLength["month"]
    <3>1. since \in Int
      BY <2>1, PeriodsAssumption
    <3>2. SumOfBalances(BalancesAsOf(since), AccountsForBank(b), since) = WorthOf(b, since)
      BY <3>1, BalancesOfThen DEF WorthOf
    <3>3. BankTotal(b) = WorthOf(b, loaded)
      BY <2>1, BalancesOfThen DEF WorthOf, BankTotal, CurrentBalances
    <3>4. BankChange(b, now) = Change(WorthOf(b, since), WorthOf(b, loaded))
      BY <3>2, <3>3 DEF BankChange
    <3> QED BY <2>5, <3>4 DEF Change
  <2> HIDE DEF line, drawn, Known
  <2>6. \A i \in DOMAIN line : line[i].amount = Known(line[i].time)
    <3>1. CASE NetWorth = None
      <4>1. line = <<>> /\ DOMAIN << >> = {}
        BY <2>4, <3>1
      <4> QED BY <4>1
    <3>2. CASE NetWorth # None
      BY <2>2, <2>4, <3>2
    <3> QED BY <3>1, <3>2
  <2>7. line # <<>> /\ loaded = now => line[Len(line)].amount = NetWorth
    BY <2>2, <2>3, <2>4
  <2> QED BY <2>5, <2>6, <2>7 DEF line, Known
<1> QED BY <1>1, PagesTypeCorrect, PTL

------------------------------------------------------------------------------
\* The bars of a chart over an interval add up to what happened within it.

Granularities == {"month", "quarter", "year"}

LEMMA PairEnds ==
  ASSUME NEW a \in Int, NEW b \in Int
  PROVE  /\ Min({a, b}) = IF a <= b THEN a ELSE b
         /\ Max({a, b}) = IF a <= b THEN b ELSE a
<1>1. IsFiniteSet({a, b}) /\ {a, b} \subseteq Int /\ {a, b} # {}
  <2>1. IsFiniteSet({a}) /\ {a, b} = {a} \cup {b}
    BY FS_Singleton
  <2>2. IsFiniteSet({a} \cup {b})
    BY <2>1, FS_AddElement
  <2> QED BY <2>1, <2>2
<1>2. Min({a, b}) \in {a, b} /\ \A y \in {a, b} : Min({a, b}) <= y
  BY <1>1, MinIsLeast
<1>3. Max({a, b}) \in {a, b} /\ \A y \in {a, b} : y <= Max({a, b})
  BY <1>1, MaxIsGreatest
<1> QED BY <1>2, <1>3

LEMMA PeriodsGrow ==
  ASSUME NEW granularity \in Granularities, NEW when \in Int
  PROVE  /\ PeriodOf(when, granularity) \in Int
         /\ \A later \in Int : when <= later =>
               PeriodOf(when, granularity) <= PeriodOf(later, granularity)
<1> DEFINE d == PeriodLength[granularity]
<1>1. d \in Nat \ {0}
  BY PeriodLengths DEF Granularities
<1> HIDE DEF d
<1>2. when \div d \in Int
  BY <1>1, Quotient
<1>3. ASSUME NEW later \in Int, when <= later
      PROVE  when \div d <= later \div d
  BY <1>1, <1>3, QuotientGrows
<1> QED BY <1>2, <1>3 DEF PeriodOf, d

LEMMA SlicesCover ==
  ASSUME NEW interval \in [start : Int, end : Int], NEW granularity \in Granularities
  PROVE  LET slices == SliceInterval(interval, granularity)
         IN  \E n \in Nat \ {0} :
               /\ slices \in [1 .. n -> Int]
               /\ \A i, j \in 1 .. n : slices[i] = slices[j] => i = j
               /\ \A when \in Int : IsWithin(when, interval) =>
                     \E i \in 1 .. n : slices[i] = PeriodOf(when, granularity)
<1> DEFINE start == interval.start
           end == interval.end
           first == PeriodOf(start, granularity)
           last == PeriodOf(end, granularity)
           slices == SliceInterval(interval, granularity)
           period(when) == PeriodOf(when, granularity)
<1>1. start \in Int /\ end \in Int /\ first \in Int /\ last \in Int
  BY PeriodsGrow
<1>2. \A when \in Int : period(when) \in Int
  BY PeriodsGrow
<1>3. slices = IF start <= end
               THEN [i \in 1 .. last - first + 1 |-> first + i - 1]
               ELSE [i \in 1 .. first - last + 1 |-> first - i + 1]
  BY DEF SliceInterval
<1>4. CASE start <= end
  <2>1. first <= last
    BY <1>1, <1>4, PeriodsGrow
  <2>2. ASSUME NEW when \in Int, IsWithin(when, interval)
        PROVE  first <= period(when) /\ period(when) <= last
    <3>1. start <= when /\ when <= end
      BY <1>1, <1>4, <2>2, PairEnds DEF IsWithin
    <3> QED BY <1>1, <3>1, PeriodsGrow
  <2> HIDE DEF first, last, start, end, slices, period
  <2>3. slices = [i \in 1 .. last - first + 1 |-> first + i - 1]
    BY <1>3, <1>4
  <2> DEFINE n == last - first + 1
  <2>4. n \in Nat \ {0}
    BY <1>1, <2>1
  <2>5. slices \in [1 .. n -> Int] /\ \A i, j \in 1 .. n : slices[i] = slices[j] => i = j
    BY <1>1, <2>3
  <2>6. ASSUME NEW when \in Int, IsWithin(when, interval)
        PROVE  \E i \in 1 .. n : slices[i] = period(when)
    <3> DEFINE i == period(when) - first + 1
    <3>1. i \in 1 .. n /\ first + i - 1 = period(when)
      BY <1>1, <1>2, <2>2, <2>6
    <3> QED BY <2>3, <3>1
  <2> QED BY <2>4, <2>5, <2>6 DEF slices, period
<1>5. CASE ~(start <= end)
  <2>1. last <= first
    BY <1>1, <1>5, PeriodsGrow
  <2>2. ASSUME NEW when \in Int, IsWithin(when, interval)
        PROVE  last <= period(when) /\ period(when) <= first
    <3>1. end <= when /\ when <= start
      BY <1>1, <1>5, <2>2, PairEnds DEF IsWithin
    <3> QED BY <1>1, <3>1, PeriodsGrow
  <2> HIDE DEF first, last, start, end, slices, period
  <2>3. slices = [i \in 1 .. first - last + 1 |-> first - i + 1]
    BY <1>3, <1>5
  <2> DEFINE n == first - last + 1
  <2>4. n \in Nat \ {0}
    BY <1>1, <2>1
  <2>5. slices \in [1 .. n -> Int] /\ \A i, j \in 1 .. n : slices[i] = slices[j] => i = j
    BY <1>1, <2>3
  <2>6. ASSUME NEW when \in Int, IsWithin(when, interval)
        PROVE  \E i \in 1 .. n : slices[i] = period(when)
    <3> DEFINE i == first - period(when) + 1
    <3>1. i \in 1 .. n /\ first - i + 1 = period(when)
      BY <1>1, <1>2, <2>2, <2>6
    <3> QED BY <2>3, <3>1
  <2> QED BY <2>4, <2>5, <2>6 DEF slices, period
<1> QED BY <1>4, <1>5

\* What is counted: entries with an integer each, at a moment each.
Counted(values) ==
    /\ IsFiniteSet(DOMAIN values)
    /\ \A x \in DOMAIN values : values[x] \in Int /\ x.t.time \in Int

LEMMA SeriesIs ==
  ASSUME NEW values, Counted(values), NEW granularity \in Granularities,
         NEW p, NEW A, A \subseteq DOMAIN values,
         \A x \in DOMAIN values : x \in A <=> PeriodOf(x.t.time, granularity) = p
  PROVE  /\ ValueIn(Series(values, granularity), p) = SumFunctionOnSet(values, A)
         /\ ValueIn(Series(values, granularity), p) \in Int
<1> DEFINE series == Series(values, granularity)
           In == {x \in DOMAIN values : PeriodOf(x.t.time, granularity) = p}
<1>1. p \in DOMAIN series <=> In # {}
  BY DEF Series
<1>2. p \in DOMAIN series => series[p] = SumFunctionOnSet(values, In)
  BY DEF Series
<1>3. A = In
  OBVIOUS
<1>4. IsFiniteSet(In) /\ \A x \in In : values[x] \in Int
  BY FS_Subset DEF Counted
<1> HIDE DEF In, series
<1>5. SumFunctionOnSet(values, In) \in Int
  BY <1>4, SumIsInt
<1>6. SumFunctionOnSet(values, A) = SumFunctionOnSet(values, In)
  BY <1>3, Zenon
<1>7. CASE p \in DOMAIN series
  BY <1>2, <1>5, <1>6, <1>7 DEF ValueIn, series
<1>8. CASE p \notin DOMAIN series
  <2>1. SumFunctionOnSet(values, In) = 0
    BY <1>1, <1>8, SumOfEmpty
  <2> QED BY <1>6, <1>8, <2>1 DEF ValueIn, series
<1> QED BY <1>7, <1>8

LEMMA BarAddsUp ==
  ASSUME NEW values, Counted(values), NEW granularity \in Granularities,
         NEW interval \in [start : Int, end : Int],
         \A x \in DOMAIN values : IsWithin(x.t.time, interval)
  PROVE  LET bar == Bar(Series(values, granularity), interval, granularity)
         IN  /\ SumOf(bar) = SumFunction(values)
             /\ SumOf(bar) \in Int
             /\ \E n \in Nat \ {0} : bar \in [1 .. n -> Int]
<1> DEFINE series == Series(values, granularity)
           slices == SliceInterval(interval, granularity)
           bar == Bar(series, interval, granularity)
           S == DOMAIN values
           period == [x \in S |-> PeriodOf(x.t.time, granularity)]
<1>1. PICK n \in Nat \ {0} :
        /\ slices \in [1 .. n -> Int]
        /\ \A i, j \in 1 .. n : slices[i] = slices[j] => i = j
        /\ \A when \in Int : IsWithin(when, interval) =>
              \E i \in 1 .. n : slices[i] = PeriodOf(when, granularity)
  BY SlicesCover
<1> DEFINE K == {slices[i] : i \in 1 .. n}
           part == [p \in K |-> ValueIn(series, p)]
<1> DEFINE Of(p) == {x \in S : period[x] = p}
<1>2. ASSUME NEW p
      PROVE  ValueIn(series, p) = SumFunctionOnSet(values, Of(p)) /\ ValueIn(series, p) \in Int
  <2> DEFINE A == Of(p)
  <2>1. A \subseteq DOMAIN values
    OBVIOUS
  <2>2. \A x \in DOMAIN values : x \in A <=> PeriodOf(x.t.time, granularity) = p
    OBVIOUS
  <2> HIDE DEF A
  <2>3. ValueIn(series, p) = SumFunctionOnSet(values, A) /\ ValueIn(series, p) \in Int
    BY <2>1, <2>2, SeriesIs
  <2> QED BY <2>3 DEF A
<1>3. bar = [i \in 1 .. n |-> ValueIn(series, slices[i])]
  BY <1>1 DEF Bar
<1>4. \A x \in S : values[x] \in Int /\ period[x] \in K
  <2> SUFFICES ASSUME NEW x \in S PROVE values[x] \in Int /\ period[x] \in K
    OBVIOUS
  <2>1. values[x] \in Int /\ x.t.time \in Int /\ IsWithin(x.t.time, interval)
    BY DEF Counted
  <2>2. PICK i \in 1 .. n : slices[i] = PeriodOf(x.t.time, granularity)
    BY <1>1, <2>1
  <2> HIDE DEF slices
  <2> QED BY <2>1, <2>2
<1>5. IsFiniteSet(S) /\ IsFiniteSet(1 .. n) /\ IsFiniteSet(K)
  <2>0. 1 \in Int /\ n \in Int
    OBVIOUS
  <2>1. IsFiniteSet(S) /\ IsFiniteSet(1 .. n)
    BY <2>0, FS_Interval DEF Counted
  <2>2. IsFiniteSet(K)
    <3>1. slices \in Surjection(1 .. n, K)
      BY <1>1 DEF Surjection
    <3> QED BY <2>1, <3>1, FS_Surjection, Zenon DEF ExistsSurjection
  <2> QED BY <2>1, <2>2
<1> HIDE DEF series, slices, bar, S, period
<1>6. \A i \in 1 .. n : bar[i] \in Int /\ part[slices[i]] = bar[i] /\ slices[i] \in K
  BY <1>2, <1>3
<1>7. \A p \in K : \E i \in 1 .. n : slices[i] = p
  OBVIOUS
<1> DEFINE parts == [p \in K |-> Of(p)]
<1>8. \A p \in K : /\ part[p] = SumFunctionOnSet(values, parts[p])
                   /\ parts[p] \subseteq S
                   /\ \A x \in S : x \in parts[p] <=> period[x] = p
  <2> SUFFICES ASSUME NEW p \in K
               PROVE  /\ part[p] = SumFunctionOnSet(values, parts[p])
                      /\ parts[p] \subseteq S
                      /\ \A x \in S : x \in parts[p] <=> period[x] = p
    OBVIOUS
  <2>1. parts[p] = Of(p) /\ part[p] = ValueIn(series, p)
    OBVIOUS
  <2> HIDE DEF parts, part
  <2>2. parts[p] \subseteq S /\ \A x \in S : x \in parts[p] <=> period[x] = p
    BY <2>1
  <2> HIDE DEF Of
  <2>3. part[p] = SumFunctionOnSet(values, parts[p])
    BY <1>2, <2>1, Zenon
  <2> QED BY <2>2, <2>3
<1> HIDE DEF K, part, parts
<1>9. SumFunctionOnSet(part, K) = SumFunctionOnSet(bar, 1 .. n)
  <2>1. \A i, j \in 1 .. n : slices[i] = slices[j] => i = j
    BY <1>1
  <2> DEFINE T == 1 .. n
  <2>2. IsFiniteSet(T)
    BY <1>5
  <2>3. \A i \in T : bar[i] \in Int /\ part[slices[i]] = bar[i] /\ slices[i] \in K
    BY <1>6
  <2>4. \A p \in K : \E i \in T : slices[i] = p
    BY <1>7
  <2>5. \A i, j \in T : slices[i] = slices[j] => i = j
    BY <2>1
  <2> HIDE DEF T
  <2>6. SumFunctionOnSet(part, K) = SumFunctionOnSet(bar, T)
    BY <2>2, <2>3, <2>4, <2>5, SumOver
  <2> QED BY <2>6 DEF T
<1>10. SumFunctionOnSet(part, K) = SumFunctionOnSet(values, S)
  <2>1. Grouped(values, S, period, K, parts, part)
    BY <1>4, <1>5, <1>8 DEF Grouped
  <2> QED BY <2>1, SumByKey
<1>11. bar \in [1 .. n -> Int]
  BY <1>3, <1>6
<1>12. SumOf(bar) = SumFunctionOnSet(bar, 1 .. n)
  BY <1>11 DEF SumOf, SumFunction
<1>13. SumFunctionOnSet(bar, 1 .. n) \in Int
  BY <1>5, <1>6, SumIsInt
<1>14. SumFunction(values) = SumFunctionOnSet(values, S)
  BY DEF SumFunction, S
<1> QED BY <1>9, <1>10, <1>11, <1>12, <1>13, <1>14 DEF bar, series

------------------------------------------------------------------------------
\* What a page counts: entries in the display currency, one of a transaction.

IsInput(input) ==
    /\ IsFiniteSet(input.xs)
    /\ \A x \in input.xs : x.own \in Int /\ x.all \in Int /\ WellFormed(x.t)
    /\ \A x, y \in input.xs : x.t = y.t => x = y
    /\ input.interval \in [start : Int, end : Int]

LEMMA InputIs ==
  ASSUME TypeOK, MarketModelBuilds, NEW ts \in SUBSET transactions,
         NEW interval \in [start : Int, end : Int]
  PROVE  LET input == ExchangedIntervalTransactions(ts, interval)
         IN  IsInput(input) /\ input.interval = interval
<1> DEFINE input == ExchangedIntervalTransactions(ts, interval)
           all == {ExchangedTransaction(t) : t \in ts}
           exchanged == [t \in ts |-> ExchangedTransaction(t)]
<1>1. \A t \in ts : /\ ExchangedTransaction(t).t = t /\ WellFormed(t)
                    /\ ExchangedTransaction(t).own \in Int \cup {None}
                    /\ ExchangedTransaction(t).all \in Int \cup {None}
  BY ExchangedAmounts, TimesOf DEF TypeOK
<1>2. /\ input.xs = {x \in all : ~FailsToExchange(x)}
      /\ \A x \in input.xs : x.t \in ts /\ x = ExchangedTransaction(x.t)
      /\ input.interval = interval
  BY <1>1, WhatIsExchanged
<1>3. IsFiniteSet(all)
  <2>1. IsFiniteSet(ts)
    BY TimesOf, FS_Subset DEF TypeOK
  <2>2. exchanged \in Surjection(ts, all)
    BY DEF Surjection
  <2> QED BY <2>1, <2>2, FS_Surjection, Zenon DEF ExistsSurjection
<1> HIDE DEF input, all
<1>4. IsFiniteSet(input.xs)
  <2>1. input.xs \subseteq all
    BY <1>2
  <2> QED BY <1>3, <2>1, FS_Subset
<1>5. ASSUME NEW x \in input.xs
      PROVE  x.own \in Int /\ x.all \in Int /\ WellFormed(x.t)
  <2>1. x.own # None /\ x.all # None
    BY <1>2 DEF FailsToExchange
  <2>2. x.t \in ts /\ x = ExchangedTransaction(x.t)
    BY <1>2
  <2>3. /\ WellFormed(x.t) /\ ExchangedTransaction(x.t).own \in Int \cup {None}
        /\ ExchangedTransaction(x.t).all \in Int \cup {None}
    BY <1>1, <2>2
  <2>4. x.own \in Int \cup {None} /\ x.all \in Int \cup {None}
    BY <2>2, <2>3, Zenon
  <2> QED BY <2>1, <2>3, <2>4
<1>6. \A x, y \in input.xs : x.t = y.t => x = y
  BY <1>2, Zenon
<1> QED BY <1>2, <1>4, <1>5, <1>6 DEF IsInput, input

\* What is counted of entries.
LEMMA ValuesOf ==
  ASSUME NEW S, IsFiniteSet(S),
         \A x \in S : x.own \in Int /\ x.all \in Int /\ WellFormed(x.t)
  PROVE  /\ Counted(Own(S)) /\ DOMAIN Own(S) = S /\ \A x \in S : Own(S)[x] = x.own
         /\ Counted(All(S)) /\ DOMAIN All(S) = S /\ \A x \in S : All(S)[x] = x.all
         /\ Counted(Cashflow(S)) /\ DOMAIN Cashflow(S) = S
         /\ \A x \in S : Cashflow(S)[x] = IF IsIncome(x.t) THEN x.own ELSE -x.own
         /\ Counted(One(S)) /\ DOMAIN One(S) = S /\ \A x \in S : One(S)[x] = 1
<1>1. \A x \in S : x.t.time \in Int
  BY DEF WellFormed
<1>2. Counted(Own(S)) /\ DOMAIN Own(S) = S /\ \A x \in S : Own(S)[x] = x.own
  BY <1>1 DEF Own, Counted
<1>3. Counted(All(S)) /\ DOMAIN All(S) = S /\ \A x \in S : All(S)[x] = x.all
  BY <1>1 DEF All, Counted
<1>4. /\ Counted(Cashflow(S)) /\ DOMAIN Cashflow(S) = S
      /\ \A x \in S : Cashflow(S)[x] = IF IsIncome(x.t) THEN x.own ELSE -x.own
  BY <1>1 DEF Cashflow, Counted
<1>5. Counted(One(S)) /\ DOMAIN One(S) = S /\ \A x \in S : One(S)[x] = 1
  BY <1>1 DEF One, Counted
<1> QED BY <1>2, <1>3, <1>4, <1>5

LEMMA EntriesOf ==
  ASSUME NEW input, IsInput(input)
  PROVE  /\ \A S \in {Expenses(input), Income(input), Income(input) \cup Expenses(input),
                      ExpensesAllTime(input), IncomeAllTime(input)} :
              /\ S \subseteq input.xs /\ IsFiniteSet(S)
              /\ \A x \in S : x.own \in Int /\ x.all \in Int /\ WellFormed(x.t)
         /\ \A x \in Expenses(input) \cup Income(input) : IsWithin(x.t.time, input.interval)
         /\ \A x \in Income(input) : IsIncome(x.t)
         /\ \A x \in Expenses(input) : ~IsIncome(x.t)
<1>1. /\ Expenses(input) \subseteq input.xs /\ Income(input) \subseteq input.xs
      /\ ExpensesAllTime(input) \subseteq input.xs /\ IncomeAllTime(input) \subseteq input.xs
  BY DEF Expenses, Income, ExpensesAllTime, IncomeAllTime
<1>2. ASSUME NEW S, S \subseteq input.xs
      PROVE  /\ S \subseteq input.xs /\ IsFiniteSet(S)
             /\ \A x \in S : x.own \in Int /\ x.all \in Int /\ WellFormed(x.t)
  BY <1>2, FS_Subset DEF IsInput
<1>3. \A x \in Expenses(input) \cup Income(input) : IsWithin(x.t.time, input.interval)
  BY DEF Expenses, Income
<1>4. /\ \A x \in Income(input) : IsIncome(x.t)
      /\ \A x \in Expenses(input) : ~IsIncome(x.t)
  BY DEF Expenses, Income, ExpensesAllTime, IncomeAllTime, IsExpense, IsIncome,
         IsPersonalExpense, IsThirdPartyExpense
<1> QED BY <1>1, <1>2, <1>3, <1>4

\* What came in less what went out.
LEMMA CashflowIs ==
  ASSUME NEW input, IsInput(input)
  PROVE  SumFunction(Cashflow(Income(input) \cup Expenses(input)))
           = PeriodSummary(input).delta
<1> DEFINE I == Income(input)
           E == Expenses(input)
           flow == Cashflow(I \cup E)
<1>1. /\ IsFiniteSet(I) /\ IsFiniteSet(E) /\ IsFiniteSet(I \cup E)
      /\ \A x \in I \cup E : x.own \in Int /\ x.all \in Int /\ WellFormed(x.t)
      /\ \A x \in I : IsIncome(x.t)
      /\ \A x \in E : ~IsIncome(x.t)
  BY EntriesOf
<1> HIDE DEF I, E
<1>2. /\ DOMAIN flow = I \cup E
      /\ \A x \in I : flow[x] = x.own
      /\ \A x \in E : flow[x] = -x.own
      /\ \A x \in I \cup E : flow[x] \in Int
  BY <1>1 DEF Cashflow
<1>3. /\ DOMAIN Own(I) = I /\ \A x \in I : Own(I)[x] = x.own
      /\ DOMAIN Own(E) = E /\ \A x \in E : Own(E)[x] = x.own
  BY DEF Own
<1> HIDE DEF flow
<1>4. SumFunctionOnSet(flow, I \cup E) = SumFunctionOnSet(flow, I) + SumFunctionOnSet(flow, E)
  <2>1. I \cap E = {}
    BY <1>1
  <2> QED BY <1>1, <1>2, <2>1, SumOfUnion
<1>5. SumFunctionOnSet(flow, I) = SumFunctionOnSet(Own(I), I)
  <2>1. \A x \in I : Own(I)[x] \in Int /\ flow[x] = Own(I)[x]
    BY <1>1, <1>2, <1>3
  <2> QED BY <1>1, <2>1, SumSame
<1>6. SumFunctionOnSet(flow, E) = -SumFunctionOnSet(Own(E), E)
  <2>1. \A x \in E : Own(E)[x] \in Int /\ flow[x] = -Own(E)[x]
    BY <1>1, <1>2, <1>3
  <2> QED BY <1>1, <2>1, SumOfOpposites
<1>7. SumFunctionOnSet(Own(I), I) \in Int /\ SumFunctionOnSet(Own(E), E) \in Int
  <2>1. \A x \in I : Own(I)[x] \in Int
    BY <1>1, <1>3
  <2>2. \A x \in E : Own(E)[x] \in Int
    BY <1>1, <1>3
  <2> QED BY <1>1, <2>1, <2>2, SumIsInt
<1>8. PeriodSummary(input).delta = SumFunctionOnSet(Own(I), I) - SumFunctionOnSet(Own(E), E)
  <2>1. PeriodSummary(input).delta = SumFunction(Own(I)) - SumFunction(Own(E))
    BY DEF PeriodSummary, Summary, I, E
  <2> QED BY <1>3, <2>1 DEF SumFunction
<1>9. SumFunction(flow) = SumFunctionOnSet(flow, I \cup E)
  BY <1>2 DEF SumFunction
<1> QED BY <1>4, <1>5, <1>6, <1>7, <1>8, <1>9 DEF flow, I, E

------------------------------------------------------------------------------
\* The last bar of a chart that adds up is the sum of the bars.

CumulativeStep(bars, upTo, i) == IF i = 0 THEN 0 ELSE upTo[i - 1] + bars[i]

LEMMA CumulativeIs ==
  ASSUME NEW n \in Nat \ {0}, NEW bars \in [1 .. n -> Int]
  PROVE  /\ Cumulative(bars) \in [1 .. n -> Int]
         /\ Cumulative(bars)[n] = SumFunctionOnSet(bars, 1 .. n)
<1> DEFINE sums == [i \in 0 .. n |-> SumFunctionOnSet(bars, 1 .. i)]
           Body(f) == [i \in 0 .. n |-> IF i = 0 THEN 0 ELSE f[i - 1] + bars[i]]
           upTo == CHOOSE f : f = Body(f)
<1>1. \A i \in 0 .. n : IsFiniteSet(1 .. i) /\ \A j \in 1 .. i : bars[j] \in Int
  <2> SUFFICES ASSUME NEW i \in 0 .. n
               PROVE  IsFiniteSet(1 .. i) /\ \A j \in 1 .. i : bars[j] \in Int
    OBVIOUS
  <2>1. 1 \in Int /\ i \in Int /\ i <= n
    OBVIOUS
  <2> QED BY <2>1, FS_Interval
<1>2. ASSUME NEW i \in 0 .. n
      PROVE  SumFunctionOnSet(bars, 1 .. i) \in Int
  BY <1>1, SumIsInt
<1>3. SumFunctionOnSet(bars, 1 .. 0) = 0
  <2>1. 1 .. 0 = {}
    OBVIOUS
  <2> QED BY <2>1, SumOfEmpty
<1>4. ASSUME NEW i \in 1 .. n
      PROVE  SumFunctionOnSet(bars, 1 .. i) = SumFunctionOnSet(bars, 1 .. i - 1) + bars[i]
  <2> DEFINE A == 1 .. i - 1
             B == 1 .. i
  <2>1. B = A \cup {i} /\ i \notin A /\ i - 1 \in 0 .. n
    OBVIOUS
  <2>2. IsFiniteSet(A) /\ \A j \in A \cup {i} : bars[j] \in Int
    BY <1>1, <2>1
  <2>3. SumFunctionOnSet(bars, A) \in Int /\ bars[i] \in Int
    BY <1>2, <2>1
  <2> HIDE DEF A, B
  <2>4. SumFunctionOnSet(bars, A \cup {i}) = bars[i] + SumFunctionOnSet(bars, A)
    BY <2>1, <2>2, SumWith
  <2>5. SumFunctionOnSet(bars, B) = SumFunctionOnSet(bars, A \cup {i})
    BY <2>1, Zenon
  <2>6. SumFunctionOnSet(bars, B) = SumFunctionOnSet(bars, A) + bars[i]
    BY <2>3, <2>4, <2>5
  <2> QED BY <2>6 DEF A, B
<1>5. sums = Body(sums)
  <2>1. ASSUME NEW i \in 0 .. n
        PROVE  sums[i] = Body(sums)[i]
    <3>1. CASE i = 0
      BY <1>3, <3>1
    <3>2. CASE i # 0
      <4>1. i \in 1 .. n /\ i - 1 \in 0 .. n
        BY <3>2
      <4>2. sums[i] = SumFunctionOnSet(bars, 1 .. i)
            /\ sums[i - 1] = SumFunctionOnSet(bars, 1 .. i - 1)
        BY <4>1
      <4>3. Body(sums)[i] = sums[i - 1] + bars[i]
        BY <3>2
      <4> HIDE DEF sums, Body
      <4> QED BY <1>4, <4>1, <4>2, <4>3
    <3> QED BY <3>1, <3>2
  <2> QED BY <2>1
<1>6. upTo = Body(upTo)
  <2> HIDE DEF sums, Body
  <2> QED BY <1>5
<1>7. Cumulative(bars) = [i \in 1 .. n |-> upTo[i]]
  <2>1. DOMAIN bars = 1 .. n /\ Len(bars) = n
    BY SequenceOf
  <2> QED BY <2>1 DEF Cumulative
<1> HIDE DEF upTo, sums
<1>8. /\ upTo[0] = 0
      /\ \A i \in 1 .. n : upTo[i] = upTo[i - 1] + bars[i]
  <2>1. ASSUME NEW i \in 0 .. n
        PROVE  upTo[i] = IF i = 0 THEN 0 ELSE upTo[i - 1] + bars[i]
    <3>1. Body(upTo)[i] = IF i = 0 THEN 0 ELSE upTo[i - 1] + bars[i]
      OBVIOUS
    <3> HIDE DEF Body
    <3> QED BY <1>6, <3>1
  <2> QED BY <2>1
<1>9. \A i \in Nat : i <= n => upTo[i] = SumFunctionOnSet(bars, 1 .. i)
  <2> DEFINE Good == {i \in Nat : i <= n => upTo[i] = SumFunctionOnSet(bars, 1 .. i)}
  <2>1. 0 \in Good
    BY <1>3, <1>8
  <2>2. ASSUME NEW i \in Nat, i \in Good
        PROVE  i + 1 \in Good
    <3> SUFFICES ASSUME i + 1 <= n
                 PROVE  upTo[i + 1] = SumFunctionOnSet(bars, 1 .. i + 1)
      OBVIOUS
    <3> DEFINE k == i + 1
    <3>1. upTo[i] = SumFunctionOnSet(bars, 1 .. i)
      BY <2>2
    <3>2. k \in 1 .. n /\ k - 1 = i
      OBVIOUS
    <3> HIDE DEF k
    <3>3. upTo[k] = upTo[k - 1] + bars[k]
      BY <1>8, <3>2
    <3>4. SumFunctionOnSet(bars, 1 .. k) = SumFunctionOnSet(bars, 1 .. k - 1) + bars[k]
      BY <1>4, <3>2
    <3>5. upTo[k] = SumFunctionOnSet(bars, 1 .. k)
      BY <3>1, <3>2, <3>3, <3>4
    <3> QED BY <3>5 DEF k
  <2> HIDE DEF Good
  <2>3. \A i \in Nat : i \in Good
    BY <2>1, <2>2, FromZero
  <2> QED BY <2>3 DEF Good
<1>10. \A i \in 1 .. n : upTo[i] \in Int
  <2> SUFFICES ASSUME NEW i \in 1 .. n PROVE upTo[i] \in Int
    OBVIOUS
  <2>1. i \in 0 .. n /\ i \in Nat /\ i <= n
    OBVIOUS
  <2> QED BY <1>2, <1>9, <2>1
<1>11. upTo[n] = SumFunctionOnSet(bars, 1 .. n)
  BY <1>9
<1> QED BY <1>7, <1>10, <1>11

LEMMA LastOfCumulative ==
  ASSUME NEW n \in Nat \ {0}, NEW bars \in [1 .. n -> Int]
  PROVE  LastOf(Cumulative(bars)) = SumOf(bars)
<1> DEFINE sums == Cumulative(bars)
<1>1. sums \in [1 .. n -> Int] /\ sums[n] = SumFunctionOnSet(bars, 1 .. n)
  BY CumulativeIs
<1> HIDE DEF sums
<1>2. Len(sums) = n /\ sums # <<>>
  <2>1. Len(sums) = n
    BY <1>1, SequenceOf
  <2>2. Len(<<>>) = 0
    OBVIOUS
  <2>3. Len(sums) # Len(<<>>)
    BY <2>1, <2>2
  <2> QED BY <2>1, <2>3, Zenon
<1>3. SumOf(bars) = SumFunctionOnSet(bars, 1 .. n)
  BY DEF SumOf, SumFunction
<1>4. LastOf(sums) = sums[n]
  BY <1>2 DEF LastOf, Last
<1> QED BY <1>1, <1>3, <1>4 DEF sums

LEMMA CashflowChartsAddUp ==
  ASSUME NEW input, IsInput(input)
  PROVE  CashflowAddsUp(CashflowCharts(input), PeriodSummary(input), SpansYear(input))
<1> DEFINE both == Income(input) \cup Expenses(input)
           flow == Cashflow(both)
           byMonth == MonthlyCashflow(input)
           byYear == CashflowPerYear(input)
           total == PeriodSummary(input)
<1>1. /\ Counted(flow) /\ DOMAIN flow = both
      /\ Counted(Own(Expenses(input))) /\ DOMAIN Own(Expenses(input)) = Expenses(input)
      /\ Counted(Own(Income(input))) /\ DOMAIN Own(Income(input)) = Income(input)
  BY EntriesOf, ValuesOf
<1>2. \A x \in both : IsWithin(x.t.time, input.interval)
  BY EntriesOf
<1>3. SumFunction(flow) = total.delta
  BY CashflowIs
<1>4. input.interval \in [start : Int, end : Int]
  BY DEF IsInput
<1>5. /\ SumOf(byMonth) = total.delta
      /\ \E n \in Nat \ {0} : byMonth \in [1 .. n -> Int]
  <2>1. "month" \in Granularities /\ \A x \in DOMAIN flow : IsWithin(x.t.time, input.interval)
    BY <1>1, <1>2 DEF Granularities
  <2>2. byMonth = Bar(Series(flow, "month"), input.interval, "month")
    BY DEF MonthlyCashflow
  <2> HIDE DEF flow, byMonth, total
  <2> QED BY <1>1, <1>3, <1>4, <2>1, <2>2, BarAddsUp
<1>6. /\ SumOf(byYear) = total.delta
      /\ \E n \in Nat \ {0} : byYear \in [1 .. n -> Int]
  <2>1. "year" \in Granularities /\ \A x \in DOMAIN flow : IsWithin(x.t.time, input.interval)
    BY <1>1, <1>2 DEF Granularities
  <2>2. byYear = Bar(Series(flow, "year"), input.interval, "year")
    BY DEF CashflowPerYear
  <2> HIDE DEF flow, byYear, total
  <2> QED BY <1>1, <1>3, <1>4, <2>1, <2>2, BarAddsUp
<1>7. SumOf(MonthlyExpense(input)) = total.spent
  <2>1. "month" \in Granularities
        /\ \A x \in DOMAIN Own(Expenses(input)) : IsWithin(x.t.time, input.interval)
    BY <1>1, <1>2 DEF Granularities
  <2>2. SumOf(MonthlyExpense(input)) = SumFunction(Own(Expenses(input)))
    BY <1>1, <1>4, <2>1, BarAddsUp DEF MonthlyExpense
  <2> QED BY <2>2 DEF PeriodSummary, Summary
<1>8. SumOf(MonthlyIncome(input)) = total.received
  <2>1. "month" \in Granularities
        /\ \A x \in DOMAIN Own(Income(input)) : IsWithin(x.t.time, input.interval)
    BY <1>1, <1>2 DEF Granularities
  <2>2. SumOf(MonthlyIncome(input)) = SumFunction(Own(Income(input)))
    BY <1>1, <1>4, <2>1, BarAddsUp DEF MonthlyIncome
  <2> QED BY <2>2 DEF PeriodSummary, Summary
<1> HIDE DEF byMonth, byYear, total
<1>9. LastOf(Cumulative(byMonth)) = total.delta /\ LastOf(Cumulative(byYear)) = total.delta
  BY <1>5, <1>6, LastOfCumulative
<1>10. /\ MonthlyCashflowCumulative(input) = Cumulative(byMonth)
       /\ YearlyCashflowCumulative(input) = Cumulative(byYear)
       /\ SpansYear(input) => YearlyCashflow(input) = byYear
  BY DEF MonthlyCashflowCumulative, YearlyCashflowCumulative, YearlyCashflow, byMonth, byYear
<1> DEFINE charts == CashflowCharts(input)
<1>11. /\ charts.cashflow = byMonth
       /\ charts.cumulative = Cumulative(byMonth)
       /\ charts.expense = MonthlyExpense(input)
       /\ charts.income = MonthlyIncome(input)
       /\ charts.yearly = YearlyCashflow(input)
       /\ charts.yearlySoFar = Cumulative(byYear)
  BY <1>10 DEF CashflowCharts, byMonth
<1> HIDE DEF charts
<1> QED BY <1>5, <1>6, <1>7, <1>8, <1>9, <1>10, <1>11 DEF CashflowAddsUp, charts, total

------------------------------------------------------------------------------
\* A chart that is stacked by a key, whatever the key, adds up to the whole.

OwnWith(keys, k) == {x \in DOMAIN keys : keys[x] = k}

LEMMA KeysOf ==
  ASSUME NEW S, IsFiniteSet(S), NEW keys, DOMAIN keys = S
  PROVE  IsFiniteSet(Range(keys)) /\ \A x \in S : keys[x] \in Range(keys)
<1> DEFINE K == Range(keys)
           keyOf == [x \in S |-> keys[x]]
<1>1. \A x \in S : keys[x] \in K
  BY DEF Range
<1>2. \A k \in K : \E x \in S : keys[x] = k
  BY DEF Range
<1> HIDE DEF K
<1>3. keyOf \in Surjection(S, K)
  BY <1>1, <1>2 DEF Surjection
<1>4. IsFiniteSet(K)
  BY <1>3, FS_Surjection, Zenon DEF ExistsSurjection
<1> QED BY <1>1, <1>4 DEF K

LEMMA StacksAddUp ==
  ASSUME NEW input, IsInput(input), NEW S, S \subseteq input.xs, NEW keys, DOMAIN keys = S,
         \A x \in S : IsWithin(x.t.time, input.interval)
  PROVE  /\ SumOfStacks(MonthlyByKey(keys, input)) = SumFunction(Own(S))
         /\ SumFunction(Own(S)) \in Int
<1> DEFINE K == Range(keys)
           stack == MonthlyByKey(keys, input)
           parts == [k \in K |-> OwnWith(keys, k)]
           sums == [k \in K |-> SumOf(stack[k])]
           own == Own(S)
<1>1. IsFiniteSet(S) /\ \A x \in S : x.own \in Int /\ x.all \in Int /\ WellFormed(x.t)
  BY FS_Subset DEF IsInput
<1>2. /\ DOMAIN own = S /\ \A x \in S : own[x] = x.own
      /\ \A x \in S : own[x] \in Int
  BY <1>1 DEF Own
<1>3. IsFiniteSet(K) /\ \A x \in S : keys[x] \in K
  BY <1>1, KeysOf
<1>4. DOMAIN stack = K
      /\ \A k \in K : stack[k]
           = Bar(Series(Own(OwnWith(keys, k)), "month"), input.interval, "month")
  BY DEF MonthlyByKey, StackedBar, OwnWith
<1> HIDE DEF stack, K, own
<1>5. ASSUME NEW k \in K
      PROVE  sums[k] = SumFunctionOnSet(own, parts[k])
  <2> DEFINE P == OwnWith(keys, k)
  <2>1. P \subseteq S
    BY DEF OwnWith
  <2> HIDE DEF P
  <2>2. IsFiniteSet(P) /\ \A x \in P : x.own \in Int /\ x.all \in Int /\ WellFormed(x.t)
    BY <1>1, <2>1, FS_Subset
  <2>3. Counted(Own(P)) /\ DOMAIN Own(P) = P /\ \A x \in P : Own(P)[x] = x.own
    BY <2>2, ValuesOf
  <2>4. SumOf(stack[k]) = SumFunction(Own(P))
    <3>1. stack[k] = Bar(Series(Own(P), "month"), input.interval, "month")
      BY <1>4 DEF P
    <3>2. "month" \in Granularities
      BY DEF Granularities
    <3>3. \A x \in DOMAIN Own(P) : IsWithin(x.t.time, input.interval)
      BY <2>1, <2>3
    <3>4. input.interval \in [start : Int, end : Int]
      BY DEF IsInput
    <3>5. SumOf(Bar(Series(Own(P), "month"), input.interval, "month")) = SumFunction(Own(P))
      BY <2>3, <3>2, <3>3, <3>4, BarAddsUp
    <3> QED BY <3>1, <3>5, Zenon
  <2>5. SumFunction(Own(P)) = SumFunctionOnSet(Own(P), P)
    BY <2>3 DEF SumFunction
  <2>6. SumFunctionOnSet(Own(P), P) = SumFunctionOnSet(own, P)
    <3>1. \A x \in P : own[x] \in Int /\ Own(P)[x] = own[x]
      BY <1>2, <2>1, <2>3
    <3> QED BY <2>2, <3>1, SumSame
  <2>7. sums[k] = SumOf(stack[k]) /\ parts[k] = P
    BY DEF P
  <2> HIDE DEF sums, parts
  <2> QED BY <2>4, <2>5, <2>6, <2>7
<1>6. \A k \in K : parts[k] \subseteq S /\ \A x \in S : x \in parts[k] <=> keys[x] = k
  BY DEF OwnWith
<1>7. SumOfStacks(stack) = SumFunctionOnSet(sums, K)
  <2>1. SumOfStacks(stack) = SumFunction(sums)
    BY <1>4 DEF SumOfStacks, SumOf
  <2> QED BY <2>1 DEF SumFunction
<1> HIDE DEF sums, parts
<1>8. Grouped(own, S, keys, K, parts, sums)
  BY <1>1, <1>2, <1>3, <1>5, <1>6 DEF Grouped
<1>9. SumFunctionOnSet(sums, K) = SumFunctionOnSet(own, S)
  BY <1>8, SumByKey
<1>10. SumFunction(own) = SumFunctionOnSet(own, S)
  BY <1>2 DEF SumFunction
<1>11. SumFunctionOnSet(own, S) \in Int
  BY <1>1, <1>2, SumIsInt
<1> QED BY <1>7, <1>9, <1>10, <1>11 DEF stack, own

LEMMA SumByAddsUp ==
  ASSUME NEW S, IsFiniteSet(S), NEW values, DOMAIN values = S, \A x \in S : values[x] \in Int,
         NEW keys, DOMAIN keys = S
  PROVE  LET sums == SumBy(keys, values)
         IN  /\ SumFunction(sums) = SumFunction(values)
             /\ IsFiniteSet(DOMAIN sums)
             /\ \A k \in DOMAIN sums : sums[k] \in Int
<1> DEFINE K == Range(keys)
           parts == [k \in K |-> OwnWith(keys, k)]
           sums == SumBy(keys, values)
<1>1. IsFiniteSet(K) /\ \A x \in S : keys[x] \in K
  BY KeysOf
<1>2. /\ DOMAIN sums = K
      /\ \A k \in K : sums[k] = SumFunctionOnSet(values, parts[k])
  BY DEF SumBy, OwnWith
<1>3. \A k \in K : parts[k] \subseteq S /\ \A x \in S : x \in parts[k] <=> keys[x] = k
  BY DEF OwnWith
<1> HIDE DEF sums, parts, K
<1>4. Grouped(values, S, keys, K, parts, sums)
  BY <1>1, <1>2, <1>3 DEF Grouped
<1>5. SumFunctionOnSet(sums, K) = SumFunctionOnSet(values, S)
  BY <1>4, SumByKey
<1>6. ASSUME NEW k \in K
      PROVE  sums[k] \in Int
  <2>1. IsFiniteSet(parts[k]) /\ \A x \in parts[k] : values[x] \in Int
    BY <1>3, FS_Subset
  <2> QED BY <1>2, <2>1, SumIsInt
<1> QED BY <1>1, <1>2, <1>5, <1>6 DEF SumFunction, sums

------------------------------------------------------------------------------
\* Each category lies below one root.

\* f is what is made of v by taking a step up to n times.
Iterates(f, V, v, step, n) ==
    f \in [0 .. n -> V] /\ f[0] = v /\ \A i \in 1 .. n : f[i] = step[f[i - 1]]

LEMMA Iterated ==
  ASSUME NEW V, NEW v \in V, NEW step \in [V -> V], NEW n \in Nat
  PROVE  \E f : Iterates(f, V, v, step, n)
<1> DEFINE Solves(m, f) == f[0] = v /\ \A i \in 1 .. m : f[i] = step[f[i - 1]]
           Good == {m \in Nat : \E f \in [0 .. m -> V] : Solves(m, f)}
<1>1. 0 \in Good
  <2> DEFINE f == [i \in 0 .. 0 |-> v]
  <2>1. f \in [0 .. 0 -> V] /\ Solves(0, f)
    OBVIOUS
  <2> QED BY <2>1
<1>2. ASSUME NEW m \in Nat, m \in Good
      PROVE  m + 1 \in Good
  <2>1. PICK f \in [0 .. m -> V] : Solves(m, f)
    BY <1>2
  <2> DEFINE g == [i \in 0 .. m + 1 |-> IF i <= m THEN f[i] ELSE step[f[m]]]
  <2>2. f[m] \in V /\ step[f[m]] \in V
    OBVIOUS
  <2>3. g \in [0 .. m + 1 -> V]
    BY <2>2
  <2>4. g[0] = v
    BY <2>1
  <2>5. ASSUME NEW i \in 1 .. m + 1
        PROVE  g[i] = step[g[i - 1]]
    <3>1. i - 1 \in 0 .. m /\ g[i - 1] = f[i - 1]
      OBVIOUS
    <3>2. CASE i <= m
      <4>1. i \in 1 .. m /\ g[i] = f[i]
        BY <3>2
      <4> HIDE DEF g
      <4> QED BY <2>1, <3>1, <4>1
    <3>3. CASE ~(i <= m)
      <4>1. i = m + 1 /\ g[i] = step[f[m]] /\ i - 1 = m
        BY <3>3
      <4> HIDE DEF g
      <4> QED BY <3>1, <4>1
    <3> QED BY <3>2, <3>3
  <2> HIDE DEF g
  <2>6. Solves(m + 1, g)
    BY <2>4, <2>5
  <2> QED BY <2>3, <2>6
<1>3. n \in Good
  <2> HIDE DEF Good
  <2> QED BY <1>1, <1>2, FromZero
<1> QED BY <1>3 DEF Iterates

Parent(c) == Core.categories[c].parent

\* A path from above c down to it.
IsPath(path, c) ==
    /\ path \in Seq(DOMAIN Core.categories) /\ Len(path) >= 1 /\ path[Len(path)] = c
    /\ \A i \in 2 .. Len(path) : Parent(path[i]) # None

StepUp(path) ==
    IF Parent(Head(path)) = None THEN path ELSE <<Parent(Head(path))>> \o path

LEMMA StepsUp ==
  ASSUME NEW c, NEW path, IsPath(path, c),
         Parent(path[1]) # None => Parent(path[1]) \in DOMAIN Core.categories
  PROVE  /\ IsPath(StepUp(path), c)
         /\ Parent(path[1]) = None => StepUp(path) = path
         /\ Parent(path[1]) # None => StepUp(path)[1] = Parent(path[1])
<1> DEFINE C == DOMAIN Core.categories
           p == Parent(path[1])
           longer == <<p>> \o path
<1>1. path \in Seq(C) /\ Len(path) \in Nat /\ Len(path) >= 1 /\ Head(path) = path[1]
  BY DEF IsPath
<1>2. CASE p = None
  BY <1>1, <1>2 DEF StepUp
<1>3. CASE p # None
  <2>1. <<p>> \in Seq(C) /\ Len(<<p>>) = 1 /\ <<p>>[1] = p
    <3>1. p \in C
      BY <1>3
    <3> HIDE DEF p, C
    <3> QED BY <3>1
  <2> DEFINE one == <<p>>
  <2>2. StepUp(path) = one \o path
    BY <1>1, <1>3 DEF StepUp
  <2> HIDE DEF one, p, C
  <2>3. /\ one \o path \in Seq(C)
        /\ Len(one \o path) = Len(one) + Len(path)
        /\ \A i \in 1 .. Len(one) + Len(path) : (one \o path)[i] =
              IF i <= Len(one) THEN one[i] ELSE path[i - Len(one)]
    BY <1>1, <2>1, ConcatProperties DEF one
  <2> DEFINE up == StepUp(path)
             n == Len(path)
  <2>4. /\ up \in Seq(C) /\ Len(up) = n + 1
        /\ up[1] = p
        /\ \A i \in 2 .. n + 1 : up[i] = path[i - 1]
    <3>1. Len(one) = 1 /\ one[1] = p
      BY <2>1 DEF one
    <3> HIDE DEF up
    <3>2. \A i \in 1 .. 1 + n : up[i] = IF i <= 1 THEN one[i] ELSE path[i - 1]
      BY <2>2, <2>3, <3>1 DEF up
    <3>3. up \in Seq(C) /\ Len(up) = 1 + n
      BY <2>2, <2>3, <3>1 DEF up
    <3> QED BY <1>1, <3>1, <3>2, <3>3
  <2> HIDE DEF up
  <2>5. up[n + 1] = c
    BY <1>1, <2>4 DEF IsPath
  <2>6. ASSUME NEW i \in 2 .. n + 1
        PROVE  Parent(up[i]) # None
    <3>1. up[i] = path[i - 1]
      BY <2>4
    <3>2. CASE i = 2
      BY <1>3, <3>1, <3>2 DEF p
    <3>3. CASE i # 2
      <4>1. i - 1 \in 2 .. n
        BY <1>1, <3>3
      <4> QED BY <3>1, <4>1 DEF IsPath
    <3> QED BY <3>2, <3>3
  <2>7. IsPath(up, c)
    BY <1>1, <2>4, <2>5, <2>6 DEF IsPath, C
  <2> QED BY <1>3, <2>4, <2>7 DEF up, p
<1> QED BY <1>2, <1>3

\* GetAncestors goes up until there is no parent, with steps to spare.
LEMMA PathUp ==
  ASSUME NEW c \in DOMAIN Core.categories
  PROVE  \E path : /\ IsPath(path, c)
                   /\ Parent(path[1]) = None
                   /\ GetAncestors(c) = SubSeq(path, 1, Len(path) - 1)
<1> DEFINE C == DOMAIN Core.categories
           n == Cardinality(C)
           Paths == {path \in Seq(C) : IsPath(path, c)}
           step == [path \in Paths |-> StepUp(path)]
           Body(f) == [i \in 0 .. n |->
                          IF i = 0 THEN <<c>>
                          ELSE LET parent == Core.categories[Head(f[i - 1])].parent
                               IN  IF parent = None THEN f[i - 1]
                                   ELSE <<parent>> \o f[i - 1]]
           up == CHOOSE f : f = Body(f)
<1>1. n \in Nat
  BY CoreAssumption, FS_CardinalityType
<1>2. PICK depth \in [C -> 0 .. n - 1] :
        \A d \in C : Parent(d) # None => Parent(d) \in C /\ depth[Parent(d)] < depth[d]
  BY CategoriesAssumption DEF Parent
<1>3. <<c>> \in Paths /\ <<c>>[1] = c
  <2>1. <<c>> \in Seq(C) /\ Len(<<c>>) = 1 /\ <<c>>[1] = c
    <3>1. c \in C
      OBVIOUS
    <3> HIDE DEF C
    <3> QED BY <3>1
  <2> DEFINE start == <<c>>
  <2> HIDE DEF start
  <2>2. start \in Seq(C) /\ Len(start) = 1 /\ start[1] = c
    BY <2>1 DEF start
  <2>3. IsPath(start, c)
    BY <2>2 DEF IsPath
  <2>4. start \in Paths
    BY <2>2, <2>3
  <2> QED BY <2>1, <2>4 DEF start
<1>4. ASSUME NEW path \in Paths
      PROVE  /\ path[1] \in C /\ StepUp(path) \in Paths
             /\ Parent(path[1]) = None => StepUp(path) = path
             /\ Parent(path[1]) # None =>
                   StepUp(path)[1] \in C /\ depth[StepUp(path)[1]] < depth[path[1]]
  <2>1. IsPath(path, c) /\ path[1] \in C
    BY DEF IsPath
  <2>2. Parent(path[1]) # None => Parent(path[1]) \in C
    BY <1>2, <2>1
  <2>3. /\ IsPath(StepUp(path), c)
        /\ Parent(path[1]) = None => StepUp(path) = path
        /\ Parent(path[1]) # None => StepUp(path)[1] = Parent(path[1])
    BY <2>1, <2>2, StepsUp
  <2>4. StepUp(path) \in Paths
    BY <2>3 DEF IsPath
  <2> QED BY <1>2, <2>1, <2>3, <2>4
<1> HIDE DEF Paths, C, n
<1>5. PICK f \in [0 .. n -> Paths] : f[0] = <<c>> /\ \A i \in 1 .. n : f[i] = step[f[i - 1]]
  <2>1. step \in [Paths -> Paths]
    BY <1>4
  <2> DEFINE start == <<c>>
  <2>2. start \in Paths
    BY <1>3
  <2> HIDE DEF step, start
  <2>3. \E f : Iterates(f, Paths, start, step, n)
    BY <1>1, <2>1, <2>2, Iterated, Zenon
  <2> QED BY <2>3 DEF start, Iterates
<1>6. f = Body(f)
  <2>1. ASSUME NEW i \in 0 .. n
        PROVE  f[i] = Body(f)[i]
    <3>1. CASE i = 0
      BY <1>5, <3>1
    <3>2. CASE i # 0
      <4>1. i - 1 \in 0 .. n /\ i \in 1 .. n
        BY <1>1, <3>2
      <4>2. f[i] = step[f[i - 1]] /\ f[i - 1] \in Paths
        BY <1>5, <4>1
      <4>3. step[f[i - 1]] = StepUp(f[i - 1])
        BY <4>2
      <4>4. Body(f)[i] = StepUp(f[i - 1])
        BY <3>2 DEF StepUp, Parent
      <4> HIDE DEF Body, step
      <4> QED BY <4>2, <4>3, <4>4
    <3> QED BY <3>1, <3>2
  <2> QED BY <2>1
<1>7. up = Body(up)
  <2> HIDE DEF Body
  <2> QED BY <1>6
<1>8. GetAncestors(c) = SubSeq(up[n], 1, Len(up[n]) - 1)
  BY DEF GetAncestors, C, n
<1> HIDE DEF up
<1>9. up[0] = <<c>> /\ \A i \in 1 .. n : up[i] = StepUp(up[i - 1])
  <2>1. ASSUME NEW i \in 0 .. n
        PROVE  up[i] = IF i = 0 THEN <<c>> ELSE StepUp(up[i - 1])
    <3>1. Body(up)[i] = IF i = 0 THEN <<c>> ELSE StepUp(up[i - 1])
      BY DEF StepUp, Parent
    <3> HIDE DEF Body
    <3> QED BY <1>7, <3>1
  <2> QED BY <1>1, <2>1
<1>10. \A i \in Nat : i <= n =>
          /\ up[i] \in Paths
          /\ Parent(up[i][1]) = None \/ depth[up[i][1]] + i <= depth[c]
  <2> DEFINE Good == {i \in Nat : i <= n =>
                /\ up[i] \in Paths
                /\ Parent(up[i][1]) = None \/ depth[up[i][1]] + i <= depth[c]}
  <2>1. 0 \in Good
    <3>1. depth[c] \in Int
      BY <1>1, <1>2 DEF C
    <3> QED BY <1>3, <1>9, <3>1
  <2>2. ASSUME NEW i \in Nat, i \in Good
        PROVE  i + 1 \in Good
    <3> SUFFICES ASSUME i + 1 <= n
                 PROVE  /\ up[i + 1] \in Paths
                        /\ \/ Parent(up[i + 1][1]) = None
                           \/ depth[up[i + 1][1]] + (i + 1) <= depth[c]
      OBVIOUS
    <3> DEFINE path == up[i]
               next == up[i + 1]
    <3>1. path \in Paths /\ (Parent(path[1]) = None \/ depth[path[1]] + i <= depth[c])
      BY <1>1, <2>2
    <3>2. next = StepUp(path)
      <4>1. i + 1 \in 1 .. n /\ i + 1 - 1 = i
        BY <1>1
      <4> QED BY <1>9, <4>1
    <3> HIDE DEF path, next
    <3>3. next \in Paths
      BY <1>4, <3>1, <3>2
    <3>4. CASE Parent(path[1]) = None
      BY <1>4, <3>1, <3>2, <3>3, <3>4 DEF next
    <3>5. CASE Parent(path[1]) # None
      <4>1. next[1] \in C /\ path[1] \in C /\ depth[next[1]] < depth[path[1]]
        BY <1>4, <3>1, <3>2, <3>5
      <4>2. depth[next[1]] \in Int /\ depth[path[1]] \in Int /\ depth[c] \in Int
        BY <1>1, <1>2, <4>1 DEF C
      <4>3. depth[next[1]] + (i + 1) <= depth[c]
        BY <3>1, <3>5, <4>1, <4>2
      <4> QED BY <3>3, <4>3 DEF next
    <3> QED BY <3>4, <3>5
  <2> HIDE DEF Good
  <2>3. \A i \in Nat : i \in Good
    BY <2>1, <2>2, FromZero
  <2> QED BY <2>3 DEF Good
<1>11. up[n] \in Paths /\ (Parent(up[n][1]) = None \/ depth[up[n][1]] + n <= depth[c])
  BY <1>1, <1>10
<1>12. Parent(up[n][1]) = None
  <2>1. up[n][1] \in C
    BY <1>4, <1>11
  <2>2. depth[up[n][1]] \in 0 .. n - 1 /\ depth[c] \in 0 .. n - 1
    BY <1>2, <2>1 DEF C
  <2> QED BY <1>1, <1>11, <2>2
<1> QED BY <1>8, <1>11, <1>12 DEF Paths

LEMMA OneRoot ==
  ASSUME NEW d \in DOMAIN Core.categories
  PROVE  \E root \in DOMAIN Core.categories :
            \A c \in DOMAIN Core.categories : IsRoot(c) /\ SubtreeIncludes(c, d) <=> c = root
<1> DEFINE C == DOMAIN Core.categories
<1>1. PICK path : /\ IsPath(path, d)
                  /\ Parent(path[1]) = None
                  /\ GetAncestors(d) = SubSeq(path, 1, Len(path) - 1)
  BY PathUp
<1> DEFINE m == Len(path)
           above == GetAncestors(d)
<1>2. /\ m \in Nat /\ m >= 1 /\ path[m] = d
      /\ \A i \in 1 .. m : path[i] \in C
      /\ \A i \in 2 .. m : Parent(path[i]) # None
  BY <1>1 DEF IsPath
<1>3. \A c : c \in Range(above) <=> \E i \in 1 .. m - 1 : path[i] = c
  <2>1. \A i \in 1 .. m - 1 : path[i] \in C
    BY <1>2
  <2>2. m - 1 \in Int /\ 1 \in Int
    BY <1>2
  <2>3. /\ above \in Seq(C)
        /\ Len(above) = IF 1 <= m - 1 THEN m - 1 - 1 + 1 ELSE 0
        /\ \A i \in 1 .. m - 1 - 1 + 1 : above[i] = path[1 + i - 1]
    <3> HIDE DEF m, C
    <3>1. above = SubSeq(path, 1, m - 1)
      BY <1>1 DEF m
    <3> HIDE DEF above
    <3> QED BY <2>1, <2>2, <3>1, SubSeqProperties
  <2> HIDE DEF above, m
  <2>4. Len(above) = m - 1 /\ \A i \in 1 .. m - 1 : above[i] = path[i]
    <3>1. Len(above) = m - 1
      BY <1>2, <2>3
    <3>2. \A i \in 1 .. m - 1 : i \in 1 .. m - 1 - 1 + 1 /\ 1 + i - 1 = i
      BY <1>2
    <3> QED BY <2>3, <3>1, <3>2
  <2>5. DOMAIN above = 1 .. m - 1
    BY <2>3, <2>4
  <2> QED BY <2>4, <2>5 DEF Range
<1> HIDE DEF m, above
<1>4. \A c \in C : SubtreeIncludes(c, d) <=> \E i \in 1 .. m : path[i] = c
  <2>1. \A c : SubtreeIncludes(c, d) <=> c = d \/ c \in Range(above)
    BY DEF SubtreeIncludes, GetDescendants, above
  <2>2. \A i \in 1 .. m : i = m \/ i \in 1 .. m - 1
    BY <1>2
  <2>3. \A i \in 1 .. m - 1 : i \in 1 .. m
    BY <1>2
  <2>4. m \in 1 .. m
    BY <1>2
  <2> QED BY <1>2, <1>3, <2>1, <2>2, <2>3, <2>4
<1>5. \A c \in C : IsRoot(c) <=> Parent(c) = None
  BY DEF IsRoot, Parent
<1>6. \A i \in 1 .. m : Parent(path[i]) = None <=> i = 1
  BY <1>1, <1>2
<1>7. 1 \in 1 .. m /\ path[1] \in C
  BY <1>2
<1>8. \A c \in C : IsRoot(c) /\ SubtreeIncludes(c, d) <=> c = path[1]
  BY <1>4, <1>5, <1>6, <1>7
<1> QED BY <1>7, <1>8

\* The charts of the roots, one each, show every expense once.
LEMMA FanoutAddsUp ==
  ASSUME NEW input, IsInput(input)
  PROVE  LET fanout == FanoutByRootCategory(input)
         IN  SumOf([root \in DOMAIN fanout |-> SumOfStacks(fanout[root])])
               = PeriodSummary(input).spent
<1> DEFINE C == DOMAIN Core.categories
           E == Expenses(input)
           R == {c \in C : IsRoot(c) /\ InSubtree(c, E) # {}}
           fanout == FanoutByRootCategory(input)
           sums == [root \in R |-> SumOfStacks(fanout[root])]
           parts == [root \in R |-> InSubtree(root, E)]
           rootOf == [x \in E |-> CHOOSE root \in C : \A c \in C :
                         IsRoot(c) /\ SubtreeIncludes(c, x.t.category) <=> c = root]
           own == Own(E)
<1>1. /\ E \subseteq input.xs /\ IsFiniteSet(E)
      /\ \A x \in E : x.own \in Int /\ x.all \in Int /\ WellFormed(x.t)
      /\ \A x \in E : IsWithin(x.t.time, input.interval)
      /\ \A x \in E : IsExpense(x.t)
  BY EntriesOf DEF Expenses, ExpensesAllTime
<1>2. DOMAIN own = E /\ \A x \in E : own[x] = x.own /\ own[x] \in Int
  BY <1>1 DEF Own
<1>3. /\ DOMAIN fanout = R
      /\ \A root \in R :
            fanout[root] = MonthlyByKey(Categories(InSubtree(root, E)), input)
  BY DEF FanoutByRootCategory
<1>4. ASSUME NEW root \in R
      PROVE  sums[root] = SumFunctionOnSet(own, parts[root])
  <2> DEFINE P == InSubtree(root, E)
  <2>1. P \subseteq E /\ DOMAIN Categories(P) = P
    BY DEF InSubtree, Categories
  <2> HIDE DEF P, E, R
  <2>2. P \subseteq input.xs /\ \A x \in P : IsWithin(x.t.time, input.interval)
    BY <1>1, <2>1
  <2>3. SumOfStacks(MonthlyByKey(Categories(P), input)) = SumFunction(Own(P))
    BY <2>1, <2>2, StacksAddUp
  <2>4. SumFunction(Own(P)) = SumFunctionOnSet(Own(P), P)
    BY DEF SumFunction, Own
  <2>5. SumFunctionOnSet(Own(P), P) = SumFunctionOnSet(own, P)
    <3>1. IsFiniteSet(P)
      BY <1>1, <2>1, FS_Subset
    <3>2. \A x \in P : own[x] \in Int /\ Own(P)[x] = own[x]
      BY <1>2, <2>1 DEF Own
    <3> QED BY <3>1, <3>2, SumSame
  <2>6. sums[root] = SumOfStacks(fanout[root]) /\ parts[root] = P
    BY DEF P
  <2>7. fanout[root] = MonthlyByKey(Categories(P), input)
    BY <1>3 DEF P
  <2> HIDE DEF sums, parts, fanout, own
  <2> QED BY <2>3, <2>4, <2>5, <2>6, <2>7
<1>5. ASSUME NEW x \in E
      PROVE  /\ rootOf[x] \in R
             /\ \A root \in R : x \in parts[root] <=> rootOf[x] = root
  <2> DEFINE d == x.t.category
  <2>1. d \in C
    <3>1. WellFormed(x.t) /\ ~IsOpeningBalance(x.t)
      BY <1>1 DEF IsExpense, IsPersonalExpense, IsThirdPartyExpense, IsOpeningBalance
    <3> QED BY <3>1 DEF WellFormed
  <2> DEFINE Only(root) == \A c \in C : IsRoot(c) /\ SubtreeIncludes(c, d) <=> c = root
  <2>2. \E root \in C : Only(root)
    BY <2>1, OneRoot
  <2>3. rootOf[x] = CHOOSE root \in C : Only(root)
    OBVIOUS
  <2> HIDE DEF Only, rootOf
  <2>4. rootOf[x] \in C /\ Only(rootOf[x])
    BY <2>2, <2>3
  <2>5. \A c \in C : IsRoot(c) /\ SubtreeIncludes(c, d) <=> c = rootOf[x]
    BY <2>4 DEF Only
  <2>6. \A c : x \in InSubtree(c, E) <=> SubtreeIncludes(c, d)
    BY DEF InSubtree
  <2>7. rootOf[x] \in R
    <3>1. IsRoot(rootOf[x]) /\ SubtreeIncludes(rootOf[x], d)
      BY <2>4, <2>5
    <3>2. x \in InSubtree(rootOf[x], E)
      BY <2>6, <3>1
    <3> QED BY <2>4, <3>1, <3>2
  <2>8. ASSUME NEW root \in R
        PROVE  x \in parts[root] <=> rootOf[x] = root
    <3>1. parts[root] = InSubtree(root, E) /\ root \in C /\ IsRoot(root)
      OBVIOUS
    <3> HIDE DEF parts, R
    <3> QED BY <2>5, <2>6, <3>1
  <2> QED BY <2>7, <2>8
<1>6. IsFiniteSet(R) /\ \A root \in R : parts[root] \subseteq E
  <2>1. IsFiniteSet(C) /\ R \subseteq C
    BY CoreAssumption
  <2>2. \A root \in R : parts[root] \subseteq E
    BY DEF InSubtree
  <2> HIDE DEF R, C
  <2> QED BY <2>1, <2>2, FS_Subset
<1>7. SumOf([root \in DOMAIN fanout |-> SumOfStacks(fanout[root])])
        = SumFunctionOnSet(sums, R)
  BY <1>3 DEF SumOf, SumFunction
<1>8. PeriodSummary(input).spent = SumFunctionOnSet(own, E)
  BY <1>2 DEF PeriodSummary, Summary, SumFunction
<1> HIDE DEF sums, parts, rootOf, own, E, R, C
<1>9. Grouped(own, E, rootOf, R, parts, sums)
  BY <1>1, <1>2, <1>4, <1>5, <1>6 DEF Grouped
<1>10. SumFunctionOnSet(sums, R) = SumFunctionOnSet(own, E)
  BY <1>9, SumByKey
<1> QED BY <1>7, <1>8, <1>10

LEMMA ExpenseChartsAddUp ==
  ASSUME NEW input, IsInput(input)
  PROVE  ExpenseAddsUp(ExpenseCharts(input), PeriodSummary(input), SpansYear(input))
<1> DEFINE E == Expenses(input)
           charts == ExpenseCharts(input)
           total == PeriodSummary(input)
<1>1. /\ Counted(Own(E)) /\ DOMAIN Own(E) = E /\ E \subseteq input.xs
      /\ \A x \in E : IsWithin(x.t.time, input.interval)
  BY EntriesOf, ValuesOf
<1>2. total.spent = SumFunction(Own(E))
  BY DEF PeriodSummary, Summary
<1>3. input.interval \in [start : Int, end : Int]
  BY DEF IsInput
<1>4. /\ MonthlyExpense(input) = Bar(Series(Own(E), "month"), input.interval, "month")
      /\ SpansYear(input) => YearlyExpense(input)
            = Bar(Series(Own(E), "year"), input.interval, "year")
      /\ MonthlyExpenseByCategory(input) = MonthlyByKey(Categories(E), input)
      /\ MonthlyExpenseByTopCategory(input) = MonthlyByKey(Roots(E), input)
  BY DEF MonthlyExpense, YearlyExpense, MonthlyExpenseByCategory,
         MonthlyExpenseByTopCategory
<1>5. /\ charts.expense = MonthlyExpense(input)
      /\ charts.yearly = YearlyExpense(input)
      /\ charts.byTopCategory = MonthlyExpenseByTopCategory(input)
      /\ charts.byCategory = MonthlyExpenseByCategory(input)
      /\ charts.fanout = FanoutByRootCategory(input)
  BY DEF ExpenseCharts
<1>6. DOMAIN Categories(E) = E /\ DOMAIN Roots(E) = E
  BY DEF Categories, Roots
<1> HIDE DEF E, charts, total
<1>7. \A granularity \in Granularities :
         SumOf(Bar(Series(Own(E), granularity), input.interval, granularity)) = total.spent
  BY <1>1, <1>2, <1>3, BarAddsUp
<1>8. "month" \in Granularities /\ "year" \in Granularities
  BY DEF Granularities
<1>9. /\ SumOfStacks(MonthlyByKey(Categories(E), input)) = total.spent
      /\ SumOfStacks(MonthlyByKey(Roots(E), input)) = total.spent
  BY <1>1, <1>2, <1>6, StacksAddUp
<1>10. SumOf([root \in DOMAIN charts.fanout |-> SumOfStacks(charts.fanout[root])])
         = total.spent
  BY <1>5, FanoutAddsUp, Zenon DEF total
<1>11. /\ SumOf(charts.expense) = total.spent
       /\ SumOfStacks(charts.byTopCategory) = total.spent
       /\ SumOfStacks(charts.byCategory) = total.spent
       /\ SpansYear(input) => SumOf(charts.yearly) = total.spent
  BY <1>4, <1>5, <1>7, <1>8, <1>9
<1> QED BY <1>10, <1>11 DEF ExpenseAddsUp, charts, total

LEMMA IncomeChartsAddUp ==
  ASSUME NEW input, IsInput(input)
  PROVE  IncomeAddsUp(IncomeCharts(input), PeriodSummary(input), SpansYear(input))
<1> DEFINE I == Income(input)
           charts == IncomeCharts(input)
           total == PeriodSummary(input)
<1>1. /\ Counted(Own(I)) /\ DOMAIN Own(I) = I /\ I \subseteq input.xs
      /\ \A x \in I : IsWithin(x.t.time, input.interval)
  BY EntriesOf, ValuesOf
<1>2. total.received = SumFunction(Own(I))
  BY DEF PeriodSummary, Summary
<1>3. input.interval \in [start : Int, end : Int]
  BY DEF IsInput
<1>4. /\ MonthlyIncome(input) = Bar(Series(Own(I), "month"), input.interval, "month")
      /\ SpansYear(input) => YearlyIncome(input)
            = Bar(Series(Own(I), "year"), input.interval, "year")
      /\ MonthlyIncomeByCategory(input) = MonthlyByKey(Categories(I), input)
  BY DEF MonthlyIncome, YearlyIncome, MonthlyIncomeByCategory
<1>5. /\ charts.income = MonthlyIncome(input)
      /\ charts.yearly = YearlyIncome(input)
      /\ charts.byCategory = MonthlyIncomeByCategory(input)
  BY DEF IncomeCharts
<1>6. DOMAIN Categories(I) = I
  BY DEF Categories
<1> HIDE DEF I, charts, total
<1>7. \A granularity \in Granularities :
         SumOf(Bar(Series(Own(I), granularity), input.interval, granularity)) = total.received
  BY <1>1, <1>2, <1>3, BarAddsUp
<1>8. "month" \in Granularities /\ "year" \in Granularities
  BY DEF Granularities
<1>9. SumOfStacks(MonthlyByKey(Categories(I), input)) = total.received
  BY <1>1, <1>2, <1>6, StacksAddUp
<1>10. /\ SumOf(charts.income) = total.received
       /\ SumOfStacks(charts.byCategory) = total.received
       /\ SpansYear(input) => SumOf(charts.yearly) = total.received
  BY <1>4, <1>5, <1>7, <1>8, <1>9
<1> QED BY <1>10 DEF IncomeAddsUp, charts, total

------------------------------------------------------------------------------
\* The charts of a period: what has a bar of its own and the others.

LEMMA TopAddsUp ==
  ASSUME NEW data, IsFiniteSet(DOMAIN data), \A k \in DOMAIN data : data[k] \in Int
  PROVE  LET shown == TopWithOthers(data)
         IN  SumOf([i \in DOMAIN shown.bars |-> shown.bars[i].amount]) + shown.other.amount
               = SumFunction(data)
<1> DEFINE K == DOMAIN data
           key == [k \in K |-> -data[k]]
           sorted == SortedByKey(key)
           l == Cardinality(K)
           n == TopItemsCount(data)
           m == IF n <= l THEN n ELSE l
           first == {sorted[i] : i \in 1 .. m}
           other == {sorted[i] : i \in n + 1 .. l}
           shown == TopWithOthers(data)
           amounts == [i \in DOMAIN shown.bars |-> shown.bars[i].amount]
<1>1. l \in Nat /\ n \in Nat /\ m \in Nat /\ m <= l
  <2>1. l \in Nat
    BY FS_CardinalityType
  <2>2. n \in Nat
    BY TopItemsAssumption DEF TopItemsCount
  <2> QED BY <2>1, <2>2
<1>2. /\ sorted \in [1 .. l -> K]
      /\ \A i, j \in 1 .. l : sorted[i] = sorted[j] => i = j
      /\ \A k \in K : \E i \in 1 .. l : sorted[i] = k
  <2>1. key \in [K -> Int]
    OBVIOUS
  <2> HIDE DEF key
  <2> QED BY <2>1, SortedFacts
<1>3. Len(sorted) = l
  <2> HIDE DEF sorted, l
  <2> QED BY <1>1, <1>2, SequenceOf
<1>4. Min({n, l}) = m
  <2> HIDE DEF n, l
  <2> QED BY <1>1, PairEnds
<1> DEFINE top == SubSeq(sorted, 1, m)
<1>5. DOMAIN top = 1 .. m /\ \A i \in 1 .. m : top[i] = sorted[i]
  <2> HIDE DEF sorted, K, l, n, m
  <2>1. \A i \in 1 .. m : sorted[i] \in K
    BY <1>1, <1>2
  <2>2. 1 \in Int /\ m \in Int
    BY <1>1
  <2> HIDE DEF top
  <2>3. /\ top \in Seq(K)
        /\ Len(top) = IF 1 <= m THEN m - 1 + 1 ELSE 0
        /\ \A i \in 1 .. m - 1 + 1 : top[i] = sorted[1 + i - 1]
    BY <2>1, <2>2, SubSeqProperties DEF top
  <2>4. Len(top) = m
    BY <1>1, <2>3
  <2>5. \A i \in 1 .. m : i \in 1 .. m - 1 + 1 /\ 1 + i - 1 = i
    BY <1>1
  <2> QED BY <2>3, <2>4, <2>5
<1>6. /\ shown.other.amount = SumFunctionOnSet(data, other)
      /\ DOMAIN shown.bars = 1 .. m
      /\ \A i \in 1 .. m : shown.bars[i].amount = data[sorted[i]]
  <2> DEFINE best == TopN(data, n)
  <2>1. best.top = top /\ best.otherSum = SumFunctionOnSet(data, other)
    <3> HIDE DEF n, top, m
    <3> QED BY <1>3, <1>4 DEF TopN, top
  <2> HIDE DEF best, top
  <2>2. /\ shown.bars = [i \in DOMAIN best.top |->
                           [name |-> best.top[i], amount |-> data[best.top[i]]]]
        /\ shown.other.amount = best.otherSum
    BY DEF TopWithOthers, best
  <2> HIDE DEF shown, sorted
  <2> QED BY <1>5, <2>1, <2>2
<1> HIDE DEF shown, sorted, key, K, n, l, m, top
<1>7. /\ DOMAIN amounts = 1 .. m
      /\ \A i \in 1 .. m : amounts[i] = data[sorted[i]] /\ sorted[i] \in K
                           /\ amounts[i] \in Int
  <2>1. \A i \in 1 .. m : i \in 1 .. l
    BY <1>1
  <2>2. \A i \in 1 .. m : sorted[i] \in K
    BY <1>2, <2>1
  <2> QED BY <1>6, <2>2 DEF K
<1> HIDE DEF amounts
<1>8. SumFunctionOnSet(data, first) = SumFunctionOnSet(amounts, 1 .. m)
  <2> DEFINE T == 1 .. m
  <2>1. 1 \in Int /\ m \in Int
    BY <1>1
  <2>2. IsFiniteSet(T)
    BY <2>1, FS_Interval
  <2>3. \A i \in T : amounts[i] \in Int /\ data[sorted[i]] = amounts[i] /\ sorted[i] \in first
    BY <1>7
  <2>4. \A i, j \in T : sorted[i] = sorted[j] => i = j
    BY <1>1, <1>2
  <2>5. \A k \in first : \E i \in T : sorted[i] = k
    OBVIOUS
  <2> HIDE DEF T, first
  <2>6. SumFunctionOnSet(data, first) = SumFunctionOnSet(amounts, T)
    BY <2>2, <2>3, <2>4, <2>5, SumOver
  <2> QED BY <2>6 DEF T
<1>9. first \cup other = K /\ first \cap other = {}
  <2>1. \A i \in 1 .. l : i \in 1 .. m <=> i \notin n + 1 .. l
    BY <1>1 DEF m
  <2>2. \A i \in 1 .. m : i \in 1 .. l
    BY <1>1
  <2>3. \A i \in n + 1 .. l : i \in 1 .. l
    BY <1>1
  <2>4. first \cup other \subseteq K
    BY <1>2, <2>2, <2>3
  <2>5. K \subseteq first \cup other
    <3> SUFFICES ASSUME NEW k \in K PROVE k \in first \cup other
      OBVIOUS
    <3>1. PICK i \in 1 .. l : sorted[i] = k
      BY <1>2
    <3> QED BY <2>1, <3>1
  <2>6. first \cap other = {}
    BY <1>2, <2>1, <2>2, <2>3
  <2> QED BY <2>4, <2>5, <2>6
<1> HIDE DEF first, other
<1>10. SumFunctionOnSet(data, first \cup other)
         = SumFunctionOnSet(data, first) + SumFunctionOnSet(data, other)
  <2>1. IsFiniteSet(first) /\ IsFiniteSet(other)
    BY <1>9, FS_Subset DEF K
  <2>2. \A k \in first \cup other : data[k] \in Int
    BY <1>9 DEF K
  <2> QED BY <1>9, <2>1, <2>2, SumOfUnion
<1>11. SumFunction(data) = SumFunctionOnSet(data, first \cup other)
  BY <1>9 DEF SumFunction, K
<1>12. SumOf(amounts) = SumFunctionOnSet(amounts, 1 .. m)
  BY <1>7 DEF SumOf, SumFunction
<1> QED BY <1>6, <1>8, <1>10, <1>11, <1>12 DEF amounts, shown

LEMMA PeriodChartsAddUp ==
  ASSUME NEW input, IsInput(input), NEW kind \in PeriodPages
  PROVE  PeriodAddsUp(PeriodStats(kind, input))
<1> DEFINE E == Expenses(input)
           I == Income(input)
           shown == MonthlyStats(input)
<1>1. /\ IsFiniteSet(E) /\ DOMAIN Own(E) = E /\ \A x \in E : Own(E)[x] \in Int
      /\ IsFiniteSet(I) /\ DOMAIN Own(I) = I /\ \A x \in I : Own(I)[x] \in Int
  BY EntriesOf DEF Own
<1>2. PeriodStats(kind, input) = shown
  <2>1. kind = "month" \/ kind = "quarter" \/ kind = "year"
    BY DEF PeriodPages
  <2> QED BY <2>1 DEF PeriodStats, QuarterlyStats, YearlyStats
<1>3. /\ shown.byCategory = SumBy(Categories(E), Own(E))
      /\ shown.byTopCategory = SumBy(Roots(E), Own(E))
      /\ shown.incomes = SumBy(Categories(I), Own(I))
      /\ shown.vendors = TopWithOthers(SumBy(Vendors(E), Own(E)))
      /\ shown.summary.spent = SumFunction(Own(E))
      /\ shown.summary.received = SumFunction(Own(I))
  BY DEF MonthlyStats, ExpenseByCategory, ExpenseByTopCategory, IncomeByCategory,
         VendorsByAmount, PeriodSummary, Summary
<1>4. /\ DOMAIN Categories(E) = E /\ DOMAIN Roots(E) = E /\ DOMAIN Vendors(E) = E
      /\ DOMAIN Categories(I) = I
  BY DEF Categories, Roots, Vendors
<1> HIDE DEF E, I, shown
<1>5. /\ SumFunction(SumBy(Categories(E), Own(E))) = SumFunction(Own(E))
      /\ SumFunction(SumBy(Roots(E), Own(E))) = SumFunction(Own(E))
      /\ SumFunction(SumBy(Categories(I), Own(I))) = SumFunction(Own(I))
  BY <1>1, <1>4, SumByAddsUp
<1> DEFINE byVendor == SumBy(Vendors(E), Own(E))
<1>6. /\ SumFunction(byVendor) = SumFunction(Own(E))
      /\ IsFiniteSet(DOMAIN byVendor)
      /\ \A k \in DOMAIN byVendor : byVendor[k] \in Int
  BY <1>1, <1>4, SumByAddsUp
<1> HIDE DEF byVendor
<1>7. SumOf([i \in DOMAIN shown.vendors.bars |-> shown.vendors.bars[i].amount])
         + shown.vendors.other.amount = SumFunction(Own(E))
  <2>1. shown.vendors = TopWithOthers(byVendor)
    BY <1>3 DEF byVendor
  <2> DEFINE vendors == TopWithOthers(byVendor)
  <2>2. SumOf([i \in DOMAIN vendors.bars |-> vendors.bars[i].amount])
          + vendors.other.amount = SumFunction(byVendor)
    BY <1>6, TopAddsUp
  <2> HIDE DEF vendors
  <2>3. shown.vendors = vendors
    BY <2>1 DEF vendors
  <2> QED BY <1>6, <2>2, <2>3, Zenon
<1>8. PeriodAddsUp(shown)
  BY <1>3, <1>5, <1>7 DEF PeriodAddsUp, SumOf
<1> QED BY <1>2, <1>8

------------------------------------------------------------------------------
\* The periods to choose from cover the history without an overlap.

LEMMA PeriodHolds ==
  ASSUME NEW granularity \in Granularities, NEW p \in Int, NEW when \in Int
  PROVE  IsWithin(when, PeriodInterval(p, granularity)) <=> PeriodOf(when, granularity) = p
<1> DEFINE d == PeriodLength[granularity]
           start == p * d
           next == (p + 1) * d
<1>1. d \in Nat \ {0}
  BY PeriodLengths DEF Granularities
<1>2. PeriodInterval(p, granularity) = [start |-> start, end |-> next - 1]
  BY DEF PeriodInterval, Interval
<1>3. PeriodOf(when, granularity) = when \div d
  BY DEF PeriodOf
<1> HIDE DEF d
<1>4. start \in Int /\ next \in Int
  BY <1>1
<1>5. start < next
  BY <1>1, TimesGrows
<1>6. start <= when /\ when < next => when \div d = p
  BY <1>1, QuotientIs
<1>7. when \div d = p => start <= when /\ when < next
  BY <1>1, Quotient
<1> HIDE DEF start, next
<1>8. IsWithin(when, PeriodInterval(p, granularity)) <=> start <= when /\ when <= next - 1
  <2>1. next - 1 \in Int /\ start <= next - 1
    BY <1>4, <1>5
  <2>2. Min({start, next - 1}) = start /\ Max({start, next - 1}) = next - 1
    BY <1>4, <2>1, PairEnds
  <2> QED BY <1>2, <2>2 DEF IsWithin
<1>9. when <= next - 1 <=> when < next
  BY <1>4
<1> QED BY <1>3, <1>6, <1>7, <1>8, <1>9

LEMMA PeriodsCover ==
  ASSUME TypeOK, transactions # {}, NEW kind \in PeriodPages,
         NEW S, IsFiniteSet(S), \A x \in S : x.t \in transactions /\ x.own \in Int
  PROVE  SumOf([i \in DOMAIN Slices(kind) |->
                   SumFunction(Own({x \in S : IsWithin(x.t.time, Slices(kind)[i])}))])
           = SumFunction(Own(S))
<1> DEFINE periods == SliceInterval(AllDataInterval, kind)
           parts == [i \in DOMAIN Slices(kind) |->
                        {x \in S : IsWithin(x.t.time, Slices(kind)[i])}]
           sums == [i \in DOMAIN Slices(kind) |->
                        SumFunction(Own({x \in S : IsWithin(x.t.time, Slices(kind)[i])}))]
           own == Own(S)
<1>1. kind \in Granularities
  BY DEF PeriodPages, Granularities
<1>2. AllDataInterval = [start |-> Min(Times), end |-> Max(Times)]
  BY DEF AllDataInterval, Interval, Times
<1>3. /\ Min(Times) \in Int /\ Max(Times) \in Int
      /\ \A t \in transactions : /\ t.time \in Int
                                 /\ Min(Times) <= t.time /\ t.time <= Max(Times)
  <2>1. \A t \in transactions : t.time \in Times
    BY DEF Times
  <2>2. Times \subseteq Int
    BY TimesOf DEF TypeOK
  <2> QED BY <2>1, <2>2, HistoryEnds DEF TypeOK
<1>4. AllDataInterval \in [start : Int, end : Int]
  BY <1>2, <1>3
<1>5. \A t \in transactions : IsWithin(t.time, AllDataInterval)
  <2> SUFFICES ASSUME NEW t \in transactions PROVE IsWithin(t.time, AllDataInterval)
    OBVIOUS
  <2> DEFINE a == Min(Times)
             b == Max(Times)
  <2>1. a \in Int /\ b \in Int /\ a <= t.time /\ t.time <= b /\ t.time \in Int
    BY <1>3
  <2>2. AllDataInterval.start = a /\ AllDataInterval.end = b
    BY <1>2
  <2> HIDE DEF a, b
  <2>3. Min({a, b}) = a /\ Max({a, b}) = b
    BY <2>1, PairEnds
  <2> QED BY <2>1, <2>2, <2>3 DEF IsWithin
<1>6. PICK n \in Nat \ {0} :
        /\ periods \in [1 .. n -> Int]
        /\ \A i, j \in 1 .. n : periods[i] = periods[j] => i = j
        /\ \A when \in Int : IsWithin(when, AllDataInterval) =>
              \E i \in 1 .. n : periods[i] = PeriodOf(when, kind)
  BY <1>1, <1>4, SlicesCover
<1>7. /\ DOMAIN Slices(kind) = 1 .. n
      /\ \A i \in 1 .. n : Slices(kind)[i] = PeriodInterval(periods[i], kind)
  BY <1>6 DEF Slices
<1> HIDE DEF periods
<1>8. \A x \in S : x.t.time \in Int /\ \E i \in 1 .. n : periods[i] = PeriodOf(x.t.time, kind)
  BY <1>3, <1>5, <1>6
<1> DEFINE key == [x \in S |-> CHOOSE i \in 1 .. n : periods[i] = PeriodOf(x.t.time, kind)]
<1>9. \A x \in S : key[x] \in 1 .. n /\ periods[key[x]] = PeriodOf(x.t.time, kind)
  BY <1>8
<1>10. ASSUME NEW i \in 1 .. n
       PROVE  /\ parts[i] \subseteq S
              /\ \A x \in S : x \in parts[i] <=> key[x] = i
  <2>1. parts[i] = {x \in S : IsWithin(x.t.time, PeriodInterval(periods[i], kind))}
    BY <1>7
  <2>2. \A x \in S : IsWithin(x.t.time, PeriodInterval(periods[i], kind))
                       <=> PeriodOf(x.t.time, kind) = periods[i]
    BY <1>1, <1>6, <1>8, PeriodHolds
  <2> HIDE DEF parts, key
  <2>3. \A x \in S : x \in parts[i] <=> PeriodOf(x.t.time, kind) = periods[i]
    BY <2>1, <2>2
  <2>4. \A x \in S : PeriodOf(x.t.time, kind) = periods[i] <=> key[x] = i
    BY <1>6, <1>9
  <2> QED BY <2>1, <2>3, <2>4
<1>11. DOMAIN own = S /\ \A x \in S : own[x] = x.own /\ own[x] \in Int
  BY DEF Own
<1> HIDE DEF key
<1>12. ASSUME NEW i \in 1 .. n
       PROVE  sums[i] = SumFunctionOnSet(own, parts[i])
  <2> DEFINE P == {x \in S : IsWithin(x.t.time, Slices(kind)[i])}
  <2>1. sums[i] = SumFunction(Own(P)) /\ parts[i] = P
    BY <1>7
  <2>2. P \subseteq S
    OBVIOUS
  <2> HIDE DEF P, sums, parts, own
  <2>3. SumFunction(Own(P)) = SumFunctionOnSet(Own(P), P)
    BY DEF SumFunction, Own
  <2>4. SumFunctionOnSet(Own(P), P) = SumFunctionOnSet(own, P)
    <3>1. IsFiniteSet(P)
      BY <2>2, FS_Subset
    <3>2. \A x \in P : own[x] \in Int /\ Own(P)[x] = own[x]
      BY <1>11, <2>2 DEF Own
    <3> QED BY <3>1, <3>2, SumSame
  <2> QED BY <2>1, <2>3, <2>4
<1>13. SumOf(sums) = SumFunctionOnSet(sums, 1 .. n)
  BY <1>7 DEF SumOf, SumFunction
<1> HIDE DEF sums, parts, own
<1>14. Grouped(own, S, key, 1 .. n, parts, sums)
  <2>1. 1 \in Int /\ n \in Int
    OBVIOUS
  <2>2. IsFiniteSet(1 .. n)
    BY <2>1, FS_Interval
  <2> QED BY <1>9, <1>10, <1>11, <1>12, <2>2 DEF Grouped
<1>15. SumFunctionOnSet(sums, 1 .. n) = SumFunctionOnSet(own, S)
  BY <1>14, SumByKey
<1>16. SumFunction(own) = SumFunctionOnSet(own, S)
  BY <1>11 DEF SumFunction
<1> QED BY <1>13, <1>15, <1>16 DEF sums, own

LEMMA HistoryOf ==
  ASSUME TypeOK, MarketModelBuilds, transactions # {}, NEW kind \in PeriodPages
  PROVE  HistoryAddsUp(kind, StatsInput(kind))
<1> DEFINE used == FilterExcluded(excluded)
           input == StatsInput(kind)
           of(interval) == StatsPageProps(excluded, interval)
           spent == ExpensesAllTime(input)
           received == IncomeAllTime(input)
<1>1. used \subseteq transactions
  BY DEF FilterExcluded
<1>2. duration \in [start : Int, end : Int]
  BY DEF TypeOK
<1>3. /\ input = ExchangedIntervalTransactions(used, duration)
      /\ \A interval : of(interval) = ExchangedIntervalTransactions(used, interval)
  BY DEF StatsInput, StatsPageProps
<1>4. \A interval : of(interval).xs = input.xs /\ of(interval).interval = interval
  <2> HIDE DEF input, of, used
  <2> QED BY <1>3 DEF ExchangedIntervalTransactions, Separated
<1>5. IsInput(input)
  <2> HIDE DEF input, used
  <2> QED BY <1>1, <1>2, <1>3, InputIs
<1>6. \A x \in input.xs : x.t \in transactions
  <2>1. \A t \in used : ExchangedTransaction(t).t = t
    BY <1>1, ExchangedAmounts
  <2> HIDE DEF input, used
  <2>2. \A x \in input.xs : x.t \in used
    BY <1>3, <2>1, WhatIsExchanged
  <2> QED BY <1>1, <2>2
<1> HIDE DEF used, input, of
<1>7. \A interval :
        /\ PeriodSummary(of(interval)).spent
             = SumFunction(Own({x \in spent : IsWithin(x.t.time, interval)}))
        /\ PeriodSummary(of(interval)).received
             = SumFunction(Own({x \in received : IsWithin(x.t.time, interval)}))
  BY <1>4 DEF PeriodSummary, Summary, Expenses, Income, ExpensesAllTime, IncomeAllTime
<1>8. /\ IsFiniteSet(spent) /\ \A x \in spent : x.t \in transactions /\ x.own \in Int
      /\ IsFiniteSet(received) /\ \A x \in received : x.t \in transactions /\ x.own \in Int
  BY <1>5, <1>6, EntriesOf
<1> HIDE DEF spent, received
<1>9. OfPeriods(kind, LAMBDA s : s.spent) = SumFunction(Own(spent))
  <2>1. OfPeriods(kind, LAMBDA s : s.spent)
          = SumOf([i \in DOMAIN Slices(kind) |->
                      PeriodSummary(of(Slices(kind)[i])).spent])
    BY DEF OfPeriods, of
  <2>2. SumOf([i \in DOMAIN Slices(kind) |->
                  SumFunction(Own({x \in spent : IsWithin(x.t.time, Slices(kind)[i])}))])
          = SumFunction(Own(spent))
    BY <1>8, PeriodsCover
  <2>3. [i \in DOMAIN Slices(kind) |-> PeriodSummary(of(Slices(kind)[i])).spent]
          = [i \in DOMAIN Slices(kind) |->
                SumFunction(Own({x \in spent : IsWithin(x.t.time, Slices(kind)[i])}))]
    BY <1>7
  <2> QED BY <2>1, <2>2, <2>3
<1>10. OfPeriods(kind, LAMBDA s : s.received) = SumFunction(Own(received))
  <2>1. OfPeriods(kind, LAMBDA s : s.received)
          = SumOf([i \in DOMAIN Slices(kind) |->
                      PeriodSummary(of(Slices(kind)[i])).received])
    BY DEF OfPeriods, of
  <2>2. SumOf([i \in DOMAIN Slices(kind) |->
                  SumFunction(Own({x \in received : IsWithin(x.t.time, Slices(kind)[i])}))])
          = SumFunction(Own(received))
    BY <1>8, PeriodsCover
  <2>3. [i \in DOMAIN Slices(kind) |-> PeriodSummary(of(Slices(kind)[i])).received]
          = [i \in DOMAIN Slices(kind) |->
                SumFunction(Own({x \in received : IsWithin(x.t.time, Slices(kind)[i])}))]
    BY <1>7
  <2> QED BY <2>1, <2>2, <2>3
<1>11. PeriodAddsUp(PeriodStats(kind, input))
  BY <1>5, PeriodChartsAddUp
<1> QED BY <1>9, <1>10, <1>11 DEF HistoryAddsUp, input, spent, received

(* The charts over time show all of the interval, whichever way its ends   *)
(* lie and wherever in a month they fall: by month, by year, by category,  *)
(* by root category and in the charts of the roots the bars add up to what *)
(* was spent and received, and the line of what was saved ends there.  The *)
(* periods to choose from cover the history without an overlap, and within *)
(* each the categories and the vendors add up.  For every forest of        *)
(* categories, calendar of equal months, market and snapshot.              *)
THEOREM ChartsShowEverything == Spec => []ChartsAddUp
<1>1. TypeOK => ChartsAddUp
  <2> SUFFICES ASSUME TypeOK, MarketModelBuilds
               PROVE  ChartsAddUp
    BY DEF ChartsAddUp
  <2>1. ASSUME page.kind \in DurationPages
        PROVE  InputAddsUp(page.kind, StatsInput(page.kind))
    <3> DEFINE input == StatsInput(page.kind)
    <3>1. IsInput(input)
      <4>1. FilterExcluded(excluded) \in SUBSET transactions
        BY DEF FilterExcluded
      <4>2. duration \in [start : Int, end : Int]
        BY DEF TypeOK
      <4> QED BY <4>1, <4>2, InputIs DEF StatsInput, StatsPageProps
    <3> HIDE DEF input
    <3>2. page.kind = "cashflow" \/ page.kind = "expense" \/ page.kind = "income"
      BY <2>1 DEF DurationPages
    <3>3. InputAddsUp(page.kind, input)
      BY <3>1, <3>2, CashflowChartsAddUp, ExpenseChartsAddUp, IncomeChartsAddUp
         DEF InputAddsUp
    <3> QED BY <3>3 DEF input
  <2>2. ASSUME page.kind \in PeriodPages, transactions # {}
        PROVE  HistoryAddsUp(page.kind, StatsInput(page.kind))
    BY <2>2, HistoryOf
  <2> QED BY <2>1, <2>2 DEF ChartsAddUp
<1> QED BY <1>1, PagesTypeCorrect, PTL

------------------------------------------------------------------------------
\* The statistics about what was found.

LEMMA SizesAdd ==
  ASSUME NEW S, IsFiniteSet(S), NEW T, IsFiniteSet(T), S \cap T = {}
  PROVE  /\ IsFiniteSet(S \cup T)
         /\ Cardinality(S \cup T) = Cardinality(S) + Cardinality(T)
<1>1. /\ IsFiniteSet(S \cup T)
      /\ Cardinality(S \cup T) = Cardinality(S) + Cardinality(T) - Cardinality(S \cap T)
  BY FS_Union
<1>2. Cardinality(S \cap T) = 0 /\ Cardinality(S) \in Nat /\ Cardinality(T) \in Nat
  BY FS_EmptySet, FS_CardinalityType
<1> QED BY <1>1, <1>2

\* As many transactions as entries.
LEMMA SizeOfEntries ==
  ASSUME NEW input, IsInput(input), NEW S, S \subseteq input.xs
  PROVE  LET ts == {x.t : x \in S}
         IN  IsFiniteSet(ts) /\ Cardinality(ts) = Cardinality(S)
<1> DEFINE ts == {x.t : x \in S}
           of == [x \in S |-> x.t]
<1>1. IsFiniteSet(S) /\ \A x, y \in S : x.t = y.t => x = y
  BY FS_Subset DEF IsInput
<1>2. of \in Bijection(S, ts)
  BY <1>1 DEF Bijection, Injection, Surjection, IsInjective
<1> HIDE DEF of, ts
<1>3. IsFiniteSet(ts) /\ Cardinality(ts) = Cardinality(S)
  BY <1>1, <1>2, FS_Bijection DEF ExistsBijection
<1> QED BY <1>3 DEF ts

LEMMA SpanOf ==
  ASSUME TypeOK, NEW found \in SUBSET transactions, found # {}
  PROVE  /\ Span(found) \in [start : Int, end : Int]
         /\ \A t \in found : IsWithin(t.time, Span(found))
<1> DEFINE times == {t.time : t \in found}
           a == Min(times)
           b == Max(times)
<1>1. times \subseteq Times /\ times # {}
  BY DEF Times
<1>2. IsFiniteSet(times) /\ times \subseteq Int
  <2> HIDE DEF times
  <2> QED BY <1>1, TimesOf, FS_Subset DEF TypeOK
<1>3. Span(found).start = a /\ Span(found).end = b
      /\ Span(found) = [start |-> a, end |-> b]
  BY DEF Span, Interval
<1>4. \A t \in found : t.time \in times
  OBVIOUS
<1> HIDE DEF times
<1>5. /\ a \in times /\ \A when \in times : a <= when
      /\ b \in times /\ \A when \in times : when <= b
  BY <1>1, <1>2, MinIsLeast, MaxIsGreatest
<1> HIDE DEF a, b
<1>6. a \in Int /\ b \in Int /\ a <= b
  BY <1>2, <1>5
<1>7. Min({a, b}) = a /\ Max({a, b}) = b
  BY <1>6, PairEnds
<1>8. ASSUME NEW t \in found
      PROVE  IsWithin(t.time, Span(found))
  <2>1. a <= t.time /\ t.time <= b
    BY <1>4, <1>5
  <2> QED BY <1>3, <1>7, <2>1 DEF IsWithin
<1> QED BY <1>3, <1>6, <1>8

LEMMA CountsOfFound ==
  ASSUME TypeOK, MarketModelBuilds, NEW found \in SUBSET transactions, found # {}
  PROVE  CountsAddUp(found, FoundInput(found), TextSummary(FoundInput(found)))
<1> DEFINE input == FoundInput(found)
           xs == input.xs
           text == TextSummary(input)
           kept == {x.t : x \in xs}
           personal == {x \in xs : IsPersonalExpense(x.t)}
           external == {x \in xs : IsThirdPartyExpense(x.t)}
           transfers == {x \in xs : IsTransfer(x.t)}
           income == {x \in xs : IsIncome(x.t)}
           openings == {x \in xs : IsOpeningBalance(x.t)}
<1>1. /\ Span(found) \in [start : Int, end : Int]
      /\ \A t \in found : IsWithin(t.time, Span(found))
  BY SpanOf
<1>2. input = ExchangedIntervalTransactions(found, Span(found))
  BY DEF FoundInput
<1>3. IsInput(input) /\ input.interval = Span(found)
  <2> HIDE DEF input
  <2> QED BY <1>1, <1>2, InputIs
<1>4. \A t \in found : ExchangedTransaction(t).t = t
  BY ExchangedAmounts
<1>5. /\ \A x \in xs : x.t \in found /\ x = ExchangedTransaction(x.t)
      /\ \A t \in found : t \in input.failed <=> ExchangedTransaction(t) \notin xs
      /\ input.failed \subseteq found
  <2> HIDE DEF input
  <2> QED BY <1>2, <1>4, WhatIsExchanged
<1> HIDE DEF input
<1>6. text.matched = Cardinality(xs)
  BY DEF TextSummary
<1>7. text.matched + Cardinality(input.failed) = Cardinality(found)
  <2>1. kept \cup input.failed = found /\ kept \cap input.failed = {}
    <3>1. \A t \in found : t \in kept <=> ExchangedTransaction(t) \in xs
      BY <1>4, <1>5
    <3> QED BY <1>5, <3>1
  <2>2. IsFiniteSet(kept) /\ Cardinality(kept) = Cardinality(xs)
    BY <1>3, SizeOfEntries
  <2>3. IsFiniteSet(found)
    BY TimesOf, FS_Subset DEF TypeOK
  <2>4. IsFiniteSet(input.failed)
    BY <1>5, <2>3, FS_Subset
  <2> HIDE DEF kept, text
  <2>5. Cardinality(kept \cup input.failed) = Cardinality(kept) + Cardinality(input.failed)
    BY <2>1, <2>2, <2>4, SizesAdd
  <2> QED BY <1>6, <2>1, <2>2, <2>5
<1>8. /\ Expenses(input) = {x \in xs : IsExpense(x.t)}
      /\ Income(input) = income
  BY <1>1, <1>3, <1>5 DEF Expenses, Income, ExpensesAllTime, IncomeAllTime
<1>9. /\ text.personal = Cardinality(personal)
      /\ text.external = Cardinality(external)
      /\ text.income = Cardinality(income)
      /\ text.transfers = Cardinality(transfers)
  <2>1. /\ {x \in Expenses(input) : IsPersonalExpense(x.t)} = personal
        /\ {x \in Expenses(input) : IsThirdPartyExpense(x.t)} = external
    BY <1>8 DEF IsExpense
  <2>2. Transfers(input) = {x.t : x \in transfers}
    BY DEF Transfers
  <2>3. Cardinality({x.t : x \in transfers}) = Cardinality(transfers)
    <3>1. transfers \subseteq xs
      OBVIOUS
    <3> HIDE DEF transfers
    <3> QED BY <1>3, <3>1, SizeOfEntries
  <2>4. /\ text.personal = Cardinality({x \in Expenses(input) : IsPersonalExpense(x.t)})
        /\ text.external = Cardinality({x \in Expenses(input) : IsThirdPartyExpense(x.t)})
        /\ text.transfers = Cardinality(Transfers(input))
        /\ text.income = Cardinality(Income(input))
    BY DEF TextSummary
  <2> HIDE DEF text, personal, external, transfers, income
  <2> QED BY <1>8, <2>1, <2>2, <2>3, <2>4
<1>10. /\ IsFiniteSet(personal) /\ IsFiniteSet(external) /\ IsFiniteSet(transfers)
       /\ IsFiniteSet(income) /\ IsFiniteSet(openings)
  <2>1. \A S : S \subseteq xs => IsFiniteSet(S)
    BY <1>3, FS_Subset DEF IsInput
  <2> QED BY <2>1
<1>11. xs = personal \cup external \cup transfers \cup income \cup openings
  <2> SUFFICES ASSUME NEW x \in xs
               PROVE  x \in personal \cup external \cup transfers \cup income \cup openings
    OBVIOUS
  <2>1. x.t.kind \in Kinds
    BY <1>3 DEF IsInput, WellFormed
  <2> QED BY <2>1 DEF Kinds, IsPersonalExpense, IsThirdPartyExpense, IsTransfer,
            IsIncome, IsOpeningBalance
<1>12. /\ personal \cap external = {}
       /\ (personal \cup external) \cap transfers = {}
       /\ (personal \cup external \cup transfers) \cap income = {}
       /\ (personal \cup external \cup transfers \cup income) \cap openings = {}
  BY DEF IsPersonalExpense, IsThirdPartyExpense, IsTransfer, IsIncome, IsOpeningBalance
<1>a. openings = {x \in input.xs : IsOpeningBalance(x.t)}
  OBVIOUS
<1> HIDE DEF personal, external, transfers, income, openings, xs, text
<1>13. Cardinality(xs) = Cardinality(personal) + Cardinality(external)
          + Cardinality(transfers) + Cardinality(income) + Cardinality(openings)
  <2>1. /\ IsFiniteSet(personal \cup external)
        /\ Cardinality(personal \cup external)
             = Cardinality(personal) + Cardinality(external)
    BY <1>10, <1>12, SizesAdd
  <2>2. /\ IsFiniteSet(personal \cup external \cup transfers)
        /\ Cardinality(personal \cup external \cup transfers)
             = Cardinality(personal \cup external) + Cardinality(transfers)
    BY <1>10, <1>12, <2>1, SizesAdd
  <2>3. /\ IsFiniteSet(personal \cup external \cup transfers \cup income)
        /\ Cardinality(personal \cup external \cup transfers \cup income)
             = Cardinality(personal \cup external \cup transfers) + Cardinality(income)
    BY <1>10, <1>12, <2>2, SizesAdd
  <2>4. Cardinality(xs)
          = Cardinality(personal \cup external \cup transfers \cup income)
              + Cardinality(openings)
    BY <1>10, <1>11, <1>12, <2>3, SizesAdd
  <2> QED BY <2>1, <2>2, <2>3, <2>4
<1> QED BY <1>6, <1>7, <1>9, <1>13, <1>a DEF CountsAddUp, text, input

LEMMA AmountsOfFound ==
  ASSUME NEW input, IsInput(input)
  PROVE  AmountsAddUp(IncomeOrExpenseStats(Expenses(input), input.interval))
<1> DEFINE E == Expenses(input)
           interval == input.interval
           stats == IncomeOrExpenseStats(E, interval)
<1>1. /\ IsFiniteSet(E)
      /\ Counted(Own(E)) /\ DOMAIN Own(E) = E /\ Counted(All(E)) /\ DOMAIN All(E) = E
      /\ \A x \in E : Own(E)[x] \in Int
      /\ \A x \in E : IsWithin(x.t.time, interval)
  <2>1. /\ IsFiniteSet(E)
        /\ \A x \in E : x.own \in Int /\ x.all \in Int /\ WellFormed(x.t)
    BY EntriesOf
  <2>2. \A x \in E : IsWithin(x.t.time, interval)
    BY EntriesOf
  <2> HIDE DEF E, interval
  <2>3. /\ Counted(Own(E)) /\ DOMAIN Own(E) = E /\ \A x \in E : Own(E)[x] = x.own
        /\ Counted(All(E)) /\ DOMAIN All(E) = E
    BY <2>1, ValuesOf
  <2> QED BY <2>1, <2>2, <2>3
<1>2. /\ stats.gross = SumFunction(All(E))
      /\ stats.net = SumFunction(Own(E))
      /\ stats.netByYear = Bar(Series(Own(E), "year"), interval, "year")
      /\ stats.grossByMonth = Bar(Series(All(E), "month"), interval, "month")
      /\ stats.netByMonth = Bar(Series(Own(E), "month"), interval, "month")
      /\ stats.topCategory = SumBy(Roots(E), Own(E))
  BY DEF IncomeOrExpenseStats, TimelineAmounts, ExpenseByTopCategory
<1>3. DOMAIN Roots(E) = E
  BY DEF Roots
<1>4. interval \in [start : Int, end : Int]
  BY DEF IsInput
<1> HIDE DEF E, interval, stats
<1>5. \A granularity \in Granularities :
         /\ SumOf(Bar(Series(Own(E), granularity), interval, granularity))
              = SumFunction(Own(E))
         /\ SumOf(Bar(Series(All(E), granularity), interval, granularity))
              = SumFunction(All(E))
  BY <1>1, <1>4, BarAddsUp
<1>6. SumFunction(SumBy(Roots(E), Own(E))) = SumFunction(Own(E))
  BY <1>1, <1>3, SumByAddsUp
<1>7. "month" \in Granularities /\ "year" \in Granularities
  BY DEF Granularities
<1>8. AmountsAddUp(stats)
  BY <1>2, <1>5, <1>6, <1>7 DEF AmountsAddUp, SumOf
<1> QED BY <1>8 DEF stats, E, interval

\* The place of the p-th percentile among n sorted values.
LEMMA Places ==
  ASSUME NEW n \in Nat \ {0}
  PROVE  LET at(p) == (n * p + 99) \div 100
         IN  /\ at(25) \in 1 .. n /\ at(50) \in 1 .. n /\ at(75) \in 1 .. n
             /\ at(25) <= at(50) /\ at(75) <= n /\ at(100) = n
OBVIOUS

LEMMA PercentilesOf ==
  ASSUME NEW input, IsInput(input), Expenses(input) # {}
  PROVE  PercentilesGrow(Expenses(input), Percentiles(Own(Expenses(input))))
<1> DEFINE E == Expenses(input)
           series == Series(Own(E), "month")
           D == DOMAIN series
           n == Cardinality(D)
           sorted == SortedByKey(series)
           at(p) == (n * p + 99) \div 100
           percentiles == Percentiles(Own(E))
<1>1. Counted(Own(E)) /\ DOMAIN Own(E) = E /\ IsFiniteSet(E)
  BY EntriesOf, ValuesOf
<1>2. D = {PeriodOf(x.t.time, "month") : x \in E}
  BY <1>1 DEF Series
<1>3. IsFiniteSet(D) /\ D # {}
  <2> DEFINE of == [x \in E |-> PeriodOf(x.t.time, "month")]
  <2>1. of \in Surjection(E, D)
    BY <1>2 DEF Surjection
  <2>2. IsFiniteSet(D)
    <3> HIDE DEF of, D, E
    <3> QED BY <1>1, <2>1, FS_Surjection, Zenon DEF ExistsSurjection
  <2> QED BY <1>2, <2>2
<1>4. ASSUME NEW p \in D
      PROVE  series[p] \in Int
  <2> DEFINE A == {x \in E : PeriodOf(x.t.time, "month") = p}
  <2>1. A \subseteq DOMAIN Own(E)
        /\ \A x \in DOMAIN Own(E) : x \in A <=> PeriodOf(x.t.time, "month") = p
    BY <1>1
  <2>2. "month" \in Granularities
    BY DEF Granularities
  <2> HIDE DEF A, E
  <2>3. ValueIn(Series(Own(E), "month"), p) \in Int
    BY <1>1, <2>1, <2>2, SeriesIs
  <2> QED BY <2>3 DEF ValueIn
<1>5. series \in [D -> Int]
  <2>1. series = [p \in D |-> series[p]]
    BY DEF Series
  <2> HIDE DEF series
  <2> QED BY <1>4, <2>1
<1>6. n \in Nat \ {0}
  <2> HIDE DEF D
  <2> QED BY <1>3, FS_CardinalityType, FS_EmptySet
<1>7. /\ percentiles[25] = Percentile(series, 25) /\ percentiles[50] = Percentile(series, 50)
      /\ percentiles[75] = Percentile(series, 75)
      /\ percentiles[100] = Percentile(series, 100)
  BY DEF Percentiles
<1> HIDE DEF series, D, percentiles
<1>8. /\ sorted \in [1 .. n -> D]
      /\ \A p \in D : \E i \in 1 .. n : sorted[i] = p
      /\ \A i, j \in 1 .. n : i < j => series[sorted[i]] <= series[sorted[j]]
  BY <1>3, <1>5, SortedFacts
<1> HIDE DEF sorted, n
<1>9. Len(sorted) = n
  BY <1>6, <1>8, SequenceOf
<1>10. \A p : Percentile(series, p) = series[sorted[at(p)]]
  BY <1>9 DEF Percentile, sorted
<1>11. /\ at(25) \in 1 .. n /\ at(50) \in 1 .. n /\ at(75) \in 1 .. n
       /\ at(25) <= at(50) /\ at(75) <= n /\ at(100) = n
  BY <1>6, Places
<1> HIDE DEF at
<1>12. \A i, j \in 1 .. n : i <= j => series[sorted[i]] <= series[sorted[j]]
  <2> SUFFICES ASSUME NEW i \in 1 .. n, NEW j \in 1 .. n, i <= j
               PROVE  series[sorted[i]] <= series[sorted[j]]
    OBVIOUS
  <2>1. sorted[i] \in D /\ series[sorted[i]] \in Int
    BY <1>5, <1>8
  <2>2. CASE i = j
    BY <2>1, <2>2
  <2>3. CASE i # j
    <3>1. i < j
      BY <1>6, <2>3
    <3> QED BY <1>8, <3>1
  <2> QED BY <2>2, <2>3
<1>13. n \in 1 .. n
  BY <1>6
<1>14. percentiles[25] <= percentiles[50] /\ percentiles[75] <= percentiles[100]
  BY <1>7, <1>10, <1>11, <1>12, <1>13
<1>15. percentiles[100] = Max(Range(series))
  <2> DEFINE R == Range(series)
             top == series[sorted[n]]
  <2>1. \A v \in R : v \in Int /\ v <= top
    <3> SUFFICES ASSUME NEW v \in R PROVE v \in Int /\ v <= top
      OBVIOUS
    <3>1. PICK p \in D : series[p] = v
      BY DEF Range, D
    <3>2. PICK i \in 1 .. n : sorted[i] = p
      BY <1>8
    <3>3. series[sorted[i]] <= series[sorted[n]]
      BY <1>6, <1>12, <1>13
    <3> QED BY <1>5, <3>1, <3>2, <3>3
  <2>2. top \in R
    <3>1. sorted[n] \in D
      BY <1>8, <1>13
    <3> QED BY <3>1 DEF Range, D
  <2>3. IsFiniteSet(R)
    <3>1. DOMAIN series = D
      BY DEF D
    <3> QED BY <1>3, <3>1, KeysOf
  <2> HIDE DEF R, top
  <2>4. R \subseteq Int /\ R # {}
    BY <2>1, <2>2
  <2>5. Max(R) \in R /\ \A v \in R : v <= Max(R)
    BY <2>3, <2>4, MaxIsGreatest
  <2>6. Max(R) = top
    BY <2>1, <2>2, <2>5
  <2> QED BY <1>7, <1>10, <1>11, <2>6 DEF R, top
<1> QED BY <1>14, <1>15 DEF PercentilesGrow, percentiles, E, series

(* What the panel says of the transactions that a search found accounts    *)
(* for all of them, whatever was searched for: each is one of the counts,  *)
(* an opening balance or named as not converted, the bars of each chart    *)
(* add up to the total, and percentiles go up to the largest month         *)
(* (TransactionStats, Timeseries).                                         *)
THEOREM WhatIsFoundAddsUp == Spec => []FoundAddsUp
<1>1. TypeOK => FoundAddsUp
  <2> SUFFICES ASSUME TypeOK, MarketModelBuilds, Filtered # {}
               PROVE  PanelAddsUp(Filtered, FoundInput(Filtered))
    BY DEF FoundAddsUp, StatsAddUp
  <2> DEFINE found == Filtered
             input == FoundInput(found)
  <2>1. found \in SUBSET transactions
    BY DEF Filtered, Search, ResultOf, FallbackSearch
  <2> HIDE DEF found
  <2>2. found # {}
    BY DEF found
  <2>3. Span(found) \in [start : Int, end : Int]
    BY <2>1, <2>2, SpanOf
  <2>4. IsInput(input)
    BY <2>1, <2>3, InputIs DEF FoundInput
  <2>5. CountsAddUp(found, input, TextSummary(input))
    BY <2>1, <2>2, CountsOfFound
  <2> HIDE DEF input
  <2>6. AmountsAddUp(IncomeOrExpenseStats(Expenses(input), input.interval))
    BY <2>4, AmountsOfFound
  <2>7. Expenses(input) # {} =>
           PercentilesGrow(Expenses(input), Percentiles(Own(Expenses(input))))
    BY <2>4, PercentilesOf
  <2> QED BY <2>5, <2>6, <2>7 DEF PanelAddsUp, input, found
<1> QED BY <1>1, PagesTypeCorrect, PTL

=============================================================================
