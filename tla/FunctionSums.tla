---------------------------- MODULE FunctionSums ----------------------------
(***************************************************************************)
(* Facts about SumFunctionOnSet, the sum of a function over a finite set:  *)
(* what the audits that compare one total with the sum of others rest on.  *)
(*                                                                         *)
(* The operator is a recursive function over the subsets of the set.  The  *)
(* first part shows that the recursion is sound and has one solution; the  *)
(* second part is what other proofs cite.                                  *)
(***************************************************************************)
EXTENDS Functions, Integers, FiniteSets, FiniteSetTheorems, WellFoundedInduction, TLAPS

Drawn(T)        == CHOOSE x \in T : TRUE
SumStep(f, T, g) == IF T = {} THEN 0 ELSE f[Drawn(T)] + g[T \ {Drawn(T)}]

\* g is the table of the sums of f over the subsets of S.
IsSumTable(f, S, g) == g = [T \in SUBSET S |-> SumStep(f, T, g)]

\* SumFunctionOnSet(f, S) is read from such a table.
ReadsTable(f, S) ==
  \E g : SumFunctionOnSet(f, S) = g[S] /\ \A T \in SUBSET S : g[T] = SumStep(f, T, g)

\* g is the table of a fold over the subsets of S.
FoldStep(start, pick, F, T, g) ==
  IF T = {} THEN start ELSE F[<<g[T \ {pick[T]}], pick[T]>>]
IsFoldTable(start, pick, F, S, g) == g = [T \in SUBSET S |-> FoldStep(start, pick, F, T, g)]

-----------------------------------------------------------------------------
\* A set of subsets of U that holds a set as soon as it holds every set one
\* element smaller holds all of them.
LEMMA SubsetInduction ==
  ASSUME NEW U, IsFiniteSet(U), NEW Good,
         \A T \in SUBSET U : (\A x \in T : T \ {x} \in Good) => T \in Good
  PROVE  SUBSET U \subseteq Good
PROOF
  <1> DEFINE Sizes == {n \in Nat : \E T \in SUBSET U : T \notin Good /\ Cardinality(T) = n}
  <1>1. ASSUME Sizes # {} PROVE FALSE
    <2>1. PICK n \in Sizes : \A m \in Sizes : ~(<<m, n>> \in OpToRel(<, Nat))
      BY <1>1, WFMin, NatLessThanWellFounded, Sizes \subseteq Nat
    <2>2. PICK T \in SUBSET U : T \notin Good /\ Cardinality(T) = n
      BY <2>1
    <2>3. IsFiniteSet(T)
      BY <2>2, FS_Subset
    <2>4. ASSUME NEW x \in T PROVE T \ {x} \in Good
      <3>1. IsFiniteSet(T \ {x}) /\ Cardinality(T \ {x}) = n - 1 /\ n \in Nat
        BY <2>1, <2>2, <2>3, FS_RemoveElement
      <3>2. n - 1 \in Nat /\ n - 1 < n
        BY <3>1, FS_CardinalityType
      <3>3. n - 1 \notin Sizes
        BY <2>1, <3>1, <3>2 DEF OpToRel
      <3> QED
        BY <3>1, <3>2, <3>3
    <2> QED
      BY <2>2, <2>4
  <1>2. \A T \in SUBSET U : IsFiniteSet(T) /\ Cardinality(T) \in Nat
    BY FS_Subset, FS_CardinalityType
  <1> QED
    BY <1>1, <1>2

\* The table of sums exists for every finite set.
LEMMA SumTableExists ==
  ASSUME NEW f, NEW S, IsFiniteSet(S)
  PROVE  \E g : IsSumTable(f, S, g)
PROOF
  <1> DEFINE Small(n)    == {T \in SUBSET S : Cardinality(T) <= n}
             Partial(n, g) == g = [T \in Small(n) |-> SumStep(f, T, g)]
             Reached     == {n \in Nat : \E g : Partial(n, g)}
  <1>0. \A T \in SUBSET S : IsFiniteSet(T) /\ Cardinality(T) \in Nat
    BY FS_Subset, FS_CardinalityType
  <1>1. 0 \in Reached
    <2>1. \A T \in Small(0) : T = {}
      BY <1>0, FS_EmptySet
    <2> DEFINE g == [T \in Small(0) |-> 0]
    <2>2. \A T \in Small(0) : g[T] = SumStep(f, T, g)
      BY <2>1 DEF SumStep
    <2>3. Partial(0, g)
      BY <2>2
    <2> QED
      BY <2>3
  <1>2. ASSUME NEW n \in Reached PROVE n + 1 \in Reached
    <2>1. PICK g : Partial(n, g)
      OBVIOUS
    <2> DEFINE h == [T \in Small(n + 1) |-> SumStep(f, T, g)]
    <2>2. ASSUME NEW T \in Small(n + 1), T # {}
          PROVE  T \ {Drawn(T)} \in Small(n)
      <3>1. Drawn(T) \in T
        BY <2>2 DEF Drawn
      <3>2. Cardinality(T \ {Drawn(T)}) = Cardinality(T) - 1
        BY <1>0, <3>1, FS_RemoveElement
      <3> QED
        BY <1>0, <3>2
    <2>3. ASSUME NEW T \in Small(n) PROVE T \in Small(n + 1) /\ h[T] = g[T]
      <3>1. T \in Small(n + 1)
        BY <1>0
      <3>2. g[T] = SumStep(f, T, g)
        BY <2>1
      <3> QED
        BY <3>1, <3>2
    <2>4. ASSUME NEW T \in Small(n + 1) PROVE h[T] = SumStep(f, T, h)
      <3>1. CASE T = {}
        BY <3>1 DEF SumStep
      <3>2. CASE T # {}
        <4>1. h[T] = SumStep(f, T, g)
          OBVIOUS
        <4>2. h[T \ {Drawn(T)}] = g[T \ {Drawn(T)}]
          BY <2>2, <2>3, <3>2
        <4> HIDE DEF h
        <4> QED
          BY <3>2, <4>1, <4>2 DEF SumStep
      <3> QED
        BY <3>1, <3>2
    <2>5. Partial(n + 1, h)
      <3>1. h = [T \in Small(n + 1) |-> h[T]]
        OBVIOUS
      <3> HIDE DEF h, Small
      <3> QED
        BY <2>4, <3>1
    <2>6. n + 1 \in Nat
      OBVIOUS
    <2>7. \E k : Partial(n + 1, k)
      <3> HIDE DEF h, Partial
      <3> QED
        BY <2>5
    <2> HIDE DEF Partial
    <2> QED
      BY <2>6, <2>7
  <1>3. Nat \subseteq Reached
    <2> SUFFICES ASSUME Nat \ Reached # {} PROVE FALSE
      OBVIOUS
    <2>1. PICK n \in Nat \ Reached : \A m \in Nat \ Reached : ~(<<m, n>> \in OpToRel(<, Nat))
      <3> HIDE DEF Reached
      <3> QED
        BY WFMin, NatLessThanWellFounded, Nat \ Reached \subseteq Nat
    <2>2. n # 0 /\ n - 1 \in Nat /\ n - 1 < n
      <3>1. n \in Nat /\ n \notin Reached /\ 0 \in Reached
        <4> HIDE DEF Reached
        <4> QED
          BY <1>1, <2>1
      <3>2. n # 0
        <4> HIDE DEF Reached
        <4> QED
          BY <3>1
      <3> QED
        BY <3>1, <3>2
    <2>3. n - 1 \in Reached
      <3> HIDE DEF Reached
      <3> QED
        BY <2>1, <2>2 DEF OpToRel
    <2>4. (n - 1) + 1 \in Reached
      BY <1>2, <2>3
    <2>5. (n - 1) + 1 = n
      OBVIOUS
    <2> HIDE DEF Reached
    <2> QED
      BY <2>1, <2>4, <2>5
  <1>4. Cardinality(S) \in Reached
    BY <1>0, <1>3
  <1>5. PICK g : Partial(Cardinality(S), g)
    BY <1>4
  <1>6. Small(Cardinality(S)) = SUBSET S
    BY FS_Subset
  <1> QED
    BY <1>5, <1>6 DEF IsSumTable

\* The same of a fold of any function over a finite set in any order: `pick`
\* takes an element of each set, `F` adds it to the result for the others.
LEMMA FoldTableExists ==
  ASSUME NEW S, IsFiniteSet(S), NEW start, NEW F, NEW pick,
         \A T \in SUBSET S : T # {} => pick[T] \in T
  PROVE  \E g : IsFoldTable(start, pick, F, S, g)
PROOF
  <1> DEFINE Small(n)    == {T \in SUBSET S : Cardinality(T) <= n}
             Partial(n, g) == g = [T \in Small(n) |-> FoldStep(start, pick, F, T, g)]
             Reached     == {n \in Nat : \E g : Partial(n, g)}
  <1>0. \A T \in SUBSET S : IsFiniteSet(T) /\ Cardinality(T) \in Nat
    BY FS_Subset, FS_CardinalityType
  <1>1. 0 \in Reached
    <2>1. \A T \in Small(0) : T = {}
      BY <1>0, FS_EmptySet
    <2> DEFINE g == [T \in Small(0) |-> start]
    <2>2. \A T \in Small(0) : g[T] = FoldStep(start, pick, F, T, g)
      BY <2>1 DEF FoldStep
    <2>3. Partial(0, g)
      BY <2>2
    <2> QED
      BY <2>3
  <1>2. ASSUME NEW n \in Reached PROVE n + 1 \in Reached
    <2>1. PICK g : Partial(n, g)
      OBVIOUS
    <2> DEFINE h == [T \in Small(n + 1) |-> FoldStep(start, pick, F, T, g)]
    <2>2. ASSUME NEW T \in Small(n + 1), T # {}
          PROVE  T \ {pick[T]} \in Small(n)
      <3>1. pick[T] \in T
        BY <2>2
      <3>2. Cardinality(T \ {pick[T]}) = Cardinality(T) - 1
        BY <1>0, <3>1, FS_RemoveElement
      <3> QED
        BY <1>0, <3>2
    <2>3. ASSUME NEW T \in Small(n) PROVE T \in Small(n + 1) /\ h[T] = g[T]
      <3>1. T \in Small(n + 1)
        BY <1>0
      <3>2. g[T] = FoldStep(start, pick, F, T, g)
        BY <2>1
      <3> QED
        BY <3>1, <3>2
    <2>4. ASSUME NEW T \in Small(n + 1) PROVE h[T] = FoldStep(start, pick, F, T, h)
      <3>1. CASE T = {}
        BY <3>1 DEF FoldStep
      <3>2. CASE T # {}
        <4>1. h[T] = FoldStep(start, pick, F, T, g)
          OBVIOUS
        <4>2. h[T \ {pick[T]}] = g[T \ {pick[T]}]
          BY <2>2, <2>3, <3>2
        <4> HIDE DEF h
        <4> QED
          BY <3>2, <4>1, <4>2 DEF FoldStep
      <3> QED
        BY <3>1, <3>2
    <2>5. Partial(n + 1, h)
      <3>1. h = [T \in Small(n + 1) |-> h[T]]
        OBVIOUS
      <3> HIDE DEF h, Small
      <3> QED
        BY <2>4, <3>1
    <2>6. n + 1 \in Nat
      OBVIOUS
    <2>7. \E k : Partial(n + 1, k)
      <3> HIDE DEF h, Partial
      <3> QED
        BY <2>5
    <2> HIDE DEF Partial
    <2> QED
      BY <2>6, <2>7
  <1>3. Nat \subseteq Reached
    <2> SUFFICES ASSUME Nat \ Reached # {} PROVE FALSE
      OBVIOUS
    <2>1. PICK n \in Nat \ Reached : \A m \in Nat \ Reached : ~(<<m, n>> \in OpToRel(<, Nat))
      <3> HIDE DEF Reached
      <3> QED
        BY WFMin, NatLessThanWellFounded, Nat \ Reached \subseteq Nat
    <2>2. n # 0 /\ n - 1 \in Nat /\ n - 1 < n
      <3>1. n \in Nat /\ n \notin Reached /\ 0 \in Reached
        <4> HIDE DEF Reached
        <4> QED
          BY <1>1, <2>1
      <3>2. n # 0
        <4> HIDE DEF Reached
        <4> QED
          BY <3>1
      <3> QED
        BY <3>1, <3>2
    <2>3. n - 1 \in Reached
      <3> HIDE DEF Reached
      <3> QED
        BY <2>1, <2>2 DEF OpToRel
    <2>4. (n - 1) + 1 \in Reached
      BY <1>2, <2>3
    <2>5. (n - 1) + 1 = n
      OBVIOUS
    <2> HIDE DEF Reached
    <2> QED
      BY <2>1, <2>4, <2>5
  <1>4. Cardinality(S) \in Reached
    BY <1>0, <1>3
  <1>5. PICK g : Partial(Cardinality(S), g)
    BY <1>4
  <1>6. Small(Cardinality(S)) = SUBSET S
    BY FS_Subset
  <1> QED
    BY <1>5, <1>6 DEF IsFoldTable

\* SumFunctionOnSet reads the table of sums.
LEMMA SumIsTable ==
  ASSUME NEW f, NEW S, IsFiniteSet(S)
  PROVE  ReadsTable(f, S)
PROOF
  <1>1. SumFunctionOnSet(f, S) = (CHOOSE g : IsSumTable(f, S, g))[S]
    BY DEF SumFunctionOnSet, FoldFunctionOnSet, MapThenFoldSet, IsSumTable, SumStep, Drawn
  <1>2. IsSumTable(f, S, CHOOSE g : IsSumTable(f, S, g))
    BY SumTableExists
  <1>3. PICK g : g = (CHOOSE h : IsSumTable(f, S, h))
    OBVIOUS
  <1>4. g = [T \in SUBSET S |-> SumStep(f, T, g)]
    BY <1>2, <1>3 DEF IsSumTable
  <1>5. \A T \in SUBSET S : g[T] = SumStep(f, T, g)
    BY <1>4
  <1> QED
    BY <1>1, <1>3, <1>5 DEF ReadsTable

\* Tables of two functions that agree on a set agree on its sum, whatever sets
\* the tables were made for.
LEMMA TablesAgree ==
  ASSUME NEW U, IsFiniteSet(U), NEW f, NEW h, NEW g, NEW k,
         \A x \in U : f[x] = h[x],
         \A T \in SUBSET U : g[T] = SumStep(f, T, g),
         \A T \in SUBSET U : k[T] = SumStep(h, T, k)
  PROVE  g[U] = k[U]
PROOF
  <1> DEFINE Good == {T \in SUBSET U : g[T] = k[T]}
  <1>1. ASSUME NEW T \in SUBSET U, \A x \in T : T \ {x} \in Good
        PROVE  T \in Good
    <2>1. CASE T = {}
      BY <2>1 DEF SumStep
    <2>2. CASE T # {}
      <3>1. Drawn(T) \in T
        BY <2>2 DEF Drawn
      <3>2. f[Drawn(T)] = h[Drawn(T)] /\ g[T \ {Drawn(T)}] = k[T \ {Drawn(T)}]
        BY <1>1, <3>1
      <3>3. g[T] = SumStep(f, T, g) /\ k[T] = SumStep(h, T, k)
        OBVIOUS
      <3> QED
        BY <2>2, <3>2, <3>3 DEF SumStep
    <2> QED
      BY <2>1, <2>2
  <1>2. SUBSET U \subseteq Good
    <2> HIDE DEF Good
    <2> QED
      BY <1>1, SubsetInduction
  <1> QED
    BY <1>2

-----------------------------------------------------------------------------
LEMMA SumEmpty ==
  ASSUME NEW f
  PROVE  SumFunctionOnSet(f, {}) = 0
PROOF
  <1>1. IsFiniteSet({})
    BY FS_EmptySet
  <1> QED
    BY <1>1, SumIsTable DEF ReadsTable, SumStep

\* Only the values on the set matter.
LEMMA SumAgrees ==
  ASSUME NEW S, IsFiniteSet(S), NEW f, NEW h, \A x \in S : f[x] = h[x]
  PROVE  SumFunctionOnSet(f, S) = SumFunctionOnSet(h, S)
PROOF
  <1>0. ReadsTable(f, S) /\ ReadsTable(h, S)
    BY SumIsTable
  <1>1. PICK g : SumFunctionOnSet(f, S) = g[S] /\ \A T \in SUBSET S : g[T] = SumStep(f, T, g)
    BY <1>0 DEF ReadsTable
  <1>2. PICK k : SumFunctionOnSet(h, S) = k[S] /\ \A T \in SUBSET S : k[T] = SumStep(h, T, k)
    BY <1>0 DEF ReadsTable
  <1> QED
    BY <1>1, <1>2, TablesAgree

\* The sum of a set is what its drawn element gives and the sum of the rest.
LEMMA SumUnfolds ==
  ASSUME NEW S, IsFiniteSet(S), S # {}, NEW f
  PROVE  /\ Drawn(S) \in S
         /\ SumFunctionOnSet(f, S) =
              f[Drawn(S)] + SumFunctionOnSet(f, S \ {Drawn(S)})
PROOF
  <1>0. Drawn(S) \in S
    BY DEF Drawn
  <1>1. PICK x \in S : x = Drawn(S)
    BY <1>0
  <1>2. PICK R : R = S \ {x}
    OBVIOUS
  <1>3. IsFiniteSet(R) /\ R \in SUBSET S
    BY <1>2, FS_Subset
  <1>4. PICK g : SumFunctionOnSet(f, S) = g[S] /\ \A T \in SUBSET S : g[T] = SumStep(f, T, g)
    BY SumIsTable DEF ReadsTable
  <1>5. PICK k : SumFunctionOnSet(f, R) = k[R] /\ \A T \in SUBSET R : k[T] = SumStep(f, T, k)
    BY <1>3, SumIsTable DEF ReadsTable
  <1>6. \A T \in SUBSET R : g[T] = SumStep(f, T, g)
    BY <1>3, <1>4
  <1>7. g[R] = k[R]
    BY <1>3, <1>5, <1>6, TablesAgree
  <1>8. g[S] = f[x] + g[R]
    BY <1>1, <1>2, <1>4 DEF SumStep
  <1> QED
    BY <1>1, <1>2, <1>4, <1>5, <1>7, <1>8

LEMMA SumType ==
  ASSUME NEW S, IsFiniteSet(S), NEW f, NEW N \in {Nat, Int}, \A x \in S : f[x] \in N
  PROVE  SumFunctionOnSet(f, S) \in N
PROOF
  <1> DEFINE Good == {T \in SUBSET S : SumFunctionOnSet(f, T) \in N}
  <1>1. ASSUME NEW T \in SUBSET S, \A x \in T : T \ {x} \in Good
        PROVE  T \in Good
    <2>1. CASE T = {}
      BY <2>1, SumEmpty
    <2>2. CASE T # {}
      <3>1. IsFiniteSet(T)
        BY FS_Subset
      <3>2. PICK x \in T : SumFunctionOnSet(f, T) = f[x] + SumFunctionOnSet(f, T \ {x})
        BY <2>2, <3>1, SumUnfolds
      <3>3. SumFunctionOnSet(f, T \ {x}) \in N /\ f[x] \in N
        BY <1>1
      <3> QED
        BY <3>2, <3>3
    <2> QED
      BY <2>1, <2>2
  <1>2. SUBSET S \subseteq Good
    <2> HIDE DEF Good
    <2> QED
      BY <1>1, SubsetInduction
  <1> QED
    BY <1>2

\* Any element can be taken out first.
LEMMA SumWithout ==
  ASSUME NEW S, IsFiniteSet(S), NEW f, \A x \in S : f[x] \in Int, NEW y \in S
  PROVE  SumFunctionOnSet(f, S) = f[y] + SumFunctionOnSet(f, S \ {y})
PROOF
  <1> DEFINE Takes(T, x) == SumFunctionOnSet(f, T) = f[x] + SumFunctionOnSet(f, T \ {x})
             Good == {T \in SUBSET S : \A x \in T : Takes(T, x)}
  <1>1. ASSUME NEW T \in SUBSET S, \A x \in T : T \ {x} \in Good
        PROVE  T \in Good
    <2> SUFFICES ASSUME NEW x \in T PROVE Takes(T, x)
      OBVIOUS
    <2>1. IsFiniteSet(T) /\ IsFiniteSet(T \ {x})
      BY FS_Subset
    <2>2. PICK p \in T : SumFunctionOnSet(f, T) = f[p] + SumFunctionOnSet(f, T \ {p})
      BY <2>1, SumUnfolds
    <2>3. CASE p = x
      BY <2>2, <2>3
    <2>4. CASE p # x
      <3>1. SumFunctionOnSet(f, T \ {p}) = f[x] + SumFunctionOnSet(f, (T \ {p}) \ {x})
        BY <1>1, <2>4
      <3>2. SumFunctionOnSet(f, T \ {x}) = f[p] + SumFunctionOnSet(f, (T \ {x}) \ {p})
        BY <1>1, <2>4
      <3>3. PICK R \in SUBSET S : R = (T \ {p}) \ {x} /\ R = (T \ {x}) \ {p}
        OBVIOUS
      <3>4. SumFunctionOnSet(f, R) \in Int
        BY FS_Subset, SumType
      <3>5. f[x] \in Int /\ f[p] \in Int
        OBVIOUS
      <3>6. SumFunctionOnSet(f, T) = f[p] + (f[x] + SumFunctionOnSet(f, R))
        BY <2>2, <3>1, <3>3
      <3>7. SumFunctionOnSet(f, T \ {x}) = f[p] + SumFunctionOnSet(f, R)
        BY <3>2, <3>3
      <3>8. SumFunctionOnSet(f, T) = f[x] + SumFunctionOnSet(f, T \ {x})
        BY <3>4, <3>5, <3>6, <3>7
      <3> QED
        BY <3>8
    <2> QED
      BY <2>3, <2>4
  <1>2. SUBSET S \subseteq Good
    <2> HIDE DEF Good
    <2> QED
      BY <1>1, SubsetInduction
  <1> QED
    BY <1>2

\* One more element.
LEMMA SumAdds ==
  ASSUME NEW S, IsFiniteSet(S), NEW y, y \notin S,
         NEW f, \A x \in S \cup {y} : f[x] \in Int
  PROVE  SumFunctionOnSet(f, S \cup {y}) = SumFunctionOnSet(f, S) + f[y]
PROOF
  <1>1. IsFiniteSet(S \cup {y}) /\ (S \cup {y}) \ {y} = S
    BY FS_AddElement
  <1>2. SumFunctionOnSet(f, S) \in Int
    BY SumType
  <1> QED
    BY <1>1, <1>2, SumWithout

\* Change the function at one element of the set, and the sum changes by as much.
LEMMA SumChanges ==
  ASSUME NEW S, IsFiniteSet(S), NEW y \in S, NEW f, NEW h,
         \A x \in S : f[x] \in Int /\ h[x] \in Int,
         \A x \in S \ {y} : h[x] = f[x]
  PROVE  SumFunctionOnSet(h, S) = SumFunctionOnSet(f, S) + (h[y] - f[y])
PROOF
  <1>1. PICK R : R = S \ {y}
    OBVIOUS
  <1>2. IsFiniteSet(R) /\ \A x \in R : f[x] \in Int /\ h[x] = f[x]
    BY <1>1, FS_Subset
  <1>3. SumFunctionOnSet(h, R) = SumFunctionOnSet(f, R)
    BY <1>2, SumAgrees
  <1>4. SumFunctionOnSet(f, R) \in Int
    BY <1>2, SumType
  <1>5. /\ SumFunctionOnSet(f, S) = f[y] + SumFunctionOnSet(f, R)
        /\ SumFunctionOnSet(h, S) = h[y] + SumFunctionOnSet(h, R)
    BY <1>1, SumWithout
  <1> QED
    BY <1>3, <1>4, <1>5

\* A sum of zeros.
LEMMA SumOfZeros ==
  ASSUME NEW S, IsFiniteSet(S), NEW f, \A x \in S : f[x] = 0
  PROVE  SumFunctionOnSet(f, S) = 0
PROOF
  <1> DEFINE Good == {T \in SUBSET S : SumFunctionOnSet(f, T) = 0}
  <1>1. ASSUME NEW T \in SUBSET S, \A x \in T : T \ {x} \in Good
        PROVE  T \in Good
    <2>1. CASE T = {}
      BY <2>1, SumEmpty
    <2>2. CASE T # {}
      <3>1. IsFiniteSet(T)
        BY FS_Subset
      <3>2. PICK x \in T : SumFunctionOnSet(f, T) = f[x] + SumFunctionOnSet(f, T \ {x})
        BY <2>2, <3>1, SumUnfolds
      <3>3. SumFunctionOnSet(f, T \ {x}) = 0 /\ f[x] = 0
        BY <1>1
      <3> QED
        BY <3>2, <3>3
    <2> QED
      BY <2>1, <2>2
  <1>2. SUBSET S \subseteq Good
    <2> HIDE DEF Good
    <2> QED
      BY <1>1, SubsetInduction
  <1> QED
    BY <1>2

\* A part of a sum of naturals is no larger than the whole.
LEMMA SumOfPart ==
  ASSUME NEW S, IsFiniteSet(S), NEW R \in SUBSET S, NEW f, \A x \in S : f[x] \in Nat
  PROVE  SumFunctionOnSet(f, R) <= SumFunctionOnSet(f, S)
PROOF
  <1> DEFINE Good == {T \in SUBSET S :
                        SumFunctionOnSet(f, T \cap R) <= SumFunctionOnSet(f, T)}
  <1>1. ASSUME NEW T \in SUBSET S, \A x \in T : T \ {x} \in Good
        PROVE  T \in Good
    <2>1. CASE T = {}
      <3>1. T \cap R = {}
        BY <2>1
      <3>2. SumFunctionOnSet(f, T \cap R) = 0 /\ SumFunctionOnSet(f, T) = 0
        BY <2>1, <3>1, SumEmpty
      <3> QED
        BY <3>2
    <2>2. CASE T # {}
      <3>1. PICK x \in T : x \in T
        BY <2>2
      <3>2. PICK P, Q : P = T \ {x} /\ Q = T \cap R
        OBVIOUS
      <3>3. /\ IsFiniteSet(T) /\ IsFiniteSet(P) /\ IsFiniteSet(Q) /\ IsFiniteSet(P \cap R)
            /\ \A y \in T : f[y] \in Int
        BY <3>2, FS_Subset
      <3>4. SumFunctionOnSet(f, T) = f[x] + SumFunctionOnSet(f, P)
        BY <3>1, <3>2, <3>3, SumWithout
      <3>5. SumFunctionOnSet(f, P \cap R) <= SumFunctionOnSet(f, P)
        BY <1>1, <3>2
      <3>6. /\ SumFunctionOnSet(f, P \cap R) \in Nat /\ SumFunctionOnSet(f, P) \in Nat
            /\ f[x] \in Nat
        BY <3>2, <3>3, SumType
      <3>7. CASE x \in R
        <4>1. Q \ {x} = P \cap R /\ x \in Q
          BY <3>2, <3>7
        <4>2. SumFunctionOnSet(f, Q) = f[x] + SumFunctionOnSet(f, P \cap R)
          BY <3>2, <3>3, <4>1, SumWithout
        <4>3. SumFunctionOnSet(f, Q) <= SumFunctionOnSet(f, T)
          BY <3>4, <3>5, <3>6, <4>2
        <4> QED
          BY <3>2, <4>3
      <3>8. CASE x \notin R
        <4>1. Q = P \cap R
          BY <3>2, <3>8
        <4>2. SumFunctionOnSet(f, Q) <= SumFunctionOnSet(f, T)
          BY <3>4, <3>5, <3>6, <4>1
        <4> QED
          BY <3>2, <4>2
      <3> QED
        BY <3>7, <3>8
    <2> QED
      BY <2>1, <2>2
  <1>2. SUBSET S \subseteq Good
    <2> HIDE DEF Good
    <2> QED
      BY <1>1, SubsetInduction
  <1>3. S \cap R = R
    OBVIOUS
  <1> QED
    BY <1>2, <1>3

\* A sum is the sum over a part and over the rest.
LEMMA SumSplits ==
  ASSUME NEW S, IsFiniteSet(S), NEW R, NEW f, \A x \in S : f[x] \in Int
  PROVE  SumFunctionOnSet(f, S) = SumFunctionOnSet(f, S \cap R) + SumFunctionOnSet(f, S \ R)
PROOF
  <1> DEFINE Adds(T) == SumFunctionOnSet(f, T)
                          = SumFunctionOnSet(f, T \cap R) + SumFunctionOnSet(f, T \ R)
             Good    == {T \in SUBSET S : Adds(T)}
  <1>1. ASSUME NEW T \in SUBSET S, \A x \in T : T \ {x} \in Good
        PROVE  T \in Good
    <2>1. CASE T = {}
      <3>1. T \cap R = {} /\ T \ R = {}
        BY <2>1
      <3> QED
        BY <2>1, <3>1, SumEmpty
    <2>2. CASE T # {}
      <3>1. PICK y \in T : TRUE
        BY <2>2
      <3>2. Adds(T \ {y})
        BY <1>1, <3>1
      <3>3. PICK a : a = T \cap R
        OBVIOUS
      <3>4. PICK b : b = T \ R
        OBVIOUS
      <3>5. /\ IsFiniteSet(T) /\ IsFiniteSet(a) /\ IsFiniteSet(b) /\ IsFiniteSet(a \ {y})
            /\ IsFiniteSet(b \ {y})
        BY <3>3, <3>4, FS_Subset
      <3>6. /\ SumFunctionOnSet(f, T) = f[y] + SumFunctionOnSet(f, T \ {y})
            /\ f[y] \in Int
        BY <3>1, <3>5, SumWithout
      <3>7. /\ SumFunctionOnSet(f, a) \in Int /\ SumFunctionOnSet(f, b) \in Int
            /\ SumFunctionOnSet(f, a \ {y}) \in Int /\ SumFunctionOnSet(f, b \ {y}) \in Int
        BY <3>3, <3>4, <3>5, SumType
      <3>8. CASE y \in R
        <4>1. y \in a /\ (T \ {y}) \cap R = a \ {y} /\ (T \ {y}) \ R = b
          BY <3>1, <3>3, <3>4, <3>8
        <4>2. SumFunctionOnSet(f, a) = f[y] + SumFunctionOnSet(f, a \ {y})
          BY <3>3, <3>5, <4>1, SumWithout
        <4>3. SumFunctionOnSet(f, T \ {y}) = SumFunctionOnSet(f, a \ {y}) + SumFunctionOnSet(f, b)
          BY <3>2, <4>1
        <4>4. SumFunctionOnSet(f, T) = SumFunctionOnSet(f, a) + SumFunctionOnSet(f, b)
          BY <3>6, <3>7, <4>2, <4>3
        <4> QED
          BY <3>3, <3>4, <4>4
      <3>9. CASE y \notin R
        <4>1. y \in b /\ (T \ {y}) \cap R = a /\ (T \ {y}) \ R = b \ {y}
          BY <3>1, <3>3, <3>4, <3>9
        <4>2. SumFunctionOnSet(f, b) = f[y] + SumFunctionOnSet(f, b \ {y})
          BY <3>4, <3>5, <4>1, SumWithout
        <4>3. SumFunctionOnSet(f, T \ {y}) = SumFunctionOnSet(f, a) + SumFunctionOnSet(f, b \ {y})
          BY <3>2, <4>1
        <4>4. SumFunctionOnSet(f, T) = SumFunctionOnSet(f, a) + SumFunctionOnSet(f, b)
          BY <3>6, <3>7, <4>2, <4>3
        <4> QED
          BY <3>3, <3>4, <4>4
      <3> QED
        BY <3>8, <3>9
    <2> QED
      BY <2>1, <2>2
  <1>2. S \in Good
    <2> HIDE DEF Good
    <2> QED
      BY <1>1, SubsetInduction
  <1> QED
    BY <1>2

\* Terms that are covered, each by another one, sum to no more.
LEMMA SumCovered ==
  ASSUME NEW S, IsFiniteSet(S), NEW T, IsFiniteSet(T), NEW f, NEW g, NEW h,
         \A x \in S : f[x] \in Nat /\ h[x] \in T /\ f[x] <= g[h[x]],
         \A y \in T : g[y] \in Nat,
         \A x, y \in S : h[x] = h[y] => x = y
  PROVE  SumFunctionOnSet(f, S) <= SumFunctionOnSet(g, T)
PROOF
  <1> DEFINE Image(R) == {y \in T : \E x \in R : y = h[x]}
             Covers(R) == SumFunctionOnSet(f, R) <= SumFunctionOnSet(g, Image(R))
             Good == {R \in SUBSET S : Covers(R)}
  <1>0. \A R \in SUBSET S : /\ IsFiniteSet(R) /\ IsFiniteSet(Image(R))
                            /\ SumFunctionOnSet(f, R) \in Nat
                            /\ SumFunctionOnSet(g, Image(R)) \in Nat
    <2> SUFFICES ASSUME NEW R \in SUBSET S
                 PROVE  /\ IsFiniteSet(R) /\ IsFiniteSet(Image(R))
                        /\ SumFunctionOnSet(f, R) \in Nat
                        /\ SumFunctionOnSet(g, Image(R)) \in Nat
      OBVIOUS
    <2>1. IsFiniteSet(R) /\ IsFiniteSet(Image(R)) /\ Image(R) \subseteq T
      BY FS_Subset
    <2>2. (\A x \in R : f[x] \in Nat) /\ (\A y \in Image(R) : g[y] \in Nat)
      OBVIOUS
    <2> HIDE DEF Image
    <2> QED
      BY <2>1, <2>2, SumType
  <1>1. ASSUME NEW R \in SUBSET S, \A x \in R : R \ {x} \in Good
        PROVE  R \in Good
    <2>1. CASE R = {}
      <3>1. Image(R) = {}
        BY <2>1
      <3> QED
        BY <2>1, <3>1, SumEmpty
    <2>2. CASE R # {}
      <3>1. PICK y \in R : TRUE
        BY <2>2
      <3>2. PICK P : P = R \ {y}
        OBVIOUS
      <3>3. Covers(P) /\ P \in SUBSET S
        BY <1>1, <3>1, <3>2
      <3>4. /\ h[y] \in T /\ h[y] \notin Image(P) /\ Image(R) = Image(P) \cup {h[y]}
            /\ f[y] \in Nat /\ f[y] <= g[h[y]] /\ g[h[y]] \in Nat
        BY <3>1, <3>2
      <3>5. SumFunctionOnSet(f, R) = f[y] + SumFunctionOnSet(f, P)
        <4>1. IsFiniteSet(R) /\ \A x \in R : f[x] \in Int
          BY FS_Subset
        <4> QED
          BY <3>1, <3>2, <4>1, SumWithout
      <3>6. SumFunctionOnSet(g, Image(R)) = SumFunctionOnSet(g, Image(P)) + g[h[y]]
        <4>1. IsFiniteSet(Image(P)) /\ \A z \in Image(P) \cup {h[y]} : g[z] \in Int
          BY <1>0, <3>3, <3>4
        <4> HIDE DEF Image
        <4> QED
          BY <3>4, <4>1, SumAdds
      <3>7. /\ SumFunctionOnSet(f, P) \in Nat /\ SumFunctionOnSet(g, Image(P)) \in Nat
        BY <1>0, <3>3
      <3> HIDE DEF Image
      <3> QED
        BY <3>3, <3>4, <3>5, <3>6, <3>7
    <2> QED
      BY <2>1, <2>2
  <1>2. S \in Good
    <2> HIDE DEF Good
    <2> QED
      BY <1>1, SubsetInduction
  <1>3. Image(S) \in SUBSET T /\ SumFunctionOnSet(f, S) \in Nat
        /\ SumFunctionOnSet(g, Image(S)) \in Nat
    BY <1>0
  <1>4. SumFunctionOnSet(g, Image(S)) <= SumFunctionOnSet(g, T)
    <2> HIDE DEF Image
    <2> QED
      BY <1>3, SumOfPart
  <1>5. SumFunctionOnSet(g, T) \in Nat
    BY SumType
  <1>6. Covers(S)
    BY <1>2
  <1> HIDE DEF Image
  <1> QED
    BY <1>3, <1>4, <1>5, <1>6

=============================================================================
