---------------------------- MODULE Tables_proofs ----------------------------
(***************************************************************************)
(* What keeps a table a table, and what adding up a column gives; the      *)
(* lemmas that the proofs about the components rest on.                    *)
(***************************************************************************)
EXTENDS Tables, FiniteSetTheorems, TLAPS

\* A table without rows has any type.
LEMMA EmptyTable ==
  ASSUME NEW K, NEW R
  PROVE  IsTable(<< >>, K, R)
BY DEF IsTable

\* The three ways a table is written: a row is inserted, deleted, changed.
LEMMA PutIsTable ==
  ASSUME NEW t, NEW K, NEW R, IsTable(t, K, R), NEW k \in K, NEW row \in R
  PROVE  IsTable(Put(t, k, row), K, R)
BY DEF IsTable, Put

LEMMA DropIsTable ==
  ASSUME NEW t, NEW K, NEW R, IsTable(t, K, R), NEW k
  PROVE  IsTable(Drop(t, k), K, R)
BY DEF IsTable, Drop

LEMMA ExceptIsTable ==
  ASSUME NEW t, NEW K, NEW R, IsTable(t, K, R), NEW k \in DOMAIN t, NEW row \in R
  PROVE  IsTable([t EXCEPT ![k] = row], K, R)
BY DEF IsTable

\* What is read from a table is a row of it.
LEMMA RowOfTable ==
  ASSUME NEW t, NEW K, NEW R, IsTable(t, K, R), NEW k \in DOMAIN t
  PROVE  t[k] \in R /\ k \in K
BY DEF IsTable

\* Deleting a row that is not there changes nothing.
LEMMA DropOfNothing ==
  ASSUME NEW t, NEW K, NEW R, IsTable(t, K, R), NEW k, k \notin DOMAIN t
  PROVE  Drop(t, k) = t
BY DEF IsTable, Drop

\* Two tables that differ in the row with key k at most.
OnlyRow(t, u, k) ==
  /\ \A x : x # k => (x \in DOMAIN t <=> x \in DOMAIN u)
  /\ \A x \in DOMAIN t : x # k => u[x] = t[x]

LEMMA WritesOneRow ==
  ASSUME NEW t, NEW k, NEW row
  PROVE  /\ OnlyRow(t, t, k)
         /\ OnlyRow(t, Put(t, k, row), k)
         /\ OnlyRow(t, Drop(t, k), k)
         /\ OnlyRow(t, [t EXCEPT ![k] = row], k)
BY DEF OnlyRow, Put, Drop

-----------------------------------------------------------------------------
(* Counting.                                                               *)

\* The ids handed out are finitely many.
LEMMA IdsAreFinite ==
  ASSUME NEW n \in Nat
  PROVE  IsFiniteSet(1 .. n)
<1>1. PICK a \in Int, b \in Int : a = 1 /\ b = n
  OBVIOUS
<1>2. IsFiniteSet(a .. b)
  BY FS_Interval
<1> QED  BY <1>1, <1>2

\* One element more, at most.
LEMMA OneMore ==
  ASSUME NEW S, NEW T, NEW x, IsFiniteSet(S), T \subseteq S \cup {x}
  PROVE  /\ IsFiniteSet(T) /\ Cardinality(T) \in Nat /\ Cardinality(S) \in Nat
         /\ Cardinality(T) <= Cardinality(S) + 1
<1>1. /\ IsFiniteSet(S \cup {x}) /\ Cardinality(S) \in Nat
      /\ Cardinality(S \cup {x}) \in {Cardinality(S), Cardinality(S) + 1}
  BY FS_AddElement, FS_CardinalityType
<1>2. IsFiniteSet(T) /\ Cardinality(T) <= Cardinality(S \cup {x})
  BY <1>1, FS_Subset
<1>3. Cardinality(T) \in Nat
  BY <1>2, FS_CardinalityType
<1> QED  BY <1>1, <1>2, <1>3

\* One element less, or fewer.
LEMMA OneLess ==
  ASSUME NEW S, NEW T, NEW x \in S, IsFiniteSet(S), T \subseteq S \ {x}
  PROVE  /\ IsFiniteSet(T) /\ Cardinality(T) \in Nat /\ Cardinality(S) \in Nat
         /\ Cardinality(T) + 1 <= Cardinality(S)
<1>1. /\ IsFiniteSet(S \ {x}) /\ Cardinality(S) \in Nat
      /\ Cardinality(S \ {x}) = Cardinality(S) - 1
  BY FS_RemoveElement, FS_CardinalityType
<1>2. IsFiniteSet(T) /\ Cardinality(T) <= Cardinality(S \ {x})
  BY <1>1, FS_Subset
<1>3. Cardinality(T) \in Nat
  BY <1>2, FS_CardinalityType
<1> QED  BY <1>1, <1>2, <1>3

LEMMA SomeMore ==
  ASSUME NEW S, NEW T, NEW U, IsFiniteSet(S), IsFiniteSet(U), T \subseteq S \cup U
  PROVE  /\ IsFiniteSet(T) /\ Cardinality(T) \in Nat /\ Cardinality(S) \in Nat
         /\ Cardinality(U) \in Nat
         /\ Cardinality(T) <= Cardinality(S) + Cardinality(U)
<1>1. /\ IsFiniteSet(S \cup U)
      /\ Cardinality(S \cup U) = Cardinality(S) + Cardinality(U) - Cardinality(S \cap U)
  BY FS_Union
<1>2. IsFiniteSet(S \cap U)
  BY FS_Intersection
<1>3. Cardinality(S) \in Nat /\ Cardinality(U) \in Nat /\ Cardinality(S \cap U) \in Nat
  BY <1>2, FS_CardinalityType
<1>4. IsFiniteSet(T) /\ Cardinality(T) <= Cardinality(S \cup U)
  BY <1>1, FS_Subset
<1>5. Cardinality(T) \in Nat
  BY <1>4, FS_CardinalityType
<1> QED  BY <1>1, <1>3, <1>4, <1>5

\* One mishap more pays for as many rows as there may be calls at a time.
LEMMA OneUpsetMore ==
  ASSUME NEW k \in Nat, NEW n \in Nat
  PROVE  (n + 1) * k = n * k + k /\ n * k \in Nat
OBVIOUS

-----------------------------------------------------------------------------
(* Sums.  SumOf is a fold, that is a recursive function on the subsets of  *)
(* the keys; that there is one is shown by looking at a smallest set of    *)
(* keys for which there would be none.                                     *)

\* The element that a fold takes next.
Any(s) == CHOOSE k \in s : TRUE

\* it gives the sum of f over every subset of S.
IsSummation(it, f, S) ==
  it = [s \in SUBSET S |-> IF s = {} THEN 0 ELSE f[Any(s)] + it[s \ {Any(s)}]]

\* it(S) for the summation it over S that was chosen.
Summation(f, S) == CHOOSE it : IsSummation(it, f, S)

LEMMA SumOfChooses ==
  ASSUME NEW f
  PROVE  SumOf(f) = Summation(f, DOMAIN f)[DOMAIN f]
BY Zenon DEF SumOf, MapThenFoldSet, IsSummation, Any, Summation

LEMMA AnyIsIn ==
  ASSUME NEW s, s # {}
  PROVE  Any(s) \in s
BY DEF Any

\* A set of subsets of a finite set that is not empty has a member none of
\* whose proper subsets is in it.
LEMMA SmallestSet ==
  ASSUME NEW S, IsFiniteSet(S), NEW T \in SUBSET (SUBSET S), T # {}
  PROVE  \E s \in T : \A t \in T : ~ (t \subseteq s /\ t # s)
<1>1. IsWellFoundedOn(StrictSubsetOrdering(S), SUBSET S)
  <2>1. FiniteSubsetsOf(S) = SUBSET S
    BY FS_FiniteSubsetsOfFinite
  <2> QED  BY <2>1, FS_StrictSubsetOrderingWellFounded
<1>2. PICK s \in T : \A t \in T : <<t, s>> \notin StrictSubsetOrdering(S)
  BY <1>1, WFMin
<1>3. ASSUME NEW t \in T, t \subseteq s, t # s
      PROVE  FALSE
  BY <1>2, <1>3 DEF StrictSubsetOrdering
<1> QED  BY <1>3

\* What a summation gives for a set does not depend on anything outside it.
LEMMA SummationUnique ==
  ASSUME NEW S, NEW U, IsFiniteSet(S), NEW f, NEW g, NEW it, NEW jt,
         IsSummation(it, f, S), IsSummation(jt, g, U),
         NEW r, r \subseteq S, r \subseteq U, \A x \in r : f[x] = g[x]
  PROVE  it[r] = jt[r]
<1> DEFINE T == {s \in SUBSET r : it[s] # jt[s]}
<1>1. SUFFICES ASSUME T # {} PROVE FALSE
  OBVIOUS
<1>2. T \in SUBSET (SUBSET S)
  OBVIOUS
<1>3. PICK s \in T : \A t \in T : ~ (t \subseteq s /\ t # s)
  <2> HIDE DEF T
  <2> QED  BY <1>1, <1>2, SmallestSet
<1>4. s \in SUBSET S /\ s \in SUBSET U /\ s \in SUBSET r
  OBVIOUS
<1>5. /\ it[s] = IF s = {} THEN 0 ELSE f[Any(s)] + it[s \ {Any(s)}]
      /\ jt[s] = IF s = {} THEN 0 ELSE g[Any(s)] + jt[s \ {Any(s)}]
  BY <1>4, Zenon DEF IsSummation
<1>6. s # {}
  BY <1>5
<1>7. Any(s) \in s
  BY <1>6, AnyIsIn
<1>8. it[s \ {Any(s)}] = jt[s \ {Any(s)}]
  BY <1>3, <1>7
<1>9. f[Any(s)] = g[Any(s)]
  BY <1>4, <1>7
<1> QED  BY <1>5, <1>6, <1>8, <1>9

LEMMA SummationExists ==
  ASSUME NEW S, IsFiniteSet(S), NEW f
  PROVE  IsSummation(Summation(f, S), f, S)
<1> DEFINE T == {U \in SUBSET S : ~ \E it : IsSummation(it, f, U)}
<1>1. SUFFICES ASSUME T # {} PROVE FALSE
  <2>1. SUFFICES \E it : IsSummation(it, f, S)
    BY <2>1 DEF Summation
  <2> QED  OBVIOUS
<1>2. PICK U \in T : \A t \in T : ~ (t \subseteq U /\ t # U)
  <2>1. T \in SUBSET (SUBSET S)
    OBVIOUS
  <2> HIDE DEF T
  <2> QED  BY <1>1, <2>1, SmallestSet
<1>3. \A V : V \subseteq U /\ V # U => IsSummation(Summation(f, V), f, V)
  <2> SUFFICES ASSUME NEW V, V \subseteq U, V # U
               PROVE  \E it : IsSummation(it, f, V)
    BY DEF Summation
  <2> QED  BY <1>2
<1> DEFINE G(V) == Summation(f, V)[V]
           it == [s \in SUBSET U |->
                    IF s = {} THEN 0 ELSE f[Any(s)] + G(s \ {Any(s)})]
<1>4. \A s \in SUBSET U : s # U => G(s) = it[s]
  <2> SUFFICES ASSUME NEW s \in SUBSET U, s # U
               PROVE  G(s) = it[s]
    OBVIOUS
  <2> DEFINE r == s \ {Any(s)}
  <2>1. IsSummation(Summation(f, s), f, s)
    BY <1>3
  <2>2. G(s) = IF s = {} THEN 0 ELSE f[Any(s)] + Summation(f, s)[r]
    <3>1. s \in SUBSET s
      OBVIOUS
    <3> QED  BY <2>1, <3>1, Zenon DEF IsSummation
  <2>3. CASE s = {}
    BY <2>2, <2>3
  <2>4. CASE s # {}
    <3>1. r \subseteq s /\ r # U /\ r \subseteq U
      BY <2>4, AnyIsIn
    <3>2. IsSummation(Summation(f, r), f, r)
      BY <1>3, <3>1
    <3>3. IsFiniteSet(s)
      BY <1>2, FS_Subset
    <3>4. Summation(f, s)[r] = Summation(f, r)[r]
      <4> HIDE DEF r
      <4> QED  BY <2>1, <3>1, <3>2, <3>3, SummationUnique
    <3>5. it[s] = f[Any(s)] + G(r)
      BY <2>4
    <3> QED  BY <2>2, <2>4, <3>4, <3>5
  <2> QED  BY <2>3, <2>4
<1>5. IsSummation(it, f, U)
  <2>1. \A s \in SUBSET U : s # {} => G(s \ {Any(s)}) = it[s \ {Any(s)}]
    <3> SUFFICES ASSUME NEW s \in SUBSET U, s # {}
                 PROVE  G(s \ {Any(s)}) = it[s \ {Any(s)}]
      OBVIOUS
    <3>1. s \ {Any(s)} \in SUBSET U /\ s \ {Any(s)} # U
      BY AnyIsIn
    <3> HIDE DEF G, it
    <3> QED  BY <1>4, <3>1
  <2> DEFINE it2 == [s \in SUBSET U |->
                       IF s = {} THEN 0 ELSE f[Any(s)] + it[s \ {Any(s)}]]
  <2>2. it = it2
    <3>1. \A s \in SUBSET U : it[s] = it2[s]
      <4> SUFFICES ASSUME NEW s \in SUBSET U
                   PROVE  it[s] = it2[s]
        OBVIOUS
      <4>1. it[s] = IF s = {} THEN 0 ELSE f[Any(s)] + G(s \ {Any(s)})
        OBVIOUS
      <4>2. it2[s] = IF s = {} THEN 0 ELSE f[Any(s)] + it[s \ {Any(s)}]
        BY Zenon
      <4> HIDE DEF it, it2, G
      <4> QED  BY <2>1, <4>1, <4>2
    <3>2. DOMAIN it = SUBSET U /\ DOMAIN it2 = SUBSET U
      OBVIOUS
    <3>3. it = [s \in SUBSET U |-> it[s]] /\ it2 = [s \in SUBSET U |-> it2[s]]
      BY Zenon
    <3> HIDE DEF it, it2
    <3> QED  BY <3>1, <3>3
  <2> HIDE DEF it
  <2> QED  BY <2>2 DEF IsSummation
<1> QED  BY <1>2, <1>5

-----------------------------------------------------------------------------
\* A summation takes the elements of a set in any order.
LEMMA SummationAnyOrder ==
  ASSUME NEW S, IsFiniteSet(S), NEW f, \A x \in S : f[x] \in Int,
         NEW it, IsSummation(it, f, S)
  PROVE  \A s \in SUBSET S :
           it[s] \in Int /\ \A x \in s : it[s] = f[x] + it[s \ {x}]
<1>1. \A s \in SUBSET S : it[s] = IF s = {} THEN 0 ELSE f[Any(s)] + it[s \ {Any(s)}]
  <2> SUFFICES ASSUME NEW s \in SUBSET S
               PROVE  it[s] = IF s = {} THEN 0 ELSE f[Any(s)] + it[s \ {Any(s)}]
    OBVIOUS
  <2> QED  BY Zenon DEF IsSummation
<1>2. \A s \in SUBSET S : it[s] \in Int
  <2> DEFINE T == {s \in SUBSET S : it[s] \notin Int}
  <2>1. SUFFICES ASSUME T # {} PROVE FALSE
    OBVIOUS
  <2>2. PICK s \in T : \A t \in T : ~ (t \subseteq s /\ t # s)
    <3>1. T \in SUBSET (SUBSET S)
      OBVIOUS
    <3> HIDE DEF T
    <3> QED  BY <2>1, <3>1, SmallestSet
  <2>3. s # {}
    <3>1. it[{}] = 0
      BY <1>1
    <3>2. it[s] \notin Int
      BY <2>2
    <3> QED  BY <3>1, <3>2
  <2>4. Any(s) \in s
    BY <2>3, AnyIsIn
  <2>5. it[s \ {Any(s)}] \in Int
    BY <2>2, <2>4
  <2>6. it[s] = f[Any(s)] + it[s \ {Any(s)}]
    BY <1>1, <2>3
  <2>7. f[Any(s)] \in Int
    BY <2>4
  <2> QED  BY <2>2, <2>5, <2>6, <2>7
<1>3. \A s \in SUBSET S : \A x \in s : it[s] = f[x] + it[s \ {x}]
  <2> DEFINE T == {s \in SUBSET S : \E x \in s : it[s] # f[x] + it[s \ {x}]}
  <2>1. SUFFICES ASSUME T # {} PROVE FALSE
    OBVIOUS
  <2>2. PICK s \in T : \A t \in T : ~ (t \subseteq s /\ t # s)
    <3>1. T \in SUBSET (SUBSET S)
      OBVIOUS
    <3> HIDE DEF T
    <3> QED  BY <2>1, <3>1, SmallestSet
  <2>3. PICK x \in s : it[s] # f[x] + it[s \ {x}]
    BY <2>2
  <2> DEFINE p == Any(s)
  <2>4. p \in s
    BY <2>3, AnyIsIn
  <2>5. it[s] = f[p] + it[s \ {p}]
    BY <1>1, <2>3
  <2>6. p # x
    BY <2>3, <2>5
  <2>7. s \ {p} \notin T /\ s \ {x} \notin T
    BY <2>2, <2>3, <2>4
  <2>8. it[s \ {p}] = f[x] + it[(s \ {p}) \ {x}]
    <3>1. s \ {p} \in SUBSET S /\ x \in s \ {p}
      BY <2>2, <2>3, <2>6
    <3> HIDE DEF p
    <3> QED  BY <2>7, <3>1
  <2>9. it[s \ {x}] = f[p] + it[(s \ {x}) \ {p}]
    <3>1. s \ {x} \in SUBSET S /\ p \in s \ {x}
      BY <2>2, <2>4, <2>6
    <3> HIDE DEF p
    <3> QED  BY <2>7, <3>1
  <2>10. (s \ {x}) \ {p} = (s \ {p}) \ {x}
    OBVIOUS
  <2>11. /\ f[p] \in Int /\ f[x] \in Int
         /\ it[(s \ {p}) \ {x}] \in Int
    <3>1. (s \ {p}) \ {x} \in SUBSET S /\ p \in S /\ x \in S
      BY <2>2, <2>3, <2>4
    <3> HIDE DEF p
    <3> QED  BY <1>2, <3>1
  <2> HIDE DEF p, T
  <2>12. it[s] = f[p] + (f[x] + it[(s \ {p}) \ {x}])
    BY <2>5, <2>8
  <2>13. f[x] + it[s \ {x}] = f[x] + (f[p] + it[(s \ {p}) \ {x}])
    BY <2>9, <2>10
  <2>14. \A a, b, r \in Int : a + (b + r) = b + (a + r)
    OBVIOUS
  <2>15. f[p] + (f[x] + it[(s \ {p}) \ {x}]) = f[x] + (f[p] + it[(s \ {p}) \ {x}])
    BY <2>11, <2>14
  <2> QED  BY <2>3, <2>12, <2>13, <2>15
<1> QED  BY <1>2, <1>3

-----------------------------------------------------------------------------
(* What SumOf does; everything else about sums follows from these.         *)

\* The columns that can be added up.
IsColumn(f) == IsFiniteSet(DOMAIN f) /\ f \in [DOMAIN f -> Int]

LEMMA SumOfEmpty ==
  ASSUME NEW f, DOMAIN f = {}
  PROVE  SumOf(f) = 0
<1>1. IsSummation(Summation(f, {}), f, {})
  BY SummationExists, FS_EmptySet
<1>2. Summation(f, {})[{}] = 0
  <2>1. {} \in SUBSET {}
    OBVIOUS
  <2> QED  BY <1>1, <2>1, Zenon DEF IsSummation
<1> QED  BY <1>2, SumOfChooses

LEMMA SumOfDrop ==
  ASSUME NEW f, IsColumn(f), NEW x \in DOMAIN f
  PROVE  /\ SumOf(f) \in Int
         /\ SumOf(f) = f[x] + SumOf(Drop(f, x))
         /\ IsColumn(Drop(f, x))
<1> DEFINE S == DOMAIN f
           g == Drop(f, x)
           it == Summation(f, S)
           jt == Summation(g, S \ {x})
<1>1. /\ IsFiniteSet(S) /\ IsFiniteSet(S \ {x})
      /\ DOMAIN g = S \ {x}
      /\ \A y \in S \ {x} : g[y] = f[y]
  BY FS_RemoveElement DEF IsColumn, Drop
<1>2. IsSummation(it, f, S) /\ IsSummation(jt, g, S \ {x})
  BY <1>1, SummationExists
<1>3. it[S] \in Int /\ it[S] = f[x] + it[S \ {x}]
  <2>1. \A y \in S : f[y] \in Int
    BY DEF IsColumn
  <2>2. \A s \in SUBSET S :
          it[s] \in Int /\ \A y \in s : it[s] = f[y] + it[s \ {y}]
    <3> HIDE DEF it, S
    <3> QED  BY <1>1, <1>2, <2>1, SummationAnyOrder
  <2> HIDE DEF it
  <2> QED  BY <2>2
<1>4. it[S \ {x}] = jt[S \ {x}]
  <2> HIDE DEF it, jt, g, S
  <2>1. \A r : r \subseteq S /\ r \subseteq S \ {x} => it[r] = jt[r]
    <3> SUFFICES ASSUME NEW r, r \subseteq S, r \subseteq S \ {x}
                 PROVE  it[r] = jt[r]
      OBVIOUS
    <3>1. \A y \in r : f[y] = g[y]
      BY <1>1
    <3> QED  BY <1>1, <1>2, <3>1, SummationUnique
  <2> QED  BY <2>1
<1>5. SumOf(f) = it[S] /\ SumOf(g) = jt[S \ {x}]
  BY <1>1, SumOfChooses
<1>6. IsColumn(g)
  BY <1>1 DEF IsColumn, Drop
<1> QED  BY <1>3, <1>4, <1>5, <1>6

LEMMA SumOfIsInt ==
  ASSUME NEW f, IsColumn(f)
  PROVE  SumOf(f) \in Int
<1>1. CASE DOMAIN f = {}
  <2>1. SumOf(f) = 0
    BY <1>1, SumOfEmpty
  <2> QED  BY <2>1
<1>2. CASE DOMAIN f # {}
  BY <1>2, SumOfDrop
<1> QED  BY <1>1, <1>2

\* What row x contributes to the sum of f.
Term(f, x) == IF x \in DOMAIN f THEN f[x] ELSE 0

LEMMA SumOfTerm ==
  ASSUME NEW h, IsColumn(h), NEW x
  PROVE  /\ SumOf(h) \in Int /\ Term(h, x) \in Int
         /\ IsColumn(Drop(h, x)) /\ SumOf(Drop(h, x)) \in Int
         /\ SumOf(h) = Term(h, x) + SumOf(Drop(h, x))
<1>1. CASE x \in DOMAIN h
  <2>1. Term(h, x) = h[x] /\ h[x] \in Int
    BY <1>1 DEF Term, IsColumn
  <2>2. IsColumn(Drop(h, x)) /\ SumOf(h) = h[x] + SumOf(Drop(h, x))
    BY <1>1, SumOfDrop
  <2> QED  BY <2>1, <2>2, SumOfIsInt
<1>2. CASE x \notin DOMAIN h
  <2>1. Term(h, x) = 0 /\ Drop(h, x) = h
    BY <1>2 DEF Term, IsColumn, Drop
  <2> QED  BY <2>1, SumOfIsInt
<1> QED  BY <1>1, <1>2

\* When all rows but one stay as they are, the sum changes by what that row
\* contributed before and contributes now.
LEMMA SumOfChange ==
  ASSUME NEW f, NEW g, IsColumn(f), IsColumn(g), NEW x,
         \A y : y # x => (y \in DOMAIN f <=> y \in DOMAIN g),
         \A y \in DOMAIN f : y # x => f[y] = g[y]
  PROVE  /\ SumOf(f) \in Int /\ SumOf(g) \in Int
         /\ Term(f, x) \in Int /\ Term(g, x) \in Int
         /\ SumOf(g) = SumOf(f) + Term(g, x) - Term(f, x)
<1>1. Drop(f, x) = Drop(g, x)
  BY DEF Drop
<1>2. /\ SumOf(f) = Term(f, x) + SumOf(Drop(f, x))
      /\ SumOf(g) = Term(g, x) + SumOf(Drop(f, x))
      /\ SumOf(f) \in Int /\ SumOf(g) \in Int
      /\ Term(f, x) \in Int /\ Term(g, x) \in Int
      /\ SumOf(Drop(f, x)) \in Int
  BY <1>1, SumOfTerm
<1> QED  BY <1>2

\* A column that nowhere exceeds another one has no larger sum, a row that
\* one of them does not have counting as zero.
LEMMA SumOfMonotonic ==
  ASSUME NEW f, NEW g, IsColumn(f), IsColumn(g), \A x : Term(f, x) <= Term(g, x)
  PROVE  SumOf(f) <= SumOf(g)
<1> DEFINE S == DOMAIN f \cup DOMAIN g
           F(s) == [x \in s \cap DOMAIN f |-> f[x]]
           G(s) == [x \in s \cap DOMAIN g |-> g[x]]
           T == {s \in SUBSET S : ~ (SumOf(F(s)) <= SumOf(G(s)))}
<1>1. SUFFICES ASSUME T # {} PROVE FALSE
  <2>1. S \cap DOMAIN f = DOMAIN f /\ S \cap DOMAIN g = DOMAIN g
    OBVIOUS
  <2>2. F(S) = f /\ G(S) = g
    BY <2>1 DEF IsColumn
  <2>3. S \notin T => SumOf(F(S)) <= SumOf(G(S))
    OBVIOUS
  <2> HIDE DEF F, G, T
  <2> QED  BY <2>2, <2>3
<1>2. PICK s \in T : \A t \in T : ~ (t \subseteq s /\ t # s)
  <2>1. T \in SUBSET (SUBSET S) /\ IsFiniteSet(S)
    BY FS_Union DEF IsColumn
  <2> HIDE DEF T
  <2> QED  BY <1>1, <2>1, SmallestSet
<1>3. s \in SUBSET S /\ ~ (SumOf(F(s)) <= SumOf(G(s)))
  OBVIOUS
<1>4. PICK x \in s : TRUE
  <2>1. SumOf(F({})) = 0 /\ SumOf(G({})) = 0
    BY SumOfEmpty
  <2>2. s # {}
    <3> HIDE DEF F, G, T
    <3> QED  BY <1>3, <2>1
  <2> QED  BY <2>2
<1>5. IsColumn(F(s)) /\ IsColumn(G(s))
  <2>1. IsFiniteSet(s \cap DOMAIN f) /\ IsFiniteSet(s \cap DOMAIN g)
    BY FS_Subset DEF IsColumn
  <2> QED  BY <2>1 DEF IsColumn
<1>6. /\ Drop(F(s), x) = F(s \ {x}) /\ Term(F(s), x) = Term(f, x)
      /\ Drop(G(s), x) = G(s \ {x}) /\ Term(G(s), x) = Term(g, x)
  BY <1>4 DEF Drop, Term
<1>7. SumOf(F(s \ {x})) <= SumOf(G(s \ {x}))
  <2>1. s \ {x} \notin T /\ s \ {x} \in SUBSET S
    BY <1>2, <1>3, <1>4
  <2> HIDE DEF F, G
  <2> QED  BY <2>1
<1>8. /\ SumOf(F(s)) = Term(f, x) + SumOf(F(s \ {x}))
      /\ SumOf(G(s)) = Term(g, x) + SumOf(G(s \ {x}))
      /\ SumOf(F(s \ {x})) \in Int /\ SumOf(G(s \ {x})) \in Int
      /\ Term(f, x) \in Int /\ Term(g, x) \in Int
  <2> HIDE DEF F, G
  <2> QED  BY <1>5, <1>6, SumOfTerm
<1>9. Term(f, x) <= Term(g, x)
  OBVIOUS
<1> HIDE DEF F, G, T, S
<1>10. Term(f, x) + SumOf(F(s \ {x})) <= Term(g, x) + SumOf(G(s \ {x}))
  BY <1>7, <1>8, <1>9
<1> QED  BY <1>3, <1>8, <1>10

\* A column of zeros adds up to nothing.
LEMMA SumOfZeros ==
  ASSUME NEW f, IsColumn(f), \A x \in DOMAIN f : f[x] = 0
  PROVE  SumOf(f) = 0
<1> DEFINE z == [x \in {} |-> 0]
<1>1. IsColumn(z) /\ SumOf(z) = 0
  BY SumOfEmpty, FS_EmptySet DEF IsColumn
<1>2. \A x : Term(f, x) = 0 /\ Term(z, x) = 0
  BY DEF Term
<1> HIDE DEF z
<1>3. SumOf(f) \in Int /\ SumOf(f) <= 0 /\ 0 <= SumOf(f)
  BY <1>1, <1>2, SumOfIsInt, SumOfMonotonic
<1> QED  BY <1>3
=============================================================================
