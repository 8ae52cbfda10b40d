----------------------------- MODULE SumsProofs ----------------------------
(***************************************************************************)
(* Facts about sums over finite sets.  The sum of a function f over S is a *)
(* fold, defined by recursion over the subsets of S; the lemmas follow     *)
(* from the least counterexample among these subsets.                      *)
(***************************************************************************)
EXTENDS Functions, FiniteSetTheorems, TLAPS

\* Of the subsets of a finite set that are in B, one is minimal.
LEMMA MinimalSubset ==
    ASSUME NEW S, IsFiniteSet(S), NEW B \in SUBSET SUBSET S, B # {}
    PROVE  \E s \in B : \A u \in B : u \subseteq s => u = s
  <1>1. IsWellFoundedOn(StrictSubsetOrdering(S), SUBSET S)
    BY FS_StrictSubsetOrderingWellFounded, FS_FiniteSubsetsOfFinite
  <1>2. \E s \in B : \A u \in B : <<u, s>> \notin StrictSubsetOrdering(S)
    BY <1>1, WFMin
  <1> QED BY <1>2 DEF StrictSubsetOrdering

----------------------------------------------------------------------------
\* The element that the fold takes out of a set first.
Pick(s) == CHOOSE x \in s : TRUE

\* g is the table of the sums of f over the subsets of S.
IsTable(g, f, S) ==
    g = [s \in SUBSET S |-> IF s = {} THEN 0 ELSE f[Pick(s)] + g[s \ {Pick(s)}]]

Table(f, S) == CHOOSE g : IsTable(g, f, S)

\* The fold reads its result off the table of all subsets.
LEMMA SumIsTable ==
    ASSUME NEW f, NEW S
    PROVE  SumFunctionOnSet(f, S) = Table(f, S)[S]
  BY DEF SumFunctionOnSet, FoldFunctionOnSet, MapThenFoldSet, Table, IsTable, Pick

\* What is picked from a set is in it.
LEMMA PickIn == ASSUME NEW s, s # {} PROVE Pick(s) \in s
  BY DEF Pick

\* An entry of the table by the recursion.
LEMMA TableEntry ==
    ASSUME NEW g, NEW f, NEW S, IsTable(g, f, S), NEW s \in SUBSET S
    PROVE  g[s] = IF s = {} THEN 0 ELSE f[Pick(s)] + g[s \ {Pick(s)}]
  BY DEF IsTable

\* Two tables agree on a set where the functions do.
LEMMA TablesAgree ==
    ASSUME NEW g, NEW f, NEW S, IsTable(g, f, S),
           NEW h, NEW k, NEW T, IsTable(h, k, T),
           NEW V, IsFiniteSet(V), V \subseteq S, V \subseteq T,
           \A x \in V : f[x] = k[x]
    PROVE  g[V] = h[V]
  <1> DEFINE B == {s \in SUBSET V : g[s] # h[s]}
  <1>1. CASE B # {}
    <2>1. PICK s \in B : \A u \in B : u \subseteq s => u = s
      <3> HIDE DEF B
      <3>1. B \in SUBSET SUBSET V
        BY DEF B
      <3> QED BY <1>1, <3>1, MinimalSubset
    <2>2. s \in SUBSET S /\ s \in SUBSET T /\ s \subseteq V
      OBVIOUS
    <2>3. s # {}
      BY <2>2, TableEntry, <2>1
    <2>4. Pick(s) \in s
      BY <2>3, PickIn
    <2>5. g[s \ {Pick(s)}] = h[s \ {Pick(s)}]
      BY <2>1, <2>2, <2>4
    <2>6. g[s] = f[Pick(s)] + g[s \ {Pick(s)}] /\ h[s] = k[Pick(s)] + h[s \ {Pick(s)}]
      BY <2>2, <2>3, TableEntry
    <2>7. f[Pick(s)] = k[Pick(s)]
      BY <2>2, <2>4
    <2> QED BY <2>1, <2>5, <2>6, <2>7
  <1> QED BY <1>1

\* The recursion has a solution on a finite set.
LEMMA TableExists ==
    ASSUME NEW f, NEW S, IsFiniteSet(S)
    PROVE  IsTable(Table(f, S), f, S)
  <1> DEFINE Has(s) == \E g : IsTable(g, f, s)
             B == {s \in SUBSET S : ~Has(s)}
  <1>1. CASE B # {}
    <2>1. PICK s \in B : \A u \in B : u \subseteq s => u = s
      <3> HIDE DEF B
      <3>1. B \in SUBSET SUBSET S
        BY DEF B
      <3> QED BY <1>1, <3>1, MinimalSubset
    <2>2. \A w \in SUBSET s : w # s => Has(w) /\ IsTable(Table(f, w), f, w)
      <3> SUFFICES ASSUME NEW w \in SUBSET s, w # s
                   PROVE  Has(w) /\ IsTable(Table(f, w), f, w)
        OBVIOUS
      <3>1. Has(w)
        BY <2>1
      <3> QED BY <3>1 DEF Table
    <2> DEFINE G == [u \in SUBSET s |->
                        IF u = {} THEN 0
                        ELSE f[Pick(u)] + Table(f, u \ {Pick(u)})[u \ {Pick(u)}]]
    <2>3. ASSUME NEW w \in SUBSET s, w # s
          PROVE  Table(f, w)[w] = G[w]
      <3>1. IsTable(Table(f, w), f, w)
        BY <2>2, <2>3
      <3>2. CASE w = {}
        BY <3>1, <3>2, TableEntry
      <3>3. CASE w # {}
        <4> DEFINE v == w \ {Pick(w)}
        <4>1. v \in SUBSET s /\ v # s /\ v \subseteq w /\ IsFiniteSet(v)
          <5>1. Pick(w) \in w
            BY <3>3, PickIn
          <5>2. v \in SUBSET S
            BY <2>1
          <5> QED BY <5>1, <5>2, FS_Subset
        <4>2. IsTable(Table(f, v), f, v)
          BY <4>1, <2>2
        <4>3. Table(f, w)[v] = Table(f, v)[v]
          <5> HIDE DEF v, G
          <5> QED BY <3>1, <4>1, <4>2, TablesAgree
        <4>4. Table(f, w)[w] = f[Pick(w)] + Table(f, w)[v]
          BY <3>1, <3>3, TableEntry
        <4> QED BY <4>3, <4>4, <3>3
      <3> QED BY <3>2, <3>3
    <2>4. ASSUME NEW u \in SUBSET s, u # {}
          PROVE  G[u] = f[Pick(u)] + G[u \ {Pick(u)}]
      <3> DEFINE v == u \ {Pick(u)}
      <3>1. Pick(u) \in u
        BY <2>4, PickIn
      <3>2. v \in SUBSET s /\ v # s
        BY <3>1
      <3>3. Table(f, v)[v] = G[v]
        <4> HIDE DEF G, v
        <4> QED BY <3>2, <2>3
      <3>4. G[u] = f[Pick(u)] + Table(f, v)[v]
        BY <2>4
      <3> HIDE DEF G
      <3> QED BY <3>3, <3>4
    <2>5. G = [u \in SUBSET s |-> IF u = {} THEN 0 ELSE f[Pick(u)] + G[u \ {Pick(u)}]]
      <3>1. G = [u \in SUBSET s |-> G[u]]
        OBVIOUS
      <3>2. G[{}] = 0
        OBVIOUS
      <3> HIDE DEF G
      <3> QED BY <2>4, <3>1, <3>2
    <2>6. IsTable(G, f, s)
      <3> HIDE DEF G
      <3> QED BY <2>5 DEF IsTable
    <2> HIDE DEF G
    <2> QED BY <2>1, <2>6
  <1>2. Has(S)
    BY <1>1
  <1> QED BY <1>2 DEF Table

----------------------------------------------------------------------------
(* The sum of f over a finite set: 0 over the empty set, else the value at
   some element and the sum over the others. *)
LEMMA SumUnfolds ==
    ASSUME NEW f, NEW S, IsFiniteSet(S)
    PROVE  SumFunctionOnSet(f, S) =
               IF S = {} THEN 0
               ELSE f[Pick(S)] + SumFunctionOnSet(f, S \ {Pick(S)})
  <1> DEFINE T == S \ {Pick(S)}
  <1>1. IsFiniteSet(T) /\ T \in SUBSET S
    BY FS_Subset
  <1>2. IsTable(Table(f, S), f, S) /\ IsTable(Table(f, T), f, T)
    <2> HIDE DEF T
    <2> QED BY <1>1, TableExists
  <1>3. Table(f, S)[T] = Table(f, T)[T]
    <2> HIDE DEF T
    <2> QED BY <1>1, <1>2, TablesAgree
  <1>4. Table(f, S)[S] = IF S = {} THEN 0 ELSE f[Pick(S)] + Table(f, S)[T]
    BY <1>2, TableEntry
  <1> QED BY <1>3, <1>4, SumIsTable

\* Nothing sums to 0.
LEMMA SumEmpty == ASSUME NEW f PROVE SumFunctionOnSet(f, {}) = 0
  BY SumUnfolds, FS_EmptySet

\* The sum depends on the values of f in S only.
LEMMA SumCongruent ==
    ASSUME NEW f, NEW g, NEW S, IsFiniteSet(S), \A x \in S : f[x] = g[x]
    PROVE  SumFunctionOnSet(f, S) = SumFunctionOnSet(g, S)
  <1>1. IsTable(Table(f, S), f, S) /\ IsTable(Table(g, S), g, S)
    BY TableExists
  <1>2. Table(f, S)[S] = Table(g, S)[S]
    BY <1>1, TablesAgree
  <1> QED BY <1>2, SumIsTable

\* A sum of integers is an integer, one of natural numbers a natural number.
LEMMA SumInInt ==
    ASSUME NEW f, NEW S, IsFiniteSet(S), \A x \in S : f[x] \in Int
    PROVE  SumFunctionOnSet(f, S) \in Int
  <1> DEFINE B == {s \in SUBSET S : SumFunctionOnSet(f, s) \notin Int}
  <1>1. CASE B # {}
    <2>1. PICK s \in B : \A u \in B : u \subseteq s => u = s
      <3> HIDE DEF B
      <3>1. B \in SUBSET SUBSET S
        BY DEF B
      <3> QED BY <1>1, <3>1, MinimalSubset
    <2>2. IsFiniteSet(s)
      BY FS_Subset
    <2>3. s # {}
      BY SumEmpty
    <2>4. Pick(s) \in s
      BY <2>3, PickIn
    <2>5. SumFunctionOnSet(f, s \ {Pick(s)}) \in Int
      BY <2>1, <2>4
    <2>6. SumFunctionOnSet(f, s) = f[Pick(s)] + SumFunctionOnSet(f, s \ {Pick(s)})
      BY <2>2, <2>3, SumUnfolds
    <2> QED BY <2>4, <2>5, <2>6
  <1> QED BY <1>1

\* A sum of natural numbers is a natural number.
LEMMA SumInNat ==
    ASSUME NEW f, NEW S, IsFiniteSet(S), \A x \in S : f[x] \in Nat
    PROVE  SumFunctionOnSet(f, S) \in Nat
  <1> DEFINE B == {s \in SUBSET S : SumFunctionOnSet(f, s) \notin Nat}
  <1>1. CASE B # {}
    <2>1. PICK s \in B : \A u \in B : u \subseteq s => u = s
      <3> HIDE DEF B
      <3>1. B \in SUBSET SUBSET S
        BY DEF B
      <3> QED BY <1>1, <3>1, MinimalSubset
    <2>2. IsFiniteSet(s)
      BY FS_Subset
    <2>3. s # {}
      BY SumEmpty
    <2>4. Pick(s) \in s
      BY <2>3, PickIn
    <2>5. SumFunctionOnSet(f, s \ {Pick(s)}) \in Nat
      BY <2>1, <2>4
    <2>6. SumFunctionOnSet(f, s) = f[Pick(s)] + SumFunctionOnSet(f, s \ {Pick(s)})
      BY <2>2, <2>3, SumUnfolds
    <2> QED BY <2>4, <2>5, <2>6
  <1> QED BY <1>1

(* Any element may be the first: the sum over a finite set of integers is the
   value at an element plus the sum over the others. *)
LEMMA SumRemove ==
    ASSUME NEW f, NEW S, IsFiniteSet(S), \A x \in S : f[x] \in Int,
           NEW x \in S
    PROVE  SumFunctionOnSet(f, S) = f[x] + SumFunctionOnSet(f, S \ {x})
  <1> DEFINE Good(s) == \A y \in s :
                 SumFunctionOnSet(f, s) = f[y] + SumFunctionOnSet(f, s \ {y})
             B == {s \in SUBSET S : ~Good(s)}
  <1>1. ASSUME B # {} PROVE FALSE
    <2>1. PICK s \in B : \A u \in B : u \subseteq s => u = s
      <3> HIDE DEF B
      <3>1. B \in SUBSET SUBSET S
        BY DEF B
      <3> QED BY <1>1, <3>1, MinimalSubset
    <2>2. PICK y \in s : SumFunctionOnSet(f, s) # f[y] + SumFunctionOnSet(f, s \ {y})
      OBVIOUS
    <2> DEFINE p == Pick(s)
    <2>3. p \in s
      BY PickIn
    <2> HIDE DEF p
    <2>4. SumFunctionOnSet(f, s) = f[p] + SumFunctionOnSet(f, s \ {p})
      <3>1. IsFiniteSet(s)
        BY FS_Subset
      <3> QED BY <3>1, SumUnfolds, <2>3 DEF p
    <2>5. p # y
      BY <2>2, <2>4
    <2>6. SumFunctionOnSet(f, s \ {p}) = f[y] + SumFunctionOnSet(f, (s \ {p}) \ {y})
      <3>1. s \ {p} \in SUBSET S /\ s \ {p} # s
        BY <2>3
      <3>2. Good(s \ {p})
        BY <2>1, <3>1
      <3> QED BY <3>2, <2>5
    <2>7. SumFunctionOnSet(f, s \ {y}) = f[p] + SumFunctionOnSet(f, (s \ {y}) \ {p})
      <3>1. s \ {y} \in SUBSET S /\ s \ {y} # s
        OBVIOUS
      <3>2. Good(s \ {y})
        BY <2>1, <3>1
      <3> QED BY <3>2, <2>3, <2>5
    <2> DEFINE r == SumFunctionOnSet(f, s \ {p, y})
    <2>8. (s \ {y}) \ {p} = s \ {p, y} /\ (s \ {p}) \ {y} = s \ {p, y}
      OBVIOUS
    <2>9. r \in Int
      <3>1. IsFiniteSet(s \ {p, y})
        BY FS_Subset
      <3> QED BY <3>1, SumInInt
    <2>10. f[p] \in Int /\ f[y] \in Int
      BY <2>3
    <2>11. SumFunctionOnSet(f, s) = f[p] + (f[y] + r)
      BY <2>4, <2>6, <2>8
    <2>12. SumFunctionOnSet(f, s \ {y}) = f[p] + r
      BY <2>7, <2>8
    <2> HIDE DEF r
    <2> QED BY <2>2, <2>9, <2>10, <2>11, <2>12
  <1>2. \A s \in SUBSET S : Good(s)
    BY <1>1
  <1> QED BY <1>2

\* Adding an element adds its value.
LEMMA SumAdd ==
    ASSUME NEW f, NEW S, IsFiniteSet(S), NEW x, x \notin S,
           \A y \in S \cup {x} : f[y] \in Int
    PROVE  SumFunctionOnSet(f, S \cup {x}) = SumFunctionOnSet(f, S) + f[x]
  <1>1. IsFiniteSet(S \cup {x}) /\ x \in S \cup {x} /\ (S \cup {x}) \ {x} = S
    BY FS_AddElement
  <1>2. SumFunctionOnSet(f, S \cup {x}) = f[x] + SumFunctionOnSet(f, (S \cup {x}) \ {x})
    BY <1>1, SumRemove
  <1>3. SumFunctionOnSet(f, S) \in Int /\ f[x] \in Int
    BY SumInInt
  <1>4. SumFunctionOnSet(f, S \cup {x}) = f[x] + SumFunctionOnSet(f, S)
    BY <1>1, <1>2
  <1> QED BY <1>3, <1>4

\* What a change of f at one point does to its sum.
LEMMA SumUpdate ==
    ASSUME NEW f, NEW g, NEW S, IsFiniteSet(S), NEW x \in S,
           \A y \in S : f[y] \in Int /\ g[y] \in Int,
           \A y \in S \ {x} : f[y] = g[y]
    PROVE  SumFunctionOnSet(g, S) = SumFunctionOnSet(f, S) - f[x] + g[x]
  <1>1. IsFiniteSet(S \ {x})
    BY FS_RemoveElement
  <1>2. SumFunctionOnSet(f, S \ {x}) = SumFunctionOnSet(g, S \ {x})
    BY <1>1, SumCongruent
  <1>3. SumFunctionOnSet(f, S \ {x}) \in Int
    BY <1>1, SumInInt
  <1>4. SumFunctionOnSet(f, S) = f[x] + SumFunctionOnSet(f, S \ {x})
    BY SumRemove
  <1>5. SumFunctionOnSet(g, S) = g[x] + SumFunctionOnSet(g, S \ {x})
    BY SumRemove
  <1> QED BY <1>2, <1>3, <1>4, <1>5

\* A sum of natural numbers grows with the set.
LEMMA SumMonotone ==
    ASSUME NEW f, NEW S, IsFiniteSet(S), \A x \in S : f[x] \in Nat,
           NEW T \in SUBSET S
    PROVE  SumFunctionOnSet(f, T) <= SumFunctionOnSet(f, S)
  <1> DEFINE B == {s \in SUBSET S : T \subseteq s
                        /\ ~(SumFunctionOnSet(f, T) <= SumFunctionOnSet(f, s))}
  <1>0. SumFunctionOnSet(f, T) \in Nat
    <2>1. IsFiniteSet(T)
      BY FS_Subset
    <2> QED BY <2>1, SumInNat
  <1>1. CASE B # {}
    <2>1. PICK s \in B : \A u \in B : u \subseteq s => u = s
      <3> HIDE DEF B
      <3>1. B \in SUBSET SUBSET S
        BY DEF B
      <3> QED BY <1>1, <3>1, MinimalSubset
    <2>2. IsFiniteSet(s)
      BY FS_Subset
    <2>3. PICK x \in s : x \notin T
      BY <1>0
    <2>4. SumFunctionOnSet(f, s) = f[x] + SumFunctionOnSet(f, s \ {x})
      BY <2>2, SumRemove
    <2>5. SumFunctionOnSet(f, T) <= SumFunctionOnSet(f, s \ {x})
      BY <2>1, <2>3
    <2>6. SumFunctionOnSet(f, s \ {x}) \in Nat
      <3>1. IsFiniteSet(s \ {x})
        BY <2>2, FS_RemoveElement
      <3> QED BY <3>1, SumInNat
    <2> QED BY <1>0, <2>1, <2>4, <2>5, <2>6
  <1>2. S \notin B
    BY <1>1
  <1> QED BY <1>2

\* A sum of values that are at most b.
LEMMA SumBounded ==
    ASSUME NEW f, NEW S, IsFiniteSet(S), NEW b \in Nat,
           \A x \in S : f[x] \in Nat /\ f[x] <= b
    PROVE  SumFunctionOnSet(f, S) <= b * Cardinality(S)
  <1> DEFINE B == {s \in SUBSET S : ~(SumFunctionOnSet(f, s) <= b * Cardinality(s))}
  <1>1. CASE B # {}
    <2>1. PICK s \in B : \A u \in B : u \subseteq s => u = s
      <3> HIDE DEF B
      <3>1. B \in SUBSET SUBSET S
        BY DEF B
      <3> QED BY <1>1, <3>1, MinimalSubset
    <2>2. IsFiniteSet(s) /\ s \subseteq S
      BY FS_Subset
    <2>3. s # {}
      <3>1. SumFunctionOnSet(f, {}) = 0 /\ b * Cardinality({}) = 0
        BY SumEmpty, FS_EmptySet
      <3> QED BY <3>1
    <2>4. PICK x \in s : TRUE
      BY <2>3
    <2>5. s \ {x} \notin B /\ s \ {x} \in SUBSET S
      BY <2>1, <2>2, <2>4
    <2>6. SumFunctionOnSet(f, s \ {x}) <= b * Cardinality(s \ {x})
      BY <2>5
    <2>7. /\ IsFiniteSet(s \ {x}) /\ Cardinality(s) \in Nat /\ Cardinality(s) > 0
          /\ Cardinality(s \ {x}) = Cardinality(s) - 1
      BY <2>2, <2>4, FS_RemoveElement, FS_CardinalityType, FS_EmptySet
    <2>8. SumFunctionOnSet(f, s) = f[x] + SumFunctionOnSet(f, s \ {x})
      BY <2>2, <2>4, SumRemove
    <2>9. SumFunctionOnSet(f, s \ {x}) \in Nat /\ f[x] \in Nat /\ f[x] <= b
      BY <2>2, <2>4, <2>7, SumInNat
    <2>10. b * (Cardinality(s) - 1) = b * Cardinality(s) - b
      BY <2>7
    <2> QED BY <2>1, <2>6, <2>7, <2>8, <2>9, <2>10
  <1>2. S \notin B
    BY <1>1
  <1> QED BY <1>2
=============================================================================
