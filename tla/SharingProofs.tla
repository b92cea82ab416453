--------------------------- MODULE SharingProofs ---------------------------
(***************************************************************************)
(* How requests are shared out among the accounts of a provider, and among *)
(* providers.  Both shares are sums over sets whose size is a constant, so *)
(* the lemmas about sums come first; they are by induction over finite     *)
(* sets, with a set of sets in the place of a predicate.                   *)
(***************************************************************************)
EXTENDS AccountPool, ProviderRouting, FiniteSetTheorems, WellFoundedInduction, TLAPS

-----------------------------------------------------------------------------
(* Induction *)

(* Induction over the natural numbers, for a set instead of a predicate *)
LEMMA NatSetInduction ==
  ASSUME NEW C, 0 \in C, \A n \in Nat : n \in C => n + 1 \in C
  PROVE  Nat \subseteq C
<1> SUFFICES ASSUME Nat \ C # {} PROVE FALSE
  OBVIOUS
<1>1. PICK n \in Nat \ C : \A m \in Nat \ C : ~(<<m, n>> \in OpToRel(<, Nat))
  BY NatLessThanWellFounded, WFMin
<1>2. n # 0 /\ n - 1 \in Nat /\ n - 1 < n
  OBVIOUS
<1>3. n - 1 \in C
  BY <1>1, <1>2 DEF OpToRel
<1>4. n - 1 + 1 = n
  OBVIOUS
<1> QED
  BY <1>2, <1>3, <1>4

(* Induction over a finite set, one member at a time, for a set of sets *)
LEMMA SetInduction ==
  ASSUME NEW S, IsFiniteSet(S), NEW C, {} \in C,
         \A T \in SUBSET S : \A x \in S \ T : T \in C => T \cup {x} \in C
  PROVE  S \in C
<1> DEFINE Good == {n \in Nat : \A T \in SUBSET S : Cardinality(T) = n => T \in C}
<1>1. 0 \in Good
  BY FS_Subset, FS_EmptySet
<1>2. ASSUME NEW n \in Nat, n \in Good PROVE n + 1 \in Good
  <2> SUFFICES ASSUME NEW T \in SUBSET S, Cardinality(T) = n + 1 PROVE T \in C
    OBVIOUS
  <2>1. IsFiniteSet(T)
    BY FS_Subset
  <2>2. PICK x \in T : TRUE
    BY <2>1, FS_EmptySet
  <2>3. Cardinality(T \ {x}) = n
    <3>1. Cardinality(T \ {x}) = Cardinality(T) - 1
      BY <2>1, <2>2, FS_RemoveElement
    <3> QED
      BY <3>1
  <2>4. T \ {x} \in C
    BY <1>2, <2>3
  <2> QED
    BY <2>2, <2>4
<1>3. Nat \subseteq Good
  <2> HIDE DEF Good
  <2> QED
    BY <1>1, <1>2, NatSetInduction
<1> QED
  BY <1>3, FS_CardinalityType

-----------------------------------------------------------------------------
(* Sums over finite sets, as the models write them *)
Total(f, S) == MapThenSumSet(LAMBDA x : f[x], S)

(* The equation that the fold solves *)
Pick(s) == CHOOSE x \in s : TRUE

IsTotal(g, f, D) ==
  g = [s \in D |-> IF s = {} THEN 0 ELSE f[Pick(s)] + g[s \ {Pick(s)}]]

(* The fold of the community modules is a solution of that equation. *)
LEMMA TotalDef ==
  ASSUME NEW f, NEW S
  PROVE Total(f, S) = (CHOOSE g : IsTotal(g, f, SUBSET S))[S]
BY DEF Total, MapThenSumSet, MapThenFoldSet, IsTotal, Pick

(* The equation has a solution over the subsets of a finite set. *)
LEMMA TotalExists ==
  ASSUME NEW f, NEW S, IsFiniteSet(S)
  PROVE  \E g : IsTotal(g, f, SUBSET S)
<1> DEFINE Upto(n) == {s \in SUBSET S : Cardinality(s) <= n}
           Good == {n \in Nat : \E g : IsTotal(g, f, Upto(n))}
<1>1. \A s \in SUBSET S :
        IsFiniteSet(s) /\ Cardinality(s) \in Nat /\ Cardinality(s) <= Cardinality(S)
  BY FS_Subset, FS_CardinalityType
<1>2. \A s \in SUBSET S : s # {} => Pick(s) \in s /\ Cardinality(s \ {Pick(s)}) = Cardinality(s) - 1
  BY <1>1, FS_RemoveElement DEF Pick
<1>3. 0 \in Good
  <2>1. Upto(0) = {{}}
    BY <1>1, FS_EmptySet
  <2>2. IsTotal([s \in {{}} |-> 0], f, Upto(0))
    BY <2>1 DEF IsTotal
  <2> QED
    BY <2>2
<1>4. ASSUME NEW n \in Nat, n \in Good PROVE n + 1 \in Good
  <2>1. PICK g : IsTotal(g, f, Upto(n))
    BY <1>4
  <2> DEFINE h == [s \in Upto(n + 1) |-> IF s = {} THEN 0 ELSE f[Pick(s)] + g[s \ {Pick(s)}]]
  <2>2. \A s \in Upto(n) : h[s] = g[s]
    <3> SUFFICES ASSUME NEW s \in Upto(n) PROVE h[s] = g[s]
      OBVIOUS
    <3>1. g[s] = IF s = {} THEN 0 ELSE f[Pick(s)] + g[s \ {Pick(s)}]
      BY <2>1 DEF IsTotal
    <3>2. s \in Upto(n + 1)
      BY <1>1
    <3> QED
      BY <3>1, <3>2
  <2>3. \A s \in Upto(n + 1) : s # {} => s \ {Pick(s)} \in Upto(n)
    BY <1>1, <1>2
  <2>4. IsTotal(h, f, Upto(n + 1))
    BY <2>2, <2>3 DEF IsTotal
  <2> HIDE DEF h, Upto
  <2> QED
    BY <2>4
<1>5. Nat \subseteq Good
  <2> HIDE DEF Good
  <2> QED
    BY <1>3, <1>4, NatSetInduction
<1>6. Upto(Cardinality(S)) = SUBSET S
  BY <1>1
<1>7. Cardinality(S) \in Good
  BY <1>5, FS_CardinalityType
<1> QED
  BY <1>6, <1>7

(* Two solutions of the equation agree where both are defined. *)
LEMMA TotalUnique ==
  ASSUME NEW f, NEW S, IsFiniteSet(S), NEW T \in SUBSET S, NEW g, NEW h,
         IsTotal(g, f, SUBSET S), IsTotal(h, f, SUBSET T)
  PROVE  g[T] = h[T]
<1> DEFINE Good == {n \in Nat : \A s \in SUBSET T : Cardinality(s) = n => g[s] = h[s]}
<1>1. \A s \in SUBSET T : IsFiniteSet(s) /\ Cardinality(s) \in Nat
  BY FS_Subset, FS_CardinalityType
<1>2. ASSUME NEW s \in SUBSET T, s # {}
      PROVE  /\ g[s] = f[Pick(s)] + g[s \ {Pick(s)}] /\ h[s] = f[Pick(s)] + h[s \ {Pick(s)}]
             /\ Pick(s) \in s
  <2>1. s \in SUBSET S
    OBVIOUS
  <2>2. Pick(s) \in s
    BY <1>2 DEF Pick
  <2>3. g[s] = f[Pick(s)] + g[s \ {Pick(s)}]
    BY <1>2, <2>1 DEF IsTotal
  <2>4. h[s] = f[Pick(s)] + h[s \ {Pick(s)}]
    BY <1>2 DEF IsTotal
  <2> QED
    BY <2>2, <2>3, <2>4
<1>3. 0 \in Good
  BY <1>1, FS_EmptySet DEF IsTotal
<1>4. ASSUME NEW n \in Nat, n \in Good PROVE n + 1 \in Good
  <2> SUFFICES ASSUME NEW s \in SUBSET T, Cardinality(s) = n + 1 PROVE g[s] = h[s]
    OBVIOUS
  <2>1. s # {}
    <3>1. Cardinality(s) # 0
      OBVIOUS
    <3> QED
      BY <3>1, FS_EmptySet
  <2>2. Cardinality(s \ {Pick(s)}) = Cardinality(s) - 1
    BY <1>1, <1>2, <2>1, FS_RemoveElement
  <2>3. g[s \ {Pick(s)}] = h[s \ {Pick(s)}]
    BY <1>4, <2>2
  <2> QED
    BY <1>2, <2>1, <2>3
<1>5. Nat \subseteq Good
  <2> HIDE DEF Good
  <2> QED
    BY <1>3, <1>4, NatSetInduction
<1> QED
  BY <1>1, <1>5

(* A total is what is picked first and the total of the others. *)
LEMMA TotalStep ==
  ASSUME NEW f, NEW S, IsFiniteSet(S)
  PROVE  /\ S = {} => Total(f, S) = 0
         /\ S # {} => /\ Pick(S) \in S
                      /\ Total(f, S) = f[Pick(S)] + Total(f, S \ {Pick(S)})
<1> DEFINE g == CHOOSE g : IsTotal(g, f, SUBSET S)
           h == CHOOSE h : IsTotal(h, f, SUBSET (S \ {Pick(S)}))
<1>1. IsTotal(g, f, SUBSET S) /\ IsTotal(h, f, SUBSET (S \ {Pick(S)}))
  <2>1. IsFiniteSet(S \ {Pick(S)})
    BY FS_RemoveElement
  <2> QED
    BY <2>1, TotalExists
<1>2. Total(f, S) = g[S] /\ Total(f, S \ {Pick(S)}) = h[S \ {Pick(S)}]
  BY TotalDef
<1> HIDE DEF g, h
<1>3. g[S \ {Pick(S)}] = h[S \ {Pick(S)}]
  BY <1>1, TotalUnique
<1>4. g[S] = IF S = {} THEN 0 ELSE f[Pick(S)] + g[S \ {Pick(S)}]
  BY <1>1 DEF IsTotal
<1> QED
  BY <1>2, <1>3, <1>4 DEF Pick

(* Nothing adds up to nothing. *)
LEMMA TotalEmpty == \A f : Total(f, {}) = 0
BY FS_EmptySet, TotalStep

(* Totals of integers are integers. *)
LEMMA TotalType ==
  ASSUME NEW f, NEW S, IsFiniteSet(S), \A x \in S : f[x] \in Int
  PROVE  Total(f, S) \in Int
<1> DEFINE Good == {n \in Nat : \A T \in SUBSET S : Cardinality(T) = n => Total(f, T) \in Int}
<1>1. \A T \in SUBSET S : IsFiniteSet(T) /\ Cardinality(T) \in Nat
  BY FS_Subset, FS_CardinalityType
<1>2. 0 \in Good
  BY <1>1, FS_EmptySet, TotalEmpty
<1>3. ASSUME NEW n \in Nat, n \in Good PROVE n + 1 \in Good
  <2> SUFFICES ASSUME NEW T \in SUBSET S, Cardinality(T) = n + 1 PROVE Total(f, T) \in Int
    OBVIOUS
  <2>1. T # {}
    <3>1. Cardinality(T) # 0
      OBVIOUS
    <3> QED
      BY <3>1, FS_EmptySet
  <2>2. Pick(T) \in T /\ Total(f, T) = f[Pick(T)] + Total(f, T \ {Pick(T)})
    BY <1>1, <2>1, TotalStep
  <2>3. Cardinality(T \ {Pick(T)}) = Cardinality(T) - 1
    BY <1>1, <2>2, FS_RemoveElement
  <2> QED
    BY <1>3, <2>2, <2>3
<1>4. Nat \subseteq Good
  <2> HIDE DEF Good
  <2> QED
    BY <1>2, <1>3, NatSetInduction
<1> QED
  BY <1>1, <1>4

(* The order does not matter. *)
LEMMA TotalRemove ==
  ASSUME NEW f, NEW S, IsFiniteSet(S), \A x \in S : f[x] \in Int, NEW x \in S
  PROVE  Total(f, S) = f[x] + Total(f, S \ {x})
<1> DEFINE Good == {n \in Nat : \A T \in SUBSET S : \A y \in T :
                      Cardinality(T) = n => Total(f, T) = f[y] + Total(f, T \ {y})}
<1>1. \A T \in SUBSET S : IsFiniteSet(T) /\ Cardinality(T) \in Nat /\ Total(f, T) \in Int
  BY FS_Subset, FS_CardinalityType, TotalType
<1>2. 0 \in Good
  BY <1>1, FS_EmptySet
<1>3. ASSUME NEW n \in Nat, n \in Good PROVE n + 1 \in Good
  <2> SUFFICES ASSUME NEW T \in SUBSET S, NEW y \in T, Cardinality(T) = n + 1
               PROVE  Total(f, T) = f[y] + Total(f, T \ {y})
    OBVIOUS
  <2> DEFINE z == Pick(T)
  <2>1. z \in T /\ Total(f, T) = f[z] + Total(f, T \ {z})
    BY <1>1, TotalStep
  <2> HIDE DEF z
  <2>2. CASE z = y
    BY <2>1, <2>2
  <2>3. CASE z # y
    <3>1. Cardinality(T \ {z}) = n /\ Cardinality(T \ {y}) = n
      BY <1>1, <2>1, FS_RemoveElement
    <3>2. /\ Total(f, T \ {z}) = f[y] + Total(f, (T \ {z}) \ {y})
          /\ Total(f, T \ {y}) = f[z] + Total(f, (T \ {y}) \ {z})
      BY <1>3, <2>1, <2>3, <3>1
    <3>3. (T \ {z}) \ {y} = (T \ {y}) \ {z}
      OBVIOUS
    <3>4. f[y] \in Int /\ f[z] \in Int /\ Total(f, (T \ {y}) \ {z}) \in Int
      BY <1>1, <2>1
    <3>5. Total(f, T) = f[z] + (f[y] + Total(f, (T \ {y}) \ {z}))
      BY <2>1, <3>2, <3>3, Zenon
    <3> QED
      BY <3>2, <3>4, <3>5
  <2> QED
    BY <2>2, <2>3
<1>4. Nat \subseteq Good
  <2> HIDE DEF Good
  <2> QED
    BY <1>2, <1>3, NatSetInduction
<1> QED
  BY <1>1, <1>4

(* A new member adds what it is worth. *)
LEMMA TotalAdd ==
  ASSUME NEW f, NEW S, IsFiniteSet(S), NEW x, x \notin S, \A y \in S \cup {x} : f[y] \in Int
  PROVE  Total(f, S \cup {x}) = Total(f, S) + f[x]
<1>1. IsFiniteSet(S \cup {x}) /\ (S \cup {x}) \ {x} = S /\ Total(f, S) \in Int /\ f[x] \in Int
  BY FS_AddElement, TotalType
<1>2. Total(f, S \cup {x}) = f[x] + Total(f, (S \cup {x}) \ {x})
  BY <1>1, TotalRemove
<1>3. Total(f, S \cup {x}) = f[x] + Total(f, S)
  BY <1>1, <1>2, Zenon
<1> QED
  BY <1>1, <1>3

(* What is added up element by element *)
LEMMA TotalPlus ==
  ASSUME NEW S, IsFiniteSet(S), NEW f, NEW g, NEW h,
         \A x \in S : f[x] \in Int /\ g[x] \in Int /\ h[x] = f[x] + g[x]
  PROVE  Total(h, S) = Total(f, S) + Total(g, S)
<1> DEFINE C == {T \in SUBSET S : Total(h, T) = Total(f, T) + Total(g, T)}
<1>1. {} \in C
  BY TotalEmpty
<1>2. ASSUME NEW T \in SUBSET S, NEW x \in S \ T, T \in C PROVE T \cup {x} \in C
  <2>1. IsFiniteSet(T)
    BY FS_Subset
  <2>2. /\ Total(f, T \cup {x}) = Total(f, T) + f[x] /\ Total(g, T \cup {x}) = Total(g, T) + g[x]
        /\ Total(h, T \cup {x}) = Total(h, T) + h[x]
    BY <2>1, TotalAdd
  <2>3. Total(f, T) \in Int /\ Total(g, T) \in Int
    BY <2>1, TotalType
  <2> QED
    BY <1>2, <2>2, <2>3
<1> HIDE DEF C
<1>3. S \in C
  BY <1>1, <1>2, SetInduction
<1> QED
  BY <1>3 DEF C

(* Functions that agree on a set have the same total over it. *)
LEMMA TotalSame ==
  ASSUME NEW S, IsFiniteSet(S), NEW f, NEW g, \A x \in S : f[x] \in Int /\ g[x] = f[x]
  PROVE  Total(g, S) = Total(f, S)
<1> DEFINE C == {T \in SUBSET S : Total(g, T) = Total(f, T)}
<1>1. {} \in C
  BY TotalEmpty
<1>2. ASSUME NEW T \in SUBSET S, NEW x \in S \ T, T \in C PROVE T \cup {x} \in C
  <2>1. IsFiniteSet(T)
    BY FS_Subset
  <2>2. /\ Total(f, T \cup {x}) = Total(f, T) + f[x] /\ Total(g, T \cup {x}) = Total(g, T) + g[x]
    BY <2>1, TotalAdd
  <2> QED
    BY <1>2, <2>2
<1> HIDE DEF C
<1>3. S \in C
  BY <1>1, <1>2, SetInduction
<1> QED
  BY <1>3 DEF C

(* The total over two sets that have nothing in common *)
LEMMA TotalUnion ==
  ASSUME NEW f, NEW S, IsFiniteSet(S), NEW T, IsFiniteSet(T), S \cap T = {},
         \A x \in S \cup T : f[x] \in Int
  PROVE  Total(f, S \cup T) = Total(f, S) + Total(f, T)
<1> DEFINE C == {U \in SUBSET T : Total(f, S \cup U) = Total(f, S) + Total(f, U)}
<1>1. {} \in C
  <2>1. Total(f, S) \in Int /\ S \cup {} = S /\ Total(f, {}) = 0
    BY TotalEmpty, TotalType
  <2> QED
    BY <2>1
<1>2. ASSUME NEW U \in SUBSET T, NEW x \in T \ U, U \in C PROVE U \cup {x} \in C
  <2>1. IsFiniteSet(U) /\ IsFiniteSet(S \cup U)
    BY FS_Subset, FS_Union
  <2>2. Total(f, U \cup {x}) = Total(f, U) + f[x]
    BY <2>1, TotalAdd
  <2>3. Total(f, (S \cup U) \cup {x}) = Total(f, S \cup U) + f[x]
    BY <2>1, TotalAdd
  <2>4. Total(f, S) \in Int /\ Total(f, U) \in Int /\ f[x] \in Int
    BY <2>1, TotalType
  <2>5. S \cup (U \cup {x}) = (S \cup U) \cup {x}
    OBVIOUS
  <2>6. Total(f, S \cup (U \cup {x})) = Total(f, S \cup U) + f[x]
    BY <2>3, <2>5, Zenon
  <2> QED
    BY <1>2, <2>2, <2>4, <2>6
<1> HIDE DEF C
<1>3. T \in C
  BY <1>1, <1>2, SetInduction
<1> QED
  BY <1>3 DEF C

(* Where no member is worth more than k *)
LEMMA TotalAtMost ==
  ASSUME NEW f, NEW S, IsFiniteSet(S), NEW k \in Int, \A x \in S : f[x] \in Int /\ f[x] <= k
  PROVE  Total(f, S) <= Cardinality(S) * k
<1> DEFINE C == {T \in SUBSET S : Total(f, T) <= Cardinality(T) * k}
<1>1. {} \in C
  <2>1. Total(f, {}) = 0 /\ Cardinality({}) = 0 /\ 0 * k = 0
    BY FS_EmptySet, TotalEmpty
  <2>2. Total(f, {}) <= Cardinality({}) * k
    BY <2>1
  <2> QED
    BY <2>2
<1>2. ASSUME NEW T \in SUBSET S, NEW x \in S \ T, T \in C PROVE T \cup {x} \in C
  <2>1. IsFiniteSet(T) /\ Cardinality(T) \in Nat
    BY FS_Subset, FS_CardinalityType
  <2>2. Total(f, T \cup {x}) = Total(f, T) + f[x] /\ Total(f, T) \in Int
    BY <2>1, TotalAdd, TotalType
  <2>3. Cardinality(T \cup {x}) = Cardinality(T) + 1
    BY <2>1, FS_AddElement
  <2>4. (Cardinality(T) + 1) * k = Cardinality(T) * k + k /\ Cardinality(T) * k \in Int
    BY <2>1
  <2> QED
    BY <1>2, <2>2, <2>3, <2>4
<1> HIDE DEF C
<1>3. S \in C
  BY <1>1, <1>2, SetInduction
<1> QED
  BY <1>3 DEF C

(* Totals of natural numbers are natural numbers. *)
LEMMA TotalNatural ==
  ASSUME NEW f, NEW S, IsFiniteSet(S), \A x \in S : f[x] \in Nat
  PROVE  Total(f, S) \in Nat
<1> DEFINE C == {T \in SUBSET S : Total(f, T) \in Nat}
<1>1. {} \in C
  BY TotalEmpty
<1>2. ASSUME NEW T \in SUBSET S, NEW x \in S \ T, T \in C PROVE T \cup {x} \in C
  <2>1. IsFiniteSet(T) /\ Total(f, T) \in Nat /\ f[x] \in Nat
    BY <1>2, FS_Subset
  <2>2. Total(f, T \cup {x}) = Total(f, T) + f[x]
    BY <2>1, TotalAdd
  <2> QED
    BY <2>1, <2>2
<1> HIDE DEF C
<1>3. S \in C
  BY <1>1, <1>2, SetInduction
<1> QED
  BY <1>3 DEF C

-----------------------------------------------------------------------------
(* The best of finitely many *)
LEMMA ArgMax ==
  ASSUME NEW S, IsFiniteSet(S), S # {}, NEW f, \A x \in S : f[x] \in Int
  PROVE  \E x \in S : \A y \in S : f[y] <= f[x]
<1> DEFINE C == {T \in SUBSET S : T # {} => \E x \in T : \A y \in T : f[y] <= f[x]}
<1>1. {} \in C
  OBVIOUS
<1>2. ASSUME NEW T \in SUBSET S, NEW z \in S \ T, T \in C PROVE T \cup {z} \in C
  <2>1. CASE T = {}
    BY <2>1
  <2>2. CASE T # {}
    <3>1. PICK x \in T : \A y \in T : f[y] <= f[x]
      BY <1>2, <2>2
    <3>2. CASE f[z] <= f[x]
      BY <3>1, <3>2
    <3>3. CASE f[x] <= f[z]
      <4>1. \A y \in T \cup {z} : f[y] <= f[z]
        BY <3>1, <3>3
      <4> QED
        BY <4>1
    <3> QED
      BY <3>2, <3>3
  <2> QED
    BY <2>1, <2>2
<1> HIDE DEF C
<1>3. S \in C
  BY <1>1, <1>2, SetInduction
<1> QED
  BY <1>3 DEF C

(* And the least of finitely many *)
LEMMA ArgMin ==
  ASSUME NEW S, IsFiniteSet(S), S # {}, NEW f, \A x \in S : f[x] \in Int
  PROVE  \E x \in S : \A y \in S : f[x] <= f[y]
<1> DEFINE g == [x \in S |-> -f[x]]
<1>1. \A x \in S : g[x] \in Int /\ g[x] = -f[x]
  OBVIOUS
<1> HIDE DEF g
<1>2. PICK x \in S : \A y \in S : g[y] <= g[x]
  BY <1>1, ArgMax
<1>3. \A y \in S : f[x] <= f[y]
  BY <1>1, <1>2
<1> QED
  BY <1>3

(* The minimum of a set of natural numbers is one of them. *)
LEMMA LeastNatural ==
  ASSUME NEW T \in SUBSET Nat, T # {}
  PROVE  Min(T) \in T /\ \A y \in T : Min(T) <= y
<1>1. PICK x \in T : \A y \in T : ~(<<y, x>> \in OpToRel(<, Nat))
  BY NatLessThanWellFounded, WFMin
<1>2. \A y \in T : ~(y < x)
  BY <1>1 DEF OpToRel
<1>3. \A y \in T : x <= y
  BY <1>2
<1> QED
  BY <1>3 DEF Min


(* What m makes of a set; that it is one to one, and f of it is g *)
Renamed(m, S) == {m[x] : x \in S}
Renames(m, S, f, g) ==
  /\ \A x \in S : f[m[x]] \in Int /\ g[x] = f[m[x]]
  /\ \A x \in S, y \in S : m[x] = m[y] => x = y

(* A total does not change when the members are renamed one to one. *)
LEMMA TotalMoved ==
  ASSUME NEW S, IsFiniteSet(S), NEW f, NEW g, NEW m, Renames(m, S, f, g)
  PROVE  Total(g, S) = Total(f, Renamed(m, S))
<1>0. /\ \A x \in S : f[m[x]] \in Int /\ g[x] = f[m[x]]
      /\ \A x \in S, y \in S : m[x] = m[y] => x = y
  BY DEF Renames
<1> DEFINE C == {T \in SUBSET S : /\ IsFiniteSet({m[x] : x \in T})
                                  /\ Total(g, T) = Total(f, {m[x] : x \in T})}
<1>1. {} \in C
  <2>1. {m[x] : x \in {}} = {}
    OBVIOUS
  <2>2. Total(f, {m[x] : x \in {}}) = Total(f, {})
    BY <2>1, Zenon
  <2>3. IsFiniteSet({m[x] : x \in {}})
    BY <2>1, FS_EmptySet, Zenon
  <2> HIDE DEF Total
  <2> QED
    BY <2>2, <2>3, TotalEmpty, Zenon
<1>2. ASSUME NEW T \in SUBSET S, NEW z \in S \ T, T \in C PROVE T \cup {z} \in C
  <2> DEFINE I == {m[x] : x \in T}
             J == {m[x] : x \in T \cup {z}}
  <2>1. IsFiniteSet(T) /\ IsFiniteSet(I) /\ Total(g, T) = Total(f, I)
    BY <1>2, FS_Subset
  <2>2. J = I \cup {m[z]} /\ m[z] \notin I
    <3>1. m[z] \notin I
      BY <1>0, <1>2
    <3> QED
      BY <3>1
  <2>3. \A y \in I \cup {m[z]} : f[y] \in Int
    BY <1>0, <1>2
  <2>4. Total(f, I \cup {m[z]}) = Total(f, I) + f[m[z]] /\ IsFiniteSet(I \cup {m[z]})
    <3> HIDE DEF I, Total
    <3>1. Total(f, I \cup {m[z]}) = Total(f, I) + f[m[z]]
      BY <2>1, <2>2, <2>3, TotalAdd
    <3> QED
      BY <2>1, <3>1, FS_AddElement
  <2>5. Total(g, T \cup {z}) = Total(g, T) + g[z]
    <3>1. \A x \in T \cup {z} : g[x] \in Int
      BY <1>0, <1>2
    <3> QED
      BY <1>2, <2>1, <3>1, TotalAdd
  <2>6. Total(g, T \cup {z}) = Total(f, J) /\ IsFiniteSet(J)
    <3> HIDE DEF I, J, Total
    <3>1. g[z] = f[m[z]]
      BY <1>0, <1>2
    <3>2. Total(f, J) = Total(f, I) + f[m[z]] /\ IsFiniteSet(J)
      BY <2>2, <2>4, Zenon
    <3> QED
      BY <2>1, <2>5, <3>1, <3>2, Zenon
  <2> QED
    BY <1>2, <2>6
<1> HIDE DEF C
<1>3. S \in C
  BY <1>1, <1>2, SetInduction
<1> QED
  BY <1>3, Zenon DEF C, Renamed

-----------------------------------------------------------------------------
(* The k-th of a set of numbers *)
Rank(S, i) == Cardinality({j \in S : j < i})
Nth(S, k) == CHOOSE i \in S : Rank(S, i) = k - 1

(* The larger of two numbers has more below it. *)
LEMMA RankGrows ==
  ASSUME NEW S \in SUBSET Nat, IsFiniteSet(S), NEW i \in S
  PROVE  /\ Rank(S, i) \in 0..Cardinality(S) - 1
         /\ \A l \in S : i < l => Rank(S, i) < Rank(S, l)
<1> DEFINE Below(l) == {j \in S : j < l}
<1>1. \A T \in SUBSET S : IsFiniteSet(T) /\ Cardinality(T) \in Nat
  BY FS_Subset, FS_CardinalityType
<1>2. ASSUME NEW T \in SUBSET S, Below(i) \subseteq T, i \in T
      PROVE  Cardinality(Below(i)) < Cardinality(T)
  <2>1. Below(i) # T
    <3>1. i \notin Below(i)
      OBVIOUS
    <3> QED
      BY <1>2, <3>1, Zenon
  <2> HIDE DEF Below
  <2>2. Below(i) \in SUBSET T /\ IsFiniteSet(T)
    BY <1>1, <1>2
  <2>3. Cardinality(Below(i)) <= Cardinality(T) /\ Cardinality(Below(i)) # Cardinality(T)
    BY <2>1, <2>2, FS_Subset, Zenon
  <2>4. Cardinality(Below(i)) \in Nat /\ Cardinality(T) \in Nat
    <3>1. Below(i) \in SUBSET S
      BY DEF Below
    <3> QED
      BY <1>1, <3>1
  <2> QED
    BY <2>3, <2>4
<1>3. Cardinality(Below(i)) < Cardinality(S)
  BY <1>2
<1>4. ASSUME NEW l \in S, i < l PROVE Cardinality(Below(i)) < Cardinality(Below(l))
  <2>1. Below(i) \subseteq Below(l) /\ i \in Below(l) /\ Below(l) \in SUBSET S
    <3>1. \A j \in S : j < i => j < l
      <4>1. \A j \in S : j \in Nat
        OBVIOUS
      <4> QED
        BY <1>4, <4>1
    <3> QED
      BY <1>4, <3>1
  <2> QED
    BY <1>2, <2>1
<1>5. Cardinality(Below(i)) \in Nat /\ Cardinality(S) \in Nat
  BY <1>1
<1> QED
  BY <1>3, <1>4, <1>5 DEF Rank

(* The numbers of a finite set are its first, second, ... last. *)
LEMMA NthIsOnto ==
  ASSUME NEW S \in SUBSET Nat, IsFiniteSet(S)
  PROVE  /\ \A k \in 1..Cardinality(S) : Nth(S, k) \in S /\ Rank(S, Nth(S, k)) = k - 1
         /\ \A i \in S : Rank(S, i) + 1 \in 1..Cardinality(S) /\ Nth(S, Rank(S, i) + 1) = i
<1> DEFINE n == Cardinality(S)
           r == [i \in S |-> Rank(S, i)]
<1>1. n \in Nat /\ IsFiniteSet(0..n - 1) /\ Cardinality(0..n - 1) = n
  <2>1. n \in Nat
    BY FS_CardinalityType
  <2> HIDE DEF n
  <2>2. IsFiniteSet(0..n - 1) /\ Cardinality(0..n - 1) = IF 0 > n - 1 THEN 0 ELSE n - 1 - 0 + 1
    BY <2>1, FS_Interval
  <2> QED
    BY <2>1, <2>2
<1>2. \A i \in S : Rank(S, i) \in 0..n - 1
  BY RankGrows
<1>3. \A i \in S, l \in S : Rank(S, i) = Rank(S, l) => i = l
  <2> SUFFICES ASSUME NEW i \in S, NEW l \in S, i # l PROVE Rank(S, i) # Rank(S, l)
    OBVIOUS
  <2>1. i < l \/ l < i
    OBVIOUS
  <2>2. Rank(S, i) \in Int /\ Rank(S, l) \in Int
    BY <1>1, <1>2
  <2> QED
    BY <2>1, <2>2, RankGrows
<1>4. r \in Injection(S, 0..n - 1)
  BY <1>2, <1>3 DEF Injection, IsInjective
<1>5. r \in Surjection(S, 0..n - 1)
  <2> HIDE DEF r, n
  <2> QED
    BY <1>1, <1>4, FS_Injection DEF n
<1>6. ASSUME NEW k \in 1..n PROVE Nth(S, k) \in S /\ Rank(S, Nth(S, k)) = k - 1
  <2>1. k - 1 \in 0..n - 1
    BY <1>1
  <2>2. \E i \in S : Rank(S, i) = k - 1
    BY <1>5, <2>1 DEF Surjection
  <2> QED
    BY <2>2 DEF Nth
<1>7. ASSUME NEW i \in S PROVE Rank(S, i) + 1 \in 1..n /\ Nth(S, Rank(S, i) + 1) = i
  <2> DEFINE k == Rank(S, i) + 1
  <2>1. k \in 1..n /\ k - 1 = Rank(S, i)
    BY <1>1, <1>2
  <2>2. Nth(S, k) \in S /\ Rank(S, Nth(S, k)) = k - 1
    <3> HIDE DEF k
    <3> QED
      BY <1>6, <2>1 DEF k
  <2>3. Rank(S, Nth(S, k)) = Rank(S, i)
    <3> HIDE DEF k
    <3> QED
      BY <2>1, <2>2, Zenon
  <2> QED
    BY <1>3, <2>1, <2>2, <2>3
<1> QED
  BY <1>6, <1>7

-----------------------------------------------------------------------------
(* The account pool *)

(* The accounts are finitely many. *)
LEMMA PoolIsFinite ==
  /\ IsFiniteSet(Pool) /\ Cardinality(Pool) = PoolSize
  /\ \A T \in SUBSET Pool : IsFiniteSet(T) /\ Cardinality(T) \in Nat
<1>1. IsFiniteSet(Pool) /\ Cardinality(Pool) = PoolSize
  <2>1. PoolSize \in Nat
    BY PoolAssumption
  <2>2. IsFiniteSet(Pool) /\ Cardinality(Pool) = IF 1 > PoolSize THEN 0 ELSE PoolSize - 1 + 1
    BY <2>1, FS_Interval DEF Pool
  <2> QED
    BY <2>1, <2>2
<1> QED
  BY <1>1, FS_Subset, FS_CardinalityType

(* The largest weight *)
Most == Max({Weights[a] : a \in Pool})

(* No weight is larger than the largest. *)
LEMMA MostIsMost ==
  ASSUME NEW a \in Pool
  PROVE  Most \in Nat /\ \A b \in Pool : Weights[b] \in Nat /\ Weights[b] <= Most
<1>1. \A b \in Pool : Weights[b] \in Nat
  BY PoolAssumption
<1>2. PICK b \in Pool : \A c \in Pool : Weights[c] <= Weights[b]
  BY <1>1, ArgMax, PoolIsFinite
<1> DEFINE V == {Weights[c] : c \in Pool}
<1>3. \E v \in V : \A y \in V : v >= y
  BY <1>1, <1>2
<1>4. Max(V) \in V /\ \A y \in V : Max(V) >= y
  BY <1>3 DEF Max
<1> QED
  BY <1>1, <1>4 DEF Most

(* select gives the turn to a candidate that nobody is ahead of. *)
LEMMA WinnerWins ==
  ASSUME currentWeights \in [Pool -> Int], NEW S \in SUBSET Pool, S # {}
  PROVE  /\ Raised(S) \in [Pool -> Int] /\ Winner(S) \in S
         /\ \A b \in S : Raised(S)[b] <= Raised(S)[Winner(S)]
<1>1. Raised(S) \in [Pool -> Int]
  BY PoolAssumption DEF Raised
<1> DEFINE T == {a \in S : \A b \in S : Raised(S)[b] <= Raised(S)[a]}
<1>2. T # {}
  BY <1>1, ArgMax, PoolIsFinite
<1>3. T \in SUBSET Nat
  <2>1. Pool \subseteq Nat
    BY PoolAssumption DEF Pool
  <2>2. T \subseteq S
    OBVIOUS
  <2> QED
    BY <2>1, <2>2, Zenon
<1>4. Min(T) \in T
  <2> HIDE DEF T
  <2> QED
    BY <1>2, <1>3, LeastNatural
<1> QED
  BY <1>1, <1>4 DEF Winner

(* The arithmetic of a turn.  Of n accounts, m are in the set of interest  *)
(* and s of these are candidates; X is what those s stand at after they    *)
(* were raised, Y what the other m - s stand at, and R where the winner,   *)
(* who is not in the set, stands.  The winner is not behind the s, and     *)
(* with it the set is within its bound but for the s + 1 weights just      *)
(* added.                                                                  *)
LEMMA Balance ==
  ASSUME NEW n \in Int, NEW m \in Int, NEW s \in Nat, NEW M \in Int,
         NEW X \in Int, NEW Y \in Int, NEW R \in Int,
         X <= s * R,
         X + Y + R <= M * ((m + 1) * (n - m - 1)) + s * M + M,
         Y <= M * ((m - s) * (n - m + s))
  PROVE  X + Y <= M * (m * (n - m))
<1>1. (s + 1) * (X + Y) = s * (X + Y) + X + Y
  OBVIOUS
<1>2. (s + 1) * (X + Y) <= s * (X + Y + R) + Y
  BY <1>1
<1>3. s * (X + Y + R) <= s * (M * ((m + 1) * (n - m - 1)) + s * M + M)
  OBVIOUS
<1>4. s * (M * ((m + 1) * (n - m - 1)) + s * M + M) + M * ((m - s) * (n - m + s))
        = (s + 1) * (M * (m * (n - m)))
  OBVIOUS
<1>5. (s + 1) * (X + Y) <= (s + 1) * (M * (m * (n - m)))
  BY <1>2, <1>3, <1>4
<1> DEFINE K == M * (m * (n - m))
           Z == X + Y
<1>6. K \in Int /\ Z \in Int /\ (s + 1) * Z <= (s + 1) * K
  BY <1>5
<1> HIDE DEF K, Z
<1>7. Z <= K
  BY <1>6
<1> QED
  BY <1>7 DEF K, Z

-----------------------------------------------------------------------------
(* A total over accounts may be split. *)
LEMMA PoolTotals ==
  ASSUME NEW f \in [Pool -> Int], NEW T \in SUBSET Pool
  PROVE  /\ Total(f, T) \in Int
         /\ \A U \in SUBSET Pool : Total(f, T) = Total(f, T \cap U) + Total(f, T \ U)
<1>1. IsFiniteSet(T) /\ \A x \in T : f[x] \in Int
  BY PoolIsFinite
<1>2. ASSUME NEW U \in SUBSET Pool PROVE Total(f, T) = Total(f, T \cap U) + Total(f, T \ U)
  <2>1. IsFiniteSet(T \cap U) /\ IsFiniteSet(T \ U) /\ (T \cap U) \cap (T \ U) = {}
        /\ (T \cap U) \cup (T \ U) = T
    BY PoolIsFinite
  <2>2. Total(f, (T \cap U) \cup (T \ U)) = Total(f, T \cap U) + Total(f, T \ U)
    <3>1. \A x \in (T \cap U) \cup (T \ U) : f[x] \in Int
      BY <1>1
    <3> HIDE DEF Total
    <3> QED
      BY <2>1, <3>1, TotalUnion, Zenon
  <2> QED
    BY <2>1, <2>2, Zenon
<1> QED
  BY <1>1, <1>2, TotalType

(* What raising the candidates adds to a set *)
LEMMA RaisedTotal ==
  ASSUME currentWeights \in [Pool -> Int], NEW S \in SUBSET Pool, NEW T \in SUBSET Pool
  PROVE  Total(Raised(S), T) = Total(currentWeights, T) + Total(Weights, S \cap T)
<1>1. Weights \in [Pool -> Int] /\ Raised(S) \in [Pool -> Int]
  BY PoolAssumption DEF Raised
<1>2. Total(Raised(S), T \cap S) = Total(currentWeights, T \cap S) + Total(Weights, T \cap S)
  <2>1. \A x \in T \cap S :
          /\ currentWeights[x] \in Int /\ Weights[x] \in Int
          /\ Raised(S)[x] = currentWeights[x] + Weights[x]
    BY <1>1 DEF Raised
  <2>2. IsFiniteSet(T \cap S)
    BY PoolIsFinite
  <2> QED
    BY <2>1, <2>2, TotalPlus
<1>3. Total(Raised(S), T \ S) = Total(currentWeights, T \ S)
  <2>1. \A x \in T \ S : currentWeights[x] \in Int /\ Raised(S)[x] = currentWeights[x]
    BY DEF Raised
  <2>2. IsFiniteSet(T \ S)
    BY PoolIsFinite
  <2> QED
    BY <2>1, <2>2, TotalSame
<1>4. /\ Total(Raised(S), T) = Total(Raised(S), T \cap S) + Total(Raised(S), T \ S)
      /\ Total(currentWeights, T) = Total(currentWeights, T \cap S) + Total(currentWeights, T \ S)
  <2>1. Total(Raised(S), T) = Total(Raised(S), T \cap S) + Total(Raised(S), T \ S)
    <3> DEFINE r == Raised(S)
    <3>1. r \in [Pool -> Int]
      BY <1>1
    <3> HIDE DEF r
    <3>2. Total(r, T) = Total(r, T \cap S) + Total(r, T \ S)
      BY <3>1, PoolTotals
    <3> QED
      BY <3>2 DEF r
  <2>2. Total(currentWeights, T)
          = Total(currentWeights, T \cap S) + Total(currentWeights, T \ S)
    BY PoolTotals
  <2> QED
    BY <2>1, <2>2, Zenon
<1>5. T \cap S = S \cap T
  OBVIOUS
<1>6. Total(Weights, T \cap S) = Total(Weights, S \cap T)
  BY <1>5, Zenon
<1>7. /\ Total(currentWeights, T \cap S) \in Int /\ Total(currentWeights, T \ S) \in Int
      /\ Total(Weights, T \cap S) \in Int
  BY <1>1, PoolTotals
<1> HIDE DEF Total
<1> QED
  BY <1>2, <1>3, <1>4, <1>6, <1>7

(* What the winner gives up, its set loses. *)
LEMMA TurnTotal ==
  ASSUME currentWeights \in [Pool -> Int], NEW S \in SUBSET Pool, S # {}, NEW T \in SUBSET Pool
  PROVE  /\ Turn(S) \in [Pool -> Int]
         /\ Winner(S) \notin T => Total(Turn(S), T) = Total(Raised(S), T)
         /\ Winner(S) \in T => Total(Turn(S), T) = Total(Raised(S), T) - Total(Weights, S)
<1> DEFINE w == Winner(S)
<1>1. Weights \in [Pool -> Int] /\ Raised(S) \in [Pool -> Int] /\ w \in Pool
      /\ Total(Weights, S) \in Int
  BY PoolAssumption, WinnerWins, PoolTotals
<1>2. Turn(S) = [Raised(S) EXCEPT ![w] = @ - Total(Weights, S)]
  BY DEF Turn, Total
<1> HIDE DEF w, Total
<1>3. Turn(S) \in [Pool -> Int] /\ Turn(S)[w] = Raised(S)[w] - Total(Weights, S)
      /\ \A a \in Pool \ {w} : Turn(S)[a] = Raised(S)[a]
  BY <1>1, <1>2
<1>4. ASSUME NEW U \in SUBSET Pool, w \notin U PROVE Total(Turn(S), U) = Total(Raised(S), U)
  <2>1. IsFiniteSet(U) /\ \A x \in U : Raised(S)[x] \in Int /\ Turn(S)[x] = Raised(S)[x]
    BY <1>1, <1>3, <1>4, PoolIsFinite
  <2> QED
    BY <2>1, TotalSame
<1>5. ASSUME w \in T PROVE Total(Turn(S), T) = Total(Raised(S), T) - Total(Weights, S)
  <2>1. Total(Turn(S), T \ {w}) = Total(Raised(S), T \ {w})
    BY <1>4
  <2>2. IsFiniteSet(T) /\ \A x \in T : Raised(S)[x] \in Int /\ Turn(S)[x] \in Int
    BY <1>1, <1>3, PoolIsFinite
  <2>3. /\ Total(Turn(S), T) = Turn(S)[w] + Total(Turn(S), T \ {w})
        /\ Total(Raised(S), T) = Raised(S)[w] + Total(Raised(S), T \ {w})
    BY <1>5, <2>2, TotalRemove
  <2>4. Total(Raised(S), T \ {w}) \in Int /\ Raised(S)[w] \in Int
    BY <1>1, PoolTotals
  <2> QED
    BY <1>1, <1>3, <2>1, <2>3, <2>4
<1> QED
  BY <1>3, <1>4, <1>5 DEF w

(* Weights add up to at most the largest for each. *)
LEMMA WeightTotals ==
  ASSUME NEW T \in SUBSET Pool
  PROVE  /\ Total(Weights, T) \in Nat
         /\ T # {} => Total(Weights, T) <= Cardinality(T) * Most
<1>1. IsFiniteSet(T) /\ \A x \in T : Weights[x] \in Nat
  BY PoolAssumption, PoolIsFinite
<1>2. Total(Weights, T) \in Nat
  BY <1>1, TotalNatural
<1>3. ASSUME T # {} PROVE Total(Weights, T) <= Cardinality(T) * Most
  <2>1. Most \in Int /\ \A x \in T : Weights[x] \in Int /\ Weights[x] <= Most
    BY <1>1, <1>3, MostIsMost
  <2> QED
    BY <1>1, <2>1, TotalAtMost
<1> QED
  BY <1>2, <1>3

(* The bound that is inductive is one for sets of accounts.  Any m of the  *)
(* n accounts together are ahead by at most m * (n - m) times the largest  *)
(* weight; that of a single account alone would not survive a turn.        *)
Owed(w) ==
  /\ Total(w, Pool) = 0
  /\ Pool # {} => \A T \in SUBSET Pool :
       Total(w, T) <= Most * (Cardinality(T) * (PoolSize - Cardinality(T)))

(* A turn keeps the bound.  A set the winner is in gets at most what the   *)
(* winner gives up.  A set it is not in can only grow while some of its    *)
(* members are candidates; these are not ahead of the winner, and so       *)
(* Balance derives the bound of the set from those of the set with the     *)
(* winner and of the set without candidates.                               *)
LEMMA TurnOwed ==
  ASSUME currentWeights \in [Pool -> Int], Owed(currentWeights),
         NEW S \in SUBSET Pool, S # {}
  PROVE  Turn(S) \in [Pool -> Int] /\ Owed(Turn(S))
<1> DEFINE w == Winner(S)
           r == Raised(S)
<1>1. w \in S /\ w \in Pool /\ r \in [Pool -> Int] /\ \A b \in S : r[b] <= r[w]
  BY WinnerWins
<1>2. Turn(S) \in [Pool -> Int]
  BY TurnTotal
<1>3. Total(Turn(S), Pool) = 0
  <2>1. S \cap Pool = S
    OBVIOUS
  <2>2. Total(Weights, S \cap Pool) = Total(Weights, S)
    BY <2>1, Zenon
  <2>3. Total(r, Pool) = Total(currentWeights, Pool) + Total(Weights, S \cap Pool)
    BY RaisedTotal
  <2>4. Total(Turn(S), Pool) = Total(r, Pool) - Total(Weights, S)
    BY <1>1, TurnTotal
  <2> QED
    BY <2>2, <2>3, <2>4, WeightTotals DEF Owed
<1>4. ASSUME NEW T \in SUBSET Pool
      PROVE  Total(Turn(S), T) <= Most * (Cardinality(T) * (PoolSize - Cardinality(T)))
  <2> DEFINE m == Cardinality(T)
             s == Cardinality(S \cap T)
  <2>1. m \in Nat /\ s \in Nat /\ PoolSize \in Nat /\ Most \in Nat
        /\ IsFiniteSet(T) /\ IsFiniteSet(S \cap T)
    BY <1>1, PoolIsFinite, PoolAssumption, MostIsMost
  <2>2. Total(currentWeights, T) <= Most * (m * (PoolSize - m)) /\ Total(currentWeights, T) \in Int
    BY <1>1, PoolTotals DEF Owed
  <2>3. CASE w \in T
    <3>1. Total(Turn(S), T)
            = Total(currentWeights, T) + Total(Weights, S \cap T) - Total(Weights, S)
      <4>1. Total(Turn(S), T) = Total(r, T) - Total(Weights, S)
        BY <2>3, TurnTotal
      <4>2. Total(r, T) = Total(currentWeights, T) + Total(Weights, S \cap T)
        BY RaisedTotal
      <4>3. Total(Weights, S \cap T) \in Int /\ Total(Weights, S) \in Int
        BY WeightTotals
      <4> HIDE DEF Total, r
      <4> QED
        BY <2>2, <4>1, <4>2, <4>3
    <3>2. Weights \in [Pool -> Int]
      BY PoolAssumption
    <3>3. Total(Weights, S) = Total(Weights, S \cap T) + Total(Weights, S \ T)
      <4> HIDE DEF Total
      <4>1. \A U \in SUBSET Pool : Total(Weights, S) = Total(Weights, S \cap U) + Total(Weights, S \ U)
        BY <3>2, PoolTotals, Zenon
      <4> QED
        BY <4>1, Zenon
    <3>4. Total(Weights, S \cap T) \in Nat /\ Total(Weights, S \ T) \in Nat
      BY WeightTotals
    <3> HIDE DEF Total
    <3>5. Total(Turn(S), T) <= Total(currentWeights, T)
      BY <2>2, <3>1, <3>3, <3>4
    <3>6. m * (PoolSize - m) \in Int /\ Most * (m * (PoolSize - m)) \in Int
      BY <2>1
    <3>7. Total(Turn(S), T) \in Int
      BY <1>2, PoolTotals
    <3> HIDE DEF m
    <3>8. Total(Turn(S), T) <= Most * (m * (PoolSize - m))
      BY <2>2, <3>5, <3>6, <3>7
    <3> QED
      BY <3>8 DEF m
  <2>4. CASE w \notin T
    <3> DEFINE X == Total(r, T \cap S)
               Y == Total(currentWeights, T \ S)
               U == T \cup {w}
    <3>1. X \in Int /\ Y \in Int /\ r[w] \in Int
      BY <1>1, PoolTotals
    <3>2. Total(Turn(S), T) = X + Y
      <4>1. Total(Turn(S), T) = Total(r, T)
        BY <2>4, TurnTotal
      <4>2. Total(r, T) = X + Total(r, T \ S)
        <5> HIDE DEF r
        <5>1. \A V \in SUBSET Pool : Total(r, T) = Total(r, T \cap V) + Total(r, T \ V)
          BY <1>1, PoolTotals, Zenon
        <5> QED
          BY <5>1
      <4>3. Total(r, T \ S) = Y + Total(Weights, S \cap (T \ S))
        BY RaisedTotal
      <4>4. S \cap (T \ S) = {}
        OBVIOUS
      <4>5. Total(Weights, S \cap (T \ S)) = 0
        BY <4>4, TotalEmpty, Zenon
      <4> QED
        BY <3>1, <4>1, <4>2, <4>3, <4>5
    <3>3. X <= s * r[w]
      <4>1. T \cap S = S \cap T
        OBVIOUS
      <4>2. X = Total(r, S \cap T)
        BY <4>1, Zenon
      <4>3. \A x \in S \cap T : r[x] \in Int /\ r[x] <= r[w]
        BY <1>1
      <4>4. Total(r, S \cap T) <= s * r[w]
        <5> HIDE DEF r
        <5> QED
          BY <2>1, <3>1, <4>3, TotalAtMost
      <4> QED
        BY <4>2, <4>4
    <3>4. X + Y + r[w] <= Most * ((m + 1) * (PoolSize - m - 1)) + s * Most + Most
      <4>1. U \in SUBSET Pool /\ Cardinality(U) = m + 1
        BY <1>1, <2>1, <2>4, FS_AddElement
      <4>2. Cardinality(S \cap U) = s + 1
        <5>1. S \cap U = (S \cap T) \cup {w} /\ w \notin S \cap T
          BY <1>1, <2>4
        <5>2. Cardinality((S \cap T) \cup {w}) = s + 1
          BY <2>1, <5>1, FS_AddElement
        <5> QED
          BY <5>1, <5>2, Zenon
      <4>3. Total(r, U) = Total(r, T) + r[w]
        <5>1. \A x \in T \cup {w} : r[x] \in Int
          BY <1>1
        <5> QED
          BY <2>1, <2>4, <5>1, TotalAdd
      <4>4. Total(r, T) = X + Y
        BY <2>4, <3>2, TurnTotal
      <4>5. Total(r, U) = Total(currentWeights, U) + Total(Weights, S \cap U)
        BY <4>1, RaisedTotal
      <4>6. Total(currentWeights, U) <= Most * ((m + 1) * (PoolSize - (m + 1)))
        BY <1>1, <4>1 DEF Owed
      <4>7. Total(Weights, S \cap U) <= (s + 1) * Most /\ Total(Weights, S \cap U) \in Int
        <5>1. S \cap U # {} /\ S \cap U \in SUBSET Pool
          BY <1>1
        <5>2. Total(Weights, S \cap U) <= Cardinality(S \cap U) * Most
          BY <5>1, WeightTotals
        <5> QED
          BY <4>2, <5>1, <5>2, WeightTotals
      <4>8. (m + 1) * (PoolSize - (m + 1)) = (m + 1) * (PoolSize - m - 1)
            /\ (s + 1) * Most = s * Most + Most
        BY <2>1
      <4>9. Total(currentWeights, U) \in Int /\ Most * ((m + 1) * (PoolSize - m - 1)) \in Int
            /\ s * Most \in Int
        BY <2>1, <4>1, PoolTotals
      <4> HIDE DEF m, s, X, Y, U, Total, r
      <4>10. Total(currentWeights, U) <= Most * ((m + 1) * (PoolSize - m - 1))
        BY <4>6, <4>8
      <4>11. Total(Weights, S \cap U) <= s * Most + Most
        BY <4>7, <4>8
      <4> QED
        BY <2>1, <3>1, <4>3, <4>4, <4>5, <4>7, <4>9, <4>10, <4>11
    <3>5. Y <= Most * ((m - s) * (PoolSize - m + s))
      <4>1. Cardinality(T \ S) = m - s
        <5>1. IsFiniteSet(S) /\ Cardinality(T \ S) = m - Cardinality(T \cap S)
          BY <2>1, PoolIsFinite, FS_Difference
        <5>2. T \cap S = S \cap T
          OBVIOUS
        <5>3. Cardinality(T \cap S) = s
          BY <5>2, Zenon
        <5> QED
          BY <5>1, <5>3
      <4>2. Y <= Most * (Cardinality(T \ S) * (PoolSize - Cardinality(T \ S)))
        BY <1>1 DEF Owed
      <4>3. PoolSize - (m - s) = PoolSize - m + s
        BY <2>1
      <4> HIDE DEF m, s, Y
      <4> QED
        BY <4>1, <4>2, <4>3
    <3> HIDE DEF X, Y, m, s, r, w, U
    <3>6. X + Y <= Most * (m * (PoolSize - m))
      <4>1. m \in Int /\ PoolSize \in Int /\ Most \in Int /\ s \in Nat
        BY <2>1
      <4> QED
        BY <3>1, <3>3, <3>4, <3>5, <4>1, Balance
    <3> QED
      BY <3>2, <3>6 DEF m
  <2> QED
    BY <2>3, <2>4
<1> QED
  BY <1>2, <1>3, <1>4 DEF Owed

-----------------------------------------------------------------------------
(* What a request may be doing *)
Request ==
  [pc : {"idle", "scoring", "sent", "failed", "tripping"}, account : Pool \cup {0},
   candidates : SUBSET Pool, score : UNION {[S -> Int] : S \in SUBSET Pool}]

(* sv for the variable or its next value *)
PoolCalls(sv) ==
  /\ sv \in [Callers -> Request]
  /\ \A c \in Callers :
       /\ sv[c].pc \in {"sent", "failed", "tripping"} => sv[c].account \in Pool
       /\ sv[c].pc = "scoring" => sv[c].candidates # {}

(* The invariant *)
PoolInv ==
  /\ open \subseteq Pool /\ failures \in [Pool -> 0..FailureThreshold]
  /\ currentWeights \in [Pool -> Int] /\ Owed(currentWeights)
  /\ PoolCalls(serving)

(* A request begins without anything. *)
LEMMA PoolWaiting == Waiting \in Request
<1>1. <<>> \in [{} -> Int]
  OBVIOUS
<1> QED
  BY <1>1 DEF Waiting, Request

(* Nothing is owed at the start *)
LEMMA PoolInitInv == PoolInit => PoolInv
<1> SUFFICES ASSUME PoolInit PROVE PoolInv
  OBVIOUS
<1>1. ASSUME NEW T \in SUBSET Pool PROVE Total(currentWeights, T) = 0
  <2>1. /\ IsFiniteSet(T)
        /\ \A x \in T :
             /\ currentWeights[x] \in Int
             /\ currentWeights[x] = currentWeights[x] + currentWeights[x]
    BY PoolIsFinite DEF PoolInit
  <2>2. Total(currentWeights, T) = Total(currentWeights, T) + Total(currentWeights, T)
    BY <2>1, TotalPlus
  <2>3. Total(currentWeights, T) \in Int
    BY <2>1, TotalType
  <2> DEFINE z == Total(currentWeights, T)
  <2>4. z \in Int /\ z = z + z
    BY <2>2, <2>3
  <2> HIDE DEF z
  <2>5. z = 0
    BY <2>4
  <2> QED
    BY <2>5 DEF z
<1>2. ASSUME NEW a \in Pool, NEW T \in SUBSET Pool
      PROVE  0 <= Most * (Cardinality(T) * (PoolSize - Cardinality(T)))
  <2>1. Most \in Nat /\ Cardinality(T) \in Nat /\ PoolSize \in Nat /\ Cardinality(T) <= PoolSize
    BY MostIsMost, PoolIsFinite, PoolAssumption, FS_Subset
  <2>2. Cardinality(T) * (PoolSize - Cardinality(T)) \in Nat
    BY <2>1
  <2> QED
    BY <2>1, <2>2
<1>3. Owed(currentWeights)
  BY <1>1, <1>2 DEF Owed
<1>4. currentWeights \in [Pool -> Int] /\ failures \in [Pool -> 0..FailureThreshold]
  BY PoolAssumption DEF PoolInit
<1> QED
  BY <1>3, <1>4, PoolWaiting DEF PoolInit, PoolInv, PoolCalls, Waiting

(* The first of some accounts is an account. *)
LEMMA PoolMin ==
  ASSUME NEW T \in SUBSET Pool, T # {}
  PROVE  Min(T) \in T /\ Min(T) \in Pool
<1>1. Pool \subseteq Nat
  BY PoolAssumption DEF Pool
<1>2. T \in SUBSET Nat
  BY <1>1, Zenon
<1> QED
  BY <1>2, LeastNatural

(* pickBest, when it finds one, finds an account. *)
LEMMA PickBestType ==
  ASSUME NEW D \in SUBSET Pool, NEW score \in [D -> Int], PickBest(score) # 0
  PROVE  PickBest(score) \in Pool
<1> DEFINE E == {a \in DOMAIN score : score[a] >= MinScore}
           B == {a \in E : \A b \in E : score[b] <= score[a]}
<1>1. E # {} /\ E \in SUBSET Pool /\ PickBest(score) = Min(B) /\ \A a \in E : score[a] \in Int
  BY DEF PickBest
<1>2. B # {} /\ B \in SUBSET Pool
  BY <1>1, ArgMax, PoolIsFinite
<1> HIDE DEF B
<1> QED
  BY <1>1, <1>2, PoolMin

(* A step of one request *)
LEMMA PoolCallerStep ==
  ASSUME PoolInv, NEW c \in Callers, NEW q \in Request,
         serving' = [serving EXCEPT ![c] = q],
         q.pc \in {"sent", "failed", "tripping"} => q.account \in Pool,
         q.pc = "scoring" => q.candidates # {}
  PROVE  PoolCalls(serving')
BY DEF PoolInv, PoolCalls

(* Every step keeps it: only a turn moves a weight. *)
LEMMA PoolNextInv ==
  ASSUME PoolInv, [PoolNext]_poolVars
  PROVE  PoolInv'
<1> USE DEF PoolInv, PoolCalls
<1>1. ASSUME NEW c \in Callers, Select(c) PROVE PoolInv'
  <2>1. PICK active \in (SUBSET Pool) \ {{}} :
          serving' = [serving EXCEPT ![c] =
            IF Cardinality(active) = 1
            THEN [Waiting EXCEPT !.pc = "sent", !.account = Min(active)]
            ELSE [Waiting EXCEPT !.pc = "scoring", !.candidates = active]]
    BY <1>1 DEF Select
  <2> DEFINE q == IF Cardinality(active) = 1
                  THEN [Waiting EXCEPT !.pc = "sent", !.account = Min(active)]
                  ELSE [Waiting EXCEPT !.pc = "scoring", !.candidates = active]
  <2>2. Min(active) \in Pool /\ active # {}
    BY <2>1, PoolMin
  <2>3. q \in Request /\ (q.pc = "sent" => q.account \in Pool) /\ q.pc \in {"sent", "scoring"}
        /\ (q.pc = "scoring" => q.candidates # {})
    BY <2>2, PoolWaiting DEF Request, Waiting
  <2>4. serving' = [serving EXCEPT ![c] = q]
    BY <2>1
  <2> HIDE DEF q
  <2> QED
    BY <1>1, <2>3, <2>4, PoolCallerStep DEF Select
<1>2. ASSUME NEW c \in Callers, Score(c) PROVE PoolInv'
  <2> DEFINE a == Min(Unread(c))
             sc == serving[c].score
             new == [b \in DOMAIN sc \cup {a} |-> IF b = a THEN Availability(a) ELSE sc[b]]
             q == [serving[c] EXCEPT !.score = new]
  <2>1. serving[c] \in Request /\ serving[c].pc = "scoring" /\ serving[c].candidates # {}
    BY <1>2 DEF Score
  <2>2. a \in Pool
    BY <1>2, <2>1, PoolMin DEF Score, Unread, Request
  <2>3. Availability(a) \in Int
    <3> HIDE DEF a
    <3> QED
      BY <2>2, PoolAssumption DEF Availability
  <2>4. PICK D \in SUBSET Pool : sc \in [D -> Int]
    BY <2>1 DEF Request
  <2>5. new \in [D \cup {a} -> Int] /\ D \cup {a} \in SUBSET Pool
    <3> HIDE DEF a, sc
    <3> QED
      BY <2>2, <2>3, <2>4
  <2>6. serving' = [serving EXCEPT ![c] = q]
    BY <1>2 DEF Score
  <2>7. q \in Request /\ q.pc = "scoring" /\ q.candidates # {}
    <3> HIDE DEF new
    <3>1. new \in UNION {[S -> Int] : S \in SUBSET Pool}
      BY <2>5
    <3> QED
      BY <2>1, <3>1 DEF Request
  <2> HIDE DEF q
  <2> QED
    BY <1>2, <2>6, <2>7, PoolCallerStep DEF Score
<1>3. ASSUME NEW c \in Callers, Choose(c) PROVE PoolInv'
  <2> DEFINE q(a) == [Waiting EXCEPT !.pc = "sent", !.account = a]
  <2>1. /\ serving[c] \in Request
        /\ serving[c].candidates # {} /\ serving[c].candidates \in SUBSET Pool
    BY <1>3 DEF Choose, Request
  <2>2. ASSUME NEW a \in Pool, Sends(c, a) PROVE PoolCalls(serving')
    <3>1. q(a) \in Request /\ q(a).pc = "sent" /\ q(a).account \in Pool
      BY PoolWaiting DEF Request, Waiting
    <3>2. serving' = [serving EXCEPT ![c] = q(a)]
      BY <2>2 DEF Sends
    <3> HIDE DEF q
    <3> QED
      BY <3>1, <3>2, PoolCallerStep
  <2>3. CASE PickBest(serving[c].score) # 0
    <3>1. PickBest(serving[c].score) \in Pool
      <4>1. serving[c].score \in UNION {[S -> Int] : S \in SUBSET Pool}
        BY <2>1 DEF Request
      <4>2. PICK D \in SUBSET Pool : serving[c].score \in [D -> Int]
        BY <4>1
      <4> QED
        BY <2>3, <4>2, PickBestType
    <3>2. PoolCalls(serving')
      BY <1>3, <2>2, <2>3, <3>1 DEF Choose
    <3> QED
      BY <1>3, <2>3, <3>2 DEF Choose
  <2>4. CASE PickBest(serving[c].score) = 0
    <3>1. Winner(serving[c].candidates) \in Pool
      BY <2>1, WinnerWins
    <3>2. PoolCalls(serving')
      BY <1>3, <2>2, <2>4, <3>1 DEF Choose
    <3>3. currentWeights' = Turn(serving[c].candidates)
      BY <1>3, <2>4 DEF Choose
    <3>4. Turn(serving[c].candidates) \in [Pool -> Int] /\ Owed(Turn(serving[c].candidates))
      BY <2>1, TurnOwed
    <3>5. Owed(currentWeights)'
      BY <3>3, <3>4 DEF Owed
    <3> QED
      BY <1>3, <3>2, <3>3, <3>4, <3>5 DEF Choose
  <2> QED
    BY <2>3, <2>4
<1>4. ASSUME NEW c \in Callers, Answer(c) PROVE PoolInv'
  <2> DEFINE q == [serving[c] EXCEPT !.pc = "failed"]
  <2>1. serving[c] \in Request /\ serving[c].account \in Pool
    BY <1>4 DEF Answer
  <2>2. q \in Request /\ q.pc = "failed" /\ q.account \in Pool
    BY <2>1 DEF Request
  <2>3. serving' = [serving EXCEPT ![c] = Waiting] \/ serving' = [serving EXCEPT ![c] = q]
    BY <1>4 DEF Answer
  <2>4. Waiting \in Request /\ Waiting.pc = "idle"
    BY PoolWaiting DEF Waiting
  <2> HIDE DEF q
  <2> QED
    BY <1>4, <2>2, <2>3, <2>4, PoolCallerStep DEF Answer
<1>5. ASSUME NEW c \in Callers, AddFailure(c) PROVE PoolInv'
  <2> DEFINE q == [serving[c] EXCEPT !.pc = "tripping"]
             a == serving[c].account
  <2>1. serving[c] \in Request /\ a \in Pool
    BY <1>5 DEF AddFailure
  <2>2. q \in Request /\ q.pc = "tripping" /\ q.account \in Pool
    BY <2>1 DEF Request
  <2>3. serving' = [serving EXCEPT ![c] = Waiting] \/ serving' = [serving EXCEPT ![c] = q]
    BY <1>5 DEF AddFailure
  <2>4. Waiting \in Request /\ Waiting.pc = "idle"
    BY PoolWaiting DEF Waiting
  <2>5. failures' \in [Pool -> 0..FailureThreshold]
    <3>1. failures[a] \in 0..FailureThreshold /\ FailureThreshold \in Nat
      BY <2>1, PoolAssumption
    <3> DEFINE T == {failures[a] + 1, FailureThreshold}
    <3>2. T \in SUBSET Nat /\ T # {} /\ FailureThreshold \in T
      BY <3>1
    <3>3. Min(T) \in Nat /\ Min(T) <= FailureThreshold
      <4> HIDE DEF T
      <4> QED
        BY <3>2, LeastNatural
    <3>4. failures' = [failures EXCEPT ![a] = Min(T)]
      BY <1>5 DEF AddFailure
    <3>5. Min(T) \in 0..FailureThreshold
      BY <3>1, <3>3
    <3> HIDE DEF T, a
    <3> QED
      BY <3>4, <3>5
  <2> HIDE DEF q
  <2> QED
    BY <1>5, <2>2, <2>3, <2>4, <2>5, PoolCallerStep DEF AddFailure
<1>6. ASSUME NEW c \in Callers, TransitionToOpen(c) PROVE PoolInv'
  <2>1. serving[c].account \in Pool
    BY <1>6 DEF TransitionToOpen
  <2>2. Waiting \in Request /\ Waiting.pc = "idle" /\ serving' = [serving EXCEPT ![c] = Waiting]
    BY <1>6, PoolWaiting DEF Waiting, TransitionToOpen
  <2> QED
    BY <1>6, <2>1, <2>2, PoolCallerStep DEF TransitionToOpen
<1>7. ASSUME NEW a \in Pool, ForgetOpen(a) \/ ForgetFailure(a) PROVE PoolInv'
  BY <1>7, PoolAssumption DEF ForgetOpen, ForgetFailure
<1>8. CASE UNCHANGED poolVars
  BY <1>8 DEF poolVars
<1> QED
  BY <1>1, <1>2, <1>3, <1>4, <1>5, <1>6, <1>7, <1>8 DEF PoolNext

(* All states *)
LEMMA PoolInvariant == PoolSpec => []PoolInv
BY PoolInitInv, PoolNextInv, PTL DEF PoolSpec

(* However accounts come and go between the turns and however requests     *)
(* interleave, selectAccount keeps what accounts were given too much and   *)
(* too little balanced, and every account within (PoolSize - 1) times the  *)
(* largest weight.                                                         *)
THEOREM DebtsAreBounded == PoolSpec => []DebtIsBounded
<1>1. ASSUME PoolInv PROVE DebtIsBounded
  <2> DEFINE most == (PoolSize - 1) * Most
  <2>1. Total(currentWeights, Pool) = 0
    BY <1>1 DEF PoolInv, Owed
  <2>2. ASSUME NEW a \in Pool
        PROVE  -most <= currentWeights[a] /\ currentWeights[a] <= most
    <3>1. currentWeights[a] \in Int /\ PoolSize \in Nat /\ Most \in Nat /\ IsFiniteSet(Pool)
          /\ Cardinality(Pool) = PoolSize
      BY <1>1, PoolAssumption, MostIsMost, PoolIsFinite DEF PoolInv
    <3>2. \A x \in Pool : currentWeights[x] \in Int
      BY <1>1 DEF PoolInv
    <3>3. Total(currentWeights, Pool) = currentWeights[a] + Total(currentWeights, Pool \ {a})
      BY <3>1, <3>2, TotalRemove
    <3>4. Cardinality(Pool \ {a}) = PoolSize - 1
      BY <3>1, FS_RemoveElement
    <3>5. Total(currentWeights, Pool \ {a}) <= Most * ((PoolSize - 1) * (PoolSize - (PoolSize - 1)))
      BY <1>1, <3>4 DEF PoolInv, Owed
    <3>6. Total(currentWeights, {a}) <= Most * (1 * (PoolSize - 1))
      <4>1. Cardinality({a}) = 1 /\ {a} \in SUBSET Pool
        BY FS_Singleton
      <4> QED
        BY <1>1, <4>1 DEF PoolInv, Owed
    <3>7. Total(currentWeights, {a}) = currentWeights[a]
      <4>1. {} \cup {a} = {a} /\ IsFiniteSet({}) /\ a \notin {}
        BY FS_EmptySet
      <4>2. Total(currentWeights, {} \cup {a}) = Total(currentWeights, {}) + currentWeights[a]
        BY <3>1, <4>1, TotalAdd
      <4>3. Total(currentWeights, {a}) = Total(currentWeights, {}) + currentWeights[a]
        BY <4>1, <4>2, Zenon
      <4> QED
        BY <3>1, <4>3, TotalEmpty
    <3>8. Total(currentWeights, Pool \ {a}) \in Int
      BY <1>1, PoolTotals DEF PoolInv
    <3>9. /\ Most * ((PoolSize - 1) * (PoolSize - (PoolSize - 1))) = most
          /\ Most * (1 * (PoolSize - 1)) = most
          /\ most \in Int
      BY <3>1
    <3> HIDE DEF most, Total
    <3> QED
      BY <2>1, <3>1, <3>3, <3>5, <3>6, <3>7, <3>8, <3>9
  <2> QED
    BY <2>1, <2>2 DEF DebtIsBounded, Most, Total
<1> QED
  BY <1>1, PoolInvariant, PTL

-----------------------------------------------------------------------------
(* Routing *)

Target == [provider : Providers, share : Nat]

(* Targets and their shares *)
LEMMA SharesType ==
  ASSUME NEW targets \in Seq(Target)
  PROVE  /\ DOMAIN targets = 1..Len(targets) /\ Len(targets) \in Nat
         /\ \A i \in 1..Len(targets) : targets[i] \in Target /\ Shares(targets)[i] \in Nat
                                       /\ Shares(targets)[i] = targets[i].share
<1>1. DOMAIN targets = 1..Len(targets) /\ Len(targets) \in Nat
      /\ \A i \in 1..Len(targets) : targets[i] \in Target
  OBVIOUS
<1> QED
  BY <1>1 DEF Shares, Target

(* The sums pickWeighted counts down are running totals. *)
LEMMA UpToSum ==
  ASSUME NEW targets \in Seq(Target)
  PROVE  /\ UpTo(targets, 0) = 0
         /\ \A i \in 0..Len(targets) : UpTo(targets, i) \in Nat
         /\ \A i \in 0..Len(targets) - 1 :
              UpTo(targets, i + 1) = UpTo(targets, i) + Shares(targets)[i + 1]
<1> DEFINE f == Shares(targets)
           n == Len(targets)
<1>1. n \in Nat /\ \A i \in 1..n : f[i] \in Nat
  BY SharesType
<1>2. \A i : UpTo(targets, i) = Total(f, 1..i)
  BY DEF UpTo, Total
<1> HIDE DEF f, n
<1>3. \A i \in 0..n : IsFiniteSet(1..i) /\ 1..i \subseteq 1..n
  BY <1>1, FS_Interval
<1>4. Total(f, 1..0) = 0
  <2>1. 1..0 = {}
    OBVIOUS
  <2> QED
    BY <2>1, TotalEmpty, Zenon
<1>5. ASSUME NEW i \in 0..n PROVE Total(f, 1..i) \in Nat
  <2>1. IsFiniteSet(1..i) /\ \A x \in 1..i : f[x] \in Nat
    BY <1>1, <1>3
  <2> QED
    BY <2>1, TotalNatural
<1>6. ASSUME NEW i \in 0..n - 1 PROVE Total(f, 1..i + 1) = Total(f, 1..i) + f[i + 1]
  <2>1. i \in 0..n /\ i \in Int /\ i + 1 \in 1..n
    BY <1>1
  <2>2. (1..i) \cup {i + 1} = 1..i + 1 /\ i + 1 \notin 1..i
    BY <2>1
  <2>3. \A y \in (1..i) \cup {i + 1} : f[y] \in Int
    BY <1>1, <1>3, <2>1
  <2>4. IsFiniteSet(1..i)
    BY <1>3, <2>1
  <2> DEFINE S == 1..i
             x == i + 1
  <2>5. Total(f, S \cup {x}) = Total(f, S) + f[x]
    <3>1. IsFiniteSet(S) /\ x \notin S /\ \A y \in S \cup {x} : f[y] \in Int
      BY <2>2, <2>3, <2>4
    <3> HIDE DEF S, x
    <3> QED
      BY <3>1, TotalAdd
  <2> QED
    BY <2>2, <2>5, Zenon
<1> QED
  BY <1>2, <1>4, <1>5, <1>6 DEF f, n

(* pickWeighted finds a target. *)
LEMMA PickIsTarget ==
  ASSUME NEW targets \in Seq(Target), targets # <<>>, NEW hash \in Nat
  PROVE  \E i \in 1..Len(targets) : PickWeighted(targets, hash) = targets[i].provider
<1> DEFINE n == Len(targets)
           sum == UpTo(targets, n)
           I == {i \in DOMAIN targets : FallsBelow(hash % sum, UpTo(targets, i))}
<1>1. n \in Nat /\ n # 0 /\ DOMAIN targets = 1..n
  OBVIOUS
<1>2. sum \in Nat
  BY <1>1, UpToSum
<1>3. CASE sum = 0
  BY <1>1, <1>3 DEF PickWeighted
<1>4. CASE sum # 0
  <2>1. hash % sum \in 0..sum - 1
    <3> HIDE DEF sum
    <3> QED
      BY <1>2, <1>4
  <2>2. n \in I
    <3>1. hash % sum < sum
      <4> HIDE DEF sum
      <4> QED
        BY <1>2, <2>1
    <3> QED
      BY <1>1, <3>1 DEF FallsBelow
  <2>3. I \in SUBSET Nat /\ I \subseteq 1..n
    <3>1. 1..n \subseteq Nat
      OBVIOUS
    <3> QED
      BY <1>1, <3>1
  <2>4. Min(I) \in I
    <3> HIDE DEF I
    <3> QED
      BY <2>2, <2>3, LeastNatural
  <2>5. PickWeighted(targets, hash) = targets[Min(I)].provider
    BY <1>4 DEF PickWeighted
  <2> QED
    BY <2>3, <2>4, <2>5
<1> QED
  BY <1>3, <1>4

(* The targets that were left are targets of the rule. *)
LEMMA ThoseAre ==
  ASSUME NEW targets \in Seq(Target), NEW S \in SUBSET (1..Len(targets))
  PROVE  /\ IsFiniteSet(S) /\ Cardinality(S) \in Nat /\ S \in SUBSET Nat
         /\ Those(targets, S) \in Seq(Target) /\ Len(Those(targets, S)) = Cardinality(S)
         /\ \A k \in 1..Cardinality(S) : /\ Nth(S, k) \in S
                                         /\ Those(targets, S)[k] = targets[Nth(S, k)]
<1> DEFINE n == Cardinality(S)
<1>1. IsFiniteSet(S) /\ n \in Nat
  <2>1. IsFiniteSet(1..Len(targets))
    BY FS_Interval
  <2> QED
    BY <2>1, FS_Subset, FS_CardinalityType
<1>2. S \in SUBSET Nat
  <2>1. 1..Len(targets) \subseteq Nat
    OBVIOUS
  <2> QED
    BY <2>1
<1>3. \A k \in 1..n : Nth(S, k) \in S
  BY <1>1, <1>2, NthIsOnto
<1>4. Those(targets, S) = [k \in 1..n |-> targets[Nth(S, k)]]
  BY DEF Those, Nth, Rank
<1>5. \A k \in 1..n : targets[Nth(S, k)] \in Target
  BY <1>3, SharesType
<1> HIDE DEF n
<1>6. Those(targets, S) \in [1..n -> Target]
  BY <1>4, <1>5
<1>7. Those(targets, S) \in Seq(Target) /\ Len(Those(targets, S)) = n
  BY <1>1, <1>6
<1> QED
  BY <1>1, <1>2, <1>3, <1>4, <1>7 DEF n

-----------------------------------------------------------------------------
(* stableBucket(seed, length) is the index of one of them. *)
LEMMA EvenIsTarget ==
  ASSUME NEW d, d.rule.targets \in Seq(Target), d.hash \in Nat,
         NEW S \in SUBSET DOMAIN d.rule.targets, S # {}
  PROVE  \E i \in S : PickEven(d, S) = d.rule.targets[i].provider
<1> DEFINE targets == d.rule.targets
           n == Cardinality(S)
           k == 1 + (d.hash % n)
<1>1. S \in SUBSET (1..Len(targets))
  OBVIOUS
<1>2. IsFiniteSet(S) /\ n \in Nat
  BY <1>1, ThoseAre
<1>3. n # 0
  BY <1>2, FS_EmptySet
<1>4. k \in 1..n
  <2>1. d.hash % n \in 0..n - 1
    <3> HIDE DEF n
    <3> QED
      BY <1>2, <1>3
  <2> HIDE DEF n
  <2> QED
    BY <1>2, <2>1
<1>5. Nth(S, k) \in S /\ Those(targets, S)[k] = targets[Nth(S, k)]
  <2> HIDE DEF k, targets
  <2> QED
    BY <1>1, <1>4, ThoseAre DEF targets
<1>6. PickEven(d, S) = Those(targets, S)[k].provider
  BY DEF PickEven
<1> HIDE DEF k, targets
<1> QED
  BY <1>5, <1>6 DEF targets

(* There is a fastest and a cheapest. *)
LEMMA LeastIsThere ==
  ASSUME NEW d, d.rule.targets \in Seq(Target), NEW S \in SUBSET DOMAIN d.rule.targets, S # {}
  PROVE  /\ Cheapest(d, S) # {} /\ Cheapest(d, S) \in SUBSET S
         /\ (\A i \in S : d.seen[i].latency \in Nat) =>
              Fastest(d, S) # {} /\ Fastest(d, S) \in SUBSET S
<1>1. IsFiniteSet(S)
  BY ThoseAre
<1>2. Cheapest(d, S) # {} /\ Cheapest(d, S) \in SUBSET S
  <2> DEFINE f == [i \in S |-> d.rule.targets[i].share]
  <2>1. \A i \in S : f[i] \in Int
    <3>1. S \subseteq 1..Len(d.rule.targets)
      BY SharesType
    <3>2. \A i \in S : d.rule.targets[i] \in Target
      BY <3>1, SharesType
    <3> QED
      BY <3>2 DEF Target
  <2>2. \E i \in S : \A j \in S : f[i] <= f[j]
    <3> HIDE DEF f
    <3> QED
      BY <1>1, <2>1, ArgMin
  <2> QED
    BY <2>2 DEF Cheapest, Least
<1>3. ASSUME \A i \in S : d.seen[i].latency \in Nat
      PROVE  Fastest(d, S) # {} /\ Fastest(d, S) \in SUBSET S
  <2> DEFINE f == [i \in S |-> d.seen[i].latency]
  <2>1. \A i \in S : f[i] \in Int
    BY <1>3
  <2>2. \E i \in S : \A j \in S : f[i] <= f[j]
    <3> HIDE DEF f
    <3> QED
      BY <1>1, <2>1, ArgMin
  <2> QED
    BY <2>2 DEF Fastest, Least
<1> QED
  BY <1>2, <1>3

(* resolveProviderForRule finds a target that was not seen open, and none  *)
(* only when there is none.                                                *)
LEMMA ResolvesToAvailable ==
  ASSUME NEW d, d.rule \in Rule, d.hash \in Nat, DOMAIN d.seen \subseteq DOMAIN d.rule.targets,
         \A i \in DOMAIN d.seen : d.seen[i].latency \in Nat
  PROVE  /\ Available(d) = {} => Resolve(d) = Unset
         /\ Available(d) # {} => \E i \in Available(d) : Resolve(d) = d.rule.targets[i].provider
<1> DEFINE A == Available(d)
           targets == d.rule.targets
<1>1. CASE A = {}
  BY <1>1 DEF Resolve
<1>2. CASE A # {}
  <2>1. targets \in Seq(Target) /\ A \in SUBSET DOMAIN targets
        /\ \A i \in A : d.seen[i].latency \in Nat
    BY DEF Rule, Target, Available
  <2> HIDE DEF A
  <2>2. CASE d.rule.strategy_type = "latency"
    <3>1. Fastest(d, A) # {} /\ Fastest(d, A) \in SUBSET A
      BY <1>2, <2>1, LeastIsThere
    <3>2. \E i \in Fastest(d, A) : PickEven(d, Fastest(d, A)) = targets[i].provider
      BY <2>1, <3>1, EvenIsTarget
    <3>3. Resolve(d) = PickEven(d, Fastest(d, A))
      BY <1>2, <2>2 DEF Resolve, A
    <3> QED
      BY <1>2, <3>1, <3>2, <3>3 DEF A
  <2>3. CASE d.rule.strategy_type = "cost"
    <3> DEFINE B == Cheapest(d, A)
    <3>1. B # {} /\ B \in SUBSET A
      BY <1>2, <2>1, LeastIsThere
    <3>2. B \in SUBSET DOMAIN targets /\ \A i \in B : d.seen[i].latency \in Nat
      BY <2>1, <3>1
    <3> HIDE DEF B
    <3>3. Fastest(d, B) # {} /\ Fastest(d, B) \in SUBSET B
      BY <2>1, <3>1, <3>2, LeastIsThere
    <3>4. \E i \in Fastest(d, B) : PickEven(d, Fastest(d, B)) = targets[i].provider
      BY <2>1, <3>2, <3>3, EvenIsTarget
    <3>5. Resolve(d) = PickEven(d, Fastest(d, B))
      BY <1>2, <2>3 DEF Resolve, A, B
    <3> QED
      BY <1>2, <3>1, <3>3, <3>4, <3>5 DEF A
  <2>4. CASE d.rule.strategy_type \notin {"latency", "cost"}
    <3> DEFINE T == Those(targets, A)
    <3>1. A \in SUBSET (1..Len(targets))
      BY <2>1
    <3>2. T \in Seq(Target) /\ Len(T) = Cardinality(A) /\ IsFiniteSet(A) /\ Cardinality(A) \in Nat
          /\ \A k \in 1..Cardinality(A) : Nth(A, k) \in A /\ T[k] = targets[Nth(A, k)]
      BY <2>1, <3>1, ThoseAre
    <3>3. Cardinality(A) # 0
      BY <1>2, <3>2, FS_EmptySet
    <3>4. T # <<>>
      <4> HIDE DEF T
      <4> QED
        BY <3>2, <3>3
    <3>5. PICK k \in 1..Len(T) : PickWeighted(T, d.hash) = T[k].provider
      <4> HIDE DEF T
      <4> QED
        BY <3>2, <3>4, PickIsTarget
    <3>6. Resolve(d) = PickWeighted(T, d.hash)
      BY <1>2, <2>4 DEF Resolve, A
    <3>7. Nth(A, k) \in A /\ T[k] = targets[Nth(A, k)]
      BY <3>2, <3>5
    <3> HIDE DEF T
    <3> QED
      BY <1>2, <3>5, <3>6, <3>7 DEF A
  <2> QED
    BY <2>2, <2>3, <2>4
<1> QED
  BY <1>1, <1>2

-----------------------------------------------------------------------------
Seen == [state : States, latency : Nat]

Decision ==
  [pc : {"idle", "reading", "probing", "done"}, apiKey : Keys \cup {Unset},
   rule : Rule \cup {Unset}, hash : Nat, seen : UNION {[S -> Seen] : S \in SUBSET Nat},
   picked : Providers \cup {Unset}]

(* What was read belongs to targets of the rule, and of those that were    *)
(* open all the time nothing else was seen.                                *)
Reads(d) ==
  /\ DOMAIN d.seen \subseteq ToRead(d.rule)
  /\ \A i \in DOMAIN d.seen : d.rule.targets[i].provider \in shut => d.seen[i].state = "OPEN"

(* The invariant *)
RoutingInv ==
  /\ rules \in RuleSets /\ breaker \in [Providers -> States] /\ decision \in Decision
  /\ shut \subseteq {p \in Providers : breaker[p] = "OPEN"}
  /\ decision.pc \in {"reading", "probing"} =>
       /\ decision.rule \in rules /\ CanResolve(decision.rule)
       /\ decision.rule.strategy_type # "fixed" /\ Reads(decision)
  /\ decision.pc = "probing" =>
       /\ decision.rule.strategy_type = "primary_fallback"
       /\ DOMAIN decision.seen = {1} /\ decision.seen[1].state = "HALF_OPEN"
  /\ decision.pc = "done" /\ decision.rule # Unset =>
       DOMAIN decision.seen \subseteq DOMAIN decision.rule.targets
  /\ OpenIsAvoided

(* What is read of a rule that can be resolved are its targets. *)
LEMMA ReadIsTarget ==
  ASSUME NEW r \in Rule, CanResolve(r)
  PROVE  /\ r.targets \in Seq(Target) /\ r.targets # <<>>
         /\ Len(r.targets) \in Nat /\ 1 <= Len(r.targets)
         /\ ToRead(r) \subseteq 1..Len(r.targets) /\ DOMAIN r.targets = 1..Len(r.targets)
         /\ \A i \in 1..Len(r.targets) : r.targets[i].provider \in Providers
<1>1. r.targets \in Seq(Target)
  BY DEF Rule, Target
<1>2. r.targets # <<>>
  BY <1>1 DEF CanResolve, HaveWeight
<1>3. \A i \in 1..Len(r.targets) : r.targets[i] \in Target
  BY <1>1, SharesType
<1>4. \A i \in 1..Len(r.targets) : r.targets[i].provider \in Providers
  BY <1>3 DEF Target
<1> QED
  BY <1>1, <1>2, <1>4 DEF ToRead, HaveWeight

(* The rules are rules. *)
LEMMA RuleInHand ==
  ASSUME RoutingInv
  PROVE  /\ rules \subseteq Rule
         /\ \A r \in rules : r.strategy_type = "primary_fallback" => Len(r.targets) <= 2
BY RoutingAssumption DEF RoutingInv

(* It holds before the first request. *)
LEMMA RoutingInitInv == RoutingInit => RoutingInv
<1>1. <<>> \in [{} -> Seen]
  OBVIOUS
<1>2. NoDecision \in Decision
  BY <1>1 DEF NoDecision, Decision
<1> QED
  BY <1>2 DEF RoutingInit, RoutingInv, OpenIsAvoided, NoDecision, States

(* A new request has read nothing yet. *)
LEMMA RouteInv ==
  ASSUME RoutingInv, Route
  PROVE  RoutingInv'
<1>1. PICK k \in Keys, h \in Hashes :
        \/ /\ TopRules(k) = {}
           /\ decision' = [[NoDecision EXCEPT !.apiKey = k, !.hash = h] EXCEPT !.pc = "done"]
        \/ \E r \in TopRules(k) :
             decision' = IF r.strategy_type = "fixed"
               THEN [[NoDecision EXCEPT !.apiKey = k, !.hash = h]
                       EXCEPT !.pc = "done", !.rule = r, !.picked = r.targets[1].provider]
               ELSE [[NoDecision EXCEPT !.apiKey = k, !.hash = h]
                       EXCEPT !.pc = "reading", !.rule = r]
  BY DEF Route
<1>2. h \in Nat /\ <<>> \in [{} -> Seen] /\ {} \in SUBSET Nat
  BY RoutingAssumption
<1>3. UNCHANGED <<rules, breaker>> /\ shut' = {p \in Providers : breaker[p] = "OPEN"}
  BY DEF Route
<1>4. <<>> \in UNION {[S -> Seen] : S \in SUBSET Nat}
  BY <1>2
<1>5. CASE decision' = [[NoDecision EXCEPT !.apiKey = k, !.hash = h] EXCEPT !.pc = "done"]
  <2>1. decision' = [pc |-> "done", apiKey |-> k, rule |-> Unset, hash |-> h, seen |-> <<>>,
                     picked |-> Unset]
    BY <1>5 DEF NoDecision
  <2>2. decision' \in Decision
    BY <1>2, <1>4, <2>1 DEF Decision
  <2> QED
    BY <1>3, <2>1, <2>2 DEF RoutingInv, OpenIsAvoided
<1>6. ASSUME NEW r \in TopRules(k), r.strategy_type = "fixed",
             decision' = [[NoDecision EXCEPT !.apiKey = k, !.hash = h]
                            EXCEPT !.pc = "done", !.rule = r, !.picked = r.targets[1].provider]
      PROVE  RoutingInv'
  <2>1. r \in Rule /\ CanResolve(r)
    BY RuleInHand DEF TopRules, Candidates
  <2>2. r.targets[1].provider \in Providers
    BY <2>1, ReadIsTarget
  <2>3. decision' = [pc |-> "done", apiKey |-> k, rule |-> r, hash |-> h, seen |-> <<>>,
                     picked |-> r.targets[1].provider]
    BY <1>6 DEF NoDecision
  <2>4. decision' \in Decision
    BY <1>2, <1>4, <2>1, <2>2, <2>3 DEF Decision
  <2>5. OpenIsAvoided'
    BY <1>6, <2>3, <2>2, RoutingAssumption DEF OpenIsAvoided
  <2>6. DOMAIN decision'.seen = {}
    BY <2>3
  <2> QED
    BY <1>3, <1>6, <2>3, <2>4, <2>5, <2>6 DEF RoutingInv
<1>7. ASSUME NEW r \in TopRules(k), r.strategy_type # "fixed",
             decision' = [[NoDecision EXCEPT !.apiKey = k, !.hash = h]
                            EXCEPT !.pc = "reading", !.rule = r]
      PROVE  RoutingInv'
  <2>1. r \in rules /\ r \in Rule /\ CanResolve(r)
    BY RuleInHand DEF TopRules, Candidates
  <2>2. decision' = [pc |-> "reading", apiKey |-> k, rule |-> r, hash |-> h, seen |-> <<>>,
                     picked |-> Unset]
    BY <1>7 DEF NoDecision
  <2>3. decision' \in Decision
    BY <1>2, <1>4, <2>1, <2>2 DEF Decision
  <2>4. DOMAIN decision'.seen = {}
    BY <2>2
  <2>5. Reads(decision)'
    BY <2>4 DEF Reads
  <2> QED
    BY <1>3, <1>7, <2>1, <2>2, <2>3, <2>5 DEF RoutingInv, OpenIsAvoided
<1> QED
  BY <1>1, <1>5, <1>6, <1>7

(* Whoever was open all the time is seen open. *)
LEMMA ReadTargetInv ==
  ASSUME RoutingInv, NEW i, ReadTarget(i)
  PROVE  RoutingInv'
<1> DEFINE r == decision.rule
           seen == decision.seen
<1>1. r \in rules /\ r \in Rule /\ CanResolve(r) /\ r.strategy_type # "fixed" /\ Reads(decision)
      /\ i \in ToRead(r) /\ decision.pc = "reading" /\ UNCHANGED <<rules, breaker, shut>>
  BY RuleInHand DEF ReadTarget, RoutingInv
<1>2. r.targets \in Seq(Target) /\ i \in 1..Len(r.targets)
  BY <1>1, ReadIsTarget
<1>3. r.targets[i].provider \in Providers /\ breaker[r.targets[i].provider] \in States
  BY <1>2, SharesType DEF Target, RoutingInv
<1>4. PICK l \in IF r.strategy_type \in {"latency", "cost"} THEN Latencies ELSE {0} :
        decision' = [decision EXCEPT !.seen =
          [j \in DOMAIN seen \cup {i} |->
             IF j = i THEN [state |-> breaker[r.targets[i].provider], latency |-> l] ELSE seen[j]]]
  BY DEF ReadTarget
<1>5. l \in Nat
  BY RoutingAssumption
<1> DEFINE now == [state |-> breaker[r.targets[i].provider], latency |-> l]
           new == [j \in DOMAIN seen \cup {i} |-> IF j = i THEN now ELSE seen[j]]
<1>6. now \in Seen /\ (r.targets[i].provider \in shut => now.state = "OPEN")
  BY <1>3, <1>5 DEF Seen, RoutingInv
<1>7. PICK S \in SUBSET Nat : seen \in [S -> Seen]
  BY DEF RoutingInv, Decision
<1>8. new \in [S \cup {i} -> Seen] /\ S \cup {i} \in SUBSET Nat
  <2> HIDE DEF now, seen, r
  <2> QED
    BY <1>2, <1>6, <1>7
<1>9. /\ DOMAIN new = DOMAIN seen \cup {i}
      /\ \A j \in DOMAIN new : r.targets[j].provider \in shut => new[j].state = "OPEN"
  BY <1>1, <1>6 DEF Reads
<1>10. decision' = [decision EXCEPT !.seen = new] /\ decision \in Decision
  BY <1>4 DEF RoutingInv
<1> HIDE DEF new, now
<1>11. new \in UNION {[T -> Seen] : T \in SUBSET Nat}
  BY <1>8
<1>12. /\ decision' \in Decision /\ decision'.seen = new
       /\ decision'.rule = r /\ decision'.pc = "reading"
  BY <1>1, <1>10, <1>11 DEF Decision
<1>13. Reads(decision)'
  BY <1>1, <1>9, <1>12 DEF Reads
<1> QED
  BY <1>1, <1>12, <1>13 DEF RoutingInv, OpenIsAvoided

(* A choice among the targets that were seen, or of nothing *)
LEMMA PicksInv ==
  ASSUME RoutingInv, NEW p \in Providers \cup {Unset}, Picks(p), UNCHANGED <<rules, breaker, shut>>,
         decision.pc \in {"reading", "probing"},
         p \in shut =>
           decision.rule.strategy_type = "primary_fallback" /\ p = Fallback(decision.rule),
         p = Unset => \A i \in DOMAIN decision.seen :
           \/ decision.seen[i].state = "OPEN"
           \/ decision.seen[i].state = "HALF_OPEN" /\ Fallback(decision.rule) = Unset
  PROVE  RoutingInv'
<1>1. /\ decision' \in Decision /\ decision'.pc = "done" /\ decision'.picked = p
      /\ decision'.rule = decision.rule /\ decision'.seen = decision.seen
  BY DEF Picks, RoutingInv, Decision
<1>2. OpenIsAvoided'
  BY <1>1 DEF OpenIsAvoided
<1>3. DOMAIN decision.seen \subseteq DOMAIN decision.rule.targets
  BY RuleInHand, ReadIsTarget DEF RoutingInv, Reads
<1> QED
  BY <1>1, <1>2, <1>3 DEF RoutingInv

(* The decision *)
LEMMA DecideInv ==
  ASSUME RoutingInv, Decide
  PROVE  RoutingInv'
<1> DEFINE r == decision.rule
           d == decision
<1>1. r \in Rule /\ CanResolve(r) /\ Reads(d) /\ d.pc = "reading" /\ d.hash \in Nat
      /\ UNCHANGED <<rules, breaker, shut>> /\ DOMAIN d.seen = ToRead(r)
      /\ (r.strategy_type = "primary_fallback" => Len(r.targets) <= 2)
  BY RuleInHand DEF Decide, RoutingInv, Decision
<1>2. r.targets \in Seq(Target) /\ r.targets # <<>> /\ Len(r.targets) \in Nat /\ 1 <= Len(r.targets)
      /\ DOMAIN d.seen \subseteq 1..Len(r.targets) /\ DOMAIN r.targets = 1..Len(r.targets)
      /\ \A i \in 1..Len(r.targets) : r.targets[i].provider \in Providers
  BY <1>1, ReadIsTarget
<1>3. \A i \in DOMAIN d.seen : d.seen[i] \in Seen
  <2>1. PICK S \in SUBSET Nat : d.seen \in [S -> Seen]
    BY DEF RoutingInv, Decision
  <2> QED
    BY <2>1
<1>4. \A p \in Providers : p # Unset
  BY RoutingAssumption
<1>5. CASE r.strategy_type # "primary_fallback"
  <2>1. Picks(Resolve(d))
    BY <1>5 DEF Decide
  <2>2. \A i \in DOMAIN d.seen : d.seen[i].latency \in Nat
    BY <1>3 DEF Seen
  <2>3. /\ Available(d) = {} => Resolve(d) = Unset
        /\ Available(d) # {} => \E i \in Available(d) : Resolve(d) = r.targets[i].provider
    BY <1>1, <1>2, <2>2, ResolvesToAvailable
  <2>4. CASE Available(d) = {}
    <3>1. \A i \in DOMAIN d.seen : d.seen[i].state = "OPEN"
      BY <2>4 DEF Available, NotOpen
    <3>2. Unset \notin shut
      BY <1>4 DEF RoutingInv
    <3> QED
      BY <1>1, <2>1, <2>3, <2>4, <3>1, <3>2, PicksInv
  <2>5. CASE Available(d) # {}
    <3>1. PICK i \in DOMAIN d.seen : d.seen[i].state # "OPEN" /\ Resolve(d) = r.targets[i].provider
      BY <2>3, <2>5 DEF Available, NotOpen
    <3>2. Resolve(d) \in Providers /\ Resolve(d) \notin shut
      BY <1>1, <1>2, <3>1 DEF Reads
    <3> QED
      BY <1>1, <1>4, <2>1, <3>2, PicksInv
  <2> QED
    BY <2>4, <2>5
<1>6. CASE r.strategy_type = "primary_fallback"
  <2>1. DOMAIN d.seen = {1}
    BY <1>1, <1>6 DEF ToRead
  <2>2. \/ d.seen[1].state = "CLOSED" /\ Picks(PrimaryOrShare(d))
        \/ d.seen[1].state = "OPEN" /\ Picks(Fallback(r))
        \/ /\ d.seen[1].state = "HALF_OPEN"
           /\ decision' = [decision EXCEPT !.pc = "probing"]
    BY <1>6 DEF Decide
  <2>3. Fallback(r) \in Providers \cup {Unset}
    BY <1>2 DEF Fallback
  <2>4. CASE d.seen[1].state = "CLOSED" /\ Picks(PrimaryOrShare(d))
    <3>1. r.targets[1].provider \in Providers /\ r.targets[1].provider \notin shut
      BY <1>1, <1>2, <2>1, <2>4 DEF Reads
    <3>2. \/ PrimaryOrShare(d) = r.targets[1].provider
          \/ PrimaryOrShare(d) = Fallback(r) /\ Fallback(r) \in Providers
      <4>1. PICK i \in 1..Len(r.targets) : PickWeighted(r.targets, d.hash) = r.targets[i].provider
        BY <1>1, <1>2, PickIsTarget
      <4>2. i = 1 \/ (i = 2 /\ Len(r.targets) > 1)
        BY <1>1, <1>2, <1>6
      <4>3. i = 2 => Fallback(r) = r.targets[i].provider /\ Fallback(r) \in Providers
        BY <1>2, <4>2 DEF Fallback
      <4> QED
        BY <4>1, <4>2, <4>3 DEF PrimaryOrShare
    <3>3. PrimaryOrShare(d) \in Providers
      BY <3>1, <3>2
    <3> QED
      BY <1>1, <1>4, <1>6, <2>4, <3>1, <3>2, <3>3, PicksInv
  <2>5. CASE d.seen[1].state = "OPEN" /\ Picks(Fallback(r))
    BY <1>1, <1>6, <2>1, <2>3, <2>5, PicksInv
  <2>6. CASE d.seen[1].state = "HALF_OPEN" /\ decision' = [decision EXCEPT !.pc = "probing"]
    <3>1. /\ decision' \in Decision /\ decision'.pc = "probing" /\ decision'.rule = r
          /\ decision'.seen = d.seen
      BY <2>6 DEF RoutingInv, Decision
    <3>2. Reads(decision)'
      BY <1>1, <3>1 DEF Reads
    <3> QED
      BY <1>1, <1>6, <2>1, <2>6, <3>1, <3>2 DEF RoutingInv, OpenIsAvoided
  <2> QED
    BY <2>2, <2>4, <2>5, <2>6
<1> QED
  BY <1>5, <1>6

(* allowRequest, which looks again *)
LEMMA ProbeInv ==
  ASSUME RoutingInv, Probe
  PROVE  RoutingInv'
<1> DEFINE r == decision.rule
<1>1. r \in Rule /\ CanResolve(r) /\ decision.pc = "probing" /\ r.strategy_type = "primary_fallback"
      /\ DOMAIN decision.seen = {1} /\ decision.seen[1].state = "HALF_OPEN"
      /\ UNCHANGED <<rules, breaker, shut>>
  BY RuleInHand DEF Probe, RoutingInv
<1>2. /\ 1 \in 1..Len(r.targets) /\ Len(r.targets) \in Nat
      /\ \A i \in 1..Len(r.targets) : r.targets[i].provider \in Providers
  BY <1>1, ReadIsTarget
<1>3. Fallback(r) \in Providers \cup {Unset} /\ r.targets[1].provider \in Providers
  BY <1>2 DEF Fallback
<1>4. \/ breaker[r.targets[1].provider] # "OPEN" /\ Picks(r.targets[1].provider)
      \/ Picks(Fallback(r))
  BY DEF Probe
<1>5. breaker[r.targets[1].provider] # "OPEN" => r.targets[1].provider \notin shut
  BY DEF RoutingInv
<1>6. r.targets[1].provider # Unset
  BY <1>3, RoutingAssumption
<1> QED
  BY <1>1, <1>3, <1>4, <1>5, <1>6, PicksInv

(* A breaker that moves was not open all the time. *)
LEMMA BreakerMovesInv ==
  ASSUME RoutingInv, NEW p \in Providers, BreakerMoves(p)
  PROVE  RoutingInv'
<1>1. UNCHANGED <<rules, decision>> /\ shut' = shut \ {p}
  BY DEF BreakerMoves
<1>2. PICK s \in States \ {breaker[p]} : breaker' = [breaker EXCEPT ![p] = s]
  BY DEF BreakerMoves
<1>3. breaker' \in [Providers -> States] /\ shut' \subseteq {q \in Providers : breaker'[q] = "OPEN"}
  BY <1>1, <1>2 DEF RoutingInv
<1>4. Reads(decision) => Reads(decision)'
  BY <1>1 DEF Reads
<1>5. OpenIsAvoided'
  BY <1>1 DEF OpenIsAvoided, RoutingInv
<1> QED
  BY <1>1, <1>3, <1>4, <1>5 DEF RoutingInv

(* Every step keeps it. *)
LEMMA RoutingNextInv ==
  ASSUME RoutingInv, [RoutingNext]_routingVars
  PROVE  RoutingInv'
<1>1. CASE UNCHANGED routingVars
  <2>1. Reads(decision) => Reads(decision)'
    BY <1>1 DEF Reads, routingVars
  <2>2. OpenIsAvoided'
    BY <1>1 DEF OpenIsAvoided, RoutingInv, routingVars
  <2> QED
    BY <1>1, <2>1, <2>2 DEF RoutingInv, routingVars
<1> QED
  BY <1>1, RouteInv, ReadTargetInv, DecideInv, ProbeInv, BreakerMovesInv DEF RoutingNext

(* tryResolveFromRules does not choose a provider whose breaker was open   *)
(* during the whole decision, fixed ones and fallbacks excepted, and       *)
(* chooses nobody only when every target was seen open: for any rules, and *)
(* with breakers that move between the reads.                              *)
THEOREM OpenAreAvoided == RoutingSpec => []OpenIsAvoided
<1>1. RoutingInv => OpenIsAvoided
  BY DEF RoutingInv
<1> QED
  BY <1>1, RoutingInitInv, RoutingNextInv, PTL DEF RoutingSpec

-----------------------------------------------------------------------------
(* Running totals never fall. *)
LEMMA UpToGrows ==
  ASSUME NEW targets \in Seq(Target)
  PROVE  \A j \in 0..Len(targets) : \A i \in 0..j : UpTo(targets, i) <= UpTo(targets, j)
<1> DEFINE n == Len(targets)
           U(i) == UpTo(targets, i)
           C == {j \in Nat : j <= n => \A i \in 0..j : U(i) <= U(j)}
<1>1. n \in Nat /\ \A i \in 0..n : U(i) \in Nat
  BY SharesType, UpToSum
<1>2. \A i \in 0..n - 1 : U(i) <= U(i + 1)
  <2> SUFFICES ASSUME NEW i \in 0..n - 1 PROVE U(i) <= U(i + 1)
    OBVIOUS
  <2>1. U(i + 1) = U(i) + Shares(targets)[i + 1]
    BY UpToSum
  <2>2. i + 1 \in 1..n /\ i \in 0..n
    BY <1>1
  <2>3. Shares(targets)[i + 1] \in Nat /\ U(i) \in Nat
    BY <1>1, <2>2, SharesType
  <2> HIDE DEF U
  <2> QED
    BY <2>1, <2>3
<1> HIDE DEF U, n
<1>3. 0 \in C
  <2>1. \A i \in 0..0 : U(i) = U(0)
    OBVIOUS
  <2> QED
    BY <1>1, <2>1
<1>4. ASSUME NEW j \in Nat, j \in C PROVE j + 1 \in C
  <2> SUFFICES ASSUME j + 1 <= n, NEW i \in 0..j + 1 PROVE U(i) <= U(j + 1)
    OBVIOUS
  <2>1. j \in 0..n - 1 /\ j \in 0..n /\ j + 1 \in 0..n /\ i \in 0..n
    BY <1>1
  <2>2. U(j) <= U(j + 1) /\ U(j) \in Nat /\ U(j + 1) \in Nat /\ U(i) \in Nat
    BY <1>1, <1>2, <2>1
  <2>3. CASE i = j + 1
    BY <2>2, <2>3
  <2>4. CASE i # j + 1
    <3>1. i \in 0..j /\ j <= n
      BY <1>1, <2>1, <2>4
    <3>2. U(i) <= U(j)
      BY <1>4, <3>1
    <3> QED
      BY <2>2, <3>2
  <2> QED
    BY <2>3, <2>4
<1> HIDE DEF C
<1>5. Nat \subseteq C
  BY <1>3, <1>4, NatSetInduction
<1> QED
  BY <1>1, <1>5 DEF C, U, n

(* The buckets from one running total to the next are of one target. *)
LEMMA BucketOf ==
  ASSUME NEW targets \in Seq(Target), NEW i \in 1..Len(targets),
         NEW h \in UpTo(targets, i - 1)..UpTo(targets, i) - 1
  PROVE  PickWeighted(targets, h) = targets[i].provider
<1> DEFINE n == Len(targets)
           U(j) == UpTo(targets, j)
           sum == U(n)
           I == {j \in DOMAIN targets : FallsBelow(h % sum, U(j))}
<1>1. n \in Nat /\ (\A j \in 0..n : U(j) \in Nat) /\ DOMAIN targets = 1..n
  BY SharesType, UpToSum
<1>2. i \in 0..n /\ i - 1 \in 0..n /\ n \in 0..n /\ i \in 1..n /\ i \in Nat
  BY <1>1
<1>3. h \in Nat /\ U(i - 1) <= h /\ h < U(i)
  BY <1>1, <1>2
<1>4. U(i) <= sum
  BY <1>1, <1>2, UpToGrows
<1>5. sum \in Nat /\ sum # 0 /\ h % sum = h
  <2>1. sum \in Nat /\ U(i) \in Nat
    BY <1>1, <1>2
  <2>2. h < sum /\ sum # 0 /\ sum \in Nat \ {0}
    <3> HIDE DEF U, sum
    <3> QED
      BY <1>3, <1>4, <2>1
  <2> HIDE DEF sum
  <2>3. h % sum = h
    BY <1>3, <2>2
  <2> QED
    BY <2>1, <2>2, <2>3
<1>6. i \in I
  BY <1>1, <1>2, <1>3, <1>5 DEF FallsBelow
<1>7. I \in SUBSET Nat
  <2>1. 1..n \subseteq Nat
    OBVIOUS
  <2> QED
    BY <1>1, <2>1
<1>8. Min(I) \in I /\ Min(I) <= i
  <2> HIDE DEF I
  <2> QED
    BY <1>6, <1>7, LeastNatural
<1>9. Min(I) = i
  <2> DEFINE m == Min(I)
  <2>1. m \in 1..n /\ m <= i /\ h < U(m)
    <3> HIDE DEF m
    <3>1. m \in I
      BY <1>8 DEF m
    <3> QED
      BY <1>1, <1>5, <1>8, <3>1 DEF FallsBelow, m
  <2> HIDE DEF m
  <2>2. SUFFICES ASSUME m # i PROVE FALSE
    BY DEF m
  <2>3. m \in 0..i - 1 /\ m \in 0..n
    BY <1>1, <1>2, <2>1, <2>2
  <2>4. U(m) <= U(i - 1)
    BY <1>2, <2>3, UpToGrows
  <2>5. U(m) \in Nat /\ U(i - 1) \in Nat
    BY <1>1, <1>2, <2>3
  <2> HIDE DEF U
  <2> QED
    BY <1>3, <2>1, <2>4, <2>5
<1>10. PickWeighted(targets, h) = targets[Min(I)].provider
  BY <1>5 DEF PickWeighted
<1> QED
  BY <1>9, <1>10

(* Over all buckets a provider is picked as often as its targets weigh, by *)
(* induction on the number of targets looked at.                           *)
LEMMA BucketCount ==
  ASSUME NEW targets \in Seq(Target), NEW p
  PROVE  Cardinality({h \in 0..UpTo(targets, Len(targets)) - 1 : PickWeighted(targets, h) = p})
           = Total(Shares(targets), {i \in 1..Len(targets) : targets[i].provider = p})
<1> DEFINE n == Len(targets)
           f == Shares(targets)
           U(i) == UpTo(targets, i)
           H(k) == {h \in 0..U(k) - 1 : PickWeighted(targets, h) = p}
           J(k) == {i \in 1..k : targets[i].provider = p}
           C == {k \in Nat : k <= n => IsFiniteSet(H(k)) /\ Cardinality(H(k)) = Total(f, J(k))}
<1>1. n \in Nat /\ (\A j \in 0..n : U(j) \in Nat) /\ U(0) = 0
      /\ \A j \in 1..n : f[j] \in Nat
  BY SharesType, UpToSum
<1>2. 0 \in C
  <2>1. H(0) = {} /\ J(0) = {}
    BY <1>1
  <2>2. Total(f, J(0)) = 0
    BY <2>1, TotalEmpty, Zenon
  <2>3. IsFiniteSet(H(0)) /\ Cardinality(H(0)) = 0
    BY <2>1, FS_EmptySet, Zenon
  <2> HIDE DEF H, J, f, Total
  <2> QED
    BY <2>2, <2>3
<1>3. ASSUME NEW k \in Nat, k \in C PROVE k + 1 \in C
  <2> SUFFICES ASSUME k + 1 <= n
               PROVE  IsFiniteSet(H(k + 1)) /\ Cardinality(H(k + 1)) = Total(f, J(k + 1))
    OBVIOUS
  <2> DEFINE b == k + 1
             K == U(k)..U(b) - 1
  <2>1. k \in 0..n /\ b \in 0..n /\ b \in 1..n /\ k \in 0..n - 1 /\ b - 1 = k
    BY <1>1
  <2>2. U(k) \in Nat /\ U(b) \in Nat /\ f[b] \in Nat /\ U(b) = U(k) + f[b]
    BY <1>1, <2>1, UpToSum
  <2>3. IsFiniteSet(H(k)) /\ Cardinality(H(k)) = Total(f, J(k)) /\ IsFiniteSet(J(k))
    <3>1. IsFiniteSet(1..k)
      BY FS_Interval
    <3>2. IsFiniteSet(J(k))
      BY <3>1, FS_Subset
    <3>3. k <= n
      BY <2>1
    <3> QED
      BY <1>3, <3>2, <3>3
  <2>4. \A h \in K : PickWeighted(targets, h) = targets[b].provider
    <3> SUFFICES ASSUME NEW h \in K PROVE PickWeighted(targets, h) = targets[b].provider
      OBVIOUS
    <3>1. h \in UpTo(targets, b - 1)..UpTo(targets, b) - 1
      BY <2>1
    <3> HIDE DEF b, K
    <3> QED
      BY <2>1, <3>1, BucketOf
  <2>5. IsFiniteSet(K) /\ Cardinality(K) = f[b]
    <3>1. U(k) \in Int /\ U(b) - 1 \in Int
      BY <2>2
    <3> HIDE DEF U, b
    <3>2. IsFiniteSet(K) /\ Cardinality(K) = IF U(k) > U(b) - 1 THEN 0 ELSE U(b) - 1 - U(k) + 1
      BY <3>1, FS_Interval
    <3> QED
      BY <2>2, <3>2
  <2>6. CASE targets[b].provider = p
    <3>1. H(b) = H(k) \cup K /\ H(k) \cap K = {}
      <4>1. 0..U(b) - 1 = (0..U(k) - 1) \cup K /\ (0..U(k) - 1) \cap K = {}
        <5> HIDE DEF U, b
        <5> QED
          BY <2>2
      <4>2. H(b) = H(k) \cup {h \in K : PickWeighted(targets, h) = p}
        <5> HIDE DEF U, b, K
        <5> QED
          BY <4>1
      <4>3. {h \in K : PickWeighted(targets, h) = p} = K
        <5> HIDE DEF K
        <5> QED
          BY <2>4, <2>6
      <4> HIDE DEF K, U, b
      <4> QED
        BY <4>1, <4>2, <4>3
    <3>2. J(b) = J(k) \cup {b} /\ b \notin J(k)
      BY <2>6
    <3>3. IsFiniteSet(H(b)) /\ Cardinality(H(b)) = Cardinality(H(k)) + f[b]
      <4> HIDE DEF H, K
      <4>1. IsFiniteSet(H(k) \cup K)
            /\ Cardinality(H(k) \cup K)
                 = Cardinality(H(k)) + Cardinality(K) - Cardinality(H(k) \cap K)
        BY <2>3, <2>5, FS_Union
      <4>2. Cardinality(H(k) \cap K) = 0
        BY <3>1, FS_EmptySet, Zenon
      <4>3. Cardinality(H(k)) \in Nat
        BY <2>3, FS_CardinalityType
      <4>4. Cardinality(H(k) \cup K) = Cardinality(H(k)) + f[b]
        BY <2>2, <2>5, <4>1, <4>2, <4>3
      <4> QED
        BY <3>1, <4>1, <4>4, Zenon
    <3>4. Total(f, J(b)) = Total(f, J(k)) + f[b]
      <4>1. \A y \in J(k) \cup {b} : f[y] \in Int
        <5>1. J(k) \cup {b} \subseteq 1..n
          BY <2>1
        <5> QED
          BY <1>1, <5>1
      <4> HIDE DEF J, b, f
      <4>2. Total(f, J(k) \cup {b}) = Total(f, J(k)) + f[b]
        BY <2>3, <3>2, <4>1, TotalAdd
      <4> QED
        BY <3>2, <4>2, Zenon
    <3> HIDE DEF H, J, f, Total
    <3> QED
      BY <2>3, <3>3, <3>4 DEF b
  <2>7. CASE targets[b].provider # p
    <3>1. H(b) = H(k)
      <4>1. 0..U(b) - 1 = (0..U(k) - 1) \cup K
        <5> HIDE DEF U, b
        <5> QED
          BY <2>2
      <4>2. H(b) = H(k) \cup {h \in K : PickWeighted(targets, h) = p}
        <5> HIDE DEF U, b, K
        <5> QED
          BY <4>1
      <4>3. {h \in K : PickWeighted(targets, h) = p} = {}
        <5> HIDE DEF K
        <5> QED
          BY <2>4, <2>7
      <4> HIDE DEF K, U, b
      <4> QED
        BY <4>2, <4>3
    <3>2. J(b) = J(k)
      BY <2>7
    <3> HIDE DEF H, J, f, Total
    <3> QED
      BY <2>3, <3>1, <3>2, Zenon DEF b
  <2> QED
    BY <2>6, <2>7
<1> HIDE DEF C
<1>4. Nat \subseteq C
  BY <1>2, <1>3, NatSetInduction
<1>5. n \in C
  BY <1>1, <1>4
<1> QED
  BY <1>1, <1>5 DEF C

(* T has the weights of the targets in S *)
SharesKept(targets, T, S, p) ==
  /\ UpTo(T, Len(T)) = Total(Shares(targets), S)
  /\ Total(Shares(T), {k \in 1..Len(T) : T[k].provider = p})
       = Total(Shares(targets), {i \in S : targets[i].provider = p})

(* Leaving targets out keeps the weights of the others: the filtered list  *)
(* is the set of targets left, renumbered.                                 *)
LEMMA ThoseShare ==
  ASSUME NEW targets \in Seq(Target), NEW S \in SUBSET (1..Len(targets)), NEW p
  PROVE  SharesKept(targets, Those(targets, S), S, p)
<1> DEFINE T == Those(targets, S)
           n == Cardinality(S)
           f == Shares(targets)
           g == Shares(T)
           m == [k \in 1..n |-> Nth(S, k)]
<1>1. /\ IsFiniteSet(S) /\ n \in Nat /\ S \in SUBSET Nat /\ T \in Seq(Target) /\ Len(T) = n
      /\ \A k \in 1..n : Nth(S, k) \in S /\ T[k] = targets[Nth(S, k)]
  BY ThoseAre
<1>2. /\ \A k \in 1..n : Rank(S, Nth(S, k)) = k - 1
      /\ \A i \in S : Rank(S, i) + 1 \in 1..n /\ Nth(S, Rank(S, i) + 1) = i
  BY <1>1, NthIsOnto
<1> HIDE DEF T, n
<1>3. \A k \in 1..n : g[k] \in Int /\ g[k] = T[k].share
  BY <1>1, SharesType
<1>4. \A i \in S : f[i] \in Int /\ f[i] = targets[i].share
  BY SharesType
<1>5. \A k \in 1..n : f[m[k]] \in Int /\ g[k] = f[m[k]]
  <2> SUFFICES ASSUME NEW k \in 1..n PROVE f[m[k]] \in Int /\ g[k] = f[m[k]]
    OBVIOUS
  <2>1. m[k] \in S /\ T[k] = targets[m[k]]
    BY <1>1
  <2> HIDE DEF f, g, m
  <2> QED
    BY <1>3, <1>4, <2>1
<1>6. \A k \in 1..n, l \in 1..n : m[k] = m[l] => k = l
  <2> SUFFICES ASSUME NEW k \in 1..n, NEW l \in 1..n, m[k] = m[l] PROVE k = l
    OBVIOUS
  <2>1. k - 1 = l - 1
    BY <1>2
  <2> QED
    BY <2>1
<1>7. ASSUME NEW K \in SUBSET (1..n), NEW A, A = {m[k] : k \in K} PROVE Total(g, K) = Total(f, A)
  <2>1. IsFiniteSet(K)
    <3>1. IsFiniteSet(1..n)
      BY <1>1, FS_Interval
    <3> QED
      BY <3>1, FS_Subset
  <2> HIDE DEF f, g, m
  <2>2. Renames(m, K, f, g)
    BY <1>5, <1>6 DEF Renames
  <2>3. Total(g, K) = Total(f, Renamed(m, K))
    BY <2>1, <2>2, TotalMoved
  <2> QED
    BY <1>7, <2>3, Zenon DEF Renamed
<1>8. \A i \in S : \E k \in 1..n : m[k] = i
  <2> SUFFICES ASSUME NEW i \in S PROVE \E k \in 1..n : m[k] = i
    OBVIOUS
  <2>1. Rank(S, i) + 1 \in 1..n /\ Nth(S, Rank(S, i) + 1) = i
    BY <1>2
  <2> DEFINE k == Rank(S, i) + 1
  <2>2. m[k] = i
    BY <2>1
  <2> HIDE DEF k
  <2> QED
    BY <2>1, <2>2 DEF k
<1>9. S = {m[k] : k \in 1..n}
  BY <1>1, <1>8
<1>10. {i \in S : targets[i].provider = p} = {m[k] : k \in {k \in 1..n : T[k].provider = p}}
  <2>1. \A k \in 1..n : m[k] \in S /\ T[k] = targets[m[k]]
    BY <1>1
  <2> HIDE DEF m
  <2> QED
    BY <1>8, <2>1
<1>11. Total(g, 1..n) = Total(f, S)
  <2> HIDE DEF g, f, m
  <2> QED
    BY <1>7, <1>9
<1>12. Total(g, {k \in 1..n : T[k].provider = p}) = Total(f, {i \in S : targets[i].provider = p})
  <2>1. {k \in 1..n : T[k].provider = p} \in SUBSET (1..n)
    OBVIOUS
  <2> HIDE DEF g, f, m
  <2> QED
    BY <1>7, <1>10, <2>1
<1>13. UpTo(T, Len(T)) = Total(g, 1..n)
  BY <1>1 DEF UpTo, Total
<1>14. Total(Shares(T), {k \in 1..Len(T) : T[k].provider = p})
         = Total(f, {i \in S : targets[i].provider = p})
  BY <1>1, <1>12, Zenon
<1> QED
  BY <1>11, <1>13, <1>14, Zenon DEF T, SharesKept

(* Over all hashes, each target that pickWeighted is left with gets        *)
(* exactly its weight of the buckets: for any number of targets, any       *)
(* weights and any set of open breakers.                                   *)
THEOREM SharesAreTheirWeights == RoutingSpec => []SharesAreWeights
<1>1. ASSUME RoutingInv PROVE SharesAreWeights
  <2> DEFINE d == decision
             targets == d.rule.targets
             S == {i \in DOMAIN d.seen : d.seen[i].state # "OPEN"}
             T == Those(targets, S)
             sum == Total(Shares(targets), S)
  <2>1. SUFFICES ASSUME d.pc = "done", d.rule # Unset, d.rule.strategy_type = "weighted",
                        NEW p \in Providers
                 PROVE  Cardinality({h \in 0..sum - 1 : Resolve([d EXCEPT !.hash = h]) = p})
                          = Total(Shares(targets), {i \in S : targets[i].provider = p})
    BY DEF SharesAreWeights, Total
  <2>2. d.rule \in Rule /\ d \in Decision /\ DOMAIN d.seen \subseteq DOMAIN targets
    BY <1>1, <2>1 DEF RoutingInv, Decision
  <2>3. targets \in Seq(Target)
    BY <2>2 DEF Rule, Target
  <2>4. S \in SUBSET (1..Len(targets))
    BY <2>2, <2>3, SharesType
  <2>5. T \in Seq(Target)
    BY <2>3, <2>4, ThoseAre
  <2>6. UpTo(T, Len(T)) = sum
        /\ Total(Shares(T), {k \in 1..Len(T) : T[k].provider = p})
             = Total(Shares(targets), {i \in S : targets[i].provider = p})
    <3>1. SharesKept(targets, T, S, p)
      <4> HIDE DEF S, targets
      <4> QED
        BY <2>3, <2>4, ThoseShare
    <3> QED
      BY <3>1, Zenon DEF SharesKept
  <2>7. Cardinality({h \in 0..UpTo(T, Len(T)) - 1 : PickWeighted(T, h) = p})
          = Total(Shares(T), {k \in 1..Len(T) : T[k].provider = p})
    <3> HIDE DEF T
    <3> QED
      BY <2>5, BucketCount
  <2>8. CASE S = {}
    <3>1. sum = 0 /\ {i \in S : targets[i].provider = p} = {}
      BY <2>8, TotalEmpty, Zenon
    <3>2. 0..sum - 1 = {}
      <4> HIDE DEF sum
      <4> QED
        BY <3>1
    <3>3. {h \in 0..sum - 1 : Resolve([d EXCEPT !.hash = h]) = p} = {}
      <4> HIDE DEF sum
      <4> QED
        BY <3>2
    <3> HIDE DEF Total
    <3> QED
      BY <3>1, <3>3, TotalEmpty, FS_EmptySet, Zenon
  <2>9. CASE S # {}
    <3>1. ASSUME NEW h \in 0..sum - 1
          PROVE  Resolve([d EXCEPT !.hash = h]) = PickWeighted(T, h)
      <4> DEFINE e == [d EXCEPT !.hash = h]
      <4>1. e.rule = d.rule /\ e.seen = d.seen /\ e.hash = h
        BY <2>2 DEF Decision
      <4> HIDE DEF e
      <4>2. Available(e) = S
        BY <4>1 DEF Available, NotOpen
      <4> HIDE DEF S
      <4>3. Resolve(e) = PickWeighted(Those(e.rule.targets, S), e.hash)
        BY <2>1, <2>9, <4>1, <4>2 DEF Resolve
      <4> QED
        BY <4>1, <4>3 DEF e
    <3>2. {h \in 0..sum - 1 : Resolve([d EXCEPT !.hash = h]) = p}
            = {h \in 0..UpTo(T, Len(T)) - 1 : PickWeighted(T, h) = p}
      <4>1. 0..sum - 1 = 0..UpTo(T, Len(T)) - 1
        BY <2>6, Zenon
      <4> HIDE DEF sum, T, d
      <4> QED
        BY <3>1, <4>1
    <3> HIDE DEF sum, T, S, targets, d, Total
    <3> QED
      BY <2>6, <2>7, <3>2, Zenon
  <2> QED
    BY <2>8, <2>9
<1> QED
  BY <1>1, RoutingInitInv, RoutingNextInv, PTL DEF RoutingSpec
=============================================================================
