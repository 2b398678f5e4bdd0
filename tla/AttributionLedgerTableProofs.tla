-------------------- MODULE AttributionLedgerTableProofs --------------------
(***************************************************************************)
(* Proofs about AttributionLedger, for any commits, turns, requests,       *)
(* rewrites and workers, first part: sums over finite sets, what the       *)
(* operators of the ledger compute, lines of rewritten commits, and the    *)
(* rows of the tables: outcomes are final, finalization leaves no request  *)
(* without one, and no pool is charged for more than it holds.             *)
(***************************************************************************)
EXTENDS AttributionLedgerInvariants, Functions, TLAPS, FiniteSetTheorems,
        WellFoundedInduction, SequenceTheorems

-----------------------------------------------------------------------------
(* Sums over finite sets                                                   *)

Descends == {ss \in Nat \X Nat : ss[1] < ss[2]}

(* A set of numbers that is not empty has a least one.                       *)
LEMMA LeastNumber ==
    ASSUME NEW S \in SUBSET Nat, S # {}
    PROVE  \E x \in S : \A y \in S : x <= y
<1>2. IsWellFoundedOn(Descends, Nat)
  BY NatLessThanWellFounded, Zenon DEF OpToRel, Descends
<1>3. PICK x \in S : \A y \in S : ~ (<<y, x>> \in Descends)
  BY <1>2, WFMin, Zenon
<1>4. ASSUME NEW y \in S PROVE x <= y
  <2>1. x \in Nat /\ y \in Nat
    OBVIOUS
  <2>2. ~ (<<y, x>> \in Descends)
    BY <1>3
  <2>3. y < x => <<y, x>> \in Descends
    BY <2>1 DEF Descends
  <2>4. QED
    BY <2>1, <2>2, <2>3
<1>5. QED
  BY <1>4

(* A family of finite sets has one that none of them is smaller than.        *)
LEMMA SmallestSet ==
    ASSUME NEW F, F # {}, \A T \in F : IsFiniteSet(T)
    PROVE  \E T \in F : \A U \in F : Cardinality(T) <= Cardinality(U)
<1> DEFINE S == {Cardinality(T) : T \in F}
<1>1. S \in SUBSET Nat /\ S # {}
  BY FS_CardinalityType
<1>2. PICK x \in S : \A y \in S : x <= y
  BY <1>1, LeastNumber
<1>5. PICK T \in F : x = Cardinality(T)
  OBVIOUS
<1>6. QED
  BY <1>2, <1>5

(* ... and then every set smaller than that one is not in the family.        *)
LEMMA SmallerSet ==
    ASSUME NEW T, IsFiniteSet(T), NEW x \in T
    PROVE  /\ IsFiniteSet(T \ {x})
           /\ Cardinality(T \ {x}) < Cardinality(T)
           /\ ~ (Cardinality(T) <= Cardinality(T \ {x}))
<1>1. IsFiniteSet(T \ {x}) /\ Cardinality(T \ {x}) = Cardinality(T) - 1
  BY FS_RemoveElement
<1>2. Cardinality(T) \in Nat
  BY FS_CardinalityType
<1>3. QED
  BY <1>1, <1>2

-----------------------------------------------------------------------------
(* What SumFunctionOnSet computes                                            *)

Pick(s) == CHOOSE x \in s : TRUE

Sums(f, S, iter) ==
    iter = [s \in SUBSET S |-> IF s = {} THEN 0 ELSE f[Pick(s)] + iter[s \ {Pick(s)}]]

LEMMA SumDef ==
    ASSUME NEW f, NEW S
    PROVE  SumFunctionOnSet(f, S) = (CHOOSE iter : Sums(f, S, iter))[S]
BY DEF SumFunctionOnSet, FoldFunctionOnSet, MapThenFoldSet, Sums, Pick

LEMMA PickIn ==
    ASSUME NEW s, s # {}
    PROVE  Pick(s) \in s
BY DEF Pick

LEMMA SumsAt ==
    ASSUME NEW f, NEW S, NEW iter, Sums(f, S, iter), NEW T \in SUBSET S
    PROVE  /\ T = {} => iter[T] = 0
           /\ T # {} => iter[T] = f[Pick(T)] + iter[T \ {Pick(T)}]
BY DEF Sums

LEMMA SumsUnique ==
    ASSUME NEW f, NEW S, IsFiniteSet(S), NEW i, NEW j, Sums(f, S, i), Sums(f, S, j)
    PROVE  i = j
<1> DEFINE F == {T \in SUBSET S : i[T] # j[T]}
<1>1. CASE F = {}
  <2>1. \A T \in SUBSET S : i[T] = j[T]
    BY <1>1
  <2>2. i = [s \in SUBSET S |-> i[s]] /\ j = [s \in SUBSET S |-> j[s]]
    BY DEF Sums
  <2>3. QED
    BY <2>1, <2>2
<1>2. CASE F # {}
  <2>1. \A T \in F : IsFiniteSet(T)
    BY FS_Subset
  <2>2. PICK T \in F : \A U \in F : Cardinality(T) <= Cardinality(U)
    BY <1>2, <2>1, SmallestSet
  <2>3. T # {}
    <3> {} \in SUBSET S
      OBVIOUS
    <3>1. i[{}] = 0 /\ j[{}] = 0
      BY SumsAt
    <3>2. QED
      BY <3>1
  <2>4. Pick(T) \in T
    BY <2>3, PickIn
  <2>5. T \ {Pick(T)} \in SUBSET S
    OBVIOUS
  <2>6. T \ {Pick(T)} \notin F
    BY <2>1, <2>2, <2>4, SmallerSet
  <2>7. i[T \ {Pick(T)}] = j[T \ {Pick(T)}]
    BY <2>5, <2>6
  <2>8. i[T] = j[T]
    BY <2>3, <2>7, SumsAt
  <2>9. QED
    BY <2>8
<1>3. QED
  BY <1>1, <1>2

LEMMA SumsRestrict ==
    ASSUME NEW f, NEW S, NEW i, Sums(f, S, i), NEW T \in SUBSET S
    PROVE  Sums(f, T, [s \in SUBSET T |-> i[s]])
<1> DEFINE r == [s \in SUBSET T |-> i[s]]
<1>1. ASSUME NEW s \in SUBSET T
      PROVE  r[s] = IF s = {} THEN 0 ELSE f[Pick(s)] + r[s \ {Pick(s)}]
  <2>1. s \in SUBSET S /\ s \ {Pick(s)} \in SUBSET T
    OBVIOUS
  <2>2. r[s] = i[s] /\ r[s \ {Pick(s)}] = i[s \ {Pick(s)}]
    BY <2>1
  <2>3. QED
    BY <2>1, <2>2, SumsAt
<1>2. QED
  BY <1>1 DEF Sums

LEMMA SumsSum ==
    ASSUME NEW f, NEW S, IsFiniteSet(S), NEW i, Sums(f, S, i)
    PROVE  SumFunctionOnSet(f, S) = i[S]
<1>1. Sums(f, S, CHOOSE iter : Sums(f, S, iter))
  OBVIOUS
<1>2. QED
  BY <1>1, SumDef, SumsUnique

LEMMA SumsExist ==
    ASSUME NEW f, NEW S, IsFiniteSet(S)
    PROVE  \E i : Sums(f, S, i)
<1> DEFINE F == {T \in SUBSET S : ~ \E i : Sums(f, T, i)}
<1>1. CASE F = {}
  BY <1>1
<1>2. CASE F # {}
  <2>1. \A T \in F : IsFiniteSet(T)
    BY FS_Subset
  <2>2. PICK T \in F : \A U \in F : Cardinality(T) <= Cardinality(U)
    BY <1>2, <2>1, SmallestSet
  <2>3. ASSUME NEW U \in SUBSET T, U # T PROVE \E i : Sums(f, U, i)
    <3>1. IsFiniteSet(U) /\ Cardinality(U) <= Cardinality(T) /\ Cardinality(U) # Cardinality(T)
      BY <2>1, <2>3, FS_Subset
    <3>2. Cardinality(U) \in Nat /\ Cardinality(T) \in Nat
      BY <2>1, <3>1, FS_CardinalityType
    <3>3. U \notin F
      BY <2>2, <3>1, <3>2
    <3>4. QED
      BY <3>3
  <2> DEFINE G(U) == SumFunctionOnSet(f, U)
             i == [U \in SUBSET T |-> IF U = {} THEN 0 ELSE f[Pick(U)] + G(U \ {Pick(U)})]
  <2>4. ASSUME NEW U \in SUBSET T, U # T
        PROVE  G(U) = i[U]
    <3>1. PICK k : Sums(f, U, k)
      BY <2>3, <2>4
    <3>2. G(U) = k[U]
      BY <2>1, <3>1, FS_Subset, SumsSum
    <3>3. CASE U = {}
      <4>1. U \in SUBSET U
        OBVIOUS
      <4>2. k[U] = 0
        BY <3>1, <3>3, <4>1, SumsAt
      <4>3. i[U] = 0
        BY <2>4, <3>3
      <4>4. QED
        BY <3>2, <4>2, <4>3
    <3>4. CASE U # {}
      <4> DEFINE V == U \ {Pick(U)}
      <4>1. V \in SUBSET U /\ IsFiniteSet(V)
        BY <2>1, FS_Subset
      <4>2. Sums(f, V, [s \in SUBSET V |-> k[s]])
        BY <3>1, <4>1, SumsRestrict
      <4>3. G(V) = [s \in SUBSET V |-> k[s]][V]
        BY <4>1, <4>2, SumsSum
      <4>4. G(V) = k[V]
        BY <4>3
      <4>5. k[U] = f[Pick(U)] + k[V]
        BY <3>1, <3>4, SumsAt
      <4>6. QED
        BY <3>2, <3>4, <4>4, <4>5
    <3>5. QED
      BY <3>3, <3>4
  <2>5. ASSUME NEW U \in SUBSET T
        PROVE  i[U] = IF U = {} THEN 0 ELSE f[Pick(U)] + i[U \ {Pick(U)}]
    <3>1. CASE U = {}
      BY <3>1
    <3>2. CASE U # {}
      <4>1. U \ {Pick(U)} \in SUBSET T /\ U \ {Pick(U)} # T
        BY <3>2, PickIn
      <4>2. G(U \ {Pick(U)}) = i[U \ {Pick(U)}]
        BY <2>4, <4>1
      <4>3. i[U] = f[Pick(U)] + G(U \ {Pick(U)})
        BY <3>2
      <4>4. QED
        BY <3>2, <4>2, <4>3
    <3>3. QED
      BY <3>1, <3>2
  <2>6. i = [s \in SUBSET T |-> i[s]]
    OBVIOUS
  <2> HIDE DEF i
  <2>7. Sums(f, T, i)
    BY <2>5, <2>6 DEF Sums
  <2>8. QED
    BY <2>7
<1>3. QED
  BY <1>1, <1>2

LEMMA SumStep ==
    ASSUME NEW f, NEW S, IsFiniteSet(S)
    PROVE  /\ S = {} => SumFunctionOnSet(f, S) = 0
           /\ S # {} => SumFunctionOnSet(f, S)
                        = f[Pick(S)] + SumFunctionOnSet(f, S \ {Pick(S)})
<1>1. PICK k : Sums(f, S, k)
  BY SumsExist
<1>2. SumFunctionOnSet(f, S) = k[S]
  BY <1>1, SumsSum
<1> DEFINE V == S \ {Pick(S)}
<1>3. V \in SUBSET S /\ IsFiniteSet(V)
  BY FS_Subset
<1>4. Sums(f, V, [s \in SUBSET V |-> k[s]])
  BY <1>1, <1>3, SumsRestrict
<1>5. SumFunctionOnSet(f, V) = [s \in SUBSET V |-> k[s]][V]
  BY <1>3, <1>4, SumsSum
<1>6. SumFunctionOnSet(f, V) = k[V]
  BY <1>5
<1>7. QED
  BY <1>1, <1>2, <1>6, SumsAt

-----------------------------------------------------------------------------
(* The rules of sums                                                         *)

LEMMA SumEmpty ==
    ASSUME NEW f
    PROVE  SumFunctionOnSet(f, {}) = 0
BY FS_EmptySet, SumStep

LEMMA SumInt ==
    ASSUME NEW S, IsFiniteSet(S), NEW f, \A x \in S : f[x] \in Int
    PROVE  SumFunctionOnSet(f, S) \in Int
<1> DEFINE F == {T \in SUBSET S : SumFunctionOnSet(f, T) \notin Int}
<1>1. CASE F = {}
  BY <1>1
<1>2. CASE F # {}
  <2>1. \A T \in F : IsFiniteSet(T)
    BY FS_Subset
  <2>2. PICK T \in F : \A U \in F : Cardinality(T) <= Cardinality(U)
    BY <1>2, <2>1, SmallestSet
  <2>3. T # {}
    BY SumEmpty
  <2>4. Pick(T) \in T
    BY <2>3, PickIn
  <2>5. T \ {Pick(T)} \in SUBSET S /\ T \ {Pick(T)} \notin F
    BY <2>1, <2>2, <2>4, SmallerSet
  <2>6. SumFunctionOnSet(f, T \ {Pick(T)}) \in Int /\ f[Pick(T)] \in Int
    BY <2>4, <2>5
  <2>7. SumFunctionOnSet(f, T) = f[Pick(T)] + SumFunctionOnSet(f, T \ {Pick(T)})
    BY <2>1, <2>3, SumStep
  <2>8. QED
    BY <2>6, <2>7
<1>3. QED
  BY <1>1, <1>2

(* Any element can be taken out first.                                       *)
LEMMA SumRemove ==
    ASSUME NEW S, IsFiniteSet(S), NEW f, \A x \in S : f[x] \in Int, NEW x \in S
    PROVE  SumFunctionOnSet(f, S) = f[x] + SumFunctionOnSet(f, S \ {x})
<1> DEFINE Sm(T) == SumFunctionOnSet(f, T)
           F == {T \in SUBSET S : \E y \in T : Sm(T) # f[y] + Sm(T \ {y})}
<1>1. CASE F = {}
  BY <1>1
<1>2. CASE F # {}
  <2>1. \A T \in F : IsFiniteSet(T)
    BY FS_Subset
  <2>2. PICK T \in F : \A U \in F : Cardinality(T) <= Cardinality(U)
    BY <1>2, <2>1, SmallestSet
  <2>3. PICK y \in T : Sm(T) # f[y] + Sm(T \ {y})
    OBVIOUS
  <2>4. PICK p \in T : p = Pick(T)
    BY PickIn
  <2>5. Sm(T) = f[p] + Sm(T \ {p})
    BY <2>1, <2>4, SumStep
  <2>6. p # y
    BY <2>3, <2>5
  <2>7. T \ {p} \notin F /\ T \ {y} \notin F
    BY <2>1, <2>2, SmallerSet
  <2>8. Sm(T \ {p}) = f[y] + Sm((T \ {p}) \ {y})
    BY <2>6, <2>7
  <2>9. Sm(T \ {y}) = f[p] + Sm((T \ {y}) \ {p})
    BY <2>6, <2>7
  <2>10. (T \ {p}) \ {y} = (T \ {y}) \ {p}
    OBVIOUS
  <2>11. f[p] \in Int /\ f[y] \in Int /\ Sm((T \ {y}) \ {p}) \in Int
    <3>1. IsFiniteSet((T \ {y}) \ {p})
      BY <2>1, FS_RemoveElement
    <3>2. \A z \in (T \ {y}) \ {p} : f[z] \in Int
      OBVIOUS
    <3>3. QED
      BY <3>1, <3>2, SumInt
  <2> HIDE DEF Sm
  <2>12. PICK m \in Int, n \in Int, r \in Int :
            m = f[p] /\ n = f[y] /\ r = Sm((T \ {y}) \ {p})
    BY <2>11
  <2>13. Sm(T) = m + (n + r) /\ Sm(T \ {y}) = m + r
    BY <2>5, <2>8, <2>9, <2>10, <2>12
  <2>15. Sm(T) = n + Sm(T \ {y})
    BY <2>13
  <2>14. QED
    BY <2>3, <2>12, <2>15
<1>3. QED
  BY <1>1, <1>2

LEMMA SumSame ==
    ASSUME NEW S, IsFiniteSet(S), NEW f, NEW g, \A x \in S : f[x] = g[x]
    PROVE  SumFunctionOnSet(f, S) = SumFunctionOnSet(g, S)
<1> DEFINE F == {T \in SUBSET S : SumFunctionOnSet(f, T) # SumFunctionOnSet(g, T)}
<1>1. CASE F = {}
  BY <1>1
<1>2. CASE F # {}
  <2>1. \A T \in F : IsFiniteSet(T)
    BY FS_Subset
  <2>2. PICK T \in F : \A U \in F : Cardinality(T) <= Cardinality(U)
    BY <1>2, <2>1, SmallestSet
  <2>3. T # {}
    BY SumEmpty
  <2>4. Pick(T) \in T
    BY <2>3, PickIn
  <2>5. T \ {Pick(T)} \in SUBSET S /\ T \ {Pick(T)} \notin F
    BY <2>1, <2>2, <2>4, SmallerSet
  <2>6. SumFunctionOnSet(f, T \ {Pick(T)}) = SumFunctionOnSet(g, T \ {Pick(T)})
    BY <2>5
  <2>7. f[Pick(T)] = g[Pick(T)]
    BY <2>4
  <2>8. QED
    BY <2>1, <2>3, <2>6, <2>7, SumStep
<1>3. QED
  BY <1>1, <1>2

(* h is f and g together.                                                    *)
LEMMA SumPlus ==
    ASSUME NEW S, IsFiniteSet(S), NEW f, NEW g, NEW h,
           \A x \in S : f[x] \in Int /\ g[x] \in Int /\ h[x] = f[x] + g[x]
    PROVE  SumFunctionOnSet(h, S) = SumFunctionOnSet(f, S) + SumFunctionOnSet(g, S)
<1> DEFINE F == {T \in SUBSET S : SumFunctionOnSet(h, T)
                                  # SumFunctionOnSet(f, T) + SumFunctionOnSet(g, T)}
<1>1. CASE F = {}
  BY <1>1
<1>2. CASE F # {}
  <2>1. \A T \in F : IsFiniteSet(T)
    BY FS_Subset
  <2>2. PICK T \in F : \A U \in F : Cardinality(T) <= Cardinality(U)
    BY <1>2, <2>1, SmallestSet
  <2>3. T # {}
    <3>1. /\ SumFunctionOnSet(f, {}) = 0 /\ SumFunctionOnSet(g, {}) = 0
          /\ SumFunctionOnSet(h, {}) = 0
      BY SumEmpty
    <3>2. SumFunctionOnSet(h, T) # SumFunctionOnSet(f, T) + SumFunctionOnSet(g, T)
      OBVIOUS
    <3>3. SUFFICES ASSUME T = {} PROVE FALSE
      OBVIOUS
    <3>4. SumFunctionOnSet(h, {}) # SumFunctionOnSet(f, {}) + SumFunctionOnSet(g, {})
      BY <3>2, <3>3
    <3>5. QED
      BY <3>1, <3>4
  <2>4. PICK p \in T : p = Pick(T)
    BY <2>3, PickIn
  <2>5. T \ {p} \in SUBSET S /\ T \ {p} \notin F
    BY <2>1, <2>2, SmallerSet
  <2>6. SumFunctionOnSet(h, T \ {p}) = SumFunctionOnSet(f, T \ {p}) + SumFunctionOnSet(g, T \ {p})
    BY <2>5
  <2>7. /\ SumFunctionOnSet(h, T) = h[p] + SumFunctionOnSet(h, T \ {p})
        /\ SumFunctionOnSet(f, T) = f[p] + SumFunctionOnSet(f, T \ {p})
        /\ SumFunctionOnSet(g, T) = g[p] + SumFunctionOnSet(g, T \ {p})
    BY <2>1, <2>3, <2>4, SumStep
  <2>8. SumFunctionOnSet(f, T \ {p}) \in Int /\ SumFunctionOnSet(g, T \ {p}) \in Int
    BY <2>1, <2>5, FS_RemoveElement, SumInt
  <2>9. f[p] \in Int /\ g[p] \in Int /\ h[p] = f[p] + g[p]
    OBVIOUS
  <2>10. SumFunctionOnSet(h, T) = SumFunctionOnSet(f, T) + SumFunctionOnSet(g, T)
    BY <2>6, <2>7, <2>8, <2>9
  <2>11. QED
    BY <2>10
<1>3. QED
  BY <1>1, <1>2

LEMMA SumUnion ==
    ASSUME NEW S, IsFiniteSet(S), NEW T, IsFiniteSet(T), S \cap T = {},
           NEW f, \A x \in S \cup T : f[x] \in Int
    PROVE  SumFunctionOnSet(f, S \cup T) = SumFunctionOnSet(f, S) + SumFunctionOnSet(f, T)
<1> DEFINE F == {U \in SUBSET T : SumFunctionOnSet(f, S \cup U)
                                  # SumFunctionOnSet(f, S) + SumFunctionOnSet(f, U)}
<1>1. CASE F = {}
  BY <1>1
<1>2. CASE F # {}
  <2>1. \A U \in F : IsFiniteSet(U)
    BY FS_Subset
  <2>2. PICK U \in F : \A V \in F : Cardinality(U) <= Cardinality(V)
    BY <1>2, <2>1, SmallestSet
  <2>3. SumFunctionOnSet(f, S) \in Int
    BY SumInt
  <2>4. U # {}
    <3>1. S \cup {} = S /\ SumFunctionOnSet(f, {}) = 0
      BY SumEmpty
    <3>2. SumFunctionOnSet(f, S \cup U) # SumFunctionOnSet(f, S) + SumFunctionOnSet(f, U)
      OBVIOUS
    <3>3. SUFFICES ASSUME U = {} PROVE FALSE
      OBVIOUS
    <3>4. SumFunctionOnSet(f, S) # SumFunctionOnSet(f, S) + 0
      BY <3>1, <3>2, <3>3
    <3>5. QED
      BY <2>3, <3>4
  <2>5. PICK p : p \in U
    BY <2>4
  <2>6. U \ {p} \in SUBSET T /\ U \ {p} \notin F /\ IsFiniteSet(U \ {p})
    BY <2>1, <2>2, <2>5, SmallerSet
  <2>7. SumFunctionOnSet(f, S \cup (U \ {p})) = SumFunctionOnSet(f, S) + SumFunctionOnSet(f, U \ {p})
    BY <2>6
  <2>8. SumFunctionOnSet(f, U) = f[p] + SumFunctionOnSet(f, U \ {p})
    BY <2>1, <2>5, SumRemove
  <2>9. SumFunctionOnSet(f, S \cup U) = f[p] + SumFunctionOnSet(f, S \cup (U \ {p}))
    <3>1. (S \cup U) \ {p} = S \cup (U \ {p}) /\ p \in S \cup U
      BY <2>5
    <3>2. IsFiniteSet(S \cup U)
      BY <2>1, FS_Union
    <3>3. \A x \in S \cup U : f[x] \in Int
      OBVIOUS
    <3>4. QED
      BY <3>1, <3>2, <3>3, SumRemove
  <2>10. f[p] \in Int /\ SumFunctionOnSet(f, U \ {p}) \in Int
    BY <2>5, <2>6, SumInt
  <2>11. SumFunctionOnSet(f, S \cup U) = SumFunctionOnSet(f, S) + SumFunctionOnSet(f, U)
    BY <2>3, <2>7, <2>8, <2>9, <2>10
  <2>12. QED
    BY <2>11
<1>3. QED
  BY <1>1, <1>2

LEMMA SumMonotone ==
    ASSUME NEW S, IsFiniteSet(S), NEW T \in SUBSET S, NEW f, \A x \in S : f[x] \in Nat
    PROVE  /\ SumFunctionOnSet(f, T) \in Nat
           /\ SumFunctionOnSet(f, S) \in Nat
           /\ SumFunctionOnSet(f, T) <= SumFunctionOnSet(f, S)
           /\ \A x \in S : f[x] <= SumFunctionOnSet(f, S)
<1>1. ASSUME NEW U, IsFiniteSet(U), \A x \in U : f[x] \in Nat
      PROVE  SumFunctionOnSet(f, U) \in Nat
  <2> DEFINE F == {V \in SUBSET U : SumFunctionOnSet(f, V) \notin Nat}
  <2>1. CASE F = {}
    BY <2>1
  <2>2. CASE F # {}
    <3>1. \A V \in F : IsFiniteSet(V)
      BY <1>1, FS_Subset
    <3>2. PICK V \in F : \A W \in F : Cardinality(V) <= Cardinality(W)
      BY <2>2, <3>1, SmallestSet
    <3>3. V # {}
      BY SumEmpty
    <3>4. PICK p \in V : p = Pick(V)
      BY <3>3, PickIn
    <3>5. V \ {p} \in SUBSET U /\ V \ {p} \notin F
      BY <3>1, <3>2, SmallerSet
    <3>6. SumFunctionOnSet(f, V) = f[p] + SumFunctionOnSet(f, V \ {p})
      BY <3>1, <3>3, <3>4, SumStep
    <3>7. SumFunctionOnSet(f, V \ {p}) \in Nat /\ f[p] \in Nat
      BY <1>1, <3>5
    <3>8. QED
      BY <3>6, <3>7
  <2>3. QED
    BY <2>1, <2>2
<1>2. IsFiniteSet(T) /\ IsFiniteSet(S \ T) /\ S = T \cup (S \ T) /\ T \cap (S \ T) = {}
  BY FS_Subset, FS_Difference
<1>3. SumFunctionOnSet(f, T) \in Nat /\ SumFunctionOnSet(f, S \ T) \in Nat
      /\ SumFunctionOnSet(f, S) \in Nat
  BY <1>1, <1>2
<1>4. SumFunctionOnSet(f, S) = SumFunctionOnSet(f, T) + SumFunctionOnSet(f, S \ T)
  <2>1. \A x \in T \cup (S \ T) : f[x] \in Int
    OBVIOUS
  <2>2. SumFunctionOnSet(f, T \cup (S \ T)) = SumFunctionOnSet(f, T) + SumFunctionOnSet(f, S \ T)
    BY <1>2, <2>1, SumUnion
  <2>3. QED
    BY <1>2, <2>2
<1>5. ASSUME NEW x \in S PROVE f[x] <= SumFunctionOnSet(f, S)
  <2>1. SumFunctionOnSet(f, S) = f[x] + SumFunctionOnSet(f, S \ {x})
    BY SumRemove
  <2>2. SumFunctionOnSet(f, S \ {x}) \in Nat /\ f[x] \in Nat
    BY <1>1, FS_RemoveElement
  <2>3. QED
    BY <2>1, <2>2
<1>6. PICK a \in Nat, b \in Nat : a = SumFunctionOnSet(f, T) /\ b = SumFunctionOnSet(f, S \ T)
  BY <1>3
<1>7. SumFunctionOnSet(f, S) = a + b
  BY <1>4, <1>6
<1>8. SumFunctionOnSet(f, T) <= SumFunctionOnSet(f, S)
  BY <1>6, <1>7
<1>9. QED
  BY <1>3, <1>5, <1>8


(* Elements that add nothing may be left out.                                *)
LEMMA SumSupport ==
    ASSUME NEW S, IsFiniteSet(S), NEW T \in SUBSET S, NEW f,
           \A x \in S : f[x] \in Int, \A x \in S \ T : f[x] = 0
    PROVE  SumFunctionOnSet(f, S) = SumFunctionOnSet(f, T)
<1>1. ASSUME NEW U, IsFiniteSet(U), \A x \in U : f[x] = 0
      PROVE  SumFunctionOnSet(f, U) = 0
  <2> DEFINE F == {V \in SUBSET U : SumFunctionOnSet(f, V) # 0}
  <2>1. CASE F = {}
    BY <2>1
  <2>2. CASE F # {}
    <3>1. \A V \in F : IsFiniteSet(V)
      BY <1>1, FS_Subset
    <3>2. PICK V \in F : \A W \in F : Cardinality(V) <= Cardinality(W)
      BY <2>2, <3>1, SmallestSet
    <3>3. V # {}
      BY SumEmpty
    <3>4. PICK p \in V : p = Pick(V)
      BY <3>3, PickIn
    <3>5. V \ {p} \in SUBSET U /\ V \ {p} \notin F
      BY <3>1, <3>2, SmallerSet
    <3>6. SumFunctionOnSet(f, V) = f[p] + SumFunctionOnSet(f, V \ {p})
      BY <3>1, <3>3, <3>4, SumStep
    <3>7. SumFunctionOnSet(f, V \ {p}) = 0 /\ f[p] = 0
      BY <1>1, <3>5
    <3>8. QED
      BY <3>6, <3>7
  <2>3. QED
    BY <2>1, <2>2
<1>2. IsFiniteSet(T) /\ IsFiniteSet(S \ T) /\ S = T \cup (S \ T) /\ T \cap (S \ T) = {}
  BY FS_Subset, FS_Difference
<1>3. SumFunctionOnSet(f, S \ T) = 0
  BY <1>1, <1>2
<1>4. SumFunctionOnSet(f, T \cup (S \ T)) = SumFunctionOnSet(f, T) + SumFunctionOnSet(f, S \ T)
  <2>1. \A x \in T \cup (S \ T) : f[x] \in Int
    OBVIOUS
  <2>2. QED
    BY <1>2, <2>1, SumUnion
<1>5. SumFunctionOnSet(f, T) \in Int
  BY <1>2, SumInt
<1>6. SumFunctionOnSet(f, S) = SumFunctionOnSet(f, T) + 0
  BY <1>2, <1>3, <1>4
<1>7. QED
  BY <1>5, <1>6

LEMMA SumZero ==
    ASSUME NEW S, IsFiniteSet(S), NEW f, \A x \in S : f[x] = 0
    PROVE  SumFunctionOnSet(f, S) = 0
<1>1. {} \in SUBSET S
  OBVIOUS
<1>2. SumFunctionOnSet(f, S) = SumFunctionOnSet(f, {})
  BY <1>1, SumSupport
<1>3. QED
  BY <1>2, SumEmpty

(* A sum over a part, as a sum over the whole.                               *)
LEMMA SumPart ==
    ASSUME NEW S, IsFiniteSet(S), NEW T \in SUBSET S, NEW f, \A x \in T : f[x] \in Int,
           NEW g, \A x \in S : g[x] = IF x \in T THEN f[x] ELSE 0
    PROVE  SumFunctionOnSet(f, T) = SumFunctionOnSet(g, S)
<1>1. \A x \in S : g[x] \in Int
  OBVIOUS
<1>2. SumFunctionOnSet(g, S) = SumFunctionOnSet(g, T)
  BY <1>1, SumSupport
<1>3. IsFiniteSet(T) /\ \A x \in T : f[x] = g[x]
  BY FS_Subset
<1>4. SumFunctionOnSet(f, T) = SumFunctionOnSet(g, T)
  BY <1>3, SumSame
<1>5. QED
  BY <1>2, <1>4

(* One value changes.                                                        *)
LEMMA SumChange ==
    ASSUME NEW S, IsFiniteSet(S), NEW f, NEW g, NEW x,
           \A y \in S : f[y] \in Int /\ g[y] \in Int,
           \A y \in S \ {x} : g[y] = f[y]
    PROVE  SumFunctionOnSet(g, S) = SumFunctionOnSet(f, S) + (IF x \in S THEN g[x] - f[x] ELSE 0)
<1>0. SumFunctionOnSet(f, S) \in Int
  BY SumInt
<1>1. CASE x \notin S
  <2>1. \A y \in S : f[y] = g[y]
    BY <1>1
  <2>2. SumFunctionOnSet(g, S) = SumFunctionOnSet(f, S)
    BY <2>1, SumSame
  <2>3. QED
    BY <1>0, <1>1, <2>2
<1>2. CASE x \in S
  <2>1. /\ SumFunctionOnSet(f, S) = f[x] + SumFunctionOnSet(f, S \ {x})
        /\ SumFunctionOnSet(g, S) = g[x] + SumFunctionOnSet(g, S \ {x})
    BY <1>2, SumRemove
  <2>2. IsFiniteSet(S \ {x})
    BY FS_RemoveElement
  <2>3. SumFunctionOnSet(f, S \ {x}) = SumFunctionOnSet(g, S \ {x})
    BY <2>2, SumSame
  <2>4. SumFunctionOnSet(f, S \ {x}) \in Int
    BY <2>2, SumInt
  <2>5. PICK a \in Int, b \in Int, r \in Int :
            a = f[x] /\ b = g[x] /\ r = SumFunctionOnSet(f, S \ {x})
    BY <1>2, <2>4
  <2>6. SumFunctionOnSet(f, S) = a + r /\ SumFunctionOnSet(g, S) = b + r
    BY <2>1, <2>3, <2>5
  <2>7. SumFunctionOnSet(g, S) = SumFunctionOnSet(f, S) + (b - a)
    BY <2>6
  <2>8. QED
    BY <1>2, <2>5, <2>7
<1>3. QED
  BY <1>1, <1>2

LEMMA SumOnes ==
    ASSUME NEW S, IsFiniteSet(S), NEW f, \A x \in S : f[x] = 1
    PROVE  SumFunctionOnSet(f, S) = Cardinality(S)
<1> DEFINE F == {V \in SUBSET S : SumFunctionOnSet(f, V) # Cardinality(V)}
<1>1. CASE F = {}
  BY <1>1
<1>2. CASE F # {}
  <2>1. \A V \in F : IsFiniteSet(V)
    BY FS_Subset
  <2>2. PICK V \in F : \A W \in F : Cardinality(V) <= Cardinality(W)
    BY <1>2, <2>1, SmallestSet
  <2>3. V # {}
    BY SumEmpty, FS_EmptySet
  <2>4. PICK p \in V : p = Pick(V)
    BY <2>3, PickIn
  <2>5. V \ {p} \in SUBSET S /\ V \ {p} \notin F
    BY <2>1, <2>2, SmallerSet
  <2>6. SumFunctionOnSet(f, V) = f[p] + SumFunctionOnSet(f, V \ {p})
    BY <2>1, <2>3, <2>4, SumStep
  <2>7. Cardinality(V) \in Nat /\ Cardinality(V \ {p}) = Cardinality(V) - 1
    BY <2>1, FS_RemoveElement, FS_CardinalityType
  <2>8. SumFunctionOnSet(f, V \ {p}) = Cardinality(V \ {p}) /\ f[p] = 1
    BY <2>5
  <2>9. SumFunctionOnSet(f, V) = Cardinality(V)
    BY <2>6, <2>7, <2>8
  <2>10. QED
    BY <2>9
<1>3. QED
  BY <1>1, <1>2

(* The elements that h takes to k, and to some k in L.                       *)
Fiber(M, h, k) == {q \in M : h[q] = k}

Fibers(M, h, L) == {q \in M : h[q] \in L}

(* What is added up fiber by fiber.                                          *)
LEMMA SumFibers ==
    ASSUME NEW M, IsFiniteSet(M), NEW w, \A q \in M : w[q] \in Int, NEW h,
           NEW L, IsFiniteSet(L), NEW c,
           \A k \in L : c[k] = SumFunctionOnSet(w, Fiber(M, h, k))
    PROVE  SumFunctionOnSet(c, L) = SumFunctionOnSet(w, Fibers(M, h, L))
<1> DEFINE Over(K) == {q \in M : h[q] \in K}
           F == {K \in SUBSET L : SumFunctionOnSet(c, K) # SumFunctionOnSet(w, Over(K))}
<1>0. ASSUME NEW K
      PROVE  IsFiniteSet(Over(K)) /\ SumFunctionOnSet(w, Over(K)) \in Int
  <2>1. IsFiniteSet(Over(K))
    BY FS_Subset
  <2>2. QED
    BY <2>1, SumInt
<1>1. CASE F = {}
  <2>1. L \in SUBSET L /\ Over(L) = Fibers(M, h, L)
    BY DEF Fibers
  <2>2. SumFunctionOnSet(c, L) = SumFunctionOnSet(w, Over(L))
    BY <1>1, <2>1
  <2>3. QED
    BY <2>1, <2>2
<1>2. CASE F # {}
  <2>1. \A K \in F : IsFiniteSet(K)
    BY FS_Subset
  <2>2. PICK K \in F : \A W \in F : Cardinality(K) <= Cardinality(W)
    BY <1>2, <2>1, SmallestSet
  <2>3. K # {}
    <3>1. Over({}) = {}
      OBVIOUS
    <3>2. SumFunctionOnSet(c, {}) = 0 /\ SumFunctionOnSet(w, Over({})) = 0
      BY <3>1, SumEmpty
    <3>3. QED
      BY <3>2
  <2>4. PICK p \in K : p = Pick(K)
    BY <2>3, PickIn
  <2>5. K \ {p} \in SUBSET L /\ K \ {p} \notin F
    BY <2>1, <2>2, SmallerSet
  <2>6. SumFunctionOnSet(c, K \ {p}) = SumFunctionOnSet(w, Over(K \ {p}))
    BY <2>5
  <2>7. SumFunctionOnSet(c, K) = c[p] + SumFunctionOnSet(c, K \ {p})
    BY <2>1, <2>3, <2>4, SumStep
  <2>8. SumFunctionOnSet(w, Over(K)) = SumFunctionOnSet(w, Over({p})) + SumFunctionOnSet(w, Over(K \ {p}))
    <3>1. Over(K) = Over({p}) \cup Over(K \ {p}) /\ Over({p}) \cap Over(K \ {p}) = {}
      OBVIOUS
    <3>2. IsFiniteSet(Over({p})) /\ IsFiniteSet(Over(K \ {p}))
      BY <1>0
    <3>3. \A x \in Over({p}) \cup Over(K \ {p}) : w[x] \in Int
      OBVIOUS
    <3> HIDE DEF Over
    <3>4. SumFunctionOnSet(w, Over({p}) \cup Over(K \ {p}))
             = SumFunctionOnSet(w, Over({p})) + SumFunctionOnSet(w, Over(K \ {p}))
      BY <3>1, <3>2, <3>3, SumUnion
    <3>5. QED
      BY <3>1, <3>4
  <2>9. c[p] = SumFunctionOnSet(w, Over({p}))
    <3>1. Over({p}) = Fiber(M, h, p)
      BY DEF Fiber
    <3>2. QED
      BY <3>1
  <2>10. QED
    BY <2>6, <2>7, <2>8, <2>9
<1>3. QED
  BY <1>1, <1>2

-----------------------------------------------------------------------------
(* Amounts                                                                   *)

LEMMA FieldOfAmount ==
    ASSUME NEW t, NEW c, NEW g
    PROVE  /\ FieldOf(Amount(t, c, g), "total") = t
           /\ FieldOf(Amount(t, c, g), "count") = c
           /\ FieldOf(Amount(t, c, g), "gaps") = g
           /\ Amount(t, c, g).total = t /\ Amount(t, c, g).count = c /\ Amount(t, c, g).gaps = g
BY DEF FieldOf, Amount

LEMMA FieldOfType ==
    ASSUME NEW f \in Columns
    PROVE  /\ \A x \in Amounts : FieldOf(x, f) \in Nat
           /\ \A x \in [total : Int, count : Int, gaps : Int] : FieldOf(x, f) \in Int
BY DEF FieldOf, Columns, Amounts

LEMMA FieldOfPlus ==
    ASSUME NEW f \in Columns, NEW x, NEW y
    PROVE  FieldOf(Plus(x, y), f) = FieldOf(x, f) + FieldOf(y, f)
BY DEF FieldOf, Columns, Plus, Amount

LEMMA FieldOfMinus ==
    ASSUME NEW f \in Columns, NEW x, NEW y
    PROVE  FieldOf(Minus(x, y), f) = FieldOf(x, f) - FieldOf(y, f)
BY DEF FieldOf, Columns, Minus, Amount

LEMMA FieldOfZero ==
    ASSUME NEW f \in Columns
    PROVE  FieldOf(Zero, f) = 0
BY DEF FieldOf, Columns, Zero, Amount

LEMMA AmountsClosed ==
    /\ Zero \in Amounts
    /\ \A u \in Nat : Local(u) \in Amounts
    /\ \A x, y \in Amounts : Plus(x, y) \in Amounts
    /\ \A n \in Nat : Amount(0, 0, n) \in Amounts
    /\ \A x, y \in [total : Int, count : Int, gaps : Int] :
          /\ Plus(x, y) \in [total : Int, count : Int, gaps : Int]
          /\ Minus(x, y) \in [total : Int, count : Int, gaps : Int]
    /\ Amounts \subseteq [total : Int, count : Int, gaps : Int]
BY DEF Zero, Local, Plus, Minus, Amounts, Amount

(* What one request adds.                                                    *)
Weight(f) == [q \in Requests |-> FieldOf(Amount(Tokens[q], 1, 0), f)]

LEMMA WeightType ==
    ASSUME NEW f \in Columns
    PROVE  \A q \in Requests : /\ Weight(f)[q] \in Nat
                               /\ Weight(f)[q] = FieldOf(Amount(Tokens[q], 1, 0), f)
<1>1. ASSUME NEW q \in Requests
      PROVE  Amount(Tokens[q], 1, 0) \in Amounts
  BY AttributionLedgerAssumption DEF Amount, Amounts
<1>2. QED
  BY <1>1, FieldOfType DEF Weight

LEMMA PartsAreFinite ==
    /\ IsFiniteSet(Requests) /\ IsFiniteSet(LocalGroups) /\ IsFiniteSet(Keys)
    /\ \A qs \in SUBSET Requests : IsFiniteSet(qs)
    /\ \A ks \in SUBSET Keys : IsFiniteSet(ks)
<1>1. IsFiniteSet(Requests) /\ IsFiniteSet(Groups) /\ IsFiniteSet(Commits)
  BY AttributionLedgerAssumption
<1>2. IsFiniteSet(LocalGroups)
  BY <1>1, FS_Subset DEF Groups
<1>3. IsFiniteSet(Keys)
  <2>1. IsFiniteSet(SUBSET Commits)
    BY <1>1, FS_SUBSET
  <2>2. IsFiniteSet((0..1) \X SUBSET Commits)
    <3>0. 0 \in Int /\ 1 \in Int
      OBVIOUS
    <3>1. IsFiniteSet(0..1)
      BY <3>0, FS_Interval
    <3>2. QED
      BY <2>1, <3>1, FS_Product
  <2> DEFINE P == (0..1) \X SUBSET Commits
             f == [k \in Keys |-> <<IF k.gap THEN 1 ELSE 0, k.commits>>]
  <2>3. \A k \in Keys : k.gap \in BOOLEAN /\ k.commits \in SUBSET Commits
                        /\ k = [gap |-> k.gap, commits |-> k.commits]
    BY DEF Keys
  <2>4. \A k \in Keys : f[k] \in P /\ f[k][1] = (IF k.gap THEN 1 ELSE 0) /\ f[k][2] = k.commits
    BY <2>3
  <2>5. f \in [Keys -> P]
    BY <2>4
  <2>6. ASSUME NEW j \in Keys, NEW k \in Keys, f[j] = f[k]
        PROVE  j = k
    <3>1. j.commits = k.commits /\ (IF j.gap THEN 1 ELSE 0) = (IF k.gap THEN 1 ELSE 0)
      BY <2>4, <2>6
    <3>2. j.gap = k.gap
      BY <2>3, <3>1
    <3>3. QED
      BY <2>3, <3>1, <3>2
  <2> HIDE DEF f
  <2>7. f \in Injection(Keys, P)
    BY <2>5, <2>6, Zenon DEF Injection, IsInjective
  <2>8. QED
    BY <2>2, <2>7, FS_Injection
<1>4. QED
  BY <1>1, <1>2, <1>3, FS_Subset

LEMMA FieldOfOfficial ==
    ASSUME NEW f \in Columns, NEW qs \in SUBSET Requests
    PROVE  FieldOf(Official(qs), f) = SumFunctionOnSet(Weight(f), qs)
<1>0. IsFiniteSet(qs)
  BY PartsAreFinite
<1>1. CASE f = "total"
  <2>1. FieldOf(Official(qs), f) = SumFunctionOnSet(Tokens, qs)
    BY <1>1, FieldOfAmount DEF Official
  <2>2. \A q \in qs : Tokens[q] = Weight(f)[q]
    BY <1>1, FieldOfAmount DEF Weight
  <2>3. QED
    BY <1>0, <2>1, <2>2, SumSame
<1>2. CASE f = "count"
  <2>1. FieldOf(Official(qs), f) = Cardinality(qs)
    BY <1>2, FieldOfAmount DEF Official
  <2>2. \A q \in qs : Weight(f)[q] = 1
    BY <1>2, FieldOfAmount DEF Weight
  <2>3. QED
    BY <1>0, <2>1, <2>2, SumOnes
<1>3. CASE f = "gaps"
  <2>1. FieldOf(Official(qs), f) = 0
    BY <1>3, FieldOfAmount DEF Official
  <2>2. \A q \in qs : Weight(f)[q] = 0
    BY <1>3, FieldOfAmount DEF Weight
  <2>3. QED
    BY <1>0, <2>1, <2>2, SumZero
<1>4. QED
  BY <1>1, <1>2, <1>3 DEF Columns

LEMMA OfficialType ==
    ASSUME NEW qs \in SUBSET Requests
    PROVE  /\ Official(qs) \in Amounts
           /\ Official(qs).gaps = 0
           /\ Official(qs).count = Cardinality(qs)
<1>1. IsFiniteSet(qs)
  BY PartsAreFinite
<1>2. Cardinality(qs) \in Nat
  BY <1>1, FS_CardinalityType
<1>3. \A x \in qs : Tokens[x] \in Nat
  BY AttributionLedgerAssumption
<1>4. qs \in SUBSET qs
  OBVIOUS
<1>5. SumFunctionOnSet(Tokens, qs) \in Nat
  BY <1>1, <1>3, <1>4, SumMonotone
<1>6. QED
  BY <1>2, <1>5 DEF Official, Amount, Amounts

LEMMA NoOfficial ==
    Official({}) = Zero
BY SumEmpty, FS_EmptySet DEF Official, Zero

-----------------------------------------------------------------------------
(* Requests move from pool to pool                                           *)

(* The columns of pools that lose and gain what these requests count.        *)
LEMMA MovesSum ==
    ASSUME NEW M, IsFiniteSet(M), NEW w, \A q \in M : w[q] \in Int, NEW from, NEW to,
           NEW L, IsFiniteSet(L), NEW a, NEW b,
           \A k \in L : /\ a[k] \in Int
                        /\ b[k] = (a[k] - SumFunctionOnSet(w, Fiber(M, from, k)))
                                  + SumFunctionOnSet(w, Fiber(M, to, k))
    PROVE  SumFunctionOnSet(b, L) =
               (SumFunctionOnSet(a, L) - SumFunctionOnSet(w, Fibers(M, from, L)))
               + SumFunctionOnSet(w, Fibers(M, to, L))
<1> DEFINE out == [k \in L |-> SumFunctionOnSet(w, Fiber(M, from, k))]
           in  == [k \in L |-> SumFunctionOnSet(w, Fiber(M, to, k))]
           mid == [k \in L |-> a[k] - out[k]]
<1>1. \A k \in L : out[k] = SumFunctionOnSet(w, Fiber(M, from, k))
                   /\ in[k] = SumFunctionOnSet(w, Fiber(M, to, k))
  OBVIOUS
<1>2. /\ SumFunctionOnSet(out, L) = SumFunctionOnSet(w, Fibers(M, from, L))
      /\ SumFunctionOnSet(in, L) = SumFunctionOnSet(w, Fibers(M, to, L))
  <2> HIDE DEF out, in
  <2>1. SumFunctionOnSet(out, L) = SumFunctionOnSet(w, Fibers(M, from, L))
    BY <1>1, SumFibers
  <2>2. SumFunctionOnSet(in, L) = SumFunctionOnSet(w, Fibers(M, to, L))
    BY <1>1, SumFibers
  <2> QED
    BY <2>1, <2>2
<1>3. \A k \in L : out[k] \in Int /\ in[k] \in Int
  <2> TAKE k \in L
  <2>1. IsFiniteSet(Fiber(M, from, k)) /\ IsFiniteSet(Fiber(M, to, k))
        /\ Fiber(M, from, k) \subseteq M /\ Fiber(M, to, k) \subseteq M
    BY FS_Subset DEF Fiber
  <2>2. QED
    BY <1>1, <2>1, SumInt
<1>4. \A k \in L : mid[k] = a[k] - out[k]
  OBVIOUS
<1> HIDE DEF out, in, mid
<1>5. \A k \in L : /\ out[k] \in Int /\ mid[k] \in Int /\ in[k] \in Int
                   /\ a[k] = out[k] + mid[k] /\ b[k] = mid[k] + in[k]
  <2> TAKE k \in L
  <2>1. b[k] = (a[k] - out[k]) + in[k] /\ a[k] \in Int
    BY <1>1
  <2>2. out[k] \in Int /\ in[k] \in Int /\ mid[k] = a[k] - out[k]
    BY <1>3, <1>4
  <2>3. QED
    BY <2>1, <2>2
<1>6. SumFunctionOnSet(a, L) = SumFunctionOnSet(out, L) + SumFunctionOnSet(mid, L)
  BY <1>5, SumPlus
<1>7. SumFunctionOnSet(b, L) = SumFunctionOnSet(mid, L) + SumFunctionOnSet(in, L)
  BY <1>5, SumPlus
<1>8. SumFunctionOnSet(out, L) \in Int /\ SumFunctionOnSet(mid, L) \in Int /\ SumFunctionOnSet(in, L) \in Int
  BY <1>5, SumInt
<1>9. SumFunctionOnSet(b, L) = (SumFunctionOnSet(a, L) - SumFunctionOnSet(out, L)) + SumFunctionOnSet(in, L)
  BY <1>6, <1>7, <1>8
<1>10. QED
  BY <1>2, <1>9

(* ... and what is due in these pools, before and after.                     *)
LEMMA MovesDue ==
    ASSUME NEW S, IsFiniteSet(S), NEW M \in SUBSET S, NEW w, \A q \in M : w[q] \in Int,
           NEW from, NEW to, NEW L, NEW d, NEW e,
           \A q \in S : /\ d[q] \in Int
                        /\ e[q] = (d[q] - (IF q \in M /\ from[q] \in L THEN w[q] ELSE 0))
                                  + (IF q \in M /\ to[q] \in L THEN w[q] ELSE 0)
    PROVE  SumFunctionOnSet(e, S) =
               (SumFunctionOnSet(d, S) - SumFunctionOnSet(w, Fibers(M, from, L)))
               + SumFunctionOnSet(w, Fibers(M, to, L))
<1> DEFINE O == Fibers(M, from, L)
           I == Fibers(M, to, L)
           out == [q \in S |-> IF q \in O THEN w[q] ELSE 0]
           in  == [q \in S |-> IF q \in I THEN w[q] ELSE 0]
           mid == [q \in S |-> d[q] - out[q]]
<1>1. O \in SUBSET S /\ I \in SUBSET S /\ (\A q \in O : w[q] \in Int) /\ (\A q \in I : w[q] \in Int)
  BY DEF Fibers
<1>2. \A q \in S : out[q] = (IF q \in O THEN w[q] ELSE 0) /\ in[q] = (IF q \in I THEN w[q] ELSE 0)
                   /\ mid[q] = d[q] - out[q]
  OBVIOUS
<1>3. \A q \in S : /\ (q \in O <=> q \in M /\ from[q] \in L) /\ (q \in I <=> q \in M /\ to[q] \in L)
  BY DEF Fibers
<1> HIDE DEF O, I, out, in, mid
<1>4. SumFunctionOnSet(w, O) = SumFunctionOnSet(out, S) /\ SumFunctionOnSet(w, I) = SumFunctionOnSet(in, S)
  BY <1>1, <1>2, SumPart
<1>5. \A q \in S : out[q] \in Int /\ in[q] \in Int /\ mid[q] \in Int
  BY <1>1, <1>2
<1>6. \A q \in S : e[q] = mid[q] + in[q]
  BY <1>2, <1>3
<1>6a. \A q \in S : d[q] = out[q] + mid[q]
  BY <1>2, <1>5
<1>7. SumFunctionOnSet(e, S) = SumFunctionOnSet(mid, S) + SumFunctionOnSet(in, S)
  BY <1>5, <1>6, SumPlus
<1>8. SumFunctionOnSet(d, S) = SumFunctionOnSet(out, S) + SumFunctionOnSet(mid, S)
  BY <1>5, <1>6a, SumPlus
<1>9. SumFunctionOnSet(out, S) \in Int /\ SumFunctionOnSet(mid, S) \in Int /\ SumFunctionOnSet(in, S) \in Int
  BY <1>5, SumInt
<1>10. SumFunctionOnSet(e, S) = (SumFunctionOnSet(d, S) - SumFunctionOnSet(w, O)) + SumFunctionOnSet(w, I)
  BY <1>4, <1>7, <1>8, <1>9
<1>11. QED
  BY <1>10 DEF O, I

-----------------------------------------------------------------------------
(* Walks along the pairs                                                     *)

Pairs == Commits \X Commits

LEMMA SuccessorType ==
    ASSUME NEW pairs \in SUBSET Pairs, NEW c \in Commits
    PROVE  Successor(pairs, c) \in Commits
<1>1. CASE \E r \in pairs : r[1] = c
  <2>1. PICK r \in pairs : r = (CHOOSE s \in pairs : s[1] = c)
    BY <1>1
  <2>2. r[2] \in Commits
    BY DEF Pairs
  <2>3. QED
    BY <1>1, <2>1, <2>2 DEF Successor
<1>2. CASE ~ \E r \in pairs : r[1] = c
  BY <1>2 DEF Successor
<1>3. QED
  BY <1>1, <1>2

LEMMA WalkExists ==
    ASSUME NEW pairs \in SUBSET Pairs, NEW c \in Commits, NEW n \in Nat
    PROVE  \E w : IsWalk(w, pairs, c, n)
<1> DEFINE F == {m \in Nat : ~ \E w : IsWalk(w, pairs, c, m)}
<1>1. CASE F = {}
  BY <1>1
<1>2. CASE F # {}
  <2>1. PICK m \in F : \A k \in F : m <= k
    BY <1>2, LeastNumber
  <2>2. CASE m = 0
    <3> DEFINE w == [i \in 0..0 |-> c]
    <3>1. w \in [0..0 -> Commits] /\ w[0] = c /\ 1..0 = {}
      OBVIOUS
    <3>2. IsWalk(w, pairs, c, 0)
      BY <3>1 DEF IsWalk
    <3>3. QED
      BY <2>2, <3>2
  <2>3. CASE m # 0
    <3>1. m - 1 \in Nat /\ m - 1 \notin F
      BY <2>1, <2>3
    <3>2. PICK w : IsWalk(w, pairs, c, m - 1)
      BY <3>1
    <3> DEFINE v == [i \in 0..m |-> IF i = m THEN Successor(pairs, w[m - 1]) ELSE w[i]]
    <3>3. w \in [0..(m - 1) -> Commits] /\ w[0] = c
          /\ \A i \in 1..(m - 1) : w[i] = Successor(pairs, w[i - 1])
      BY <3>2 DEF IsWalk
    <3>4. w[m - 1] \in Commits
      BY <3>1, <3>3
    <3>5. Successor(pairs, w[m - 1]) \in Commits
      BY <3>4, SuccessorType
    <3>6. v \in [0..m -> Commits]
      BY <3>1, <3>3, <3>5
    <3>7. v[0] = c
      BY <2>3, <3>3
    <3>8. \A i \in 1..m : v[i] = Successor(pairs, v[i - 1])
      <4> TAKE i \in 1..m
      <4>1. i - 1 \in 0..(m - 1) /\ v[i - 1] = w[i - 1]
        BY <3>1
      <4>2. CASE i = m
        BY <4>1, <4>2
      <4>3. CASE i # m
        <5>1. i \in 1..(m - 1) /\ v[i] = w[i]
          BY <4>3
        <5>2. QED
          BY <3>3, <4>1, <5>1
      <4>4. QED
        BY <4>2, <4>3
    <3> HIDE DEF v
    <3>9. IsWalk(v, pairs, c, m)
      BY <3>6, <3>7, <3>8 DEF IsWalk
    <3>10. QED
      BY <3>9
  <2>4. QED
    BY <2>2, <2>3
<1>3. QED
  BY <1>1, <1>2

(* From the same commit walks go the same way.                               *)
Goes(w, pairs, c, n) == w[0] = c /\ \A i \in 1..n : w[i] = Successor(pairs, w[i - 1])

LEMMA SameWay ==
    ASSUME NEW pairs, NEW c, NEW w, NEW v, NEW n \in Nat,
           Goes(w, pairs, c, n), Goes(v, pairs, c, n)
    PROVE  \A i \in 0..n : w[i] = v[i]
<1> DEFINE F == {i \in 0..n : w[i] # v[i]}
<1>0. w[0] = c /\ v[0] = c
  BY DEF Goes
<1>1. CASE F = {}
  BY <1>1
<1>2. CASE F # {}
  <2>1. PICK i \in F : \A k \in F : i <= k
    <3>1. F \in SUBSET Nat
      OBVIOUS
    <3>2. QED
      BY <1>2, <3>1, LeastNumber
  <2>2. i \in 1..n /\ i - 1 \in 0..n /\ i - 1 \notin F
    BY <1>0, <2>1
  <2>3. w[i - 1] = v[i - 1]
    BY <2>2
  <2>4. w[i] = v[i]
    BY <2>2, <2>3 DEF Goes
  <2>5. QED
    BY <2>4
<1>3. QED
  BY <1>1, <1>2

LEMMA WalksAgree ==
    ASSUME NEW pairs, NEW c, NEW w, NEW v, NEW n \in Nat, NEW m \in Nat,
           IsWalk(w, pairs, c, n), IsWalk(v, pairs, c, m), NEW i \in Nat, i <= n, i <= m
    PROVE  w[i] = v[i]
<1>1. Goes(w, pairs, c, i) /\ Goes(v, pairs, c, i)
  BY DEF IsWalk, Goes
<1>2. \A j \in 0..i : w[j] = v[j]
  BY <1>1, SameWay
<1>3. QED
  BY <1>2

All == Cardinality(Commits)

LEMMA TerminalIs ==
    ASSUME NEW pairs, NEW c, NEW w, IsWalk(w, pairs, c, All)
    PROVE  Terminal(pairs, c) = w[All]
<1> DEFINE Walks(u) == u = [n \in 0..All |-> IF n = 0 THEN c ELSE Successor(pairs, u[n - 1])]
<1>0. All \in Nat
  BY AttributionLedgerAssumption, FS_CardinalityType DEF All
<1>1. Walks(w)
  <2>1. w = [n \in 0..All |-> w[n]] /\ w[0] = c /\ \A i \in 1..All : w[i] = Successor(pairs, w[i - 1])
    BY DEF IsWalk
  <2>2. ASSUME NEW n \in 0..All
        PROVE  w[n] = IF n = 0 THEN c ELSE Successor(pairs, w[n - 1])
    <3>1. n # 0 => n \in 1..All
      BY <1>0
    <3>2. QED
      BY <2>1, <3>1
  <2>3. QED
    BY <2>1, <2>2
<1>2. Terminal(pairs, c) = (CHOOSE u : Walks(u))[All]
  BY DEF Terminal, All
<1>3. PICK v : v = (CHOOSE u : Walks(u)) /\ Walks(v)
  BY <1>1
<1>4. Goes(v, pairs, c, All)
  <2>1. 0 \in 0..All /\ \A i \in 1..All : i \in 0..All /\ i # 0
    BY <1>0
  <2>2. \A n \in 0..All : v[n] = IF n = 0 THEN c ELSE Successor(pairs, v[n - 1])
    BY <1>3
  <2>3. QED
    BY <2>1, <2>2 DEF Goes
<1>5. Goes(w, pairs, c, All)
  BY DEF IsWalk, Goes
<1>6. \A i \in 0..All : w[i] = v[i]
  BY <1>0, <1>4, <1>5, SameWay
<1>7. QED
  BY <1>0, <1>2, <1>3, <1>6

LEMMA AllNat == All \in Nat
BY AttributionLedgerAssumption, FS_CardinalityType DEF All

Steps(w, pairs, c, n) ==
    /\ w[0] = c
    /\ \A i \in 0..n : w[i] \in Commits
    /\ \A i \in 1..n : w[i] = Successor(pairs, w[i - 1])
    /\ \A i \in 0..n : i < n => w[i + 1] = Successor(pairs, w[i])

LEMMA WalkFacts ==
    ASSUME NEW pairs, NEW c, NEW n \in Nat, NEW w, IsWalk(w, pairs, c, n)
    PROVE  Steps(w, pairs, c, n)
<1>1. \A i \in 1..n : w[i] = Successor(pairs, w[i - 1])
  BY DEF IsWalk
<1>2. ASSUME NEW i \in 0..n, i < n
      PROVE  w[i + 1] = Successor(pairs, w[i])
  <2>1. i + 1 \in 1..n /\ (i + 1) - 1 = i
    BY <1>2
  <2>2. w[i + 1] = Successor(pairs, w[(i + 1) - 1])
    BY <1>1, <2>1
  <2>3. QED
    BY <2>1, <2>2
<1>3. QED
  BY <1>1, <1>2 DEF IsWalk, Steps

LEMMA MakeWalk ==
    ASSUME NEW pairs, NEW c, NEW n \in Nat, NEW w, w \in [0..n -> Commits], w[0] = c,
           \A i \in 0..n : i < n => w[i + 1] = Successor(pairs, w[i])
    PROVE  IsWalk(w, pairs, c, n)
<1>1. ASSUME NEW i \in 1..n PROVE w[i] = Successor(pairs, w[i - 1])
  <2>1. i - 1 \in 0..n /\ i - 1 < n /\ (i - 1) + 1 = i
    OBVIOUS
  <2>2. w[(i - 1) + 1] = Successor(pairs, w[i - 1])
    BY <2>1
  <2>3. QED
    BY <2>1, <2>2
<1>2. QED
  BY <1>1 DEF IsWalk

(* A walk goes on from where another one ends.                               *)
LEMMA WalkOn ==
    ASSUME NEW pairs, NEW c, NEW n \in Nat, NEW m \in Nat, NEW w, NEW v,
           IsWalk(w, pairs, c, n), IsWalk(v, pairs, w[n], m)
    PROVE  \E u : IsWalk(u, pairs, c, n + m) /\ u[n + m] = v[m]
<1> DEFINE u == [i \in 0..(n + m) |-> IF i <= n THEN w[i] ELSE v[i - n]]
<1>0. Steps(v, pairs, w[n], m) /\ Steps(w, pairs, c, n)
  BY WalkFacts
<1>1. v[0] = w[n] /\ (\A i \in 0..m : v[i] \in Commits) /\ \A i \in 0..m : i < m => v[i + 1] = Successor(pairs, v[i])
  BY <1>0 DEF Steps
<1>2. w[0] = c /\ (\A i \in 0..n : w[i] \in Commits) /\ \A i \in 0..n : i < n => w[i + 1] = Successor(pairs, w[i])
  BY <1>0 DEF Steps
<1>3. \A i \in 0..(n + m) : i >= n => u[i] = v[i - n]
  BY <1>1
<1>4. \A i \in 0..(n + m) : i <= n => u[i] = w[i]
  OBVIOUS
<1>5. u \in [0..(n + m) -> Commits]
  BY <1>1, <1>2
<1> HIDE DEF u
<1>6. ASSUME NEW i \in 0..(n + m), i < n + m
      PROVE  u[i + 1] = Successor(pairs, u[i])
  <2>1. CASE i < n
    <3>1. u[i] = w[i] /\ u[i + 1] = w[i + 1] /\ i \in 0..n
      BY <1>4, <1>6, <2>1
    <3>2. QED
      BY <1>2, <2>1, <3>1
  <2>2. CASE i >= n
    <3>1. i - n \in 0..m /\ i - n < m /\ (i + 1) - n = (i - n) + 1
      BY <1>6, <2>2
    <3>2. u[i] = v[i - n] /\ u[i + 1] = v[(i - n) + 1]
      <4>1. i + 1 \in 0..(n + m) /\ i + 1 >= n
        BY <1>6, <2>2
      <4>2. u[i + 1] = v[(i + 1) - n] /\ u[i] = v[i - n]
        BY <1>3, <2>2, <4>1
      <4>3. QED
        BY <3>1, <4>2
    <3>3. QED
      BY <1>1, <3>1, <3>2
  <2>3. QED
    BY <2>1, <2>2
<1>7. u[0] = c
  BY <1>2, <1>4
<1>8. IsWalk(u, pairs, c, n + m)
  BY <1>5, <1>6, <1>7, MakeWalk
<1>9. u[n + m] = v[m]
  BY <1>3
<1>10. QED
  BY <1>4, <1>8, <1>9

(* Where there is no successor a walk stays.                                 *)
LEMMA WalkStays ==
    ASSUME NEW pairs, NEW c, NEW n \in Nat, NEW w, IsWalk(w, pairs, c, n),
           NEW i \in 0..n, Successor(pairs, w[i]) = w[i]
    PROVE  \A j \in i..n : w[j] = w[i]
<1> DEFINE F == {j \in i..n : w[j] # w[i]}
<1>1. CASE F = {}
  BY <1>1
<1>2. CASE F # {}
  <2>0. Steps(w, pairs, c, n)
    BY WalkFacts
  <2>1. PICK j \in F : \A k \in F : j <= k
    <3>1. F \in SUBSET Nat
      OBVIOUS
    <3>2. QED
      BY <1>2, <3>1, LeastNumber
  <2>2. j \in 1..n /\ j - 1 \in i..n /\ j - 1 \notin F
    BY <2>1
  <2>3. w[j - 1] = w[i]
    BY <2>2
  <2>4. w[j] = Successor(pairs, w[j - 1])
    BY <2>0, <2>2 DEF Steps
  <2>5. QED
    BY <2>3, <2>4
<1>3. QED
  BY <1>1, <1>2

LEMMA SettledTerminal ==
    ASSUME NEW pairs \in SUBSET Pairs, NEW c \in Commits, NEW n \in 0..All, NEW w,
           IsWalk(w, pairs, c, n), Successor(pairs, w[n]) = w[n]
    PROVE  Terminal(pairs, c) = w[n]
<1>1. All \in Nat /\ n \in Nat
  BY AllNat
<1>2. PICK u : IsWalk(u, pairs, c, All)
  BY <1>1, WalkExists
<1>3. u[n] = w[n]
  BY <1>1, <1>2, WalksAgree
<1>4. u[All] = u[n]
  BY <1>1, <1>2, <1>3, WalkStays
<1>5. QED
  BY <1>2, <1>3, <1>4, TerminalIs

LEMMA LineSize ==
    ASSUME NEW pairs, NEW c
    PROVE  /\ IsFiniteSet(LineOf(pairs, c))
           /\ Cardinality(LineOf(pairs, c)) \in Nat
           /\ Cardinality(LineOf(pairs, c)) <= All
<1>1. IsFiniteSet(Commits) /\ LineOf(pairs, c) \in SUBSET Commits
  BY AttributionLedgerAssumption DEF LineOf
<1>2. QED
  BY <1>1, FS_Subset, FS_CardinalityType DEF All

LEMMA SettledEnd ==
    ASSUME NEW pairs \in SUBSET Pairs, Settles(pairs), NEW c \in Commits
    PROVE  \E n \in Nat : \E w :
               /\ n < Cardinality(LineOf(pairs, c)) /\ n \in 0..All
               /\ IsWalk(w, pairs, c, n)
               /\ w[n] = Terminal(pairs, c)
               /\ Successor(pairs, w[n]) = w[n]
<1>1. PICK n \in 0..Cardinality(LineOf(pairs, c)) - 1 :
         \E w \in [0..n -> Commits] : IsWalk(w, pairs, c, n) /\ Successor(pairs, w[n]) = w[n]
  BY DEF Settles
<1>2. PICK w : IsWalk(w, pairs, c, n) /\ Successor(pairs, w[n]) = w[n]
  BY <1>1
<1>3. n \in Nat /\ n < Cardinality(LineOf(pairs, c)) /\ n \in 0..All
  BY LineSize, AllNat
<1>4. w[n] = Terminal(pairs, c)
  BY <1>2, <1>3, SettledTerminal
<1>5. QED
  BY <1>2, <1>3, <1>4

LEMMA TerminalEnds ==
    ASSUME NEW pairs \in SUBSET Pairs, Settles(pairs), NEW c \in Commits
    PROVE  /\ Terminal(pairs, c) \in Commits
           /\ Successor(pairs, Terminal(pairs, c)) = Terminal(pairs, c)
           /\ Terminal(pairs, Terminal(pairs, c)) = Terminal(pairs, c)
<1>0. PICK n \in Nat : \E w : /\ IsWalk(w, pairs, c, n)
                              /\ w[n] = Terminal(pairs, c)
                              /\ Successor(pairs, w[n]) = w[n]
  BY SettledEnd
<1>1. PICK w : /\ IsWalk(w, pairs, c, n)
               /\ w[n] = Terminal(pairs, c)
               /\ Successor(pairs, w[n]) = w[n]
  BY <1>0
<1>2. w[n] \in Commits
  <2>1. Steps(w, pairs, c, n)
    BY <1>1, WalkFacts
  <2>2. QED
    BY <2>1 DEF Steps
<1>3. \A d \in Commits : Successor(pairs, d) = d => Terminal(pairs, d) = d
  <2> TAKE d \in Commits
  <2> HAVE Successor(pairs, d) = d
  <2> DEFINE v == [i \in 0..0 |-> d]
  <2>1. v \in [0..0 -> Commits] /\ v[0] = d /\ 1..0 = {}
    OBVIOUS
  <2> HIDE DEF v
  <2>2. IsWalk(v, pairs, d, 0)
    BY <2>1 DEF IsWalk
  <2>3. 0 \in 0..All
    BY AllNat
  <2>4. QED
    BY <2>1, <2>2, <2>3, SettledTerminal
<1>4. QED
  BY <1>1, <1>2, <1>3

LEMMA TerminalType ==
    ASSUME NEW pairs \in SUBSET Pairs, NEW c \in Commits
    PROVE  Terminal(pairs, c) \in Commits
<1>1. PICK w : IsWalk(w, pairs, c, All)
  BY AllNat, WalkExists
<1>2. w[All] \in Commits
  <2>1. Steps(w, pairs, c, All)
    BY <1>1, AllNat, WalkFacts
  <2>2. QED
    BY <2>1, AllNat DEF Steps
<1>3. QED
  BY <1>1, <1>2, TerminalIs

(* The next commit has the same end.                                         *)
LEMMA TerminalStep ==
    ASSUME NEW pairs \in SUBSET Pairs, Settles(pairs), NEW c \in Commits
    PROVE  Terminal(pairs, Successor(pairs, c)) = Terminal(pairs, c)
<1> DEFINE d == Successor(pairs, c)
<1>1. d \in Commits
  BY SuccessorType
<1>2. PICK u : IsWalk(u, pairs, c, All + 1)
  BY AllNat, WalkExists
<1>2a. Steps(u, pairs, c, All + 1)
  BY <1>2, AllNat, WalkFacts
<1>3. u[All] = Terminal(pairs, c)
  <2>1. PICK w : IsWalk(w, pairs, c, All)
    BY AllNat, WalkExists
  <2>2. u[All] = w[All]
    BY <1>2, <2>1, AllNat, WalksAgree
  <2>3. QED
    BY <2>1, <2>2, TerminalIs
<1>4. u[All + 1] = Successor(pairs, u[All])
  BY <1>2a, AllNat DEF Steps
<1>5. u[All + 1] = Terminal(pairs, c)
  BY <1>3, <1>4, TerminalEnds
<1> DEFINE v == [i \in 0..All |-> u[i + 1]]
<1>6. v[0] = d
  BY <1>2a, AllNat DEF Steps
<1>7. v \in [0..All -> Commits]
  BY <1>2a, AllNat DEF Steps
<1>8. ASSUME NEW i \in 0..All, i < All PROVE v[i + 1] = Successor(pairs, v[i])
  <2>1. i + 1 \in 0..(All + 1) /\ i + 1 < All + 1 /\ i + 1 \in 0..All
    BY <1>8, AllNat
  <2>2. u[(i + 1) + 1] = Successor(pairs, u[i + 1])
    BY <1>2a, <2>1, AllNat DEF Steps
  <2>3. QED
    BY <2>1, <2>2
<1>9. v[All] = u[All + 1]
  BY AllNat
<1> HIDE DEF v
<1>10. IsWalk(v, pairs, d, All)
  BY <1>6, <1>7, <1>8, AllNat, MakeWalk
<1>11. QED
  BY <1>5, <1>9, <1>10, TerminalIs

Functional(pairs) == \A r, s \in pairs : r[1] = s[1] => r = s

LEMMA SuccessorIs ==
    ASSUME NEW pairs \in SUBSET Pairs, Functional(pairs), NEW c
    PROVE  /\ \A r \in pairs : r[1] = c => Successor(pairs, c) = r[2]
           /\ (\A r \in pairs : r[1] # c) => Successor(pairs, c) = c
<1>1. ASSUME NEW r \in pairs, r[1] = c PROVE Successor(pairs, c) = r[2]
  <2>1. (CHOOSE s \in pairs : s[1] = c) = r
    BY <1>1 DEF Functional
  <2>2. QED
    BY <1>1, <2>1 DEF Successor
<1>2. QED
  BY <1>1 DEF Successor

(* A saved pair merges the line of its old commit into that of its new one.  *)
Merged(pairs, r, c) ==
    IF Terminal(pairs, c) = r[1] THEN Terminal(pairs, r[2]) ELSE Terminal(pairs, c)

Reaches(pairs, c, n, d) ==
    \E w : IsWalk(w, pairs, c, n) /\ w[n] = d /\ Successor(pairs, d) = d

LEMMA WalkReaches ==
    ASSUME NEW pairs, NEW c, NEW n \in Nat, NEW m \in Nat, NEW w, NEW d,
           IsWalk(w, pairs, c, n), Reaches(pairs, w[n], m, d)
    PROVE  Reaches(pairs, c, n + m, d)
<1>1. PICK v : IsWalk(v, pairs, w[n], m) /\ v[m] = d /\ Successor(pairs, d) = d
  BY DEF Reaches
<1>2. \E u : IsWalk(u, pairs, c, n + m) /\ u[n + m] = v[m]
  <2>1. IsWalk(v, pairs, w[n], m)
    BY <1>1
  <2>2. QED
    BY <2>1, WalkOn
<1>3. QED
  BY <1>1, <1>2 DEF Reaches

LEMMA PairMerges ==
    ASSUME NEW pairs \in SUBSET Pairs, Functional(pairs), Settles(pairs),
           NEW r \in Pairs, \A s \in pairs : s[1] # r[1], Terminal(pairs, r[2]) # r[1]
    PROVE  /\ Functional(pairs \cup {r})
           /\ Settles(pairs \cup {r})
           /\ \A c \in Commits : Terminal(pairs \cup {r}, c) = Merged(pairs, r, c)
<1> DEFINE more == pairs \cup {r}
           a == r[1]
           b == r[2]
           T(c) == Terminal(pairs, c)
           Size(c) == Cardinality(LineOf(pairs, c))
<1>1. more \in SUBSET Pairs /\ Functional(more)
  BY DEF Functional
<1>2. a \in Commits /\ b \in Commits
  BY DEF Pairs
<1>3. Successor(more, a) = b /\ Successor(pairs, a) = a
  BY <1>1, SuccessorIs
<1>4. \A c : c # a => Successor(more, c) = Successor(pairs, c)
  <2> TAKE c
  <2> HAVE c # a
  <2>1. CASE \E s \in pairs : s[1] = c
    <3>1. PICK s \in pairs : s[1] = c
      BY <2>1
    <3>2. s \in more
      BY <3>1
    <3>3. QED
      BY <1>1, <3>1, <3>2, SuccessorIs
  <2>2. CASE ~ \E s \in pairs : s[1] = c
    <3>1. \A s \in more : s[1] # c
      BY <2>2
    <3>2. QED
      BY <1>1, <2>2, <3>1, SuccessorIs
  <2>3. QED
    BY <2>1, <2>2
<1>5. ASSUME NEW c \in Commits, T(c) # a
      PROVE  \E n \in Nat : n < Size(c) /\ n \in 0..All /\ Reaches(more, c, n, T(c))
  <2>0. PICK n \in Nat : \E w : /\ n < Size(c) /\ n \in 0..All
                                /\ IsWalk(w, pairs, c, n)
                                /\ w[n] = T(c) /\ Successor(pairs, w[n]) = w[n]
    BY SettledEnd
  <2>1. PICK w : /\ n < Size(c) /\ n \in 0..All
                 /\ IsWalk(w, pairs, c, n)
                 /\ w[n] = T(c) /\ Successor(pairs, w[n]) = w[n]
    BY <2>0
  <2>2. Steps(w, pairs, c, n)
    BY <2>1, WalkFacts
  <2>3. \A i \in 0..n : w[i] # a
    <3>1. SUFFICES ASSUME NEW i \in 0..n, w[i] = a PROVE FALSE
      OBVIOUS
    <3>2. Successor(pairs, w[i]) = w[i]
      BY <1>3, <3>1
    <3>3. \A j \in i..n : w[j] = w[i]
      BY <2>1, <3>2, WalkStays
    <3>4. n \in i..n
      BY <2>1
    <3>5. QED
      BY <1>5, <2>1, <3>1, <3>3, <3>4
  <2>4. \A i \in 0..n : i < n => w[i + 1] = Successor(more, w[i])
    BY <1>4, <2>2, <2>3 DEF Steps
  <2>5. w \in [0..n -> Commits] /\ w[0] = c
    BY <2>1 DEF IsWalk
  <2>6. IsWalk(w, more, c, n)
    BY <2>4, <2>5, MakeWalk
  <2>7. w[n] # a
    BY <1>5, <2>1
  <2>8. Successor(more, w[n]) = w[n]
    BY <1>4, <2>1, <2>7
  <2>9. Reaches(more, c, n, T(c))
    BY <2>1, <2>6, <2>8 DEF Reaches
  <2>10. QED
    BY <2>1, <2>9
<1>6. ASSUME NEW c \in Commits, T(c) = a
      PROVE  \E n \in Nat : n < Size(c) + Size(b) /\ n \in 0..All /\ Reaches(more, c, n, T(b))
  <2>0. PICK n \in Nat : \E w : n < Size(c) /\ IsWalk(w, pairs, c, n) /\ w[n] = a
    BY <1>6, SettledEnd
  <2>1. PICK w : n < Size(c) /\ IsWalk(w, pairs, c, n) /\ w[n] = a
    BY <2>0
  <2>2. PICK i \in 0..n : w[i] = a /\ \A j \in 0..n : w[j] = a => i <= j
    <3> DEFINE F == {j \in 0..n : w[j] = a}
    <3>1. F \in SUBSET Nat /\ F # {}
      BY <2>1
    <3>2. PICK i \in F : \A j \in F : i <= j
      BY <3>1, LeastNumber
    <3>3. QED
      BY <3>2
  <2>3. Steps(w, pairs, c, n)
    BY <2>1, WalkFacts
  <2> DEFINE v == [j \in 0..(i + 1) |-> IF j = i + 1 THEN b ELSE w[j]]
  <2>4. v \in [0..(i + 1) -> Commits] /\ v[0] = c /\ v[i + 1] = b
    BY <1>2, <2>3 DEF Steps
  <2>5. ASSUME NEW j \in 0..(i + 1), j < i + 1 PROVE v[j + 1] = Successor(more, v[j])
    <3>1. CASE j = i
      BY <1>3, <2>2, <3>1
    <3>2. CASE j # i
      <4>1. j \in 0..n /\ j < n /\ ~ (i <= j) /\ j + 1 <= i
        BY <2>5, <3>2
      <4>2. w[j] # a
        BY <2>2, <4>1
      <4>3. v[j] = w[j] /\ v[j + 1] = w[j + 1]
        BY <4>1
      <4>4. w[j + 1] = Successor(pairs, w[j])
        BY <2>3, <4>1 DEF Steps
      <4>5. QED
        BY <1>4, <4>2, <4>3, <4>4
    <3>3. QED
      BY <3>1, <3>2
  <2> HIDE DEF v
  <2>5a. i + 1 \in Nat
    OBVIOUS
  <2>6. IsWalk(v, more, c, i + 1)
    BY <2>4, <2>5, <2>5a, MakeWalk
  <2>7. PICK m \in Nat : m < Size(b) /\ Reaches(more, b, m, T(b))
    BY <1>2, <1>5
  <2>8. PICK p \in Nat : p = i + 1
    BY <2>5a
  <2>9. IsWalk(v, more, c, p) /\ Reaches(more, v[p], m, T(b))
    BY <2>4, <2>6, <2>7, <2>8
  <2>10. Reaches(more, c, (i + 1) + m, T(b))
    <3> HIDE DEF more, T
    <3>1. Reaches(more, c, p + m, T(b))
      BY <2>9, WalkReaches
    <3>2. QED
      BY <2>8, <3>1
  <2>11. Size(c) \in Nat /\ Size(b) \in Nat
    BY LineSize
  <2>12. (i + 1) + m \in Nat /\ (i + 1) + m < Size(c) + Size(b)
    BY <2>1, <2>7, <2>11
  <2>13. Size(c) + Size(b) <= All
    <3> DEFINE C == LineOf(pairs, c)
               B == LineOf(pairs, b)
    <3>1. C \cap B = {} /\ C \cup B \in SUBSET Commits
      BY <1>6 DEF LineOf
    <3>2. IsFiniteSet(C) /\ IsFiniteSet(B)
      BY LineSize
    <3>3. Cardinality(C \cup B) = Cardinality(C) + Cardinality(B) - Cardinality(C \cap B)
      BY <3>2, FS_Union
    <3>4. Cardinality(C \cap B) = 0
      BY <3>1, FS_EmptySet
    <3>5. Cardinality(C \cup B) <= All
      BY <3>1, AttributionLedgerAssumption, FS_Subset DEF All
    <3> HIDE DEF C, B
    <3>6. Cardinality(C) \in Nat /\ Cardinality(B) \in Nat
      BY <3>2, FS_CardinalityType
    <3>7. Cardinality(C) + Cardinality(B) <= All
      BY <3>3, <3>4, <3>5, <3>6
    <3>8. QED
      BY <3>7 DEF C, B
  <2>14. (i + 1) + m \in 0..All
    BY <2>11, <2>12, <2>13, AllNat
  <2>15. QED
    BY <2>10, <2>12, <2>14
<1>7. ASSUME NEW c \in Commits, NEW n \in 0..All, NEW d, Reaches(more, c, n, d)
      PROVE  Terminal(more, c) = d
  BY <1>1, <1>7, SettledTerminal DEF Reaches
<1>8. \A c \in Commits : Terminal(more, c) = Merged(pairs, r, c)
  BY <1>5, <1>6, <1>7 DEF Merged
<1>9. Settles(more)
  <2>1. SUFFICES ASSUME NEW c \in Commits
                 PROVE  \E n \in Nat : \E d : n < Cardinality(LineOf(more, c)) /\ Reaches(more, c, n, d)
    <3>1. ASSUME NEW c \in Commits
          PROVE  \E n \in 0..Cardinality(LineOf(more, c)) - 1 : \E w \in [0..n -> Commits] :
                    IsWalk(w, more, c, n) /\ Successor(more, w[n]) = w[n]
      <4>0. PICK n \in Nat : \E d : n < Cardinality(LineOf(more, c)) /\ Reaches(more, c, n, d)
        BY <2>1
      <4>1. PICK d : n < Cardinality(LineOf(more, c)) /\ Reaches(more, c, n, d)
        BY <4>0
      <4>2. PICK w : IsWalk(w, more, c, n) /\ w[n] = d /\ Successor(more, d) = d
        BY <4>1 DEF Reaches
      <4>3. w \in [0..n -> Commits]
        BY <4>2 DEF IsWalk
      <4>4. n \in 0..Cardinality(LineOf(more, c)) - 1
        BY <4>1, LineSize
      <4>5. QED
        BY <4>2, <4>3, <4>4
    <3>2. QED
      BY <3>1 DEF Settles
  <2>2. IsFiniteSet(LineOf(more, c))
    BY LineSize
  <2>3. CASE T(c) # a
    <3>1. PICK n \in Nat : n < Size(c) /\ Reaches(more, c, n, T(c))
      BY <1>5, <2>3
    <3>2. LineOf(pairs, c) \subseteq LineOf(more, c)
      BY <1>8, <2>3 DEF LineOf, Merged
    <3>3. Size(c) <= Cardinality(LineOf(more, c)) /\ Size(c) \in Nat
          /\ Cardinality(LineOf(more, c)) \in Nat
      BY <2>2, <3>2, LineSize, FS_Subset
    <3>4. n < Cardinality(LineOf(more, c))
      BY <3>1, <3>3
    <3>5. QED
      BY <3>1, <3>4
  <2>4. CASE T(c) = a
    <3>1. PICK n \in Nat : n < Size(c) + Size(b) /\ Reaches(more, c, n, T(b))
      BY <1>6, <2>4
    <3> DEFINE C == LineOf(pairs, c)
               B == LineOf(pairs, b)
    <3>2. C \cup B \subseteq LineOf(more, c)
      BY <1>8, <2>4 DEF LineOf, Merged
    <3>3. C \cap B = {} /\ IsFiniteSet(C) /\ IsFiniteSet(B)
      <4>1. C \cap B = {}
        BY <2>4 DEF LineOf
      <4>2. QED
        BY <4>1, LineSize
    <3>4. Cardinality(C \cup B) = Cardinality(C) + Cardinality(B) - Cardinality(C \cap B)
      BY <3>3, FS_Union
    <3>5. Cardinality(C \cap B) = 0
      BY <3>3, FS_EmptySet
    <3>6. Cardinality(C \cup B) <= Cardinality(LineOf(more, c))
      BY <2>2, <3>2, FS_Subset
    <3>7. Size(c) = Cardinality(C) /\ Size(b) = Cardinality(B)
      OBVIOUS
    <3> HIDE DEF C, B, Size
    <3>8. Cardinality(C) \in Nat /\ Cardinality(B) \in Nat
      BY <3>3, FS_CardinalityType
    <3>9. Cardinality(LineOf(more, c)) \in Nat
      BY LineSize
    <3>10. n < Cardinality(LineOf(more, c))
      BY <3>1, <3>4, <3>5, <3>6, <3>7, <3>8, <3>9
    <3>11. QED
      BY <3>1, <3>10
  <2>5. QED
    BY <2>3, <2>4
<1>10. QED
  BY <1>1, <1>8, <1>9

-----------------------------------------------------------------------------
(* The inductive invariant                                                   *)

IsClaim(c) ==
    c = [status |-> c.status, lease |-> c.lease, live |-> c.live, ptr |-> c.ptr]

IsGroup(r) ==
    r = [state |-> r.state, alloc |-> r.alloc, usage |-> r.usage, age |-> r.age]

(* The two tables hold rows.  Pools, pointers and allocations are left open. *)
Forms ==
    /\ claim = [q \in Requests |-> claim[q]]
    /\ group = [g \in Groups |-> group[g]]
    /\ \A q \in Requests : IsClaim(claim[q])
    /\ \A g \in Groups : IsGroup(group[g])

IInv == Forms /\ LeasedIsPending /\ NoneBeforeGroup /\ NothingLeftBehind

(* What every step is held to.                                               *)
Lawful ==
    /\ Forms' /\ LeasedIsPending'
    /\ \A q \in Requests :
          claim'[q].status # claim[q].status =>
              claim[q].status \in {"none", "pending"} /\ group'[GroupOf[q]].state = "hot"
    /\ \A g \in Groups : group'[g].state = "none" => group[g].state = "none"
    /\ \A g \in Groups :
          group'[g].state = "final" =>
              \/ group[g].state = "final"
              \/ \A q \in Members(g) : claim[q].status # "pending"

LEMMA LawfulKeeps ==
    ASSUME IInv, Lawful
    PROVE  /\ IInv'
           /\ \A q \in Requests : claim[q].status \in {"reconciled", "failed"} =>
                 claim'[q].status = claim[q].status
<1>1. \A q \in Requests : GroupOf[q] \in Groups /\ q \in Members(GroupOf[q])
  BY AttributionLedgerAssumption DEF Groups, Members
<1>2. NoneBeforeGroup'
  BY <1>1 DEF IInv, NoneBeforeGroup, Lawful
<1>3. NothingLeftBehind'
  BY <1>1 DEF IInv, NothingLeftBehind, Lawful
<1>4. QED
  BY <1>2, <1>3 DEF IInv, Lawful

-----------------------------------------------------------------------------
(* What the operators do to a claim                                          *)

(* The claims have the outcomes and the leases of the table.                 *)
Follows(claims) ==
    /\ claims = [q \in Requests |-> claims[q]]
    /\ \A q \in Requests :
          /\ IsClaim(claims[q])
          /\ claims[q].status = claim[q].status
          /\ claims[q].lease = claim[q].lease

LEMMA ItselfFollows ==
    ASSUME Forms
    PROVE  Follows(claim)
BY DEF Forms, Follows

LEMMA Repointed ==
    ASSUME NEW c, IsClaim(c), NEW k
    PROVE  /\ IsClaim([c EXCEPT !.ptr = k])
           /\ [c EXCEPT !.ptr = k].status = c.status
           /\ [c EXCEPT !.ptr = k].lease = c.lease
<1>1. c = [status |-> c.status, lease |-> c.lease, live |-> c.live, ptr |-> c.ptr]
  BY DEF IsClaim
<1>2. [c EXCEPT !.ptr = k] = [status |-> c.status, lease |-> c.lease, live |-> c.live, ptr |-> k]
  BY <1>1
<1> DEFINE d == [status |-> c.status, lease |-> c.lease, live |-> c.live, ptr |-> k]
<1>3. d.status = c.status /\ d.lease = c.lease /\ IsClaim(d)
  BY DEF IsClaim
<1>4. QED
  BY <1>2, <1>3

(* Any table of claims of which some point elsewhere.                        *)
LEMMA RepointedFollows ==
    ASSUME NEW claims, Follows(claims), NEW S, NEW to, NEW after,
           after = [q \in Requests |-> IF q \in S THEN [claims[q] EXCEPT !.ptr = to[q]]
                                                  ELSE claims[q]]
    PROVE  Follows(after)
<1>1. ASSUME NEW q \in Requests
      PROVE  /\ IsClaim(after[q])
             /\ after[q].status = claim[q].status /\ after[q].lease = claim[q].lease
  <2>1. /\ IsClaim(claims[q])
        /\ claims[q].status = claim[q].status /\ claims[q].lease = claim[q].lease
    BY DEF Follows
  <2>2. CASE q \in S
    <3>1. after[q] = [claims[q] EXCEPT !.ptr = to[q]]
      BY <2>2
    <3>2. QED
      BY <2>1, <3>1, Repointed
  <2>3. CASE q \notin S
    <3>1. after[q] = claims[q]
      BY <2>3
    <3>2. QED
      BY <2>1, <3>1
  <2>4. QED
    BY <2>2, <2>3
<1>2. after = [q \in Requests |-> after[q]]
  OBVIOUS
<1>3. QED
  BY <1>1, <1>2 DEF Follows

(* ... and all of them to one pool.                                          *)
LEMMA RepointedToOne ==
    ASSUME NEW claims, Follows(claims), NEW S, NEW k, NEW after,
           after = [q \in Requests |-> IF q \in S THEN [claims[q] EXCEPT !.ptr = k]
                                                  ELSE claims[q]]
    PROVE  Follows(after)
<1> DEFINE to == [q \in Requests |-> k]
<1>1. \A q \in Requests : to[q] = k
  OBVIOUS
<1> HIDE DEF to
<1>2. after = [q \in Requests |-> IF q \in S THEN [claims[q] EXCEPT !.ptr = to[q]]
                                             ELSE claims[q]]
  BY <1>1
<1>3. QED
  BY <1>2, RepointedFollows

LEMMA UnpointedFollows ==
    ASSUME NEW claims, Follows(claims), NEW pools
    PROVE  Follows(Unpointed(claims, pools))
<1> DEFINE S == {q \in Requests : claims[q].ptr.commits # {} /\ pools[claims[q].ptr].count = 0}
           after == Unpointed(claims, pools)
<1>1. after = [q \in Requests |-> IF q \in S THEN [claims[q] EXCEPT !.ptr = GonePool]
                                             ELSE claims[q]]
  BY DEF Unpointed
<1> HIDE DEF S, after
<1>2. Follows(after)
  BY <1>1, RepointedToOne
<1>3. QED
  BY <1>2 DEF after

LEMMA PointedFollows ==
    ASSUME Forms, NEW qs, NEW key
    PROVE  Follows(Pointed(qs, key))
<1> DEFINE after == Pointed(qs, key)
<1>1. after = [q \in Requests |-> IF q \in qs THEN [claim[q] EXCEPT !.ptr = key] ELSE claim[q]]
  BY DEF Pointed
<1> HIDE DEF after
<1>2. Follows(after)
  BY <1>1, ItselfFollows, RepointedToOne
<1>3. QED
  BY <1>2 DEF after

LEMMA PointersMovedFollows ==
    ASSUME Forms, NEW k, NEW target
    PROVE  Follows(PointersMoved(k, target))
<1> DEFINE S == {q \in Requests : claim[q].ptr = k /\ Stored(q)}
           after == PointersMoved(k, target)
<1>1. after = [q \in Requests |-> IF q \in S THEN [claim[q] EXCEPT !.ptr = target] ELSE claim[q]]
  BY DEF PointersMoved
<1> HIDE DEF S, after
<1>2. Follows(after)
  BY <1>1, ItselfFollows, RepointedToOne
<1>3. QED
  BY <1>2 DEF after

-----------------------------------------------------------------------------
(* Shapes of a step                                                          *)

(* The table of groups holds rows, and these are the groups it changes.      *)
GroupsForm ==
    /\ group' = [g \in Groups |-> group'[g]]
    /\ \A g \in Groups : IsGroup(group'[g])

OtherGroups(g) == \A h \in Groups : h # g => group'[h].state = group[h].state

LEMMA GroupRow ==
    ASSUME Forms, NEW g \in Groups, NEW row, IsGroup(row), group' = [group EXCEPT ![g] = row]
    PROVE  GroupsForm /\ OtherGroups(g) /\ group'[g] = row
<1>1. group = [h \in Groups |-> group[h]] /\ \A h \in Groups : IsGroup(group[h])
  BY DEF Forms
<1>2. group' = [h \in Groups |-> IF h = g THEN row ELSE group[h]]
  BY <1>1
<1>3. \A h \in Groups : group'[h] = IF h = g THEN row ELSE group[h]
  BY <1>2
<1>4. group' = [h \in Groups |-> group'[h]]
  BY <1>2
<1>5. \A h \in Groups : IsGroup(group'[h])
  BY <1>1, <1>3
<1>6. QED
  BY <1>3, <1>4, <1>5 DEF GroupsForm, OtherGroups

(* One group takes new fields.                                               *)
Fields(s, a, u, e) == [state |-> s, alloc |-> a, usage |-> u, age |-> e]

LEMMA FieldsRow ==
    ASSUME NEW s, NEW a, NEW u, NEW e
    PROVE  IsGroup(Fields(s, a, u, e)) /\ Fields(s, a, u, e).state = s
BY DEF IsGroup, Fields

(* One claim takes new fields.                                               *)
LEMMA ClaimRow ==
    ASSUME Forms, NEW q \in Requests, NEW row, IsClaim(row), claim' = [claim EXCEPT ![q] = row]
    PROVE  /\ claim' = [r \in Requests |-> claim'[r]]
           /\ \A r \in Requests : IsClaim(claim'[r])
           /\ claim'[q] = row
           /\ \A r \in Requests : r # q => claim'[r] = claim[r]
<1>1. claim = [r \in Requests |-> claim[r]] /\ \A r \in Requests : IsClaim(claim[r])
  BY DEF Forms
<1>2. claim' = [r \in Requests |-> IF r = q THEN row ELSE claim[r]]
  BY <1>1
<1>3. \A r \in Requests : claim'[r] = IF r = q THEN row ELSE claim[r]
  BY <1>2
<1>4. claim' = [r \in Requests |-> claim'[r]]
  BY <1>2
<1>5. QED
  BY <1>1, <1>3, <1>4

(* Steps that leave the groups' states and the outcomes alone.               *)
LEMMA PointersLawful ==
    ASSUME IInv, GroupsForm, Follows(claim'),
           \A g \in Groups : group'[g].state = group[g].state
    PROVE  Lawful
<1>1. Forms'
  BY DEF Forms, GroupsForm, Follows
<1>2. LeasedIsPending'
  BY DEF IInv, LeasedIsPending, Follows
<1>3. QED
  BY <1>1, <1>2 DEF Lawful, Follows

(* Steps on one claim of a hot group.                                        *)
LEMMA ClaimLawful ==
    ASSUME IInv, UNCHANGED group, NEW q \in Requests, NEW row, IsClaim(row),
           claim' = [claim EXCEPT ![q] = row],
           row.lease # {} => row.status = "pending",
           \/ row.status = claim[q].status
           \/ claim[q].status = "pending" /\ Hot(GroupOf[q])
    PROVE  Lawful
<1>1. Forms
  BY DEF IInv
<1>2. /\ claim' = [r \in Requests |-> claim'[r]]
      /\ \A r \in Requests : IsClaim(claim'[r])
      /\ claim'[q] = row
      /\ \A r \in Requests : r # q => claim'[r] = claim[r]
  BY <1>1, ClaimRow
<1>3. Forms'
  BY <1>1, <1>2 DEF Forms
<1>4. LeasedIsPending'
  BY <1>2 DEF IInv, LeasedIsPending
<1>5. \A r \in Requests :
        claim'[r].status # claim[r].status =>
            claim[r].status \in {"none", "pending"} /\ group'[GroupOf[r]].state = "hot"
  BY <1>2 DEF Hot
<1>6. QED
  BY <1>3, <1>4, <1>5 DEF Lawful

LEMMA StillLawful ==
    ASSUME IInv, UNCHANGED <<group, claim>>
    PROVE  Lawful
<1>1. Follows(claim') /\ GroupsForm
  BY ItselfFollows DEF IInv, Forms, GroupsForm
<1>2. QED
  BY <1>1, PointersLawful

-----------------------------------------------------------------------------
(* Reconciliation                                                            *)

LEMMA ClaimInSets ==
    ASSUME NEW c
    PROVE  /\ IsClaim(c) =>
                 c \in [status : {c.status}, lease : {c.lease}, live : {c.live}, ptr : {c.ptr}]
           /\ \A S, L, V, P : c \in [status : S, lease : L, live : V, ptr : P] => IsClaim(c)
BY DEF IsClaim

LEMMA Relived ==
    ASSUME NEW c, IsClaim(c), NEW v
    PROVE  /\ IsClaim([c EXCEPT !.live = v])
           /\ [c EXCEPT !.live = v].status = c.status
           /\ [c EXCEPT !.live = v].lease = c.lease
<1> DEFINE d == [c EXCEPT !.live = v]
<1>1. /\ d \in [status : {c.status}, lease : {c.lease}, live : {v}, ptr : {c.ptr}]
      /\ d.status = c.status /\ d.lease = c.lease
  <2>1. c \in [status : {c.status}, lease : {c.lease}, live : {c.live}, ptr : {c.ptr}]
    BY ClaimInSets
  <2>2. QED
    BY <2>1
<1> HIDE DEF d
<1>2. IsClaim(d)
  BY <1>1, ClaimInSets
<1>3. QED
  BY <1>1, <1>2 DEF d

WithLease(c, l, v) == [c EXCEPT !.lease = l, !.live = v]

LEMMA Leased ==
    ASSUME NEW c, IsClaim(c), NEW l, NEW v
    PROVE  /\ IsClaim(WithLease(c, l, v))
           /\ WithLease(c, l, v).status = c.status
<1> DEFINE d == WithLease(c, l, v)
<1>1. /\ d \in [status : {c.status}, lease : {l}, live : {v}, ptr : {c.ptr}]
      /\ d.status = c.status
  <2>1. c \in [status : {c.status}, lease : {c.lease}, live : {c.live}, ptr : {c.ptr}]
    BY ClaimInSets
  <2>2. QED
    BY <2>1 DEF WithLease
<1> HIDE DEF d
<1>2. IsClaim(d)
  BY <1>1, ClaimInSets
<1>3. QED
  BY <1>1, <1>2 DEF d

LEMMA SettledRow ==
    ASSUME Forms, NEW q \in Requests, NEW status
    PROVE  /\ IsClaim(Settled(q, status))
           /\ Settled(q, status).status = status /\ Settled(q, status).lease = {}
<1> DEFINE c == claim[q]
           d == Settled(q, status)
<1>1. c \in [status : {c.status}, lease : {c.lease}, live : {c.live}, ptr : {c.ptr}]
  BY ClaimInSets DEF Forms
<1>2. /\ d \in [status : {status}, lease : {{}}, live : {FALSE}, ptr : {c.ptr}]
      /\ d.status = status /\ d.lease = {}
  BY <1>1 DEF Settled
<1> HIDE DEF d
<1>3. IsClaim(d)
  <2> DEFINE V == {FALSE}
  <2>1. d \in [status : {status}, lease : {{}}, live : V, ptr : {c.ptr}]
    BY <1>2
  <2> HIDE DEF V
  <2>2. QED
    BY <2>1, ClaimInSets
<1>4. QED
  BY <1>2, <1>3 DEF d

(* A worker that holds its lease looks at a pending request of a hot group.  *)
LEMMA HolderFacts ==
    ASSUME IInv, NEW w \in Workers, NEW q \in Requests, Holds(w, q)
    PROVE  claim[q].status = "pending" /\ Hot(GroupOf[q])
BY DEF IInv, LeasedIsPending, Holds, Stored

LEMMA LeaseLawful ==
    ASSUME IInv, NEW w \in Workers, NEW q \in Requests, Lease(w, q)
    PROVE  Lawful
<1> DEFINE c == claim[q]
           row == WithLease(c, {w}, TRUE)
<1>1. IsClaim(c)
  BY DEF IInv, Forms
<1>2. claim' = [claim EXCEPT ![q] = row]
  BY DEF Lease, IInv, Forms, WithLease
<1>3. IsClaim(row) /\ row.status = c.status
  BY <1>1, Leased, Zenon
<1>4. c.status = "pending" /\ UNCHANGED group
  BY DEF Lease
<1> HIDE DEF row
<1>5. QED
  BY <1>2, <1>3, <1>4, ClaimLawful

LEMMA LeaseExpiresLawful ==
    ASSUME IInv, NEW q \in Requests, LeaseExpires(q)
    PROVE  Lawful
<1> DEFINE c == claim[q]
           row == [c EXCEPT !.live = FALSE]
<1>1. IsClaim(c)
  BY DEF IInv, Forms
<1>2. claim' = [claim EXCEPT ![q] = row]
  BY DEF LeaseExpires, IInv, Forms
<1>3. IsClaim(row) /\ row.status = c.status /\ row.lease = c.lease
  BY <1>1, Relived, Zenon
<1>4. UNCHANGED group /\ (c.lease # {} => c.status = "pending")
  BY DEF LeaseExpires, IInv, LeasedIsPending
<1> HIDE DEF row
<1>5. QED
  BY <1>2, <1>3, <1>4, ClaimLawful

LEMMA ReconcileLawful ==
    ASSUME IInv, NEW w \in Workers, NEW q \in Requests, Reconcile(w, q)
    PROVE  Lawful
<1> DEFINE row == [Settled(q, "reconciled") EXCEPT !.ptr = Key(CommitsOf(GroupOf[q]))]
<1>1. claim[q].status = "pending" /\ Hot(GroupOf[q])
  BY HolderFacts DEF Reconcile
<1>2. IsClaim(row) /\ row.lease = {}
  BY SettledRow, Repointed DEF IInv
<1>3. claim' = [claim EXCEPT ![q] = row] /\ UNCHANGED group
  BY DEF Reconcile
<1> HIDE DEF row
<1>4. QED
  BY <1>1, <1>2, <1>3, ClaimLawful

LEMMA SettleLawful ==
    ASSUME IInv, NEW w \in Workers, NEW q \in Requests, Retry(w, q) \/ Finish(w, q)
    PROVE  Lawful
<1>1. claim[q].status = "pending" /\ Hot(GroupOf[q]) /\ UNCHANGED group
  BY HolderFacts DEF Retry, Finish
<1>2. PICK status : claim' = [claim EXCEPT ![q] = Settled(q, status)]
  <2>1. CASE Retry(w, q)
    BY <2>1 DEF Retry
  <2>2. CASE Finish(w, q)
    BY <2>2 DEF Finish
  <2>3. QED
    BY <2>1, <2>2
<1> DEFINE row == Settled(q, status)
<1>3. IsClaim(row) /\ row.lease = {}
  BY SettledRow DEF IInv
<1> HIDE DEF row
<1>4. claim' = [claim EXCEPT ![q] = row]
  BY <1>2 DEF row
<1>5. QED
  BY <1>1, <1>3, <1>4, ClaimLawful

LEMMA WorkLawful ==
    ASSUME IInv, Work
    PROVE  Lawful
<1>1. CASE \E w \in Workers : GiveUp(w)
  BY <1>1, StillLawful DEF GiveUp
<1>2. QED
  BY <1>1, LeaseLawful, LeaseExpiresLawful, ReconcileLawful, SettleLawful DEF Work

-----------------------------------------------------------------------------
(* Ingest                                                                    *)

LEMMA GroupInSets ==
    ASSUME NEW r
    PROVE  /\ IsGroup(r) =>
                 r \in [state : {r.state}, alloc : {r.alloc}, usage : {r.usage}, age : {r.age}]
           /\ \A S, A, U, E : r \in [state : S, alloc : A, usage : U, age : E] => IsGroup(r)
BY DEF IsGroup

(* What the actions do to the row of a group.                                *)
Appears(r, a) == [r EXCEPT !.state = "hot", !.alloc = a]

AppearsCounted(r, a, u) == [r EXCEPT !.state = "hot", !.alloc = a, !.usage = u]

Grown(r, a) == [r EXCEPT !.alloc = a]

GrownCounted(r, a, u) == [r EXCEPT !.alloc = a, !.usage = u]

Finalized(r) == [r EXCEPT !.state = "final"]

Aged(r, e) == [r EXCEPT !.age = e]

LEMMA RowForms ==
    ASSUME NEW r, IsGroup(r), NEW a, NEW u, NEW e
    PROVE  /\ IsGroup(Appears(r, a)) /\ Appears(r, a).state = "hot"
           /\ IsGroup(AppearsCounted(r, a, u)) /\ AppearsCounted(r, a, u).state = "hot"
           /\ IsGroup(Grown(r, a)) /\ Grown(r, a).state = r.state
           /\ IsGroup(GrownCounted(r, a, u)) /\ GrownCounted(r, a, u).state = r.state
           /\ IsGroup(Finalized(r)) /\ Finalized(r).state = "final"
           /\ IsGroup(Aged(r, e)) /\ Aged(r, e).state = r.state
<1>1. r \in [state : {r.state}, alloc : {r.alloc}, usage : {r.usage}, age : {r.age}]
  BY GroupInSets
<1>2. /\ Appears(r, a) \in [state : {"hot"}, alloc : {a}, usage : {r.usage}, age : {r.age}]
      /\ Appears(r, a).state = "hot"
  BY <1>1 DEF Appears
<1>3. /\ AppearsCounted(r, a, u) \in [state : {"hot"}, alloc : {a}, usage : {u}, age : {r.age}]
      /\ AppearsCounted(r, a, u).state = "hot"
  BY <1>1 DEF AppearsCounted
<1>4. /\ Grown(r, a) \in [state : {r.state}, alloc : {a}, usage : {r.usage}, age : {r.age}]
      /\ Grown(r, a).state = r.state
  BY <1>1 DEF Grown
<1>5. /\ GrownCounted(r, a, u) \in [state : {r.state}, alloc : {a}, usage : {u}, age : {r.age}]
      /\ GrownCounted(r, a, u).state = r.state
  BY <1>1 DEF GrownCounted
<1>6. /\ Finalized(r) \in [state : {"final"}, alloc : {r.alloc}, usage : {r.usage}, age : {r.age}]
      /\ Finalized(r).state = "final"
  BY <1>1 DEF Finalized
<1>7. /\ Aged(r, e) \in [state : {r.state}, alloc : {r.alloc}, usage : {r.usage}, age : {e}]
      /\ Aged(r, e).state = r.state
  BY <1>1 DEF Aged
<1>8. IsGroup(Appears(r, a)) /\ IsGroup(AppearsCounted(r, a, u))
  BY <1>2, <1>3, GroupInSets
<1>9. IsGroup(Grown(r, a)) /\ IsGroup(GrownCounted(r, a, u))
  BY <1>4, <1>5, GroupInSets
<1>10. IsGroup(Finalized(r)) /\ IsGroup(Aged(r, e))
  BY <1>6, <1>7, GroupInSets
<1>11. QED
  BY <1>2, <1>3, <1>4, <1>5, <1>6, <1>7, <1>8, <1>9, <1>10

(* A group keeps its state and takes other fields.                           *)
LEMMA SameState ==
    ASSUME Forms, NEW g \in Groups, NEW row, IsGroup(row), row.state = group[g].state,
           group' = [group EXCEPT ![g] = row]
    PROVE  GroupsForm /\ \A h \in Groups : group'[h].state = group[h].state
<1>1. GroupsForm /\ OtherGroups(g) /\ group'[g] = row
  BY GroupRow
<1>2. QED
  BY <1>1 DEF OtherGroups

(* The claims of some requests that were not stored become pending.          *)
LEMMA AddedRow ==
    ASSUME Forms, NEW c, IsClaim(c)
    PROVE  /\ IsClaim([c EXCEPT !.status = "pending"])
           /\ [c EXCEPT !.status = "pending"].status = "pending"
           /\ [c EXCEPT !.status = "pending"].lease = c.lease
<1> DEFINE d == [status |-> "pending", lease |-> c.lease, live |-> c.live, ptr |-> c.ptr]
<1>1. c = [status |-> c.status, lease |-> c.lease, live |-> c.live, ptr |-> c.ptr]
  BY DEF IsClaim
<1>2. [c EXCEPT !.status = "pending"] = d
  BY <1>1
<1>3. IsClaim(d) /\ d.status = "pending" /\ d.lease = c.lease
  BY DEF IsClaim
<1>4. QED
  BY <1>2, <1>3

LEMMA AddedClaims ==
    ASSUME Forms, NEW qs
    PROVE  /\ Added(qs) = [q \in Requests |-> Added(qs)[q]]
           /\ \A q \in Requests :
                 /\ IsClaim(Added(qs)[q])
                 /\ Added(qs)[q].lease = claim[q].lease
                 /\ q \in qs => Added(qs)[q].status = "pending"
                 /\ q \notin qs => Added(qs)[q] = claim[q]
<1>1. ASSUME NEW q \in Requests
      PROVE  /\ IsClaim(Added(qs)[q])
             /\ Added(qs)[q].lease = claim[q].lease
             /\ q \in qs => Added(qs)[q].status = "pending"
             /\ q \notin qs => Added(qs)[q] = claim[q]
  <2>1. IsClaim(claim[q])
    BY DEF Forms
  <2>2. CASE q \in qs
    <3>1. Added(qs)[q] = [claim[q] EXCEPT !.status = "pending"]
      BY <2>2 DEF Added
    <3>2. QED
      BY <2>1, <2>2, <3>1, AddedRow
  <2>3. CASE q \notin qs
    <3>1. Added(qs)[q] = claim[q]
      BY <2>3 DEF Added
    <3>2. QED
      BY <2>1, <2>3, <3>1
  <2>4. QED
    BY <2>2, <2>3
<1>2. Added(qs) = [q \in Requests |-> Added(qs)[q]]
  BY DEF Added
<1>3. QED
  BY <1>1, <1>2

LEMMA RelayNewLawful ==
    ASSUME IInv, NEW g \in RelayGroups, NEW alloc, NEW qs \in SUBSET Members(g),
           IngestRelayNew(g, alloc, qs)
    PROVE  Lawful
<1>1. Forms /\ g \in Groups
  BY DEF IInv, Groups
<1>2. GroupsForm /\ OtherGroups(g) /\ group'[g].state = "hot"
  <2> DEFINE row == Appears(group[g], alloc)
  <2>1. IsGroup(row) /\ row.state = "hot"
    BY <1>1, RowForms DEF Forms
  <2>2. group' = [group EXCEPT ![g] = row]
    BY <1>1 DEF IngestRelayNew, Forms, Appears
  <2> HIDE DEF row
  <2>3. QED
    BY <1>1, <2>1, <2>2, GroupRow
<1>3. claim' = Added(qs) /\ group[g].state = "none"
  BY DEF IngestRelayNew
<1>4. /\ claim' = [q \in Requests |-> claim'[q]]
      /\ \A q \in Requests :
            /\ IsClaim(claim'[q]) /\ claim'[q].lease = claim[q].lease
            /\ q \in qs => claim'[q].status = "pending"
            /\ q \notin qs => claim'[q] = claim[q]
  BY <1>1, <1>3, AddedClaims
<1>5. \A q \in qs : q \in Requests /\ GroupOf[q] = g /\ claim[q].status = "none"
  BY <1>3 DEF Members, IInv, NoneBeforeGroup
<1>6. Forms'
  BY <1>2, <1>4 DEF Forms, GroupsForm
<1>7. LeasedIsPending'
  BY <1>4 DEF IInv, LeasedIsPending
<1>8. \A q \in Requests :
        claim'[q].status # claim[q].status =>
            claim[q].status \in {"none", "pending"} /\ group'[GroupOf[q]].state = "hot"
  BY <1>2, <1>4, <1>5
<1>9. QED
  BY <1>2, <1>6, <1>7, <1>8 DEF Lawful, OtherGroups

LEMMA RelayMoreLawful ==
    ASSUME IInv, NEW g \in RelayGroups, NEW alloc, NEW qs \in SUBSET Members(g),
           IngestRelayMore(g, alloc, qs)
    PROVE  Lawful
<1> DEFINE new == {q \in qs : claim[q].status = "none"}
           pointed == IF alloc # group[g].alloc
                      THEN Pointed(WithStatus(g, "reconciled"), Key(ToSet(alloc))) ELSE claim
           mixed == [q \in Requests |-> IF q \in new THEN Added(new)[q] ELSE pointed[q]]
<1>1. Forms /\ g \in Groups /\ group[g].state = "hot"
  BY DEF IInv, Groups, IngestRelayMore, Hot
<1>2. GroupsForm /\ \A h \in Groups : group'[h].state = group[h].state
  <2> DEFINE row == Grown(group[g], alloc)
  <2>1. IsGroup(row) /\ row.state = group[g].state
    BY <1>1, RowForms DEF Forms
  <2>2. group' = [group EXCEPT ![g] = row]
    BY <1>1 DEF IngestRelayMore, Forms, Grown
  <2> HIDE DEF row
  <2>3. QED
    BY <1>1, <2>1, <2>2, SameState
<1>3. Follows(pointed)
  BY <1>1, ItselfFollows, PointedFollows
<1>4. \A q \in Requests :
        /\ IsClaim(Added(new)[q]) /\ Added(new)[q].lease = claim[q].lease
        /\ q \in new => Added(new)[q].status = "pending"
  <2> HIDE DEF new
  <2>1. QED
    BY <1>1, AddedClaims
<1>5. \A q \in new : q \in Requests /\ GroupOf[q] = g /\ claim[q].status = "none"
  BY DEF Members
<1>6. claim' = Unpointed(mixed, pool')
  BY DEF IngestRelayMore
<1> HIDE DEF new, pointed
<1>7. \A q \in Requests :
        /\ IsClaim(mixed[q]) /\ mixed[q].lease = claim[q].lease
        /\ q \in new => mixed[q].status = "pending"
        /\ q \notin new => mixed[q].status = claim[q].status
  BY <1>3, <1>4 DEF Follows
<1>8. mixed = [q \in Requests |-> mixed[q]]
  OBVIOUS
<1> HIDE DEF mixed
<1>9. ASSUME NEW q \in Requests
      PROVE  /\ IsClaim(claim'[q])
             /\ claim'[q].status = mixed[q].status /\ claim'[q].lease = mixed[q].lease
  <2>1. claim'[q] = IF mixed[q].ptr.commits # {} /\ (pool')[mixed[q].ptr].count = 0
                      THEN [mixed[q] EXCEPT !.ptr = GonePool] ELSE mixed[q]
    BY <1>6 DEF Unpointed
  <2> DEFINE c == mixed[q]
  <2>2. claim'[q] = [c EXCEPT !.ptr = GonePool] \/ claim'[q] = c
    BY <2>1
  <2>3. IsClaim(c)
    BY <1>7
  <2>4. claim'[q].status = c.status /\ claim'[q].lease = c.lease /\ IsClaim(claim'[q])
    <3> HIDE DEF c
    <3>1. CASE claim'[q] = [c EXCEPT !.ptr = GonePool]
      BY <2>3, <3>1, Repointed
    <3>2. CASE claim'[q] = c
      BY <2>3, <3>2
    <3>3. QED
      BY <2>2, <3>1, <3>2
  <2>5. QED
    BY <2>4
<1>10. claim' = [q \in Requests |-> claim'[q]]
  BY <1>6 DEF Unpointed
<1>11. Forms'
  BY <1>2, <1>9, <1>10 DEF Forms, GroupsForm
<1>12. LeasedIsPending'
  BY <1>5, <1>7, <1>9 DEF IInv, LeasedIsPending
<1>13. \A q \in Requests :
         claim'[q].status # claim[q].status =>
             claim[q].status \in {"none", "pending"} /\ group'[GroupOf[q]].state = "hot"
  BY <1>1, <1>2, <1>5, <1>7, <1>9
<1>14. QED
  BY <1>2, <1>11, <1>12, <1>13 DEF Lawful

LEMMA LocalLawful ==
    ASSUME IInv, NEW g \in LocalGroups, NEW alloc, NEW u,
           IngestLocalNew(g, alloc, u) \/ IngestLocalMore(g, alloc, u)
    PROVE  Lawful
<1>1. Forms /\ g \in Groups
  BY DEF IInv, Groups
<1>2. CASE IngestLocalNew(g, alloc, u)
  <2>1. GroupsForm /\ OtherGroups(g) /\ group'[g].state = "hot"
    <3> DEFINE row == AppearsCounted(group[g], alloc, u)
    <3>1. IsGroup(row) /\ row.state = "hot"
      <4>1. IsGroup(group[g])
        BY <1>1 DEF Forms
      <4>2. QED
        BY <4>1, RowForms
    <3>2. group' = [group EXCEPT ![g] = row]
      BY <1>1, <1>2 DEF IngestLocalNew, Forms, AppearsCounted
    <3> HIDE DEF row
    <3>3. QED
      BY <1>1, <3>1, <3>2, GroupRow
  <2>3. claim' = claim
    BY <1>2 DEF IngestLocalNew
  <2>4. Forms' /\ LeasedIsPending'
    BY <2>1, <2>3 DEF IInv, Forms, GroupsForm, LeasedIsPending
  <2>5. QED
    BY <2>1, <2>3, <2>4 DEF Lawful, OtherGroups
<1>3. CASE IngestLocalMore(g, alloc, u)
  <2>2. GroupsForm /\ \A h \in Groups : group'[h].state = group[h].state
    <3> DEFINE row == GrownCounted(group[g], alloc, u)
    <3>1. IsGroup(row) /\ row.state = group[g].state
      BY <1>1, RowForms DEF Forms
    <3>2. group' = [group EXCEPT ![g] = row]
      BY <1>1, <1>3 DEF IngestLocalMore, Forms, GrownCounted
    <3> HIDE DEF row
    <3>3. QED
      BY <1>1, <3>1, <3>2, SameState
  <2>3. Follows(claim')
    BY <1>1, <1>3, ItselfFollows, UnpointedFollows DEF IngestLocalMore
  <2>4. QED
    BY <2>2, <2>3, PointersLawful
<1>4. QED
  BY <1>2, <1>3

LEMMA IngestLawful ==
    ASSUME IInv, Ingest
    PROVE  Lawful
BY RelayNewLawful, RelayMoreLawful, LocalLawful DEF Ingest

-----------------------------------------------------------------------------
(* Expiry                                                                    *)

LEMMA FinalizeLawful ==
    ASSUME IInv, NEW g \in Groups, FinalizeGroup(g)
    PROVE  Lawful
<1> DEFINE row == Finalized(group[g])
<1>1. Forms
  BY DEF IInv
<1>2. group' = [group EXCEPT ![g] = row]
  BY <1>1 DEF FinalizeGroup, Forms, Finalized
<1>3. IsGroup(row) /\ row.state = "final"
  BY <1>1, RowForms DEF Forms
<1> HIDE DEF row
<1>4. GroupsForm /\ OtherGroups(g) /\ group'[g] = row
  BY <1>1, <1>2, <1>3, GroupRow
<1>5. Follows(claim')
  BY <1>1, PointedFollows, UnpointedFollows DEF FinalizeGroup
<1>6. \A q \in Members(g) : claim[q].status # "pending"
  BY DEF FinalizeGroup, AttemptsOver
<1>7. Forms' /\ LeasedIsPending'
  BY <1>4, <1>5 DEF IInv, Forms, GroupsForm, Follows, LeasedIsPending
<1>8. \A q \in Requests : claim'[q].status = claim[q].status
  BY <1>5 DEF Follows
<1>9. QED
  BY <1>3, <1>4, <1>6, <1>7, <1>8 DEF Lawful, OtherGroups

LEMMA CleanupLawful ==
    ASSUME IInv, Cleanup
    PROVE  Lawful
<1>1. Forms /\ claim' = claim
  BY DEF IInv, Cleanup
<1> DEFINE due == {g \in Groups : Hot(g) /\ group[g].age = "expired"}
<1>2. group' = [g \in Groups |-> IF g \in due THEN [group[g] EXCEPT !.state = "dropped"]
                                              ELSE group[g]]
  BY DEF Cleanup
<1> HIDE DEF due
<1>3. ASSUME NEW g \in Groups
      PROVE  IsGroup(group'[g]) /\ (group'[g] = group[g] \/ group'[g].state = "dropped")
  <2>1. IsGroup(group[g])
    BY <1>1 DEF Forms
  <2>2. CASE g \in due
    <3> DEFINE r == group[g]
    <3>1. group'[g] = [r EXCEPT !.state = "dropped"]
      BY <1>2, <2>2
    <3>2. [r EXCEPT !.state = "dropped"] = Fields("dropped", r.alloc, r.usage, r.age)
      <4>1. r = [state |-> r.state, alloc |-> r.alloc, usage |-> r.usage, age |-> r.age]
        BY <2>1 DEF IsGroup
      <4>2. QED
        BY <4>1 DEF Fields
    <3>3. QED
      BY <3>1, <3>2, FieldsRow
  <2>3. CASE g \notin due
    BY <1>2, <2>1, <2>3
  <2>4. QED
    BY <2>2, <2>3
<1>4. group' = [g \in Groups |-> group'[g]]
  BY <1>2
<1>5. Forms' /\ LeasedIsPending'
  BY <1>1, <1>3, <1>4 DEF IInv, Forms, LeasedIsPending
<1>6. QED
  BY <1>1, <1>3, <1>5 DEF Lawful

LEMMA GrowsOldLawful ==
    ASSUME IInv, NEW g \in Groups, GrowsOld(g)
    PROVE  Lawful
<1>1. Forms /\ claim' = claim
  BY DEF IInv, GrowsOld
<1> DEFINE older == IF group[g].age = "young" THEN "due" ELSE "expired"
           row == Aged(group[g], older)
<1>2. group' = [group EXCEPT ![g] = row]
  BY <1>1 DEF GrowsOld, Forms, Aged
<1>3. GroupsForm /\ \A h \in Groups : group'[h].state = group[h].state
  <2>1. IsGroup(row) /\ row.state = group[g].state
    <3> HIDE DEF older
    <3>1. QED
      BY <1>1, RowForms DEF Forms
  <2> HIDE DEF row
  <2>2. QED
    BY <1>1, <1>2, <2>1, SameState
<1>4. QED
  BY <1>1, <1>3, ItselfFollows, PointersLawful

LEMMA ExpiryLawful ==
    ASSUME IInv, Expiry
    PROVE  Lawful
BY FinalizeLawful, CleanupLawful, GrowsOldLawful DEF Expiry

-----------------------------------------------------------------------------
(* Rewrites                                                                  *)

LEMMA RewriteGroupsLawful ==
    ASSUME IInv, RewriteGroups
    PROVE  Lawful
<1> DEFINE alloc(g) == [i \in DOMAIN group[g].alloc |->
                           IF group[g].alloc[i] = rw.old THEN rw.new ELSE group[g].alloc[i]]
           key(g) == Key(ToSet(alloc(g)))
           moved == {q \in Requests : /\ GroupOf[q] \in rw.targets
                                      /\ claim[q].status = "reconciled"
                                      /\ claim[q].ptr # key(GroupOf[q])}
           to == [q \in Requests |-> key(GroupOf[q])]
           claims == [q \in Requests |-> IF q \in moved
                        THEN [claim[q] EXCEPT !.ptr = key(GroupOf[q])] ELSE claim[q]]
<1>1. Forms
  BY DEF IInv
<1>2. claim' = Unpointed(claims, pool')
  BY DEF RewriteGroups
<1>3. group' = [g \in Groups |-> IF g \in rw.targets THEN [group[g] EXCEPT !.alloc = alloc(g)]
                                                    ELSE group[g]]
  BY DEF RewriteGroups
<1>4. claims = [q \in Requests |-> IF q \in moved THEN [claim[q] EXCEPT !.ptr = to[q]] ELSE claim[q]]
  <2>1. \A q \in Requests : to[q] = key(GroupOf[q])
    OBVIOUS
  <2> HIDE DEF to, moved, key
  <2>2. QED
    BY <2>1
<1> HIDE DEF claims, to, moved, key
<1>5. Follows(claims)
  BY <1>1, <1>4, ItselfFollows, RepointedFollows
<1>6. Follows(claim')
  BY <1>2, <1>5, UnpointedFollows
<1> HIDE DEF alloc
<1>7. ASSUME NEW g \in Groups
      PROVE  IsGroup(group'[g]) /\ group'[g].state = group[g].state
  <2>1. IsGroup(group[g])
    BY <1>1 DEF Forms
  <2>2. CASE g \in rw.targets
    <3> DEFINE r == group[g]
    <3>1. group'[g] = [r EXCEPT !.alloc = alloc(g)]
      BY <1>3, <2>2
    <3>2. [r EXCEPT !.alloc = alloc(g)] = Fields(r.state, alloc(g), r.usage, r.age)
      <4>1. r = [state |-> r.state, alloc |-> r.alloc, usage |-> r.usage, age |-> r.age]
        BY <2>1 DEF IsGroup
      <4>2. QED
        BY <4>1 DEF Fields
    <3>3. QED
      BY <3>1, <3>2, FieldsRow
  <2>3. CASE g \notin rw.targets
    BY <1>3, <2>1, <2>3
  <2>4. QED
    BY <2>2, <2>3
<1>8. group' = [g \in Groups |-> group'[g]]
  BY <1>3
<1>9. QED
  BY <1>6, <1>7, <1>8, PointersLawful DEF GroupsForm

LEMMA PoolsLawful ==
    ASSUME IInv, MovePool \/ DeletePool
    PROVE  Lawful
<1>1. Forms /\ group' = group
  BY DEF IInv, MovePool, DeletePool
<1>2. Follows(claim')
  BY <1>1, PointersMovedFollows DEF MovePool, DeletePool
<1>3. GroupsForm
  BY <1>1 DEF Forms, GroupsForm
<1>4. QED
  BY <1>1, <1>2, <1>3, PointersLawful

LEMMA RewritingLawful ==
    ASSUME IInv, Rewriting
    PROVE  Lawful
<1>1. CASE \/ \E r \in Rewrites : RewriteBegin(r)
           \/ \E k \in Keys : ReadPool(k)
           \/ RewriteFails \/ RewriteCommit
  <2>1. UNCHANGED <<group, claim>>
    BY <1>1 DEF RewriteBegin, ReadPool, RewriteFails, RewriteCommit
  <2>2. QED
    BY <2>1, StillLawful
<1>2. CASE RewriteGroups
  BY <1>2, RewriteGroupsLawful
<1>3. CASE MovePool \/ DeletePool
  BY <1>3, PoolsLawful
<1>4. QED
  BY <1>1, <1>2, <1>3 DEF Rewriting

-----------------------------------------------------------------------------
(* The theorems                                                              *)

LEMMA InitHolds ==
    ASSUME Init
    PROVE  IInv
<1>1. Forms
  BY DEF Init, Forms, IsClaim, IsGroup
<1>2. /\ \A q \in Requests : claim[q].lease = {} /\ claim[q].status = "none"
  BY DEF Init
<1>3. QED
  BY <1>1, <1>2 DEF IInv, LeasedIsPending, NoneBeforeGroup, NothingLeftBehind

LEMMA NextLawful ==
    ASSUME IInv, [Next]_vars
    PROVE  Lawful
<1>1. CASE UNCHANGED vars
  BY <1>1, StillLawful DEF vars
<1>2. CASE Next
  BY <1>2, IngestLawful, WorkLawful, ExpiryLawful, RewritingLawful DEF Next
<1>3. QED
  BY <1>1, <1>2

(* Whatever is ingested, looked up, rewritten and finalized in whatever      *)
(* order, a lease is on a pending request and an outcome before finality.    *)
THEOREM Invariant == Spec => []IInv
<1>1. Init => IInv
  BY InitHolds
<1>2. IInv /\ [Next]_vars => IInv'
  BY NextLawful, LawfulKeeps
<1>3. QED
  BY <1>1, <1>2, PTL DEF Spec

(* Finalization (attributionreconcile and the expiry of attributionclaim)     *)
(* deletes the row of no request that has no outcome yet, however leases     *)
(* run out, answers come late and commits are rewritten.                     *)
THEOREM NothingIsLeftBehind == Spec => []NothingLeftBehind
<1>1. IInv => NothingLeftBehind
  BY DEF IInv
<1>2. QED
  BY <1>1, Invariant, PTL

(* Two workers that have leased one request in turn store one outcome: the   *)
(* second finds no lease of its own and nothing changes an outcome later.    *)
THEOREM OutcomesAreFinal == Spec => OutcomeIsFinal
<1> DEFINE Kept == \A q \in Requests : claim[q].status \in {"reconciled", "failed"} =>
                      claim'[q].status = claim[q].status
<1>1. IInv /\ [Next]_vars => [Kept]_vars
  BY NextLawful, LawfulKeeps
<1>2. QED
  BY <1>1, Invariant, PTL DEF Spec, OutcomeIsFinal

-----------------------------------------------------------------------------
(* Keys and rows                                                             *)

Ptrs == Keys \cup {NoPool, GonePool}

LEMMA KeyFacts ==
    /\ \A S \in (SUBSET Commits) \ {{}} : Key(S) \in Keys /\ GapKey(S) \in Keys
    /\ \A S : Key(S).commits = S /\ Key(S).gap = FALSE /\ GapKey(S).commits = S /\ GapKey(S).gap = TRUE
    /\ NoPool \notin Keys /\ GonePool \notin Keys /\ NoPool # GonePool
    /\ NoPool.commits = {} /\ GonePool.commits = {} /\ NoPool.gap = FALSE /\ GonePool.gap = TRUE
    /\ \A k \in Keys : /\ k.gap \in BOOLEAN /\ k.commits \in SUBSET Commits /\ k.commits # {}
                       /\ k.gap = FALSE => k = Key(k.commits)
                       /\ k.gap = TRUE => k = GapKey(k.commits)
<1>1. \A S \in (SUBSET Commits) \ {{}} : Key(S) \in Keys /\ GapKey(S) \in Keys
  BY DEF Key, GapKey, Keys
<1>2. \A S : Key(S).commits = S /\ Key(S).gap = FALSE /\ GapKey(S).commits = S /\ GapKey(S).gap = TRUE
  BY DEF Key, GapKey
<1>3. \A k \in Keys : k.gap \in BOOLEAN /\ k.commits \in SUBSET Commits /\ k.commits # {}
  BY DEF Keys
<1>4. NoPool.commits = {} /\ GonePool.commits = {} /\ NoPool.gap = FALSE /\ GonePool.gap = TRUE
  BY <1>2 DEF NoPool, GonePool
<1>5. \A k \in Keys : /\ k.gap = FALSE => k = Key(k.commits)
                      /\ k.gap = TRUE => k = GapKey(k.commits)
  BY DEF Keys, Key, GapKey
<1>6. NoPool \notin Keys /\ GonePool \notin Keys /\ NoPool # GonePool
  BY <1>3, <1>4
<1>7. QED
  BY <1>1, <1>2, <1>3, <1>4, <1>5, <1>6

LEMMA SetOfCommits ==
    ASSUME NEW a \in Seq(Commits), a # <<>>
    PROVE  ToSet(a) \in (SUBSET Commits) \ {{}}
<1>1. ToSet(a) = {a[i] : i \in 1..Len(a)}
  BY DEF ToSet
<1>2. Len(a) \in Nat /\ Len(a) # 0 /\ \A i \in 1..Len(a) : a[i] \in Commits
  BY EmptySeq, ElementOfSeq, LenProperties
<1>3. 1 \in 1..Len(a)
  BY <1>2
<1>4. QED
  BY <1>1, <1>2, <1>3

LEMMA SnapshotFacts ==
    ASSUME NEW g \in Groups, NEW a \in Snapshots(g)
    PROVE  a \in Seq(Commits) /\ a # <<>>
<1>1. Plan[g] \in Seq(Commits)
  BY AttributionLedgerAssumption
<1>2. PICK n \in 1..Len(Plan[g]) : a = SubSeq(Plan[g], 1, n)
  BY DEF Snapshots
<1>3. a \in Seq(Commits) /\ Len(a) = n
  BY <1>1, <1>2, SubSeqProperties
<1>4. QED
  BY <1>2, <1>3

LEMMA ClaimRows ==
    ASSUME NEW c \in Claim, NEW k \in Ptrs
    PROVE  /\ [c EXCEPT !.ptr = k] \in Claim
           /\ [c EXCEPT !.ptr = k].ptr = k
           /\ [c EXCEPT !.ptr = k].status = c.status
           /\ [c EXCEPT !.ptr = k].lease = c.lease
           /\ [c EXCEPT !.ptr = k].live = c.live
           /\ c.ptr \in Ptrs
BY DEF Claim, Ptrs

(* A pointer once the pools are these.                                       *)
Drop(k, pools) == IF k.commits # {} /\ pools[k].count = 0 THEN GonePool ELSE k

(* A table of claims with these outcomes and pointers.                       *)
LEMMA UnpointedRows ==
    ASSUME NEW claims \in [Requests -> Claim], NEW pools
    PROVE  /\ Unpointed(claims, pools) \in [Requests -> Claim]
           /\ \A q \in Requests :
                 /\ Unpointed(claims, pools)[q].status = claims[q].status
                 /\ Unpointed(claims, pools)[q].ptr = Drop(claims[q].ptr, pools)
<1> DEFINE after == Unpointed(claims, pools)
<1>0. after = [q \in Requests |-> after[q]]
  BY DEF Unpointed
<1>1. ASSUME NEW q \in Requests
      PROVE  after[q] \in Claim /\ after[q].status = claims[q].status
             /\ after[q].ptr = Drop(claims[q].ptr, pools)
  <2>1. PICK c \in Claim : c = claims[q]
    OBVIOUS
  <2>2. after[q] = IF c.ptr.commits # {} /\ pools[c.ptr].count = 0
                   THEN [c EXCEPT !.ptr = GonePool] ELSE c
    BY <2>1 DEF Unpointed
  <2>3. GonePool \in Ptrs
    BY DEF Ptrs
  <2> HIDE DEF after
  <2>4. QED
    BY <2>1, <2>2, <2>3, ClaimRows DEF Drop
<1> HIDE DEF after
<1>2. after \in [Requests -> Claim]
  BY <1>0, <1>1
<1>3. QED
  BY <1>1, <1>2 DEF after

(* Some claims point elsewhere.                                              *)
Repoint(claims, S, to) ==
    [q \in Requests |-> IF q \in S THEN [claims[q] EXCEPT !.ptr = to[q]] ELSE claims[q]]

LEMMA RepointedRows ==
    ASSUME NEW claims \in [Requests -> Claim], NEW S, NEW to, \A q \in S : to[q] \in Ptrs, NEW after,
           after = Repoint(claims, S, to)
    PROVE  /\ after \in [Requests -> Claim]
           /\ \A q \in Requests :
                 /\ after[q].status = claims[q].status
                 /\ after[q].ptr = IF q \in S THEN to[q] ELSE claims[q].ptr
<1>1. ASSUME NEW q \in Requests
      PROVE  /\ after[q] \in Claim
             /\ after[q].status = claims[q].status
             /\ after[q].ptr = IF q \in S THEN to[q] ELSE claims[q].ptr
  <2>1. PICK c \in Claim : c = claims[q]
    OBVIOUS
  <2>2. after[q] = IF q \in S THEN [c EXCEPT !.ptr = to[q]] ELSE c
    BY <2>1 DEF Repoint
  <2>3. CASE q \in S
    <3>1. PICK k \in Ptrs : k = to[q]
      BY <2>3
    <3>2. after[q] = [c EXCEPT !.ptr = k]
      BY <2>2, <2>3, <3>1
    <3>3. after[q] \in Claim /\ after[q].status = c.status /\ after[q].ptr = k
      <4>1. /\ [c EXCEPT !.ptr = k] \in Claim
            /\ [c EXCEPT !.ptr = k].ptr = k
            /\ [c EXCEPT !.ptr = k].status = c.status
        BY ClaimRows, Zenon
      <4>2. QED
        BY <3>2, <4>1, Zenon
    <3>4. QED
      BY <2>1, <2>3, <3>1, <3>3
  <2>4. CASE q \notin S
    <3>1. after[q] = c
      BY <2>2, <2>4
    <3>2. QED
      BY <2>1, <2>4, <3>1
  <2>5. QED
    BY <2>3, <2>4
<1>2. after \in [Requests -> Claim]
  BY <1>1 DEF Repoint
<1>3. QED
  BY <1>1, <1>2

-----------------------------------------------------------------------------
(* What the actions do to groups                                             *)

LEMMA SentRows ==
    ASSUME NEW r \in Group, NEW a \in Seq(Commits)
    PROVE  /\ Appears(r, a) \in Group /\ Appears(r, a).state = "hot"
           /\ Appears(r, a).alloc = a /\ Appears(r, a).usage = r.usage
           /\ Grown(r, a) \in Group /\ Grown(r, a).state = r.state
           /\ Grown(r, a).alloc = a /\ Grown(r, a).usage = r.usage
<1>1. /\ Appears(r, a) \in Group /\ Appears(r, a).state = "hot"
      /\ Appears(r, a).alloc = a /\ Appears(r, a).usage = r.usage
  BY DEF Group, Appears
<1>2. /\ Grown(r, a) \in Group /\ Grown(r, a).state = r.state
      /\ Grown(r, a).alloc = a /\ Grown(r, a).usage = r.usage
  BY DEF Group, Grown
<1>3. QED
  BY <1>1, <1>2

LEMMA TypedRows ==
    ASSUME NEW r \in Group, NEW a \in Seq(Commits), NEW u \in Usages \cup {0},
           NEW e \in {"young", "due", "expired"}
    PROVE  /\ Appears(r, a) \in Group /\ Appears(r, a).state = "hot"
           /\ Appears(r, a).alloc = a /\ Appears(r, a).usage = r.usage
           /\ AppearsCounted(r, a, u) \in Group /\ AppearsCounted(r, a, u).state = "hot"
           /\ AppearsCounted(r, a, u).alloc = a /\ AppearsCounted(r, a, u).usage = u
           /\ Grown(r, a) \in Group /\ Grown(r, a).state = r.state
           /\ Grown(r, a).alloc = a /\ Grown(r, a).usage = r.usage
           /\ GrownCounted(r, a, u) \in Group /\ GrownCounted(r, a, u).state = r.state
           /\ GrownCounted(r, a, u).alloc = a /\ GrownCounted(r, a, u).usage = u
           /\ Finalized(r) \in Group /\ Finalized(r).state = "final"
           /\ Finalized(r).alloc = r.alloc /\ Finalized(r).usage = r.usage
           /\ Aged(r, e) \in Group /\ Aged(r, e).state = r.state
           /\ Aged(r, e).alloc = r.alloc /\ Aged(r, e).usage = r.usage
<1>1. /\ Appears(r, a) \in Group /\ Appears(r, a).state = "hot"
      /\ Appears(r, a).alloc = a /\ Appears(r, a).usage = r.usage
  BY SentRows
<1>2. /\ AppearsCounted(r, a, u) \in Group /\ AppearsCounted(r, a, u).state = "hot"
      /\ AppearsCounted(r, a, u).alloc = a /\ AppearsCounted(r, a, u).usage = u
  BY DEF Group, AppearsCounted
<1>3. /\ Grown(r, a) \in Group /\ Grown(r, a).state = r.state
      /\ Grown(r, a).alloc = a /\ Grown(r, a).usage = r.usage
  BY SentRows
<1>4. /\ GrownCounted(r, a, u) \in Group /\ GrownCounted(r, a, u).state = r.state
      /\ GrownCounted(r, a, u).alloc = a /\ GrownCounted(r, a, u).usage = u
  BY DEF Group, GrownCounted
<1>5. /\ Finalized(r) \in Group /\ Finalized(r).state = "final"
      /\ Finalized(r).alloc = r.alloc /\ Finalized(r).usage = r.usage
  BY DEF Group, Finalized
<1>6. /\ Aged(r, e) \in Group /\ Aged(r, e).state = r.state
      /\ Aged(r, e).alloc = r.alloc /\ Aged(r, e).usage = r.usage
  BY DEF Group, Aged
<1>7. QED
  BY <1>1, <1>2, <1>3, <1>4, <1>5, <1>6

(* A group takes a state, commits and a usage.                               *)
GroupGoes(g, s, a, u) ==
    /\ group' \in [Groups -> Group]
    /\ group'[g].state = s /\ group'[g].alloc = a /\ group'[g].usage = u
    /\ \A h \in Groups : h # g => group'[h] = group[h]

LEMMA RowGoes ==
    ASSUME group \in [Groups -> Group], NEW g \in Groups, NEW row \in Group,
           group' = [group EXCEPT ![g] = row]
    PROVE  GroupGoes(g, row.state, row.alloc, row.usage)
BY DEF GroupGoes

LEMMA RelayGroupGoes ==
    ASSUME TypeOK, NEW g \in Groups, NEW a \in Snapshots(g), NEW qs,
           IngestRelayNew(g, a, qs) \/ IngestRelayMore(g, a, qs)
    PROVE  GroupGoes(g, "hot", a, group[g].usage)
<1>1. group \in [Groups -> Group] /\ group[g] \in Group /\ a \in Seq(Commits)
  BY SnapshotFacts DEF TypeOK
<1>1a. /\ Appears(group[g], a) \in Group /\ Appears(group[g], a).state = "hot"
       /\ Appears(group[g], a).alloc = a /\ Appears(group[g], a).usage = group[g].usage
       /\ Grown(group[g], a) \in Group /\ Grown(group[g], a).state = group[g].state
       /\ Grown(group[g], a).alloc = a /\ Grown(group[g], a).usage = group[g].usage
  BY <1>1, SentRows
<1>2. CASE IngestRelayNew(g, a, qs)
  <2> DEFINE row == Appears(group[g], a)
  <2>1. group' = [group EXCEPT ![g] = row]
    BY <1>1, <1>2 DEF IngestRelayNew, Appears
  <2>2. row \in Group /\ row.state = "hot" /\ row.alloc = a /\ row.usage = group[g].usage
    BY <1>1a
  <2> HIDE DEF row
  <2>3. QED
    BY <1>1, <2>1, <2>2, RowGoes
<1>3. CASE IngestRelayMore(g, a, qs)
  <2> DEFINE row == Grown(group[g], a)
  <2>1. group' = [group EXCEPT ![g] = row] /\ group[g].state = "hot"
    BY <1>1, <1>3 DEF IngestRelayMore, Grown, Hot
  <2>2. row \in Group /\ row.state = "hot" /\ row.alloc = a /\ row.usage = group[g].usage
    BY <1>1a, <2>1
  <2> HIDE DEF row
  <2>3. QED
    BY <1>1, <2>1, <2>2, RowGoes
<1>4. QED
  BY <1>2, <1>3

LEMMA LocalGroupGoes ==
    ASSUME TypeOK, NEW g \in Groups, NEW a \in Snapshots(g), NEW u \in Usages,
           IngestLocalNew(g, a, u) \/ IngestLocalMore(g, a, u)
    PROVE  GroupGoes(g, "hot", a, u)
<1>1. group \in [Groups -> Group] /\ group[g] \in Group /\ a \in Seq(Commits)
  BY SnapshotFacts DEF TypeOK
<1>1a. u \in Usages \cup {0} /\ "due" \in {"young", "due", "expired"}
  OBVIOUS
<1>2. CASE IngestLocalNew(g, a, u)
  <2> DEFINE row == AppearsCounted(group[g], a, u)
  <2>1. group' = [group EXCEPT ![g] = row]
    BY <1>1, <1>2 DEF IngestLocalNew, AppearsCounted
  <2>2. row \in Group /\ row.state = "hot" /\ row.alloc = a /\ row.usage = u
    BY <1>1, <1>1a, TypedRows
  <2> HIDE DEF row
  <2>3. QED
    BY <1>1, <2>1, <2>2, RowGoes
<1>3. CASE IngestLocalMore(g, a, u)
  <2> DEFINE row == GrownCounted(group[g], a, u)
  <2>1. group' = [group EXCEPT ![g] = row] /\ group[g].state = "hot"
    BY <1>1, <1>3 DEF IngestLocalMore, GrownCounted, Hot
  <2>2. row \in Group /\ row.state = "hot" /\ row.alloc = a /\ row.usage = u
    <3>1. row \in Group /\ row.state = group[g].state /\ row.alloc = a /\ row.usage = u
      BY <1>1, <1>1a DEF Group, GrownCounted
    <3>2. QED
      BY <2>1, <3>1
  <2> HIDE DEF row
  <2>3. QED
    BY <1>1, <2>1, <2>2, RowGoes
<1>4. QED
  BY <1>2, <1>3

LEMMA ExpiryGroupGoes ==
    ASSUME TypeOK, NEW g \in Groups
    PROVE  /\ FinalizeGroup(g) => GroupGoes(g, "final", group[g].alloc, group[g].usage)
           /\ GrowsOld(g) => GroupGoes(g, "hot", group[g].alloc, group[g].usage)
<1>1. group \in [Groups -> Group] /\ group[g] \in Group
      /\ group[g].alloc \in Seq(Commits) /\ group[g].usage \in Usages \cup {0}
  BY DEF TypeOK, Group
<1>2. ASSUME FinalizeGroup(g) PROVE GroupGoes(g, "final", group[g].alloc, group[g].usage)
  <2> DEFINE row == Finalized(group[g])
  <2>1. group' = [group EXCEPT ![g] = row]
    BY <1>1, <1>2 DEF FinalizeGroup, Finalized
  <2>2. /\ row \in Group /\ row.state = "final"
        /\ row.alloc = group[g].alloc /\ row.usage = group[g].usage
    BY <1>1, TypedRows
  <2> HIDE DEF row
  <2>3. QED
    BY <1>1, <2>1, <2>2, RowGoes
<1>3. ASSUME GrowsOld(g) PROVE GroupGoes(g, "hot", group[g].alloc, group[g].usage)
  <2> DEFINE older == IF group[g].age = "young" THEN "due" ELSE "expired"
             row == Aged(group[g], older)
  <2>0. older \in {"young", "due", "expired"}
    OBVIOUS
  <2>1. group' = [group EXCEPT ![g] = row] /\ group[g].state = "hot"
    BY <1>1, <1>3 DEF GrowsOld, Aged, Hot
  <2> HIDE DEF older
  <2>2. /\ row \in Group /\ row.state = "hot"
        /\ row.alloc = group[g].alloc /\ row.usage = group[g].usage
    <3>1. /\ row \in Group /\ row.state = group[g].state
          /\ row.alloc = group[g].alloc /\ row.usage = group[g].usage
      BY <1>1, <2>0 DEF Group, Aged
    <3>2. QED
      BY <2>1, <3>1
  <2> HIDE DEF row
  <2>3. QED
    BY <1>1, <2>1, <2>2, RowGoes
<1>4. QED
  BY <1>2, <1>3

(* Expired groups are dropped.                                               *)
LEMMA CleanupGoes ==
    ASSUME TypeOK, Cleanup
    PROVE  /\ group' \in [Groups -> Group]
           /\ \A g \in Groups : /\ group'[g].alloc = group[g].alloc
                                /\ group'[g].usage = group[g].usage
                                /\ group'[g].state # group[g].state =>
                                      /\ group[g].state = "hot" /\ group'[g].state = "dropped"
                                      /\ group[g].age = "expired"
<1> DEFINE due == {g \in Groups : Hot(g) /\ group[g].age = "expired"}
<1>1. group' = [g \in Groups |-> IF g \in due THEN [group[g] EXCEPT !.state = "dropped"]
                                              ELSE group[g]]
  BY DEF Cleanup
<1>2. \A g \in due : group[g].state = "hot" /\ group[g].age = "expired"
  BY DEF Hot
<1> HIDE DEF due
<1>3. ASSUME NEW g \in Groups
      PROVE  /\ group'[g] \in Group
             /\ group'[g].alloc = group[g].alloc /\ group'[g].usage = group[g].usage
             /\ group'[g].state = IF g \in due THEN "dropped" ELSE group[g].state
  <2>1. PICK r \in Group : r = group[g]
    BY DEF TypeOK
  <2>2. group'[g] = IF g \in due THEN [r EXCEPT !.state = "dropped"] ELSE r
    BY <1>1, <2>1
  <2>3. /\ [r EXCEPT !.state = "dropped"] \in Group /\ [r EXCEPT !.state = "dropped"].state = "dropped"
        /\ [r EXCEPT !.state = "dropped"].alloc = r.alloc /\ [r EXCEPT !.state = "dropped"].usage = r.usage
    BY <2>1 DEF Group
  <2>4. QED
    BY <2>1, <2>2, <2>3
<1>4. group' \in [Groups -> Group]
  BY <1>1, <1>3
<1>5. QED
  BY <1>2, <1>3, <1>4

(* The commits of a group while one of them is replaced.                     *)
Replaced(g) ==
    [i \in DOMAIN group[g].alloc |-> IF group[g].alloc[i] = rw.old THEN rw.new ELSE group[g].alloc[i]]

LEMMA ReplacedFacts ==
    ASSUME TypeOK, NEW g \in Groups
    PROVE  /\ Replaced(g) \in Seq(Commits)
           /\ ToSet(Replaced(g)) = Renamed(CommitsOf(g), rw.old, rw.new)
           /\ group[g].alloc # <<>> => Replaced(g) # <<>>
<1>1. PICK a \in Seq(Commits) : a = group[g].alloc
  BY DEF TypeOK, Group
<1>2. rw.old \in Commits /\ rw.new \in Commits
  BY DEF TypeOK, Rewrite
<1>3. DOMAIN a = 1..Len(a) /\ Len(a) \in Nat /\ \A i \in 1..Len(a) : a[i] \in Commits
  BY <1>1, ElementOfSeq, LenProperties
<1>4. Replaced(g) = [i \in 1..Len(a) |-> IF a[i] = rw.old THEN rw.new ELSE a[i]]
  BY <1>1, <1>3 DEF Replaced
<1>5. PICK b : b = Replaced(g)
  OBVIOUS
<1>6. b \in [1..Len(a) -> Commits]
  BY <1>2, <1>3, <1>4, <1>5
<1>7. b \in Seq(Commits) /\ Len(b) = Len(a)
  BY <1>3, <1>6, SeqDef
<1>8. ToSet(b) = {b[i] : i \in 1..Len(a)}
  BY <1>6 DEF ToSet
<1>9. CommitsOf(g) = {a[i] : i \in 1..Len(a)}
  BY <1>1, <1>3 DEF CommitsOf, ToSet
<1>10. \A i \in 1..Len(a) : b[i] = IF a[i] = rw.old THEN rw.new ELSE a[i]
  BY <1>4, <1>5
<1>11. ToSet(b) = Renamed(CommitsOf(g), rw.old, rw.new)
  BY <1>8, <1>9, <1>10 DEF Renamed
<1>12. a # <<>> => b # <<>>
  BY <1>1, <1>7, EmptySeq, LenProperties
<1>13. QED
  BY <1>1, <1>5, <1>7, <1>11, <1>12

LEMMA RewriteGroupsGoes ==
    ASSUME TypeOK, RewriteGroups
    PROVE  /\ group' \in [Groups -> Group]
           /\ \A g \in Groups : /\ group'[g].state = group[g].state
                                /\ group'[g].usage = group[g].usage
                                /\ group'[g].alloc = IF g \in rw.targets THEN Replaced(g)
                                                                        ELSE group[g].alloc
<1>1. group' = [g \in Groups |-> IF g \in rw.targets THEN [group[g] EXCEPT !.alloc = Replaced(g)]
                                                    ELSE group[g]]
  BY DEF RewriteGroups, Replaced
<1>2. ASSUME NEW g \in Groups
      PROVE  /\ group'[g] \in Group
             /\ group'[g].state = group[g].state /\ group'[g].usage = group[g].usage
             /\ group'[g].alloc = IF g \in rw.targets THEN Replaced(g) ELSE group[g].alloc
  <2>1. PICK r \in Group : r = group[g]
    BY DEF TypeOK
  <2>2. PICK a \in Seq(Commits) : a = Replaced(g)
    BY ReplacedFacts
  <2>3. group'[g] = IF g \in rw.targets THEN [r EXCEPT !.alloc = a] ELSE r
    BY <1>1, <2>1, <2>2
  <2>4. /\ [r EXCEPT !.alloc = a] \in Group /\ [r EXCEPT !.alloc = a].alloc = a
        /\ [r EXCEPT !.alloc = a].state = r.state /\ [r EXCEPT !.alloc = a].usage = r.usage
    BY <2>1, <2>2 DEF Group
  <2>5. QED
    BY <2>1, <2>2, <2>3, <2>4
<1>3. group' \in [Groups -> Group]
  BY <1>1, <1>2
<1>4. QED
  BY <1>2, <1>3

-----------------------------------------------------------------------------
(* What the actions do to claims                                             *)

Statuses == {"none", "pending", "reconciled", "failed"}

(* A claim takes an outcome and a pointer.                                   *)
ClaimGoes(q, s, k) ==
    /\ claim' \in [Requests -> Claim]
    /\ claim'[q].status = s /\ claim'[q].ptr = k
    /\ \A r \in Requests : r # q => claim'[r] = claim[r]

LEMMA OneClaimGoes ==
    ASSUME claim \in [Requests -> Claim], NEW q \in Requests, NEW row \in Claim,
           claim' = [claim EXCEPT ![q] = row]
    PROVE  ClaimGoes(q, row.status, row.ptr)
BY DEF ClaimGoes

LEMMA LeaseGoes ==
    ASSUME TypeOK, NEW w \in Workers, NEW q \in Requests, Lease(w, q)
    PROVE  ClaimGoes(q, claim[q].status, claim[q].ptr)
<1>1. claim \in [Requests -> Claim]
  BY DEF TypeOK
<1>2. PICK c \in Claim : c = claim[q]
  BY <1>1
<1>3. PICK row : row = [c EXCEPT !.lease = {w}, !.live = TRUE]
  OBVIOUS
<1>4. row \in Claim /\ row.status = c.status /\ row.ptr = c.ptr
  BY <1>3 DEF Claim
<1>5. claim' = [claim EXCEPT ![q] = row]
  BY <1>1, <1>2, <1>3 DEF Lease
<1>6. QED
  BY <1>1, <1>2, <1>4, <1>5, OneClaimGoes

LEMMA LeaseExpiresGoes ==
    ASSUME TypeOK, NEW q \in Requests, LeaseExpires(q)
    PROVE  ClaimGoes(q, claim[q].status, claim[q].ptr)
<1>1. claim \in [Requests -> Claim]
  BY DEF TypeOK
<1>2. PICK c \in Claim : c = claim[q]
  BY <1>1
<1>3. PICK row : row = [c EXCEPT !.live = FALSE]
  OBVIOUS
<1>4. row \in Claim /\ row.status = c.status /\ row.ptr = c.ptr
  BY <1>3 DEF Claim
<1>5. claim' = [claim EXCEPT ![q] = row]
  BY <1>1, <1>2, <1>3 DEF LeaseExpires
<1>6. QED
  BY <1>1, <1>2, <1>4, <1>5, OneClaimGoes

LEMMA SettledFacts ==
    ASSUME TypeOK, NEW q \in Requests, NEW s \in Statuses
    PROVE  Settled(q, s) \in Claim /\ Settled(q, s).status = s /\ Settled(q, s).ptr = claim[q].ptr
<1>1. PICK c \in Claim : c = claim[q]
  BY DEF TypeOK
<1>2. PICK d : d = [c EXCEPT !.status = s, !.lease = {}, !.live = FALSE]
  OBVIOUS
<1>3. d \in Claim /\ d.status = s /\ d.ptr = c.ptr
  BY <1>2 DEF Claim, Statuses
<1>4. Settled(q, s) = d
  BY <1>1, <1>2 DEF Settled
<1>5. QED
  BY <1>1, <1>3, <1>4

LEMMA SettleGoes ==
    ASSUME TypeOK, NEW w \in Workers, NEW q \in Requests, Retry(w, q) \/ Finish(w, q)
    PROVE  \E s \in {"pending", "failed"} : ClaimGoes(q, s, claim[q].ptr)
<1>1. claim \in [Requests -> Claim]
  BY DEF TypeOK
<1>2. PICK s \in {"pending", "failed"} : claim' = [claim EXCEPT ![q] = Settled(q, s)]
  BY DEF Retry, Finish
<1>3. PICK row : row = Settled(q, s)
  OBVIOUS
<1>4. row \in Claim /\ row.status = s /\ row.ptr = claim[q].ptr
  BY <1>3, SettledFacts DEF Statuses
<1>5. claim' = [claim EXCEPT ![q] = row]
  BY <1>2, <1>3
<1>6. ClaimGoes(q, s, claim[q].ptr)
  BY <1>1, <1>4, <1>5, OneClaimGoes
<1>7. QED
  BY <1>6

LEMMA ReconcileGoes ==
    ASSUME TypeOK, NEW w \in Workers, NEW q \in Requests, Reconcile(w, q),
           KeyOf(GroupOf[q]) \in Ptrs
    PROVE  ClaimGoes(q, "reconciled", KeyOf(GroupOf[q]))
<1>1. claim \in [Requests -> Claim]
  BY DEF TypeOK
<1>2. PICK c \in Claim : c = Settled(q, "reconciled") /\ c.status = "reconciled"
  BY SettledFacts DEF Statuses
<1>3. PICK row : row = [c EXCEPT !.ptr = KeyOf(GroupOf[q])]
  OBVIOUS
<1>4. row \in Claim /\ row.status = "reconciled" /\ row.ptr = KeyOf(GroupOf[q])
  <2>1. PICK k \in Ptrs : k = KeyOf(GroupOf[q])
    OBVIOUS
  <2>2. row = [c EXCEPT !.ptr = k]
    BY <1>3, <2>1
  <2>3. row \in Claim /\ row.status = c.status /\ row.ptr = k
    BY <2>2 DEF Claim, Ptrs
  <2>4. QED
    BY <1>2, <2>1, <2>3
<1>5. claim' = [claim EXCEPT ![q] = row]
  BY <1>2, <1>3 DEF Reconcile, KeyOf
<1>6. QED
  BY <1>1, <1>4, <1>5, OneClaimGoes

(* The claims have these outcomes and pointers.                              *)
ClaimsGo(status, ptr) ==
    /\ claim' \in [Requests -> Claim]
    /\ \A q \in Requests : claim'[q].status = status[q] /\ claim'[q].ptr = ptr[q]

Status == [q \in Requests |-> claim[q].status]

Ptr == [q \in Requests |-> claim[q].ptr]

(* New requests are pending.                                                 *)
WithNew(qs) == [q \in Requests |-> IF q \in qs /\ claim[q].status = "none"
                                   THEN "pending" ELSE claim[q].status]

(* Reconciled requests of a group point to a pool.                           *)
PtrTo(qs, key) == [q \in Requests |-> IF q \in qs THEN key ELSE claim[q].ptr]

Dropped(ptr, pools) == [q \in Requests |-> Drop(ptr[q], pools)]

LEMMA AddedRows ==
    ASSUME TypeOK, NEW qs
    PROVE  /\ Added(qs) \in [Requests -> Claim]
           /\ \A q \in Requests :
                 /\ Added(qs)[q].status = IF q \in qs THEN "pending" ELSE claim[q].status
                 /\ Added(qs)[q].ptr = claim[q].ptr
<1> DEFINE after == Added(qs)
<1>0. after = [q \in Requests |-> after[q]]
  BY DEF Added
<1>1. ASSUME NEW q \in Requests
      PROVE  /\ after[q] \in Claim
             /\ after[q].status = IF q \in qs THEN "pending" ELSE claim[q].status
             /\ after[q].ptr = claim[q].ptr
  <2>1. PICK c \in Claim : c = claim[q]
    BY DEF TypeOK
  <2>2. after[q] = IF q \in qs THEN [c EXCEPT !.status = "pending"] ELSE c
    BY <2>1 DEF Added
  <2>3. PICK d : d = [c EXCEPT !.status = "pending"]
    OBVIOUS
  <2>4. d \in Claim /\ d.status = "pending" /\ d.ptr = c.ptr
    BY <2>3 DEF Claim
  <2> HIDE DEF after
  <2>5. QED
    BY <2>1, <2>2, <2>3, <2>4
<1> HIDE DEF after
<1>2. after \in [Requests -> Claim]
  BY <1>0, <1>1
<1>3. QED
  BY <1>1, <1>2 DEF after

LEMMA RelayNewClaims ==
    ASSUME TypeOK, NoneBeforeGroup, NEW g \in RelayGroups, NEW a, NEW qs \in SUBSET Members(g),
           IngestRelayNew(g, a, qs)
    PROVE  ClaimsGo(WithNew(qs), Ptr)
<1>1. claim' = Added(qs)
  BY DEF IngestRelayNew
<1>2. \A q \in qs : claim[q].status = "none"
  BY DEF IngestRelayNew, Members, NoneBeforeGroup
<1>3. /\ claim' \in [Requests -> Claim]
      /\ \A q \in Requests :
            /\ claim'[q].status = IF q \in qs THEN "pending" ELSE claim[q].status
            /\ claim'[q].ptr = claim[q].ptr
  BY <1>1, AddedRows
<1>4. QED
  BY <1>2, <1>3 DEF ClaimsGo, WithNew, Ptr

LEMMA PointedRows ==
    ASSUME TypeOK, NEW qs, NEW key \in Ptrs
    PROVE  /\ Pointed(qs, key) \in [Requests -> Claim]
           /\ \A q \in Requests : /\ Pointed(qs, key)[q].status = Status[q]
                                  /\ Pointed(qs, key)[q].ptr = PtrTo(qs, key)[q]
<1> DEFINE to == [q \in qs |-> key]
           after == Pointed(qs, key)
<1>0. claim \in [Requests -> Claim] /\ \A q \in qs : to[q] \in Ptrs /\ to[q] = key
  BY DEF TypeOK
<1>1. after = Repoint(claim, qs, to)
  BY DEF Pointed, Repoint
<1> HIDE DEF to, after
<1>2. /\ after \in [Requests -> Claim]
      /\ \A q \in Requests : /\ after[q].status = claim[q].status
                             /\ after[q].ptr = IF q \in qs THEN to[q] ELSE claim[q].ptr
  BY <1>0, <1>1, RepointedRows
<1>3. QED
  BY <1>0, <1>2 DEF after, Status, PtrTo

(* The requests of a group that a change of its commits repoints.            *)
Repoints(g, a) == IF a # group[g].alloc THEN WithStatus(g, "reconciled") ELSE {}

LEMMA RelayMoreClaims ==
    ASSUME TypeOK, NEW g \in RelayGroups, NEW a \in Snapshots(g), NEW qs \in SUBSET Members(g),
           IngestRelayMore(g, a, qs)
    PROVE  ClaimsGo(WithNew(qs), Dropped(PtrTo(Repoints(g, a), Key(ToSet(a))), pool'))
<1> DEFINE new == {q \in qs : claim[q].status = "none"}
           done == WithStatus(g, "reconciled")
           key == Key(ToSet(a))
           pointed == IF a # group[g].alloc THEN Pointed(done, key) ELSE claim
           mixed == [q \in Requests |-> IF q \in new THEN Added(new)[q] ELSE pointed[q]]
<1>1. claim' = Unpointed(mixed, pool')
  BY DEF IngestRelayMore
<1>2. key \in Ptrs
  BY SnapshotFacts, SetOfCommits, KeyFacts DEF Ptrs, Groups
<1>3. /\ pointed \in [Requests -> Claim]
      /\ \A q \in Requests : /\ pointed[q].status = Status[q]
                             /\ pointed[q].ptr = PtrTo(Repoints(g, a), key)[q]
  <2>1. CASE a # group[g].alloc
    <3>1. pointed = Pointed(done, key) /\ Repoints(g, a) = done
      BY <2>1 DEF Repoints
    <3> HIDE DEF pointed, done, key
    <3>2. QED
      BY <1>2, <3>1, PointedRows
  <2>2. CASE a = group[g].alloc
    <3>1. pointed = claim /\ Repoints(g, a) = {}
      BY <2>2 DEF Repoints
    <3> HIDE DEF pointed, done, key
    <3>2. QED
      BY <3>1 DEF PtrTo, Status, TypeOK
  <2>3. QED
    BY <2>1, <2>2
<1>4. /\ Added(new) \in [Requests -> Claim]
      /\ \A q \in Requests :
            /\ Added(new)[q].status = IF q \in new THEN "pending" ELSE claim[q].status
            /\ Added(new)[q].ptr = claim[q].ptr
  <2> HIDE DEF new
  <2>1. QED
    BY AddedRows
<1>5. \A q \in Requests : q \in new => q \notin Repoints(g, a)
  BY DEF Repoints, WithStatus
<1>6. \A q \in Requests : q \in new <=> q \in qs /\ claim[q].status = "none"
  OBVIOUS
<1> HIDE DEF new, pointed, key
<1>7. mixed \in [Requests -> Claim]
  BY <1>3, <1>4
<1>8. \A q \in Requests : /\ mixed[q].status = WithNew(qs)[q]
                          /\ mixed[q].ptr = PtrTo(Repoints(g, a), key)[q]
  <2> TAKE q \in Requests
  <2>1. CASE q \in new
    <3>1. mixed[q] = Added(new)[q]
      BY <2>1
    <3>2. QED
      BY <1>4, <1>5, <1>6, <2>1, <3>1 DEF WithNew, PtrTo
  <2>2. CASE q \notin new
    <3>1. mixed[q] = pointed[q]
      BY <2>2
    <3>2. QED
      BY <1>3, <1>6, <2>2, <3>1 DEF WithNew, Status
  <2>3. QED
    BY <2>1, <2>2
<1> HIDE DEF mixed
<1>9. /\ claim' \in [Requests -> Claim]
      /\ \A q \in Requests : /\ claim'[q].status = mixed[q].status
                             /\ claim'[q].ptr = Drop(mixed[q].ptr, pool')
  BY <1>1, <1>7, UnpointedRows
<1>10. \A q \in Requests : claim'[q].status = WithNew(qs)[q]
                           /\ claim'[q].ptr = Dropped(PtrTo(Repoints(g, a), key), pool')[q]
  <2> TAKE q \in Requests
  <2>1. Dropped(PtrTo(Repoints(g, a), key), pool')[q] = Drop(PtrTo(Repoints(g, a), key)[q], pool')
    BY DEF Dropped
  <2>2. QED
    BY <1>8, <1>9, <2>1
<1>11. QED
  BY <1>9, <1>10 DEF ClaimsGo, key

LEMMA LocalMoreClaims ==
    ASSUME TypeOK, NEW g, NEW a, NEW u, IngestLocalMore(g, a, u)
    PROVE  ClaimsGo(Status, Dropped(Ptr, pool'))
<1>1. claim' = Unpointed(claim, pool') /\ claim \in [Requests -> Claim]
  BY DEF IngestLocalMore, TypeOK
<1>2. /\ claim' \in [Requests -> Claim]
      /\ \A q \in Requests : /\ claim'[q].status = claim[q].status
                             /\ claim'[q].ptr = Drop(claim[q].ptr, pool')
  BY <1>1, UnpointedRows
<1>3. QED
  BY <1>2 DEF ClaimsGo, Status, Dropped, Ptr

LEMMA FinalizeClaims ==
    ASSUME TypeOK, NEW g \in Groups, FinalizeGroup(g), KeyOf(g) \in Ptrs
    PROVE  ClaimsGo(Status, Dropped(PtrTo(WithStatus(g, "reconciled"), KeyOf(g)), pool'))
<1> DEFINE done == WithStatus(g, "reconciled")
           pointed == Pointed(done, KeyOf(g))
<1>1. claim' = Unpointed(pointed, pool')
  BY DEF FinalizeGroup, KeyOf
<1> HIDE DEF done
<1>2. /\ pointed \in [Requests -> Claim]
      /\ \A q \in Requests : /\ pointed[q].status = Status[q]
                             /\ pointed[q].ptr = PtrTo(done, KeyOf(g))[q]
  BY PointedRows
<1> HIDE DEF pointed
<1>3. /\ claim' \in [Requests -> Claim]
      /\ \A q \in Requests : /\ claim'[q].status = pointed[q].status
                             /\ claim'[q].ptr = Drop(pointed[q].ptr, pool')
  BY <1>1, <1>2, UnpointedRows
<1>4. \A q \in Requests : claim'[q].ptr = Dropped(PtrTo(done, KeyOf(g)), pool')[q]
  <2> TAKE q \in Requests
  <2>1. Dropped(PtrTo(done, KeyOf(g)), pool')[q] = Drop(PtrTo(done, KeyOf(g))[q], pool')
    BY DEF Dropped
  <2>2. QED
    BY <1>2, <1>3, <2>1
<1>5. QED
  BY <1>2, <1>3, <1>4 DEF ClaimsGo, done

(* The requests a rewrite of groups takes along.                             *)
NewKey(g) == Key(ToSet(Replaced(g)))

ToNew == [q \in Requests |-> NewKey(GroupOf[q])]

Moved == {q \in Requests : /\ GroupOf[q] \in rw.targets
                           /\ claim[q].status = "reconciled"
                           /\ claim[q].ptr # ToNew[q]}

PtrNew == [q \in Requests |-> IF q \in Moved THEN ToNew[q] ELSE claim[q].ptr]

LEMMA RewriteGroupsClaims ==
    ASSUME TypeOK, RewriteGroups, \A q \in Moved : ToNew[q] \in Ptrs
    PROVE  ClaimsGo(Status, Dropped(PtrNew, pool'))
<1> DEFINE claims == [q \in Requests |-> IF q \in Moved
                        THEN [claim[q] EXCEPT !.ptr = ToNew[q]] ELSE claim[q]]
<1>1. claim' = Unpointed(claims, pool')
  <2>1. \A q \in Requests : ToNew[q] = NewKey(GroupOf[q])
    BY DEF ToNew
  <2> DEFINE moved == {q \in Requests : /\ GroupOf[q] \in rw.targets
                                        /\ claim[q].status = "reconciled"
                                        /\ claim[q].ptr # NewKey(GroupOf[q])}
             table == [q \in Requests |-> IF q \in moved
                         THEN [claim[q] EXCEPT !.ptr = NewKey(GroupOf[q])] ELSE claim[q]]
  <2>2. claim' = Unpointed(table, pool')
    BY DEF RewriteGroups, NewKey, Replaced
  <2>3. moved = Moved
    BY <2>1 DEF Moved
  <2> HIDE DEF moved
  <2>4. table = claims
    BY <2>1, <2>3
  <2>5. QED
    BY <2>2, <2>4
<1>2. /\ claims \in [Requests -> Claim]
      /\ \A q \in Requests : /\ claims[q].status = claim[q].status
                             /\ claims[q].ptr = IF q \in Moved THEN ToNew[q] ELSE claim[q].ptr
  <2>1. PICK after : after = claims
    OBVIOUS
  <2>2. after = Repoint(claim, Moved, ToNew)
    BY <2>1 DEF Repoint
  <2>3. claim \in [Requests -> Claim]
    BY DEF TypeOK
  <2> HIDE DEF claims
  <2>4. QED
    BY <2>1, <2>2, <2>3, RepointedRows
<1> HIDE DEF claims
<1>3. /\ claim' \in [Requests -> Claim]
      /\ \A q \in Requests : /\ claim'[q].status = claims[q].status
                             /\ claim'[q].ptr = Drop(claims[q].ptr, pool')
  BY <1>1, <1>2, UnpointedRows
<1>4. \A q \in Requests : claim'[q].status = Status[q] /\ claim'[q].ptr = Dropped(PtrNew, pool')[q]
  <2> TAKE q \in Requests
  <2>1. Dropped(PtrNew, pool')[q] = Drop(PtrNew[q], pool') /\ Status[q] = claim[q].status
        /\ PtrNew[q] = IF q \in Moved THEN ToNew[q] ELSE claim[q].ptr
    BY DEF Dropped, PtrNew, Status
  <2>2. QED
    BY <1>2, <1>3, <2>1
<1>5. QED
  BY <1>3, <1>4 DEF ClaimsGo

(* The pointers of stored requests from one pool to another.                 *)
PtrMoved(k, target) ==
    [q \in Requests |-> IF claim[q].ptr = k /\ Stored(q) THEN target ELSE claim[q].ptr]

LEMMA PointersMovedRows ==
    ASSUME TypeOK, NEW k, NEW target \in Ptrs, claim' = PointersMoved(k, target)
    PROVE  ClaimsGo(Status, PtrMoved(k, target))
<1> DEFINE S == {q \in Requests : claim[q].ptr = k /\ Stored(q)}
           to == [q \in S |-> target]
<1>0. claim \in [Requests -> Claim]
  BY DEF TypeOK
<1>1. PICK after : after = PointersMoved(k, target)
  OBVIOUS
<1>2. after = Repoint(claim, S, to)
  BY <1>1 DEF PointersMoved, Repoint
<1>3. (\A q \in S : to[q] \in Ptrs /\ to[q] = target)
      /\ \A q \in Requests : q \in S <=> claim[q].ptr = k /\ Stored(q)
  OBVIOUS
<1> HIDE DEF S, to
<1>4. /\ after \in [Requests -> Claim]
      /\ \A q \in Requests : /\ after[q].status = claim[q].status
                             /\ after[q].ptr = IF q \in S THEN to[q] ELSE claim[q].ptr
  BY <1>0, <1>2, <1>3, RepointedRows
<1>5. QED
  BY <1>1, <1>3, <1>4 DEF ClaimsGo, Status, PtrMoved

-----------------------------------------------------------------------------
(* What the actions do to pools                                              *)

LEMMA AmountFacts ==
    ASSUME NEW x \in Amounts, NEW y \in Amounts
    PROVE  /\ Plus(x, y) \in Amounts
           /\ Plus(x, y).total = x.total + y.total
           /\ Plus(x, y).count = x.count + y.count
           /\ Plus(x, y).gaps = x.gaps + y.gaps
           /\ y.total <= x.total /\ y.count <= x.count /\ y.gaps <= x.gaps => Minus(x, y) \in Amounts
           /\ Minus(x, y).total = x.total - y.total
           /\ Minus(x, y).count = x.count - y.count
           /\ Minus(x, y).gaps = x.gaps - y.gaps
           /\ Plus(x, Zero) = x /\ Minus(x, Zero) = x
           /\ x.total \in Nat /\ x.count \in Nat /\ x.gaps \in Nat
<1>1. x.total \in Nat /\ x.count \in Nat /\ x.gaps \in Nat /\ y.total \in Nat /\ y.count \in Nat /\ y.gaps \in Nat
  BY DEF Amounts
<1>2. x = [total |-> x.total, count |-> x.count, gaps |-> x.gaps]
  BY DEF Amounts
<1>3. Plus(x, Zero) = x /\ Minus(x, Zero) = x
  BY <1>1, <1>2 DEF Plus, Minus, Zero, Amount
<1>4. /\ Plus(x, y) \in Amounts
      /\ y.total <= x.total /\ y.count <= x.count /\ y.gaps <= x.gaps => Minus(x, y) \in Amounts
  BY <1>1 DEF Plus, Minus, Amount, Amounts
<1>5. /\ Plus(x, y).total = x.total + y.total
      /\ Plus(x, y).count = x.count + y.count
      /\ Plus(x, y).gaps = x.gaps + y.gaps
      /\ Minus(x, y).total = x.total - y.total
      /\ Minus(x, y).count = x.count - y.count
      /\ Minus(x, y).gaps = x.gaps - y.gaps
  BY DEF Plus, Minus, Amount
<1>6. QED
  BY <1>1, <1>3, <1>4, <1>5

LEMMA ZeroFacts ==
    Zero \in Amounts /\ Zero.total = 0 /\ Zero.count = 0 /\ Zero.gaps = 0
BY DEF Zero, Amount, Amounts

(* Requests are taken out of the pools they point to and added elsewhere.    *)
Shift(M, to) ==
    [k \in Keys |-> Plus(Minus(pool[k], Official(From(k, M))), Official(Fiber(M, to, k)))]

MayShift(M) == \A k \in Keys : From(k, M) # {} => CanTake(k, Official(From(k, M)))

LEMMA ShiftParts ==
    ASSUME NEW M \in SUBSET Requests, NEW to, NEW k
    PROVE  /\ From(k, M) \in SUBSET M /\ From(k, M) \in SUBSET Requests
           /\ Fiber(M, to, k) \in SUBSET M /\ Fiber(M, to, k) \in SUBSET Requests
           /\ Official(From(k, M)) \in Amounts /\ Official(From(k, M)).gaps = 0
           /\ Official(Fiber(M, to, k)) \in Amounts /\ Official(Fiber(M, to, k)).gaps = 0
<1>1. /\ From(k, M) \in SUBSET M /\ From(k, M) \in SUBSET Requests
      /\ Fiber(M, to, k) \in SUBSET M /\ Fiber(M, to, k) \in SUBSET Requests
  BY DEF From, Fiber
<1>2. QED
  BY <1>1, OfficialType

LEMMA ShiftFacts ==
    ASSUME TypeOK, NEW M \in SUBSET Requests, NEW to, MayShift(M)
    PROVE  /\ Shift(M, to) \in [Keys -> Amounts]
           /\ \A k \in Keys :
                 /\ Shift(M, to)[k] = Plus(Minus(pool[k], Official(From(k, M))), Official(Fiber(M, to, k)))
                 /\ Minus(pool[k], Official(From(k, M))) \in Amounts
                 /\ Shift(M, to)[k].gaps = pool[k].gaps
                 /\ From(k, M) = {} => pool[k].count <= Shift(M, to)[k].count
                 /\ Fiber(M, to, k) # {} => Shift(M, to)[k].count > 0
                 /\ From(k, M) = {} /\ Fiber(M, to, k) = {} => Shift(M, to)[k] = pool[k]
<1>1. ASSUME NEW k \in Keys
      PROVE  /\ Shift(M, to)[k] = Plus(Minus(pool[k], Official(From(k, M))), Official(Fiber(M, to, k)))
             /\ Shift(M, to)[k] \in Amounts
             /\ Minus(pool[k], Official(From(k, M))) \in Amounts
             /\ Shift(M, to)[k].gaps = pool[k].gaps
             /\ From(k, M) = {} => pool[k].count <= Shift(M, to)[k].count
             /\ Fiber(M, to, k) # {} => Shift(M, to)[k].count > 0
             /\ From(k, M) = {} /\ Fiber(M, to, k) = {} => Shift(M, to)[k] = pool[k]
  <2>1. PICK p \in Amounts : p = pool[k]
    BY DEF TypeOK
  <2>2. PICK x \in Amounts : x = Official(From(k, M)) /\ x.gaps = 0
    BY ShiftParts
  <2>3. PICK y \in Amounts : y = Official(Fiber(M, to, k)) /\ y.gaps = 0
    BY ShiftParts
  <2>4. Shift(M, to)[k] = Plus(Minus(p, x), y)
    BY <2>1, <2>2, <2>3 DEF Shift
  <2>5. From(k, M) = {} => x = Zero
    BY <2>2, NoOfficial
  <2>6. Fiber(M, to, k) = {} => y = Zero
    BY <2>3, NoOfficial
  <2>7. From(k, M) # {} => x.total <= p.total /\ x.count <= p.count
    BY <2>1, <2>2 DEF MayShift, CanTake
  <2>8. /\ p.total \in Nat /\ p.count \in Nat /\ p.gaps \in Nat
        /\ x.total \in Nat /\ x.count \in Nat /\ y.count \in Nat
    BY AmountFacts
  <2>9. x.total <= p.total /\ x.count <= p.count /\ x.gaps <= p.gaps
    BY <2>2, <2>5, <2>7, <2>8, ZeroFacts
  <2>10. PICK m \in Amounts : m = Minus(p, x) /\ m.count = p.count - x.count /\ m.gaps = p.gaps - x.gaps
    BY <2>9, AmountFacts
  <2>11. PICK r \in Amounts : r = Plus(m, y) /\ r.count = m.count + y.count /\ r.gaps = m.gaps + y.gaps
    BY AmountFacts
  <2>12. Fiber(M, to, k) # {} => y.count > 0
    <3>1. y.count = Cardinality(Fiber(M, to, k)) /\ IsFiniteSet(Fiber(M, to, k))
      BY <2>3, ShiftParts, OfficialType, PartsAreFinite
    <3>2. Fiber(M, to, k) # {} => Cardinality(Fiber(M, to, k)) # 0
      BY <3>1, FS_EmptySet
    <3>3. QED
      BY <2>8, <3>1, <3>2
  <2>13. m.count \in Nat
    BY <2>10, AmountFacts
  <2>14. r.gaps = p.gaps
    BY <2>2, <2>3, <2>8, <2>10, <2>11
  <2>15. From(k, M) = {} => p.count <= r.count
    BY <2>5, <2>8, <2>10, <2>11, ZeroFacts
  <2>16. Fiber(M, to, k) # {} => r.count > 0
    BY <2>8, <2>11, <2>12, <2>13
  <2>17. From(k, M) = {} /\ Fiber(M, to, k) = {} => r = p
    <3>1. Minus(p, Zero) = p /\ Plus(p, Zero) = p
      BY AmountFacts
    <3>2. QED
      BY <2>5, <2>6, <2>10, <2>11, <3>1
  <2>18. Shift(M, to)[k] = r
    BY <2>4, <2>10, <2>11
  <2>19. QED
    BY <2>1, <2>2, <2>3, <2>10, <2>11, <2>14, <2>15, <2>16, <2>17, <2>18
<1>2. Shift(M, to) = [k \in Keys |-> Shift(M, to)[k]]
  BY DEF Shift
<1>3. Shift(M, to) \in [Keys -> Amounts]
  BY <1>1, <1>2
<1>4. QED
  BY <1>1, <1>3

(* MaterializeRequestClaim is such a shift.                                  *)
To(key) == [q \in Requests |-> key]

LEMMA MaterializedShifts ==
    ASSUME TypeOK, NEW qs \in SUBSET Requests, NEW key \in Keys, MayMaterialize(qs, key)
    PROVE  /\ MayShift(Movers(qs, key))
           /\ Materialized(qs, key) = Shift(Movers(qs, key), To(key))
           /\ Movers(qs, key) \in SUBSET Requests
           /\ \A q \in Movers(qs, key) : q \in qs /\ To(key)[q] = key /\ claim[q].ptr # GonePool
<1> DEFINE M == Movers(qs, key)
<1>1. M \in SUBSET Requests /\ \A q \in M : q \in qs /\ claim[q].ptr # key
  BY DEF Movers
<1>2. \A q \in M : To(key)[q] = key /\ claim[q].ptr # GonePool
  BY <1>1 DEF To, MayMaterialize, From
<1>3. \A k : k # key => From(k, M) = From(k, qs)
  BY DEF From, Movers
<1>4. From(key, M) = {} /\ Fiber(M, To(key), key) = M /\ \A k : k # key => Fiber(M, To(key), k) = {}
  BY <1>1, <1>2 DEF From, Fiber
<1>5. MayShift(M)
  <2>1. SUFFICES ASSUME NEW k \in Keys, From(k, M) # {}
                 PROVE  CanTake(k, Official(From(k, M)))
    BY DEF MayShift
  <2>2. k # key
    BY <1>4, <2>1
  <2>3. PICK q \in M : claim[q].ptr = k
    BY <2>1 DEF From
  <2>4. k # NoPool
    BY KeyFacts
  <2>5. k \in {claim[p].ptr : p \in Movers(qs, key)} \ {NoPool}
    BY <2>3, <2>4
  <2>6. CanTake(k, Official(From(k, qs)))
    BY <2>5 DEF MayMaterialize
  <2>7. QED
    BY <1>3, <2>2, <2>6
<1>6. ASSUME NEW k \in Keys
      PROVE  (IF k = key THEN Plus(pool[k], Official(M)) ELSE Minus(pool[k], Official(From(k, M))))
             = Plus(Minus(pool[k], Official(From(k, M))), Official(Fiber(M, To(key), k)))
  <2>1. pool[k] \in Amounts
    BY DEF TypeOK
  <2>2. CASE k = key
    <3>1. Official(From(k, M)) = Zero /\ Fiber(M, To(key), k) = M
      BY <1>4, <2>2, NoOfficial
    <3>2. Minus(pool[k], Zero) = pool[k]
      BY <2>1, AmountFacts
    <3> HIDE DEF M
    <3>3. QED
      BY <2>2, <3>1, <3>2
  <2>3. CASE k # key
    <3>1. Official(Fiber(M, To(key), k)) = Zero
      BY <1>4, <2>3, NoOfficial
    <3>2. Minus(pool[k], Official(From(k, M))) \in Amounts
      BY <1>1, <1>5, ShiftFacts
    <3>3. PICK m \in Amounts : m = Minus(pool[k], Official(From(k, M)))
      BY <3>2
    <3>4. Plus(m, Zero) = m
      BY AmountFacts
    <3> HIDE DEF M
    <3>5. QED
      BY <2>3, <3>1, <3>3, <3>4
  <2>4. QED
    BY <2>2, <2>3
<1>7. Materialized(qs, key) =
         [k \in Keys |-> IF k = key THEN Plus(pool[k], Official(M)) ELSE Minus(pool[k], Official(From(k, M)))]
  BY DEF Materialized
<1>8. Materialized(qs, key) = Shift(M, To(key))
  <2> HIDE DEF M
  <2>1. QED
    BY <1>6, <1>7 DEF Shift
<1>9. QED
  BY <1>1, <1>2, <1>5, <1>8

-----------------------------------------------------------------------------
(* Types and rows                                                            *)

LEMMA TouchKeeps ==
    ASSUME TypeOK, NEW gs, Touch(gs)
    PROVE  /\ rw' \in Rewrite
           /\ rw'.pc = rw.pc /\ rw'.old = rw.old /\ rw'.new = rw.new /\ rw'.targets = rw.targets
           /\ rw'.held = rw.held /\ rw'.todo = rw.todo /\ rw'.key = rw.key /\ rw'.sum = rw.sum
           /\ rw'.raced = (rw.raced \/ (rw.pc = "groups" /\ gs \cap rw.targets # {}))
<1>1. PICK raced \in BOOLEAN : raced = (rw.raced \/ (rw.pc = "groups" /\ gs \cap rw.targets # {}))
  OBVIOUS
<1>2. rw \in Rewrite /\ rw' = [rw EXCEPT !.raced = raced]
  BY <1>1 DEF TypeOK, Touch
<1>3. QED
  BY <1>1, <1>2 DEF Rewrite

LEMMA SomeKey ==
    /\ (CHOOSE k \in Keys : TRUE) \in Keys
    /\ (CHOOSE c \in Commits : TRUE) \in Commits
<1>1. Commits # {} /\ Commits \in (SUBSET Commits) \ {{}}
  BY AttributionLedgerAssumption
<1>2. Key(Commits) \in Keys
  BY <1>1, KeyFacts
<1>3. QED
  BY <1>1, <1>2

LEMMA EndFacts ==
    ASSUME TypeOK, RewriteEnd
    PROVE  /\ rw' \in Rewrite
           /\ rw'.pc = "idle" /\ rw'.targets = {} /\ rw'.raced = FALSE /\ rw'.held = {} /\ rw'.todo = {}
<1>1. PICK k \in Keys, c \in Commits :
         rw' = [rw EXCEPT !.pc = "idle", !.targets = {}, !.raced = FALSE, !.held = {}, !.todo = {},
                          !.sum = Zero, !.key = k, !.old = c, !.new = c]
  BY SomeKey DEF RewriteEnd
<1>2. rw \in Rewrite /\ Zero \in Amounts
  BY ZeroFacts DEF TypeOK
<1>3. QED
  BY <1>1, <1>2 DEF Rewrite

LEMMA KeyOfGroup ==
    ASSUME TypeOK, Started, NEW g \in Groups, group[g].state # "none"
    PROVE  /\ CommitsOf(g) \in (SUBSET Commits) \ {{}}
           /\ KeyOf(g) \in Keys /\ KeyOf(g).gap = FALSE /\ KeyOf(g).commits = CommitsOf(g)
           /\ GapKey(CommitsOf(g)) \in Keys
<1>1. group[g].alloc \in Seq(Commits) /\ group[g].alloc # <<>>
  BY DEF TypeOK, Group, Started
<1>2. CommitsOf(g) \in (SUBSET Commits) \ {{}}
  BY <1>1, SetOfCommits DEF CommitsOf
<1>3. QED
  BY <1>2, KeyFacts DEF KeyOf

LEMMA KeyOfRequest ==
    ASSUME TypeOK, Started, NoneBeforeGroup, NEW q \in Requests, claim[q].status # "none"
    PROVE  /\ GroupOf[q] \in Groups /\ group[GroupOf[q]].state # "none"
           /\ KeyOf(GroupOf[q]) \in Keys /\ KeyOf(GroupOf[q]).gap = FALSE
<1>1. GroupOf[q] \in Groups
  BY AttributionLedgerAssumption DEF Groups
<1>2. group[GroupOf[q]].state # "none"
  BY DEF NoneBeforeGroup
<1>3. QED
  BY <1>1, <1>2, KeyOfGroup

(* The rows after a step.                                                    *)
RowsStep == TypeOK' /\ Started' /\ Pointing' /\ PoolRows'

LEMMA StartedStep ==
    ASSUME Started, NEW g \in Groups, NEW s, NEW a, a # <<>>, NEW u, GroupGoes(g, s, a, u)
    PROVE  Started'
BY DEF Started, GroupGoes

(* What a table of pointers must be.                                         *)
Points(status, ptr) ==
    \A q \in Requests : /\ ptr[q] \in Ptrs
                        /\ ptr[q] = NoPool <=> status[q] # "reconciled"
                        /\ ptr[q].gap = TRUE => ptr[q] = GonePool

LEMMA PtrsPoint ==
    ASSUME TypeOK, Pointing
    PROVE  Points(Status, Ptr)
BY DEF TypeOK, Claim, Pointing, Points, Status, Ptr, Ptrs, Reconciled

LEMMA PtrToPoints ==
    ASSUME Points(Status, Ptr), NEW S, \A q \in S : q \in Requests => claim[q].status = "reconciled",
           NEW key \in Keys, key.gap = FALSE
    PROVE  Points(Status, PtrTo(S, key))
<1>1. key # NoPool /\ key \in Ptrs
  BY KeyFacts DEF Ptrs
<1>2. QED
  BY <1>1 DEF Points, Status, Ptr, PtrTo

LEMMA NewPoints ==
    ASSUME NEW ptr, Points(Status, ptr), NEW qs
    PROVE  Points(WithNew(qs), ptr)
BY DEF Points, Status, WithNew

LEMMA PointingStep ==
    ASSUME NEW status, NEW ptr, ClaimsGo(status, ptr), Points(status, ptr)
    PROVE  Pointing'
BY KeyFacts DEF ClaimsGo, Points, Pointing, Reconciled, Ptrs

LEMMA DroppedPoints ==
    ASSUME NEW status, NEW ptr, Points(status, ptr), NEW pools
    PROVE  Points(status, Dropped(ptr, pools))
<1>1. \A q \in Requests : Dropped(ptr, pools)[q] = Drop(ptr[q], pools)
  BY DEF Dropped
<1>2. ASSUME NEW q \in Requests
      PROVE  /\ Drop(ptr[q], pools) \in Ptrs
             /\ Drop(ptr[q], pools) = NoPool <=> status[q] # "reconciled"
             /\ Drop(ptr[q], pools).gap = TRUE => Drop(ptr[q], pools) = GonePool
  <2>1. /\ ptr[q] \in Ptrs
        /\ ptr[q] = NoPool <=> status[q] # "reconciled"
        /\ ptr[q].gap = TRUE => ptr[q] = GonePool
    BY DEF Points
  <2>2. Drop(ptr[q], pools) = ptr[q] \/ (ptr[q].commits # {} /\ Drop(ptr[q], pools) = GonePool)
    BY DEF Drop
  <2>3. CASE Drop(ptr[q], pools) = ptr[q]
    BY <2>1, <2>3
  <2>4. CASE ptr[q].commits # {} /\ Drop(ptr[q], pools) = GonePool
    <3>1. ptr[q] # NoPool /\ GonePool # NoPool /\ GonePool \in Ptrs
      BY <2>4, KeyFacts DEF Ptrs
    <3>2. QED
      BY <2>1, <2>4, <3>1
  <2>5. QED
    BY <2>2, <2>3, <2>4
<1>3. QED
  BY <1>1, <1>2 DEF Points

ApartIn(pools) == \A k \in Keys : Apart(k, pools[k])

(* A step that points the claims to no pool that is gone.                    *)
LEMMA DroppedRows ==
    ASSUME pool' \in [Keys -> Amounts], ApartIn(pool'),
           NEW status, NEW ptr, Points(status, ptr), ClaimsGo(status, Dropped(ptr, pool'))
    PROVE  Pointing' /\ PoolRows'
<1>1. Points(status, Dropped(ptr, pool'))
  BY DroppedPoints
<1>2. Pointing'
  BY <1>1, PointingStep
<1>3. ASSUME NEW q \in Requests, claim'[q].status = "reconciled", claim'[q].ptr # GonePool
      PROVE  pool'[claim'[q].ptr].count > 0
  <2>1. claim'[q].ptr = Drop(ptr[q], pool') /\ status[q] = "reconciled"
    BY <1>3 DEF ClaimsGo, Dropped
  <2>2. ptr[q] \in Keys
    <3>1. Drop(ptr[q], pool') # GonePool
      BY <1>3, <2>1
    <3>2. ptr[q] # NoPool /\ ptr[q] \in Ptrs /\ ptr[q] # GonePool
      <4>1. ptr[q] # NoPool /\ ptr[q] \in Ptrs
        BY <2>1 DEF Points
      <4>2. Drop(GonePool, pool') = GonePool
        BY DEF Drop
      <4>3. QED
        BY <3>1, <4>1, <4>2
    <3>3. QED
      BY <3>2 DEF Ptrs
  <2>3. ptr[q].commits # {}
    BY <2>2, KeyFacts
  <2>4. pool'[ptr[q]].count # 0 /\ claim'[q].ptr = ptr[q]
    BY <1>3, <2>1, <2>3 DEF Drop
  <2>5. pool'[ptr[q]].count \in Nat
    BY <2>2 DEF Amounts
  <2>6. QED
    BY <2>4, <2>5
<1>4. PoolRows'
  BY <1>3 DEF PoolRows, ApartIn, Counted, Reconciled
<1>5. QED
  BY <1>2, <1>4

(* A shift of counted requests keeps gaps apart.                             *)
LEMMA ShiftApart ==
    ASSUME TypeOK, Pointing, ApartIn(pool), NEW M \in SUBSET Requests, NEW to, MayShift(M),
           \A q \in M : to[q].gap = FALSE
    PROVE  ApartIn(Shift(M, to))
<1>1. SUFFICES ASSUME NEW k \in Keys
               PROVE  Apart(k, Shift(M, to)[k])
  BY DEF ApartIn
<1>2. Apart(k, pool[k]) /\ k.gap \in BOOLEAN
  BY KeyFacts DEF ApartIn
<1>3. CASE k.gap = TRUE
  <2>1. From(k, M) = {}
    BY <1>3, KeyFacts DEF From, Pointing
  <2>2. Fiber(M, to, k) = {}
    BY <1>3 DEF Fiber
  <2>3. Shift(M, to)[k] = pool[k]
    BY <2>1, <2>2, ShiftFacts
  <2>4. QED
    BY <1>2, <2>3
<1>4. CASE k.gap = FALSE
  <2>1. Shift(M, to)[k].gaps = pool[k].gaps
    BY ShiftFacts
  <2>2. QED
    BY <1>2, <1>4, <2>1 DEF Apart
<1>5. QED
  BY <1>2, <1>3, <1>4

-----------------------------------------------------------------------------
(* Rows are kept: ingest                                                     *)

LEMMA RowsFacts ==
    ASSUME Rows
    PROVE  /\ TypeOK /\ LeasedIsPending /\ NoneBeforeGroup /\ Started /\ Pointing /\ PoolRows
           /\ group \in [Groups -> Group] /\ claim \in [Requests -> Claim] /\ pool \in [Keys -> Amounts]
           /\ lineage \subseteq Rewrites /\ rw \in Rewrite
           /\ worker \in [Workers -> SUBSET Requests]
           /\ lost \in [Keys -> [total : Int, count : Int, gaps : Int]] /\ overlapped \in BOOLEAN
           /\ ApartIn(pool) /\ Points(Status, Ptr)
<1>1. TypeOK /\ LeasedIsPending /\ NoneBeforeGroup /\ Started /\ Pointing /\ PoolRows
  BY DEF Rows
<1>2. Points(Status, Ptr)
  BY <1>1, PtrsPoint
<1>3. QED
  BY <1>1, <1>2 DEF TypeOK, PoolRows, ApartIn

(* Counted requests keep pools that do not shrink.                           *)
LEMMA KeptPoolRows ==
    ASSUME Rows, pool' \in [Keys -> Amounts], ApartIn(pool'),
           \A k \in Keys : pool[k].count <= pool'[k].count,
           \A q \in Requests : claim'[q].status = "reconciled" /\ group'[GroupOf[q]].state = "hot" =>
               \/ /\ claim[q].status = "reconciled" /\ group[GroupOf[q]].state = "hot"
                  /\ claim'[q].ptr = claim[q].ptr
               \/ claim'[q].ptr \in Keys /\ pool'[claim'[q].ptr].count > 0
    PROVE  PoolRows'
<1>1. ASSUME NEW q \in Requests, claim'[q].status = "reconciled", group'[GroupOf[q]].state = "hot",
             claim'[q].ptr # GonePool
      PROVE  pool'[claim'[q].ptr].count > 0
  <2>1. CASE claim'[q].ptr \in Keys /\ pool'[claim'[q].ptr].count > 0
    BY <2>1
  <2>2. CASE /\ claim[q].status = "reconciled" /\ group[GroupOf[q]].state = "hot"
             /\ claim'[q].ptr = claim[q].ptr
    <3>1. Ptr[q] = claim[q].ptr /\ Status[q] = "reconciled"
      BY <2>2 DEF Ptr, Status
    <3>2. claim[q].ptr \in Keys
      BY <1>1, <2>2, <3>1, RowsFacts DEF Points, Ptrs
    <3>3. pool[claim[q].ptr].count > 0
      <4>1. Counted(q)
        BY <2>2 DEF Counted, Stored, Reconciled, Hot
      <4>2. QED
        BY <1>1, <2>2, <4>1, RowsFacts DEF PoolRows
    <3>4. PICK p \in Amounts, r \in Amounts : p = pool[claim[q].ptr] /\ r = pool'[claim[q].ptr] /\ p.count <= r.count
      BY <3>2, RowsFacts
    <3>5. p.count \in Nat /\ r.count \in Nat
      BY DEF Amounts
    <3>6. QED
      BY <2>2, <3>3, <3>4, <3>5
  <2>3. QED
    BY <1>1, <2>1, <2>2
<1>2. QED
  BY <1>1 DEF PoolRows, ApartIn, Counted, Reconciled, Stored, Hot

LEMMA SamePools ==
    ASSUME Rows, pool' = pool
    PROVE  /\ pool' \in [Keys -> Amounts] /\ ApartIn(pool')
           /\ \A k \in Keys : pool[k].count <= pool'[k].count
<1>1. \A k \in Keys : pool[k].count \in Nat
  BY RowsFacts DEF Amounts
<1>2. QED
  BY <1>1, RowsFacts

LEMMA RelayNewRows ==
    ASSUME Rows, NEW g \in RelayGroups, NEW a \in Snapshots(g), NEW qs \in SUBSET Members(g),
           IngestRelayNew(g, a, qs)
    PROVE  RowsStep
<1>0. g \in Groups /\ group[g].state = "none"
  BY DEF Groups, IngestRelayNew
<1>1. GroupGoes(g, "hot", a, group[g].usage) /\ a # <<>>
  BY <1>0, RowsFacts, RelayGroupGoes, SnapshotFacts
<1>2. ClaimsGo(WithNew(qs), Ptr)
  BY RowsFacts, RelayNewClaims
<1>3. pool' = pool /\ lineage' = lineage /\ rw' = rw /\ worker' = worker /\ lost' = lost
      /\ overlapped' \in BOOLEAN
  BY DEF IngestRelayNew, Overlap
<1>4. TypeOK'
  BY <1>1, <1>2, <1>3, RowsFacts DEF TypeOK, GroupGoes, ClaimsGo
<1>5. Started'
  BY <1>0, <1>1, RowsFacts, StartedStep
<1>6. Pointing'
  BY <1>2, RowsFacts, NewPoints, PointingStep
<1>7. PoolRows'
  <2>1. ASSUME NEW q \in Requests, claim'[q].status = "reconciled", group'[GroupOf[q]].state = "hot"
        PROVE  /\ claim[q].status = "reconciled" /\ group[GroupOf[q]].state = "hot"
               /\ claim'[q].ptr = claim[q].ptr
    <3>1. claim[q].status = "reconciled" /\ claim'[q].ptr = claim[q].ptr
      BY <1>2, <2>1 DEF ClaimsGo, WithNew, Ptr
    <3>2. GroupOf[q] # g /\ GroupOf[q] \in Groups
      BY <1>0, <3>1, RowsFacts, KeyOfRequest
    <3>3. QED
      BY <1>1, <2>1, <3>1, <3>2 DEF GroupGoes
  <2>2. QED
    BY <1>3, <2>1, KeptPoolRows, SamePools
<1>8. QED
  BY <1>4, <1>5, <1>6, <1>7 DEF RowsStep

(* A set of reconciled requests of a group.                                  *)
LEMMA WithStatusFacts ==
    ASSUME NEW g, NEW s
    PROVE  WithStatus(g, s) \in SUBSET Requests
           /\ \A q \in WithStatus(g, s) : claim[q].status = s /\ GroupOf[q] = g
BY DEF WithStatus, Members

(* What materializing does to the pools.                                     *)
LEMMA MaterializedRows ==
    ASSUME Rows, NEW qs \in SUBSET Requests, NEW key \in Keys, key.gap = FALSE, MayMaterialize(qs, key)
    PROVE  /\ Materialized(qs, key) \in [Keys -> Amounts]
           /\ ApartIn(Materialized(qs, key))
           /\ Materialized(qs, key) = Shift(Movers(qs, key), To(key))
           /\ MayShift(Movers(qs, key))
<1>1. /\ MayShift(Movers(qs, key))
      /\ Materialized(qs, key) = Shift(Movers(qs, key), To(key))
      /\ Movers(qs, key) \in SUBSET Requests
      /\ \A q \in Movers(qs, key) : q \in qs /\ To(key)[q] = key
  BY RowsFacts, MaterializedShifts
<1>2. PICK M, to : M \in SUBSET Requests /\ M = Movers(qs, key) /\ to = To(key)
  BY <1>1
<1>3. MayShift(M) /\ \A q \in M : to[q].gap = FALSE
  BY <1>1, <1>2
<1>4. Shift(M, to) \in [Keys -> Amounts]
  BY <1>2, <1>3, RowsFacts, ShiftFacts
<1>5. ApartIn(Shift(M, to))
  BY <1>2, <1>3, RowsFacts, ShiftApart
<1>6. QED
  BY <1>1, <1>2, <1>3, <1>4, <1>5

LEMMA RelayMoreRows ==
    ASSUME Rows, NEW g \in RelayGroups, NEW a \in Snapshots(g), NEW qs \in SUBSET Members(g),
           IngestRelayMore(g, a, qs)
    PROVE  RowsStep
<1> DEFINE done == WithStatus(g, "reconciled")
           key == Key(ToSet(a))
<1>0. g \in Groups /\ group[g].state = "hot"
  BY DEF Groups, IngestRelayMore, Hot
<1>1. GroupGoes(g, "hot", a, group[g].usage) /\ a # <<>> /\ a \in Seq(Commits)
  BY <1>0, RowsFacts, RelayGroupGoes, SnapshotFacts
<1>2. key \in Keys /\ key.gap = FALSE
  BY <1>1, SetOfCommits, KeyFacts
<1>3. ClaimsGo(WithNew(qs), Dropped(PtrTo(Repoints(g, a), key), pool'))
  BY RowsFacts, RelayMoreClaims
<1>4. /\ pool' = IF a # group[g].alloc THEN Materialized(done, key) ELSE pool
      /\ a # group[g].alloc => MayMaterialize(done, key)
  BY DEF IngestRelayMore
<1>5. pool' \in [Keys -> Amounts] /\ ApartIn(pool')
  <2>1. CASE a = group[g].alloc
    BY <1>4, <2>1, RowsFacts
  <2>2. CASE a # group[g].alloc
    <3> HIDE DEF key, done
    <3>1. done \in SUBSET Requests
      BY WithStatusFacts DEF done
    <3>2. QED
      BY <1>2, <1>4, <2>2, <3>1, MaterializedRows
  <2>3. QED
    BY <2>1, <2>2
<1>6. lineage' = lineage /\ rw' \in Rewrite /\ worker' = worker /\ lost' = lost /\ overlapped' \in BOOLEAN
  <2>1. Touch({g})
    BY DEF IngestRelayMore
  <2>2. rw' \in Rewrite
    BY <2>1, RowsFacts, TouchKeeps
  <2>3. QED
    BY <2>2 DEF IngestRelayMore, Overlap
<1>7. TypeOK'
  BY <1>1, <1>3, <1>5, <1>6, RowsFacts DEF TypeOK, GroupGoes, ClaimsGo
<1>8. Started'
  BY <1>0, <1>1, RowsFacts, StartedStep
<1>9. Points(WithNew(qs), PtrTo(Repoints(g, a), key))
  <2> HIDE DEF key
  <2>1. \A q \in Repoints(g, a) : claim[q].status = "reconciled"
    BY WithStatusFacts DEF Repoints
  <2>2. Points(Status, PtrTo(Repoints(g, a), key))
    BY <1>2, <2>1, RowsFacts, PtrToPoints
  <2>3. QED
    BY <2>2, NewPoints
<1>10. Pointing' /\ PoolRows'
  <2> HIDE DEF key
  <2>1. QED
    BY <1>3, <1>5, <1>9, DroppedRows
<1>11. QED
  BY <1>7, <1>8, <1>10 DEF RowsStep

LEMMA LocalFacts ==
    ASSUME NEW u \in Nat
    PROVE  /\ Local(u) \in Amounts /\ Local(u).total = u /\ Local(u).count = u /\ Local(u).gaps = 0
           /\ \A v \in Nat : v <= u =>
                 /\ Minus(Local(u), Local(v)) \in Amounts
                 /\ Minus(Local(u), Local(v)).total = u - v /\ Minus(Local(u), Local(v)).count = u - v
                 /\ Minus(Local(u), Local(v)).gaps = 0
<1>1. \A v \in Nat : Local(v) \in Amounts /\ Local(v).total = v /\ Local(v).count = v /\ Local(v).gaps = 0
  BY DEF Local, Amount, Amounts
<1>2. ASSUME NEW v \in Nat, v <= u
      PROVE  /\ Minus(Local(u), Local(v)) \in Amounts
             /\ Minus(Local(u), Local(v)).total = u - v /\ Minus(Local(u), Local(v)).count = u - v
             /\ Minus(Local(u), Local(v)).gaps = 0
  <2>1. PICK x \in Amounts, y \in Amounts : /\ x = Local(u) /\ y = Local(v)
                                            /\ x.total = u /\ x.count = u /\ x.gaps = 0
                                            /\ y.total = v /\ y.count = v /\ y.gaps = 0
    BY <1>1
  <2>2. /\ Minus(x, y) \in Amounts
        /\ Minus(x, y).total = x.total - y.total /\ Minus(x, y).count = x.count - y.count
        /\ Minus(x, y).gaps = x.gaps - y.gaps
    <3>1. y.total <= x.total /\ y.count <= x.count /\ y.gaps <= x.gaps
      BY <1>2, <2>1
    <3>2. QED
      BY <3>1, AmountFacts
  <2>3. QED
    BY <2>1, <2>2
<1>3. QED
  BY <1>1, <1>2

(* One pool takes a new amount.                                              *)
Given(pools, k, x) == [pools EXCEPT ![k] = x]

LEMMA OnePool ==
    ASSUME NEW pools \in [Keys -> Amounts], ApartIn(pools), NEW k \in Keys, NEW x \in Amounts, Apart(k, x),
           NEW after, after = Given(pools, k, x)
    PROVE  /\ after \in [Keys -> Amounts] /\ ApartIn(after)
           /\ after[k] = x /\ \A j \in Keys : j # k => after[j] = pools[j]
BY DEF ApartIn, Given

LEMMA UsageType ==
    ASSUME TypeOK
    PROVE  /\ \A g \in Groups : group[g].usage \in Nat
           /\ \A u \in Usages : u \in Nat
<1>1. Usages \subseteq Nat \ {0}
  BY AttributionLedgerAssumption
<1>2. \A g \in Groups : group[g].usage \in Usages \cup {0}
  BY DEF TypeOK, Group
<1>3. \A u \in Usages : u \in Nat
  BY <1>1
<1>4. \A u \in Usages \cup {0} : u \in Nat
  <2>1. 0 \in Nat
    OBVIOUS
  <2>2. QED
    BY <1>3, <2>1
<1>5. QED
  BY <1>2, <1>3, <1>4

(* Adding to a pool.                                                         *)
LEMMA PoolGrows ==
    ASSUME NEW pools \in [Keys -> Amounts], ApartIn(pools), NEW k \in Keys, NEW x \in Amounts, Apart(k, x),
           NEW after, after = Given(pools, k, Plus(pools[k], x))
    PROVE  /\ after \in [Keys -> Amounts] /\ ApartIn(after)
           /\ \A j \in Keys : after[j] = IF j = k THEN Plus(pools[k], x) ELSE pools[j]
           /\ \A j \in Keys : pools[j].count <= after[j].count
<1>1. PICK p \in Amounts : p = pools[k]
  OBVIOUS
<1>2. PICK r \in Amounts : r = Plus(p, x) /\ r.total = p.total + x.total /\ r.count = p.count + x.count
                           /\ r.gaps = p.gaps + x.gaps
  BY AmountFacts
<1>3. after = Given(pools, k, r)
  BY <1>1, <1>2
<1>4. Apart(k, p)
  BY <1>1 DEF ApartIn
<1>5. Apart(k, r)
  BY <1>2, <1>4 DEF Apart
<1>6. /\ after \in [Keys -> Amounts] /\ ApartIn(after)
      /\ after[k] = r /\ \A j \in Keys : j # k => after[j] = pools[j]
  BY <1>3, <1>5, OnePool
<1>7. \A j \in Keys : pools[j].count <= after[j].count
  <2> TAKE j \in Keys
  <2>1. pools[j].count \in Nat /\ p.count \in Nat /\ x.count \in Nat
    BY DEF Amounts
  <2>2. CASE j = k
    BY <1>1, <1>2, <1>6, <2>1, <2>2
  <2>3. CASE j # k
    BY <1>6, <2>1, <2>3
  <2>4. QED
    BY <2>2, <2>3
<1>8. QED
  BY <1>1, <1>2, <1>6, <1>7

LEMMA LocalNewRows ==
    ASSUME Rows, NEW g \in LocalGroups, NEW a \in Snapshots(g), NEW u \in Usages, IngestLocalNew(g, a, u)
    PROVE  RowsStep
<1> DEFINE key == Key(ToSet(a))
<1>0. g \in Groups /\ group[g].state = "none" /\ u \in Nat
  BY RowsFacts, UsageType DEF Groups, IngestLocalNew
<1>1. GroupGoes(g, "hot", a, u) /\ a # <<>> /\ a \in Seq(Commits)
  BY <1>0, RowsFacts, LocalGroupGoes, SnapshotFacts
<1>2. key \in Keys /\ key.gap = FALSE
  BY <1>1, SetOfCommits, KeyFacts
<1>3. claim' = claim /\ lineage' = lineage /\ rw' = rw /\ worker' = worker /\ lost' = lost
      /\ overlapped' \in BOOLEAN
  BY DEF IngestLocalNew, Overlap
<1>3a. pool' = Given(pool, key, Plus(pool[key], Local(u)))
  BY <1>2, RowsFacts DEF IngestLocalNew, Given
<1>4. Local(u) \in Amounts /\ Apart(key, Local(u))
  BY <1>0, <1>2, LocalFacts DEF Apart
<1> HIDE DEF key
<1>5. /\ pool' \in [Keys -> Amounts] /\ ApartIn(pool')
      /\ \A k \in Keys : pool[k].count <= pool'[k].count
  BY <1>2, <1>3a, <1>4, RowsFacts, PoolGrows
<1>6. TypeOK'
  BY <1>1, <1>3, <1>5, RowsFacts DEF TypeOK, GroupGoes
<1>7. Started'
  BY <1>0, <1>1, RowsFacts, StartedStep
<1>8. Pointing'
  BY <1>3, RowsFacts DEF Pointing, Reconciled
<1>9. PoolRows'
  <2>1. ASSUME NEW q \in Requests, claim'[q].status = "reconciled", group'[GroupOf[q]].state = "hot"
        PROVE  /\ claim[q].status = "reconciled" /\ group[GroupOf[q]].state = "hot"
               /\ claim'[q].ptr = claim[q].ptr
    <3>1. claim[q].status = "reconciled" /\ claim'[q].ptr = claim[q].ptr
      BY <1>3, <2>1
    <3>2. GroupOf[q] # g /\ GroupOf[q] \in Groups
      BY <1>0, <3>1, RowsFacts, KeyOfRequest
    <3>3. QED
      BY <1>1, <2>1, <3>1, <3>2 DEF GroupGoes
  <2>2. QED
    BY <1>5, <2>1, KeptPoolRows
<1>10. QED
  BY <1>6, <1>7, <1>8, <1>9 DEF RowsStep

(* The pools after a local turn has grown from a usage to another.           *)
LocalPools(old, new, before, u) ==
    [k \in Keys |->
        IF k = old /\ old = new THEN Plus(pool[k], Minus(Local(u), Local(before)))
        ELSE IF k = old THEN Minus(pool[k], Local(before))
        ELSE IF k = new THEN Plus(pool[k], Local(u))
        ELSE pool[k]]

LEMMA LocalMorePools ==
    ASSUME Rows, NEW g \in LocalGroups, NEW a \in Snapshots(g), NEW u \in Usages,
           IngestLocalMore(g, a, u)
    PROVE  /\ pool' \in [Keys -> Amounts] /\ ApartIn(pool')
           /\ KeyOf(g) \in Keys /\ Key(ToSet(a)) \in Keys
           /\ group[g].usage \in Nat /\ u \in Nat /\ group[g].usage <= u
           /\ \/ pool' = pool /\ a = group[g].alloc /\ u = group[g].usage
              \/ /\ pool' = LocalPools(KeyOf(g), Key(ToSet(a)), group[g].usage, u)
                 /\ KeyOf(g) # Key(ToSet(a)) => CanTake(KeyOf(g), Local(group[g].usage))
<1> DEFINE old == KeyOf(g)
           new == Key(ToSet(a))
           b == group[g].usage
<1>1. g \in Groups /\ group[g].state # "none" /\ b <= u
  BY DEF Groups, IngestLocalMore, Hot
<1>2. b \in Nat /\ u \in Nat
  BY <1>1, RowsFacts, UsageType
<1>3. old \in Keys /\ old.gap = FALSE
  BY <1>1, RowsFacts, KeyOfGroup
<1>4. new \in Keys /\ new.gap = FALSE
  BY <1>1, SnapshotFacts, SetOfCommits, KeyFacts
<1>5. \/ pool' = pool /\ a = group[g].alloc /\ u = b
      \/ /\ old = new
         /\ pool' = [pool EXCEPT ![old] = Plus(@, Minus(Local(u), Local(b)))]
      \/ /\ old # new
         /\ CanTake(old, Local(b))
         /\ pool' = [pool EXCEPT ![old] = Minus(@, Local(b)), ![new] = Plus(@, Local(u))]
  BY DEF IngestLocalMore, KeyOf
<1>6. /\ Local(u) \in Amounts /\ Local(u).gaps = 0 /\ Local(b) \in Amounts
      /\ Local(b).total = b /\ Local(b).count = b /\ Local(b).gaps = 0
      /\ Minus(Local(u), Local(b)) \in Amounts /\ Minus(Local(u), Local(b)).gaps = 0
  BY <1>1, <1>2, LocalFacts
<1>7. pool[old] \in Amounts /\ pool \in [Keys -> Amounts] /\ ApartIn(pool)
  BY <1>3, RowsFacts
<1> HIDE DEF old, new, b
<1>8. CASE pool' = pool /\ a = group[g].alloc /\ u = b
  BY <1>1, <1>2, <1>3, <1>4, <1>7, <1>8 DEF old, new, b
<1>9. CASE old = new /\ pool' = [pool EXCEPT ![old] = Plus(@, Minus(Local(u), Local(b)))]
  <2>1. PICK x \in Amounts : x = Minus(Local(u), Local(b)) /\ x.gaps = 0
    BY <1>6
  <2>2. pool' = Given(pool, old, Plus(pool[old], x))
    BY <1>3, <1>7, <1>9, <2>1 DEF Given
  <2>3. Apart(old, x)
    BY <1>3, <2>1 DEF Apart
  <2>4. /\ pool' \in [Keys -> Amounts] /\ ApartIn(pool')
        /\ \A j \in Keys : pool'[j] = IF j = old THEN Plus(pool[old], x) ELSE pool[j]
    BY <1>3, <1>7, <2>1, <2>2, <2>3, PoolGrows
  <2>5. pool' = LocalPools(old, new, b, u)
    BY <1>9, <2>1, <2>4 DEF LocalPools
  <2>6. QED
    BY <1>1, <1>2, <1>3, <1>4, <1>9, <2>4, <2>5 DEF old, new, b
<1>10. CASE /\ old # new
            /\ CanTake(old, Local(b))
            /\ pool' = [pool EXCEPT ![old] = Minus(@, Local(b)), ![new] = Plus(@, Local(u))]
  <2>1. PICK x \in Amounts : x = Local(b) /\ x.total = b /\ x.count = b /\ x.gaps = 0
    BY <1>6
  <2>2. PICK p \in Amounts : p = pool[old] /\ x.total <= p.total /\ x.count <= p.count
    BY <1>7, <1>10, <2>1 DEF CanTake
  <2>3. PICK r \in Amounts : r = Minus(p, x) /\ r.gaps = p.gaps
    <3>1. p.gaps \in Nat /\ x.gaps <= p.gaps
      BY <2>1 DEF Amounts
    <3>2. Minus(p, x) \in Amounts /\ Minus(p, x).gaps = p.gaps - x.gaps
      BY <2>2, <3>1, AmountFacts
    <3>3. QED
      BY <2>1, <3>1, <3>2
  <2>4. Apart(old, r)
    BY <1>3, <1>7, <2>2, <2>3 DEF ApartIn, Apart
  <2>5. PICK mid : mid = Given(pool, old, r)
    OBVIOUS
  <2>6. /\ mid \in [Keys -> Amounts] /\ ApartIn(mid) /\ mid[old] = r
        /\ \A j \in Keys : j # old => mid[j] = pool[j]
    BY <1>3, <1>7, <2>4, <2>5, OnePool
  <2>7. PICK y \in Amounts : y = Local(u) /\ y.gaps = 0
    BY <1>6
  <2>8. Apart(new, y)
    BY <1>4, <2>7 DEF Apart
  <2>9. PICK s : s = Given(mid, new, Plus(mid[new], y))
    OBVIOUS
  <2>10. /\ s \in [Keys -> Amounts] /\ ApartIn(s)
         /\ \A j \in Keys : s[j] = IF j = new THEN Plus(mid[new], y) ELSE mid[j]
    BY <1>4, <2>6, <2>8, <2>9, PoolGrows
  <2>11. \A j \in Keys : s[j] = IF j = old THEN Minus(pool[old], Local(b))
                                ELSE IF j = new THEN Plus(pool[new], Local(u)) ELSE pool[j]
    BY <1>4, <1>10, <2>1, <2>2, <2>3, <2>6, <2>7, <2>10
  <2>12. pool' \in [Keys -> UNION {{pool'[k]} : k \in Keys}]
    BY <1>7, <1>10
  <2>13. \A j \in Keys : pool'[j] = IF j = old THEN Minus(pool[old], Local(b))
                                    ELSE IF j = new THEN Plus(pool[new], Local(u)) ELSE pool[j]
    BY <1>3, <1>4, <1>7, <1>10
  <2>14. pool' = s
    BY <2>10, <2>11, <2>12, <2>13
  <2>15. pool' = LocalPools(old, new, b, u)
    BY <1>10, <2>10, <2>11, <2>14 DEF LocalPools
  <2>16. QED
    BY <1>1, <1>2, <1>3, <1>4, <1>10, <2>10, <2>14, <2>15 DEF old, new, b
<1>11. QED
  BY <1>5, <1>8, <1>9, <1>10

LEMMA LocalMoreRows ==
    ASSUME Rows, NEW g \in LocalGroups, NEW a \in Snapshots(g), NEW u \in Usages,
           IngestLocalMore(g, a, u)
    PROVE  RowsStep
<1>0. g \in Groups
  BY DEF Groups
<1>1. GroupGoes(g, "hot", a, u) /\ a # <<>>
  BY <1>0, RowsFacts, LocalGroupGoes, SnapshotFacts
<1>2. ClaimsGo(Status, Dropped(Ptr, pool'))
  BY RowsFacts, LocalMoreClaims
<1>3. pool' \in [Keys -> Amounts] /\ ApartIn(pool')
  BY LocalMorePools
<1>4. Pointing' /\ PoolRows'
  BY <1>2, <1>3, RowsFacts, DroppedRows
<1>5. lineage' = lineage /\ rw' \in Rewrite /\ worker' = worker /\ lost' = lost /\ overlapped' \in BOOLEAN
  <2>1. Touch({g})
    BY DEF IngestLocalMore
  <2>2. rw' \in Rewrite
    BY <2>1, RowsFacts, TouchKeeps
  <2>3. QED
    BY <2>2 DEF IngestLocalMore, Overlap
<1>6. TypeOK'
  BY <1>1, <1>2, <1>3, <1>5, RowsFacts DEF TypeOK, GroupGoes, ClaimsGo
<1>7. Started'
  BY <1>0, <1>1, RowsFacts, StartedStep
<1>8. QED
  BY <1>4, <1>6, <1>7 DEF RowsStep

-----------------------------------------------------------------------------
(* Rows are kept: reconciliation                                             *)

(* Steps of a worker that counts nothing.                                    *)
LEMMA UncountedRows ==
    ASSUME Rows, NEW q \in Requests, NEW s, ClaimGoes(q, s, claim[q].ptr),
           s = claim[q].status \/ (s # "reconciled" /\ claim[q].status # "reconciled"),
           UNCHANGED <<group, pool, lineage, rw, lost, overlapped>>,
           worker' \in [Workers -> SUBSET Requests]
    PROVE  RowsStep
<1>1. TypeOK'
  BY RowsFacts DEF TypeOK, ClaimGoes
<1>2. Started'
  BY RowsFacts DEF Started
<1>3. Pointing'
  BY RowsFacts DEF Pointing, Reconciled, ClaimGoes
<1>4. PoolRows'
  <2>1. ASSUME NEW r \in Requests, claim'[r].status = "reconciled", group'[GroupOf[r]].state = "hot"
        PROVE  /\ claim[r].status = "reconciled" /\ group[GroupOf[r]].state = "hot"
               /\ claim'[r].ptr = claim[r].ptr
    BY <2>1 DEF ClaimGoes
  <2>2. QED
    BY <2>1, KeptPoolRows, SamePools
<1>5. QED
  BY <1>1, <1>2, <1>3, <1>4 DEF RowsStep

LEMMA SameRows ==
    ASSUME Rows, UNCHANGED <<claim, pool, lineage, lost>>,
           group' \in [Groups -> Group],
           \A g \in Groups : /\ group'[g].state # "none" => group'[g].alloc = group[g].alloc
                                                            /\ group[g].state # "none"
                             /\ group'[g].state = "hot" => group[g].state = "hot",
           rw' \in Rewrite, worker' \in [Workers -> SUBSET Requests], overlapped' \in BOOLEAN
    PROVE  RowsStep
<1>1. TypeOK'
  BY RowsFacts DEF TypeOK
<1>2. Started'
  BY RowsFacts DEF Started
<1>3. Pointing'
  BY RowsFacts DEF Pointing, Reconciled
<1>4. PoolRows'
  <2>1. ASSUME NEW r \in Requests, claim'[r].status = "reconciled", group'[GroupOf[r]].state = "hot"
        PROVE  /\ claim[r].status = "reconciled" /\ group[GroupOf[r]].state = "hot"
               /\ claim'[r].ptr = claim[r].ptr
    <3>1. GroupOf[r] \in Groups
      BY AttributionLedgerAssumption DEF Groups
    <3>2. QED
      BY <2>1, <3>1
  <2>2. QED
    BY <2>1, KeptPoolRows, SamePools
<1>5. QED
  BY <1>1, <1>2, <1>3, <1>4 DEF RowsStep

(* What a reconciled request adds.                                           *)
LEMMA ReconcileFacts ==
    ASSUME Rows, NEW w \in Workers, NEW q \in Requests, Reconcile(w, q)
    PROVE  /\ claim[q].status = "pending" /\ group[GroupOf[q]].state = "hot" /\ claim[q].ptr = NoPool
           /\ KeyOf(GroupOf[q]) \in Keys /\ KeyOf(GroupOf[q]).gap = FALSE
           /\ ClaimGoes(q, "reconciled", KeyOf(GroupOf[q]))
           /\ Movers({q}, KeyOf(GroupOf[q])) = {q}
           /\ pool' = Shift({q}, To(KeyOf(GroupOf[q]))) /\ MayShift({q})
           /\ pool' \in [Keys -> Amounts] /\ ApartIn(pool')
<1> DEFINE key == KeyOf(GroupOf[q])
<1>1. claim[q].status = "pending" /\ group[GroupOf[q]].state = "hot"
  BY RowsFacts DEF Reconcile, Holds, Stored, Hot, LeasedIsPending
<1>2. key \in Keys /\ key.gap = FALSE
  BY <1>1, RowsFacts, KeyOfRequest
<1>3. claim[q].ptr = NoPool
  BY <1>1, RowsFacts DEF Pointing, Reconciled
<1>4. ClaimGoes(q, "reconciled", key)
  <2>1. key \in Ptrs
    BY <1>2 DEF Ptrs
  <2>2. QED
    BY <2>1, RowsFacts, ReconcileGoes
<1>5. Movers({q}, key) = {q}
  BY <1>2, <1>3, KeyFacts DEF Movers
<1>6. MayMaterialize({q}, key) /\ pool' = Materialized({q}, key)
  BY DEF Reconcile, KeyOf
<1> HIDE DEF key
<1>7. /\ pool' \in [Keys -> Amounts] /\ ApartIn(pool')
      /\ pool' = Shift(Movers({q}, key), To(key)) /\ MayShift(Movers({q}, key))
  <2>1. {q} \in SUBSET Requests
    OBVIOUS
  <2>2. QED
    BY <1>2, <1>6, <2>1, MaterializedRows
<1>8. QED
  BY <1>1, <1>2, <1>3, <1>4, <1>5, <1>7 DEF key

LEMMA ReconcileRows ==
    ASSUME Rows, NEW w \in Workers, NEW q \in Requests, Reconcile(w, q)
    PROVE  RowsStep
<1> DEFINE key == KeyOf(GroupOf[q])
<1>1. /\ claim[q].ptr = NoPool /\ key \in Keys /\ key.gap = FALSE
      /\ ClaimGoes(q, "reconciled", key)
      /\ pool' = Shift({q}, To(key)) /\ MayShift({q})
      /\ pool' \in [Keys -> Amounts] /\ ApartIn(pool')
  BY ReconcileFacts
<1> HIDE DEF key
<1>2. group' = group /\ lineage' = lineage /\ lost' = lost /\ overlapped' = overlapped
      /\ worker' \in [Workers -> SUBSET Requests] /\ rw' \in Rewrite
  <2>1. Touch({GroupOf[q]})
    BY DEF Reconcile
  <2>2. rw' \in Rewrite
    BY <2>1, RowsFacts, TouchKeeps
  <2>3. QED
    BY <2>2, RowsFacts DEF Reconcile
<1>3. TypeOK'
  BY <1>1, <1>2, RowsFacts DEF TypeOK, ClaimGoes
<1>4. Started'
  BY <1>2, RowsFacts DEF Started
<1>5. Pointing'
  <2>1. key # NoPool
    BY <1>1, KeyFacts
  <2>2. QED
    BY <1>1, <2>1, RowsFacts DEF Pointing, Reconciled, ClaimGoes
<1>6. /\ \A k \in Keys : pool[k].count <= pool'[k].count
      /\ pool'[key].count > 0
  <2>1. \A k \in Keys : From(k, {q}) = {}
    BY <1>1, KeyFacts DEF From
  <2>2. Fiber({q}, To(key), key) # {}
    BY DEF Fiber, To
  <2>3. {q} \in SUBSET Requests
    OBVIOUS
  <2>4. QED
    BY <1>1, <2>1, <2>2, <2>3, RowsFacts, ShiftFacts
<1>7. PoolRows'
  <2>1. ASSUME NEW r \in Requests, claim'[r].status = "reconciled", group'[GroupOf[r]].state = "hot"
        PROVE  \/ /\ claim[r].status = "reconciled" /\ group[GroupOf[r]].state = "hot"
                  /\ claim'[r].ptr = claim[r].ptr
               \/ claim'[r].ptr \in Keys /\ pool'[claim'[r].ptr].count > 0
    BY <1>1, <1>2, <1>6, <2>1 DEF ClaimGoes
  <2>2. QED
    BY <1>1, <1>6, <2>1, KeptPoolRows
<1>8. QED
  BY <1>3, <1>4, <1>5, <1>7 DEF RowsStep

LEMMA WorkRows ==
    ASSUME Rows, Work
    PROVE  RowsStep
<1>1. ASSUME NEW w \in Workers, NEW q \in Requests, Lease(w, q)
      PROVE  RowsStep
  <2>1. ClaimGoes(q, claim[q].status, claim[q].ptr)
    BY <1>1, RowsFacts, LeaseGoes
  <2>2. UNCHANGED <<group, pool, lineage, rw, lost, overlapped>>
        /\ worker' \in [Workers -> SUBSET Requests]
    BY <1>1, RowsFacts DEF Lease
  <2>3. QED
    BY <2>1, <2>2, UncountedRows
<1>2. ASSUME NEW w \in Workers, NEW q \in Requests, Retry(w, q) \/ Finish(w, q)
      PROVE  RowsStep
  <2>1. PICK s \in {"pending", "failed"} : ClaimGoes(q, s, claim[q].ptr)
    BY <1>2, RowsFacts, SettleGoes
  <2>2. UNCHANGED <<group, pool, lineage, rw, lost, overlapped>>
        /\ worker' \in [Workers -> SUBSET Requests]
    BY <1>2, RowsFacts DEF Retry, Finish
  <2>3. claim[q].status = "pending"
    BY <1>2, RowsFacts DEF Retry, Finish, Holds, LeasedIsPending
  <2>4. s # "reconciled"
    OBVIOUS
  <2>5. QED
    BY <2>1, <2>2, <2>3, <2>4, UncountedRows
<1>3. ASSUME NEW w \in Workers, GiveUp(w)
      PROVE  RowsStep
  BY <1>3, RowsFacts, SameRows DEF GiveUp
<1>4. ASSUME NEW q \in Requests, LeaseExpires(q)
      PROVE  RowsStep
  <2>1. ClaimGoes(q, claim[q].status, claim[q].ptr)
    BY <1>4, RowsFacts, LeaseExpiresGoes
  <2>2. UNCHANGED <<group, pool, lineage, rw, lost, overlapped>>
        /\ worker' \in [Workers -> SUBSET Requests]
    BY <1>4, RowsFacts DEF LeaseExpires
  <2>3. QED
    BY <2>1, <2>2, UncountedRows
<1>5. QED
  BY <1>1, <1>2, <1>3, <1>4, ReconcileRows DEF Work

-----------------------------------------------------------------------------
(* Rows are kept: expiry                                                     *)

GapsOf(g) == Amount(0, 0, Cardinality(WithStatus(g, "failed")))

LEMMA GapsFacts ==
    ASSUME NEW g
    PROVE  /\ GapsOf(g) \in Amounts /\ GapsOf(g).total = 0 /\ GapsOf(g).count = 0
           /\ GapsOf(g).gaps = Cardinality(WithStatus(g, "failed"))
           /\ IsFiniteSet(WithStatus(g, "failed"))
<1>1. IsFiniteSet(WithStatus(g, "failed"))
  BY WithStatusFacts, PartsAreFinite
<1>2. Cardinality(WithStatus(g, "failed")) \in Nat
  BY <1>1, FS_CardinalityType
<1>3. QED
  BY <1>1, <1>2 DEF GapsOf, Amount, Amounts

LEMMA FinalizeFacts ==
    ASSUME Rows, NEW g \in Groups, FinalizeGroup(g)
    PROVE  LET done == WithStatus(g, "reconciled")
               key == KeyOf(g)
               gap == GapKey(CommitsOf(g))
               mid == Shift(Movers(done, key), To(key))
           IN  /\ group[g].state = "hot"
               /\ key \in Keys /\ key.gap = FALSE /\ gap \in Keys /\ gap.gap = TRUE /\ key # gap
               /\ MayShift(Movers(done, key)) /\ mid \in [Keys -> Amounts] /\ ApartIn(mid)
               /\ MayMaterialize(done, key)
               /\ pool' \in [Keys -> Amounts] /\ ApartIn(pool')
               /\ \A k \in Keys : pool'[k] = IF k = gap THEN Plus(mid[k], GapsOf(g)) ELSE mid[k]
               /\ ClaimsGo(Status, Dropped(PtrTo(done, key), pool'))
               /\ Points(Status, PtrTo(done, key))
<1> DEFINE done == WithStatus(g, "reconciled")
           key == KeyOf(g)
           gap == GapKey(CommitsOf(g))
           mid == Shift(Movers(done, key), To(key))
<1>1. group[g].state = "hot"
  BY DEF FinalizeGroup, Hot
<1>2. key \in Keys /\ key.gap = FALSE /\ gap \in Keys
  BY <1>1, RowsFacts, KeyOfGroup
<1>3. gap.gap = TRUE /\ key # gap
  BY <1>2, KeyFacts
<1>4. MayMaterialize(done, key)
      /\ pool' = [Materialized(done, key) EXCEPT ![gap] = Plus(@, GapsOf(g))]
  BY DEF FinalizeGroup, KeyOf, GapsOf
<1>5. ClaimsGo(Status, Dropped(PtrTo(done, key), pool'))
  <2>1. key \in Ptrs
    BY <1>2 DEF Ptrs
  <2>2. QED
    BY <2>1, RowsFacts, FinalizeClaims
<1>6. done \in SUBSET Requests /\ \A q \in done : claim[q].status = "reconciled"
  BY WithStatusFacts
<1> HIDE DEF done, key, gap
<1>7. /\ MayShift(Movers(done, key)) /\ mid \in [Keys -> Amounts] /\ ApartIn(mid)
      /\ Materialized(done, key) = mid
  BY <1>2, <1>4, <1>6, MaterializedRows
<1> HIDE DEF mid
<1>8. pool' = Given(mid, gap, Plus(mid[gap], GapsOf(g)))
  BY <1>2, <1>4, <1>7 DEF Given
<1>9. GapsOf(g) \in Amounts /\ Apart(gap, GapsOf(g))
  BY <1>3, GapsFacts DEF Apart
<1>10. /\ pool' \in [Keys -> Amounts] /\ ApartIn(pool')
       /\ \A k \in Keys : pool'[k] = IF k = gap THEN Plus(mid[gap], GapsOf(g)) ELSE mid[k]
  BY <1>2, <1>7, <1>8, <1>9, PoolGrows
<1>11. Points(Status, PtrTo(done, key))
  BY <1>2, <1>6, RowsFacts, PtrToPoints
<1>12. QED
  BY <1>1, <1>2, <1>3, <1>4, <1>5, <1>7, <1>10, <1>11 DEF done, key, gap, mid

LEMMA FinalizeRows ==
    ASSUME Rows, NEW g \in Groups, FinalizeGroup(g)
    PROVE  RowsStep
<1>0. PICK ptr : /\ pool' \in [Keys -> Amounts] /\ ApartIn(pool')
                 /\ ClaimsGo(Status, Dropped(ptr, pool'))
                 /\ Points(Status, ptr)
  BY FinalizeFacts
<1>1. GroupGoes(g, "final", group[g].alloc, group[g].usage) /\ group[g].state = "hot"
  BY RowsFacts, ExpiryGroupGoes DEF FinalizeGroup, Hot
<1>2. Pointing' /\ PoolRows'
  BY <1>0, DroppedRows
<1>3. lineage' = lineage /\ rw' \in Rewrite /\ worker' = worker /\ lost' = lost /\ overlapped' = overlapped
  <2>1. Touch({g})
    BY DEF FinalizeGroup
  <2>2. rw' \in Rewrite
    BY <2>1, RowsFacts, TouchKeeps
  <2>3. QED
    BY <2>2 DEF FinalizeGroup
<1>4. TypeOK'
  BY <1>0, <1>1, <1>3, RowsFacts DEF TypeOK, GroupGoes, ClaimsGo
<1>5. group[g].alloc # <<>>
  BY <1>1, RowsFacts DEF Started
<1>6. Started'
  BY <1>1, <1>5, RowsFacts, StartedStep
<1>7. QED
  BY <1>2, <1>4, <1>6 DEF RowsStep

LEMMA ExpiryRows ==
    ASSUME Rows, Expiry
    PROVE  RowsStep
<1>1. ASSUME NEW g \in Groups, GrowsOld(g)
      PROVE  RowsStep
  <2>1. GroupGoes(g, "hot", group[g].alloc, group[g].usage) /\ group[g].state = "hot"
    BY <1>1, RowsFacts, ExpiryGroupGoes DEF GrowsOld, Hot
  <2>2. UNCHANGED <<claim, pool, lineage, rw, worker, lost, overlapped>>
    BY <1>1 DEF GrowsOld
  <2>3. \A h \in Groups : /\ group'[h].state = group[h].state
                          /\ group'[h].alloc = group[h].alloc
    BY <2>1 DEF GroupGoes
  <2>4. group' \in [Groups -> Group]
    BY <2>1 DEF GroupGoes
  <2>5. QED
    BY <2>2, <2>3, <2>4, RowsFacts, SameRows
<1>2. ASSUME Cleanup
      PROVE  RowsStep
  <2> DEFINE due == {g \in Groups : Hot(g) /\ group[g].age = "expired"}
  <2>1. UNCHANGED <<claim, pool, lineage, worker, lost, overlapped>> /\ Touch(due)
    BY <1>2 DEF Cleanup
  <2> HIDE DEF due
  <2>2. rw' \in Rewrite
    BY <2>1, RowsFacts, TouchKeeps
  <2>3. /\ group' \in [Groups -> Group]
        /\ \A g \in Groups : /\ group'[g].alloc = group[g].alloc
                             /\ group'[g].state # group[g].state =>
                                   group[g].state = "hot" /\ group'[g].state = "dropped"
    BY <1>2, RowsFacts, CleanupGoes
  <2>4. \A g \in Groups : /\ group'[g].state # "none" => group'[g].alloc = group[g].alloc
                                                         /\ group[g].state # "none"
                          /\ group'[g].state = "hot" => group[g].state = "hot"
    <3> TAKE g \in Groups
    <3>1. CASE group'[g].state = group[g].state
      BY <2>3, <3>1
    <3>2. CASE group'[g].state # group[g].state
      BY <2>3, <3>2
    <3>3. QED
      BY <3>1, <3>2
  <2>5. QED
    BY <2>1, <2>2, <2>3, <2>4, RowsFacts, SameRows
<1>3. QED
  BY <1>1, <1>2, FinalizeRows DEF Expiry

-----------------------------------------------------------------------------
(* Rows are kept: rewrites                                                   *)

LEMMA PairsFacts ==
    ASSUME TypeOK
    PROVE  /\ lineage \in SUBSET Pairs
           /\ \A r \in Rewrites : r \in Pairs /\ r[1] \in Commits /\ r[2] \in Commits /\ r[1] # r[2]
                                  /\ lineage \cup {r} \in SUBSET Pairs
<1>1. Rewrites \subseteq {r \in Commits \X Commits : r[1] # r[2]}
  BY AttributionLedgerAssumption
<1>2. lineage \subseteq Rewrites
  BY DEF TypeOK
<1>3. QED
  BY <1>1, <1>2 DEF Pairs

LEMMA BeginFacts ==
    ASSUME Rows, NEW r \in Rewrites, RewriteBegin(r)
    PROVE  /\ rw' \in Rewrite /\ rw'.pc = "groups" /\ rw'.old = r[1]
           /\ rw'.new = Terminal(lineage', r[2]) /\ rw'.targets = Using(r[1])
           /\ rw'.raced = rw.raced /\ rw'.held = rw.held /\ rw'.todo = rw.todo
           /\ lineage' = lineage \cup {r} /\ lineage' \subseteq Rewrites
           /\ UNCHANGED <<group, claim, pool, worker, lost, overlapped>>
<1>1. lineage' = lineage \cup {r} /\ UNCHANGED <<group, claim, pool, worker, lost, overlapped>>
  BY DEF RewriteBegin
<1>2. lineage' \in SUBSET Pairs /\ lineage' \subseteq Rewrites /\ r[1] \in Commits /\ r[2] \in Commits
  BY <1>1, RowsFacts, PairsFacts
<1>3. PICK n \in Commits : n = Terminal(lineage', r[2])
  BY <1>2, TerminalType
<1>4. PICK o \in Commits, t \in SUBSET Groups : o = r[1] /\ t = Using(r[1])
  BY <1>2 DEF Using
<1>5. rw' = [rw EXCEPT !.pc = "groups", !.old = o, !.new = n, !.targets = t]
  BY <1>3, <1>4 DEF RewriteBegin
<1>6. rw \in Rewrite
  BY RowsFacts
<1>7. QED
  BY <1>1, <1>2, <1>3, <1>4, <1>5, <1>6 DEF Rewrite

LEMMA ReadPoolFacts ==
    ASSUME Rows, NEW k \in Keys, ReadPool(k)
    PROVE  /\ rw' \in Rewrite /\ rw'.old = rw.old /\ rw'.new = rw.new /\ rw'.targets = rw.targets
           /\ rw'.raced = rw.raced /\ rw'.held = rw.held /\ rw.pc = "pools" /\ k \in rw.todo
           /\ \/ /\ Exists(k) /\ rw'.pc = "move" /\ rw'.key = k /\ rw'.sum = pool[k] /\ rw'.todo = rw.todo
              \/ /\ ~ Exists(k) /\ rw'.pc = "pools" /\ rw'.todo = rw.todo \ {k}
           /\ UNCHANGED <<group, claim, pool, lineage, worker, lost, overlapped>>
<1>1. rw \in Rewrite /\ pool[k] \in Amounts
  BY RowsFacts
<1>2. CASE Exists(k)
  <2>1. PICK x \in Amounts : x = pool[k]
    BY <1>1
  <2>2. rw' = [rw EXCEPT !.pc = "move", !.key = k, !.sum = x]
    BY <1>2, <2>1 DEF ReadPool
  <2>3. QED
    BY <1>1, <1>2, <2>1, <2>2 DEF Rewrite, ReadPool
<1>3. CASE ~ Exists(k)
  <2>1. rw' = [rw EXCEPT !.todo = @ \ {k}]
    BY <1>3 DEF ReadPool
  <2>2. QED
    BY <1>1, <1>3, <2>1 DEF Rewrite, ReadPool
<1>4. QED
  BY <1>2, <1>3

(* What is moved when the commits of groups are replaced.                    *)
LEMMA MovedFacts ==
    ASSUME Rows, RewriteGroups
    PROVE  /\ Moved \in SUBSET Requests /\ MayShift(Moved)
           /\ \A q \in Moved : /\ claim[q].status = "reconciled" /\ GroupOf[q] \in rw.targets
                               /\ claim[q].ptr \in Keys /\ claim[q].ptr.gap = FALSE
                               /\ ToNew[q] \in Keys /\ ToNew[q].gap = FALSE
                               /\ ToNew[q] = NewKey(GroupOf[q]) /\ claim[q].ptr # ToNew[q]
           /\ pool' = Shift(Moved, ToNew) /\ pool' \in [Keys -> Amounts] /\ ApartIn(pool')
<1> DEFINE moved == {q \in Requests : /\ GroupOf[q] \in rw.targets
                                      /\ claim[q].status = "reconciled"
                                      /\ claim[q].ptr # NewKey(GroupOf[q])}
           into(k) == {q \in moved : NewKey(GroupOf[q]) = k}
<1>1. \A q \in Requests : ToNew[q] = NewKey(GroupOf[q])
  BY DEF ToNew
<1>2. moved = Moved
  BY <1>1 DEF Moved
<1>3. /\ \A k \in {claim[q].ptr : q \in moved} : k # GonePool /\ CanTake(k, Official(From(k, moved)))
      /\ pool' = [k \in Keys |-> Plus(Minus(pool[k], Official(From(k, moved))), Official(into(k)))]
  BY DEF RewriteGroups, NewKey, Replaced
<1>4. Moved \in SUBSET Requests
      /\ \A q \in Moved : /\ claim[q].status = "reconciled" /\ GroupOf[q] \in rw.targets
                          /\ ToNew[q] = NewKey(GroupOf[q]) /\ claim[q].ptr # ToNew[q]
  BY <1>1 DEF Moved
<1>5. \A k : into(k) = Fiber(Moved, ToNew, k)
  BY <1>1, <1>2, <1>4 DEF Fiber
<1> HIDE DEF moved, into
<1>6. pool' = Shift(Moved, ToNew)
  BY <1>2, <1>3, <1>5 DEF Shift
<1>7. \A q \in Moved : /\ claim[q].ptr \in Keys /\ claim[q].ptr.gap = FALSE
                       /\ ToNew[q] \in Keys /\ ToNew[q].gap = FALSE
  <2> TAKE q \in Moved
  <2>1. claim[q].ptr # GonePool
    BY <1>2, <1>3
  <2>2. claim[q].ptr \in Ptrs /\ claim[q].ptr # NoPool /\ (claim[q].ptr.gap = TRUE => claim[q].ptr = GonePool)
    BY <1>4, RowsFacts DEF Points, Ptr, Status
  <2>3. claim[q].ptr \in Keys /\ claim[q].ptr.gap = FALSE
    BY <2>1, <2>2, KeyFacts DEF Ptrs
  <2>4. GroupOf[q] \in Groups /\ group[GroupOf[q]].state # "none"
    BY <1>4, RowsFacts, KeyOfRequest
  <2>5. group[GroupOf[q]].alloc # <<>>
    BY <2>4, RowsFacts DEF Started
  <2>6. Replaced(GroupOf[q]) \in Seq(Commits) /\ Replaced(GroupOf[q]) # <<>>
    BY <2>4, <2>5, RowsFacts, ReplacedFacts
  <2>7. NewKey(GroupOf[q]) \in Keys /\ NewKey(GroupOf[q]).gap = FALSE
    BY <2>6, SetOfCommits, KeyFacts DEF NewKey
  <2>8. QED
    BY <1>4, <2>3, <2>7
<1>8. MayShift(Moved)
  <2>1. SUFFICES ASSUME NEW k \in Keys, From(k, Moved) # {}
                 PROVE  CanTake(k, Official(From(k, Moved)))
    BY DEF MayShift
  <2>2. PICK q \in Moved : claim[q].ptr = k
    BY <2>1 DEF From
  <2>3. k \in {claim[p].ptr : p \in moved}
    BY <1>2, <2>2
  <2>4. QED
    BY <1>2, <1>3, <2>3
<1>9. pool' \in [Keys -> Amounts] /\ ApartIn(pool')
  <2>1. Shift(Moved, ToNew) \in [Keys -> Amounts]
    BY <1>4, <1>8, RowsFacts, ShiftFacts
  <2>2. ApartIn(Shift(Moved, ToNew))
    BY <1>4, <1>7, <1>8, RowsFacts, ShiftApart
  <2>3. QED
    BY <1>6, <2>1, <2>2
<1>10. QED
  BY <1>4, <1>6, <1>7, <1>8, <1>9

LEMMA RewriteGroupsFacts ==
    ASSUME Rows, RewriteGroups
    PROVE  /\ ClaimsGo(Status, Dropped(PtrNew, pool')) /\ Points(Status, PtrNew)
           /\ rw' \in Rewrite /\ rw.pc = "groups" /\ rw'.pc = "pools" /\ ~ rw.raced
           /\ rw'.old = rw.old /\ rw'.new = rw.new /\ rw'.targets = rw.targets /\ rw'.raced = rw.raced
           /\ rw'.todo = Affected(pool', rw.old)
           /\ UNCHANGED <<lineage, worker, lost, overlapped>>
<1>1. \A q \in Moved : /\ ToNew[q] \in Keys /\ ToNew[q].gap = FALSE
                       /\ claim[q].ptr \in Keys /\ claim[q].status = "reconciled"
  BY MovedFacts
<1>2. ClaimsGo(Status, Dropped(PtrNew, pool'))
  BY <1>1, RowsFacts, RewriteGroupsClaims DEF Ptrs
<1>3. Points(Status, PtrNew)
  <2>1. ASSUME NEW q \in Requests
        PROVE  /\ PtrNew[q] \in Ptrs
               /\ PtrNew[q] = NoPool <=> Status[q] # "reconciled"
               /\ PtrNew[q].gap = TRUE => PtrNew[q] = GonePool
    <3>1. PtrNew[q] = IF q \in Moved THEN ToNew[q] ELSE Ptr[q]
      BY DEF PtrNew, Ptr
    <3>2. CASE q \in Moved
      <4>1. PtrNew[q] \in Keys /\ PtrNew[q].gap = FALSE /\ Status[q] = "reconciled"
        BY <1>1, <3>1, <3>2 DEF Status
      <4>2. QED
        BY <4>1, KeyFacts DEF Ptrs
    <3>3. CASE q \notin Moved
      BY <3>1, <3>3, RowsFacts DEF Points
    <3>4. QED
      BY <3>2, <3>3
  <2>2. QED
    BY <2>1 DEF Points
<1>4. PICK held \in SUBSET Keys, todo \in SUBSET Keys :
         /\ rw' = [rw EXCEPT !.pc = "pools", !.held = held, !.todo = todo]
         /\ todo = Affected(pool', rw.old)
  <2> DEFINE moved == {q \in Requests : /\ GroupOf[q] \in rw.targets
                                        /\ claim[q].status = "reconciled"
                                        /\ claim[q].ptr # NewKey(GroupOf[q])}
             held == {claim[q].ptr : q \in moved} \cup {NewKey(GroupOf[q]) : q \in moved}
  <2>1. rw' = [rw EXCEPT !.pc = "pools", !.held = held, !.todo = Affected(pool', rw.old)]
    BY DEF RewriteGroups, NewKey, Replaced
  <2>2. \A q \in Requests : ToNew[q] = NewKey(GroupOf[q])
    BY DEF ToNew
  <2>3. moved = Moved
    BY <2>2 DEF Moved
  <2>4. \A q \in moved : claim[q].ptr \in Keys /\ NewKey(GroupOf[q]) \in Keys
    BY <1>1, <2>2, <2>3
  <2> HIDE DEF moved
  <2>5. held \in SUBSET Keys
    BY <2>4
  <2>6. Affected(pool', rw.old) \in SUBSET Keys
    BY DEF Affected
  <2> HIDE DEF held
  <2>7. QED
    BY <2>1, <2>5, <2>6
<1>5. rw \in Rewrite /\ rw.pc = "groups" /\ ~ rw.raced /\ UNCHANGED <<lineage, worker, lost, overlapped>>
  BY RowsFacts DEF RewriteGroups
<1>6. QED
  BY <1>2, <1>3, <1>4, <1>5 DEF Rewrite

(* The pool a rewrite moves what it has read to.                             *)
Target == [rw.key EXCEPT !.commits = Renamed(@, rw.old, rw.new)]

LEMMA RenamedSet ==
    ASSUME NEW S \in (SUBSET Commits) \ {{}}, NEW old \in Commits, NEW new \in Commits
    PROVE  Renamed(S, old, new) \in (SUBSET Commits) \ {{}}
BY DEF Renamed

LEMMA TargetFacts ==
    ASSUME Rows
    PROVE  /\ Target \in Keys /\ Target.gap = rw.key.gap
           /\ Target.commits = Renamed(rw.key.commits, rw.old, rw.new)
           /\ rw.key \in Keys /\ rw.sum \in Amounts /\ rw.old \in Commits /\ rw.new \in Commits
           /\ rw.targets \in SUBSET Groups /\ rw.todo \in SUBSET Keys /\ rw.held \in SUBSET Keys
           /\ rw.raced \in BOOLEAN
<1>1. rw \in Rewrite
  BY RowsFacts
<1>2. /\ rw.key \in Keys /\ rw.sum \in Amounts /\ rw.old \in Commits /\ rw.new \in Commits
      /\ rw.targets \in SUBSET Groups /\ rw.todo \in SUBSET Keys /\ rw.held \in SUBSET Keys
      /\ rw.raced \in BOOLEAN
  BY <1>1 DEF Rewrite
<1>3. rw.key.commits \in (SUBSET Commits) \ {{}}
  BY <1>2, KeyFacts
<1>4. PICK S \in (SUBSET Commits) \ {{}} : S = Renamed(rw.key.commits, rw.old, rw.new)
  BY <1>2, <1>3, RenamedSet
<1>5. Target = [rw.key EXCEPT !.commits = S]
  BY <1>4 DEF Target
<1>6. QED
  BY <1>2, <1>4, <1>5 DEF Keys

LEMMA MoveFacts ==
    ASSUME Rows, MovePool
    PROVE  /\ rw.pc = "move"
           /\ pool' = Given(pool, Target, Plus(pool[Target], rw.sum))
           /\ ClaimsGo(Status, PtrMoved(rw.key, Target))
           /\ rw' \in Rewrite /\ rw'.pc = "delete" /\ rw'.old = rw.old /\ rw'.new = rw.new
           /\ rw'.targets = rw.targets /\ rw'.raced = rw.raced /\ rw'.todo = rw.todo
           /\ rw'.key = rw.key /\ rw'.sum = rw.sum
           /\ UNCHANGED <<group, lineage, worker, lost, overlapped>>
<1>1. Target \in Keys /\ rw.held \in SUBSET Keys /\ rw \in Rewrite
  BY RowsFacts, TargetFacts
<1>2. /\ rw.pc = "move" /\ pool' = [pool EXCEPT ![Target] = Plus(@, rw.sum)]
      /\ claim' = PointersMoved(rw.key, Target)
      /\ rw' = [rw EXCEPT !.pc = "delete", !.held = @ \cup {Target}]
      /\ UNCHANGED <<group, lineage, worker, lost, overlapped>>
  BY DEF MovePool, Target
<1>3. pool' = Given(pool, Target, Plus(pool[Target], rw.sum))
  BY <1>1, <1>2, RowsFacts DEF Given
<1>4. ClaimsGo(Status, PtrMoved(rw.key, Target))
  BY <1>1, <1>2, RowsFacts, PointersMovedRows DEF Ptrs
<1>5. PICK h \in SUBSET Keys : h = rw.held \cup {Target}
  BY <1>1
<1>6. rw' = [rw EXCEPT !.pc = "delete", !.held = h]
  BY <1>2, <1>5
<1>7. /\ rw' \in Rewrite /\ rw'.pc = "delete" /\ rw'.old = rw.old /\ rw'.new = rw.new
      /\ rw'.targets = rw.targets /\ rw'.raced = rw.raced /\ rw'.todo = rw.todo
      /\ rw'.key = rw.key /\ rw'.sum = rw.sum
  BY <1>1, <1>6 DEF Rewrite
<1>8. QED
  BY <1>2, <1>3, <1>4, <1>7

LEMMA DeleteFacts ==
    ASSUME Rows, DeletePool
    PROVE  /\ rw.pc = "delete"
           /\ pool' = Given(pool, rw.key, Zero)
           /\ lost' = Given(lost, rw.key, Plus(lost[rw.key], Minus(pool[rw.key], rw.sum)))
           /\ ClaimsGo(Status, PtrMoved(rw.key, GonePool))
           /\ rw' \in Rewrite /\ rw'.pc = "pools" /\ rw'.old = rw.old /\ rw'.new = rw.new
           /\ rw'.targets = rw.targets /\ rw'.raced = rw.raced /\ rw'.todo = rw.todo \ {rw.key}
           /\ rw'.key = rw.key /\ rw'.sum = rw.sum
           /\ UNCHANGED <<group, lineage, worker, overlapped>>
<1>1. rw.key \in Keys /\ rw.held \in SUBSET Keys /\ rw.todo \in SUBSET Keys /\ rw \in Rewrite
  BY RowsFacts, TargetFacts
<1>2. /\ rw.pc = "delete" /\ pool' = [pool EXCEPT ![rw.key] = Zero]
      /\ lost' = [lost EXCEPT ![rw.key] = Plus(@, Minus(pool[rw.key], rw.sum))]
      /\ claim' = PointersMoved(rw.key, GonePool)
      /\ rw' = [rw EXCEPT !.pc = "pools", !.held = @ \cup {rw.key}, !.todo = @ \ {rw.key}]
      /\ UNCHANGED <<group, lineage, worker, overlapped>>
  BY DEF DeletePool
<1>3. /\ pool' = Given(pool, rw.key, Zero)
      /\ lost' = Given(lost, rw.key, Plus(lost[rw.key], Minus(pool[rw.key], rw.sum)))
  BY <1>1, <1>2, RowsFacts DEF Given
<1>4. ClaimsGo(Status, PtrMoved(rw.key, GonePool))
  BY <1>1, <1>2, RowsFacts, PointersMovedRows DEF Ptrs
<1>5. PICK h \in SUBSET Keys, t \in SUBSET Keys : h = rw.held \cup {rw.key} /\ t = rw.todo \ {rw.key}
  BY <1>1
<1>6. rw' = [rw EXCEPT !.pc = "pools", !.held = h, !.todo = t]
  BY <1>2, <1>5
<1>7. /\ rw' \in Rewrite /\ rw'.pc = "pools" /\ rw'.old = rw.old /\ rw'.new = rw.new
      /\ rw'.targets = rw.targets /\ rw'.raced = rw.raced /\ rw'.todo = rw.todo \ {rw.key}
      /\ rw'.key = rw.key /\ rw'.sum = rw.sum
  BY <1>1, <1>5, <1>6 DEF Rewrite
<1>8. QED
  BY <1>2, <1>3, <1>4, <1>7

(* Pointers to a pool move to another one of its kind, or to none.           *)
LEMMA MovedPoints ==
    ASSUME Rows, NEW k \in Keys, NEW target \in Keys \cup {GonePool},
           target \in Keys => target.gap = k.gap
    PROVE  Points(Status, PtrMoved(k, target))
<1>1. ASSUME NEW q \in Requests
      PROVE  /\ PtrMoved(k, target)[q] \in Ptrs
             /\ PtrMoved(k, target)[q] = NoPool <=> Status[q] # "reconciled"
             /\ PtrMoved(k, target)[q].gap = TRUE => PtrMoved(k, target)[q] = GonePool
  <2>1. /\ Ptr[q] = claim[q].ptr /\ Ptr[q] \in Ptrs /\ (Ptr[q] = NoPool <=> Status[q] # "reconciled")
        /\ Ptr[q].gap = TRUE => Ptr[q] = GonePool
    BY RowsFacts DEF Points, Ptr
  <2>2. CASE claim[q].ptr = k /\ Stored(q)
    <3>1. PtrMoved(k, target)[q] = target
      BY <2>2 DEF PtrMoved
    <3>2. k # NoPool /\ k.gap = FALSE /\ Status[q] = "reconciled"
      BY <2>1, <2>2, KeyFacts
    <3>3. target \in Ptrs /\ target # NoPool /\ (target.gap = TRUE => target = GonePool)
      BY <3>2, KeyFacts DEF Ptrs
    <3>4. QED
      BY <3>1, <3>2, <3>3
  <2>3. CASE ~ (claim[q].ptr = k /\ Stored(q))
    <3>1. PtrMoved(k, target)[q] = Ptr[q]
      BY <2>1, <2>3 DEF PtrMoved
    <3>2. QED
      BY <2>1, <3>1
  <2>4. QED
    BY <2>2, <2>3
<1>2. QED
  BY <1>1 DEF Points

LEMMA MoveRows ==
    ASSUME Rows, Takes, MovePool
    PROVE  RowsStep
<1>1. /\ Target \in Keys /\ Target.gap = rw.key.gap /\ rw.key \in Keys /\ rw.sum \in Amounts
  BY TargetFacts
<1>2. Apart(rw.key, rw.sum) /\ rw.sum.count + rw.sum.gaps > 0
  BY MoveFacts DEF Takes, Taking
<1>3. Apart(Target, rw.sum)
  BY <1>1, <1>2 DEF Apart
<1>4. /\ pool' \in [Keys -> Amounts] /\ ApartIn(pool')
      /\ \A j \in Keys : pool'[j] = IF j = Target THEN Plus(pool[Target], rw.sum) ELSE pool[j]
      /\ \A j \in Keys : pool[j].count <= pool'[j].count
  BY <1>1, <1>3, MoveFacts, RowsFacts, PoolGrows
<1>5. Points(Status, PtrMoved(rw.key, Target))
  BY <1>1, MovedPoints
<1>6. ClaimsGo(Status, PtrMoved(rw.key, Target)) /\ UNCHANGED <<group, lineage, worker, lost, overlapped>>
      /\ rw' \in Rewrite
  BY MoveFacts
<1>7. Pointing'
  BY <1>5, <1>6, PointingStep
<1>8. ASSUME NEW q \in Requests, claim'[q].status = "reconciled", group'[GroupOf[q]].state = "hot"
      PROVE  \/ /\ claim[q].status = "reconciled" /\ group[GroupOf[q]].state = "hot"
                /\ claim'[q].ptr = claim[q].ptr
             \/ claim'[q].ptr \in Keys /\ pool'[claim'[q].ptr].count > 0
  <2>1. claim[q].status = "reconciled" /\ group[GroupOf[q]].state = "hot"
        /\ claim'[q].ptr = PtrMoved(rw.key, Target)[q]
    BY <1>6, <1>8 DEF ClaimsGo, Status
  <2>2. CASE claim[q].ptr = rw.key /\ Stored(q)
    <3>1. claim'[q].ptr = Target
      BY <2>1, <2>2 DEF PtrMoved
    <3>2. rw.key.gap = FALSE
      BY <1>1, <2>2, RowsFacts, KeyFacts DEF Pointing
    <3>3. rw.sum.count > 0
      <4>1. rw.sum.gaps = 0
        BY <1>2, <3>2 DEF Apart
      <4>2. rw.sum.count \in Nat
        BY <1>1 DEF Amounts
      <4>3. QED
        BY <1>2, <4>1, <4>2
    <3>4. PICK p \in Amounts, x \in Amounts : p = pool[Target] /\ x = rw.sum
      BY <1>1, RowsFacts
    <3>5. pool'[Target].count = p.count + x.count /\ p.count \in Nat /\ x.count \in Nat
      BY <1>1, <1>4, <3>4, AmountFacts
    <3>6. QED
      BY <1>1, <3>1, <3>3, <3>4, <3>5
  <2>3. CASE ~ (claim[q].ptr = rw.key /\ Stored(q))
    BY <2>1, <2>3 DEF PtrMoved
  <2>4. QED
    BY <2>2, <2>3
<1>9. PoolRows'
  BY <1>4, <1>8, KeptPoolRows
<1>10. TypeOK' /\ Started'
  BY <1>4, <1>6, RowsFacts DEF TypeOK, ClaimsGo, Started
<1>11. QED
  BY <1>7, <1>9, <1>10 DEF RowsStep

LEMMA DeleteRows ==
    ASSUME Rows, DeletePool
    PROVE  RowsStep
<1>1. rw.key \in Keys /\ rw.sum \in Amounts
  BY TargetFacts
<1>2. Zero \in Amounts /\ Apart(rw.key, Zero)
  BY ZeroFacts DEF Apart
<1>3. /\ pool' \in [Keys -> Amounts] /\ ApartIn(pool') /\ pool'[rw.key] = Zero
      /\ \A j \in Keys : j # rw.key => pool'[j] = pool[j]
  BY <1>1, <1>2, DeleteFacts, RowsFacts, OnePool
<1>4. /\ ClaimsGo(Status, PtrMoved(rw.key, GonePool)) /\ rw' \in Rewrite
      /\ UNCHANGED <<group, lineage, worker, overlapped>>
      /\ lost' = Given(lost, rw.key, Plus(lost[rw.key], Minus(pool[rw.key], rw.sum)))
  BY DeleteFacts
<1>5. Points(Status, PtrMoved(rw.key, GonePool))
  BY <1>1, MovedPoints, KeyFacts
<1>6. Pointing'
  BY <1>4, <1>5, PointingStep
<1>7. ASSUME NEW q \in Requests, claim'[q].status = "reconciled", group'[GroupOf[q]].state = "hot",
             claim'[q].ptr # GonePool
      PROVE  pool'[claim'[q].ptr].count > 0
  <2>1. claim[q].status = "reconciled" /\ group[GroupOf[q]].state = "hot"
        /\ claim'[q].ptr = PtrMoved(rw.key, GonePool)[q]
    BY <1>4, <1>7 DEF ClaimsGo, Status
  <2>2. Stored(q) /\ Counted(q)
    BY <2>1 DEF Stored, Counted, Reconciled, Hot
  <2>3. claim[q].ptr # rw.key /\ claim'[q].ptr = claim[q].ptr
    BY <1>7, <2>1, <2>2 DEF PtrMoved
  <2>4. pool[claim[q].ptr].count > 0
    BY <1>7, <2>2, <2>3, RowsFacts DEF PoolRows
  <2>5. claim[q].ptr \in Keys
    BY <1>7, <2>1, <2>3, RowsFacts DEF Points, Ptr, Status, Ptrs
  <2>6. QED
    BY <1>3, <2>3, <2>4, <2>5
<1>8. PoolRows'
  BY <1>3, <1>7 DEF PoolRows, ApartIn, Counted, Reconciled, Stored, Hot
<1>9. lost' \in [Keys -> [total : Int, count : Int, gaps : Int]]
  <2>1. PICK p \in Amounts, x \in Amounts : p = pool[rw.key] /\ x = rw.sum
    BY <1>1, RowsFacts
  <2>2. p \in [total : Int, count : Int, gaps : Int] /\ x \in [total : Int, count : Int, gaps : Int]
    BY AmountsClosed
  <2>3. PICK y \in [total : Int, count : Int, gaps : Int] : y = Plus(lost[rw.key], Minus(pool[rw.key], rw.sum))
    BY <1>1, <2>1, <2>2, RowsFacts, AmountsClosed
  <2>4. QED
    BY <1>4, <2>3, RowsFacts DEF Given
<1>10. TypeOK' /\ Started'
  BY <1>3, <1>4, <1>9, RowsFacts DEF TypeOK, ClaimsGo, Started
<1>11. QED
  BY <1>6, <1>8, <1>10 DEF RowsStep

LEMMA RewriteGroupsRows ==
    ASSUME Rows, RewriteGroups
    PROVE  RowsStep
<1>1. pool' \in [Keys -> Amounts] /\ ApartIn(pool')
  BY MovedFacts
<1>2. ClaimsGo(Status, Dropped(PtrNew, pool')) /\ Points(Status, PtrNew) /\ rw' \in Rewrite
      /\ UNCHANGED <<lineage, worker, lost, overlapped>>
  BY RewriteGroupsFacts
<1>3. Pointing' /\ PoolRows'
  BY <1>1, <1>2, DroppedRows
<1>4. /\ group' \in [Groups -> Group]
      /\ \A g \in Groups : /\ group'[g].state = group[g].state
                           /\ group'[g].alloc = IF g \in rw.targets THEN Replaced(g)
                                                                    ELSE group[g].alloc
  BY RowsFacts, RewriteGroupsGoes
<1>5. Started'
  BY <1>4, RowsFacts, ReplacedFacts DEF Started
<1>6. TypeOK'
  BY <1>1, <1>2, <1>4, RowsFacts DEF TypeOK, ClaimsGo
<1>7. QED
  BY <1>3, <1>5, <1>6 DEF RowsStep

(* Steps that only the transaction's own state, or the lineage, tells.       *)
LEMMA PlainRows ==
    ASSUME Rows, UNCHANGED <<group, claim, pool, worker, lost, overlapped>>,
           lineage' \subseteq Rewrites, rw' \in Rewrite
    PROVE  RowsStep
BY RowsFacts DEF RowsStep, TypeOK, Started, Pointing, PoolRows, Counted, Stored, Reconciled, Hot

LEMMA RewritingRows ==
    ASSUME Rows, Takes, Rewriting
    PROVE  RowsStep
<1>1. ASSUME NEW r \in Rewrites, RewriteBegin(r)
      PROVE  RowsStep
  BY <1>1, BeginFacts, PlainRows
<1>2. ASSUME NEW k \in Keys, ReadPool(k)
      PROVE  RowsStep
  BY <1>2, ReadPoolFacts, RowsFacts, PlainRows
<1>3. ASSUME RewriteFails \/ RewriteCommit
      PROVE  RowsStep
  <2>1. RewriteEnd /\ UNCHANGED <<group, claim, pool, lineage, worker, lost, overlapped>>
    BY <1>3 DEF RewriteFails, RewriteCommit
  <2>2. rw' \in Rewrite
    BY <2>1, RowsFacts, EndFacts
  <2>3. QED
    BY <2>1, <2>2, RowsFacts, PlainRows
<1>4. QED
  BY <1>1, <1>2, <1>3, RewriteGroupsRows, MoveRows, DeleteRows DEF Rewriting

(* Nothing but a rewrite moves a rewrite on.                                 *)
RewriteWaits ==
    /\ rw' \in Rewrite
    /\ rw'.pc = rw.pc /\ rw'.old = rw.old /\ rw'.new = rw.new /\ rw'.targets = rw.targets
    /\ rw'.held = rw.held /\ rw'.todo = rw.todo /\ rw'.key = rw.key /\ rw'.sum = rw.sum
    /\ UNCHANGED <<lineage, lost>>

LEMMA OthersWait ==
    ASSUME TypeOK, Ingest \/ Work \/ Expiry \/ UNCHANGED vars
    PROVE  RewriteWaits
<1>1. ASSUME UNCHANGED <<rw, lineage, lost>>
      PROVE  RewriteWaits
  BY <1>1 DEF RewriteWaits, TypeOK
<1>2. ASSUME NEW gs, Touch(gs), UNCHANGED <<lineage, lost>>
      PROVE  RewriteWaits
  BY <1>2, TouchKeeps DEF RewriteWaits
<1>3. CASE Ingest
  <2>1. ASSUME NEW g \in RelayGroups, NEW alloc \in Snapshots(g), NEW qs \in SUBSET Members(g),
               IngestRelayNew(g, alloc, qs) \/ IngestRelayMore(g, alloc, qs)
        PROVE  RewriteWaits
    BY <1>1, <1>2, <2>1 DEF IngestRelayNew, IngestRelayMore
  <2>2. ASSUME NEW g \in LocalGroups, NEW alloc \in Snapshots(g), NEW u \in Usages,
               IngestLocalNew(g, alloc, u) \/ IngestLocalMore(g, alloc, u)
        PROVE  RewriteWaits
    BY <1>1, <1>2, <2>2 DEF IngestLocalNew, IngestLocalMore
  <2>3. QED
    BY <1>3, <2>1, <2>2 DEF Ingest
<1>4. CASE Work
  <2>1. ASSUME NEW w \in Workers, NEW q \in Requests, Lease(w, q) \/ Retry(w, q) \/ Finish(w, q)
        PROVE  RewriteWaits
    BY <1>1, <2>1 DEF Lease, Retry, Finish
  <2>2. ASSUME NEW w \in Workers, NEW q \in Requests, Reconcile(w, q)
        PROVE  RewriteWaits
    BY <1>2, <2>2 DEF Reconcile
  <2>3. ASSUME NEW w \in Workers, GiveUp(w)
        PROVE  RewriteWaits
    BY <1>1, <2>3 DEF GiveUp
  <2>4. ASSUME NEW q \in Requests, LeaseExpires(q)
        PROVE  RewriteWaits
    BY <1>1, <2>4 DEF LeaseExpires
  <2>5. QED
    BY <1>4, <2>1, <2>2, <2>3, <2>4 DEF Work
<1>5. CASE Expiry
  <2>1. ASSUME NEW g \in Groups, GrowsOld(g)
        PROVE  RewriteWaits
    BY <1>1, <2>1 DEF GrowsOld
  <2>2. ASSUME NEW g \in Groups, FinalizeGroup(g)
        PROVE  RewriteWaits
    BY <1>2, <2>2 DEF FinalizeGroup
  <2>3. ASSUME Cleanup
        PROVE  RewriteWaits
    BY <1>2, <2>3 DEF Cleanup
  <2>4. QED
    BY <1>5, <2>1, <2>2, <2>3 DEF Expiry
<1>6. CASE UNCHANGED vars
  BY <1>1, <1>6 DEF vars
<1>7. QED
  BY <1>3, <1>4, <1>5, <1>6

LEMMA TakesStep ==
    ASSUME Rows, Takes, [Next]_vars
    PROVE  Takes'
<1>1. CASE Ingest \/ Work \/ Expiry \/ UNCHANGED vars
  BY <1>1, RowsFacts, OthersWait DEF RewriteWaits, Takes, Taking
<1>2. ASSUME NEW r \in Rewrites, RewriteBegin(r)
      PROVE  Takes'
  BY <1>2, BeginFacts DEF Takes, Taking
<1>3. ASSUME NEW k \in Keys, ReadPool(k)
      PROVE  Takes'
  <2>1. Apart(k, pool[k])
    BY RowsFacts DEF ApartIn
  <2>2. QED
    BY <1>3, <2>1, ReadPoolFacts DEF Takes, Taking, Exists
<1>4. ASSUME RewriteGroups
      PROVE  Takes'
  BY <1>4, RewriteGroupsFacts DEF Takes, Taking
<1>5. ASSUME RewriteFails \/ RewriteCommit
      PROVE  Takes'
  BY <1>5, RowsFacts, EndFacts DEF RewriteFails, RewriteCommit, Takes, Taking
<1>6. ASSUME MovePool
      PROVE  Takes'
  BY <1>6, MoveFacts DEF Takes, Taking
<1>7. ASSUME DeletePool
      PROVE  Takes'
  BY <1>7, DeleteFacts DEF Takes, Taking
<1>8. QED
  BY <1>1, <1>2, <1>3, <1>4, <1>5, <1>6, <1>7 DEF Next, Rewriting

LEMMA IngestRows ==
    ASSUME Rows, Ingest
    PROVE  RowsStep
BY RelayNewRows, RelayMoreRows, LocalNewRows, LocalMoreRows DEF Ingest

LEMMA RowsForm ==
    ASSUME Rows
    PROVE  Forms
<1>1. claim \in [Requests -> Claim] /\ group \in [Groups -> Group]
  BY RowsFacts
<1>2. \A c \in Claim : IsClaim(c)
  BY ClaimInSets DEF Claim
<1>3. \A r \in Group : IsGroup(r)
  BY GroupInSets DEF Group
<1>4. QED
  BY <1>1, <1>2, <1>3 DEF Forms

(* The rows of all tables, and what no finalization leaves.                  *)
Tables == Rows /\ NothingLeftBehind /\ Takes

LEMMA TablesStep ==
    ASSUME Tables, [Next]_vars
    PROVE  Tables'
<1>1. Rows /\ NothingLeftBehind /\ Takes
  BY DEF Tables
<1>2. IInv
  BY <1>1, RowsForm DEF IInv, Rows
<1>3. IInv'
  BY <1>2, NextLawful, LawfulKeeps
<1>4. Takes'
  BY <1>1, TakesStep
<1>5. RowsStep
  <2>1. CASE UNCHANGED vars
    BY <1>1, <2>1, RowsFacts, PlainRows DEF vars
  <2>2. QED
    BY <1>1, <2>1, IngestRows, WorkRows, ExpiryRows, RewritingRows DEF Next
<1>6. QED
  BY <1>3, <1>4, <1>5 DEF Tables, Rows, RowsStep, IInv

LEMMA TablesBegin ==
    ASSUME Init
    PROVE  Tables
<1>1. Zero \in Amounts /\ Zero.total = 0 /\ Zero.count = 0 /\ Zero.gaps = 0
  BY ZeroFacts
<1>2. Zero \in [total : Int, count : Int, gaps : Int]
  BY <1>1 DEF Amounts
<1>3. <<>> \in Seq(Commits)
  OBVIOUS
<1>4. group \in [Groups -> Group] /\ \A g \in Groups : group[g].state = "none"
  <2>1. [state |-> "none", alloc |-> <<>>, usage |-> 0, age |-> "young"] \in Group
    BY <1>3 DEF Group
  <2>2. QED
    BY <2>1 DEF Init
<1>5. claim \in [Requests -> Claim]
      /\ \A q \in Requests : claim[q].status = "none" /\ claim[q].ptr = NoPool /\ claim[q].lease = {}
  <2>1. [status |-> "none", lease |-> {}, live |-> FALSE, ptr |-> NoPool] \in Claim
    BY DEF Claim
  <2>2. QED
    BY <2>1 DEF Init
<1>6. pool \in [Keys -> Amounts] /\ (\A k \in Keys : pool[k] = Zero)
      /\ lost \in [Keys -> [total : Int, count : Int, gaps : Int]]
  BY <1>1, <1>2 DEF Init
<1>7. rw \in Rewrite /\ rw.pc = "idle"
  <2>1. PICK c \in Commits, k \in Keys, z \in Amounts :
            /\ rw = [pc |-> "idle", old |-> c, new |-> c, targets |-> {}, raced |-> FALSE,
                     held |-> {}, todo |-> {}, key |-> k, sum |-> z]
    BY <1>1, SomeKey DEF Init
  <2>2. QED
    BY <2>1 DEF Rewrite
<1>8. lineage \subseteq Rewrites /\ worker \in [Workers -> SUBSET Requests] /\ overlapped \in BOOLEAN
  BY DEF Init
<1>9. TypeOK
  BY <1>4, <1>5, <1>6, <1>7, <1>8 DEF TypeOK
<1>10. LeasedIsPending /\ NoneBeforeGroup /\ Started /\ NothingLeftBehind
  <2>1. \A q \in Requests : GroupOf[q] \in Groups
    BY AttributionLedgerAssumption DEF Groups
  <2>2. QED
    BY <1>4, <1>5, <2>1 DEF LeasedIsPending, NoneBeforeGroup, Started, NothingLeftBehind
<1>11. Pointing
  BY <1>5, KeyFacts DEF Pointing, Reconciled
<1>12. PoolRows
  BY <1>1, <1>5, <1>6 DEF PoolRows, Apart, Counted, Reconciled
<1>13. QED
  BY <1>7, <1>9, <1>10, <1>11, <1>12 DEF Tables, Rows, Takes, Taking

(* Whatever is ingested, looked up, rewritten and finalized in whatever      *)
(* order, the rows of the tables have their types: no total, no count and no *)
(* number of gaps goes below zero, a group with a row has commits, and a     *)
(* reconciled request of a hot group points to a pool in which something is  *)
(* counted, or to none after its pool was deleted.                           *)
THEOREM TypesHold == Spec => [](TypeOK /\ PoolRows)
<1>1. Init => Tables
  BY TablesBegin
<1>2. Tables /\ [Next]_vars => Tables'
  BY TablesStep
<1>3. Tables => TypeOK /\ PoolRows
  BY DEF Tables, Rows
<1>4. QED
  BY <1>1, <1>2, <1>3, PTL DEF Spec
=============================================================================
