------------------------------ MODULE DifferProofs ------------------------------
(***************************************************************************)
(* The diff of two turns is exact, whatever the two turns are.  Sums and   *)
(* recursive functions are reasoned about by a smallest counterexample:    *)
(* the longest common run and what lies to its left and right, the order   *)
(* of equal blocks in `_reconcile_moves`, the token columns.               *)
(***************************************************************************)
EXTENDS Differ, FiniteSetTheorems, TLAPS

(* A set of naturals that is not empty has a least member. *)
LEMMA LeastNat ==
  ASSUME NEW S \in SUBSET Nat, S # {}
  PROVE  \E n \in S : \A m \in S : n <= m
<1>1. PICK n \in S : \A m \in S : ~(<<m, n>> \in OpToRel(<, Nat))
  BY NatLessThanWellFounded, WFMin
<1>2. \A m \in S : ~(m < n)
  BY <1>1 DEF OpToRel
<1>3. QED
  BY <1>2

(* A set of subsets of a finite set has one that contains no other. *)
LEMMA LeastSubset ==
  ASSUME NEW S, IsFiniteSet(S), NEW family \in SUBSET (SUBSET S), family # {}
  PROVE  \E T \in family : \A U \in family : U \subseteq T => U = T
<1> DEFINE sizes == {Cardinality(T) : T \in family}
<1>1. \A T \in family : IsFiniteSet(T) /\ Cardinality(T) \in Nat
  BY FS_Subset, FS_CardinalityType
<1>2. sizes \in SUBSET Nat /\ sizes # {}
  BY <1>1
<1>3. PICK n \in sizes : \A m \in sizes : n <= m
  BY <1>2, LeastNat
<1>4. PICK T \in family : n = Cardinality(T)
  OBVIOUS
<1>5. ASSUME NEW U \in family, U \subseteq T PROVE U = T
  <2>1. Cardinality(U) <= Cardinality(T)
    BY <1>1, <1>5, FS_Subset
  <2>2. Cardinality(T) <= Cardinality(U)
    BY <1>3, <1>4
  <2>3. QED
    BY <1>1, <1>5, <2>1, <2>2, FS_Subset
<1>6. QED
  BY <1>5

(* A bounded set of naturals has a maximum.                                  *)
LEMMA MaxIs ==
  ASSUME NEW n \in Nat, NEW S \in SUBSET (0..n), S # {}
  PROVE  Max(S) \in S /\ Max(S) \in Nat /\ \A y \in S : y <= Max(S)
<1> DEFINE Rest == {n - x : x \in S}
<1>0. \A x \in S : x \in Nat /\ x <= n
  OBVIOUS
<1>1. Rest \subseteq Nat /\ Rest # {}
  <2>1. \A x \in S : n - x \in Nat
    BY <1>0
  <2>2. QED
    BY <2>1
<1>2. IsWellFoundedOn(OpToRel(<, Nat), Nat)
  BY NatLessThanWellFounded
<1>3. \E r \in Rest : \A y \in Rest : ~ (<<y, r>> \in OpToRel(<, Nat))
  BY <1>1, <1>2, WFMin
<1>4. PICK r \in Rest : \A y \in Rest : ~ (y < r)
  BY <1>1, <1>3 DEF OpToRel
<1>5. PICK x \in S : r = n - x
  BY <1>4
<1>6. \A y \in S : x >= y
  <2> SUFFICES ASSUME NEW y \in S PROVE x >= y
    OBVIOUS
  <2>1. ~ (n - y < n - x)
    BY <1>4, <1>5
  <2>2. QED
    BY <1>0, <2>1
<1>7. Max(S) \in S /\ \A y \in S : Max(S) >= y
  BY <1>5, <1>6 DEF Max
<1>8. QED
  BY <1>0, <1>7

-----------------------------------------------------------------------------
(* The recursion of `MapThenSumSet`: one element is taken and the rest is    *)
(* summed up before.                                                         *)
Picked(s) == CHOOSE x \in s : TRUE
Added(w, g, s) == IF s = {} THEN 0 ELSE w[Picked(s)] + g[s \ {Picked(s)}]

(* The sum of w over the members of S. *)
SumOf(w, S) == (CHOOSE g : g = [s \in SUBSET S |-> Added(w, g, s)])[S]

LEMMA PickedIsIn ==
  ASSUME NEW s, s # {}
  PROVE  Picked(s) \in s
BY DEF Picked

(* The recursion has a solution... *)
LEMMA SumExists ==
  ASSUME NEW w, NEW S, IsFiniteSet(S)
  PROVE  \E g : g = [s \in SUBSET S |-> Added(w, g, s)]
<1> DEFINE Small(n) == {s \in SUBSET S : Cardinality(s) <= n}
           Good(n) == \E g : g = [s \in Small(n) |-> Added(w, g, s)]
<1>1. \A s \in SUBSET S : IsFiniteSet(s) /\ Cardinality(s) \in Nat /\ (Cardinality(s) = 0 <=> s = {})
  BY FS_Subset, FS_CardinalityType, FS_EmptySet
<1>2. Good(0)
  <2> DEFINE h == [s \in Small(0) |-> 0]
  <2>1. \A s \in Small(0) : s = {}
    BY <1>1
  <2>2. h = [s \in Small(0) |-> Added(w, h, s)]
    BY <2>1 DEF Added
  <2>3. QED
    BY <2>2
<1>3. ASSUME NEW n \in Nat, Good(n) PROVE Good(n + 1)
  <2>1. PICK g : g = [s \in Small(n) |-> Added(w, g, s)]
    BY <1>3
  <2> DEFINE h == [s \in Small(n + 1) |-> Added(w, g, s)]
  <2>2. ASSUME NEW s \in Small(n + 1) PROVE Added(w, h, s) = Added(w, g, s)
    <3>1. CASE s = {}
      BY <3>1 DEF Added
    <3>2. CASE s # {}
      <4> DEFINE t == s \ {Picked(s)}
      <4>1. Picked(s) \in s
        BY <3>2, PickedIsIn
      <4>2. t \in SUBSET S /\ Cardinality(t) = Cardinality(s) - 1
        BY <1>1, <4>1, FS_RemoveElement
      <4>3. t \in Small(n) /\ t \in Small(n + 1)
        BY <1>1, <4>2
      <4>4. h[t] = g[t]
        BY <2>1, <4>3
      <4>5. QED
        BY <4>4 DEF Added
    <3>3. QED
      BY <3>1, <3>2
  <2>3. h = [s \in Small(n + 1) |-> Added(w, h, s)]
    BY <2>2
  <2>4. QED
    BY <2>3
<1>4. \A n \in Nat : Good(n)
  <2> DEFINE Bad == {n \in Nat : ~Good(n)}
  <2> SUFFICES ASSUME Bad # {} PROVE FALSE
    OBVIOUS
  <2>1. PICK n \in Bad : \A m \in Bad : n <= m
    BY LeastNat
  <2> HIDE DEF Good
  <2>2. n # 0
    BY <1>2
  <2>3. n - 1 \in Nat /\ Good(n - 1)
    BY <2>1, <2>2
  <2>4. QED
    BY <1>3, <2>3
<1>5. Good(Cardinality(S)) /\ Small(Cardinality(S)) = SUBSET S
  BY <1>1, <1>4, FS_Subset
<1>6. QED
  BY <1>5

(* ...and no other: whatever satisfies the recursion computes the sum. *)
LEMMA SumIs ==
  ASSUME NEW w, NEW S, IsFiniteSet(S), NEW h, \A s \in SUBSET S : h[s] = Added(w, h, s)
  PROVE  h[S] = SumOf(w, S)
<1>1. \E g : SumOf(w, S) = g[S] /\ \A s \in SUBSET S : g[s] = Added(w, g, s)
  <2> DEFINE G == CHOOSE g : g = [s \in SUBSET S |-> Added(w, g, s)]
  <2>1. G = [s \in SUBSET S |-> Added(w, G, s)]
    BY SumExists
  <2>2. SumOf(w, S) = G[S]
    BY DEF SumOf
  <2> HIDE DEF G
  <2>3. QED
    BY <2>1, <2>2
<1>2. PICK g : SumOf(w, S) = g[S] /\ \A s \in SUBSET S : g[s] = Added(w, g, s)
  BY <1>1
<1> DEFINE Bad == {s \in SUBSET S : g[s] # h[s]}
<1>3. SUFFICES ASSUME Bad # {} PROVE FALSE
  BY <1>2
<1>4. PICK s \in Bad : \A t \in Bad : t \subseteq s => t = s
  <2>1. Bad \in SUBSET (SUBSET S)
    OBVIOUS
  <2> HIDE DEF Bad
  <2>2. QED
    BY <1>3, <2>1, LeastSubset
<1>5. g[s] = Added(w, g, s) /\ h[s] = Added(w, h, s)
  BY <1>2
<1>6. s # {}
  BY <1>5 DEF Added
<1>7. Picked(s) \in s
  BY <1>6, PickedIsIn
<1>8. g[s \ {Picked(s)}] = h[s \ {Picked(s)}]
  BY <1>4, <1>7
<1>9. QED
  BY <1>5, <1>8 DEF Added

(* What a sum is, with the element that CHOOSE takes first. *)
LEMMA SumRecursion ==
  ASSUME NEW w, NEW S, IsFiniteSet(S)
  PROVE  /\ S = {} => SumOf(w, S) = 0
         /\ S # {} => SumOf(w, S) = w[Picked(S)] + SumOf(w, S \ {Picked(S)})
<1> DEFINE G == CHOOSE g : g = [s \in SUBSET S |-> Added(w, g, s)]
           R == S \ {Picked(S)}
<1>1. \A s \in SUBSET S : G[s] = Added(w, G, s)
  <2>1. G = [s \in SUBSET S |-> Added(w, G, s)]
    BY SumExists
  <2> HIDE DEF G
  <2>2. QED
    BY <2>1
<1>2. IsFiniteSet(R) /\ R \subseteq S
  BY FS_Subset
<1>3. SumOf(w, S) = G[S]
  BY DEF SumOf
<1> HIDE DEF G
<1>4. SumOf(w, R) = G[R]
  <2>1. \A s \in SUBSET R : G[s] = Added(w, G, s)
    BY <1>1, <1>2
  <2> HIDE DEF R
  <2>2. QED
    BY <1>2, <2>1, SumIs
<1>5. G[S] = Added(w, G, S)
  BY <1>1
<1>6. QED
  BY <1>3, <1>4, <1>5 DEF Added

(* A sum of naturals is a natural number. *)
LEMMA SumIsNat ==
  ASSUME NEW w, NEW S, IsFiniteSet(S), \A x \in S : w[x] \in Nat
  PROVE  SumOf(w, S) \in Nat
<1> DEFINE Bad == {T \in SUBSET S : SumOf(w, T) \notin Nat}
<1>1. SUFFICES ASSUME Bad # {} PROVE FALSE
  OBVIOUS
<1>2. PICK T \in Bad : \A U \in Bad : U \subseteq T => U = T
  <2>1. Bad \in SUBSET (SUBSET S)
    OBVIOUS
  <2> HIDE DEF Bad
  <2>2. QED
    BY <1>1, <2>1, LeastSubset
<1>3. T \in SUBSET S /\ IsFiniteSet(T) /\ SumOf(w, T) \notin Nat
  BY FS_Subset
<1>4. T # {}
  <2>1. SumOf(w, {}) = 0
    BY FS_EmptySet, SumRecursion
  <2>2. QED
    BY <1>3, <2>1
<1>5. Picked(T) \in T
  BY <1>4, PickedIsIn
<1>6. SumOf(w, T \ {Picked(T)}) \in Nat
  BY <1>2, <1>3, <1>5
<1>7. w[Picked(T)] \in Nat
  BY <1>3, <1>5
<1>8. QED
  BY <1>3, <1>4, <1>6, <1>7, SumRecursion

(* Any element may be taken first. *)
LEMMA SumRemove ==
  ASSUME NEW w, NEW S, IsFiniteSet(S), \A x \in S : w[x] \in Nat, NEW y \in S
  PROVE  SumOf(w, S) = w[y] + SumOf(w, S \ {y})
<1> DEFINE Bad == {T \in SUBSET S : \E x \in T : SumOf(w, T) # w[x] + SumOf(w, T \ {x})}
<1>1. SUFFICES ASSUME Bad # {} PROVE FALSE
  OBVIOUS
<1>2. PICK T \in Bad : \A U \in Bad : U \subseteq T => U = T
  <2>1. Bad \in SUBSET (SUBSET S)
    OBVIOUS
  <2> HIDE DEF Bad
  <2>2. QED
    BY <1>1, <2>1, LeastSubset
<1>3. PICK x \in T : SumOf(w, T) # w[x] + SumOf(w, T \ {x})
  OBVIOUS
<1> DEFINE c == Picked(T)
           Both == (T \ {c}) \ {x}
<1>4. c \in T
  BY PickedIsIn
<1>5. SumOf(w, T) = w[c] + SumOf(w, T \ {c})
  BY <1>4, FS_Subset, SumRecursion
<1>6. x # c
  BY <1>3, <1>5
<1>7. /\ SumOf(w, T \ {c}) = w[x] + SumOf(w, Both)
      /\ SumOf(w, T \ {x}) = w[c] + SumOf(w, Both)
  <2>1. T \ {c} \in SUBSET S /\ T \ {c} \subseteq T /\ T \ {c} # T /\ x \in T \ {c}
    BY <1>4, <1>6
  <2>2. T \ {x} \in SUBSET S /\ T \ {x} \subseteq T /\ T \ {x} # T /\ c \in T \ {x}
    BY <1>4, <1>6
  <2>3. T \ {c} \notin Bad /\ T \ {x} \notin Bad
    BY <1>2, <2>1, <2>2
  <2>4. (T \ {x}) \ {c} = Both
    OBVIOUS
  <2>5. QED
    BY <2>1, <2>2, <2>3, <2>4
<1>8. w[x] \in Nat /\ w[c] \in Nat /\ SumOf(w, Both) \in Nat
  <2>1. Both \in SUBSET S
    OBVIOUS
  <2>2. QED
    BY <1>4, <2>1, SumIsNat, FS_Subset
<1> HIDE DEF Bad, c, Both
<1>9. QED
  BY <1>3, <1>5, <1>7, <1>8

(* Sums over disjoint sets add up. *)
LEMMA SumUnion ==
  ASSUME NEW w, NEW S, IsFiniteSet(S), NEW T, IsFiniteSet(T), S \cap T = {},
         \A x \in S \cup T : w[x] \in Nat
  PROVE  SumOf(w, S \cup T) = SumOf(w, S) + SumOf(w, T)
<1> DEFINE Bad == {U \in SUBSET T : SumOf(w, S \cup U) # SumOf(w, S) + SumOf(w, U)}
<1>1. SUFFICES ASSUME Bad # {} PROVE FALSE
  OBVIOUS
<1>2. PICK U \in Bad : \A V \in Bad : V \subseteq U => V = U
  <2>1. Bad \in SUBSET (SUBSET T)
    OBVIOUS
  <2> HIDE DEF Bad
  <2>2. QED
    BY <1>1, <2>1, LeastSubset
<1>3. U \in SUBSET T /\ IsFiniteSet(U) /\ SumOf(w, S \cup U) # SumOf(w, S) + SumOf(w, U)
  BY FS_Subset
<1>4. SumOf(w, S) \in Nat
  BY SumIsNat
<1>5. U # {}
  <2>1. SumOf(w, {}) = 0
    BY FS_EmptySet, SumRecursion
  <2>2. S \cup {} = S
    OBVIOUS
  <2>3. QED
    BY <1>3, <1>4, <2>1, <2>2
<1>6. PICK x \in U : TRUE
  BY <1>5
<1> DEFINE V == U \ {x}
<1>7. V \in SUBSET T /\ V \subseteq U /\ V # U
  OBVIOUS
<1>8. SumOf(w, S \cup V) = SumOf(w, S) + SumOf(w, V)
  BY <1>2, <1>7
<1>9. SumOf(w, U) = w[x] + SumOf(w, V)
  BY <1>3, SumRemove
<1>10. SumOf(w, S \cup U) = w[x] + SumOf(w, S \cup V)
  <2>1. IsFiniteSet(S \cup U)
    BY <1>3, FS_Union
  <2>2. (S \cup U) \ {x} = S \cup V
    BY <1>3
  <2>3. QED
    BY <1>3, <2>1, <2>2, SumRemove
<1>11. w[x] \in Nat /\ SumOf(w, V) \in Nat
  <2>1. IsFiniteSet(V)
    BY <1>7, FS_Subset
  <2>2. QED
    BY <1>3, <1>7, <2>1, SumIsNat
<1> HIDE DEF V, Bad
<1>12. QED
  BY <1>3, <1>4, <1>8, <1>9, <1>10, <1>11

LEMMA SidesAreFinite ==
  ASSUME NEW pairs, IsFiniteSet(pairs)
  PROVE  IsFiniteSet(Firsts(pairs)) /\ IsFiniteSet(Seconds(pairs))
<1>1. [p \in pairs |-> p[1]] \in Surjection(pairs, Firsts(pairs))
  BY DEF Firsts, Surjection
<1>2. [p \in pairs |-> p[2]] \in Surjection(pairs, Seconds(pairs))
  BY DEF Seconds, Surjection
<1>3. QED
  BY <1>1, <1>2, FS_Surjection

(* Equal summands, one by one, make equal sums. *)
LEMMA SumAgrees ==
  ASSUME NEW v, NEW w, NEW pairs, IsFiniteSet(pairs),
         \A p \in pairs : v[p[1]] = w[p[2]] /\ v[p[1]] \in Nat,
         \A p, q \in pairs : p[1] = q[1] \/ p[2] = q[2] => p = q
  PROVE  SumOf(v, Firsts(pairs)) = SumOf(w, Seconds(pairs))
<1> DEFINE Bad == {U \in SUBSET pairs : SumOf(v, Firsts(U)) # SumOf(w, Seconds(U))}
<1>1. SUFFICES ASSUME Bad # {} PROVE FALSE
  OBVIOUS
<1>2. PICK U \in Bad : \A V \in Bad : V \subseteq U => V = U
  <2>1. Bad \in SUBSET (SUBSET pairs)
    OBVIOUS
  <2> HIDE DEF Bad
  <2>2. QED
    BY <1>1, <2>1, LeastSubset
<1>3. U \in SUBSET pairs /\ IsFiniteSet(U) /\ SumOf(v, Firsts(U)) # SumOf(w, Seconds(U))
  BY FS_Subset
<1>4. IsFiniteSet(Firsts(U)) /\ IsFiniteSet(Seconds(U))
  BY <1>3, SidesAreFinite
<1>5. U # {}
  <2>1. SumOf(v, {}) = 0 /\ SumOf(w, {}) = 0
    BY FS_EmptySet, SumRecursion
  <2>2. Firsts({}) = {} /\ Seconds({}) = {}
    BY DEF Firsts, Seconds
  <2>3. QED
    BY <1>3, <2>1, <2>2
<1>6. PICK p \in U : TRUE
  BY <1>5
<1> DEFINE V == U \ {p}
<1>7. SumOf(v, Firsts(V)) = SumOf(w, Seconds(V))
  <2>1. V \in SUBSET pairs /\ V \subseteq U /\ V # U
    BY <1>3
  <2>2. QED
    BY <1>2, <2>1
<1>8. Firsts(U) \ {p[1]} = Firsts(V) /\ Seconds(U) \ {p[2]} = Seconds(V)
  BY <1>3 DEF Firsts, Seconds
<1>9. SumOf(v, Firsts(U)) = v[p[1]] + SumOf(v, Firsts(V))
  <2>1. p[1] \in Firsts(U) /\ \A x \in Firsts(U) : v[x] \in Nat
    BY <1>3 DEF Firsts
  <2>2. SumOf(v, Firsts(U)) = v[p[1]] + SumOf(v, Firsts(U) \ {p[1]})
    BY <1>4, <2>1, SumRemove
  <2>3. QED
    BY <1>8, <2>2
<1>10. SumOf(w, Seconds(U)) = w[p[2]] + SumOf(w, Seconds(V))
  <2>1. p[2] \in Seconds(U) /\ \A x \in Seconds(U) : w[x] \in Nat
    BY <1>3 DEF Seconds
  <2>2. SumOf(w, Seconds(U)) = w[p[2]] + SumOf(w, Seconds(U) \ {p[2]})
    BY <1>4, <2>1, SumRemove
  <2>3. QED
    BY <1>8, <2>2
<1>11. v[p[1]] = w[p[2]]
  BY <1>3
<1>12. QED
  BY <1>3, <1>7, <1>9, <1>10, <1>11

(* The tokens of a context are such a sum. *)
Weights(context) == [i \in DOMAIN context |-> Tokens[context[i]]]

LEMMA CostIsSum ==
  ASSUME NEW context, NEW S, IsFiniteSet(S), S \subseteq DOMAIN context
  PROVE  Cost(context, S) = SumOf(Weights(context), S)
<1> DEFINE w == Weights(context)
           Body(g, s) == IF s = {} THEN 0
                         ELSE Tokens[context[CHOOSE x \in s : TRUE]]
                                + g[s \ {CHOOSE x \in s : TRUE}]
           C == CHOOSE g : g = [s \in SUBSET S |-> Body(g, s)]
<1>1. Cost(context, S) = C[S]
  BY DEF Cost, MapThenSumSet, MapThenFoldSet
<1>2. ASSUME NEW g, NEW s \in SUBSET S PROVE Body(g, s) = Added(w, g, s)
  <2>1. CASE s = {}
    BY <2>1 DEF Added
  <2>2. CASE s # {}
    <3>1. Picked(s) \in DOMAIN context
      BY <2>2, PickedIsIn
    <3>2. w[Picked(s)] = Tokens[context[Picked(s)]]
      BY <3>1 DEF Weights
    <3>3. QED
      BY <3>2 DEF Added, Picked
  <2>3. QED
    BY <2>1, <2>2
<1> HIDE DEF Body, w
<1>3. PICK g : g = [s \in SUBSET S |-> Added(w, g, s)]
  BY SumExists
<1>4. g = [s \in SUBSET S |-> Body(g, s)]
  BY <1>2, <1>3
<1>5. C = [s \in SUBSET S |-> Body(C, s)]
  BY <1>4
<1>6. \A s \in SUBSET S : C[s] = Added(w, C, s)
  <2> HIDE DEF C
  <2>1. QED
    BY <1>2, <1>5
<1> HIDE DEF C
<1>7. C[S] = SumOf(w, S)
  BY <1>6, SumIs
<1>8. QED
  BY <1>1, <1>7 DEF w

-----------------------------------------------------------------------------
(* The common runs of a region, and which of them `find_longest_match` takes.*)
CommonRuns(a, b, r) ==
  {m \in (r[1]..r[2]) \X (r[3]..r[4]) \X (1..Len(a)) :
     /\ m[1] + m[3] - 1 <= r[2]
     /\ m[2] + m[3] - 1 <= r[4]
     /\ \A d \in 0..(m[3] - 1) : a[m[1] + d] = b[m[2] + d]}

Precedes(m, n) == \/ m[3] > n[3]
                  \/ m[3] = n[3] /\ m[1] < n[1]
                  \/ m[3] = n[3] /\ m[1] = n[1] /\ m[2] <= n[2]

Longest(a, b, r) == LongestMatch(a, b, r[1], r[2], r[3], r[4])

LEMMA RegionType ==
  ASSUME NEW a \in Seq(Blocks), NEW b \in Seq(Blocks), NEW r \in Regions(a, b)
  PROVE  /\ Len(a) \in Nat /\ Len(b) \in Nat
         /\ r[1] \in Nat /\ r[2] \in Nat /\ r[3] \in Nat /\ r[4] \in Nat
         /\ r[1] >= 1 /\ r[1] <= Len(a) + 1 /\ r[2] <= Len(a)
         /\ r[3] >= 1 /\ r[3] <= Len(b) + 1 /\ r[4] <= Len(b)
BY DEF Regions

LEMMA RunType ==
  ASSUME NEW a \in Seq(Blocks), NEW b \in Seq(Blocks), NEW r \in Regions(a, b),
         NEW m \in CommonRuns(a, b, r)
  PROVE  /\ m[1] \in Nat /\ m[2] \in Nat /\ m[3] \in Nat
         /\ r[1] <= m[1] /\ m[1] <= r[2] /\ r[3] <= m[2] /\ m[2] <= r[4]
         /\ m[3] > 0 /\ m[3] <= Len(a)
         /\ m[1] + m[3] - 1 <= r[2] /\ m[2] + m[3] - 1 <= r[4]
         /\ \A d \in 0..(m[3] - 1) : a[m[1] + d] = b[m[2] + d]
<1>1. /\ m \in (r[1]..r[2]) \X (r[3]..r[4]) \X (1..Len(a))
      /\ m[1] + m[3] - 1 <= r[2] /\ m[2] + m[3] - 1 <= r[4]
      /\ \A d \in 0..(m[3] - 1) : a[m[1] + d] = b[m[2] + d]
  BY DEF CommonRuns
<1>2. m[1] \in r[1]..r[2] /\ m[2] \in r[3]..r[4] /\ m[3] \in 1..Len(a)
  BY <1>1
<1>3. QED
  BY <1>1, <1>2, RegionType

LEMMA RunExists ==
  ASSUME NEW a \in Seq(Blocks), NEW b \in Seq(Blocks), NEW r \in Regions(a, b),
         NEW x \in Nat, NEW y \in Nat, NEW k \in Nat, k > 0,
         r[1] <= x, x + k - 1 <= r[2], r[3] <= y, y + k - 1 <= r[4],
         \A d \in 0..(k - 1) : a[x + d] = b[y + d]
  PROVE  <<x, y, k>> \in CommonRuns(a, b, r)
<1>1. x \in r[1]..r[2] /\ y \in r[3]..r[4] /\ k \in 1..Len(a)
  BY RegionType
<1>2. QED
  BY <1>1 DEF CommonRuns

(* The longest run is one of them and comes before all others; without one   *)
(* the region has no block in common.                                        *)
LEMMA LongestIsRun ==
  ASSUME NEW a \in Seq(Blocks), NEW b \in Seq(Blocks), NEW r \in Regions(a, b),
         CommonRuns(a, b, r) # {}
  PROVE  /\ Longest(a, b, r) \in CommonRuns(a, b, r)
         /\ \A n \in CommonRuns(a, b, r) : Precedes(Longest(a, b, r), n)
<1> DEFINE runs == CommonRuns(a, b, r)
<1>1. Longest(a, b, r) = CHOOSE m \in runs : \A n \in runs : Precedes(m, n)
  BY DEF Longest, LongestMatch, CommonRuns, Precedes
<1>2. \A m \in runs : m[1] \in Nat /\ m[2] \in Nat /\ m[3] \in Nat /\ Len(a) - m[3] \in Nat
  BY RunType, RegionType
<1> HIDE DEF runs
<1>3. PICK n \in {Len(a) - m[3] : m \in runs} : \A k \in {Len(a) - m[3] : m \in runs} : n <= k
  <2>1. {Len(a) - m[3] : m \in runs} \in SUBSET Nat /\ {Len(a) - m[3] : m \in runs} # {}
    BY <1>2 DEF runs
  <2>2. QED
    BY <2>1, LeastNat
<1> DEFINE longest == {m \in runs : Len(a) - m[3] = n}
<1>4. PICK f \in {m[1] : m \in longest} : \A k \in {m[1] : m \in longest} : f <= k
  <2>1. {m[1] : m \in longest} \in SUBSET Nat /\ {m[1] : m \in longest} # {}
    BY <1>2, <1>3
  <2>2. QED
    BY <2>1, LeastNat
<1> DEFINE first == {m \in longest : m[1] = f}
<1>5. PICK g \in {m[2] : m \in first} : \A k \in {m[2] : m \in first} : g <= k
  <2>1. {m[2] : m \in first} \in SUBSET Nat /\ {m[2] : m \in first} # {}
    BY <1>2, <1>4
  <2>2. QED
    BY <2>1, LeastNat
<1>6. PICK m \in first : m[2] = g
  BY <1>5
<1>7. ASSUME NEW k \in runs PROVE Precedes(m, k)
  <2>1. m \in runs /\ m[1] = f /\ m[2] = g /\ Len(a) - m[3] = n
    BY <1>6
  <2>2. n <= Len(a) - k[3]
    BY <1>3
  <2>3. k[3] = m[3] => f <= k[1]
    BY <1>4, <2>1
  <2>4. k[3] = m[3] /\ k[1] = f => g <= k[2]
    BY <1>5, <2>1
  <2>5. QED
    BY <1>2, <2>1, <2>2, <2>3, <2>4 DEF Precedes
<1>8. \E k \in runs : \A l \in runs : Precedes(k, l)
  BY <1>6, <1>7
<1>9. Longest(a, b, r) \in runs /\ \A k \in runs : Precedes(Longest(a, b, r), k)
  BY <1>1, <1>8
<1>10. QED
  BY <1>9 DEF runs

LEMMA NoRun ==
  ASSUME NEW a \in Seq(Blocks), NEW b \in Seq(Blocks), NEW r \in Regions(a, b),
         Longest(a, b, r)[3] = 0
  PROVE  \A i \in r[1]..r[2], j \in r[3]..r[4] : a[i] # b[j]
<1> SUFFICES ASSUME NEW i \in r[1]..r[2], NEW j \in r[3]..r[4], a[i] = b[j] PROVE FALSE
  OBVIOUS
<1>1. i \in Nat /\ j \in Nat /\ r[1] <= i /\ i <= r[2] /\ r[3] <= j /\ j <= r[4]
  BY RegionType
<1>2. \A d \in 0..(1 - 1) : a[i + d] = b[j + d]
  BY <1>1
<1>3. <<i, j, 1>> \in CommonRuns(a, b, r)
  <2>1. i + 1 - 1 <= r[2] /\ j + 1 - 1 <= r[4] /\ 1 \in Nat /\ 1 > 0
    BY <1>1, RegionType
  <2>2. QED
    BY <1>1, <1>2, <2>1, RunExists
<1>4. Longest(a, b, r) \in CommonRuns(a, b, r)
  BY <1>3, LongestIsRun
<1>5. QED
  BY <1>4, RunType

LEMMA LongestFits ==
  ASSUME NEW a \in Seq(Blocks), NEW b \in Seq(Blocks), NEW r \in Regions(a, b),
         Longest(a, b, r)[3] # 0
  PROVE  Longest(a, b, r) \in CommonRuns(a, b, r)
<1>1. CommonRuns(a, b, r) = {} => Longest(a, b, r) = <<r[1], r[3], 0>>
  BY DEF Longest, LongestMatch, CommonRuns
<1>2. CommonRuns(a, b, r) # {}
  BY <1>1
<1>3. QED
  BY <1>2, LongestIsRun

(* The recursion of `Matched`. *)
LeftOf(r, m) == <<r[1], m[1] - 1, r[3], m[2] - 1>>
RightOf(r, m) == <<m[1] + m[3], r[2], m[2] + m[3], r[4]>>
RunOf(m) == {<<m[1] + d, m[2] + d>> : d \in 0..(m[3] - 1)}

Joint(a, b, M, r) ==
  LET m == Longest(a, b, r) IN
  IF m[3] = 0 THEN {} ELSE M[LeftOf(r, m)] \cup RunOf(m) \cup M[RightOf(r, m)]

(* The regions to the left and to the right of the run are regions, and      *)
(* smaller.                                                                  *)
Size(a, r) == Len(a) + 1 + r[2] - r[1]

LEMMA RegionsShrink ==
  ASSUME NEW a \in Seq(Blocks), NEW b \in Seq(Blocks), NEW r \in Regions(a, b),
         NEW m \in CommonRuns(a, b, r), NEW s \in {LeftOf(r, m), RightOf(r, m)}
  PROVE  s \in Regions(a, b) /\ Size(a, s) < Size(a, r)
<1>1. PICK x \in Nat, y \in Nat, k \in Nat : m[1] = x /\ m[2] = y /\ m[3] = k
  BY RunType
<1>2. /\ r[1] <= x /\ x <= r[2] /\ r[3] <= y /\ y <= r[4] /\ k > 0
      /\ x + k - 1 <= r[2] /\ y + k - 1 <= r[4]
  BY <1>1, RunType
<1>3. CASE s = LeftOf(r, m)
  <2>1. s = <<r[1], x - 1, r[3], y - 1>>
    BY <1>1, <1>3 DEF LeftOf
  <2>2. x - 1 \in 0..Len(a) /\ y - 1 \in 0..Len(b)
    BY <1>2, RegionType
  <2>3. s \in Regions(a, b)
    BY <2>1, <2>2 DEF Regions
  <2>4. s[1] = r[1] /\ s[2] = x - 1
    BY <2>1
  <2>5. QED
    BY <1>2, <2>3, <2>4, RegionType DEF Size
<1>4. CASE s = RightOf(r, m)
  <2>1. s = <<x + k, r[2], y + k, r[4]>>
    BY <1>1, <1>4 DEF RightOf
  <2>2. x + k \in 1..(Len(a) + 1) /\ y + k \in 1..(Len(b) + 1)
    BY <1>2, RegionType
  <2>3. s \in Regions(a, b)
    BY <2>1, <2>2 DEF Regions
  <2>4. Size(a, s) = Len(a) + 1 + r[2] - (x + k)
    BY <2>1 DEF Size
  <2>5. Len(a) \in Nat /\ r[1] \in Nat /\ r[2] \in Nat
    BY RegionType
  <2>6. QED
    BY <1>2, <2>3, <2>4, <2>5 DEF Size
<1>5. QED
  BY <1>3, <1>4

LEMMA JointExists ==
  ASSUME NEW a \in Seq(Blocks), NEW b \in Seq(Blocks)
  PROVE  \E M : M = [r \in Regions(a, b) |-> Joint(a, b, M, r)]
<1> DEFINE Small(n) == {r \in Regions(a, b) : Size(a, r) < n}
           Good(n) == \E M : M = [r \in Small(n) |-> Joint(a, b, M, r)]
<1>1. \A r \in Regions(a, b) : Size(a, r) \in 0..(2 * Len(a))
  BY DEF Regions, Size
<1>2. Good(0)
  <2>1. Small(0) = {}
    BY <1>1
  <2> DEFINE M == [r \in {} |-> {}]
  <2>2. M = [r \in Small(0) |-> Joint(a, b, M, r)]
    BY <2>1
  <2>3. QED
    BY <2>2
<1>3. ASSUME NEW n \in Nat, Good(n) PROVE Good(n + 1)
  <2>1. PICK M : M = [r \in Small(n) |-> Joint(a, b, M, r)]
    BY <1>3
  <2> DEFINE N == [r \in Small(n + 1) |-> Joint(a, b, M, r)]
  <2>2. ASSUME NEW r \in Small(n + 1) PROVE Joint(a, b, N, r) = Joint(a, b, M, r)
    <3> DEFINE m == Longest(a, b, r)
               left == LeftOf(r, m)
               right == RightOf(r, m)
    <3>1. CASE m[3] = 0
      BY <3>1 DEF Joint
    <3>2. CASE m[3] # 0
      <4>1. \A s \in {left, right} : s \in Regions(a, b) /\ Size(a, s) < Size(a, r)
        BY <3>2, LongestFits, RegionsShrink
      <4> HIDE DEF left, right
      <4>2. \A s \in {left, right} : s \in Small(n) /\ s \in Small(n + 1)
        BY <1>1, <4>1
      <4>3. N[left] = M[left] /\ N[right] = M[right]
        BY <2>1, <4>2
      <4> HIDE DEF N
      <4>4. QED
        BY <4>3 DEF Joint, left, right
    <3>3. QED
      BY <3>1, <3>2
  <2>3. N = [r \in Small(n + 1) |-> Joint(a, b, N, r)]
    BY <2>2
  <2>4. QED
    BY <2>3
<1>4. \A n \in Nat : Good(n)
  <2> DEFINE Bad == {n \in Nat : ~Good(n)}
  <2> SUFFICES ASSUME Bad # {} PROVE FALSE
    OBVIOUS
  <2>1. PICK n \in Bad : \A k \in Bad : n <= k
    BY LeastNat
  <2> HIDE DEF Good
  <2>2. n # 0
    BY <1>2
  <2>3. n - 1 \in Nat /\ Good(n - 1)
    BY <2>1, <2>2
  <2>4. QED
    BY <1>3, <2>3
<1>5. 2 * Len(a) + 1 \in Nat /\ \A r \in Regions(a, b) : Size(a, r) < 2 * Len(a) + 1
  BY <1>1
<1>6. Small(2 * Len(a) + 1) = Regions(a, b)
  BY <1>5
<1> HIDE DEF Small
<1>7. QED
  BY <1>4, <1>5, <1>6

(* An alignment pairs off equal blocks of a region in order, and no equal    *)
(* blocks that face one another are left without a pair.                     *)
IsAlignment(a, b, alo, ahi, blo, bhi, M) ==
  /\ M \subseteq (alo..ahi) \X (blo..bhi)
  /\ \A p \in M : a[p[1]] = b[p[2]]
  /\ \A p, q \in M : p[1] < q[1] <=> p[2] < q[2]
  /\ \A i \in alo..ahi, j \in blo..bhi :
       (\A p \in M : p[1] # i /\ p[2] # j /\ (p[1] < i <=> p[2] < j)) => a[i] # b[j]

(* A run with an alignment to its left and one to its right is one.          *)
LEMMA AlignmentsJoin ==
  ASSUME NEW a, NEW b, NEW alo \in Nat, NEW ahi \in Nat, NEW blo \in Nat, NEW bhi \in Nat,
         NEW x \in alo..ahi, NEW y \in blo..bhi, NEW k \in Nat, k > 0,
         x + k - 1 <= ahi, y + k - 1 <= bhi,
         \A d \in 0..(k - 1) : a[x + d] = b[y + d],
         NEW L, IsAlignment(a, b, alo, x - 1, blo, y - 1, L),
         NEW R, IsAlignment(a, b, x + k, ahi, y + k, bhi, R),
         NEW run, run = {<<x + d, y + d>> : d \in 0..(k - 1)}
  PROVE  IsAlignment(a, b, alo, ahi, blo, bhi, L \cup run \cup R)
<1> DEFINE M == L \cup run \cup R
<1>1. /\ x \in Nat /\ y \in Nat /\ alo <= x /\ blo <= y /\ x <= ahi /\ y <= bhi
  OBVIOUS
<1>2. ASSUME NEW p \in L
      PROVE  /\ p \in (alo..ahi) \X (blo..bhi) /\ p[1] \in Nat /\ p[2] \in Nat
             /\ p[1] < x /\ p[2] < y /\ a[p[1]] = b[p[2]]
  <2>1. p \in (alo..(x - 1)) \X (blo..(y - 1)) /\ a[p[1]] = b[p[2]]
    BY DEF IsAlignment
  <2>2. QED
    BY <1>1, <2>1
<1>3. ASSUME NEW p \in R
      PROVE  /\ p \in (alo..ahi) \X (blo..bhi) /\ p[1] \in Nat /\ p[2] \in Nat
             /\ p[1] >= x + k /\ p[2] >= y + k /\ a[p[1]] = b[p[2]]
  <2>1. p \in ((x + k)..ahi) \X ((y + k)..bhi) /\ a[p[1]] = b[p[2]]
    BY DEF IsAlignment
  <2>2. QED
    BY <1>1, <2>1
<1>4. ASSUME NEW p \in run
      PROVE  /\ p \in (alo..ahi) \X (blo..bhi) /\ p[1] \in Nat /\ p[2] \in Nat
             /\ p[1] >= x /\ p[1] < x + k /\ p[2] = y + (p[1] - x) /\ a[p[1]] = b[p[2]]
  <2>1. PICK d \in 0..(k - 1) : p = <<x + d, y + d>>
    OBVIOUS
  <2>2. x + d \in alo..ahi /\ y + d \in blo..bhi /\ x + d \in Nat /\ y + d \in Nat
        /\ x + d >= x /\ x + d < x + k /\ (x + d) - x = d
    BY <1>1
  <2>3. a[x + d] = b[y + d]
    OBVIOUS
  <2>4. p[1] = x + d /\ p[2] = y + d
    BY <2>1
  <2>5. QED
    BY <2>1, <2>2, <2>3, <2>4
<1>5. \A p, q \in M : p[1] < q[1] <=> p[2] < q[2]
  <2>1. \A p, q \in L : p[1] < q[1] <=> p[2] < q[2]
    BY DEF IsAlignment
  <2>2. \A p, q \in R : p[1] < q[1] <=> p[2] < q[2]
    BY DEF IsAlignment
  <2>3. \A p, q \in run : p[1] < q[1] <=> p[2] < q[2]
    BY <1>1, <1>4
  <2>4. \A p \in L, q \in run \cup R : p[1] < q[1] /\ p[2] < q[2] /\ ~(q[1] < p[1]) /\ ~(q[2] < p[2])
    BY <1>1, <1>2, <1>3, <1>4
  <2>5. \A p \in run, q \in R : p[1] < q[1] /\ p[2] < q[2] /\ ~(q[1] < p[1]) /\ ~(q[2] < p[2])
    BY <1>1, <1>3, <1>4
  <2>6. QED
    BY <2>1, <2>2, <2>3, <2>4, <2>5
<1>6. ASSUME NEW i \in alo..ahi, NEW j \in blo..bhi,
             \A p \in M : p[1] # i /\ p[2] # j /\ (p[1] < i <=> p[2] < j)
      PROVE  a[i] # b[j]
  <2>1. i \in Nat /\ j \in Nat
    OBVIOUS
  <2>2. \A d \in 0..(k - 1) : x + d # i /\ y + d # j /\ (x + d < i <=> y + d < j)
    <3>1. \A d \in 0..(k - 1) : <<x + d, y + d>> \in M
      OBVIOUS
    <3>2. QED
      BY <1>6, <3>1
  <2>3. CASE i < x
    <3>1. j < y
      BY <1>1, <2>1, <2>2, <2>3, 0 \in 0..(k - 1)
    <3>2. i \in alo..(x - 1) /\ j \in blo..(y - 1)
      BY <1>1, <2>1, <2>3, <3>1
    <3>3. QED
      BY <1>6, <3>2 DEF IsAlignment
  <2>4. CASE i >= x + k
    <3>1. j >= y + k
      BY <1>1, <2>1, <2>2, <2>4, k - 1 \in 0..(k - 1)
    <3>2. i \in (x + k)..ahi /\ j \in (y + k)..bhi
      BY <1>1, <2>1, <2>4, <3>1
    <3>3. QED
      BY <1>6, <3>2 DEF IsAlignment
  <2>5. CASE i >= x /\ i < x + k
    <3>1. i - x \in 0..(k - 1) /\ x + (i - x) = i
      BY <1>1, <2>1, <2>5
    <3>2. QED
      BY <2>2, <3>1
  <2>6. QED
    BY <1>1, <2>1, <2>3, <2>4, <2>5
<1>7. M \subseteq (alo..ahi) \X (blo..bhi) /\ \A p \in M : a[p[1]] = b[p[2]]
  BY <1>2, <1>3, <1>4
<1> HIDE DEF M
<1>8. IsAlignment(a, b, alo, ahi, blo, bhi, M)
  BY <1>5, <1>6, <1>7 DEF IsAlignment
<1>9. QED
  BY <1>8 DEF M

LEMMA RegionsAlign ==
  ASSUME NEW a \in Seq(Blocks), NEW b \in Seq(Blocks),
         NEW M, \A r \in Regions(a, b) : M[r] = Joint(a, b, M, r)
  PROVE  \A r \in Regions(a, b) : IsAlignment(a, b, r[1], r[2], r[3], r[4], M[r])
<1> DEFINE Aligned(r) == IsAlignment(a, b, r[1], r[2], r[3], r[4], M[r])
<1>3. \A r \in Regions(a, b) : M[r] = Joint(a, b, M, r)
  OBVIOUS
<1>4. \A r \in Regions(a, b) : Size(a, r) \in Nat
  BY DEF Regions, Size
<1>5. \A r \in Regions(a, b) : Aligned(r)
  <2> DEFINE Bad == {r \in Regions(a, b) : ~Aligned(r)}
  <2>1. SUFFICES ASSUME Bad # {} PROVE FALSE
    OBVIOUS
  <2>2. PICK n \in {Size(a, r) : r \in Bad} : \A k \in {Size(a, r) : r \in Bad} : n <= k
    <3>1. {Size(a, r) : r \in Bad} \in SUBSET Nat /\ {Size(a, r) : r \in Bad} # {}
      BY <1>4, <2>1
    <3> HIDE DEF Bad
    <3>2. QED
      BY <3>1, LeastNat
  <2>3. PICK r \in Bad : n = Size(a, r)
    BY <2>2
  <2> DEFINE m == Longest(a, b, r)
             left == LeftOf(r, m)
             right == RightOf(r, m)
  <2>4. r \in Regions(a, b) /\ ~Aligned(r) /\ M[r] = Joint(a, b, M, r)
    BY <1>3
  <2>5. r[1] \in Nat /\ r[2] \in Nat /\ r[3] \in Nat /\ r[4] \in Nat
    BY <2>4, RegionType
  <2>6. CASE m[3] = 0
    <3>1. M[r] = {}
      BY <2>4, <2>6 DEF Joint
    <3>2. \A i \in r[1]..r[2], j \in r[3]..r[4] : a[i] # b[j]
      BY <2>4, <2>6, NoRun
    <3>3. QED
      BY <2>4, <3>1, <3>2 DEF IsAlignment
  <2>7. CASE m[3] # 0
    <3> DEFINE L == M[left]
               R == M[right]
               run == RunOf(m)
    <3>1. M[r] = L \cup run \cup R
      BY <2>4, <2>7 DEF Joint
    <3>2. m \in CommonRuns(a, b, r)
      BY <2>4, <2>7, LongestFits
    <3>3. ASSUME NEW s \in {left, right} PROVE Aligned(s)
      <4>1. s \in Regions(a, b) /\ Size(a, s) < Size(a, r)
        BY <2>4, <3>2, RegionsShrink
      <4>2. \A t \in Bad : n <= Size(a, t)
        BY <2>2
      <4>3. Size(a, s) \in Nat /\ Size(a, r) \in Nat /\ ~(n <= Size(a, s))
        BY <1>4, <2>3, <2>4, <4>1
      <4>4. QED
        BY <4>1, <4>2, <4>3
    <3>4. PICK x \in Nat, y \in Nat, k \in Nat : m[1] = x /\ m[2] = y /\ m[3] = k
      BY <2>4, <3>2, RunType
    <3>5. /\ x \in r[1]..r[2] /\ y \in r[3]..r[4] /\ k > 0
          /\ x + k - 1 <= r[2] /\ y + k - 1 <= r[4]
          /\ \A d \in 0..(k - 1) : a[x + d] = b[y + d]
      <4>1. /\ r[1] <= m[1] /\ m[1] <= r[2] /\ r[3] <= m[2] /\ m[2] <= r[4] /\ m[3] > 0
            /\ m[1] + m[3] - 1 <= r[2] /\ m[2] + m[3] - 1 <= r[4]
            /\ \A d \in 0..(m[3] - 1) : a[m[1] + d] = b[m[2] + d]
        BY <2>4, <3>2, RunType
      <4> HIDE DEF m
      <4>2. QED
        BY <2>5, <3>4, <4>1
    <3>6. /\ IsAlignment(a, b, r[1], x - 1, r[3], y - 1, L)
          /\ IsAlignment(a, b, x + k, r[2], y + k, r[4], R)
      <4>1. left = <<r[1], x - 1, r[3], y - 1>> /\ right = <<x + k, r[2], y + k, r[4]>>
        BY <3>4 DEF LeftOf, RightOf
      <4>2. Aligned(left) /\ Aligned(right)
        BY <3>3
      <4> HIDE DEF left, right
      <4>3. QED
        BY <4>1, <4>2
    <3>7. run = {<<x + d, y + d>> : d \in 0..(k - 1)}
      BY <3>4 DEF RunOf
    <3> HIDE DEF m, run, L, R
    <3>8. IsAlignment(a, b, r[1], r[2], r[3], r[4], L \cup run \cup R)
      <4>1. x \in Nat /\ y \in Nat /\ k \in Nat
        OBVIOUS
      <4>2. QED
        BY ONLY <2>5, <3>5, <3>6, <3>7, <4>1, AlignmentsJoin
    <3>9. QED
      BY <2>4, <3>1, <3>8
  <2>8. QED
    BY <2>6, <2>7
<1>6. QED
  BY <1>5

(* What `difflib` matches aligns the two contexts.                           *)
LEMMA MatchedAligns ==
  ASSUME NEW a \in Seq(Blocks), NEW b \in Seq(Blocks)
  PROVE  IsAlignment(a, b, 1, Len(a), 1, Len(b), Matched(a, b))
<1> DEFINE M == CHOOSE f : f = [r \in Regions(a, b) |-> Joint(a, b, f, r)]
           whole == <<1, Len(a), 1, Len(b)>>
<1>1. Matched(a, b) = M[whole]
  BY DEF Matched, Joint, Longest, LeftOf, RightOf, RunOf
<1>2. M = [r \in Regions(a, b) |-> Joint(a, b, M, r)]
  BY JointExists
<1>3. whole \in Regions(a, b)
  BY DEF Regions
<1> HIDE DEF M
<1>4. \A r \in Regions(a, b) : M[r] = Joint(a, b, M, r)
  BY <1>2
<1>5. IsAlignment(a, b, whole[1], whole[2], whole[3], whole[4], M[whole])
  BY <1>3, <1>4, RegionsAlign
<1>6. QED
  BY <1>1, <1>5

(* Where two contexts first differ, and to the left of it, nothing is matched*)
(* out of its place unless the match goes on beyond: the run in its place is *)
(* as long and comes first.                                                  *)
InPlaceUpTo(i, M) ==
  /\ i \notin Seconds(M) => \A p \in M : p[2] < i => p[1] = p[2]
  /\ i \notin Firsts(M) => \A p \in M : p[1] < i => p[1] = p[2]

LEMMA RunsStayInPlace ==
  ASSUME NEW a \in Seq(Blocks), NEW b \in Seq(Blocks), NEW r \in Regions(a, b), r[1] = r[3],
         NEW x \in Nat, NEW y \in Nat, NEW k \in Nat,
         Longest(a, b, r)[1] = x, Longest(a, b, r)[2] = y, Longest(a, b, r)[3] = k, k # 0,
         NEW i \in Nat, \A j \in 1..(i - 1) : a[j] = b[j], a[i] # b[i]
  PROVE  \/ x = y /\ (x + k <= i \/ x > i)
         \/ x # y /\ x + k > i /\ y + k > i
<1> DEFINE m == Longest(a, b, r)
<1>1. m \in CommonRuns(a, b, r) /\ \A n \in CommonRuns(a, b, r) : Precedes(m, n)
  BY LongestFits, LongestIsRun
<1>2. /\ r[1] <= m[1] /\ m[1] <= r[2] /\ r[3] <= m[2] /\ m[2] <= r[4] /\ m[3] > 0
      /\ m[1] + m[3] - 1 <= r[2] /\ m[2] + m[3] - 1 <= r[4]
      /\ \A d \in 0..(m[3] - 1) : a[m[1] + d] = b[m[2] + d]
  BY <1>1, RunType
<1>3. m[1] = x /\ m[2] = y /\ m[3] = k
  OBVIOUS
<1> HIDE DEF m
<1>4. /\ r[1] <= x /\ x <= r[2] /\ r[1] <= y /\ y <= r[4] /\ k > 0
      /\ x + k - 1 <= r[2] /\ y + k - 1 <= r[4]
      /\ \A d \in 0..(k - 1) : a[x + d] = b[y + d]
  BY <1>2, <1>3
<1>5. r[1] \in Nat /\ r[2] \in Nat /\ r[4] \in Nat /\ r[1] >= 1
  BY RegionType
<1>6. ASSUME NEW z \in Nat, z + k <= i, r[1] <= z, z + k - 1 <= r[2], z + k - 1 <= r[4]
      PROVE  x <= z /\ (x = z => y <= z)
  <2>0. z >= 1
    BY <1>5, <1>6
  <2>1. ASSUME NEW d \in 0..(k - 1) PROVE z + d \in 1..(i - 1)
    BY ONLY z \in Nat, k \in Nat, i \in Nat, <2>0, z + k <= i, d \in 0..(k - 1), <1>6
  <2>2. \A d \in 0..(k - 1) : a[z + d] = b[z + d]
    BY <2>1
  <2>3. <<z, z, k>> \in CommonRuns(a, b, r)
    BY <1>4, <1>6, <2>2, RunExists
  <2>4. Precedes(m, <<z, z, k>>)
    BY <1>1, <2>3
  <2>5. QED
    BY <1>3, <2>4 DEF Precedes
<1>7. CASE x = y
  <2>1. SUFFICES ASSUME ~(x + k <= i), ~(x > i) PROVE FALSE
    BY <1>7
  <2>2. i - x \in 0..(k - 1) /\ x + (i - x) = i
    BY <2>1
  <2>3. a[x + (i - x)] = b[x + (i - x)]
    BY <1>4, <1>7, <2>2
  <2>4. QED
    BY <2>2, <2>3
<1>8. CASE x > y
  <2>1. y + k > i
    <3>1. SUFFICES ASSUME y + k <= i PROVE FALSE
      OBVIOUS
    <3>2. y + k - 1 <= r[2]
      BY <1>4, <1>5, <1>8
    <3>3. x <= y
      BY <1>4, <1>6, <3>1, <3>2
    <3>4. QED
      BY <1>8, <3>3
  <2>2. QED
    BY <1>8, <2>1
<1>9. CASE x < y
  <2>1. x + k > i
    <3>1. SUFFICES ASSUME x + k <= i PROVE FALSE
      OBVIOUS
    <3>2. x + k - 1 <= r[4]
      BY <1>4, <1>5, <1>9
    <3>3. y <= x
      BY <1>4, <1>6, <3>1, <3>2
    <3>4. QED
      BY <1>9, <3>3
  <2>2. QED
    BY <1>9, <2>1
<1>10. QED
  BY <1>7, <1>8, <1>9

LEMMA InPlaceJoin ==
  ASSUME NEW i \in Nat, NEW x \in Nat, NEW y \in Nat, NEW k \in Nat, k > 0,
         \/ x = y /\ (x + k <= i \/ x > i)
         \/ x # y /\ x + k > i /\ y + k > i,
         NEW L, InPlaceUpTo(i, L), NEW R, x = y => InPlaceUpTo(i, R),
         \A p \in R : p[1] \in Nat /\ p[2] \in Nat /\ p[1] >= x + k /\ p[2] >= y + k,
         NEW run, run = {<<x + d, y + d>> : d \in 0..(k - 1)}
  PROVE  InPlaceUpTo(i, L \cup run \cup R)
<1> DEFINE M == L \cup run \cup R
<1>1. /\ Firsts(M) = Firsts(L) \cup Firsts(run) \cup Firsts(R)
      /\ Seconds(M) = Seconds(L) \cup Seconds(run) \cup Seconds(R)
  BY DEF Firsts, Seconds
<1>2. ASSUME NEW p \in run
      PROVE  /\ p[1] \in Nat /\ p[2] \in Nat /\ p[1] - x = p[2] - y
             /\ x <= p[1] /\ p[1] < x + k /\ y <= p[2] /\ p[2] < y + k
  <2>1. PICK d \in 0..(k - 1) : p = <<x + d, y + d>>
    OBVIOUS
  <2>2. p[1] = x + d /\ p[2] = y + d
    BY <2>1
  <2>3. QED
    BY <2>2
<1>3. /\ \A j \in Nat : x <= j /\ j < x + k => j \in Firsts(run)
      /\ \A j \in Nat : y <= j /\ j < y + k => j \in Seconds(run)
  <2>1. \A d \in 0..(k - 1) : x + d \in Firsts(run) /\ y + d \in Seconds(run)
    <3> SUFFICES ASSUME NEW d \in 0..(k - 1) PROVE x + d \in Firsts(run) /\ y + d \in Seconds(run)
      OBVIOUS
    <3>1. <<x + d, y + d>> \in run /\ <<x + d, y + d>>[1] = x + d /\ <<x + d, y + d>>[2] = y + d
      OBVIOUS
    <3>2. QED
      BY ONLY <3>1 DEF Firsts, Seconds
  <2>2. \A j \in Nat : x <= j /\ j < x + k => j - x \in 0..(k - 1) /\ x + (j - x) = j
    OBVIOUS
  <2>3. \A j \in Nat : y <= j /\ j < y + k => j - y \in 0..(k - 1) /\ y + (j - y) = j
    OBVIOUS
  <2> HIDE DEF M
  <2>4. QED
    BY <2>1, <2>2, <2>3
<1>4. ASSUME i \notin Seconds(M), NEW p \in M, p[2] < i PROVE p[1] = p[2]
  <2>1. CASE p \in L
    BY <1>1, <1>4, <2>1 DEF InPlaceUpTo
  <2>2. CASE p \in run
    <3>1. x = y
      <4>1. i \notin Seconds(run)
        BY <1>1, <1>4
      <4>2. ~(y <= i /\ i < y + k)
        BY <1>3, <4>1
      <4>3. QED
        BY <1>2, <1>4, <2>2, <4>2
    <3>2. QED
      BY <1>2, <2>2, <3>1
  <2>3. CASE p \in R
    <3>1. x = y
      BY <1>4, <2>3
    <3>2. QED
      BY <1>1, <1>4, <2>3, <3>1 DEF InPlaceUpTo
  <2>4. QED
    BY <2>1, <2>2, <2>3
<1>5. ASSUME i \notin Firsts(M), NEW p \in M, p[1] < i PROVE p[1] = p[2]
  <2>1. CASE p \in L
    BY <1>1, <1>5, <2>1 DEF InPlaceUpTo
  <2>2. CASE p \in run
    <3>1. x = y
      <4>1. i \notin Firsts(run)
        BY <1>1, <1>5
      <4>2. ~(x <= i /\ i < x + k)
        BY <1>3, <4>1
      <4>3. QED
        BY <1>2, <1>5, <2>2, <4>2
    <3>2. QED
      BY <1>2, <2>2, <3>1
  <2>3. CASE p \in R
    <3>1. x = y
      BY <1>5, <2>3
    <3>2. QED
      BY <1>1, <1>5, <2>3, <3>1 DEF InPlaceUpTo
  <2>4. QED
    BY <2>1, <2>2, <2>3
<1> HIDE DEF M
<1>6. InPlaceUpTo(i, M)
  BY <1>4, <1>5 DEF InPlaceUpTo
<1>7. QED
  BY <1>6 DEF M

(* What is matched to the left of the first difference is matched in place,  *)
(* unless the blocks at the first difference are matched themselves.         *)
LEMMA MatchedInPlace ==
  ASSUME NEW a \in Seq(Blocks), NEW b \in Seq(Blocks),
         NEW i \in Nat, \A j \in 1..(i - 1) : a[j] = b[j], a[i] # b[i]
  PROVE  InPlaceUpTo(i, Matched(a, b))
<1> DEFINE M == CHOOSE f : f = [r \in Regions(a, b) |-> Joint(a, b, f, r)]
           whole == <<1, Len(a), 1, Len(b)>>
<1>1. Matched(a, b) = M[whole]
  BY DEF Matched, Joint, Longest, LeftOf, RightOf, RunOf
<1>2. M = [r \in Regions(a, b) |-> Joint(a, b, M, r)]
  BY JointExists
<1> HIDE DEF M
<1>3. \A r \in Regions(a, b) : M[r] = Joint(a, b, M, r)
  BY <1>2
<1>4. \A r \in Regions(a, b) : Size(a, r) \in Nat
  BY RegionType DEF Size
<1>5. \A r \in Regions(a, b) : IsAlignment(a, b, r[1], r[2], r[3], r[4], M[r])
  BY <1>3, RegionsAlign
<1>6. \A r \in Regions(a, b) : r[1] = r[3] => InPlaceUpTo(i, M[r])
  <2> DEFINE Bad == {r \in Regions(a, b) : r[1] = r[3] /\ ~InPlaceUpTo(i, M[r])}
  <2>1. SUFFICES ASSUME Bad # {} PROVE FALSE
    OBVIOUS
  <2>2. PICK n \in {Size(a, r) : r \in Bad} : \A k \in {Size(a, r) : r \in Bad} : n <= k
    <3>1. {Size(a, r) : r \in Bad} \in SUBSET Nat /\ {Size(a, r) : r \in Bad} # {}
      BY <1>4, <2>1
    <3> HIDE DEF Bad
    <3>2. QED
      BY <3>1, LeastNat
  <2>3. PICK r \in Bad : n = Size(a, r)
    BY <2>2
  <2> DEFINE m == Longest(a, b, r)
             left == LeftOf(r, m)
             right == RightOf(r, m)
             L == M[left]
             R == M[right]
             run == RunOf(m)
  <2>4. r \in Regions(a, b) /\ r[1] = r[3] /\ ~InPlaceUpTo(i, M[r]) /\ M[r] = Joint(a, b, M, r)
    BY <1>3
  <2>5. CASE m[3] = 0
    <3>1. M[r] = {}
      BY <2>4, <2>5 DEF Joint
    <3>2. QED
      BY <2>4, <3>1 DEF InPlaceUpTo
  <2>6. CASE m[3] # 0
    <3>1. M[r] = L \cup run \cup R
      BY <2>4, <2>6 DEF Joint
    <3>2. m \in CommonRuns(a, b, r)
      BY <2>4, <2>6, LongestFits
    <3>3. ASSUME NEW s \in {left, right}, s[1] = s[3] PROVE InPlaceUpTo(i, M[s])
      <4>1. s \in Regions(a, b) /\ Size(a, s) < Size(a, r)
        BY <2>4, <3>2, RegionsShrink
      <4>2. \A t \in Bad : n <= Size(a, t)
        BY <2>2
      <4>3. Size(a, s) \in Nat /\ Size(a, r) \in Nat /\ ~(n <= Size(a, s))
        BY <1>4, <2>3, <2>4, <4>1
      <4>4. QED
        BY <3>3, <4>1, <4>2, <4>3
    <3>4. PICK x \in Nat, y \in Nat, k \in Nat : m[1] = x /\ m[2] = y /\ m[3] = k
      BY <2>4, <3>2, RunType
    <3>5. \/ x = y /\ (x + k <= i \/ x > i)
          \/ x # y /\ x + k > i /\ y + k > i
      BY <2>4, <2>6, <3>4, RunsStayInPlace
    <3>6. left = <<r[1], x - 1, r[3], y - 1>> /\ right = <<x + k, r[2], y + k, r[4]>>
      BY <3>4 DEF LeftOf, RightOf
    <3>7. right \in Regions(a, b)
      BY <2>4, <3>2, RegionsShrink
    <3>8. run = {<<x + d, y + d>> : d \in 0..(k - 1)} /\ k > 0
      BY <2>6, <3>4 DEF RunOf
    <3> HIDE DEF left, right
    <3>9. InPlaceUpTo(i, L) /\ (x = y => InPlaceUpTo(i, R))
      BY <2>4, <3>3, <3>6
    <3>10. \A p \in R : p[1] \in Nat /\ p[2] \in Nat /\ p[1] >= x + k /\ p[2] >= y + k
      <4>1. IsAlignment(a, b, x + k, r[2], y + k, r[4], R)
        BY <1>5, <3>6, <3>7
      <4>2. R \subseteq ((x + k)..r[2]) \X ((y + k)..r[4])
        BY <4>1 DEF IsAlignment
      <4>3. r[2] \in Nat /\ r[4] \in Nat
        BY <2>4, RegionType
      <4> HIDE DEF R
      <4>4. QED
        BY <4>2, <4>3
    <3> HIDE DEF m, run, L, R
    <3>11. InPlaceUpTo(i, L \cup run \cup R)
      BY <3>5, <3>8, <3>9, <3>10, InPlaceJoin
    <3>12. QED
      BY <2>4, <3>1, <3>11
  <2>7. QED
    BY <2>5, <2>6
<1>7. whole \in Regions(a, b) /\ whole[1] = whole[3]
  BY DEF Regions
<1>8. QED
  BY <1>1, <1>6, <1>7

-----------------------------------------------------------------------------
(* A matching pairs off equal blocks, each membership at most once.          *)
IsMatching(old, new, matched) ==
  /\ matched \subseteq (DOMAIN old) \X (DOMAIN new)
  /\ \A p \in matched : old[p[1]] = new[p[2]]
  /\ \A p, q \in matched : p[1] = q[1] \/ p[2] = q[2] => p = q

(* The distance from the left of an opcode fixes the position it faces.      *)
LEMMA FacingIsOneToOne ==
  ASSUME NEW old, NEW new, NEW k \in Nat, NEW l \in Nat,
         DOMAIN old = 1..k, DOMAIN new = 1..l,
         NEW matched \in SUBSET ((DOMAIN old) \X (DOMAIN new)),
         NEW i \in DOMAIN old, NEW j \in DOMAIN new,
         NEW g \in DOMAIN old, NEW h \in DOMAIN new,
         Facing(matched, i, j), Facing(matched, g, h), i = g \/ j = h
  PROVE  i = g /\ j = h
<1> DEFINE left == {m \in matched : m[1] < i}
           fst == Max(Firsts(left) \cup {0})
           snd == Max(Seconds(left) \cup {0})
<1>1. left = {m \in matched : m[2] < j} /\ i - fst = j - snd
  BY DEF Facing
<1>2. left = {m \in matched : m[1] < g} /\ left = {m \in matched : m[2] < h}
      /\ g - fst = h - snd
  <2>1. CASE i = g
    BY <2>1 DEF Facing
  <2>2. CASE j = h
    BY <1>1, <2>2 DEF Facing
  <2>3. QED
    BY <2>1, <2>2
<1>3. fst \in Nat
  BY MaxIs, Firsts(left) \cup {0} \in SUBSET (0..k) DEF Firsts
<1>4. snd \in Nat
  BY MaxIs, Seconds(left) \cup {0} \in SUBSET (0..l) DEF Seconds
<1> HIDE DEF fst, snd, left
<1>5. QED
  BY <1>1, <1>2, <1>3, <1>4

(* Copies of one block have different ranks, so they are paired off one to   *)
(* one.                                                                      *)
LEMMA RankIsOneToOne ==
  ASSUME NEW context, NEW n \in Nat, DOMAIN context = 1..n,
         NEW positions \in SUBSET (DOMAIN context),
         NEW i \in positions, NEW j \in positions, context[i] = context[j],
         Rank(context, positions, i) = Rank(context, positions, j)
  PROVE  i = j
<1> DEFINE Before(x) == {k \in positions : k < x /\ context[k] = context[x]}
<1>1. ASSUME NEW x \in positions, NEW y \in positions, x < y, context[x] = context[y]
      PROVE  Rank(context, positions, x) # Rank(context, positions, y)
  <2>1. Before(x) \subseteq Before(y) /\ x \in Before(y) /\ x \notin Before(x)
    BY <1>1
  <2>2. IsFiniteSet(Before(y))
    BY FS_Interval, FS_Subset, Before(y) \in SUBSET (1..n)
  <2>3. Cardinality(Before(x)) # Cardinality(Before(y))
    BY <2>1, <2>2, FS_Subset
  <2>4. QED
    BY <2>3 DEF Rank
<1>2. ~ (i < j) /\ ~ (j < i)
  BY <1>1
<1>3. QED
  BY <1>2

-----------------------------------------------------------------------------
(* The modified pairs take no matched position, and none twice.              *)
LEMMA ModifiedIsOneToOne ==
  ASSUME NEW old, NEW new, NEW k \in Nat, NEW l \in Nat,
         DOMAIN old = 1..k, DOMAIN new = 1..l,
         NEW matched, IsMatching(old, new, matched),
         NEW p \in ModifiedPairs(old, new, matched),
         NEW q \in ModifiedPairs(old, new, matched), p[1] = q[1] \/ p[2] = q[2]
  PROVE  p = q
<1>1. /\ p \in (DOMAIN old) \X (DOMAIN new) /\ q \in (DOMAIN old) \X (DOMAIN new)
      /\ Facing(matched, p[1], p[2]) /\ Facing(matched, q[1], q[2])
  BY DEF ModifiedPairs
<1>2. matched \in SUBSET ((DOMAIN old) \X (DOMAIN new))
  BY DEF IsMatching
<1>3. p[1] = q[1] /\ p[2] = q[2]
  BY <1>1, <1>2, FacingIsOneToOne
<1>4. QED
  BY <1>1, <1>3

(* Every membership of two contexts has exactly one fate, whatever blocks    *)
(* they repeat, move or share and whatever the matching is: the counts and   *)
(* token columns of `diff_calls` leave nothing out and count nothing twice,  *)
(* through the pairing of replaced blocks and `_reconcile_moves`.            *)
THEOREM DiffAccountsForAll ==
  ASSUME NEW old, NEW new, NEW k \in Nat, NEW l \in Nat,
         DOMAIN old = 1..k, DOMAIN new = 1..l,
         NEW matched, IsMatching(old, new, matched)
  PROVE  OneFateEach(old, new, DiffMatched(old, new, matched))
<1> DEFINE modified == ModifiedPairs(old, new, matched)
           gone == (DOMAIN old) \ Firsts(matched \cup modified)
           come == (DOMAIN new) \ Seconds(matched \cup modified)
           moved == {p \in gone \X come :
                       /\ old[p[1]] = new[p[2]]
                       /\ Rank(old, gone, p[1]) = Rank(new, come, p[2])}
           diff == DiffMatched(old, new, matched)
           pairs == diff.unchanged \cup diff.modified
<1>1. /\ diff.unchanged = matched \cup moved
      /\ diff.modified = modified
      /\ diff.evicted = gone \ Firsts(moved)
      /\ diff.added = come \ Seconds(moved)
  BY DEF DiffMatched, ReconcileMoves, Classify
<1>2. matched \subseteq (DOMAIN old) \X (DOMAIN new)
  BY DEF IsMatching
<1>3. modified \subseteq ((DOMAIN old) \ Firsts(matched)) \X ((DOMAIN new) \ Seconds(matched))
  BY DEF ModifiedPairs
<1>4. moved \subseteq gone \X come
  OBVIOUS
<1>5. \A p, q \in matched : p[1] = q[1] \/ p[2] = q[2] => p = q
  BY DEF IsMatching
<1>6. \A p, q \in modified : p[1] = q[1] \/ p[2] = q[2] => p = q
  BY ModifiedIsOneToOne
<1>7. \A p, q \in moved : p[1] = q[1] \/ p[2] = q[2] => p = q
  <2> SUFFICES ASSUME NEW p \in moved, NEW q \in moved, p[1] = q[1] \/ p[2] = q[2]
               PROVE  p = q
    OBVIOUS
  <2>1. /\ p \in gone \X come /\ q \in gone \X come
        /\ old[p[1]] = new[p[2]] /\ old[q[1]] = new[q[2]]
        /\ Rank(old, gone, p[1]) = Rank(new, come, p[2])
        /\ Rank(old, gone, q[1]) = Rank(new, come, q[2])
    OBVIOUS
  <2>2. gone \in SUBSET (DOMAIN old) /\ come \in SUBSET (DOMAIN new)
    OBVIOUS
  <2> HIDE DEF gone, come, moved
  <2>3. CASE p[1] = q[1]
    <3>1. p[2] = q[2]
      BY <2>1, <2>2, <2>3, RankIsOneToOne
    <3>2. QED
      BY <2>1, <2>3, <3>1
  <2>4. CASE p[2] = q[2]
    <3>1. p[1] = q[1]
      BY <2>1, <2>2, <2>4, RankIsOneToOne
    <3>2. QED
      BY <2>1, <2>4, <3>1
  <2>5. QED
    BY <2>3, <2>4
<1>8. /\ gone = (DOMAIN old) \ (Firsts(matched) \cup Firsts(modified))
      /\ come = (DOMAIN new) \ (Seconds(matched) \cup Seconds(modified))
  BY DEF Firsts, Seconds
<1>9. /\ Firsts(pairs) = Firsts(matched) \cup Firsts(moved) \cup Firsts(modified)
      /\ Seconds(pairs) = Seconds(matched) \cup Seconds(moved) \cup Seconds(modified)
  <2>1. pairs = matched \cup moved \cup modified
    BY <1>1
  <2> HIDE DEF pairs, moved, modified
  <2>2. QED
    BY <2>1 DEF Firsts, Seconds
<1>10. /\ \A p \in matched : p[1] \in Firsts(matched) /\ p[2] \in Seconds(matched)
       /\ \A p \in modified : p[1] \in Firsts(modified) /\ p[2] \in Seconds(modified)
       /\ \A p \in moved : p[1] \in Firsts(moved) /\ p[2] \in Seconds(moved)
  BY DEF Firsts, Seconds
<1>11. /\ Firsts(matched) \subseteq DOMAIN old /\ Seconds(matched) \subseteq DOMAIN new
       /\ Firsts(modified) \subseteq (DOMAIN old) \ Firsts(matched)
       /\ Seconds(modified) \subseteq (DOMAIN new) \ Seconds(matched)
       /\ Firsts(moved) \subseteq gone /\ Seconds(moved) \subseteq come
  BY <1>2, <1>3, <1>4 DEF Firsts, Seconds
<1> HIDE DEF modified, gone, come, moved, diff
<1>12. \A p, q \in pairs : p[1] = q[1] \/ p[2] = q[2] => p = q
  BY <1>1, <1>5, <1>6, <1>7, <1>8, <1>10, <1>11
<1>13. /\ Firsts(pairs) \cup diff.evicted = DOMAIN old
       /\ Seconds(pairs) \cup diff.added = DOMAIN new
       /\ Firsts(pairs) \cap diff.evicted = {}
       /\ Seconds(pairs) \cap diff.added = {}
  BY <1>1, <1>8, <1>9, <1>11
<1>14. diff.unchanged \cap diff.modified = {}
  BY <1>1, <1>8, <1>10, <1>11
<1>15. QED
  BY <1>12, <1>13, <1>14 DEF OneFateEach, diff

-----------------------------------------------------------------------------
LEMMA MatchedIsMatching ==
  ASSUME NEW old \in Seq(Blocks), NEW new \in Seq(Blocks)
  PROVE  IsMatching(old, new, Matched(old, new))
<1> DEFINE M == Matched(old, new)
<1>1. IsAlignment(old, new, 1, Len(old), 1, Len(new), M)
  BY MatchedAligns
<1> HIDE DEF M
<1>2. /\ M \subseteq (1..Len(old)) \X (1..Len(new))
      /\ \A p \in M : old[p[1]] = new[p[2]]
      /\ \A p, q \in M : p[1] < q[1] <=> p[2] < q[2]
  BY <1>1 DEF IsAlignment
<1>3. DOMAIN old = 1..Len(old) /\ DOMAIN new = 1..Len(new)
  OBVIOUS
<1>4. ASSUME NEW p \in M, NEW q \in M, p[1] = q[1] \/ p[2] = q[2] PROVE p = q
  <2>1. p[1] \in Nat /\ p[2] \in Nat /\ q[1] \in Nat /\ q[2] \in Nat
    BY <1>2
  <2>2. p[1] = q[1] /\ p[2] = q[2]
    BY <1>2, <1>4, <2>1
  <2>3. p = <<p[1], p[2]>> /\ q = <<q[1], q[2]>>
    BY <1>2
  <2>4. QED
    BY <2>2, <2>3
<1>5. IsMatching(old, new, M)
  BY <1>2, <1>3, <1>4 DEF IsMatching
<1>6. QED
  BY <1>5 DEF M

(* What is replaced in its place is replaced by something else: equal blocks *)
(* that face one another would have been matched.                            *)
LEMMA ModifiedDiffers ==
  ASSUME NEW old \in Seq(Blocks), NEW new \in Seq(Blocks),
         NEW p \in ModifiedPairs(old, new, Matched(old, new))
  PROVE  old[p[1]] # new[p[2]]
<1> DEFINE M == Matched(old, new)
<1>1. IsAlignment(old, new, 1, Len(old), 1, Len(new), M)
  BY MatchedAligns
<1>2. /\ p[1] \in (DOMAIN old) \ Firsts(M) /\ p[2] \in (DOMAIN new) \ Seconds(M)
      /\ Facing(M, p[1], p[2])
  BY DEF ModifiedPairs
<1> HIDE DEF M
<1>3. {m \in M : m[1] < p[1]} = {m \in M : m[2] < p[2]}
  BY <1>2 DEF Facing
<1>4. \A m \in M : m[1] # p[1] /\ m[2] # p[2] /\ (m[1] < p[1] <=> m[2] < p[2])
  BY <1>2, <1>3 DEF Firsts, Seconds
<1>5. p[1] \in 1..Len(old) /\ p[2] \in 1..Len(new)
  BY <1>2
<1>6. QED
  BY <1>1, <1>4, <1>5 DEF IsAlignment

(* The ranks of the copies of a block leave no number out.                   *)
LEMMA RanksAreDense ==
  ASSUME NEW context, NEW n \in Nat, DOMAIN context = 1..n,
         NEW positions \in SUBSET (DOMAIN context),
         NEW j \in positions, NEW r \in Nat, r <= Rank(context, positions, j)
  PROVE  \E i \in positions : context[i] = context[j] /\ Rank(context, positions, i) = r
<1> DEFINE Before(x) == {k \in positions : k < x /\ context[k] = context[x]}
           R(x) == Rank(context, positions, x)
           same == {k \in positions : context[k] = context[j] /\ r <= R(k)}
<1>1. \A x \in positions : x \in Nat /\ x <= n
  OBVIOUS
<1>2. \A x : R(x) = Cardinality(Before(x))
  BY DEF Rank
<1>3. \A x : IsFiniteSet(Before(x)) /\ R(x) \in Nat
  <2>1. \A x : Before(x) \in SUBSET (1..n)
    OBVIOUS
  <2>2. \A x : IsFiniteSet(Before(x))
    BY <2>1, FS_Interval, FS_Subset
  <2> HIDE DEF Before, R
  <2>3. QED
    BY <1>2, <2>2, FS_CardinalityType
<1>4. PICK x \in same : \A k \in same : x <= k
  <2>1. same \in SUBSET Nat /\ same # {}
    BY <1>1
  <2> HIDE DEF same
  <2>2. QED
    BY <2>1, LeastNat
<1>5. CASE R(x) = r
  BY <1>5
<1>6. CASE R(x) # r
  <2>1. R(x) \in Nat /\ r < R(x) /\ x \in positions /\ context[x] = context[j]
    <3>1. x \in positions /\ context[x] = context[j] /\ r <= R(x)
      OBVIOUS
    <3>2. R(x) \in Nat
      BY <1>3
    <3> HIDE DEF R
    <3>3. QED
      BY <1>6, <3>1, <3>2
  <2>2. Before(x) # {}
    <3>1. R(x) = Cardinality(Before(x))
      BY <1>2
    <3> HIDE DEF Before, R
    <3>2. QED
      BY <2>1, <3>1, FS_EmptySet
  <2>3. PICK m \in {n - k : k \in Before(x)} : \A l \in {n - k : k \in Before(x)} : m <= l
    <3>1. {n - k : k \in Before(x)} \in SUBSET Nat /\ {n - k : k \in Before(x)} # {}
      BY <1>1, <2>2
    <3> HIDE DEF Before
    <3>2. QED
      BY <3>1, LeastNat
  <2>4. PICK y \in Before(x) : m = n - y
    BY <2>3
  <2>5. \A k \in Before(x) : m <= n - k
    BY <2>3
  <2>6. /\ y \in positions /\ y < x /\ context[y] = context[x] /\ y \in Nat
        /\ \A k \in Before(x) : k <= y
    BY <1>1, <2>4, <2>5
  <2>7. Before(x) = Before(y) \cup {y} /\ y \notin Before(y)
    BY <1>1, <2>1, <2>6
  <2>8. R(x) = R(y) + 1
    <3>1. R(x) = Cardinality(Before(x)) /\ R(y) = Cardinality(Before(y)) /\ IsFiniteSet(Before(y))
      BY <1>2, <1>3
    <3> HIDE DEF Before, R
    <3>2. Cardinality(Before(y) \cup {y}) = Cardinality(Before(y)) + 1
      BY <2>7, <3>1, FS_AddElement
    <3>3. QED
      BY <2>7, <3>1, <3>2
  <2>9. R(y) \in Nat
    BY <1>3
  <2>10. r <= R(y)
    BY <2>1, <2>8, <2>9
  <2>11. y \in same
    BY <2>1, <2>6, <2>10
  <2>12. QED
    BY <1>1, <1>4, <2>1, <2>6, <2>11
<1>7. QED
  BY <1>5, <1>6

-----------------------------------------------------------------------------
(* The token columns of the diff make up the difference of the totals.       *)
LEMMA ColumnsBalance ==
  ASSUME NEW old \in Seq(Blocks), NEW new \in Seq(Blocks), NEW diff,
         OneFateEach(old, new, diff),
         diff.unchanged \subseteq (DOMAIN old) \X (DOMAIN new),
         diff.modified \subseteq (DOMAIN old) \X (DOMAIN new),
         \A p \in diff.unchanged : old[p[1]] = new[p[2]]
  PROVE  TokensAdded(new, diff) - TokensEvicted(old, diff)
           = Cost(new, DOMAIN new) - Cost(old, DOMAIN old)
<1> DEFINE come == diff.added \cup Seconds(diff.modified)
           gone == diff.evicted \cup Firsts(diff.modified)
           pairs == diff.unchanged
           v == Weights(old)
           w == Weights(new)
<1>1. /\ DOMAIN old = 1..Len(old) /\ DOMAIN new = 1..Len(new)
      /\ IsFiniteSet(DOMAIN old) /\ IsFiniteSet(DOMAIN new)
  BY FS_Interval
<1>2. /\ \A i \in DOMAIN old : v[i] \in Nat
      /\ \A j \in DOMAIN new : w[j] \in Nat
      /\ \A p \in pairs : v[p[1]] = w[p[2]]
  BY DifferAssumption DEF Weights
<1>3. /\ gone \cup Firsts(pairs) = DOMAIN old /\ gone \cap Firsts(pairs) = {}
      /\ come \cup Seconds(pairs) = DOMAIN new /\ come \cap Seconds(pairs) = {}
  <2> DEFINE all == diff.unchanged \cup diff.modified
  <2>1. /\ \A p, q \in all : p[1] = q[1] \/ p[2] = q[2] => p = q
        /\ Firsts(all) \cup diff.evicted = DOMAIN old
        /\ Seconds(all) \cup diff.added = DOMAIN new
        /\ Firsts(all) \cap diff.evicted = {}
        /\ Seconds(all) \cap diff.added = {}
        /\ diff.unchanged \cap diff.modified = {}
    BY DEF OneFateEach
  <2>2. /\ Firsts(all) = Firsts(diff.unchanged) \cup Firsts(diff.modified)
        /\ Seconds(all) = Seconds(diff.unchanged) \cup Seconds(diff.modified)
    BY DEF Firsts, Seconds
  <2>3. /\ Firsts(diff.unchanged) \cap Firsts(diff.modified) = {}
        /\ Seconds(diff.unchanged) \cap Seconds(diff.modified) = {}
    BY <2>1 DEF Firsts, Seconds
  <2> HIDE DEF all
  <2>4. QED
    BY <2>1, <2>2, <2>3
<1>4. \A p, q \in pairs : p[1] = q[1] \/ p[2] = q[2] => p = q
  BY DEF OneFateEach
<1>5. IsFiniteSet(pairs)
  <2>1. IsFiniteSet((DOMAIN old) \X (DOMAIN new))
    BY <1>1, FS_Product
  <2>2. QED
    BY <2>1, FS_Subset
<1>6. \A p \in pairs : v[p[1]] = w[p[2]] /\ v[p[1]] \in Nat
  BY <1>2
<1> HIDE DEF come, gone, pairs, v, w
<1>7. SumOf(v, Firsts(pairs)) = SumOf(w, Seconds(pairs))
  BY <1>4, <1>5, <1>6, SumAgrees
<1>8. /\ gone \subseteq DOMAIN old /\ Firsts(pairs) \subseteq DOMAIN old
      /\ come \subseteq DOMAIN new /\ Seconds(pairs) \subseteq DOMAIN new
      /\ IsFiniteSet(gone) /\ IsFiniteSet(Firsts(pairs))
      /\ IsFiniteSet(come) /\ IsFiniteSet(Seconds(pairs))
  <2>1. /\ gone \subseteq DOMAIN old /\ Firsts(pairs) \subseteq DOMAIN old
        /\ come \subseteq DOMAIN new /\ Seconds(pairs) \subseteq DOMAIN new
    BY <1>3
  <2>2. QED
    BY <1>1, <2>1, FS_Subset
<1>9. /\ SumOf(v, DOMAIN old) = SumOf(v, gone) + SumOf(v, Firsts(pairs))
      /\ SumOf(w, DOMAIN new) = SumOf(w, come) + SumOf(w, Seconds(pairs))
  <2>1. SumOf(v, gone \cup Firsts(pairs)) = SumOf(v, gone) + SumOf(v, Firsts(pairs))
    BY <1>2, <1>3, <1>8, SumUnion
  <2>2. SumOf(w, come \cup Seconds(pairs)) = SumOf(w, come) + SumOf(w, Seconds(pairs))
    BY <1>2, <1>3, <1>8, SumUnion
  <2>3. QED
    BY <1>3, <2>1, <2>2
<1>10. /\ SumOf(v, gone) \in Nat /\ SumOf(w, come) \in Nat
       /\ SumOf(v, Firsts(pairs)) \in Nat /\ SumOf(w, Seconds(pairs)) \in Nat
  <2>1. /\ \A i \in gone : v[i] \in Nat
        /\ \A i \in Firsts(pairs) : v[i] \in Nat
        /\ \A i \in come : w[i] \in Nat
        /\ \A i \in Seconds(pairs) : w[i] \in Nat
    BY <1>2, <1>8
  <2>2. QED
    BY <1>8, <2>1, SumIsNat
<1>11. /\ TokensEvicted(old, diff) = SumOf(v, gone)
       /\ TokensAdded(new, diff) = SumOf(w, come)
       /\ Cost(old, DOMAIN old) = SumOf(v, DOMAIN old)
       /\ Cost(new, DOMAIN new) = SumOf(w, DOMAIN new)
  <2>1. Cost(old, gone) = SumOf(v, gone) /\ Cost(old, DOMAIN old) = SumOf(v, DOMAIN old)
    BY <1>1, <1>8, CostIsSum DEF v
  <2>2. Cost(new, come) = SumOf(w, come) /\ Cost(new, DOMAIN new) = SumOf(w, DOMAIN new)
    BY <1>1, <1>8, CostIsSum DEF w
  <2>3. QED
    BY <2>1, <2>2 DEF TokensEvicted, TokensAdded, gone, come
<1>12. QED
  BY <1>7, <1>9, <1>10, <1>11

LEMMA RankIsNat ==
  ASSUME NEW context, NEW n \in Nat, DOMAIN context = 1..n,
         NEW positions \in SUBSET (DOMAIN context), NEW i
  PROVE  Rank(context, positions, i) \in Nat
<1> DEFINE before == {k \in positions : k < i /\ context[k] = context[i]}
<1>1. before \in SUBSET (1..n)
  OBVIOUS
<1> HIDE DEF before
<1>2. IsFiniteSet(before)
  <2>1. IsFiniteSet(1..n)
    BY FS_Interval
  <2>2. QED
    BY <1>1, <2>1, FS_Subset
<1>3. Cardinality(before) \in Nat
  BY <1>2, FS_CardinalityType
<1>4. QED
  BY <1>3 DEF Rank, before

(* What `_reconcile_moves` leaves evicted and added has no content in common.*)
LEMMA NothingLeftToMove ==
  ASSUME NEW old \in Seq(Blocks), NEW new \in Seq(Blocks),
         NEW gone \in SUBSET (DOMAIN old), NEW come \in SUBSET (DOMAIN new),
         NEW moved, moved = {p \in gone \X come :
                               /\ old[p[1]] = new[p[2]]
                               /\ Rank(old, gone, p[1]) = Rank(new, come, p[2])},
         NEW i \in gone \ Firsts(moved), NEW j \in come \ Seconds(moved)
  PROVE  old[i] # new[j]
<1>1. SUFFICES ASSUME old[i] = new[j] PROVE FALSE
  OBVIOUS
<1>2. /\ Len(old) \in Nat /\ DOMAIN old = 1..Len(old)
      /\ Len(new) \in Nat /\ DOMAIN new = 1..Len(new)
  OBVIOUS
<1>3. Rank(old, gone, i) \in Nat /\ Rank(new, come, j) \in Nat
  BY <1>2, RankIsNat
<1>4. \A g \in gone, c \in come : old[g] = new[c] /\ Rank(old, gone, g) = Rank(new, come, c)
                                => g \in Firsts(moved) /\ c \in Seconds(moved)
  <2> SUFFICES ASSUME NEW g \in gone, NEW c \in come, old[g] = new[c],
                      Rank(old, gone, g) = Rank(new, come, c)
               PROVE  g \in Firsts(moved) /\ c \in Seconds(moved)
    OBVIOUS
  <2>1. <<g, c>> \in moved /\ <<g, c>>[1] = g /\ <<g, c>>[2] = c
    OBVIOUS
  <2>2. QED
    BY ONLY <2>1 DEF Firsts, Seconds
<1>5. CASE Rank(old, gone, i) <= Rank(new, come, j)
  <2> DEFINE r == Rank(old, gone, i)
  <2>1. r \in Nat /\ r <= Rank(new, come, j) /\ j \in come /\ come \in SUBSET (DOMAIN new)
    BY <1>3, <1>5
  <2> HIDE DEF r
  <2>2. PICK c \in come : new[c] = new[j] /\ Rank(new, come, c) = r
    BY <1>2, <2>1, RanksAreDense
  <2>3. QED
    BY <1>1, <1>4, <2>2 DEF r
<1>6. CASE Rank(new, come, j) <= Rank(old, gone, i)
  <2> DEFINE r == Rank(new, come, j)
  <2>1. r \in Nat /\ r <= Rank(old, gone, i) /\ i \in gone /\ gone \in SUBSET (DOMAIN old)
    BY <1>3, <1>6
  <2> HIDE DEF r
  <2>2. PICK g \in gone : old[g] = old[i] /\ Rank(old, gone, g) = r
    BY <1>2, <2>1, RanksAreDense
  <2>3. QED
    BY <1>1, <1>4, <2>2 DEF r
<1>7. QED
  BY <1>3, <1>5, <1>6

(* The diff of any two contexts gives every membership one fate, calls no    *)
(* block evicted and added, pairs equal blocks as unchanged and different    *)
(* ones as modified, and its token columns make up the difference of the     *)
(* totals (`diff_calls` through `SequenceMatcher`, the pairing of replaced   *)
(* blocks and `_reconcile_moves`).                                           *)
THEOREM DiffsAreExact ==
  ASSUME NEW old \in Seq(Blocks), NEW new \in Seq(Blocks)
  PROVE  /\ OneFateEach(old, new, DiffCalls(old, new))
         /\ Balanced(old, new, DiffCalls(old, new))
<1> DEFINE M == Matched(old, new)
           modified == ModifiedPairs(old, new, M)
           gone == (DOMAIN old) \ Firsts(M \cup modified)
           come == (DOMAIN new) \ Seconds(M \cup modified)
           moved == {p \in gone \X come :
                       /\ old[p[1]] = new[p[2]]
                       /\ Rank(old, gone, p[1]) = Rank(new, come, p[2])}
           diff == DiffCalls(old, new)
<1>1. /\ diff.unchanged = M \cup moved
      /\ diff.modified = modified
      /\ diff.evicted = gone \ Firsts(moved)
      /\ diff.added = come \ Seconds(moved)
  BY DEF DiffCalls, DiffMatched, ReconcileMoves, Classify
<1>2. IsMatching(old, new, M)
  BY MatchedIsMatching
<1>3. OneFateEach(old, new, diff)
  <2>1. DOMAIN old = 1..Len(old) /\ DOMAIN new = 1..Len(new) /\ Len(old) \in Nat /\ Len(new) \in Nat
    OBVIOUS
  <2>2. OneFateEach(old, new, DiffMatched(old, new, M))
    BY <1>2, <2>1, DiffAccountsForAll
  <2>3. QED
    BY <2>2 DEF DiffCalls
<1>4. \A i \in diff.evicted, j \in diff.added : old[i] # new[j]
  <2>1. gone \in SUBSET (DOMAIN old) /\ come \in SUBSET (DOMAIN new)
    OBVIOUS
  <2>2. moved = {p \in gone \X come : /\ old[p[1]] = new[p[2]]
                                      /\ Rank(old, gone, p[1]) = Rank(new, come, p[2])}
    OBVIOUS
  <2> HIDE DEF gone, come, moved, diff
  <2>3. QED
    BY <1>1, <2>1, <2>2, NothingLeftToMove
<1>5. \A p \in diff.unchanged : old[p[1]] = new[p[2]]
  BY <1>1, <1>2 DEF IsMatching
<1>6. \A p \in diff.modified : old[p[1]] # new[p[2]]
  BY <1>1, ModifiedDiffers
<1>7. /\ diff.unchanged \subseteq (DOMAIN old) \X (DOMAIN new)
      /\ diff.modified \subseteq (DOMAIN old) \X (DOMAIN new)
  <2>1. M \subseteq (DOMAIN old) \X (DOMAIN new)
    BY <1>2 DEF IsMatching
  <2>2. modified \subseteq (DOMAIN old) \X (DOMAIN new)
    BY DEF ModifiedPairs
  <2>3. moved \subseteq (DOMAIN old) \X (DOMAIN new)
    OBVIOUS
  <2> HIDE DEF M, modified, moved, diff
  <2>4. QED
    BY <1>1, <2>1, <2>2, <2>3
<1> HIDE DEF diff
<1>8. TokensAdded(new, diff) - TokensEvicted(old, diff)
        = Cost(new, DOMAIN new) - Cost(old, DOMAIN old)
  BY <1>3, <1>5, <1>7, ColumnsBalance
<1>9. OneFateEach(old, new, diff) /\ Balanced(old, new, diff)
  BY <1>3, <1>4, <1>5, <1>6, <1>8 DEF Balanced
<1>10. QED
  BY <1>9 DEF diff

=============================================================================
