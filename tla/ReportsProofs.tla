----------------------------- MODULE ReportsProofs -----------------------------
(***************************************************************************)
(* What the reports say of a run is so, whatever the run is: breaks of the *)
(* prefix cache, evictions, and the gates of a check.                      *)
(***************************************************************************)
EXTENDS Reports, DifferProofs, SequenceTheorems

LEMMA MinIs ==
  ASSUME NEW S \in SUBSET Nat, S # {}
  PROVE  Min(S) \in S /\ \A y \in S : Min(S) <= y
<1>1. PICK n \in S : \A m \in S : n <= m
  BY LeastNat
<1>2. QED
  BY <1>1 DEF Min

-----------------------------------------------------------------------------
(* The culprit of a break.  Up to the first position that differs nothing is *)
(* matched across positions, so what faces it in a 'replace' is the same     *)
(* position of the other turn.                                               *)
LEMMA ReplacedInPlace ==
  ASSUME NEW old \in Seq(Blocks), NEW new \in Seq(Blocks),
         NEW i \in Nat, \A j \in 1..(i - 1) : old[j] = new[j], old[i] # new[i],
         NEW p \in ModifiedPairs(old, new, Matched(old, new)), i \in {p[1], p[2]}
  PROVE  p = <<i, i>>
<1> DEFINE M == Matched(old, new)
           left == {m \in M : m[1] < p[1]}
           fst == Max(Firsts(left) \cup {0})
           snd == Max(Seconds(left) \cup {0})
<1>1. /\ p \in (DOMAIN old) \X (DOMAIN new)
      /\ p[1] \notin Firsts(M) /\ p[2] \notin Seconds(M)
      /\ Facing(M, p[1], p[2])
  BY DEF ModifiedPairs
<1>2. left = {m \in M : m[2] < p[2]} /\ p[1] - fst = p[2] - snd
  BY <1>1 DEF Facing
<1>3. M \subseteq (DOMAIN old) \X (DOMAIN new)
  BY MatchedIsMatching DEF IsMatching
<1>4. \A m \in left : m[1] = m[2]
  <2>1. InPlaceUpTo(i, M)
    BY MatchedInPlace
  <2> HIDE DEF M
  <2>2. CASE i = p[1]
    BY <1>1, <2>1, <2>2 DEF InPlaceUpTo
  <2>3. CASE i = p[2]
    BY <1>1, <1>2, <2>1, <2>3 DEF InPlaceUpTo
  <2>4. QED
    BY <2>2, <2>3
<1>5. Firsts(left) = Seconds(left)
  BY <1>4 DEF Firsts, Seconds
<1>6. fst \in Nat /\ fst = snd
  <2>1. Firsts(left) \cup {0} \in SUBSET (0..Len(old)) /\ Len(old) \in Nat
    BY <1>3 DEF Firsts
  <2>2. fst = snd
    BY <1>5
  <2> HIDE DEF left
  <2>3. fst \in Nat
    BY <2>1, MaxIs
  <2>4. QED
    BY <2>2, <2>3
<1> HIDE DEF fst, snd
<1>7. p[1] \in Nat /\ p[2] \in Nat /\ p[1] = p[2]
  BY <1>1, <1>2, <1>6
<1>8. QED
  BY <1>1, <1>7

(* A matching has as many pairs as positions on either side. *)
LEMMA SidesCount ==
  ASSUME NEW pairs, IsFiniteSet(pairs),
         \A p, q \in pairs : p[1] = q[1] \/ p[2] = q[2] => p = q
  PROVE  Cardinality(Firsts(pairs)) = Cardinality(Seconds(pairs))
<1>1. Cardinality(Firsts(pairs)) = Cardinality(pairs)
  <2> DEFINE f == [p \in pairs |-> p[1]]
  <2>1. f \in Bijection(pairs, Firsts(pairs))
    BY DEF Bijection, Injection, Surjection, IsInjective, Firsts
  <2>2. QED
    BY <2>1, FS_Bijection DEF ExistsBijection
<1>2. Cardinality(Seconds(pairs)) = Cardinality(pairs)
  <2> DEFINE f == [p \in pairs |-> p[2]]
  <2>1. f \in Bijection(pairs, Seconds(pairs))
    BY DEF Bijection, Injection, Surjection, IsInjective, Seconds
  <2>2. QED
    BY <2>1, FS_Bijection DEF ExistsBijection
<1>3. QED
  BY <1>1, <1>2

(* Copies of a block outside the modified pairs: those kept, of which both   *)
(* turns have as many, and those gone or new.                                *)
At1(context, positions, b) == {i \in positions : context[i] = b}
Same(old, diff, b) == {p \in diff.unchanged : old[p[1]] = b}

LEMMA CopiesAre ==
  ASSUME NEW old \in Seq(Blocks), NEW new \in Seq(Blocks), NEW diff,
         diff = DiffCalls(old, new), NEW b
  PROVE  /\ IsFiniteSet(Seconds(Same(old, diff, b))) /\ IsFiniteSet(Firsts(Same(old, diff, b)))
         /\ Cardinality(Firsts(Same(old, diff, b))) = Cardinality(Seconds(Same(old, diff, b)))
         /\ {i \in (DOMAIN old) \ Firsts(diff.modified) : old[i] = b}
              = Firsts(Same(old, diff, b)) \cup At1(old, diff.evicted, b)
         /\ {i \in (DOMAIN new) \ Seconds(diff.modified) : new[i] = b}
              = Seconds(Same(old, diff, b)) \cup At1(new, diff.added, b)
         /\ Firsts(Same(old, diff, b)) \cap At1(old, diff.evicted, b) = {}
         /\ Seconds(Same(old, diff, b)) \cap At1(new, diff.added, b) = {}
<1> DEFINE same == Same(old, diff, b)
<1>1. OneFateEach(old, new, diff) /\ Balanced(old, new, diff)
  BY DiffsAreExact
<1>2. /\ \A p, q \in diff.unchanged \cup diff.modified : p[1] = q[1] \/ p[2] = q[2] => p = q
      /\ Firsts(diff.unchanged \cup diff.modified) \cup diff.evicted = DOMAIN old
      /\ Seconds(diff.unchanged \cup diff.modified) \cup diff.added = DOMAIN new
      /\ Firsts(diff.unchanged \cup diff.modified) \cap diff.evicted = {}
      /\ Seconds(diff.unchanged \cup diff.modified) \cap diff.added = {}
      /\ diff.unchanged \cap diff.modified = {}
      /\ \A p \in diff.unchanged : old[p[1]] = new[p[2]]
  BY <1>1 DEF OneFateEach, Balanced
<1>3. diff.unchanged \subseteq (DOMAIN old) \X (DOMAIN new)
  <2> DEFINE modified == ModifiedPairs(old, new, Matched(old, new))
  <2>1. diff.unchanged \subseteq Matched(old, new)
          \cup ((DOMAIN old) \ Firsts(Matched(old, new) \cup modified))
                 \X ((DOMAIN new) \ Seconds(Matched(old, new) \cup modified))
    BY DEF DiffCalls, DiffMatched, ReconcileMoves, Classify
  <2>2. Matched(old, new) \subseteq (DOMAIN old) \X (DOMAIN new)
    BY MatchedIsMatching DEF IsMatching
  <2>3. QED
    BY <2>1, <2>2
<1>4. IsFiniteSet(same)
  <2>1. DOMAIN old = 1..Len(old) /\ DOMAIN new = 1..Len(new)
        /\ Len(old) \in Nat /\ Len(new) \in Nat
    OBVIOUS
  <2>2. IsFiniteSet(DOMAIN old) /\ IsFiniteSet(DOMAIN new)
    BY <2>1, FS_Interval
  <2>3. IsFiniteSet((DOMAIN old) \X (DOMAIN new))
    BY <2>2, FS_Product
  <2>4. QED
    BY <1>3, <2>3, FS_Subset DEF Same
<1>5. IsFiniteSet(Firsts(same)) /\ IsFiniteSet(Seconds(same))
  BY <1>4, SidesAreFinite
<1>6. Cardinality(Firsts(same)) = Cardinality(Seconds(same))
  BY <1>2, <1>4, SidesCount DEF Same
<1>7. {i \in (DOMAIN old) \ Firsts(diff.modified) : old[i] = b}
        = Firsts(same) \cup At1(old, diff.evicted, b)
  BY <1>2 DEF Firsts, Same, At1
<1>8. {i \in (DOMAIN new) \ Seconds(diff.modified) : new[i] = b}
        = Seconds(same) \cup At1(new, diff.added, b)
  BY <1>2 DEF Seconds, Same, At1
<1>9. Firsts(same) \cap At1(old, diff.evicted, b) = {}
  BY <1>2 DEF Firsts, Same, At1
<1>10. Seconds(same) \cap At1(new, diff.added, b) = {}
  BY <1>2 DEF Seconds, Same, At1
<1>11. QED
  BY <1>5, <1>6, <1>7, <1>8, <1>9, <1>10

(* What a break is blamed on fits: the code knows no case for its generic    *)
(* 'changed' (`_attribute_break`), and there is none.                        *)
LEMMA CulpritIsReal ==
  ASSUME NEW old \in Seq(Blocks), NEW new \in Seq(Blocks),
         NEW i \in Nat, i \in DOMAIN old, i \in DOMAIN new,
         \A j \in 1..(i - 1) : old[j] = new[j], old[i] # new[i],
         NEW diff, diff = DiffCalls(old, new)
  PROVE  CulpritFits(Culprit(diff, i), old, new, i, diff.modified)
<1>1. OneFateEach(old, new, diff) /\ Balanced(old, new, diff)
  BY DiffsAreExact
<1>2. /\ Firsts(diff.unchanged \cup diff.modified) \cup diff.evicted = DOMAIN old
      /\ Seconds(diff.unchanged \cup diff.modified) \cup diff.added = DOMAIN new
      /\ \A p \in diff.unchanged : old[p[1]] = new[p[2]]
      /\ \A x \in diff.evicted, y \in diff.added : old[x] # new[y]
  BY <1>1 DEF OneFateEach, Balanced
<1>3. diff.modified = ModifiedPairs(old, new, Matched(old, new))
  BY DEF DiffCalls, DiffMatched, ReconcileMoves, Classify
<1>4. CASE <<i, i>> \in diff.modified
  <2>1. Slot[old[i]] = Slot[new[i]]
    BY <1>3, <1>4 DEF ModifiedPairs
  <2>2. Culprit(diff, i) = "modified"
    BY <1>4 DEF Culprit
  <2>3. QED
    BY <2>1, <2>2 DEF CulpritFits
<1>5. CASE <<i, i>> \notin diff.modified /\ i \in diff.added
  <2> DEFINE b == new[i]
             same == Same(old, diff, b)
  <2>1. At1(old, diff.evicted, b) = {}
    BY <1>2, <1>5 DEF At1
  <2>2. /\ IsFiniteSet(Seconds(same))
        /\ Cardinality(Firsts(same)) = Cardinality(Seconds(same))
        /\ {k \in (DOMAIN old) \ Firsts(diff.modified) : old[k] = b} = Firsts(same)
        /\ {k \in (DOMAIN new) \ Seconds(diff.modified) : new[k] = b}
             = Seconds(same) \cup At1(new, diff.added, b)
        /\ Seconds(same) \cap At1(new, diff.added, b) = {}
    <3>1. Firsts(same) \cup At1(old, diff.evicted, b) = Firsts(same)
      BY <2>1
    <3> HIDE DEF same, b
    <3>2. QED
      BY <3>1, CopiesAre DEF same
  <2>3. i \in At1(new, diff.added, b)
    BY <1>5 DEF At1
  <2>4. IsFiniteSet(At1(new, diff.added, b))
    <3>1. At1(new, diff.added, b) \in SUBSET (1..Len(new)) /\ Len(new) \in Nat
      BY <1>2 DEF At1
    <3>2. IsFiniteSet(1..Len(new))
      BY <3>1, FS_Interval
    <3>3. QED
      BY <3>1, <3>2, FS_Subset
  <2>5. Cardinality(Seconds(same)) < Cardinality(Seconds(same) \cup At1(new, diff.added, b))
    <3> DEFINE S == Seconds(same)
               T == Seconds(same) \cup At1(new, diff.added, b)
    <3>1. IsFiniteSet(T) /\ S \in SUBSET T /\ S # T
      BY <2>2, <2>3, <2>4, FS_Union
    <3> HIDE DEF S, T
    <3>2. Cardinality(S) <= Cardinality(T) /\ Cardinality(S) # Cardinality(T)
          /\ Cardinality(S) \in Nat /\ Cardinality(T) \in Nat
      BY <3>1, FS_Subset, FS_CardinalityType
    <3>3. QED
      BY <3>2 DEF S, T
  <2>6. Copies(new, b, Seconds(diff.modified)) > Copies(old, b, Firsts(diff.modified))
    BY <2>2, <2>5 DEF Copies
  <2>7. Culprit(diff, i) = "added"
    BY <1>5 DEF Culprit
  <2>8. QED
    BY <2>6, <2>7 DEF CulpritFits
<1>6. CASE <<i, i>> \notin diff.modified /\ i \notin diff.added /\ i \in diff.evicted
  <2> DEFINE b == old[i]
             same == Same(old, diff, b)
  <2>1. At1(new, diff.added, b) = {}
    BY <1>2, <1>6 DEF At1
  <2>2. /\ IsFiniteSet(Firsts(same))
        /\ Cardinality(Firsts(same)) = Cardinality(Seconds(same))
        /\ {k \in (DOMAIN new) \ Seconds(diff.modified) : new[k] = b} = Seconds(same)
        /\ {k \in (DOMAIN old) \ Firsts(diff.modified) : old[k] = b}
             = Firsts(same) \cup At1(old, diff.evicted, b)
        /\ Firsts(same) \cap At1(old, diff.evicted, b) = {}
    <3>1. Seconds(same) \cup At1(new, diff.added, b) = Seconds(same)
      BY <2>1
    <3> HIDE DEF same, b
    <3>2. QED
      BY <3>1, CopiesAre DEF same
  <2>3. i \in At1(old, diff.evicted, b)
    BY <1>6 DEF At1
  <2>4. IsFiniteSet(At1(old, diff.evicted, b))
    <3>1. At1(old, diff.evicted, b) \in SUBSET (1..Len(old)) /\ Len(old) \in Nat
      BY <1>2 DEF At1
    <3>2. IsFiniteSet(1..Len(old))
      BY <3>1, FS_Interval
    <3>3. QED
      BY <3>1, <3>2, FS_Subset
  <2>5. Cardinality(Firsts(same)) < Cardinality(Firsts(same) \cup At1(old, diff.evicted, b))
    <3> DEFINE S == Firsts(same)
               T == Firsts(same) \cup At1(old, diff.evicted, b)
    <3>1. IsFiniteSet(T) /\ S \in SUBSET T /\ S # T
      BY <2>2, <2>3, <2>4, FS_Union
    <3> HIDE DEF S, T
    <3>2. Cardinality(S) <= Cardinality(T) /\ Cardinality(S) # Cardinality(T)
          /\ Cardinality(S) \in Nat /\ Cardinality(T) \in Nat
      BY <3>1, FS_Subset, FS_CardinalityType
    <3>3. QED
      BY <3>2 DEF S, T
  <2>6. Copies(new, b, Seconds(diff.modified)) < Copies(old, b, Firsts(diff.modified))
    BY <2>2, <2>5 DEF Copies
  <2>7. Culprit(diff, i) = "evicted"
    BY <1>6 DEF Culprit
  <2>8. QED
    BY <2>6, <2>7 DEF CulpritFits
<1>7. CASE <<i, i>> \notin diff.modified /\ i \notin diff.added /\ i \notin diff.evicted
  <2>1. i \notin Firsts(diff.modified) /\ i \notin Seconds(diff.modified)
    <3>1. \A p \in diff.modified : i \in {p[1], p[2]} => p = <<i, i>>
      BY <1>3, ReplacedInPlace
    <3>2. QED
      BY <1>7, <3>1 DEF Firsts, Seconds
  <2>2. i \in Firsts(diff.unchanged) /\ i \in Seconds(diff.unchanged)
    BY <1>2, <1>7, <2>1 DEF Firsts, Seconds
  <2>3. PICK p \in diff.unchanged, q \in diff.unchanged : p[1] = i /\ q[2] = i
    BY <2>2 DEF Firsts, Seconds
  <2>4. p[2] \in DOMAIN new /\ q[1] \in DOMAIN old
    BY <1>2 DEF Firsts, Seconds
  <2>5. old[i] = new[p[2]] /\ new[i] = old[q[1]]
    BY <1>2, <2>3
  <2>6. p[2] # i
    BY <2>5
  <2>7. Culprit(diff, i) = "reordered"
    BY <1>7, <2>3, <2>6 DEF Culprit
  <2>8. new[i] \in ToSet(old) /\ old[i] \in ToSet(new)
    BY <2>4, <2>5 DEF ToSet
  <2>9. QED
    BY <2>7, <2>8 DEF CulpritFits
<1>8. QED
  BY <1>4, <1>5, <1>6, <1>7

-----------------------------------------------------------------------------
(* Beginnings of sequences. *)
LEMMA StartOf ==
  ASSUME NEW S, NEW s \in Seq(S), NEW n \in 0..Len(s)
  PROVE  /\ SubSeq(s, 1, n) \in Seq(S)
         /\ Len(SubSeq(s, 1, n)) = n
         /\ \A i \in 1..n : SubSeq(s, 1, n)[i] = s[i]
<1>1. \A i \in 1..n : s[i] \in S
  OBVIOUS
<1>2. /\ SubSeq(s, 1, n) \in Seq(S)
      /\ Len(SubSeq(s, 1, n)) = IF 1 <= n THEN n - 1 + 1 ELSE 0
      /\ \A i \in 1..(n - 1 + 1) : SubSeq(s, 1, n)[i] = s[1 + i - 1]
  BY <1>1, SubSeqProperties
<1>3. n \in Nat
  OBVIOUS
<1>4. QED
  BY <1>2, <1>3

LEMMA SameStart ==
  ASSUME NEW S, NEW s \in Seq(S), NEW t \in Seq(S), NEW n \in 0..Len(s), n <= Len(t)
  PROVE  SubSeq(s, 1, n) = SubSeq(t, 1, n) <=> \A i \in 1..n : s[i] = t[i]
<1> DEFINE u == SubSeq(s, 1, n)
           v == SubSeq(t, 1, n)
<1>1. u \in Seq(S) /\ Len(u) = n /\ \A i \in 1..n : u[i] = s[i]
  BY StartOf
<1>2. n \in 0..Len(t)
  OBVIOUS
<1>3. v \in Seq(S) /\ Len(v) = n /\ \A i \in 1..n : v[i] = t[i]
  BY <1>2, StartOf
<1>4. (\A i \in 1..n : u[i] = v[i]) => u = v
  <2> HIDE DEF u, v
  <2>1. QED
    BY <1>1, <1>3, SeqEqual
<1> HIDE DEF u, v
<1>5. u = v <=> \A i \in 1..n : s[i] = t[i]
  BY <1>1, <1>3, <1>4
<1>6. QED
  BY <1>5 DEF u, v

LEMMA PrefixIs ==
  ASSUME NEW S, NEW s \in Seq(S), NEW t \in Seq(S)
  PROVE  IsPrefix(s, t) <=> Len(s) <= Len(t) /\ \A i \in 1..Len(s) : s[i] = t[i]
<1>1. Len(s) \in 0..Len(s)
  OBVIOUS
<1>2. Len(s) <= Len(t) =>
        (SubSeq(s, 1, Len(s)) = SubSeq(t, 1, Len(s)) <=> \A i \in 1..Len(s) : s[i] = t[i])
  BY <1>1, SameStart
<1>3. QED
  BY <1>2 DEF IsPrefix

LEMMA StableIs ==
  ASSUME NEW old \in Seq(Blocks), NEW new \in Seq(Blocks)
  PROVE  /\ Stable(old, new) \in 0..Len(old)
         /\ Stable(old, new) <= Len(new)
         /\ SubSeq(old, 1, Stable(old, new)) = SubSeq(new, 1, Stable(old, new))
         /\ \A j \in 1..Stable(old, new) : old[j] = new[j]
         /\ Stable(old, new) < Len(old) /\ Stable(old, new) < Len(new) =>
              old[Stable(old, new) + 1] # new[Stable(old, new) + 1]
<1> DEFINE Starts == {n \in 0..Len(old) : n <= Len(new) /\ SubSeq(old, 1, n) = SubSeq(new, 1, n)}
           m == Stable(old, new)
<1>1. Len(old) \in Nat /\ Len(new) \in Nat
  OBVIOUS
<1>2. \A n \in 0..Len(old) : n <= Len(new) =>
        (SubSeq(old, 1, n) = SubSeq(new, 1, n) <=> \A j \in 1..n : old[j] = new[j])
  BY SameStart
<1>3. 0 \in Starts
  <2>1. 0 \in 0..Len(old) /\ 0 <= Len(new) /\ \A j \in 1..0 : old[j] = new[j]
    BY <1>1
  <2>2. QED
    BY <1>2, <2>1
<1>4. Starts \in SUBSET (0..Len(old)) /\ Starts # {}
  BY <1>3
<1>5. m \in Starts /\ \A n \in Starts : n <= m
  <2> HIDE DEF Starts
  <2>1. Max(Starts) \in Starts /\ \A n \in Starts : n <= Max(Starts)
    BY <1>1, <1>4, MaxIs
  <2>2. QED
    BY <2>1 DEF Stable, Starts
<1>6. m \in 0..Len(old) /\ m <= Len(new) /\ SubSeq(old, 1, m) = SubSeq(new, 1, m)
  BY <1>5
<1>7. \A j \in 1..m : old[j] = new[j]
  BY <1>2, <1>6
<1>8. ASSUME m < Len(old), m < Len(new), old[m + 1] = new[m + 1] PROVE FALSE
  <2>1. m + 1 \in 0..Len(old) /\ m + 1 <= Len(new)
    BY <1>1, <1>6, <1>8
  <2>2. \A j \in 1..(m + 1) : j \in 1..m \/ j = m + 1
    BY <1>6
  <2>3. \A j \in 1..(m + 1) : old[j] = new[j]
    BY <1>7, <1>8, <2>2
  <2>4. m + 1 \in Starts
    BY <1>2, <2>1, <2>3
  <2>5. m + 1 <= m
    BY <1>5, <2>4
  <2>6. QED
    BY <1>6, <2>5
<1> HIDE DEF m
<1>9. QED
  BY <1>6, <1>7, <1>8 DEF m

-----------------------------------------------------------------------------
(* Runs as they are recorded: numbered, with gaps. *)
IsNumbered(run) == \E n \in Nat : DOMAIN run \subseteq 1..n

IsRun(run) == IsNumbered(run) /\ \A k \in DOMAIN run : IsTurn(run[k])

LEMMA NumbersAre ==
  ASSUME NEW run, IsNumbered(run)
  PROVE  /\ DOMAIN run \subseteq Nat
         /\ \E n \in Nat : DOMAIN run \in SUBSET (0..n)
BY DEF IsNumbered

LEMMA EarlierIs ==
  ASSUME NEW run, IsNumbered(run), NEW k \in DOMAIN run, Earlier(run, k) # {}
  PROVE  /\ Max(Earlier(run, k)) \in Earlier(run, k)
         /\ \A j \in Earlier(run, k) : j <= Max(Earlier(run, k))
<1>1. PICK n \in Nat : DOMAIN run \in SUBSET (0..n)
  BY NumbersAre
<1>2. Earlier(run, k) \in SUBSET (0..n)
  BY <1>1 DEF Earlier, TurnsOf
<1>3. QED
  BY <1>2, MaxIs

(* The pairs of `zip(calls, calls[1:])` are those next to one another.       *)
LEMMA PairsAreSuccessive ==
  ASSUME NEW run, IsNumbered(run), NEW agent
  PROVE  Pairs(run, agent) = Successive(run, agent)
<1>0. DOMAIN run \subseteq Nat
  BY NumbersAre
<1>1. ASSUME NEW p \in Pairs(run, agent) PROVE p \in Successive(run, agent)
  <2>1. PICK k \in Scope(run, agent) : Earlier(run, k) # {} /\ p = <<Max(Earlier(run, k)), k>>
    BY <1>1 DEF Pairs
  <2>2. k \in DOMAIN run /\ (agent = None \/ run[k].agent = agent)
    BY DEF Scope
  <2> DEFINE j == Max(Earlier(run, k))
  <2>3. j \in Earlier(run, k) /\ \A l \in Earlier(run, k) : l <= j
    BY <2>1, <2>2, EarlierIs
  <2>4. j \in DOMAIN run /\ run[j].agent = run[k].agent /\ j < k
    BY <2>3 DEF Earlier, TurnsOf
  <2>5. ASSUME NEW l \in DOMAIN run, j < l, l < k PROVE run[l].agent # run[j].agent
    <3>1. l \in Nat /\ j \in Nat
      BY <1>0, <2>4
    <3>2. ~(l <= j)
      BY <2>5, <3>1
    <3>3. l \notin Earlier(run, k)
      BY <2>3, <3>2
    <3>4. QED
      BY <2>4, <2>5, <3>3 DEF Earlier, TurnsOf
  <2>6. p[1] = j /\ p[2] = k /\ p = <<j, k>>
    BY <2>1
  <2> HIDE DEF j
  <2>7. QED
    BY <2>2, <2>4, <2>5, <2>6 DEF Successive
<1>2. ASSUME NEW p \in Successive(run, agent) PROVE p \in Pairs(run, agent)
  <2>1. /\ p \in (DOMAIN run) \X (DOMAIN run) /\ p[1] < p[2]
        /\ run[p[1]].agent = run[p[2]].agent
        /\ agent = None \/ run[p[1]].agent = agent
        /\ \A l \in DOMAIN run : p[1] < l /\ l < p[2] => run[l].agent # run[p[1]].agent
    BY <1>2 DEF Successive
  <2> DEFINE k == p[2]
             j == Max(Earlier(run, k))
  <2>2. p[1] \in Earlier(run, k)
    BY <2>1 DEF Earlier, TurnsOf
  <2>3. j \in Earlier(run, k) /\ \A l \in Earlier(run, k) : l <= j
    BY <2>1, <2>2, EarlierIs
  <2>4. j \in DOMAIN run /\ run[j].agent = run[k].agent /\ j < k
    BY <2>3 DEF Earlier, TurnsOf
  <2>5. j = p[1]
    <3>1. p[1] <= j
      BY <2>2, <2>3
    <3>2. ~(p[1] < j)
      BY <2>1, <2>4
    <3> HIDE DEF j
    <3>3. QED
      BY <1>0, <2>1, <2>4, <3>1, <3>2
  <2>6. k \in Scope(run, agent)
    BY <2>1 DEF Scope
  <2>7. p = <<j, k>>
    BY <2>1, <2>5
  <2>8. QED
    BY <2>2, <2>6, <2>7 DEF Pairs
<1>3. QED
  BY <1>1, <1>2

-----------------------------------------------------------------------------
(* cache.py: a turn breaks the prefix unless it extends the one before or    *)
(* only drops its end.                                                       *)
LEMMA BrokenIs ==
  ASSUME NEW old \in Seq(Blocks), NEW new \in Seq(Blocks)
  PROVE  Stable(old, new) < Min({Len(old), Len(new)})
           <=> ~(IsPrefix(old, new) \/ IsPrefix(new, old))
<1> DEFINE m == Stable(old, new)
           shorter == Min({Len(old), Len(new)})
<1>1. Len(old) \in Nat /\ Len(new) \in Nat
  OBVIOUS
<1>2. shorter \in {Len(old), Len(new)} /\ shorter <= Len(old) /\ shorter <= Len(new)
  <2>1. {Len(old), Len(new)} \in SUBSET Nat /\ {Len(old), Len(new)} # {}
    BY <1>1
  <2>2. QED
    BY <2>1, MinIs
<1>3. /\ m \in 0..Len(old) /\ m <= Len(new)
      /\ \A j \in 1..m : old[j] = new[j]
      /\ m < Len(old) /\ m < Len(new) => old[m + 1] # new[m + 1]
  BY StableIs
<1>4. /\ IsPrefix(old, new) <=> Len(old) <= Len(new) /\ \A i \in 1..Len(old) : old[i] = new[i]
      /\ IsPrefix(new, old) <=> Len(new) <= Len(old) /\ \A i \in 1..Len(new) : new[i] = old[i]
  BY PrefixIs
<1> HIDE DEF m, shorter
<1>5. CASE m < shorter
  <2>1. m + 1 \in 1..Len(old) /\ m + 1 \in 1..Len(new) /\ old[m + 1] # new[m + 1]
    BY <1>1, <1>2, <1>3, <1>5
  <2>2. ~(IsPrefix(old, new) \/ IsPrefix(new, old))
    BY <1>4, <2>1
  <2>3. QED
    BY <1>5, <2>2 DEF m, shorter
<1>6. CASE ~(m < shorter)
  <2>1. m = Len(old) \/ m = Len(new)
    BY <1>1, <1>2, <1>3, <1>6
  <2>2. IsPrefix(old, new) \/ IsPrefix(new, old)
    BY <1>1, <1>3, <1>4, <2>1
  <2>3. QED
    BY <1>6, <2>2 DEF m, shorter
<1>7. QED
  BY <1>5, <1>6

LEMMA CostSplits ==
  ASSUME NEW context \in Seq(Blocks), NEW n \in 0..Len(context)
  PROVE  /\ Cost(context, 1..n) \in Nat
         /\ Cost(context, (n + 1)..Len(context)) \in Nat
         /\ Cost(context, DOMAIN context)
              = Cost(context, 1..n) + Cost(context, (n + 1)..Len(context))
<1> DEFINE w == Weights(context)
           front == 1..n
           back == (n + 1)..Len(context)
<1>1. Len(context) \in Nat /\ n \in Nat /\ n <= Len(context) /\ DOMAIN context = 1..Len(context)
  OBVIOUS
<1>2. \A i \in DOMAIN context : w[i] \in Nat
  BY DifferAssumption DEF Weights
<1>3. IsFiniteSet(front) /\ IsFiniteSet(back) /\ IsFiniteSet(DOMAIN context)
  BY <1>1, FS_Interval
<1>4. front \cap back = {} /\ front \cup back = DOMAIN context
  BY <1>1
<1> HIDE DEF front, back, w
<1>5. SumOf(w, front \cup back) = SumOf(w, front) + SumOf(w, back)
  BY <1>2, <1>3, <1>4, SumUnion
<1>6. SumOf(w, front) \in Nat /\ SumOf(w, back) \in Nat
  BY <1>2, <1>3, <1>4, SumIsNat
<1>7. /\ Cost(context, front) = SumOf(w, front)
      /\ Cost(context, back) = SumOf(w, back)
      /\ Cost(context, DOMAIN context) = SumOf(w, DOMAIN context)
  BY <1>3, <1>4, CostIsSum DEF w
<1>8. QED
  BY <1>4, <1>5, <1>6, <1>7 DEF front, back

BreakAt(run, p) ==
  LET old == run[p[1]].blocks
      new == run[p[2]].blocks
      prefix == Stable(old, new) IN
  [prev |-> p[1], turn |-> p[2], agent |-> run[p[2]].agent, stable |-> prefix,
   stableTokens |-> Cost(new, 1..prefix),
   rebilled |-> Cost(new, (prefix + 1)..Len(new)),
   kind |-> Culprit(Diff(run, p), prefix + 1)]

LEMMA BreakFitsTurns ==
  ASSUME NEW run, IsRun(run), NEW agent, NEW p \in Successive(run, agent),
         Stable(run[p[1]].blocks, run[p[2]].blocks)
           < Min({Len(run[p[1]].blocks), Len(run[p[2]].blocks)})
  PROVE  BreakFits(BreakAt(run, p), run[p[1]].blocks, run[p[2]].blocks)
<1> DEFINE old == run[p[1]].blocks
           new == run[p[2]].blocks
           m == Stable(old, new)
           b == BreakAt(run, p)
<1>1. p[1] \in DOMAIN run /\ p[2] \in DOMAIN run
  BY DEF Successive
<1>2. old \in Seq(Blocks) /\ new \in Seq(Blocks)
  BY <1>1 DEF IsRun, IsTurn
<1>3. Len(old) \in Nat /\ Len(new) \in Nat
  BY <1>2
<1>4. m < Len(old) /\ m < Len(new)
  <2>1. {Len(old), Len(new)} \in SUBSET Nat /\ {Len(old), Len(new)} # {}
    BY <1>3
  <2>2. Min({Len(old), Len(new)}) <= Len(old) /\ Min({Len(old), Len(new)}) <= Len(new)
        /\ Min({Len(old), Len(new)}) \in Nat
    BY <2>1, MinIs
  <2>3. m \in Nat
    BY <1>2, StableIs
  <2>4. m < Min({Len(old), Len(new)})
    OBVIOUS
  <2> HIDE DEF m
  <2>5. QED
    BY <1>3, <2>2, <2>3, <2>4
<1>5. /\ m \in 0..Len(old)
      /\ SubSeq(old, 1, m) = SubSeq(new, 1, m)
      /\ \A j \in 1..m : old[j] = new[j]
      /\ old[m + 1] # new[m + 1]
  BY <1>2, <1>4, StableIs
<1>6. /\ b.stable = m /\ b.stableTokens = Cost(new, 1..m)
      /\ b.rebilled = Cost(new, (m + 1)..Len(new))
      /\ b.kind = Culprit(DiffCalls(old, new), m + 1)
  BY DEF BreakAt, Diff
<1> HIDE DEF m, b
<1>7. m + 1 \in DOMAIN old /\ m + 1 \in DOMAIN new /\ m + 1 \in Nat
  BY <1>2, <1>3, <1>4, <1>5
<1>8. \A j \in 1..((m + 1) - 1) : old[j] = new[j]
  BY <1>3, <1>5
<1> HIDE DEF old, new
<1>9. CulpritFits(Culprit(DiffCalls(old, new), m + 1), old, new, m + 1,
                  DiffCalls(old, new).modified)
  BY <1>2, <1>5, <1>7, <1>8, CulpritIsReal
<1>10. Cost(new, DOMAIN new) = Cost(new, 1..m) + Cost(new, (m + 1)..Len(new))
  BY <1>2, <1>3, <1>4, <1>5, CostSplits
<1>11. BreakFits(b, old, new)
  BY <1>5, <1>6, <1>9, <1>10 DEF BreakFits
<1>12. QED
  BY <1>11 DEF b, old, new

(* The breaks that cache.py reports of a run are the successive turns of     *)
(* which neither extends the other; each has a culprit that fits, and what   *)
(* is stable of the turn and what is billed again are the whole of it.       *)
THEOREM BreaksAreExact ==
  ASSUME NEW run, IsRun(run), NEW agent
  PROVE  /\ {<<b.prev, b.turn>> : b \in Breaks(run, agent)}
              = {p \in Successive(run, agent) : ~Extends(run, p)}
         /\ \A b \in Breaks(run, agent) :
              /\ BreakFits(b, run[b.prev].blocks, run[b.turn].blocks)
              /\ b.agent = run[b.turn].agent
<1> DEFINE Broken(p) == Stable(run[p[1]].blocks, run[p[2]].blocks)
                          < Min({Len(run[p[1]].blocks), Len(run[p[2]].blocks)})
           pairs == Successive(run, agent)
<1>1. Breaks(run, agent) = {BreakAt(run, p) : p \in {q \in pairs : Broken(q)}}
  <2>1. Pairs(run, agent) = pairs
    BY PairsAreSuccessive DEF IsRun
  <2>2. QED
    BY <2>1 DEF Breaks, BreakAt
<1>2. \A p \in pairs : p[1] \in DOMAIN run /\ p[2] \in DOMAIN run /\ p = <<p[1], p[2]>>
  BY DEF Successive
<1>3. \A p \in pairs : Broken(p) <=> ~Extends(run, p)
  <2> SUFFICES ASSUME NEW p \in pairs PROVE Broken(p) <=> ~Extends(run, p)
    OBVIOUS
  <2>1. run[p[1]].blocks \in Seq(Blocks) /\ run[p[2]].blocks \in Seq(Blocks)
    BY <1>2 DEF IsRun, IsTurn
  <2>2. QED
    BY <2>1, BrokenIs DEF Extends
<1>4. \A p \in pairs : BreakAt(run, p).prev = p[1] /\ BreakAt(run, p).turn = p[2]
                       /\ BreakAt(run, p).agent = run[p[2]].agent
  BY DEF BreakAt
<1>5. ASSUME NEW b \in Breaks(run, agent)
      PROVE  /\ BreakFits(b, run[b.prev].blocks, run[b.turn].blocks)
             /\ b.agent = run[b.turn].agent
             /\ <<b.prev, b.turn>> \in {p \in pairs : ~Extends(run, p)}
  <2>1. PICK p \in pairs : Broken(p) /\ b = BreakAt(run, p)
    BY <1>1, <1>5
  <2>2. BreakFits(BreakAt(run, p), run[p[1]].blocks, run[p[2]].blocks)
    BY <2>1, BreakFitsTurns
  <2> HIDE DEF Broken, pairs
  <2>3. QED
    BY <1>2, <1>3, <1>4, <2>1, <2>2
<1>6. ASSUME NEW p \in pairs, ~Extends(run, p)
      PROVE  p \in {<<b.prev, b.turn>> : b \in Breaks(run, agent)}
  <2>1. BreakAt(run, p) \in Breaks(run, agent)
    BY <1>1, <1>3, <1>6
  <2>2. p = <<BreakAt(run, p).prev, BreakAt(run, p).turn>>
    BY <1>2, <1>4, <1>6
  <2>3. QED
    BY <2>1, <2>2
<1>7. QED
  BY <1>5, <1>6

-----------------------------------------------------------------------------
(* evictions.py: what is gone from a turn to the next and comes back in none *)
(* was evicted there, and nothing else was.                                  *)
LEMMA TaggedIs ==
  ASSUME NEW run, IsRun(run), NEW label, NEW b
  PROVE  /\ b \in Tagged(run, label) <=> IsTagged(run, label, b)
         /\ Tagging(run, label, b) # {} <=> IsTagged(run, label, b)
<1>1. Tagging(run, label, b) # {} <=> IsTagged(run, label, b)
  BY DEF Tagging, TagsOf, IsTagged
<1>2. IsTagged(run, label, b) => b \in UNION {Contents(run[k]) : k \in TurnsOf(run, label)}
  BY DEF IsTagged, Contents
<1>3. QED
  BY <1>1, <1>2 DEF Tagged

LEMMA HoldingIs ==
  ASSUME NEW run, IsRun(run), NEW label, NEW b, Holding(run, label, b) # {}
  PROVE  /\ Holding(run, label, b) \in SUBSET Nat
         /\ Max(Holding(run, label, b)) \in Holding(run, label, b)
         /\ \A k \in Holding(run, label, b) : k <= Max(Holding(run, label, b))
<1> DEFINE holding == Holding(run, label, b)
<1>0. PICK n \in Nat : DOMAIN run \in SUBSET (0..n)
  BY NumbersAre DEF IsRun
<1>1. holding \in SUBSET (0..n)
  BY <1>0 DEF Holding, TurnsOf
<1>2. holding \in SUBSET Nat
  BY <1>1
<1> HIDE DEF holding
<1>3. holding # {}
  BY DEF holding
<1>4. Max(holding) \in holding /\ \A k \in holding : k <= Max(holding)
  BY <1>1, <1>3, MaxIs
<1>5. QED
  BY <1>2, <1>4 DEF holding

LEMMA LostIs ==
  ASSUME NEW run, IsRun(run), NEW agent, NEW p \in Successive(run, agent)
  PROVE  LostAtPair(run, p) = {b \in Lost(run, p) : IsTagged(run, run[p[1]].agent, b)}
<1> DEFINE old == run[p[1]].blocks
           new == run[p[2]].blocks
           diff == DiffCalls(old, new)
           label == run[p[1]].agent
<1>1. /\ p[1] \in DOMAIN run /\ p[2] \in DOMAIN run /\ p[1] < p[2]
      /\ run[p[2]].agent = label
  BY DEF Successive
<1>2. old \in Seq(Blocks) /\ new \in Seq(Blocks) /\ p[1] \in Nat /\ p[2] \in Nat
  BY <1>1, NumbersAre DEF IsRun, IsTurn
<1>3. OneFateEach(old, new, diff) /\ Balanced(old, new, diff)
  BY <1>2, DiffsAreExact
<1> HIDE DEF diff
<1>4. /\ Firsts(diff.unchanged) \cup Firsts(diff.modified) \cup diff.evicted = DOMAIN old
      /\ Firsts(diff.modified) \cap diff.evicted = {}
      /\ Seconds(diff.unchanged) \subseteq DOMAIN new
      /\ \A q \in diff.unchanged : old[q[1]] = new[q[2]]
  BY <1>3 DEF OneFateEach, Balanced, Firsts, Seconds
<1>5. Diff(run, p) = diff
  BY DEF Diff, diff
<1>6. \A b : b \in Contents(run[p[1]]) =>
        (Max(Holding(run, label, b)) <= p[1]
           <=> \A k \in TurnsOf(run, label) : k > p[1] => b \notin Contents(run[k]))
  <2> SUFFICES ASSUME NEW b, b \in Contents(run[p[1]])
               PROVE  Max(Holding(run, label, b)) <= p[1]
                        <=> \A k \in TurnsOf(run, label) : k > p[1] => b \notin Contents(run[k])
    OBVIOUS
  <2>1. p[1] \in Holding(run, label, b)
    BY <1>1 DEF Holding, TurnsOf
  <2>2. /\ Holding(run, label, b) \in SUBSET Nat
        /\ Max(Holding(run, label, b)) \in Holding(run, label, b)
        /\ \A k \in Holding(run, label, b) : k <= Max(Holding(run, label, b))
    BY <2>1, HoldingIs
  <2>3. \A k \in TurnsOf(run, label) : b \in Contents(run[k]) <=> k \in Holding(run, label, b)
    BY DEF Holding
  <2>4. Holding(run, label, b) \subseteq TurnsOf(run, label) /\ TurnsOf(run, label) \subseteq Nat
    BY NumbersAre DEF Holding, TurnsOf, IsRun
  <2> HIDE DEF label
  <2>5. QED
    BY <1>2, <2>2, <2>3, <2>4
<1>7. ASSUME NEW b \in LostAtPair(run, p)
      PROVE  b \in Lost(run, p) /\ IsTagged(run, label, b)
  <2>1. /\ b \in {old[i] : i \in diff.evicted} /\ b \in Tagged(run, label)
        /\ Max(Holding(run, label, b)) <= p[1]
    BY <1>5, <1>7 DEF LostAtPair
  <2>2. b \in LeftOver(old, diff.modified) /\ b \in Contents(run[p[1]])
    BY <1>4, <2>1 DEF LeftOver, Contents
  <2>3. QED
    BY <1>5, <1>6, <2>1, <2>2, TaggedIs DEF Lost
<1>8. ASSUME NEW b \in Lost(run, p), IsTagged(run, label, b)
      PROVE  b \in LostAtPair(run, p)
  <2>1. /\ b \in LeftOver(old, diff.modified)
        /\ \A k \in TurnsOf(run, label) : k > p[1] => b \notin Contents(run[k])
    BY <1>5, <1>8 DEF Lost
  <2>2. PICK i \in (DOMAIN old) \ Firsts(diff.modified) : b = old[i]
    BY <2>1 DEF LeftOver
  <2>3. b \notin Contents(run[p[2]])
    BY <1>1, <1>2, <2>1 DEF TurnsOf
  <2>4. i \notin Firsts(diff.unchanged)
    <3>1. SUFFICES ASSUME NEW q \in diff.unchanged, q[1] = i PROVE FALSE
      BY DEF Firsts
    <3>2. q[2] \in DOMAIN new /\ new[q[2]] = b
      BY <1>4, <2>2, <3>1 DEF Seconds
    <3>3. QED
      BY <2>3, <3>2 DEF Contents
  <2>5. i \in diff.evicted
    BY <1>4, <2>2, <2>4
  <2>6. b \in Contents(run[p[1]])
    BY <2>2 DEF Contents
  <2>7. QED
    BY <1>5, <1>6, <1>8, <2>1, <2>2, <2>5, <2>6, TaggedIs DEF LostAtPair
<1>9. QED
  BY <1>7, <1>8

(* One eviction: the agent had the block, tagged it, and lost it here. *)
LEMMA EvictionIs ==
  ASSUME NEW run, IsRun(run), NEW agent, NEW p \in Successive(run, agent),
         NEW b \in LostAtPair(run, p), NEW e, e = Eviction(run, p, b)
  PROVE  /\ e.block = b /\ e.agent = run[p[1]].agent
         /\ e.lastSeen = p[1] /\ e.evicted = p[2]
         /\ e.entered <= e.tagged /\ e.tagged <= e.lastSeen
         /\ e.tag \in ToSet(run[e.tagged].tags) \ {None}
         /\ b \in Contents(run[p[1]])
         /\ \A k \in TurnsOf(run, run[p[1]].agent) : k > p[1] => b \notin Contents(run[k])
<1> DEFINE label == run[p[1]].agent
           tagging == Tagging(run, label, b)
           holding == Holding(run, label, b)
           first == Min(tagging)
           place == Min(TagsOf(run[first], b))
<1>1. /\ b \in Lost(run, p) /\ IsTagged(run, label, b)
  BY LostIs
<1>2. p[1] \in DOMAIN run /\ p[2] \in DOMAIN run
  BY DEF Successive
<1>3. \A k \in TurnsOf(run, label) : k > p[1] => b \notin Contents(run[k])
  BY <1>1 DEF Lost
<1>4. b \in Contents(run[p[1]])
  BY <1>1 DEF Lost, LeftOver, Contents
<1>5. tagging \in SUBSET Nat /\ tagging # {}
  <2>1. tagging # {}
    BY <1>1, TaggedIs
  <2>2. tagging \subseteq DOMAIN run
    BY DEF Tagging, TurnsOf
  <2>3. DOMAIN run \subseteq Nat
    BY NumbersAre DEF IsRun
  <2>4. QED
    BY <2>1, <2>2, <2>3
<1> HIDE DEF tagging
<1>6. first \in tagging
  BY <1>5, MinIs
<1>7. /\ first \in TurnsOf(run, label) /\ first \in DOMAIN run /\ first \in Nat
      /\ TagsOf(run[first], b) # {}
  BY <1>5, <1>6 DEF Tagging, TurnsOf, tagging
<1> HIDE DEF first
<1>8. TagsOf(run[first], b) \in SUBSET Nat
  <2>1. run[first].blocks \in Seq(Blocks)
    BY <1>7 DEF IsRun, IsTurn
  <2>2. QED
    BY <2>1 DEF TagsOf
<1>9. place \in TagsOf(run[first], b)
  BY <1>7, <1>8, MinIs
<1> HIDE DEF place
<1>10. run[first].tags[place] \in ToSet(run[first].tags) \ {None}
  <2>1. /\ place \in DOMAIN run[first].blocks /\ run[first].tags[place] # None
        /\ DOMAIN run[first].tags = DOMAIN run[first].blocks
    BY <1>7, <1>9 DEF TagsOf, IsRun, IsTurn
  <2>2. QED
    BY <2>1 DEF ToSet
<1>11. first \in holding
  BY <1>7 DEF TagsOf, Holding, Contents
<1>12. holding \in SUBSET Nat /\ holding # {}
  BY <1>11, NumbersAre DEF Holding, TurnsOf, IsRun
<1> HIDE DEF holding
<1>13. Min(holding) <= first
  BY <1>11, <1>12, MinIs
<1>14. first <= p[1]
  <2>1. b \in Contents(run[first])
    BY <1>7 DEF TagsOf, Contents
  <2>2. ~(first > p[1])
    BY <1>3, <1>7, <2>1
  <2>3. p[1] \in Nat
    BY <1>2, NumbersAre DEF IsRun
  <2>4. QED
    BY <1>7, <2>2, <2>3
<1>15. /\ e.block = b /\ e.agent = label /\ e.lastSeen = p[1] /\ e.evicted = p[2]
       /\ e.entered = Min(holding) /\ e.tagged = first /\ e.tag = run[first].tags[place]
  BY DEF Eviction, tagging, first, place, holding
<1>16. QED
  BY <1>3, <1>4, <1>10, <1>13, <1>14, <1>15

(* The last turn an agent had a block in, and the next, are the same two     *)
(* whichever eviction one looks at.                                          *)
LEMMA SuccessorIsOne ==
  ASSUME NEW run, IsRun(run), NEW agent, NEW p \in Successive(run, agent),
         NEW q \in Successive(run, agent), p[1] = q[1]
  PROVE  p = q
<1>1. /\ p = <<p[1], p[2]>> /\ q = <<q[1], q[2]>>
      /\ p[1] \in Nat /\ p[2] \in Nat /\ q[2] \in Nat
      /\ p[1] < p[2] /\ q[1] < q[2]
      /\ run[p[2]].agent = run[p[1]].agent /\ run[q[2]].agent = run[q[1]].agent
      /\ p[2] \in DOMAIN run /\ q[2] \in DOMAIN run
      /\ \A k \in DOMAIN run : p[1] < k /\ k < p[2] => run[k].agent # run[p[1]].agent
      /\ \A k \in DOMAIN run : q[1] < k /\ k < q[2] => run[k].agent # run[q[1]].agent
  BY NumbersAre DEF Successive, IsRun
<1>2. ~(p[2] < q[2])
  BY <1>1
<1>3. ~(q[2] < p[2])
  BY <1>1
<1>4. QED
  BY <1>1, <1>2, <1>3

(* The evictions that evictions.py reports of a run: one for each tagged     *)
(* block an agent lost for good, at the turn it was lost, and no other.      *)
THEOREM EvictionsAreExact ==
  ASSUME NEW run, IsRun(run), NEW agent,
         NEW found, found = AnalyzeEvictions(run, agent).evictions
  PROVE  /\ \A e, f \in found : e.agent = f.agent /\ e.block = f.block => e = f
         /\ \A e \in found :
              /\ e.entered <= e.tagged /\ e.tagged <= e.lastSeen
              /\ <<e.lastSeen, e.evicted>> \in Successive(run, agent)
              /\ e.agent = run[e.lastSeen].agent
              /\ e.tag \in ToSet(run[e.tagged].tags) \ {None}
         /\ {<<e.lastSeen, e.evicted, e.block>> : e \in found} =
              UNION {{<<p[1], p[2], b>> :
                        b \in {c \in Lost(run, p) : IsTagged(run, run[p[1]].agent, c)}} :
                       p \in Successive(run, agent)}
<1> DEFINE pairs == Successive(run, agent)
<1>1. found = UNION {{Eviction(run, p, b) : b \in LostAtPair(run, p)} : p \in pairs}
  BY PairsAreSuccessive DEF AnalyzeEvictions, IsRun
<1>2. \A p \in pairs : /\ p = <<p[1], p[2]>> /\ p[1] \in DOMAIN run
                       /\ run[p[1]].agent = run[p[2]].agent
  BY DEF Successive
<1>3. ASSUME NEW e \in found
      PROVE  \E p \in pairs : \E b \in LostAtPair(run, p) :
               /\ e = Eviction(run, p, b)
               /\ e.block = b /\ e.agent = run[p[1]].agent
               /\ e.lastSeen = p[1] /\ e.evicted = p[2]
               /\ e.entered <= e.tagged /\ e.tagged <= e.lastSeen
               /\ e.tag \in ToSet(run[e.tagged].tags) \ {None}
               /\ b \in Contents(run[p[1]])
               /\ \A k \in TurnsOf(run, run[p[1]].agent) : k > p[1] => b \notin Contents(run[k])
  <2>1. PICK p \in pairs : \E b \in LostAtPair(run, p) : e = Eviction(run, p, b)
    BY <1>1, <1>3
  <2>2. PICK b \in LostAtPair(run, p) : e = Eviction(run, p, b)
    BY <2>1
  <2>3. QED
    BY <2>2, EvictionIs
<1>4. ASSUME NEW e \in found, NEW f \in found, e.agent = f.agent, e.block = f.block
      PROVE  e = f
  <2>1. PICK p \in pairs : \E b \in LostAtPair(run, p) :
               /\ e = Eviction(run, p, b)
               /\ e.block = b /\ e.agent = run[p[1]].agent
               /\ b \in Contents(run[p[1]])
               /\ \A k \in TurnsOf(run, run[p[1]].agent) : k > p[1] => b \notin Contents(run[k])
    BY <1>3
  <2>2. PICK q \in pairs : \E b \in LostAtPair(run, q) :
               /\ f = Eviction(run, q, b)
               /\ f.block = b /\ f.agent = run[q[1]].agent
               /\ b \in Contents(run[q[1]])
               /\ \A k \in TurnsOf(run, run[q[1]].agent) : k > q[1] => b \notin Contents(run[k])
    BY <1>3
  <2>3. run[p[1]].agent = run[q[1]].agent
    BY <1>4, <2>1, <2>2
  <2>4. p[1] \in Nat /\ q[1] \in Nat
    BY <1>2, NumbersAre DEF IsRun
  <2>5. p[1] \in TurnsOf(run, run[q[1]].agent) /\ q[1] \in TurnsOf(run, run[p[1]].agent)
    BY <1>2, <2>3 DEF TurnsOf
  <2>6. ~(p[1] > q[1]) /\ ~(q[1] > p[1])
    BY <1>4, <2>1, <2>2, <2>5
  <2>7. p[1] = q[1]
    BY <2>4, <2>6
  <2>8. p = q
    BY <2>7, SuccessorIsOne
  <2>9. QED
    BY <1>4, <2>1, <2>2, <2>8
<1>5. ASSUME NEW e \in found
      PROVE  /\ e.entered <= e.tagged /\ e.tagged <= e.lastSeen
             /\ <<e.lastSeen, e.evicted>> \in pairs
             /\ e.agent = run[e.lastSeen].agent
             /\ e.tag \in ToSet(run[e.tagged].tags) \ {None}
             /\ \E p \in pairs : \E b \in LostAtPair(run, p) :
                  <<e.lastSeen, e.evicted, e.block>> = <<p[1], p[2], b>>
  <2> HIDE DEF pairs
  <2>1. QED
    BY <1>2, <1>3
<1>6. ASSUME NEW p \in pairs, NEW b \in LostAtPair(run, p)
      PROVE  <<p[1], p[2], b>> \in {<<e.lastSeen, e.evicted, e.block>> : e \in found}
  <2>1. Eviction(run, p, b) \in found
    BY <1>1
  <2>2. /\ Eviction(run, p, b).block = b
        /\ Eviction(run, p, b).lastSeen = p[1] /\ Eviction(run, p, b).evicted = p[2]
    BY DEF Eviction
  <2>3. QED
    BY <2>1, <2>2
<1>7. {<<e.lastSeen, e.evicted, e.block>> : e \in found}
        = UNION {{<<p[1], p[2], b>> : b \in LostAtPair(run, p)} : p \in pairs}
  <2> DEFINE triples == {<<e.lastSeen, e.evicted, e.block>> : e \in found}
             Of(p) == {<<p[1], p[2], b>> : b \in LostAtPair(run, p)}
  <2>1. \A p \in pairs : Of(p) \subseteq triples
    BY <1>6
  <2>2. ASSUME NEW e \in found
        PROVE  \E p \in pairs : <<e.lastSeen, e.evicted, e.block>> \in Of(p)
    <3>1. PICK p \in pairs : \E b \in LostAtPair(run, p) :
            <<e.lastSeen, e.evicted, e.block>> = <<p[1], p[2], b>>
      BY <1>5
    <3>2. PICK b \in LostAtPair(run, p) :
            <<e.lastSeen, e.evicted, e.block>> = <<p[1], p[2], b>>
      BY <3>1
    <3>3. <<e.lastSeen, e.evicted, e.block>> \in Of(p)
      BY <3>2
    <3>4. QED
      BY <3>3
  <2> HIDE DEF Of, pairs
  <2>3. \A t \in triples : \E p \in pairs : t \in Of(p)
    BY <2>2
  <2> HIDE DEF triples
  <2>4. triples = UNION {Of(p) : p \in pairs}
    BY <2>1, <2>3
  <2>5. QED
    BY <2>4 DEF triples, Of, pairs
<1>8. \A p \in pairs :
        LostAtPair(run, p) = {c \in Lost(run, p) : IsTagged(run, run[p[1]].agent, c)}
  BY LostIs
<1>9. QED
  BY <1>4, <1>5, <1>7, <1>8

-----------------------------------------------------------------------------
(* check.py: a gate is green exactly if what it says holds of the run.       *)
LEMMA TotalIsNat ==
  ASSUME NEW turn, IsTurn(turn)
  PROVE  Total(turn) \in Nat
<1>1. turn.blocks \in Seq(Blocks)
  BY DEF IsTurn
<1>2. Len(turn.blocks) \in 0..Len(turn.blocks) /\ DOMAIN turn.blocks = 1..Len(turn.blocks)
  BY <1>1
<1>3. Cost(turn.blocks, 1..Len(turn.blocks)) \in Nat
  BY <1>1, <1>2, CostSplits
<1>4. QED
  BY <1>2, <1>3 DEF Total

(* A percentage that is rounded to tenths is within the limit exactly if it  *)
(* is less than half a tenth above it, or half a tenth and rounded down.     *)
LEMMA Round1Is ==
  ASSUME NEW part \in Nat, NEW whole \in Nat, whole > 0, NEW limit \in Nat
  PROVE  Round1(part, whole) <= limit
           <=> \/ 2000 * part < (2 * limit + 1) * whole
               \/ /\ 2000 * part = (2 * limit + 1) * whole
                  /\ <<part, whole>> \notin RoundsUp
<1> DEFINE tenths == (1000 * part) \div whole
           rest == (1000 * part) % whole
           up == 2 * rest > whole \/ (2 * rest = whole /\ <<part, whole>> \in RoundsUp)
<1>1. /\ tenths \in Nat /\ rest \in Nat /\ rest < whole
      /\ 1000 * part = tenths * whole + rest
  OBVIOUS
<1>2. Round1(part, whole) = IF up THEN tenths + 1 ELSE tenths
  BY DEF Round1
<1> DEFINE p == tenths * whole
           l == limit * whole
<1>3. p \in Nat /\ l \in Nat
  BY <1>1
<1>4. 2000 * part = 2 * p + 2 * rest
  BY <1>1
<1>5. (2 * limit + 1) * whole = 2 * l + whole
  OBVIOUS
<1>6. /\ tenths < limit => p + whole <= l
      /\ tenths = limit => p = l
      /\ tenths > limit => p >= l + whole
  <2> HIDE DEF tenths, rest
  <2>1. ASSUME tenths < limit PROVE p + whole <= l
    <3>1. PICK d \in Nat : limit = tenths + 1 + d
      <4>1. limit - tenths - 1 \in Nat /\ limit = tenths + 1 + (limit - tenths - 1)
        BY <1>1, <2>1
      <4>2. QED
        BY <4>1
    <3>2. l = p + whole + d * whole /\ d * whole \in Nat
      BY <1>1, <3>1
    <3>3. QED
      BY <1>3, <3>2
  <2>2. ASSUME tenths > limit PROVE p >= l + whole
    <3>1. PICK d \in Nat : tenths = limit + 1 + d
      <4>1. tenths - limit - 1 \in Nat /\ tenths = limit + 1 + (tenths - limit - 1)
        BY <1>1, <2>2
      <4>2. QED
        BY <4>1
    <3>2. p = l + whole + d * whole /\ d * whole \in Nat
      BY <1>1, <3>1
    <3>3. QED
      BY <1>3, <3>2
  <2>3. QED
    BY <2>1, <2>2
<1> HIDE DEF tenths, rest, p, l
<1>7. QED
  BY <1>1, <1>2, <1>3, <1>4, <1>5, <1>6

(* The pairs that growth is measured on: the report lists the turns of the   *)
(* agent alone, which are in a row there.                                    *)
LEMMA GrowthPairsAre ==
  ASSUME NEW run, IsRun(run), NEW agent
  PROVE  GrowthPairs(AnalyzeRun(run, agent)) = Successive(run, agent)
<1> DEFINE turns == AnalyzeRun(run, agent).turns
<1>1. /\ DOMAIN turns = Scope(run, agent)
      /\ \A k \in DOMAIN turns : turns[k].agent = run[k].agent
  BY DEF AnalyzeRun
<1> HIDE DEF turns
<1>2. \A k \in DOMAIN run :
        k \in DOMAIN turns <=> agent = None \/ run[k].agent = agent
  BY <1>1 DEF Scope
<1>3. DOMAIN turns \subseteq DOMAIN run
  BY <1>1 DEF Scope
<1>4. IsNumbered(turns)
  BY <1>3 DEF IsRun, IsNumbered
<1>5. Pairs(turns, None) = Successive(turns, None)
  BY <1>4, PairsAreSuccessive
<1>6. ASSUME NEW p \in Successive(turns, None) PROVE p \in Successive(run, agent)
  <2>1. /\ p \in (DOMAIN turns) \X (DOMAIN turns) /\ p[1] < p[2]
        /\ run[p[1]].agent = run[p[2]].agent
        /\ \A k \in DOMAIN turns : p[1] < k /\ k < p[2] => run[k].agent # run[p[1]].agent
    BY <1>1, <1>6 DEF Successive
  <2>2. agent = None \/ run[p[1]].agent = agent
    BY <1>2, <1>3, <2>1
  <2>3. \A k \in DOMAIN run : run[k].agent = run[p[1]].agent => k \in DOMAIN turns
    BY <1>2, <2>2
  <2>4. QED
    BY <1>3, <2>1, <2>2, <2>3 DEF Successive
<1>7. ASSUME NEW p \in Successive(run, agent) PROVE p \in Successive(turns, None)
  <2>1. /\ p \in (DOMAIN run) \X (DOMAIN run) /\ p[1] < p[2]
        /\ run[p[1]].agent = run[p[2]].agent
        /\ agent = None \/ run[p[1]].agent = agent
        /\ \A k \in DOMAIN run : p[1] < k /\ k < p[2] => run[k].agent # run[p[1]].agent
    BY <1>7 DEF Successive
  <2>2. p[1] \in DOMAIN turns /\ p[2] \in DOMAIN turns
    BY <1>2, <2>1
  <2>3. p \in (DOMAIN turns) \X (DOMAIN turns)
    BY <2>1, <2>2
  <2>4. QED
    BY <1>1, <1>3, <2>1, <2>2, <2>3 DEF Successive
<1>8. QED
  BY <1>5, <1>6, <1>7 DEF GrowthPairs, turns

LEMMA NoPairs ==
  ASSUME NEW run, IsRun(run), NEW agent
  PROVE  Cardinality(Pairs(run, agent)) = 0 <=> Successive(run, agent) = {}
<1> DEFINE pairs == Pairs(run, agent)
<1>0. PICK n \in Nat : DOMAIN run \subseteq 1..n
  BY DEF IsRun, IsNumbered
<1>1. pairs \in SUBSET ((1..n) \X (1..n))
  <2>1. pairs = Successive(run, agent)
    BY PairsAreSuccessive DEF IsRun
  <2>2. QED
    BY <1>0, <2>1 DEF Successive
<1> HIDE DEF pairs
<1>2. IsFiniteSet(1..n)
  BY <1>1, FS_Interval
<1>3. IsFiniteSet((1..n) \X (1..n))
  BY <1>2, FS_Product
<1>4. IsFiniteSet(pairs)
  BY <1>1, <1>3, FS_Subset
<1>5. Cardinality(pairs) = 0 <=> pairs = {}
  BY <1>4, FS_EmptySet
<1>6. QED
  BY <1>5, PairsAreSuccessive DEF pairs, IsRun

(* The gates of `ctxdiff check`, each on the report it reads.                *)
THEOREM GatesAreExact ==
  ASSUME NEW run, IsRun(run), NEW agent,
         NEW tokens, tokens = AnalyzeRun(run, agent),
         NEW cache, cache = AnalyzeCache(run, agent),
         NEW evictions, evictions = AnalyzeEvictions(run, agent)
  PROVE  /\ MaxContextPasses(tokens) <=> Holds("max-context", run, agent)
         /\ MaxContextPctPasses(tokens) <=> Holds("max-context-pct", run, agent)
         /\ StablePrefixPasses(cache) <=> Holds("require-stable-prefix", run, agent)
         /\ NoDeadSchemasPasses(tokens) <=> Holds("no-dead-schemas", run, agent)
         /\ NoTaggedEvictionPasses(evictions) <=> Holds("no-tagged-eviction", run, agent)
         /\ MaxGrowthPasses(tokens) <=> Holds("max-growth", run, agent)
         /\ MaxGrowthPctPasses(tokens) <=> Holds("max-growth-pct", run, agent)
<1> DEFINE scope == Scope(run, agent)
           pairs == Successive(run, agent)
           Measured(k) == Contents(run[k]) \cap Unmeasured = {}
<1>1. /\ DOMAIN tokens.turns = scope
      /\ \A k \in scope : /\ tokens.turns[k].total = Total(run[k])
                          /\ tokens.turns[k].floor <=> ~Measured(k)
      /\ tokens.dead = Dead(run, agent)
  BY DEF AnalyzeRun, IsFloor
<1>2. \A k \in scope : Total(run[k]) \in Nat
  BY TotalIsNat DEF Scope, IsRun
<1>3. /\ \A p \in pairs : p[1] \in scope /\ p[2] \in scope
      /\ GrowthPairs(tokens) = pairs
  BY GrowthPairsAre DEF Successive, Scope
<1> HIDE DEF Measured, scope, pairs
<1>4. MaxContextPasses(tokens) <=> Holds("max-context", run, agent)
  BY <1>1 DEF MaxContextPasses, Holds, Measured, scope
<1>5. MaxContextPctPasses(tokens) <=> Holds("max-context-pct", run, agent)
  BY <1>1 DEF MaxContextPctPasses, Holds, Measured, scope
<1>6. StablePrefixPasses(cache) <=> Holds("require-stable-prefix", run, agent)
  <2>1. cache.pairs = Cardinality(Pairs(run, agent)) /\ cache.breaks = Breaks(run, agent)
    BY DEF AnalyzeCache
  <2>2. {<<b.prev, b.turn>> : b \in Breaks(run, agent)} = {p \in pairs : ~Extends(run, p)}
    BY BreaksAreExact DEF pairs
  <2>3. Breaks(run, agent) = {} <=> \A p \in pairs : Extends(run, p)
    BY <2>2
  <2>4. StablePrefixPasses(cache) <=> \A p \in pairs : Extends(run, p)
    BY <2>1, <2>3, NoPairs DEF StablePrefixPasses, pairs
  <2>5. QED
    BY <2>4 DEF Holds, pairs
<1>7. NoDeadSchemasPasses(tokens) <=> Holds("no-dead-schemas", run, agent)
  <2> DEFINE named == UNION {Mentions[b] : b \in UNION {Contents(run[k]) : k \in scope}}
             registered == UNION {SchemasOf(run[k]) : k \in scope}
  <2>1. tokens.dead = registered \ named
    BY <1>1 DEF Dead, Registered, scope
  <2>2. \A schema : schema \in named
                      <=> \E j \in scope : \E b \in Contents(run[j]) : schema \in Mentions[b]
    OBVIOUS
  <2>3. \A schema : schema \in registered <=> \E k \in scope : schema \in SchemasOf(run[k])
    OBVIOUS
  <2> HIDE DEF named, registered
  <2>4. NoDeadSchemasPasses(tokens)
          <=> \A k \in scope : \A schema \in SchemasOf(run[k]) :
                \E j \in scope : \E b \in Contents(run[j]) : schema \in Mentions[b]
    BY <2>1, <2>2, <2>3 DEF NoDeadSchemasPasses
  <2>5. QED
    BY <2>4 DEF Holds, scope
<1>8. NoTaggedEvictionPasses(evictions) <=> Holds("no-tagged-eviction", run, agent)
  <2> DEFINE Gone(p) == {c \in Lost(run, p) : IsTagged(run, run[p[1]].agent, c)}
             labels == {run[k].agent : k \in scope}
             holds == \A p \in pairs : \A b \in Lost(run, p) : ~IsTagged(run, run[p[1]].agent, b)
  <2>1. /\ evictions.pairs = Cardinality(Pairs(run, agent))
        /\ evictions.tagged = UNION {{label} \X Tagged(run, label) : label \in labels}
    BY DEF AnalyzeEvictions, scope
  <2>2. {<<e.lastSeen, e.evicted, e.block>> : e \in evictions.evictions}
          = UNION {{<<p[1], p[2], b>> : b \in Gone(p)} : p \in pairs}
    BY EvictionsAreExact DEF pairs
  <2>3. evictions.evictions = {} <=> \A p \in pairs : Gone(p) = {}
    <3> DEFINE triples == {<<e.lastSeen, e.evicted, e.block>> : e \in evictions.evictions}
               Of(p) == {<<p[1], p[2], b>> : b \in Gone(p)}
    <3>1. evictions.evictions = {} <=> triples = {}
      OBVIOUS
    <3>2. \A p \in pairs : Gone(p) = {} <=> Of(p) = {}
      <4> HIDE DEF Gone
      <4>1. QED
        OBVIOUS
    <3>3. triples = UNION {Of(p) : p \in pairs}
      BY <2>2
    <3> HIDE DEF triples, Of, Gone
    <3>4. triples = {} <=> \A p \in pairs : Of(p) = {}
      BY <3>3
    <3>5. QED
      BY <3>1, <3>2, <3>4
  <2>4. (\A p \in pairs : Gone(p) = {}) <=> holds
    OBVIOUS
  <2>5. ASSUME evictions.tagged = {}, NEW p \in pairs, NEW b, IsTagged(run, run[p[1]].agent, b)
        PROVE  FALSE
    <3>1. run[p[1]].agent \in labels
      BY <1>3
    <3>2. b \in Tagged(run, run[p[1]].agent)
      BY <2>5, TaggedIs
    <3>3. <<run[p[1]].agent, b>> \in evictions.tagged
      BY <2>1, <3>1, <3>2
    <3>4. QED
      BY <2>5, <3>3
  <2>6. evictions.tagged = {} => holds
    BY <2>5
  <2>7. evictions.pairs = 0 => holds
    BY <2>1, NoPairs DEF pairs
  <2>8. NoTaggedEvictionPasses(evictions) <=> holds
    BY <2>3, <2>4, <2>6, <2>7 DEF NoTaggedEvictionPasses
  <2>9. QED
    BY <2>8 DEF Holds, pairs
<1>9. MaxGrowthPasses(tokens) <=> Holds("max-growth", run, agent)
  <2>1. MaxGrowthPasses(tokens)
          <=> \A p \in pairs : /\ Total(run[p[2]]) - Total(run[p[1]]) <= MaxGrowth
                               /\ Measured(p[1]) /\ Measured(p[2])
    BY <1>1, <1>3 DEF MaxGrowthPasses, Floors
  <2>2. QED
    BY <2>1 DEF Holds, Measured, pairs
<1>10. MaxGrowthPctPasses(tokens) <=> Holds("max-growth-pct", run, agent)
  <2> DEFINE From(p) == Total(run[p[1]])
             Growth(p) == Total(run[p[2]]) - Total(run[p[1]])
             Within(p) == LET half == (2 * MaxGrowthPct + 1) * From(p) IN
                          \/ 2000 * Growth(p) < half
                          \/ 2000 * Growth(p) = half /\ <<Growth(p), From(p)>> \notin RoundsUp
  <2>1. MaxGrowthPctPasses(tokens)
          <=> \A p \in pairs :
                /\ Measured(p[1]) /\ Measured(p[2])
                /\ From(p) > 0 /\ Total(run[p[2]]) > From(p)
                     => Round1(Growth(p), From(p)) <= MaxGrowthPct
    BY <1>1, <1>3 DEF MaxGrowthPctPasses, Floors
  <2>2. ASSUME NEW p \in pairs, From(p) > 0
        PROVE  Within(p) <=> (Total(run[p[2]]) > From(p)
                                => Round1(Growth(p), From(p)) <= MaxGrowthPct)
    <3>1. /\ From(p) \in Nat /\ Total(run[p[2]]) \in Nat /\ MaxGrowthPct \in Nat
          /\ From(p) > 0
      BY <1>2, <1>3, <2>2, ReportsAssumption
    <3>2. ASSUME Total(run[p[2]]) > From(p)
          PROVE  Within(p) <=> Round1(Growth(p), From(p)) <= MaxGrowthPct
      <4>1. Growth(p) \in Nat
        BY <3>1, <3>2
      <4> HIDE DEF From, Growth
      <4>2. QED
        BY <3>1, <4>1, Round1Is
    <3>3. ASSUME ~(Total(run[p[2]]) > From(p)) PROVE Within(p)
      <4>1. Growth(p) \in Int /\ Growth(p) <= 0
        BY <3>1, <3>3
      <4> HIDE DEF From, Growth
      <4>2. (2 * MaxGrowthPct + 1) * From(p) = 2 * (MaxGrowthPct * From(p)) + From(p)
            /\ MaxGrowthPct * From(p) \in Nat
        BY <3>1
      <4>3. QED
        BY <3>1, <4>1, <4>2
    <3>4. QED
      BY <3>2, <3>3
  <2>3. Holds("max-growth-pct", run, agent)
          <=> \A p \in pairs : /\ Measured(p[1]) /\ Measured(p[2])
                               /\ From(p) > 0 => Within(p)
    BY DEF Holds, Measured, pairs
  <2> HIDE DEF From, Growth, Within
  <2>4. QED
    BY <2>1, <2>2, <2>3
<1>11. QED
  BY <1>4, <1>5, <1>6, <1>7, <1>8, <1>9, <1>10

=============================================================================
