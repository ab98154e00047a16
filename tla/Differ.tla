-------------------------------- MODULE Differ --------------------------------
(***************************************************************************)
(* The diff of two turns (src/ctxdiff/analyze/differ.py).  A context is a  *)
(* sequence of blocks; two memberships with the same content hash are the  *)
(* same block.  The entries of a diff are positions in the two contexts.   *)
(***************************************************************************)
EXTENDS Integers, Sequences, FiniteSetsExt

CONSTANTS
  Blocks,          (* blocks, told apart by their content hash *)
  Slot,            (* per block: its role and kind *)
  Tokens           (* per block: its token count *)

ASSUME DifferAssumption == Tokens \in [Blocks -> Nat] /\ DOMAIN Slot = Blocks

Firsts(pairs) == {p[1] : p \in pairs}
Seconds(pairs) == {p[2] : p \in pairs}

Cost(context, positions) == MapThenSumSet(LAMBDA i : Tokens[context[i]], positions)

-----------------------------------------------------------------------------
(* `difflib.SequenceMatcher` without junk: the longest common run, the first *)
(* in `a` and then in `b` if there are several...                            *)
LongestMatch(a, b, alo, ahi, blo, bhi) ==
  LET runs == {m \in (alo..ahi) \X (blo..bhi) \X (1..Len(a)) :
                 /\ m[1] + m[3] - 1 <= ahi
                 /\ m[2] + m[3] - 1 <= bhi
                 /\ \A d \in 0..(m[3] - 1) : a[m[1] + d] = b[m[2] + d]}
      Precedes(m, n) == \/ m[3] > n[3]
                        \/ m[3] = n[3] /\ m[1] < n[1]
                        \/ m[3] = n[3] /\ m[1] = n[1] /\ m[2] <= n[2]
  IN  IF runs = {} THEN <<alo, blo, 0>>
      ELSE CHOOSE m \in runs : \A n \in runs : Precedes(m, n)

(* ...and the same to its left and to its right: the pairs of positions in   *)
(* its 'equal' opcodes.  A region is a range of `a` and one of `b`.          *)
Regions(a, b) ==
  (1..(Len(a) + 1)) \X (0..Len(a)) \X (1..(Len(b) + 1)) \X (0..Len(b))

Matched(a, b) ==
  LET M[r \in Regions(a, b)] ==
        LET m == LongestMatch(a, b, r[1], r[2], r[3], r[4]) IN
        IF m[3] = 0 THEN {}
        ELSE M[<<r[1], m[1] - 1, r[3], m[2] - 1>>]
             \cup {<<m[1] + d, m[2] + d>> : d \in 0..(m[3] - 1)}
             \cup M[<<m[1] + m[3], r[2], m[2] + m[3], r[4]>>]
  IN  M[<<1, Len(a), 1, Len(b)>>]

(* Positions i and j lie in one 'replace' opcode and as far from its start.  *)
Facing(matched, i, j) ==
  LET left == {m \in matched : m[1] < i} IN
  /\ left = {m \in matched : m[2] < j}
  /\ i - Max(Firsts(left) \cup {0}) = j - Max(Seconds(left) \cup {0})

-----------------------------------------------------------------------------
(* Faulty variants of the operations below, as in the other modules.         *)

(* A block that moved is looked up by its hash, not by its occurrence.       *)
ReconcileMovesByHash(old, new, diff) ==
  LET moved == {p \in diff.evicted \X diff.added : old[p[1]] = new[p[2]]} IN
  [diff EXCEPT !.unchanged = @ \cup moved, !.evicted = @ \ Firsts(moved),
               !.added = @ \ Seconds(moved)]

-----------------------------------------------------------------------------
(* The opcodes of `diff_calls`: what was replaced position by position in    *)
(* its slot is modified, the rest is gone from one side and new on the other.*)
ModifiedPairs(old, new, matched) ==
  {p \in ((DOMAIN old) \ Firsts(matched)) \X ((DOMAIN new) \ Seconds(matched)) :
     Slot[old[p[1]]] = Slot[new[p[2]]] /\ Facing(matched, p[1], p[2])}

Classify(old, new, matched, modified) ==
  [unchanged |-> matched, modified |-> modified,
   evicted |-> (DOMAIN old) \ Firsts(matched \cup modified),
   added |-> (DOMAIN new) \ Seconds(matched \cup modified)]

(* `_reconcile_moves`: what left and came back elsewhere is unchanged, the   *)
(* copies of a block paired off in their order.                              *)
Rank(context, positions, i) ==
  Cardinality({k \in positions : k < i /\ context[k] = context[i]})

ReconcileMoves(old, new, diff) ==
  LET moved == {p \in diff.evicted \X diff.added :
                  /\ old[p[1]] = new[p[2]]
                  /\ Rank(old, diff.evicted, p[1]) = Rank(new, diff.added, p[2])} IN
  [diff EXCEPT !.unchanged = @ \cup moved, !.evicted = @ \ Firsts(moved),
               !.added = @ \ Seconds(moved)]

DiffMatched(old, new, matched) ==
  ReconcileMoves(old, new, Classify(old, new, matched, ModifiedPairs(old, new, matched)))

DiffCalls(old, new) == DiffMatched(old, new, Matched(old, new))

(* A modification is paid for as an eviction and an addition.                *)
TokensAdded(new, diff) == Cost(new, diff.added \cup Seconds(diff.modified))
TokensEvicted(old, diff) == Cost(old, diff.evicted \cup Firsts(diff.modified))

-----------------------------------------------------------------------------
(* Every membership of both contexts has exactly one fate, whatever is       *)
(* repeated or moved in them.                                                *)
OneFateEach(old, new, diff) ==
  LET pairs == diff.unchanged \cup diff.modified IN
  /\ \A p, q \in pairs : p[1] = q[1] \/ p[2] = q[2] => p = q
  /\ Firsts(pairs) \cup diff.evicted = DOMAIN old
  /\ Seconds(pairs) \cup diff.added = DOMAIN new
  /\ Firsts(pairs) \cap diff.evicted = {}
  /\ Seconds(pairs) \cap diff.added = {}
  /\ diff.unchanged \cap diff.modified = {}

(* No content is both added and evicted, and the token columns balance.      *)
Balanced(old, new, diff) ==
  /\ \A i \in diff.evicted, j \in diff.added : old[i] # new[j]
  /\ \A p \in diff.unchanged : old[p[1]] = new[p[2]]
  /\ \A p \in diff.modified : old[p[1]] # new[p[2]]
  /\ TokensAdded(new, diff) - TokensEvicted(old, diff) =
       Cost(new, DOMAIN new) - Cost(old, DOMAIN old)

=============================================================================
