------------------------------- MODULE Reports -------------------------------
(***************************************************************************)
(* The analyses of a run (src/ctxdiff/analyze): tokens.py, evictions.py,   *)
(* cache.py and the assertions of check.py.  A run maps the numbers of the *)
(* turns that are stored, which may have gaps, to turns: a turn is the     *)
(* agent that made the call, the blocks of its context and, per position,  *)
(* the tag it was recorded with.  Every analysis looks at the turns of one *)
(* agent, or of them all, in the order of their numbers and compares a     *)
(* turn only with the turn before of the same agent.                       *)
(***************************************************************************)
EXTENDS Differ, SequencesExt

CONSTANTS
  None,            (* no label, no tag, no filter: Python's None *)
  Unmeasured,      (* blocks whose token count stands for "unknown" *)
  Schemas,         (* blocks that are tool schemas with a name of their own *)
  Mentions,        (* per block: the schemas named in it, if it is an assistant's
                      message or a tool's output *)
  MaxContext, Window, MaxContextPct, MaxGrowth,
  MaxGrowthPct,    (* the thresholds of `Thresholds`; percentages in tenths *)
  RoundsUp         (* the <<part, whole>> half way between two tenths that floating
                      point rounds to the upper one *)

ASSUME ReportsAssumption ==
  /\ Unmeasured \subseteq {b \in Blocks : Tokens[b] = 0}
  /\ Schemas \subseteq Blocks
  /\ Mentions \in [Blocks -> SUBSET Schemas]
  /\ {Window, MaxContext, MaxContextPct} \subseteq Nat \ {0}
  /\ {MaxGrowth, MaxGrowthPct} \subseteq Nat
  /\ RoundsUp \subseteq Nat \X Nat

IsTurn(turn) == turn.blocks \in Seq(Blocks) /\ DOMAIN turn.tags = DOMAIN turn.blocks

Contents(turn) == {turn.blocks[i] : i \in DOMAIN turn.blocks}

(* `filter_calls` *)
Scope(run, agent) == {k \in DOMAIN run : agent = None \/ run[k].agent = agent}

(* The turns of one label, None being a label here: a group of the analyses. *)
TurnsOf(run, label) == {k \in DOMAIN run : run[k].agent = label}

(* `distinct_agent_names`: calls without a label have no name. *)
AgentNames(run) == {run[k].agent : k \in DOMAIN run} \ {None}

Earlier(run, k) == {j \in TurnsOf(run, run[k].agent) : j < k}

(* `zip(calls, calls[1:])` in each group: in scope, next to one another among *)
(* the turns of their agent.                                                  *)
Pairs(run, agent) ==
  {<<Max(Earlier(run, k)), k>> : k \in {k \in Scope(run, agent) : Earlier(run, k) # {}}}

(* `zip(calls, calls[1:])` of the whole run: in a row, whichever the agents. *)
InARow(run) ==
  {p \in (DOMAIN run) \X (DOMAIN run) :
     p[1] < p[2] /\ ~\E k \in DOMAIN run : p[1] < k /\ k < p[2]}

Diff(run, pair) == DiffCalls(run[pair[1]].blocks, run[pair[2]].blocks)

-----------------------------------------------------------------------------
(* tokens.py *)

(* `analyze_call`: the sum, and the blocks it counts as nothing because it   *)
(* does not know them.                                                       *)
Total(turn) == Cost(turn.blocks, DOMAIN turn.blocks)
IsFloor(turn) == Contents(turn) \cap Unmeasured # {}

SchemasOf(turn) ==
  {turn.blocks[i] : i \in {j \in DOMAIN turn.blocks : turn.blocks[j] \in Schemas
                                                     /\ turn.tags[j] = None}}

(* `registered_tool_names`: the label of a tagged block is its tag. *)
Registered(run, agent) == UNION {SchemasOf(run[k]) : k \in Scope(run, agent)}

(* `detect_bloat`: registered in the scope and named nowhere in it. *)
Dead(run, agent) ==
  Registered(run, agent)
    \ UNION {Mentions[b] : b \in UNION {Contents(run[k]) : k \in Scope(run, agent)}}

(* `analyze_run` *)
AnalyzeRun(run, agent) ==
  [turns |-> [k \in Scope(run, agent) |->
                [agent |-> run[k].agent, total |-> Total(run[k]), floor |-> IsFloor(run[k])]],
   dead |-> Dead(run, agent)]

-----------------------------------------------------------------------------
(* evictions.py: first_seen and last_seen of a block in its agent's turns,   *)
(* and the turn and label it was first tagged with.                          *)
Holding(run, label, b) == {k \in TurnsOf(run, label) : b \in Contents(run[k])}

TagsOf(turn, b) ==
  {i \in DOMAIN turn.blocks : turn.blocks[i] = b /\ turn.tags[i] # None}

Tagging(run, label, b) == {k \in TurnsOf(run, label) : TagsOf(run[k], b) # {}}

Tagged(run, label) ==
  {b \in UNION {Contents(run[k]) : k \in TurnsOf(run, label)} : Tagging(run, label, b) # {}}

Eviction(run, pair, b) ==
  LET label == run[pair[1]].agent
      first == Min(Tagging(run, label, b)) IN
  [block |-> b, agent |-> label, tag |-> run[first].tags[Min(TagsOf(run[first], b))],
   tagged |-> first, entered |-> Min(Holding(run, label, b)),
   lastSeen |-> pair[1], evicted |-> pair[2]]

(* Faulty variant: a block is given up as soon as one turn goes without it.  *)
LostAtPairEarly(run, pair) ==
  {run[pair[1]].blocks[i] : i \in Diff(run, pair).evicted}
    \cap Tagged(run, run[pair[1]].agent)

(* `_analyze_group`: what the differ calls evicted on this pair, was tagged  *)
(* at any time and is in no later turn of the agent.                         *)
LostAtPair(run, pair) ==
  {b \in {run[pair[1]].blocks[i] : i \in Diff(run, pair).evicted} :
     /\ b \in Tagged(run, run[pair[1]].agent)
     /\ Max(Holding(run, run[pair[1]].agent, b)) <= pair[1]}

(* `analyze_evictions`; `tagged` are the pairs of an agent and a block. *)
AnalyzeEvictions(run, agent) ==
  LET labels == {run[k].agent : k \in Scope(run, agent)} IN
  [pairs |-> Cardinality(Pairs(run, agent)),
   tagged |-> UNION {{label} \X Tagged(run, label) : label \in labels},
   evictions |-> UNION {{Eviction(run, p, b) : b \in LostAtPair(run, p)} :
                          p \in Pairs(run, agent)}]

-----------------------------------------------------------------------------
(* cache.py: how many blocks of the newer turn a provider's prefix cache has *)
(* already.                                                                  *)
Stable(old, new) ==
  Max({n \in 0..Len(old) : n <= Len(new) /\ SubSeq(old, 1, n) = SubSeq(new, 1, n)})

(* Faulty variant: a block that shifted is looked for before one that left.  *)
CulpritShifted(diff, i) ==
  CASE <<i, i>> \in diff.modified -> "modified"
    [] <<i, i>> \notin diff.modified /\ i \in diff.added -> "added"
    [] <<i, i>> \notin diff.modified /\ i \notin diff.added
         /\ \E p \in diff.unchanged : p[1] # p[2] /\ i \in {p[1], p[2]} -> "reordered"
    [] OTHER -> "evicted"

(* `_attribute_break`: what happened at the first position that differs. *)
Culprit(diff, i) ==
  CASE <<i, i>> \in diff.modified -> "modified"
    [] <<i, i>> \notin diff.modified /\ i \in diff.added -> "added"
    [] <<i, i>> \notin diff.modified /\ i \notin diff.added /\ i \in diff.evicted -> "evicted"
    [] <<i, i>> \notin diff.modified /\ i \notin diff.added \cup diff.evicted
         /\ \E p \in diff.unchanged : p[1] # p[2] /\ i \in {p[1], p[2]} -> "reordered"
    [] OTHER -> "changed"

(* `_analyze_group` of cache.py: a turn that only appends, or only drops the *)
(* end, breaks nothing.                                                      *)
Breaks(run, agent) ==
  LET Old(p) == run[p[1]].blocks
      New(p) == run[p[2]].blocks
      Prefix(p) == Stable(Old(p), New(p))
      Broken(p) == Prefix(p) < Min({Len(Old(p)), Len(New(p))}) IN
  {[prev |-> p[1], turn |-> p[2], agent |-> run[p[2]].agent, stable |-> Prefix(p),
    stableTokens |-> Cost(New(p), 1..Prefix(p)),
    rebilled |-> Cost(New(p), (Prefix(p) + 1)..Len(New(p))),
    kind |-> Culprit(Diff(run, p), Prefix(p) + 1)] :
     p \in {q \in Pairs(run, agent) : Broken(q)}}

(* `analyze_cache` *)
AnalyzeCache(run, agent) ==
  LET pairs == Pairs(run, agent)
      breaks == Breaks(run, agent)
      Kept(p) == Cost(run[p[2]].blocks, 1..Stable(run[p[1]].blocks, run[p[2]].blocks)) IN
  [pairs |-> Cardinality(pairs), breaks |-> breaks,
   stableMin |-> IF pairs = {} THEN 0 ELSE Min({Kept(p) : p \in pairs}),
   rebilled |-> MapThenSumSet(LAMBDA b : b.rebilled, breaks)]

-----------------------------------------------------------------------------
(* check.py: the assertions, each on a report.                               *)

(* `_growth_pairs`, of the turns a report of tokens.py lists. *)
GrowthPairs(report) == Pairs(report.turns, None)

Floors(report, pair) == report.turns[pair[1]].floor \/ report.turns[pair[2]].floor

(* `round1` of a percentage, in tenths and for growth only: to the nearest   *)
(* tenth; if there are two, to the one on whose side the quotient falls that *)
(* floating point makes of it.                                               *)
Round1(part, whole) ==
  LET tenths == (1000 * part) \div whole
      rest == (1000 * part) % whole IN
  IF 2 * rest > whole \/ (2 * rest = whole /\ <<part, whole>> \in RoundsUp)
  THEN tenths + 1 ELSE tenths

(* `_check_max_context`, `_check_max_context_pct`: a floor is no measurement.*)
MaxContextPasses(report) ==
  \A k \in DOMAIN report.turns :
    report.turns[k].total <= MaxContext /\ ~report.turns[k].floor

MaxContextPctPasses(report) ==
  \A k \in DOMAIN report.turns :
    /\ report.turns[k].total * 1000 <= Window * MaxContextPct
    /\ ~report.turns[k].floor

(* `_check_max_growth` *)
MaxGrowthPasses(report) ==
  \A p \in GrowthPairs(report) :
    /\ report.turns[p[2]].total - report.turns[p[1]].total <= MaxGrowth
    /\ ~Floors(report, p)

(* Faulty variant: the pairs without a percentage are left out of the search *)
(* for unmeasured ones too.                                                  *)
MaxGrowthPctPassesMeasured(report) ==
  \A p \in {q \in GrowthPairs(report) : report.turns[q[1]].total > 0} :
    LET from == report.turns[p[1]].total
        to == report.turns[p[2]].total IN
    /\ ~Floors(report, p)
    /\ to > from => Round1(to - from, from) <= MaxGrowthPct

(* `_check_max_growth_pct`: a pair that starts at nothing has no percentage, *)
(* but it must have been measured.                                           *)
MaxGrowthPctPasses(report) ==
  \A p \in GrowthPairs(report) :
    LET from == report.turns[p[1]].total
        to == report.turns[p[2]].total IN
    /\ ~Floors(report, p)
    /\ from > 0 /\ to > from => Round1(to - from, from) <= MaxGrowthPct

(* `_check_stable_prefix`, `_check_no_tagged_eviction`, `_check_no_dead_schemas` *)
StablePrefixPasses(report) == report.pairs = 0 \/ report.breaks = {}
NoTaggedEvictionPasses(report) ==
  report.tagged = {} \/ report.pairs = 0 \/ report.evictions = {}
NoDeadSchemasPasses(report) == report.dead = {}

-----------------------------------------------------------------------------
(* What the reports claim of a run, stated without the operators of the      *)
(* analyses.  Successive turns of one agent, of the one asked for:           *)
Successive(run, agent) ==
  {p \in (DOMAIN run) \X (DOMAIN run) :
     /\ p[1] < p[2]
     /\ run[p[1]].agent = run[p[2]].agent
     /\ agent = None \/ run[p[1]].agent = agent
     /\ \A k \in DOMAIN run : p[1] < k /\ k < p[2] => run[k].agent # run[p[1]].agent}

Extends(run, p) == \/ IsPrefix(run[p[1]].blocks, run[p[2]].blocks)
                   \/ IsPrefix(run[p[2]].blocks, run[p[1]].blocks)

(* The blocks of an agent's turn that are gone for good in its next turn and *)
(* were not replaced in their place.                                         *)
LeftOver(context, modified) == {context[i] : i \in (DOMAIN context) \ Firsts(modified)}

Lost(run, p) ==
  {b \in LeftOver(run[p[1]].blocks, Diff(run, p).modified) :
     \A k \in TurnsOf(run, run[p[1]].agent) : k > p[1] => b \notin Contents(run[k])}

IsTagged(run, agent, b) ==
  \E k \in TurnsOf(run, agent) : \E i \in DOMAIN run[k].blocks :
    run[k].blocks[i] = b /\ run[k].tags[i] # None

(* What the kind of a break claims of the first position that differs.  A     *)
(* block that was modified elsewhere counts as gone from one side and new on  *)
(* the other, although it may be in both.                                     *)
Copies(context, b, modified) ==
  Cardinality({i \in (DOMAIN context) \ modified : context[i] = b})

CulpritFits(kind, old, new, i, modified) ==
  LET Gains(b) == Copies(new, b, Seconds(modified)) > Copies(old, b, Firsts(modified))
      Loses(b) == Copies(new, b, Seconds(modified)) < Copies(old, b, Firsts(modified)) IN
  CASE kind = "modified" -> Slot[old[i]] = Slot[new[i]]
    [] kind = "added" -> Gains(new[i])
    [] kind = "evicted" -> Loses(old[i])
    [] kind = "reordered" -> new[i] \in ToSet(old) /\ old[i] \in ToSet(new)
    [] OTHER -> FALSE

BreakFits(b, old, new) ==
  /\ SubSeq(old, 1, b.stable) = SubSeq(new, 1, b.stable)
  /\ old[b.stable + 1] # new[b.stable + 1]
  /\ CulpritFits(b.kind, old, new, b.stable + 1, DiffCalls(old, new).modified)
  /\ b.stableTokens + b.rebilled = Cost(new, DOMAIN new)

(* What a gate of `ctxdiff check` claims of a run. *)
Holds(gate, run, agent) ==
  LET Measured(k) == Contents(run[k]) \cap Unmeasured = {}
      Growth(p) == Total(run[p[2]]) - Total(run[p[1]])
      pairs == Successive(run, agent) IN
  CASE gate = "max-context" ->
         \A k \in Scope(run, agent) : Measured(k) /\ Total(run[k]) <= MaxContext
    [] gate = "max-context-pct" ->
         \A k \in Scope(run, agent) :
           Measured(k) /\ Total(run[k]) * 1000 <= Window * MaxContextPct
    [] gate = "require-stable-prefix" -> \A p \in pairs : Extends(run, p)
    [] gate = "no-dead-schemas" ->
         \A k \in Scope(run, agent) : \A schema \in SchemasOf(run[k]) :
           \E j \in Scope(run, agent) : \E b \in Contents(run[j]) : schema \in Mentions[b]
    [] gate = "no-tagged-eviction" ->
         \A p \in pairs : \A b \in Lost(run, p) : ~IsTagged(run, run[p[1]].agent, b)
    [] gate = "max-growth" ->
         \A p \in pairs : Measured(p[1]) /\ Measured(p[2]) /\ Growth(p) <= MaxGrowth
    [] gate = "max-growth-pct" ->
         \A p \in pairs :
           /\ Measured(p[1]) /\ Measured(p[2])
           /\ Total(run[p[1]]) > 0 =>
                LET half == (2 * MaxGrowthPct + 1) * Total(run[p[1]]) IN
                \/ 2000 * Growth(p) < half
                \/ /\ 2000 * Growth(p) = half
                   /\ <<Growth(p), Total(run[p[1]])>> \notin RoundsUp

=============================================================================
