------------------------------ MODULE InspectProofs ------------------------------
(***************************************************************************)
(* What a command that looks into a growing store answers is right,        *)
(* however many sessions and turns are recorded while it runs.             *)
(*                                                                         *)
(* The order in which a command reads is what the properties hang on.  The *)
(* invariant therefore says of every step what is known once it has been   *)
(* taken (`Seen`), and that the steps still to come are in the order of    *)
(* `Place`.                                                                 *)
(***************************************************************************)
EXTENDS Inspect, ReportsProofs

-----------------------------------------------------------------------------
(* The steps of all commands, in the one order that suits all plans. *)
Steps ==
  {"runs", "bind", "choose", "agent", "count", "turns", "target", "previous", "within",
   "sides", "project", "pairs", "tokens", "cache", "evictions", "find", "page", "list",
   "calls"}

Place(step) ==
  CASE step = "runs" -> 1 [] step = "bind" -> 2 [] step = "choose" -> 3
    [] step = "agent" -> 4 [] step = "count" -> 5 [] step = "turns" -> 6
    [] step = "target" -> 7 [] step = "previous" -> 8 [] step = "within" -> 9
    [] step = "sides" -> 10 [] step = "project" -> 11 [] step = "pairs" -> 12
    [] step = "tokens" -> 13 [] step = "cache" -> 14 [] step = "evictions" -> 15
    [] step = "find" -> 16 [] step = "page" -> 17 [] step = "list" -> 18
    [] step = "calls" -> 19

InOrder(steps) == \A i, j \in DOMAIN steps : i < j => Place(steps[i]) < Place(steps[j])

(* The steps in the plan of a command. *)
Planned(step) ==
  \/ step = "bind"
  \/ step = "runs" /\ ask.handle # 0
  \/ step = "choose" /\ ask.tool \notin {"sessions", "agents"}
  \/ step = "agent" /\ ask.tool \in {"check", "tokens", "cache", "explain"}
  \/ step \in {"agent", "within"} /\ ask.tool = "diff" /\ ~Across
  \/ step = "sides" /\ ask.tool = "diff" /\ Across
  \/ step = "turns" /\ ask.server /\ ask.tool = "tokens"
  \/ step = "turns" /\ ask.server /\ ask.tool = "diff" /\ ask.agents # <<>>
  \/ step = "count" /\ ask.tool = "check"
  \/ step = "tokens" /\ ask.tool = "check" /\ ask.gates \cap TokenGates # {}
  \/ step = "cache" /\ ask.tool = "check" /\ "require-stable-prefix" \in ask.gates
  \/ step = "evictions" /\ ask.tool = "check" /\ "no-tagged-eviction" \in ask.gates
  \/ step \in {"tokens", "evictions"} /\ ask.tool = "tokens"
  \/ step = "cache" /\ ask.tool = "cache"
  \/ step \in {"target", "previous"} /\ ask.tool = "explain"
  \/ step \in {"project", "pairs"} /\ ask.tool = "export"
  \/ step \in {"tokens", "cache", "evictions"} /\ ask.tool \in {"explain", "export"}
  \/ step \in {"find", "page"} /\ ask.tool = "block"
  \/ step = "list" /\ ask.tool \in {"sessions", "agents"}
  \/ step = "calls" /\ ask.tool = "agents"

Live == exit \in {"running", "answer", "failed"}
Seen(step) == Live /\ Planned(step) /\ step \notin ToSet(todo)

-----------------------------------------------------------------------------
(* The inductive invariant. *)
Turns == UNION {Recordable[s] : s \in DOMAIN Recordable}
Runs == UNION {[numbers -> Turns] : numbers \in SUBSET (1..MaxTurns)}

TypeInv ==
  /\ ask \in Asks
  /\ runs \in Seq(Runs) /\ Len(runs) <= Len(Recordable)
  /\ exit \in {"idle", "running", "usage", "error", "answer", "failed"}
  /\ todo \in Seq(Steps) /\ InOrder(todo) /\ \A step \in ToSet(todo) : Planned(step)
  /\ \A step \in ToSet(todo), later \in Steps :
       Planned(later) /\ Place(step) < Place(later) => later \in ToSet(todo)
  /\ exit # "running" => todo = <<>>
  /\ exit \notin {"idle", "usage"} => ~UsageError
  /\ bound \in 0..Len(runs)
  /\ DOMAIN report = DOMAIN NoReport /\ DOMAIN report.asOf = DOMAIN NoReport.asOf
  /\ exit = "idle" => bound = 0 /\ view = <<>> /\ report = NoReport

(* What was chosen is what was asked for, and was there to be chosen. *)
ViewFits ==
  /\ bound > 0
  /\ DOMAIN view = IF ask.sessions = <<>> THEN {1} ELSE DOMAIN ask.sessions
  /\ \A i \in DOMAIN view : view[i] \in DOMAIN runs
  /\ \A i \in DOMAIN ask.sessions :
       view[i] \in ask.sessions[i].name /\ ask.sessions[i].name \cap 1..bound \subseteq {view[i]}
  /\ ask.handle # 0 => view[1] = ask.handle
  /\ ask.sessions = <<>> /\ ask.handle = 0 =>
       view[1] = bound /\ (bound = 1 \/ ask.tool = "export")
  /\ ask.tool = "export" /\ Agent # None =>
       \E s \in DOMAIN runs : Agent \in AgentNames(runs[s])

ViewInv ==
  /\ ~Planned("choose") => view = <<>>
  /\ Seen("bind") /\ exit = "running" => bound > 0
  /\ Seen("choose") => ViewFits

HandlesInv ==
  /\ \E n \in 0..Len(runs) :
       /\ DOMAIN report.handles = 1..n
       /\ \A s \in 1..n : report.handles[s] = RunLabel(1..n, s)
  /\ Seen("runs") => ask.handle \in DOMAIN report.handles

DiffsInv ==
  \A d \in report.diffs : \E old, new \in Seq(Blocks) : d = Sides(old, new)

(* The turn an explanation is of, and the one it is compared with: the last  *)
(* of its agent before it, of the turns there were then.                     *)
TargetInv ==
  /\ ~Planned("target") => report.target = 0
  /\ Seen("target") => report.target \in Scope(Run, Agent)
  /\ Live /\ ~Seen("previous") => report.previous = 0
  /\ Seen("previous") =>
       LET earlier == Earlier(AsRead("previous"), report.target) IN
       /\ report.asOf.previous \subseteq DOMAIN Run
       /\ report.target \in report.asOf.previous
       /\ report.previous = IF earlier = {} THEN 0 ELSE Max(earlier)

CountInv == Seen("count") => report.turns # {} /\ report.turns \subseteq DOMAIN Run

(* An analysis is of the turns there were then, which stay; a check reads no *)
(* less than it counted, an explanation no less than it compared.            *)
SawEnough(numbers) ==
  /\ numbers \subseteq DOMAIN Run
  /\ ask.tool = "check" => report.turns \subseteq numbers
  /\ ask.tool = "explain" => report.asOf.previous \subseteq numbers

TokensInv ==
  /\ Live /\ ~Seen("tokens") => report.tokens = NoReport.tokens /\ report.asOf.tokens = {}
  /\ Seen("tokens") => /\ SawEnough(report.asOf.tokens)
                       /\ report.tokens = AnalyzeRun(AsRead("tokens"), ReportOn)

CacheInv ==
  /\ Live /\ ~Seen("cache") => report.cache = NoReport.cache /\ report.asOf.cache = {}
  /\ Seen("cache") => /\ SawEnough(report.asOf.cache)
                      /\ report.cache = AnalyzeCache(AsRead("cache"), ReportOn)

EvictionsInv ==
  /\ Live /\ ~Seen("evictions") =>
       report.evictions = NoReport.evictions /\ report.asOf.evictions = {}
  /\ Seen("evictions") => /\ SawEnough(report.asOf.evictions)
                          /\ report.evictions = AnalyzeEvictions(AsRead("evictions"), ReportOn)

(* Where a dashboard opens. *)
StartFits ==
  LET ran == {s \in DOMAIN report.project : Agent \in report.project[s]} IN
  /\ ran # {}
  /\ report.start.level = 2 => ask.sessions = <<>> /\ \E s, t \in ran : s # t
  /\ report.start.level = 3 =>
       /\ report.start.session = view[1]
       /\ ask.sessions # <<>> \/ \E s \in ran : ran = {s}

ProjectInv ==
  /\ Live /\ ~Seen("project") => report.start.level = 0
  /\ Seen("project") /\ Agent # None => StartFits

(* The calls that were counted are of the sessions that were listed, and no  *)
(* fewer than there were when they were listed.                              *)
IsPartOf(part, run) ==
  DOMAIN part \subseteq DOMAIN run /\ \A k \in DOMAIN part : part[k] = run[k]

CountOf(run) == Cardinality(DOMAIN run)

ListInv ==
  /\ report.calls \in Seq(Runs) /\ report.sessions \in Seq(Nat)
  /\ \E n \in 0..Len(runs) : DOMAIN report.sessions = 1..n /\ Len(report.calls) <= n
  /\ \A s \in DOMAIN report.sessions : report.sessions[s] \in 0..CountOf(runs[s])
  /\ \A s \in DOMAIN report.calls :
       /\ IsPartOf(report.calls[s], runs[s])
       /\ CountOf(report.calls[s]) >= report.sessions[s]
  /\ Live /\ "list" \in ToSet(todo) => report.calls = <<>> /\ report.sessions = <<>>
  /\ Seen("list") /\ "calls" \in ToSet(todo) => Len(report.calls) + 1 \in DOMAIN report.sessions
  /\ Seen("calls") => DOMAIN report.calls = DOMAIN report.sessions

(* The block that is paged through is in the session of its first page, and  *)
(* whatever has been recorded since, that session is the one that is found   *)
(* again.                                                                    *)
BlockInv ==
  /\ Seen("find") => /\ report.block \in ask.block
                     /\ \E k \in DOMAIN Run : report.block \in Contents(Run[k])
  /\ report.pages # <<>> =>
       LET session == report.pages[1].session IN
       /\ ask.tool = "block"
       /\ session \in DOMAIN runs
       /\ report.block \in ask.block
       /\ \E k \in DOMAIN runs[session] : report.block \in Contents(runs[session][k])
       /\ ask.handle # 0 => session = ask.handle
       /\ ask.sessions # <<>> => session \in ask.sessions[1].name
       /\ Seen("choose") => view[1] = session

PageRecords ==
  [session : Nat, block : Blocks, from : Nat, to : Nat, next : Nat \cup {None}, size : Nat]

PagesInv ==
  /\ report.pages \in Seq(PageRecords)
  /\ \A i \in DOMAIN report.pages :
       LET page == report.pages[i] IN
       /\ page.session = report.pages[1].session /\ page.block = report.block
       /\ page.size <= Room /\ page.to >= ask.offset
       /\ page.from = IF i = 1 THEN ask.offset ELSE report.pages[i - 1].to
       /\ page.next # None =>
            page.next = page.to /\ page.from < page.to /\ page.to < Len(Text[report.block])
       /\ page.next = None => page.to = Max({Len(Text[report.block]), ask.offset})
  /\ report.pages # <<>> /\ "page" \in ToSet(todo) => Last(report.pages).next # None

IInv ==
  /\ TypeInv /\ ViewInv /\ HandlesInv /\ DiffsInv
  /\ TargetInv /\ CountInv /\ TokensInv /\ CacheInv /\ EvictionsInv
  /\ ProjectInv /\ ListInv /\ BlockInv /\ PagesInv

-----------------------------------------------------------------------------
(* Plans: their steps are in order, so taking the first leaves the others.   *)
LEMMA PlaceIs ==
  /\ Place("runs") = 1 /\ Place("bind") = 2 /\ Place("choose") = 3
  /\ Place("agent") = 4 /\ Place("count") = 5 /\ Place("turns") = 6
  /\ Place("target") = 7 /\ Place("previous") = 8 /\ Place("within") = 9
  /\ Place("sides") = 10 /\ Place("project") = 11 /\ Place("pairs") = 12
  /\ Place("tokens") = 13 /\ Place("cache") = 14 /\ Place("evictions") = 15
  /\ Place("find") = 16 /\ Place("page") = 17 /\ Place("list") = 18
  /\ Place("calls") = 19
BY DEF Place

LEMMA StepsAre ==
  /\ "runs" \in Steps /\ "bind" \in Steps /\ "choose" \in Steps
  /\ "agent" \in Steps /\ "count" \in Steps /\ "turns" \in Steps
  /\ "target" \in Steps /\ "previous" \in Steps /\ "within" \in Steps
  /\ "sides" \in Steps /\ "project" \in Steps /\ "pairs" \in Steps
  /\ "tokens" \in Steps /\ "cache" \in Steps /\ "evictions" \in Steps
  /\ "find" \in Steps /\ "page" \in Steps /\ "list" \in Steps
  /\ "calls" \in Steps
BY DEF Steps

LEMMA PlaceIsNat ==
  ASSUME NEW step \in Steps
  PROVE  Place(step) \in Nat
BY PlaceIs DEF Steps

LEMMA HeadGoes ==
  ASSUME NEW steps \in Seq(Steps), InOrder(steps), steps # <<>>
  PROVE  /\ Head(steps) \in ToSet(steps)
         /\ Tail(steps) \in Seq(Steps)
         /\ InOrder(Tail(steps))
         /\ ToSet(Tail(steps)) = ToSet(steps) \ {Head(steps)}
         /\ \A step \in ToSet(Tail(steps)) : Place(Head(steps)) < Place(step)
<1>1. /\ Len(steps) \in Nat /\ Len(steps) > 0 /\ DOMAIN steps = 1..Len(steps)
      /\ Head(steps) = steps[1]
  OBVIOUS
<1>2. /\ Tail(steps) \in Seq(Steps) /\ Len(Tail(steps)) = Len(steps) - 1
      /\ DOMAIN Tail(steps) = 1..(Len(steps) - 1)
      /\ \A i \in 1..(Len(steps) - 1) : Tail(steps)[i] = steps[i + 1]
  OBVIOUS
<1>3. \A i, j \in DOMAIN steps : i < j => Place(steps[i]) < Place(steps[j])
  BY DEF InOrder
<1>4. InOrder(Tail(steps))
  <2>1. ASSUME NEW i \in 1..(Len(steps) - 1), NEW j \in 1..(Len(steps) - 1), i < j
        PROVE  Place(Tail(steps)[i]) < Place(Tail(steps)[j])
    <3>1. i + 1 \in DOMAIN steps /\ j + 1 \in DOMAIN steps /\ i + 1 < j + 1
      BY <1>1, <2>1
    <3>2. QED
      BY <1>2, <1>3, <3>1
  <2>2. QED
    BY <1>2, <2>1 DEF InOrder
<1>5. ASSUME NEW step \in ToSet(Tail(steps))
      PROVE  step \in ToSet(steps) /\ Place(Head(steps)) < Place(step)
  <2>1. PICK i \in 1..(Len(steps) - 1) : step = Tail(steps)[i]
    BY <1>2 DEF ToSet
  <2>2. i + 1 \in DOMAIN steps /\ 1 \in DOMAIN steps /\ 1 < i + 1 /\ step = steps[i + 1]
    BY <1>1, <1>2, <2>1
  <2>3. QED
    BY <1>1, <1>3, <2>2 DEF ToSet
<1>6. ASSUME NEW step \in ToSet(steps), step # Head(steps) PROVE step \in ToSet(Tail(steps))
  <2>1. PICK i \in DOMAIN steps : step = steps[i]
    BY DEF ToSet
  <2>2. i - 1 \in 1..(Len(steps) - 1) /\ Tail(steps)[i - 1] = steps[i]
    BY <1>1, <1>2, <1>6, <2>1
  <2>3. QED
    BY <1>2, <2>1, <2>2 DEF ToSet
<1>7. Head(steps) \in ToSet(steps)
  BY <1>1 DEF ToSet
<1>8. Head(steps) \notin ToSet(Tail(steps))
  <2>1. Place(Head(steps)) \in Nat
    BY <1>1, PlaceIsNat
  <2>2. QED
    BY <1>5, <2>1
<1>9. QED
  BY <1>2, <1>4, <1>5, <1>6, <1>7, <1>8

LEMMA Joined ==
  ASSUME NEW first \in Seq(Steps), InOrder(first), NEW rest \in Seq(Steps), InOrder(rest),
         \A x \in ToSet(first), y \in ToSet(rest) : Place(x) < Place(y)
  PROVE  /\ first \o rest \in Seq(Steps)
         /\ InOrder(first \o rest)
         /\ ToSet(first \o rest) = ToSet(first) \cup ToSet(rest)
<1> DEFINE m == Len(first)
           n == Len(rest)
           all == first \o rest
<1>1. /\ m \in Nat /\ n \in Nat /\ DOMAIN first = 1..m /\ DOMAIN rest = 1..n
      /\ all \in Seq(Steps) /\ DOMAIN all = 1..(m + n)
      /\ \A i \in 1..(m + n) : all[i] = IF i <= m THEN first[i] ELSE rest[i - m]
  OBVIOUS
<1>2. /\ \A i, j \in 1..m : i < j => Place(first[i]) < Place(first[j])
      /\ \A i, j \in 1..n : i < j => Place(rest[i]) < Place(rest[j])
  BY <1>1 DEF InOrder
<1>3. \A i \in 1..m, j \in 1..n : Place(first[i]) < Place(rest[j])
  BY <1>1 DEF ToSet
<1> HIDE DEF m, n, all
<1>4. ASSUME NEW i \in 1..(m + n), NEW j \in 1..(m + n), i < j
      PROVE  Place(all[i]) < Place(all[j])
  <2>1. CASE j <= m
    BY <1>1, <1>2, <1>4, <2>1
  <2>2. CASE i <= m /\ j > m
    <3>1. i \in 1..m /\ j - m \in 1..n /\ ~(j <= m)
      BY <1>1, <1>4, <2>2
    <3>2. QED
      BY <1>1, <1>3, <2>2, <3>1
  <2>3. CASE i > m
    <3>1. i - m \in 1..n /\ j - m \in 1..n /\ i - m < j - m /\ ~(j <= m) /\ ~(i <= m)
      BY <1>1, <1>4, <2>3
    <3>2. QED
      BY <1>1, <1>2, <3>1
  <2>4. QED
    BY <1>1, <1>4, <2>1, <2>2, <2>3
<1>5. \A x \in ToSet(first) : x \in ToSet(all)
  <2>1. \A i \in 1..m : i \in 1..(m + n) /\ all[i] = first[i]
    BY <1>1
  <2>2. QED
    BY <1>1, <2>1 DEF ToSet
<1>6. \A x \in ToSet(rest) : x \in ToSet(all)
  <2>1. \A i \in 1..n : i + m \in 1..(m + n) /\ all[i + m] = rest[i]
    BY <1>1
  <2>2. QED
    BY <1>1, <2>1 DEF ToSet
<1>7. \A x \in ToSet(all) : x \in ToSet(first) \/ x \in ToSet(rest)
  <2>1. \A i \in 1..(m + n) : \/ i \in 1..m /\ all[i] = first[i]
                              \/ i - m \in 1..n /\ all[i] = rest[i - m]
    BY <1>1
  <2>2. QED
    BY <1>1, <2>1 DEF ToSet
<1>8. InOrder(all)
  BY <1>1, <1>4 DEF InOrder
<1>9. QED
  BY <1>1, <1>5, <1>6, <1>7, <1>8 DEF all

LEMMA OneStep ==
  ASSUME NEW x \in Steps
  PROVE  /\ <<x>> \in Seq(Steps) /\ InOrder(<<x>>) /\ ToSet(<<x>>) = {x}
BY DEF InOrder, ToSet

LEMMA TwoSteps ==
  ASSUME NEW x \in Steps, NEW y \in Steps,
         Place(x) < Place(y)
  PROVE  /\ <<x, y>> \in Seq(Steps) /\ InOrder(<<x, y>>)
         /\ ToSet(<<x, y>>) = {x, y}
<1> DEFINE steps == <<x, y>>
<1>1. /\ steps \in Seq(Steps) /\ DOMAIN steps = 1..2
      /\ steps[1] = x /\ steps[2] = y
  OBVIOUS
<1> HIDE DEF steps
<1>2. Place(x) \in Nat /\ Place(y) \in Nat
  BY PlaceIsNat
<1>3. InOrder(steps)
  BY <1>1, <1>2 DEF InOrder
<1>4. ToSet(steps) = {x, y}
  BY <1>1 DEF ToSet
<1>5. QED
  BY <1>1, <1>3, <1>4 DEF steps

LEMMA ThreeSteps ==
  ASSUME NEW x \in Steps, NEW y \in Steps, NEW z \in Steps,
         Place(x) < Place(y), Place(y) < Place(z)
  PROVE  /\ <<x, y, z>> \in Seq(Steps) /\ InOrder(<<x, y, z>>)
         /\ ToSet(<<x, y, z>>) = {x, y, z}
<1> DEFINE steps == <<x, y, z>>
<1>1. /\ steps \in Seq(Steps) /\ DOMAIN steps = 1..3
      /\ steps[1] = x /\ steps[2] = y /\ steps[3] = z
  OBVIOUS
<1> HIDE DEF steps
<1>2. Place(x) \in Nat /\ Place(y) \in Nat /\ Place(z) \in Nat
  BY PlaceIsNat
<1>3. InOrder(steps)
  BY <1>1, <1>2 DEF InOrder
<1>4. ToSet(steps) = {x, y, z}
  BY <1>1 DEF ToSet
<1>5. QED
  BY <1>1, <1>3, <1>4 DEF steps

LEMMA FourSteps ==
  ASSUME NEW u \in Steps, NEW v \in Steps, NEW x \in Steps, NEW y \in Steps,
         Place(u) < Place(v), Place(v) < Place(x), Place(x) < Place(y)
  PROVE  /\ <<u, v, x, y>> \in Seq(Steps) /\ InOrder(<<u, v, x, y>>)
         /\ ToSet(<<u, v, x, y>>) = {u, v, x, y}
<1> DEFINE steps == <<u, v, x, y>>
<1>1. /\ steps \in Seq(Steps) /\ DOMAIN steps = 1..4
      /\ steps[1] = u /\ steps[2] = v /\ steps[3] = x /\ steps[4] = y
  OBVIOUS
<1> HIDE DEF steps
<1>2. Place(u) \in Nat /\ Place(v) \in Nat /\ Place(x) \in Nat /\ Place(y) \in Nat
  BY PlaceIsNat
<1>3. InOrder(steps)
  BY <1>1, <1>2 DEF InOrder
<1>4. ToSet(steps) = {u, v, x, y}
  BY <1>1 DEF ToSet
<1>5. QED
  BY <1>1, <1>3, <1>4 DEF steps

LEMMA FiveSteps ==
  ASSUME NEW u \in Steps, NEW v \in Steps, NEW x \in Steps, NEW y \in Steps, NEW z \in Steps,
         Place(u) < Place(v), Place(v) < Place(x), Place(x) < Place(y), Place(y) < Place(z)
  PROVE  /\ <<u, v, x, y, z>> \in Seq(Steps) /\ InOrder(<<u, v, x, y, z>>)
         /\ ToSet(<<u, v, x, y, z>>) = {u, v, x, y, z}
<1> DEFINE steps == <<u, v, x, y, z>>
<1>1. /\ steps \in Seq(Steps) /\ DOMAIN steps = 1..5
      /\ steps[1] = u /\ steps[2] = v /\ steps[3] = x /\ steps[4] = y /\ steps[5] = z
  OBVIOUS
<1> HIDE DEF steps
<1>2. Place(u) \in Nat /\ Place(v) \in Nat /\ Place(x) \in Nat /\ Place(y) \in Nat /\ Place(z) \in Nat
  BY PlaceIsNat
<1>3. InOrder(steps)
  BY <1>1, <1>2 DEF InOrder
<1>4. ToSet(steps) = {u, v, x, y, z}
  BY <1>1 DEF ToSet
<1>5. QED
  BY <1>1, <1>3, <1>4 DEF steps

LEMMA SixSteps ==
  ASSUME NEW t \in Steps, NEW u \in Steps, NEW v \in Steps,
         NEW x \in Steps, NEW y \in Steps, NEW z \in Steps,
         Place(t) < Place(u), Place(u) < Place(v), Place(v) < Place(x),
         Place(x) < Place(y), Place(y) < Place(z)
  PROVE  /\ <<t, u, v, x, y, z>> \in Seq(Steps) /\ InOrder(<<t, u, v, x, y, z>>)
         /\ ToSet(<<t, u, v, x, y, z>>) = {t, u, v, x, y, z}
<1> DEFINE steps == <<t, u, v, x, y, z>>
<1>1. /\ steps \in Seq(Steps) /\ DOMAIN steps = 1..6
      /\ steps[1] = t /\ steps[2] = u /\ steps[3] = v
      /\ steps[4] = x /\ steps[5] = y /\ steps[6] = z
  OBVIOUS
<1> HIDE DEF steps
<1>2. /\ Place(t) \in Nat /\ Place(u) \in Nat /\ Place(v) \in Nat
      /\ Place(x) \in Nat /\ Place(y) \in Nat /\ Place(z) \in Nat
  BY PlaceIsNat
<1>3. InOrder(steps)
  BY <1>1, <1>2 DEF InOrder
<1>4. ToSet(steps) = {t, u, v, x, y, z}
  BY <1>1 DEF ToSet
<1>5. QED
  BY <1>1, <1>3, <1>4 DEF steps

LEMMA IfStep ==
  ASSUME NEW x \in Steps, NEW needed \in BOOLEAN
  PROVE  /\ If(needed, x) \in Seq(Steps) /\ InOrder(If(needed, x))
         /\ ToSet(If(needed, x)) = IF needed THEN {x} ELSE {}
<1>1. CASE needed
  BY <1>1, OneStep DEF If
<1>2. CASE ~needed
  BY <1>2 DEF If, InOrder, ToSet
<1>3. QED
  BY <1>1, <1>2

(* What is assumed of the commands, part by part. *)
LEMMA AskIs ==
  ASSUME ask \in Asks
  PROVE  /\ ask.server \in BOOLEAN
         /\ ask.handle \in {0} \cup DOMAIN Recordable
         /\ ask.sessions \in Seq([name : SUBSET DOMAIN Recordable, turn : Nat \cup {None}])
         /\ \A i \in DOMAIN ask.agents : ask.agents[i].name # None
         /\ Len(ask.agents) \in Nat /\ DOMAIN ask.agents = 1..Len(ask.agents)
         /\ ask.agents = <<>> <=> Len(ask.agents) = 0
         /\ ask.turns \in Seq(Nat)
         /\ ask.gates \in SUBSET Gates
         /\ ask.block \in SUBSET Blocks /\ ask.offset \in Nat /\ ask.chars \in Nat
         /\ WellFormed(ask)
<1> DEFINE Agents == [name : {turn.agent : turn \in UNION Range(Recordable)} \ {None},
                      turn : Nat \cup {None}]
<1>1. ask \in Ask /\ WellFormed(ask)
  BY InspectAssumption
<1>2. ask.agents \in Seq(Agents)
  BY <1>1 DEF Ask
<1>3. \A a \in Agents : a.name # None
  OBVIOUS
<1>4. /\ \A i \in DOMAIN ask.agents : ask.agents[i] \in Agents
      /\ Len(ask.agents) \in Nat /\ DOMAIN ask.agents = 1..Len(ask.agents)
      /\ ask.agents = <<>> <=> Len(ask.agents) = 0
  <2> HIDE DEF Agents
  <2>1. QED
    BY <1>2
<1>5. \A i \in DOMAIN ask.agents : ask.agents[i].name # None
  BY <1>3, <1>4
<1>6. QED
  BY <1>1, <1>4, <1>5 DEF Ask

Reads == IF ask.server THEN ToolReads ELSE CommandReads

LEMMA ReadsAre ==
  ASSUME ask \in Asks, ask.tool \notin {"sessions", "agents"}
  PROVE  /\ Reads \in Seq(Steps) /\ InOrder(Reads)
         /\ \A step \in ToSet(Reads) : Place(step) > 3
         /\ \A step \in Steps : step \in ToSet(Reads)
                                  <=> Planned(step) /\ step \notin {"runs", "bind", "choose"}
<1> DEFINE Are(steps) ==
      /\ steps \in Seq(Steps) /\ InOrder(steps)
      /\ \A step \in ToSet(steps) : Place(step) > 3
      /\ \A step \in Steps : step \in ToSet(steps)
                               <=> Planned(step) /\ step \notin {"runs", "bind", "choose"}
<1>1. /\ ask.server \in BOOLEAN /\ WellFormed(ask)
      /\ IF ask.server THEN ask.tool \in {"tokens", "cache", "diff", "explain", "block"}
                       ELSE ask.tool \in {"check", "tokens", "cache", "diff", "export"}
      /\ ask.server => Len(ask.agents) <= 1 /\ Len(ask.sessions) <= 1
  BY AskIs DEF WellFormed
<1>2. CASE ~ask.server /\ ask.tool = "check"
  <2> DEFINE first == <<"agent", "count">>
             tokens == If(ask.gates \cap TokenGates # {}, "tokens")
             cache == If("require-stable-prefix" \in ask.gates, "cache")
             evictions == If("no-tagged-eviction" \in ask.gates, "evictions")
  <2>1. Reads = first \o tokens \o cache \o evictions
    BY <1>2 DEF Reads, CommandReads
  <2>2. first \in Seq(Steps) /\ InOrder(first) /\ ToSet(first) = {"agent", "count"}
    BY TwoSteps, PlaceIs, StepsAre
  <2>3. /\ tokens \in Seq(Steps) /\ InOrder(tokens)
        /\ ToSet(tokens) = IF ask.gates \cap TokenGates # {} THEN {"tokens"} ELSE {}
    BY IfStep, StepsAre
  <2>4. /\ cache \in Seq(Steps) /\ InOrder(cache)
        /\ ToSet(cache) = IF "require-stable-prefix" \in ask.gates THEN {"cache"} ELSE {}
    <3> DEFINE needed == "require-stable-prefix" \in ask.gates
    <3>1. needed \in BOOLEAN
      OBVIOUS
    <3> HIDE DEF needed
    <3>2. QED
      BY <3>1, StepsAre, IfStep DEF needed
  <2>5. /\ evictions \in Seq(Steps) /\ InOrder(evictions)
        /\ ToSet(evictions) = IF "no-tagged-eviction" \in ask.gates THEN {"evictions"} ELSE {}
    <3> DEFINE needed == "no-tagged-eviction" \in ask.gates
    <3>1. needed \in BOOLEAN
      OBVIOUS
    <3> HIDE DEF needed
    <3>2. QED
      BY <3>1, StepsAre, IfStep DEF needed
  <2> HIDE DEF first, tokens, cache, evictions
  <2>6. /\ first \o tokens \in Seq(Steps) /\ InOrder(first \o tokens)
        /\ ToSet(first \o tokens) = ToSet(first) \cup ToSet(tokens)
    <3>1. \A x \in ToSet(first), y \in ToSet(tokens) : Place(x) < Place(y)
      BY <2>2, <2>3, PlaceIs
    <3>2. QED
      BY <2>2, <2>3, <3>1, Joined
  <2>7. /\ first \o tokens \o cache \in Seq(Steps) /\ InOrder(first \o tokens \o cache)
        /\ ToSet(first \o tokens \o cache) = ToSet(first) \cup ToSet(tokens) \cup ToSet(cache)
    <3>1. \A x \in ToSet(first \o tokens), y \in ToSet(cache) : Place(x) < Place(y)
      BY <2>2, <2>3, <2>4, <2>6, PlaceIs
    <3>2. QED
      BY <2>4, <2>6, <3>1, Joined
  <2>8. /\ Reads \in Seq(Steps) /\ InOrder(Reads)
        /\ ToSet(Reads) = ToSet(first) \cup ToSet(tokens) \cup ToSet(cache) \cup ToSet(evictions)
    <3>1. \A x \in ToSet(first \o tokens \o cache), y \in ToSet(evictions) : Place(x) < Place(y)
      BY <2>2, <2>3, <2>4, <2>5, <2>7, PlaceIs
    <3>2. QED
      BY <2>1, <2>5, <2>7, <3>1, Joined
  <2>9. \A step : step \in ToSet(Reads)
                    <=> \/ step \in {"agent", "count"}
                        \/ step = "tokens" /\ ask.gates \cap TokenGates # {}
                        \/ step = "cache" /\ "require-stable-prefix" \in ask.gates
                        \/ step = "evictions" /\ "no-tagged-eviction" \in ask.gates
    BY <2>2, <2>3, <2>4, <2>5, <2>8
  <2>10. \A step : Planned(step) /\ step \notin {"runs", "bind", "choose"}
                     <=> \/ step \in {"agent", "count"}
                         \/ step = "tokens" /\ ask.gates \cap TokenGates # {}
                         \/ step = "cache" /\ "require-stable-prefix" \in ask.gates
                         \/ step = "evictions" /\ "no-tagged-eviction" \in ask.gates
    BY <1>2 DEF Planned
  <2>11. \A step \in ToSet(Reads) : Place(step) > 3
    BY <2>9, PlaceIs
  <2>12. QED
    BY <2>8, <2>9, <2>10, <2>11
<1>3. CASE ~ask.server /\ ask.tool = "tokens"
  <2>1. Reads = <<"agent", "tokens", "evictions">>
    BY <1>3 DEF Reads, CommandReads
  <2>2. /\ Reads \in Seq(Steps) /\ InOrder(Reads)
        /\ ToSet(Reads) = {"agent", "tokens", "evictions"}
    BY <2>1, ThreeSteps, PlaceIs, StepsAre
  <2>3. QED
    BY <1>3, <2>2, PlaceIs DEF Planned
<1>4. CASE ask.tool = "cache"
  <2>1. Reads = <<"agent", "cache">>
    BY <1>4 DEF Reads, CommandReads, ToolReads
  <2>2. Reads \in Seq(Steps) /\ InOrder(Reads) /\ ToSet(Reads) = {"agent", "cache"}
    BY <2>1, TwoSteps, PlaceIs, StepsAre
  <2>3. QED
    BY <1>4, <2>2, PlaceIs DEF Planned
<1>5. CASE ~ask.server /\ ask.tool = "diff"
  <2>1. CASE Across
    <3>1. Reads = <<"sides">>
      BY <1>5, <2>1 DEF Reads, CommandReads
    <3>2. Reads \in Seq(Steps) /\ InOrder(Reads) /\ ToSet(Reads) = {"sides"}
      BY <3>1, OneStep, StepsAre
    <3>3. QED
      BY <1>5, <2>1, <3>2, PlaceIs DEF Planned
  <2>2. CASE ~Across
    <3>1. Reads = <<"agent", "within">>
      BY <1>5, <2>2 DEF Reads, CommandReads
    <3>2. Reads \in Seq(Steps) /\ InOrder(Reads) /\ ToSet(Reads) = {"agent", "within"}
      BY <3>1, TwoSteps, PlaceIs, StepsAre
    <3>3. QED
      BY <1>5, <2>2, <3>2, PlaceIs DEF Planned
  <2>3. QED
    BY <2>1, <2>2
<1>6. CASE ask.tool = "export"
  <2>1. Reads = <<"project", "pairs", "tokens", "cache", "evictions">>
    BY <1>1, <1>6 DEF Reads, CommandReads
  <2>2. /\ Reads \in Seq(Steps) /\ InOrder(Reads)
        /\ ToSet(Reads) = {"project", "pairs", "tokens", "cache", "evictions"}
    <3>1. /\ Place("project") < Place("pairs") /\ Place("pairs") < Place("tokens")
          /\ Place("tokens") < Place("cache") /\ Place("cache") < Place("evictions")
      BY PlaceIs
    <3>2. /\ "project" \in Steps /\ "pairs" \in Steps /\ "tokens" \in Steps
          /\ "cache" \in Steps /\ "evictions" \in Steps
      BY StepsAre
    <3> DEFINE steps == <<"project", "pairs", "tokens", "cache", "evictions">>
    <3>3. /\ steps \in Seq(Steps) /\ InOrder(steps)
          /\ ToSet(steps) = {"project", "pairs", "tokens", "cache", "evictions"}
      BY ONLY <3>1, <3>2, FiveSteps
    <3>4. QED
      BY <2>1, <3>3
  <2>3. QED
    BY <1>6, <2>2, PlaceIs DEF Planned
<1>7. CASE ask.server /\ ask.tool = "tokens"
  <2>1. Reads = <<"agent", "turns", "tokens", "evictions">>
    BY <1>7 DEF Reads, ToolReads
  <2>2. /\ Reads \in Seq(Steps) /\ InOrder(Reads)
        /\ ToSet(Reads) = {"agent", "turns", "tokens", "evictions"}
    BY <2>1, FourSteps, PlaceIs, StepsAre
  <2>3. QED
    BY <1>7, <2>2, PlaceIs DEF Planned
<1>8. CASE ask.server /\ ask.tool = "diff"
  <2> DEFINE turns == If(ask.agents # <<>>, "turns")
  <2>1. Reads = <<"agent">> \o turns \o <<"within">>
    BY <1>8 DEF Reads, ToolReads
  <2>2. <<"agent">> \in Seq(Steps) /\ InOrder(<<"agent">>) /\ ToSet(<<"agent">>) = {"agent"}
    BY OneStep, StepsAre
  <2>3. /\ turns \in Seq(Steps) /\ InOrder(turns)
        /\ ToSet(turns) = IF ask.agents # <<>> THEN {"turns"} ELSE {}
    BY IfStep, StepsAre
  <2>4. <<"within">> \in Seq(Steps) /\ InOrder(<<"within">>) /\ ToSet(<<"within">>) = {"within"}
    BY OneStep, StepsAre
  <2> HIDE DEF turns
  <2>5. /\ <<"agent">> \o turns \in Seq(Steps) /\ InOrder(<<"agent">> \o turns)
        /\ ToSet(<<"agent">> \o turns) = {"agent"} \cup ToSet(turns)
    <3>1. \A x \in ToSet(<<"agent">>), y \in ToSet(turns) : Place(x) < Place(y)
      BY <2>2, <2>3, PlaceIs
    <3>2. QED
      BY <2>2, <2>3, <3>1, Joined
  <2>6. /\ Reads \in Seq(Steps) /\ InOrder(Reads)
        /\ ToSet(Reads) = {"agent"} \cup ToSet(turns) \cup {"within"}
    <3>1. \A x \in ToSet(<<"agent">> \o turns), y \in ToSet(<<"within">>) : Place(x) < Place(y)
      BY <2>3, <2>4, <2>5, PlaceIs
    <3>2. QED
      BY <2>1, <2>4, <2>5, <3>1, Joined
  <2>7. ~Across
    <3>1. Len(ask.agents) <= 1 /\ Len(ask.sessions) <= 1
      BY <1>1, <1>8
    <3>2. Len(ask.agents) \in Nat /\ Len(ask.sessions) \in Nat
      BY AskIs
    <3> DEFINE m == Len(ask.agents)
               n == Len(ask.sessions)
    <3>3. m # 2 /\ n # 2
      <4>1. m \in Nat /\ n \in Nat /\ m <= 1 /\ n <= 1
        BY <3>1, <3>2
      <4> HIDE DEF m, n
      <4>2. QED
        BY <4>1
    <3>4. QED
      BY <3>3 DEF Across
  <2>8. QED
    BY <1>8, <2>3, <2>6, <2>7, PlaceIs DEF Planned
<1>9. CASE ask.tool = "explain"
  <2>1. Reads = <<"agent", "target", "previous", "tokens", "cache", "evictions">>
    BY <1>1, <1>9 DEF Reads, ToolReads
  <2>2. /\ Reads \in Seq(Steps) /\ InOrder(Reads)
        /\ ToSet(Reads) = {"agent", "target", "previous", "tokens", "cache", "evictions"}
    <3>1. /\ Place("agent") < Place("target") /\ Place("target") < Place("previous")
          /\ Place("previous") < Place("tokens") /\ Place("tokens") < Place("cache")
          /\ Place("cache") < Place("evictions")
      BY PlaceIs
    <3>2. /\ "agent" \in Steps /\ "target" \in Steps /\ "previous" \in Steps
          /\ "tokens" \in Steps /\ "cache" \in Steps /\ "evictions" \in Steps
      BY StepsAre
    <3> DEFINE steps == <<"agent", "target", "previous", "tokens", "cache", "evictions">>
    <3>3. /\ steps \in Seq(Steps) /\ InOrder(steps)
          /\ ToSet(steps) = {"agent", "target", "previous", "tokens", "cache", "evictions"}
      BY ONLY <3>1, <3>2, SixSteps
    <3>4. QED
      BY <2>1, <3>3
  <2>3. QED
    BY <1>9, <2>2, PlaceIs DEF Planned
<1>10. CASE ask.tool = "block"
  <2>1. Reads = <<"find", "page">>
    BY <1>1, <1>10 DEF Reads, ToolReads
  <2>2. Reads \in Seq(Steps) /\ InOrder(Reads) /\ ToSet(Reads) = {"find", "page"}
    BY <2>1, TwoSteps, PlaceIs, StepsAre
  <2>3. QED
    BY <1>10, <2>2, PlaceIs DEF Planned
<1>11. QED
  BY <1>1, <1>2, <1>3, <1>4, <1>5, <1>6, <1>7, <1>8, <1>9, <1>10

LEMMA PlanIs ==
  ASSUME ask \in Asks
  PROVE  /\ Plan \in Seq(Steps) /\ InOrder(Plan)
         /\ \A step \in Steps : step \in ToSet(Plan) <=> Planned(step)
<1>1. CASE ask.tool = "sessions"
  <2>1. Plan \in Seq(Steps) /\ InOrder(Plan) /\ ToSet(Plan) = {"bind", "list"}
    BY <1>1, TwoSteps, PlaceIs, StepsAre DEF Plan
  <2>2. ask.handle = 0
    BY <1>1, AskIs DEF WellFormed
  <2>3. QED
    BY <1>1, <2>1, <2>2 DEF Planned
<1>2. CASE ask.tool = "agents"
  <2>1. Plan \in Seq(Steps) /\ InOrder(Plan) /\ ToSet(Plan) = {"bind", "list", "calls"}
    BY <1>2, ThreeSteps, PlaceIs, StepsAre DEF Plan
  <2>2. ask.handle = 0
    BY <1>2, AskIs DEF WellFormed
  <2>3. QED
    BY <1>2, <2>1, <2>2 DEF Planned
<1>3. CASE ask.tool \notin {"sessions", "agents"}
  <2> DEFINE runsFirst == If(ask.handle # 0, "runs")
             choice == <<"bind", "choose">>
  <2>1. Plan = runsFirst \o choice \o Reads
    BY <1>3 DEF Plan, Reads
  <2>2. /\ runsFirst \in Seq(Steps) /\ InOrder(runsFirst)
        /\ ToSet(runsFirst) = IF ask.handle # 0 THEN {"runs"} ELSE {}
    BY IfStep, StepsAre
  <2>3. choice \in Seq(Steps) /\ InOrder(choice) /\ ToSet(choice) = {"bind", "choose"}
    BY TwoSteps, PlaceIs, StepsAre
  <2> HIDE DEF runsFirst, choice
  <2>4. /\ runsFirst \o choice \in Seq(Steps) /\ InOrder(runsFirst \o choice)
        /\ ToSet(runsFirst \o choice) = ToSet(runsFirst) \cup ToSet(choice)
    <3>1. \A x \in ToSet(runsFirst), y \in ToSet(choice) : Place(x) < Place(y)
      BY <2>2, <2>3, PlaceIs
    <3>2. QED
      BY <2>2, <2>3, <3>1, Joined
  <2>5. /\ Reads \in Seq(Steps) /\ InOrder(Reads)
        /\ \A step \in ToSet(Reads) : step \in Steps /\ Place(step) > 3
        /\ \A step \in Steps : step \in ToSet(Reads)
                                 <=> Planned(step) /\ step \notin {"runs", "bind", "choose"}
    <3>1. \A steps \in Seq(Steps) : \A step \in ToSet(steps) : step \in Steps
      BY DEF ToSet
    <3>2. QED
      BY <1>3, <3>1, ReadsAre
  <2>6. /\ Plan \in Seq(Steps) /\ InOrder(Plan)
        /\ ToSet(Plan) = ToSet(runsFirst) \cup ToSet(choice) \cup ToSet(Reads)
    <3>1. \A x \in ToSet(runsFirst \o choice), y \in ToSet(Reads) : Place(x) < Place(y)
      <4>1. \A x \in ToSet(runsFirst \o choice) : Place(x) \in Nat /\ Place(x) <= 3
        BY <2>2, <2>3, <2>4, PlaceIs
      <4>2. \A y \in ToSet(Reads) : Place(y) \in Nat
        BY <2>5, PlaceIsNat
      <4>3. QED
        BY <2>5, <4>1, <4>2
    <3>2. QED
      BY <2>1, <2>4, <2>5, <3>1, Joined
  <2>7. /\ Planned("bind") /\ Planned("choose") /\ (Planned("runs") <=> ask.handle # 0)
    BY <1>3 DEF Planned
  <2>8. \A step \in Steps : step \in ToSet(Plan) <=> Planned(step)
    BY <2>2, <2>3, <2>5, <2>6, <2>7
  <2>9. QED
    BY <2>6, <2>8
<1>4. QED
  BY <1>1, <1>2, <1>3

(* The second page is asked for with a part of the plan of the first. *)
LEMMA PagePlanIs ==
  ASSUME ask \in Asks, ask.tool = "block"
  PROVE  LET plan == <<"bind", "choose">> \o ToolReads IN
         /\ plan \in Seq(Steps) /\ InOrder(plan)
         /\ ToSet(plan) = {"bind", "choose", "find", "page"}
<1>1. ToolReads = <<"find", "page">>
  BY DEF ToolReads
<1>2. /\ <<"bind", "choose">> \in Seq(Steps) /\ InOrder(<<"bind", "choose">>)
      /\ ToSet(<<"bind", "choose">>) = {"bind", "choose"}
  BY TwoSteps, PlaceIs, StepsAre
<1>3. /\ ToolReads \in Seq(Steps) /\ InOrder(ToolReads) /\ ToSet(ToolReads) = {"find", "page"}
  BY <1>1, TwoSteps, PlaceIs, StepsAre
<1>4. \A x \in ToSet(<<"bind", "choose">>), y \in ToSet(ToolReads) : Place(x) < Place(y)
  BY <1>2, <1>3, PlaceIs
<1> DEFINE first == <<"bind", "choose">>
<1> HIDE DEF first
<1>5. QED
  BY <1>2, <1>3, <1>4, Joined DEF first


-----------------------------------------------------------------------------
(* What a step may change, and whose step it is.                             *)
Commands ==
  \/ Start \/ ListRuns \/ Bind \/ Choose \/ FilterAgent \/ DiffWithin \/ DiffAcross
  \/ CountTurns \/ RequireTurns \/ FindTurn \/ FindPrevious
  \/ ReadTokens \/ ReadCache \/ ReadEvictions \/ ReadProject \/ ReadPairs
  \/ ListSessions \/ ReadCalls \/ FindBlock \/ SendPage \/ TurnPage \/ Finish

Recording == OpenSession \/ \E s \in DOMAIN runs : RecordCall(s)

LEMMA NextIs == [Next]_vars <=> Recording \/ Commands \/ UNCHANGED vars
BY DEF Next, Command, Commands, Recording, AllDone

LEMMA ReportIs ==
  /\ DOMAIN NoReport =
       {"turns", "target", "previous", "diffs", "project", "start", "sessions", "calls",
        "handles", "block", "carriers", "pages", "tokens", "cache", "evictions", "asOf"}
  /\ DOMAIN NoReport.asOf = {"previous", "tokens", "cache", "evictions"}
  /\ NoReport.target = 0 /\ NoReport.previous = 0 /\ NoReport.diffs = {}
  /\ NoReport.start.level = 0 /\ NoReport.sessions = <<>> /\ NoReport.calls = <<>>
  /\ NoReport.handles = <<>> /\ NoReport.pages = <<>>
  /\ NoReport.asOf.tokens = {} /\ NoReport.asOf.cache = {} /\ NoReport.asOf.evictions = {}
BY DEF NoReport

(* The reading that each step stands for, and what else it may turn out as.  *)
Take(step) ==
  \/ step = "runs" /\ ListRuns
  \/ step = "bind" /\ Bind
  \/ step = "choose" /\ Choose
  \/ step = "agent" /\ FilterAgent
  \/ step = "count" /\ CountTurns
  \/ step = "turns" /\ RequireTurns
  \/ step = "target" /\ FindTurn
  \/ step = "previous" /\ FindPrevious
  \/ step = "within" /\ DiffWithin
  \/ step = "sides" /\ DiffAcross
  \/ step = "project" /\ ReadProject
  \/ step = "pairs" /\ ReadPairs
  \/ step = "tokens" /\ ReadTokens
  \/ step = "cache" /\ ReadCache
  \/ step = "evictions" /\ ReadEvictions
  \/ step = "find" /\ FindBlock
  \/ step = "page" /\ SendPage
  \/ step = "list" /\ ListSessions
  \/ step = "calls" /\ ReadCalls

LEMMA TakeIs ==
  /\ Take("runs") <=> ListRuns
  /\ Take("bind") <=> Bind
  /\ Take("choose") <=> Choose
  /\ Take("agent") <=> FilterAgent
  /\ Take("count") <=> CountTurns
  /\ Take("turns") <=> RequireTurns
  /\ Take("target") <=> FindTurn
  /\ Take("previous") <=> FindPrevious
  /\ Take("within") <=> DiffWithin
  /\ Take("sides") <=> DiffAcross
  /\ Take("project") <=> ReadProject
  /\ Take("pairs") <=> ReadPairs
  /\ Take("tokens") <=> ReadTokens
  /\ Take("cache") <=> ReadCache
  /\ Take("evictions") <=> ReadEvictions
  /\ Take("find") <=> FindBlock
  /\ Take("page") <=> SendPage
  /\ Take("list") <=> ListSessions
  /\ Take("calls") <=> ReadCalls
BY DEF Take

Taken(step) == At(step) /\ Take(step) /\ todo' = Tail(todo) /\ exit' = "running"
Refused == exit' \in {"error", "usage"} /\ todo' = <<>>
NothingListed ==
  /\ Bind /\ exit' = "answer" /\ todo' = <<>> /\ runs = <<>>
  /\ ask.tool \in {"sessions", "agents"}
Continues == UNCHANGED <<todo, exit>>

LEMMA Outcomes ==
  ASSUME Recording \/ Commands \/ UNCHANGED vars
  PROVE  \/ Continues /\ (Recording \/ ReadCalls \/ UNCHANGED vars)
         \/ Start \/ TurnPage \/ Finish
         \/ Refused /\ At("bind") /\ Bind
         \/ Refused /\ \E step \in Steps \ {"bind"} : At(step) /\ Take(step)
         \/ NothingListed
         \/ \E step \in Steps : Taken(step)
<1> DEFINE Goal == \/ Continues /\ (Recording \/ ReadCalls \/ UNCHANGED vars)
                   \/ Start \/ TurnPage \/ Finish
                   \/ Refused /\ At("bind") /\ Bind
                   \/ Refused /\ \E step \in Steps \ {"bind"} : At(step) /\ Take(step)
                   \/ NothingListed
                   \/ \E step \in Steps : Taken(step)
<1> SUFFICES Goal
  OBVIOUS
<1>1. CASE Recording \/ UNCHANGED vars
  BY <1>1 DEF Recording, OpenSession, RecordCall, Continues, vars
<1>2. ASSUME NEW step \in Steps, At(step), Take(step), Done PROVE Goal
  <2>1. Taken(step)
    BY <1>2 DEF Taken, Done, At
  <2>2. QED
    BY <2>1
<1>3. ASSUME NEW step \in Steps \ {"bind"}, At(step), Take(step),
             Fail("error") \/ Fail(Refusal) \/ Fail("usage")
      PROVE  Goal
  <2>1. Refused
    BY <1>3 DEF Refused, Fail, Refusal
  <2>2. QED
    BY <1>3, <2>1
<1>4. CASE Start \/ TurnPage \/ Finish
  BY <1>4
<1>5. CASE Bind
  <2>1. At("bind") /\ Take("bind")
    <3>1. At("bind")
      BY <1>5 DEF Bind
    <3>2. QED
      BY <1>5, <3>1, TakeIs
  <2>2. CASE runs # <<>>
    BY <1>2, <1>5, <2>1, <2>2, StepsAre DEF Bind
  <2>3. CASE runs = <<>> /\ ask.tool \in {"sessions", "agents"}
    BY <1>5, <2>3 DEF Bind, NothingListed, Fail
  <2>4. CASE runs = <<>> /\ ask.tool \notin {"sessions", "agents"}
    BY <1>5, <2>1, <2>4 DEF Bind, Refused, Fail
  <2>5. QED
    BY <2>2, <2>3, <2>4
<1>6. CASE ReadCalls
  <2>1. At("calls") /\ Take("calls") /\ (Done \/ Continues)
    <3>1. At("calls") /\ (Done \/ Continues)
      BY <1>6 DEF ReadCalls, Continues
    <3>2. QED
      BY <1>6, <3>1, TakeIs
  <2>2. QED
    BY <1>2, <1>6, <2>1, StepsAre
<1>7. ASSUME NEW step \in Steps \ {"bind"}, At(step), Take(step),
             Done \/ Fail("error") \/ Fail(Refusal) \/ Fail("usage")
      PROVE  Goal
  BY <1>2, <1>3, <1>7
<1> HIDE DEF Goal
<1>8. \A step : step \in Steps /\ step # "bind" => step \in Steps \ {"bind"}
  OBVIOUS
<1>9. CASE ListRuns
  <2>1. At("runs") /\ (Done \/ Fail("error") \/ Fail(Refusal) \/ Fail("usage"))
    BY <1>9 DEF ListRuns
  <2>2. QED
    BY <1>7, <1>8, <1>9, <2>1, StepsAre, TakeIs
<1>10. CASE Choose
  <2>1. At("choose") /\ (Done \/ Fail("error") \/ Fail(Refusal) \/ Fail("usage"))
    BY <1>10 DEF Choose
  <2>2. QED
    BY <1>7, <1>8, <1>10, <2>1, StepsAre, TakeIs
<1>11. CASE FilterAgent
  <2>1. At("agent") /\ (Done \/ Fail("error") \/ Fail(Refusal) \/ Fail("usage"))
    BY <1>11 DEF FilterAgent
  <2>2. QED
    BY <1>7, <1>8, <1>11, <2>1, StepsAre, TakeIs
<1>12. CASE DiffWithin
  <2>1. At("within") /\ (Done \/ Fail("error") \/ Fail(Refusal) \/ Fail("usage"))
    BY <1>12 DEF DiffWithin
  <2>2. QED
    BY <1>7, <1>8, <1>12, <2>1, StepsAre, TakeIs
<1>13. CASE DiffAcross
  <2>1. At("sides") /\ (Done \/ Fail("error") \/ Fail(Refusal) \/ Fail("usage"))
    BY <1>13 DEF DiffAcross
  <2>2. QED
    BY <1>7, <1>8, <1>13, <2>1, StepsAre, TakeIs
<1>14. CASE CountTurns
  <2>1. At("count") /\ (Done \/ Fail("error") \/ Fail(Refusal) \/ Fail("usage"))
    BY <1>14 DEF CountTurns
  <2>2. QED
    BY <1>7, <1>8, <1>14, <2>1, StepsAre, TakeIs
<1>15. CASE RequireTurns
  <2>1. At("turns") /\ (Done \/ Fail("error") \/ Fail(Refusal) \/ Fail("usage"))
    BY <1>15 DEF RequireTurns
  <2>2. QED
    BY <1>7, <1>8, <1>15, <2>1, StepsAre, TakeIs
<1>16. CASE FindTurn
  <2>1. At("target") /\ (Done \/ Fail("error") \/ Fail(Refusal) \/ Fail("usage"))
    BY <1>16 DEF FindTurn
  <2>2. QED
    BY <1>7, <1>8, <1>16, <2>1, StepsAre, TakeIs
<1>17. CASE FindPrevious
  <2>1. At("previous") /\ (Done \/ Fail("error") \/ Fail(Refusal) \/ Fail("usage"))
    BY <1>17 DEF FindPrevious
  <2>2. QED
    BY <1>7, <1>8, <1>17, <2>1, StepsAre, TakeIs
<1>18. CASE ReadTokens
  <2>1. At("tokens") /\ (Done \/ Fail("error") \/ Fail(Refusal) \/ Fail("usage"))
    BY <1>18 DEF ReadTokens
  <2>2. QED
    BY <1>7, <1>8, <1>18, <2>1, StepsAre, TakeIs
<1>19. CASE ReadCache
  <2>1. At("cache") /\ (Done \/ Fail("error") \/ Fail(Refusal) \/ Fail("usage"))
    BY <1>19 DEF ReadCache
  <2>2. QED
    BY <1>7, <1>8, <1>19, <2>1, StepsAre, TakeIs
<1>20. CASE ReadEvictions
  <2>1. At("evictions") /\ (Done \/ Fail("error") \/ Fail(Refusal) \/ Fail("usage"))
    BY <1>20 DEF ReadEvictions
  <2>2. QED
    BY <1>7, <1>8, <1>20, <2>1, StepsAre, TakeIs
<1>21. CASE ReadProject
  <2>1. At("project") /\ (Done \/ Fail("error") \/ Fail(Refusal) \/ Fail("usage"))
    BY <1>21 DEF ReadProject
  <2>2. QED
    BY <1>7, <1>8, <1>21, <2>1, StepsAre, TakeIs
<1>22. CASE ReadPairs
  <2>1. At("pairs") /\ (Done \/ Fail("error") \/ Fail(Refusal) \/ Fail("usage"))
    BY <1>22 DEF ReadPairs
  <2>2. QED
    BY <1>7, <1>8, <1>22, <2>1, StepsAre, TakeIs
<1>23. CASE ListSessions
  <2>1. At("list") /\ (Done \/ Fail("error") \/ Fail(Refusal) \/ Fail("usage"))
    BY <1>23 DEF ListSessions
  <2>2. QED
    BY <1>7, <1>8, <1>23, <2>1, StepsAre, TakeIs
<1>24. CASE FindBlock
  <2>1. At("find") /\ (Done \/ Fail("error") \/ Fail(Refusal) \/ Fail("usage"))
    BY <1>24 DEF FindBlock
  <2>2. QED
    BY <1>7, <1>8, <1>24, <2>1, StepsAre, TakeIs
<1>25. CASE SendPage
  <2>1. At("page") /\ (Done \/ Fail("error") \/ Fail(Refusal) \/ Fail("usage"))
    BY <1>25 DEF SendPage
  <2>2. QED
    BY <1>7, <1>8, <1>25, <2>1, StepsAre, TakeIs
<1>26. QED
  BY <1>1, <1>4, <1>5, <1>6, <1>9, <1>10, <1>11, <1>12, <1>13, <1>14, <1>15, <1>16, <1>17,
     <1>18, <1>19, <1>20, <1>21, <1>22, <1>23, <1>24, <1>25
     DEF Commands


(* Each part of the state is some step's to change, and stays what it is in  *)
(* all the others.                                                           *)
Shaped == DOMAIN report = DOMAIN NoReport /\ DOMAIN report.asOf = DOMAIN NoReport.asOf

LEMMA Frames ==
  ASSUME Shaped, Recording \/ Commands \/ UNCHANGED vars
  PROVE  /\ ask' = ask
         /\ runs' = runs \/ Recording
         /\ bound' = bound \/ Bind
         /\ view' = view \/ Choose
         /\ Shaped'
         /\ report'.turns = report.turns \/ CountTurns \/ FindTurn \/ ReadPairs \/ FindBlock
         /\ report'.target = report.target \/ FindTurn
         /\ report'.previous = report.previous \/ FindPrevious
         /\ report'.diffs = report.diffs \/ DiffWithin \/ DiffAcross \/ FindPrevious \/ ReadPairs
         /\ report'.sessions = report.sessions \/ ListSessions
         /\ report'.calls = report.calls \/ ReadCalls
         /\ report'.handles = report.handles \/ ListRuns
         /\ report'.block = report.block \/ FindBlock
         /\ report'.pages = report.pages \/ SendPage
         /\ report'.tokens = report.tokens \/ ReadTokens
         /\ report'.cache = report.cache \/ ReadCache
         /\ report'.evictions = report.evictions \/ ReadEvictions
         /\ (report'.project = report.project /\ report'.start = report.start) \/ ReadProject
         /\ report'.asOf.tokens = report.asOf.tokens \/ ReadTokens
         /\ report'.asOf.cache = report.asOf.cache \/ ReadCache
         /\ report'.asOf.evictions = report.asOf.evictions \/ ReadEvictions
         /\ report'.asOf.previous = report.asOf.previous \/ FindPrevious
<1> DEFINE Kept(f) == report'[f] = report[f]
           KeptAsOf(f) == report'.asOf[f] = report.asOf[f]
           Fields == {"turns", "target", "previous", "diffs", "project", "start", "sessions",
                      "calls", "handles", "block", "pages", "tokens", "cache", "evictions"}
           Analyses == {"previous", "tokens", "cache", "evictions"}
           Goal == /\ ask' = ask
                   /\ runs' = runs \/ Recording
                   /\ bound' = bound \/ Bind
                   /\ view' = view \/ Choose
                   /\ Shaped'
                   /\ Kept("turns") \/ CountTurns \/ FindTurn \/ ReadPairs \/ FindBlock
                   /\ Kept("target") \/ FindTurn
                   /\ Kept("previous") \/ FindPrevious
                   /\ Kept("diffs") \/ DiffWithin \/ DiffAcross \/ FindPrevious \/ ReadPairs
                   /\ Kept("sessions") \/ ListSessions
                   /\ Kept("calls") \/ ReadCalls
                   /\ Kept("handles") \/ ListRuns
                   /\ Kept("block") \/ FindBlock
                   /\ Kept("pages") \/ SendPage
                   /\ Kept("tokens") \/ ReadTokens
                   /\ Kept("cache") \/ ReadCache
                   /\ Kept("evictions") \/ ReadEvictions
                   /\ (Kept("project") /\ Kept("start")) \/ ReadProject
                   /\ KeptAsOf("tokens") \/ ReadTokens
                   /\ KeptAsOf("cache") \/ ReadCache
                   /\ KeptAsOf("evictions") \/ ReadEvictions
                   /\ KeptAsOf("previous") \/ FindPrevious
<1> SUFFICES Goal
  OBVIOUS
<1>1. /\ DOMAIN report = Fields \cup {"carriers", "asOf"}
      /\ DOMAIN report.asOf = Analyses
  BY ReportIs DEF Shaped
<1>2. ASSUME report' = report
      PROVE  Shaped' /\ (\A f \in Fields : Kept(f)) /\ \A f \in Analyses : KeptAsOf(f)
  BY <1>2 DEF Shaped
<1>3. CASE Recording
  <2>1. report' = report /\ ask' = ask
        /\ (runs' = runs \/ Recording) /\ (bound' = bound \/ Bind) /\ (view' = view \/ Choose)
    BY <1>3 DEF Recording, OpenSession, RecordCall
  <2>2. QED
    BY <1>2, <2>1
<1>4. CASE UNCHANGED vars
  <2>1. report' = report /\ ask' = ask
        /\ (runs' = runs \/ Recording) /\ (bound' = bound \/ Bind) /\ (view' = view \/ Choose)
    BY <1>4 DEF vars
  <2>2. QED
    BY <1>2, <2>1
<1>5. CASE Start
  <2>1. report' = report /\ ask' = ask
        /\ (runs' = runs \/ Recording) /\ (bound' = bound \/ Bind) /\ (view' = view \/ Choose)
    BY <1>5 DEF Start
  <2>2. QED
    BY <1>2, <2>1
<1>6. CASE Bind
  <2>1. report' = report /\ ask' = ask
        /\ (runs' = runs \/ Recording) /\ (bound' = bound \/ Bind) /\ (view' = view \/ Choose)
    BY <1>6 DEF Bind
  <2>2. QED
    BY <1>2, <2>1
<1>7. CASE Choose
  <2>1. report' = report /\ ask' = ask
        /\ (runs' = runs \/ Recording) /\ (bound' = bound \/ Bind) /\ (view' = view \/ Choose)
    BY <1>7 DEF Choose
  <2>2. QED
    BY <1>2, <2>1
<1>8. CASE FilterAgent
  <2>1. report' = report /\ ask' = ask
        /\ (runs' = runs \/ Recording) /\ (bound' = bound \/ Bind) /\ (view' = view \/ Choose)
    BY <1>8 DEF FilterAgent
  <2>2. QED
    BY <1>2, <2>1
<1>9. CASE RequireTurns
  <2>1. report' = report /\ ask' = ask
        /\ (runs' = runs \/ Recording) /\ (bound' = bound \/ Bind) /\ (view' = view \/ Choose)
    BY <1>9 DEF RequireTurns
  <2>2. QED
    BY <1>2, <2>1
<1>10. CASE TurnPage
  <2>1. report' = report /\ ask' = ask
        /\ (runs' = runs \/ Recording) /\ (bound' = bound \/ Bind) /\ (view' = view \/ Choose)
    BY <1>10 DEF TurnPage
  <2>2. QED
    BY <1>2, <2>1
<1>11. CASE Finish
  <2>1. report' = report /\ ask' = ask
        /\ (runs' = runs \/ Recording) /\ (bound' = bound \/ Bind) /\ (view' = view \/ Choose)
    BY <1>11 DEF Finish
  <2>2. QED
    BY <1>2, <2>1
<1>12. CASE ListRuns
  <2>1. /\ UNCHANGED <<runs, ask, bound, view>>
        /\ \A f \in Fields \ {"handles"} : Kept(f)
        /\ \A f \in Analyses : KeptAsOf(f)
        /\ Shaped'
    BY <1>1, <1>2, <1>12 DEF ListRuns, Shaped
  <2>2. QED
    BY <1>12, <2>1
<1>13. CASE DiffWithin
  <2>1. /\ UNCHANGED <<runs, ask, bound, view>>
        /\ \A f \in Fields \ {"diffs"} : Kept(f)
        /\ \A f \in Analyses : KeptAsOf(f)
        /\ Shaped'
    BY <1>1, <1>2, <1>13 DEF DiffWithin, Shaped
  <2>2. QED
    BY <1>13, <2>1
<1>14. CASE DiffAcross
  <2>1. /\ UNCHANGED <<runs, ask, bound, view>>
        /\ \A f \in Fields \ {"diffs"} : Kept(f)
        /\ \A f \in Analyses : KeptAsOf(f)
        /\ Shaped'
    BY <1>1, <1>2, <1>14 DEF DiffAcross, Shaped
  <2>2. QED
    BY <1>14, <2>1
<1>15. CASE CountTurns
  <2>1. /\ UNCHANGED <<runs, ask, bound, view>>
        /\ \A f \in Fields \ {"turns"} : Kept(f)
        /\ \A f \in Analyses : KeptAsOf(f)
        /\ Shaped'
    BY <1>1, <1>2, <1>15 DEF CountTurns, Shaped
  <2>2. QED
    BY <1>15, <2>1
<1>16. CASE FindTurn
  <2>1. /\ UNCHANGED <<runs, ask, bound, view>>
        /\ \A f \in Fields \ {"target", "turns"} : Kept(f)
        /\ \A f \in Analyses : KeptAsOf(f)
        /\ Shaped'
    BY <1>1, <1>2, <1>16 DEF FindTurn, Shaped
  <2>2. QED
    BY <1>16, <2>1
<1>17. CASE FindPrevious
  <2>1. /\ UNCHANGED <<runs, ask, bound, view>>
        /\ \A f \in Fields \ {"previous", "diffs"} : Kept(f)
        /\ \A f \in Analyses \ {"previous"} : KeptAsOf(f)
        /\ Shaped'
    BY <1>1, <1>2, <1>17 DEF FindPrevious, Shaped
  <2>2. QED
    BY <1>17, <2>1
<1>18. CASE ReadTokens
  <2>1. /\ UNCHANGED <<runs, ask, bound, view>>
        /\ \A f \in Fields \ {"tokens"} : Kept(f)
        /\ \A f \in Analyses \ {"tokens"} : KeptAsOf(f)
        /\ Shaped'
    BY <1>1, <1>2, <1>18 DEF ReadTokens, Shaped
  <2>2. QED
    BY <1>18, <2>1
<1>19. CASE ReadCache
  <2>1. /\ UNCHANGED <<runs, ask, bound, view>>
        /\ \A f \in Fields \ {"cache"} : Kept(f)
        /\ \A f \in Analyses \ {"cache"} : KeptAsOf(f)
        /\ Shaped'
    BY <1>1, <1>2, <1>19 DEF ReadCache, Shaped
  <2>2. QED
    BY <1>19, <2>1
<1>20. CASE ReadEvictions
  <2>1. /\ UNCHANGED <<runs, ask, bound, view>>
        /\ \A f \in Fields \ {"evictions"} : Kept(f)
        /\ \A f \in Analyses \ {"evictions"} : KeptAsOf(f)
        /\ Shaped'
    BY <1>1, <1>2, <1>20 DEF ReadEvictions, Shaped
  <2>2. QED
    BY <1>20, <2>1
<1>21. CASE ReadProject
  <2>1. /\ UNCHANGED <<runs, ask, bound, view>>
        /\ \A f \in Fields \ {"project", "start"} : Kept(f)
        /\ \A f \in Analyses : KeptAsOf(f)
        /\ Shaped'
    BY <1>1, <1>2, <1>21 DEF ReadProject, Shaped
  <2>2. QED
    BY <1>21, <2>1
<1>22. CASE ReadPairs
  <2>1. /\ UNCHANGED <<runs, ask, bound, view>>
        /\ \A f \in Fields \ {"turns", "diffs"} : Kept(f)
        /\ \A f \in Analyses : KeptAsOf(f)
        /\ Shaped'
    BY <1>1, <1>2, <1>22 DEF ReadPairs, Shaped
  <2>2. QED
    BY <1>22, <2>1
<1>23. CASE ListSessions
  <2>1. /\ UNCHANGED <<runs, ask, bound, view>>
        /\ \A f \in Fields \ {"sessions"} : Kept(f)
        /\ \A f \in Analyses : KeptAsOf(f)
        /\ Shaped'
    BY <1>1, <1>2, <1>23 DEF ListSessions, Shaped
  <2>2. QED
    BY <1>23, <2>1
<1>24. CASE ReadCalls
  <2>1. /\ UNCHANGED <<runs, ask, bound, view>>
        /\ \A f \in Fields \ {"calls"} : Kept(f)
        /\ \A f \in Analyses : KeptAsOf(f)
        /\ Shaped'
    BY <1>1, <1>2, <1>24 DEF ReadCalls, Shaped
  <2>2. QED
    BY <1>24, <2>1
<1>25. CASE FindBlock
  <2>1. /\ UNCHANGED <<runs, ask, bound, view>>
        /\ \A f \in Fields \ {"block", "carriers", "turns"} : Kept(f)
        /\ \A f \in Analyses : KeptAsOf(f)
        /\ Shaped'
    BY <1>1, <1>2, <1>25 DEF FindBlock, Shaped
  <2>2. QED
    BY <1>25, <2>1
<1>26. CASE SendPage
  <2>1. /\ UNCHANGED <<runs, ask, bound, view>>
        /\ \A f \in Fields \ {"pages"} : Kept(f)
        /\ \A f \in Analyses : KeptAsOf(f)
        /\ Shaped'
    BY <1>1, <1>2, <1>26 DEF SendPage, Shaped
  <2>2. QED
    BY <1>26, <2>1
<1>27. QED
  BY <1>3, <1>4, <1>5, <1>6, <1>7, <1>8, <1>9, <1>10, <1>11, <1>12,
     <1>13, <1>14, <1>15, <1>16, <1>17, <1>18, <1>19, <1>20, <1>21, <1>22, <1>23, <1>24, <1>25, <1>26 DEF Commands


-----------------------------------------------------------------------------
(* What was recorded stays, and more may follow.                             *)
Grows ==
  /\ Len(runs) <= Len(runs')
  /\ \A s \in DOMAIN runs : IsPartOf(runs[s], runs'[s])

Stored == runs \in Seq(Runs) /\ Len(runs) <= Len(Recordable)

LEMMA TurnsAre == \A turn \in Turns : IsTurn(turn)
BY InspectAssumption DEF Turns

LEMMA RunFits ==
  ASSUME NEW numbers \in SUBSET (1..MaxTurns), NEW run, run \in [numbers -> Turns]
  PROVE  run \in Runs
BY DEF Runs

LEMMA RunHas ==
  ASSUME NEW run \in Runs
  PROVE  /\ DOMAIN run \in SUBSET (1..MaxTurns) /\ run \in [DOMAIN run -> Turns]
         /\ IsFiniteSet(DOMAIN run) /\ CountOf(run) \in Nat
         /\ IsRun(run) /\ IsPartOf(run, run)
         /\ Restrict(run, DOMAIN run) = run
<1>1. PICK numbers \in SUBSET (1..MaxTurns) : run \in [numbers -> Turns]
  BY DEF Runs
<1>2. DOMAIN run = numbers /\ \A k \in numbers : run[k] \in Turns
  BY <1>1
<1>3. MaxTurns \in Nat
  BY InspectAssumption
<1>4. IsFiniteSet(1..MaxTurns)
  BY <1>3, FS_Interval
<1>5. IsFiniteSet(numbers)
  BY <1>4, FS_Subset
<1>6. CountOf(run) \in Nat
  BY <1>2, <1>5, FS_CardinalityType DEF CountOf
<1>7. IsRun(run)
  BY <1>2, <1>3, TurnsAre DEF IsRun, IsNumbered
<1>8. IsPartOf(run, run)
  BY DEF IsPartOf
<1>9. Restrict(run, DOMAIN run) = run
  BY <1>1 DEF Restrict
<1>10. QED
  BY <1>1, <1>2, <1>5, <1>6, <1>7, <1>8, <1>9

LEMMA PartIsRun ==
  ASSUME NEW run \in Runs, NEW numbers, numbers \subseteq DOMAIN run
  PROVE  /\ Restrict(run, numbers) \in Runs /\ IsRun(Restrict(run, numbers))
         /\ DOMAIN Restrict(run, numbers) = numbers
         /\ \A k \in numbers : Restrict(run, numbers)[k] = run[k]
<1> DEFINE part == Restrict(run, numbers)
<1>1. DOMAIN run \in SUBSET (1..MaxTurns) /\ run \in [DOMAIN run -> Turns]
  BY RunHas
<1>2. part = [k \in numbers |-> run[k]]
  BY DEF Restrict
<1>3. part \in [numbers -> Turns] /\ numbers \in SUBSET (1..MaxTurns)
  BY <1>1, <1>2
<1> HIDE DEF part
<1>4. part \in Runs
  BY <1>3, RunFits
<1>5. IsRun(part)
  BY <1>4, RunHas
<1>6. QED
  BY <1>2, <1>4, <1>5 DEF part

(* A part has no more turns than the whole. *)
LEMMA PartsAreLess ==
  ASSUME NEW part \in Runs, NEW run \in Runs, IsPartOf(part, run)
  PROVE  CountOf(part) <= CountOf(run)
<1>1. IsFiniteSet(DOMAIN run) /\ DOMAIN part \in SUBSET DOMAIN run
  BY RunHas DEF IsPartOf
<1>2. QED
  BY <1>1, FS_Subset DEF CountOf

LEMMA PartOfPart ==
  ASSUME NEW part, NEW run, NEW grown, IsPartOf(part, run), IsPartOf(run, grown)
  PROVE  IsPartOf(part, grown)
BY DEF IsPartOf

LEMMA RunsAre ==
  ASSUME Stored
  PROVE  /\ Len(runs) \in Nat /\ DOMAIN runs = 1..Len(runs)
         /\ \A s \in DOMAIN runs : runs[s] \in Runs
         /\ DOMAIN runs \subseteq DOMAIN Recordable
<1>1. Len(runs) \in Nat /\ DOMAIN runs = 1..Len(runs) /\ \A s \in DOMAIN runs : runs[s] \in Runs
  BY DEF Stored
<1>2. DOMAIN runs \subseteq DOMAIN Recordable
  BY <1>1, InspectAssumption DEF Stored
<1>3. QED
  BY <1>1, <1>2

LEMMA StoreGrows ==
  ASSUME Stored, Recording \/ Commands \/ UNCHANGED vars
  PROVE  Grows /\ Stored'
<1>1. CASE OpenSession
  <2>1. /\ Len(runs) < Len(Recordable) /\ runs' = Append(runs, <<>>)
    BY <1>1 DEF OpenSession
  <2>2. runs \in Seq(Runs) /\ Len(runs) \in Nat
    BY DEF Stored
  <2>3. <<>> \in Runs
    <3>1. {} \in SUBSET (1..MaxTurns) /\ <<>> \in [{} -> Turns]
      OBVIOUS
    <3>2. QED
      BY <3>1, RunFits
  <2>4. /\ runs' \in Seq(Runs) /\ Len(runs') = Len(runs) + 1
        /\ \A s \in DOMAIN runs : runs'[s] = runs[s] /\ runs[s] \in Runs
    <3> HIDE DEF Runs
    <3>1. QED
      BY <2>1, <2>2, <2>3
  <2>5. \A s \in DOMAIN runs : IsPartOf(runs[s], runs'[s])
    BY <2>4, RunHas
  <2>6. Len(Recordable) \in Nat
    BY InspectAssumption
  <2>7. QED
    BY <2>1, <2>2, <2>4, <2>5, <2>6 DEF Grows, Stored
<1>2. CASE \E s \in DOMAIN runs : RecordCall(s)
  <2>1. PICK s \in DOMAIN runs : RecordCall(s)
    BY <1>2
  <2>2. PICK seq \in (1..MaxTurns) \ DOMAIN runs[s], turn \in Recordable[s] :
          runs' = [runs EXCEPT ![s] =
                     [k \in DOMAIN runs[s] \cup {seq} |-> IF k = seq THEN turn ELSE runs[s][k]]]
    BY <2>1 DEF RecordCall
  <2> DEFINE was == runs[s]
             now == [k \in DOMAIN runs[s] \cup {seq} |-> IF k = seq THEN turn ELSE runs[s][k]]
  <2>3. turn \in Turns
    BY RunsAre, <2>2 DEF Turns
  <2>4. was \in Runs
    BY RunsAre
  <2>5. DOMAIN was \in SUBSET (1..MaxTurns) /\ was \in [DOMAIN was -> Turns]
    BY <2>4, RunHas
  <2>6. now = [k \in DOMAIN was \cup {seq} |-> IF k = seq THEN turn ELSE was[k]]
    OBVIOUS
  <2>7. now \in Runs
    <3>1. DOMAIN was \cup {seq} \in SUBSET (1..MaxTurns)
      BY <2>2, <2>5
    <3>2. now \in [DOMAIN was \cup {seq} -> Turns]
      BY <2>3, <2>5, <2>6
    <3> HIDE DEF was, now
    <3>3. QED
      BY <3>1, <3>2, RunFits
  <2>8. IsPartOf(was, now)
    BY <2>2, <2>6 DEF IsPartOf
  <2>9. runs' = [runs EXCEPT ![s] = now]
    BY <2>2
  <2> HIDE DEF now
  <2>10. runs' \in Seq(Runs) /\ Len(runs') = Len(runs)
    <3>1. runs \in Seq(Runs)
      BY DEF Stored
    <3> HIDE DEF Runs
    <3>2. QED
      BY <2>7, <2>9, <3>1
  <2>11. ASSUME NEW r \in DOMAIN runs PROVE IsPartOf(runs[r], runs'[r])
    <3>1. runs'[r] = IF r = s THEN now ELSE runs[r]
      BY <2>9
    <3>2. IsPartOf(runs[r], runs[r])
      BY DEF IsPartOf
    <3>3. QED
      BY <2>8, <3>1, <3>2
  <2>12. Len(runs) \in Nat
    BY RunsAre
  <2>13. QED
    BY <2>10, <2>11, <2>12 DEF Stored, Grows
<1>3. CASE runs' = runs
  <2>1. \A s \in DOMAIN runs : IsPartOf(runs[s], runs[s])
    BY DEF IsPartOf
  <2>2. QED
    BY <1>3, <2>1, RunsAre DEF Grows, Stored
<1>4. CASE Commands \/ UNCHANGED vars
  <2>1. runs' = runs
    BY <1>4 DEF Commands, vars, Start, ListRuns, Bind, Choose, FilterAgent, DiffWithin,
       DiffAcross, CountTurns, RequireTurns, FindTurn, FindPrevious, ReadTokens, ReadCache,
       ReadEvictions, ReadProject, ReadPairs, ListSessions, ReadCalls, FindBlock, SendPage,
       TurnPage, Finish
  <2>2. QED
    BY <1>3, <2>1
<1>5. QED
  BY <1>1, <1>2, <1>4 DEF Recording

-----------------------------------------------------------------------------
(* The steps of a plan are taken in their order.                             *)
LEMMA PlannedStays ==
  ASSUME ask' = ask
  PROVE  \A step : Planned(step)' <=> Planned(step)
BY DEF Planned, Across

LEMMA AtIs ==
  ASSUME TypeInv, NEW step \in Steps, At(step)
  PROVE  /\ exit = "running" /\ Live /\ step \in ToSet(todo) /\ Planned(step) /\ ~Seen(step)
         /\ Tail(todo) \in Seq(Steps) /\ InOrder(Tail(todo))
         /\ ToSet(Tail(todo)) = ToSet(todo) \ {step}
         /\ \A other \in Steps : Planned(other) /\ Place(other) < Place(step) => Seen(other)
         /\ \A other \in Steps : Planned(other) /\ Place(step) < Place(other) =>
              other \in ToSet(todo) /\ ~Seen(other)
<1>1. /\ todo \in Seq(Steps) /\ InOrder(todo) /\ \A other \in ToSet(todo) : Planned(other)
      /\ \A here \in ToSet(todo), later \in Steps :
           Planned(later) /\ Place(here) < Place(later) => later \in ToSet(todo)
  BY DEF TypeInv
<1>2. exit = "running" /\ todo # <<>> /\ Head(todo) = step
  BY DEF At
<1>3. /\ step \in ToSet(todo)
      /\ Tail(todo) \in Seq(Steps) /\ InOrder(Tail(todo))
      /\ ToSet(Tail(todo)) = ToSet(todo) \ {step}
      /\ \A other \in ToSet(Tail(todo)) : Place(step) < Place(other)
  BY <1>1, <1>2, HeadGoes
<1>4. Live /\ Planned(step) /\ ~Seen(step)
  BY <1>1, <1>2, <1>3 DEF Live, Seen
<1>5. ASSUME NEW other \in Steps, Planned(other), Place(other) < Place(step) PROVE Seen(other)
  <2>1. Place(other) \in Nat /\ Place(step) \in Nat
    BY PlaceIsNat
  <2>2. other \notin ToSet(todo)
    BY <1>3, <1>5, <2>1
  <2>3. QED
    BY <1>4, <1>5, <2>2 DEF Seen
<1>6. ASSUME NEW other \in Steps, Planned(other), Place(step) < Place(other)
      PROVE  other \in ToSet(todo) /\ ~Seen(other)
  BY <1>1, <1>3, <1>6 DEF Seen
<1>7. QED
  BY <1>2, <1>3, <1>4, <1>5, <1>6

LEMMA TypeStays ==
  ASSUME TypeInv, BlockInv, Recording \/ Commands \/ UNCHANGED vars
  PROVE  TypeInv'
<1> DEFINE Todo == /\ todo \in Seq(Steps) /\ InOrder(todo)
                   /\ \A step \in ToSet(todo) : Planned(step)
                   /\ \A step \in ToSet(todo), later \in Steps :
                        Planned(later) /\ Place(step) < Place(later) => later \in ToSet(todo)
           Exits == {"idle", "running", "usage", "error", "answer", "failed"}
           Ends == /\ exit \in Exits
                   /\ exit # "running" => todo = <<>>
           Idle == exit = "idle" => bound = 0 /\ view = <<>> /\ report = NoReport
<1>1. ask \in Asks /\ Stored /\ Shaped /\ Todo /\ Ends /\ Idle /\ bound \in 0..Len(runs)
  BY DEF TypeInv, Stored, Shaped
<1>2. ask' \in Asks /\ Shaped'
  BY <1>1, Frames
<1>3. \A step : Planned(step)' <=> Planned(step)
  BY <1>1, Frames, PlannedStays
<1>4. Stored' /\ Grows
  BY <1>1, StoreGrows
<1>5. bound' \in 0..Len(runs')
  <2>1. CASE Bind
    <3>1. bound' = Len(runs) /\ runs' = runs
      BY <2>1 DEF Bind
    <3>2. QED
      BY <1>1, <3>1, RunsAre
  <2>2. CASE bound' = bound
    <3>1. Len(runs) \in Nat /\ Len(runs') \in Nat
      BY <1>1, <1>4, RunsAre DEF Stored
    <3>2. QED
      BY <1>1, <1>4, <2>2, <3>1 DEF Grows
  <2>3. QED
    BY <1>1, <2>1, <2>2, Frames
<1> DEFINE Next1 == Todo' /\ Ends' /\ (exit' = "idle" => exit = "idle" /\ Continues)
<1>6. ASSUME todo' = <<>>, exit' \in Exits \ {"idle", "running"} PROVE Next1
  <2>1. ToSet(<<>>) = {} /\ <<>> \in Seq(Steps) /\ InOrder(<<>>)
    BY DEF ToSet, InOrder
  <2>2. QED
    BY <1>6, <2>1
<1>7. ASSUME Continues PROVE Next1
  <2>1. todo' = todo /\ exit' = exit
    BY <1>7 DEF Continues
  <2>2. Todo' <=> Todo
    <3> HIDE DEF Todo
    <3>1. /\ (todo \in Seq(Steps))' <=> todo \in Seq(Steps)
          /\ InOrder(todo)' <=> InOrder(todo)
          /\ ToSet(todo)' = ToSet(todo)
      BY <2>1 DEF InOrder
    <3>2. QED
      BY <1>3, <3>1 DEF Todo
  <2>3. QED
    BY <1>1, <1>7, <2>1, <2>2
<1>8. ASSUME Start PROVE Next1
  <2>1. \/ exit' = "usage" /\ todo' = <<>>
        \/ exit' = "running" /\ todo' = Plan
    <3>1. exit = "idle"
      BY <1>8 DEF Start
    <3>2. todo = <<>>
      BY <1>1, <3>1
    <3>3. QED
      BY <1>8, <3>2 DEF Start
  <2>2. CASE exit' = "running" /\ todo' = Plan
    <3>1. /\ Plan \in Seq(Steps) /\ InOrder(Plan)
          /\ \A step \in Steps : step \in ToSet(Plan) <=> Planned(step)
      BY <1>1, PlanIs
    <3>2. \A step \in ToSet(Plan) : step \in Steps
      BY <3>1 DEF ToSet
    <3>3. Todo'
      BY <1>3, <2>2, <3>1, <3>2
    <3>4. QED
      BY <2>2, <3>3
  <2>3. QED
    BY <1>6, <2>1, <2>2
<1>9. ASSUME TurnPage PROVE Next1
  <2>1. exit' = "running" /\ todo' = <<"bind", "choose">> \o ToolReads /\ report.pages # <<>>
    BY <1>9 DEF TurnPage
  <2>2. ask.tool = "block"
    BY <2>1 DEF BlockInv
  <2>3. /\ todo' \in Seq(Steps) /\ InOrder(todo')
        /\ ToSet(todo') = {"bind", "choose", "find", "page"}
    BY <1>1, <2>1, <2>2, PagePlanIs
  <2>4. \A step \in Steps : Planned(step) <=>
          \/ step \in {"bind", "choose", "find", "page"}
          \/ step = "runs" /\ ask.handle # 0
    BY <2>2 DEF Planned
  <2>5. Todo'
    <3>1. \A step \in ToSet(todo') : step \in Steps /\ Planned(step)'
      BY <1>3, <2>3, <2>4, StepsAre
    <3>2. ASSUME NEW step \in ToSet(todo'), NEW later \in Steps,
                 Planned(later), Place(step) < Place(later)
          PROVE  later \in ToSet(todo')
      <4>1. later = "runs" => ~(Place(step) < Place(later))
        BY <2>3, <3>2, PlaceIs
      <4>2. QED
        BY <2>3, <2>4, <3>2, <4>1
    <3>3. QED
      BY <1>3, <2>3, <3>1, <3>2
  <2>6. QED
    BY <2>1, <2>5
<1>10. ASSUME Finish PROVE Next1
  <2>1. exit' \in {"answer", "failed"} /\ todo' = <<>>
    BY <1>10 DEF Finish
  <2>2. QED
    BY <1>6, <2>1
<1>11. ASSUME Refused \/ NothingListed PROVE Next1
  <2>1. exit' \in Exits \ {"idle", "running"} /\ todo' = <<>>
    BY <1>11 DEF Refused, NothingListed
  <2>2. QED
    BY <1>6, <2>1
<1>12. ASSUME \E step \in Steps : Taken(step) PROVE Next1
  <2>1. PICK step \in Steps : Taken(step)
    BY <1>12
  <2>2. At(step) /\ todo' = Tail(todo) /\ exit' = "running"
    BY <2>1 DEF Taken
  <2>3. /\ Tail(todo) \in Seq(Steps) /\ InOrder(Tail(todo))
        /\ ToSet(Tail(todo)) = ToSet(todo) \ {step}
        /\ \A here \in ToSet(Tail(todo)) : Place(step) < Place(here)
    BY <1>1, <2>2, HeadGoes DEF At
  <2>4. \A here \in ToSet(todo) : here \in Steps
    BY <1>1 DEF ToSet
  <2>5. ASSUME NEW here \in ToSet(todo) \ {step}, NEW later \in Steps,
               Planned(later), Place(here) < Place(later)
        PROVE  later \in ToSet(todo) \ {step}
    <3>1. Place(step) \in Nat /\ Place(here) \in Nat /\ Place(later) \in Nat
      BY <2>4, PlaceIsNat
    <3>2. Place(step) < Place(here)
      BY <2>3
    <3>3. later # step
      BY <2>5, <3>1, <3>2
    <3>4. QED
      BY <1>1, <2>5, <3>3
  <2>6. Todo'
    BY <1>1, <1>3, <2>2, <2>3, <2>5
  <2>7. QED
    BY <2>2, <2>6
<1>13. Next1
  <2> HIDE DEF Next1
  <2>1. QED
    BY <1>7, <1>8, <1>9, <1>10, <1>11, <1>12, Outcomes
<1>14. Idle'
  <2>1. CASE exit' = "idle"
    <3>1. exit = "idle"
      BY <1>13, <2>1
    <3>2. UNCHANGED <<bound, view, report>>
      <4>1. Recording \/ UNCHANGED vars
        BY <1>13, <2>1, <3>1 DEF Commands, Start, ListRuns, Bind, Choose, FilterAgent,
           DiffWithin, DiffAcross, CountTurns, RequireTurns, FindTurn, FindPrevious,
           ReadTokens, ReadCache, ReadEvictions, ReadProject, ReadPairs, ListSessions,
           ReadCalls, FindBlock, SendPage, TurnPage, Finish, At
      <4>2. QED
        BY <4>1 DEF Recording, OpenSession, RecordCall, vars
    <3>3. QED
      BY <1>1, <3>1, <3>2
  <2>2. QED
    BY <2>1
<1>15. exit' \notin {"idle", "usage"} => ~UsageError'
  <2>1. UsageError' <=> UsageError
    <3>1. ask' = ask
      BY <1>1, Frames
    <3>2. QED
      BY <3>1 DEF UsageError, Across
  <2>2. exit \notin {"idle", "usage"} => ~UsageError
    BY DEF TypeInv
  <2>3. CASE Continues
    BY <2>1, <2>2, <2>3 DEF Continues
  <2>4. CASE Start
    BY <2>1, <2>4 DEF Start
  <2>5. CASE ~Continues /\ ~Start
    <3>1. exit \in {"running", "answer"}
      <4>1. \/ TurnPage \/ Finish \/ NothingListed \/ \E step \in Steps : At(step)
        BY <2>5, Outcomes, StepsAre DEF Taken
      <4>2. QED
        BY <4>1 DEF TurnPage, Finish, NothingListed, Bind, At
    <3>2. QED
      BY <2>1, <2>2, <3>1
  <2>6. QED
    BY <2>3, <2>4, <2>5
<1>16. QED
  BY <1>2, <1>4, <1>5, <1>13, <1>14, <1>15 DEF TypeInv, Stored, Shaped


(* What has been taken stays so, and nothing is taken before its turn.       *)
LEMMA SeenDown ==
  ASSUME TypeInv, NEW step \in Steps, Seen(step),
         NEW other \in Steps, Planned(other), Place(other) < Place(step)
  PROVE  Seen(other)
BY DEF Seen, TypeInv

LEMMA Moves ==
  ASSUME TypeInv, BlockInv, Recording \/ Commands \/ UNCHANGED vars, NEW step \in Steps
  PROVE  /\ Seen(step)' => Seen(step) \/ Taken(step) \/ NothingListed
         /\ Live' /\ ~Seen(step)' =>
              \/ Live /\ ~Seen(step) /\ ~Taken(step)
              \/ exit = "idle"
              \/ TurnPage /\ step \in {"bind", "choose", "find", "page"}
<1> DEFINE Forth == Seen(step)' => Seen(step) \/ Taken(step) \/ NothingListed
           Back == Live' /\ ~Seen(step)' =>
                     \/ Live /\ ~Seen(step) /\ ~Taken(step)
                     \/ exit = "idle"
                     \/ TurnPage /\ step \in {"bind", "choose", "find", "page"}
           Goal == Forth /\ Back
<1> SUFFICES Goal
  OBVIOUS
<1>1. Planned(step)' <=> Planned(step)
  <2>1. Shaped
    BY DEF TypeInv, Shaped
  <2>2. QED
    BY <2>1, Frames, PlannedStays
<1>2. Taken(step) => Seen(step)'
  <2>1. ASSUME Taken(step) PROVE Seen(step)'
    <3>1. At(step) /\ todo' = Tail(todo) /\ exit' = "running"
      BY <2>1 DEF Taken
    <3>2. Planned(step) /\ ToSet(Tail(todo)) = ToSet(todo) \ {step}
      BY <3>1, AtIs
    <3>3. ToSet(todo') = ToSet(todo) \ {step}
      BY <3>1, <3>2
    <3>4. QED
      BY <1>1, <3>1, <3>2, <3>3 DEF Seen, Live
  <2>2. QED
    BY <2>1
<1>3. /\ Seen(step) <=> Live /\ Planned(step) /\ step \notin ToSet(todo)
      /\ Seen(step)' <=> Live' /\ Planned(step) /\ step \notin ToSet(todo')
  BY <1>1 DEF Seen
<1>4. CASE Continues
  <2>1. ToSet(todo') = ToSet(todo) /\ (Live' <=> Live)
    BY <1>4 DEF Continues, Live
  <2>2. QED
    BY <1>2, <1>3, <2>1
<1>5. CASE Start
  <2>1. exit = "idle"
    BY <1>5 DEF Start
  <2>2. Forth
    <3>1. CASE UsageError
      <4>1. ~Live'
        BY <1>5, <3>1 DEF Start, Live
      <4>2. QED
        BY <1>3, <4>1
    <3>2. CASE ~UsageError
      <4>1. todo' = Plan
        BY <1>5, <3>2 DEF Start
      <4>2. Planned(step) => step \in ToSet(Plan)
        BY PlanIs DEF TypeInv
      <4>3. QED
        BY <1>3, <4>1, <4>2
    <3>3. QED
      BY <3>1, <3>2
  <2>3. QED
    BY <2>1, <2>2
<1>6. CASE TurnPage
  <2>1. /\ exit = "answer" /\ exit' = "running" /\ report.pages # <<>>
        /\ todo' = <<"bind", "choose">> \o ToolReads
    BY <1>6 DEF TurnPage
  <2>2. todo = <<>> /\ ask \in Asks
    BY <2>1 DEF TypeInv
  <2>3. ask.tool = "block"
    BY <2>1 DEF BlockInv
  <2>4. ToSet(todo') = {"bind", "choose", "find", "page"}
    BY <2>1, <2>2, <2>3, PagePlanIs
  <2>5. Live /\ Live' /\ ToSet(todo) = {}
    BY <2>1, <2>2 DEF Live, ToSet
  <2>6. QED
    BY <1>2, <1>3, <1>6, <2>4, <2>5
<1>7. CASE Finish
  <2>1. todo' = todo /\ Live /\ Live'
    BY <1>7 DEF Finish, Live
  <2>2. QED
    BY <1>2, <1>3, <2>1
<1>8. CASE Refused
  <2>1. ~Live'
    BY <1>8 DEF Refused, Live
  <2>2. QED
    BY <1>3, <2>1
<1>9. CASE NothingListed
  <2>1. At("bind") /\ todo' = <<>> /\ exit' = "answer"
    BY <1>9 DEF NothingListed, Bind
  <2>2. Live /\ ToSet(todo') = {}
    BY <2>1 DEF At, Live, ToSet
  <2>3. QED
    BY <1>2, <1>3, <1>9, <2>2
<1>10. CASE \E other \in Steps : Taken(other)
  <2>1. PICK other \in Steps : Taken(other)
    BY <1>10
  <2>2. At(other) /\ todo' = Tail(todo) /\ exit' = "running"
    BY <2>1 DEF Taken
  <2>3. Live /\ ToSet(Tail(todo)) = ToSet(todo) \ {other}
    BY <2>2, AtIs
  <2>4. ToSet(todo') = ToSet(todo) \ {other}
    BY <2>2, <2>3
  <2>5. QED
    BY <1>2, <1>3, <2>1, <2>3, <2>4
<1>11. QED
  <2> HIDE DEF Goal
  <2>1. QED
    BY <1>4, <1>5, <1>6, <1>7, <1>8, <1>9, <1>10, Outcomes

(* The run that was chosen, and what has been recorded in it since.          *)
LEMMA RunIs ==
  ASSUME TypeInv, ViewInv, Seen("choose")
  PROVE  view[1] \in DOMAIN runs /\ Run \in Runs
<1>1. ViewFits /\ ask \in Asks /\ Stored
  BY DEF ViewInv, TypeInv, Stored
<1>2. 1 \in DOMAIN view
  <2>1. CASE ask.sessions = <<>>
    BY <1>1, <2>1 DEF ViewFits
  <2>2. CASE ask.sessions # <<>>
    <3>1. ask.sessions \in Seq([name : SUBSET DOMAIN Recordable, turn : Nat \cup {None}])
      BY <1>1, AskIs
    <3> DEFINE Selectors == [name : SUBSET DOMAIN Recordable, turn : Nat \cup {None}]
    <3> HIDE DEF Selectors
    <3>2. 1 \in DOMAIN ask.sessions
      BY <2>2, <3>1 DEF Selectors
    <3>3. QED
      BY <1>1, <2>2, <3>2 DEF ViewFits
  <2>3. QED
    BY <2>1, <2>2
<1>3. view[1] \in DOMAIN runs
  BY <1>1, <1>2 DEF ViewFits
<1>4. QED
  BY <1>1, <1>3, RunsAre DEF Run

LEMMA RunGrows ==
  ASSUME TypeInv, ViewInv, Seen("choose"), Recording \/ Commands \/ UNCHANGED vars
  PROVE  view' = view /\ Run' \in Runs /\ IsPartOf(Run, Run')
<1>1. Stored /\ Shaped
  BY DEF TypeInv, Stored, Shaped
<1>2. view' = view
  <2>1. ~At("choose")
    BY AtIs, StepsAre
  <2>2. ~Choose
    BY <2>1 DEF Choose
  <2>3. QED
    BY <1>1, <2>2, Frames
<1>3. Stored' /\ Grows
  BY <1>1, StoreGrows
<1>4. view[1] \in DOMAIN runs
  BY RunIs
<1>5. view[1] \in DOMAIN runs'
  <2>1. Len(runs) \in Nat /\ DOMAIN runs = 1..Len(runs)
    BY <1>1, RunsAre
  <2>2. Len(runs') \in Nat /\ DOMAIN runs' = 1..Len(runs')
    BY <1>3 DEF Stored
  <2>3. QED
    BY <1>3, <1>4, <2>1, <2>2 DEF Grows
<1>6. Run' = runs'[view[1]]
  BY <1>2 DEF Run
<1>7. Run' \in Runs
  BY <1>3, <1>5, <1>6 DEF Stored
<1>8. IsPartOf(Run, Run')
  BY <1>3, <1>4, <1>6 DEF Grows, Run
<1>9. QED
  BY <1>2, <1>7, <1>8

(* What was read of a run before is there still. *)
LEMMA PartLasts ==
  ASSUME NEW run, NEW grown, IsPartOf(run, grown), NEW numbers, numbers \subseteq DOMAIN run
  PROVE  Restrict(grown, numbers) = Restrict(run, numbers) /\ numbers \subseteq DOMAIN grown
BY DEF IsPartOf, Restrict

-----------------------------------------------------------------------------
(* The analyses: what they are of was chosen before, and stays.              *)
Analyses == {"tokens", "cache", "evictions"}

LEMMA AnalysesAre ==
  ASSUME NEW analysis \in Analyses, Planned(analysis)
  PROVE  /\ analysis \in Steps /\ ask.tool \notin {"sessions", "agents", "block"}
         /\ Planned("choose") /\ Place("choose") < Place(analysis)
         /\ ask.tool = "check" => Planned("count")
         /\ ask.tool = "explain" => Planned("target") /\ Planned("previous")
         /\ Place("count") < Place(analysis) /\ Place("target") < Place(analysis)
         /\ Place("previous") < Place(analysis) /\ Place("pairs") < Place(analysis)
<1>1. ask.tool \notin {"sessions", "agents", "block"}
  BY DEF Planned, Analyses
<1>2. /\ Planned("choose")
      /\ ask.tool = "check" => Planned("count")
      /\ ask.tool = "explain" => Planned("target") /\ Planned("previous")
  BY <1>1 DEF Planned
<1>3. Place(analysis) \in Nat /\ Place(analysis) >= 13
  BY PlaceIs DEF Analyses
<1>4. analysis \in Steps
  BY StepsAre DEF Analyses
<1>5. QED
  BY <1>1, <1>2, <1>3, <1>4, PlaceIs

LEMMA AnalysisLasts ==
  ASSUME TypeInv, ViewInv, TargetInv, Recording \/ Commands \/ UNCHANGED vars,
         NEW analysis \in Analyses, Seen(analysis)
  PROVE  /\ Seen("choose")
         /\ report'.target = report.target /\ report'.previous = report.previous
         /\ ask.tool = "check" => report'.turns = report.turns
         /\ report'.asOf.previous = report.asOf.previous
         /\ ReportOn' = ReportOn /\ Agent' = Agent
<1>1. Shaped /\ Planned(analysis)
  BY DEF TypeInv, Shaped, Seen
<1>2. Seen("choose") /\ (ask.tool = "explain" => Seen("target"))
  BY <1>1, AnalysesAre, SeenDown, StepsAre
<1>3. \A step \in Steps : At(step) => ~(Place(step) < Place(analysis))
  BY <1>1, AnalysesAre, AtIs
<1>4. /\ ~At("target") /\ ~At("previous") /\ ~At("count") /\ ~At("pairs") /\ ~At("find")
  <2>1. ~At("find")
    <3>1. ~Planned("find")
      BY <1>1, AnalysesAre DEF Planned
    <3>2. QED
      BY <3>1, AtIs, StepsAre
  <2>2. QED
    BY <1>1, <1>3, <2>1, AnalysesAre, StepsAre
<1>5. /\ ~FindTurn /\ ~FindPrevious /\ ~CountTurns /\ ~ReadPairs /\ ~FindBlock
  BY <1>4 DEF FindTurn, FindPrevious, CountTurns, ReadPairs, FindBlock
<1>6. /\ report'.target = report.target /\ report'.previous = report.previous
      /\ report'.turns = report.turns /\ ask' = ask
      /\ report'.asOf.previous = report.asOf.previous
  BY <1>1, <1>5, Frames
<1>7. Agent' = Agent
  BY <1>6 DEF Agent
<1>8. ask.tool = "explain" => Run'[report.target] = Run[report.target]
  <2>1. ASSUME ask.tool = "explain" PROVE Run'[report.target] = Run[report.target]
    <3>1. report.target \in DOMAIN Run
      BY <1>2, <2>1 DEF TargetInv, Scope
    <3>2. QED
      BY <1>2, <3>1, RunGrows DEF IsPartOf
  <2>2. QED
    BY <2>1
<1>9. ReportOn' = ReportOn
  BY <1>6, <1>7, <1>8 DEF ReportOn
<1>10. QED
  BY <1>2, <1>6, <1>7, <1>9

LEMMA AnalysisReads ==
  ASSUME TypeInv, ViewInv, TargetInv, CountInv, NEW analysis \in Analyses, At(analysis),
         UNCHANGED <<runs, ask, view>>, report'.target = report.target,
         report'.turns = report.turns, report'.asOf.previous = report.asOf.previous,
         report'.asOf[analysis] = DOMAIN Run
  PROVE  /\ ReportOn' = ReportOn
         /\ AsRead(analysis)' = Run
         /\ SawEnough(report.asOf[analysis])'
<1>1. Planned(analysis) /\ analysis \in Steps
  BY AtIs, StepsAre DEF Analyses
<1>2. /\ Seen("choose") /\ (ask.tool = "check" => Seen("count"))
      /\ ask.tool = "explain" => Seen("previous")
  BY <1>1, AnalysesAre, AtIs, StepsAre
<1>3. Run' = Run /\ Agent' = Agent
  BY DEF Run, Agent
<1>4. ReportOn' = ReportOn
  BY <1>3 DEF ReportOn
<1>5. Restrict(Run, DOMAIN Run) = Run
  BY <1>2, RunIs, RunHas
<1>6. AsRead(analysis)' = Run
  BY <1>3, <1>5 DEF AsRead
<1>7. ask.tool = "check" => report.turns \subseteq DOMAIN Run
  BY <1>2 DEF CountInv
<1>8. ask.tool = "explain" => report.asOf.previous \subseteq DOMAIN Run
  BY <1>2 DEF TargetInv
<1>9. SawEnough(report.asOf[analysis])'
  BY <1>3, <1>7, <1>8 DEF SawEnough
<1>10. QED
  BY <1>4, <1>6, <1>9

(* What an analysis read is still there.                                     *)
LEMMA ReadingLasts ==
  ASSUME TypeInv, ViewInv, TargetInv, Recording \/ Commands \/ UNCHANGED vars,
         NEW analysis \in Analyses, Seen(analysis), SawEnough(report.asOf[analysis]),
         report'.asOf[analysis] = report.asOf[analysis]
  PROVE  /\ AsRead(analysis)' = AsRead(analysis)
         /\ SawEnough(report.asOf[analysis])'
<1> DEFINE numbers == report.asOf[analysis]
<1>1. Shaped
  BY DEF TypeInv, Shaped
<1>2. /\ Seen("choose") /\ ask' = ask
      /\ ask.tool = "check" => report'.turns = report.turns
      /\ report'.asOf.previous = report.asOf.previous
  BY <1>1, AnalysisLasts, Frames
<1>3. IsPartOf(Run, Run')
  BY <1>2, RunGrows
<1>4. /\ numbers \subseteq DOMAIN Run
      /\ ask.tool = "check" => report.turns \subseteq numbers
      /\ ask.tool = "explain" => report.asOf.previous \subseteq numbers
  BY DEF SawEnough
<1>5. Restrict(Run', numbers) = Restrict(Run, numbers) /\ numbers \subseteq DOMAIN Run'
  <2> DEFINE grown == Run'
  <2> HIDE DEF grown, numbers
  <2>1. Restrict(grown, numbers) = Restrict(Run, numbers) /\ numbers \subseteq DOMAIN grown
    BY <1>3, <1>4, PartLasts DEF grown
  <2>2. QED
    BY <2>1 DEF grown
<1>6. AsRead(analysis)' = AsRead(analysis)
  BY <1>5 DEF AsRead
<1>7. SawEnough(report.asOf[analysis])'
  BY <1>2, <1>4, <1>5 DEF SawEnough
<1>8. QED
  BY <1>6, <1>7

LEMMA TokensStay ==
  ASSUME TypeInv, BlockInv, ViewInv, TargetInv, CountInv, TokensInv,
         Recording \/ Commands \/ UNCHANGED vars
  PROVE  TokensInv'
<1>1. Shaped /\ "tokens" \in Steps /\ "tokens" \in Analyses
  BY StepsAre DEF TypeInv, Shaped, Analyses
<1>2. ASSUME ReadTokens
      PROVE  /\ At("tokens")
             /\ Taken("tokens") \/ ~Live'
             /\ UNCHANGED <<runs, ask, view>>
             /\ report'.target = report.target /\ report'.turns = report.turns
             /\ report'.tokens = AnalyzeRun(Run, ReportOn)
             /\ report'.asOf.tokens = DOMAIN Run /\ report'.asOf.previous = report.asOf.previous
  <2>1. /\ At("tokens") /\ (Done \/ Fail("error"))
        /\ UNCHANGED <<runs, ask, view>>
        /\ report' = [report EXCEPT !.tokens = AnalyzeRun(Run, ReportOn),
                                    !.asOf.tokens = DOMAIN Run]
    BY <1>2 DEF ReadTokens
  <2>2. Taken("tokens") \/ ~Live'
    BY <1>2, <2>1, TakeIs DEF Taken, Done, Fail, Live, At
  <2>3. /\ report'.target = report.target /\ report'.turns = report.turns
        /\ report'.tokens = AnalyzeRun(Run, ReportOn)
        /\ report'.asOf.tokens = DOMAIN Run /\ report'.asOf.previous = report.asOf.previous
    BY <1>1, <2>1, ReportIs DEF Shaped
  <2>4. QED
    BY <2>1, <2>2, <2>3
<1>3. ASSUME Live', ~Seen("tokens")'
      PROVE  report'.tokens = NoReport.tokens /\ report'.asOf.tokens = {}
  <2>1. ~ReadTokens
    <3>1. ReadTokens => Taken("tokens")
      BY <1>2, <1>3
    <3>2. Taken("tokens") => exit # "idle" /\ ~TurnPage
      BY DEF Taken, At, TurnPage
    <3>3. QED
      BY <1>1, <1>3, <3>1, <3>2, Moves
  <2>2. report'.tokens = report.tokens /\ report'.asOf.tokens = report.asOf.tokens
    BY <1>1, <2>1, Frames
  <2>3. CASE exit = "idle"
    BY <2>2, <2>3, ReportIs DEF TypeInv
  <2>4. CASE Live /\ ~Seen("tokens")
    BY <2>2, <2>4 DEF TokensInv
  <2>5. QED
    BY <1>1, <1>3, <2>3, <2>4, Moves
<1>4. ASSUME Seen("tokens")'
      PROVE  /\ SawEnough(report.asOf.tokens)'
             /\ report'.tokens = AnalyzeRun(AsRead("tokens")', ReportOn')
  <2>1. CASE Taken("tokens")
    <3>1. ReadTokens
      BY <2>1, TakeIs DEF Taken
    <3>2. QED
      BY <1>1, <1>2, <3>1, AnalysisReads
  <2>2. CASE Seen("tokens")
    <3>1. ~ReadTokens
      BY <1>1, <1>2, <2>2, AtIs
    <3>2. report'.tokens = report.tokens /\ report'.asOf.tokens = report.asOf.tokens
      BY <1>1, <3>1, Frames
    <3>3. SawEnough(report.asOf.tokens) /\ report.tokens = AnalyzeRun(AsRead("tokens"), ReportOn)
      BY <2>2 DEF TokensInv
    <3>4. AsRead("tokens")' = AsRead("tokens") /\ SawEnough(report.asOf.tokens)'
      BY <1>1, <2>2, <3>2, <3>3, ReadingLasts
    <3>5. QED
      BY <1>1, <2>2, <3>2, <3>3, <3>4, AnalysisLasts
  <2>3. ~NothingListed
    <3>1. Planned("tokens")
      BY <1>1, <1>4, Frames, PlannedStays DEF Seen
    <3>2. QED
      BY <1>1, <3>1, AnalysesAre DEF NothingListed
  <2>4. QED
    BY <1>1, <1>4, <2>1, <2>2, <2>3, Moves
<1>5. QED
  BY <1>3, <1>4 DEF TokensInv

LEMMA CacheStays ==
  ASSUME TypeInv, BlockInv, ViewInv, TargetInv, CountInv, CacheInv,
         Recording \/ Commands \/ UNCHANGED vars
  PROVE  CacheInv'
<1>1. Shaped /\ "cache" \in Steps /\ "cache" \in Analyses
  BY StepsAre DEF TypeInv, Shaped, Analyses
<1>2. ASSUME ReadCache
      PROVE  /\ At("cache")
             /\ Taken("cache") \/ ~Live'
             /\ UNCHANGED <<runs, ask, view>>
             /\ report'.target = report.target /\ report'.turns = report.turns
             /\ report'.cache = AnalyzeCache(Run, ReportOn)
             /\ report'.asOf.cache = DOMAIN Run /\ report'.asOf.previous = report.asOf.previous
  <2>1. /\ At("cache") /\ Done
        /\ UNCHANGED <<runs, ask, view>>
        /\ report' = [report EXCEPT !.cache = AnalyzeCache(Run, ReportOn),
                                    !.asOf.cache = DOMAIN Run]
    BY <1>2 DEF ReadCache
  <2>2. Taken("cache") \/ ~Live'
    BY <1>2, <2>1, TakeIs DEF Taken, Done, Fail, Live, At
  <2>3. /\ report'.target = report.target /\ report'.turns = report.turns
        /\ report'.cache = AnalyzeCache(Run, ReportOn)
        /\ report'.asOf.cache = DOMAIN Run /\ report'.asOf.previous = report.asOf.previous
    BY <1>1, <2>1, ReportIs DEF Shaped
  <2>4. QED
    BY <2>1, <2>2, <2>3
<1>3. ASSUME Live', ~Seen("cache")'
      PROVE  report'.cache = NoReport.cache /\ report'.asOf.cache = {}
  <2>1. ~ReadCache
    <3>1. ReadCache => Taken("cache")
      BY <1>2, <1>3
    <3>2. Taken("cache") => exit # "idle" /\ ~TurnPage
      BY DEF Taken, At, TurnPage
    <3>3. QED
      BY <1>1, <1>3, <3>1, <3>2, Moves
  <2>2. report'.cache = report.cache /\ report'.asOf.cache = report.asOf.cache
    BY <1>1, <2>1, Frames
  <2>3. CASE exit = "idle"
    BY <2>2, <2>3, ReportIs DEF TypeInv
  <2>4. CASE Live /\ ~Seen("cache")
    BY <2>2, <2>4 DEF CacheInv
  <2>5. QED
    BY <1>1, <1>3, <2>3, <2>4, Moves
<1>4. ASSUME Seen("cache")'
      PROVE  /\ SawEnough(report.asOf.cache)'
             /\ report'.cache = AnalyzeCache(AsRead("cache")', ReportOn')
  <2>1. CASE Taken("cache")
    <3>1. ReadCache
      BY <2>1, TakeIs DEF Taken
    <3>2. QED
      BY <1>1, <1>2, <3>1, AnalysisReads
  <2>2. CASE Seen("cache")
    <3>1. ~ReadCache
      BY <1>1, <1>2, <2>2, AtIs
    <3>2. report'.cache = report.cache /\ report'.asOf.cache = report.asOf.cache
      BY <1>1, <3>1, Frames
    <3>3. SawEnough(report.asOf.cache) /\ report.cache = AnalyzeCache(AsRead("cache"), ReportOn)
      BY <2>2 DEF CacheInv
    <3>4. AsRead("cache")' = AsRead("cache") /\ SawEnough(report.asOf.cache)'
      BY <1>1, <2>2, <3>2, <3>3, ReadingLasts
    <3>5. QED
      BY <1>1, <2>2, <3>2, <3>3, <3>4, AnalysisLasts
  <2>3. ~NothingListed
    <3>1. Planned("cache")
      BY <1>1, <1>4, Frames, PlannedStays DEF Seen
    <3>2. QED
      BY <1>1, <3>1, AnalysesAre DEF NothingListed
  <2>4. QED
    BY <1>1, <1>4, <2>1, <2>2, <2>3, Moves
<1>5. QED
  BY <1>3, <1>4 DEF CacheInv

LEMMA EvictionsStay ==
  ASSUME TypeInv, BlockInv, ViewInv, TargetInv, CountInv, EvictionsInv,
         Recording \/ Commands \/ UNCHANGED vars
  PROVE  EvictionsInv'
<1>1. Shaped /\ "evictions" \in Steps /\ "evictions" \in Analyses
  BY StepsAre DEF TypeInv, Shaped, Analyses
<1>2. ASSUME ReadEvictions
      PROVE  /\ At("evictions")
             /\ Taken("evictions") \/ ~Live'
             /\ UNCHANGED <<runs, ask, view>>
             /\ report'.target = report.target /\ report'.turns = report.turns
             /\ report'.evictions = AnalyzeEvictions(Run, ReportOn)
             /\ report'.asOf.evictions = DOMAIN Run /\ report'.asOf.previous = report.asOf.previous
  <2>1. /\ At("evictions") /\ Done
        /\ UNCHANGED <<runs, ask, view>>
        /\ report' = [report EXCEPT !.evictions = AnalyzeEvictions(Run, ReportOn),
                                    !.asOf.evictions = DOMAIN Run]
    BY <1>2 DEF ReadEvictions
  <2>2. Taken("evictions") \/ ~Live'
    BY <1>2, <2>1, TakeIs DEF Taken, Done, Fail, Live, At
  <2>3. /\ report'.target = report.target /\ report'.turns = report.turns
        /\ report'.evictions = AnalyzeEvictions(Run, ReportOn)
        /\ report'.asOf.evictions = DOMAIN Run /\ report'.asOf.previous = report.asOf.previous
    BY <1>1, <2>1, ReportIs DEF Shaped
  <2>4. QED
    BY <2>1, <2>2, <2>3
<1>3. ASSUME Live', ~Seen("evictions")'
      PROVE  report'.evictions = NoReport.evictions /\ report'.asOf.evictions = {}
  <2>1. ~ReadEvictions
    <3>1. ReadEvictions => Taken("evictions")
      BY <1>2, <1>3
    <3>2. Taken("evictions") => exit # "idle" /\ ~TurnPage
      BY DEF Taken, At, TurnPage
    <3>3. QED
      BY <1>1, <1>3, <3>1, <3>2, Moves
  <2>2. report'.evictions = report.evictions /\ report'.asOf.evictions = report.asOf.evictions
    BY <1>1, <2>1, Frames
  <2>3. CASE exit = "idle"
    BY <2>2, <2>3, ReportIs DEF TypeInv
  <2>4. CASE Live /\ ~Seen("evictions")
    BY <2>2, <2>4 DEF EvictionsInv
  <2>5. QED
    BY <1>1, <1>3, <2>3, <2>4, Moves
<1>4. ASSUME Seen("evictions")'
      PROVE  /\ SawEnough(report.asOf.evictions)'
             /\ report'.evictions = AnalyzeEvictions(AsRead("evictions")', ReportOn')
  <2>1. CASE Taken("evictions")
    <3>1. ReadEvictions
      BY <2>1, TakeIs DEF Taken
    <3>2. QED
      BY <1>1, <1>2, <3>1, AnalysisReads
  <2>2. CASE Seen("evictions")
    <3>1. ~ReadEvictions
      BY <1>1, <1>2, <2>2, AtIs
    <3>2. report'.evictions = report.evictions /\ report'.asOf.evictions = report.asOf.evictions
      BY <1>1, <3>1, Frames
    <3>3. SawEnough(report.asOf.evictions) /\ report.evictions = AnalyzeEvictions(AsRead("evictions"), ReportOn)
      BY <2>2 DEF EvictionsInv
    <3>4. AsRead("evictions")' = AsRead("evictions") /\ SawEnough(report.asOf.evictions)'
      BY <1>1, <2>2, <3>2, <3>3, ReadingLasts
    <3>5. QED
      BY <1>1, <2>2, <3>2, <3>3, <3>4, AnalysisLasts
  <2>3. ~NothingListed
    <3>1. Planned("evictions")
      BY <1>1, <1>4, Frames, PlannedStays DEF Seen
    <3>2. QED
      BY <1>1, <3>1, AnalysesAre DEF NothingListed
  <2>4. QED
    BY <1>1, <1>4, <2>1, <2>2, <2>3, Moves
<1>5. QED
  BY <1>3, <1>4 DEF EvictionsInv


-----------------------------------------------------------------------------
(* The turns a check counted, and the turn an explanation is of.             *)
LEMMA CountStays ==
  ASSUME TypeInv, BlockInv, ViewInv, CountInv, Recording \/ Commands \/ UNCHANGED vars
  PROVE  CountInv'
<1>1. Shaped /\ "count" \in Steps
  BY StepsAre DEF TypeInv, Shaped
<1> SUFFICES ASSUME Seen("count")'
             PROVE  report'.turns # {} /\ report'.turns \subseteq DOMAIN Run'
  BY DEF CountInv
<1>2. ask.tool = "check" /\ Planned("choose") /\ Place("choose") < Place("count")
  <2>1. Planned("count")
    BY <1>1, Frames, PlannedStays DEF Seen
  <2>2. QED
    BY <2>1, PlaceIs DEF Planned
<1>3. CASE Taken("count")
  <2>1. At("count") /\ CountTurns /\ exit' = "running"
    BY <1>3, TakeIs DEF Taken
  <2>2. /\ report' = [report EXCEPT !.turns = DOMAIN Run] /\ runs' = runs /\ view' = view
        /\ Scope(Run, Agent) # {}
    BY <2>1 DEF CountTurns, Fail
  <2>3. report'.turns = DOMAIN Run /\ Run' = Run
    BY <1>1, <2>2, ReportIs DEF Shaped, Run
  <2>4. QED
    BY <2>2, <2>3 DEF Scope
<1>4. CASE Seen("count")
  <2>1. ~CountTurns /\ ~FindTurn /\ ~ReadPairs /\ ~FindBlock
    <3>1. ~Planned("target") /\ ~Planned("pairs") /\ ~Planned("find")
      BY <1>2 DEF Planned
    <3>2. ~At("target") /\ ~At("pairs") /\ ~At("find") /\ ~At("count")
      BY <1>4, <3>1, AtIs, StepsAre
    <3>3. QED
      BY <3>2 DEF CountTurns, FindTurn, ReadPairs, FindBlock
  <2>2. report'.turns = report.turns
    BY <1>1, <2>1, Frames
  <2>3. Seen("choose")
    BY <1>1, <1>2, <1>4, SeenDown, StepsAre
  <2>4. DOMAIN Run \subseteq DOMAIN Run'
    BY <2>3, RunGrows DEF IsPartOf
  <2>5. QED
    BY <1>4, <2>2, <2>4 DEF CountInv
<1>5. QED
  BY <1>1, <1>2, <1>3, <1>4, Moves DEF NothingListed

LEMMA TargetStays ==
  ASSUME TypeInv, BlockInv, ViewInv, TargetInv, Recording \/ Commands \/ UNCHANGED vars
  PROVE  TargetInv'
<1>1. Shaped /\ "target" \in Steps /\ "previous" \in Steps
  BY StepsAre DEF TypeInv, Shaped
<1>2. ask' = ask /\ Agent' = Agent /\ \A step : Planned(step)' <=> Planned(step)
  BY <1>1, Frames, PlannedStays DEF Agent
<1>3. /\ Planned("previous") <=> Planned("target")
      /\ Planned("target") => ask.tool = "explain" /\ Planned("choose")
      /\ Place("choose") < Place("target") /\ Place("target") < Place("previous")
  BY PlaceIs DEF Planned
<1>4. ASSUME ~Planned("target")' PROVE report'.target = 0
  <2>1. ~FindTurn
    BY <1>1, <1>2, <1>4, AtIs DEF FindTurn
  <2>2. QED
    BY <1>1, <1>2, <1>4, <2>1, Frames DEF TargetInv
<1>5. ASSUME Seen("target")'
      PROVE  /\ report'.target \in Scope(Run', Agent')
             /\ Seen("target") => report'.target = report.target /\ Seen("choose")
  <2>1. CASE Taken("target")
    <3>1. At("target") /\ FindTurn /\ exit' = "running"
      BY <2>1, TakeIs DEF Taken
    <3>2. /\ report' = [report EXCEPT !.target = ask.turns[1], !.turns = DOMAIN Run]
          /\ runs' = runs /\ view' = view /\ ask.turns[1] \in Scope(Run, Agent)
      BY <3>1 DEF FindTurn, Fail
    <3>3. report'.target = ask.turns[1] /\ Run' = Run
      BY <1>1, <3>2, ReportIs DEF Shaped, Run
    <3>4. ~Seen("target")
      BY <1>1, <3>1, AtIs
    <3>5. QED
      BY <1>2, <3>2, <3>3, <3>4
  <2>2. CASE Seen("target")
    <3>1. ~FindTurn
      BY <1>1, <2>2, AtIs DEF FindTurn
    <3>2. report'.target = report.target
      BY <1>1, <3>1, Frames
    <3>3. Seen("choose")
      BY <1>1, <1>3, <2>2, SeenDown, StepsAre DEF Seen
    <3>4. \A k \in DOMAIN Run : k \in DOMAIN Run' /\ Run'[k] = Run[k]
      BY <3>3, RunGrows DEF IsPartOf
    <3>5. report.target \in Scope(Run, Agent)
      BY <2>2 DEF TargetInv
    <3>6. QED
      BY <1>2, <3>2, <3>3, <3>4, <3>5 DEF Scope
  <2>3. ~NothingListed
    BY <1>2, <1>3, <1>5 DEF NothingListed, Seen
  <2>4. QED
    BY <1>1, <1>5, <2>1, <2>2, <2>3, Moves
<1>6. ASSUME FindPrevious
      PROVE  /\ At("previous") /\ Taken("previous") /\ runs' = runs /\ view' = view
             /\ report'.target = report.target /\ report'.asOf.previous = DOMAIN Run
             /\ LET earlier == Earlier(Run, report.target) IN
                report'.previous = IF earlier = {} THEN report.previous ELSE Max(earlier)
  <2>1. At("previous") /\ Done /\ runs' = runs /\ view' = view
    BY <1>6 DEF FindPrevious
  <2>2. Taken("previous")
    BY <1>6, <2>1, TakeIs DEF Taken, Done, At
  <2> DEFINE earlier == Earlier(Run, report.target)
             diffs == {TurnDiff(Run, <<Max(earlier), report.target>>)}
             seen == [report EXCEPT !.asOf.previous = DOMAIN Run]
  <2>3. report' = IF earlier = {} THEN seen
                  ELSE [seen EXCEPT !.previous = Max(earlier), !.diffs = diffs]
    BY <1>6 DEF FindPrevious
  <2> HIDE DEF earlier, diffs
  <2>4. /\ report'.target = report.target /\ report'.asOf.previous = DOMAIN Run
        /\ report'.previous = IF earlier = {} THEN report.previous ELSE Max(earlier)
    BY <1>1, <2>3, ReportIs DEF Shaped
  <2>5. QED
    BY <2>1, <2>2, <2>4 DEF earlier
<1>7. ASSUME Live', ~Seen("previous")' PROVE report'.previous = 0
  <2>1. ~FindPrevious
    <3>1. Taken("previous") => exit # "idle" /\ ~TurnPage
      BY DEF Taken, At, TurnPage
    <3>2. QED
      BY <1>1, <1>6, <1>7, <3>1, Moves
  <2>2. report'.previous = report.previous
    BY <1>1, <2>1, Frames
  <2>3. CASE exit = "idle"
    BY <2>2, <2>3, ReportIs DEF TypeInv
  <2>4. CASE Live /\ ~Seen("previous")
    BY <2>2, <2>4 DEF TargetInv
  <2>5. QED
    BY <1>1, <1>7, <2>3, <2>4, Moves
<1> DEFINE Before(run, target) ==
             LET earlier == Earlier(run, target) IN IF earlier = {} THEN 0 ELSE Max(earlier)
<1>8. ASSUME Seen("previous")'
      PROVE  /\ report'.asOf.previous \subseteq DOMAIN Run'
             /\ report'.target \in report'.asOf.previous
             /\ report'.previous = Before(AsRead("previous")', report'.target)
  <2>1. CASE Taken("previous")
    <3>1. FindPrevious /\ At("previous")
      BY <2>1, TakeIs DEF Taken
    <3>2. Live /\ ~Seen("previous") /\ Seen("target") /\ Seen("choose")
      <4>1. Live /\ Planned("previous") /\ ~Seen("previous")
        BY <1>1, <3>1, AtIs
      <4>2. Seen("target")
        BY <1>1, <1>3, <3>1, <4>1, AtIs
      <4>3. QED
        BY <1>1, <1>3, <4>1, <4>2, SeenDown, StepsAre
    <3>3. Run' = Run
      BY <1>6, <3>1 DEF Run
    <3>4. AsRead("previous")' = Run
      BY <1>6, <3>1, <3>2, <3>3, RunIs, RunHas DEF AsRead
    <3>5. report.target \in DOMAIN Run
      BY <3>2 DEF TargetInv, Scope
    <3>6. report'.previous = Before(Run, report.target)
      BY <1>6, <3>1, <3>2 DEF TargetInv
    <3> HIDE DEF Before
    <3>7. QED
      BY <1>6, <3>1, <3>3, <3>4, <3>5, <3>6
  <2>2. CASE Seen("previous")
    <3>1. ~FindPrevious
      BY <1>1, <1>6, <2>2, AtIs
    <3>2. report'.previous = report.previous /\ report'.asOf.previous = report.asOf.previous
      BY <1>1, <3>1, Frames
    <3>3. Seen("target") /\ Seen("choose")
      <4>1. Planned("target") /\ Planned("choose")
        BY <1>3, <2>2 DEF Seen
      <4>2. Seen("target")
        BY <1>1, <1>3, <2>2, <4>1, SeenDown
      <4>3. QED
        BY <1>1, <1>3, <4>1, <4>2, SeenDown, StepsAre
    <3>4. report'.target = report.target
      <4>1. ~FindTurn
        BY <1>1, <3>3, AtIs DEF FindTurn
      <4>2. QED
        BY <1>1, <4>1, Frames
    <3>5. /\ report.asOf.previous \subseteq DOMAIN Run
          /\ report.target \in report.asOf.previous
          /\ report.previous = Before(AsRead("previous"), report.target)
      BY <2>2 DEF TargetInv
    <3>6. /\ Restrict(Run', report.asOf.previous) = Restrict(Run, report.asOf.previous)
          /\ report.asOf.previous \subseteq DOMAIN Run'
      <4> DEFINE grown == Run'
      <4>1. IsPartOf(Run, grown)
        BY <3>3, RunGrows
      <4> HIDE DEF grown
      <4>2. /\ Restrict(grown, report.asOf.previous) = Restrict(Run, report.asOf.previous)
            /\ report.asOf.previous \subseteq DOMAIN grown
        BY <3>5, <4>1, PartLasts
      <4>3. QED
        BY <4>2 DEF grown
    <3>7. AsRead("previous")' = AsRead("previous")
      BY <3>2, <3>6 DEF AsRead
    <3> HIDE DEF Before
    <3>8. QED
      BY <3>2, <3>4, <3>5, <3>6, <3>7
  <2>3. ~NothingListed
    BY <1>2, <1>3, <1>8 DEF NothingListed, Seen
  <2>4. QED
    BY <1>1, <1>8, <2>1, <2>2, <2>3, Moves
<1>9. QED
  BY <1>4, <1>5, <1>7, <1>8 DEF TargetInv


-----------------------------------------------------------------------------
(* Handles: as long as it takes for no two sessions to share one.            *)
LEMMA LesserIs ==
  ASSUME NEW a \in Nat, NEW b \in Nat
  PROVE  Min({a, b}) = IF a <= b THEN a ELSE b
<1> DEFINE S == {a, b}
<1>1. S \in SUBSET Nat /\ S # {}
  OBVIOUS
<1> HIDE DEF S
<1>2. Min(S) \in S /\ \A y \in S : Min(S) <= y
  BY <1>1, MinIs
<1>3. QED
  BY <1>2 DEF S

LEMMA GreaterIs ==
  ASSUME NEW a \in Nat, NEW b \in Nat
  PROVE  Max({a, b}) = IF a >= b THEN a ELSE b
<1> DEFINE S == {a, b}
<1>1. S \in SUBSET (0..(a + b)) /\ S # {} /\ a + b \in Nat
  OBVIOUS
<1> HIDE DEF S
<1>2. Max(S) \in S /\ \A y \in S : y <= Max(S)
  BY <1>1, MaxIs
<1>3. QED
  BY <1>2 DEF S

LEMMA ShortenedIs ==
  ASSUME NEW s \in DOMAIN Recordable, NEW n \in Nat, n >= 1
  PROVE  LET kept == IF n <= Len(Ids[1]) THEN n ELSE Len(Ids[1]) IN
         /\ Shortened(Ids[s], n) = SubSeq(Ids[s], 1, kept)
         /\ Len(Shortened(Ids[s], n)) = kept
         /\ Shortened(Ids[s], n) # <<>>
         /\ n >= Len(Ids[1]) => Shortened(Ids[s], n) = Ids[s]
         /\ IsPrefix(Shortened(Ids[s], n), Ids[s])
<1> DEFINE size == Len(Ids[1])
           kept == IF n <= size THEN n ELSE size
           id == Ids[s]
<1>1. id \in Seq(0..15) /\ id # <<>> /\ Len(id) = size
  BY InspectAssumption
<1>2. size \in Nat /\ size >= 1
  <2> HIDE DEF id, size
  <2>1. QED
    BY <1>1
<1> HIDE DEF id, size
<1>3. Min({n, size}) = kept /\ kept \in 1..size
  BY <1>2, LesserIs
<1>4. Shortened(id, n) = SubSeq(id, 1, kept)
  BY <1>1, <1>3 DEF Shortened
<1>5. /\ SubSeq(id, 1, kept) \in Seq(0..15)
      /\ Len(SubSeq(id, 1, kept)) = kept
      /\ \A i \in 1..kept : SubSeq(id, 1, kept)[i] = id[i]
  <2>1. kept \in 0..Len(id)
    BY <1>1, <1>3
  <2> HIDE DEF kept
  <2>2. QED
    BY <1>1, <2>1, StartOf
<1>6. Shortened(id, n) # <<>>
  <2> DEFINE short == SubSeq(id, 1, kept)
  <2>1. Len(short) >= 1 /\ Shortened(id, n) = short
    BY <1>3, <1>4, <1>5
  <2> HIDE DEF short
  <2>2. short # <<>>
    BY <2>1
  <2>3. QED
    BY <2>1, <2>2
<1>7. n >= size => SubSeq(id, 1, kept) = id
  <2>1. SubSeq(id, 1, Len(id)) = id
    BY <1>1
  <2>2. n >= size => kept = size
    BY <1>2
  <2>3. QED
    BY <1>1, <2>1, <2>2
<1>8. IsPrefix(SubSeq(id, 1, kept), id)
  <2>1. kept <= Len(id)
    BY <1>1, <1>3
  <2> DEFINE short == SubSeq(id, 1, kept)
  <2>2. /\ short \in Seq(0..15) /\ Len(short) <= Len(id)
        /\ \A i \in 1..Len(short) : short[i] = id[i]
    BY <1>5, <2>1
  <2> HIDE DEF short, kept
  <2>3. IsPrefix(short, id)
    BY <1>1, <2>2, PrefixIs
  <2>4. QED
    BY <2>3 DEF short
<1>9. QED
  BY <1>4, <1>5, <1>6, <1>7, <1>8 DEF id, size

LEMMA PrefixesDiffer ==
  ASSUME NEW m \in Nat, m >= 1, m <= Len(Recordable)
  PROVE  LET n == UniquePrefixLen(1..m) IN
         /\ n \in Nat /\ n >= 1
         /\ \A r, s \in 1..m : Shortened(Ids[r], n) = Shortened(Ids[s], n) => r = s
<1> DEFINE sessions == 1..m
           size == Len(Ids[1])
           Shorts(n) == {Shortened(Ids[s], n) : s \in sessions}
           enough == {n \in Min({ShortId, size})..(size - 1) :
                        Cardinality(Shorts(n)) = Cardinality(sessions)}
<1>1. sessions \subseteq DOMAIN Recordable /\ 1 \in sessions
  BY InspectAssumption
<1>2. /\ \A s \in sessions : Ids[s] \in Seq(0..15) /\ Ids[s] # <<>> /\ Len(Ids[s]) = size
      /\ ShortId \in Nat /\ ShortId >= 1
  BY <1>1, InspectAssumption
<1>3. size \in Nat /\ size >= 1
  <2>1. \A s \in sessions : Len(Ids[s]) \in Nat /\ Len(Ids[s]) >= 1
    <3>1. ASSUME NEW id \in Seq(0..15), id # <<>> PROVE Len(id) \in Nat /\ Len(id) >= 1
      BY <3>1
    <3>2. QED
      BY <1>2, <3>1
  <2>2. QED
    BY <1>1, <1>2, <2>1
<1>4. Max({Len(Ids[s]) : s \in sessions} \cup {0}) = size
  <2>1. {Len(Ids[s]) : s \in sessions} \cup {0} = {size, 0}
    BY <1>1, <1>2
  <2> HIDE DEF size
  <2>2. Max({size, 0}) = size
    BY <1>3, GreaterIs
  <2>3. QED
    BY <2>1, <2>2
<1>5. UniquePrefixLen(sessions) = IF enough # {} THEN Min(enough) ELSE Max({size, ShortId})
  BY <1>4 DEF UniquePrefixLen
<1>6. Min({ShortId, size}) \in Nat /\ Min({ShortId, size}) >= 1
  <2> HIDE DEF size
  <2>1. QED
    BY <1>2, <1>3, LesserIs
<1> DEFINE n == UniquePrefixLen(sessions)
<1>7. CASE enough # {}
  <2>1. enough \in SUBSET Nat /\ enough # {}
    <3> DEFINE few == Min({ShortId, size})
    <3>1. few \in Nat
      BY <1>6
    <3> HIDE DEF few, Shorts, size, sessions
    <3>2. few..(size - 1) \subseteq Nat
      BY <1>3, <3>1
    <3>3. enough \subseteq few..(size - 1)
      BY DEF few
    <3> HIDE DEF enough
    <3>4. QED
      BY <1>7, <3>2, <3>3
  <2>2. Min(enough) \in enough
    <3> HIDE DEF enough
    <3>1. QED
      BY <2>1, MinIs
  <2>3. /\ n \in Min({ShortId, size})..(size - 1)
        /\ Cardinality(Shorts(n)) = Cardinality(sessions)
    <3> HIDE DEF Shorts
    <3>1. n = Min(enough)
      BY <1>5, <1>7
    <3>2. QED
      BY <2>2, <3>1
  <2>4. n \in Nat /\ n >= 1
    BY <1>3, <1>6, <2>3
  <2>5. IsFiniteSet(sessions)
    BY FS_Interval
  <2> HIDE DEF n, sessions
  <2> DEFINE f == [s \in sessions |-> Shortened(Ids[s], n)]
             T == Shorts(n)
  <2>6. f \in Surjection(sessions, T)
    BY DEF Surjection
  <2> HIDE DEF T
  <2>7. f \in Injection(sessions, T)
    <3> HIDE DEF f
    <3>1. Cardinality(sessions) = Cardinality(T)
      BY <2>3 DEF T
    <3>2. QED
      BY <2>5, <2>6, <3>1, FS_SurjSameCardinalityImpliesInj
  <2>8. \A r, s \in sessions : Shortened(Ids[r], n) = Shortened(Ids[s], n) => r = s
    BY <2>7 DEF Injection, IsInjective
  <2>9. QED
    BY <2>4, <2>8 DEF n, sessions
<1>8. CASE enough = {}
  <2>1. n = Max({size, ShortId})
    BY <1>5, <1>8
  <2>2. n \in Nat /\ n >= 1 /\ n >= size
    <3> HIDE DEF n, size
    <3>1. QED
      BY <1>2, <1>3, <2>1, GreaterIs
  <2>3. \A s \in sessions : Shortened(Ids[s], n) = Ids[s]
    <3> HIDE DEF n, sessions
    <3>1. QED
      BY <1>1, <2>2, ShortenedIs
  <2>4. \A r, s \in sessions : Ids[r] = Ids[s] => r = s
    BY <1>1, InspectAssumption
  <2>5. QED
    BY <2>2, <2>3, <2>4
<1>9. QED
  BY <1>7, <1>8

(* What a handle has of a session's id. *)
Part(sessions, s, k) ==
  IF FileOf[s] = None \/ \E r \in sessions \ {s} : FileOf[r] = FileOf[s]
  THEN Shortened(Ids[s], k) ELSE <<>>

LEMMA LabelIs ==
  ASSUME NEW sessions, NEW s
  PROVE  /\ RunLabel(sessions, s).file = FileOf[s]
         /\ RunLabel(sessions, s).prefix = Part(sessions, s, UniquePrefixLen(sessions))
<1> DEFINE part == Part(sessions, s, UniquePrefixLen(sessions))
<1>1. RunLabel(sessions, s) = [file |-> FileOf[s], prefix |-> part]
  BY DEF RunLabel, Part
<1> HIDE DEF part
<1>2. RunLabel(sessions, s).file = FileOf[s] /\ RunLabel(sessions, s).prefix = part
  BY <1>1
<1>3. QED
  BY <1>2 DEF part

(* A handle names the session it was given for, or none, however many have   *)
(* been opened since.                                                        *)
LEMMA HandleNames ==
  ASSUME NEW n \in Nat, NEW m \in Nat, n <= m, m <= Len(Recordable), NEW h \in 1..n
  PROVE  /\ \A s : MatchRun(1..m, RunLabel(1..n, h)) = {s} => s = h
         /\ MatchRun(1..n, RunLabel(1..n, h)) = {h}
<1> DEFINE label == RunLabel(1..n, h)
           p == UniquePrefixLen(1..n)
           q == UniquePrefixLen(1..m)
<1>1. /\ m >= 1 /\ n >= 1 /\ n <= Len(Recordable) /\ h \in 1..m /\ 1..n \subseteq 1..m
      /\ 1..m \subseteq DOMAIN Recordable
  BY InspectAssumption
<1>2. /\ p \in Nat /\ p >= 1
      /\ \A r, s \in 1..n : Shortened(Ids[r], p) = Shortened(Ids[s], p) => r = s
  BY <1>1, PrefixesDiffer
<1>3. /\ q \in Nat /\ q >= 1
      /\ \A r, s \in 1..m : Shortened(Ids[r], q) = Shortened(Ids[s], q) => r = s
  BY <1>1, PrefixesDiffer
<1> HIDE DEF p, q
<1> DEFINE Named(sessions, s) == FileOf[s] = None \/ \E r \in sessions \ {s} : FileOf[r] = FileOf[s]
<1>5. \A s : RunLabel(1..m, s).file = FileOf[s] /\ RunLabel(1..m, s).prefix = Part(1..m, s, q)
  BY LabelIs DEF q
<1>6. /\ label.file = FileOf[h] /\ label.prefix = Part(1..n, h, p)
      /\ \A s : RunLabel(1..n, s).file = FileOf[s] /\ RunLabel(1..n, s).prefix = Part(1..n, s, p)
  BY LabelIs DEF p
<1>7. \A s \in 1..m : Shortened(Ids[s], q) # <<>> /\ Shortened(Ids[s], p) # <<>>
  BY <1>1, <1>2, <1>3, ShortenedIs
<1>8. ASSUME NEW s \in 1..m, RunLabel(1..m, s) = label PROVE s = h
  <2>1. FileOf[s] = FileOf[h] /\ Part(1..m, s, q) = label.prefix
    BY <1>5, <1>6, <1>8
  <2>2. CASE Named(1..m, s)
    <3>1. Shortened(Ids[s], q) = Shortened(Ids[h], p)
      BY <1>6, <1>7, <2>1, <2>2 DEF Part
    <3> DEFINE size == Len(Ids[1])
               ofP == IF p <= size THEN p ELSE size
               ofQ == IF q <= size THEN q ELSE size
    <3>2. s \in DOMAIN Recordable /\ h \in DOMAIN Recordable
      BY <1>1
    <3>3. Len(Shortened(Ids[s], q)) = ofQ /\ Len(Shortened(Ids[h], p)) = ofP
      BY <1>2, <1>3, <3>2, ShortenedIs
    <3>4. ofP = ofQ
      BY <3>1, <3>3
    <3>5. Shortened(Ids[h], p) = SubSeq(Ids[h], 1, ofP) /\ Shortened(Ids[h], q) = SubSeq(Ids[h], 1, ofQ)
      BY <1>2, <1>3, <3>2, ShortenedIs
    <3>6. Shortened(Ids[h], q) = Shortened(Ids[s], q)
      BY <3>1, <3>4, <3>5
    <3>7. QED
      BY <1>1, <1>3, <3>6
  <2>3. CASE ~Named(1..m, s)
    BY <1>1, <1>6, <2>1, <2>3 DEF Part
  <2>4. QED
    BY <2>2, <2>3
<1> DEFINE exact == {s \in 1..m : RunLabel(1..m, s) = label}
           rest == {s \in 1..m : \/ label = [file |-> FileOf[s], prefix |-> <<>>]
                                 \/ label.file = None /\ IsPrefix(label.prefix, Ids[s])}
           matched == MatchRun(1..m, label)
<1>9. matched = IF Cardinality(exact) = 1 THEN exact ELSE exact \cup rest
  BY DEF MatchRun
<1>10. \A s \in rest : h \in rest
  <2> SUFFICES ASSUME NEW s \in rest PROVE h \in rest
    OBVIOUS
  <2>1. CASE label = [file |-> FileOf[s], prefix |-> <<>>]
    <3>1. FileOf[s] = FileOf[h]
      <4> HIDE DEF label
      <4>1. label.file = FileOf[s]
        BY <2>1
      <4>2. QED
        BY <1>6, <4>1
    <3>2. QED
      BY <1>1, <2>1, <3>1
  <2>2. CASE label.file = None /\ IsPrefix(label.prefix, Ids[s])
    <3>1. Named(1..n, h) /\ label.prefix = Shortened(Ids[h], p)
      BY <1>6, <2>2 DEF Part
    <3>2. h \in DOMAIN Recordable
      BY <1>1
    <3>3. IsPrefix(label.prefix, Ids[h])
      BY <1>2, <3>1, <3>2, ShortenedIs
    <3>4. QED
      BY <1>1, <2>2, <3>3
  <2>3. QED
    BY <2>1, <2>2
<1>11. \A s \in exact : s = h
  BY <1>8
<1> HIDE DEF exact, rest, label, matched
<1>12. \A s : matched = {s} => s = h
  BY <1>9, <1>10, <1>11
<1>13. MatchRun(1..n, label) = {h}
  <2> DEFINE own == {s \in 1..n : RunLabel(1..n, s) = label}
  <2>1. h \in own
    BY DEF label
  <2>2. ASSUME NEW s \in own PROVE s = h
    <3>1. s \in 1..n /\ FileOf[s] = FileOf[h] /\ Part(1..n, s, p) = label.prefix
      BY <1>6, <2>2
    <3>2. CASE Named(1..n, s)
      BY <1>1, <1>2, <1>6, <1>7, <3>1, <3>2 DEF Part
    <3>3. CASE ~Named(1..n, s)
      BY <3>1, <3>3
    <3>4. QED
      BY <3>2, <3>3
  <2>3. own = {h}
    BY <2>1, <2>2
  <2>4. Cardinality(own) = 1
    BY <2>3, FS_Singleton
  <2>5. MatchRun(1..n, label) = IF Cardinality(own) = 1 THEN own
                                ELSE own \cup {s \in 1..n :
                                       \/ label = [file |-> FileOf[s], prefix |-> <<>>]
                                       \/ label.file = None /\ IsPrefix(label.prefix, Ids[s])}
    BY DEF MatchRun
  <2>6. QED
    BY <2>3, <2>4, <2>5
<1>14. QED
  BY <1>12, <1>13 DEF matched, label


LEMMA HandlesStay ==
  ASSUME TypeInv, BlockInv, HandlesInv, Recording \/ Commands \/ UNCHANGED vars
  PROVE  HandlesInv'
<1>1. Shaped /\ Stored /\ "runs" \in Steps
  BY StepsAre DEF TypeInv, Shaped, Stored
<1>2. ask' = ask /\ \A step : Planned(step)' <=> Planned(step)
  BY <1>1, Frames, PlannedStays
<1>3. /\ Len(runs) \in Nat /\ Len(runs') \in Nat /\ Len(runs) <= Len(runs')
      /\ DOMAIN runs = 1..Len(runs)
  BY <1>1, StoreGrows, RunsAre DEF Grows, Stored
<1>4. ASSUME ListRuns
      PROVE  /\ DOMAIN report'.handles = 1..Len(runs)
             /\ \A s \in 1..Len(runs) : report'.handles[s] = RunLabel(1..Len(runs), s)
             /\ ask.handle \in DOMAIN runs \/ exit' # "running"
             /\ At("runs")
  <2> DEFINE handles == [s \in DOMAIN runs |-> RunLabel(DOMAIN runs, s)]
  <2>1. report' = [report EXCEPT !.handles = handles]
    BY <1>4 DEF ListRuns
  <2> HIDE DEF handles
  <2>2. report'.handles = handles
    BY <1>1, <2>1, ReportIs DEF Shaped
  <2>3. /\ At("runs") /\ (ask.handle \in DOMAIN runs \/ exit' # "running")
    BY <1>4 DEF ListRuns, Fail
  <2>4. QED
    BY <1>3, <2>2, <2>3 DEF handles
<1>5. \E n \in 0..Len(runs') :
        /\ DOMAIN report'.handles = 1..n
        /\ \A s \in 1..n : report'.handles[s] = RunLabel(1..n, s)
  <2>1. CASE ListRuns
    <3>1. Len(runs) \in 0..Len(runs')
      BY <1>3
    <3>2. QED
      BY <1>4, <2>1, <3>1
  <2>2. CASE report'.handles = report.handles
    <3>1. PICK n \in 0..Len(runs) : /\ DOMAIN report.handles = 1..n
                                    /\ \A s \in 1..n : report.handles[s] = RunLabel(1..n, s)
      BY DEF HandlesInv
    <3>2. n \in 0..Len(runs')
      BY <1>3
    <3>3. QED
      BY <2>2, <3>1, <3>2
  <2>3. QED
    BY <1>1, <2>1, <2>2, Frames
<1>6. ASSUME Seen("runs")' PROVE ask'.handle \in DOMAIN report'.handles
  <2>1. CASE Taken("runs")
    <3>1. ListRuns /\ exit' = "running"
      BY <2>1, TakeIs DEF Taken
    <3>2. QED
      BY <1>2, <1>3, <1>4, <3>1
  <2>2. CASE Seen("runs")
    <3>1. ~ListRuns
      BY <1>1, <2>2, AtIs DEF ListRuns
    <3>2. report'.handles = report.handles
      BY <1>1, <3>1, Frames
    <3>3. QED
      BY <1>2, <2>2, <3>2 DEF HandlesInv
  <2>3. CASE NothingListed
    <3>1. Planned("runs") /\ At("bind")
      BY <1>2, <1>6, <2>3 DEF Seen, NothingListed, Bind
    <3>2. Seen("runs")
      BY <3>1, AtIs, StepsAre, PlaceIs
    <3>3. QED
      BY <2>2, <3>2
  <2>4. QED
    BY <1>1, <1>6, <2>1, <2>2, <2>3, Moves
<1>7. QED
  BY <1>2, <1>5, <1>6 DEF HandlesInv


-----------------------------------------------------------------------------
(* What is chosen.                                                           *)
LEMMA OnlyOne ==
  ASSUME NEW n \in Nat, NEW S \in SUBSET (1..n), Cardinality(S) = 1
  PROVE  S = {Max(S)} /\ Max(S) \in 1..n
<1>1. IsFiniteSet(S)
  <2>1. IsFiniteSet(1..n)
    BY FS_Interval
  <2>2. QED
    BY <2>1, FS_Subset
<1>2. PICK x : S = {x}
  BY <1>1, FS_Singleton
<1>3. S \in SUBSET (0..n) /\ S # {}
  BY <1>2
<1>4. Max(S) \in S
  BY <1>3, MaxIs
<1>5. QED
  BY <1>2, <1>4

(* The sessions that were opened first. *)
Opened(n) == 1..n

LEMMA HandleFinds ==
  ASSUME NEW n \in Nat, NEW m \in Nat, n <= m, m <= Len(Recordable)
  PROVE  \A h \in Opened(n) : \A s : MatchRun(Opened(m), RunLabel(Opened(n), h)) = {s} => s = h
<1> SUFFICES ASSUME NEW h \in 1..n
             PROVE  \A s : MatchRun(1..m, RunLabel(1..n, h)) = {s} => s = h
  BY DEF Opened
<1>1. QED
  BY HandleNames

LEMMA MatchIsIn ==
  ASSUME NEW sessions, NEW handle
  PROVE  MatchRun(sessions, handle) \subseteq sessions
BY DEF MatchRun

LEMMA Chooses ==
  ASSUME TypeInv, ViewInv, HandlesInv, Choose, exit' = "running"
  PROVE  /\ ViewFits'
         /\ \A i \in DOMAIN ask.sessions : ask.sessions[i].name \cap DOMAIN runs \subseteq {view'[i]}
<1> DEFINE m == Len(runs)
<1>1. /\ At("choose") /\ UNCHANGED <<runs, ask, bound, report>>
      /\ \A c \in ToSet(Candidates) : Cardinality(c) = 1
      /\ view' = [i \in DOMAIN Candidates |-> Max(Candidates[i])]
      /\ ask.tool = "export" => \A a \in ToSet(ask.agents) :
           a.name \in UNION {AgentNames(runs[s]) : s \in DOMAIN runs}
  BY DEF Choose, Fail, Refusal
<1>2. /\ Stored /\ ask \in Asks /\ m \in Nat /\ DOMAIN runs = 1..m
      /\ bound \in 0..m
  BY RunsAre DEF TypeInv, Stored
<1>3. /\ exit = "running" /\ Planned("choose") /\ Seen("bind")
      /\ ask.handle # 0 => Seen("runs")
  <2>1. exit = "running" /\ Planned("choose")
    BY <1>1, AtIs, StepsAre
  <2>2. Seen("bind")
    BY <1>1, AtIs, StepsAre, PlaceIs DEF Planned
  <2>3. ask.handle # 0 => Seen("runs")
    BY <1>1, AtIs, StepsAre, PlaceIs DEF Planned
  <2>4. QED
    BY <2>1, <2>2, <2>3
<1>4. bound > 0
  BY <1>3 DEF ViewInv
<1>5. /\ ask.sessions \in Seq([name : SUBSET DOMAIN Recordable, turn : Nat \cup {None}])
      /\ ask.handle # 0 => ask.sessions = <<>>
      /\ Len(ask.agents) \in Nat /\ DOMAIN ask.agents = 1..Len(ask.agents)
      /\ ask.agents = <<>> <=> Len(ask.agents) = 0
  BY <1>2, AskIs DEF WellFormed
<1>6. \A i \in DOMAIN Candidates : Cardinality(Candidates[i]) = 1
  BY <1>1 DEF ToSet
<1>7. ask.tool = "export" /\ Agent # None => \E s \in DOMAIN runs : Agent \in AgentNames(runs[s])
  <2> SUFFICES ASSUME ask.tool = "export", Agent # None
               PROVE  \E s \in DOMAIN runs : Agent \in AgentNames(runs[s])
    OBVIOUS
  <2>1. ask.agents # <<>> /\ Agent = ask.agents[1].name
    BY DEF Agent
  <2>2. 1 \in DOMAIN ask.agents
    BY <1>5, <2>1
  <2>3. ask.agents[1] \in ToSet(ask.agents)
    BY <2>2 DEF ToSet
  <2>4. QED
    BY <1>1, <2>1, <2>3
<1> DEFINE Fits == /\ DOMAIN view' = IF ask.sessions = <<>> THEN {1} ELSE DOMAIN ask.sessions
                   /\ \A i \in DOMAIN view' : view'[i] \in DOMAIN runs
                   /\ \A i \in DOMAIN ask.sessions :
                        /\ view'[i] \in ask.sessions[i].name
                        /\ ask.sessions[i].name \cap 1..bound \subseteq {view'[i]}
                        /\ ask.sessions[i].name \cap DOMAIN runs \subseteq {view'[i]}
                   /\ ask.handle # 0 => view'[1] = ask.handle
                   /\ ask.sessions = <<>> /\ ask.handle = 0 =>
                        view'[1] = bound /\ (bound = 1 \/ ask.tool = "export")
<1>8. ASSUME ask.handle # 0 PROVE Fits
  <2> DEFINE handle == report.handles[ask.handle]
             S == MatchRun(Opened(m), handle)
  <2>1. Candidates = <<S>> /\ ask.sessions = <<>>
    BY <1>2, <1>5, <1>8 DEF Candidates, Opened
  <2>2. Cardinality(S) = 1 /\ S \in SUBSET (1..m)
    <3> HIDE DEF S
    <3>1. Cardinality(S) = 1
      BY <1>6, <2>1
    <3>2. S \in SUBSET (1..m)
      BY MatchIsIn DEF S, Opened
    <3>3. QED
      BY <3>1, <3>2
  <2>3. PICK n \in 0..m : /\ DOMAIN report.handles = 1..n
                          /\ \A s \in 1..n : report.handles[s] = RunLabel(1..n, s)
    BY DEF HandlesInv
  <2>4. ask.handle \in 1..n
    BY <1>3, <1>8, <2>3 DEF HandlesInv
  <2>5. handle = RunLabel(Opened(n), ask.handle)
    BY <2>3, <2>4 DEF Opened
  <2>6. \A s : S = {s} => s = ask.handle
    <3> DEFINE h == ask.handle
    <3>1. /\ m \in Nat /\ n \in Nat /\ n <= m /\ m <= Len(Recordable)
          /\ handle = RunLabel(Opened(n), h)
      BY <1>2, <2>5 DEF Stored
    <3>2. h \in Opened(n)
      BY <2>4 DEF Opened
    <3> HIDE DEF m, h, handle
    <3>3. \A s : S = {s} => s = h
      BY <3>1, <3>2, HandleFinds
    <3>4. QED
      BY <3>3 DEF h
  <2> HIDE DEF S, handle
  <2>7. S = {Max(S)} /\ Max(S) \in 1..m
    BY <1>2, <2>2, OnlyOne
  <2>8. view' = [i \in {1} |-> Max(S)]
    <3>1. DOMAIN Candidates = {1} /\ Candidates[1] = S
      BY <2>1
    <3>2. QED
      BY <1>1, <3>1
  <2>9. DOMAIN view' = {1} /\ view'[1] = Max(S) /\ Max(S) = ask.handle
    BY <2>6, <2>7, <2>8
  <2>10. DOMAIN ask.sessions = {}
    BY <2>1
  <2>11. QED
    BY <1>2, <1>8, <2>1, <2>7, <2>9, <2>10
<1>9. ASSUME ask.handle = 0, ask.sessions = <<>> PROVE Fits
  <2> DEFINE S == IF m = 1 \/ ask.tool = "export" THEN {bound} ELSE {}
  <2>1. Candidates = <<S>>
    BY <1>9 DEF Candidates
  <2>2. Cardinality(S) = 1
    <3> HIDE DEF S
    <3>1. QED
      BY <1>6, <2>1
  <2>3. (m = 1 \/ ask.tool = "export") /\ S = {bound}
    BY <2>2, FS_EmptySet
  <2> HIDE DEF S
  <2>4. S \in SUBSET (1..m)
    BY <1>2, <1>4, <2>3
  <2>5. S = {Max(S)}
    BY <1>2, <2>2, <2>4, OnlyOne
  <2>6. view' = [i \in {1} |-> Max(S)]
    <3>1. DOMAIN Candidates = {1} /\ Candidates[1] = S
      BY <2>1
    <3>2. QED
      BY <1>1, <3>1
  <2>7. DOMAIN view' = {1} /\ view'[1] = bound
    BY <2>3, <2>5, <2>6
  <2>8. DOMAIN ask.sessions = {}
    BY <1>9
  <2>9. bound = 1 \/ ask.tool = "export"
    BY <1>2, <1>4, <2>3
  <2>10. QED
    BY <1>2, <1>4, <1>9, <2>7, <2>8, <2>9
<1>10. ASSUME ask.handle = 0, ask.sessions # <<>> PROVE Fits
  <2>1. Candidates = [i \in DOMAIN ask.sessions |-> Chosen(ask.sessions[i])]
    BY <1>10 DEF Candidates
  <2>2. \A i \in DOMAIN ask.sessions :
          /\ Candidates[i] = ask.sessions[i].name \cap (1..m)
          /\ Candidates[i] = {Max(Candidates[i])} /\ Max(Candidates[i]) \in 1..m
    <3> SUFFICES ASSUME NEW i \in DOMAIN ask.sessions
                 PROVE  /\ Candidates[i] = ask.sessions[i].name \cap (1..m)
                        /\ Candidates[i] = {Max(Candidates[i])} /\ Max(Candidates[i]) \in 1..m
      OBVIOUS
    <3> DEFINE S == Candidates[i]
    <3>1. S = ask.sessions[i].name \cap (1..m) /\ Cardinality(S) = 1
      BY <1>2, <1>6, <2>1 DEF Chosen
    <3> HIDE DEF S
    <3>2. S = {Max(S)} /\ Max(S) \in 1..m
      BY <1>2, <3>1, OnlyOne
    <3>3. QED
      BY <3>1, <3>2 DEF S
  <2>3. view' = [i \in DOMAIN ask.sessions |-> Max(Candidates[i])]
    BY <1>1, <2>1
  <2>4. 1..bound \subseteq 1..m
    BY <1>2
  <2>5. ASSUME NEW i \in DOMAIN ask.sessions
        PROVE  /\ view'[i] \in DOMAIN runs /\ view'[i] \in ask.sessions[i].name
               /\ ask.sessions[i].name \cap DOMAIN runs \subseteq {view'[i]}
               /\ ask.sessions[i].name \cap 1..bound \subseteq {view'[i]}
    <3> DEFINE S == Candidates[i]
    <3>1. S = ask.sessions[i].name \cap (1..m) /\ S = {Max(S)} /\ Max(S) \in 1..m
      BY <2>2
    <3>2. view'[i] = Max(S)
      BY <2>3
    <3> HIDE DEF S
    <3>3. QED
      BY <1>2, <2>4, <3>1, <3>2
  <2>6. QED
    BY <1>10, <2>3, <2>5
<1>11. Fits
  BY <1>8, <1>9, <1>10
<1>12. Agent' = Agent
  BY <1>1 DEF Agent
<1>13. QED
  BY <1>1, <1>4, <1>7, <1>11, <1>12 DEF ViewFits

LEMMA ViewStays ==
  ASSUME TypeInv, BlockInv, ViewInv, HandlesInv, Recording \/ Commands \/ UNCHANGED vars
  PROVE  ViewInv'
<1>1. Shaped /\ Stored /\ ask \in Asks /\ "choose" \in Steps /\ "bind" \in Steps
  BY StepsAre DEF TypeInv, Shaped, Stored
<1>2. /\ ask' = ask /\ Agent' = Agent /\ \A step : Planned(step)' <=> Planned(step)
  BY <1>1, Frames, PlannedStays DEF Agent
<1>3. ASSUME ~Planned("choose")' PROVE view' = <<>>
  <2>1. ~Choose
    BY <1>1, <1>2, <1>3, AtIs DEF Choose
  <2>2. QED
    BY <1>1, <1>2, <1>3, <2>1, Frames DEF ViewInv
<1>4. ASSUME Seen("bind")', exit' = "running" PROVE bound' > 0
  <2>1. CASE Taken("bind")
    <3>1. bound' = Len(runs) /\ runs # <<>>
      BY <2>1, TakeIs DEF Taken, Bind, Fail
    <3>2. runs \in Seq(Runs)
      BY <1>1 DEF Stored
    <3> HIDE DEF Runs
    <3>3. Len(runs) > 0
      BY <3>1, <3>2
    <3>4. QED
      BY <3>1, <3>3
  <2>2. CASE Seen("bind")
    <3>1. ~Bind
      BY <1>1, <2>2, AtIs DEF Bind
    <3>2. bound' = bound
      BY <1>1, <3>1, Frames
    <3>3. ~TurnPage
      <4>1. ASSUME TurnPage PROVE FALSE
        <5>1. report.pages # <<>> /\ todo' = <<"bind", "choose">> \o ToolReads
          BY <4>1 DEF TurnPage
        <5>2. ask.tool = "block"
          BY <5>1 DEF BlockInv
        <5>3. "bind" \in ToSet(todo')
          BY <1>1, <5>1, <5>2, PagePlanIs
        <5>4. QED
          BY <1>4, <5>3 DEF Seen
      <4>2. QED
        BY <4>1
    <3>4. exit = "running"
      <4>1. exit # "idle"
        BY <2>2 DEF Seen, Live
      <4>2. ~Start
        BY <4>1 DEF Start
      <4>3. ~Refused /\ ~NothingListed /\ ~Finish
        BY <1>4 DEF Refused, NothingListed, Finish
      <4>4. CASE \E step \in Steps : Taken(step)
        BY <4>4 DEF Taken, At
      <4>5. CASE Continues
        BY <1>4, <4>5 DEF Continues
      <4>6. QED
        BY <3>3, <4>2, <4>3, <4>4, <4>5, Outcomes
    <3>5. QED
      BY <2>2, <3>2, <3>4 DEF ViewInv
  <2>3. ~NothingListed
    BY <1>4 DEF NothingListed
  <2>4. QED
    BY <1>1, <1>4, <2>1, <2>2, <2>3, Moves
<1>5. ASSUME Seen("choose")' PROVE ViewFits'
  <2>1. CASE Taken("choose")
    <3>1. Choose /\ exit' = "running"
      BY <2>1, TakeIs DEF Taken
    <3>2. QED
      BY <3>1, Chooses
  <2>2. CASE Seen("choose")
    <3>1. ~Bind /\ ~Choose
      <4>1. ~At("choose") /\ ~At("bind")
        BY <1>1, <2>2, AtIs, PlaceIs DEF Seen
      <4>2. QED
        BY <4>1 DEF Bind, Choose
    <3>2. bound' = bound /\ view' = view
      BY <1>1, <3>1, Frames
    <3>3. /\ \A s \in DOMAIN runs : s \in DOMAIN runs'
          /\ \A s \in DOMAIN runs : AgentNames(runs[s]) \subseteq AgentNames(runs'[s])
      <4>1. Grows /\ Stored'
        BY <1>1, StoreGrows
      <4>2. Len(runs) \in Nat /\ DOMAIN runs = 1..Len(runs)
        BY <1>1, RunsAre
      <4>3. Len(runs') \in Nat /\ DOMAIN runs' = 1..Len(runs')
        BY <4>1 DEF Stored
      <4>4. \A s \in DOMAIN runs : s \in DOMAIN runs'
        BY <4>1, <4>2, <4>3 DEF Grows
      <4>5. \A s \in DOMAIN runs : \A k \in DOMAIN runs[s] :
              k \in DOMAIN runs'[s] /\ runs'[s][k] = runs[s][k]
        BY <4>1 DEF Grows, IsPartOf
      <4>6. QED
        BY <4>4, <4>5 DEF AgentNames
    <3>4. ViewFits
      BY <2>2 DEF ViewInv
    <3>5. QED
      BY <1>2, <3>2, <3>3, <3>4 DEF ViewFits
  <2>3. ~NothingListed
    BY <1>2, <1>5 DEF NothingListed, Seen, Planned
  <2>4. QED
    BY <1>1, <1>5, <2>1, <2>2, <2>3, Moves
<1>6. QED
  BY <1>3, <1>4, <1>5 DEF ViewInv


-----------------------------------------------------------------------------
(* Every diff is of two turns.                                               *)
OfTurns(d) == \E old, new \in Seq(Blocks) : d = Sides(old, new)

LEMMA TurnDiffIs ==
  ASSUME NEW run, IsRun(run), NEW p, p[1] \in DOMAIN run, p[2] \in DOMAIN run
  PROVE  OfTurns(TurnDiff(run, p))
<1>1. run[p[1]].blocks \in Seq(Blocks) /\ run[p[2]].blocks \in Seq(Blocks)
  BY DEF IsRun, IsTurn
<1>2. QED
  BY <1>1 DEF TurnDiff, OfTurns

LEMMA DiffsStay ==
  ASSUME TypeInv, BlockInv, ViewInv, TargetInv, DiffsInv, Recording \/ Commands \/ UNCHANGED vars
  PROVE  DiffsInv'
<1>1. Shaped /\ Stored /\ ask \in Asks
  BY DEF TypeInv, Shaped, Stored
<1> SUFFICES \A d \in report'.diffs : OfTurns(d)
  BY DEF DiffsInv, OfTurns
<1>2. ASSUME report' = report \/ report'.diffs = report.diffs
      PROVE  \A d \in report'.diffs : OfTurns(d)
  BY <1>2 DEF DiffsInv, OfTurns
<1>3. ASSUME NEW diffs, report' = [report EXCEPT !.diffs = diffs] PROVE report'.diffs = diffs
  BY <1>1, <1>3, ReportIs DEF Shaped
<1>4. ASSUME NEW step \in {"within", "sides", "previous", "pairs"}, At(step)
      PROVE  Seen("choose") /\ IsRun(Run)
  <2>1. Planned("choose") /\ Place("choose") < Place(step) /\ step \in Steps
    <3>1. Planned(step)
      BY <1>4, AtIs, StepsAre
    <3>2. QED
      BY <3>1, PlaceIs, StepsAre DEF Planned
  <2>2. Seen("choose")
    BY <1>4, <2>1, AtIs, StepsAre
  <2>3. QED
    BY <2>2, RunIs, RunHas
<1>5. CASE DiffWithin
  <2>1. At("within") /\ IsRun(Run)
    BY <1>4, <1>5 DEF DiffWithin
  <2>2. Len(ask.turns) = 2 /\ ask.turns \in Seq(Nat)
    <3>1. exit = "running" /\ Planned("within")
      BY <2>1, AtIs, StepsAre
    <3>2. ~UsageError
      BY <3>1 DEF TypeInv
    <3>3. ask.tool = "diff" /\ ~Across
      BY <3>1 DEF Planned
    <3>4. WellFormed(ask) /\ ask.turns \in Seq(Nat)
      BY <1>1, AskIs
    <3>5. CASE ask.server
      BY <3>3, <3>4, <3>5 DEF WellFormed
    <3>6. CASE ~ask.server
      BY <3>2, <3>3, <3>4, <3>6 DEF UsageError
    <3>7. QED
      BY <3>5, <3>6
  <2>3. 1 \in DOMAIN ask.turns /\ 2 \in DOMAIN ask.turns
    BY <2>2
  <2> DEFINE diffs == {TurnDiff(Run, ask.turns)}
  <2>4. \/ report' = report
        \/ ToSet(ask.turns) \subseteq Scope(Run, Agent) /\ report' = [report EXCEPT !.diffs = diffs]
    BY <1>5 DEF DiffWithin
  <2>5. CASE ToSet(ask.turns) \subseteq Scope(Run, Agent) /\ report' = [report EXCEPT !.diffs = diffs]
    <3>1. ask.turns[1] \in DOMAIN Run /\ ask.turns[2] \in DOMAIN Run
      BY <2>3, <2>5 DEF ToSet, Scope
    <3>2. OfTurns(TurnDiff(Run, ask.turns))
      BY <2>1, <3>1, TurnDiffIs
    <3>3. report'.diffs = diffs
      <4> HIDE DEF diffs
      <4>1. QED
        BY <1>3, <2>5
    <3>4. QED
      BY <3>2, <3>3
  <2>6. QED
    BY <1>2, <2>4, <2>5
<1>6. CASE DiffAcross
  <2> DEFINE bySession == Len(ask.sessions) = 2
             run == [i \in 1..2 |-> runs[view[IF bySession THEN i ELSE 1]]]
             names == AgentNames(run[1]) \cup AgentNames(run[2])
             agent == [i \in 1..2 |->
                     IF ~bySession THEN ask.agents[i].name
                     ELSE IF Agent # None THEN Agent
                     ELSE IF names = {} THEN None ELSE CHOOSE n \in names : TRUE]
             turn == [i \in 1..2 |-> SideTurn(IF bySession THEN ask.sessions ELSE ask.agents, i)]
             diffs == {Sides(run[1][turn[1]].blocks, run[2][turn[2]].blocks)}
  <2>1. \/ report' = report
        \/ /\ \A i \in 1..2 : turn[i] \in Scope(run[i], agent[i])
           /\ report' = [report EXCEPT !.diffs = diffs]
    BY <1>6 DEF DiffAcross
  <2>2. At("sides") /\ Seen("choose")
    BY <1>4, <1>6 DEF DiffAcross
  <2>3. ViewFits
    BY <2>2 DEF ViewInv
  <2>4. \A i \in 1..2 : view[IF bySession THEN i ELSE 1] \in DOMAIN runs
    <3>1. view[1] \in DOMAIN runs
      BY <2>2, RunIs
    <3>2. bySession => view[2] \in DOMAIN runs
      <4> DEFINE Selectors == [name : SUBSET DOMAIN Recordable, turn : Nat \cup {None}]
      <4>1. ask.sessions \in Seq(Selectors)
        BY <1>1, AskIs
      <4> HIDE DEF Selectors
      <4>2. bySession => 2 \in DOMAIN ask.sessions /\ ask.sessions # <<>>
        BY <4>1
      <4>3. QED
        BY <2>3, <4>2 DEF ViewFits
    <3>3. QED
      BY <3>1, <3>2
  <2>5. \A i \in 1..2 : IsRun(run[i])
    BY <1>1, <2>4, RunsAre, RunHas
  <2>6. CASE /\ \A i \in 1..2 : turn[i] \in Scope(run[i], agent[i])
             /\ report' = [report EXCEPT !.diffs = diffs]
    <3> HIDE DEF run, turn, agent
    <3>1. \A i \in 1..2 : turn[i] \in DOMAIN run[i]
      BY <2>6 DEF Scope
    <3>2. \A i \in 1..2 : run[i][turn[i]].blocks \in Seq(Blocks)
      BY <2>5, <3>1 DEF IsRun, IsTurn
    <3>3. 1 \in 1..2 /\ 2 \in 1..2
      OBVIOUS
    <3>4. \A d \in diffs : OfTurns(d)
      BY <3>2, <3>3 DEF OfTurns
    <3> HIDE DEF diffs
    <3>5. QED
      BY <1>3, <2>6, <3>4
  <2> HIDE DEF diffs, run, turn, agent
  <2>7. QED
    BY <1>2, <2>1, <2>6
<1>7. CASE FindPrevious
  <2> DEFINE earlier == Earlier(Run, report.target)
             pair == <<Max(earlier), report.target>>
             diffs == {TurnDiff(Run, pair)}
             seen == [report EXCEPT !.asOf.previous = DOMAIN Run]
  <2>1. At("previous") /\ IsRun(Run)
    BY <1>4, <1>7 DEF FindPrevious
  <2>2. report' = IF earlier = {} THEN seen
                  ELSE [seen EXCEPT !.previous = Max(earlier), !.diffs = diffs]
    BY <1>7 DEF FindPrevious
  <2>3. report.target \in DOMAIN Run
    <3>1. Seen("target")
      BY <2>1, AtIs, StepsAre, PlaceIs DEF Planned
    <3>2. QED
      BY <3>1 DEF TargetInv, Scope
  <2>4. CASE earlier # {}
    <3>1. Max(earlier) \in DOMAIN Run
      <4>1. Max(earlier) \in earlier
        BY <2>1, <2>3, <2>4, EarlierIs DEF IsRun
      <4>2. QED
        BY <4>1 DEF Earlier, TurnsOf
    <3>2. \A d \in diffs : OfTurns(d)
      <4>1. pair[1] \in DOMAIN Run /\ pair[2] \in DOMAIN Run
        BY <2>3, <3>1
      <4> HIDE DEF pair
      <4>2. QED
        BY <2>1, <4>1, TurnDiffIs
    <3> HIDE DEF earlier, diffs
    <3>3. report'.diffs = diffs
      BY <1>1, <2>2, <2>4, ReportIs DEF Shaped
    <3>4. QED
      BY <3>2, <3>3
  <2>5. CASE earlier = {}
    <3> HIDE DEF earlier, diffs
    <3>1. report'.diffs = report.diffs
      BY <1>1, <2>2, <2>5, ReportIs DEF Shaped
    <3>2. QED
      BY <1>2, <3>1
  <2>6. QED
    BY <2>4, <2>5
<1>8. CASE ReadPairs
  <2> DEFINE pairs == Pairs(Run, None) \cup InARow(Run)
             diffs == {TurnDiff(Run, p) : p \in pairs}
  <2>1. At("pairs") /\ IsRun(Run)
    BY <1>4, <1>8 DEF ReadPairs
  <2>2. report' = [report EXCEPT !.turns = DOMAIN Run, !.diffs = diffs]
    BY <1>8 DEF ReadPairs
  <2>3. ASSUME NEW p \in pairs PROVE p[1] \in DOMAIN Run /\ p[2] \in DOMAIN Run
    <3>1. Pairs(Run, None) = Successive(Run, None)
      BY <2>1, PairsAreSuccessive DEF IsRun
    <3>2. CASE p \in Successive(Run, None)
      BY <3>2 DEF Successive
    <3>3. CASE p \in InARow(Run)
      BY <3>3 DEF InARow
    <3>4. QED
      BY <3>1, <3>2, <3>3
  <2> HIDE DEF pairs
  <2>4. \A d \in diffs : OfTurns(d)
    BY <2>1, <2>3, TurnDiffIs
  <2> HIDE DEF diffs
  <2>5. report'.diffs = diffs
    BY <1>1, <2>2, ReportIs DEF Shaped
  <2>6. QED
    BY <2>4, <2>5
<1>9. QED
  BY <1>1, <1>2, <1>5, <1>6, <1>7, <1>8, Frames


-----------------------------------------------------------------------------
(* Where a dashboard opens.                                                  *)
LEMMA OneOrMore ==
  ASSUME NEW n \in Nat, NEW S \in SUBSET (1..n), S # {}
  PROVE  /\ Cardinality(S) \in Nat
         /\ Cardinality(S) <= 1 => \E s \in S : S = {s}
         /\ ~(Cardinality(S) <= 1) => \E s, t \in S : s # t
<1>1. IsFiniteSet(S)
  <2>1. IsFiniteSet(1..n)
    BY FS_Interval
  <2>2. QED
    BY <2>1, FS_Subset
<1>2. Cardinality(S) \in Nat /\ Cardinality(S) # 0
  BY <1>1, FS_CardinalityType, FS_EmptySet
<1>3. Cardinality(S) <= 1 => \E s \in S : S = {s}
  <2>1. Cardinality(S) <= 1 => Cardinality(S) = 1
    BY <1>2
  <2>2. QED
    BY <1>1, <2>1, FS_Singleton
<1>4. ~(Cardinality(S) <= 1) => \E s, t \in S : s # t
  <2>1. ASSUME \A s, t \in S : s = t PROVE Cardinality(S) = 1
    <3>1. PICK s : s \in S
      OBVIOUS
    <3>2. S = {s}
      BY <2>1, <3>1
    <3>3. QED
      BY <3>2, FS_Singleton
  <2>2. QED
    BY <2>1
<1>5. QED
  BY <1>2, <1>3, <1>4

LEMMA Opens ==
  ASSUME TypeInv, ViewInv, ReadProject, Agent # None
  PROVE  LET ran == {s \in DOMAIN report'.project : Agent \in report'.project[s]} IN
         /\ ran # {}
         /\ report'.start.level = 2 => ask.sessions = <<>> /\ \E s, t \in ran : s # t
         /\ report'.start.level = 3 =>
              /\ report'.start.session = view[1]
              /\ ask.sessions # <<>> \/ \E s \in ran : ran = {s}
<1> DEFINE listed == [s \in DOMAIN runs |-> Listed(runs[s])]
           ran == {s \in DOMAIN runs : Agent \in Listed(runs[s])}
           selected == ask.sessions # <<>>
<1>1. Shaped /\ Stored /\ At("project")
  BY DEF TypeInv, Shaped, Stored, ReadProject
<1>2. report'.project = listed /\ report'.start = StartLevel
  <2> DEFINE opened == StartLevel
  <2>1. report' = [report EXCEPT !.project = listed, !.start = opened]
    BY DEF ReadProject
  <2> HIDE DEF listed, opened
  <2>2. report'.project = listed /\ report'.start = opened
    BY <1>1, <2>1, ReportIs DEF Shaped
  <2>3. QED
    BY <2>2 DEF opened
<1>3. {s \in DOMAIN report'.project : Agent \in report'.project[s]} = ran
  BY <1>2
<1>4. ViewFits /\ ask.tool = "export"
  <2>1. Planned("project")
    BY <1>1, AtIs, StepsAre
  <2>2. ask.tool = "export" /\ Planned("choose")
    BY <2>1 DEF Planned
  <2>3. Seen("choose")
    BY <1>1, <2>2, AtIs, StepsAre, PlaceIs
  <2>4. QED
    BY <2>2, <2>3 DEF ViewInv
<1>5. ran # {}
  <2>1. PICK s \in DOMAIN runs : Agent \in AgentNames(runs[s])
    BY <1>4 DEF ViewFits
  <2>2. Agent \in Listed(runs[s])
    BY <2>1 DEF AgentNames, Listed
  <2>3. QED
    BY <2>2
<1>6. /\ Cardinality(ran) <= 1 => \E s \in ran : ran = {s}
      /\ ~(Cardinality(ran) <= 1) => \E s, t \in ran : s # t
  <2>1. Len(runs) \in Nat /\ ran \in SUBSET (1..Len(runs))
    BY <1>1, RunsAre
  <2> HIDE DEF ran
  <2>2. QED
    BY <1>5, <2>1, OneOrMore
<1> DEFINE level == IF selected \/ Cardinality(ran) <= 1 THEN 3 ELSE 2
<1>7. StartLevel = [level |-> level, session |-> IF level = 3 THEN view[1] ELSE 0]
  BY DEF StartLevel
<1>8. report'.start.level = level /\ report'.start.session = IF level = 3 THEN view[1] ELSE 0
  <2> HIDE DEF level
  <2>1. QED
    BY <1>2, <1>7
<1> HIDE DEF ran
<1>9. /\ report'.start.level = 2 => ~selected /\ \E s, t \in ran : s # t
      /\ report'.start.level = 3 =>
           report'.start.session = view[1] /\ (selected \/ \E s \in ran : ran = {s})
  BY <1>6, <1>8
<1>10. QED
  BY <1>3, <1>5, <1>9

LEMMA ProjectStays ==
  ASSUME TypeInv, BlockInv, ViewInv, ProjectInv, Recording \/ Commands \/ UNCHANGED vars
  PROVE  ProjectInv'
<1>1. Shaped /\ "project" \in Steps
  BY StepsAre DEF TypeInv, Shaped
<1>2. ask' = ask /\ Agent' = Agent /\ \A step : Planned(step)' <=> Planned(step)
  BY <1>1, Frames, PlannedStays DEF Agent
<1>3. ReadProject => Taken("project") /\ view' = view
  <2>1. ASSUME ReadProject PROVE Taken("project") /\ view' = view
    <3>1. At("project") /\ Done /\ view' = view
      BY <2>1 DEF ReadProject
    <3>2. QED
      BY <2>1, <3>1, TakeIs DEF Taken, Done, At
  <2>2. QED
    BY <2>1
<1>4. ASSUME Live', ~Seen("project")' PROVE report'.start.level = 0
  <2>1. ~ReadProject
    <3>1. Taken("project") => exit # "idle" /\ ~TurnPage
      BY DEF Taken, At, TurnPage
    <3>2. QED
      BY <1>1, <1>3, <1>4, <3>1, Moves
  <2>2. report'.start = report.start
    BY <1>1, <2>1, Frames
  <2>3. CASE exit = "idle"
    BY <2>2, <2>3, ReportIs DEF TypeInv
  <2>4. CASE Live /\ ~Seen("project")
    BY <2>2, <2>4 DEF ProjectInv
  <2>5. QED
    BY <1>1, <1>4, <2>3, <2>4, Moves
<1>5. ASSUME Seen("project")', Agent' # None PROVE StartFits'
  <2>1. CASE Taken("project")
    <3>1. ReadProject
      BY <2>1, TakeIs DEF Taken
    <3>2. QED
      BY <1>2, <1>3, <1>5, <3>1, Opens DEF StartFits
  <2>2. CASE Seen("project")
    <3>1. ~ReadProject
      BY <1>1, <2>2, AtIs DEF ReadProject
    <3>2. report'.project = report.project /\ report'.start = report.start
      BY <1>1, <3>1, Frames
    <3>3. Seen("choose")
      <4>1. Planned("choose")
        BY <2>2 DEF Seen, Planned
      <4>2. QED
        BY <1>1, <2>2, <4>1, SeenDown, StepsAre, PlaceIs
    <3>4. view' = view
      BY <3>3, RunGrows
    <3>5. StartFits
      BY <1>2, <1>5, <2>2 DEF ProjectInv
    <3>6. QED
      BY <1>2, <3>2, <3>4, <3>5 DEF StartFits
  <2>3. ~NothingListed
    BY <1>2, <1>5 DEF NothingListed, Seen, Planned
  <2>4. QED
    BY <1>1, <1>5, <2>1, <2>2, <2>3, Moves
<1>6. QED
  BY <1>4, <1>5 DEF ProjectInv


-----------------------------------------------------------------------------
(* What a listing shows.                                                     *)
LEMMA ListStays ==
  ASSUME TypeInv, BlockInv, ViewInv, ListInv, Recording \/ Commands \/ UNCHANGED vars
  PROVE  ListInv'
<1>1. /\ Shaped /\ Stored /\ "list" \in Steps /\ "calls" \in Steps
      /\ Place("list") < Place("calls") /\ Place("bind") < Place("list")
  BY StepsAre, PlaceIs DEF TypeInv, Shaped, Stored
<1>2. ask' = ask /\ \A step : Planned(step)' <=> Planned(step)
  BY <1>1, Frames, PlannedStays
<1>3. Stored' /\ Grows
  BY <1>1, StoreGrows
<1>4. /\ Len(runs) \in Nat /\ DOMAIN runs = 1..Len(runs)
      /\ Len(runs') \in Nat /\ DOMAIN runs' = 1..Len(runs')
      /\ Len(runs) <= Len(runs')
      /\ \A s \in DOMAIN runs : runs[s] \in Runs
      /\ \A s \in DOMAIN runs' : runs'[s] \in Runs
  BY <1>1, <1>3, RunsAre DEF Grows, Stored
<1>5. /\ report.calls \in Seq(Runs) /\ report.sessions \in Seq(Nat)
      /\ \A s \in DOMAIN report.sessions : report.sessions[s] \in 0..CountOf(runs[s])
      /\ \A s \in DOMAIN report.calls :
           /\ IsPartOf(report.calls[s], runs[s])
           /\ CountOf(report.calls[s]) >= report.sessions[s]
  BY DEF ListInv
<1> DEFINE n == Len(report.sessions)
<1>6. /\ n \in 0..Len(runs) /\ n \in Nat /\ DOMAIN report.sessions = 1..n
      /\ Len(report.calls) <= n
  <2>1. n \in Nat /\ DOMAIN report.sessions = 1..n
    BY <1>5
  <2>2. PICK k \in 0..Len(runs) : DOMAIN report.sessions = 1..k /\ Len(report.calls) <= k
    BY DEF ListInv
  <2>3. k = n
    <3> HIDE DEF n
    <3>1. 1..n = 1..k /\ k \in Nat
      BY <1>4, <2>1, <2>2
    <3>2. QED
      BY <2>1, <3>1
  <2>4. QED
    BY <2>1, <2>2, <2>3
<1> HIDE DEF n
<1>7. ASSUME NEW s \in DOMAIN runs
      PROVE  /\ s \in DOMAIN runs' /\ CountOf(runs[s]) \in Nat /\ CountOf(runs'[s]) \in Nat
             /\ CountOf(runs[s]) <= CountOf(runs'[s])
  <2> DEFINE run == runs'[s]
             was == runs[s]
  <2>1. s \in DOMAIN runs' /\ run \in Runs /\ was \in Runs
    BY <1>4
  <2>2. IsPartOf(was, run)
    BY <1>3 DEF Grows
  <2> HIDE DEF run, was
  <2>3. CountOf(was) \in Nat /\ CountOf(run) \in Nat
    BY <2>1, RunHas
  <2>4. CountOf(was) <= CountOf(run)
    BY <2>1, <2>2, PartsAreLess
  <2>5. QED
    BY <2>1, <2>3, <2>4 DEF run, was
<1>8. ASSUME NEW part, NEW s \in DOMAIN runs, IsPartOf(part, runs[s])
      PROVE  IsPartOf(part, runs'[s])
  <2>1. IsPartOf(runs[s], runs'[s])
    BY <1>3 DEF Grows
  <2>2. QED
    BY <1>8, <2>1, PartOfPart
<1>9. \A s \in DOMAIN report.sessions : s \in DOMAIN runs
  BY <1>4, <1>6
<1>10. /\ DOMAIN report.calls = 1..Len(report.calls) /\ Len(report.calls) \in Nat
       /\ \A s \in DOMAIN report.calls : report.calls[s] \in Runs /\ s \in DOMAIN runs
  <2> DEFINE Element == Runs
  <2> HIDE DEF Element
  <2>1. report.calls \in Seq(Element)
    BY <1>5 DEF Element
  <2>2. /\ DOMAIN report.calls = 1..Len(report.calls) /\ Len(report.calls) \in Nat
        /\ \A s \in DOMAIN report.calls : report.calls[s] \in Element
    BY <2>1
  <2>3. \A s \in DOMAIN report.calls : s \in DOMAIN runs
    BY <1>4, <1>6, <2>2
  <2>4. QED
    BY <2>2, <2>3 DEF Element
<1>11. ReadCalls =>
         /\ At("calls") /\ runs' = runs /\ report'.sessions = report.sessions
         /\ report'.calls = Append(report.calls, runs[Len(report.calls) + 1])
         /\ IF Len(report.calls) + 1 = n THEN Done ELSE Continues
  <2> SUFFICES ASSUME ReadCalls
               PROVE  /\ At("calls") /\ runs' = runs /\ report'.sessions = report.sessions
                      /\ report'.calls = Append(report.calls, runs[Len(report.calls) + 1])
                      /\ IF Len(report.calls) + 1 = n THEN Done ELSE Continues
    OBVIOUS
  <2> DEFINE calls == Append(report.calls, runs[Len(report.calls) + 1])
  <2>1. /\ At("calls") /\ runs' = runs /\ report' = [report EXCEPT !.calls = calls]
        /\ IF Len(report.calls) + 1 = n THEN Done ELSE Continues
    BY DEF ReadCalls, Continues, n
  <2> HIDE DEF calls
  <2>2. report'.sessions = report.sessions /\ report'.calls = calls
    BY <1>1, <2>1, ReportIs DEF Shaped
  <2>3. QED
    BY <2>1, <2>2 DEF calls
<1>12. ListSessions =>
         /\ At("list") /\ Taken("list") /\ runs' = runs /\ report'.calls = report.calls
         /\ report'.sessions = [s \in DOMAIN runs |-> CountOf(runs[s])]
  <2> SUFFICES ASSUME ListSessions
               PROVE  /\ At("list") /\ Taken("list") /\ runs' = runs /\ report'.calls = report.calls
                      /\ report'.sessions = [s \in DOMAIN runs |-> CountOf(runs[s])]
    OBVIOUS
  <2> DEFINE sessions == [s \in DOMAIN runs |-> CountOf(runs[s])]
  <2>1. At("list") /\ Done /\ runs' = runs /\ report' = [report EXCEPT !.sessions = sessions]
    BY DEF ListSessions, CountOf
  <2> HIDE DEF sessions
  <2>2. report'.sessions = sessions /\ report'.calls = report.calls
    BY <1>1, <2>1, ReportIs DEF Shaped
  <2>3. Taken("list")
    BY <2>1, TakeIs DEF Taken, Done, At
  <2>4. QED
    BY <2>1, <2>2, <2>3 DEF sessions
<1>13. ASSUME NEW step \in {"list", "calls"}, Live', step \in ToSet(todo')
      PROVE  /\ ~Seen(step)' /\ Planned(step)
             /\ exit = "idle" \/ (Live /\ step \in ToSet(todo) /\ ~Taken(step))
  <2>1. ~Seen(step)' /\ step \in Steps
    BY <1>13, StepsAre DEF Seen
  <2>2. Planned(step)
    BY <1>2, <1>13, TypeStays DEF TypeInv
  <2>3. \/ Live /\ ~Seen(step) /\ ~Taken(step)
        \/ exit = "idle"
    BY <1>13, <2>1, Moves
  <2>4. QED
    BY <2>1, <2>2, <2>3 DEF Seen
<1>14. \A step : Seen(step)' => Live' /\ step \notin ToSet(todo')
  BY DEF Seen
<1> DEFINE Calls == report'.calls
           Sessions == report'.sessions
           Ordered == /\ Live' /\ "list" \in ToSet(todo') => Calls = <<>> /\ Sessions = <<>>
                      /\ Seen("list")' /\ "calls" \in ToSet(todo') => Len(Calls) + 1 \in DOMAIN Sessions
                      /\ Seen("calls")' => DOMAIN Calls = DOMAIN Sessions
           Fits == /\ Calls \in Seq(Runs) /\ Sessions \in Seq(Nat)
                   /\ \E k \in 0..Len(runs') : DOMAIN Sessions = 1..k /\ Len(Calls) <= k
                   /\ \A s \in DOMAIN Sessions : Sessions[s] \in 0..CountOf(runs'[s])
                   /\ \A s \in DOMAIN Calls :
                        IsPartOf(Calls[s], runs'[s]) /\ CountOf(Calls[s]) >= Sessions[s]
<1>15. n \in 0..Len(runs')
  BY <1>4, <1>6
<1>16. ASSUME ~ListSessions, ~ReadCalls PROVE Fits /\ Ordered
  <2>1. Calls = report.calls /\ Sessions = report.sessions
    BY <1>1, <1>16, Frames
  <2>2. Fits
    <3>1. \A s \in DOMAIN report.sessions : report.sessions[s] \in 0..CountOf(runs'[s])
      BY <1>4, <1>5, <1>7, <1>9
    <3>2. \A s \in DOMAIN report.calls : IsPartOf(report.calls[s], runs'[s])
      BY <1>5, <1>8, <1>10
    <3> HIDE DEF Calls, Sessions
    <3>3. QED
      BY <1>5, <1>6, <1>15, <2>1, <3>1, <3>2
  <2>3. ASSUME Live', "list" \in ToSet(todo') PROVE Calls = <<>> /\ Sessions = <<>>
    <3>1. CASE exit = "idle"
      BY <2>1, <3>1, ReportIs DEF TypeInv
    <3>2. CASE Live /\ "list" \in ToSet(todo)
      BY <2>1, <3>2 DEF ListInv
    <3>3. QED
      BY <1>13, <2>3, <3>1, <3>2
  <2>4. ASSUME Seen("list")', "calls" \in ToSet(todo') PROVE Len(Calls) + 1 \in DOMAIN Sessions
    <3>1. Seen("list")
      <4>1. ~Taken("list")
        BY <1>16, TakeIs DEF Taken
      <4>2. ~NothingListed
        BY <2>4 DEF NothingListed, ToSet
      <4>3. QED
        BY <1>1, <2>4, <4>1, <4>2, Moves
    <3>2. "calls" \in ToSet(todo)
      BY <1>13, <1>14, <2>4, <3>1 DEF Seen, Live
    <3>3. QED
      BY <2>1, <3>1, <3>2 DEF ListInv
  <2>5. ASSUME Seen("calls")' PROVE DOMAIN Calls = DOMAIN Sessions
    <3>1. ~Taken("calls")
      BY <1>16, TakeIs DEF Taken
    <3>2. CASE Seen("calls")
      BY <2>1, <3>2 DEF ListInv
    <3>3. CASE NothingListed
      <4>1. n = 0
        <5>1. runs = <<>>
          BY <3>3 DEF NothingListed
        <5>2. Len(runs) = 0
          BY <5>1
        <5>3. QED
          BY <1>6, <5>2
      <4>2. Len(report.calls) = 0
        BY <1>6, <1>10, <4>1
      <4>3. DOMAIN report.sessions = 1..0 /\ DOMAIN report.calls = 1..0
        BY <1>6, <1>10, <4>1, <4>2
      <4>4. QED
        BY <2>1, <4>3
    <3>4. QED
      BY <1>1, <2>5, <3>1, <3>2, <3>3, Moves
  <2>6. QED
    BY <2>2, <2>3, <2>4, <2>5
<1>17. ASSUME ListSessions PROVE Fits /\ Ordered
  <2>1. /\ At("list") /\ Taken("list") /\ runs' = runs /\ Calls = report.calls
        /\ Sessions = [s \in DOMAIN runs |-> CountOf(runs[s])]
    BY <1>12, <1>17
  <2>2. /\ Live /\ exit = "running" /\ "list" \in ToSet(todo) /\ Planned("list")
        /\ ToSet(todo') = ToSet(todo) \ {"list"} /\ exit' = "running"
    BY <1>1, <2>1, AtIs DEF Taken
  <2>3. Calls = <<>>
    BY <2>1, <2>2 DEF ListInv
  <2>4. Sessions \in Seq(Nat) /\ DOMAIN Sessions = 1..Len(runs)
        /\ \A s \in DOMAIN Sessions : Sessions[s] \in 0..CountOf(runs[s])
    BY <1>4, <1>7, <2>1
  <2>5. Len(runs) >= 1
    <3>1. Seen("bind")
      BY <1>1, <2>1, AtIs, StepsAre DEF Planned
    <3>2. bound > 0 /\ bound \in 0..Len(runs)
      BY <2>2, <3>1 DEF ViewInv, TypeInv
    <3>3. QED
      BY <1>4, <3>2
  <2>6. Fits
    <3>1. Calls \in Seq(Runs) /\ DOMAIN Calls = {} /\ Len(Calls) = 0
      BY <1>5, <2>1, <2>3
    <3>2. Len(runs) \in 0..Len(runs')
      BY <1>4
    <3>3. \A s \in DOMAIN Sessions : Sessions[s] \in 0..CountOf(runs'[s])
      BY <2>1, <2>4
    <3>4. Len(Calls) <= Len(runs)
      BY <1>4, <3>1
    <3> HIDE DEF Calls, Sessions
    <3>5. QED
      BY <2>4, <3>1, <3>2, <3>3, <3>4
  <2>7. Ordered
    <3>1. "list" \notin ToSet(todo')
      BY <2>2
    <3>2. Len(Calls) + 1 \in DOMAIN Sessions
      <4>1. Len(Calls) = 0
        BY <2>3
      <4>2. QED
        BY <1>4, <2>4, <2>5, <4>1
    <3>3. ~Seen("calls")'
      <4>1. ~Seen("calls")
        BY <1>1, <2>1, AtIs DEF Seen
      <4>2. ~Taken("calls") /\ ~NothingListed
        BY <2>1, <2>2 DEF Taken, At, NothingListed
      <4>3. QED
        BY <1>1, <4>1, <4>2, Moves
    <3>4. QED
      BY <3>1, <3>2, <3>3
  <2>8. QED
    BY <2>6, <2>7
<1>18. ASSUME ReadCalls PROVE Fits /\ Ordered
  <2> DEFINE k == Len(report.calls) + 1
  <2>1. /\ At("calls") /\ runs' = runs /\ Sessions = report.sessions
        /\ Calls = Append(report.calls, runs[k])
        /\ IF k = n THEN Done ELSE Continues
    BY <1>11, <1>18
  <2>2. /\ Live /\ exit = "running" /\ "calls" \in ToSet(todo) /\ Planned("calls")
        /\ ToSet(Tail(todo)) = ToSet(todo) \ {"calls"}
    BY <1>1, <2>1, AtIs
  <2>3. Seen("list")
    <3>1. Planned("list")
      BY <2>2 DEF Planned
    <3>2. QED
      BY <1>1, <2>1, <3>1, AtIs
  <2>4. k \in 1..n /\ k \in Nat /\ k \in DOMAIN runs /\ runs[k] \in Runs
    <3>1. k \in DOMAIN report.sessions
      BY <2>2, <2>3 DEF ListInv
    <3>2. k \in DOMAIN runs
      BY <1>9, <3>1
    <3>3. QED
      BY <1>4, <1>6, <3>1, <3>2
  <2>5. /\ Calls \in Seq(Runs) /\ Len(Calls) = k /\ DOMAIN Calls = 1..k
        /\ \A s \in 1..k : Calls[s] = IF s = k THEN runs[k] ELSE report.calls[s]
    <3> DEFINE Element == Runs
               last == runs[k]
    <3>1. report.calls \in Seq(Element) /\ last \in Element /\ Calls = Append(report.calls, last)
      BY <1>5, <2>1, <2>4
    <3> HIDE DEF Element, last, Calls
    <3>2. /\ Calls \in Seq(Element) /\ Len(Calls) = k /\ DOMAIN Calls = 1..k
          /\ \A s \in 1..k : Calls[s] = IF s = k THEN last ELSE report.calls[s]
      BY <3>1
    <3>3. QED
      BY <3>2 DEF Element, last
  <2>6. \A s \in 1..k : IsPartOf(Calls[s], runs[s]) /\ CountOf(Calls[s]) >= report.sessions[s]
    <3> SUFFICES ASSUME NEW s \in 1..k
                 PROVE  IsPartOf(Calls[s], runs[s]) /\ CountOf(Calls[s]) >= report.sessions[s]
      OBVIOUS
    <3>1. CASE s = k
      <4> DEFINE run == runs[k]
      <4>1. run \in Runs /\ Calls[s] = run
        BY <2>4, <2>5, <3>1
      <4>2. report.sessions[k] \in 0..CountOf(run)
        BY <1>5, <1>6, <2>4
      <4> HIDE DEF run
      <4>3. IsPartOf(run, run) /\ CountOf(run) \in Nat
        BY <4>1, RunHas
      <4>4. QED
        BY <3>1, <4>1, <4>2, <4>3 DEF run
    <3>2. CASE s # k
      <4>1. s \in DOMAIN report.calls
        BY <1>10, <2>4, <3>2
      <4> HIDE DEF k
      <4>2. Calls[s] = report.calls[s]
        BY <2>5, <3>2
      <4>3. QED
        BY <1>5, <4>1, <4>2
    <3>3. QED
      BY <3>1, <3>2
  <2> HIDE DEF k, Calls
  <2>7. Fits
    <3>1. k <= n
      BY <1>6, <2>4
    <3>2. QED
      BY <1>5, <1>6, <1>15, <2>1, <2>5, <2>6, <3>1
  <2>8. "list" \notin ToSet(todo')
    <3>1. "list" \notin ToSet(todo)
      BY <2>3 DEF Seen
    <3>2. todo' = Tail(todo) \/ todo' = todo
      BY <2>1 DEF Done, Continues
    <3>3. QED
      BY <2>2, <3>1, <3>2
  <2>9. Ordered
    <3>1. CASE k = n
      <4>1. "calls" \notin ToSet(todo')
        BY <2>1, <2>2, <3>1 DEF Done
      <4>2. DOMAIN Calls = DOMAIN Sessions
        BY <1>6, <2>1, <2>5, <3>1
      <4>3. QED
        BY <2>8, <4>1, <4>2
    <3>2. CASE k # n
      <4>1. "calls" \in ToSet(todo')
        BY <2>1, <2>2, <3>2 DEF Continues
      <4>2. ~Seen("calls")'
        BY <1>14, <4>1
      <4>3. Len(Calls) + 1 \in DOMAIN Sessions
        BY <1>6, <2>1, <2>4, <2>5, <3>2
      <4>4. QED
        BY <2>8, <4>2, <4>3
    <3>3. QED
      BY <3>1, <3>2
  <2>10. QED
    BY <2>7, <2>9
<1>19. Fits /\ Ordered
  BY <1>16, <1>17, <1>18
<1>20. QED
  BY <1>19 DEF ListInv


-----------------------------------------------------------------------------
(* How much of a text fits on a page.                                        *)
MapSum(w, S) == MapThenSumSet(LAMBDA i : w[i], S)

LEMMA MapSumIs ==
  ASSUME NEW w, NEW S, IsFiniteSet(S)
  PROVE  MapSum(w, S) = SumOf(w, S)
<1> DEFINE Body(g, s) == IF s = {} THEN 0
                         ELSE w[CHOOSE x \in s : TRUE] + g[s \ {CHOOSE x \in s : TRUE}]
           C == CHOOSE g : g = [s \in SUBSET S |-> Body(g, s)]
<1>1. MapSum(w, S) = C[S]
  BY DEF MapSum, MapThenSumSet, MapThenFoldSet
<1>2. ASSUME NEW g, NEW s \in SUBSET S PROVE Body(g, s) = Added(w, g, s)
  BY DEF Added, Picked
<1> HIDE DEF Body
<1>3. PICK g : g = [s \in SUBSET S |-> Added(w, g, s)]
  BY SumExists
<1>4. g = [s \in SUBSET S |-> Body(g, s)]
  BY <1>2, <1>3
<1>5. C = [s \in SUBSET S |-> Body(C, s)]
  BY <1>4
<1>6. \A s \in SUBSET S : C[s] = Added(w, C, s)
  <2> HIDE DEF C
  <2>1. QED
    BY <1>2, <1>5
<1> HIDE DEF C
<1>7. C[S] = SumOf(w, S)
  BY <1>6, SumIs
<1>8. QED
  BY <1>1, <1>7

LEMMA SumAtMost ==
  ASSUME NEW w, NEW S, IsFiniteSet(S), NEW most \in Nat, \A x \in S : w[x] \in 0..most
  PROVE  SumOf(w, S) \in Nat /\ SumOf(w, S) <= most * Cardinality(S)
<1> DEFINE Bad == {T \in SUBSET S : ~(SumOf(w, T) <= most * Cardinality(T))}
<1>1. \A T \in SUBSET S : /\ IsFiniteSet(T) /\ Cardinality(T) \in Nat /\ SumOf(w, T) \in Nat
  <2> SUFFICES ASSUME NEW T \in SUBSET S
               PROVE  IsFiniteSet(T) /\ Cardinality(T) \in Nat /\ SumOf(w, T) \in Nat
    OBVIOUS
  <2>1. IsFiniteSet(T)
    BY FS_Subset
  <2>2. \A x \in T : w[x] \in Nat
    OBVIOUS
  <2>3. QED
    BY <2>1, <2>2, FS_CardinalityType, SumIsNat
<1>2. SUFFICES ASSUME Bad # {} PROVE FALSE
  BY <1>1
<1>3. PICK T \in Bad : \A U \in Bad : U \subseteq T => U = T
  <2>1. Bad \in SUBSET (SUBSET S)
    OBVIOUS
  <2> HIDE DEF Bad
  <2>2. QED
    BY <1>2, <2>1, LeastSubset
<1>4. T # {}
  <2>1. SumOf(w, {}) = 0 /\ Cardinality({}) = 0
    BY FS_EmptySet, SumRecursion
  <2>2. most * 0 = 0
    OBVIOUS
  <2>3. SumOf(w, {}) <= most * Cardinality({})
    BY <2>1, <2>2
  <2>4. QED
    BY <1>3, <2>3
<1>5. PICK x : x \in T
  BY <1>4
<1> DEFINE U == T \ {x}
<1>6. U \in SUBSET S /\ Cardinality(U) = Cardinality(T) - 1
  BY <1>1, <1>3, <1>5, FS_RemoveElement
<1>7. SumOf(w, U) <= most * Cardinality(U)
  BY <1>3, <1>5, <1>6
<1>8. SumOf(w, T) = w[x] + SumOf(w, U)
  <2>1. IsFiniteSet(T) /\ \A y \in T : w[y] \in Nat
    BY <1>1, <1>3
  <2>2. QED
    BY <1>5, <2>1, SumRemove
<1> DEFINE n == Cardinality(T)
<1>9. n \in Nat /\ n - 1 \in Nat /\ most * n = most * (n - 1) + most
  <2>1. n \in Nat /\ Cardinality(U) \in Nat
    BY <1>1, <1>3, <1>6
  <2>2. QED
    BY <1>6, <2>1
<1>10. w[x] <= most /\ w[x] \in Nat /\ SumOf(w, U) \in Nat /\ most * (n - 1) \in Nat
  BY <1>1, <1>3, <1>5, <1>6, <1>9
<1>11. SumOf(w, T) <= most * n
  <2>1. SumOf(w, U) <= most * (n - 1)
    BY <1>6, <1>7
  <2> HIDE DEF U, n
  <2>2. QED
    BY <1>8, <1>9, <1>10, <2>1
<1>12. QED
  BY <1>3, <1>11

LEMMA SliceIs ==
  ASSUME NEW text \in Seq(1..Widest), NEW offset \in Nat, NEW chars \in Nat
  PROVE  LET size == Len(Slice(text, offset, chars)) IN
         /\ Slice(text, offset, chars) \in Seq(1..Widest)
         /\ size \in Nat /\ size <= chars
         /\ size = IF offset >= Len(text) THEN 0
                   ELSE IF offset + chars <= Len(text) THEN chars
                   ELSE Len(text) - offset
<1> DEFINE end == Min({offset + chars, Len(text)})
           slice == Slice(text, offset, chars)
<1>1. Len(text) \in Nat /\ offset + chars \in Nat
  OBVIOUS
<1>2. end = IF offset + chars <= Len(text) THEN offset + chars ELSE Len(text)
  <2> DEFINE a == offset + chars
             b == Len(text)
  <2> HIDE DEF a, b
  <2>1. a \in Nat /\ b \in Nat
    BY <1>1 DEF a, b
  <2>2. Min({a, b}) = IF a <= b THEN a ELSE b
    BY <2>1, LesserIs
  <2>3. QED
    BY <2>2 DEF a, b
<1>3. slice = SubSeq(text, offset + 1, end)
  BY DEF Slice
<1> HIDE DEF end, slice
<1>4. end \in Nat /\ end <= Len(text)
  BY <1>1, <1>2
<1>5. slice \in Seq(1..Widest)
  <2> DEFINE Weight == 1..Widest
  <2> HIDE DEF Weight
  <2>1. text \in Seq(Weight)
    BY DEF Weight
  <2>2. \A i \in (offset + 1)..end : text[i] \in Weight
    BY <1>4, <2>1
  <2>3. SubSeq(text, offset + 1, end) \in Seq(Weight)
    BY <1>4, <2>1, <2>2
  <2>4. QED
    BY <1>3, <2>3 DEF Weight
<1>7. Len(slice) = IF offset + 1 <= end THEN end - (offset + 1) + 1 ELSE 0
  BY <1>3, <1>4
<1>8. QED
  BY <1>1, <1>2, <1>4, <1>5, <1>7 DEF slice

LEMMA PageSizeIs ==
  ASSUME NEW text \in Seq(1..Widest), NEW offset \in Nat, NEW chars \in Nat
  PROVE  /\ PageSize(text, offset, chars) \in Nat
         /\ PageSize(text, offset, chars) >= 1
         /\ PageSize(text, offset, chars) <= Envelope + Widest * chars
<1> DEFINE slice == Slice(text, offset, chars)
           size == PageSize(text, offset, chars)
           S == DOMAIN slice
<1>1. size = Envelope + MapSum(slice, S)
  BY DEF PageSize, MapSum, MapThenSumSet, MapThenFoldSet
<1>2. Envelope \in Nat /\ Envelope >= 1 /\ Widest \in Nat /\ Widest >= 1
  BY InspectAssumption
<1>3. slice \in Seq(1..Widest) /\ Len(slice) \in Nat /\ Len(slice) <= chars
  BY SliceIs
<1> HIDE DEF slice, size
<1>4. S = 1..Len(slice) /\ \A i \in S : slice[i] \in 0..Widest
  BY <1>2, <1>3
<1>5. IsFiniteSet(S) /\ Cardinality(S) = Len(slice)
  <2> DEFINE n == Len(slice)
  <2>1. n \in Nat /\ S = 1..n
    BY <1>3, <1>4
  <2> HIDE DEF n, S
  <2>2. IsFiniteSet(1..n) /\ Cardinality(1..n) = n
    BY <2>1, FS_Interval
  <2>3. QED
    BY <2>1, <2>2 DEF n
<1>6. SumOf(slice, S) \in Nat /\ SumOf(slice, S) <= Widest * Len(slice)
  <2> HIDE DEF S
  <2>1. SumOf(slice, S) \in Nat /\ SumOf(slice, S) <= Widest * Cardinality(S)
    BY <1>2, <1>4, <1>5, SumAtMost
  <2>2. QED
    BY <1>5, <2>1
<1>7. MapSum(slice, S) = SumOf(slice, S)
  BY <1>5, MapSumIs
<1> DEFINE n == Len(slice)
<1>8. Widest * n \in Nat /\ Widest * chars \in Nat /\ Widest * n <= Widest * chars
  <2> HIDE DEF n
  <2>1. n \in Nat /\ chars - n \in Nat
    BY <1>3 DEF n
  <2>2. Widest * (chars - n) \in Nat
    BY <1>2, <2>1
  <2>3. Widest * chars = Widest * n + Widest * (chars - n)
    BY <1>2, <2>1
  <2>4. Widest * n \in Nat /\ Widest * chars \in Nat
    BY <1>2, <2>1
  <2>5. QED
    BY <2>2, <2>3, <2>4
<1> HIDE DEF S, n
<1>9. size \in Nat /\ size >= 1 /\ size <= Envelope + Widest * chars
  <2> DEFINE sum == SumOf(slice, S)
             most == Widest * n
             wide == Widest * chars
  <2>1. /\ size = Envelope + sum /\ sum \in Nat /\ sum <= most
        /\ most \in Nat /\ wide \in Nat /\ most <= wide
    BY <1>1, <1>6, <1>7, <1>8 DEF n
  <2> HIDE DEF sum, most, wide
  <2>2. size \in Nat /\ size >= 1 /\ size <= Envelope + wide
    BY <1>2, <2>1
  <2>3. QED
    BY <2>2 DEF wide
<1>10. QED
  BY <1>9 DEF size

LEMMA NothingFits ==
  ASSUME NEW text \in Seq(1..Widest), NEW offset \in Nat
  PROVE  PageSize(text, offset, 0) <= Room
<1>1. PageSize(text, offset, 0) \in Nat /\ PageSize(text, offset, 0) <= Envelope + Widest * 0
  BY PageSizeIs
<1>2. Envelope \in Nat /\ Widest \in Nat /\ Room \in Nat /\ Envelope <= Room
  BY InspectAssumption
<1>3. QED
  BY <1>1, <1>2

LEMMA DivAtLeast ==
  ASSUME NEW a \in Nat, NEW d \in Nat, d > 0, NEW k \in Nat, a >= k * d
  PROVE  a \div d \in Nat /\ a \div d >= k
<1> DEFINE q == a \div d
           r == a % d
<1>1. q \in Nat /\ r \in Nat /\ r < d /\ a = q * d + r
  OBVIOUS
<1> HIDE DEF q, r
<1>2. ASSUME q < k PROVE FALSE
  <2> DEFINE e == k - q - 1
  <2>1. e \in Nat /\ k = q + 1 + e
    BY <1>1, <1>2
  <2> HIDE DEF e
  <2>2. k * d = q * d + d + e * d /\ e * d \in Nat /\ q * d \in Nat
    BY <1>1, <2>1
  <2>3. QED
    BY <1>1, <2>2
<1>3. q \in Nat /\ q >= k
  BY <1>1, <1>2
<1>4. QED
  BY <1>3 DEF q

(* How many characters are tried next. *)
Fewer(chars, size) == Max({0, Min({chars - Slack, (chars * Room) \div size - Slack})})

LEMMA FewerIs ==
  ASSUME NEW chars \in 1..MaxChars, NEW size \in Nat, size > Room,
         size <= Envelope + Widest * chars
  PROVE  Fewer(chars, size) \in 1..(chars - 1)
<1>1. /\ Slack \in Nat /\ Slack >= 1 /\ Room \in Nat /\ Room >= 1 /\ MaxChars \in Nat
      /\ Envelope \in Nat /\ Widest \in Nat /\ chars \in Nat
  BY InspectAssumption
<1> DEFINE most == Envelope + Widest * chars
<1>2. most \in Nat
  BY <1>1
<1>3. chars * Room >= (Slack + 1) * most
  <2>1. most > Room => chars * Room >= (Slack + 1) * most
    BY InspectAssumption
  <2> HIDE DEF most
  <2>2. size <= most
    BY DEF most
  <2>3. QED
    BY <1>1, <1>2, <2>1, <2>2
<1> HIDE DEF most
<1>4. most >= size
  BY DEF most
<1> DEFINE c == Slack + 1
<1>5. c * most >= c * size /\ c * size \in Nat /\ c * most \in Nat /\ c \in Nat
  <2>1. most - size \in Nat /\ c \in Nat
    BY <1>1, <1>2, <1>4
  <2> HIDE DEF c
  <2>2. c * (most - size) \in Nat /\ c * size \in Nat /\ c * most \in Nat
    BY <1>2, <2>1
  <2>3. c * most = c * size + c * (most - size)
    BY <1>2, <2>1
  <2>4. QED
    BY <2>1, <2>2, <2>3
<1> DEFINE given == chars * Room
           share == given \div size
<1>6. given \in Nat /\ given >= c * size
  <2>1. given \in Nat /\ given >= c * most
    BY <1>1, <1>3
  <2> HIDE DEF given, c
  <2>2. QED
    BY <1>5, <2>1
<1>7. share \in Nat /\ share >= c
  <2> HIDE DEF given, c
  <2>1. QED
    BY <1>1, <1>5, <1>6, DivAtLeast
<1>8. chars > c
  <2> SUFFICES ASSUME chars <= c PROVE FALSE
    BY <1>1, <1>5
  <2>1. c - chars \in Nat
    BY <1>1, <1>5
  <2> HIDE DEF c
  <2>2. c * size >= c * Room + c
    <3>1. size - Room - 1 \in Nat
      BY <1>1
    <3>2. c * (size - Room - 1) \in Nat /\ c * Room \in Nat
      BY <1>1, <1>5, <3>1
    <3>3. c * size = c * Room + c + c * (size - Room - 1)
      BY <1>1, <1>5, <3>1
    <3>4. QED
      BY <1>5, <3>2, <3>3
  <2>3. c * Room >= chars * Room
    <3>1. (c - chars) * Room \in Nat /\ chars * Room \in Nat /\ c * Room \in Nat
      BY <1>1, <1>5, <2>1
    <3>2. c * Room = chars * Room + (c - chars) * Room
      BY <1>1, <1>5, <2>1
    <3>3. QED
      BY <3>1, <3>2
  <2>4. chars * Room >= c * size /\ chars * Room \in Nat /\ c * Room \in Nat /\ c >= 1
    BY <1>1, <1>5, <1>6 DEF c
  <2>5. QED
    BY <1>5, <2>2, <2>3, <2>4
<1> DEFINE a == chars - Slack
           b == share - Slack
<1>9. a \in Nat /\ b \in Nat /\ a >= 1 /\ b >= 1 /\ a <= chars - 1
  <2> HIDE DEF share
  <2>1. QED
    BY <1>1, <1>7, <1>8
<1> HIDE DEF a, b
<1>10. Min({a, b}) \in Nat /\ Min({a, b}) >= 1 /\ Min({a, b}) <= a
  BY <1>9, LesserIs
<1> DEFINE lesser == Min({a, b})
<1> HIDE DEF lesser
<1>11. lesser \in Nat /\ lesser >= 1 /\ lesser <= a
  BY <1>10 DEF lesser
<1>12. Max({0, lesser}) = lesser
  BY <1>11, GreaterIs
<1>13. Fewer(chars, size) = lesser
  BY <1>12 DEF Fewer, lesser, a, b
<1>14. QED
  BY <1>1, <1>9, <1>11, <1>13


LEMMA FitIs ==
  ASSUME NEW text \in Seq(1..Widest), NEW offset \in Nat, NEW limit \in 1..MaxChars
  PROVE  /\ FitBlock(text, offset, limit) \in 1..limit
         /\ PageSize(text, offset, FitBlock(text, offset, limit)) <= Room
<1> DEFINE Weighs(c) == PageSize(text, offset, c)
           Body(f, c) == IF Weighs(c) <= Room \/ c = 0 THEN c ELSE f[Fewer(c, Weighs(c))]
           F == CHOOSE f : f = [c \in 0..limit |-> Body(f, c)]
<1>1. FitBlock(text, offset, limit) = F[limit]
  BY DEF FitBlock, Fewer
<1>2. limit \in Nat /\ MaxChars \in Nat /\ Room \in Nat
  BY InspectAssumption
<1>3. ASSUME NEW c \in 1..limit, ~(Weighs(c) <= Room) PROVE Fewer(c, Weighs(c)) \in 1..(c - 1)
  <2> DEFINE size == Weighs(c)
  <2>1. c \in Nat /\ c \in 1..MaxChars
    BY <1>2
  <2>2. size \in Nat /\ size <= Envelope + Widest * c
    BY <2>1, PageSizeIs
  <2> HIDE DEF size
  <2>3. size > Room
    BY <1>2, <1>3, <2>2 DEF size
  <2>4. Fewer(c, size) \in 1..(c - 1)
    BY <2>1, <2>2, <2>3, FewerIs
  <2>5. QED
    BY <2>4 DEF size
<1>4. Weighs(0) <= Room
  BY NothingFits
<1> HIDE DEF Weighs
<1>5. \E f : f = [c \in 0..limit |-> Body(f, c)]
  <2> DEFINE Good(n) == \E f : f = [c \in 0..n |-> Body(f, c)]
             Bad == {n \in 0..limit : ~Good(n)}
  <2>1. Good(0)
    <3> DEFINE f == [c \in 0..0 |-> 0]
    <3>1. f = [c \in 0..0 |-> Body(f, c)]
      OBVIOUS
    <3>2. QED
      BY <3>1
  <2>2. ASSUME NEW n \in 1..limit, Good(n - 1) PROVE Good(n)
    <3>1. PICK f : f = [c \in 0..(n - 1) |-> Body(f, c)]
      BY <2>2
    <3> DEFINE g == [c \in 0..n |-> Body(f, c)]
    <3>2. ASSUME NEW c \in 0..n PROVE Body(f, c) = Body(g, c)
      <4>1. CASE Weighs(c) <= Room \/ c = 0
        BY <4>1
      <4>2. CASE ~(Weighs(c) <= Room) /\ c # 0
        <5> DEFINE d == Fewer(c, Weighs(c))
        <5>1. d \in 1..(c - 1)
          BY <1>2, <1>3, <4>2
        <5> HIDE DEF d
        <5>2. d \in 0..n /\ d \in 0..(n - 1)
          BY <1>2, <5>1
        <5>3. g[d] = f[d]
          BY <3>1, <5>2
        <5>4. QED
          BY <4>2, <5>3 DEF d
      <4>3. QED
        BY <4>1, <4>2
    <3>3. g = [c \in 0..n |-> Body(g, c)]
      BY <3>2
    <3>4. QED
      BY <3>3
  <2>3. ASSUME Bad # {} PROVE FALSE
    <3>1. Bad \in SUBSET Nat
      BY <1>2
    <3> HIDE DEF Bad, Good
    <3>2. PICK n \in Bad : \A m \in Bad : n <= m
      BY <2>3, <3>1, LeastNat
    <3>3. n \in 0..limit /\ ~Good(n)
      BY <3>2 DEF Bad
    <3>4. n \in 1..limit /\ n - 1 \in 0..limit /\ n - 1 < n
      BY <1>2, <2>1, <3>3
    <3>5. Good(n - 1)
      BY <3>2, <3>4 DEF Bad
    <3>6. QED
      BY <2>2, <3>3, <3>4, <3>5
  <2>4. limit \in 0..limit
    BY <1>2
  <2> HIDE DEF Good
  <2>5. Good(limit)
    BY <2>3, <2>4
  <2>6. QED
    BY <2>5 DEF Good
<1>6. F = [c \in 0..limit |-> Body(F, c)]
  <2> HIDE DEF Body
  <2>1. QED
    BY <1>5
<1> HIDE DEF F
<1>7. \A c \in 0..limit : F[c] = Body(F, c)
  <2> HIDE DEF Body
  <2>1. QED
    BY <1>6
<1> DEFINE Fits(c) == F[c] \in 0..c /\ (c > 0 => F[c] > 0) /\ Weighs(F[c]) <= Room
           Bad == {c \in 0..limit : ~Fits(c)}
<1>8. ASSUME NEW c \in 0..limit, Weighs(c) <= Room \/ c = 0 PROVE Fits(c)
  <2>1. F[c] = c
    BY <1>7, <1>8
  <2>2. Weighs(c) <= Room
    BY <1>4, <1>8
  <2>3. c \in Nat
    BY <1>2
  <2>4. QED
    BY <2>1, <2>2, <2>3
<1>9. ASSUME NEW c \in 1..limit, ~(Weighs(c) <= Room),
             \A d \in 1..(c - 1) : Fits(d)
      PROVE  Fits(c)
  <2> DEFINE d == Fewer(c, Weighs(c))
  <2>1. d \in 1..(c - 1)
    BY <1>3, <1>9
  <2>2. F[c] = F[d]
    <3>1. c \in 0..limit /\ c # 0
      BY <1>2
    <3>2. QED
      BY <1>7, <1>9, <3>1
  <2>3. Fits(d)
    BY <1>9, <2>1
  <2> HIDE DEF d
  <2>4. QED
    BY <1>2, <2>1, <2>2, <2>3
<1>10. ASSUME Bad # {} PROVE FALSE
  <2>1. Bad \in SUBSET Nat
    BY <1>2
  <2> HIDE DEF Bad, Fits
  <2>2. PICK c \in Bad : \A d \in Bad : c <= d
    BY <1>10, <2>1, LeastNat
  <2>3. c \in 0..limit /\ ~Fits(c)
    BY <2>2 DEF Bad
  <2>4. ~(Weighs(c) <= Room) /\ c # 0
    BY <1>8, <2>3
  <2>5. c \in 1..limit
    BY <1>2, <2>3, <2>4
  <2>6. \A d \in 1..(c - 1) : Fits(d)
    BY <1>2, <2>2, <2>5 DEF Bad
  <2>7. QED
    BY <1>9, <2>3, <2>4, <2>5, <2>6
<1>11. limit \in 0..limit /\ limit > 0
  BY <1>2
<1>12. Fits(limit)
  <2> HIDE DEF Fits
  <2>1. QED
    BY <1>10, <1>11
<1>13. F[limit] \in 1..limit /\ Weighs(F[limit]) <= Room
  BY <1>2, <1>11, <1>12
<1>14. QED
  BY <1>1, <1>13 DEF Weighs

LEMMA PageIs ==
  ASSUME ask \in Asks, NEW b \in Blocks, NEW offset \in Nat, view[1] \in Nat,
         offset = ask.offset \/ (ask.offset <= offset /\ offset < Len(Text[b]))
  PROVE  LET page == Page(b, offset) IN
         /\ page \in PageRecords
         /\ page.session = view[1] /\ page.block = b
         /\ page.size <= Room /\ page.to >= ask.offset
         /\ page.from = offset
         /\ page.next # None =>
              page.next = page.to /\ page.from < page.to /\ page.to < Len(Text[b])
         /\ page.next = None => page.to = Max({Len(Text[b]), ask.offset})
<1> DEFINE text == Text[b]
           limit == Max({1, Min({ask.chars, MaxChars})})
           chars == FitBlock(text, offset, limit)
           kept == Len(Slice(text, offset, chars))
           end == offset + kept
           size == PageSize(text, offset, chars)
           next == IF end < Len(text) THEN end ELSE None
           page == Page(b, offset)
<1>1. page = [session |-> view[1], block |-> b, from |-> offset, to |-> end,
              next |-> next, size |-> size]
  BY DEF Page
<1>2. text \in Seq(1..Widest) /\ MaxChars \in Nat /\ MaxChars >= 1 /\ ask.chars \in Nat
      /\ ask.offset \in Nat /\ None \notin Nat
  BY InspectAssumption, AskIs
<1>3. Len(text) \in Nat
  <2> DEFINE Weight == 1..Widest
  <2> HIDE DEF Weight, text
  <2>1. text \in Seq(Weight)
    BY <1>2 DEF Weight
  <2>2. QED
    BY <2>1
<1>4. limit \in 1..MaxChars
  <2> DEFINE a == ask.chars
             lesser == Min({a, MaxChars})
  <2> HIDE DEF a
  <2>1. a \in Nat
    BY <1>2 DEF a
  <2>2. lesser = IF a <= MaxChars THEN a ELSE MaxChars
    BY <1>2, <2>1, LesserIs
  <2>3. limit = Max({1, lesser})
    BY DEF a
  <2> HIDE DEF lesser, limit
  <2>4. lesser \in Nat /\ lesser <= MaxChars
    BY <1>2, <2>1, <2>2
  <2>5. Max({1, lesser}) = IF 1 >= lesser THEN 1 ELSE lesser
    BY <2>4, GreaterIs
  <2>6. QED
    BY <1>2, <2>3, <2>4, <2>5
<1> HIDE DEF text, limit
<1>5. chars \in 1..limit /\ size <= Room
  BY <1>2, <1>4, FitIs
<1> HIDE DEF chars
<1>6. chars \in Nat /\ chars >= 1
  BY <1>2, <1>4, <1>5
<1>7. /\ kept \in Nat
      /\ kept = IF offset >= Len(text) THEN 0
                ELSE IF offset + chars <= Len(text) THEN chars
                ELSE Len(text) - offset
  BY <1>2, <1>6, SliceIs
<1>8. size \in Nat
  BY <1>2, <1>6, PageSizeIs
<1> HIDE DEF kept, size
<1>9. /\ end \in Nat /\ end >= ask.offset
      /\ end < Len(text) => offset < end
      /\ ~(end < Len(text)) => end = IF Len(text) >= ask.offset THEN Len(text) ELSE ask.offset
  <2>1. offset = ask.offset \/ (ask.offset <= offset /\ offset < Len(text))
    BY DEF text
  <2>2. QED
    BY <1>2, <1>3, <1>6, <1>7, <2>1
<1> HIDE DEF end
<1>10. Max({Len(text), ask.offset}) = IF Len(text) >= ask.offset THEN Len(text) ELSE ask.offset
  <2> DEFINE a == Len(text)
             c == ask.offset
  <2>1. a \in Nat /\ c \in Nat
    BY <1>2, <1>3
  <2> HIDE DEF a, c
  <2>2. Max({a, c}) = IF a >= c THEN a ELSE c
    BY <2>1, GreaterIs
  <2>3. QED
    BY <2>2 DEF a, c
<1>11. /\ next \in Nat \cup {None}
       /\ next # None => next = end /\ end < Len(text)
       /\ next = None => ~(end < Len(text))
  BY <1>2, <1>9
<1> HIDE DEF next, page
<1>12. /\ page \in PageRecords
       /\ page.session = view[1] /\ page.block = b /\ page.size = size
       /\ page.to = end /\ page.from = offset /\ page.next = next
  BY <1>1, <1>8, <1>9, <1>11 DEF PageRecords
<1>13. QED
  <2>1. page.next = None => page.to = Max({Len(text), ask.offset})
    BY <1>9, <1>10, <1>11, <1>12
  <2>2. page.next # None => page.next = page.to /\ page.from < page.to /\ page.to < Len(text)
    BY <1>9, <1>11, <1>12
  <2>3. QED
    BY <1>5, <1>9, <1>12, <2>1, <2>2 DEF page, text


-----------------------------------------------------------------------------
(* The block that is paged through.                                          *)
LEMMA Lasts ==
  ASSUME Stored, Recording \/ Commands \/ UNCHANGED vars, NEW s \in DOMAIN runs
  PROVE  /\ s \in DOMAIN runs'
         /\ \A k \in DOMAIN runs[s] : k \in DOMAIN runs'[s] /\ runs'[s][k] = runs[s][k]
<1>1. Grows /\ Stored'
  BY StoreGrows
<1>2. /\ Len(runs) \in Nat /\ DOMAIN runs = 1..Len(runs)
      /\ Len(runs') \in Nat /\ DOMAIN runs' = 1..Len(runs')
  BY <1>1, RunsAre DEF Stored
<1>3. QED
  BY <1>1, <1>2 DEF Grows, IsPartOf

LEMMA NumbersAreFinite ==
  ASSUME NEW run, IsRun(run)
  PROVE  IsFiniteSet(DOMAIN run) /\ CountOf(run) \in Nat
<1>1. PICK n \in Nat : DOMAIN run \in SUBSET (1..n)
  BY DEF IsRun, IsNumbered
<1>2. IsFiniteSet(1..n)
  BY FS_Interval
<1>3. IsFiniteSet(DOMAIN run)
  BY <1>1, <1>2, FS_Subset
<1>4. QED
  BY <1>3, FS_CardinalityType DEF CountOf

LEMMA BlocksOfRun ==
  ASSUME NEW run, IsRun(run)
  PROVE  IsFiniteSet(UNION {Contents(run[k]) : k \in DOMAIN run})
<1> DEFINE all == {Contents(run[k]) : k \in DOMAIN run}
<1>1. IsFiniteSet(DOMAIN run)
  BY NumbersAreFinite
<1>2. IsFiniteSet(all)
  <2> DEFINE f == [k \in DOMAIN run |-> Contents(run[k])]
  <2>1. f \in Surjection(DOMAIN run, all)
    BY DEF Surjection
  <2> HIDE DEF f, all
  <2>2. QED
    BY <1>1, <2>1, FS_Surjection
<1>3. ASSUME NEW k \in DOMAIN run PROVE IsFiniteSet(Contents(run[k]))
  <2> DEFINE blocks == run[k].blocks
             f == [i \in DOMAIN blocks |-> blocks[i]]
             image == Contents(run[k])
  <2>1. blocks \in Seq(Blocks)
    BY DEF IsRun, IsTurn
  <2>2. f \in Surjection(DOMAIN blocks, image)
    BY DEF Surjection, Contents
  <2> HIDE DEF f, image, blocks
  <2>3. DOMAIN blocks = 1..Len(blocks) /\ Len(blocks) \in Nat
    BY <2>1
  <2>4. IsFiniteSet(DOMAIN blocks)
    BY <2>3, FS_Interval
  <2>5. IsFiniteSet(image)
    BY <2>2, <2>4, FS_Surjection
  <2>6. QED
    BY <2>5 DEF image
<1>4. \A S \in all : IsFiniteSet(S)
  BY <1>3
<1> HIDE DEF all
<1>5. IsFiniteSet(UNION all)
  BY <1>2, <1>4, FS_UNION
<1>6. QED
  BY <1>5 DEF all

(* What is found once is found again: of the blocks that the argument names  *)
(* the run has no other.                                                     *)
LEMMA FindIs ==
  ASSUME TypeInv, ViewInv, BlockInv, FindBlock
  PROVE  /\ Seen("choose") /\ runs' = runs /\ view' = view /\ report'.pages = report.pages
         /\ ask.tool = "block"
         /\ report.pages # <<>> => report'.block = report.block
         /\ \/ Refused /\ report'.block = report.block
            \/ Taken("find") /\ report'.block \in ask.block
                             /\ \E k \in DOMAIN Run : report'.block \in Contents(Run[k])
<1> DEFINE all == UNION {Contents(Run[k]) : k \in DOMAIN Run}
           found == ask.block \cap all
<1>1. At("find") /\ runs' = runs /\ view' = view
  BY DEF FindBlock
<1>2. /\ Shaped /\ "find" \in Steps /\ Planned("find") /\ ask.tool = "block" /\ Planned("choose")
  <2>1. Planned("find") /\ Shaped /\ "find" \in Steps
    BY <1>1, AtIs, StepsAre DEF TypeInv, Shaped
  <2>2. QED
    BY <2>1 DEF Planned
<1>3. Seen("choose")
  BY <1>1, <1>2, AtIs, StepsAre, PlaceIs
<1>4. view[1] \in DOMAIN runs /\ IsRun(Run)
  BY <1>3, RunIs, RunHas
<1>5. IsFiniteSet(found)
  <2>1. IsFiniteSet(all)
    BY <1>4, BlocksOfRun
  <2> HIDE DEF all
  <2>2. QED
    BY <2>1, FS_Subset
<1>6. CASE Cardinality(found) = 1
  <2>1. PICK b \in found :
          /\ report' = [report EXCEPT
                !.block = b, !.carriers = {k \in DOMAIN Run : b \in Contents(Run[k])},
                !.turns = DOMAIN Run]
          /\ Done
    BY <1>6 DEF FindBlock
  <2>2. report'.block = b /\ report'.pages = report.pages
    <3> DEFINE carriers == {k \in DOMAIN Run : b \in Contents(Run[k])}
               numbers == DOMAIN Run
    <3>1. report' = [report EXCEPT !.block = b, !.carriers = carriers, !.turns = numbers]
      BY <2>1
    <3> HIDE DEF carriers, numbers
    <3>2. QED
      BY <1>2, <3>1, ReportIs DEF Shaped
  <2>3. Taken("find")
    BY <1>1, <2>1, TakeIs DEF Taken, Done, At
  <2>4. b \in ask.block /\ \E k \in DOMAIN Run : b \in Contents(Run[k])
    OBVIOUS
  <2>5. ASSUME report.pages # <<>> PROVE report.block = b
    <3>1. view[1] = report.pages[1].session /\ report.block \in found
      BY <1>3, <2>5 DEF BlockInv, Run
    <3>2. PICK x : found = {x}
      BY <1>5, <1>6, FS_Singleton
    <3> HIDE DEF found
    <3>3. QED
      BY <3>1, <3>2
  <2>6. QED
    BY <1>1, <1>2, <1>3, <2>2, <2>3, <2>4, <2>5
<1>7. CASE Cardinality(found) # 1
  <2>1. Fail("error") /\ report' = report
    BY <1>7 DEF FindBlock
  <2>2. Refused
    BY <2>1 DEF Fail, Refused
  <2>3. QED
    BY <1>1, <1>2, <1>3, <2>1, <2>2
<1>8. QED
  BY <1>6, <1>7

LEMMA SendIs ==
  ASSUME TypeInv, ViewInv, BlockInv, SendPage
  PROVE  /\ At("page") /\ Taken("page") /\ Seen("choose") /\ Seen("find") /\ ask.tool = "block"
         /\ runs' = runs /\ view' = view /\ report'.block = report.block
         /\ report'.pages = Append(report.pages, Page(report.block, Offset))
<1> DEFINE pages == Append(report.pages, Page(report.block, Offset))
<1>1. At("page") /\ Done /\ runs' = runs /\ view' = view /\ report' = [report EXCEPT !.pages = pages]
  BY DEF SendPage
<1>2. Shaped /\ Planned("page") /\ ask.tool = "block" /\ Planned("choose") /\ Planned("find")
  <2>1. Planned("page") /\ Shaped
    BY <1>1, AtIs, StepsAre DEF TypeInv, Shaped
  <2>2. QED
    BY <2>1 DEF Planned
<1>3. Seen("choose") /\ Seen("find")
  BY <1>1, <1>2, AtIs, StepsAre, PlaceIs
<1>4. Taken("page")
  BY <1>1, TakeIs DEF Taken, Done, At
<1> HIDE DEF pages
<1>5. report'.pages = pages /\ report'.block = report.block
  BY <1>1, <1>2, ReportIs DEF Shaped
<1>6. QED
  BY <1>1, <1>2, <1>3, <1>4, <1>5 DEF pages

LEMMA BlockStays ==
  ASSUME TypeInv, BlockInv, ViewInv, HandlesInv, report.pages \in Seq(PageRecords),
         Recording \/ Commands \/ UNCHANGED vars
  PROVE  BlockInv'
<1>1. Shaped /\ Stored /\ ask \in Asks /\ "choose" \in Steps /\ "find" \in Steps
  BY StepsAre DEF TypeInv, Shaped, Stored
<1>2. ask' = ask /\ \A step : Planned(step)' <=> Planned(step)
  BY <1>1, Frames, PlannedStays
<1>3. ~NothingListed \/ ask.tool # "block"
  BY DEF NothingListed
<1>4. ASSUME Seen("find")'
      PROVE  /\ report'.block \in ask.block
             /\ \E k \in DOMAIN Run' : report'.block \in Contents(Run'[k])
  <2>1. Planned("find") /\ ask.tool = "block" /\ Planned("choose")
    BY <1>2, <1>4 DEF Seen, Planned
  <2>2. CASE FindBlock
    <3>1. ~Refused
      BY <1>4 DEF Refused, Seen, Live
    <3>2. Run' = Run
      BY <2>2, FindIs DEF Run
    <3>3. QED
      BY <2>2, <3>1, <3>2, FindIs
  <2>3. CASE ~FindBlock
    <3>1. Seen("find")
      <4>1. ~Taken("find")
        BY <2>3, TakeIs DEF Taken
      <4>2. QED
        BY <1>1, <1>3, <1>4, <2>1, <4>1, Moves
    <3>2. report'.block = report.block
      BY <1>1, <2>3, Frames
    <3>3. Seen("choose")
      BY <1>1, <2>1, <3>1, SeenDown, PlaceIs
    <3>4. \A k \in DOMAIN Run : k \in DOMAIN Run' /\ Run'[k] = Run[k]
      BY <3>3, RunGrows DEF IsPartOf
    <3>5. PICK k \in DOMAIN Run : report.block \in Contents(Run[k])
      BY <3>1 DEF BlockInv
    <3>6. report.block \in ask.block
      BY <3>1 DEF BlockInv
    <3>7. k \in DOMAIN Run' /\ report.block \in Contents(Run'[k])
      BY <3>4, <3>5
    <3>8. QED
      BY <3>2, <3>6, <3>7
  <2>4. QED
    BY <2>2, <2>3
<1> DEFINE session == report'.pages[1].session
           Held == /\ ask.tool = "block"
                   /\ session \in DOMAIN runs'
                   /\ report'.block \in ask.block
                   /\ \E k \in DOMAIN runs'[session] : report'.block \in Contents(runs'[session][k])
                   /\ ask.handle # 0 => session = ask.handle
                   /\ ask.sessions # <<>> => session \in ask.sessions[1].name
                   /\ Seen("choose")' => view'[1] = session
<1>5. ASSUME SendPage PROVE Held
  <2>1. /\ Seen("choose") /\ Seen("find") /\ ask.tool = "block"
        /\ runs' = runs /\ view' = view /\ report'.block = report.block
        /\ report'.pages = Append(report.pages, Page(report.block, Offset))
    BY <1>5, SendIs
  <2>2. session = view[1]
    <3> DEFINE page == Page(report.block, Offset)
    <3>1. page.session = view[1]
      BY DEF Page
    <3> HIDE DEF page
    <3>2. report'.pages = Append(report.pages, page)
      BY <2>1 DEF page
    <3>3. CASE report.pages = <<>>
      BY <3>1, <3>2, <3>3
    <3>4. CASE report.pages # <<>>
      <4>1. report.pages[1].session = view[1]
        BY <2>1, <3>4 DEF BlockInv
      <4> DEFINE Record == PageRecords
      <4> HIDE DEF Record
      <4>2. report.pages \in Seq(Record)
        BY DEF Record
      <4>3. report'.pages[1] = report.pages[1]
        BY <3>2, <3>4, <4>2
      <4>4. QED
        BY <4>1, <4>3
    <3>5. QED
      BY <3>3, <3>4
  <2>3. ViewFits /\ view[1] \in DOMAIN runs
    BY <2>1, RunIs DEF ViewInv
  <2>4. ask.sessions # <<>> => view[1] \in ask.sessions[1].name
    <3> DEFINE Selectors == [name : SUBSET DOMAIN Recordable, turn : Nat \cup {None}]
    <3>1. ask.sessions \in Seq(Selectors)
      BY <1>1, AskIs
    <3> HIDE DEF Selectors
    <3>2. ask.sessions # <<>> => 1 \in DOMAIN ask.sessions
      BY <3>1
    <3>3. QED
      BY <2>3, <3>2 DEF ViewFits
  <2>5. /\ report.block \in ask.block
        /\ \E k \in DOMAIN runs[view[1]] : report.block \in Contents(runs[view[1]][k])
    BY <2>1 DEF BlockInv, Run
  <2> HIDE DEF session
  <2>6. QED
    BY <2>1, <2>2, <2>3, <2>4, <2>5 DEF ViewFits
<1>6. ASSUME ~SendPage, report'.pages # <<>> PROVE Held
  <2>1. report'.pages = report.pages
    BY <1>1, <1>6, Frames
  <2> DEFINE first == report.pages[1].session
  <2>2. /\ report.pages # <<>>
        /\ ask.tool = "block" /\ first \in DOMAIN runs /\ report.block \in ask.block
        /\ \E k \in DOMAIN runs[first] : report.block \in Contents(runs[first][k])
        /\ ask.handle # 0 => first = ask.handle
        /\ ask.sessions # <<>> => first \in ask.sessions[1].name
        /\ Seen("choose") => view[1] = first
    BY <1>6, <2>1 DEF BlockInv
  <2>3. report'.block = report.block
    <3>1. CASE FindBlock
      BY <2>2, <3>1, FindIs
    <3>2. CASE ~FindBlock
      BY <1>1, <3>2, Frames
    <3>3. QED
      BY <3>1, <3>2
  <2>4. session = first
    BY <2>1
  <2> HIDE DEF first, session
  <2>5. /\ first \in DOMAIN runs'
        /\ \A k \in DOMAIN runs[first] : k \in DOMAIN runs'[first] /\ runs'[first][k] = runs[first][k]
    BY <1>1, <2>2, Lasts
  <2>6. \E k \in DOMAIN runs'[first] : report.block \in Contents(runs'[first][k])
    <3>1. PICK k \in DOMAIN runs[first] : report.block \in Contents(runs[first][k])
      BY <2>2
    <3>2. k \in DOMAIN runs'[first] /\ runs'[first][k] = runs[first][k]
      BY <2>5, <3>1
    <3>3. QED
      BY <3>1, <3>2
  <2>7. ASSUME Seen("choose")' PROVE view'[1] = first
    <3>1. CASE Seen("choose")
      BY <2>2, <3>1, RunGrows
    <3>2. CASE Taken("choose")
      <4>1. Choose /\ exit' = "running"
        BY <3>2, TakeIs DEF Taken
      <4>2. ViewFits' /\ \A i \in DOMAIN ask.sessions :
                           ask.sessions[i].name \cap DOMAIN runs \subseteq {view'[i]}
        BY <4>1, Chooses
      <4>3. CASE ask.handle # 0
        BY <1>2, <2>2, <4>2, <4>3 DEF ViewFits
      <4>4. CASE ask.handle = 0
        <5>1. WellFormed(ask) /\ ask.sessions \in Seq([name : SUBSET DOMAIN Recordable, turn : Nat \cup {None}])
          BY <1>1, AskIs
        <5>2. ask.sessions # <<>>
          BY <2>2, <4>4, <5>1 DEF WellFormed
        <5> DEFINE Selectors == [name : SUBSET DOMAIN Recordable, turn : Nat \cup {None}]
        <5> HIDE DEF Selectors
        <5>3. 1 \in DOMAIN ask.sessions
          BY <5>1, <5>2 DEF Selectors
        <5>4. first \in ask.sessions[1].name \cap DOMAIN runs
          BY <2>2, <5>2
        <5>5. QED
          BY <4>2, <5>3, <5>4
      <4>5. QED
        BY <4>3, <4>4
    <3>3. QED
      BY <1>1, <1>3, <2>2, <2>7, <3>1, <3>2, Moves
  <2>8. QED
    BY <2>2, <2>3, <2>4, <2>5, <2>6, <2>7
<1>7. report'.pages # <<>> => Held
  BY <1>5, <1>6
<1>8. QED
  BY <1>2, <1>4, <1>7 DEF BlockInv


-----------------------------------------------------------------------------
(* The pages that were sent.                                                 *)
PageFits(pages, block, i) ==
  LET page == pages[i] IN
  /\ page.session = pages[1].session /\ page.block = block
  /\ page.size <= Room /\ page.to >= ask.offset
  /\ page.from = IF i = 1 THEN ask.offset ELSE pages[i - 1].to
  /\ page.next # None =>
       page.next = page.to /\ page.from < page.to /\ page.to < Len(Text[block])
  /\ page.next = None => page.to = Max({Len(Text[block]), ask.offset})

LEMMA PagesAre ==
  PagesInv <=> /\ report.pages \in Seq(PageRecords)
               /\ \A i \in DOMAIN report.pages : PageFits(report.pages, report.block, i)
               /\ report.pages # <<>> /\ "page" \in ToSet(todo) => Last(report.pages).next # None
BY DEF PagesInv, PageFits

LEMMA PagesStay ==
  ASSUME TypeInv, BlockInv, ViewInv, HandlesInv, PagesInv,
         Recording \/ Commands \/ UNCHANGED vars
  PROVE  PagesInv'
<1>1. Shaped /\ Stored /\ ask \in Asks /\ "page" \in Steps /\ TypeInv'
  BY StepsAre, TypeStays DEF TypeInv, Shaped, Stored
<1>2. ask' = ask /\ \A step : Planned(step)' <=> Planned(step)
  BY <1>1, Frames, PlannedStays
<1> DEFINE pages == report.pages
           n == Len(pages)
<1>3. /\ pages \in Seq(PageRecords)
      /\ \A i \in DOMAIN pages : PageFits(pages, report.block, i)
      /\ pages # <<>> /\ "page" \in ToSet(todo) => Last(pages).next # None
  BY PagesAre
<1> DEFINE Goal == /\ report'.pages \in Seq(PageRecords)
                   /\ \A i \in DOMAIN report'.pages : PageFits(report'.pages, report'.block, i)
                   /\ report'.pages # <<>> /\ "page" \in ToSet(todo') =>
                        Last(report'.pages).next # None
<1>4. ASSUME ~SendPage PROVE Goal
  <2>1. report'.pages = pages
    BY <1>1, <1>4, Frames
  <2>2. pages # <<>> => report'.block = report.block
    <3>1. CASE FindBlock
      BY <3>1, FindIs
    <3>2. CASE ~FindBlock
      BY <1>1, <3>2, Frames
    <3>3. QED
      BY <3>1, <3>2
  <2>3. \A i \in DOMAIN pages : PageFits(pages, report'.block, i)
    <3>1. CASE pages = <<>>
      BY <3>1
    <3>2. CASE pages # <<>>
      BY <1>3, <2>2, <3>2
    <3>3. QED
      BY <3>1, <3>2
  <2>4. ASSUME pages # <<>>, "page" \in ToSet(todo') PROVE Last(pages).next # None
    <3>1. Live' /\ ~Seen("page")'
      <4>1. todo' # <<>>
        BY <2>4 DEF ToSet
      <4>2. exit' = "running"
        BY <1>1, <4>1 DEF TypeInv
      <4>3. QED
        BY <2>4, <4>2 DEF Live, Seen
    <3>2. exit # "idle"
      BY <2>4, ReportIs DEF TypeInv
    <3>3. CASE TurnPage
      BY <3>3 DEF TurnPage
    <3>4. CASE Live /\ ~Seen("page")
      <4>1. Planned("page")
        BY <2>4 DEF BlockInv, Planned
      <4>2. "page" \in ToSet(todo)
        BY <3>4, <4>1 DEF Seen
      <4>3. QED
        BY <1>3, <2>4, <4>2
    <3>5. QED
      BY <1>1, <3>1, <3>2, <3>3, <3>4, Moves
  <2> HIDE DEF pages
  <2>5. QED
    BY <1>3, <2>1, <2>3, <2>4
<1>5. ASSUME SendPage PROVE Goal
  <2> DEFINE page == Page(report.block, Offset)
             sent == report'.pages
  <2>1. /\ At("page") /\ Taken("page") /\ Seen("choose") /\ Seen("find")
        /\ report'.block = report.block /\ sent = Append(pages, page)
    BY <1>5, SendIs
  <2>2. "page" \in ToSet(todo) /\ "page" \notin ToSet(todo')
    <3>1. todo' = Tail(todo)
      BY <2>1 DEF Taken
    <3>2. "page" \in ToSet(todo) /\ ToSet(Tail(todo)) = ToSet(todo) \ {"page"}
      BY <1>1, <2>1, AtIs
    <3>3. QED
      BY <3>1, <3>2
  <2>3. report.block \in Blocks /\ view[1] \in Nat
    <3>1. report.block \in ask.block /\ ask.block \in SUBSET Blocks
      BY <1>1, <2>1, AskIs DEF BlockInv
    <3>2. view[1] \in DOMAIN runs /\ DOMAIN runs = 1..Len(runs) /\ Len(runs) \in Nat
      BY <1>1, <2>1, RunIs, RunsAre
    <3>3. QED
      BY <3>1, <3>2
  <2>4. n \in Nat /\ DOMAIN pages = 1..n /\ (pages = <<>> <=> n = 0)
        /\ \A i \in 1..n : pages[i] \in PageRecords
    <3> DEFINE Record == PageRecords
    <3>1. pages \in Seq(Record)
      BY <1>3
    <3> HIDE DEF Record, pages
    <3>2. n \in Nat /\ DOMAIN pages = 1..n /\ (pages = <<>> <=> n = 0)
          /\ \A i \in 1..n : pages[i] \in Record
      BY <3>1
    <3>3. QED
      BY <3>2 DEF Record
  <2>5. /\ Offset \in Nat
        /\ Offset = ask.offset \/ (ask.offset <= Offset /\ Offset < Len(Text[report.block]))
        /\ Offset = IF n = 0 THEN ask.offset ELSE pages[n].to
    <3>1. CASE n = 0
      <4>1. Offset = ask.offset
        BY <2>4, <3>1 DEF Offset
      <4>2. ask.offset \in Nat
        BY <1>1, AskIs
      <4>3. QED
        BY <3>1, <4>1, <4>2
    <3>2. CASE n # 0
      <4>1. Last(pages) = pages[n] /\ n \in DOMAIN pages /\ pages # <<>>
        BY <2>4, <3>2 DEF Last
      <4>2. Offset = pages[n].next /\ pages[n].next # None
        BY <1>3, <2>2, <4>1 DEF Offset
      <4>3. PageFits(pages, report.block, n) /\ pages[n] \in PageRecords
        BY <1>3, <2>4, <4>1
      <4>4. pages[n].to \in Nat
        BY <4>3 DEF PageRecords
      <4>5. /\ pages[n].next = pages[n].to /\ pages[n].to < Len(Text[report.block])
            /\ pages[n].to >= ask.offset
        BY <4>2, <4>3 DEF PageFits
      <4>6. ask.offset \in Nat
        BY <1>1, AskIs
      <4> HIDE DEF n, pages
      <4>7. QED
        BY <3>2, <4>2, <4>4, <4>5, <4>6
    <3>3. QED
      BY <3>1, <3>2
  <2>6. /\ page \in PageRecords
        /\ page.session = view[1] /\ page.block = report.block
        /\ page.size <= Room /\ page.to >= ask.offset
        /\ page.from = Offset
        /\ page.next # None =>
             page.next = page.to /\ page.from < page.to /\ page.to < Len(Text[report.block])
        /\ page.next = None => page.to = Max({Len(Text[report.block]), ask.offset})
    <3> DEFINE o == Offset
               b == report.block
    <3>1. /\ ask \in Asks /\ b \in Blocks /\ o \in Nat /\ view[1] \in Nat
          /\ o = ask.offset \/ (ask.offset <= o /\ o < Len(Text[b]))
      BY <1>1, <2>3, <2>5
    <3> HIDE DEF o, b, page
    <3>2. LET sheet == Page(b, o) IN
          /\ sheet \in PageRecords
          /\ sheet.session = view[1] /\ sheet.block = b
          /\ sheet.size <= Room /\ sheet.to >= ask.offset
          /\ sheet.from = o
          /\ sheet.next # None =>
               sheet.next = sheet.to /\ sheet.from < sheet.to /\ sheet.to < Len(Text[b])
          /\ sheet.next = None => sheet.to = Max({Len(Text[b]), ask.offset})
      BY <3>1, PageIs
    <3>3. page = Page(b, o)
      BY DEF page, b, o
    <3>4. QED
      BY <3>2, <3>3 DEF b, o
  <2>7. n # 0 => pages[1].session = view[1]
    BY <2>1, <2>4 DEF BlockInv
  <2> HIDE DEF page, sent, pages, n
  <2>8. /\ sent \in Seq(PageRecords) /\ DOMAIN sent = 1..(n + 1)
        /\ sent[n + 1] = page /\ \A i \in 1..n : sent[i] = pages[i]
    <3> DEFINE Record == PageRecords
    <3>1. pages \in Seq(Record) /\ page \in Record
      BY <1>3, <2>6
    <3> HIDE DEF Record
    <3>2. /\ sent \in Seq(Record) /\ DOMAIN sent = 1..(n + 1)
          /\ sent[n + 1] = page /\ \A i \in 1..n : sent[i] = pages[i]
      BY <2>1, <3>1 DEF n
    <3>3. QED
      BY <3>2 DEF Record
  <2>9. sent[1].session = view[1]
    <3>1. CASE n = 0
      BY <2>6, <2>8, <3>1
    <3>2. CASE n # 0
      BY <2>4, <2>7, <2>8, <3>2
    <3>3. QED
      BY <3>1, <3>2
  <2>10. ASSUME NEW i \in 1..n PROVE PageFits(sent, report.block, i)
    <3>1. PageFits(pages, report.block, i)
      BY <1>3, <2>4
    <3>2. sent[i] = pages[i] /\ sent[1] = pages[1] /\ (i # 1 => sent[i - 1] = pages[i - 1])
      BY <2>4, <2>8
    <3>3. QED
      BY <3>1, <3>2 DEF PageFits
  <2>11. PageFits(sent, report.block, n + 1)
    <3>1. page.from = IF n + 1 = 1 THEN ask.offset ELSE sent[(n + 1) - 1].to
      <4>1. CASE n = 0
        BY <2>5, <2>6, <4>1
      <4>2. CASE n # 0
        <5>1. sent[(n + 1) - 1] = pages[n] /\ n + 1 # 1
          BY <2>4, <2>8, <4>2
        <5>2. QED
          BY <2>5, <2>6, <4>2, <5>1
      <4>3. QED
        BY <4>1, <4>2
    <3>2. QED
      BY <2>6, <2>8, <2>9, <3>1 DEF PageFits
  <2>12. \A i \in DOMAIN sent : PageFits(sent, report.block, i)
    BY <2>4, <2>8, <2>10, <2>11
  <2>13. QED
    BY <2>1, <2>2, <2>8, <2>12 DEF sent
<1>6. Goal
  BY <1>4, <1>5
<1>7. QED
  BY <1>2, <1>6 DEF PagesInv, PageFits


-----------------------------------------------------------------------------
(* The invariant.                                                            *)
LEMMA IInvBegins ==
  ASSUME Init
  PROVE  IInv
<1>1. /\ runs = <<>> /\ ask \in Asks /\ todo = <<>> /\ bound = 0 /\ view = <<>>
      /\ report = NoReport /\ exit = "idle"
  BY DEF Init
<1>2. /\ Len(runs) = 0 /\ DOMAIN runs = {} /\ runs \in Seq(Runs)
      /\ Len(runs) <= Len(Recordable) /\ ToSet(todo) = {} /\ InOrder(todo) /\ todo \in Seq(Steps)
  BY <1>1, InspectAssumption DEF ToSet, InOrder
<1>3. ~Live /\ \A step : ~Seen(step)
  BY <1>1 DEF Live, Seen
<1>4. TypeInv
  <2>1. bound \in 0..Len(runs)
    BY <1>1, <1>2
  <2>2. QED
    BY <1>1, <1>2, <2>1 DEF TypeInv
<1>5. ViewInv
  BY <1>1, <1>3 DEF ViewInv
<1>6. HandlesInv
  <2>1. 0 \in 0..Len(runs) /\ report.handles = <<>> /\ DOMAIN <<>> = 1..0
    BY <1>1, <1>2, ReportIs
  <2>2. \A s \in 1..0 : FALSE
    OBVIOUS
  <2>3. QED
    BY <1>3, <2>1, <2>2 DEF HandlesInv
<1>7. DiffsInv
  BY <1>1, ReportIs DEF DiffsInv
<1>8. TargetInv /\ CountInv
  BY <1>1, <1>3, ReportIs DEF TargetInv, CountInv
<1>9. TokensInv /\ CacheInv /\ EvictionsInv /\ ProjectInv
  BY <1>3 DEF TokensInv, CacheInv, EvictionsInv, ProjectInv
<1>10. ListInv
  <2>1. report.calls = <<>> /\ report.sessions = <<>>
    BY <1>1, ReportIs
  <2>2. 0 \in 0..Len(runs) /\ DOMAIN report.sessions = 1..0 /\ Len(report.calls) <= 0
    BY <1>2, <2>1
  <2>3. DOMAIN report.calls = {} /\ DOMAIN report.sessions = {}
    BY <2>1
  <2>4. report.calls \in Seq(Runs) /\ report.sessions \in Seq(Nat)
    BY <2>1
  <2>5. QED
    BY <1>2, <1>3, <2>1, <2>2, <2>3, <2>4 DEF ListInv
<1>11. BlockInv
  BY <1>1, <1>3, ReportIs DEF BlockInv
<1>12. PagesInv
  <2>1. report.pages = <<>>
    BY <1>1, ReportIs
  <2>2. report.pages \in Seq(PageRecords) /\ DOMAIN report.pages = {}
    BY <2>1
  <2>3. QED
    BY <2>1, <2>2 DEF PagesInv
<1>13. QED
  BY <1>4, <1>5, <1>6, <1>7, <1>8, <1>9, <1>10, <1>11, <1>12 DEF IInv

LEMMA IInvStays ==
  ASSUME IInv, [Next]_vars
  PROVE  IInv'
<1>1. Recording \/ Commands \/ UNCHANGED vars
  BY NextIs
<1>2. /\ TypeInv /\ ViewInv /\ HandlesInv /\ DiffsInv /\ TargetInv /\ CountInv /\ TokensInv
      /\ CacheInv /\ EvictionsInv /\ ProjectInv /\ ListInv /\ BlockInv /\ PagesInv
  BY DEF IInv
<1>3. report.pages \in Seq(PageRecords)
  BY <1>2 DEF PagesInv
<1>4. TypeInv'
  BY <1>1, <1>2, TypeStays
<1>5. ViewInv'
  BY <1>1, <1>2, ViewStays
<1>6. HandlesInv'
  BY <1>1, <1>2, HandlesStay
<1>7. DiffsInv'
  BY <1>1, <1>2, DiffsStay
<1>8. TargetInv'
  BY <1>1, <1>2, TargetStays
<1>9. CountInv'
  BY <1>1, <1>2, CountStays
<1>10. TokensInv'
  BY <1>1, <1>2, TokensStay
<1>11. CacheInv'
  BY <1>1, <1>2, CacheStays
<1>12. EvictionsInv'
  BY <1>1, <1>2, EvictionsStay
<1>13. ProjectInv'
  BY <1>1, <1>2, ProjectStays
<1>14. ListInv'
  BY <1>1, <1>2, ListStays
<1>15. BlockInv'
  BY <1>1, <1>2, <1>3, BlockStays
<1>16. PagesInv'
  BY <1>1, <1>2, PagesStay
<1>17. QED
  BY <1>4, <1>5, <1>6, <1>7, <1>8, <1>9, <1>10, <1>11, <1>12, <1>13, <1>14, <1>15, <1>16
     DEF IInv

(* What is known of a command at each of its steps (above) is known of it    *)
(* however the recording of other sessions and turns falls between them.     *)
THEOREM CommandIsInOrder == Spec => []IInv
<1>1. Init => IInv
  BY IInvBegins
<1>2. IInv /\ [Next]_vars => IInv'
  BY IInvStays
<1>3. QED
  BY <1>1, <1>2, PTL DEF Spec

(* The pages a client is sent one after the other are the whole of the text  *)
(* (`ctxdiff_block`, `_fit_block`), however long the block, whatever its     *)
(* characters take, and whatever was recorded in between.                    *)
THEOREM PagesAreWhole == Spec => []PagesCover
<1>1. IInv => PagesCover
  <2> SUFFICES ASSUME IInv, report.pages # <<>>
               PROVE  /\ \A i \in DOMAIN report.pages :
                           LET pages == report.pages IN
                           /\ pages[i].session = pages[1].session /\ pages[i].block = report.block
                           /\ pages[i].size <= Room
                           /\ pages[i].from = IF i = 1 THEN ask.offset ELSE pages[i - 1].to
                           /\ pages[i].next # None => pages[i].from < pages[i].to
                      /\ Last(report.pages).next = None =>
                           Last(report.pages).to = Max({Len(Text[report.block]), ask.offset})
    BY DEF PagesCover
  <2> DEFINE pages == report.pages
             n == Len(pages)
  <2>1. /\ pages \in Seq(PageRecords) /\ pages # <<>>
        /\ \A i \in DOMAIN pages : PageFits(pages, report.block, i)
    BY PagesAre DEF IInv
  <2>2. Last(pages) = pages[n] /\ n \in DOMAIN pages
    <3> DEFINE Record == PageRecords
    <3>1. pages \in Seq(Record) /\ pages # <<>>
      BY <2>1
    <3> HIDE DEF Record, pages
    <3>2. QED
      BY <3>1 DEF Last
  <2>3. PageFits(pages, report.block, n)
    BY <2>1, <2>2
  <2> HIDE DEF pages
  <2>4. Last(pages).next = None => Last(pages).to = Max({Len(Text[report.block]), ask.offset})
    BY <2>2, <2>3 DEF PageFits
  <2>5. QED
    BY <2>1, <2>4 DEF PageFits, pages
<1>2. QED
  BY <1>1, CommandIsInOrder, PTL


-----------------------------------------------------------------------------
(* What a command has answered.                                              *)
LEMMA AnsweredIs ==
  ASSUME IInv, Answered
  PROVE  /\ Live /\ todo = <<>> /\ exit \notin {"idle", "running"}
         /\ \A step : Planned(step) => Seen(step)
<1>1. Live /\ exit \notin {"idle", "running"}
  BY DEF Answered, Live
<1>2. todo = <<>>
  BY <1>1 DEF IInv, TypeInv
<1>3. ToSet(todo) = {}
  BY <1>2 DEF ToSet
<1>4. QED
  BY <1>1, <1>2, <1>3 DEF Seen

(* What an analysis read is a run, part of the one that was chosen. *)
LEMMA AsReadIs ==
  ASSUME IInv, NEW analysis \in Analyses, Seen(analysis)
  PROVE  /\ Seen("choose") /\ Run \in Runs /\ IsRun(AsRead(analysis))
         /\ SawEnough(report.asOf[analysis])
         /\ DOMAIN AsRead(analysis) = report.asOf[analysis]
         /\ DOMAIN AsRead(analysis) \subseteq DOMAIN Run
         /\ \A k \in DOMAIN AsRead(analysis) : AsRead(analysis)[k] = Run[k]
         /\ ask.tool = "explain" => Seen("target") /\ Seen("previous")
         /\ ask.tool # "explain" => report.target = 0
<1>1. TypeInv /\ ViewInv /\ TargetInv
  BY DEF IInv
<1>2. /\ Planned(analysis) /\ Live
  BY DEF Seen
<1>3. Seen("choose") /\ (ask.tool = "explain" => Seen("target") /\ Seen("previous"))
  BY <1>1, <1>2, AnalysesAre, SeenDown, StepsAre
<1>4. Run \in Runs
  BY <1>1, <1>3, RunIs
<1>5. SawEnough(report.asOf[analysis])
  BY DEF IInv, TokensInv, CacheInv, EvictionsInv, Analyses
<1>6. report.asOf[analysis] \subseteq DOMAIN Run
  BY <1>5 DEF SawEnough
<1>7. /\ IsRun(AsRead(analysis)) /\ DOMAIN AsRead(analysis) = report.asOf[analysis]
      /\ \A k \in report.asOf[analysis] : AsRead(analysis)[k] = Run[k]
  BY <1>4, <1>6, PartIsRun DEF AsRead
<1>8. ask.tool # "explain" => report.target = 0
  BY <1>1 DEF TargetInv, Planned
<1>9. QED
  BY <1>3, <1>4, <1>5, <1>6, <1>7, <1>8

(* What `explain` looked for the turn before in is a run as well. *)
LEMMA PreviousIs ==
  ASSUME IInv, Seen("previous"), Seen("choose")
  PROVE  /\ IsRun(AsRead("previous")) /\ DOMAIN AsRead("previous") = report.asOf.previous
         /\ report.asOf.previous \subseteq DOMAIN Run
         /\ \A k \in report.asOf.previous : AsRead("previous")[k] = Run[k]
         /\ report.target \in report.asOf.previous
         /\ LET earlier == Earlier(AsRead("previous"), report.target) IN
            report.previous = IF earlier = {} THEN 0 ELSE Max(earlier)
<1>1. /\ report.asOf.previous \subseteq DOMAIN Run /\ report.target \in report.asOf.previous
      /\ LET earlier == Earlier(AsRead("previous"), report.target) IN
         report.previous = IF earlier = {} THEN 0 ELSE Max(earlier)
  BY DEF IInv, TargetInv
<1>2. Run \in Runs
  BY RunIs DEF IInv
<1> DEFINE numbers == report.asOf.previous
<1> HIDE DEF numbers
<1>3. /\ IsRun(Restrict(Run, numbers)) /\ DOMAIN Restrict(Run, numbers) = numbers
      /\ \A k \in numbers : Restrict(Run, numbers)[k] = Run[k]
  BY <1>1, <1>2, PartIsRun DEF numbers
<1>4. AsRead("previous") = Restrict(Run, numbers)
  BY DEF AsRead, numbers
<1>5. QED
  BY <1>1, <1>3, <1>4 DEF numbers

(* In whatever run, the turn before the one that is explained is the one it  *)
(* was compared with, or one that was stored between the two since.          *)
LEMMA ComparedWith ==
  ASSUME IInv, NEW analysis \in Analyses, Seen(analysis), NEW agent,
         NEW p \in Successive(AsRead(analysis), agent), p[2] = report.target
  PROVE  BeforeTarget(p[1], analysis)
<1> DEFINE run == AsRead(analysis)
           early == AsRead("previous")
           k == report.target
           seen == report.asOf.previous
           earlier == Earlier(early, k)
<1>1. /\ IsRun(run) /\ DOMAIN run = report.asOf[analysis] /\ SawEnough(report.asOf[analysis])
      /\ \A i \in DOMAIN run : run[i] = Run[i]
      /\ Seen("choose") /\ ask.tool = "explain" => Seen("target") /\ Seen("previous")
      /\ ask.tool # "explain" => report.target = 0
  BY AsReadIs
<1>2. /\ p[1] \in DOMAIN run /\ k \in DOMAIN run /\ p[1] < k
      /\ run[p[1]].agent = run[k].agent
      /\ \A j \in DOMAIN run : p[1] < j /\ j < k => run[j].agent # run[p[1]].agent
  BY DEF Successive
<1> HIDE DEF run
<1>3. \A j \in DOMAIN run : j \in Nat /\ j > 0
  BY <1>1 DEF IsRun, IsNumbered
<1>4. ask.tool = "explain"
  BY <1>1, <1>2, <1>3
<1>5. Seen("previous") /\ Seen("choose")
  BY <1>1, <1>4, AsReadIs
<1>6. /\ IsRun(early) /\ DOMAIN early = seen /\ k \in seen
      /\ \A j \in seen : early[j] = Run[j]
      /\ report.previous = IF earlier = {} THEN 0 ELSE Max(earlier)
  BY <1>5, PreviousIs
<1>7. seen \subseteq DOMAIN run
  BY <1>1, <1>4 DEF SawEnough
<1> HIDE DEF early, k, seen
<1>8. \A j \in seen : early[j] = run[j]
  BY <1>1, <1>6, <1>7
<1>9. earlier = {j \in seen : run[j].agent = run[k].agent /\ j < k}
  BY <1>6, <1>8 DEF Earlier, TurnsOf
<1>10. earlier # {} => Max(earlier) \in earlier /\ \A j \in earlier : j <= Max(earlier)
  BY <1>6, EarlierIs DEF IsRun
<1> HIDE DEF earlier
<1>11. ASSUME earlier # {} PROVE Max(earlier) \in DOMAIN run /\ Max(earlier) <= p[1]
  <2> DEFINE m == Max(earlier)
  <2>1. m \in DOMAIN run /\ run[m].agent = run[k].agent /\ m < k
    BY <1>7, <1>9, <1>10, <1>11
  <2> HIDE DEF m
  <2>2. ~(p[1] < m)
    BY <1>2, <2>1
  <2>3. QED
    BY <1>2, <1>3, <2>1, <2>2 DEF m
<1>12. CASE p[1] \in seen
  <2>1. p[1] \in earlier
    BY <1>2, <1>9, <1>12
  <2>2. p[1] <= Max(earlier) /\ Max(earlier) <= p[1] /\ Max(earlier) \in Nat /\ p[1] \in Nat
    BY <1>2, <1>3, <1>10, <1>11, <2>1
  <2>3. p[1] = Max(earlier)
    BY <2>2
  <2>4. QED
    BY <1>6, <2>1, <2>3 DEF BeforeTarget
<1>13. CASE p[1] \notin seen
  <2>1. report.previous < p[1]
    <3>1. CASE earlier = {}
      BY <1>2, <1>3, <1>6, <3>1
    <3>2. CASE earlier # {}
      <4>1. Max(earlier) \in seen
        BY <1>9, <1>10, <3>2
      <4>2. Max(earlier) # p[1] /\ Max(earlier) <= p[1] /\ Max(earlier) \in Nat /\ p[1] \in Nat
        BY <1>2, <1>3, <1>11, <1>13, <3>2, <4>1
      <4>3. QED
        BY <1>6, <3>2, <4>2
    <3>3. QED
      BY <3>1, <3>2
  <2>2. p[1] \in report.asOf[analysis]
    BY <1>1, <1>2
  <2>3. QED
    BY <1>13, <2>1, <2>2 DEF BeforeTarget, seen
<1>14. QED
  BY <1>12, <1>13

(* Every diff accounts for every block of both turns, and an explanation is  *)
(* of a turn and the one before of its agent among those that were stored    *)
(* when it looked (`diff_calls`, `_previous_turn`), whatever is stored since.*)
THEOREM AllDiffsAccount == Spec => []DiffAccounts
<1>1. ASSUME IInv PROVE DiffAccounts
  <2>1. ASSUME NEW d \in report.diffs
        PROVE  OneFateEach(d.old, d.new, d.diff) /\ Balanced(d.old, d.new, d.diff)
    <3>1. PICK old \in Seq(Blocks), new \in Seq(Blocks) : d = Sides(old, new)
      BY <1>1 DEF IInv, DiffsInv
    <3>2. OneFateEach(old, new, DiffCalls(old, new)) /\ Balanced(old, new, DiffCalls(old, new))
      BY DiffsAreExact
    <3> DEFINE diff == DiffCalls(old, new)
    <3> HIDE DEF diff
    <3>3. d = [old |-> old, new |-> new, diff |-> diff]
      BY <3>1 DEF Sides, diff
    <3>4. d.old = old /\ d.new = new /\ d.diff = diff
      BY <3>3
    <3>5. QED
      BY <3>2, <3>4 DEF diff
  <2> DEFINE early == AsRead("previous")
             k == report.target
             earlier == Earlier(early, k)
  <2>2. ASSUME exit = "answer", ask.tool = "explain"
        PROVE  {p[1] : p \in {q \in Successive(early, None) : q[2] = k}} = {report.previous} \ {0}
    <3>1. Seen("previous") /\ Seen("choose")
      BY <1>1, <2>2, AnsweredIs DEF Planned, Answered
    <3>2. /\ IsRun(early) /\ k \in DOMAIN early
          /\ report.previous = IF earlier = {} THEN 0 ELSE Max(earlier)
      BY <1>1, <3>1, PreviousIs
    <3> HIDE DEF early, k
    <3>3. Successive(early, None) = Pairs(early, None)
      BY <3>2, PairsAreSuccessive DEF IsRun
    <3>4. k \in Scope(early, None)
      BY <3>2 DEF Scope
    <3>5. CASE earlier = {}
      <4>1. ASSUME NEW q \in Pairs(early, None), q[2] = k PROVE FALSE
        BY <3>5, <4>1 DEF Pairs
      <4>2. QED
        BY <3>2, <3>3, <3>5, <4>1
    <3>6. CASE earlier # {}
      <4>1. \A q \in Pairs(early, None) : q[2] = k => q[1] = Max(earlier)
        BY DEF Pairs
      <4> DEFINE pair == <<Max(earlier), k>>
      <4>2. pair \in Pairs(early, None) /\ pair[1] = Max(earlier) /\ pair[2] = k
        BY <3>4, <3>6 DEF Pairs
      <4>3. Max(earlier) # 0
        <5>1. Max(earlier) \in earlier
          BY <3>2, <3>6, EarlierIs DEF IsRun
        <5>2. Max(earlier) \in DOMAIN early
          BY <5>1 DEF Earlier, TurnsOf
        <5>3. QED
          BY <3>2, <5>2 DEF IsRun, IsNumbered
      <4> HIDE DEF earlier, pair
      <4>4. {p[1] : p \in {q \in Pairs(early, None) : q[2] = k}} = {Max(earlier)}
        BY <4>1, <4>2
      <4>5. QED
        BY <3>2, <3>3, <3>6, <4>3, <4>4
    <3>7. QED
      BY <3>5, <3>6
  <2>3. QED
    BY <2>1, <2>2 DEF DiffAccounts
<1>2. QED
  BY <1>1, CommandIsInOrder, PTL

(* An eviction that a command reports was final when the command read the    *)
(* run, is reported once, and none is left out (`analyze_evictions`).        *)
THEOREM ReportedEvictionsAreFinal == Spec => []EvictionsAreFinal
<1>1. ASSUME IInv PROVE EvictionsAreFinal
  <2> DEFINE run == AsRead("evictions")
             found == report.evictions.evictions
             agent == ReportOn
  <2> SUFFICES ASSUME Answered, report.asOf.evictions # {}
               PROVE  /\ \A e, f \in found : e.agent = f.agent /\ e.block = f.block => e = f
                      /\ \A e \in found :
                           /\ e.entered <= e.tagged /\ e.tagged <= e.lastSeen
                           /\ <<e.lastSeen, e.evicted>> \in Successive(run, None)
                           /\ e.tag \in ToSet(run[e.tagged].tags) \ {None}
                           /\ e.evicted = report.target => BeforeTarget(e.lastSeen, "evictions")
                      /\ {<<e.lastSeen, e.evicted, e.block>> : e \in found} =
                           UNION {{<<p[1], p[2], b>> :
                                     b \in {c \in Lost(run, p) : IsTagged(run, run[p[1]].agent, c)}} :
                                    p \in Successive(run, agent)}
    BY DEF EvictionsAreFinal
  <2>1. Seen("evictions") /\ "evictions" \in Analyses
    <3>1. Live
      BY <1>1, AnsweredIs
    <3>2. Seen("evictions")
      BY <1>1, <3>1 DEF IInv, EvictionsInv
    <3>3. QED
      BY <3>2 DEF Analyses
  <2>2. IsRun(run) /\ found = AnalyzeEvictions(run, agent).evictions
    BY <1>1, <2>1, AsReadIs DEF IInv, EvictionsInv
  <2>3. ASSUME NEW p \in Successive(run, agent) PROVE p \in Successive(run, None)
    BY DEF Successive
  <2> DEFINE Fits(turn) == BeforeTarget(turn, "evictions")
  <2>4. ASSUME NEW p \in Successive(run, agent), p[2] = report.target PROVE Fits(p[1])
    BY <1>1, <2>1, <2>4, ComparedWith
  <2> HIDE DEF run, found, agent, Fits
  <2>5. /\ \A e, f \in found : e.agent = f.agent /\ e.block = f.block => e = f
        /\ \A e \in found :
             /\ e.entered <= e.tagged /\ e.tagged <= e.lastSeen
             /\ <<e.lastSeen, e.evicted>> \in Successive(run, agent)
             /\ e.agent = run[e.lastSeen].agent
             /\ e.tag \in ToSet(run[e.tagged].tags) \ {None}
        /\ {<<e.lastSeen, e.evicted, e.block>> : e \in found} =
             UNION {{<<p[1], p[2], b>> :
                       b \in {c \in Lost(run, p) : IsTagged(run, run[p[1]].agent, c)}} :
                      p \in Successive(run, agent)}
    BY <2>2, EvictionsAreExact
  <2>6. ASSUME NEW e \in found
        PROVE  /\ <<e.lastSeen, e.evicted>> \in Successive(run, None)
               /\ e.evicted = report.target => Fits(e.lastSeen)
    <3> DEFINE p == <<e.lastSeen, e.evicted>>
    <3>1. p \in Successive(run, agent) /\ p[1] = e.lastSeen /\ p[2] = e.evicted
      BY <2>5
    <3> HIDE DEF p
    <3>2. p \in Successive(run, None) /\ (p[2] = report.target => Fits(p[1]))
      BY <2>3, <2>4, <3>1
    <3>3. QED
      BY <3>1, <3>2 DEF p
  <2>7. QED
    BY <2>5, <2>6 DEF Fits
<1>2. QED
  BY <1>1, CommandIsInOrder, PTL

(* A break of the prefix cache that a command reports is one of the run it   *)
(* read, none is left out, and its culprit fits (`analyze_cache`).           *)
THEOREM ReportedBreaksAreReal == Spec => []BreaksAreReal
<1>1. ASSUME IInv PROVE BreaksAreReal
  <2> DEFINE run == AsRead("cache")
             breaks == report.cache.breaks
             agent == ReportOn
  <2> SUFFICES ASSUME Answered, report.asOf.cache # {}
               PROVE  /\ {<<b.prev, b.turn>> : b \in breaks} =
                           {p \in Successive(run, agent) : ~Extends(run, p)}
                      /\ \A b \in breaks :
                           /\ BreakFits(b, run[b.prev].blocks, run[b.turn].blocks)
                           /\ b.turn = report.target => BeforeTarget(b.prev, "cache")
    BY DEF BreaksAreReal
  <2>1. Seen("cache") /\ "cache" \in Analyses
    <3>1. Live
      BY <1>1, AnsweredIs
    <3>2. Seen("cache")
      BY <1>1, <3>1 DEF IInv, CacheInv
    <3>3. QED
      BY <3>2 DEF Analyses
  <2>2. IsRun(run) /\ breaks = Breaks(run, agent)
    <3>1. report.cache = AnalyzeCache(run, agent)
      BY <1>1, <2>1 DEF IInv, CacheInv
    <3>2. AnalyzeCache(run, agent).breaks = Breaks(run, agent)
      BY DEF AnalyzeCache
    <3>3. QED
      BY <1>1, <2>1, <3>1, <3>2, AsReadIs
  <2> DEFINE Fits(turn) == BeforeTarget(turn, "cache")
  <2>3. ASSUME NEW p \in Successive(run, agent), p[2] = report.target PROVE Fits(p[1])
    BY <1>1, <2>1, <2>3, ComparedWith
  <2> HIDE DEF run, breaks, agent, Fits
  <2>4. /\ {<<b.prev, b.turn>> : b \in breaks} =
             {p \in Successive(run, agent) : ~Extends(run, p)}
        /\ \A b \in breaks : BreakFits(b, run[b.prev].blocks, run[b.turn].blocks)
    BY <2>2, BreaksAreExact
  <2>5. ASSUME NEW b \in breaks, b.turn = report.target PROVE Fits(b.prev)
    <3> DEFINE p == <<b.prev, b.turn>>
    <3>1. p \in Successive(run, agent) /\ p[1] = b.prev /\ p[2] = b.turn
      BY <2>4
    <3> HIDE DEF p
    <3>2. QED
      BY <2>3, <2>5, <3>1
  <2>6. QED
    BY <2>4, <2>5 DEF Fits
<1>2. QED
  BY <1>1, CommandIsInOrder, PTL

(* Each gate passes just if what it claims is true of what its analysis read.*)
LEMMA GateIs ==
  ASSUME IInv, Live, todo = <<>>, ask.tool = "check", NEW gate \in ask.gates
  PROVE  /\ Passes(gate) <=> Holds(gate, AsRead(ReadBy(gate)), Agent)
         /\ report.turns \subseteq report.asOf[ReadBy(gate)]
<1> DEFINE analysis == ReadBy(gate)
           run == AsRead(analysis)
<1>1. gate \in Gates
  BY AskIs DEF IInv, TypeInv
<1>2. /\ analysis \in Analyses /\ Planned(analysis)
      /\ gate \in TokenGates => analysis = "tokens"
      /\ gate = "require-stable-prefix" => analysis = "cache"
      /\ gate = "no-tagged-eviction" => analysis = "evictions"
  <2>1. CASE gate \in TokenGates
    <3>1. analysis = "tokens" /\ ask.gates \cap TokenGates # {}
      BY <2>1 DEF ReadBy
    <3>2. QED
      BY <2>1, <3>1 DEF Planned, Analyses, TokenGates
  <2>2. CASE gate = "require-stable-prefix"
    BY <2>2 DEF Planned, Analyses, ReadBy, TokenGates
  <2>3. CASE gate = "no-tagged-eviction"
    BY <2>3 DEF Planned, Analyses, ReadBy, TokenGates
  <2>4. QED
    BY <1>1, <2>1, <2>2, <2>3 DEF TokenGates
<1> HIDE DEF analysis
<1>3. Seen(analysis)
  BY <1>2 DEF Seen, ToSet
<1>4. IsRun(run) /\ SawEnough(report.asOf[analysis])
  BY <1>2, <1>3, AsReadIs
<1>5. ReportOn = Agent
  BY DEF ReportOn
<1>6. /\ analysis = "tokens" => report.tokens = AnalyzeRun(run, Agent)
      /\ analysis = "cache" => report.cache = AnalyzeCache(run, Agent)
      /\ analysis = "evictions" => report.evictions = AnalyzeEvictions(run, Agent)
  BY <1>3, <1>5 DEF IInv, TokensInv, CacheInv, EvictionsInv
<1> DEFINE tokens == AnalyzeRun(run, Agent)
           cache == AnalyzeCache(run, Agent)
           evictions == AnalyzeEvictions(run, Agent)
           agent == Agent
<1>7. tokens = AnalyzeRun(run, agent) /\ cache = AnalyzeCache(run, agent)
      /\ evictions = AnalyzeEvictions(run, agent)
  OBVIOUS
<1> HIDE DEF run, tokens, cache, evictions, agent
<1>8. /\ MaxContextPasses(tokens) <=> Holds("max-context", run, agent)
      /\ MaxContextPctPasses(tokens) <=> Holds("max-context-pct", run, agent)
      /\ StablePrefixPasses(cache) <=> Holds("require-stable-prefix", run, agent)
      /\ NoDeadSchemasPasses(tokens) <=> Holds("no-dead-schemas", run, agent)
      /\ NoTaggedEvictionPasses(evictions) <=> Holds("no-tagged-eviction", run, agent)
      /\ MaxGrowthPasses(tokens) <=> Holds("max-growth", run, agent)
      /\ MaxGrowthPctPasses(tokens) <=> Holds("max-growth-pct", run, agent)
  BY <1>4, <1>7, GatesAreExact
<1>9. /\ analysis = "tokens" => report.tokens = tokens
      /\ analysis = "cache" => report.cache = cache
      /\ analysis = "evictions" => report.evictions = evictions
      /\ Agent = agent
  BY <1>6 DEF tokens, cache, evictions, agent
<1>10. Passes(gate) <=> Holds(gate, run, agent)
  <2>1. CASE gate = "max-context"
    BY <1>2, <1>8, <1>9, <2>1 DEF Passes, TokenGates, Gates
  <2>2. CASE gate = "max-context-pct"
    BY <1>2, <1>8, <1>9, <2>2 DEF Passes, TokenGates, Gates
  <2>3. CASE gate = "require-stable-prefix"
    BY <1>2, <1>8, <1>9, <2>3 DEF Passes
  <2>4. CASE gate = "no-dead-schemas"
    BY <1>2, <1>8, <1>9, <2>4 DEF Passes, TokenGates, Gates
  <2>5. CASE gate = "no-tagged-eviction"
    BY <1>2, <1>8, <1>9, <2>5 DEF Passes
  <2>6. CASE gate = "max-growth"
    BY <1>2, <1>8, <1>9, <2>6 DEF Passes, TokenGates, Gates
  <2>7. CASE gate = "max-growth-pct"
    BY <1>2, <1>8, <1>9, <2>7 DEF Passes, TokenGates, Gates
  <2>8. QED
    BY <1>1, <2>1, <2>2, <2>3, <2>4, <2>5, <2>6, <2>7 DEF Gates
<1>11. report.turns \subseteq report.asOf[analysis]
  BY <1>4 DEF SawEnough
<1>12. QED
  BY <1>9, <1>10, <1>11 DEF analysis, run

(* The verdict of `ctxdiff check`: green or red, it is true of a run with at *)
(* least the turns that were there when the check began (`analyze_check`).   *)
THEOREM VerdictsHold == Spec => []GreenHolds
<1>1. Init => GreenHolds
  BY DEF Init, GreenHolds, Answered
<1>2. ASSUME IInv, GreenHolds, [Next]_vars PROVE GreenHolds'
  <2> SUFFICES ASSUME Answered', ask'.tool = "check" PROVE GreenHolds'
    BY DEF GreenHolds
  <2>1. ask' = ask /\ ask \in Asks
    <3>1. Recording \/ Commands \/ UNCHANGED vars
      BY <1>2, NextIs
    <3>2. Shaped /\ ask \in Asks
      BY <1>2 DEF IInv, TypeInv, Shaped
    <3>3. QED
      BY <3>1, <3>2, Frames
  <2>2. UNCHANGED vars \/ Finish
    <3>1. exit' \in {"answer", "failed"}
      BY DEF Answered
    <3>2. \/ Continues /\ (Recording \/ ReadCalls \/ UNCHANGED vars)
          \/ Start \/ TurnPage \/ Finish
          \/ Refused \/ NothingListed
          \/ \E step \in Steps : Taken(step)
      BY <1>2, NextIs, Outcomes
    <3>3. ~(Continues /\ (Recording \/ ReadCalls))
      BY <3>1 DEF Continues, Recording, OpenSession, RecordCall, ReadCalls, At
    <3>4. ~Start /\ ~TurnPage /\ ~Refused /\ ~\E step \in Steps : Taken(step)
      BY <3>1 DEF Start, TurnPage, Refused, Taken
    <3>5. ~NothingListed
      BY <2>1 DEF NothingListed
    <3>6. QED
      BY <3>2, <3>3, <3>4, <3>5
  <2>3. CASE UNCHANGED vars
    <3>1. /\ runs' = runs /\ ask' = ask /\ view' = view /\ report' = report /\ exit' = exit
      BY <2>3 DEF vars
    <3>2. Agent' = Agent /\ \A analysis : AsRead(analysis)' = AsRead(analysis)
      BY <3>1 DEF Agent, AsRead, Run
    <3>3. QED
      BY <1>2, <3>1, <3>2 DEF GreenHolds, Answered, ReadBy
  <2>4. CASE Finish
    <3>1. /\ exit = "running" /\ todo = <<>>
          /\ exit' = IF \A gate \in ask.gates : Passes(gate) THEN "answer" ELSE "failed"
          /\ runs' = runs /\ ask' = ask /\ view' = view /\ report' = report
      BY <2>4 DEF Finish
    <3>2. Live /\ ask.tool = "check"
      BY <2>1, <3>1 DEF Live
    <3>3. ask.gates # {}
      <4>1. ~UsageError
        BY <1>2, <3>1 DEF IInv, TypeInv
      <4>2. ~ask.server
        BY <2>1, <3>2, AskIs DEF WellFormed
      <4>3. QED
        BY <3>2, <4>1, <4>2 DEF UsageError
    <3>4. report.turns # {}
      <4>1. Seen("count")
        BY <3>1, <3>2 DEF Seen, Planned, ToSet
      <4>2. QED
        BY <1>2, <4>1 DEF IInv, CountInv
    <3>5. \A gate \in ask.gates :
            /\ Passes(gate) <=> Holds(gate, AsRead(ReadBy(gate)), Agent)
            /\ report.turns \subseteq report.asOf[ReadBy(gate)]
      BY <1>2, <3>1, <3>2, GateIs
    <3>6. Agent' = Agent /\ \A analysis : AsRead(analysis)' = AsRead(analysis)
      BY <3>1 DEF Agent, AsRead, Run
    <3> DEFINE Claim(gate) == Holds(gate, AsRead(ReadBy(gate)), Agent)
    <3>7. (exit' = "answer") <=> \A gate \in ask.gates : Claim(gate)
      BY <3>1, <3>5
    <3>8. \A gate \in ask.gates :
            Claim(gate) <=> Holds(gate, AsRead(ReadBy(gate))', Agent')
      BY <3>6
    <3>9. QED
      BY <3>1, <3>3, <3>4, <3>5, <3>6, <3>7 DEF GreenHolds, ReadBy
  <2>5. QED
    BY <2>2, <2>3, <2>4
<1>3. QED
  BY <1>1, <1>2, CommandIsInOrder, PTL DEF Spec


-----------------------------------------------------------------------------
(* The calls of a listing, by session and by agent.                          *)
LEMMA SumOfBoth ==
  ASSUME NEW S, IsFiniteSet(S), NEW u, NEW v, NEW w,
         \A x \in S : v[x] \in Nat /\ w[x] \in Nat /\ u[x] = v[x] + w[x]
  PROVE  SumOf(u, S) = SumOf(v, S) + SumOf(w, S)
<1> DEFINE Bad == {T \in SUBSET S : SumOf(u, T) # SumOf(v, T) + SumOf(w, T)}
<1>1. SUFFICES ASSUME Bad # {} PROVE FALSE
  OBVIOUS
<1>2. PICK T \in Bad : \A U \in Bad : U \subseteq T => U = T
  <2>1. Bad \in SUBSET (SUBSET S)
    OBVIOUS
  <2> HIDE DEF Bad
  <2>2. QED
    BY <1>1, <2>1, LeastSubset
<1>3. IsFiniteSet(T) /\ T \subseteq S
  BY <1>2, FS_Subset
<1>4. T # {}
  <2>1. SumOf(u, {}) = 0 /\ SumOf(v, {}) = 0 /\ SumOf(w, {}) = 0
    BY FS_EmptySet, SumRecursion
  <2>2. SumOf(u, {}) = SumOf(v, {}) + SumOf(w, {})
    BY <2>1
  <2>3. QED
    BY <1>2, <2>2
<1>5. PICK x : x \in T
  BY <1>4
<1> DEFINE U == T \ {x}
<1>6. U \in SUBSET S /\ U # T /\ U \subseteq T /\ IsFiniteSet(U)
  BY <1>3, <1>5, FS_RemoveElement
<1>7. SumOf(u, U) = SumOf(v, U) + SumOf(w, U)
  BY <1>2, <1>6
<1>8. /\ SumOf(u, T) = u[x] + SumOf(u, U)
      /\ SumOf(v, T) = v[x] + SumOf(v, U)
      /\ SumOf(w, T) = w[x] + SumOf(w, U)
  <2>1. \A y \in T : u[y] \in Nat /\ v[y] \in Nat /\ w[y] \in Nat
    BY <1>3
  <2>2. QED
    BY <1>3, <1>5, <2>1, SumRemove
<1>9. SumOf(v, U) \in Nat /\ SumOf(w, U) \in Nat
  <2>1. \A y \in U : v[y] \in Nat /\ w[y] \in Nat
    BY <1>6
  <2>2. QED
    BY <1>6, <2>1, SumIsNat
<1>10. v[x] \in Nat /\ w[x] \in Nat /\ u[x] = v[x] + w[x]
  BY <1>3, <1>5
<1> HIDE DEF U
<1>11. SumOf(u, T) = SumOf(v, T) + SumOf(w, T)
  BY <1>7, <1>8, <1>9, <1>10
<1>12. QED
  BY <1>2, <1>11

LEMMA SumOfNone ==
  ASSUME NEW S, IsFiniteSet(S), NEW w, \A x \in S : w[x] = 0
  PROVE  SumOf(w, S) = 0
<1>1. SumOf(w, S) \in Nat
  BY SumIsNat
<1>2. SumOf(w, S) = SumOf(w, S) + SumOf(w, S)
  BY SumOfBoth
<1>3. QED
  BY <1>1, <1>2

LEMMA SumOfSame ==
  ASSUME NEW S, IsFiniteSet(S), NEW v, NEW w, \A x \in S : v[x] \in Nat /\ w[x] = v[x]
  PROVE  SumOf(w, S) = SumOf(v, S)
<1> DEFINE none == [x \in S |-> 0]
<1>1. \A x \in S : none[x] = 0
  OBVIOUS
<1> HIDE DEF none
<1>2. SumOf(none, S) = 0
  BY <1>1, SumOfNone
<1>3. \A x \in S : v[x] \in Nat /\ none[x] \in Nat /\ w[x] = v[x] + none[x]
  BY <1>1
<1>4. SumOf(w, S) = SumOf(v, S) + SumOf(none, S)
  BY <1>3, SumOfBoth
<1>5. SumOf(v, S) \in Nat
  BY SumIsNat
<1>6. QED
  BY <1>2, <1>4, <1>5

(* The turns of a run are those of its agents, none of them of two.          *)
LEMMA TurnsByName ==
  ASSUME NEW run, IsRun(run), NEW names, IsFiniteSet(names),
         \A k \in DOMAIN run : run[k].agent \in names,
         NEW w, \A name \in names : w[name] = Cardinality(TurnsOf(run, name))
  PROVE  SumOf(w, names) = CountOf(run)
<1> DEFINE By(N) == {k \in DOMAIN run : run[k].agent \in N}
           Bad == {N \in SUBSET names : SumOf(w, N) # Cardinality(By(N))}
<1>1. IsFiniteSet(DOMAIN run) /\ Cardinality(DOMAIN run) = CountOf(run)
  BY NumbersAreFinite DEF CountOf
<1>2. \A name \in names : w[name] \in Nat
  <2> SUFFICES ASSUME NEW name \in names PROVE Cardinality(TurnsOf(run, name)) \in Nat
    OBVIOUS
  <2>1. TurnsOf(run, name) \in SUBSET (DOMAIN run)
    BY DEF TurnsOf
  <2>2. QED
    BY <1>1, <2>1, FS_Subset, FS_CardinalityType
<1>3. Bad = {}
  <2>1. SUFFICES ASSUME Bad # {} PROVE FALSE
    OBVIOUS
  <2>2. PICK N \in Bad : \A M \in Bad : M \subseteq N => M = N
    <3>1. Bad \in SUBSET (SUBSET names)
      OBVIOUS
    <3> HIDE DEF Bad
    <3>2. QED
      BY <2>1, <3>1, LeastSubset
  <2>3. IsFiniteSet(N) /\ N \subseteq names
    BY <2>2, FS_Subset
  <2>4. N # {}
    <3>1. SumOf(w, {}) = 0 /\ Cardinality({}) = 0 /\ By({}) = {}
      BY FS_EmptySet, SumRecursion
    <3>2. SumOf(w, {}) = Cardinality(By({}))
      BY <3>1
    <3>3. QED
      BY <2>2, <3>2
  <2>5. PICK name : name \in N
    BY <2>4
  <2> DEFINE M == N \ {name}
  <2>6. M \in SUBSET names /\ M # N /\ M \subseteq N
    BY <2>3, <2>5
  <2>7. SumOf(w, M) = Cardinality(By(M))
    BY <2>2, <2>6
  <2>8. SumOf(w, N) = w[name] + SumOf(w, M)
    <3>1. \A other \in N : w[other] \in Nat
      BY <1>2, <2>3
    <3>2. QED
      BY <2>3, <2>5, <3>1, SumRemove
  <2>9. Cardinality(By(N)) = Cardinality(TurnsOf(run, name)) + Cardinality(By(M))
    <3> DEFINE S == TurnsOf(run, name)
               T == By(M)
    <3>1. S \in SUBSET (DOMAIN run) /\ T \in SUBSET (DOMAIN run) /\ S \cap T = {}
          /\ By(N) = S \cup T
      BY <2>5 DEF TurnsOf
    <3> HIDE DEF S, T
    <3>2. IsFiniteSet(S) /\ IsFiniteSet(T)
      BY <1>1, <3>1, FS_Subset
    <3>3. Cardinality(S \cup T) = Cardinality(S) + Cardinality(T) - Cardinality(S \cap T)
      BY <3>2, FS_Union
    <3>4. Cardinality(S \cap T) = 0 /\ Cardinality(S) \in Nat /\ Cardinality(T) \in Nat
      BY <3>1, <3>2, FS_EmptySet, FS_CardinalityType
    <3>5. Cardinality(S \cup T) = Cardinality(S) + Cardinality(T)
      BY <3>3, <3>4
    <3>6. QED
      BY <3>1, <3>5 DEF S, T
  <2>10. w[name] = Cardinality(TurnsOf(run, name))
    BY <2>3, <2>5
  <2>11. SumOf(w, N) = Cardinality(By(N))
    BY <2>7, <2>8, <2>9, <2>10
  <2>12. QED
    BY <2>2, <2>11
<1>4. SumOf(w, names) = Cardinality(By(names))
  BY <1>3
<1>5. By(names) = DOMAIN run
  OBVIOUS
<1>6. QED
  BY <1>1, <1>4, <1>5

(* To count the calls agent by agent is to count them session by session.    *)
Counts(calls, S, names, u, v, w) ==
  /\ \A s \in S : IsRun(calls[s]) /\ \A k \in DOMAIN calls[s] : calls[s][k].agent \in names
  /\ \A name \in names : \A s \in S : v[name][s] = Cardinality(TurnsOf(calls[s], name))
  /\ \A name \in names : u[name] = SumOf(v[name], S)
  /\ \A s \in S : w[s] = CountOf(calls[s])

LEMMA CountedEitherWay ==
  ASSUME NEW calls, NEW S, IsFiniteSet(S), NEW names, IsFiniteSet(names),
         NEW u, NEW v, NEW w, Counts(calls, S, names, u, v, w)
  PROVE  SumOf(u, names) = SumOf(w, S)
<1> USE DEF Counts
<1> DEFINE Rows(T) == [name \in names |-> SumOf(v[name], T)]
           Bad == {T \in SUBSET S : SumOf(Rows(T), names) # SumOf(w, T)}
<1>1. \A name \in names : \A s \in S : v[name][s] \in Nat
  <2> SUFFICES ASSUME NEW name \in names, NEW s \in S
               PROVE  Cardinality(TurnsOf(calls[s], name)) \in Nat
    OBVIOUS
  <2>1. IsFiniteSet(DOMAIN calls[s])
    BY NumbersAreFinite
  <2>2. TurnsOf(calls[s], name) \in SUBSET (DOMAIN calls[s])
    BY DEF TurnsOf
  <2>3. QED
    BY <2>1, <2>2, FS_Subset, FS_CardinalityType
<1>2. \A s \in S : w[s] \in Nat
  BY NumbersAreFinite
<1>3. \A T \in SUBSET S : \A name \in names : Rows(T)[name] = SumOf(v[name], T) /\ Rows(T)[name] \in Nat
  <2> SUFFICES ASSUME NEW T \in SUBSET S, NEW name \in names
               PROVE  SumOf(v[name], T) \in Nat
    OBVIOUS
  <2>1. IsFiniteSet(T) /\ \A s \in T : v[name][s] \in Nat
    BY <1>1, FS_Subset
  <2>2. QED
    BY <2>1, SumIsNat
<1>4. Bad = {}
  <2>1. SUFFICES ASSUME Bad # {} PROVE FALSE
    OBVIOUS
  <2>2. PICK T \in Bad : \A U \in Bad : U \subseteq T => U = T
    <3>1. Bad \in SUBSET (SUBSET S)
      OBVIOUS
    <3> HIDE DEF Bad
    <3>2. QED
      BY <2>1, <3>1, LeastSubset
  <2>3. IsFiniteSet(T) /\ T \in SUBSET S
    BY <2>2, FS_Subset
  <2>4. T # {}
    <3>1. SumOf(w, {}) = 0 /\ {} \in SUBSET S
      BY FS_EmptySet, SumRecursion
    <3>2. \A name \in names : SumOf(v[name], {}) = 0
      BY FS_EmptySet, SumRecursion
    <3>3. \A name \in names : Rows({})[name] = 0
      BY <3>2
    <3> HIDE DEF Rows
    <3>4. SumOf(Rows({}), names) = 0
      BY <3>3, SumOfNone
    <3>5. QED
      BY <2>2, <3>1, <3>4
  <2>5. PICK s : s \in T
    BY <2>4
  <2> DEFINE U == T \ {s}
             one == [name \in names |-> v[name][s]]
  <2>6. U \in SUBSET S /\ U # T /\ U \subseteq T
    BY <2>3, <2>5
  <2>7. SumOf(Rows(U), names) = SumOf(w, U)
    BY <2>2, <2>6
  <2>8. SumOf(w, T) = w[s] + SumOf(w, U)
    <3>1. \A r \in T : w[r] \in Nat
      BY <1>2, <2>3
    <3>2. QED
      BY <2>3, <2>5, <3>1, SumRemove
  <2>9. \A name \in names : one[name] \in Nat /\ Rows(T)[name] = one[name] + Rows(U)[name]
    <3> SUFFICES ASSUME NEW name \in names
                 PROVE  one[name] \in Nat /\ SumOf(v[name], T) = v[name][s] + SumOf(v[name], U)
      BY <1>3
    <3>1. \A r \in T : v[name][r] \in Nat
      BY <1>1, <2>3
    <3>2. SumOf(v[name], T) = v[name][s] + SumOf(v[name], U)
      BY <2>3, <2>5, <3>1, SumRemove
    <3>3. QED
      BY <2>5, <3>1, <3>2
  <2>10. SumOf(one, names) = CountOf(calls[s])
    <3>1. s \in S
      BY <2>3, <2>5
    <3>2. \A name \in names : one[name] = Cardinality(TurnsOf(calls[s], name))
      BY <3>1
    <3> DEFINE run == calls[s]
    <3>3. IsRun(run) /\ \A k \in DOMAIN run : run[k].agent \in names
      BY <3>1
    <3> HIDE DEF one, run
    <3>4. SumOf(one, names) = CountOf(run)
      BY <3>2, <3>3, TurnsByName DEF run
    <3>5. QED
      BY <3>4 DEF run
  <2>11. SumOf(Rows(T), names) = SumOf(one, names) + SumOf(Rows(U), names)
    <3>1. \A name \in names : Rows(U)[name] \in Nat
      BY <1>3, <2>6
    <3> HIDE DEF Rows, one, U
    <3>2. QED
      BY <2>9, <3>1, SumOfBoth
  <2>12. w[s] = CountOf(calls[s])
    BY <2>3, <2>5
  <2>13. SumOf(Rows(T), names) = SumOf(w, T)
    BY <2>7, <2>8, <2>10, <2>11, <2>12
  <2>14. QED
    BY <2>2, <2>13
<1>5. SumOf(Rows(S), names) = SumOf(w, S)
  BY <1>4
<1>6. \A name \in names : Rows(S)[name] \in Nat /\ u[name] = Rows(S)[name]
  BY <1>3
<1> HIDE DEF Rows
<1>7. SumOf(u, names) = SumOf(Rows(S), names)
  BY <1>6, SumOfSame
<1>8. QED
  BY <1>5, <1>7

(* The rows of the listing as sums.                                          *)
CallsBy(calls, S, name) ==
  MapThenSumSet(LAMBDA s : Cardinality(TurnsOf(calls[s], name)), S)

LEMMA CallsByIs ==
  ASSUME NEW calls, NEW name, NEW S, IsFiniteSet(S),
         NEW w, \A s \in S : w[s] = Cardinality(TurnsOf(calls[s], name))
  PROVE  CallsBy(calls, S, name) = SumOf(w, S)
<1> DEFINE Body(g, s) == IF s = {} THEN 0
                         ELSE Cardinality(TurnsOf(calls[CHOOSE x \in s : TRUE], name))
                                + g[s \ {CHOOSE x \in s : TRUE}]
           C == CHOOSE g : g = [s \in SUBSET S |-> Body(g, s)]
<1>1. CallsBy(calls, S, name) = C[S]
  BY DEF CallsBy, MapThenSumSet, MapThenFoldSet
<1>2. ASSUME NEW g, NEW s \in SUBSET S PROVE Body(g, s) = Added(w, g, s)
  <2>1. CASE s = {}
    BY <2>1 DEF Added
  <2>2. CASE s # {}
    <3>1. Picked(s) \in S
      BY <2>2, PickedIsIn
    <3>2. w[Picked(s)] = Cardinality(TurnsOf(calls[Picked(s)], name))
      BY <3>1
    <3>3. QED
      BY <2>2, <3>2 DEF Added, Picked
  <2>3. QED
    BY <2>1, <2>2
<1> HIDE DEF Body
<1>3. PICK g : g = [s \in SUBSET S |-> Added(w, g, s)]
  BY SumExists
<1>4. g = [s \in SUBSET S |-> Body(g, s)]
  BY <1>2, <1>3
<1>5. C = [s \in SUBSET S |-> Body(C, s)]
  BY <1>4
<1>6. \A s \in SUBSET S : C[s] = Added(w, C, s)
  <2> HIDE DEF C
  <2>1. QED
    BY <1>2, <1>5
<1> HIDE DEF C
<1>7. QED
  BY <1>1, <1>6, SumIs

LengthsOf(calls, S) == MapThenSumSet(LAMBDA s : Cardinality(DOMAIN calls[s]), S)

RowsSum(rows, S) == MapThenSumSet(LAMBDA name : rows[name].calls, S)

LEMMA LengthsAre ==
  ASSUME NEW calls, NEW S, IsFiniteSet(S),
         NEW w, \A s \in S : w[s] = Cardinality(DOMAIN calls[s])
  PROVE  LengthsOf(calls, S) = SumOf(w, S)
<1> DEFINE Body(g, s) == IF s = {} THEN 0
                         ELSE Cardinality(DOMAIN calls[CHOOSE x \in s : TRUE])
                                + g[s \ {CHOOSE x \in s : TRUE}]
           C == CHOOSE g : g = [s \in SUBSET S |-> Body(g, s)]
<1>1. LengthsOf(calls, S) = C[S]
  BY DEF LengthsOf, MapThenSumSet, MapThenFoldSet
<1>2. ASSUME NEW g, NEW s \in SUBSET S PROVE Body(g, s) = Added(w, g, s)
  <2>1. CASE s = {}
    BY <2>1 DEF Added
  <2>2. CASE s # {}
    <3>1. Picked(s) \in S
      BY <2>2, PickedIsIn
    <3>2. w[Picked(s)] = Cardinality(DOMAIN calls[Picked(s)])
      BY <3>1
    <3>3. QED
      BY <2>2, <3>2 DEF Added, Picked
  <2>3. QED
    BY <2>1, <2>2
<1> HIDE DEF Body
<1>3. PICK g : g = [s \in SUBSET S |-> Added(w, g, s)]
  BY SumExists
<1>4. g = [s \in SUBSET S |-> Body(g, s)]
  BY <1>2, <1>3
<1>5. C = [s \in SUBSET S |-> Body(C, s)]
  BY <1>4
<1>6. \A s \in SUBSET S : C[s] = Added(w, C, s)
  <2> HIDE DEF C
  <2>1. QED
    BY <1>2, <1>5
<1> HIDE DEF C
<1>7. QED
  BY <1>1, <1>6, SumIs

LEMMA RowsSumIs ==
  ASSUME NEW rows, NEW S, IsFiniteSet(S),
         NEW w, \A name \in S : w[name] = rows[name].calls
  PROVE  RowsSum(rows, S) = SumOf(w, S)
<1> DEFINE Body(g, s) == IF s = {} THEN 0
                         ELSE rows[CHOOSE x \in s : TRUE].calls
                                + g[s \ {CHOOSE x \in s : TRUE}]
           C == CHOOSE g : g = [s \in SUBSET S |-> Body(g, s)]
<1>1. RowsSum(rows, S) = C[S]
  BY DEF RowsSum, MapThenSumSet, MapThenFoldSet
<1>2. ASSUME NEW g, NEW s \in SUBSET S PROVE Body(g, s) = Added(w, g, s)
  <2>1. CASE s = {}
    BY <2>1 DEF Added
  <2>2. CASE s # {}
    <3>1. Picked(s) \in S
      BY <2>2, PickedIsIn
    <3>2. w[Picked(s)] = rows[Picked(s)].calls
      BY <3>1
    <3>3. QED
      BY <2>2, <3>2 DEF Added, Picked
  <2>3. QED
    BY <2>1, <2>2
<1> HIDE DEF Body
<1>3. PICK g : g = [s \in SUBSET S |-> Added(w, g, s)]
  BY SumExists
<1>4. g = [s \in SUBSET S |-> Body(g, s)]
  BY <1>2, <1>3
<1>5. C = [s \in SUBSET S |-> Body(C, s)]
  BY <1>4
<1>6. \A s \in SUBSET S : C[s] = Added(w, C, s)
  <2> HIDE DEF C
  <2>1. QED
    BY <1>2, <1>5
<1> HIDE DEF C
<1>7. QED
  BY <1>1, <1>6, SumIs

LEMMA ListingsAre ==
  ASSUME IInv
  PROVE  ListingsAddUp
<1> DEFINE calls == report.calls
           S == DOMAIN calls
           Names(run) == {run[k].agent : k \in DOMAIN run}
           all == {Names(run) : run \in ToSet(calls)}
           names == UNION all
<1>1. /\ calls \in Seq(Runs)
      /\ \A s \in S : IsPartOf(calls[s], runs[s]) /\ CountOf(calls[s]) >= report.sessions[s]
  BY DEF IInv, ListInv
<1>2. Answered /\ ask.tool = "agents" => DOMAIN calls = DOMAIN report.sessions
  <2>1. ASSUME Answered, ask.tool = "agents" PROVE Seen("calls")
    BY <2>1, AnsweredIs DEF Planned
  <2>2. QED
    BY <2>1 DEF IInv, ListInv
<1>3. IsFiniteSet(S) /\ \A s \in S : IsRun(calls[s])
  <2> HIDE DEF calls, Runs
  <2>1. S = 1..Len(calls) /\ Len(calls) \in Nat /\ \A s \in S : calls[s] \in Runs
    BY <1>1
  <2>2. IsFiniteSet(S)
    BY <2>1, FS_Interval
  <2>3. \A s \in S : IsRun(calls[s])
    BY <2>1, RunHas
  <2>4. QED
    BY <2>2, <2>3
<1> HIDE DEF calls
<1>4. IsFiniteSet(names)
  <2>1. IsFiniteSet(all)
    <3> DEFINE f == [s \in S |-> Names(calls[s])]
    <3>1. f \in Surjection(S, all)
      <4>1. \A s \in S : f[s] \in all
        BY DEF ToSet
      <4>2. \A T \in all : \E s \in S : f[s] = T
        BY DEF ToSet
      <4> HIDE DEF all, S
      <4>3. f \in [S -> all]
        BY <4>1
      <4> HIDE DEF f
      <4>4. QED
        BY <4>2, <4>3 DEF Surjection
    <3> HIDE DEF f, all, S
    <3>2. QED
      BY <1>3, <3>1, FS_Surjection
  <2>2. \A T \in all : IsFiniteSet(T)
    <3> SUFFICES ASSUME NEW s \in S PROVE IsFiniteSet(Names(calls[s]))
      BY DEF ToSet
    <3> DEFINE run == calls[s]
               f == [k \in DOMAIN run |-> run[k].agent]
               image == Names(run)
    <3>1. IsRun(run)
      BY <1>3
    <3>2. f \in Surjection(DOMAIN run, image)
      BY DEF Surjection
    <3> HIDE DEF f, run, image
    <3>3. IsFiniteSet(DOMAIN run)
      BY <3>1, NumbersAreFinite
    <3>4. IsFiniteSet(image)
      BY <3>2, <3>3, FS_Surjection
    <3>5. QED
      BY <3>4 DEF image, run
  <2> HIDE DEF all
  <2>3. QED
    BY <2>1, <2>2, FS_UNION
<1>5. \A s \in S : \A k \in DOMAIN calls[s] : calls[s][k].agent \in names
  <2> SUFFICES ASSUME NEW s \in S, NEW k \in DOMAIN calls[s] PROVE calls[s][k].agent \in names
    OBVIOUS
  <2>1. calls[s] \in ToSet(calls)
    BY DEF ToSet
  <2>2. calls[s][k].agent \in Names(calls[s])
    OBVIOUS
  <2>3. QED
    BY <2>1, <2>2
<1>6. /\ DOMAIN AgentRows = names
      /\ \A name \in names : AgentRows[name].calls = CallsBy(calls, S, name)
  BY DEF AgentRows, CallsBy, calls
<1> HIDE DEF names, S
<1> DEFINE v == [name \in names |-> [s \in S |-> Cardinality(TurnsOf(calls[s], name))]]
           u == [name \in names |-> AgentRows[name].calls]
           w == [s \in S |-> Cardinality(DOMAIN calls[s])]
           rows == AgentRows
<1>7. \A name \in names : \A s \in S : v[name][s] = Cardinality(TurnsOf(calls[s], name))
  OBVIOUS
<1>8. \A name \in names : u[name] = rows[name].calls
  OBVIOUS
<1>9. \A s \in S : w[s] = Cardinality(DOMAIN calls[s])
  OBVIOUS
<1>10. S = DOMAIN calls /\ names = DOMAIN rows
  BY <1>6 DEF S
<1>11. \A name \in names : rows[name].calls = CallsBy(calls, S, name)
  BY <1>6
<1>12. MapThenSumSet(LAMBDA name : AgentRows[name].calls, DOMAIN AgentRows) = SumOf(u, names)
  <2>1. RowsSum(rows, names) = SumOf(u, names)
    <3> HIDE DEF u, v, w, rows
    <3>1. QED
      BY <1>4, <1>8, RowsSumIs
  <2>2. RowsSum(rows, names)
          = MapThenSumSet(LAMBDA name : AgentRows[name].calls, DOMAIN AgentRows)
    BY <1>10 DEF RowsSum
  <2>3. QED
    BY <2>1, <2>2
<1> HIDE DEF u, v, w, rows
<1>13. \A name \in names : u[name] = SumOf(v[name], S)
  <2> SUFFICES ASSUME NEW name \in names PROVE CallsBy(calls, S, name) = SumOf(v[name], S)
    BY <1>8, <1>11
  <2> DEFINE each == v[name]
  <2>1. \A s \in S : each[s] = Cardinality(TurnsOf(calls[s], name))
    BY <1>7
  <2> HIDE DEF each
  <2>2. CallsBy(calls, S, name) = SumOf(each, S)
    BY <1>3, <1>10, <2>1, CallsByIs
  <2>3. QED
    BY <2>2 DEF each
<1>14. LengthsOf(calls, S) = SumOf(w, S)
  BY <1>3, <1>9, <1>10, LengthsAre
<1>15. SumOf(u, names) = SumOf(w, S)
  <2>1. \A s \in S : IsRun(calls[s]) /\ \A k \in DOMAIN calls[s] : calls[s][k].agent \in names
    BY <1>3, <1>5
  <2>2. IsFiniteSet(S) /\ IsFiniteSet(names)
    BY <1>3, <1>4
  <2>3. Counts(calls, S, names, u, v, w)
    BY <1>7, <1>9, <1>13, <2>1 DEF Counts, CountOf
  <2>4. QED
    BY <2>2, <2>3, CountedEitherWay
<1>16. MapThenSumSet(LAMBDA name : AgentRows[name].calls, DOMAIN AgentRows)
         = MapThenSumSet(LAMBDA s : Cardinality(DOMAIN report.calls[s]), DOMAIN report.calls)
  BY <1>12, <1>14, <1>15 DEF LengthsOf, calls, S
<1>17. ASSUME NEW s \in S
       PROVE  /\ DOMAIN calls[s] \subseteq DOMAIN runs[s]
              /\ calls[s] = Restrict(runs[s], DOMAIN calls[s])
              /\ Cardinality(DOMAIN calls[s]) >= report.sessions[s]
  <2> DEFINE part == calls[s]
             run == runs[s]
  <2>1. IsPartOf(part, run) /\ Restrict(part, DOMAIN part) = part
    <3>1. part \in Runs
      <4> HIDE DEF Runs
      <4>1. QED
        BY <1>1, <1>17 DEF S
    <3>2. QED
      BY <1>1, <3>1, RunHas
  <2> HIDE DEF part, run
  <2>2. part = Restrict(run, DOMAIN part)
    BY <2>1, PartLasts
  <2>3. QED
    BY <1>1, <2>1, <2>2 DEF IsPartOf, CountOf, part, run
<1>18. QED
  BY <1>2, <1>16, <1>17 DEF ListingsAddUp, calls, S


(* A report that is narrowed to an agent is about that agent's turns alone.  *)
LEMMA ReportsAreOf ==
  ASSUME IInv, Answered, Agent # None, ask.tool # "export", Seen("choose")
  PROVE  /\ DOMAIN report.tokens.turns \subseteq TurnsOf(Run, Agent)
         /\ \A b \in report.cache.breaks : b.agent = Agent
         /\ \A e \in report.evictions.evictions : e.agent = Agent
<1>1. Live /\ ReportOn = Agent
  BY AnsweredIs DEF ReportOn
<1>2. /\ NoReport.tokens.turns = <<>> /\ NoReport.cache.breaks = {}
      /\ NoReport.evictions.evictions = {}
  BY DEF NoReport
<1>3. DOMAIN report.tokens.turns \subseteq TurnsOf(Run, Agent)
  <2>1. CASE Seen("tokens")
    <3> DEFINE run == AsRead("tokens")
               tokens == AnalyzeRun(run, Agent)
    <3>1. /\ DOMAIN run \subseteq DOMAIN Run /\ \A k \in DOMAIN run : run[k] = Run[k]
      BY <2>1, AsReadIs DEF Analyses
    <3>2. DOMAIN tokens.turns = Scope(run, Agent)
      BY DEF AnalyzeRun
    <3>3. report.tokens = tokens
      BY <1>1, <2>1 DEF IInv, TokensInv
    <3>4. Scope(run, Agent) \subseteq TurnsOf(Run, Agent)
      BY <3>1 DEF Scope, TurnsOf
    <3> HIDE DEF tokens, run
    <3>5. QED
      BY <3>2, <3>3, <3>4
  <2>2. CASE ~Seen("tokens")
    <3>1. report.tokens = NoReport.tokens
      BY <1>1, <2>2 DEF IInv, TokensInv
    <3>2. DOMAIN report.tokens.turns = {}
      BY <1>2, <3>1
    <3>3. QED
      BY <3>2
  <2>3. QED
    BY <2>1, <2>2
<1>4. \A b \in report.cache.breaks : b.agent = Agent
  <2>1. CASE Seen("cache")
    <3> DEFINE run == AsRead("cache")
               breaks == Breaks(run, Agent)
    <3>1. IsRun(run)
      BY <2>1, AsReadIs DEF Analyses
    <3>2. report.cache.breaks = breaks
      <4>1. report.cache = AnalyzeCache(run, Agent)
        BY <1>1, <2>1 DEF IInv, CacheInv
      <4>2. QED
        BY <4>1 DEF AnalyzeCache
    <3> HIDE DEF run
    <3>3. /\ {<<b.prev, b.turn>> : b \in breaks} = {p \in Successive(run, Agent) : ~Extends(run, p)}
          /\ \A b \in breaks : b.agent = run[b.turn].agent
      BY <3>1, BreaksAreExact
    <3> HIDE DEF breaks
    <3>4. ASSUME NEW b \in breaks PROVE b.agent = Agent
      <4>1. <<b.prev, b.turn>> \in Successive(run, Agent)
        BY <3>3
      <4>2. run[b.turn].agent = Agent
        BY <4>1 DEF Successive
      <4>3. QED
        BY <3>3, <4>2
    <3>5. QED
      BY <3>2, <3>4
  <2>2. CASE ~Seen("cache")
    BY <1>1, <1>2, <2>2 DEF IInv, CacheInv
  <2>3. QED
    BY <2>1, <2>2
<1>5. \A e \in report.evictions.evictions : e.agent = Agent
  <2>1. CASE Seen("evictions")
    <3> DEFINE run == AsRead("evictions")
               found == AnalyzeEvictions(run, Agent).evictions
    <3>1. IsRun(run)
      BY <2>1, AsReadIs DEF Analyses
    <3>2. report.evictions.evictions = found
      BY <1>1, <2>1 DEF IInv, EvictionsInv
    <3> HIDE DEF run
    <3>3. found = AnalyzeEvictions(run, Agent).evictions
      OBVIOUS
    <3> HIDE DEF found
    <3>4. \A e \in found :
            /\ e.entered <= e.tagged /\ e.tagged <= e.lastSeen
            /\ <<e.lastSeen, e.evicted>> \in Successive(run, Agent)
            /\ e.agent = run[e.lastSeen].agent
            /\ e.tag \in ToSet(run[e.tagged].tags) \ {None}
      <4> DEFINE agent == Agent
      <4>1. found = AnalyzeEvictions(run, agent).evictions
        BY <3>3
      <4> HIDE DEF agent
      <4>2. \A e \in found :
              /\ e.entered <= e.tagged /\ e.tagged <= e.lastSeen
              /\ <<e.lastSeen, e.evicted>> \in Successive(run, agent)
              /\ e.agent = run[e.lastSeen].agent
              /\ e.tag \in ToSet(run[e.tagged].tags) \ {None}
        BY <3>1, <4>1, EvictionsAreExact
      <4>3. QED
        BY <4>2 DEF agent
    <3>5. ASSUME NEW e \in found PROVE e.agent = Agent
      <4>1. run[e.lastSeen].agent = Agent
        BY <3>4 DEF Successive
      <4>2. QED
        BY <3>4, <4>1
    <3>6. QED
      BY <3>2, <3>5
  <2>2. CASE ~Seen("evictions")
    BY <1>1, <1>2, <2>2 DEF IInv, EvictionsInv
  <2>3. QED
    BY <2>1, <2>2
<1>6. QED
  BY <1>3, <1>4, <1>5

(* An answer is about the session and the agent that were asked for: never   *)
(* about one of several (`choose_session`), never about a session that a     *)
(* handle does not name (`_unique_prefix_len`), and a listing leaves nothing *)
(* out.                                                                      *)
THEOREM AnswersAreOfTheAsked == Spec => []AnswersTheAsked
<1>1. ASSUME IInv PROVE AnswersTheAsked
  <2>1. ListingsAddUp
    BY <1>1, ListingsAre
  <2>2. ASSUME NEW s \in DOMAIN report.handles
        PROVE  MatchRun(DOMAIN report.handles, report.handles[s]) = {s}
    <3>1. PICK n \in 0..Len(runs) : /\ DOMAIN report.handles = 1..n
                                    /\ \A r \in 1..n : report.handles[r] = RunLabel(1..n, r)
      BY <1>1 DEF IInv, HandlesInv
    <3>2. Len(runs) \in Nat /\ Len(runs) <= Len(Recordable)
      BY <1>1 DEF IInv, TypeInv
    <3>3. n \in Nat /\ n <= Len(runs)
      BY <3>1, <3>2
    <3>4. MatchRun(1..n, RunLabel(1..n, s)) = {s}
      BY <3>1, <3>2, <3>3, HandleNames
    <3>5. QED
      BY <3>1, <3>4
  <2>3. ASSUME Answered, view # <<>>
        PROVE  /\ ViewFits /\ Seen("choose")
               /\ Agent # None /\ ask.tool # "export" =>
                    /\ DOMAIN report.tokens.turns \subseteq TurnsOf(Run, Agent)
                    /\ \A f \in report.cache.breaks \cup report.evictions.evictions :
                         f.agent = Agent
               /\ report.start.level > 0 /\ Agent # None => StartFits
    <3>1. Live /\ Seen("choose")
      BY <1>1, <2>3, AnsweredIs DEF IInv, ViewInv
    <3>2. ViewFits
      BY <1>1, <3>1 DEF IInv, ViewInv
    <3>3. ASSUME Agent # None, ask.tool # "export"
          PROVE  /\ DOMAIN report.tokens.turns \subseteq TurnsOf(Run, Agent)
                 /\ \A f \in report.cache.breaks \cup report.evictions.evictions :
                      f.agent = Agent
      BY <1>1, <2>3, <3>1, <3>3, ReportsAreOf
    <3>4. ASSUME report.start.level > 0, Agent # None PROVE StartFits
      BY <1>1, <3>1, <3>4 DEF IInv, ProjectInv
    <3>5. QED
      BY <3>1, <3>2, <3>3, <3>4
  <2>4. ViewFits =>
          /\ \A i \in DOMAIN ask.sessions : ask.sessions[i].name \cap 1..bound \subseteq {view[i]}
          /\ ask.handle # 0 => view[1] = ask.handle
          /\ ask.sessions = <<>> /\ ask.handle = 0 =>
               view[1] = bound /\ (bound = 1 \/ ask.tool = "export")
    BY DEF ViewFits
  <2>5. QED
    BY <2>1, <2>2, <2>3, <2>4 DEF AnswersTheAsked, StartFits
<1>2. QED
  BY <1>1, CommandIsInOrder, PTL

=============================================================================
