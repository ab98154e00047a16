------------------------------- MODULE Inspect -------------------------------
(***************************************************************************)
(* A command that looks into a store while runs are being recorded in it:  *)
(* `ctxdiff check`, `tokens`, `cache`, `diff`, `export`, `sessions` and    *)
(* `agents` (src/ctxdiff/cli/main.py, cli/select.py, viewer/export.py), or *)
(* the tools of the MCP server (src/ctxdiff/mcp/tools.py).                 *)
(*                                                                         *)
(* A command selects a session and an agent and then runs one analysis     *)
(* after the other, each of which reads the calls anew: what is recorded   *)
(* in between, some of them see and others do not.  A turn gets its number *)
(* when the call ends and is stored later, by whichever thread is first:   *)
(* it may appear before turns that are stored already.                     *)
(***************************************************************************)
EXTENDS Reports

CONSTANTS
  Recordable,      (* per session, in the order of opening: the turns that may be
                      recorded in it *)
  Asks,            (* the commands: their selectors, `--turn`s and gates *)
  MaxTurns,        (* bound on the turns of all sessions, and on their numbers *)
  Ids,             (* per session: its id, a sequence of characters *)
  FileOf,          (* per session: the file it is in, None for a networked store *)
  ShortId,         (* `SHORT_ID_LEN` *)
  Text,            (* per block: what each character of its text takes when encoded *)
  Widest,          (* the most a character takes: 6 bytes, of one that is escaped *)
  Envelope,        (* what the rest of a page takes *)
  Room,            (* `MAX_RESULT_BYTES` *)
  MaxChars,        (* `BLOCK_CHARS_MAX` *)
  Slack            (* the 64 characters `_fit_block` takes off beside *)

Gates == {"max-context", "max-context-pct", "require-stable-prefix", "no-dead-schemas",
          "no-tagged-eviction", "max-growth", "max-growth-pct"}

(* `needs_token_analysis` *)
TokenGates == Gates \ {"require-stable-prefix", "no-tagged-eviction"}

(* A selector is the sessions whose id begins with it, or an agent, and the  *)
(* turn of `NAME:TURN` or None (`parse_selector`).  A client of the server   *)
(* may instead pass the handle it was given for a session (0 if it does      *)
(* not).  The argument of `ctxdiff_block` is the blocks whose hash begins    *)
(* with it, none if it is too short.                                         *)
Ask ==
  [server : BOOLEAN, handle : {0} \cup DOMAIN Recordable,
   tool : {"check", "tokens", "cache", "diff", "explain", "export", "sessions", "agents",
           "block"},
   sessions : Seq([name : SUBSET DOMAIN Recordable, turn : Nat \cup {None}]),
   agents : Seq([name : {turn.agent : turn \in UNION Range(Recordable)} \ {None},
                 turn : Nat \cup {None}]),
   turns : Seq(Nat), gates : SUBSET Gates,
   window : {"none", "flag", "environment", "invalid"},
   block : SUBSET Blocks, offset : Nat, chars : Nat]

(* What the commands and the tools have arguments for: a tool is asked about *)
(* one run, an explanation is of one turn.                                   *)
WellFormed(a) ==
  /\ IF a.server
     THEN /\ a.tool \in {"tokens", "cache", "diff", "explain", "block"}
          /\ Len(a.agents) <= 1 /\ Len(a.sessions) <= 1
          /\ a.handle # 0 <=> a.sessions = <<>>
     ELSE /\ a.tool \in {"check", "tokens", "cache", "diff", "export", "sessions", "agents"}
          /\ a.handle = 0
  /\ a.tool = "explain" => Len(a.turns) = 1
  /\ a.server /\ a.tool = "diff" => Len(a.turns) = 2

(* An id is a uuid4 in hex; and a page has room for more than the characters *)
(* that `_fit_block` takes off beside, however wide they are.                *)
ASSUME InspectAssumption ==
  /\ None \notin Nat
  /\ Len(Recordable) \in Nat /\ DOMAIN Recordable = 1..Len(Recordable)
  /\ \A s \in DOMAIN Recordable : \A turn \in Recordable[s] : IsTurn(turn)
  /\ Asks \subseteq {a \in Ask : WellFormed(a)}
  /\ MaxTurns \in Nat
  /\ DOMAIN FileOf = DOMAIN Recordable
  /\ \A i \in DOMAIN Recordable : Ids[i] \in Seq(0..15) \ {<<>>} /\ Len(Ids[i]) = Len(Ids[1])
  /\ \A i, j \in DOMAIN Recordable : Ids[i] = Ids[j] => i = j
  /\ {Envelope, Room, MaxChars, Slack, ShortId, Widest} \subseteq Nat \ {0}
  /\ \A b \in Blocks : Text[b] \in Seq(1..Widest)
  /\ Envelope <= Room
  /\ \A n \in 1..MaxChars : LET most == Envelope + Widest * n IN
       most > Room => n * Room >= (Slack + 1) * most

VARIABLES
  runs,            (* the sessions in the order they were opened *)
  ask,             (* the command *)
  todo,            (* what it has yet to do *)
  bound,           (* the session its reader is bound to, the default *)
  view,            (* the sessions it has chosen: one, or the two sides of a diff *)
  report,          (* what it has found; `asOf` is history: the numbers of the turns
                      each analysis saw *)
  exit             (* "idle", "running", or how it ended *)

vars == <<runs, ask, todo, bound, view, report, exit>>

NoReport ==
  [turns |-> {}, target |-> 0, previous |-> 0, diffs |-> {},
   project |-> <<>>, start |-> [level |-> 0, session |-> 0],
   sessions |-> <<>>, calls |-> <<>>, handles |-> <<>>, block |-> None, carriers |-> {}, pages |-> <<>>,
   tokens |-> [turns |-> <<>>, dead |-> {}],
   cache |-> [pairs |-> 0, breaks |-> {}, stableMin |-> 0, rebilled |-> 0],
   evictions |-> [pairs |-> 0, tagged |-> {}, evictions |-> {}],
   asOf |-> [previous |-> {}, tokens |-> {}, cache |-> {}, evictions |-> {}]]

Init ==
  /\ runs = <<>>
  /\ ask \in Asks
  /\ todo = <<>>
  /\ bound = 0
  /\ view = <<>>
  /\ report = NoReport
  /\ exit = "idle"

Recorded == MapThenSumSet(LAMBDA s : Cardinality(DOMAIN runs[s]), DOMAIN runs)

(* What the store's writers add before the command and while it runs. *)
OpenSession ==
  /\ exit \in {"idle", "running"}
  /\ Len(runs) < Len(Recordable)
  /\ runs' = Append(runs, <<>>)
  /\ UNCHANGED <<ask, todo, bound, view, report, exit>>

(* `_record_call` numbers a call before it is built, handed over and stored: *)
(* of two threads the later number may be stored first, and a call that was  *)
(* dropped leaves its number unused.  Readers sort by the number.            *)
RecordCall(s) ==
  /\ exit \in {"idle", "running"}
  /\ Recorded < MaxTurns
  /\ \E seq \in (1..MaxTurns) \ DOMAIN runs[s], turn \in Recordable[s] :
       runs' = [runs EXCEPT ![s] =
                  [k \in DOMAIN @ \cup {seq} |-> IF k = seq THEN turn ELSE @[k]]]
  /\ UNCHANGED <<ask, todo, bound, view, report, exit>>

-----------------------------------------------------------------------------
(* `_check_thresholds`, `_resolve_window` and the argument rules of          *)
(* `_cmd_diff`: what is refused before anything is opened.                   *)
Across == Len(ask.sessions) = 2 \/ Len(ask.agents) = 2

UsageError == ~ask.server /\ (
  \/ ask.tool \in {"check", "tokens", "export"} /\ ask.window = "invalid"
  \/ /\ ask.tool = "check"
     /\ \/ ask.gates = {}
        \/ "max-context-pct" \in ask.gates /\ ask.window = "none"
        \/ "max-context-pct" \notin ask.gates /\ ask.window = "flag"
  \/ /\ ask.tool = "diff"
     /\ \/ Len(ask.sessions) > 2 \/ Len(ask.agents) > 2
        \/ Len(ask.sessions) = 2 /\ Len(ask.agents) = 2
        \/ Across /\ Len(ask.turns) > 2
        \/ ~Across /\ Len(ask.turns) # 2
        \/ ~Across /\ \E s \in ToSet(ask.sessions) \cup ToSet(ask.agents) : s.turn # None)

(* The order in which each command of the CLI reads, and each tool of the    *)
(* server.                                                                   *)
If(needed, step) == IF needed THEN <<step>> ELSE <<>>

CommandReads ==
  CASE ask.tool = "check" ->
         <<"agent", "count">> \o If(ask.gates \cap TokenGates # {}, "tokens")
                              \o If("require-stable-prefix" \in ask.gates, "cache")
                              \o If("no-tagged-eviction" \in ask.gates, "evictions")
    [] ask.tool = "tokens" -> <<"agent", "tokens", "evictions">>
    [] ask.tool = "cache" -> <<"agent", "cache">>
    [] ask.tool = "diff" -> IF Across THEN <<"sides">> ELSE <<"agent", "within">>
    [] ask.tool = "export" -> <<"project", "pairs", "tokens", "cache", "evictions">>

ToolReads ==
  CASE ask.tool = "tokens" -> <<"agent", "turns", "tokens", "evictions">>
    [] ask.tool = "cache" -> <<"agent", "cache">>
    [] ask.tool = "diff" -> <<"agent">> \o If(ask.agents # <<>>, "turns") \o <<"within">>
    [] ask.tool = "explain" ->
         <<"agent", "target", "previous", "tokens", "cache", "evictions">>
    [] ask.tool = "block" -> <<"find", "page">>

Plan ==
  CASE ask.tool = "sessions" -> <<"bind", "list">>
    [] ask.tool = "agents" -> <<"bind", "list", "calls">>
    [] OTHER -> If(ask.handle # 0, "runs") \o <<"bind", "choose">>
                  \o IF ask.server THEN ToolReads ELSE CommandReads

Start ==
  /\ exit = "idle"
  /\ IF UsageError THEN exit' = "usage" /\ UNCHANGED todo
                   ELSE exit' = "running" /\ todo' = Plan
  /\ UNCHANGED <<runs, ask, bound, view, report>>

At(step) == exit = "running" /\ todo # <<>> /\ Head(todo) = step
Done == todo' = Tail(todo) /\ UNCHANGED exit
Fail(how) == exit' = how /\ todo' = <<>>

(* A tool of the MCP server has one kind of error, the CLI two exit codes. *)
Refusal == IF ask.server THEN "error" ELSE "usage"

-----------------------------------------------------------------------------
(* The handles `ctxdiff_runs` gives to sessions, and what `_match_run` makes *)
(* of one; the other spellings it takes are the selectors of `Candidates`.   *)
Shortened(id, n) == SubSeq(id, 1, Min({n, Len(id)}))

UniquePrefixLen(sessions) ==
  LET longest == Max({Len(Ids[s]) : s \in sessions} \cup {0})
      enough == {n \in Min({ShortId, longest})..(longest - 1) :
                   Cardinality({Shortened(Ids[s], n) : s \in sessions})
                     = Cardinality(sessions)} IN
  IF enough # {} THEN Min(enough) ELSE Max({longest, ShortId})

RunLabel(sessions, s) ==
  [file |-> FileOf[s],
   prefix |-> IF FileOf[s] = None \/ \E r \in sessions \ {s} : FileOf[r] = FileOf[s]
              THEN Shortened(Ids[s], UniquePrefixLen(sessions)) ELSE <<>>]

MatchRun(sessions, handle) ==
  LET exact == {s \in sessions : RunLabel(sessions, s) = handle} IN
  IF Cardinality(exact) = 1 THEN exact
  ELSE exact \cup {s \in sessions : \/ handle = [file |-> FileOf[s], prefix |-> <<>>]
                                    \/ handle.file = None /\ IsPrefix(handle.prefix, Ids[s])}

(* `ctxdiff_runs`: what a client learns before it asks. *)
ListRuns ==
  /\ At("runs")
  /\ report' = [report EXCEPT !.handles = [s \in DOMAIN runs |-> RunLabel(DOMAIN runs, s)]]
  /\ IF ask.handle \in DOMAIN runs THEN Done ELSE Fail("error")
  /\ UNCHANGED <<runs, ask, bound, view>>

-----------------------------------------------------------------------------
(* Selecting: `_open_project`, `choose_session`, `_open_dashboard`,          *)
(* `_match_run`.                                                             *)

(* A store without a session cannot be opened; a listing of it is empty. *)
Bind ==
  /\ At("bind")
  /\ bound' = Len(runs)
  /\ IF runs # <<>> THEN Done
     ELSE Fail(IF ask.tool \in {"sessions", "agents"} THEN "answer" ELSE "error")
  /\ UNCHANGED <<runs, ask, view, report>>

(* Without a selector there is a choice only if one session is listed; a     *)
(* dashboard shows them all and begins with the default.                     *)
Chosen(selector) == selector.name \cap DOMAIN runs

Candidates ==
  IF ask.handle # 0 THEN <<MatchRun(DOMAIN runs, report.handles[ask.handle])>>
  ELSE IF ask.sessions = <<>>
  THEN <<IF Len(runs) = 1 \/ ask.tool = "export" THEN {bound} ELSE {}>>
  ELSE [i \in DOMAIN ask.sessions |-> Chosen(ask.sessions[i])]

(* Faulty variant: an ambiguous prefix means the newest session it matches.  *)
ChooseNewest ==
  /\ At("choose")
  /\ IF \A c \in ToSet(Candidates) : c # {}
     THEN Done /\ view' = [i \in DOMAIN Candidates |-> Max(Candidates[i])]
     ELSE Fail(Refusal) /\ UNCHANGED view
  /\ UNCHANGED <<runs, ask, bound, report>>

Choose ==
  /\ At("choose")
  /\ LET ofProject == UNION {AgentNames(runs[s]) : s \in DOMAIN runs} IN
     IF /\ \A c \in ToSet(Candidates) : Cardinality(c) = 1
        /\ ask.tool = "export" => \A a \in ToSet(ask.agents) : a.name \in ofProject
     THEN Done /\ view' = [i \in DOMAIN Candidates |-> Max(Candidates[i])]
     ELSE Fail(Refusal) /\ UNCHANGED view
  /\ UNCHANGED <<runs, ask, bound, report>>

Run == runs[view[1]]
Agent == IF ask.agents = <<>> THEN None ELSE ask.agents[1].name

(* `_check_agent_filter`, `_check_agent` *)
FilterAgent ==
  /\ At("agent")
  /\ IF Agent = None \/ Agent \in AgentNames(Run) THEN Done ELSE Fail(Refusal)
  /\ UNCHANGED <<runs, ask, bound, view, report>>

-----------------------------------------------------------------------------
(* `ctxdiff diff` *)

Sides(old, new) == [old |-> old, new |-> new, diff |-> DiffCalls(old, new)]
TurnDiff(run, pair) == Sides(run[pair[1]].blocks, run[pair[2]].blocks)

(* `_diff_within_session`, `diff_turns` *)
DiffWithin ==
  /\ At("within")
  /\ IF ToSet(ask.turns) \subseteq Scope(Run, Agent)
     THEN Done /\ report' = [report EXCEPT !.diffs = {TurnDiff(Run, ask.turns)}]
     ELSE Fail("error") /\ UNCHANGED report
  /\ UNCHANGED <<runs, ask, bound, view>>

(* `_side_turn` *)
SideTurn(selectors, i) ==
  IF selectors[i].turn # None THEN selectors[i].turn
  ELSE IF Len(ask.turns) = 2 THEN ask.turns[i]
  ELSE IF Len(ask.turns) = 1 THEN ask.turns[1]
  ELSE None

(* `_cross_session_sides`, `_cross_agent_sides`, `_side_blocks`: the two     *)
(* sides are read one after the other, but each from a run of its own or at  *)
(* a turn of its own.                                                        *)
DiffAcross ==
  /\ At("sides")
  /\ LET bySession == Len(ask.sessions) = 2
         run == [i \in 1..2 |-> runs[view[IF bySession THEN i ELSE 1]]]
         names == AgentNames(run[1]) \cup AgentNames(run[2])
         agent == [i \in 1..2 |->
                     IF ~bySession THEN ask.agents[i].name
                     ELSE IF Agent # None THEN Agent
                     ELSE IF names = {} THEN None ELSE CHOOSE n \in names : TRUE]
         turn == [i \in 1..2 |-> SideTurn(IF bySession THEN ask.sessions ELSE ask.agents, i)]
     IN
     IF \/ bySession /\ Agent = None /\ Cardinality(names) > 1
        \/ \E i \in 1..2 : \/ agent[i] # None /\ ask.agents # <<>>
                                              /\ agent[i] \notin AgentNames(run[i])
                           \/ turn[i] = None
     THEN Fail("usage") /\ UNCHANGED report
     ELSE IF \E i \in 1..2 : turn[i] \notin Scope(run[i], agent[i])
     THEN Fail("error") /\ UNCHANGED report
     ELSE /\ Done
          /\ report' = [report EXCEPT !.diffs =
                          {Sides(run[1][turn[1]].blocks, run[2][turn[2]].blocks)}]
  /\ UNCHANGED <<runs, ask, bound, view>>

-----------------------------------------------------------------------------
(* The analyses, each of a run that may have grown since the last one.       *)

(* `analyze_check`: a session without turns is not checked. *)
CountTurns ==
  /\ At("count")
  /\ report' = [report EXCEPT !.turns = DOMAIN Run]
  /\ IF Scope(Run, Agent) = {} THEN Fail("error") ELSE Done
  /\ UNCHANGED <<runs, ask, bound, view>>

(* `_require_turn` of `ctxdiff_tokens` and `ctxdiff_diff`. *)
RequireTurns ==
  /\ At("turns")
  /\ IF ToSet(ask.turns) \subseteq Scope(Run, Agent) THEN Done ELSE Fail("error")
  /\ UNCHANGED <<runs, ask, bound, view, report>>

(* `_require_turn` of `ctxdiff_explain`. *)
FindTurn ==
  /\ At("target")
  /\ report' = [report EXCEPT !.target = ask.turns[1], !.turns = DOMAIN Run]
  /\ IF ask.turns[1] \in Scope(Run, Agent) THEN Done ELSE Fail("error")
  /\ UNCHANGED <<runs, ask, bound, view>>

(* `_previous_turn` reads the calls again; and the diff with it, of turns    *)
(* that do not change.                                                       *)
FindPrevious ==
  /\ At("previous")
  /\ LET earlier == Earlier(Run, report.target)
         seen == [report EXCEPT !.asOf.previous = DOMAIN Run] IN
     report' = IF earlier = {} THEN seen
               ELSE [seen EXCEPT
                       !.previous = Max(earlier),
                       !.diffs = {TurnDiff(Run, <<Max(earlier), report.target>>)}]
  /\ Done
  /\ UNCHANGED <<runs, ask, bound, view>>

(* An explanation is about the agent of the turn; a dashboard about all. *)
ReportOn ==
  CASE ask.tool = "explain" /\ Agent = None -> Run[report.target].agent
    [] ask.tool = "export" -> None
    [] OTHER -> Agent

(* `analyze_run`; `tokens --turn` then looks for its turn in the report. *)
ReadTokens ==
  /\ At("tokens")
  /\ report' = [report EXCEPT !.tokens = AnalyzeRun(Run, ReportOn),
                             !.asOf.tokens = DOMAIN Run]
  /\ IF ask.tool = "tokens" /\ ~(ToSet(ask.turns) \subseteq Scope(Run, ReportOn))
     THEN Fail("error") ELSE Done
  /\ UNCHANGED <<runs, ask, bound, view>>

ReadCache ==
  /\ At("cache")
  /\ report' = [report EXCEPT !.cache = AnalyzeCache(Run, ReportOn),
                             !.asOf.cache = DOMAIN Run]
  /\ Done
  /\ UNCHANGED <<runs, ask, bound, view>>

ReadEvictions ==
  /\ At("evictions")
  /\ report' = [report EXCEPT !.evictions = AnalyzeEvictions(Run, ReportOn),
                             !.asOf.evictions = DOMAIN Run]
  /\ Done
  /\ UNCHANGED <<runs, ask, bound, view>>

-----------------------------------------------------------------------------
(* `ctxdiff export` and `view`. *)

(* `_agent_name`: calls without a label are listed under a name of their own.*)
Listed(run) == {run[k].agent : k \in DOMAIN run}

(* `_start_level`: where the dashboard opens. *)
StartLevel ==
  LET selected == ask.sessions # <<>>
      many == Len(runs) > 1
              \/ Cardinality(UNION {Listed(runs[s]) : s \in DOMAIN runs}) > 1
      ofAgent == {s \in DOMAIN runs : Agent \in Listed(runs[s])}
      level == IF Agent # None THEN IF selected \/ Cardinality(ofAgent) <= 1 THEN 3 ELSE 2
               ELSE IF selected \/ ~many THEN 3 ELSE 1 IN
  [level |-> level, session |-> IF level = 3 THEN view[1] ELSE 0]

(* `build_project_payload`, up to the payload of the session in focus. *)
ReadProject ==
  /\ At("project")
  /\ report' = [report EXCEPT !.project = [s \in DOMAIN runs |-> Listed(runs[s])],
                             !.start = StartLevel]
  /\ Done
  /\ UNCHANGED <<runs, ask, bound, view>>

(* `build_payload`: a diff of every turn with the one before, and with the   *)
(* one before of the same agent.                                             *)
ReadPairs ==
  /\ At("pairs")
  /\ report' = [report EXCEPT
       !.turns = DOMAIN Run,
       !.diffs = {TurnDiff(Run, p) : p \in Pairs(Run, None) \cup InARow(Run)}]
  /\ Done
  /\ UNCHANGED <<runs, ask, bound, view>>

-----------------------------------------------------------------------------
(* `ctxdiff sessions` and `agents`, `ctxdiff_runs`. *)

(* `list_sessions`: the sessions and their turns. *)
ListSessions ==
  /\ At("list")
  /\ report' = [report EXCEPT !.sessions =
                [s \in DOMAIN runs |-> Cardinality(DOMAIN runs[s])]]
  /\ Done
  /\ UNCHANGED <<runs, ask, bound, view>>

(* `_cmd_agents` reads the calls of one listed session after the other. *)
ReadCalls ==
  /\ At("calls")
  /\ LET session == Len(report.calls) + 1 IN
     /\ report' = [report EXCEPT !.calls = Append(@, runs[session])]
     /\ IF session = Len(report.sessions) THEN Done ELSE UNCHANGED <<todo, exit>>
  /\ UNCHANGED <<runs, ask, bound, view>>

(* `_agent_rows`: the sessions an agent was in and the calls it made. *)
AgentRows ==
  [name \in UNION {{run[k].agent : k \in DOMAIN run} : run \in ToSet(report.calls)} |->
     [sessions |-> Cardinality({s \in DOMAIN report.calls :
                                  TurnsOf(report.calls[s], name) # {}}),
      calls |-> MapThenSumSet(LAMBDA s : Cardinality(TurnsOf(report.calls[s], name)),
                              DOMAIN report.calls)]]

-----------------------------------------------------------------------------
(* `ctxdiff_block`. *)

(* `_find_block` *)
FindBlock ==
  /\ At("find")
  /\ LET found == ask.block \cap UNION {Contents(Run[k]) : k \in DOMAIN Run} IN
     IF Cardinality(found) = 1
     THEN \E b \in found :
            /\ report' = [report EXCEPT
                 !.block = b, !.carriers = {k \in DOMAIN Run : b \in Contents(Run[k])},
                 !.turns = DOMAIN Run]
            /\ Done
     ELSE Fail("error") /\ UNCHANGED report
  /\ UNCHANGED <<runs, ask, bound, view>>

(* `_fit_block`: how many characters of a slice are kept. *)
Slice(text, offset, chars) == SubSeq(text, offset + 1, Min({offset + chars, Len(text)}))
PageSize(text, offset, chars) ==
  LET slice == Slice(text, offset, chars) IN
  Envelope + MapThenSumSet(LAMBDA i : slice[i], DOMAIN slice)

FitBlock(text, offset, limit) ==
  LET F[chars \in 0..limit] ==
        LET size == PageSize(text, offset, chars) IN
        IF size <= Room \/ chars = 0 THEN chars
        ELSE F[Max({0, Min({chars - Slack, (chars * Room) \div size - Slack})})]
  IN  F[limit]

(* Faulty variant: the text is cut after the page was made up. *)
PageCutLate(b, offset) ==
  LET limit == Max({1, Min({ask.chars, MaxChars})})
      chars == FitBlock(Text[b], offset, limit)
      end == offset + Len(Slice(Text[b], offset, limit)) IN
  [session |-> view[1], block |-> b, from |-> offset,
   to |-> offset + Len(Slice(Text[b], offset, chars)),
   next |-> IF end < Len(Text[b]) THEN end ELSE None,
   size |-> PageSize(Text[b], offset, chars)]

(* The page that begins at `offset`, and where the server says that the next *)
(* one begins.                                                               *)
Page(b, offset) ==
  LET limit == Max({1, Min({ask.chars, MaxChars})})
      chars == FitBlock(Text[b], offset, limit)
      end == offset + Len(Slice(Text[b], offset, chars)) IN
  [session |-> view[1], block |-> b, from |-> offset, to |-> end,
   next |-> IF end < Len(Text[b]) THEN end ELSE None,
   size |-> PageSize(Text[b], offset, chars)]

Offset == IF report.pages = <<>> THEN ask.offset ELSE Last(report.pages).next

SendPage ==
  /\ At("page")
  /\ report' = [report EXCEPT !.pages = Append(@, Page(report.block, Offset))]
  /\ Done
  /\ UNCHANGED <<runs, ask, bound, view>>

(* The client asks for the next page, a request of its own. *)
TurnPage ==
  /\ exit = "answer"
  /\ report.pages # <<>>
  /\ Last(report.pages).next # None
  /\ exit' = "running"
  /\ todo' = <<"bind", "choose">> \o ToolReads
  /\ UNCHANGED <<runs, ask, bound, view, report>>

-----------------------------------------------------------------------------
(* `analyze_check`: every assertion that was asked for, and no other. *)
Passes(gate) ==
  CASE gate = "max-context" -> MaxContextPasses(report.tokens)
    [] gate = "max-context-pct" -> MaxContextPctPasses(report.tokens)
    [] gate = "require-stable-prefix" -> StablePrefixPasses(report.cache)
    [] gate = "no-dead-schemas" -> NoDeadSchemasPasses(report.tokens)
    [] gate = "no-tagged-eviction" -> NoTaggedEvictionPasses(report.evictions)
    [] gate = "max-growth" -> MaxGrowthPasses(report.tokens)
    [] gate = "max-growth-pct" -> MaxGrowthPctPasses(report.tokens)

Finish ==
  /\ exit = "running"
  /\ todo = <<>>
  /\ exit' = IF \A gate \in ask.gates : Passes(gate) THEN "answer" ELSE "failed"
  /\ UNCHANGED <<runs, ask, todo, bound, view, report>>

AllDone == exit \notin {"idle", "running"} /\ UNCHANGED vars

Command ==
  \/ Start
  \/ Bind
  \/ Choose
  \/ FilterAgent
  \/ DiffWithin
  \/ DiffAcross
  \/ CountTurns
  \/ RequireTurns
  \/ FindTurn
  \/ FindPrevious
  \/ ReadTokens
  \/ ReadCache
  \/ ReadEvictions
  \/ ReadProject
  \/ ReadPairs
  \/ ListRuns
  \/ ListSessions
  \/ ReadCalls
  \/ FindBlock
  \/ SendPage
  \/ TurnPage
  \/ Finish

Next ==
  \/ OpenSession
  \/ \E s \in DOMAIN runs : RecordCall(s)
  \/ Command
  \/ AllDone

Spec == Init /\ [][Next]_vars

-----------------------------------------------------------------------------
(* What the properties call a run is what the analysis in question saw of it.*)
Answered == exit \in {"answer", "failed"}
AsRead(analysis) == Restrict(Run, report.asOf[analysis])

(* What a report shows happened between `explain`'s turn and the one before: *)
(* the turn it found before, or one that was stored after it had looked.     *)
BeforeTarget(turn, analysis) ==
  \/ turn = report.previous
  \/ /\ report.previous < turn
     /\ turn \in report.asOf[analysis] \ report.asOf.previous

(* The diff of two turns, whichever two, gives every block of both one fate, *)
(* never calls a block that is in both evicted and added, and its token      *)
(* columns make up the difference of the totals (`_reconcile_moves`,         *)
(* `diff_calls`); what `explain` compares a turn with is its agent's turn    *)
(* before among those that were stored when it looked, none if there was     *)
(* none.                                                                     *)
DiffAccounts ==
  /\ \A d \in report.diffs :
       OneFateEach(d.old, d.new, d.diff) /\ Balanced(d.old, d.new, d.diff)
  /\ exit = "answer" /\ ask.tool = "explain" =>
       {p[1] : p \in {q \in Successive(AsRead("previous"), None) : q[2] = report.target}}
         = {report.previous} \ {0}

(* A reported eviction is final and reported once: the agent had the block,  *)
(* tagged it, and has had it in no turn since its last one; and every tagged *)
(* block that an agent lost that way is reported (evictions.py: "at turn 40  *)
(* the block you tagged was evicted").  What `explain` shows at a turn       *)
(* happened between that turn and the one it is diffed with, unless another  *)
(* was stored between the two in the meantime.                               *)
EvictionsAreFinal ==
  LET run == AsRead("evictions")
      found == report.evictions.evictions IN
  Answered /\ report.asOf.evictions # {} =>
    /\ \A e, f \in found : e.agent = f.agent /\ e.block = f.block => e = f
    /\ \A e \in found :
         /\ e.entered <= e.tagged /\ e.tagged <= e.lastSeen
         /\ <<e.lastSeen, e.evicted>> \in Successive(run, None)
         /\ e.tag \in ToSet(run[e.tagged].tags) \ {None}
         /\ e.evicted = report.target => BeforeTarget(e.lastSeen, "evictions")
    /\ {<<e.lastSeen, e.evicted, e.block>> : e \in found} =
         UNION {{<<p[1], p[2], b>> :
                   b \in {c \in Lost(run, p) : IsTagged(run, run[p[1]].agent, c)}} :
                  p \in Successive(run, ReportOn)}

(* The prefix cache breaks exactly where a turn neither extends nor cuts off *)
(* the turn before of its agent; every break has a culprit (the differ       *)
(* accounts for the first position that differs), and what is stable and     *)
(* what is billed again are the whole of the turn.  What `explain` shows at  *)
(* a turn is a break against the turn it is diffed with, or against one that *)
(* was stored between the two in the meantime.                               *)
BreaksAreReal ==
  LET run == AsRead("cache")
      breaks == report.cache.breaks IN
  Answered /\ report.asOf.cache # {} =>
    /\ {<<b.prev, b.turn>> : b \in breaks} =
         {p \in Successive(run, ReportOn) : ~Extends(run, p)}
    /\ \A b \in breaks :
         /\ BreakFits(b, run[b.prev].blocks, run[b.turn].blocks)
         /\ b.turn = report.target => BeforeTarget(b.prev, "cache")

ReadBy(gate) == IF gate \in TokenGates THEN "tokens"
                ELSE IF gate = "require-stable-prefix" THEN "cache" ELSE "evictions"

(* A green check has checked something, and each of its gates holds of a run *)
(* with all the turns there were when the check began, however the run grew  *)
(* meanwhile; what was not measured never passes for small.  A red one has a *)
(* gate that does not hold (check.py: a check "must never imply it verified  *)
(* something nobody asked for").                                             *)
GreenHolds ==
  Answered /\ ask.tool = "check" =>
    /\ ask.gates # {}
    /\ report.turns # {}
    /\ \A gate \in ask.gates : report.turns \subseteq report.asOf[ReadBy(gate)]
    /\ (exit = "answer") = \A gate \in ask.gates : Holds(gate, AsRead(ReadBy(gate)), Agent)

(* `ctxdiff agents` counts the calls of one session after the other: no call *)
(* is counted twice, none is left out of a session that was listed, and what *)
(* is shown of each session is at least what was there when it was listed.   *)
ListingsAddUp ==
  Answered /\ ask.tool = "agents" =>
    /\ DOMAIN report.calls = DOMAIN report.sessions
    /\ \A s \in DOMAIN report.calls :
         /\ DOMAIN report.calls[s] \subseteq DOMAIN runs[s]
         /\ report.calls[s] = Restrict(runs[s], DOMAIN report.calls[s])
         /\ Cardinality(DOMAIN report.calls[s]) >= report.sessions[s]
    /\ MapThenSumSet(LAMBDA name : AgentRows[name].calls, DOMAIN AgentRows)
         = MapThenSumSet(LAMBDA s : Cardinality(DOMAIN report.calls[s]), DOMAIN report.calls)

(* An answer is about the session that was asked for: the only one its       *)
(* selector matches, the one its handle was given for, or the only one there *)
(* was (`choose_session`: refused rather than guessed); all of it is about   *)
(* the agent that was asked for; and a dashboard that is narrowed to an agent*)
(* knows it, and opens on the turns of a session only if that was asked for  *)
(* or the agent has one session alone, else on the choice between them.      *)
(* Every handle that was given names its session (`_unique_prefix_len`: a    *)
(* file whose sessions collide would be unreachable), and a listing leaves   *)
(* nothing out.                                                              *)
AnswersTheAsked ==
  /\ ListingsAddUp
  /\ \A s \in DOMAIN report.handles :
       MatchRun(DOMAIN report.handles, report.handles[s]) = {s}
  /\ Answered /\ view # <<>> =>
       /\ \A i \in DOMAIN ask.sessions :
            ask.sessions[i].name \cap 1..bound \subseteq {view[i]}
       /\ ask.handle # 0 => view[1] = ask.handle
       /\ ask.sessions = <<>> /\ ask.handle = 0 =>
            view[1] = bound /\ (bound = 1 \/ ask.tool = "export")
       /\ Agent # None /\ ask.tool # "export" =>
            /\ DOMAIN report.tokens.turns \subseteq TurnsOf(Run, Agent)
            /\ \A f \in report.cache.breaks \cup report.evictions.evictions : f.agent = Agent
       /\ report.start.level > 0 /\ Agent # None =>
            LET ran == {s \in DOMAIN report.project : Agent \in report.project[s]} IN
            /\ ran # {}
            /\ report.start.level = 2 => ask.sessions = <<>> /\ \E s, t \in ran : s # t
            /\ report.start.level = 3 =>
                 /\ report.start.session = view[1]
                 /\ ask.sessions # <<>> \/ \E s \in ran : ran = {s}

(* The pages of a block that a client asks for one after the other, by the   *)
(* `next_offset` of the last, are the whole of its text from the first       *)
(* offset on, with nothing skipped or sent twice, although each is cut until *)
(* it fits and the run is looked up anew for each (`_fit_block`: an agent    *)
(* "would silently skip the middle of it").                                  *)
PagesCover ==
  LET pages == report.pages
      text == Text[report.block]
      last == Last(pages) IN
  pages # <<>> =>
    /\ \A i \in DOMAIN pages :
         /\ pages[i].session = pages[1].session /\ pages[i].block = report.block
         /\ pages[i].size <= Room
         /\ pages[i].from = IF i = 1 THEN ask.offset ELSE pages[i - 1].to
         /\ pages[i].next # None => pages[i].from < pages[i].to
    /\ last.next = None => last.to = Max({Len(text), ask.offset})

=============================================================================
