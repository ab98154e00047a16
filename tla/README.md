# ctxdiff in TLA+

ctxdiff records every LLM call an agent makes, block by block, and compares the
turns afterwards. This directory specifies both halves: the path from a completed
call on a host thread to a row in a database, which is concurrent and can fail, and
the way back, the questions that are asked of a store while runs are being written.

    host threads, asyncio tasks            one writer thread          database server
    ---------------------------            -----------------          ---------------
    interceptor / stream proxy /   queue   _Writer._run        SQL    tables shared by
    LangChain handler  -> _on_create ----> Recorder.persist --------> several runs
    (labels: tag, mark, step)              SQLStore.record_call
           Attribution, Capture            Writer, Tracer             SqlStore

    processes of several releases          CLI, MCP server, dashboard
    -----------------------------          --------------------------
    set up and upgrade the tables,         choose a session and an agent, read the
    pass the version gate, insert          runs and their calls, diff, evictions,
    their run row, list sessions           cache breaks, check gates
           SessionStore                           Inspect, Reports, Differ

Paths below are relative to the repository (`src/ctxdiff/trace.py` is the file
`PROJECT.json` calls `src/src/ctxdiff/trace.py`); `PROJECT.json` maps each
definition to its lines.

## 1. The system

| part | state it keeps | operations | interacts with |
|---|---|---|---|
| Interceptors and stream proxies (`trace.py`) | per stream: `_ctx_finalized` | call, await, iterate, `close`, `with`, `__del__` | call `_on_create` on the context that finishes the call |
| Call attribution (`trace.py`: `tag`, `mark`, `step`, `_on_create`) | two context variables per tracer | the three labelling calls, and the read-and-reset of a finished call | contexts are copied by asyncio tasks, reused by pool threads |
| LangChain handler (`capture/langchain.py`) | `_pending`, at most 2048 runs | start, end and error callbacks | `_recorder_for`, `_on_create` |
| Tracer life cycle (`trace.py`: `Tracer`) | `_ct`, `_writer`, `_recorders`, two locks | `wrap`, `_recorder_for`, `_on_create`, `close` | creates a deferred store and a writer thread per session |
| Writer (`trace.py`: `_Writer`, `_DeferredStore`) | a bounded queue, `_closed`, four one-time warning flags | `submit`, `_run`, `close` | runs `Recorder.persist` |
| Recorder (`capture/recorder.py`) | `_persist_warned` | `build`, `persist` | adapters, store |
| SQL store (`store/sql.py`, `postgres.py`, `mysql.py`) | one connection, the mirror `_models` | `_ensure_schema`, `open_session`, `record_call`, `note_model`, retries, readers | one database for many runs |
| SQLite store (`store/ctrace.py`, `sqlite.py`) | one file per project | `open_or_create_session`, the upgrade of a version 1 file, `record_call`, readers | processes that share the file |
| Adapters, images, tokens | none | conversion | - |
| Store configuration (`store/config.py`) | the DSN of `configure()` | `resolve` decides the kind of store | environment |
| Differ (`analyze/differ.py`) | none | `diff_calls`, `diff_turns` | two turns of a run |
| Evictions, cache, tokens, window (`analyze/`) | none | one report each, over all turns of a run | the differ, readers |
| check gates (`analyze/check.py`) | none | `analyze_check` | the other reports |
| CLI and selection (`cli/`) | one command | session and agent selection, one answer, an exit code | readers, analysis |
| MCP server (`mcp/`) | none between requests; the client keeps handles and offsets | `runs`, `explain`, `block` and the tools named like commands | as the CLI |
| Viewer and demo (`viewer/`) | none | a dashboard of all sessions | readers, analysis |
| TypeScript port (`js/`) | the same design on one event loop | the same | - |

What is hard in it:

- `submit`, `close` and `_finalize` are check-then-act without a lock; `_on_create`
  and `Tracer.close` read `_writer` and `_ct` more than once without one.
- A record is accepted on one thread and settled on another, later or never.
  `close` must neither lose it nor hang, and its join may time out while the
  writer thread lives on.
- A tracer goes through several sessions; proxies and the handler's recorder
  outlive theirs.
- Runs share block rows in one database: their transactions deadlock, are refused,
  are cut off, and a COMMIT can be carried out although its answer never comes.
- The labels of a call are those of the context it ends in, which may be a copy, a
  pooled thread, or wherever the garbage collector runs.
- Processes start together on an empty store or an old file. Catalog races and lock
  errors make them repeat set-up, two releases may share a store, and readers take
  several queries to list what writers change.
- A command reads its run several times while calls are added to it. Blocks repeat,
  move and come back, and what could not be measured must not pass for small.

What makes each part correct:

- *Writer*: accepted records are settled in order and once; a close that says it
  flushed did; no loss is silent; a host is never blocked.
- *Tracer*: one session per run however many threads wrap; a store handle
  comes with its writer; no deadlock between the locks and the writer.
- *SQL store*: calls are whole or absent; a single fault costs nothing;
  `record_call` ends; the mirror never leads the database.
- *Attribution and capture*: each call is recorded once, whichever of its ends
  occur; none vanishes; tags and steps stay in their context.
- *Both stores*: one run row per opening although set-up is retried; an opening fails
  of its own troubles only; newer and older rows mix only in a race; a listing fits
  together; sessions and calls are never lost.
- *Analysis*: every block of two turns is accounted for once by the diff; an eviction
  is a presence interval that ended; a break names what really changed; a green check
  holds of what it was asked about.
- *Commands*: an answer is about the session and the agent that were asked for, also when
  the client learned their names earlier; a block sent in pages arrives whole.

## 2. Modules

| module | models | composed with |
|---|---|---|
| `CaptureLog` | abstract: what the pipeline promises about records | implemented by `Writer` |
| `Writer` | the queue, the writer thread, its deferred store, callers of `submit` and `close` | |
| `WriterProofs` | the proofs about `Writer` | extends `Writer` |
| `Tracer` | one `Tracer`: wrapping, recording and closing threads, its sessions and their writers | a coarser `Writer` per session |
| `TracerProofs` | the proofs about `Tracer` | extends `Tracer` |
| `SqlStore` | `record_call` and `note_model` of several handles on one server | |
| `SqlStoreProofs` | the proofs about `SqlStore` | extends `SqlStore` |
| `SessionLog` | abstract: what a store promises its readers | implemented by `SessionStore` |
| `SessionStore` | processes that open a store of any kind, list it and add calls; store configuration | |
| `SessionStoreProofs` | the proofs about `SessionStore` | extends `SessionStore` |
| `Attribution` | contexts, `tag`, `mark`, `step`, the labelling half of `_on_create` | |
| `Capture` | interceptors, stream proxies, LangChain handler | extends `Attribution` |
| `CaptureProofs` | the proofs about `Attribution` and `Capture` | extends `Capture` |
| `Differ` | the diff of two turns, as operators | |
| `DifferProofs` | the proofs about `Differ` | extends `Differ` |
| `Reports` | the runs as recorded, the analyses and the gates, as operators | extends `Differ` |
| `ReportsProofs` | the proofs about `Reports` | extends `Reports`, `DifferProofs` |
| `Inspect` | a store that grows while one command, tool or dashboard reads it | extends `Reports` |
| `InspectProofs` | the proofs about `Inspect` | extends `Inspect`, `ReportsProofs` |
| `MCWriter`, `MCTracer`, `MCSqlStore`, `MCSessionStore`, `MCCapture`, `MCInspect` | small instances for TLC | |

### Writer

`submit` is two actions because its check of `_closed` and its `put_nowait` are two
steps on an unlocked path: `SubmitCheck` or `SubmitRefused`, then `SubmitPut` or
`SubmitOverflow`. The thread is `OpenStore`/`OpenStoreFails`, then `TakeJob` and one
of `SkipJob`, `StoreJob`, `JobFails`, `JobRaises` per record, `TakeSentinel` (which
starts the drain, and is skipped inside it), `DrainDone`, `CloseStore`. `close` is
`CloseBegin`/`CloseAgain` under its lock, the blocking `PutSentinel`, and a join that
is `JoinDone` or `JoinTimeout`. `fate` gathers what became of each record, and
`ticket`, `owed` and `racing` are history that no guard reads. `Idle` is the state
in which nothing has to happen, so deadlock is checked.

The "last resort" warning flags are kept per object, as in the code: one on the
writer for losses on the host side, one for closures that raise, one per Recorder,
and one for the set-up.

### Tracer

A session is a `_DeferredStore` with the `_Writer` built around it, numbered in the
order of creation. The program counters follow the lock regions of
`_ensure_store` and `_recorder_for` and the separate reads of `_writer` and `_ct` in
`close` and `_on_create`, so a wrap, a call and a close interleave between them. A
Recorder is identified with the `_ct` it was built on. `wrap` reads `_ct` again after
the lock is released: a close in between makes it None, and the Recorder keeps that.

Each session has the queue of its writer, of `Capacity` jobs, as in Writer. A call goes
through `submit` in three steps: `CallSubmits` (the second read of `_writer`),
`CallAdmitted` (the check of `_closed`) and `CallQueued` or `CallOverflows` (the put), so
that a close and the whole drain fit between the check and the put, and a record can be
left in the queue of a thread that has gone. `QueuedIsSettled` therefore asks of the
records whose writer is still there; `NothingStranded` is the counterexample for the rest.
`CloseWriter`, `PutSentinel` and `JoinEnds` are `_Writer.close`; the writer thread meets
the sentinel (`TakeSentinel`), drains (`TakeCall`) and leaves at the first empty queue
(`WriterExits`).

### SqlStore

The transaction of a call is taken statement by statement: `InsertCall`, one
`UpsertBlock` per block, `CommitCall`; the roll-up is `UpdateModels`, `CommitModels`.
Row locks are those of uncommitted upserts; with `LocksDuplicates` (MySQL) also of
rows merely met. `Refuse`, `Deadlock`, `LoseConnection`, `LoseIdle` and `Crash` are the
environment: a lost connection leaves an *orphan*, a transaction the server rolls back
or, when COMMIT had been sent, may still commit (`Resolve`). `Retry`, `Reopen`,
`ReopenFails` and `Fail` follow the branches of `_with_write_retry`.

### SessionStore

One module for the three kinds of store, because what they promise is the same
(`SessionLog`): `backend` is what `Resolve` makes of the argument, `configure()` and
the environment. On a server `CreateTables` or `CreateTablesSerially`, `CommitTables`,
`LoseRace` and `TakeOver` are `_ensure_schema`: on Postgres a second transaction that
creates the tables waits for the first, meets a duplicate in the catalog when that one
commits, which costs it an attempt, and goes on when it rolls back. On SQLite
`CreateFileTables`, `ReadColumns` and `AddColumn` are the set-up and the upgrade of a
version 1 file, each under the file's lock for one statement only, and `LockedOut` repeats the whole of it, as `_with_write_retry` does. `Gate` and
`InsertRow`, `CommitRow` are the two halves of `open_session`. On SQLite the row is
committed by `InsertRow`, and what follows is `OpenHandle`, the reads of `CTrace.__init__`,
which stand outside of the retry and of the handler that closes the connection;
`HandleFails` is one of them raising. `RecordCall` is one whole call (SqlStore takes it
apart); how calls lie within their session is left to Inspect, here they are counted and
carry labels. `Bind`, `ListRuns`, `CountTurns` and `ListAgents` are
`open_reader` and the three queries of `list_sessions`; MySQL answers them from the
snapshot of the first one, the others each from the present. `passed` and `blips` are
history: the rows a gate has met, the faults a process has met.

`SessionLog` adds a session anywhere in the listing and a call at the end of its
session, with the session's agent, and never takes anything away. `Before` maps places
to the order of the listing; a place is a rowid on SQLite and an `insert_order` on a
server, which is drawn at the INSERT and seen at the COMMIT.

### Differ, Reports and Inspect

`Differ` is `diff_calls` over sequences of blocks: `Matched` is the recursion of
`difflib.SequenceMatcher` (external, a recursive function), `Facing` pairs off what one
`replace` opcode holds at the same distance from its start, `ReconcileMoves` the copies
of a block in their order. `Reports` has the analyses: `Total` with `IsFloor` for images
that have no count, `Dead` schemas, `AnalyzeEvictions` over successive turns of each
agent, `AnalyzeCache` with the culprit of a break, and the seven gates; `Round1` is
`round1`. A percentage is a whole number of tenths of a per cent, and an exact comparison
is one of products of integers. Which way floating point rounds a quotient that lies half
way between two tenths depends on the quotient: `RoundsUp` is the set of those that go up,
and nothing is assumed of it.

`Inspect` runs them. `OpenSession` and `RecordCall` are the writers, who go on while a
command is at work. The command is `Start` (usage errors), `Bind`, `Choose` (selectors
that match one session, none or several), then one action for each time the code reads
its run again, in the order in which `Plan` takes them from `cli/main.py`,
`mcp/tools.py`, `analyze/check.py` and `viewer/export.py`, then `Finish` with the exit
code. A call takes its `seq` when it ends (trace.py:1024) and is built and handed to the
writer afterwards (1033-1041), so of two host threads the later number may be stored first;
a call that was dropped leaves its number unused. A run is therefore a function on the
numbers that are stored, `RecordCall` stores a turn under any number that is free, and a
turn may appear in front of turns that a command has read already. `asOf` is history: the
numbers of the turns each analysis saw; `AsRead` is the run as it saw it. `Asks` are the
command lines that are tried: with and without selectors of each kind, gates and window.
`WellFormed` keeps to the arguments the commands and tools have. The dashboard's first
read, of every session with its agents, is `report.project`; the level it opens on is
decided by that read and not by what the store holds later.
`sessions` and `agents` are `ListSessions` and `ReadCalls`, one session after the other.

The MCP server forgets everything between requests, so what its client remembers may be
out of date. `ListRuns` is `ctxdiff_runs`, which gives the sessions their handles
(`RunLabel`, with `UniquePrefixLen` characters of the id), and `MatchRun` what a later
request makes of one. `ctxdiff_block` is `FindBlock` and `SendPage`; `TurnPage` is the
client's next request, with the `next_offset` of the last page, for which all is looked up
again. A text is the sequence of the sizes its characters have when encoded, which is all
that `FitBlock` knows of them; none takes more than `Widest`.

### Attribution and Capture

A context is an OS thread's (`Spawn`, empty) or a task's (`Fork`, a copy); a pooled
worker is one context for all its tasks. A call that reaches `_on_create` becomes an
entry of `log` with its context, tags and step. `Finalize` and `FinalizeRecords` are
the two halves of `_finalize`, its check and everything from the flag on, so two
contexts can both pass the check. `StreamEnds` stands for exhaustion, `close` and
`with`, which differ in what they forward and not in what they record; a `with` whose
real exit raises, or an iteration cancelled by a `BaseException`, changes nothing. The
handler's dictionary is the sequence `parked`. `log` ends where Tracer begins: whether
an entry is then built, queued and stored is not asked twice.

## 3. Runs

| run | instance | what it shows |
|---|---|---|
| `writer` | 2 hosts, 2 closers, 3 records (one quiet), 2 Recorders, queue of 2 | `FlushedMeansSettled`, `StrandedWereRacing`, `LossIsAnnounced`, `WrittenWhileOpen`; `Inv`, which the proofs use; `KeepsPromise`, the refinement of `CaptureLog`; `AcceptedIsSettled`, `CloseReturns` with a store that answers; `SubmitReturns` with any store |
| `writer_close_hangs` | 3 records, queue of 1 | violation: `CloseNeverHangs` |
| `writer_stranded` | 3 records, queue of 2 | violation: `NothingStranded` |
| `tracer_safety` | 2 threads, 1 call, 2 closes (3 sessions), queues of 1 | `OneSessionPerRun`, `HandleComesWithWriter`, `StaleOnlyAfterClose`, `CloseFlushes` |
| `tracer_liveness` | 2 threads, 1 call, 1 close, queues of 1 | `WrapReturns` with wedged stores, `QueuedIsSettled` with stores that answer |
| `tracer_affinity` | 1 thread, 2 calls, 1 close | violation: `SingleConnectionUser` |
| `sql` | 2 runs, 3 calls, 2 shared blocks in opposite orders, 2 faults, MySQL locks | `WholeCalls`, `MirrorLags`, `NoCheapLoss`, `CallEnds`; `Inv`, which the proofs use |
| `sql_lost_answer` | 1 run, 3 calls, 1 fault | violation: `FailureMeansAbsent` |
| `sessions` | 2 writers of one release and 1 of the next, 1 reader, each kind of store, empty or (SQLite) a version 1 file, 2 faults, 2 attempts under a lock | `FailureHasCause`, `OneRowEach`, `MixedOnlyByRace`, `ListingHolds`; `KeepsSessions`, the refinement of `SessionLog` |
| `labels` | 2 contexts, 1 step label to depth 2, 1 tag, 2 calls | `StepIsLexical`, `OwnTags`, `OneCallPerContext` |
| `capture` | 2 contexts, 1 stream, 3 LangChain runs, 2 pending | `RecordedOnce`, `NoneVanish`, `BrokenAreFailed`, `DroppedIsRecorded` |
| `inspect` | 27 commands, up to 3 turns out of 11, stored in any order of their numbers, in up to 2 sessions, 7 blocks | `DiffAccounts`, `EvictionsAreFinal`, `BreaksAreReal`, `GreenHolds`, `AnswersTheAsked`, `PagesCover` |

The run `sessions` also checks the type invariant of its module, `writer` and `sql` do as
a part of `Inv`; those of Capture and Tracer are proved.

**Bounds.** A queue of two is the smallest in which a record can lie behind the
sentinel and another in front of it; three records fill it and keep one offered or in
hand. Two closers are enough for the first and the repeated `close`: a second one
never changes the state of the writer. The proofs remove these bounds for safety. In
Tracer the number of sessions is bounded by `MaxCloses + 1`, because only a close makes
room for one; two closes give the overlapping and the successive ones. One call is
enough for what it is asked there (the order of several is Writer's), except for
`tracer_affinity`, which needs a call in each writer. Two runs and two blocks are the
smallest deadlock; two faults are the smallest number that may cost a call, so
`NoCheapLoss` is tested on both sides; `MaxAttempts` is the code's three. `MaxPending`
is two for the code's 2048: with three runs the bound is met, the oldest is evicted
and its late end arrives. `MaxDepth` bounds the nesting of `with step`. In SessionStore
two writers race and a third of the other release meets either of them; the DDL is
tried three times as in the code (`SchemaAttempts`), a lock two times for the code's six
(`LockAttempts`), so that with two faults it is given up; `MaxTurns` is one because calls
of one session do not meet, and `MaxFaults` bounds all faults together. The proofs remove
these bounds too. In Inspect three turns are the fewest in which something is lost and
comes back, and a growth and a break follow each other, and in which one can appear between
two others; `MaxTurns` bounds all of them and their numbers. The
eleven turns repeat blocks, move them, replace one by one, tag, swap around an equal
run, and hold an image without a count; the thresholds of the gates are set so that the
turns fall on both sides of them. The two session ids agree
in more characters than `ShortId`; a text of five characters makes three pages, the
first of which is cut to fit. `Slack` is to `Room` about as the code's 64 is to 15000:
small enough that a page is never cut to nothing. `Widest` is three for the code's six
(an escaped character). `InspectAssumption` says what the paging needs of these sizes: a
page that is too long has room for `Slack` characters of the average size of its own; with
the code's 15000, 12000, 64 and 6 this is so whenever the rest of a page takes less than
14600 bytes, and it takes some hundreds. It also says that ids are distinct and of one
length, as those of uuid4 are. `RoundsUp` is empty in the instance; the proofs are for all
of its values. Symmetry is used for host threads and calls in
Tracer's safety run and for writers of one release in SessionStore, whose properties do not
tell them apart.

**Fairness.** Python threads are preempted but not stopped, so an operation that began
goes on (`HostFairness`, `CloserFairness`, `ThreadFairness`). Whether a host submits,
wraps or closes is never assumed. Nothing is assumed of the writer thread in
`FairSpec`: a database call may block for ever, which is what `SubmitReturns`
and `WrapReturns` are about. The join of `close` ends with the thread or by its timeout;
that it does is part of `CloserFairness` and not a property. `StoreAnswers` and `StoresAnswer` add it as
an antecedent of the properties that need it. `threading.Lock` gives no order, so a
handler that waits for `_setup_lock` needs strong fairness; a run wraps finitely many
clients, so it is granted. In SqlStore the server is assumed to break deadlocks and to
end lost connections, as both servers do by timeout. SessionStore and Inspect have no
liveness property: whether a process goes on is left open, which is also how it stops
anywhere outside a transaction (`Crash` is the death that leaves one open). In Capture a `_finalize` that
began ends, and a stream nobody holds is collected (at once under CPython's reference
counts); an interpreter that shuts down first is outside the model.

**Faulty variants.** Beside the operations each module keeps plausible bugs of them,
which no specification uses. With the operation replaced by the variant, the property
fails:

| property | operation | variant |
|---|---|---|
| Writer `Inv` | `SubmitPut` | `SubmitPutUnbounded` |
| `FlushedMeansSettled` | `JoinDone` | `JoinDoneUnchecked` |
| `StrandedWereRacing` | `SubmitCheck` | `SubmitCheckAliveOnly` |
| `LossIsAnnounced` | `Degrade` | `DegradeInverted` |
| `WrittenWhileOpen` | `TakeSentinel` | `TakeSentinelClosesFirst` |
| `KeepsPromise` | `JobFails` | `JobFailsRequeued` |
| `AcceptedIsSettled` | `TakeSentinel` | `TakeSentinelNoDrain` |
| `CloseReturns` | `JobRaises` | `JobRaisesKillsThread` |
| `SubmitReturns` | `SubmitOverflow` | `SubmitOverflowWaits` |
| `OneSessionPerRun` | `CreateStore` | `CreateStoreUnchecked` |
| `HandleComesWithWriter` | `ClearStore` | `ClearStoreForgets` |
| `StaleOnlyAfterClose` | `WrapBegin` | `WrapBeginBindsFirst` |
| `CloseFlushes` | `PutSentinel` | `PutSentinelMakesRoom` |
| `QueuedIsSettled` | `WriterExits` | `WriterSkipsDrain` |
| `WrapReturns` | `StartWriter` | `StartWriterWaits` |
| SqlStore `Inv` | `Retry` | `RetryOnceMore` |
| `WholeCalls` | `InsertCall` | `InsertCallAutocommits` |
| `MirrorLags` | `UpdateModels` | `UpdateModelsMarksFirst` |
| `NoCheapLoss` | `Retry` | `RetryWithoutRollback` |
| `CallEnds` | `Reopen` | `ReopenUncounted` |
| `StepIsLexical` | `StepExit` | `StepExitClears` |
| `OwnTags` | `Tag` | `TagShared` |
| `OneCallPerContext` | `OnCreate` | `OnCreateKeepsTags` |
| `RecordedOnce` | `FinalizeRecords` | `FinalizeRecordsUnflagged` |
| `NoneVanish` | `RunStarts` | `RunStartsEvictingYoungest` |
| `BrokenAreFailed` | `StreamBreaks` | `StreamBreaksSilently` |
| `DroppedIsRecorded` | `Collect` | `CollectSilently` |
| SessionStore `TypeOK` | `LockedOut` | `LockedOutOnceMore` |
| `FailureHasCause` | `LoseRace` | `LoseRaceRaises` |
| `OneRowEach` | `InsertRow` | `InsertRowAutocommits` |
| `MixedOnlyByRace` | `Gate` | `GateNewestOnly` |
| `ListingHolds` | `ListRuns` | `ListRunsJoined` |
| `KeepsSessions` | `ReadColumns` | `ReadColumnsTrusting` |
| `DiffAccounts` | `ReconcileMoves` | `ReconcileMovesByHash` |
| `EvictionsAreFinal` | `LostAtPair` | `LostAtPairEarly` |
| `BreaksAreReal` | `Culprit` | `CulpritShifted` |
| `GreenHolds` | `MaxGrowthPctPasses` | `MaxGrowthPctPassesMeasured` |
| `AnswersTheAsked` | `Choose` | `ChooseNewest` |
| `PagesCover` | `Page` | `PageCutLate` |

## 4. Where code and comments part

Four runs end in a counterexample; each is a sentence of the source that the code
does not keep.

1. `writer_stranded`: `close` promises "no lost writes". A `submit` that passed its
   check before `_closed` was set, and puts after the drain met an empty queue, leaves
   its record behind without a warning. `StrandedWereRacing` is the promise that is
   kept: nothing else is left behind.
2. `writer_close_hangs`: exceeding the timeout "warns rather than hanging the caller
   forever". The timeout covers the join, not the blocking put of the sentinel into a
   full queue. `CloseReturns` is what is left of it when the store answers.
3. `tracer_affinity`: "there is never concurrent connection access". A proxy kept over
   a close that timed out submits to the new writer and writes to the old store, which
   the old writer may still be using.
4. `sql_lost_answer`: a saved call must not be reported as lost. When the answer to a
   COMMIT is lost, the retry meets its own row as a duplicate key and the call is reported
   as failed. The property is about retries that reached the database; a call whose
   connection cannot be reopened after such a COMMIT is reported as failed too, but there
   the code has nobody to ask.

Met while modelling, and allowed for in a property instead of having a run:

- `_Writer` says that "the persisted timeline is stable" because records are numbered before
  they are submitted and read back by number (trace.py:369-372). The number is taken at 1024
  and the record submitted at 1041, so a turn may appear in front of turns that have been
  read. `ctxdiff_explain` looks for the turn before (tools.py:896) and makes its cache and
  eviction reports later (899-900): when a turn of the agent is stored between the two
  meanwhile, the break or the eviction it shows happened against another turn than the one
  its diff is with. `BeforeTarget` in `EvictionsAreFinal` and `BreaksAreReal` allows this and
  nothing else, and `DiffAccounts` asks for the turn before among those stored at that time.
- The model column: a list committed without an answer is overwritten from the mirror
  by the next roll-up, so a model may disappear (`MirrorLags` says how far they differ).
- Two contexts that end one stream at the same moment both record it (`raced` in
  `RecordedOnce`); the docstring says "EXACTLY once".
- A tag pending when a task is created labels the next call of the parent *and* of the
  task; `_on_create` says "exactly one call". `OneCallPerContext` and `OwnTags` are what
  holds.
- A `Tracer.close` that overlaps another returns without a flush; `CloseFlushes` asks
  only of closes that nothing overlaps.
- The persist warning is one per Recorder, not one per run: `recWarned` is a set.
- Two processes that widen a version 1 file at once: the second `ALTER TABLE` fails with
  a duplicate column, which is not a lock error and is not retried (`FailureHasCause`
  names it).
- A SQLite opening whose row is committed may still fail: the handle's own reads
  (ctrace.py:78-86, reached at 234) run after the set-up that "leaves no half-written run
  row", and an error of theirs raises with the row there. The session is listed and stays
  empty. `OneRowEach` and `FailureHasCause` name the cause `"handle"`.
- `insert_order` is drawn before the COMMIT: a session may appear in a listing in front
  of one that had been listed already (`SessionLog` adds it anywhere).
- The version gate reads before it inserts: `MixedOnlyByRace` says exactly when "refused
  rather than mixed" does not hold.
- A pure swap around an equal run of two or more (old `A X Y B`, new `B X Y A`, A and B of
  one slot) is two `modified` entries; evictions.py:19-21 and `_reconcile_moves` say that
  a pure reorder is `unchanged`. `DiffAccounts` asks that contents balance, not which name
  a move has.
- A culprit called `added` is "not present in the previous turn" (cache.py:252). Of
  `s t u` and `u s x v` it is `u`, which was there and was paired off as modified with
  another; `CulpritFits` counts blocks outside the modified pairs.
- check.py:401-403 compares exactly and rounds for display, as "every percentage in
  ctxdiff" is said to; `_check_max_growth_pct` compares what it has rounded, so 10.04%
  passes a limit of 10%. `Holds` allows it half a tenth.
- `_file_session_rows` (cli/main.py:1248) says that each row of `ctxdiff sessions` "names
  something that can actually be selected". Its short ids are always twelve characters; of
  two sessions that agree in those, `--session` refuses both as ambiguous. The MCP server
  lengthens its handles instead (`AnswersTheAsked`), but a handle given before the second
  session came is refused afterwards.
- `export --agent X` without `--session`, when X ran in one session that is not the
  newest, opens on the turns of the newest, where X has none; the docstring of
  `_start_level` (viewer/export.py:530-566) says "scoped to it". `AnswersTheAsked` states
  the exception.

## 5. Proofs

`WriterProofs` proves, for any hosts, closers, records, Recorders and any capacity,
from `WriterAssumption` only:

| theorem | statement |
|---|---|
| `Invariance` | `Spec => []Inv` |
| `TypeCorrect` | `Spec => []TypeOK` |
| `CloseFlushes` | `Spec => []FlushedMeansSettled` |
| `OnlyRacingStranded` | `Spec => []StrandedWereRacing` |
| `NoSilentLoss` | `Spec => []LossIsAnnounced` |
| `StoreDiscipline` | `Spec => [](WrittenWhileOpen /\ DeadStoreWarnsOnce)` |
| `WriterKeepsPromise` | `Spec => KeepsPromise`, the refinement of `CaptureLog` |

None of the safety properties is inductive. `Inv` adds to them:

- `OfferInv`: a record between check and put is in the hands of one host;
- `QueueInv`: the queue holds exactly the queued records, in the order of their
  tickets; `CurInv`: the one in hand was put before all of them. From these two
  "settled in order" follows, and the refinement;
- `StoreInv`: what the position of the thread says about its store;
- `CloseInv`: until the sentinel is met, a record owed to a close lies in front of it.
  This is the heart of `CloseFlushes`: the sentinel is put after `_closed`, and the
  queue is first in, first out;
- `RacingInv`: once `_closed` is set, a record is put only if it had been offered.

Each conjunct has a lemma `...Step` with one step per action, and `Invariance` puts
them together. `StepRefines` maps each action to one of `CaptureLog` or to a stutter:
the puts accept, the drops refuse, a settled record is `Oldest` by `CurInv`. `Inv` is an
invariant of the run `writer` too.

`CaptureProofs` proves, for any contexts, labels, tags, calls and any `MaxPending`, from
`AttributionAssumption` and `CaptureAssumption` only:

| theorem | statement |
|---|---|
| `CaptureTypeCorrect` | `Spec => []TypeOK` |
| `StepsAreLexical` | `Spec => []StepIsLexical` |
| `OwnTagsOnly` | `Spec => []OwnTags` |
| `TagsLabelOnce` | `Spec => []OneCallPerContext` |
| `RecordedAtMostOnce` | `Spec => []RecordedOnce` |
| `BrokenRecordedAsFailed` | `Spec => []BrokenAreFailed` |
| `NothingVanishes` | `Spec => []NoneVanish` |

The proofs have two layers. `AttributionSteps` says that a step labels, records, or does
neither, so that the labels are argued about without the streams and the runs:

- `ScopeInv`: the tokens of a context are the labels of its scopes but the innermost;
- `TagInv`: a pending tag was given here or inherited, and no call of this context has
  it; `LiveInv`: a context that does not exist yet has no labels and no calls, which is
  what makes the copy of `Fork` harmless.

The calls need what their log entries, their phase and the `_finalize` in progress have
to do with each other:

- `StreamOK`: a stream in the log whose flag is not set failed at its request; two
  contexts inside the `_finalize` of one stream, or one inside it after the flag, make
  it `raced`; whoever finalises a broken stream alone reports a failure;
- `ParkedInv`, `QueueInv`: parked runs are distinct, unended, and each has at least as
  many runs started after it as wait behind it. At the bound this is what
  `NoneVanish` allows the oldest to be dropped for;
- `RunInv`, `PlainInv`: the calls that are over, or no longer parked, and the log.

`RecordingOnce` sums up the steps: at most one call is added to the log, it was not
there or is `raced`, and a broken one is added as failed.

`SessionStoreProofs` proves, for any processes, releases, labels, any `LockAttempts`,
`MaxTurns` and `MaxFaults`, on each of the three kinds of store and from
`SessionStoreAssumption` only:

| theorem | statement |
|---|---|
| `Invariance` | `Spec => []Inv` |
| `SessionTypes` | `Spec => []TypeOK` |
| `FailuresHaveCauses` | `Spec => []FailureHasCause` |
| `RowsAreOne` | `Spec => []OneRowEach` |
| `NeverMixed` | `Spec => []MixedOnlyByRace` |
| `ListingsHold` | `Spec => []ListingHolds` |
| `StoreKeepsSessions` | `Spec => KeepsSessions`, the refinement of `SessionLog` |

`FailureHasCause` is a conjunct of the inductive `Inv`; the others need:

- `PcInv`: which process can be where on which kind of store, and that who is past set-up
  has found tables;
- `AttemptInv`: a second attempt on a server finds the tables, so nobody waits twice and
  three attempts are enough for any number of processes; one on a file has met a lock;
- `ColsInv`: past the upgrade all columns are there, and whoever added the last one knows
  it. It is why no agent is dropped, and why a duplicate column has a second writer;
- `RowsInv`: a row belongs to a handle that is open or being made, to one that could not
  be read, or to a COMMIT that stayed unanswered; no two places meet, and the place drawn for a row to come is still free;
- `GateInv`: a newer row in front of an older one was not met by its gate;
- `ReadInv`: what the earlier queries of a listing saw is still there for the later ones.

In `StoreKeepsSessions` the step that commits a row adds a session (`RowOpens` says where
in the listing), `RecordCall` adds a call, and everything else is a stutter.

`TracerProofs` proves, for any threads, calls and any `MaxCloses`, from `TracerAssumption`
only:

| theorem | statement |
|---|---|
| `Invariance` | `Spec => []Inv` |
| `TypeCorrect` | `Spec => []TypeOK` |
| `EnsuredOnce` | `Spec => []OneSessionPerRun` |
| `NeverHalfCleared` | `Spec => []HandleComesWithWriter` |
| `LossNeedsClose` | `Spec => []StaleOnlyAfterClose` |
| `CloseKeepsPromise` | `Spec => []CloseFlushes` |

Its `Inv` relates the lock, the program counters and what the threads hold:

- `LockInv`, `SessionInv`: one thread is inside `_ensure_store`; the session without a
  writer is the newest, and that thread is about to give it one;
- `CountInv`: each session but the one `_ct` holds was paid for by a close that has gone
  through `clearStore`. With the lock this is `OneSessionPerRun`, and it keeps the number
  of sessions within the type;
- `HandInv`, `QueueInv`, `RunningInv`: a call is in the hands of one thread, in one place
  of one queue, or with one writer;
- `SentinelInv`: a writer that nobody has closed has no sentinel in its queue and is not
  past one; `PairInv`: a handle that no close is about to clear has its own open writer,
  or is being given one. With `LockInv` this is `HandleComesWithWriter`;
- `FreshInv`, `FreshStoreInv`: what is true before the first close, when there is one
  session whose set-up cannot have failed. `StaleOnlyAfterClose` follows from them;
- `ClosedInv`, `PromiseInv`: a writer named by `_writer` is closed only on the way to
  clearing it; what a close promised is settled, or lies before the sentinel of the writer
  it joins (`Ahead`), where no drain, overflow or late put can reach it.

`SqlStoreProofs` proves, for any runs, calls, blocks, models and faults and both kinds of
locking, from `SqlStoreAssumption` only:

| theorem | statement |
|---|---|
| `Invariance` | `Spec => []Inv` |
| `TypeCorrect` | `Spec => []TypeOK` |
| `AllOrNothing` | `Spec => []WholeCalls` |
| `CommitThenMark` | `Spec => []MirrorLags` |
| `LossNeedsTwoFaults` | `Spec => []NoCheapLoss` |

- `TurnInv`: who is recording has a call of its own in hand; `TxOf` and `NoteOf` (in
  `WriterInv`): what an open transaction holds, statement by statement, so that it is whole
  when COMMIT is sent, and that a roll-up is the mirror and one model more;
- `BlipOf`: every attempt but two was paid for with a fault of the call's own (the first
  attempt, and one that found its connection already dead). With three attempts this is
  `NoCheapLoss`, and it bounds `attempt` in the type;
- `OrphanInv`: a lost transaction that may still commit is whole, and its models are the
  mirror and one more; its writer's next roll-up waits for it.

The run `sql` checks this `Inv` too; that of Tracer was checked on the instance of
`tracer_safety` before it was proved, and is not part of the run (`OneSessionPerRun` and
the other three are).

`DifferProofs` proves, for any blocks, slots and token counts and contexts of any length,
from `DifferAssumption` only:

| theorem | statement |
|---|---|
| `DiffAccountsForAll` | of *any* matching of equal blocks, `DiffMatched` has `OneFateEach` |
| `DiffsAreExact` | `DiffCalls` has `OneFateEach` and `Balanced` |

The first uses nothing of `difflib` and holds for other matchers too. It rests on two
lemmas: facing positions are one to one (`FacingIsOneToOne`), and so are ranks among the
copies of a block (`RankIsOneToOne`, by the cardinality of strict subsets). The second is
the first conjunct of `DiffAccounts` for all contexts, and needs what is computed by
recursion:

- `Matched` is a recursive function over regions (a range of each context; a region is one
  argument because the provers know functions of one). That it has a value everywhere, and
  that the value is a matching in both orders (`RegionsAlign`), is shown by the smallest
  counterexample: the region whose ranges are shortest among those that fail has two
  shorter ones, left and right of the longest common run, which do not fail;
- `Cost` is a fold. `SumExists` and `SumIs` characterise sums over finite sets by the same
  argument on the number of members, `SumUnion` and `SumRemove` are what the proofs cite;
- `RanksAreDense`: the ranks of n copies are 0 to n-1, so after the moves no block is left
  on both sides (`NothingLeftToMove`); `ColumnsBalance` adds the columns up;
- `MatchedInPlace`: up to the first position that differs, nothing is paired off across
  positions, whatever repeats later.

`ReportsProofs` proves, for any run of turns over any blocks, any thresholds and any
rounding of ties, from `ReportsAssumption` and `DifferAssumption` only:

| theorem | statement |
|---|---|
| `BreaksAreExact` | the breaks reported are the successive turns neither of which extends the other; each has a culprit that fits |
| `EvictionsAreExact` | the evictions reported are the tagged blocks lost for good, each once, where it was lost |
| `GatesAreExact` | each of the seven gates passes on a report just if it `Holds` of the run reported |

- `PairsAreSuccessive` connects the code's way to pair turns (the greatest earlier turn of
  the agent) with the declarative one: nothing of the agent lies between them;
- `CulpritIsReal`: by `MatchedInPlace`, what faces the first position that differs in a
  `replace` is that position of the other turn, so the culprit the code looks up there is
  modified, added or evicted in the sense of `CulpritFits` (`CopiesAre` counts the copies);
- `CostSplits` (from `SumUnion`): what is stable and what is billed again are the turn;
- `LostIs`: what the diff of two successive turns calls evicted, and the code keeps because
  it was tagged and does not come back, is what the agent lost there for good;
  `SuccessorIsOne`: a turn has one successor, so a block is lost once;
- `Round1Is`: a rounded quotient is within a limit just if the exact one is within half a
  tenth more, or at it and `RoundsUp` does not send it up.

`InspectProofs` proves, for any store, any recorded turns in any number of sessions, any
commands and any page sizes, from `InspectAssumption` and the two above only:

| theorem | statement |
|---|---|
| `CommandIsInOrder` | `Spec => []IInv` |
| `AllDiffsAccount` | `Spec => []DiffAccounts` |
| `ReportedEvictionsAreFinal` | `Spec => []EvictionsAreFinal` |
| `ReportedBreaksAreReal` | `Spec => []BreaksAreReal` |
| `VerdictsHold` | `Spec => []GreenHolds` |
| `AnswersAreOfTheAsked` | `Spec => []AnswersTheAsked` |
| `PagesAreWhole` | `Spec => []PagesCover` |

What a command knows depends on how far it is in its plan, and there are as many plans as
commands. `Place` gives all steps one order that every plan keeps (`PlanIs`), so the
invariant needs no case for each command: `Seen(step)` says that a step of the plan has
been taken, `SeenDown` that all planned ones before it have been too. The parts of `IInv`
are:

- `TypeInv`: `todo` is what is left of the plan, in order and to the end of it, and empty
  when the command is not running; the store holds runs of turns;
- `ViewInv`: what was chosen is what the selectors meant, and was there when the command
  was bound; `HandlesInv`: each handle is the shortened id of its session, and
  `HandleNames` that it never comes to name another one, however many sessions follow;
- `TargetInv`, `CountInv`: the turn explained, the one before of its agent among those that
  were stored when `explain` looked, and the turns a check counted;
- `TokensInv`, `CacheInv`, `EvictionsInv`: a report is the analysis of the turns `asOf`, and
  those stay as they are wherever others are stored (`IsPartOf`, `PartLasts`), which is why
  `ReportsProofs` applies to what was read whatever the run has become; a check's report saw
  every turn it had counted, one of an explanation every turn there was when the turn before
  was looked for. `ComparedWith` draws from this that what is shown at the turn explained
  lies after the turn before, or at it (`BeforeTarget`);
- `DiffsInv`, `ProjectInv`, `ListInv`: diffs are of whole contexts; a dashboard's level fits
  what it read; counted calls are a part of each run, not smaller than what had been listed
  of it. `CountedEitherWay` then shows
  that rows by agent and rows by session have the same sum;
- `BlockInv`, `PagesInv`: a block once found is found again in the same session, each page
  begins where the last ended, and a page that is not the last takes the text further
  (`PageFits`, the arithmetic of `_fit_block`).

`IInv` was checked by TLC on the instance of `inspect` before it was proved, and is not
part of the run. `VerdictsHold` is inductive beside it, because a verdict is reached in the
step that ends the command.

Every safety invariant the runs check is proved, and both refinements. Only model-checked:
the liveness properties `AcceptedIsSettled`, `CloseReturns`, `SubmitReturns`, `WrapReturns`,
`QueuedIsSettled`, `CallEnds` and `DroppedIsRecorded`, because fairness is
out of the prover's reach. The four counterexamples of section 4 are TLC's too.

## 6. Not modelled

Data without order or failure of its own: the adapters' conversions, images, token
counts, redaction, and everything that is rendering (`cli/render.py`, the page of the
viewer, the canned demo, the texts of warnings and verdicts). In the modelled parts:
chunks and the usage accumulated over a stream, latencies, interpreter shutdown; in the
analyses `usage_totals` with the rows per agent, and the hint how to fix a break; of the
commands the discovery of a file in a directory and the order of a listing; of the MCP
server the byte budget of the answers that are not pages and the protocol; of SQLite the
checkpoint and the retry of `record_call` under a lock, which is the same loop as the
modelled one. The TypeScript port is a second implementation of
the same design on an event loop.

## 7. Plan

Done, in this order: Writer with CaptureLog and its proofs, Tracer, SqlStore,
Attribution and Capture with their proofs, SessionStore with SessionLog and its proofs,
Differ, Reports and Inspect, the proofs about Tracer, SqlStore, the diff, the reports and
Inspect. Next:

1. The TypeScript writer, as a second implementation of CaptureLog.
2. The byte budget of MCP answers, over bounded inputs.
