---------------------------- MODULE SessionStore ----------------------------
(***************************************************************************)
(* Opening sessions and listing them: processes that start together on one *)
(* store, a SQLite file (src/ctxdiff/store/ctrace.py, sqlite.py) or a      *)
(* Postgres or MySQL database (sql.py, postgres.py, mysql.py).             *)
(*                                                                         *)
(* Each writer opens one session: it makes the tables if they are missing, *)
(* brings a file of the first schema up to the second, refuses a store     *)
(* that a newer release has written to, and inserts its run row.  None of  *)
(* it is one transaction.  Readers bind to the newest session and list all *)
(* of them with three queries.  What a `record_call` does inside its       *)
(* transaction is SqlStore's subject; here it is one step.                 *)
(***************************************************************************)
EXTENDS Naturals, Sequences, FiniteSets

CONSTANTS
  Writers,         (* processes, each opening one session *)
  Readers,         (* processes that open a reader and list the sessions *)
  Newest,          (* the writers of a later release, whose schema is version 3 *)
  Old,             (* the session in a file that the first release has written *)
  Labels,          (* agent labels *)
  NoLabel,         (* the NULL of the agent column *)
  AgentOf,         (* per session: the agent of its calls *)
  LockAttempts,    (* `_WRITE_MAX_ATTEMPTS` of ctrace.py: 6 in the code *)
  MaxTurns,        (* bound on the calls of a session *)
  MaxFaults        (* bound on lock errors, refusals, lost answers and crashes *)

Processes == Writers \cup Readers
Sessions == Writers \cup {Old}

SchemaAttempts == 3        (* `_SCHEMA_MAX_ATTEMPTS` *)
AddedColumns == 3          (* agent, step, provider: what version 2 added to `call` *)

ASSUME SessionStoreAssumption ==
  /\ Newest \subseteq Writers
  /\ Writers \cap Readers = {}
  /\ Old \notin Processes
  /\ NoLabel \in Labels
  /\ AgentOf \in [Sessions -> Labels]
  /\ AgentOf[Old] = NoLabel
  /\ LockAttempts \in Nat \ {0}
  /\ MaxTurns \in Nat
  /\ MaxFaults \in Nat

(* SCHEMA_VERSION of the release a process runs. *)
VersionOf(p) == IF p = Old THEN 1 ELSE IF p \in Newest THEN 3 ELSE 2

VARIABLES
  backend,         (* the store `resolve` chose, for good *)
  legacy,          (* history: the store was a file of version 1 at first *)
  created,         (* the tables exist *)
  cols,            (* how many of the added columns `call` has, in their order *)
  rows,            (* committed run rows: session and place in the listing *)
  nextPlace,       (* the next rowid or insert_order *)
  turns,           (* per session: the agent column of its calls *)
  pc,              (* per process: the statement it is about to run *)
  attempt,         (* per process: attempts begun, of set-up or of the DDL *)
  why,             (* per process: what it failed of *)
  seen,            (* per process: the columns its PRAGMA table_info showed *)
  place,           (* per process: the place of its row *)
  v2,              (* per process: `_has_v2_cols` of its handle *)
  bound,           (* per reader: the session it is bound to *)
  snapshot,        (* per reader: what its transaction sees, on MySQL *)
  listing,         (* per reader: the answers to the three queries *)
  passed,          (* history, per writer: the run rows its version gate has met *)
  blips,           (* history, per process: faults it has met *)
  faults

tables == <<created, cols, rows, nextPlace, turns>>
locals == <<pc, attempt, why, seen, place, v2, bound, snapshot, listing>>
vars == <<backend, legacy, tables, locals, passed, blips, faults>>

-----------------------------------------------------------------------------
(* `ctxdiff.store.config`. *)

Backends == {"sqlite", "postgres", "mysql"}

(* CTXDIFF_STORE: the scheme in front of `://` without its driver suffix, or *)
(* none, when the value may still be the bare name of a backend.             *)
Unset == [scheme |-> "unset", bareName |-> FALSE]
Dsns ==
  {[scheme |-> s, bareName |-> FALSE] :
     s \in {"postgres", "postgresql", "mysql", "mariadb", "sqlite", "sqlite3", "http"}}
  \cup [scheme : {""}, bareName : BOOLEAN]

FromDsn(dsn) ==
  CASE dsn.scheme \in {"postgres", "postgresql"} -> "postgres"
    [] dsn.scheme \in {"mysql", "mariadb"} -> "mysql"
    [] dsn.scheme \in {"sqlite", "sqlite3"} -> "sqlite"
    [] dsn.scheme = "" /\ ~dsn.bareName -> "sqlite"
    [] OTHER -> "unsupported"

(* An argument beats `configure()`, which beats the environment; nothing at  *)
(* all is the local file.                                                    *)
Resolve(store, configured, dsn) ==
  CASE store # "none" -> store
    [] store = "none" /\ configured # "none" -> configured
    [] store = "none" /\ configured = "none" /\ dsn # Unset -> FromDsn(dsn)
    [] OTHER -> "sqlite"

Resolved ==
  {Resolve(s, c, d) : s, c \in Backends \cup {"none"}, d \in Dsns \cup {Unset}}

-----------------------------------------------------------------------------
Causes == {"none", "newer", "race", "locked", "error", "unanswered", "handle",
           "empty", "no table", "duplicate column"}
Places == {"ddl", "creating", "waiting", "columns", "alter", "gate", "insert",
           "commit", "handle", "open", "bind", "runs", "counts", "agents", "listed",
           "failed", "dead"}
Row == [by : Sessions, place : Nat]
NoListing == [runs |-> {}, counts |-> [s \in Sessions |-> 0], agents |-> [s \in Sessions |-> {}]]
NoSnapshot == [rows |-> {}, turns |-> [s \in Sessions |-> <<>>]]

StoreOK ==
  /\ backend \in Backends
  /\ legacy \in BOOLEAN
  /\ created \in BOOLEAN
  /\ cols \in 0..AddedColumns
  /\ rows \subseteq Row
  /\ nextPlace \in Nat
  /\ turns \in [Sessions -> Seq(Labels)]

PlaceOK ==
  /\ pc \in [Processes -> Places]
  /\ attempt \in [Processes ->
                    1..(IF backend = "sqlite" THEN LockAttempts ELSE SchemaAttempts)]
  /\ why \in [Processes -> Causes]
  /\ blips \in [Processes -> Nat]
  /\ faults \in 0..MaxFaults

HandleOK ==
  /\ seen \in [Processes -> 0..AddedColumns]
  /\ place \in [Processes -> Nat]
  /\ v2 \in [Processes -> BOOLEAN]
  /\ passed \in [Writers -> SUBSET Sessions]

ReaderOK ==
  /\ bound \in [Readers -> Sessions]
  /\ snapshot \in [Readers -> [rows : SUBSET Row, turns : [Sessions -> Seq(Labels)]]]
  /\ listing \in [Readers -> [runs : SUBSET Sessions, counts : [Sessions -> Nat],
                              agents : [Sessions -> SUBSET Labels]]]

TypeOK ==
  /\ StoreOK
  /\ PlaceOK
  /\ HandleOK
  /\ ReaderOK

(* A SQLite reader runs no DDL, the readers of a server do. *)
FirstStatement(p) == IF p \in Readers /\ backend = "sqlite" THEN "bind" ELSE "ddl"

(* An empty store, or a SQLite file in which the first release has recorded. *)
Init ==
  /\ backend \in Resolved \ {"unsupported"}
  /\ legacy \in IF backend = "sqlite" THEN BOOLEAN ELSE {FALSE}
  /\ created = legacy
  /\ cols = 0
  /\ rows = IF legacy THEN {[by |-> Old, place |-> 0]} ELSE {}
  /\ nextPlace = 1
  /\ turns = [s \in Sessions |-> IF legacy /\ s = Old THEN <<NoLabel>> ELSE <<>>]
  /\ pc = [p \in Processes |-> FirstStatement(p)]
  /\ attempt = [p \in Processes |-> 1]
  /\ why = [p \in Processes |-> "none"]
  /\ seen = [p \in Processes |-> 0]
  /\ place = [p \in Processes |-> 0]
  /\ v2 = [p \in Processes |-> FALSE]
  /\ bound = [r \in Readers |-> Old]
  /\ snapshot = [r \in Readers |-> NoSnapshot]
  /\ listing = [r \in Readers |-> NoListing]
  /\ passed = [w \in Writers |-> {}]
  /\ blips = [p \in Processes |-> 0]
  /\ faults = 0

Goto(p, here) == pc' = [pc EXCEPT ![p] = here]
FailWith(p, cause) == why' = [why EXCEPT ![p] = cause] /\ Goto(p, "failed")
Present(R) == {r.by : r \in R}
Last(R) == CHOOSE r \in R : \A q \in R : q.place <= r.place

Unharmed == UNCHANGED <<backend, legacy, blips, faults>>

(* The next statement after the tables are known to exist. *)
AfterSchema(p) == IF p \in Writers THEN "gate" ELSE "bind"

Blip(p) ==
  /\ faults < MaxFaults
  /\ faults' = faults + 1
  /\ blips' = [blips EXCEPT ![p] = @ + 1]

-----------------------------------------------------------------------------
(* Faulty variants of the operations below.  None is part of the             *)
(* specification: each is a plausible bug of the code, kept to show that the *)
(* property named with it in the README notices.                             *)

(* Only the first of the retries is counted against the bound. *)
LockedOutOnceMore(w) ==
  /\ backend = "sqlite"
  /\ pc[w] \in {"ddl", "columns", "alter", "gate", "insert"}
  /\ Blip(w)
  /\ IF attempt[w] <= LockAttempts
     THEN attempt' = [attempt EXCEPT ![w] = @ + 1] /\ Goto(w, "ddl") /\ UNCHANGED why
     ELSE FailWith(w, "locked") /\ UNCHANGED attempt
  /\ UNCHANGED <<backend, legacy, tables, seen, place, v2, bound, snapshot, listing,
                 passed>>

(* A lost race in the catalog is an error like any other. *)
LoseRaceRaises(p) ==
  /\ pc[p] = "waiting"
  /\ created
  /\ FailWith(p, "race")
  /\ UNCHANGED <<tables, attempt, seen, place, v2, bound, snapshot, listing, passed>>
  /\ Unharmed

(* The connection is in autocommit mode. *)
InsertRowAutocommits(w) ==
  /\ pc[w] = "insert"
  /\ place' = [place EXCEPT ![w] = nextPlace]
  /\ nextPlace' = nextPlace + 1
  /\ rows' = rows \cup {[by |-> w, place |-> nextPlace]}
  /\ Goto(w, IF backend = "sqlite" THEN "handle" ELSE "commit")
  /\ UNCHANGED <<created, cols, turns, attempt, why, seen, v2, bound, snapshot, listing,
                 passed>>
  /\ Unharmed

(* The gate looks at the newest session only, as a reader does. *)
GateNewestOnly(w) ==
  /\ pc[w] = "gate"
  /\ passed' = [passed EXCEPT ![w] = Present(rows)]
  /\ IF rows # {} /\ VersionOf(Last(rows).by) > VersionOf(w)
     THEN FailWith(w, "newer")
     ELSE Goto(w, "insert") /\ UNCHANGED why
  /\ UNCHANGED <<tables, attempt, seen, place, v2, bound, snapshot, listing>>
  /\ Unharmed

(* `CREATE TABLE IF NOT EXISTS` is taken for an upgrade. *)
ReadColumnsTrusting(w) ==
  /\ pc[w] = "columns"
  /\ seen' = [seen EXCEPT ![w] = cols]
  /\ Goto(w, "gate")
  /\ UNCHANGED <<tables, attempt, why, place, v2, bound, snapshot, listing, passed>>
  /\ Unharmed

(* The sessions are joined with their calls. *)
ListRunsJoined(r) ==
  /\ pc[r] = "runs"
  /\ listing' = [listing EXCEPT ![r].runs =
                   {s \in Present(rows) : Len(turns[s]) > 0}]
  /\ Goto(r, "counts")
  /\ UNCHANGED <<tables, attempt, why, seen, place, v2, bound, snapshot, passed>>
  /\ Unharmed

-----------------------------------------------------------------------------
(* The tables. *)

(* SQLite: rollback, WAL and the DDL, which does nothing to existing tables, *)
(* whatever their columns.                                                   *)
CreateFileTables(w) ==
  /\ backend = "sqlite"
  /\ pc[w] = "ddl"
  /\ created' = TRUE
  /\ cols' = IF created THEN cols ELSE AddedColumns
  /\ Goto(w, "columns")
  /\ UNCHANGED <<rows, nextPlace, turns, attempt, why, seen, place, v2, bound, snapshot,
                 listing, passed>>
  /\ Unharmed

(* `_upgrade_call_table`: which columns are there... *)
ReadColumns(w) ==
  /\ pc[w] = "columns"
  /\ seen' = [seen EXCEPT ![w] = cols]
  /\ Goto(w, IF cols = AddedColumns THEN "gate" ELSE "alter")
  /\ UNCHANGED <<tables, attempt, why, place, v2, bound, snapshot, listing, passed>>
  /\ Unharmed

(* ...and one ALTER TABLE after the other for those that were not, each      *)
(* committed by itself.  A column another process has added since is an      *)
(* error that is no lock error.                                              *)
AddColumn(w) ==
  /\ pc[w] = "alter"
  /\ IF cols > seen[w]
     THEN FailWith(w, "duplicate column") /\ UNCHANGED <<cols, seen>>
     ELSE /\ cols' = cols + 1
          /\ seen' = [seen EXCEPT ![w] = cols + 1]
          /\ Goto(w, IF cols + 1 = AddedColumns THEN "gate" ELSE "alter")
          /\ UNCHANGED why
  /\ UNCHANGED <<created, rows, nextPlace, turns, attempt, place, v2, bound, snapshot,
                 listing, passed>>
  /\ Unharmed

(* MySQL runs one DDL statement at a time and commits it. *)
CreateTablesSerially(p) ==
  /\ backend = "mysql"
  /\ pc[p] = "ddl"
  /\ created' = TRUE
  /\ cols' = AddedColumns
  /\ Goto(p, AfterSchema(p))
  /\ UNCHANGED <<rows, nextPlace, turns, attempt, why, seen, place, v2, bound, snapshot,
                 listing, passed>>
  /\ Unharmed

(* `_ensure_schema` on Postgres: IF NOT EXISTS does not see the tables of an *)
(* open transaction, but the catalog's index makes the statement wait for it.*)
CreateTables(p) ==
  /\ backend = "postgres"
  /\ pc[p] = "ddl"
  /\ Goto(p, IF created THEN AfterSchema(p)
             ELSE IF \E q \in Processes : pc[q] = "creating" THEN "waiting"
             ELSE "creating")
  /\ UNCHANGED <<tables, attempt, why, seen, place, v2, bound, snapshot, listing, passed>>
  /\ Unharmed

CommitTables(p) ==
  /\ pc[p] = "creating"
  /\ created' = TRUE
  /\ cols' = AddedColumns
  /\ Goto(p, AfterSchema(p))
  /\ UNCHANGED <<rows, nextPlace, turns, attempt, why, seen, place, v2, bound, snapshot,
                 listing, passed>>
  /\ Unharmed

(* The winner committed: a duplicate in the catalog, `is_schema_race`. *)
LoseRace(p) ==
  /\ pc[p] = "waiting"
  /\ created
  /\ IF attempt[p] < SchemaAttempts
     THEN attempt' = [attempt EXCEPT ![p] = @ + 1] /\ Goto(p, "ddl") /\ UNCHANGED why
     ELSE FailWith(p, "race") /\ UNCHANGED attempt
  /\ UNCHANGED <<tables, seen, place, v2, bound, snapshot, listing, passed>>
  /\ Unharmed

(* The winner rolled back: the statement goes on. *)
TakeOver(p) ==
  /\ pc[p] = "waiting"
  /\ ~created
  /\ \A q \in Processes : pc[q] # "creating"
  /\ Goto(p, "creating")
  /\ UNCHANGED <<tables, attempt, why, seen, place, v2, bound, snapshot, listing, passed>>
  /\ Unharmed

-----------------------------------------------------------------------------
(* `open_session`: the version gate, the run row, the calls. *)

(* MAX(schema_version) over the committed rows. *)
Gate(w) ==
  /\ pc[w] = "gate"
  /\ passed' = [passed EXCEPT ![w] = Present(rows)]
  /\ IF \E s \in Present(rows) : VersionOf(s) > VersionOf(w)
     THEN FailWith(w, "newer")
     ELSE Goto(w, "insert") /\ UNCHANGED why
  /\ UNCHANGED <<tables, attempt, seen, place, v2, bound, snapshot, listing>>
  /\ Unharmed

(* The INSERT draws the place.  On SQLite it commits under the file's lock;  *)
(* on the servers a COMMIT follows.                                          *)
InsertRow(w) ==
  /\ pc[w] = "insert"
  /\ place' = [place EXCEPT ![w] = nextPlace]
  /\ nextPlace' = nextPlace + 1
  /\ IF backend = "sqlite"
     THEN rows' = rows \cup {[by |-> w, place |-> nextPlace]} /\ Goto(w, "handle")
     ELSE Goto(w, "commit") /\ UNCHANGED rows
  /\ UNCHANGED <<created, cols, turns, attempt, why, seen, v2, bound, snapshot, listing,
                 passed>>
  /\ Unharmed

(* `CTrace.__init__` on the committed row: it looks at the columns once. *)
OpenHandle(w) ==
  /\ pc[w] = "handle"
  /\ v2' = [v2 EXCEPT ![w] = cols = AddedColumns]
  /\ Goto(w, "open")
  /\ UNCHANGED <<tables, attempt, why, seen, place, bound, snapshot, listing, passed>>
  /\ Unharmed

(* One of its reads fails, outside of the retry and of what undoes it.       *)
HandleFails(w) ==
  /\ pc[w] = "handle"
  /\ Blip(w)
  /\ FailWith(w, "handle")
  /\ UNCHANGED <<backend, legacy, tables, attempt, seen, place, v2, bound, snapshot,
                 listing, passed>>

CommitRow(w) ==
  /\ pc[w] = "commit"
  /\ rows' = rows \cup {[by |-> w, place |-> place[w]]}
  /\ v2' = [v2 EXCEPT ![w] = TRUE]
  /\ Goto(w, "open")
  /\ UNCHANGED <<created, cols, nextPlace, turns, attempt, why, seen, place, bound,
                 snapshot, listing, passed>>
  /\ Unharmed

(* `record_call`: a handle without the added columns writes the old shape.   *)
(* A call that is dropped after its attempts changes nothing here, and what  *)
(* follows its commit (models, checkpoint) touches neither rows nor turns.   *)
RecordCall(w) ==
  /\ pc[w] = "open"
  /\ Len(turns[w]) < MaxTurns
  /\ turns' = [turns EXCEPT ![w] = Append(@, IF v2[w] THEN AgentOf[w] ELSE NoLabel)]
  /\ UNCHANGED <<created, cols, rows, nextPlace, locals, passed>>
  /\ Unharmed

-----------------------------------------------------------------------------
(* `open_reader` and `list_sessions`. *)

(* The newest row by rowid or insert_order.  From here on a MySQL reader     *)
(* sees what this query saw: its transaction is never ended.                 *)
Bind(r) ==
  /\ pc[r] = "bind"
  /\ CASE backend = "sqlite" /\ ~created ->
            FailWith(r, "no table") /\ UNCHANGED <<bound, v2, snapshot>>
       [] ~(backend = "sqlite" /\ ~created) /\ rows = {} ->
            FailWith(r, "empty") /\ UNCHANGED <<bound, v2, snapshot>>
       [] rows # {} /\ VersionOf(Last(rows).by) > VersionOf(r) ->
            FailWith(r, "newer") /\ UNCHANGED <<bound, v2, snapshot>>
       [] OTHER ->
            /\ bound' = [bound EXCEPT ![r] = Last(rows).by]
            /\ v2' = [v2 EXCEPT ![r] = cols = AddedColumns]
            /\ snapshot' = IF backend = "mysql"
                           THEN [snapshot EXCEPT ![r] = [rows |-> rows, turns |-> turns]]
                           ELSE snapshot
            /\ Goto(r, "runs")
            /\ UNCHANGED why
  /\ UNCHANGED <<tables, attempt, seen, place, listing, passed>>
  /\ Unharmed

(* Each query of a SQLite or Postgres reader sees what is committed by then. *)
Sees(r) == IF backend = "mysql" THEN snapshot[r] ELSE [rows |-> rows, turns |-> turns]

ListRuns(r) ==
  /\ pc[r] = "runs"
  /\ listing' = [listing EXCEPT ![r].runs = Present(Sees(r).rows)]
  /\ Goto(r, "counts")
  /\ UNCHANGED <<tables, attempt, why, seen, place, v2, bound, snapshot, passed>>
  /\ Unharmed

CountTurns(r) ==
  /\ pc[r] = "counts"
  /\ listing' = [listing EXCEPT ![r].counts = [s \in Sessions |-> Len(Sees(r).turns[s])]]
  /\ Goto(r, "agents")
  /\ UNCHANGED <<tables, attempt, why, seen, place, v2, bound, snapshot, passed>>
  /\ Unharmed

ListAgents(r) ==
  /\ pc[r] = "agents"
  /\ listing' = [listing EXCEPT ![r].agents =
       [s \in Sessions |->
          IF v2[r] THEN {Sees(r).turns[s][i] : i \in DOMAIN Sees(r).turns[s]} \ {NoLabel}
          ELSE {}]]
  /\ Goto(r, "listed")
  /\ UNCHANGED <<tables, attempt, why, seen, place, v2, bound, snapshot, passed>>
  /\ Unharmed

-----------------------------------------------------------------------------
(* Locks, servers, processes. *)

(* `_with_write_retry` of ctrace.py around the whole set-up: "database is    *)
(* locked" in any of its statements starts it again from the rollback.       *)
LockedOut(w) ==
  /\ backend = "sqlite"
  /\ pc[w] \in {"ddl", "columns", "alter", "gate", "insert"}
  /\ Blip(w)
  /\ IF attempt[w] < LockAttempts
     THEN attempt' = [attempt EXCEPT ![w] = @ + 1] /\ Goto(w, "ddl") /\ UNCHANGED why
     ELSE FailWith(w, "locked") /\ UNCHANGED attempt
  /\ UNCHANGED <<backend, legacy, tables, seen, place, v2, bound, snapshot, listing,
                 passed>>

(* Any other error of a statement, the connection's included: the connection *)
(* is closed and what was open on it is rolled back.                         *)
Refuse(p) ==
  /\ pc[p] \in {"ddl", "creating", "waiting", "columns", "alter", "gate",
                "insert", "commit", "bind"}
  /\ Blip(p)
  /\ FailWith(p, "error")
  /\ UNCHANGED <<backend, legacy, tables, attempt, seen, place, v2, bound, snapshot,
                 listing, passed>>

(* A server carries out a COMMIT whose answer never comes. *)
LoseAnswer(p) ==
  /\ Blip(p)
  /\ \/ /\ pc[p] = "creating"
        /\ created' = TRUE
        /\ cols' = AddedColumns
        /\ FailWith(p, "error")
        /\ UNCHANGED rows
     \/ /\ pc[p] = "commit"
        /\ rows' = rows \cup {[by |-> p, place |-> place[p]]}
        /\ FailWith(p, "unanswered")
        /\ UNCHANGED <<created, cols>>
  /\ UNCHANGED <<backend, legacy, nextPlace, turns, attempt, seen, place, v2, bound,
                 snapshot, listing, passed>>

(* A process that dies where it has a transaction open; to die anywhere else *)
(* is the same as never to take the next step.                               *)
Crash(p) ==
  /\ pc[p] \in {"creating", "waiting", "commit"}
  /\ Blip(p)
  /\ Goto(p, "dead")
  /\ UNCHANGED <<backend, legacy, tables, attempt, why, seen, place, v2, bound, snapshot,
                 listing, passed>>

AllDone ==
  /\ \A p \in Processes : pc[p] \in {"failed", "dead", "listed", "open"}
  /\ UNCHANGED vars

-----------------------------------------------------------------------------
Schema(p) ==
  \/ CreateTablesSerially(p)
  \/ CreateTables(p)
  \/ CommitTables(p)
  \/ LoseRace(p)
  \/ TakeOver(p)

Write(w) ==
  \/ CreateFileTables(w)
  \/ ReadColumns(w)
  \/ AddColumn(w)
  \/ Gate(w)
  \/ InsertRow(w)
  \/ OpenHandle(w)
  \/ HandleFails(w)
  \/ CommitRow(w)
  \/ RecordCall(w)
  \/ LockedOut(w)

Read(r) ==
  \/ Bind(r)
  \/ ListRuns(r)
  \/ CountTurns(r)
  \/ ListAgents(r)

Fault(p) == Refuse(p) \/ LoseAnswer(p) \/ Crash(p)

Next ==
  \/ \E p \in Processes : Schema(p) \/ Fault(p)
  \/ \E w \in Writers : Write(w)
  \/ \E r \in Readers : Read(r)
  \/ AllDone

Spec == Init /\ [][Next]_vars

-----------------------------------------------------------------------------
(* An opening fails for a reason of its own, never for the company it        *)
(* starts in: losing a round of the catalog race costs a retry and not the   *)
(* session (`_ensure_schema`), the version gate refuses only what holds      *)
(* newer rows, lock errors only use up their attempts.  The exception is a   *)
(* version 1 file that two processes widen at the same time: the second of   *)
(* them meets a duplicate column, which nothing retries.                     *)
FailureHasCause ==
  \A p \in Processes :
    /\ why[p] # "race"
    /\ why[p] = "newer" => \E s \in Present(rows) : VersionOf(s) > VersionOf(p)
    /\ why[p] = "locked" => blips[p] >= LockAttempts
    /\ why[p] \in {"error", "unanswered", "handle"} => blips[p] > 0
    /\ why[p] = "duplicate column" => legacy /\ \E q \in Writers \ {p} : seen[q] > 0
    /\ why[p] = "no table" => backend = "sqlite" /\ p \in Readers

(* One run row per opening, however often its set-up was retried: an open    *)
(* handle has its row, a failed opening has none unless the answer to its    *)
(* COMMIT was lost or the handle of a SQLite file could not be read with the *)
(* row already there, and no two rows share a place in the listing           *)
(* ("a failed attempt leaves no half-written row").                          *)
OneRowEach ==
  /\ \A q, r \in rows : q.by = r.by \/ q.place = r.place => q = r
  /\ \A w \in Writers :
       /\ pc[w] \in {"handle", "open"} => w \in Present(rows)
       /\ pc[w] = "failed" =>
            (w \in Present(rows)) = (why[w] \in {"unanswered", "handle"})

(* A session is listed behind one of a newer schema only if their openings   *)
(* overlapped: its gate, which must look at every row and not at the newest, *)
(* had not met the other row (`open_session`: "refused rather than mixed").  *)
MixedOnlyByRace ==
  \A q, r \in rows :
    VersionOf(q.by) > VersionOf(r.by) /\ q.place < r.place => q.by \notin passed[r.by]

(* The three queries of `list_sessions` fit together although they are       *)
(* three: the session the reader is bound to is listed, no turn is counted   *)
(* that is not there, and a session with counted turns shows the agent that  *)
(* made them, unless the reader looked at a version 1 file before a writer   *)
(* widened it.                                                               *)
ListingHolds ==
  \A r \in Readers :
    pc[r] = "listed" =>
      LET l == listing[r] IN
      /\ bound[r] \in l.runs
      /\ \A s \in l.runs :
           /\ l.counts[s] <= Len(turns[s])
           /\ v2[r] /\ l.counts[s] > 0 => {AgentOf[s]} \ {NoLabel} \subseteq l.agents[s]
      /\ ~v2[r] => legacy

-----------------------------------------------------------------------------
(* Either kind of store keeps the promise of SessionLog. *)
Before == {b \in Present(rows) \X Present(rows) :
             \E q, r \in rows : q.by = b[1] /\ r.by = b[2] /\ q.place < r.place}

Promise == INSTANCE SessionLog WITH opened <- Present(rows), before <- Before

(* Sessions and calls are only ever added, a listing keeps its order, and no *)
(* call loses its agent, on every backend and through the upgrade of a file  *)
(* (`_upgrade_call_table`: without it "this session's agent/step/provider    *)
(* would be silently dropped").                                              *)
KeepsSessions == Promise!Spec

=============================================================================
