------------------------------ MODULE SqlStore ------------------------------
(***************************************************************************)
(* Writing calls to a shared Postgres or MySQL database: `SQLStore`        *)
(* (src/ctxdiff/store/sql.py), one handle per traced run, several runs on  *)
(* one database.                                                           *)
(*                                                                         *)
(* `record_call` is one transaction under `_with_write_retry`, followed by *)
(* the roll-up `note_model`, another transaction under its own retries.    *)
(* The server is seen through the connection only: it may refuse a         *)
(* statement, drop the connection, and, when the drop takes the answer to  *)
(* a COMMIT with it, commit all the same, now or later.                    *)
(***************************************************************************)
EXTENDS Naturals, Sequences, FiniteSets, Functions

CONSTANTS
  Writers,         (* traced runs, each with its SQLStore and its writer thread *)
  Hashes,          (* content hashes of blocks *)
  Models,          (* model ids *)
  NoModel,         (* a call without a model param *)
  Turns,           (* per writer: the calls it records, in order *)
  LocksDuplicates, (* MySQL's upsert locks a row that exists, Postgres' does not *)
  MaxFaults        (* bound on the faults of server, network and process *)

MaxAttempts == 3   (* _WRITE_MAX_ATTEMPTS *)

ASSUME SqlStoreAssumption ==
  /\ NoModel \notin Models
  /\ LocksDuplicates \in BOOLEAN
  /\ MaxFaults \in Nat
  /\ Turns \in [Writers -> Seq([blocks : Seq(Hashes), model : Models \cup {NoModel}])]

(* A call row is named by its session and `seq`; `call_id` is made before    *)
(* the first attempt, so every attempt of a call inserts the same row.       *)
CallRows == UNION {{w} \X DOMAIN Turns[w] : w \in Writers}
BlocksOf(c) == Turns[c[1]][c[2]].blocks
ModelOf(c) == Turns[c[1]][c[2]].model

VARIABLES
  calls,           (* committed rows of ctxdiff_call *)
  members,         (* committed rows of ctxdiff_call_block: <<call, position>> *)
  blocks,          (* committed rows of ctxdiff_block *)
  models,          (* per session: the committed `models` column of its run row *)
  orphans,         (* transactions the server still holds for lost connections *)
  turn,            (* per writer: the index of the call it is recording *)
  op,              (* per writer: "call" or "note", the transaction retried *)
  pc,              (* per writer: where it is in `_with_write_retry` *)
  pos,             (* per writer: blocks inserted in this attempt *)
  attempt,         (* per writer: attempts begun *)
  exc,             (* per writer: the kind of the exception in hand *)
  up,              (* per writer: whether its connection is usable *)
  tx,              (* per writer: the changes of its open transaction *)
  mirror,          (* per writer: `_models` (`_models_seen` is its range) *)
  outcome,         (* per call: how `record_call` ended *)
  blips,           (* history, per call: faults met while recording it *)
  faults           (* faults so far *)

dbVars == <<calls, members, blocks, models>>
vars == <<dbVars, orphans, turn, op, pc, pos, attempt, exc, up, tx, mirror,
          outcome, blips, faults>>

Empty(w) == [owner |-> w, calls |-> {}, members |-> {}, blocks |-> {}, models |-> <<>>]

Transactions ==
  [owner : Writers, calls : SUBSET CallRows, members : SUBSET (CallRows \X Nat),
   blocks : SUBSET Hashes, models : Seq(Models)]

GivenUp == {"exhausted", "permanent", "duplicate", "unreachable"}

TypeOK ==
  /\ calls \subseteq CallRows
  /\ members \subseteq CallRows \X Nat
  /\ blocks \subseteq Hashes
  /\ models \in [Writers -> Seq(Models)]
  /\ \A o \in orphans : o.tx \in Transactions /\ o.asked \in BOOLEAN
  /\ turn \in [Writers -> Nat]
  /\ op \in [Writers -> {"call", "note"}]
  /\ pc \in [Writers -> {"idle", "first", "open", "caught", "dead"}]
  /\ pos \in [Writers -> Nat]
  /\ attempt \in [Writers -> 1..MaxAttempts]
  /\ exc \in [Writers -> {"none", "transient", "lost", "permanent", "duplicate"}]
  /\ up \in [Writers -> BOOLEAN]
  /\ tx \in [Writers -> Transactions]
  /\ mirror \in [Writers -> Seq(Models)]
  /\ outcome \in [CallRows -> {"pending", "recorded"} \cup GivenUp]
  /\ blips \in [CallRows -> Nat]
  /\ faults \in 0..MaxFaults

(* Sessions are open: `open_session` has inserted their run rows with an     *)
(* empty `models`.                                                           *)
Init ==
  /\ calls = {}
  /\ members = {}
  /\ blocks = {}
  /\ models = [w \in Writers |-> <<>>]
  /\ orphans = {}
  /\ turn = [w \in Writers |-> 0]
  /\ op = [w \in Writers |-> "call"]
  /\ pc = [w \in Writers |-> "idle"]
  /\ pos = [w \in Writers |-> 0]
  /\ attempt = [w \in Writers |-> 1]
  /\ exc = [w \in Writers |-> "none"]
  /\ up = [w \in Writers |-> TRUE]
  /\ tx = [w \in Writers |-> Empty(w)]
  /\ mirror = [w \in Writers |-> <<>>]
  /\ outcome = [c \in CallRows |-> "pending"]
  /\ blips = [c \in CallRows |-> 0]
  /\ faults = 0

Current(w) == <<w, turn[w]>>
Goto(w, here) == pc' = [pc EXCEPT ![w] = here]
Raise(w, kind) == exc' = [exc EXCEPT ![w] = kind] /\ Goto(w, "caught")
InTransaction(w) == pc[w] \in {"first", "open"}

(* All statements of the transaction have run. *)
Complete(w) ==
  /\ pc[w] = "open"
  /\ op[w] = "call" => pos[w] = Len(BlocksOf(Current(w)))

(* A block another unfinished transaction has inserted (or, on MySQL, has    *)
(* only met) makes an upsert of it wait.                                     *)
WaitsFor(w, v) ==
  /\ v # w
  /\ pc[w] = "open"
  /\ op[w] = "call"
  /\ pos[w] < Len(BlocksOf(Current(w)))
  /\ BlocksOf(Current(w))[pos[w] + 1] \in tx[v].blocks

HeldByOrphan(h) == \E o \in orphans : h \in o.tx.blocks

(* What a commit of transaction x does to the tables. *)
Apply(x) ==
  /\ calls' = calls \cup x.calls
  /\ members' = members \cup x.members
  /\ blocks' = blocks \cup x.blocks
  /\ models' = IF x.models = <<>> THEN models
               ELSE [models EXCEPT ![x.owner] = x.models]

(* Another attempt, after the rollback of the last one. *)
TryAgain(w) ==
  /\ attempt[w] < MaxAttempts
  /\ attempt' = [attempt EXCEPT ![w] = @ + 1]
  /\ tx' = [tx EXCEPT ![w] = Empty(w)]
  /\ Goto(w, "first")

(* The exception leaves `_with_write_retry`.  `record_call` passes it on to  *)
(* the Recorder, which warns; the one of `note_model` is swallowed, since    *)
(* the call is saved.                                                        *)
GiveUp(w, why) ==
  /\ tx' = [tx EXCEPT ![w] = Empty(w)]
  /\ outcome' = IF op[w] = "call" THEN [outcome EXCEPT ![Current(w)] = why]
                ELSE outcome
  /\ Goto(w, "idle")

Blip(w) ==
  /\ faults < MaxFaults
  /\ faults' = faults + 1
  /\ blips' = [blips EXCEPT ![Current(w)] = @ + 1]

-----------------------------------------------------------------------------
(* Faulty variants of the operations below.  None is part of the             *)
(* specification: each is a plausible bug of the code, kept to show that the *)
(* property named with it in the README notices.                             *)

(* The connection is in autocommit mode: the call row is committed alone. *)
InsertCallAutocommits(w) ==
  /\ pc[w] = "first"
  /\ op[w] = "call"
  /\ up[w]
  /\ Current(w) \notin calls
  /\ calls' = calls \cup {Current(w)}
  /\ Goto(w, "open")
  /\ pos' = [pos EXCEPT ![w] = 0]
  /\ UNCHANGED <<members, blocks, models, orphans, turn, op, attempt, exc, up, tx,
                 mirror, outcome, blips, faults>>

(* The model is marked as seen before its UPDATE commits. *)
UpdateModelsMarksFirst(w) ==
  /\ pc[w] = "first"
  /\ op[w] = "note"
  /\ up[w]
  /\ tx' = [tx EXCEPT ![w].models = Append(mirror[w], ModelOf(Current(w)))]
  /\ mirror' = [mirror EXCEPT ![w] = Append(@, ModelOf(Current(w)))]
  /\ Goto(w, "open")
  /\ UNCHANGED <<dbVars, orphans, turn, op, pos, attempt, exc, up, outcome, blips,
                 faults>>

(* The retry runs on the transaction of the refused attempt. *)
RetryWithoutRollback(w) ==
  /\ pc[w] = "caught"
  /\ exc[w] = "transient"
  /\ attempt[w] < MaxAttempts
  /\ attempt' = [attempt EXCEPT ![w] = @ + 1]
  /\ Goto(w, "first")
  /\ UNCHANGED <<dbVars, orphans, turn, op, pos, exc, up, tx, mirror, outcome,
                 blips, faults>>

(* The attempts are counted from zero and the bound is not. *)
RetryOnceMore(w) ==
  /\ pc[w] = "caught"
  /\ exc[w] = "transient"
  /\ attempt[w] <= MaxAttempts
  /\ attempt' = [attempt EXCEPT ![w] = @ + 1]
  /\ tx' = [tx EXCEPT ![w] = Empty(w)]
  /\ Goto(w, "first")
  /\ UNCHANGED <<dbVars, orphans, turn, op, pos, exc, up, mirror, outcome, blips,
                 faults>>

(* A lost connection is not counted as an attempt, and the new connection is *)
(* not put in the place of the dead one.                                     *)
ReopenUncounted(w) ==
  /\ pc[w] = "caught"
  /\ exc[w] = "lost"
  /\ tx' = [tx EXCEPT ![w] = Empty(w)]
  /\ Goto(w, "first")
  /\ UNCHANGED <<dbVars, orphans, turn, op, pos, attempt, exc, up, mirror, outcome,
                 blips, faults>>

-----------------------------------------------------------------------------
(* `record_call`. *)

(* The writer thread takes the next call; `call_id` is made here. *)
RecordCall(w) ==
  /\ pc[w] = "idle"
  /\ turn[w] < Len(Turns[w])
  /\ turn' = [turn EXCEPT ![w] = @ + 1]
  /\ op' = [op EXCEPT ![w] = "call"]
  /\ attempt' = [attempt EXCEPT ![w] = 1]
  /\ Goto(w, "first")
  /\ UNCHANGED <<dbVars, orphans, pos, exc, up, tx, mirror, outcome, blips, faults>>

(* `_INSERT_CALL` opens the transaction.  It waits for an orphan that holds  *)
(* the same row; a row that is there is a duplicate key, which no dialect    *)
(* calls transient.                                                          *)
InsertCall(w) ==
  LET c == Current(w) IN
  /\ pc[w] = "first"
  /\ op[w] = "call"
  /\ up[w]
  /\ \A o \in orphans : c \notin o.tx.calls
  /\ IF c \in calls \cup tx[w].calls
     THEN Raise(w, "duplicate") /\ UNCHANGED <<pos, tx>>
     ELSE /\ tx' = [tx EXCEPT ![w].calls = @ \cup {c}]
          /\ pos' = [pos EXCEPT ![w] = 0]
          /\ Goto(w, "open")
          /\ UNCHANGED exc
  /\ UNCHANGED <<dbVars, orphans, turn, op, attempt, up, mirror, outcome, blips,
                 faults>>

(* `insert_block_dedup` and `_INSERT_CALL_BLOCK` for the next block. *)
UpsertBlock(w) ==
  LET c == Current(w)
      h == BlocksOf(c)[pos[w] + 1] IN
  /\ pc[w] = "open"
  /\ op[w] = "call"
  /\ pos[w] < Len(BlocksOf(c))
  /\ ~HeldByOrphan(h)
  /\ \A v \in Writers : ~WaitsFor(w, v)
  /\ tx' = [tx EXCEPT
       ![w].blocks = IF h \in blocks /\ ~LocksDuplicates THEN @ ELSE @ \cup {h},
       ![w].members = @ \cup {<<c, pos[w] + 1>>}]
  /\ pos' = [pos EXCEPT ![w] = @ + 1]
  /\ UNCHANGED <<dbVars, orphans, turn, op, pc, attempt, exc, up, mirror, outcome,
                 blips, faults>>

(* The COMMIT is answered; `note_model` goes on unless it knows the model. *)
CommitCall(w) ==
  LET m == ModelOf(Current(w)) IN
  /\ Complete(w)
  /\ op[w] = "call"
  /\ Apply(tx[w])
  /\ tx' = [tx EXCEPT ![w] = Empty(w)]
  /\ outcome' = [outcome EXCEPT ![Current(w)] = "recorded"]
  /\ IF m = NoModel \/ m \in Range(mirror[w])
     THEN Goto(w, "idle") /\ UNCHANGED <<op, attempt>>
     ELSE /\ op' = [op EXCEPT ![w] = "note"]
          /\ attempt' = [attempt EXCEPT ![w] = 1]
          /\ Goto(w, "first")
  /\ UNCHANGED <<orphans, turn, pos, exc, up, mirror, blips, faults>>

-----------------------------------------------------------------------------
(* `note_model`. *)

(* `_UPDATE_MODELS` with the mirror and the new model; it waits for an       *)
(* orphaned update of the same run row.                                      *)
UpdateModels(w) ==
  /\ pc[w] = "first"
  /\ op[w] = "note"
  /\ up[w]
  /\ \A o \in orphans : o.tx.owner = w => o.tx.models = <<>>
  /\ tx' = [tx EXCEPT ![w].models = Append(mirror[w], ModelOf(Current(w)))]
  /\ Goto(w, "open")
  /\ UNCHANGED <<dbVars, orphans, turn, op, pos, attempt, exc, up, mirror, outcome,
                 blips, faults>>

(* The COMMIT is answered, and only now the mirror follows. *)
CommitModels(w) ==
  /\ Complete(w)
  /\ op[w] = "note"
  /\ Apply(tx[w])
  /\ tx' = [tx EXCEPT ![w] = Empty(w)]
  /\ mirror' = [mirror EXCEPT ![w] = tx[w].models]
  /\ Goto(w, "idle")
  /\ UNCHANGED <<orphans, turn, op, pos, attempt, exc, up, outcome, blips, faults>>

-----------------------------------------------------------------------------
(* `_with_write_retry`: what follows a failed attempt. *)

(* Transient, with attempts left: rollback and again. *)
Retry(w) ==
  /\ pc[w] = "caught"
  /\ exc[w] = "transient"
  /\ TryAgain(w)
  /\ UNCHANGED <<dbVars, orphans, turn, op, pos, exc, up, mirror, outcome, blips,
                 faults>>

(* The connection is gone and `_reopen` replaces it. *)
Reopen(w) ==
  /\ pc[w] = "caught"
  /\ exc[w] = "lost"
  /\ TryAgain(w)
  /\ up' = [up EXCEPT ![w] = TRUE]
  /\ UNCHANGED <<dbVars, orphans, turn, op, pos, exc, mirror, outcome, blips, faults>>

(* The connection is gone and the server does not answer the reconnect. *)
ReopenFails(w) ==
  /\ pc[w] = "caught"
  /\ exc[w] = "lost"
  /\ attempt[w] < MaxAttempts
  /\ GiveUp(w, "unreachable")
  /\ UNCHANGED <<dbVars, orphans, turn, op, pos, attempt, exc, up, mirror, blips,
                 faults>>

(* The last attempt, or an error that is worth no other. *)
Fail(w) ==
  /\ pc[w] = "caught"
  /\ \/ exc[w] \in {"permanent", "duplicate"} /\ GiveUp(w, exc[w])
     \/ /\ exc[w] \in {"transient", "lost"}
        /\ attempt[w] = MaxAttempts
        /\ GiveUp(w, "exhausted")
  /\ UNCHANGED <<dbVars, orphans, turn, op, pos, attempt, exc, up, mirror, blips,
                 faults>>

(* A statement on a connection that is known to be dead. *)
DeadConnection(w) ==
  /\ pc[w] = "first"
  /\ ~up[w]
  /\ Raise(w, "lost")
  /\ UNCHANGED <<dbVars, orphans, turn, op, pos, attempt, up, tx, mirror, outcome,
                 blips, faults>>

-----------------------------------------------------------------------------
(* Server, network and process. *)

(* The server refuses the statement in flight. *)
Refuse(w, kind) ==
  /\ InTransaction(w)
  /\ up[w]
  /\ Blip(w)
  /\ Raise(w, kind)
  /\ UNCHANGED <<dbVars, orphans, turn, op, pos, attempt, up, tx, mirror, outcome>>

(* Writers that wait for each other: the server rolls one of them back and   *)
(* tells it so (40P01, errno 1213).                                          *)
Deadlock(w) ==
  /\ \E D \in SUBSET Writers :
       w \in D /\ \A v \in D : \E u \in D : WaitsFor(v, u)
  /\ tx' = [tx EXCEPT ![w] = Empty(w)]
  /\ blips' = [blips EXCEPT ![Current(w)] = @ + 1]
  /\ Raise(w, "transient")
  /\ UNCHANGED <<dbVars, orphans, turn, op, pos, attempt, up, mirror, outcome, faults>>

(* The connection dies.  The server holds what was open until it notices;    *)
(* `asked`: the COMMIT had reached it.                                       *)
Orphaned(w) ==
  \E asked \in BOOLEAN :
    /\ asked => Complete(w)
    /\ orphans' = IF tx[w] = Empty(w) THEN orphans
                  ELSE orphans \cup {[tx |-> tx[w], asked |-> asked]}
    /\ tx' = [tx EXCEPT ![w] = Empty(w)]

LoseConnection(w) ==
  /\ InTransaction(w)
  /\ up[w]
  /\ Blip(w)
  /\ Orphaned(w)
  /\ up' = [up EXCEPT ![w] = FALSE]
  /\ Raise(w, "lost")
  /\ UNCHANGED <<dbVars, turn, op, pos, attempt, mirror, outcome>>

(* The connection dies between two calls. *)
LoseIdle(w) ==
  /\ pc[w] = "idle"
  /\ up[w]
  /\ faults < MaxFaults
  /\ faults' = faults + 1
  /\ up' = [up EXCEPT ![w] = FALSE]
  /\ UNCHANGED <<dbVars, orphans, turn, op, pc, pos, attempt, exc, tx, mirror,
                 outcome, blips>>

(* The process ends: the writer is a daemon thread. *)
Crash(w) ==
  /\ pc[w] # "dead"
  /\ faults < MaxFaults
  /\ faults' = faults + 1
  /\ Orphaned(w)
  /\ up' = [up EXCEPT ![w] = FALSE]
  /\ Goto(w, "dead")
  /\ UNCHANGED <<dbVars, turn, op, pos, attempt, exc, mirror, outcome, blips>>

(* The server finishes with a lost connection: what was asked to be          *)
(* committed may be, the rest is rolled back.                                *)
Resolve(o) ==
  /\ o \in orphans
  /\ orphans' = orphans \ {o}
  /\ (o.asked /\ Apply(o.tx)) \/ UNCHANGED dbVars
  /\ UNCHANGED <<turn, op, pc, pos, attempt, exc, up, tx, mirror, outcome, blips,
                 faults>>

(* Every writer has recorded its calls or is gone. *)
AllDone ==
  /\ \A w \in Writers : pc[w] = "dead" \/ (pc[w] = "idle" /\ turn[w] = Len(Turns[w]))
  /\ UNCHANGED vars

-----------------------------------------------------------------------------
Write(w) ==
  \/ RecordCall(w)
  \/ InsertCall(w)
  \/ UpsertBlock(w)
  \/ CommitCall(w)
  \/ UpdateModels(w)
  \/ CommitModels(w)
  \/ Retry(w)
  \/ Reopen(w)
  \/ ReopenFails(w)
  \/ Fail(w)
  \/ DeadConnection(w)

Fault(w) ==
  \/ \E kind \in {"transient", "permanent"} : Refuse(w, kind)
  \/ LoseConnection(w)
  \/ LoseIdle(w)
  \/ Crash(w)

Server == (\E w \in Writers : Deadlock(w)) \/ (\E o \in orphans : Resolve(o))

Next == (\E w \in Writers : Write(w) \/ Fault(w)) \/ Server \/ AllDone

Spec == Init /\ [][Next]_vars

(* Writer threads keep running, and the server resolves deadlocks and gives  *)
(* up on lost connections (statement and lock timeouts).                     *)
FairSpec ==
  /\ Spec
  /\ \A w \in Writers : WF_vars(Write(w))
  /\ WF_vars(\E w \in Writers : Deadlock(w))
  /\ WF_vars(\E o \in orphans : Resolve(o))

-----------------------------------------------------------------------------
(* A call is in the database whole or not at all: with all its memberships   *)
(* and every block they name, although the blocks are shared with other runs *)
(* whose transactions fail on their own (`record_call`: "one call and its    *)
(* ordered blocks in a single transaction"); and a call the Recorder was not *)
(* told to have failed is there.                                             *)
WholeCalls ==
  /\ \A c \in CallRows : outcome[c] = "recorded" => c \in calls
  /\ \A c \in calls :
       /\ {r \in members : r[1] = c} = {c} \X DOMAIN BlocksOf(c)
       /\ Range(BlocksOf(c)) \subseteq blocks
  /\ \A r \in members : r[1] \in calls

(* The in-memory mirror of `models` never runs ahead of the database, and    *)
(* lags it by at most the one model whose COMMIT went unanswered             *)
(* (`note_model`: "COMMIT-THEN-MARK").                                       *)
MirrorLags ==
  \A w \in Writers :
    \/ models[w] = mirror[w]
    \/ \E m \in Models \ Range(mirror[w]) : models[w] = Append(mirror[w], m)

(* A call is lost only to two faults of its own, a permanent error or an     *)
(* unreachable server: one deadlock, one lost connection, one duplicate      *)
(* never costs it (`_with_write_retry`).                                     *)
NoCheapLoss ==
  \A c \in CallRows :
    outcome[c] \in {"exhausted", "duplicate"} => blips[c] >= 2 \/ c \in calls

(* `record_call` ends, whatever the faults: attempts are bounded, nothing    *)
(* waits for ever on another run's locks (`_with_write_retry`: "Bounded on   *)
(* both axes").                                                              *)
CallEnds ==
  \A w \in Writers :
    (pc[w] \in {"first", "open", "caught"}) ~> (pc[w] \in {"idle", "dead"})

-----------------------------------------------------------------------------
(* What the docs say that the code does not do. *)

(* "failed to persist call" is logged for calls that were not saved: after a *)
(* retry that reached the database the caller must not be told so of a call  *)
(* that is in it.  (One whose connection cannot be reopened cannot know.)    *)
FailureMeansAbsent ==
  \A c \in CallRows : outcome[c] \in {"duplicate", "exhausted"} => c \notin calls

=============================================================================
