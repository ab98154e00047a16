------------------------------- MODULE Writer -------------------------------
(***************************************************************************)
(* The writer thread of a traced run and the bounded queue in front of it: *)
(* `_Writer` and the `_DeferredStore` it owns (src/ctxdiff/trace.py).      *)
(*                                                                         *)
(* Host threads submit records (`submit`, a check and then a put), one     *)
(* writer thread opens the store and drains the queue, and any thread may  *)
(* close.  A record is the closure `recorder.persist(job)`; the store's    *)
(* own transaction is one step here.                                       *)
(***************************************************************************)
EXTENDS Naturals, Sequences, FiniteSets

CONSTANTS
  Hosts,           (* threads that complete calls and submit their records *)
  Closers,         (* calls of `close` *)
  Jobs,            (* the records, each submitted at most once *)
  QuietJobs,       (* records of a stream finalised by `__del__` (quiet=True) *)
  Recorders,       (* one Recorder per `wrap` *)
  RecorderOf,      (* the Recorder each record is bound to *)
  Capacity,        (* `maxsize` of the queue *)
  Sentinel,        (* `_SENTINEL` *)
  NoJob            (* no record in hand *)

ASSUME WriterAssumption ==
  /\ Capacity \in Nat \ {0}
  /\ Sentinel \notin Jobs
  /\ NoJob \notin Jobs
  /\ NoJob # Sentinel
  /\ QuietJobs \subseteq Jobs
  /\ RecorderOf \in [Jobs -> Recorders]

VARIABLES
  queue,           (* `_queue` *)
  closed,          (* `_closed` *)
  warned,          (* `_warned`: the degradation warning was logged *)
  jobWarned,       (* `_persist_warned` of the writer *)
  storeReady,      (* `_store_ready` *)
  wpc,             (* where the writer thread is in `_run` *)
  cur,             (* the record `_run_job` is running, or NoJob *)
  session,         (* the store behind the `_DeferredStore` *)
  setupWarned,     (* `on_failure` ran: the set-up warning was logged *)
  recWarned,       (* the Recorders whose `_persist_warned` is set *)
  offering,        (* per host: the record between `submit`'s check and its put *)
  cpc,             (* per closer: where it is in `close`, or how it returned *)
  fate,            (* what has become of each record *)
  ticket,          (* history: the place of a record in the order of the puts *)
  tickets,         (* history: how many records were put *)
  stored,          (* what the store holds, in commit order *)
  owed,            (* history: records in the queue or in hand when `_closed` was set *)
  racing           (* history: records between check and put when `_closed` was set *)

warnVars == <<warned, jobWarned, setupWarned, recWarned>>
threadVars == <<storeReady, wpc, cur, session>>
historyVars == <<ticket, tickets, owed, racing>>
vars == <<queue, closed, warned, jobWarned, storeReady, wpc, cur, session,
          setupWarned, recWarned, offering, cpc, fate, ticket, tickets,
          stored, owed, racing>>

Fates == {"new", "offered", "queued", "running",
          "stored", "failed", "skipped", "dropped"}
Settled == {"stored", "failed", "skipped"}

TypeOK ==
  /\ queue \in Seq(Jobs \cup {Sentinel})
  /\ Len(queue) <= Capacity
  /\ closed \in BOOLEAN
  /\ warned \in BOOLEAN
  /\ jobWarned \in BOOLEAN
  /\ setupWarned \in BOOLEAN
  /\ storeReady \in BOOLEAN
  /\ wpc \in {"opening", "serving", "draining", "closing", "exited"}
  /\ cur \in Jobs \cup {NoJob}
  /\ session \in {"unopened", "open", "failed", "closed"}
  /\ recWarned \subseteq Recorders
  /\ offering \in [Hosts -> Jobs \cup {NoJob}]
  /\ cpc \in [Closers -> {"idle", "putting", "joining",
                          "noop", "flushed", "gaveup"}]
  /\ fate \in [Jobs -> Fates]
  /\ ticket \in [Jobs -> Nat]
  /\ tickets \in Nat
  /\ stored \in Seq(Jobs)
  /\ owed \subseteq Jobs
  /\ racing \subseteq Jobs

Init ==
  /\ queue = <<>>
  /\ closed = FALSE
  /\ warned = FALSE
  /\ jobWarned = FALSE
  /\ storeReady = TRUE
  /\ wpc = "opening"
  /\ cur = NoJob
  /\ session = "unopened"
  /\ setupWarned = FALSE
  /\ recWarned = {}
  /\ offering = [h \in Hosts |-> NoJob]
  /\ cpc = [c \in Closers |-> "idle"]
  /\ fate = [j \in Jobs |-> "new"]
  /\ ticket = [j \in Jobs |-> 0]
  /\ tickets = 0
  /\ stored = <<>>
  /\ owed = {}
  /\ racing = {}

-----------------------------------------------------------------------------
(* Faulty variants of the operations below.  None is part of the             *)
(* specification: each is a plausible bug of the code, kept to show that the *)
(* property named with it in the README notices.                             *)

(* The one-time warning fires for the finalisers instead of the others. *)
DegradeInverted(j) ==
  /\ fate' = [fate EXCEPT ![j] = "dropped"]
  /\ warned' = (warned \/ j \in QuietJobs)

(* `submit` asks only whether the thread is alive. *)
SubmitCheckAliveOnly(h, j) ==
  /\ offering[h] = NoJob
  /\ fate[j] = "new"
  /\ wpc # "exited"
  /\ offering' = [offering EXCEPT ![h] = j]
  /\ fate' = [fate EXCEPT ![j] = "offered"]
  /\ UNCHANGED <<queue, closed, cpc, stored, warnVars, threadVars, historyVars>>

(* The queue has no bound. *)
SubmitPutUnbounded(h) ==
  LET j == offering[h] IN
  /\ j # NoJob
  /\ queue' = Append(queue, j)
  /\ fate' = [fate EXCEPT ![j] = "queued"]
  /\ ticket' = [ticket EXCEPT ![j] = tickets]
  /\ tickets' = tickets + 1
  /\ offering' = [offering EXCEPT ![h] = NoJob]
  /\ UNCHANGED <<closed, cpc, stored, owed, racing, warnVars, threadVars>>

(* `put` instead of `put_nowait`: the host waits for room. *)
SubmitOverflowWaits(h) == Len(queue) >= Capacity /\ UNCHANGED vars

(* The sentinel ends the loop without a drain. *)
TakeSentinelNoDrain ==
  /\ wpc = "serving"
  /\ cur = NoJob
  /\ queue # <<>>
  /\ Head(queue) = Sentinel
  /\ queue' = Tail(queue)
  /\ wpc' = "closing"
  /\ UNCHANGED <<closed, storeReady, cur, session, offering, cpc, fate, stored,
                 warnVars, historyVars>>

(* The store is closed before the stragglers are drained. *)
TakeSentinelClosesFirst ==
  /\ wpc \in {"serving", "draining"}
  /\ cur = NoJob
  /\ queue # <<>>
  /\ Head(queue) = Sentinel
  /\ queue' = Tail(queue)
  /\ wpc' = "draining"
  /\ session' = IF session = "open" THEN "closed" ELSE session
  /\ UNCHANGED <<closed, storeReady, cur, offering, cpc, fate, stored,
                 warnVars, historyVars>>

(* A failed write is put back at the end of the queue, to be tried again. *)
JobFailsRequeued ==
  /\ cur # NoJob
  /\ storeReady
  /\ Len(queue) < Capacity
  /\ queue' = Append(queue, cur)
  /\ fate' = [fate EXCEPT ![cur] = "queued"]
  /\ cur' = NoJob
  /\ UNCHANGED <<closed, storeReady, wpc, session, offering, cpc, stored,
                 warnVars, historyVars>>

(* `_run_job` lost its guard: the exception ends the thread. *)
JobRaisesKillsThread ==
  /\ cur # NoJob
  /\ storeReady
  /\ fate' = [fate EXCEPT ![cur] = "failed"]
  /\ cur' = NoJob
  /\ wpc' = "exited"
  /\ UNCHANGED <<queue, closed, storeReady, session, offering, cpc, stored,
                 warnVars, historyVars>>

(* `close` does not look whether the thread it joined has ended. *)
JoinDoneUnchecked(c) ==
  /\ cpc[c] = "joining"
  /\ cpc' = [cpc EXCEPT ![c] = "flushed"]
  /\ UNCHANGED <<queue, closed, offering, fate, stored, warnVars, threadVars,
                 historyVars>>

-----------------------------------------------------------------------------
(* Host threads. *)

(* `_degrade`: the record is lost; the first loss that is not quiet warns. *)
Degrade(j) ==
  /\ fate' = [fate EXCEPT ![j] = "dropped"]
  /\ warned' = (warned \/ j \notin QuietJobs)

(* The first half of `submit`: neither `_closed` nor a dead thread was seen. *)
SubmitCheck(h, j) ==
  /\ offering[h] = NoJob
  /\ fate[j] = "new"
  /\ ~closed
  /\ wpc # "exited"
  /\ offering' = [offering EXCEPT ![h] = j]
  /\ fate' = [fate EXCEPT ![j] = "offered"]
  /\ UNCHANGED <<queue, closed, cpc, stored, warnVars, threadVars, historyVars>>

(* `submit` on a writer that is closed or gone. *)
SubmitRefused(h, j) ==
  /\ offering[h] = NoJob
  /\ fate[j] = "new"
  /\ closed \/ wpc = "exited"
  /\ Degrade(j)
  /\ UNCHANGED <<queue, closed, jobWarned, setupWarned, recWarned, offering,
                 cpc, stored, threadVars, historyVars>>

(* The second half of `submit`: `put_nowait` finds room. *)
SubmitPut(h) ==
  LET j == offering[h] IN
  /\ j # NoJob
  /\ Len(queue) < Capacity
  /\ queue' = Append(queue, j)
  /\ fate' = [fate EXCEPT ![j] = "queued"]
  /\ ticket' = [ticket EXCEPT ![j] = tickets]
  /\ tickets' = tickets + 1
  /\ offering' = [offering EXCEPT ![h] = NoJob]
  /\ UNCHANGED <<closed, cpc, stored, owed, racing, warnVars, threadVars>>

(* The second half of `submit`: `put_nowait` raises `queue.Full`. *)
SubmitOverflow(h) ==
  LET j == offering[h] IN
  /\ j # NoJob
  /\ Len(queue) >= Capacity
  /\ Degrade(j)
  /\ offering' = [offering EXCEPT ![h] = NoJob]
  /\ UNCHANGED <<queue, closed, jobWarned, setupWarned, recWarned, cpc,
                 stored, threadVars, historyVars>>

-----------------------------------------------------------------------------
(* The writer thread. *)

(* `_open_store`: the session is opened, here and only here. *)
OpenStore ==
  /\ wpc = "opening"
  /\ session = "unopened"
  /\ session' = "open"
  /\ wpc' = "serving"
  /\ UNCHANGED <<queue, closed, storeReady, cur, offering, cpc, fate, stored,
                 warnVars, historyVars>>

(* `_open_store` when `open_session` raises: `on_failure` warns. *)
OpenStoreFails ==
  /\ wpc = "opening"
  /\ session' = "failed"
  /\ setupWarned' = TRUE
  /\ storeReady' = FALSE
  /\ wpc' = "serving"
  /\ UNCHANGED <<queue, closed, warned, jobWarned, recWarned, cur, offering,
                 cpc, fate, stored, historyVars>>

(* `queue.get()` of the main loop, or `get_nowait()` of the drain, returns a *)
(* record.                                                                   *)
TakeJob ==
  /\ wpc \in {"serving", "draining"}
  /\ cur = NoJob
  /\ queue # <<>>
  /\ Head(queue) # Sentinel
  /\ cur' = Head(queue)
  /\ fate' = [fate EXCEPT ![Head(queue)] = "running"]
  /\ queue' = Tail(queue)
  /\ UNCHANGED <<closed, storeReady, wpc, session, offering, cpc, stored,
                 warnVars, historyVars>>

(* The main loop meets the sentinel and starts the drain; the drain skips it. *)
TakeSentinel ==
  /\ wpc \in {"serving", "draining"}
  /\ cur = NoJob
  /\ queue # <<>>
  /\ Head(queue) = Sentinel
  /\ queue' = Tail(queue)
  /\ wpc' = "draining"
  /\ UNCHANGED <<closed, storeReady, cur, session, offering, cpc, fate, stored,
                 warnVars, historyVars>>

(* `_run_job` leaves a record of a run whose store never opened. *)
SkipJob ==
  /\ cur # NoJob
  /\ ~storeReady
  /\ fate' = [fate EXCEPT ![cur] = "skipped"]
  /\ cur' = NoJob
  /\ UNCHANGED <<queue, closed, storeReady, wpc, session, offering, cpc, stored,
                 warnVars, historyVars>>

(* `_run_job`: `record_call` commits. *)
StoreJob ==
  /\ cur # NoJob
  /\ storeReady
  /\ session = "open"
  /\ stored' = Append(stored, cur)
  /\ fate' = [fate EXCEPT ![cur] = "stored"]
  /\ cur' = NoJob
  /\ UNCHANGED <<queue, closed, storeReady, wpc, session, offering, cpc,
                 warnVars, historyVars>>

(* `_run_job`: the write raises and `Recorder.persist` swallows it, warning  *)
(* once per Recorder.                                                        *)
JobFails ==
  /\ cur # NoJob
  /\ storeReady
  /\ fate' = [fate EXCEPT ![cur] = "failed"]
  /\ recWarned' = IF cur \in QuietJobs THEN recWarned
                  ELSE recWarned \cup {RecorderOf[cur]}
  /\ cur' = NoJob
  /\ UNCHANGED <<queue, closed, warned, jobWarned, setupWarned, storeReady, wpc,
                 session, offering, cpc, stored, historyVars>>

(* `_run_job`: the closure itself raises; the writer's own guard warns once. *)
JobRaises ==
  /\ cur # NoJob
  /\ storeReady
  /\ fate' = [fate EXCEPT ![cur] = "failed"]
  /\ jobWarned' = TRUE
  /\ cur' = NoJob
  /\ UNCHANGED <<queue, closed, warned, setupWarned, recWarned, storeReady, wpc,
                 session, offering, cpc, stored, historyVars>>

(* `_drain_stragglers` finds the queue empty and returns. *)
DrainDone ==
  /\ wpc = "draining"
  /\ cur = NoJob
  /\ queue = <<>>
  /\ wpc' = "closing"
  /\ UNCHANGED <<queue, closed, storeReady, cur, session, offering, cpc, fate,
                 stored, warnVars, historyVars>>

(* `_ct.close()`, and the thread ends. *)
CloseStore ==
  /\ wpc = "closing"
  /\ session' = IF session = "open" THEN "closed" ELSE session
  /\ wpc' = "exited"
  /\ UNCHANGED <<queue, closed, storeReady, cur, offering, cpc, fate, stored,
                 warnVars, historyVars>>

-----------------------------------------------------------------------------
(* Callers of `close`. *)

(* The first `close` sets `_closed` under the lock. *)
CloseBegin(c) ==
  /\ cpc[c] = "idle"
  /\ ~closed
  /\ closed' = TRUE
  /\ cpc' = [cpc EXCEPT ![c] = "putting"]
  /\ owed' = {j \in Jobs : fate[j] \in {"queued", "running"}}
  /\ racing' = {j \in Jobs : fate[j] = "offered"}
  /\ UNCHANGED <<queue, offering, fate, ticket, tickets, stored, warnVars,
                 threadVars>>

(* Every later `close` is a no-op. *)
CloseAgain(c) ==
  /\ cpc[c] = "idle"
  /\ closed
  /\ cpc' = [cpc EXCEPT ![c] = "noop"]
  /\ UNCHANGED <<queue, closed, offering, fate, stored, warnVars, threadVars,
                 historyVars>>

(* The blocking `queue.put` of the sentinel: it waits for room. *)
PutSentinel(c) ==
  /\ cpc[c] = "putting"
  /\ Len(queue) < Capacity
  /\ queue' = Append(queue, Sentinel)
  /\ cpc' = [cpc EXCEPT ![c] = "joining"]
  /\ UNCHANGED <<closed, offering, fate, stored, warnVars, threadVars,
                 historyVars>>

(* `thread.join(timeout)` sees the thread end. *)
JoinDone(c) ==
  /\ cpc[c] = "joining"
  /\ wpc = "exited"
  /\ cpc' = [cpc EXCEPT ![c] = "flushed"]
  /\ UNCHANGED <<queue, closed, offering, fate, stored, warnVars, threadVars,
                 historyVars>>

(* `thread.join(timeout)` runs out and `close` warns and returns. *)
JoinTimeout(c) ==
  /\ cpc[c] = "joining"
  /\ wpc # "exited"
  /\ cpc' = [cpc EXCEPT ![c] = "gaveup"]
  /\ UNCHANGED <<queue, closed, offering, fate, stored, warnVars, threadVars,
                 historyVars>>

-----------------------------------------------------------------------------
(* Nobody is half-way through anything: the writer is gone or waits on an    *)
(* empty queue for a record that may never come.                             *)
Idle ==
  /\ \A h \in Hosts : offering[h] = NoJob
  /\ \A c \in Closers : cpc[c] \notin {"putting", "joining"}
  /\ wpc = "exited" \/ (wpc = "serving" /\ cur = NoJob /\ queue = <<>>)
  /\ UNCHANGED vars

Submit(h) ==
  \/ \E j \in Jobs : SubmitCheck(h, j) \/ SubmitRefused(h, j)
  \/ SubmitPut(h)
  \/ SubmitOverflow(h)

Run ==
  \/ OpenStore
  \/ OpenStoreFails
  \/ TakeJob
  \/ TakeSentinel
  \/ SkipJob
  \/ StoreJob
  \/ JobFails
  \/ JobRaises
  \/ DrainDone
  \/ CloseStore

Close(c) ==
  \/ CloseBegin(c)
  \/ CloseAgain(c)
  \/ PutSentinel(c)
  \/ JoinDone(c)
  \/ JoinTimeout(c)

Next ==
  \/ \E h \in Hosts : Submit(h)
  \/ Run
  \/ \E c \in Closers : Close(c)
  \/ Idle

Spec == Init /\ [][Next]_vars

(* A host finishes a `submit` it began, and a closer that began to close     *)
(* keeps running; whether a thread submits or closes at all is its own       *)
(* affair.                                                                   *)
HostFairness == \A h \in Hosts : WF_vars(SubmitPut(h) \/ SubmitOverflow(h))
CloserFairness ==
  \A c \in Closers :
    /\ WF_vars(PutSentinel(c))
    /\ WF_vars(JoinDone(c) \/ JoinTimeout(c))

(* The store may be wedged, and never answer: nothing is assumed of the      *)
(* writer thread.                                                            *)
FairSpec == Spec /\ HostFairness /\ CloserFairness

(* A store that answers, with success or an error, keeps the thread running. *)
StoreAnswers == WF_vars(Run)

-----------------------------------------------------------------------------
(* Safety. *)

(* `close` that returned because the thread ended has flushed: every record  *)
(* that was in the queue or in hand when `_closed` was set has been settled, *)
(* and the store is no longer open (`close`: "no lost writes").              *)
FlushedMeansSettled ==
  \A c \in Closers : cpc[c] = "flushed" =>
    /\ \A j \in owed : fate[j] \in Settled
    /\ session # "open"

(* A record left in the queue of a writer that is past its drain was between *)
(* `submit`'s check and its put at the moment `_closed` was set: nothing put *)
(* earlier, and nothing submitted later, can be stranded.                    *)
StrandedWereRacing ==
  wpc \in {"closing", "exited"} =>
    \A j \in Jobs : fate[j] = "queued" => j \in racing

(* A record that was given up has left a warning behind, the one of the path *)
(* that gave it up; only records of finalisers (`quiet`) may go unannounced. *)
LossIsAnnounced ==
  \A j \in Jobs :
    /\ fate[j] = "dropped" /\ j \notin QuietJobs => warned
    /\ fate[j] = "skipped" => setupWarned
    /\ fate[j] = "failed" /\ j \notin QuietJobs =>
         jobWarned \/ RecorderOf[j] \in recWarned

(* The store is written only by a run whose open succeeded, and while it is  *)
(* open: the thread opens before its first record and closes after its last. *)
WrittenWhileOpen ==
  /\ cur # NoJob /\ storeReady => session = "open"
  /\ stored # <<>> => storeReady /\ session \in {"open", "closed"}

(* A run whose store never opened announces that once and says no more about *)
(* single records it could not have written (`_run_job`: "a dead-database    *)
(* run produces exactly one warning").                                       *)
DeadStoreWarnsOnce ==
  session = "failed" => ~jobWarned /\ recWarned = {}

(* The promise of CaptureLog, read off the fate of the records. *)
VerdictFor(f) ==
  CASE f \in {"new", "offered"} -> "open"
    [] f \in {"queued", "running"} -> "pending"
    [] f = "stored" -> "stored"
    [] f \in {"failed", "skipped"} -> "discarded"
    [] f = "dropped" -> "refused"

VerdictOf == [j \in Jobs |-> VerdictFor(fate[j])]

Promise == INSTANCE CaptureLog WITH verdict <- VerdictOf

(* The pipeline keeps the promise of CaptureLog: records settle in the order *)
(* of their puts, each at most once, and the store only grows.               *)
KeepsPromise == Promise!Spec

-----------------------------------------------------------------------------
(* Liveness. *)

(* A record put before the writer ended its drain is settled, by a store     *)
(* that answers.                                                             *)
AcceptedIsSettled ==
  StoreAnswers =>
    \A j \in Jobs :
      (fate[j] = "queued" /\ wpc \notin {"closing", "exited"})
        ~> (fate[j] \in Settled)

(* `close` returns when the store answers, even one that began on a full     *)
(* queue that others still fill.                                             *)
CloseReturns ==
  StoreAnswers =>
    \A c \in Closers :
      (cpc[c] = "putting") ~> (cpc[c] \in {"flushed", "gaveup"})

(* `submit` returns even when the store is wedged: the host is never blocked.*)
SubmitReturns ==
  \A h \in Hosts : (offering[h] # NoJob) ~> (offering[h] = NoJob)

-----------------------------------------------------------------------------
(* What docs and comments say that the code does not do. *)

(* `close`: "blocking until done, with no lost writes"; a record must not    *)
(* stay in the queue of a thread that has ended.                             *)
NothingStranded ==
  wpc = "exited" => \A j \in Jobs : fate[j] # "queued"

(* `close`: exceeding the timeout "warns rather than hanging the caller      *)
(* forever", whatever the store does.                                        *)
CloseNeverHangs ==
  \A c \in Closers : (cpc[c] = "putting") ~> (cpc[c] \in {"flushed", "gaveup"})

=============================================================================
