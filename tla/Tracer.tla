------------------------------- MODULE Tracer -------------------------------
(***************************************************************************)
(* The life of one `Tracer` (src/ctxdiff/trace.py): threads that wrap      *)
(* clients, complete calls and close the run, and the sessions (a          *)
(* `_DeferredStore` and its `_Writer`) the tracer goes through.            *)
(*                                                                         *)
(* `wrap` and `_recorder_for` are serialised by locks; `close` and         *)
(* `_on_create` take none, and read `_writer` and `_ct` more than once.    *)
(* The bounded queue, its sentinel and the drain are those of Writer, here *)
(* once per session; the warnings and the sentinel's timeout are only      *)
(* there.                                                                  *)
(***************************************************************************)
EXTENDS Naturals, Sequences, FiniteSets

CONSTANTS
  Threads,         (* host threads *)
  Calls,           (* completed calls, each recorded at most once *)
  MaxCloses,       (* bound on the calls of `close` *)
  Capacity,        (* `maxsize` of a writer's queue *)
  Sentinel,        (* `_Writer._SENTINEL` *)
  None,            (* Python's None *)
  Absent           (* not made yet *)

ASSUME TracerAssumption ==
  /\ MaxCloses \in Nat
  /\ Capacity \in Nat \ {0}
  /\ None \notin Threads \cup Calls \cup (1..(MaxCloses + 1))
  /\ Sentinel \notin Calls
  /\ Absent \notin {"starting", "opening", "serving", "draining", "exited"}

(* A session is created only when `_ct` is None, and only a `close` makes it *)
(* None again.                                                               *)
Sessions == 1..(MaxCloses + 1)
MaybeSession == Sessions \cup {None}

VARIABLES
  ct,              (* `_ct`: the session of the current `_DeferredStore` *)
  writer,          (* `_writer`: the session whose writer thread it is *)
  setupLock,       (* holder of `_setup_lock` *)
  recordersLock,   (* holder of `_recorders_lock` *)
  cached,          (* `_recorders`: the binding of the handler's cached Recorder *)
  bound,           (* bindings of all Recorders handed out: the `_ct` they hold *)
  created,         (* how many sessions were created *)
  pc,              (* per thread: where it is in `wrap`, `_on_create` or `close` *)
  call,            (* per thread: the call it is recording *)
  target,          (* per thread: the writer it makes, submits to or closes *)
  closes,          (* how many `close` calls began *)
  recorderOf,      (* per call: the binding of its Recorder *)
  fate,            (* per call: what became of its record *)
  wct,             (* per writer: the `_ct` it was constructed with *)
  wstate,          (* per writer: where its thread is *)
  wclosed,         (* per writer: `_closed` *)
  wready,          (* per writer: `_store_ready` *)
  queue,           (* per writer: its queue *)
  running,         (* per writer: the call being persisted *)
  opened,          (* per session: `_opened` of its `_DeferredStore` *)
  store,           (* per session: `_store`, "live" once opened *)
  openLock,        (* per session: the writer inside `_DeferredStore.open` *)
  promised         (* history, per thread: calls accepted when its `close` began *)

tracerVars == <<ct, writer, setupLock, recordersLock, cached, bound, created>>
threadVars == <<pc, call, target, closes, promised>>
callVars == <<recorderOf, fate>>
writerVars == <<wct, wstate, wclosed, wready, queue, running>>
storeVars == <<opened, store, openLock>>
vars == <<tracerVars, threadVars, callVars, writerVars, storeVars>>

(* Where a thread stands that is wrapping, recording or closing. *)
Wrapping == {"handlerLock", "create", "handlerCreate", "startWriter",
             "handlerStartWriter", "bind", "handlerBind"}
Submitting == {"submit", "check", "put"}
ClosingAt == {"closeWriter", "sentinel", "join", "clearWriter", "clearStore",
              "closeOrphan"}
Returned == {"flushed", "gaveup", "raised"}
(* What can become of a record, and what can no longer change. *)
Done == {"stored", "failed", "stale", "skipped",
         "unrecorded", "unbuilt", "dropped", "overflowed"}
(* A writer thread that takes records. *)
Serving == {"serving", "draining"}

TypeOK ==
  /\ ct \in MaybeSession
  /\ writer \in MaybeSession
  /\ setupLock \in Threads \cup {None}
  /\ recordersLock \in Threads \cup {None}
  /\ cached \in MaybeSession \cup {Absent}
  /\ bound \subseteq MaybeSession
  /\ created \in 0..(MaxCloses + 1)
  /\ pc \in [Threads -> {"idle"} \cup Submitting \cup Wrapping \cup ClosingAt \cup Returned]
  /\ call \in [Threads -> Calls \cup {None}]
  /\ target \in [Threads -> MaybeSession]
  /\ closes \in 0..MaxCloses
  /\ recorderOf \in [Calls -> MaybeSession]
  /\ fate \in [Calls -> {"new", "built", "queued", "running"} \cup Done]
  /\ wct \in [Sessions -> MaybeSession]
  /\ wstate \in [Sessions -> {Absent, "starting", "opening", "exited"} \cup Serving]
  /\ wclosed \in [Sessions -> BOOLEAN]
  /\ wready \in [Sessions -> BOOLEAN]
  /\ queue \in [Sessions -> Seq(Calls \cup {Sentinel})]
  /\ running \in [Sessions -> Calls \cup {None}]
  /\ opened \in [Sessions -> BOOLEAN]
  /\ store \in [Sessions -> {"none", "live"}]
  /\ openLock \in [Sessions -> MaybeSession]
  /\ promised \in [Threads -> SUBSET Calls]

Init ==
  /\ ct = None
  /\ writer = None
  /\ setupLock = None
  /\ recordersLock = None
  /\ cached = Absent
  /\ bound = {}
  /\ created = 0
  /\ pc = [t \in Threads |-> "idle"]
  /\ call = [t \in Threads |-> None]
  /\ target = [t \in Threads |-> None]
  /\ closes = 0
  /\ recorderOf = [c \in Calls |-> None]
  /\ fate = [c \in Calls |-> "new"]
  /\ wct = [s \in Sessions |-> None]
  /\ wstate = [s \in Sessions |-> Absent]
  /\ wclosed = [s \in Sessions |-> FALSE]
  /\ wready = [s \in Sessions |-> TRUE]
  /\ queue = [s \in Sessions |-> <<>>]
  /\ running = [s \in Sessions |-> None]
  /\ opened = [s \in Sessions |-> FALSE]
  /\ store = [s \in Sessions |-> "none"]
  /\ openLock = [s \in Sessions |-> None]
  /\ promised = [t \in Threads |-> {}]

Goto(t, here) == pc' = [pc EXCEPT ![t] = here]

(* The step after `here` on the same path, for `wrap` and for a handler. *)
Then(t, here, plain, handler) ==
  Goto(t, IF pc[t] = here THEN plain ELSE handler)

-----------------------------------------------------------------------------
(* Faulty variants of the operations below.  None is part of the             *)
(* specification: each is a plausible bug of the code, kept to show that the *)
(* property named with it in the README notices.                             *)

(* `wrap` builds its Recorder before it makes sure of the store. *)
WrapBeginBindsFirst(t) ==
  /\ pc[t] \in {"idle", "handlerLock"}
  /\ setupLock = None
  /\ setupLock' = t
  /\ bound' = bound \cup {ct}
  /\ Goto(t, IF pc[t] = "idle" THEN "create" ELSE "handlerCreate")
  /\ UNCHANGED <<ct, writer, recordersLock, cached, created, call, target, closes,
                 promised, callVars, writerVars, storeVars>>

(* The check of `_ct` was made before the lock was taken. *)
CreateStoreUnchecked(t) ==
  /\ pc[t] \in {"create", "handlerCreate"}
  /\ created' = created + 1
  /\ ct' = created + 1
  /\ target' = [target EXCEPT ![t] = created + 1]
  /\ Then(t, "create", "startWriter", "handlerStartWriter")
  /\ UNCHANGED <<writer, setupLock, recordersLock, cached, bound, call, closes,
                 promised, callVars, writerVars, storeVars>>

(* The lock is held until the store has been opened. *)
StartWriterWaits(t) ==
  LET w == target[t] IN
  /\ pc[t] \in {"startWriter", "handlerStartWriter"}
  /\ writer' = w
  /\ \/ /\ wstate[w] = Absent
        /\ wct' = [wct EXCEPT ![w] = ct]
        /\ wstate' = [wstate EXCEPT ![w] = "starting"]
        /\ UNCHANGED <<setupLock, target, pc>>
     \/ /\ wstate[w] \in {"serving", "exited"}
        /\ setupLock' = None
        /\ target' = [target EXCEPT ![t] = None]
        /\ Then(t, "startWriter", "bind", "handlerBind")
        /\ UNCHANGED <<wct, wstate>>
  /\ UNCHANGED <<ct, recordersLock, cached, bound, created, call, closes, promised,
                 callVars, wclosed, wready, queue, running, storeVars>>

(* `close` forgets to clear `_ct`. *)
ClearStoreForgets(t) ==
  /\ pc[t] = "clearStore"
  /\ Goto(t, "flushed")
  /\ UNCHANGED <<tracerVars, call, target, closes, promised, callVars, writerVars,
                 storeVars>>

(* `close` never waits for room: it throws the oldest record out. *)
PutSentinelMakesRoom(t) ==
  LET q == queue[target[t]] IN
  /\ pc[t] = "sentinel"
  /\ queue' = [queue EXCEPT ![target[t]] =
       Append(IF Len(q) < Capacity THEN q ELSE Tail(q), Sentinel)]
  /\ Goto(t, "join")
  /\ UNCHANGED <<tracerVars, call, target, closes, promised, callVars, wct, wstate,
                 wclosed, wready, running, storeVars>>

(* The thread leaves at the sentinel: nothing drains what is behind it. *)
WriterSkipsDrain(w) ==
  LET s == wct[w] IN
  /\ wstate[w] = "draining"
  /\ running[w] = None
  /\ wstate' = [wstate EXCEPT ![w] = "exited"]
  /\ IF s = None THEN UNCHANGED <<opened, store>>
     ELSE /\ opened' = [opened EXCEPT ![s] = TRUE]
          /\ store' = [store EXCEPT ![s] = "none"]
  /\ UNCHANGED <<tracerVars, threadVars, callVars, wct, wclosed, wready, queue,
                 running, openLock>>

-----------------------------------------------------------------------------
(* `wrap` and `_recorder_for`. *)

(* `_ensure_store` takes the lock. *)
WrapBegin(t) ==
  /\ pc[t] \in {"idle", "handlerLock"}
  /\ setupLock = None
  /\ setupLock' = t
  /\ Goto(t, IF pc[t] = "idle" THEN "create" ELSE "handlerCreate")
  /\ UNCHANGED <<ct, writer, recordersLock, cached, bound, created, call, target,
                 closes, promised, callVars, writerVars, storeVars>>

(* `_recorder_for` finds no cached Recorder; it keeps `_recorders_lock` until *)
(* it has cached one.                                                        *)
HandlerBegin(t) ==
  /\ pc[t] = "idle"
  /\ recordersLock = None
  /\ cached = Absent
  /\ recordersLock' = t
  /\ Goto(t, "handlerLock")
  /\ UNCHANGED <<ct, writer, setupLock, cached, bound, created, call, target, closes,
                 promised, callVars, writerVars, storeVars>>

(* `_ensure_store` finds a store handle and releases the lock. *)
StoreExists(t) ==
  /\ pc[t] \in {"create", "handlerCreate"}
  /\ ct # None
  /\ setupLock' = None
  /\ Then(t, "create", "bind", "handlerBind")
  /\ UNCHANGED <<ct, writer, recordersLock, cached, bound, created, call, target,
                 closes, promised, callVars, writerVars, storeVars>>

(* `_ensure_store` finds none: `self._ct = _DeferredStore(...)`. *)
CreateStore(t) ==
  /\ pc[t] \in {"create", "handlerCreate"}
  /\ ct = None
  /\ created' = created + 1
  /\ ct' = created + 1
  /\ target' = [target EXCEPT ![t] = created + 1]
  /\ Then(t, "create", "startWriter", "handlerStartWriter")
  /\ UNCHANGED <<writer, setupLock, recordersLock, cached, bound, call, closes,
                 promised, callVars, writerVars, storeVars>>

(* `self._writer = _Writer(self._ct, ...)`, which starts its thread, and the *)
(* lock is released.  `_ct` is read again: `close` may have cleared it.      *)
StartWriter(t) ==
  LET w == target[t] IN
  /\ pc[t] \in {"startWriter", "handlerStartWriter"}
  /\ wct' = [wct EXCEPT ![w] = ct]
  /\ wstate' = [wstate EXCEPT ![w] = "starting"]
  /\ writer' = w
  /\ setupLock' = None
  /\ target' = [target EXCEPT ![t] = None]
  /\ Then(t, "startWriter", "bind", "handlerBind")
  /\ UNCHANGED <<ct, recordersLock, cached, bound, created, call, closes, promised,
                 callVars, wclosed, wready, queue, running, storeVars>>

(* `Recorder(self._ct, ...)`: the proxy, or the cached Recorder of the       *)
(* handler, holds whatever `_ct` is now.                                     *)
BindRecorder(t) ==
  /\ pc[t] \in {"bind", "handlerBind"}
  /\ bound' = bound \cup {ct}
  /\ IF pc[t] = "handlerBind" THEN cached' = ct /\ recordersLock' = None
                              ELSE UNCHANGED <<cached, recordersLock>>
  /\ Goto(t, "idle")
  /\ UNCHANGED <<ct, writer, setupLock, created, call, target, closes, promised,
                 callVars, writerVars, storeVars>>

-----------------------------------------------------------------------------
(* `_on_create`, on any Recorder handed out so far. *)

(* The tracer has no writer (it is closed): the call leaves no trace. *)
CallUnrecorded(t, c) ==
  /\ pc[t] = "idle"
  /\ fate[c] = "new"
  /\ bound # {}
  /\ writer = None
  /\ fate' = [fate EXCEPT ![c] = "unrecorded"]
  /\ UNCHANGED <<tracerVars, threadVars, recorderOf, writerVars, storeVars>>

(* `_writer` is set, but `build` fails and has warned: the call is skipped.   *)
CallUnbuilt(t, c) ==
  /\ pc[t] = "idle"
  /\ fate[c] = "new"
  /\ bound # {}
  /\ writer # None
  /\ fate' = [fate EXCEPT ![c] = "unbuilt"]
  /\ UNCHANGED <<tracerVars, threadVars, recorderOf, writerVars, storeVars>>

(* `_writer` is set: the record is built. *)
CallBuild(t, c) ==
  /\ pc[t] = "idle"
  /\ fate[c] = "new"
  /\ writer # None
  /\ \E b \in bound : recorderOf' = [recorderOf EXCEPT ![c] = b]
  /\ fate' = [fate EXCEPT ![c] = "built"]
  /\ call' = [call EXCEPT ![t] = c]
  /\ Goto(t, "submit")
  /\ UNCHANGED <<tracerVars, target, closes, promised, writerVars, storeVars>>

(* `self._writer`, read a second time, for `self._writer.submit(...)`. *)
CallSubmits(t) ==
  /\ pc[t] = "submit"
  /\ writer # None
  /\ target' = [target EXCEPT ![t] = writer]
  /\ Goto(t, "check")
  /\ UNCHANGED <<tracerVars, call, closes, promised, callVars, writerVars, storeVars>>

(* `submit` finds the writer open (its thread leaves only once it is not).   *)
CallAdmitted(t) ==
  /\ pc[t] = "check"
  /\ ~wclosed[target[t]]
  /\ Goto(t, "put")
  /\ UNCHANGED <<tracerVars, call, target, closes, promised, callVars, writerVars,
                 storeVars>>

(* The call leaves the hands of its thread. *)
HandedOver(t, how) ==
  /\ fate' = [fate EXCEPT ![call[t]] = how]
  /\ call' = [call EXCEPT ![t] = None]
  /\ target' = [target EXCEPT ![t] = None]
  /\ Goto(t, "idle")
  /\ UNCHANGED <<tracerVars, closes, promised, recorderOf, storeVars>>

(* `put_nowait`, with no lock since the check: by now the writer may have    *)
(* been closed, have met its sentinel, or have gone.                         *)
CallQueued(t) ==
  /\ pc[t] = "put"
  /\ Len(queue[target[t]]) < Capacity
  /\ queue' = [queue EXCEPT ![target[t]] = Append(@, call[t])]
  /\ HandedOver(t, "queued")
  /\ UNCHANGED <<wct, wstate, wclosed, wready, running>>

(* `queue.Full`: the record is dropped, and warned of. *)
CallOverflows(t) ==
  /\ pc[t] = "put"
  /\ Len(queue[target[t]]) >= Capacity
  /\ HandedOver(t, "overflowed")
  /\ UNCHANGED writerVars

(* `_writer` became None since it was read (the AttributeError is caught),   *)
(* or the writer is closed: the record is dropped, and either way warned of. *)
CallDropped(t) ==
  /\ \/ pc[t] = "submit" /\ writer = None
     \/ pc[t] = "check" /\ wclosed[target[t]]
  /\ HandedOver(t, "dropped")
  /\ UNCHANGED writerVars

-----------------------------------------------------------------------------
(* `Tracer.close`. *)

(* Another thread is inside `close`. *)
Overlapped(t) == \E u \in Threads \ {t} : pc[u] \in ClosingAt

(* The records the writer has taken and not settled, when writer and store  *)
(* belong together: a `close` in the middle of a `wrap` can part them.       *)
Accepted(w) ==
  IF w = None \/ ct # w THEN {}
  ELSE {c \in Calls : c = running[w] \/ \E i \in DOMAIN queue[w] : queue[w][i] = c}

(* The first reads of `_writer` and `_ct`. *)
CloseBegin(t) ==
  /\ pc[t] = "idle"
  /\ closes < MaxCloses
  /\ closes' = closes + 1
  /\ promised' = [u \in Threads |->
       CASE Overlapped(t) /\ (u = t \/ pc[u] \in ClosingAt) -> {}
         [] ~Overlapped(t) /\ u = t -> Accepted(writer)
         [] OTHER -> promised[u]]
  /\ Goto(t, IF writer # None THEN "closeWriter"
             ELSE IF ct # None THEN "closeOrphan" ELSE "flushed")
  /\ UNCHANGED <<tracerVars, call, target, callVars, writerVars, storeVars>>

(* `self._writer.close()` on the writer it now finds: the first close of a   *)
(* writer goes on to its sentinel, a later one returns at once.              *)
CloseWriter(t) ==
  /\ pc[t] = "closeWriter"
  /\ writer # None
  /\ IF wclosed[writer]
     THEN Goto(t, "clearWriter") /\ UNCHANGED <<wclosed, target>>
     ELSE /\ Goto(t, "sentinel")
          /\ wclosed' = [wclosed EXCEPT ![writer] = TRUE]
          /\ target' = [target EXCEPT ![t] = writer]
  /\ UNCHANGED <<tracerVars, call, closes, promised, callVars, wct, wstate, wready,
                 queue, running, storeVars>>

(* Another `close` cleared `_writer` or `_ct` since it was read:             *)
(* AttributeError out of `close`.                                            *)
CloseRaises(t) ==
  /\ \/ pc[t] = "closeWriter" /\ writer = None
     \/ pc[t] = "closeOrphan" /\ ct = None
  /\ Goto(t, "raised")
  /\ UNCHANGED <<tracerVars, call, target, closes, promised, callVars, writerVars,
                 storeVars>>

(* The sentinel is put with a blocking put: it waits for room. *)
PutSentinel(t) ==
  /\ pc[t] = "sentinel"
  /\ Len(queue[target[t]]) < Capacity
  /\ queue' = [queue EXCEPT ![target[t]] = Append(@, Sentinel)]
  /\ Goto(t, "join")
  /\ UNCHANGED <<tracerVars, call, target, closes, promised, callVars, wct, wstate,
                 wclosed, wready, running, storeVars>>

(* The join ends with the thread, or with its timeout. *)
JoinEnds(t) ==
  /\ pc[t] = "join"
  /\ Goto(t, "clearWriter")
  /\ IF wstate[target[t]] = "exited" THEN UNCHANGED promised
     ELSE promised' = [promised EXCEPT ![t] = {}]   \* warned: nothing is promised
  /\ target' = [target EXCEPT ![t] = None]
  /\ UNCHANGED <<tracerVars, call, closes, callVars, writerVars, storeVars>>

ClearWriter(t) ==
  /\ pc[t] = "clearWriter"
  /\ writer' = None
  /\ Goto(t, "clearStore")
  /\ UNCHANGED <<ct, setupLock, recordersLock, cached, bound, created, call, target,
                 closes, promised, callVars, writerVars, storeVars>>

ClearStore(t) ==
  /\ pc[t] = "clearStore"
  /\ ct' = None
  /\ Goto(t, "flushed")
  /\ UNCHANGED <<writer, setupLock, recordersLock, cached, bound, created, call,
                 target, closes, promised, callVars, writerVars, storeVars>>

(* `elif self._ct is not None: self._ct.close()`: a `wrap` has made the      *)
(* handle and not yet its writer.                                            *)
CloseOrphan(t) ==
  /\ pc[t] = "closeOrphan"
  /\ ct # None
  /\ opened' = [opened EXCEPT ![ct] = TRUE]
  /\ store' = [store EXCEPT ![ct] = "none"]
  /\ Goto(t, "clearStore")
  /\ UNCHANGED <<tracerVars, call, target, closes, promised, callVars, writerVars,
                 openLock>>

(* The closed thread goes on to other work. *)
Resume(t) ==
  /\ pc[t] \in Returned
  /\ Goto(t, "idle")
  /\ promised' = [promised EXCEPT ![t] = {}]
  /\ UNCHANGED <<tracerVars, call, target, closes, callVars, writerVars, storeVars>>

-----------------------------------------------------------------------------
(* The writer threads; see Writer for the queue. *)

(* `_open_store` has nothing to open: no deferred store, or one already      *)
(* closed by a host thread.                                                  *)
OpenNothing(w) ==
  /\ wstate[w] = "starting"
  /\ \/ wct[w] = None /\ UNCHANGED wready
     \/ /\ wct[w] # None
        /\ opened[wct[w]]
        /\ openLock[wct[w]] = None
        /\ wready' = [wready EXCEPT ![w] = (store[wct[w]] = "live")]
  /\ wstate' = [wstate EXCEPT ![w] = "serving"]
  /\ UNCHANGED <<tracerVars, threadVars, callVars, wct, wclosed, queue, running,
                 storeVars>>

(* `_DeferredStore.open` takes its lock and connects. *)
OpenBegin(w) ==
  LET s == wct[w] IN
  /\ wstate[w] = "starting"
  /\ s # None
  /\ ~opened[s]
  /\ openLock[s] = None
  /\ opened' = [opened EXCEPT ![s] = TRUE]
  /\ openLock' = [openLock EXCEPT ![s] = w]
  /\ wstate' = [wstate EXCEPT ![w] = "opening"]
  /\ UNCHANGED <<tracerVars, threadVars, callVars, wct, wclosed, wready, queue,
                 running, store>>

OpenEnd(w) ==
  LET s == wct[w] IN
  /\ wstate[w] = "opening"
  /\ \E ok \in BOOLEAN :
       /\ store' = [store EXCEPT ![s] = IF ok THEN "live" ELSE "none"]
       /\ wready' = [wready EXCEPT ![w] = ok]
  /\ openLock' = [openLock EXCEPT ![s] = None]
  /\ wstate' = [wstate EXCEPT ![w] = "serving"]
  /\ UNCHANGED <<tracerVars, threadVars, callVars, wct, wclosed, queue, running,
                 opened>>

(* `get()`, or the drain's `get_nowait()`; `_run_job` skips the record of a  *)
(* store that never opened.                                                  *)
TakeCall(w) ==
  /\ wstate[w] \in Serving
  /\ running[w] = None
  /\ queue[w] # <<>>
  /\ Head(queue[w]) # Sentinel
  /\ LET c == Head(queue[w]) IN
       IF wready[w]
       THEN /\ running' = [running EXCEPT ![w] = c]
            /\ fate' = [fate EXCEPT ![c] = "running"]
       ELSE /\ fate' = [fate EXCEPT ![c] = "skipped"]
            /\ UNCHANGED running
  /\ queue' = [queue EXCEPT ![w] = Tail(@)]
  /\ UNCHANGED <<tracerVars, threadVars, recorderOf, wct, wstate, wclosed, wready,
                 storeVars>>

(* The statement reaches the store of the Recorder's own `_ct`, and commits  *)
(* or fails.                                                                 *)
PersistEnds(w) ==
  LET c == running[w]
      s == recorderOf[c] IN
  /\ c # None
  /\ s # None
  /\ store[s] = "live"
  /\ openLock[s] = None
  /\ \E outcome \in {"stored", "failed"} : fate' = [fate EXCEPT ![c] = outcome]
  /\ running' = [running EXCEPT ![w] = None]
  /\ UNCHANGED <<tracerVars, threadVars, recorderOf, wct, wstate, wclosed, wready,
                 queue, storeVars>>

(* The Recorder has no store any more: `_StoreUnavailable`, or None has no   *)
(* `record_call`.                                                            *)
PersistStale(w) ==
  LET c == running[w]
      s == recorderOf[c] IN
  /\ c # None
  /\ s # None => opened[s] /\ openLock[s] = None /\ store[s] = "none"
  /\ fate' = [fate EXCEPT ![c] = "stale"]
  /\ running' = [running EXCEPT ![w] = None]
  /\ UNCHANGED <<tracerVars, threadVars, recorderOf, wct, wstate, wclosed, wready,
                 queue, storeVars>>

(* `_require` opens on demand a store no writer has opened yet. *)
OpenOnDemand(w) ==
  LET c == running[w]
      s == recorderOf[c] IN
  /\ c # None
  /\ s # None
  /\ ~opened[s]
  /\ openLock[s] = None
  /\ opened' = [opened EXCEPT ![s] = TRUE]
  /\ \E ok \in BOOLEAN : store' = [store EXCEPT ![s] = IF ok THEN "live" ELSE "none"]
  /\ UNCHANGED <<tracerVars, threadVars, callVars, writerVars, openLock>>

(* The sentinel is met; the drain begins.  Only the first close of a writer  *)
(* puts one, so that the drain never meets another.                          *)
TakeSentinel(w) ==
  /\ wstate[w] = "serving"
  /\ running[w] = None
  /\ queue[w] # <<>>
  /\ Head(queue[w]) = Sentinel
  /\ queue' = [queue EXCEPT ![w] = Tail(@)]
  /\ wstate' = [wstate EXCEPT ![w] = "draining"]
  /\ UNCHANGED <<tracerVars, threadVars, callVars, wct, wclosed, wready, running,
                 storeVars>>

(* The drain finds the queue empty: the thread closes its store and goes.    *)
WriterExits(w) ==
  LET s == wct[w] IN
  /\ wstate[w] = "draining"
  /\ running[w] = None
  /\ queue[w] = <<>>
  /\ wstate' = [wstate EXCEPT ![w] = "exited"]
  /\ IF s = None THEN UNCHANGED <<opened, store>>
     ELSE /\ opened' = [opened EXCEPT ![s] = TRUE]
          /\ store' = [store EXCEPT ![s] = "none"]
  /\ UNCHANGED <<tracerVars, threadVars, callVars, wct, wclosed, wready, queue,
                 running, openLock>>

-----------------------------------------------------------------------------
Wrap(t) ==
  \/ WrapBegin(t)
  \/ HandlerBegin(t)
  \/ StoreExists(t)
  \/ CreateStore(t)
  \/ StartWriter(t)
  \/ BindRecorder(t)

Record(t) ==
  \/ \E c \in Calls : CallUnrecorded(t, c) \/ CallUnbuilt(t, c) \/ CallBuild(t, c)
  \/ CallSubmits(t)
  \/ CallAdmitted(t)
  \/ CallQueued(t)
  \/ CallOverflows(t)
  \/ CallDropped(t)

Close(t) ==
  \/ CloseBegin(t)
  \/ CloseWriter(t)
  \/ CloseRaises(t)
  \/ PutSentinel(t)
  \/ JoinEnds(t)
  \/ ClearWriter(t)
  \/ ClearStore(t)
  \/ CloseOrphan(t)
  \/ Resume(t)

Write(w) ==
  \/ OpenNothing(w)
  \/ OpenBegin(w)
  \/ OpenEnd(w)
  \/ TakeCall(w)
  \/ PersistEnds(w)
  \/ PersistStale(w)
  \/ OpenOnDemand(w)
  \/ TakeSentinel(w)
  \/ WriterExits(w)

Next ==
  \/ \E t \in Threads : Wrap(t) \/ Record(t) \/ Close(t)
  \/ \E w \in Sessions : Write(w)

Spec == Init /\ [][Next]_vars

(* A thread that is inside an operation keeps running.  A handler waiting    *)
(* for `_setup_lock` gets it in the end: a run wraps finitely many clients,  *)
(* so the lock cannot be taken from it for ever.                             *)
ThreadFairness ==
  \A t \in Threads :
    /\ WF_vars(pc[t] # "idle" /\ (Wrap(t) \/ Record(t) \/ Close(t)))
    /\ SF_vars(pc[t] = "handlerLock" /\ WrapBegin(t))

(* Nothing is assumed of the stores: a writer may stop anywhere for ever. *)
FairSpec == Spec /\ ThreadFairness

(* Stores that answer keep their writers running. *)
StoresAnswer == \A w \in Sessions : WF_vars(Write(w))

-----------------------------------------------------------------------------
(* However many threads wrap or record at once, a run has one session, one   *)
(* more for every `close` in between, and before any close every Recorder    *)
(* holds that one session (`_ensure_store`: "exactly ONCE").                 *)
OneSessionPerRun ==
  /\ created <= closes + 1
  /\ closes = 0 => bound \subseteq {1}

(* Whatever closes and wraps have met, when no close is clearing the tracer  *)
(* and no wrap is setting it up, a store handle comes with its own writer,   *)
(* and that writer takes records: the Recorder the next wrap or handler gets *)
(* is one that records.  `close` clears `_writer` and `_ct` in two steps and *)
(* without the lock under which `_ensure_store` sets them (`close`: "clears  *)
(* `_writer`/`_ct` so a second call is a no-op").                            *)
Clearing == {"sentinel", "join", "clearWriter", "clearStore"}
HandleComesWithWriter ==
  ct # None /\ setupLock = None /\ (\A t \in Threads : pc[t] \notin Clearing) =>
    writer = ct /\ wct[ct] = ct /\ ~wclosed[ct]

(* Before any `close`, an accepted record is lost only to its store: no      *)
(* interleaving of wraps and calls hands out a Recorder without a store.     *)
StaleOnlyAfterClose ==
  \A c \in Calls : fate[c] \in {"stale", "dropped", "unrecorded"} => closes > 0

(* A close that no other close overlaps, on a tracer whose writer and store   *)
(* belong together, and whose join did not run out, has left nothing behind: *)
(* what was queued when it began is settled, whoever wraps and records       *)
(* meanwhile (`Tracer.close`: "blocks until the writer thread has persisted  *)
(* every enqueued call").                                                    *)
CloseFlushes ==
  \A t \in Threads : pc[t] = "flushed" => \A c \in promised[t] : fate[c] \in Done

(* `wrap` returns whatever the store does: its locks are never held across   *)
(* store I/O, and `_recorders_lock` inside `_setup_lock` makes no deadlock.  *)
WrapReturns ==
  \A t \in Threads : (pc[t] \in Wrapping) ~> (pc[t] = "idle")

(* A record in the queue of a writer thread that is still there is settled,  *)
(* with stores that answer, whichever writer it is, before or behind its     *)
(* sentinel, and whoever closes or wraps meanwhile.  (One that is put after  *)
(* the thread has gone stays: NothingStranded of Writer.)                    *)
AwaitsLiving(c) ==
  \E w \in Sessions : /\ wstate[w] # "exited"
                      /\ \E i \in DOMAIN queue[w] : queue[w][i] = c
QueuedIsSettled ==
  StoresAnswer => \A c \in Calls : AwaitsLiving(c) ~> (fate[c] \in Done)

-----------------------------------------------------------------------------
(* What the docs say that the code does not do. *)

(* `_Writer`: "there is never concurrent connection access": two writer      *)
(* threads never work on one store at the same time.                         *)
WorksOn(w, s) ==
  \/ wstate[w] = "opening" /\ wct[w] = s
  \/ running[w] # None /\ recorderOf[running[w]] = s /\ store[s] = "live"

SingleConnectionUser ==
  \A s, v, w \in Sessions : WorksOn(v, s) /\ WorksOn(w, s) => v = w

=============================================================================
