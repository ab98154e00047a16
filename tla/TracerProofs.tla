---------------------------- MODULE TracerProofs ----------------------------
(***************************************************************************)
(* Proofs about Tracer, for any number of threads, calls and closes.       *)
(***************************************************************************)
EXTENDS Tracer, SequenceTheorems, FiniteSetTheorems, TLAPS

(* Inside `_ensure_store`, which holds `_setup_lock`. *)
InSetup == {"create", "handlerCreate", "startWriter", "handlerStartWriter"}
Starting == {"startWriter", "handlerStartWriter"}
Binding == {"bind", "handlerBind"}
Closers == {t \in Threads : pc[t] \in ClosingAt}

(* `_setup_lock` is in the hands of the one thread inside `_ensure_store`. *)
LockInv == \A t \in Threads : pc[t] \in InSetup => setupLock = t

(* A session made and without a writer yet is the newest one, in the hands   *)
(* of the thread that makes its writer; `_writer` always has its thread.     *)
SessionInv ==
  /\ \A s \in Sessions : s > created => wstate[s] = Absent
  /\ \A s \in Sessions : wclosed[s] => wstate[s] # Absent
  /\ writer # None => wstate[writer] # Absent
  /\ \A t \in Threads : pc[t] \in Starting =>
       /\ created \in Sessions
       /\ target[t] = created
       /\ wstate[created] = Absent
       /\ ct \in {None, created}
  /\ \A t \in Threads :
       pc[t] \in {"check", "put", "sentinel", "join"} => target[t] \in Sessions

(* Each close pays for one session: at most as many sessions have been made  *)
(* as closes have been through, and one more while `_ct` holds it.           *)
CountInv ==
  /\ IsFiniteSet(Closers)
  /\ created + Cardinality(Closers) <= closes + (IF ct = None THEN 0 ELSE 1)

(* A call being recorded is in one place: in the hands of the thread that    *)
(* built it, in one queue, or with one writer thread.                        *)
HandInv ==
  /\ \A t \in Threads :
       pc[t] \in Submitting => call[t] \in Calls /\ fate[call[t]] = "built"
  /\ \A t, u \in Threads :
       pc[t] \in Submitting /\ pc[u] \in Submitting /\ call[t] = call[u] => t = u
QueueInv ==
  /\ \A w \in Sessions : \A i \in 1..Len(queue[w]) :
       queue[w][i] # Sentinel => fate[queue[w][i]] = "queued"
  /\ \A v, w \in Sessions : \A i \in 1..Len(queue[v]), j \in 1..Len(queue[w]) :
       queue[v][i] = queue[w][j] /\ queue[v][i] # Sentinel => v = w /\ i = j
RunningInv ==
  /\ \A w \in Sessions : running[w] # None =>
       fate[running[w]] = "running" /\ wstate[w] \in Serving /\ wready[w]
  /\ \A v, w \in Sessions : running[v] # None /\ running[v] = running[w] => v = w

(* Only a close that has closed a writer puts a sentinel in its queue, and    *)
(* only a writer that was closed meets one.                                  *)
SentinelInv ==
  /\ \A w \in Sessions : ~wclosed[w] =>
       /\ wstate[w] \notin {"draining", "exited"}
       /\ \A i \in 1..Len(queue[w]) : queue[w][i] # Sentinel
  /\ \A t \in Threads : pc[t] = "sentinel" => wclosed[target[t]]

(* Before the first close: one session, whose writer was made with it and is *)
(* at work before any Recorder is bound to it.                               *)
FreshInv ==
  closes = 0 =>
    /\ \A t \in Threads : pc[t] \notin ClosingAt \cup Returned
    /\ created = (IF ct = None THEN 0 ELSE 1)
    /\ ct \in {None, 1}
    /\ writer \in {None, 1}
    /\ \A t \in Threads : pc[t] \in Starting \cup Binding => ct = 1
    /\ writer = None =>
         /\ bound = {}
         /\ \A t \in Threads : pc[t] \notin Binding \cup Submitting
         /\ ct # None => \E t \in Threads : pc[t] \in Starting
    /\ bound \subseteq {1}
    /\ \A c \in Calls : fate[c] \in {"built", "queued", "running"} => recorderOf[c] = 1
    /\ \A w \in Sessions : ~wclosed[w]
FreshStoreInv ==
  closes = 0 =>
    /\ wstate[1] # Absent => wct[1] = 1
    /\ wstate[1] \in {Absent, "starting"} => ~opened[1] /\ openLock[1] = None
    /\ wstate[1] = "opening" => opened[1] /\ openLock[1] # None
    /\ wstate[1] = "serving" =>
         opened[1] /\ openLock[1] = None /\ (wready[1] <=> store[1] = "live")

(* A writer that `_writer` still names is closed only by a `close` that will *)
(* clear `_writer`.                                                          *)
ClosedInv ==
  writer # None /\ wclosed[writer] =>
    \E t \in Threads : pc[t] \in {"sentinel", "join", "clearWriter"}

(* A store handle that no close is about to clear has its own writer, which  *)
(* is open, or is still being set up.                                        *)
PairInv ==
  ct # None /\ (\A t \in Threads : pc[t] \notin Clearing) =>
    \/ \E t \in Threads : pc[t] \in Starting
    \/ writer = ct /\ wct[ct] = ct /\ ~wclosed[ct]

(* What a close has promised is settled, or its writer has still to take it  *)
(* before it can meet a sentinel; and no other close is under way while it   *)
(* promises anything.                                                        *)
Ahead == [w \in Sessions |->
  {c \in Calls :
     /\ wstate[w] \notin {"draining", "exited"}
     /\ \/ c = running[w]
        \/ \E i \in 1..Len(queue[w]) :
             queue[w][i] = c /\ \A j \in 1..i : queue[w][j] # Sentinel}]
Finished == {c \in Calls : fate[c] \in Done}
Promise(t) ==
  promised[t] # {} =>
    /\ pc[t] \in {"closeWriter", "flushed"} \cup Clearing
    /\ pc[t] \in ClosingAt => \A u \in Threads : pc[u] \in ClosingAt => u = t
    /\ pc[t] = "closeWriter" =>
         writer # None /\ ct = writer /\ promised[t] \subseteq Finished \cup Ahead[writer]
    /\ pc[t] \in {"sentinel", "join"} =>
         promised[t] \subseteq Finished \cup Ahead[target[t]]
    /\ pc[t] \in {"clearWriter", "clearStore", "flushed"} => promised[t] \subseteq Finished
PromiseInv == \A t \in Threads : Promise(t)

Inv ==
  /\ TypeOK
  /\ LockInv
  /\ SessionInv
  /\ CountInv
  /\ HandInv
  /\ QueueInv
  /\ RunningInv
  /\ SentinelInv
  /\ FreshInv
  /\ FreshStoreInv
  /\ ClosedInv
  /\ PairInv
  /\ PromiseInv
  /\ StaleOnlyAfterClose

-----------------------------------------------------------------------------

(* A session can only be made while there is one left to make: with no       *)
(* `_ct`, fewer sessions have been made than closes have begun, or as many.  *)
LEMMA CountNat ==
  ASSUME TypeOK, CountInv, ct = None
  PROVE  created + 1 \in Sessions /\ created <= closes
<1>1. Cardinality(Closers) \in Nat
  BY FS_CardinalityType DEF CountInv
<1>2. created \in Nat /\ closes \in Nat /\ MaxCloses \in Nat /\ closes <= MaxCloses
  BY TracerAssumption DEF TypeOK
<1>3. created + Cardinality(Closers) <= closes
  BY <1>1, <1>2 DEF CountInv
<1>4. created <= closes /\ created + 1 \in 1..(MaxCloses + 1)
  BY <1>1, <1>2, <1>3
<1>5. QED
  BY <1>4 DEF Sessions

(* What a queue holds: records and sentinels. *)
Jobs == Calls \cup {Sentinel}

(* The oldest job of a queue, and the queue without it. *)
LEMMA TailOfQueue ==
  ASSUME TypeOK, NEW w \in Sessions, queue[w] # <<>>
  PROVE  /\ Head(queue[w]) = queue[w][1]
         /\ Head(queue[w]) \in Jobs
         /\ Tail(queue[w]) \in Seq(Jobs)
         /\ Len(queue[w]) \in Nat \ {0}
         /\ Len(Tail(queue[w])) = Len(queue[w]) - 1
         /\ \A i \in 1..Len(Tail(queue[w])) :
              i + 1 \in 1..Len(queue[w]) /\ Tail(queue[w])[i] = queue[w][i + 1]
<1>1. queue[w] \in Seq(Jobs)
  BY DEF TypeOK, Jobs
<1>2. Len(queue[w]) \in Nat \ {0}
  BY <1>1, EmptySeq
<1>3. /\ Head(queue[w]) = queue[w][1]
      /\ Head(queue[w]) \in Jobs
      /\ Tail(queue[w]) \in Seq(Jobs)
      /\ Len(Tail(queue[w])) = Len(queue[w]) - 1
      /\ \A i \in 1..Len(Tail(queue[w])) : Tail(queue[w])[i] = queue[w][i + 1]
  BY <1>1, HeadTailProperties
<1>4. QED
  BY <1>2, <1>3

(* A job put behind a queue. *)
LEMMA PutInQueue ==
  ASSUME TypeOK, NEW w \in Sessions, NEW c \in Jobs
  PROVE  /\ Append(queue[w], c) \in Seq(Jobs)
         /\ Len(queue[w]) \in Nat
         /\ Len(Append(queue[w], c)) = Len(queue[w]) + 1
         /\ \A i \in 1..Len(queue[w]) : Append(queue[w], c)[i] = queue[w][i]
         /\ Append(queue[w], c)[Len(queue[w]) + 1] = c
<1>1. queue[w] \in Seq(Jobs)
  BY DEF TypeOK, Jobs
<1>2. QED
  BY <1>1, AppendProperties, LenProperties

(* Until a close begins only the first session has a writer thread. *)
LEMMA OneWriter ==
  ASSUME TypeOK, SessionInv, FreshInv, FreshStoreInv, closes = 0,
         NEW w \in Sessions, wstate[w] # Absent
  PROVE  1 \in Sessions /\ w = 1 /\ wct[w] = 1
<1>1. created \in {0, 1} /\ MaxCloses \in Nat
  BY TracerAssumption DEF FreshInv
<1>2. w <= created
  BY <1>1 DEF SessionInv, Sessions
<1>3. 1 \in Sessions /\ w = 1
  BY <1>1, <1>2 DEF Sessions
<1>4. QED
  BY <1>3 DEF FreshStoreInv

-----------------------------------------------------------------------------

(* Every step keeps the types of the variables. *)
LEMMA TypeStep ==
  ASSUME TypeOK, CountInv, SessionInv, HandInv, [Next]_vars
  PROVE  TypeOK'
<1> USE TracerAssumption DEF TypeOK, MaybeSession, Sessions, Submitting,
      Serving, Wrapping, ClosingAt, Returned, Done, tracerVars, threadVars,
      callVars, writerVars, storeVars
<1>1. ASSUME NEW t \in Threads, WrapBegin(t) PROVE TypeOK'
  BY <1>1 DEF WrapBegin, Goto
<1>2. ASSUME NEW t \in Threads, HandlerBegin(t) PROVE TypeOK'
  BY <1>2 DEF HandlerBegin, Goto
<1>3. ASSUME NEW t \in Threads, StoreExists(t) PROVE TypeOK'
  BY <1>3 DEF StoreExists, Then, Goto
<1>4. ASSUME NEW t \in Threads, CreateStore(t) PROVE TypeOK'
  <2>1. ct = None
    BY <1>4 DEF CreateStore
  <2>2. created + 1 \in Sessions
    BY <2>1, CountNat
  <2>3. created' \in 0..(MaxCloses + 1) /\ ct' \in MaybeSession
    BY <1>4, <2>2 DEF CreateStore
  <2>4. target' \in [Threads -> MaybeSession]
    BY <1>4, <2>2 DEF CreateStore
  <2>5. QED
    BY <1>4, <2>3, <2>4 DEF CreateStore, Then, Goto
<1>5. ASSUME NEW t \in Threads, StartWriter(t) PROVE TypeOK'
  BY <1>5 DEF StartWriter, Then, Goto
<1>6. ASSUME NEW t \in Threads, BindRecorder(t) PROVE TypeOK'
  BY <1>6 DEF BindRecorder, Goto
<1>7. ASSUME NEW t \in Threads, NEW c \in Calls, CallUnrecorded(t, c) PROVE TypeOK'
  BY <1>7 DEF CallUnrecorded
<1>8. ASSUME NEW t \in Threads, NEW c \in Calls, CallUnbuilt(t, c) PROVE TypeOK'
  BY <1>8 DEF CallUnbuilt
<1>9. ASSUME NEW t \in Threads, NEW c \in Calls, CallBuild(t, c) PROVE TypeOK'
  BY <1>9 DEF CallBuild, Goto
<1>10. ASSUME NEW t \in Threads, CallSubmits(t) PROVE TypeOK'
  BY <1>10 DEF CallSubmits, Goto
<1>11. ASSUME NEW t \in Threads, CallAdmitted(t) PROVE TypeOK'
  BY <1>11 DEF CallAdmitted, Goto
<1>12. ASSUME NEW t \in Threads, CallQueued(t) PROVE TypeOK'
  <2>1. target[t] \in Sessions /\ call[t] \in Jobs
    BY <1>12 DEF CallQueued, HandInv, SessionInv, Submitting, Jobs
  <2>2. Append(queue[target[t]], call[t]) \in Seq(Jobs)
    BY <2>1, PutInQueue
  <2>3. queue' \in [Sessions -> Seq(Jobs)]
    BY <1>12, <2>1, <2>2 DEF CallQueued, Jobs
  <2>4. QED
    BY <1>12, <2>3 DEF CallQueued, HandedOver, Goto, Jobs
<1>13. ASSUME NEW t \in Threads, CallOverflows(t) PROVE TypeOK'
  BY <1>13 DEF CallOverflows, Goto, HandedOver
<1>14. ASSUME NEW t \in Threads, CallDropped(t) PROVE TypeOK'
  BY <1>14 DEF CallDropped, Goto, HandedOver
<1>15. ASSUME NEW t \in Threads, CloseBegin(t) PROVE TypeOK'
  <2>1. Accepted(writer) \subseteq Calls
    BY DEF Accepted
  <2>2. promised' \in [Threads -> SUBSET Calls]
    <3>1. ASSUME NEW u \in Threads PROVE promised'[u] \subseteq Calls
      BY <1>15, <2>1 DEF CloseBegin
    <3>2. QED
      BY <1>15, <3>1 DEF CloseBegin
  <2>3. pc' \in [Threads -> {"idle"} \cup Submitting \cup Wrapping \cup ClosingAt \cup Returned]
    BY <1>15 DEF CloseBegin, Goto
  <2>4. closes' \in 0..MaxCloses
    BY <1>15 DEF CloseBegin
  <2>5. QED
    BY <1>15, <2>2, <2>3, <2>4 DEF CloseBegin
<1>16. ASSUME NEW t \in Threads, CloseWriter(t) PROVE TypeOK'
  <2>1. writer \in Sessions
    BY <1>16 DEF CloseWriter
  <2>2. CASE wclosed[writer]
    BY <1>16, <2>2 DEF CloseWriter, Goto
  <2>3. CASE ~wclosed[writer]
    <3>1. /\ wclosed' = [wclosed EXCEPT ![writer] = TRUE]
          /\ target' = [target EXCEPT ![t] = writer]
          /\ pc' = [pc EXCEPT ![t] = "sentinel"]
      BY <1>16, <2>3 DEF CloseWriter, Goto
    <3>2. /\ wclosed' \in [Sessions -> BOOLEAN]
          /\ target' \in [Threads -> MaybeSession]
      BY <2>1, <3>1
    <3>3. QED
      BY <1>16, <3>1, <3>2 DEF CloseWriter
  <2>4. QED
    BY <2>2, <2>3
<1>17. ASSUME NEW t \in Threads, CloseRaises(t) PROVE TypeOK'
  BY <1>17 DEF CloseRaises, Goto
<1>18. ASSUME NEW t \in Threads, PutSentinel(t) PROVE TypeOK'
  <2>1. target[t] \in Sessions /\ Sentinel \in Jobs
    BY <1>18 DEF PutSentinel, SessionInv, Jobs
  <2>2. Append(queue[target[t]], Sentinel) \in Seq(Jobs)
    BY <2>1, PutInQueue
  <2>3. queue' \in [Sessions -> Seq(Jobs)]
    BY <1>18, <2>1, <2>2 DEF PutSentinel, Jobs
  <2>4. QED
    BY <1>18, <2>3 DEF PutSentinel, Goto, Jobs
<1>19. ASSUME NEW t \in Threads, JoinEnds(t) PROVE TypeOK'
  BY <1>19 DEF JoinEnds, Goto
<1>20. ASSUME NEW t \in Threads, ClearWriter(t) PROVE TypeOK'
  BY <1>20 DEF ClearWriter, Goto
<1>21. ASSUME NEW t \in Threads, ClearStore(t) PROVE TypeOK'
  BY <1>21 DEF ClearStore, Goto
<1>22. ASSUME NEW t \in Threads, CloseOrphan(t) PROVE TypeOK'
  BY <1>22 DEF CloseOrphan, Goto
<1>23. ASSUME NEW t \in Threads, Resume(t) PROVE TypeOK'
  BY <1>23 DEF Resume, Goto
<1>24. ASSUME NEW w \in Sessions, OpenNothing(w) PROVE TypeOK'
  BY <1>24 DEF OpenNothing
<1>25. ASSUME NEW w \in Sessions, OpenBegin(w) PROVE TypeOK'
  BY <1>25 DEF OpenBegin
<1>26. ASSUME NEW w \in Sessions, OpenEnd(w) PROVE TypeOK'
  <2>1. store' \in [Sessions -> {"none", "live"}]
    BY <1>26 DEF OpenEnd
  <2>2. wready' \in [Sessions -> BOOLEAN]
    BY <1>26 DEF OpenEnd
  <2>3. QED
    BY <1>26, <2>1, <2>2 DEF OpenEnd
<1>27. ASSUME NEW w \in Sessions, TakeCall(w) PROVE TypeOK'
  <2>1. Head(queue[w]) \in Calls /\ Tail(queue[w]) \in Seq(Jobs)
    BY <1>27, TailOfQueue DEF TakeCall, Jobs
  <2>2. queue' \in [Sessions -> Seq(Calls \cup {Sentinel})]
    BY <1>27, <2>1 DEF TakeCall, Jobs
  <2>3. CASE wready[w]
    <3>1. /\ running' = [running EXCEPT ![w] = Head(queue[w])]
          /\ fate' = [fate EXCEPT ![Head(queue[w])] = "running"]
      BY <1>27, <2>3 DEF TakeCall
    <3>2. /\ running' \in [Sessions -> Calls \cup {None}]
          /\ fate' \in [Calls -> {"new", "built", "queued", "running"} \cup Done]
      BY <2>1, <3>1
    <3>3. QED
      BY <1>27, <2>2, <3>2 DEF TakeCall
  <2>4. CASE ~wready[w]
    BY <1>27, <2>1, <2>2, <2>4 DEF TakeCall
  <2>5. QED
    BY <2>3, <2>4
<1>28. ASSUME NEW w \in Sessions, PersistEnds(w) PROVE TypeOK'
  BY <1>28 DEF PersistEnds
<1>29. ASSUME NEW w \in Sessions, PersistStale(w) PROVE TypeOK'
  BY <1>29 DEF PersistStale
<1>30. ASSUME NEW w \in Sessions, OpenOnDemand(w) PROVE TypeOK'
  BY <1>30 DEF OpenOnDemand
<1>31. ASSUME NEW w \in Sessions, TakeSentinel(w) PROVE TypeOK'
  <2>1. Tail(queue[w]) \in Seq(Jobs)
    BY <1>31, TailOfQueue DEF TakeSentinel
  <2>2. queue' \in [Sessions -> Seq(Jobs)]
    BY <1>31, <2>1 DEF TakeSentinel, Jobs
  <2>3. QED
    BY <1>31, <2>2 DEF TakeSentinel, Jobs
<1>32. ASSUME NEW w \in Sessions, WriterExits(w) PROVE TypeOK'
  <2>1. CASE wct[w] = None
    BY <1>32, <2>1 DEF WriterExits
  <2>2. CASE wct[w] # None
    BY <1>32, <2>2 DEF WriterExits
  <2>3. QED
    BY <2>1, <2>2
<1>33. CASE UNCHANGED vars
  BY <1>33 DEF vars
<1>34. QED
  BY <1>1, <1>2, <1>3, <1>4, <1>5, <1>6, <1>7, <1>8, <1>9, <1>10, <1>11, <1>12,
     <1>13, <1>14, <1>15, <1>16, <1>17, <1>18, <1>19, <1>20, <1>21, <1>22,
     <1>23, <1>24, <1>25, <1>26, <1>27, <1>28, <1>29, <1>30, <1>31, <1>32, <1>33
     DEF Next, Wrap, Record, Close, Write

(* `_setup_lock` keeps all threads but one out of `_ensure_store`. *)
LEMMA LockStep ==
  ASSUME TypeOK, LockInv, [Next]_vars
  PROVE  LockInv'
<1> USE TracerAssumption DEF TypeOK, LockInv, InSetup, Submitting, Wrapping,
      ClosingAt, Returned, tracerVars, threadVars, callVars, writerVars,
      storeVars
<1>1. ASSUME NEW t \in Threads, WrapBegin(t) PROVE LockInv'
  BY <1>1 DEF WrapBegin, Goto
<1>2. ASSUME NEW t \in Threads, HandlerBegin(t) PROVE LockInv'
  BY <1>2 DEF HandlerBegin, Goto
<1>3. ASSUME NEW t \in Threads, StoreExists(t) PROVE LockInv'
  BY <1>3 DEF StoreExists, Then, Goto
<1>4. ASSUME NEW t \in Threads, CreateStore(t) PROVE LockInv'
  BY <1>4 DEF CreateStore, Then, Goto
<1>5. ASSUME NEW t \in Threads, StartWriter(t) PROVE LockInv'
  BY <1>5 DEF StartWriter, Then, Goto
<1>6. ASSUME NEW t \in Threads, BindRecorder(t) PROVE LockInv'
  BY <1>6 DEF BindRecorder, Goto
<1>7. ASSUME NEW t \in Threads, NEW c \in Calls, CallBuild(t, c) PROVE LockInv'
  BY <1>7 DEF CallBuild, Goto
<1>8. ASSUME NEW t \in Threads, CallSubmits(t) PROVE LockInv'
  BY <1>8 DEF CallSubmits, Goto
<1>9. ASSUME NEW t \in Threads, CallAdmitted(t) PROVE LockInv'
  BY <1>9 DEF CallAdmitted, Goto
<1>10. ASSUME NEW t \in Threads, CallQueued(t) PROVE LockInv'
  BY <1>10 DEF CallQueued, Goto, HandedOver
<1>11. ASSUME NEW t \in Threads, CallOverflows(t) PROVE LockInv'
  BY <1>11 DEF CallOverflows, Goto, HandedOver
<1>12. ASSUME NEW t \in Threads, CallDropped(t) PROVE LockInv'
  BY <1>12 DEF CallDropped, Goto, HandedOver
<1>13. ASSUME NEW t \in Threads, CloseBegin(t) PROVE LockInv'
  BY <1>13 DEF CloseBegin, Goto
<1>14. ASSUME NEW t \in Threads, CloseWriter(t) PROVE LockInv'
  BY <1>14 DEF CloseWriter, Goto
<1>15. ASSUME NEW t \in Threads, CloseRaises(t) PROVE LockInv'
  BY <1>15 DEF CloseRaises, Goto
<1>16. ASSUME NEW t \in Threads, PutSentinel(t) PROVE LockInv'
  BY <1>16 DEF PutSentinel, Goto
<1>17. ASSUME NEW t \in Threads, JoinEnds(t) PROVE LockInv'
  BY <1>17 DEF JoinEnds, Goto
<1>18. ASSUME NEW t \in Threads, ClearWriter(t) PROVE LockInv'
  BY <1>18 DEF ClearWriter, Goto
<1>19. ASSUME NEW t \in Threads, ClearStore(t) PROVE LockInv'
  BY <1>19 DEF ClearStore, Goto
<1>20. ASSUME NEW t \in Threads, CloseOrphan(t) PROVE LockInv'
  BY <1>20 DEF CloseOrphan, Goto
<1>21. ASSUME NEW t \in Threads, Resume(t) PROVE LockInv'
  BY <1>21 DEF Resume, Goto
<1>22. CASE \/ \E t \in Threads, c \in Calls : CallUnrecorded(t, c)
                                            \/ CallUnbuilt(t, c)
            \/ \E w \in Sessions : OpenNothing(w) \/ OpenBegin(w)
                                \/ OpenEnd(w) \/ TakeCall(w) \/ PersistEnds(w)
                                \/ PersistStale(w) \/ OpenOnDemand(w)
                                \/ TakeSentinel(w) \/ WriterExits(w)
            \/ UNCHANGED vars
  <2>1. UNCHANGED <<pc, setupLock>>
    BY <1>22 DEF vars, CallUnrecorded, CallUnbuilt, OpenNothing, OpenBegin,
       OpenEnd, TakeCall, PersistEnds, PersistStale, OpenOnDemand, TakeSentinel,
       WriterExits
  <2>2. QED
    BY <2>1
<1>23. QED
  BY <1>1, <1>2, <1>3, <1>4, <1>5, <1>6, <1>7, <1>8, <1>9, <1>10, <1>11, <1>12,
     <1>13, <1>14, <1>15, <1>16, <1>17, <1>18, <1>19, <1>20, <1>21, <1>22
     DEF Next, Wrap, Record, Close, Write

(* The newest session stays with the thread that makes its writer. *)
LEMMA SessionStep ==
  ASSUME TypeOK, LockInv, CountInv, SessionInv, [Next]_vars
  PROVE  SessionInv'
<1> USE TracerAssumption DEF TypeOK, LockInv, SessionInv, InSetup, Starting,
      Submitting, Serving, Wrapping, ClosingAt, Returned, MaybeSession,
      Sessions, tracerVars, threadVars, callVars, writerVars, storeVars
<1>1. ASSUME NEW t \in Threads, WrapBegin(t) PROVE SessionInv'
  BY <1>1 DEF WrapBegin, Goto
<1>2. ASSUME NEW t \in Threads, HandlerBegin(t) PROVE SessionInv'
  BY <1>2 DEF HandlerBegin, Goto
<1>3. ASSUME NEW t \in Threads, StoreExists(t) PROVE SessionInv'
  BY <1>3 DEF StoreExists, Then, Goto
<1>4. ASSUME NEW t \in Threads, CreateStore(t) PROVE SessionInv'
  <2>1. created + 1 \in Sessions
    BY <1>4, CountNat DEF CreateStore
  <2>2. QED
    BY <1>4, <2>1 DEF CreateStore, Then, Goto
<1>5. ASSUME NEW t \in Threads, StartWriter(t) PROVE SessionInv'
  BY <1>5 DEF StartWriter, Then, Goto
<1>6. ASSUME NEW t \in Threads, BindRecorder(t) PROVE SessionInv'
  BY <1>6 DEF BindRecorder, Goto
<1>7. ASSUME NEW t \in Threads, NEW c \in Calls, CallBuild(t, c) PROVE SessionInv'
  BY <1>7 DEF CallBuild, Goto
<1>8. ASSUME NEW t \in Threads, CallSubmits(t) PROVE SessionInv'
  BY <1>8 DEF CallSubmits, Goto
<1>9. ASSUME NEW t \in Threads, CallAdmitted(t) PROVE SessionInv'
  BY <1>9 DEF CallAdmitted, Goto
<1>10. ASSUME NEW t \in Threads, CallQueued(t) PROVE SessionInv'
  BY <1>10 DEF CallQueued, Goto, HandedOver
<1>11. ASSUME NEW t \in Threads, CallOverflows(t) PROVE SessionInv'
  BY <1>11 DEF CallOverflows, Goto, HandedOver
<1>12. ASSUME NEW t \in Threads, CallDropped(t) PROVE SessionInv'
  BY <1>12 DEF CallDropped, Goto, HandedOver
<1>13. ASSUME NEW t \in Threads, CloseBegin(t) PROVE SessionInv'
  BY <1>13 DEF CloseBegin, Goto
<1>14. ASSUME NEW t \in Threads, CloseWriter(t) PROVE SessionInv'
  <2>1. CASE wclosed[writer]
    BY <1>14, <2>1 DEF CloseWriter, Goto
  <2>2. CASE ~wclosed[writer]
    BY <1>14, <2>2 DEF CloseWriter, Goto
  <2>3. QED
    BY <2>1, <2>2
<1>15. ASSUME NEW t \in Threads, CloseRaises(t) PROVE SessionInv'
  BY <1>15 DEF CloseRaises, Goto
<1>16. ASSUME NEW t \in Threads, PutSentinel(t) PROVE SessionInv'
  BY <1>16 DEF PutSentinel, Goto
<1>17. ASSUME NEW t \in Threads, JoinEnds(t) PROVE SessionInv'
  BY <1>17 DEF JoinEnds, Goto
<1>18. ASSUME NEW t \in Threads, ClearWriter(t) PROVE SessionInv'
  BY <1>18 DEF ClearWriter, Goto
<1>19. ASSUME NEW t \in Threads, ClearStore(t) PROVE SessionInv'
  BY <1>19 DEF ClearStore, Goto
<1>20. ASSUME NEW t \in Threads, CloseOrphan(t) PROVE SessionInv'
  BY <1>20 DEF CloseOrphan, Goto
<1>21. ASSUME NEW t \in Threads, Resume(t) PROVE SessionInv'
  BY <1>21 DEF Resume, Goto
<1>22. ASSUME NEW w \in Sessions, OpenNothing(w) PROVE SessionInv'
  BY <1>22 DEF OpenNothing
<1>23. ASSUME NEW w \in Sessions, OpenBegin(w) PROVE SessionInv'
  BY <1>23 DEF OpenBegin
<1>24. ASSUME NEW w \in Sessions, OpenEnd(w) PROVE SessionInv'
  BY <1>24 DEF OpenEnd
<1>25. ASSUME NEW w \in Sessions, TakeSentinel(w) PROVE SessionInv'
  BY <1>25 DEF TakeSentinel
<1>26. ASSUME NEW w \in Sessions, WriterExits(w) PROVE SessionInv'
  <2>1. /\ wstate[w] = "draining" /\ wstate' = [wstate EXCEPT ![w] = "exited"]
        /\ UNCHANGED <<created, ct, writer, pc, target, wclosed>>
    BY <1>26 DEF WriterExits
  <2>2. QED
    BY <2>1
<1>27. CASE \/ \E t \in Threads, c \in Calls : CallUnrecorded(t, c)
                                            \/ CallUnbuilt(t, c)
            \/ \E w \in Sessions : TakeCall(w) \/ PersistEnds(w)
                                \/ PersistStale(w) \/ OpenOnDemand(w)
            \/ UNCHANGED vars
  <2>1. UNCHANGED <<created, wstate, wclosed, writer, ct, pc, target>>
    BY <1>27 DEF vars, CallUnrecorded, CallUnbuilt, TakeCall, PersistEnds,
       PersistStale, OpenOnDemand
  <2>2. QED
    BY <2>1
<1>28. QED
  BY <1>1, <1>2, <1>3, <1>4, <1>5, <1>6, <1>7, <1>8, <1>9, <1>10, <1>11, <1>12,
     <1>13, <1>14, <1>15, <1>16, <1>17, <1>18, <1>19, <1>20, <1>21, <1>22,
     <1>23, <1>24, <1>25, <1>26, <1>27
     DEF Next, Wrap, Record, Close, Write

(* A close that begins pays for the session made after it clears `_ct`. *)
LEMMA CountStep ==
  ASSUME TypeOK, CountInv, [Next]_vars
  PROVE  CountInv'
<1> USE DEF CountInv, ClosingAt, Returned, tracerVars, threadVars
<1>1. created \in Nat /\ closes \in Nat /\ Cardinality(Closers) \in Nat
  BY FS_CardinalityType, TracerAssumption DEF TypeOK
<1>2. pc \in [Threads -> {"idle"} \cup Submitting \cup Wrapping \cup ClosingAt \cup Returned]
  BY DEF TypeOK
<1>3. ASSUME NEW t \in Threads, CreateStore(t) PROVE CountInv'
  <2>1. Closers' = Closers
    BY <1>2, <1>3 DEF CreateStore, Then, Goto, Closers
  <2>2. created + 1 # None
    BY <1>3, CountNat, TracerAssumption DEF CreateStore, Sessions
  <2>3. ct = None /\ ct' # None /\ created' = created + 1 /\ closes' = closes
    BY <1>3, <2>2 DEF CreateStore
  <2>4. QED
    BY <1>1, <2>1, <2>3
<1>4. ASSUME NEW t \in Threads, CloseBegin(t) PROVE CountInv'
  <2>1. UNCHANGED <<created, ct>> /\ closes' = closes + 1
    BY <1>4 DEF CloseBegin
  <2>2. CASE Closers' = Closers
    BY <1>1, <2>1, <2>2
  <2>3. CASE Closers' = Closers \cup {t} /\ t \notin Closers
    <3>1. IsFiniteSet(Closers') /\ Cardinality(Closers') = Cardinality(Closers) + 1
      BY <2>3, FS_AddElement
    <3>2. QED
      BY <1>1, <2>1, <3>1
  <2>4. QED
    BY <1>2, <1>4, <2>2, <2>3 DEF CloseBegin, Goto, Closers
<1>5. ASSUME NEW t \in Threads, CloseRaises(t) \/ ClearStore(t) PROVE CountInv'
  <2>1. pc[t] \in ClosingAt /\ t \in Closers
    BY <1>5 DEF CloseRaises, ClearStore, Closers
  <2>2. Closers' = Closers \ {t}
    BY <1>2, <1>5 DEF CloseRaises, ClearStore, Goto, Closers
  <2>3. IsFiniteSet(Closers') /\ Cardinality(Closers') = Cardinality(Closers) - 1
    BY <2>1, <2>2, FS_RemoveElement
  <2>4. UNCHANGED <<created, closes>> /\ (ct' = None \/ ct' = ct)
    BY <1>5 DEF CloseRaises, ClearStore
  <2>5. QED
    BY <1>1, <2>3, <2>4
<1>6. ASSUME NEW t \in Threads,
             \/ WrapBegin(t) \/ HandlerBegin(t) \/ StoreExists(t) \/ StartWriter(t)
             \/ BindRecorder(t) \/ CallSubmits(t) \/ CallAdmitted(t) \/ CallQueued(t)
             \/ CallOverflows(t) \/ CallDropped(t)
             \/ \E c \in Calls : CallBuild(t, c)
      PROVE  CountInv'
  <2>1. pc[t] \notin ClosingAt /\ \E here \in {"idle"} \cup Submitting \cup Wrapping : Goto(t, here)
    BY <1>6 DEF WrapBegin, HandlerBegin, StoreExists, StartWriter, BindRecorder,
         CallSubmits, CallAdmitted, CallQueued, CallOverflows, CallDropped, HandedOver,
         CallBuild, Then, Wrapping, Submitting
  <2>2. Closers' = Closers
    BY <1>2, <2>1 DEF Goto, Closers, Wrapping, Submitting
  <2>3. UNCHANGED <<created, closes, ct>>
    BY <1>6 DEF WrapBegin, HandlerBegin, StoreExists, StartWriter, BindRecorder,
         CallSubmits, CallAdmitted, CallQueued, CallOverflows, CallDropped, HandedOver,
         CallBuild
  <2>4. QED
    BY <1>1, <2>2, <2>3
<1>7. ASSUME NEW t \in Threads,
             \/ CloseWriter(t) \/ PutSentinel(t) \/ JoinEnds(t) \/ ClearWriter(t)
             \/ CloseOrphan(t) \/ Resume(t)
      PROVE  CountInv'
  <2>1. \E here \in {"idle"} \cup ClosingAt :
          Goto(t, here) /\ (pc[t] \in ClosingAt <=> here \in ClosingAt)
    BY <1>7 DEF CloseWriter, PutSentinel, JoinEnds, ClearWriter, CloseOrphan, Resume
  <2>2. Closers' = Closers
    BY <1>2, <2>1 DEF Goto, Closers
  <2>3. UNCHANGED <<created, closes, ct>>
    BY <1>7 DEF CloseWriter, PutSentinel, JoinEnds, ClearWriter, CloseOrphan, Resume
  <2>4. QED
    BY <1>1, <2>2, <2>3
<1>8. CASE \/ \E t \in Threads, c \in Calls : CallUnrecorded(t, c) \/ CallUnbuilt(t, c)
           \/ \E w \in Sessions : Write(w)
           \/ UNCHANGED vars
  <2>1. UNCHANGED <<created, closes, ct, pc>>
    BY <1>8 DEF CallUnrecorded, CallUnbuilt, Write, OpenNothing, OpenBegin, OpenEnd,
         TakeCall, PersistEnds, PersistStale, OpenOnDemand, TakeSentinel, WriterExits, vars
  <2>2. Closers' = Closers
    BY <2>1 DEF Closers
  <2>3. QED
    BY <1>1, <2>1, <2>2
<1>9. QED
  BY <1>3, <1>4, <1>5, <1>6, <1>7, <1>8 DEF Next, Wrap, Record, Close

(* A built call is in one thread's hands. *)
LEMMA HandStep ==
  ASSUME TypeOK, HandInv, QueueInv, RunningInv, [Next]_vars
  PROVE  HandInv'
<1> USE TracerAssumption DEF TypeOK, HandInv, QueueInv, RunningInv, Submitting,
      Wrapping, ClosingAt, Returned, tracerVars, threadVars, callVars,
      writerVars, storeVars
<1>1. ASSUME NEW t \in Threads, WrapBegin(t) PROVE HandInv'
  BY <1>1 DEF WrapBegin, Goto
<1>2. ASSUME NEW t \in Threads, HandlerBegin(t) PROVE HandInv'
  BY <1>2 DEF HandlerBegin, Goto
<1>3. ASSUME NEW t \in Threads, StoreExists(t) PROVE HandInv'
  BY <1>3 DEF StoreExists, Then, Goto
<1>4. ASSUME NEW t \in Threads, CreateStore(t) PROVE HandInv'
  BY <1>4 DEF CreateStore, Then, Goto
<1>5. ASSUME NEW t \in Threads, StartWriter(t) PROVE HandInv'
  BY <1>5 DEF StartWriter, Then, Goto
<1>6. ASSUME NEW t \in Threads, BindRecorder(t) PROVE HandInv'
  BY <1>6 DEF BindRecorder, Goto
<1>7. ASSUME NEW t \in Threads, NEW c \in Calls, CallUnrecorded(t, c) PROVE HandInv'
  BY <1>7 DEF CallUnrecorded
<1>8. ASSUME NEW t \in Threads, NEW c \in Calls, CallUnbuilt(t, c) PROVE HandInv'
  BY <1>8 DEF CallUnbuilt
<1>9. ASSUME NEW t \in Threads, NEW c \in Calls, CallBuild(t, c) PROVE HandInv'
  BY <1>9 DEF CallBuild, Goto
<1>10. ASSUME NEW t \in Threads, CallSubmits(t) PROVE HandInv'
  BY <1>10 DEF CallSubmits, Goto
<1>11. ASSUME NEW t \in Threads, CallAdmitted(t) PROVE HandInv'
  BY <1>11 DEF CallAdmitted, Goto
<1>12. ASSUME NEW t \in Threads, CallQueued(t) PROVE HandInv'
  BY <1>12 DEF CallQueued, Goto, HandedOver
<1>13. ASSUME NEW t \in Threads, CallOverflows(t) PROVE HandInv'
  BY <1>13 DEF CallOverflows, Goto, HandedOver
<1>14. ASSUME NEW t \in Threads, CallDropped(t) PROVE HandInv'
  BY <1>14 DEF CallDropped, Goto, HandedOver
<1>15. ASSUME NEW t \in Threads, CloseBegin(t) PROVE HandInv'
  BY <1>15 DEF CloseBegin, Goto
<1>16. ASSUME NEW t \in Threads, CloseWriter(t) PROVE HandInv'
  <2>1. UNCHANGED <<call, fate>>
    BY <1>16 DEF CloseWriter
  <2>2. PICK here \in {"sentinel", "clearWriter"} : pc' = [pc EXCEPT ![t] = here]
    BY <1>16 DEF CloseWriter, Goto
  <2>3. QED
    BY <2>1, <2>2
<1>17. ASSUME NEW t \in Threads, CloseRaises(t) PROVE HandInv'
  BY <1>17 DEF CloseRaises, Goto
<1>18. ASSUME NEW t \in Threads, PutSentinel(t) PROVE HandInv'
  BY <1>18 DEF PutSentinel, Goto
<1>19. ASSUME NEW t \in Threads, JoinEnds(t) PROVE HandInv'
  BY <1>19 DEF JoinEnds, Goto
<1>20. ASSUME NEW t \in Threads, ClearWriter(t) PROVE HandInv'
  BY <1>20 DEF ClearWriter, Goto
<1>21. ASSUME NEW t \in Threads, ClearStore(t) PROVE HandInv'
  BY <1>21 DEF ClearStore, Goto
<1>22. ASSUME NEW t \in Threads, CloseOrphan(t) PROVE HandInv'
  BY <1>22 DEF CloseOrphan, Goto
<1>23. ASSUME NEW t \in Threads, Resume(t) PROVE HandInv'
  BY <1>23 DEF Resume, Goto
<1>24. ASSUME NEW w \in Sessions, TakeCall(w) PROVE HandInv'
  <2>1. /\ queue[w][1] = Head(queue[w]) /\ queue[w][1] \in Calls /\ 1 \in 1..Len(queue[w])
        /\ \E f \in {"running", "skipped"} : fate' = [fate EXCEPT ![queue[w][1]] = f]
    BY <1>24, TailOfQueue DEF TakeCall, Jobs
  <2>2. fate[queue[w][1]] = "queued"
    BY <2>1
  <2>3. UNCHANGED <<pc, call>>
    BY <1>24 DEF TakeCall
  <2>4. QED
    BY <2>1, <2>2, <2>3
<1>25. ASSUME NEW w \in Sessions, PersistEnds(w) PROVE HandInv'
  BY <1>25 DEF PersistEnds
<1>26. ASSUME NEW w \in Sessions, PersistStale(w) PROVE HandInv'
  BY <1>26 DEF PersistStale
<1>27. CASE \/ \E w \in Sessions : OpenNothing(w) \/ OpenBegin(w)
                                \/ OpenEnd(w) \/ OpenOnDemand(w)
                                \/ TakeSentinel(w) \/ WriterExits(w)
            \/ UNCHANGED vars
  <2>1. UNCHANGED <<pc, call, fate>>
    BY <1>27 DEF vars, OpenNothing, OpenBegin, OpenEnd, OpenOnDemand,
       TakeSentinel, WriterExits
  <2>2. QED
    BY <2>1
<1>28. QED
  BY <1>1, <1>2, <1>3, <1>4, <1>5, <1>6, <1>7, <1>8, <1>9, <1>10, <1>11, <1>12,
     <1>13, <1>14, <1>15, <1>16, <1>17, <1>18, <1>19, <1>20, <1>21, <1>22,
     <1>23, <1>24, <1>25, <1>26, <1>27
     DEF Next, Wrap, Record, Close, Write

(* No call is in two places of the queues, and none that is settled in one. *)
LEMMA QueueStep ==
  ASSUME TypeOK, SessionInv, HandInv, QueueInv, RunningInv, [Next]_vars
  PROVE  QueueInv'
<1> USE TracerAssumption DEF TypeOK, QueueInv, RunningInv, tracerVars,
      threadVars, callVars, writerVars, storeVars
<1>1. ASSUME NEW t \in Threads, NEW c \in Calls, CallUnrecorded(t, c) PROVE QueueInv'
  BY <1>1 DEF CallUnrecorded
<1>2. ASSUME NEW t \in Threads, NEW c \in Calls, CallUnbuilt(t, c) PROVE QueueInv'
  BY <1>2 DEF CallUnbuilt
<1>3. ASSUME NEW t \in Threads, NEW c \in Calls, CallBuild(t, c) PROVE QueueInv'
  BY <1>3 DEF CallBuild, Goto
<1>4. ASSUME NEW t \in Threads, CallQueued(t) PROVE QueueInv'
  <2>1. /\ target[t] \in Sessions
        /\ call[t] \in Calls /\ call[t] \in Jobs
        /\ fate[call[t]] = "built"
        /\ queue' = [queue EXCEPT ![target[t]] = Append(queue[target[t]], call[t])]
        /\ fate' = [fate EXCEPT ![call[t]] = "queued"]
    <3>1. target[t] \in Sessions
      BY <1>4 DEF CallQueued, SessionInv
    <3>2. call[t] \in Calls /\ fate[call[t]] = "built"
      BY <1>4 DEF CallQueued, HandInv, Submitting
    <3>3. QED
      BY <1>4, <3>1, <3>2 DEF CallQueued, HandedOver, Jobs
  <2>2. ASSUME NEW v \in Sessions, NEW i \in 1..Len(queue'[v])
        PROVE  \/ i \in 1..Len(queue[v]) /\ queue'[v][i] = queue[v][i]
               \/ v = target[t] /\ i = Len(queue[v]) + 1 /\ queue'[v][i] = call[t]
    BY <2>1, PutInQueue
  <2>3. ASSUME NEW v \in Sessions, NEW i \in 1..Len(queue'[v]), queue'[v][i] # Sentinel
        PROVE  fate'[queue'[v][i]] = "queued"
    <3>1. CASE i \in 1..Len(queue[v]) /\ queue'[v][i] = queue[v][i]
      BY <2>1, <2>3, <3>1
    <3>2. CASE queue'[v][i] = call[t]
      BY <2>1, <3>2
    <3>3. QED
      BY <2>2, <3>1, <3>2
  <2>4. \A v \in Sessions : \A i \in 1..Len(queue[v]) : queue[v][i] # call[t]
    BY <2>1, TracerAssumption
  <2>5. ASSUME NEW u \in Sessions, NEW v \in Sessions,
               NEW i \in 1..Len(queue'[u]), NEW j \in 1..Len(queue'[v]),
               queue'[u][i] = queue'[v][j], queue'[u][i] # Sentinel
        PROVE  u = v /\ i = j
    <3>1. CASE /\ i \in 1..Len(queue[u]) /\ queue'[u][i] = queue[u][i]
               /\ j \in 1..Len(queue[v]) /\ queue'[v][j] = queue[v][j]
      <4>1. queue[u][i] = queue[v][j] /\ queue[u][i] # Sentinel
        BY <2>5, <3>1
      <4>2. QED
        BY <3>1, <4>1
    <3>2. CASE /\ u = target[t] /\ i = Len(queue[u]) + 1
               /\ v = target[t] /\ j = Len(queue[v]) + 1
      BY <3>2
    <3>3. CASE /\ i \in 1..Len(queue[u]) /\ queue'[u][i] = queue[u][i]
               /\ queue'[v][j] = call[t]
      <4>1. queue[u][i] = call[t]
        BY <2>5, <3>3
      <4>2. QED
        BY <2>4, <3>3, <4>1
    <3>4. CASE /\ j \in 1..Len(queue[v]) /\ queue'[v][j] = queue[v][j]
               /\ queue'[u][i] = call[t]
      <4>1. queue[v][j] = call[t]
        BY <2>5, <3>4
      <4>2. QED
        BY <2>4, <3>4, <4>1
    <3>5. \/ i \in 1..Len(queue[u]) /\ queue'[u][i] = queue[u][i]
          \/ u = target[t] /\ i = Len(queue[u]) + 1 /\ queue'[u][i] = call[t]
      BY <2>2
    <3>6. \/ j \in 1..Len(queue[v]) /\ queue'[v][j] = queue[v][j]
          \/ v = target[t] /\ j = Len(queue[v]) + 1 /\ queue'[v][j] = call[t]
      BY <2>2
    <3>7. QED
      BY <3>1, <3>2, <3>3, <3>4, <3>5, <3>6
  <2>6. QED
    BY <2>3, <2>5
<1>5. ASSUME NEW t \in Threads, CallOverflows(t) PROVE QueueInv'
  <2>1. pc[t] \in Submitting /\ HandedOver(t, "overflowed") /\ queue' = queue
    BY <1>5 DEF CallOverflows, Submitting
  <2>2. call[t] \in Calls /\ fate[call[t]] = "built"
    BY <2>1 DEF HandInv
  <2>3. QED
    BY <2>1, <2>2 DEF HandedOver
<1>6. ASSUME NEW t \in Threads, CallDropped(t) PROVE QueueInv'
  <2>1. pc[t] \in Submitting /\ HandedOver(t, "dropped") /\ queue' = queue
    BY <1>6 DEF CallDropped, Submitting
  <2>2. call[t] \in Calls /\ fate[call[t]] = "built"
    BY <2>1 DEF HandInv
  <2>3. QED
    BY <2>1, <2>2 DEF HandedOver
<1>7. ASSUME NEW t \in Threads, PutSentinel(t) PROVE QueueInv'
  <2>1. target[t] \in Sessions /\ Sentinel \in Jobs
    BY <1>7 DEF PutSentinel, SessionInv, Jobs
  <2>2. /\ queue' = [queue EXCEPT ![target[t]] = Append(queue[target[t]], Sentinel)]
        /\ fate' = fate
    BY <1>7 DEF PutSentinel
  <2>3. ASSUME NEW v \in Sessions, NEW i \in 1..Len(queue'[v]), queue'[v][i] # Sentinel
        PROVE  i \in 1..Len(queue[v]) /\ queue'[v][i] = queue[v][i]
    BY <2>1, <2>2, <2>3, PutInQueue
  <2>4. ASSUME NEW v \in Sessions, NEW i \in 1..Len(queue'[v]), queue'[v][i] # Sentinel
        PROVE  fate'[queue'[v][i]] = "queued"
    BY <2>2, <2>3, <2>4
  <2>5. ASSUME NEW u \in Sessions, NEW v \in Sessions,
               NEW i \in 1..Len(queue'[u]), NEW j \in 1..Len(queue'[v]),
               queue'[u][i] = queue'[v][j], queue'[u][i] # Sentinel
        PROVE  u = v /\ i = j
    <3>1. /\ i \in 1..Len(queue[u]) /\ queue'[u][i] = queue[u][i]
          /\ j \in 1..Len(queue[v]) /\ queue'[v][j] = queue[v][j]
      BY <2>3, <2>5
    <3>2. queue[u][i] = queue[v][j] /\ queue[u][i] # Sentinel
      BY <2>5, <3>1
    <3>3. QED
      BY <3>1, <3>2
  <2>6. QED
    BY <2>4, <2>5
<1>8. ASSUME NEW w \in Sessions, TakeCall(w) PROVE QueueInv'
  <2>1. /\ queue' = [queue EXCEPT ![w] = Tail(queue[w])]
        /\ Head(queue[w]) = queue[w][1] /\ queue[w][1] # Sentinel
        /\ \E f \in {"running", "skipped"} : fate' = [fate EXCEPT ![queue[w][1]] = f]
    BY <1>8, TailOfQueue DEF TakeCall
  <2>2. ASSUME NEW v \in Sessions, NEW i \in 1..Len(queue'[v])
        PROVE  \E k \in 1..Len(queue[v]) :
                 /\ queue'[v][i] = queue[v][k]
                 /\ k = (IF v = w THEN i + 1 ELSE i)
    BY <1>8, <2>1, TailOfQueue DEF TakeCall
  <2>3. 1 \in 1..Len(queue[w]) /\ queue[w][1] \in Calls
    BY <1>8, <2>1, TailOfQueue DEF TakeCall, Jobs
  <2>4. ASSUME NEW v \in Sessions, NEW i \in 1..Len(queue'[v]), queue'[v][i] # Sentinel
        PROVE  fate'[queue'[v][i]] = "queued"
    <3>1. PICK k \in 1..Len(queue[v]) :
            queue'[v][i] = queue[v][k] /\ k = (IF v = w THEN i + 1 ELSE i)
      BY <2>2
    <3>2. queue[v][k] # queue[w][1]
      BY <2>1, <2>3, <3>1
    <3>3. fate[queue[v][k]] = "queued"
      BY <2>4, <3>1
    <3>4. QED
      BY <2>1, <2>3, <3>1, <3>2, <3>3
  <2>5. ASSUME NEW u \in Sessions, NEW v \in Sessions,
               NEW i \in 1..Len(queue'[u]), NEW j \in 1..Len(queue'[v]),
               queue'[u][i] = queue'[v][j], queue'[u][i] # Sentinel
        PROVE  u = v /\ i = j
    <3>1. PICK k \in 1..Len(queue[u]) :
            queue'[u][i] = queue[u][k] /\ k = (IF u = w THEN i + 1 ELSE i)
      BY <2>2
    <3>2. PICK l \in 1..Len(queue[v]) :
            queue'[v][j] = queue[v][l] /\ l = (IF v = w THEN j + 1 ELSE j)
      BY <2>2
    <3>3. queue[u][k] = queue[v][l] /\ queue[u][k] # Sentinel
      BY <2>5, <3>1, <3>2
    <3>4. u = v /\ k = l
      BY <3>3
    <3>5. Len(queue'[u]) \in Nat /\ Len(queue'[v]) \in Nat
      BY <2>1, TailOfQueue DEF TypeOK
    <3>6. QED
      BY <3>1, <3>2, <3>4, <3>5
  <2>6. QED
    BY <2>4, <2>5
<1>9. ASSUME NEW w \in Sessions, PersistEnds(w) PROVE QueueInv'
  BY <1>9 DEF PersistEnds
<1>10. ASSUME NEW w \in Sessions, PersistStale(w) PROVE QueueInv'
  BY <1>10 DEF PersistStale
<1>11. ASSUME NEW w \in Sessions, TakeSentinel(w) PROVE QueueInv'
  <2>1. queue' = [queue EXCEPT ![w] = Tail(queue[w])] /\ fate' = fate
    BY <1>11 DEF TakeSentinel
  <2>2. ASSUME NEW v \in Sessions, NEW i \in 1..Len(queue'[v])
        PROVE  \E k \in 1..Len(queue[v]) :
                 /\ queue'[v][i] = queue[v][k]
                 /\ k = (IF v = w THEN i + 1 ELSE i)
    BY <1>11, <2>1, TailOfQueue DEF TakeSentinel
  <2>3. ASSUME NEW v \in Sessions, NEW i \in 1..Len(queue'[v]), queue'[v][i] # Sentinel
        PROVE  fate'[queue'[v][i]] = "queued"
    BY <2>1, <2>2, <2>3
  <2>4. ASSUME NEW u \in Sessions, NEW v \in Sessions,
               NEW i \in 1..Len(queue'[u]), NEW j \in 1..Len(queue'[v]),
               queue'[u][i] = queue'[v][j], queue'[u][i] # Sentinel
        PROVE  u = v /\ i = j
    <3>1. PICK k \in 1..Len(queue[u]) :
            queue'[u][i] = queue[u][k] /\ k = (IF u = w THEN i + 1 ELSE i)
      BY <2>2
    <3>2. PICK l \in 1..Len(queue[v]) :
            queue'[v][j] = queue[v][l] /\ l = (IF v = w THEN j + 1 ELSE j)
      BY <2>2
    <3>3. queue[u][k] = queue[v][l] /\ queue[u][k] # Sentinel
      BY <2>4, <3>1, <3>2
    <3>4. u = v /\ k = l
      BY <3>3
    <3>5. Len(queue'[u]) \in Nat /\ Len(queue'[v]) \in Nat
      BY <1>11, <2>1, TailOfQueue DEF TypeOK, TakeSentinel
    <3>6. QED
      BY <3>1, <3>2, <3>4, <3>5
  <2>5. QED
    BY <2>3, <2>4
<1>12. CASE \/ \E t \in Threads : WrapBegin(t) \/ HandlerBegin(t)
                               \/ StoreExists(t) \/ CreateStore(t)
                               \/ StartWriter(t) \/ BindRecorder(t)
                               \/ CallSubmits(t) \/ CallAdmitted(t)
                               \/ CloseBegin(t) \/ CloseWriter(t)
                               \/ CloseRaises(t) \/ JoinEnds(t)
                               \/ ClearWriter(t) \/ ClearStore(t)
                               \/ CloseOrphan(t) \/ Resume(t)
            \/ \E w \in Sessions : OpenNothing(w) \/ OpenBegin(w)
                                \/ OpenEnd(w) \/ OpenOnDemand(w) \/ WriterExits(w)
            \/ UNCHANGED vars
  <2>1. UNCHANGED <<queue, fate>>
    BY <1>12 DEF vars, WrapBegin, HandlerBegin, StoreExists, CreateStore,
       StartWriter, BindRecorder, CallSubmits, CallAdmitted, CloseBegin,
       CloseWriter, CloseRaises, JoinEnds, ClearWriter, ClearStore, CloseOrphan,
       Resume, OpenNothing, OpenBegin, OpenEnd, OpenOnDemand, WriterExits, Then,
       Goto
  <2>2. QED
    BY ONLY <2>1, QueueInv DEF QueueInv
<1>13. QED
  BY <1>1, <1>2, <1>3, <1>4, <1>5, <1>6, <1>7, <1>8, <1>9, <1>10, <1>11, <1>12
     DEF Next, Wrap, Record, Close, Write

(* A call is with one writer thread, which serves. *)
LEMMA RunningStep ==
  ASSUME TypeOK, HandInv, QueueInv, RunningInv, SessionInv, [Next]_vars
  PROVE  RunningInv'
<1> USE TracerAssumption DEF TypeOK, HandInv, QueueInv, RunningInv, Serving,
      tracerVars, threadVars, callVars, writerVars, storeVars
<1>1. ASSUME NEW t \in Threads, StartWriter(t) PROVE RunningInv'
  <2>1. target[t] \in Sessions /\ wstate[target[t]] = Absent
    BY <1>1 DEF StartWriter, SessionInv, Starting
  <2>2. \A v \in Sessions : running[v] # None => v # target[t]
    BY <2>1, TracerAssumption
  <2>3. /\ UNCHANGED <<running, fate, wready>>
        /\ wstate' = [wstate EXCEPT ![target[t]] = "starting"]
    BY <1>1 DEF StartWriter
  <2>4. QED
    BY <2>1, <2>2, <2>3
<1>2. ASSUME NEW t \in Threads, NEW c \in Calls, CallUnrecorded(t, c) PROVE RunningInv'
  BY <1>2 DEF CallUnrecorded
<1>3. ASSUME NEW t \in Threads, NEW c \in Calls, CallUnbuilt(t, c) PROVE RunningInv'
  BY <1>3 DEF CallUnbuilt
<1>4. ASSUME NEW t \in Threads, NEW c \in Calls, CallBuild(t, c) PROVE RunningInv'
  BY <1>4 DEF CallBuild, Goto
<1>5. ASSUME NEW t \in Threads, CallQueued(t) PROVE RunningInv'
  <2>1. pc[t] \in Submitting /\ HandedOver(t, "queued") /\ UNCHANGED <<running, wstate, wready>>
    BY <1>5 DEF CallQueued, Submitting
  <2>2. call[t] \in Calls /\ fate[call[t]] = "built"
    BY <2>1 DEF HandInv
  <2>3. QED
    BY <2>1, <2>2 DEF HandedOver
<1>6. ASSUME NEW t \in Threads, CallOverflows(t) PROVE RunningInv'
  <2>1. pc[t] \in Submitting /\ HandedOver(t, "overflowed") /\ UNCHANGED <<running, wstate, wready>>
    BY <1>6 DEF CallOverflows, Submitting
  <2>2. call[t] \in Calls /\ fate[call[t]] = "built"
    BY <2>1 DEF HandInv
  <2>3. QED
    BY <2>1, <2>2 DEF HandedOver
<1>7. ASSUME NEW t \in Threads, CallDropped(t) PROVE RunningInv'
  <2>1. pc[t] \in Submitting /\ HandedOver(t, "dropped") /\ UNCHANGED <<running, wstate, wready>>
    BY <1>7 DEF CallDropped, Submitting
  <2>2. call[t] \in Calls /\ fate[call[t]] = "built"
    BY <2>1 DEF HandInv
  <2>3. QED
    BY <2>1, <2>2 DEF HandedOver
<1>8. ASSUME NEW w \in Sessions, OpenNothing(w) PROVE RunningInv'
  BY <1>8 DEF OpenNothing
<1>9. ASSUME NEW w \in Sessions, OpenBegin(w) PROVE RunningInv'
  BY <1>9 DEF OpenBegin
<1>10. ASSUME NEW w \in Sessions, OpenEnd(w) PROVE RunningInv'
  BY <1>10 DEF OpenEnd
<1>11. ASSUME NEW w \in Sessions, TakeCall(w) PROVE RunningInv'
  <2>1. /\ Head(queue[w]) = queue[w][1] /\ queue[w][1] \in Calls
        /\ 1 \in 1..Len(queue[w])
        /\ running[w] = None /\ wstate[w] \in Serving /\ UNCHANGED <<wstate, wready>>
    BY <1>11, TailOfQueue DEF TakeCall, Jobs
  <2>2. fate[queue[w][1]] = "queued"
    <3>1. queue[w][1] # Sentinel
      BY <2>1
    <3>2. QED
      BY <2>1, <3>1 DEF QueueInv
  <2>3. \A v \in Sessions : running[v] # None => running[v] # queue[w][1]
    BY <2>2
  <2>4. CASE wready[w]
    <3>1. /\ running' = [running EXCEPT ![w] = queue[w][1]]
          /\ fate' = [fate EXCEPT ![queue[w][1]] = "running"]
      BY <1>11, <2>1, <2>4 DEF TakeCall
    <3>2. QED
      BY <2>1, <2>3, <2>4, <3>1
  <2>5. CASE ~wready[w]
    <3>1. /\ running' = running
          /\ fate' = [fate EXCEPT ![queue[w][1]] = "skipped"]
      BY <1>11, <2>1, <2>5 DEF TakeCall
    <3>2. QED
      BY <2>1, <2>3, <3>1
  <2>6. QED
    BY <2>4, <2>5
<1>12. ASSUME NEW w \in Sessions, PersistEnds(w) PROVE RunningInv'
  BY <1>12 DEF PersistEnds
<1>13. ASSUME NEW w \in Sessions, PersistStale(w) PROVE RunningInv'
  BY <1>13 DEF PersistStale
<1>14. ASSUME NEW w \in Sessions, TakeSentinel(w) PROVE RunningInv'
  BY <1>14 DEF TakeSentinel
<1>15. ASSUME NEW w \in Sessions, WriterExits(w) PROVE RunningInv'
  BY <1>15 DEF WriterExits
<1>16. CASE \/ \E t \in Threads : WrapBegin(t) \/ HandlerBegin(t)
                               \/ StoreExists(t) \/ CreateStore(t)
                               \/ BindRecorder(t) \/ CallSubmits(t)
                               \/ CallAdmitted(t) \/ CloseBegin(t)
                               \/ CloseWriter(t) \/ CloseRaises(t)
                               \/ PutSentinel(t) \/ JoinEnds(t)
                               \/ ClearWriter(t) \/ ClearStore(t)
                               \/ CloseOrphan(t) \/ Resume(t)
            \/ \E w \in Sessions : OpenOnDemand(w)
            \/ UNCHANGED vars
  <2>1. UNCHANGED <<running, fate, wstate, wready>>
    BY <1>16 DEF vars, WrapBegin, HandlerBegin, StoreExists, CreateStore,
       BindRecorder, CallSubmits, CallAdmitted, CloseBegin, CloseWriter,
       CloseRaises, PutSentinel, JoinEnds, ClearWriter, ClearStore, CloseOrphan,
       Resume, OpenOnDemand, Then, Goto
  <2>2. QED
    BY <2>1
<1>17. QED
  BY <1>1, <1>2, <1>3, <1>4, <1>5, <1>6, <1>7, <1>8, <1>9, <1>10, <1>11, <1>12,
     <1>13, <1>14, <1>15, <1>16
     DEF Next, Wrap, Record, Close, Write

(* Nothing but a close of the writer brings a sentinel into its queue. *)
LEMMA SentinelStep ==
  ASSUME TypeOK, SessionInv, HandInv, SentinelInv, [Next]_vars
  PROVE  SentinelInv'
<1> USE TracerAssumption DEF TypeOK, SentinelInv, Submitting, Wrapping,
      ClosingAt, Returned, tracerVars, threadVars, callVars, writerVars,
      storeVars
<1>1. ASSUME NEW t \in Threads, WrapBegin(t) PROVE SentinelInv'
  BY <1>1 DEF WrapBegin, Goto
<1>2. ASSUME NEW t \in Threads, HandlerBegin(t) PROVE SentinelInv'
  BY <1>2 DEF HandlerBegin, Goto
<1>3. ASSUME NEW t \in Threads, StoreExists(t) PROVE SentinelInv'
  BY <1>3 DEF StoreExists, Then, Goto
<1>4. ASSUME NEW t \in Threads, CreateStore(t) PROVE SentinelInv'
  BY <1>4 DEF CreateStore, Then, Goto
<1>5. ASSUME NEW t \in Threads, StartWriter(t) PROVE SentinelInv'
  BY <1>5 DEF StartWriter, Then, Goto
<1>6. ASSUME NEW t \in Threads, BindRecorder(t) PROVE SentinelInv'
  BY <1>6 DEF BindRecorder, Goto
<1>7. ASSUME NEW t \in Threads, NEW c \in Calls, CallBuild(t, c) PROVE SentinelInv'
  BY <1>7 DEF CallBuild, Goto
<1>8. ASSUME NEW t \in Threads, CallSubmits(t) PROVE SentinelInv'
  BY <1>8 DEF CallSubmits, Goto
<1>9. ASSUME NEW t \in Threads, CallAdmitted(t) PROVE SentinelInv'
  BY <1>9 DEF CallAdmitted, Goto
<1>10. ASSUME NEW t \in Threads, CallQueued(t) PROVE SentinelInv'
  <2>1. target[t] \in Sessions /\ call[t] \in Calls /\ call[t] \in Jobs
    BY <1>10 DEF CallQueued, SessionInv, HandInv, Jobs
  <2>2. queue' = [queue EXCEPT ![target[t]] = Append(queue[target[t]], call[t])]
    BY <1>10 DEF CallQueued
  <2>3. UNCHANGED <<wstate, wclosed>>
    BY <1>10 DEF CallQueued
  <2>4. \A v \in Sessions : ~wclosed[v] =>
          \A i \in 1..Len(queue'[v]) : queue'[v][i] # Sentinel
    BY <2>1, <2>2, PutInQueue
  <2>5. \A u \in Threads : pc'[u] = "sentinel" => pc[u] = "sentinel" /\ target'[u] = target[u]
    BY <1>10 DEF CallQueued, HandedOver, Goto
  <2>6. QED
    BY <2>3, <2>4, <2>5
<1>11. ASSUME NEW t \in Threads, CallOverflows(t) PROVE SentinelInv'
  BY <1>11 DEF CallOverflows, Goto, HandedOver
<1>12. ASSUME NEW t \in Threads, CallDropped(t) PROVE SentinelInv'
  BY <1>12 DEF CallDropped, Goto, HandedOver
<1>13. ASSUME NEW t \in Threads, CloseBegin(t) PROVE SentinelInv'
  BY <1>13 DEF CloseBegin, Goto
<1>14. ASSUME NEW t \in Threads, CloseWriter(t) PROVE SentinelInv'
  <2>1. writer \in Sessions
    BY <1>14 DEF CloseWriter, MaybeSession
  <2>2. CASE wclosed[writer]
    BY <1>14, <2>2 DEF CloseWriter, Goto
  <2>3. CASE ~wclosed[writer]
    <3>1. /\ wclosed' = [wclosed EXCEPT ![writer] = TRUE]
          /\ target' = [target EXCEPT ![t] = writer]
          /\ pc' = [pc EXCEPT ![t] = "sentinel"]
          /\ UNCHANGED <<wstate, queue>>
      BY <1>14, <2>3 DEF CloseWriter, Goto
    <3>2. ASSUME NEW u \in Threads, pc'[u] = "sentinel" PROVE wclosed'[target'[u]]
      <4>1. CASE u = t
        BY <2>1, <3>1, <4>1
      <4>2. CASE u # t
        BY <2>1, <3>1, <3>2, <4>2 DEF SessionInv
      <4>3. QED
        BY <4>1, <4>2
    <3>3. \A v \in Sessions : ~wclosed'[v] => ~wclosed[v]
      BY <2>1, <3>1
    <3>4. QED
      BY <3>1, <3>2, <3>3
  <2>4. QED
    BY <2>2, <2>3
<1>15. ASSUME NEW t \in Threads, CloseRaises(t) PROVE SentinelInv'
  BY <1>15 DEF CloseRaises, Goto
<1>16. ASSUME NEW t \in Threads, PutSentinel(t) PROVE SentinelInv'
  <2>1. target[t] \in Sessions /\ wclosed[target[t]]
    BY <1>16 DEF PutSentinel, SessionInv
  <2>2. UNCHANGED <<wstate, wclosed, target>> /\ Goto(t, "join")
    BY <1>16 DEF PutSentinel
  <2>3. \A v \in Sessions : ~wclosed[v] => queue'[v] = queue[v]
    BY <1>16, <2>1 DEF PutSentinel
  <2>4. QED
    BY <2>2, <2>3 DEF Goto
<1>17. ASSUME NEW t \in Threads, JoinEnds(t) PROVE SentinelInv'
  BY <1>17 DEF JoinEnds, Goto
<1>18. ASSUME NEW t \in Threads, ClearWriter(t) PROVE SentinelInv'
  BY <1>18 DEF ClearWriter, Goto
<1>19. ASSUME NEW t \in Threads, ClearStore(t) PROVE SentinelInv'
  BY <1>19 DEF ClearStore, Goto
<1>20. ASSUME NEW t \in Threads, CloseOrphan(t) PROVE SentinelInv'
  BY <1>20 DEF CloseOrphan, Goto
<1>21. ASSUME NEW t \in Threads, Resume(t) PROVE SentinelInv'
  BY <1>21 DEF Resume, Goto
<1>22. ASSUME NEW w \in Sessions, OpenNothing(w) PROVE SentinelInv'
  BY <1>22 DEF OpenNothing
<1>23. ASSUME NEW w \in Sessions, OpenBegin(w) PROVE SentinelInv'
  BY <1>23 DEF OpenBegin
<1>24. ASSUME NEW w \in Sessions, OpenEnd(w) PROVE SentinelInv'
  BY <1>24 DEF OpenEnd
<1>25. ASSUME NEW w \in Sessions, TakeCall(w) PROVE SentinelInv'
  <2>1. UNCHANGED <<wstate, wclosed, pc, target>>
    BY <1>25 DEF TakeCall
  <2>2. queue' = [queue EXCEPT ![w] = Tail(queue[w])]
    BY <1>25 DEF TakeCall
  <2>3. \A v \in Sessions : ~wclosed[v] =>
          \A i \in 1..Len(queue'[v]) : queue'[v][i] # Sentinel
    BY <1>25, <2>2, TailOfQueue DEF TakeCall
  <2>4. QED
    BY <2>1, <2>3
<1>26. ASSUME NEW w \in Sessions, TakeSentinel(w) PROVE SentinelInv'
  <2>1. queue[w][1] = Sentinel /\ 1 \in 1..Len(queue[w])
    BY <1>26, TailOfQueue DEF TakeSentinel
  <2>2. wclosed[w]
    BY <2>1
  <2>3. /\ UNCHANGED <<wclosed, pc, target>>
        /\ wstate' = [wstate EXCEPT ![w] = "draining"]
        /\ \A v \in Sessions : v # w => queue'[v] = queue[v]
    BY <1>26 DEF TakeSentinel
  <2>4. QED
    BY <2>2, <2>3
<1>27. ASSUME NEW w \in Sessions, WriterExits(w) PROVE SentinelInv'
  BY <1>27 DEF WriterExits
<1>28. CASE \/ \E t \in Threads, c \in Calls : CallUnrecorded(t, c)
                                            \/ CallUnbuilt(t, c)
            \/ \E w \in Sessions : PersistEnds(w) \/ PersistStale(w)
                                \/ OpenOnDemand(w)
            \/ UNCHANGED vars
  <2>1. UNCHANGED <<wstate, wclosed, queue, pc, target>>
    BY <1>28 DEF vars, CallUnrecorded, CallUnbuilt, PersistEnds, PersistStale,
       OpenOnDemand
  <2>2. QED
    BY <2>1
<1>29. QED
  BY <1>1, <1>2, <1>3, <1>4, <1>5, <1>6, <1>7, <1>8, <1>9, <1>10, <1>11, <1>12,
     <1>13, <1>14, <1>15, <1>16, <1>17, <1>18, <1>19, <1>20, <1>21, <1>22,
     <1>23, <1>24, <1>25, <1>26, <1>27, <1>28
     DEF Next, Wrap, Record, Close, Write

(* Until a close begins there is one session, and all Recorders hold it. *)
LEMMA FreshStep ==
  ASSUME TypeOK, LockInv, SessionInv, HandInv, QueueInv, RunningInv, FreshInv,
         [Next]_vars
  PROVE  FreshInv'
<1> USE TracerAssumption DEF TypeOK, LockInv, HandInv, FreshInv, InSetup,
      Starting, Binding, Submitting, Wrapping, ClosingAt, Returned, tracerVars,
      threadVars, callVars, writerVars, storeVars
<1>1. ASSUME NEW t \in Threads, WrapBegin(t) PROVE FreshInv'
  BY <1>1 DEF WrapBegin, Goto
<1>2. ASSUME NEW t \in Threads, HandlerBegin(t) PROVE FreshInv'
  BY <1>2 DEF HandlerBegin, Goto
<1>3. ASSUME NEW t \in Threads, StoreExists(t) PROVE FreshInv'
  BY <1>3 DEF StoreExists, Then, Goto
<1>4. ASSUME NEW t \in Threads, CreateStore(t) PROVE FreshInv'
  BY <1>4 DEF CreateStore, Then, Goto
<1>5. ASSUME NEW t \in Threads, StartWriter(t) PROVE FreshInv'
  <2>1. SUFFICES ASSUME closes = 0 PROVE FreshInv'
    BY <1>5 DEF StartWriter
  <2>2. target[t] = created /\ pc[t] \in Starting
    BY <1>5 DEF StartWriter, SessionInv
  <2>3. ct = 1 /\ target[t] = 1
    BY <2>1, <2>2, TracerAssumption
  <2>4. writer' = 1 /\ ct' = 1
    BY <1>5, <2>3 DEF StartWriter
  <2>5. \A u \in Threads : pc'[u] \notin ClosingAt \cup Returned
    BY <1>5, <2>1 DEF StartWriter, Then, Goto
  <2>6. UNCHANGED <<closes, created, bound, fate, recorderOf, wclosed>>
    BY <1>5 DEF StartWriter
  <2>7. 1 # None
    BY TracerAssumption
  <2>8. QED
    BY <2>1, <2>3, <2>4, <2>5, <2>6, <2>7
<1>6. ASSUME NEW t \in Threads, BindRecorder(t) PROVE FreshInv'
  BY <1>6 DEF BindRecorder, Goto
<1>7. ASSUME NEW t \in Threads, NEW c \in Calls, CallUnrecorded(t, c) PROVE FreshInv'
  BY <1>7 DEF CallUnrecorded
<1>8. ASSUME NEW t \in Threads, NEW c \in Calls, CallUnbuilt(t, c) PROVE FreshInv'
  BY <1>8 DEF CallUnbuilt
<1>9. ASSUME NEW t \in Threads, NEW c \in Calls, CallBuild(t, c) PROVE FreshInv'
  BY <1>9 DEF CallBuild, Goto
<1>10. ASSUME NEW t \in Threads, CallSubmits(t) PROVE FreshInv'
  BY <1>10 DEF CallSubmits, Goto
<1>11. ASSUME NEW t \in Threads, CallAdmitted(t) PROVE FreshInv'
  BY <1>11 DEF CallAdmitted, Goto
<1>12. ASSUME NEW t \in Threads, CallQueued(t) PROVE FreshInv'
  BY <1>12 DEF CallQueued, Goto, HandedOver
<1>13. ASSUME NEW t \in Threads, CallOverflows(t) PROVE FreshInv'
  BY <1>13 DEF CallOverflows, Goto, HandedOver
<1>14. ASSUME NEW t \in Threads, CallDropped(t) PROVE FreshInv'
  BY <1>14 DEF CallDropped, Goto, HandedOver
<1>15. ASSUME NEW t \in Threads, CloseBegin(t) PROVE FreshInv'
  BY <1>15 DEF CloseBegin, Goto
<1>16. ASSUME NEW t \in Threads, CloseWriter(t) PROVE FreshInv'
  BY <1>16 DEF CloseWriter, Goto
<1>17. ASSUME NEW t \in Threads, CloseRaises(t) PROVE FreshInv'
  BY <1>17 DEF CloseRaises, Goto
<1>18. ASSUME NEW t \in Threads, PutSentinel(t) PROVE FreshInv'
  BY <1>18 DEF PutSentinel, Goto
<1>19. ASSUME NEW t \in Threads, JoinEnds(t) PROVE FreshInv'
  BY <1>19 DEF JoinEnds, Goto
<1>20. ASSUME NEW t \in Threads, ClearWriter(t) PROVE FreshInv'
  BY <1>20 DEF ClearWriter, Goto
<1>21. ASSUME NEW t \in Threads, ClearStore(t) PROVE FreshInv'
  BY <1>21 DEF ClearStore, Goto
<1>22. ASSUME NEW t \in Threads, CloseOrphan(t) PROVE FreshInv'
  BY <1>22 DEF CloseOrphan, Goto
<1>23. ASSUME NEW t \in Threads, Resume(t) PROVE FreshInv'
  BY <1>23 DEF Resume, Goto
<1>24. ASSUME NEW w \in Sessions, TakeCall(w) PROVE FreshInv'
  <2>1. Head(queue[w]) \in Calls /\ fate[Head(queue[w])] = "queued"
    BY <1>24, TailOfQueue DEF TakeCall, QueueInv, Jobs
  <2>2. \A c \in Calls : fate'[c] \in {"built", "queued", "running"} =>
          fate[c] \in {"built", "queued", "running"}
    BY <1>24, <2>1 DEF TakeCall
  <2>3. UNCHANGED <<closes, pc, created, ct, writer, bound, recorderOf, wclosed>>
    BY <1>24 DEF TakeCall
  <2>4. QED
    BY <2>2, <2>3
<1>25. ASSUME NEW w \in Sessions, PersistEnds(w) PROVE FreshInv'
  BY <1>25 DEF PersistEnds
<1>26. ASSUME NEW w \in Sessions, PersistStale(w) PROVE FreshInv'
  BY <1>26 DEF PersistStale
<1>27. CASE \/ \E w \in Sessions : OpenNothing(w) \/ OpenBegin(w)
                                \/ OpenEnd(w) \/ OpenOnDemand(w)
                                \/ TakeSentinel(w) \/ WriterExits(w)
            \/ UNCHANGED vars
  <2>1. UNCHANGED <<closes, pc, created, ct, writer, bound, fate, recorderOf, wclosed>>
    BY <1>27 DEF vars, OpenNothing, OpenBegin, OpenEnd, OpenOnDemand,
       TakeSentinel, WriterExits
  <2>2. QED
    BY <2>1
<1>28. QED
  BY <1>1, <1>2, <1>3, <1>4, <1>5, <1>6, <1>7, <1>8, <1>9, <1>10, <1>11, <1>12,
     <1>13, <1>14, <1>15, <1>16, <1>17, <1>18, <1>19, <1>20, <1>21, <1>22,
     <1>23, <1>24, <1>25, <1>26, <1>27
     DEF Next, Wrap, Record, Close, Write

(* Until a close begins, the writer thread alone opens the store, before it *)
(* serves.                                                                  *)
LEMMA FreshStoreStep ==
  ASSUME TypeOK, SessionInv, RunningInv, SentinelInv, FreshInv, FreshStoreInv,
         [Next]_vars
  PROVE  FreshStoreInv'
<1> USE TracerAssumption DEF TypeOK, FreshStoreInv, tracerVars, threadVars,
      callVars, writerVars, storeVars
<1>1. ASSUME NEW t \in Threads, StartWriter(t) PROVE FreshStoreInv'
  <2>1. SUFFICES ASSUME closes = 0 PROVE FreshStoreInv'
    BY <1>1 DEF StartWriter
  <2>2. target[t] = created /\ wstate[created] = Absent
    BY <1>1 DEF StartWriter, SessionInv, Starting
  <2>3. ct = 1 /\ target[t] = 1
    BY <1>1, <2>1, <2>2, TracerAssumption DEF StartWriter, FreshInv, Starting
  <2>4. 1 \in Sessions
    BY TracerAssumption DEF Sessions
  <2>5. QED
    BY <1>1, <2>2, <2>3, <2>4 DEF StartWriter
<1>2. ASSUME NEW t \in Threads, CloseBegin(t) PROVE FreshStoreInv'
  BY <1>2 DEF CloseBegin, Goto
<1>3. ASSUME NEW t \in Threads, CloseOrphan(t) PROVE FreshStoreInv'
  BY <1>3 DEF CloseOrphan, FreshInv, ClosingAt
<1>4. ASSUME NEW w \in Sessions, OpenNothing(w) PROVE FreshStoreInv'
  <2>1. SUFFICES ASSUME closes = 0 PROVE FreshStoreInv'
    BY <1>4 DEF OpenNothing
  <2>2. 1 \in Sessions /\ w = 1 /\ wct[w] = 1 /\ 1 # None
    BY <1>4, <2>1, OneWriter, TracerAssumption DEF OpenNothing
  <2>3. QED
    BY <1>4, <2>1, <2>2 DEF OpenNothing
<1>5. ASSUME NEW w \in Sessions, OpenBegin(w) PROVE FreshStoreInv'
  <2>1. SUFFICES ASSUME closes = 0 PROVE FreshStoreInv'
    BY <1>5 DEF OpenBegin
  <2>2. 1 \in Sessions /\ w = 1 /\ wct[w] = 1 /\ 1 # None
    BY <1>5, <2>1, OneWriter, TracerAssumption DEF OpenBegin
  <2>3. QED
    BY <1>5, <2>1, <2>2 DEF OpenBegin
<1>6. ASSUME NEW w \in Sessions, OpenEnd(w) PROVE FreshStoreInv'
  <2>1. SUFFICES ASSUME closes = 0 PROVE FreshStoreInv'
    BY <1>6 DEF OpenEnd
  <2>2. 1 \in Sessions /\ w = 1 /\ wct[w] = 1 /\ 1 # None
    BY <1>6, <2>1, OneWriter, TracerAssumption DEF OpenEnd
  <2>3. QED
    BY <1>6, <2>1, <2>2 DEF OpenEnd
<1>7. ASSUME NEW w \in Sessions, OpenOnDemand(w) PROVE FreshStoreInv'
  <2>1. SUFFICES ASSUME closes = 0 PROVE FreshStoreInv'
    BY <1>7 DEF OpenOnDemand
  <2>2. wstate[w] = "serving" /\ running[w] \in Calls /\ fate[running[w]] = "running"
    BY <1>7, <2>1 DEF OpenOnDemand, RunningInv, Serving, SentinelInv, FreshInv
  <2>3. 1 \in Sessions /\ w = 1
    BY <2>1, <2>2, OneWriter, TracerAssumption
  <2>4. recorderOf[running[w]] = 1
    BY <2>1, <2>2 DEF FreshInv
  <2>5. opened[1]
    BY <2>1, <2>2, <2>3
  <2>6. QED
    BY <1>7, <2>4, <2>5 DEF OpenOnDemand
<1>8. ASSUME NEW w \in Sessions, TakeSentinel(w) PROVE FreshStoreInv'
  BY <1>8 DEF TakeSentinel, FreshInv, SentinelInv
<1>9. ASSUME NEW w \in Sessions, WriterExits(w) PROVE FreshStoreInv'
  BY <1>9 DEF WriterExits, FreshInv, SentinelInv
<1>10. CASE \/ \E t \in Threads : WrapBegin(t) \/ HandlerBegin(t)
                               \/ StoreExists(t) \/ CreateStore(t)
                               \/ BindRecorder(t) \/ CallSubmits(t)
                               \/ CallAdmitted(t) \/ CallQueued(t)
                               \/ CallOverflows(t) \/ CallDropped(t)
                               \/ CloseWriter(t) \/ CloseRaises(t)
                               \/ PutSentinel(t) \/ JoinEnds(t)
                               \/ ClearWriter(t) \/ ClearStore(t) \/ Resume(t)
            \/ \E t \in Threads, c \in Calls : CallUnrecorded(t, c)
                                            \/ CallUnbuilt(t, c) \/ CallBuild(t, c)
            \/ \E w \in Sessions : TakeCall(w) \/ PersistEnds(w)
                                \/ PersistStale(w)
            \/ UNCHANGED vars
  <2>1. UNCHANGED <<closes, wstate, wct, opened, openLock, wready, store>>
    BY <1>10 DEF vars, WrapBegin, HandlerBegin, StoreExists, CreateStore,
       BindRecorder, CallUnrecorded, CallUnbuilt, CallBuild, CallSubmits,
       CallAdmitted, CallQueued, CallOverflows, CallDropped, CloseWriter,
       CloseRaises, PutSentinel, JoinEnds, ClearWriter, ClearStore, Resume,
       TakeCall, PersistEnds, PersistStale, Then, HandedOver, Goto
  <2>2. QED
    BY <2>1
<1>11. QED
  BY <1>1, <1>2, <1>3, <1>4, <1>5, <1>6, <1>7, <1>8, <1>9, <1>10
     DEF Next, Wrap, Record, Close, Write

(* A close that closes a writer goes on to clear it. *)
LEMMA ClosedStep ==
  ASSUME TypeOK, SessionInv, ClosedInv, [Next]_vars
  PROVE  ClosedInv'
<1> USE TracerAssumption DEF TypeOK, ClosedInv, Submitting, Wrapping, ClosingAt,
      Returned, tracerVars, threadVars, callVars, writerVars, storeVars
<1>1. ASSUME NEW t \in Threads, WrapBegin(t) PROVE ClosedInv'
  BY <1>1 DEF WrapBegin, Goto
<1>2. ASSUME NEW t \in Threads, HandlerBegin(t) PROVE ClosedInv'
  BY <1>2 DEF HandlerBegin, Goto
<1>3. ASSUME NEW t \in Threads, StoreExists(t) PROVE ClosedInv'
  BY <1>3 DEF StoreExists, Then, Goto
<1>4. ASSUME NEW t \in Threads, CreateStore(t) PROVE ClosedInv'
  BY <1>4 DEF CreateStore, Then, Goto
<1>5. ASSUME NEW t \in Threads, StartWriter(t) PROVE ClosedInv'
  <2>1. target[t] \in Sessions /\ wstate[target[t]] = Absent
    BY <1>5 DEF StartWriter, SessionInv, Starting
  <2>2. ~wclosed[target[t]]
    BY <2>1 DEF SessionInv
  <2>3. writer' = target[t] /\ wclosed' = wclosed
    BY <1>5 DEF StartWriter
  <2>4. QED
    BY <2>2, <2>3
<1>6. ASSUME NEW t \in Threads, BindRecorder(t) PROVE ClosedInv'
  BY <1>6 DEF BindRecorder, Goto
<1>7. ASSUME NEW t \in Threads, NEW c \in Calls, CallBuild(t, c) PROVE ClosedInv'
  BY <1>7 DEF CallBuild, Goto
<1>8. ASSUME NEW t \in Threads, CallSubmits(t) PROVE ClosedInv'
  BY <1>8 DEF CallSubmits, Goto
<1>9. ASSUME NEW t \in Threads, CallAdmitted(t) PROVE ClosedInv'
  BY <1>9 DEF CallAdmitted, Goto
<1>10. ASSUME NEW t \in Threads, CallQueued(t) PROVE ClosedInv'
  BY <1>10 DEF CallQueued, Goto, HandedOver
<1>11. ASSUME NEW t \in Threads, CallOverflows(t) PROVE ClosedInv'
  BY <1>11 DEF CallOverflows, Goto, HandedOver
<1>12. ASSUME NEW t \in Threads, CallDropped(t) PROVE ClosedInv'
  BY <1>12 DEF CallDropped, Goto, HandedOver
<1>13. ASSUME NEW t \in Threads, CloseBegin(t) PROVE ClosedInv'
  BY <1>13 DEF CloseBegin, Goto
<1>14. ASSUME NEW t \in Threads, CloseWriter(t) PROVE ClosedInv'
  BY <1>14 DEF CloseWriter, Goto
<1>15. ASSUME NEW t \in Threads, CloseRaises(t) PROVE ClosedInv'
  BY <1>15 DEF CloseRaises, Goto
<1>16. ASSUME NEW t \in Threads, PutSentinel(t) PROVE ClosedInv'
  BY <1>16 DEF PutSentinel, Goto
<1>17. ASSUME NEW t \in Threads, JoinEnds(t) PROVE ClosedInv'
  BY <1>17 DEF JoinEnds, Goto
<1>18. ASSUME NEW t \in Threads, ClearWriter(t) PROVE ClosedInv'
  BY <1>18 DEF ClearWriter, Goto
<1>19. ASSUME NEW t \in Threads, ClearStore(t) PROVE ClosedInv'
  BY <1>19 DEF ClearStore, Goto
<1>20. ASSUME NEW t \in Threads, CloseOrphan(t) PROVE ClosedInv'
  BY <1>20 DEF CloseOrphan, Goto
<1>21. ASSUME NEW t \in Threads, Resume(t) PROVE ClosedInv'
  BY <1>21 DEF Resume, Goto
<1>22. CASE \/ \E t \in Threads, c \in Calls : CallUnrecorded(t, c)
                                            \/ CallUnbuilt(t, c)
            \/ \E w \in Sessions : OpenNothing(w) \/ OpenBegin(w)
                                \/ OpenEnd(w) \/ TakeCall(w) \/ PersistEnds(w)
                                \/ PersistStale(w) \/ OpenOnDemand(w)
                                \/ TakeSentinel(w) \/ WriterExits(w)
            \/ UNCHANGED vars
  <2>1. UNCHANGED <<writer, wclosed, pc>>
    BY <1>22 DEF vars, CallUnrecorded, CallUnbuilt, OpenNothing, OpenBegin,
       OpenEnd, TakeCall, PersistEnds, PersistStale, OpenOnDemand, TakeSentinel,
       WriterExits
  <2>2. QED
    BY <2>1
<1>23. QED
  BY <1>1, <1>2, <1>3, <1>4, <1>5, <1>6, <1>7, <1>8, <1>9, <1>10, <1>11, <1>12,
     <1>13, <1>14, <1>15, <1>16, <1>17, <1>18, <1>19, <1>20, <1>21, <1>22
     DEF Next, Wrap, Record, Close, Write

(* `_ensure_store` sets `_ct` and `_writer` as a pair, and a close that clears *)
(* the one goes on to clear the other.                                        *)
LEMMA PairStep ==
  ASSUME TypeOK, SessionInv, PairInv, [Next]_vars
  PROVE  PairInv'
<1> USE TracerAssumption DEF TypeOK, PairInv, Clearing, Starting, Submitting,
      Wrapping, ClosingAt, Returned, tracerVars, threadVars, callVars,
      writerVars, storeVars
<1>1. ASSUME NEW t \in Threads, WrapBegin(t) PROVE PairInv'
  BY <1>1 DEF WrapBegin, Goto
<1>2. ASSUME NEW t \in Threads, HandlerBegin(t) PROVE PairInv'
  BY <1>2 DEF HandlerBegin, Goto
<1>3. ASSUME NEW t \in Threads, StoreExists(t) PROVE PairInv'
  BY <1>3 DEF StoreExists, Then, Goto
<1>4. ASSUME NEW t \in Threads, CreateStore(t) PROVE PairInv'
  BY <1>4 DEF CreateStore, Then, Goto
<1>5. ASSUME NEW t \in Threads, StartWriter(t) PROVE PairInv'
  <2>1. /\ target[t] = created /\ created \in Sessions /\ wstate[created] = Absent
        /\ ct \in {None, created}
    BY <1>5 DEF StartWriter, SessionInv
  <2>2. ~wclosed[created]
    BY <2>1 DEF SessionInv
  <2>3. /\ writer' = created /\ wct' = [wct EXCEPT ![created] = ct]
        /\ ct' = ct /\ wclosed' = wclosed
    BY <1>5, <2>1 DEF StartWriter
  <2>4. QED
    BY <2>1, <2>2, <2>3
<1>6. ASSUME NEW t \in Threads, BindRecorder(t) PROVE PairInv'
  BY <1>6 DEF BindRecorder, Goto
<1>7. ASSUME NEW t \in Threads, NEW c \in Calls, CallBuild(t, c) PROVE PairInv'
  BY <1>7 DEF CallBuild, Goto
<1>8. ASSUME NEW t \in Threads, CallSubmits(t) PROVE PairInv'
  BY <1>8 DEF CallSubmits, Goto
<1>9. ASSUME NEW t \in Threads, CallAdmitted(t) PROVE PairInv'
  BY <1>9 DEF CallAdmitted, Goto
<1>10. ASSUME NEW t \in Threads, CallQueued(t) PROVE PairInv'
  BY <1>10 DEF CallQueued, Goto, HandedOver
<1>11. ASSUME NEW t \in Threads, CallOverflows(t) PROVE PairInv'
  BY <1>11 DEF CallOverflows, Goto, HandedOver
<1>12. ASSUME NEW t \in Threads, CallDropped(t) PROVE PairInv'
  BY <1>12 DEF CallDropped, Goto, HandedOver
<1>13. ASSUME NEW t \in Threads, CloseBegin(t) PROVE PairInv'
  BY <1>13 DEF CloseBegin, Goto
<1>14. ASSUME NEW t \in Threads, CloseWriter(t) PROVE PairInv'
  <2>1. pc'[t] \in {"sentinel", "clearWriter"}
    BY <1>14 DEF CloseWriter, Goto
  <2>2. QED
    BY <2>1
<1>15. ASSUME NEW t \in Threads, CloseRaises(t) PROVE PairInv'
  BY <1>15 DEF CloseRaises, Goto
<1>16. ASSUME NEW t \in Threads, PutSentinel(t) PROVE PairInv'
  BY <1>16 DEF PutSentinel, Goto
<1>17. ASSUME NEW t \in Threads, JoinEnds(t) PROVE PairInv'
  BY <1>17 DEF JoinEnds, Goto
<1>18. ASSUME NEW t \in Threads, ClearWriter(t) PROVE PairInv'
  BY <1>18 DEF ClearWriter, Goto
<1>19. ASSUME NEW t \in Threads, ClearStore(t) PROVE PairInv'
  BY <1>19 DEF ClearStore, Goto
<1>20. ASSUME NEW t \in Threads, CloseOrphan(t) PROVE PairInv'
  BY <1>20 DEF CloseOrphan, Goto
<1>21. ASSUME NEW t \in Threads, Resume(t) PROVE PairInv'
  BY <1>21 DEF Resume, Goto
<1>22. CASE \/ \E t \in Threads, c \in Calls : CallUnrecorded(t, c)
                                            \/ CallUnbuilt(t, c)
            \/ \E w \in Sessions : OpenNothing(w) \/ OpenBegin(w)
                                \/ OpenEnd(w) \/ TakeCall(w) \/ PersistEnds(w)
                                \/ PersistStale(w) \/ OpenOnDemand(w)
                                \/ TakeSentinel(w) \/ WriterExits(w)
            \/ UNCHANGED vars
  <2>1. UNCHANGED <<ct, writer, wct, wclosed, pc>>
    BY <1>22 DEF vars, CallUnrecorded, CallUnbuilt, OpenNothing, OpenBegin,
       OpenEnd, TakeCall, PersistEnds, PersistStale, OpenOnDemand, TakeSentinel,
       WriterExits
  <2>2. QED
    BY <2>1
<1>23. QED
  BY <1>1, <1>2, <1>3, <1>4, <1>5, <1>6, <1>7, <1>8, <1>9, <1>10, <1>11, <1>12,
     <1>13, <1>14, <1>15, <1>16, <1>17, <1>18, <1>19, <1>20, <1>21, <1>22
     DEF Next, Wrap, Record, Close, Write

(* Until a close begins, a record that is accepted reaches an open store. *)
LEMMA StaleStep ==
  ASSUME TypeOK, SessionInv, HandInv, QueueInv, RunningInv, SentinelInv,
         FreshInv, FreshStoreInv, StaleOnlyAfterClose, [Next]_vars
  PROVE  StaleOnlyAfterClose'
<1> USE TracerAssumption DEF TypeOK, StaleOnlyAfterClose, tracerVars,
      threadVars, callVars, writerVars, storeVars
<1>1. ASSUME NEW t \in Threads, NEW c \in Calls, CallUnrecorded(t, c) PROVE StaleOnlyAfterClose'
  BY <1>1 DEF CallUnrecorded, FreshInv
<1>2. ASSUME NEW t \in Threads, NEW c \in Calls, CallUnbuilt(t, c) PROVE StaleOnlyAfterClose'
  BY <1>2 DEF CallUnbuilt
<1>3. ASSUME NEW t \in Threads, NEW c \in Calls, CallBuild(t, c) PROVE StaleOnlyAfterClose'
  BY <1>3 DEF CallBuild, Goto
<1>4. ASSUME NEW t \in Threads, CallQueued(t) PROVE StaleOnlyAfterClose'
  BY <1>4 DEF CallQueued, Goto, HandedOver
<1>5. ASSUME NEW t \in Threads, CallOverflows(t) PROVE StaleOnlyAfterClose'
  BY <1>5 DEF CallOverflows, Goto, HandedOver
<1>6. ASSUME NEW t \in Threads, CallDropped(t) PROVE StaleOnlyAfterClose'
  <2>1. SUFFICES ASSUME closes = 0 PROVE FALSE
    BY <1>6 DEF CallDropped, HandedOver
  <2>2. CASE pc[t] = "submit" /\ writer = None
    BY <2>1, <2>2 DEF FreshInv, Submitting
  <2>3. CASE pc[t] = "check" /\ wclosed[target[t]]
    BY <2>1, <2>3 DEF FreshInv, SessionInv
  <2>4. QED
    BY <1>6, <2>2, <2>3 DEF CallDropped
<1>7. ASSUME NEW t \in Threads, CloseBegin(t) PROVE StaleOnlyAfterClose'
  BY <1>7 DEF CloseBegin, Goto
<1>8. ASSUME NEW w \in Sessions, TakeCall(w) PROVE StaleOnlyAfterClose'
  BY <1>8 DEF TakeCall
<1>9. ASSUME NEW w \in Sessions, PersistEnds(w) PROVE StaleOnlyAfterClose'
  BY <1>9 DEF PersistEnds
<1>10. ASSUME NEW w \in Sessions, PersistStale(w) PROVE StaleOnlyAfterClose'
  <2>1. SUFFICES ASSUME closes = 0 PROVE FALSE
    BY <1>10 DEF PersistStale
  <2>2. running[w] \in Calls /\ fate[running[w]] = "running"
    BY <1>10 DEF PersistStale, RunningInv
  <2>3. wstate[w] = "serving" /\ wready[w]
    BY <1>10, <2>1, <2>2 DEF PersistStale, RunningInv, Serving, SentinelInv, FreshInv
  <2>4. 1 \in Sessions /\ w = 1 /\ 1 # None
    BY <2>1, <2>3, OneWriter, TracerAssumption
  <2>5. recorderOf[running[w]] = 1
    BY <2>1, <2>2 DEF FreshInv
  <2>6. store[1] = "live"
    BY <2>1, <2>3, <2>4 DEF FreshStoreInv
  <2>7. QED
    BY <1>10, <2>4, <2>5, <2>6 DEF PersistStale
<1>11. CASE \/ \E t \in Threads : WrapBegin(t) \/ HandlerBegin(t)
                               \/ StoreExists(t) \/ CreateStore(t)
                               \/ StartWriter(t) \/ BindRecorder(t)
                               \/ CallSubmits(t) \/ CallAdmitted(t)
                               \/ CloseWriter(t) \/ CloseRaises(t)
                               \/ PutSentinel(t) \/ JoinEnds(t)
                               \/ ClearWriter(t) \/ ClearStore(t)
                               \/ CloseOrphan(t) \/ Resume(t)
            \/ \E w \in Sessions : OpenNothing(w) \/ OpenBegin(w)
                                \/ OpenEnd(w) \/ OpenOnDemand(w)
                                \/ TakeSentinel(w) \/ WriterExits(w)
            \/ UNCHANGED vars
  <2>1. UNCHANGED <<fate, closes>>
    BY <1>11 DEF vars, WrapBegin, HandlerBegin, StoreExists, CreateStore,
       StartWriter, BindRecorder, CallSubmits, CallAdmitted, CloseWriter,
       CloseRaises, PutSentinel, JoinEnds, ClearWriter, ClearStore, CloseOrphan,
       Resume, OpenNothing, OpenBegin, OpenEnd, OpenOnDemand, TakeSentinel,
       WriterExits, Then, Goto
  <2>2. QED
    BY <2>1
<1>12. QED
  BY <1>1, <1>2, <1>3, <1>4, <1>5, <1>6, <1>7, <1>8, <1>9, <1>10, <1>11
     DEF Next, Wrap, Record, Close, Write

(* What is settled stays so, and what a writer has to take before a sentinel *)
(* stays ahead of it until it is settled.                                    *)
LEMMA KeptStep ==
  ASSUME TypeOK, SessionInv, HandInv, QueueInv, RunningInv, [Next]_vars
  PROVE  /\ Finished \subseteq Finished'
         /\ \A w \in Sessions : Ahead[w] \subseteq Ahead'[w] \cup Finished'
<1> USE TracerAssumption DEF TypeOK, QueueInv, RunningInv, Ahead, Finished, Done,
      tracerVars, threadVars, callVars, writerVars, storeVars
<1> DEFINE Kept ==
      /\ Finished \subseteq Finished'
      /\ \A w \in Sessions : Ahead[w] \subseteq Ahead'[w] \cup Finished'
<1>1. ASSUME NEW t \in Threads, NEW c \in Calls, CallUnrecorded(t, c) PROVE Kept
  BY <1>1 DEF CallUnrecorded
<1>2. ASSUME NEW t \in Threads, NEW c \in Calls, CallUnbuilt(t, c) PROVE Kept
  BY <1>2 DEF CallUnbuilt
<1>3. ASSUME NEW t \in Threads, NEW c \in Calls, CallBuild(t, c) PROVE Kept
  BY <1>3 DEF CallBuild, Goto
<1>4. ASSUME NEW t \in Threads, CallQueued(t) PROVE Kept
  <2>1. /\ target[t] \in Sessions
        /\ call[t] \in Calls /\ call[t] \in Jobs
        /\ fate[call[t]] = "built"
    BY <1>4 DEF CallQueued, HandInv, SessionInv, Submitting, Jobs
  <2>2. /\ queue' = [queue EXCEPT ![target[t]] = Append(queue[target[t]], call[t])]
        /\ fate' = [fate EXCEPT ![call[t]] = "queued"]
        /\ UNCHANGED <<running, wstate>>
    BY <1>4 DEF CallQueued, HandedOver
  <2>3. Finished \subseteq Finished'
    BY <2>1, <2>2
  <2>4. ASSUME NEW w \in Sessions, NEW i \in 1..Len(queue[w])
        PROVE  i \in 1..Len(queue'[w]) /\ queue'[w][i] = queue[w][i]
    BY <2>1, <2>2, PutInQueue
  <2>5. ASSUME NEW w \in Sessions, NEW c \in Ahead[w] PROVE c \in Ahead'[w]
    <3>1. c \in Calls /\ wstate'[w] \notin {"draining", "exited"}
      BY <2>2
    <3>2. CASE c = running[w]
      BY <2>2, <3>1, <3>2
    <3>3. CASE \E i \in 1..Len(queue[w]) :
                 queue[w][i] = c /\ \A j \in 1..i : queue[w][j] # Sentinel
      <4>1. PICK i \in 1..Len(queue[w]) :
              queue[w][i] = c /\ \A j \in 1..i : queue[w][j] # Sentinel
        BY <3>3
      <4>2. Len(queue[w]) \in Nat
        BY LenProperties
      <4>3. ASSUME NEW j \in 1..i PROVE queue'[w][j] # Sentinel
        <5>1. j \in 1..Len(queue[w])
          BY <4>2
        <5>2. queue'[w][j] = queue[w][j]
          BY <5>1, <2>4
        <5>3. QED
          BY <4>1, <5>2
      <4>4. i \in 1..Len(queue'[w]) /\ queue'[w][i] = c
        BY <4>1, <2>4
      <4>5. QED
        BY <3>1, <4>3, <4>4
    <3>4. QED
      BY <3>2, <3>3
  <2>6. QED
    BY <2>3, <2>5
<1>5. ASSUME NEW t \in Threads, PutSentinel(t) PROVE Kept
  <2>1. target[t] \in Sessions /\ Sentinel \in Jobs
    BY <1>5 DEF PutSentinel, SessionInv, Jobs
  <2>2. /\ queue' = [queue EXCEPT ![target[t]] = Append(queue[target[t]], Sentinel)]
        /\ UNCHANGED <<fate, running, wstate>>
    BY <1>5 DEF PutSentinel
  <2>3. ASSUME NEW w \in Sessions, NEW i \in 1..Len(queue[w])
        PROVE  i \in 1..Len(queue'[w]) /\ queue'[w][i] = queue[w][i]
    BY <2>1, <2>2, PutInQueue
  <2>4. ASSUME NEW w \in Sessions, NEW c \in Ahead[w] PROVE c \in Ahead'[w]
    <3>1. c \in Calls /\ wstate'[w] \notin {"draining", "exited"}
      BY <2>2
    <3>2. CASE c = running[w]
      BY <2>2, <3>1, <3>2
    <3>3. CASE \E i \in 1..Len(queue[w]) :
                 queue[w][i] = c /\ \A j \in 1..i : queue[w][j] # Sentinel
      <4>1. PICK i \in 1..Len(queue[w]) :
              queue[w][i] = c /\ \A j \in 1..i : queue[w][j] # Sentinel
        BY <3>3
      <4>2. Len(queue[w]) \in Nat
        BY LenProperties
      <4>3. ASSUME NEW j \in 1..i PROVE queue'[w][j] # Sentinel
        <5>1. j \in 1..Len(queue[w])
          BY <4>2
        <5>2. queue'[w][j] = queue[w][j]
          BY <5>1, <2>3
        <5>3. QED
          BY <4>1, <5>2
      <4>4. i \in 1..Len(queue'[w]) /\ queue'[w][i] = c
        BY <4>1, <2>3
      <4>5. QED
        BY <3>1, <4>3, <4>4
    <3>4. QED
      BY <3>2, <3>3
  <2>5. QED
    BY <2>2, <2>4
<1>6. ASSUME NEW t \in Threads, CallDropped(t) \/ CallOverflows(t) PROVE Kept
  <2>1. \E how \in {"dropped", "overflowed"} : fate' = [fate EXCEPT ![call[t]] = how]
    BY <1>6 DEF CallDropped, CallOverflows, HandedOver
  <2>2. Finished \subseteq Finished' /\ UNCHANGED <<queue, running, wstate>>
    BY <1>6, <2>1 DEF CallDropped, CallOverflows
  <2>3. QED
    BY <2>2
<1>7. ASSUME NEW w \in Sessions, TakeCall(w) PROVE Kept
  <2>1. /\ Head(queue[w]) = queue[w][1] /\ queue[w][1] \in Calls
        /\ Len(queue[w]) \in Nat \ {0} /\ fate[queue[w][1]] = "queued"
    BY <1>7, TailOfQueue DEF TakeCall, Jobs
  <2>2. /\ queue' = [queue EXCEPT ![w] = Tail(queue[w])]
        /\ running[w] = None /\ wstate' = wstate
        /\ \/ /\ running' = [running EXCEPT ![w] = queue[w][1]]
              /\ fate' = [fate EXCEPT ![queue[w][1]] = "running"]
           \/ /\ running' = running
              /\ fate' = [fate EXCEPT ![queue[w][1]] = "skipped"]
    BY <1>7, <2>1 DEF TakeCall
  <2>3. Finished \subseteq Finished'
    BY <2>1, <2>2
  <2>4. wstate[w] \notin {"draining", "exited"} => queue[w][1] \in Ahead'[w] \cup Finished'
    BY <2>1, <2>2
  <2>5. \A i \in 1..Len(Tail(queue[w])) :
          i + 1 \in 1..Len(queue[w]) /\ Tail(queue[w])[i] = queue[w][i + 1]
    BY <1>7, TailOfQueue DEF TakeCall
  <2>6. Len(Tail(queue[w])) = Len(queue[w]) - 1
    BY <1>7, TailOfQueue DEF TakeCall
  <2>7. ASSUME NEW c \in Ahead[w] PROVE c \in Ahead'[w] \cup Finished'
    <3>1. PICK i \in 1..Len(queue[w]) :
            queue[w][i] = c /\ \A j \in 1..i : queue[w][j] # Sentinel
      BY <2>2, TracerAssumption
    <3>2. CASE i = 1
      BY <2>4, <3>1, <3>2
    <3>3. CASE i # 1
      <4>1. i - 1 \in 1..Len(queue'[w]) /\ queue'[w][i - 1] = c
        BY <2>1, <2>2, <2>5, <2>6, <3>1, <3>3
      <4>2. ASSUME NEW j \in 1..(i - 1) PROVE queue'[w][j] # Sentinel
        <5>1. j \in 1..Len(Tail(queue[w])) /\ j + 1 \in 1..i
          BY <2>1, <2>6
        <5>2. QED
          BY <2>2, <2>5, <3>1, <5>1
      <4>3. c \in Calls /\ wstate'[w] \notin {"draining", "exited"}
        BY <2>2
      <4>4. c \in Ahead'[w]
        BY <4>1, <4>2, <4>3
      <4>5. QED
        BY <4>4
    <3>4. QED
      BY <3>2, <3>3
  <2>8. ASSUME NEW v \in Sessions, v # w PROVE Ahead[v] \subseteq Ahead'[v]
    BY <2>2, <2>8
  <2>9. QED
    BY <2>3, <2>7, <2>8
<1>8. ASSUME NEW w \in Sessions, TakeSentinel(w) PROVE Kept
  <2>1. queue[w][1] = Sentinel /\ Len(queue[w]) \in Nat \ {0} /\ running[w] = None
    BY <1>8, TailOfQueue DEF TakeSentinel
  <2>2. Ahead[w] = {}
    BY <2>1
  <2>3. \A v \in Sessions : v # w => Ahead'[v] = Ahead[v]
    BY <1>8 DEF TakeSentinel
  <2>4. Finished' = Finished
    BY <1>8 DEF TakeSentinel
  <2>5. QED
    BY <2>2, <2>3, <2>4
<1>9. ASSUME NEW w \in Sessions, PersistEnds(w) PROVE Kept
  BY <1>9 DEF PersistEnds
<1>10. ASSUME NEW w \in Sessions, PersistStale(w) PROVE Kept
  BY <1>10 DEF PersistStale
<1>11. ASSUME NEW w \in Sessions, WriterExits(w) PROVE Kept
  BY <1>11 DEF WriterExits
<1>12. ASSUME NEW w \in Sessions, OpenNothing(w) \/ OpenBegin(w) \/ OpenEnd(w)
       PROVE Kept
  <2>1. /\ UNCHANGED <<fate, queue, running>>
        /\ \E here \in {"serving", "opening"} : wstate' = [wstate EXCEPT ![w] = here]
    BY <1>12 DEF OpenNothing, OpenBegin, OpenEnd
  <2>2. \A v \in Sessions : wstate[v] \notin {"draining", "exited"} =>
          wstate'[v] \notin {"draining", "exited"}
    BY <2>1
  <2>3. QED
    BY <2>1, <2>2
<1>13. ASSUME NEW t \in Threads, StartWriter(t) PROVE Kept
  <2>1. /\ UNCHANGED <<fate, queue, running>>
        /\ wstate' = [wstate EXCEPT ![target[t]] = "starting"]
    BY <1>13 DEF StartWriter
  <2>2. \A v \in Sessions : wstate[v] \notin {"draining", "exited"} =>
          wstate'[v] \notin {"draining", "exited"}
    BY <2>1
  <2>3. QED
    BY <2>1, <2>2
<1>14. CASE \/ \E t \in Threads : \/ WrapBegin(t) \/ HandlerBegin(t) \/ StoreExists(t)
                               \/ CreateStore(t) \/ BindRecorder(t)
                               \/ CallSubmits(t) \/ CallAdmitted(t)
                               \/ CloseBegin(t) \/ CloseWriter(t) \/ CloseRaises(t)
                               \/ JoinEnds(t) \/ ClearWriter(t) \/ ClearStore(t)
                               \/ CloseOrphan(t) \/ Resume(t)
            \/ \E w \in Sessions : OpenOnDemand(w)
            \/ UNCHANGED vars
  <2>1. UNCHANGED <<fate, queue, running, wstate>>
    BY <1>14 DEF vars, WrapBegin, HandlerBegin, StoreExists, CreateStore, BindRecorder,
       CallSubmits, CallAdmitted, CloseBegin, CloseWriter, CloseRaises, JoinEnds,
       ClearWriter, ClearStore, CloseOrphan, Resume, OpenOnDemand, Then, Goto
  <2>2. QED
    BY <2>1
<1>15. QED
  BY <1>1, <1>2, <1>3, <1>4, <1>5, <1>6, <1>7, <1>8, <1>9, <1>10, <1>11, <1>12,
     <1>13, <1>14
     DEF Next, Wrap, Record, Close, Write

(* What another thread does leaves a promise good, unless it closes. *)
LEMMA PromiseKept ==
  ASSUME TypeOK, SessionInv, HandInv, QueueInv, RunningInv, PromiseInv, [Next]_vars,
         NEW u \in Threads,
         promised'[u] \in {promised[u], {}}, pc'[u] = pc[u], target'[u] = target[u],
         promised[u] # {} /\ pc[u] \in ClosingAt =>
           \A v \in Threads : pc'[v] \in ClosingAt => pc[v] \in ClosingAt,
         promised[u] # {} /\ pc[u] = "closeWriter" => writer' = writer /\ ct' = ct
  PROVE  Promise(u)'
<1>1. /\ Finished \subseteq Finished'
      /\ \A w \in Sessions : Ahead[w] \subseteq Ahead'[w] \cup Finished'
  BY KeptStep
<1>2. SUFFICES ASSUME promised[u] # {}, promised'[u] = promised[u] PROVE Promise(u)'
  BY DEF Promise
<1>3. Promise(u)
  BY DEF PromiseInv
<1>4. CASE pc[u] = "closeWriter"
  <2>1. writer \in Sessions /\ writer' = writer /\ ct' = ct
    BY <1>2, <1>3, <1>4 DEF Promise, TypeOK, MaybeSession
  <2>2. QED
    BY <1>1, <1>2, <1>3, <1>4, <2>1 DEF Promise, ClosingAt, Clearing
<1>5. CASE pc[u] \in {"sentinel", "join"}
  <2>1. target[u] \in Sessions
    BY <1>5 DEF SessionInv
  <2>2. QED
    BY <1>1, <1>2, <1>3, <1>5, <2>1 DEF Promise, ClosingAt, Clearing
<1>6. CASE pc[u] \in {"clearWriter", "clearStore", "flushed"}
  BY <1>1, <1>2, <1>3, <1>6 DEF Promise, ClosingAt, Clearing
<1>7. QED
  BY <1>2, <1>3, <1>4, <1>5, <1>6 DEF Promise, Clearing

(* Nobody parts the writer a close is about to join from its store. *)
LEMMA WriterStays ==
  ASSUME TypeOK, LockInv, SessionInv, PromiseInv,
         NEW t \in Threads, Wrap(t) \/ Record(t),
         NEW u \in Threads, promised[u] # {}, pc[u] = "closeWriter"
  PROVE  writer' = writer /\ ct' = ct
<1>1. writer # None /\ ct = writer /\ wstate[writer] # Absent
  BY DEF PromiseInv, Promise, SessionInv
<1>2. ~CreateStore(t)
  BY <1>1 DEF CreateStore
<1>3. ~StartWriter(t)
  BY <1>1 DEF StartWriter, SessionInv, Starting
<1>4. QED
  BY <1>2, <1>3 DEF Wrap, Record, WrapBegin, HandlerBegin, StoreExists, BindRecorder,
     CallUnrecorded, CallUnbuilt, CallBuild, CallSubmits, CallAdmitted, CallQueued,
     CallOverflows, CallDropped, HandedOver, tracerVars

(* What is promised is settled before the close returns. *)
LEMMA PromiseStep ==
  ASSUME TypeOK, LockInv, SessionInv, HandInv, QueueInv, RunningInv, SentinelInv,
         ClosedInv, PromiseInv, [Next]_vars
  PROVE  PromiseInv'
<1> USE DEF ClosingAt, Returned, tracerVars, threadVars
<1>1. pc \in [Threads -> {"idle"} \cup Submitting \cup Wrapping \cup ClosingAt \cup Returned]
  BY DEF TypeOK
<1>2. /\ promised \in [Threads -> SUBSET Calls]
      /\ target \in [Threads -> MaybeSession]
  BY DEF TypeOK
<1>3. ASSUME NEW t \in Threads, Wrap(t) \/ Record(t) PROVE PromiseInv'
  <2>1. /\ promised' = promised
        /\ \E here \in {"idle"} \cup Submitting \cup Wrapping : pc' = [pc EXCEPT ![t] = here]
        /\ \A u \in Threads \ {t} : target'[u] = target[u]
        /\ pc[t] \in {"idle"} \cup Submitting \cup Wrapping
    <3>1. CASE Wrap(t)
      BY <1>1, <1>2, <3>1 DEF Wrap, WrapBegin, HandlerBegin, StoreExists, CreateStore,
           StartWriter, BindRecorder, Then, Goto, Wrapping
    <3>2. CASE Record(t)
      BY <1>1, <1>2, <3>2 DEF Record, CallUnrecorded, CallUnbuilt, CallBuild,
           CallSubmits, CallAdmitted, CallQueued, CallOverflows, CallDropped, HandedOver,
           Goto, Submitting
    <3>3. QED
      BY <1>3, <3>1, <3>2
  <2>2. promised[t] = {}
    BY <2>1 DEF PromiseInv, Promise, Wrapping, Submitting, Clearing
  <2>3. Promise(t)'
    BY <2>1, <2>2 DEF Promise
  <2>4. ASSUME NEW u \in Threads, u # t PROVE Promise(u)'
    <3>1. pc'[u] = pc[u] /\ \A v \in Threads : pc'[v] \in ClosingAt => pc[v] \in ClosingAt
      BY <1>1, <2>1, <2>4 DEF Wrapping, Submitting
    <3>2. promised[u] # {} /\ pc[u] = "closeWriter" => writer' = writer /\ ct' = ct
      BY <1>3, WriterStays
    <3>3. QED
      BY <2>1, <2>4, <3>1, <3>2, PromiseKept
  <2>5. QED
    BY <2>3, <2>4 DEF PromiseInv
<1>4. ASSUME NEW t \in Threads, CloseBegin(t) PROVE PromiseInv'
  <2>1. /\ pc[t] = "idle"
        /\ UNCHANGED <<ct, writer, target>>
        /\ pc' = [pc EXCEPT ![t] = IF writer # None THEN "closeWriter"
                                   ELSE IF ct # None THEN "closeOrphan" ELSE "flushed"]
    BY <1>4 DEF CloseBegin, Goto
  <2>2. ASSUME NEW u \in Threads, u # t PROVE Promise(u)'
    <3>1. promised'[u] \in {promised[u], {}}
      BY <1>4, <2>2 DEF CloseBegin
    <3>2. pc[u] \in ClosingAt => promised'[u] = {}
      BY <1>4, <2>2 DEF CloseBegin, Overlapped
    <3>3. CASE pc[u] \in ClosingAt
      BY <3>2, <3>3 DEF Promise
    <3>4. CASE pc[u] \notin ClosingAt
      BY <1>1, <2>1, <2>2, <3>1, <3>4, PromiseKept
    <3>5. QED
      BY <3>3, <3>4
  <2>3. Promise(t)'
    <3>1. CASE Overlapped(t)
      BY <1>4, <3>1 DEF CloseBegin, Promise
    <3>2. CASE ~Overlapped(t)
      <4>1. promised'[t] = Accepted(writer)
        BY <1>4, <3>2 DEF CloseBegin
      <4>2. CASE Accepted(writer) = {}
        BY <4>1, <4>2 DEF Promise
      <4>3. CASE Accepted(writer) # {}
        <5>1. writer # None /\ ct = writer /\ writer \in Sessions
          BY <4>3 DEF Accepted, TypeOK, MaybeSession
        <5>2. pc'[t] = "closeWriter" /\ writer' = writer /\ ct' = ct
          BY <1>1, <2>1, <5>1
        <5>3. ~wclosed[writer]
          <6>1. \A u \in Threads : pc[u] \notin {"sentinel", "join", "clearWriter"}
            BY <2>1, <3>2 DEF Overlapped, ClosingAt
          <6>2. QED
            BY <5>1, <6>1 DEF ClosedInv
        <5>4. /\ wstate[writer] \notin {"draining", "exited"}
              /\ \A i \in 1..Len(queue[writer]) : queue[writer][i] # Sentinel
          BY <5>1, <5>3 DEF SentinelInv
        <5>5. Accepted(writer) \subseteq Ahead[writer]
          <6>1. queue[writer] \in Seq(Calls \cup {Sentinel})
            BY <5>1 DEF TypeOK
          <6>2. DOMAIN queue[writer] = 1..Len(queue[writer]) /\ Len(queue[writer]) \in Nat
            BY <6>1, LenProperties
          <6>3. \A i \in 1..Len(queue[writer]) : \A j \in 1..i : queue[writer][j] # Sentinel
            BY <5>4, <6>2
          <6>4. ASSUME NEW c \in Accepted(writer) PROVE c \in Ahead[writer]
            <7>1. /\ c \in Calls
                  /\ c = running[writer] \/ \E i \in 1..Len(queue[writer]) : queue[writer][i] = c
              BY <5>1, <6>2 DEF Accepted
            <7>2. QED
              BY <5>1, <5>4, <6>3, <7>1 DEF Ahead
          <6>5. QED
            BY <6>4
        <5>6. Ahead' = Ahead
          BY <1>4 DEF CloseBegin, Ahead, writerVars
        <5>7. \A u \in Threads : pc'[u] \in ClosingAt => u = t
          BY <1>1, <2>1, <3>2 DEF Overlapped
        <5>8. Finished' = Finished
          BY <1>4 DEF CloseBegin, Finished, callVars
        <5>9. QED
          BY <4>1, <5>1, <5>2, <5>5, <5>6, <5>7, <5>8 DEF Promise, Clearing
      <4>4. QED
        BY <4>2, <4>3
    <3>3. QED
      BY <3>1, <3>2
  <2>4. QED
    BY <2>2, <2>3 DEF PromiseInv
<1>5. ASSUME NEW t \in Threads,
             \/ CloseWriter(t) \/ CloseRaises(t) \/ PutSentinel(t) \/ JoinEnds(t)
             \/ ClearWriter(t) \/ ClearStore(t) \/ CloseOrphan(t)
      PROVE  PromiseInv'
  <2>1. /\ pc[t] \in ClosingAt
        /\ \E here \in ClosingAt \cup Returned : pc' = [pc EXCEPT ![t] = here]
        /\ \A u \in Threads \ {t} : target'[u] = target[u] /\ promised'[u] = promised[u]
        /\ promised'[t] \in {promised[t], {}}
    BY <1>1, <1>2, <1>5 DEF CloseWriter, CloseRaises, PutSentinel, JoinEnds, ClearWriter,
         ClearStore, CloseOrphan, Goto
  <2>2. \A v \in Threads : pc'[v] \in ClosingAt => pc[v] \in ClosingAt
    BY <1>1, <2>1
  <2>3. ASSUME NEW u \in Threads, u # t PROVE Promise(u)'
    <3>1. CASE promised[u] = {}
      BY <2>1, <2>3, <3>1 DEF Promise
    <3>2. CASE promised[u] # {}
      <4>1. pc[u] \notin ClosingAt
        BY <2>1, <2>3, <3>2 DEF PromiseInv, Promise
      <4>2. QED
        BY <1>1, <2>1, <2>2, <2>3, <4>1, PromiseKept
    <3>3. QED
      BY <3>1, <3>2
  <2>4. CASE promised'[t] = {}
    BY <2>3, <2>4 DEF PromiseInv, Promise
  <2>5. CASE promised'[t] # {}
    <3>1. promised[t] # {} /\ promised'[t] = promised[t] /\ Promise(t)
      BY <2>1, <2>5 DEF PromiseInv
    <3>2. \A u \in Threads : pc'[u] \in ClosingAt => u = t
      BY <2>1, <2>2, <3>1 DEF Promise
    <3>3. /\ Finished \subseteq Finished'
          /\ \A w \in Sessions : Ahead[w] \subseteq Ahead'[w] \cup Finished'
      BY KeptStep
    <3>4. CASE CloseWriter(t)
      <4>1. writer \in Sessions /\ promised[t] \subseteq Finished \cup Ahead[writer]
        BY <3>1, <3>4 DEF Promise, CloseWriter, TypeOK, MaybeSession
      <4>2. ~wclosed[writer]
        BY <3>1, <3>4 DEF ClosedInv, Promise, CloseWriter
      <4>3. pc'[t] = "sentinel" /\ target'[t] = writer
        BY <1>1, <1>2, <3>4, <4>2 DEF CloseWriter, Goto
      <4>4. Promise(t)'
        BY <3>1, <3>2, <3>3, <4>1, <4>3 DEF Promise, Clearing
      <4>5. QED
        BY <2>3, <4>4 DEF PromiseInv
    <3>5. CASE CloseRaises(t)
      BY <3>1, <3>5 DEF CloseRaises, Promise, Clearing
    <3>6. CASE JoinEnds(t)
      <4>1. pc[t] = "join" /\ pc'[t] = "clearWriter"
        BY <1>1, <3>6 DEF JoinEnds, Goto
      <4>2. wstate[target[t]] = "exited" /\ target[t] \in Sessions
        BY <1>2, <2>5, <3>6 DEF JoinEnds, SessionInv
      <4>3. Ahead[target[t]] = {}
        BY <4>2 DEF Ahead
      <4>4. promised[t] \subseteq Finished
        BY <3>1, <4>1, <4>3 DEF Promise
      <4>5. Promise(t)'
        BY <3>1, <3>2, <3>3, <4>1, <4>4 DEF Promise, Clearing
      <4>6. QED
        BY <2>3, <4>5 DEF PromiseInv
    <3>7. CASE PutSentinel(t)
      <4>1. pc[t] = "sentinel" /\ pc'[t] = "join" /\ target' = target
        BY <1>1, <3>7 DEF PutSentinel, Goto
      <4>2. target[t] \in Sessions
        BY <4>1 DEF SessionInv
      <4>3. Promise(t)'
        BY <3>1, <3>2, <3>3, <4>1, <4>2 DEF Promise, Clearing
      <4>4. QED
        BY <2>3, <4>3 DEF PromiseInv
    <3>8. CASE ClearWriter(t) \/ ClearStore(t)
      <4>1. pc[t] \in {"clearWriter", "clearStore"} /\ pc'[t] \in {"clearStore", "flushed"}
        BY <1>1, <3>8 DEF ClearWriter, ClearStore, Goto
      <4>2. Promise(t)'
        BY <3>1, <3>2, <3>3, <4>1 DEF Promise, Clearing
      <4>3. QED
        BY <2>3, <4>2 DEF PromiseInv
    <3>9. CASE CloseOrphan(t)
      BY <3>1, <3>9 DEF CloseOrphan, Promise, Clearing
    <3>10. QED
      BY <1>5, <3>4, <3>5, <3>6, <3>7, <3>8, <3>9
  <2>6. QED
    BY <2>4, <2>5
<1>6. ASSUME NEW t \in Threads, Resume(t) PROVE PromiseInv'
  <2>1. /\ pc' = [pc EXCEPT ![t] = "idle"]
        /\ promised' = [promised EXCEPT ![t] = {}]
        /\ UNCHANGED <<target, writer, ct>>
    BY <1>6 DEF Resume, Goto
  <2>2. \A v \in Threads : pc'[v] \in ClosingAt => pc[v] \in ClosingAt
    BY <1>1, <2>1
  <2>3. ASSUME NEW u \in Threads, u # t PROVE Promise(u)'
    BY <1>1, <1>2, <2>1, <2>2, <2>3, PromiseKept
  <2>4. Promise(t)'
    BY <1>2, <2>1 DEF Promise
  <2>5. QED
    BY <2>3, <2>4 DEF PromiseInv
<1>7. CASE (\E w \in Sessions : Write(w)) \/ UNCHANGED vars
  <2>1. UNCHANGED <<promised, pc, target, writer, ct>>
    BY <1>7 DEF Write, OpenNothing, OpenBegin, OpenEnd, TakeCall, PersistEnds,
         PersistStale, OpenOnDemand, TakeSentinel, WriterExits, vars
  <2>2. ASSUME NEW u \in Threads PROVE Promise(u)'
    BY <2>1, PromiseKept
  <2>3. QED
    BY <2>2 DEF PromiseInv
<1>8. QED
  BY <1>3, <1>4, <1>5, <1>6, <1>7 DEF Next, Close

-----------------------------------------------------------------------------

(* A tracer that nobody has used yet. *)
LEMMA InitInv == Init => Inv
<1> SUFFICES ASSUME Init PROVE Inv
  OBVIOUS
<1> USE TracerAssumption DEF Init
<1>1. TypeOK
  BY DEF TypeOK, MaybeSession, Sessions
<1>2. CountInv
  <2>1. Closers = {}
    BY DEF Closers, ClosingAt
  <2>2. IsFiniteSet(Closers) /\ Cardinality(Closers) = 0
    BY <2>1, FS_EmptySet
  <2>3. QED
    BY <2>2 DEF CountInv
<1>3. LockInv /\ SessionInv
  BY DEF LockInv, SessionInv, InSetup, Starting
<1>4. HandInv /\ QueueInv /\ RunningInv /\ SentinelInv
  BY DEF HandInv, QueueInv, RunningInv, SentinelInv, Submitting
<1>5. 1 \in Sessions
  BY DEF Sessions
<1>6. FreshInv
  BY DEF FreshInv, Starting, Binding, Submitting, ClosingAt, Returned
<1>7. FreshStoreInv
  BY <1>5 DEF FreshStoreInv
<1>8. ClosedInv /\ PairInv /\ PromiseInv
  BY DEF ClosedInv, PairInv, PromiseInv, Promise
<1>9. StaleOnlyAfterClose
  BY DEF StaleOnlyAfterClose
<1>10. QED
  BY <1>1, <1>2, <1>3, <1>4, <1>6, <1>7, <1>8, <1>9 DEF Inv

(* The inductive invariant: who holds the lock, how many sessions there can  *)
(* be, where every call is, and what a close still owes.                     *)
THEOREM Invariance == Spec => []Inv
<1>1. Init => Inv
  BY InitInv
<1>2. Inv /\ [Next]_vars => Inv'
  BY TypeStep, LockStep, SessionStep, CountStep, HandStep, QueueStep, RunningStep,
     SentinelStep, FreshStep, FreshStoreStep, ClosedStep, PairStep, PromiseStep, StaleStep
     DEF Inv
<1>3. QED
  BY <1>1, <1>2, PTL DEF Spec

(* The variables keep their types; in particular no session is ever made     *)
(* that the closes so far do not account for.                                *)
THEOREM TypeCorrect == Spec => []TypeOK
<1>1. Inv => TypeOK
  BY DEF Inv
<1>2. QED
  BY <1>1, Invariance, PTL

(* `_ensure_store` makes one session, and one more for each close between,   *)
(* however many threads wrap and record at once.                             *)
THEOREM EnsuredOnce == Spec => []OneSessionPerRun
<1>1. ASSUME Inv PROVE OneSessionPerRun
  <2>1. created \in Nat /\ closes \in Nat /\ Cardinality(Closers) \in Nat
    BY <1>1, FS_CardinalityType, TracerAssumption DEF Inv, TypeOK, CountInv
  <2>2. created <= closes + 1
    BY <1>1, <2>1 DEF Inv, CountInv
  <2>3. QED
    BY <1>1, <2>2 DEF Inv, FreshInv, OneSessionPerRun
<1>2. QED
  BY <1>1, Invariance, PTL

(* Whatever mix of wraps and overlapping closes came before: when none of    *)
(* them is under way a handle has its own open writer, or there is none and  *)
(* the next wrap makes one.  No close leaves the tracer half cleared.        *)
THEOREM NeverHalfCleared == Spec => []HandleComesWithWriter
<1>1. ASSUME Inv PROVE HandleComesWithWriter
  <2>1. SUFFICES ASSUME ct # None, setupLock = None,
                        \A t \in Threads : pc[t] \notin Clearing
                 PROVE  writer = ct /\ wct[ct] = ct /\ ~wclosed[ct]
    BY DEF HandleComesWithWriter
  <2>2. \A t \in Threads : pc[t] \notin Starting
    BY <1>1, <2>1, TracerAssumption DEF Inv, LockInv, InSetup, Starting
  <2>3. QED
    BY <1>1, <2>1, <2>2 DEF Inv, PairInv
<1>2. QED
  BY <1>1, Invariance, PTL

(* Until the first close no interleaving of wraps, calls and the writer      *)
(* thread's open costs a record.                                             *)
THEOREM LossNeedsClose == Spec => []StaleOnlyAfterClose
<1>1. Inv => StaleOnlyAfterClose
  BY DEF Inv
<1>2. QED
  BY <1>1, Invariance, PTL

(* A close that is alone and whose join did not run out has persisted every  *)
(* record that was queued when it began, whoever wraps or records meanwhile. *)
THEOREM CloseKeepsPromise == Spec => []CloseFlushes
<1>1. ASSUME Inv PROVE CloseFlushes
  BY <1>1 DEF Inv, PromiseInv, Promise, Finished, CloseFlushes
<1>2. QED
  BY <1>1, Invariance, PTL

=============================================================================
