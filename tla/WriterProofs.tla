---------------------------- MODULE WriterProofs ----------------------------
(***************************************************************************)
(* Proofs about Writer, for any number of hosts, closers and records and   *)
(* any capacity of the queue.                                              *)
(***************************************************************************)
EXTENDS Writer, SequenceTheorems, TLAPS

(* A closer past the point where it set `_closed`. *)
Closing(c) == cpc[c] \in {"putting", "joining", "flushed", "gaveup"}

(* A record between `submit`'s check and its put is in one host's hands. *)
OfferInv ==
  /\ \A h \in Hosts : offering[h] # NoJob => fate[offering[h]] = "offered"
  /\ \A g, h \in Hosts : offering[g] # NoJob /\ offering[g] = offering[h] => g = h

(* The queue holds the queued records, in the order of their puts. *)
QueueInv ==
  /\ \A i \in 1..Len(queue) : queue[i] \in Jobs => fate[queue[i]] = "queued"
  /\ \A j \in Jobs : fate[j] = "queued" => \E i \in 1..Len(queue) : queue[i] = j
  /\ \A i, k \in 1..Len(queue) :
       i < k /\ queue[i] \in Jobs /\ queue[k] \in Jobs =>
         ticket[queue[i]] < ticket[queue[k]]
  /\ \A j \in Jobs : fate[j] \in {"queued", "running"} => ticket[j] < tickets

(* The record in the writer's hands was put before every queued one. *)
CurInv ==
  /\ cur # NoJob => /\ wpc \in {"serving", "draining"}
                    /\ fate[cur] = "running"
  /\ \A j \in Jobs : fate[j] = "running" => j = cur
  /\ \A j \in Jobs : cur # NoJob /\ fate[j] = "queued" => ticket[cur] < ticket[j]

(* What the writer thread knows about its store. *)
StoreInv ==
  /\ wpc = "opening" =>
       /\ session = "unopened" /\ storeReady /\ stored = <<>>
       /\ ~jobWarned /\ recWarned = {}
  /\ wpc \in {"serving", "draining", "closing"} =>
       session = (IF storeReady THEN "open" ELSE "failed")
  /\ wpc = "exited" => session = (IF storeReady THEN "closed" ELSE "failed")
  /\ ~storeReady => stored = <<>> /\ ~jobWarned /\ recWarned = {} /\ setupWarned

(* One closer shuts the writer down; its sentinel is behind every record     *)
(* owed, so the drain starts when those are settled.                         *)
CloseInv ==
  /\ \A c \in Closers : Closing(c) => closed
  /\ \A c, d \in Closers : Closing(c) /\ Closing(d) => c = d
  /\ \A c \in Closers : cpc[c] = "putting" => wpc \in {"opening", "serving"}
  /\ \A c \in Closers : cpc[c] = "flushed" => wpc = "exited"
  /\ ~closed => owed = {} /\ racing = {} /\ wpc \in {"opening", "serving"}
  /\ \A i \in 1..Len(queue) : queue[i] = Sentinel =>
       /\ closed
       /\ \A c \in Closers : cpc[c] # "putting"
       /\ \A k \in 1..Len(queue) : i < k => queue[k] \notin owed
  /\ \A j \in owed : fate[j] \in {"queued", "running"} \cup Settled
  /\ wpc \in {"draining", "closing", "exited"} => \A j \in owed : fate[j] \in Settled

(* After `_closed` is set, only racing records can still be put. *)
RacingInv ==
  /\ closed => \A j \in Jobs : fate[j] = "offered" => j \in racing
  /\ StrandedWereRacing

Inv ==
  /\ TypeOK
  /\ OfferInv
  /\ QueueInv
  /\ CurInv
  /\ StoreInv
  /\ CloseInv
  /\ RacingInv
  /\ LossIsAnnounced

-----------------------------------------------------------------------------

(* The tail of the queue is the queue without its first place. *)
LEMMA TailOfQueue ==
  ASSUME TypeOK, queue # <<>>
  PROVE  /\ Len(queue) \in Nat \ {0}
         /\ Head(queue) = queue[1]
         /\ Len(Tail(queue)) = Len(queue) - 1
         /\ \A i \in 1..Len(Tail(queue)) : i + 1 \in 1..Len(queue) /\ Tail(queue)[i] = queue[i + 1]
         /\ \A i \in 2..Len(queue) : i - 1 \in 1..Len(Tail(queue)) /\ Tail(queue)[i - 1] = queue[i]
<1>1. queue \in Seq(Jobs \cup {Sentinel})
  BY DEF TypeOK
<1>2. Len(queue) \in Nat \ {0}
  BY <1>1, EmptySeq
<1>3. /\ Len(Tail(queue)) = Len(queue) - 1
      /\ \A i \in 1..Len(Tail(queue)) : Tail(queue)[i] = queue[i + 1]
  BY <1>1, HeadTailProperties
<1>4. \A i \in 2..Len(queue) : i - 1 \in 1..Len(Tail(queue)) /\ Tail(queue)[i - 1] = queue[i]
  BY <1>2, <1>3
<1>5. QED
  BY <1>1, <1>2, <1>3, <1>4

(* Every step keeps the types of the variables.                             *)
LEMMA TypeStep == TypeOK /\ [Next]_vars => TypeOK'
<1> SUFFICES ASSUME TypeOK, [Next]_vars PROVE TypeOK'
  OBVIOUS
<1> USE WriterAssumption DEF TypeOK, Fates, warnVars, threadVars, historyVars
<1>1. ASSUME NEW h \in Hosts, NEW j \in Jobs, SubmitCheck(h, j) PROVE TypeOK'
  BY <1>1 DEF SubmitCheck
<1>2. ASSUME NEW h \in Hosts, NEW j \in Jobs, SubmitRefused(h, j) PROVE TypeOK'
  BY <1>2 DEF SubmitRefused, Degrade
<1>3. ASSUME NEW h \in Hosts, SubmitPut(h) PROVE TypeOK'
  BY <1>3 DEF SubmitPut
<1>4. ASSUME NEW h \in Hosts, SubmitOverflow(h) PROVE TypeOK'
  BY <1>4 DEF SubmitOverflow, Degrade
<1>5. CASE OpenStore
  BY <1>5 DEF OpenStore
<1>6. CASE OpenStoreFails
  BY <1>6 DEF OpenStoreFails
<1>7. CASE TakeJob
  BY <1>7 DEF TakeJob
<1>8. CASE TakeSentinel
  BY <1>8 DEF TakeSentinel
<1>9. CASE SkipJob
  BY <1>9 DEF SkipJob
<1>10. CASE StoreJob
  BY <1>10 DEF StoreJob
<1>11. CASE JobFails
  BY <1>11 DEF JobFails
<1>12. CASE JobRaises
  BY <1>12 DEF JobRaises
<1>13. CASE DrainDone
  BY <1>13 DEF DrainDone
<1>14. CASE CloseStore
  BY <1>14 DEF CloseStore
<1>15. ASSUME NEW c \in Closers, CloseBegin(c) PROVE TypeOK'
  BY <1>15 DEF CloseBegin
<1>16. ASSUME NEW c \in Closers, CloseAgain(c) PROVE TypeOK'
  BY <1>16 DEF CloseAgain
<1>17. ASSUME NEW c \in Closers, PutSentinel(c) PROVE TypeOK'
  BY <1>17 DEF PutSentinel
<1>18. ASSUME NEW c \in Closers, JoinDone(c) \/ JoinTimeout(c) PROVE TypeOK'
  BY <1>18 DEF JoinDone, JoinTimeout
<1>19. CASE UNCHANGED vars
  BY <1>19 DEF vars
<1>20. QED
  BY <1>1, <1>2, <1>3, <1>4, <1>5, <1>6, <1>7, <1>8, <1>9, <1>10, <1>11, <1>12,
     <1>13, <1>14, <1>15, <1>16, <1>17, <1>18, <1>19
     DEF Next, Submit, Run, Close, Idle

(* A record being offered is offered by one host. *)
LEMMA OfferStep == TypeOK /\ OfferInv /\ QueueInv /\ CurInv /\ [Next]_vars => OfferInv'
<1> SUFFICES ASSUME TypeOK, OfferInv, QueueInv, CurInv, [Next]_vars PROVE OfferInv'
  OBVIOUS
<1> USE WriterAssumption DEF TypeOK, OfferInv, QueueInv, CurInv, warnVars, threadVars, historyVars
<1>1. ASSUME NEW h \in Hosts, NEW j \in Jobs, SubmitCheck(h, j) PROVE OfferInv'
  BY <1>1 DEF SubmitCheck
<1>2. ASSUME NEW h \in Hosts, NEW j \in Jobs, SubmitRefused(h, j) PROVE OfferInv'
  BY <1>2 DEF SubmitRefused, Degrade
<1>3. ASSUME NEW h \in Hosts, SubmitPut(h) PROVE OfferInv'
  BY <1>3 DEF SubmitPut
<1>4. ASSUME NEW h \in Hosts, SubmitOverflow(h) PROVE OfferInv'
  BY <1>4 DEF SubmitOverflow, Degrade
<1>5. CASE TakeJob
  BY <1>5 DEF TakeJob
<1>6. CASE SkipJob
  BY <1>6 DEF SkipJob
<1>7. CASE StoreJob
  BY <1>7 DEF StoreJob
<1>8. CASE JobFails
  BY <1>8 DEF JobFails
<1>9. CASE JobRaises
  BY <1>9 DEF JobRaises
<1>10. CASE \/ OpenStore
            \/ OpenStoreFails
            \/ TakeSentinel
            \/ DrainDone
            \/ CloseStore
            \/ (\E c \in Closers : CloseBegin(c))
            \/ (\E c \in Closers : CloseAgain(c))
            \/ (\E c \in Closers : PutSentinel(c))
            \/ (\E c \in Closers : JoinDone(c))
            \/ (\E c \in Closers : JoinTimeout(c))
            \/ UNCHANGED vars
  BY <1>10 DEF vars, OpenStore, OpenStoreFails, TakeSentinel, DrainDone,
     CloseStore, CloseBegin, CloseAgain, PutSentinel, JoinDone, JoinTimeout
<1>11. QED
  BY <1>1, <1>2, <1>3, <1>4, <1>5, <1>6, <1>7, <1>8, <1>9, <1>10
     DEF Next, Submit, Run, Close, Idle

(* The queue keeps the order of the puts. *)
LEMMA QueueStep == TypeOK /\ OfferInv /\ QueueInv /\ CurInv /\ [Next]_vars => QueueInv'
<1> SUFFICES ASSUME TypeOK, OfferInv, QueueInv, CurInv, [Next]_vars PROVE QueueInv'
  OBVIOUS
<1> USE WriterAssumption DEF TypeOK, OfferInv, QueueInv, CurInv, warnVars, threadVars, historyVars
<1>1. ASSUME NEW h \in Hosts, NEW j \in Jobs, SubmitCheck(h, j) PROVE QueueInv'
  BY <1>1 DEF SubmitCheck
<1>2. ASSUME NEW h \in Hosts, NEW j \in Jobs, SubmitRefused(h, j) PROVE QueueInv'
  BY <1>2 DEF SubmitRefused, Degrade
<1>3. ASSUME NEW h \in Hosts, SubmitPut(h) PROVE QueueInv'
  BY <1>3 DEF SubmitPut
<1>4. ASSUME NEW h \in Hosts, SubmitOverflow(h) PROVE QueueInv'
  BY <1>4 DEF SubmitOverflow, Degrade
<1>5. CASE TakeJob
  <2>1. queue # <<>> /\ queue' = Tail(queue) /\ UNCHANGED <<ticket, tickets>>
    BY <1>5 DEF TakeJob
  <2>2. fate' = [fate EXCEPT ![queue[1]] = "running"] /\ queue[1] \in Jobs
    BY <1>5, TailOfQueue DEF TakeJob
  <2>3. \A j \in Jobs : fate[j] = "queued" /\ j # queue[1] => \E i \in 2..Len(queue) : queue[i] = j
    BY <2>1, TailOfQueue
  <2>4. \A j \in Jobs : fate'[j] = "queued" => \E i \in 1..Len(queue') : queue'[i] = j
    <3>1. SUFFICES ASSUME NEW j \in Jobs, fate'[j] = "queued"
                   PROVE \E i \in 1..Len(queue') : queue'[i] = j
      OBVIOUS
    <3>2. PICK i \in 2..Len(queue) : queue[i] = j
      BY <2>2, <2>3, <3>1
    <3>3. i - 1 \in 1..Len(queue') /\ queue'[i - 1] = j
      BY <2>1, <3>2, TailOfQueue
    <3>4. QED
      BY <3>3
  <2>5. \A i \in 1..Len(queue') : queue'[i] \in Jobs => queue'[i] # queue[1] /\ fate'[queue'[i]] = "queued"
    BY <2>1, <2>2, TailOfQueue
  <2>6. \A i, k \in 1..Len(queue') :
          i < k /\ queue'[i] \in Jobs /\ queue'[k] \in Jobs =>
            ticket'[queue'[i]] < ticket'[queue'[k]]
    <3>1. SUFFICES ASSUME NEW i \in 1..Len(queue'), NEW k \in 1..Len(queue'), i < k,
                          queue'[i] \in Jobs, queue'[k] \in Jobs
                   PROVE ticket'[queue'[i]] < ticket'[queue'[k]]
      OBVIOUS
    <3>2. /\ i + 1 \in 1..Len(queue) /\ queue'[i] = queue[i + 1]
          /\ k + 1 \in 1..Len(queue) /\ queue'[k] = queue[k + 1]
      BY <2>1, TailOfQueue
    <3>3. QED
      BY <2>1, <3>1, <3>2
  <2>7. QED
    BY <2>1, <2>2, <2>4, <2>5, <2>6
<1>6. CASE TakeSentinel
  <2>1. queue # <<>> /\ queue' = Tail(queue) /\ UNCHANGED <<ticket, tickets, fate>>
    BY <1>6 DEF TakeSentinel
  <2>2. queue[1] \notin Jobs
    BY <1>6, TailOfQueue DEF TakeSentinel
  <2>3. \A j \in Jobs : fate[j] = "queued" => \E i \in 2..Len(queue) : queue[i] = j
    BY <2>1, <2>2, TailOfQueue
  <2>4. \A j \in Jobs : fate[j] = "queued" => \E i \in 1..Len(queue') : queue'[i] = j
    <3>1. SUFFICES ASSUME NEW j \in Jobs, fate[j] = "queued"
                   PROVE \E i \in 1..Len(queue') : queue'[i] = j
      OBVIOUS
    <3>2. PICK i \in 2..Len(queue) : queue[i] = j
      BY <2>3, <3>1
    <3>3. i - 1 \in 1..Len(queue') /\ queue'[i - 1] = j
      BY <2>1, <3>2, TailOfQueue
    <3>4. QED
      BY <3>3
  <2>5. \A i \in 1..Len(queue') : queue'[i] \in Jobs => fate[queue'[i]] = "queued"
    BY <2>1, TailOfQueue
  <2>6. \A i, k \in 1..Len(queue') :
          i < k /\ queue'[i] \in Jobs /\ queue'[k] \in Jobs =>
            ticket[queue'[i]] < ticket[queue'[k]]
    <3>1. SUFFICES ASSUME NEW i \in 1..Len(queue'), NEW k \in 1..Len(queue'), i < k,
                          queue'[i] \in Jobs, queue'[k] \in Jobs
                   PROVE ticket[queue'[i]] < ticket[queue'[k]]
      OBVIOUS
    <3>2. /\ i + 1 \in 1..Len(queue) /\ queue'[i] = queue[i + 1]
          /\ k + 1 \in 1..Len(queue) /\ queue'[k] = queue[k + 1]
      BY <2>1, TailOfQueue
    <3>3. QED
      BY <2>1, <3>1, <3>2
  <2>7. QED
    BY <2>1, <2>4, <2>5, <2>6
<1>7. CASE SkipJob
  BY <1>7 DEF SkipJob
<1>8. CASE StoreJob
  BY <1>8 DEF StoreJob
<1>9. CASE JobFails
  BY <1>9 DEF JobFails
<1>10. CASE JobRaises
  BY <1>10 DEF JobRaises
<1>11. ASSUME NEW c \in Closers, PutSentinel(c) PROVE QueueInv'
  BY <1>11 DEF PutSentinel
<1>12. CASE \/ OpenStore
            \/ OpenStoreFails
            \/ DrainDone
            \/ CloseStore
            \/ (\E c \in Closers : CloseBegin(c))
            \/ (\E c \in Closers : CloseAgain(c))
            \/ (\E c \in Closers : JoinDone(c))
            \/ (\E c \in Closers : JoinTimeout(c))
            \/ UNCHANGED vars
  <2>1. UNCHANGED <<queue, fate, ticket, tickets>>
    BY <1>12 DEF vars, OpenStore, OpenStoreFails, DrainDone, CloseStore,
         CloseBegin, CloseAgain, JoinDone, JoinTimeout
  <2>2. QED
    BY <2>1
<1>13. QED
  BY <1>1, <1>2, <1>3, <1>4, <1>5, <1>6, <1>7, <1>8, <1>9, <1>10, <1>11, <1>12
     DEF Next, Submit, Run, Close, Idle

(* The record in hand stays the oldest accepted one. *)
LEMMA CurStep == TypeOK /\ OfferInv /\ QueueInv /\ CurInv /\ [Next]_vars => CurInv'
<1> SUFFICES ASSUME TypeOK, OfferInv, QueueInv, CurInv, [Next]_vars PROVE CurInv'
  OBVIOUS
<1> USE WriterAssumption DEF TypeOK, OfferInv, QueueInv, CurInv, warnVars, threadVars, historyVars
<1>1. ASSUME NEW h \in Hosts, NEW j \in Jobs, SubmitCheck(h, j) PROVE CurInv'
  BY <1>1 DEF SubmitCheck
<1>2. ASSUME NEW h \in Hosts, NEW j \in Jobs, SubmitRefused(h, j) PROVE CurInv'
  BY <1>2 DEF SubmitRefused, Degrade
<1>3. ASSUME NEW h \in Hosts, SubmitPut(h) PROVE CurInv'
  BY <1>3 DEF SubmitPut
<1>4. ASSUME NEW h \in Hosts, SubmitOverflow(h) PROVE CurInv'
  BY <1>4 DEF SubmitOverflow, Degrade
<1>5. CASE TakeJob
  <2>1. cur' = queue[1] /\ queue[1] \in Jobs /\ UNCHANGED <<ticket, wpc>>
    BY <1>5, TailOfQueue DEF TakeJob
  <2>2. fate' = [fate EXCEPT ![queue[1]] = "running"]
    BY <1>5, TailOfQueue DEF TakeJob
  <2>3. \A j \in Jobs : fate[j] # "running"
    BY <1>5 DEF TakeJob
  <2>4. \A j \in Jobs : fate[j] = "queued" /\ j # queue[1] => ticket[queue[1]] < ticket[j]
    <3>1. SUFFICES ASSUME NEW j \in Jobs, fate[j] = "queued", j # queue[1]
                   PROVE ticket[queue[1]] < ticket[j]
      OBVIOUS
    <3>2. PICK i \in 1..Len(queue) : queue[i] = j
      BY <3>1
    <3>3. 1 \in 1..Len(queue) /\ 1 < i
      BY <3>1, <3>2
    <3>4. QED
      BY <2>1, <3>2, <3>3
  <2>5. wpc \in {"serving", "draining"}
    BY <1>5 DEF TakeJob
  <2>6. QED
    BY <2>1, <2>2, <2>3, <2>4, <2>5
<1>6. CASE TakeSentinel
  BY <1>6 DEF TakeSentinel
<1>7. CASE SkipJob
  BY <1>7 DEF SkipJob
<1>8. CASE StoreJob
  BY <1>8 DEF StoreJob
<1>9. CASE JobFails
  BY <1>9 DEF JobFails
<1>10. CASE JobRaises
  BY <1>10 DEF JobRaises
<1>11. CASE DrainDone
  BY <1>11 DEF DrainDone
<1>12. CASE CloseStore
  BY <1>12 DEF CloseStore
<1>13. ASSUME NEW c \in Closers, PutSentinel(c) PROVE CurInv'
  BY <1>13 DEF PutSentinel
<1>14. CASE \/ OpenStore
            \/ OpenStoreFails
            \/ (\E c \in Closers : CloseBegin(c))
            \/ (\E c \in Closers : CloseAgain(c))
            \/ (\E c \in Closers : JoinDone(c))
            \/ (\E c \in Closers : JoinTimeout(c))
            \/ UNCHANGED vars
  BY <1>14 DEF vars, OpenStore, OpenStoreFails, CloseBegin, CloseAgain,
     JoinDone, JoinTimeout
<1>15. QED
  BY <1>1, <1>2, <1>3, <1>4, <1>5, <1>6, <1>7, <1>8, <1>9, <1>10, <1>11,
     <1>12, <1>13, <1>14
     DEF Next, Submit, Run, Close, Idle

(* The thread opens its store once, writes while it is open, closes it once. *)
LEMMA StoreStep == TypeOK /\ CurInv /\ StoreInv /\ [Next]_vars => StoreInv'
<1> SUFFICES ASSUME TypeOK, CurInv, StoreInv, [Next]_vars PROVE StoreInv'
  OBVIOUS
<1> USE WriterAssumption DEF TypeOK, CurInv, StoreInv, warnVars, threadVars, historyVars
<1>1. CASE OpenStore
  BY <1>1 DEF OpenStore
<1>2. CASE OpenStoreFails
  BY <1>2 DEF OpenStoreFails
<1>3. CASE TakeJob
  BY <1>3 DEF TakeJob
<1>4. CASE TakeSentinel
  BY <1>4 DEF TakeSentinel
<1>5. CASE SkipJob
  BY <1>5 DEF SkipJob
<1>6. CASE StoreJob
  BY <1>6 DEF StoreJob
<1>7. CASE JobFails
  BY <1>7 DEF JobFails
<1>8. CASE JobRaises
  BY <1>8 DEF JobRaises
<1>9. CASE DrainDone
  BY <1>9 DEF DrainDone
<1>10. CASE CloseStore
  BY <1>10 DEF CloseStore
<1>11. CASE \/ (\E h \in Hosts, j \in Jobs : SubmitCheck(h, j))
            \/ (\E h \in Hosts, j \in Jobs : SubmitRefused(h, j))
            \/ (\E h \in Hosts : SubmitPut(h))
            \/ (\E h \in Hosts : SubmitOverflow(h))
            \/ (\E c \in Closers : CloseBegin(c))
            \/ (\E c \in Closers : CloseAgain(c))
            \/ (\E c \in Closers : PutSentinel(c))
            \/ (\E c \in Closers : JoinDone(c))
            \/ (\E c \in Closers : JoinTimeout(c))
            \/ UNCHANGED vars
  BY <1>11 DEF vars, SubmitCheck, SubmitRefused, SubmitPut, SubmitOverflow,
     CloseBegin, CloseAgain, PutSentinel, JoinDone, JoinTimeout, Degrade
<1>12. QED
  BY <1>1, <1>2, <1>3, <1>4, <1>5, <1>6, <1>7, <1>8, <1>9, <1>10, <1>11
     DEF Next, Submit, Run, Close, Idle

(* Records owed are settled before the sentinel is met. *)
LEMMA CloseStep == TypeOK /\ OfferInv /\ QueueInv /\ CurInv /\ CloseInv /\ [Next]_vars => CloseInv'
<1> SUFFICES ASSUME TypeOK, OfferInv, QueueInv, CurInv, CloseInv, [Next]_vars PROVE CloseInv'
  OBVIOUS
<1> USE WriterAssumption DEF TypeOK, OfferInv, QueueInv, CurInv, CloseInv, Closing, Settled, warnVars, threadVars, historyVars
<1>1. ASSUME NEW h \in Hosts, NEW j \in Jobs, SubmitCheck(h, j) PROVE CloseInv'
  BY <1>1 DEF SubmitCheck
<1>2. ASSUME NEW h \in Hosts, NEW j \in Jobs, SubmitRefused(h, j) PROVE CloseInv'
  BY <1>2 DEF SubmitRefused, Degrade
<1>3. ASSUME NEW h \in Hosts, SubmitPut(h) PROVE CloseInv'
  <2> DEFINE j == offering[h]
  <2>1. /\ j \in Jobs /\ fate[j] = "offered"
        /\ queue' = Append(queue, j) /\ fate' = [fate EXCEPT ![j] = "queued"]
        /\ UNCHANGED <<closed, cpc, wpc, owed, racing>>
    BY <1>3 DEF SubmitPut
  <2>2. j \notin owed
    BY <2>1
  <2>3. \A k \in owed : fate'[k] = fate[k]
    BY <2>1, <2>2
  <2>4. \A i \in 1..Len(queue') : queue'[i] = Sentinel => i \in 1..Len(queue) /\ queue[i] = Sentinel
    BY <2>1
  <2>5. \A k \in 1..Len(queue') : queue'[k] \in owed => k \in 1..Len(queue) /\ queue[k] = queue'[k]
    BY <2>1, <2>2
  <2>6. \A i \in 1..Len(queue') : queue'[i] = Sentinel =>
          /\ closed
          /\ \A c \in Closers : cpc[c] # "putting"
          /\ \A k \in 1..Len(queue') : i < k => queue'[k] \notin owed
    BY <2>4, <2>5
  <2>7. QED
    BY <2>1, <2>3, <2>6
<1>4. ASSUME NEW h \in Hosts, SubmitOverflow(h) PROVE CloseInv'
  BY <1>4 DEF SubmitOverflow, Degrade
<1>5. CASE OpenStore
  BY <1>5 DEF OpenStore
<1>6. CASE OpenStoreFails
  BY <1>6 DEF OpenStoreFails
<1>7. CASE TakeJob
  BY <1>7 DEF TakeJob
<1>8. CASE TakeSentinel
  <2>1. /\ queue # <<>> /\ queue' = Tail(queue) /\ wpc' = "draining"
        /\ UNCHANGED <<closed, cpc, fate, owed, racing>>
    BY <1>8 DEF TakeSentinel
  <2>2. queue[1] = Sentinel /\ 1 \in 1..Len(queue) /\ cur = NoJob
    BY <1>8, TailOfQueue DEF TakeSentinel
  <2>3. \A j \in owed : fate[j] # "queued"
    <3>1. SUFFICES ASSUME NEW j \in owed, fate[j] = "queued" PROVE FALSE
      OBVIOUS
    <3>2. PICK k \in 1..Len(queue) : queue[k] = j
      BY <3>1
    <3>3. k # 1 /\ 1 < k
      BY <2>2, <3>1, <3>2
    <3>4. QED
      BY <2>2, <3>1, <3>2, <3>3
  <2>4. \A j \in owed : fate[j] \in Settled
    BY <2>2, <2>3
  <2>5. \A i \in 1..Len(queue') : queue'[i] = Sentinel =>
          \A k \in 1..Len(queue') : i < k => queue'[k] \notin owed
    BY <2>1, TailOfQueue
  <2>6. closed /\ \A c \in Closers : cpc[c] # "putting"
    BY <2>2
  <2>7. \A c \in Closers : cpc[c] # "flushed"
    BY <1>8 DEF TakeSentinel
  <2>8. QED
    BY <2>1, <2>4, <2>5, <2>6, <2>7
<1>9. CASE SkipJob
  BY <1>9 DEF SkipJob
<1>10. CASE StoreJob
  BY <1>10 DEF StoreJob
<1>11. CASE JobFails
  BY <1>11 DEF JobFails
<1>12. CASE JobRaises
  BY <1>12 DEF JobRaises
<1>13. CASE DrainDone
  BY <1>13 DEF DrainDone
<1>14. CASE CloseStore
  BY <1>14 DEF CloseStore
<1>15. ASSUME NEW c \in Closers, CloseBegin(c) PROVE CloseInv'
  BY <1>15 DEF CloseBegin
<1>16. ASSUME NEW c \in Closers, PutSentinel(c) PROVE CloseInv'
  BY <1>16 DEF PutSentinel
<1>17. ASSUME NEW c \in Closers, JoinDone(c) PROVE CloseInv'
  BY <1>17 DEF JoinDone
<1>18. ASSUME NEW c \in Closers, JoinTimeout(c) PROVE CloseInv'
  BY <1>18 DEF JoinTimeout
<1>19. CASE \/ (\E c \in Closers : CloseAgain(c))
            \/ UNCHANGED vars
  BY <1>19 DEF vars, CloseAgain
<1>20. QED
  BY <1>1, <1>2, <1>3, <1>4, <1>5, <1>6, <1>7, <1>8, <1>9, <1>10, <1>11,
     <1>12, <1>13, <1>14, <1>15, <1>16, <1>17, <1>18, <1>19
     DEF Next, Submit, Run, Close, Idle

(* Only racing records are put once `_closed` is set. *)
LEMMA RacingStep == TypeOK /\ OfferInv /\ QueueInv /\ CurInv /\ CloseInv /\ RacingInv /\ [Next]_vars => RacingInv'
<1> SUFFICES ASSUME TypeOK, OfferInv, QueueInv, CurInv, CloseInv, RacingInv, [Next]_vars PROVE RacingInv'
  OBVIOUS
<1> USE WriterAssumption DEF TypeOK, OfferInv, QueueInv, CurInv, CloseInv, RacingInv, StrandedWereRacing, warnVars, threadVars, historyVars
<1>1. ASSUME NEW h \in Hosts, NEW j \in Jobs, SubmitCheck(h, j) PROVE RacingInv'
  BY <1>1 DEF SubmitCheck
<1>2. ASSUME NEW h \in Hosts, NEW j \in Jobs, SubmitRefused(h, j) PROVE RacingInv'
  BY <1>2 DEF SubmitRefused, Degrade
<1>3. ASSUME NEW h \in Hosts, SubmitPut(h) PROVE RacingInv'
  BY <1>3 DEF SubmitPut
<1>4. ASSUME NEW h \in Hosts, SubmitOverflow(h) PROVE RacingInv'
  BY <1>4 DEF SubmitOverflow, Degrade
<1>5. CASE TakeJob
  BY <1>5 DEF TakeJob
<1>6. CASE TakeSentinel
  BY <1>6 DEF TakeSentinel
<1>7. CASE SkipJob
  BY <1>7 DEF SkipJob
<1>8. CASE StoreJob
  BY <1>8 DEF StoreJob
<1>9. CASE JobFails
  BY <1>9 DEF JobFails
<1>10. CASE JobRaises
  BY <1>10 DEF JobRaises
<1>11. CASE DrainDone
  BY <1>11 DEF DrainDone
<1>12. CASE CloseStore
  BY <1>12 DEF CloseStore
<1>13. ASSUME NEW c \in Closers, CloseBegin(c) PROVE RacingInv'
  BY <1>13 DEF CloseBegin
<1>14. CASE \/ OpenStore
            \/ OpenStoreFails
            \/ (\E c \in Closers : CloseAgain(c))
            \/ (\E c \in Closers : PutSentinel(c))
            \/ (\E c \in Closers : JoinDone(c))
            \/ (\E c \in Closers : JoinTimeout(c))
            \/ UNCHANGED vars
  BY <1>14 DEF vars, OpenStore, OpenStoreFails, CloseAgain, PutSentinel,
     JoinDone, JoinTimeout
<1>15. QED
  BY <1>1, <1>2, <1>3, <1>4, <1>5, <1>6, <1>7, <1>8, <1>9, <1>10, <1>11,
     <1>12, <1>13, <1>14
     DEF Next, Submit, Run, Close, Idle

(* Every path that gives a record up leaves its warning. *)
LEMMA LossStep == TypeOK /\ StoreInv /\ OfferInv /\ CurInv /\ LossIsAnnounced /\ [Next]_vars => LossIsAnnounced'
<1> SUFFICES ASSUME TypeOK, StoreInv, OfferInv, CurInv, LossIsAnnounced, [Next]_vars PROVE LossIsAnnounced'
  OBVIOUS
<1> USE WriterAssumption DEF TypeOK, StoreInv, OfferInv, CurInv, LossIsAnnounced, warnVars, threadVars, historyVars
<1>1. ASSUME NEW h \in Hosts, NEW j \in Jobs, SubmitCheck(h, j) PROVE LossIsAnnounced'
  BY <1>1 DEF SubmitCheck
<1>2. ASSUME NEW h \in Hosts, NEW j \in Jobs, SubmitRefused(h, j) PROVE LossIsAnnounced'
  BY <1>2 DEF SubmitRefused, Degrade
<1>3. ASSUME NEW h \in Hosts, SubmitPut(h) PROVE LossIsAnnounced'
  BY <1>3 DEF SubmitPut
<1>4. ASSUME NEW h \in Hosts, SubmitOverflow(h) PROVE LossIsAnnounced'
  BY <1>4 DEF SubmitOverflow, Degrade
<1>5. CASE OpenStoreFails
  BY <1>5 DEF OpenStoreFails
<1>6. CASE TakeJob
  BY <1>6 DEF TakeJob
<1>7. CASE SkipJob
  BY <1>7 DEF SkipJob
<1>8. CASE StoreJob
  BY <1>8 DEF StoreJob
<1>9. CASE JobFails
  BY <1>9 DEF JobFails
<1>10. CASE JobRaises
  BY <1>10 DEF JobRaises
<1>11. CASE \/ OpenStore
            \/ TakeSentinel
            \/ DrainDone
            \/ CloseStore
            \/ (\E c \in Closers : CloseBegin(c))
            \/ (\E c \in Closers : CloseAgain(c))
            \/ (\E c \in Closers : PutSentinel(c))
            \/ (\E c \in Closers : JoinDone(c))
            \/ (\E c \in Closers : JoinTimeout(c))
            \/ UNCHANGED vars
  BY <1>11 DEF vars, OpenStore, TakeSentinel, DrainDone, CloseStore,
     CloseBegin, CloseAgain, PutSentinel, JoinDone, JoinTimeout
<1>12. QED
  BY <1>1, <1>2, <1>3, <1>4, <1>5, <1>6, <1>7, <1>8, <1>9, <1>10, <1>11
     DEF Next, Submit, Run, Close, Idle

(* The invariant holds initially. *)
LEMMA InitInv == Init => Inv
<1> SUFFICES ASSUME Init PROVE Inv
  OBVIOUS
<1> USE WriterAssumption DEF Init
<1>1. TypeOK
  <2>1. queue \in Seq(Jobs \cup {Sentinel}) /\ Len(queue) <= Capacity /\ stored \in Seq(Jobs)
    BY EmptySeq
  <2>2. QED
    BY <2>1 DEF TypeOK, Fates
<1>2. OfferInv /\ QueueInv /\ CurInv /\ StoreInv
  BY DEF OfferInv, QueueInv, CurInv, StoreInv
<1>3. CloseInv
  BY DEF CloseInv, Closing
<1>4. RacingInv /\ LossIsAnnounced
  BY DEF RacingInv, StrandedWereRacing, LossIsAnnounced
<1>5. QED
  BY <1>1, <1>2, <1>3, <1>4 DEF Inv

(* The invariant is inductive, so it holds in every reachable state. *)
THEOREM Invariance == Spec => []Inv
<1>1. Inv /\ [Next]_vars => Inv'
  BY TypeStep, OfferStep, QueueStep, CurStep, StoreStep, CloseStep, RacingStep,
     LossStep DEF Inv
<1>2. QED
  BY InitInv, <1>1, PTL DEF Spec

(* Every variable keeps its type, and the queue its bound. *)
THEOREM TypeCorrect == Spec => []TypeOK
<1>1. Inv => TypeOK
  BY DEF Inv
<1>2. QED
  BY Invariance, <1>1, PTL

(* A `close` that returned because the writer thread ended has flushed what  *)
(* was accepted before it, for any number of closers and submitters.         *)
THEOREM CloseFlushes == Spec => []FlushedMeansSettled
<1>1. Inv => FlushedMeansSettled
  BY WriterAssumption DEF Inv, CloseInv, StoreInv, TypeOK, FlushedMeansSettled
<1>2. QED
  BY Invariance, <1>1, PTL

(* Only a record caught between the check and the put of `submit` by `close` *)
(* can stay behind in the queue of a finished writer.                        *)
THEOREM OnlyRacingStranded == Spec => []StrandedWereRacing
<1>1. Inv => StrandedWereRacing
  BY DEF Inv, RacingInv
<1>2. QED
  BY Invariance, <1>1, PTL

(* No record is given up in silence. *)
THEOREM NoSilentLoss == Spec => []LossIsAnnounced
<1>1. Inv => LossIsAnnounced
  BY DEF Inv
<1>2. QED
  BY Invariance, <1>1, PTL

(* The writer writes to its store only between its open and its close. *)
THEOREM StoreDiscipline == Spec => [](WrittenWhileOpen /\ DeadStoreWarnsOnce)
<1>1. Inv => WrittenWhileOpen /\ DeadStoreWarnsOnce
  BY DEF Inv, StoreInv, CurInv, TypeOK, WrittenWhileOpen, DeadStoreWarnsOnce
<1>2. QED
  BY Invariance, <1>1, PTL

-----------------------------------------------------------------------------
(* The pipeline implements CaptureLog. *)

(* The verdict of one record moves with its fate, the others stay. *)
LEMMA VerdictMoves ==
  ASSUME TypeOK, NEW j \in Jobs, NEW f \in Fates, fate' = [fate EXCEPT ![j] = f]
  PROVE  VerdictOf' = [VerdictOf EXCEPT ![j] = VerdictFor(f)]
BY DEF TypeOK, VerdictOf

(* No fate moves, no verdict moves. *)
LEMMA VerdictStays == fate' = fate => VerdictOf' = VerdictOf
BY DEF VerdictOf

(* A record whose fate moves within one verdict leaves the verdicts alone. *)
LEMMA VerdictSame ==
  ASSUME TypeOK, NEW j \in Jobs, NEW f \in Fates, fate' = [fate EXCEPT ![j] = f],
         VerdictFor(f) = VerdictFor(fate[j])
  PROVE  VerdictOf' = VerdictOf
BY DEF TypeOK, VerdictOf

(* The record in the writer's hands is the oldest pending one. *)
LEMMA InHandIsOldest ==
  ASSUME Inv, cur # NoJob
  PROVE  cur \in Jobs /\ Promise!Oldest(cur)
<1>1. cur \in Jobs /\ fate[cur] = "running" /\ ticket \in [Jobs -> Nat]
  BY DEF Inv, TypeOK, CurInv
<1>2. \A k \in Jobs : VerdictOf[k] = "pending" => fate[k] \in {"queued", "running"}
  BY DEF Inv, TypeOK, Fates, VerdictOf, VerdictFor
<1>3. \A k \in Jobs : fate[k] \in {"queued", "running"} => ticket[cur] <= ticket[k]
  BY <1>1 DEF Inv, CurInv
<1>4. VerdictOf[cur] = "pending"
  BY <1>1 DEF VerdictOf, VerdictFor
<1>5. QED
  BY <1>1, <1>2, <1>3, <1>4 DEF Promise!Oldest

(* Every step of the pipeline is a step of CaptureLog, or none at all. *)
LEMMA StepRefines == Inv /\ [Next]_vars => [Promise!Next]_(Promise!logVars)
<1> SUFFICES ASSUME Inv, [Next]_vars PROVE [Promise!Next]_(Promise!logVars)
  OBVIOUS
<1> USE WriterAssumption DEF Promise!logVars, historyVars
<1> TypeOK
  BY DEF Inv
<1>1. ASSUME NEW h \in Hosts, NEW j \in Jobs, SubmitCheck(h, j)
      PROVE UNCHANGED Promise!logVars
  <2>1. VerdictFor("offered") = VerdictFor(fate[j])
    BY <1>1 DEF SubmitCheck, VerdictFor
  <2>2. VerdictOf' = VerdictOf
    BY <1>1, <2>1, VerdictSame DEF SubmitCheck, Fates
  <2>3. QED
    BY <1>1, <2>2 DEF SubmitCheck
<1>2. ASSUME NEW j \in Jobs, Degrade(j), fate[j] \in {"new", "offered"},
             UNCHANGED <<ticket, tickets, stored>>
      PROVE Promise!Refuse(j)
  <2>1. VerdictOf' = [VerdictOf EXCEPT ![j] = "refused"]
    BY <1>2, VerdictMoves DEF Degrade, Fates, VerdictFor
  <2>2. VerdictOf[j] = "open"
    BY <1>2 DEF VerdictOf, VerdictFor
  <2>3. QED
    BY <1>2, <2>1, <2>2 DEF Promise!Refuse
<1>3. ASSUME NEW h \in Hosts, NEW j \in Jobs, SubmitRefused(h, j) PROVE Promise!Next
  BY <1>2, <1>3 DEF SubmitRefused, Promise!Next
<1>4. ASSUME NEW h \in Hosts, SubmitPut(h) PROVE Promise!Next
  <2> DEFINE j == offering[h]
  <2>1. j \in Jobs /\ fate[j] = "offered"
    BY <1>4 DEF SubmitPut, Inv, TypeOK, OfferInv
  <2>2. VerdictOf' = [VerdictOf EXCEPT ![j] = "pending"]
    BY <1>4, <2>1, VerdictMoves DEF SubmitPut, Fates, VerdictFor
  <2>3. VerdictOf[j] = "open"
    BY <2>1 DEF VerdictOf, VerdictFor
  <2>4. Promise!Accept(j)
    BY <1>4, <2>2, <2>3 DEF SubmitPut, Promise!Accept
  <2>5. QED
    BY <2>1, <2>4 DEF Promise!Next
<1>5. ASSUME NEW h \in Hosts, SubmitOverflow(h) PROVE Promise!Next
  <2>1. offering[h] \in Jobs /\ fate[offering[h]] = "offered"
    BY <1>5 DEF SubmitOverflow, Inv, TypeOK, OfferInv
  <2>2. QED
    BY <1>2, <1>5, <2>1 DEF SubmitOverflow, Promise!Next
<1>6. ASSUME TakeJob PROVE UNCHANGED Promise!logVars
  <2>1. Head(queue) \in Jobs /\ fate[Head(queue)] = "queued"
    BY <1>6, TailOfQueue DEF TakeJob, Inv, TypeOK, QueueInv
  <2>2. VerdictFor("running") = VerdictFor(fate[Head(queue)])
    BY <2>1 DEF VerdictFor
  <2>3. VerdictOf' = VerdictOf
    BY <1>6, <2>1, <2>2, VerdictSame DEF TakeJob, Fates
  <2>4. QED
    BY <1>6, <2>3 DEF TakeJob
<1>7. ASSUME StoreJob PROVE Promise!Next
  <2>1. VerdictOf' = [VerdictOf EXCEPT ![cur] = "stored"]
    BY <1>7, InHandIsOldest, VerdictMoves DEF StoreJob, Fates, VerdictFor
  <2>2. Promise!Store(cur)
    BY <1>7, <2>1, InHandIsOldest DEF StoreJob, Promise!Store
  <2>3. QED
    BY <1>7, <2>2, InHandIsOldest DEF StoreJob, Promise!Next
<1>8. ASSUME SkipJob \/ JobFails \/ JobRaises PROVE Promise!Next
  <2>1. /\ cur # NoJob /\ UNCHANGED <<ticket, tickets, stored>>
        /\ \E f \in {"skipped", "failed"} : fate' = [fate EXCEPT ![cur] = f]
    BY <1>8 DEF SkipJob, JobFails, JobRaises
  <2>2. VerdictOf' = [VerdictOf EXCEPT ![cur] = "discarded"]
    BY <2>1, InHandIsOldest, VerdictMoves DEF Fates, VerdictFor
  <2>3. Promise!Discard(cur)
    BY <2>1, <2>2, InHandIsOldest DEF Promise!Discard
  <2>4. QED
    BY <2>1, <2>3, InHandIsOldest DEF Promise!Next
<1>9. ASSUME \/ OpenStore \/ OpenStoreFails \/ TakeSentinel \/ DrainDone
             \/ CloseStore \/ (\E c \in Closers : Close(c)) \/ UNCHANGED vars
      PROVE UNCHANGED Promise!logVars
  <2>1. UNCHANGED <<fate, ticket, tickets, stored>>
    BY <1>9 DEF OpenStore, OpenStoreFails, TakeSentinel, DrainDone, CloseStore,
       Close, CloseBegin, CloseAgain, PutSentinel, JoinDone, JoinTimeout, vars
  <2>2. QED
    BY <2>1, VerdictStays
<1>10. QED
  BY <1>1, <1>3, <1>4, <1>5, <1>6, <1>7, <1>8, <1>9
     DEF Next, Submit, Run, Idle

(* The pipeline keeps the promise: records settle in the order of their puts *)
(* and at most once, whatever the interleaving of submitters and closers.    *)
THEOREM WriterKeepsPromise == Spec => KeepsPromise
<1>1. Init => Promise!Init
  BY DEF Init, Promise!Init, VerdictOf, VerdictFor
<1>2. Inv /\ [Next]_vars => [Promise!Next]_(Promise!logVars)
  BY StepRefines
<1>3. QED
  BY <1>1, <1>2, Invariance, PTL DEF Spec, KeepsPromise, Promise!Spec

=============================================================================
