--------------------------- MODULE SqlStoreProofs ---------------------------
(***************************************************************************)
(* Proofs about SqlStore, for any number of runs, calls, blocks and models *)
(* and any number of faults, on both databases.                            *)
(***************************************************************************)
EXTENDS SqlStore, SequenceTheorems, TLAPS

Active == {"first", "open", "caught"}

(* A writer that is recording has a call of its own in hand. *)
TurnInv ==
  \A w \in Writers :
    /\ turn[w] \in 0..Len(Turns[w])
    /\ pc[w] \in Active => turn[w] # 0

(* What a transaction holds is what its statements so far have written, in   *)
(* order; between transactions it holds nothing.                             *)
TxOf(w) ==
  /\ tx[w].owner = w
  /\ pc[w] \in {"idle", "first", "dead"} => tx[w] = Empty(w)
  /\ pc[w] = "open" => up[w]
  /\ pc[w] = "open" /\ op[w] = "call" =>
       /\ pos[w] \in 0..Len(BlocksOf(Current(w)))
       /\ tx[w].calls = {Current(w)}
       /\ tx[w].members = {Current(w)} \X (1..pos[w])
       /\ \A i \in 1..pos[w] : BlocksOf(Current(w))[i] \in blocks \cup tx[w].blocks
  /\ pc[w] = "open" /\ op[w] = "note" =>
       tx[w].calls = {} /\ tx[w].members = {} /\ tx[w].blocks = {}

(* A roll-up in progress adds one model that the mirror does not have. *)
NoteOf(w) ==
  /\ op[w] = "note" /\ pc[w] \in Active =>
       ModelOf(Current(w)) \in Models \ Range(mirror[w])
  /\ tx[w].models # <<>> =>
       /\ op[w] = "note"
       /\ pc[w] \in Active
       /\ tx[w].models = Append(mirror[w], ModelOf(Current(w)))
  /\ pc[w] = "open" /\ op[w] = "note" => tx[w].models # <<>>

(* Every attempt of a call but two has been paid for with a fault of its     *)
(* own: the first, and one that found its connection already dead.           *)
BlipOf(w) ==
  op[w] = "call" =>
    /\ pc[w] = "first" /\ ~up[w] => attempt[w] <= blips[Current(w)] + 1
    /\ pc[w] \in {"first", "open"} => attempt[w] <= blips[Current(w)] + 2
    /\ pc[w] = "caught" /\ exc[w] # "duplicate" => attempt[w] <= blips[Current(w)] + 1
    /\ pc[w] = "caught" /\ exc[w] = "duplicate" => Current(w) \in calls
    /\ pc[w] = "caught" /\ exc[w] = "transient" => up[w]

WriterInv == \A w \in Writers : TxOf(w) /\ NoteOf(w) /\ BlipOf(w)

(* A transaction that may be committed writes one whole call, or none. *)
Whole(x) ==
  \/ x.calls = {} /\ x.members = {}
  \/ \E c \in CallRows :
       /\ x.calls = {c}
       /\ x.members = {c} \X (1..Len(BlocksOf(c)))
       /\ \A i \in 1..Len(BlocksOf(c)) : BlocksOf(c)[i] \in blocks \cup x.blocks

(* A lost transaction is committed only whole; a lost roll-up is at most one *)
(* model ahead of the mirror, and the writer's next one waits for it.        *)
OrphanInv ==
  \A o \in orphans :
    /\ o.asked => Whole(o.tx)
    /\ o.tx.models # <<>> =>
         /\ \E m \in Models \ Range(mirror[o.tx.owner]) :
              o.tx.models = Append(mirror[o.tx.owner], m)
         /\ ~(pc[o.tx.owner] = "open" /\ op[o.tx.owner] = "note")

Inv ==
  /\ TypeOK
  /\ TurnInv
  /\ WriterInv
  /\ OrphanInv
  /\ WholeCalls
  /\ MirrorLags
  /\ NoCheapLoss

-----------------------------------------------------------------------------

(* The row of a writer's k-th call. *)
LEMMA RowOf ==
  ASSUME NEW w \in Writers, NEW k \in 1..Len(Turns[w])
  PROVE  /\ <<w, k>> \in CallRows
         /\ BlocksOf(<<w, k>>) \in Seq(Hashes)
         /\ ModelOf(<<w, k>>) \in Models \cup {NoModel}
<1>1. Turns[w] \in Seq([blocks : Seq(Hashes), model : Models \cup {NoModel}])
  BY SqlStoreAssumption
<1>2. Turns[w][k] \in [blocks : Seq(Hashes), model : Models \cup {NoModel}]
  BY <1>1, ElementOfSeq
<1>3. <<w, k>> \in {w} \X DOMAIN Turns[w]
  BY <1>1
<1>4. QED
  BY <1>2, <1>3 DEF CallRows, BlocksOf, ModelOf

(* The row of the call in hand. *)
LEMMA RowInHand ==
  ASSUME TypeOK, TurnInv, NEW w \in Writers, pc[w] \in Active
  PROVE  /\ Current(w) \in CallRows
         /\ BlocksOf(Current(w)) \in Seq(Hashes)
         /\ ModelOf(Current(w)) \in Models \cup {NoModel}
<1>1. Len(Turns[w]) \in Nat
  BY SqlStoreAssumption
<1>2. turn[w] \in 1..Len(Turns[w])
  BY <1>1 DEF TurnInv, TypeOK
<1>3. QED
  BY <1>2, RowOf DEF Current

(* Every row is the row of some writer's call. *)
LEMMA RowBlocks ==
  ASSUME NEW c \in CallRows
  PROVE  BlocksOf(c) \in Seq(Hashes)
<1>1. PICK w \in Writers : c \in {w} \X DOMAIN Turns[w]
  BY DEF CallRows
<1>2. PICK k \in DOMAIN Turns[w] : c = <<w, k>>
  BY <1>1
<1>3. k \in 1..Len(Turns[w])
  BY <1>2, SqlStoreAssumption
<1>4. QED
  BY <1>2, <1>3, RowOf

(* Two writers never have the same call in hand. *)
LEMMA OwnCalls ==
  ASSUME NEW v \in Writers, NEW w \in Writers, v # w
  PROVE  Current(v) # Current(w)
BY DEF Current

LEMMA EmptyIsTransaction ==
  ASSUME NEW w \in Writers
  PROVE  Empty(w) \in Transactions
<1>1. <<>> \in Seq(Models)
  OBVIOUS
<1>2. QED
  BY <1>1 DEF Empty, Transactions

(* A statement adds to its transaction what it writes. *)
LEMMA TransactionGrows ==
  ASSUME NEW x \in Transactions
  PROVE  /\ \A cs \in SUBSET CallRows : [x EXCEPT !.calls = cs] \in Transactions
         /\ \A hs \in SUBSET Hashes, ms \in SUBSET (CallRows \X Nat) :
              [x EXCEPT !.blocks = hs, !.members = ms] \in Transactions
         /\ \A s \in Seq(Models) : [x EXCEPT !.models = s] \in Transactions
BY DEF Transactions

(* One fault more of a call. *)
LEMMA BlipType ==
  ASSUME TypeOK, NEW w \in Writers
  PROVE  [blips EXCEPT ![Current(w)] = @ + 1] \in [CallRows -> Nat]
<1>1. blips \in [CallRows -> Nat]
  BY DEF TypeOK
<1>2. ASSUME NEW c \in CallRows
      PROVE  [blips EXCEPT ![Current(w)] = @ + 1][c] \in Nat
  <2>1. CASE c = Current(w)
    BY <1>1, <2>1
  <2>2. CASE c # Current(w)
    BY <1>1, <2>2
  <2>3. QED
    BY <2>1, <2>2
<1>3. QED
  BY <1>1, <1>2

(* What a commit writes to the tables. *)
LEMMA ApplyType ==
  ASSUME TypeOK, NEW x \in Transactions, Apply(x)
  PROVE  /\ calls' \subseteq CallRows
         /\ members' \subseteq CallRows \X Nat
         /\ blocks' \subseteq Hashes
         /\ models' \in [Writers -> Seq(Models)]
<1>1. /\ calls' = calls \cup x.calls
      /\ members' = members \cup x.members
      /\ blocks' = blocks \cup x.blocks
      /\ models' = models \/ models' = [models EXCEPT ![x.owner] = x.models]
  BY DEF Apply
<1>2. /\ x.calls \subseteq CallRows
      /\ x.members \subseteq CallRows \X Nat
      /\ x.blocks \subseteq Hashes
      /\ x.models \in Seq(Models)
  BY DEF Transactions
<1>3. QED
  BY <1>1, <1>2 DEF TypeOK

(* A deadlock is met with an upsert, and undoes the attempt. *)
LEMMA DeadlockEffect ==
  ASSUME NEW w \in Writers, Deadlock(w)
  PROVE  /\ pc[w] = "open" /\ op[w] = "call"
         /\ tx' = [tx EXCEPT ![w] = Empty(w)]
         /\ blips' = [blips EXCEPT ![Current(w)] = @ + 1]
         /\ exc' = [exc EXCEPT ![w] = "transient"]
         /\ pc' = [pc EXCEPT ![w] = "caught"]
         /\ UNCHANGED <<dbVars, orphans, turn, op, pos, attempt, up, mirror, outcome, faults>>
<1>1. PICK D \in SUBSET Writers : w \in D /\ \A v \in D : \E u \in D : WaitsFor(v, u)
  BY DEF Deadlock
<1>2. pc[w] = "open" /\ op[w] = "call"
  BY <1>1 DEF WaitsFor
<1>3. QED
  BY <1>2 DEF Deadlock, Raise, Goto

(* The transaction of a connection that dies: the server has it now. *)
LEMMA OrphanType ==
  ASSUME TypeOK, NEW w \in Writers, Orphaned(w)
  PROVE  /\ tx' = [tx EXCEPT ![w] = Empty(w)]
         /\ tx' \in [Writers -> Transactions]
         /\ \A o \in orphans' :
              o \in orphans \/ (/\ o.tx = tx[w]
                                /\ tx[w] # Empty(w)
                                /\ o.asked \in BOOLEAN
                                /\ o.asked => Complete(w))
         /\ \A o \in orphans' : o.tx \in Transactions /\ o.asked \in BOOLEAN
<1>1. PICK asked \in BOOLEAN :
        /\ asked => Complete(w)
        /\ orphans' = IF tx[w] = Empty(w) THEN orphans
                      ELSE orphans \cup {[tx |-> tx[w], asked |-> asked]}
        /\ tx' = [tx EXCEPT ![w] = Empty(w)]
  BY DEF Orphaned
<1>2. tx' \in [Writers -> Transactions]
  BY <1>1, EmptyIsTransaction DEF TypeOK
<1>3. \A o \in orphans' :
        o \in orphans \/ (/\ o.tx = tx[w]
                          /\ tx[w] # Empty(w)
                          /\ o.asked \in BOOLEAN
                          /\ o.asked => Complete(w))
  BY <1>1
<1>4. QED
  BY <1>1, <1>2, <1>3 DEF TypeOK

(* What a writer does leaves the others where they are. *)
Same(v) ==
  /\ turn'[v] = turn[v] /\ op'[v] = op[v] /\ pc'[v] = pc[v] /\ pos'[v] = pos[v]
  /\ attempt'[v] = attempt[v] /\ exc'[v] = exc[v] /\ up'[v] = up[v]
  /\ tx'[v] = tx[v] /\ mirror'[v] = mirror[v]
  /\ Current(v) \in CallRows => blips'[Current(v)] = blips[Current(v)]

LEMMA OthersStay ==
  ASSUME TypeOK, NEW v \in Writers, NEW w \in Writers, v # w,
         Write(w) \/ Fault(w) \/ Deadlock(w)
  PROVE  Same(v)
<1> USE DEF TypeOK, Same, Current, Goto
<1>1. CASE RecordCall(w)
  BY <1>1 DEF RecordCall
<1>2. CASE InsertCall(w)
  BY <1>2 DEF InsertCall, Raise
<1>3. CASE UpsertBlock(w)
  BY <1>3 DEF UpsertBlock
<1>4. CASE CommitCall(w)
  BY <1>4 DEF CommitCall
<1>5. CASE UpdateModels(w) \/ CommitModels(w)
  BY <1>5 DEF UpdateModels, CommitModels
<1>6. CASE Retry(w) \/ Reopen(w)
  BY <1>6 DEF Retry, Reopen, TryAgain
<1>7. CASE ReopenFails(w) \/ Fail(w)
  BY <1>7 DEF ReopenFails, Fail, GiveUp
<1>8. CASE DeadConnection(w)
  BY <1>8 DEF DeadConnection, Raise
<1>9. CASE Refuse(w, "transient") \/ Refuse(w, "permanent")
  BY <1>9 DEF Refuse, Raise, Blip
<1>10. CASE LoseConnection(w)
  <2>1. tx'[v] = tx[v]
    BY <1>10, OrphanType DEF LoseConnection
  <2>2. QED
    BY <1>10, <2>1 DEF LoseConnection, Raise, Blip
<1>11. CASE LoseIdle(w)
  BY <1>11 DEF LoseIdle
<1>12. CASE Crash(w)
  BY <1>12, OrphanType DEF Crash
<1>13. CASE Deadlock(w)
  <2>1. /\ tx' = [tx EXCEPT ![w] = Empty(w)]
        /\ blips' = [blips EXCEPT ![Current(w)] = @ + 1]
        /\ exc' = [exc EXCEPT ![w] = "transient"]
        /\ pc' = [pc EXCEPT ![w] = "caught"]
        /\ UNCHANGED <<turn, op, pos, attempt, up, mirror>>
    BY <1>13, DeadlockEffect
  <2>2. QED
    BY <2>1
<1>14. QED
  BY <1>1, <1>2, <1>3, <1>4, <1>5, <1>6, <1>7, <1>8, <1>9, <1>10, <1>11, <1>12, <1>13
     DEF Write, Fault

(* Rows are never deleted. *)
LEMMA DbGrows ==
  ASSUME [Next]_vars
  PROVE  calls \subseteq calls' /\ blocks \subseteq blocks'
<1>1. ASSUME NEW x, Apply(x) PROVE calls \subseteq calls' /\ blocks \subseteq blocks'
  BY <1>1 DEF Apply
<1>2. ASSUME NEW w \in Writers, CommitCall(w) \/ CommitModels(w)
      PROVE  calls \subseteq calls' /\ blocks \subseteq blocks'
  BY <1>1, <1>2 DEF CommitCall, CommitModels
<1>3. ASSUME NEW o \in orphans, Resolve(o)
      PROVE  calls \subseteq calls' /\ blocks \subseteq blocks'
  BY <1>1, <1>3 DEF Resolve, dbVars
<1>4. ASSUME NEW w \in Writers,
             \/ RecordCall(w) \/ InsertCall(w) \/ UpsertBlock(w) \/ UpdateModels(w)
             \/ Retry(w) \/ Reopen(w) \/ ReopenFails(w) \/ Fail(w) \/ DeadConnection(w)
             \/ Fault(w) \/ Deadlock(w)
      PROVE  calls \subseteq calls' /\ blocks \subseteq blocks'
  BY <1>4 DEF RecordCall, InsertCall, UpsertBlock, UpdateModels, Retry, Reopen,
     ReopenFails, Fail, DeadConnection, Fault, Refuse, LoseConnection, LoseIdle,
     Crash, Deadlock, dbVars
<1>5. CASE UNCHANGED vars
  BY <1>5 DEF vars, dbVars
<1>6. QED
  BY <1>2, <1>3, <1>4, <1>5 DEF Next, Write, Server, AllDone

(* A writer that nobody moves keeps its part of the invariant. *)
LEMMA SameKeeps ==
  ASSUME TypeOK, TurnInv, NEW v \in Writers, TxOf(v), NoteOf(v), BlipOf(v), Same(v),
         calls \subseteq calls', blocks \subseteq blocks'
  PROVE  (TxOf(v) /\ NoteOf(v) /\ BlipOf(v))'
<1>1. Current(v)' = Current(v)
  BY DEF Same, Current
<1>2. TxOf(v)'
  BY <1>1 DEF TxOf, Same, Empty
<1>3. NoteOf(v)'
  BY <1>1 DEF NoteOf, Same
<1>4. BlipOf(v)'
  <2>1. pc[v] \in Active => Current(v) \in CallRows
    BY RowInHand
  <2>2. QED
    BY <1>1, <2>1 DEF BlipOf, Same, Active
<1>5. QED
  BY <1>2, <1>3, <1>4

(* Every step keeps the types of the variables. *)
LEMMA TypeStep ==
  ASSUME TypeOK, TurnInv, WriterInv, [Next]_vars
  PROVE  TypeOK'
<1> USE SqlStoreAssumption DEF TypeOK, MaxAttempts, GivenUp, dbVars
<1>1. ASSUME NEW w \in Writers, RecordCall(w) PROVE TypeOK'
  BY <1>1 DEF RecordCall, Goto
<1>2. ASSUME NEW w \in Writers, InsertCall(w) PROVE TypeOK'
  <2>1. Current(w) \in CallRows
    BY <1>2, RowInHand DEF InsertCall, Active
  <2>2. /\ tx' = tx \/ tx' = [tx EXCEPT ![w] = [tx[w] EXCEPT !.calls = tx[w].calls \cup {Current(w)}]]
        /\ pos' = pos \/ pos' = [pos EXCEPT ![w] = 0]
        /\ exc' = exc \/ exc' = [exc EXCEPT ![w] = "duplicate"]
        /\ \E here \in {"caught", "open"} : pc' = [pc EXCEPT ![w] = here]
    BY <1>2 DEF InsertCall, Raise, Goto
  <2>3. [tx[w] EXCEPT !.calls = tx[w].calls \cup {Current(w)}] \in Transactions
    <3>1. tx[w] \in Transactions /\ tx[w].calls \cup {Current(w)} \in SUBSET CallRows
      BY <2>1 DEF Transactions
    <3>2. QED
      BY <3>1, TransactionGrows
  <2>4. tx' \in [Writers -> Transactions]
    BY <2>2, <2>3
  <2>5. pos' \in [Writers -> Nat]
    <3>1. CASE pos' = pos
      BY <3>1
    <3>2. CASE pos' = [pos EXCEPT ![w] = 0]
      BY <3>2
    <3>3. QED
      BY <2>2, <3>1, <3>2
  <2>6. exc' \in [Writers -> {"none", "transient", "lost", "permanent", "duplicate"}]
    BY <2>2
  <2>7. pc' \in [Writers -> {"idle", "first", "open", "caught", "dead"}]
    BY <2>2
  <2>8. QED
    BY <1>2, <2>4, <2>5, <2>6, <2>7 DEF InsertCall
<1>3. ASSUME NEW w \in Writers, UpsertBlock(w) PROVE TypeOK'
  <2>1. /\ Current(w) \in CallRows
        /\ BlocksOf(Current(w)) \in Seq(Hashes)
        /\ pos[w] \in Nat
        /\ pos[w] + 1 \in 1..Len(BlocksOf(Current(w)))
    BY <1>3, RowInHand DEF UpsertBlock, Active
  <2>2. BlocksOf(Current(w))[pos[w] + 1] \in Hashes
    BY <2>1, ElementOfSeq
  <2>3. PICK hs \in SUBSET Hashes :
          tx' = [tx EXCEPT ![w] = [tx[w] EXCEPT
                   !.blocks = hs,
                   !.members = tx[w].members \cup {<<Current(w), pos[w] + 1>>}]]
    BY <1>3, <2>2 DEF UpsertBlock, Transactions
  <2>4. tx' \in [Writers -> Transactions]
    <3>1. tx[w].members \cup {<<Current(w), pos[w] + 1>>} \in SUBSET (CallRows \X Nat)
      BY <2>1 DEF Transactions
    <3>2. QED
      BY <2>3, <3>1, TransactionGrows
  <2>5. pos' \in [Writers -> Nat]
    BY <1>3, <2>1 DEF UpsertBlock
  <2>6. QED
    BY <1>3, <2>4, <2>5 DEF UpsertBlock
<1>4. ASSUME NEW w \in Writers, CommitCall(w) PROVE TypeOK'
  <2>1. /\ calls' \subseteq CallRows /\ members' \subseteq CallRows \X Nat
        /\ blocks' \subseteq Hashes /\ models' \in [Writers -> Seq(Models)]
    BY <1>4, ApplyType DEF CommitCall
  <2>2. tx' \in [Writers -> Transactions]
    BY <1>4, EmptyIsTransaction DEF CommitCall
  <2>3. /\ op' = op \/ op' = [op EXCEPT ![w] = "note"]
        /\ attempt' = attempt \/ attempt' = [attempt EXCEPT ![w] = 1]
        /\ \E here \in {"idle", "first"} : pc' = [pc EXCEPT ![w] = here]
    BY <1>4 DEF CommitCall, Goto
  <2>4. outcome' \in [CallRows -> {"pending", "recorded"} \cup GivenUp]
    BY <1>4 DEF CommitCall
  <2>5. /\ op' \in [Writers -> {"call", "note"}]
        /\ attempt' \in [Writers -> 1..MaxAttempts]
    <3>1. op' \in [Writers -> {"call", "note"}]
      BY <2>3
    <3>2. CASE attempt' = attempt
      BY <3>1, <3>2
    <3>3. CASE attempt' = [attempt EXCEPT ![w] = 1]
      <4>1. 1 \in 1..MaxAttempts
        OBVIOUS
      <4>2. attempt' \in [Writers -> 1..MaxAttempts]
        BY <3>3, <4>1
      <4>3. QED
        BY <3>1, <4>2
    <3>4. QED
      BY <2>3, <3>2, <3>3
  <2>6. pc' \in [Writers -> {"idle", "first", "open", "caught", "dead"}]
    BY <2>3
  <2>7. UNCHANGED <<orphans, turn, pos, exc, up, mirror, blips, faults>>
    BY <1>4 DEF CommitCall
  <2>8. QED
    BY <2>1, <2>2, <2>4, <2>5, <2>6, <2>7
<1>5. ASSUME NEW w \in Writers, UpdateModels(w) PROVE TypeOK'
  <2>1. pc[w] \in Active /\ op[w] = "note"
    BY <1>5 DEF UpdateModels, Active
  <2>2. ModelOf(Current(w)) \in Models
    BY <2>1 DEF WriterInv, NoteOf
  <2>3. Append(mirror[w], ModelOf(Current(w))) \in Seq(Models)
    BY <2>2
  <2>4. tx' = [tx EXCEPT ![w] = [tx[w] EXCEPT !.models = Append(mirror[w], ModelOf(Current(w)))]]
    BY <1>5 DEF UpdateModels
  <2>5. tx' \in [Writers -> Transactions]
    BY <2>3, <2>4, TransactionGrows
  <2>6. QED
    BY <1>5, <2>5 DEF UpdateModels, Goto
<1>6. ASSUME NEW w \in Writers, CommitModels(w) PROVE TypeOK'
  <2>1. /\ calls' \subseteq CallRows /\ members' \subseteq CallRows \X Nat
        /\ blocks' \subseteq Hashes /\ models' \in [Writers -> Seq(Models)]
    BY <1>6, ApplyType DEF CommitModels
  <2>2. tx' \in [Writers -> Transactions]
    BY <1>6, EmptyIsTransaction DEF CommitModels
  <2>3. mirror' \in [Writers -> Seq(Models)]
    BY <1>6 DEF CommitModels, Transactions
  <2>4. QED
    BY <1>6, <2>1, <2>2, <2>3 DEF CommitModels, Goto
<1>7. ASSUME NEW w \in Writers, Retry(w) PROVE TypeOK'
  <2>1. tx' \in [Writers -> Transactions]
    BY <1>7, EmptyIsTransaction DEF Retry, TryAgain
  <2>2. attempt' \in [Writers -> 1..MaxAttempts]
    <3>1. attempt[w] \in 1..3 /\ attempt[w] + 1 \in 1..3
      BY <1>7 DEF Retry, TryAgain
    <3>2. attempt' = [attempt EXCEPT ![w] = attempt[w] + 1]
      BY <1>7 DEF Retry, TryAgain
    <3>3. QED
      BY <3>1, <3>2
  <2>3. QED
    BY <1>7, <2>1, <2>2 DEF Retry, TryAgain, Goto
<1>8. ASSUME NEW w \in Writers, Reopen(w) PROVE TypeOK'
  <2>1. tx' \in [Writers -> Transactions]
    BY <1>8, EmptyIsTransaction DEF Reopen, TryAgain
  <2>2. attempt' \in [Writers -> 1..MaxAttempts]
    <3>1. attempt[w] \in 1..3 /\ attempt[w] + 1 \in 1..3
      BY <1>8 DEF Reopen, TryAgain
    <3>2. attempt' = [attempt EXCEPT ![w] = attempt[w] + 1]
      BY <1>8 DEF Reopen, TryAgain
    <3>3. QED
      BY <3>1, <3>2
  <2>3. QED
    BY <1>8, <2>1, <2>2 DEF Reopen, TryAgain, Goto
<1>9. ASSUME NEW w \in Writers, ReopenFails(w) PROVE TypeOK'
  <2>1. tx' \in [Writers -> Transactions]
    BY <1>9, EmptyIsTransaction DEF ReopenFails, GiveUp
  <2>2. QED
    BY <1>9, <2>1 DEF ReopenFails, GiveUp, Goto
<1>10. ASSUME NEW w \in Writers, Fail(w) PROVE TypeOK'
  <2>1. tx' \in [Writers -> Transactions]
    BY <1>10, EmptyIsTransaction DEF Fail, GiveUp
  <2>2. QED
    BY <1>10, <2>1 DEF Fail, GiveUp, Goto
<1>11. ASSUME NEW w \in Writers, DeadConnection(w) PROVE TypeOK'
  BY <1>11 DEF DeadConnection, Goto, Raise
<1>12. ASSUME NEW w \in Writers, NEW kind \in {"transient", "permanent"}, Refuse(w, kind) PROVE TypeOK'
  <2>1. blips' \in [CallRows -> Nat] /\ faults' \in 0..MaxFaults
    BY <1>12, BlipType DEF Refuse, Blip
  <2>2. QED
    BY <1>12, <2>1 DEF Refuse, Raise, Goto
<1>13. ASSUME NEW w \in Writers, LoseConnection(w) PROVE TypeOK'
  <2>1. blips' \in [CallRows -> Nat] /\ faults' \in 0..MaxFaults
    BY <1>13, BlipType DEF LoseConnection, Blip
  <2>2. /\ tx' \in [Writers -> Transactions]
        /\ \A o \in orphans' : o.tx \in Transactions /\ o.asked \in BOOLEAN
    BY <1>13, OrphanType DEF LoseConnection
  <2>3. QED
    BY <1>13, <2>1, <2>2 DEF LoseConnection, Raise, Goto
<1>14. ASSUME NEW w \in Writers, LoseIdle(w) PROVE TypeOK'
  BY <1>14 DEF LoseIdle
<1>15. ASSUME NEW w \in Writers, Crash(w) PROVE TypeOK'
  <2>1. faults' \in 0..MaxFaults
    BY <1>15 DEF Crash
  <2>2. /\ tx' \in [Writers -> Transactions]
        /\ \A o \in orphans' : o.tx \in Transactions /\ o.asked \in BOOLEAN
    BY <1>15, OrphanType DEF Crash
  <2>3. QED
    BY <1>15, <2>1, <2>2 DEF Crash, Goto
<1>16. ASSUME NEW w \in Writers, Deadlock(w) PROVE TypeOK'
  <2>1. /\ tx' = [tx EXCEPT ![w] = Empty(w)]
        /\ blips' = [blips EXCEPT ![Current(w)] = @ + 1]
        /\ exc' = [exc EXCEPT ![w] = "transient"]
        /\ pc' = [pc EXCEPT ![w] = "caught"]
        /\ UNCHANGED <<dbVars, orphans, turn, op, pos, attempt, up, mirror, outcome, faults>>
    BY <1>16, DeadlockEffect
  <2>2. tx' \in [Writers -> Transactions]
    BY <2>1, EmptyIsTransaction
  <2>3. blips' \in [CallRows -> Nat]
    BY <2>1, BlipType
  <2>4. QED
    BY <2>1, <2>2, <2>3
<1>17. ASSUME NEW o \in orphans, Resolve(o) PROVE TypeOK'
  <2>1. o.tx \in Transactions
    OBVIOUS
  <2>2. /\ calls' \subseteq CallRows /\ members' \subseteq CallRows \X Nat
        /\ blocks' \subseteq Hashes /\ models' \in [Writers -> Seq(Models)]
    <3>1. CASE Apply(o.tx)
      BY <2>1, <3>1, ApplyType
    <3>2. CASE UNCHANGED dbVars
      BY <3>2
    <3>3. QED
      BY <1>17, <3>1, <3>2 DEF Resolve
  <2>3. QED
    BY <1>17, <2>2 DEF Resolve
<1>18. CASE UNCHANGED vars
  BY <1>18 DEF vars
<1>19. QED
  BY <1>1, <1>2, <1>3, <1>4, <1>5, <1>6, <1>7, <1>8, <1>9, <1>10, <1>11, <1>12,
     <1>13, <1>14, <1>15, <1>16, <1>17, <1>18
     DEF Next, Write, Fault, Server, AllDone

(* A writer goes through its calls one by one. *)
LEMMA TurnStep ==
  ASSUME TypeOK, TurnInv, [Next]_vars
  PROVE  TurnInv'
<1> USE SqlStoreAssumption DEF TypeOK, TurnInv, Active, dbVars
<1>1. ASSUME NEW w \in Writers, RecordCall(w) PROVE TurnInv'
  BY <1>1 DEF RecordCall, Goto
<1>2. ASSUME NEW w \in Writers, InsertCall(w) PROVE TurnInv'
  BY <1>2 DEF InsertCall, Goto, Raise
<1>3. ASSUME NEW w \in Writers, CommitCall(w) PROVE TurnInv'
  BY <1>3 DEF CommitCall, Goto, Complete
<1>4. ASSUME NEW w \in Writers, UpdateModels(w) PROVE TurnInv'
  BY <1>4 DEF UpdateModels, Goto
<1>5. ASSUME NEW w \in Writers, CommitModels(w) PROVE TurnInv'
  BY <1>5 DEF CommitModels, Goto, Complete
<1>6. ASSUME NEW w \in Writers, Retry(w) PROVE TurnInv'
  BY <1>6 DEF Retry, Goto, TryAgain
<1>7. ASSUME NEW w \in Writers, Reopen(w) PROVE TurnInv'
  BY <1>7 DEF Reopen, Goto, TryAgain
<1>8. ASSUME NEW w \in Writers, ReopenFails(w) PROVE TurnInv'
  BY <1>8 DEF ReopenFails, Goto, GiveUp
<1>9. ASSUME NEW w \in Writers, Fail(w) PROVE TurnInv'
  BY <1>9 DEF Fail, Goto, GiveUp
<1>10. ASSUME NEW w \in Writers, DeadConnection(w) PROVE TurnInv'
  BY <1>10 DEF DeadConnection, Goto, Raise
<1>11. ASSUME NEW w \in Writers, NEW kind \in {"transient", "permanent"}, Refuse(w, kind) PROVE TurnInv'
  BY <1>11 DEF Refuse, Goto, Raise, Blip, InTransaction
<1>12. ASSUME NEW w \in Writers, LoseConnection(w) PROVE TurnInv'
  BY <1>12 DEF LoseConnection, Goto, Raise, Blip, InTransaction
<1>13. ASSUME NEW w \in Writers, Crash(w) PROVE TurnInv'
  BY <1>13 DEF Crash, Goto
<1>14. ASSUME NEW w \in Writers, Deadlock(w) PROVE TurnInv'
  BY <1>14, DeadlockEffect
<1>15. CASE \/ \E w \in Writers : UpsertBlock(w) \/ LoseIdle(w)
            \/ \E o \in orphans : Resolve(o)
            \/ UNCHANGED vars
  <2>1. UNCHANGED <<turn, pc>>
    BY <1>15 DEF vars, UpsertBlock, LoseIdle, Resolve, Goto
  <2>2. QED
    BY <2>1
<1>16. QED
  BY <1>1, <1>2, <1>3, <1>4, <1>5, <1>6, <1>7, <1>8, <1>9, <1>10, <1>11, <1>12,
     <1>13, <1>14, <1>15
     DEF Next, Write, Fault, Server, AllDone

(* What a writer does keeps its own part of the invariant. *)
LEMMA WriterKeeps ==
  ASSUME TypeOK, TurnInv, NEW w \in Writers, TxOf(w), NoteOf(w), BlipOf(w),
         Write(w) \/ Fault(w) \/ Deadlock(w),
         calls \subseteq calls', blocks \subseteq blocks'
  PROVE  (TxOf(w) /\ NoteOf(w) /\ BlipOf(w))'
<1> DEFINE c == Current(w)
<1> DEFINE Kept == (TxOf(w) /\ NoteOf(w) /\ BlipOf(w))'
<1> USE DEF Active
<1>1. /\ pc \in [Writers -> {"idle", "first", "open", "caught", "dead"}]
      /\ tx \in [Writers -> Transactions]
      /\ op \in [Writers -> {"call", "note"}]
      /\ exc \in [Writers -> {"none", "transient", "lost", "permanent", "duplicate"}]
      /\ attempt \in [Writers -> 1..3]
      /\ up \in [Writers -> BOOLEAN]
      /\ pos \in [Writers -> Nat]
      /\ turn \in [Writers -> Nat]
      /\ mirror \in [Writers -> Seq(Models)]
      /\ blips \in [CallRows -> Nat]
  BY DEF TypeOK, MaxAttempts
<1>2. /\ Empty(w).owner = w /\ Empty(w).calls = {} /\ Empty(w).members = {}
      /\ Empty(w).blocks = {} /\ Empty(w).models = <<>>
  BY DEF Empty
<1>3. Empty(w)' = Empty(w)
  BY DEF Empty
<1>4. pc[w] \in Active =>
        /\ c \in CallRows
        /\ BlocksOf(c) \in Seq(Hashes)
        /\ ModelOf(c) \in Models \cup {NoModel}
        /\ blips[c] \in Nat
  BY <1>1, RowInHand
<1>5. turn'[w] = turn[w] => Current(w)' = c
  BY DEF Current
<1>6. CASE RecordCall(w)
  <2>1. /\ pc[w] = "idle" /\ pc'[w] = "first" /\ op'[w] = "call" /\ attempt'[w] = 1
        /\ turn'[w] = turn[w] + 1 /\ turn[w] < Len(Turns[w])
        /\ UNCHANGED <<tx, blips, exc, up, mirror>>
    BY <1>1, <1>6 DEF RecordCall, Goto
  <2>2. Len(Turns[w]) \in Nat
    BY SqlStoreAssumption
  <2>3. turn'[w] \in 1..Len(Turns[w])
    BY <1>1, <2>1, <2>2
  <2>4. blips'[Current(w)'] \in Nat
    BY <1>1, <2>1, <2>3, RowOf DEF Current
  <2>5. TxOf(w)' /\ NoteOf(w)'
    BY <1>2, <1>3, <2>1 DEF TxOf, NoteOf
  <2>6. BlipOf(w)'
    BY <2>1, <2>4 DEF BlipOf
  <2>7. QED
    BY <2>5, <2>6
<1>7. CASE InsertCall(w)
  <2>1. /\ pc[w] = "first" /\ op[w] = "call" /\ up[w] /\ tx[w] = Empty(w)
        /\ UNCHANGED <<dbVars, turn, op, attempt, up, mirror, blips>>
        /\ Current(w)' = c
    BY <1>5, <1>7 DEF InsertCall, TxOf
  <2>2. CASE c \in calls
    <3>1. pc'[w] = "caught" /\ exc'[w] = "duplicate" /\ tx' = tx
      BY <1>1, <1>7, <2>2 DEF InsertCall, Raise, Goto
    <3>2. TxOf(w)' /\ NoteOf(w)'
      BY <1>2, <2>1, <3>1 DEF TxOf, NoteOf
    <3>3. BlipOf(w)'
      BY <2>1, <2>2, <3>1 DEF BlipOf, dbVars
    <3>4. QED
      BY <3>2, <3>3
  <2>3. CASE c \notin calls
    <3>1. /\ pc'[w] = "open" /\ pos'[w] = 0
          /\ tx'[w] = [tx[w] EXCEPT !.calls = tx[w].calls \cup {c}]
      <4>1. c \notin calls \cup tx[w].calls
        BY <1>2, <2>1, <2>3
      <4>2. /\ tx' = [tx EXCEPT ![w] = [tx[w] EXCEPT !.calls = tx[w].calls \cup {c}]]
            /\ pos' = [pos EXCEPT ![w] = 0]
            /\ pc' = [pc EXCEPT ![w] = "open"]
        BY <1>7, <4>1 DEF InsertCall, Goto
      <4>3. QED
        BY <1>1, <4>2
    <3>2. /\ tx'[w].owner = w /\ tx'[w].calls = {c} /\ tx'[w].members = {}
          /\ tx'[w].models = <<>>
      BY <1>1, <1>2, <2>1, <3>1 DEF Transactions
    <3>3. {c} \X (1..0) = {} /\ Len(BlocksOf(c)) \in Nat
      BY <1>4, <2>1
    <3>4. TxOf(w)'
      BY <2>1, <3>1, <3>2, <3>3 DEF TxOf
    <3>5. NoteOf(w)' /\ BlipOf(w)'
      BY <2>1, <3>1, <3>2 DEF NoteOf, BlipOf
    <3>6. QED
      BY <3>4, <3>5
  <2>4. QED
    BY <2>2, <2>3
<1>8. CASE UpsertBlock(w)
  <2> DEFINE h == BlocksOf(c)[pos[w] + 1]
  <2>1. /\ pc[w] = "open" /\ op[w] = "call" /\ pos[w] < Len(BlocksOf(c))
        /\ pos'[w] = pos[w] + 1
        /\ UNCHANGED <<dbVars, turn, op, pc, attempt, exc, up, mirror, blips>>
        /\ Current(w)' = c
    BY <1>1, <1>5, <1>8 DEF UpsertBlock
  <2>2. PICK hs \in SUBSET Hashes :
          /\ tx[w].blocks \subseteq hs
          /\ h \in blocks \cup hs
          /\ tx' = [tx EXCEPT ![w] = [tx[w] EXCEPT
               !.blocks = hs, !.members = tx[w].members \cup {<<c, pos[w] + 1>>}]]
    <3>1. h \in Hashes
      BY <1>1, <1>4, <2>1, ElementOfSeq
    <3>2. tx[w].blocks \subseteq Hashes
      BY <1>1 DEF Transactions
    <3>3. CASE h \in blocks /\ ~LocksDuplicates
      BY <1>8, <3>2, <3>3 DEF UpsertBlock
    <3>4. CASE ~(h \in blocks /\ ~LocksDuplicates)
      BY <1>8, <3>1, <3>2, <3>4 DEF UpsertBlock
    <3>5. QED
      BY <3>3, <3>4
  <2>3. /\ tx'[w].owner = tx[w].owner /\ tx'[w].calls = tx[w].calls
        /\ tx'[w].models = tx[w].models /\ tx'[w].blocks = hs
        /\ tx'[w].members = tx[w].members \cup {<<c, pos[w] + 1>>}
    BY <1>1, <2>2 DEF Transactions
  <2>4. tx'[w].members = {c} \X (1..pos'[w])
    <3>1. tx[w].members = {c} \X (1..pos[w])
      BY <2>1 DEF TxOf
    <3>2. 1..(pos[w] + 1) = (1..pos[w]) \cup {pos[w] + 1}
      BY <1>1
    <3>3. QED
      BY <2>1, <2>3, <3>1, <3>2
  <2>5. ASSUME NEW i \in 1..pos'[w]
        PROVE  BlocksOf(c)[i] \in blocks' \cup tx'[w].blocks
    <3>1. CASE i = pos[w] + 1
      BY <2>2, <2>3, <3>1
    <3>2. CASE i # pos[w] + 1
      <4>1. i \in 1..pos[w]
        BY <1>1, <2>1, <3>2
      <4>2. QED
        BY <2>1, <2>2, <2>3, <4>1 DEF TxOf
    <3>3. QED
      BY <3>1, <3>2
  <2>6. pos'[w] \in 0..Len(BlocksOf(c))
    BY <1>1, <1>4, <2>1
  <2>7. TxOf(w)'
    BY <2>1, <2>3, <2>4, <2>5, <2>6 DEF TxOf
  <2>8. NoteOf(w)' /\ BlipOf(w)'
    BY <2>1, <2>3 DEF NoteOf, BlipOf
  <2>9. QED
    BY <2>7, <2>8
<1>9. CASE CommitCall(w)
  <2>1. /\ pc[w] = "open" /\ op[w] = "call" /\ tx'[w] = Empty(w)
        /\ UNCHANGED <<turn, exc, up, mirror, blips>>
        /\ Current(w)' = c
    BY <1>1, <1>5, <1>9 DEF CommitCall, Complete
  <2>2. \/ pc'[w] = "idle" /\ op'[w] = "call"
        \/ /\ pc'[w] = "first" /\ op'[w] = "note"
           /\ ModelOf(c) # NoModel /\ ModelOf(c) \notin Range(mirror[w])
    BY <1>1, <1>9, <2>1 DEF CommitCall, Goto
  <2>3. QED
    BY <1>2, <1>3, <1>4, <2>1, <2>2 DEF TxOf, NoteOf, BlipOf
<1>10. CASE UpdateModels(w)
  <2>1. /\ pc[w] = "first" /\ op[w] = "note" /\ up[w] /\ tx[w] = Empty(w)
        /\ pc'[w] = "open"
        /\ tx'[w] = [tx[w] EXCEPT !.models = Append(mirror[w], ModelOf(c))]
        /\ UNCHANGED <<turn, op, up, mirror>>
        /\ Current(w)' = c
    BY <1>1, <1>5, <1>10 DEF UpdateModels, Goto, TxOf
  <2>2. /\ tx'[w].owner = w /\ tx'[w].calls = {} /\ tx'[w].members = {}
        /\ tx'[w].blocks = {} /\ tx'[w].models = Append(mirror[w], ModelOf(c))
    BY <1>1, <1>2, <2>1 DEF Transactions
  <2>3. Append(mirror[w], ModelOf(c)) # <<>>
    BY <1>1, <2>1, AppendProperties DEF NoteOf
  <2>4. QED
    BY <2>1, <2>2, <2>3 DEF TxOf, NoteOf, BlipOf
<1>11. CASE CommitModels(w)
  <2>1. op'[w] = "note" /\ pc'[w] = "idle" /\ tx'[w] = Empty(w)
    BY <1>1, <1>11 DEF CommitModels, Goto
  <2>2. QED
    BY <1>2, <1>3, <2>1 DEF TxOf, NoteOf, BlipOf
<1>12. CASE Retry(w) \/ Reopen(w)
  <2>1. /\ pc[w] = "caught" /\ exc[w] \in {"transient", "lost"}
        /\ pc'[w] = "first" /\ attempt'[w] = attempt[w] + 1 /\ tx'[w] = Empty(w)
        /\ (exc[w] = "transient" /\ up'[w] = up[w]) \/ up'[w]
        /\ UNCHANGED <<turn, op, mirror, blips>>
        /\ Current(w)' = c
    BY <1>1, <1>5, <1>12 DEF Retry, Reopen, TryAgain, Goto
  <2>2. TxOf(w)' /\ NoteOf(w)'
    BY <1>2, <1>3, <2>1 DEF TxOf, NoteOf
  <2>3. BlipOf(w)'
    <3>1. ASSUME op[w] = "call" PROVE up'[w]
      <4>1. CASE exc[w] = "transient"
        BY <1>1, <1>12, <2>1, <3>1, <4>1 DEF BlipOf, Retry, Reopen
      <4>2. CASE Reopen(w)
        BY <1>1, <4>2 DEF Reopen
      <4>3. QED
        BY <1>12, <4>1, <4>2 DEF Retry
    <3>2. CASE op[w] = "call"
      <4>1. attempt[w] <= blips[c] + 1
        BY <2>1, <3>2 DEF BlipOf
      <4>2. attempt[w] \in Nat /\ blips[c] \in Nat
        <5>1. attempt[w] \in 1..3
          BY <1>1
        <5>2. pc[w] \in Active
          BY <2>1
        <5>3. QED
          BY <1>4, <5>1, <5>2
      <4>3. attempt'[w] = attempt[w] + 1
        BY <2>1
      <4>4. attempt'[w] <= blips[c] + 2
        BY <4>1, <4>2, <4>3
      <4>5. QED
        BY <2>1, <3>1, <3>2, <4>4 DEF BlipOf
    <3>3. CASE op[w] # "call"
      BY <2>1, <3>3 DEF BlipOf
    <3>4. QED
      BY <3>2, <3>3
  <2>4. QED
    BY <2>2, <2>3
<1>13. CASE ReopenFails(w) \/ Fail(w)
  <2>1. pc'[w] = "idle" /\ tx'[w] = Empty(w)
    BY <1>1, <1>13 DEF ReopenFails, Fail, GiveUp, Goto
  <2>2. QED
    BY <1>2, <1>3, <2>1 DEF TxOf, NoteOf, BlipOf
<1>14. CASE DeadConnection(w)
  <2>1. /\ pc[w] = "first" /\ ~up[w] /\ pc'[w] = "caught" /\ exc'[w] = "lost"
        /\ UNCHANGED <<turn, op, tx, mirror, attempt, blips>>
        /\ Current(w)' = c
    BY <1>1, <1>5, <1>14 DEF DeadConnection, Raise, Goto
  <2>2. QED
    BY <2>1 DEF TxOf, NoteOf, BlipOf
<1>15. ASSUME NEW kind \in {"transient", "permanent"}, Refuse(w, kind) PROVE Kept
  <2>1. /\ pc[w] \in {"first", "open"} /\ up[w] /\ pc'[w] = "caught" /\ exc'[w] = kind
        /\ UNCHANGED <<turn, op, up, tx, mirror, attempt>>
        /\ Current(w)' = c
    BY <1>1, <1>5, <1>15 DEF Refuse, Raise, Goto, InTransaction
  <2>2. blips'[c] = blips[c] + 1
    BY <1>1, <1>4, <1>15, <2>1 DEF Refuse, Blip
  <2>3. TxOf(w)' /\ NoteOf(w)'
    BY <2>1 DEF TxOf, NoteOf
  <2>4. BlipOf(w)'
    BY <1>1, <1>4, <2>1, <2>2 DEF BlipOf
  <2>5. QED
    BY <2>3, <2>4
<1>16. CASE LoseConnection(w) \/ Deadlock(w)
  <2>1. /\ pc[w] \in {"first", "open"} /\ pc'[w] = "caught"
        /\ tx'[w] = Empty(w)
        /\ blips' = [blips EXCEPT ![c] = @ + 1]
        /\ UNCHANGED <<turn, op, mirror, attempt>>
        /\ Current(w)' = c
    <3>1. CASE LoseConnection(w)
      BY <1>1, <1>5, <3>1, OrphanType DEF LoseConnection, Raise, Goto, Blip, InTransaction
    <3>2. CASE Deadlock(w)
      BY <1>1, <1>5, <3>2, DeadlockEffect
    <3>3. QED
      BY <1>16, <3>1, <3>2
  <2>2. exc'[w] = "lost" \/ (pc[w] = "open" /\ exc'[w] = "transient" /\ up'[w] = up[w])
    <3>1. CASE LoseConnection(w)
      BY <1>1, <3>1 DEF LoseConnection, Raise
    <3>2. CASE Deadlock(w)
      BY <1>1, <3>2, DeadlockEffect
    <3>3. QED
      BY <1>16, <3>1, <3>2
  <2>3. blips'[c] = blips[c] + 1
    BY <1>1, <1>4, <2>1
  <2>4. TxOf(w)' /\ NoteOf(w)'
    BY <1>2, <1>3, <2>1 DEF TxOf, NoteOf
  <2>5. BlipOf(w)'
    BY <1>1, <1>4, <2>1, <2>2, <2>3 DEF BlipOf, TxOf
  <2>6. QED
    BY <2>4, <2>5
<1>17. CASE LoseIdle(w)
  <2>1. pc[w] = "idle" /\ UNCHANGED <<pc, tx>>
    BY <1>17 DEF LoseIdle
  <2>2. QED
    BY <1>2, <1>3, <2>1 DEF TxOf, NoteOf, BlipOf
<1>18. CASE Crash(w)
  <2>1. pc'[w] = "dead" /\ tx'[w] = Empty(w)
    BY <1>1, <1>18, OrphanType DEF Crash, Goto
  <2>2. QED
    BY <1>2, <1>3, <2>1 DEF TxOf, NoteOf, BlipOf
<1>19. QED
  BY <1>6, <1>7, <1>8, <1>9, <1>10, <1>11, <1>12, <1>13, <1>14, <1>15, <1>16, <1>17,
     <1>18 DEF Write, Fault

(* Every step keeps every writer's part of the invariant. *)
LEMMA WriterStep ==
  ASSUME TypeOK, TurnInv, WriterInv, [Next]_vars
  PROVE  WriterInv'
<1>1. calls \subseteq calls' /\ blocks \subseteq blocks'
  BY DbGrows
<1>2. SUFFICES ASSUME NEW v \in Writers PROVE (TxOf(v) /\ NoteOf(v) /\ BlipOf(v))'
  BY DEF WriterInv
<1>3. TxOf(v) /\ NoteOf(v) /\ BlipOf(v)
  BY DEF WriterInv
<1>4. ASSUME NEW w \in Writers, Write(w) \/ Fault(w) \/ Deadlock(w)
      PROVE  (TxOf(v) /\ NoteOf(v) /\ BlipOf(v))'
  <2>1. CASE v = w
    BY <1>1, <1>3, <1>4, <2>1, WriterKeeps
  <2>2. CASE v # w
    BY <1>1, <1>3, <1>4, <2>2, OthersStay, SameKeeps
  <2>3. QED
    BY <2>1, <2>2
<1>5. CASE (\E o \in orphans : Resolve(o)) \/ UNCHANGED vars
  <2>1. Same(v)
    BY <1>5 DEF Resolve, vars, Same
  <2>2. QED
    BY <1>1, <1>3, <2>1, SameKeeps
<1>6. QED
  BY <1>4, <1>5 DEF Next, Server, AllDone

(* A whole transaction stays whole while the table of blocks grows. *)
LEMMA WholeStays ==
  ASSUME NEW x, Whole(x), blocks \subseteq blocks'
  PROVE  Whole(x)'
<1>1. CASE x.calls = {} /\ x.members = {}
  BY <1>1 DEF Whole
<1>2. CASE \E c \in CallRows :
             /\ x.calls = {c}
             /\ x.members = {c} \X (1..Len(BlocksOf(c)))
             /\ \A i \in 1..Len(BlocksOf(c)) : BlocksOf(c)[i] \in blocks \cup x.blocks
  <2>1. PICK c \in CallRows :
          /\ x.calls = {c}
          /\ x.members = {c} \X (1..Len(BlocksOf(c)))
          /\ \A i \in 1..Len(BlocksOf(c)) : BlocksOf(c)[i] \in blocks \cup x.blocks
    BY <1>2
  <2>2. \A i \in 1..Len(BlocksOf(c)) : BlocksOf(c)[i] \in blocks' \cup x.blocks
    BY <2>1
  <2>3. QED
    BY <2>1, <2>2 DEF Whole
<1>3. QED
  BY <1>1, <1>2 DEF Whole

(* A COMMIT is only asked for when the transaction is whole. *)
LEMMA CompleteIsWhole ==
  ASSUME TypeOK, TurnInv, NEW w \in Writers, TxOf(w), Complete(w)
  PROVE  Whole(tx[w])
<1>1. pc[w] = "open" /\ op[w] \in {"call", "note"}
  BY DEF Complete, TypeOK
<1>2. CASE op[w] = "call"
  <2>1. Current(w) \in CallRows
    BY <1>1, RowInHand DEF Active
  <2>2. pos[w] = Len(BlocksOf(Current(w)))
    BY <1>2 DEF Complete
  <2>3. /\ tx[w].calls = {Current(w)}
        /\ tx[w].members = {Current(w)} \X (1..pos[w])
        /\ \A i \in 1..pos[w] : BlocksOf(Current(w))[i] \in blocks \cup tx[w].blocks
    BY <1>1, <1>2 DEF TxOf
  <2>4. QED
    BY <2>1, <2>2, <2>3 DEF Whole
<1>3. CASE op[w] = "note"
  BY <1>1, <1>3 DEF TxOf, Whole
<1>4. QED
  BY <1>1, <1>2, <1>3

(* While the server holds a lost roll-up, its writer neither marks a model   *)
(* nor updates the row again.                                                *)
LEMMA OrphanWaits ==
  ASSUME TypeOK, NEW v \in Writers, ~(pc[v] = "open" /\ op[v] = "note"),
         \E o \in orphans : o.tx.owner = v /\ o.tx.models # <<>>, [Next]_vars
  PROVE  mirror'[v] = mirror[v] /\ ~(pc'[v] = "open" /\ op'[v] = "note")
<1> DEFINE Waits == mirror'[v] = mirror[v] /\ ~(pc'[v] = "open" /\ op'[v] = "note")
<1>1. /\ pc \in [Writers -> {"idle", "first", "open", "caught", "dead"}]
      /\ op \in [Writers -> {"call", "note"}]
      /\ mirror \in [Writers -> Seq(Models)]
  BY DEF TypeOK
<1>2. ASSUME NEW w \in Writers, w # v, Write(w) \/ Fault(w) \/ Deadlock(w)
      PROVE  Waits
  <2>1. Same(v)
    BY <1>2, OthersStay
  <2>2. QED
    BY <2>1 DEF Same
<1>3. CASE RecordCall(v) \/ InsertCall(v) \/ UpsertBlock(v)
  BY <1>1, <1>3 DEF RecordCall, InsertCall, UpsertBlock, Raise, Goto
<1>4. CASE CommitCall(v)
  BY <1>1, <1>4 DEF CommitCall, Goto
<1>5. CASE UpdateModels(v)
  BY <1>5 DEF UpdateModels
<1>6. CASE CommitModels(v)
  BY <1>6 DEF CommitModels, Complete
<1>7. CASE Retry(v) \/ Reopen(v) \/ ReopenFails(v) \/ Fail(v) \/ DeadConnection(v)
  BY <1>1, <1>7 DEF Retry, Reopen, ReopenFails, Fail, DeadConnection, TryAgain,
     GiveUp, Raise, Goto
<1>8. CASE Fault(v)
  BY <1>1, <1>8 DEF Fault, Refuse, LoseConnection, LoseIdle, Crash, Raise, Goto
<1>9. CASE Deadlock(v)
  BY <1>1, <1>9, DeadlockEffect
<1>10. CASE (\E r \in orphans : Resolve(r)) \/ UNCHANGED vars
  BY <1>10 DEF Resolve, vars
<1>11. QED
  BY <1>2, <1>3, <1>4, <1>5, <1>6, <1>7, <1>8, <1>9, <1>10
     DEF Next, Write, Server, AllDone

(* What a connection loses is a prefix of a call, or a roll-up. *)
LEMMA NewOrphan ==
  ASSUME TypeOK, TurnInv, WriterInv, NEW w \in Writers, NEW o,
         o.tx = tx[w], o.asked => Complete(w), blocks \subseteq blocks',
         mirror'[w] = mirror[w], pc'[w] \in {"caught", "dead"}
  PROVE  /\ o.asked => Whole(o.tx)'
         /\ o.tx.models # <<>> =>
              /\ \E m \in Models \ Range(mirror'[o.tx.owner]) :
                   o.tx.models = Append(mirror'[o.tx.owner], m)
              /\ ~(pc'[o.tx.owner] = "open" /\ op'[o.tx.owner] = "note")
<1>1. TxOf(w) /\ NoteOf(w)
  BY DEF WriterInv
<1>2. ASSUME o.asked PROVE Whole(o.tx)'
  <2>1. Whole(tx[w])
    BY <1>1, <1>2, CompleteIsWhole
  <2>2. Whole(o.tx)
    BY <2>1 DEF Whole
  <2>3. QED
    BY <2>2, WholeStays
<1>3. o.tx.owner = w
  BY <1>1 DEF TxOf
<1>4. ASSUME o.tx.models # <<>>
      PROVE  \E m \in Models \ Range(mirror[w]) : o.tx.models = Append(mirror[w], m)
  BY <1>1, <1>4 DEF NoteOf
<1>5. QED
  BY <1>2, <1>3, <1>4

(* Every step keeps what is known of the lost transactions. *)
LEMMA OrphanStep ==
  ASSUME TypeOK, TurnInv, WriterInv, OrphanInv, [Next]_vars
  PROVE  OrphanInv'
<1>1. blocks \subseteq blocks'
  BY DbGrows
<1>2. SUFFICES ASSUME NEW o \in orphans'
               PROVE  /\ o.asked => Whole(o.tx)'
                      /\ o.tx.models # <<>> =>
                           /\ \E m \in Models \ Range(mirror'[o.tx.owner]) :
                                o.tx.models = Append(mirror'[o.tx.owner], m)
                           /\ ~(pc'[o.tx.owner] = "open" /\ op'[o.tx.owner] = "note")
  BY DEF OrphanInv
<1>3. CASE o \in orphans
  <2>1. o.asked => Whole(o.tx)'
    BY <1>1, <1>3, WholeStays DEF OrphanInv
  <2>2. ASSUME o.tx.models # <<>>
        PROVE  /\ mirror'[o.tx.owner] = mirror[o.tx.owner]
               /\ ~(pc'[o.tx.owner] = "open" /\ op'[o.tx.owner] = "note")
    <3>1. o.tx.owner \in Writers
      BY <1>3 DEF TypeOK, Transactions
    <3>2. ~(pc[o.tx.owner] = "open" /\ op[o.tx.owner] = "note")
      BY <1>3, <2>2 DEF OrphanInv
    <3>3. QED
      BY <1>3, <2>2, <3>1, <3>2, OrphanWaits
  <2>3. QED
    BY <1>3, <2>1, <2>2 DEF OrphanInv
<1>4. ASSUME NEW w \in Writers, LoseConnection(w) \/ Crash(w), o \notin orphans
      PROVE  /\ o.asked => Whole(o.tx)'
             /\ o.tx.models # <<>> =>
                  /\ \E m \in Models \ Range(mirror'[o.tx.owner]) :
                       o.tx.models = Append(mirror'[o.tx.owner], m)
                  /\ ~(pc'[o.tx.owner] = "open" /\ op'[o.tx.owner] = "note")
  <2>1. Orphaned(w)
    BY <1>4 DEF LoseConnection, Crash
  <2>2. o.tx = tx[w] /\ (o.asked => Complete(w))
    BY <1>4, <2>1, OrphanType
  <2>3. mirror' = mirror /\ pc'[w] \in {"caught", "dead"}
    BY <1>4 DEF LoseConnection, Crash, Raise, Goto, TypeOK
  <2>4. QED
    BY <1>1, <2>2, <2>3, NewOrphan
<1>5. ASSUME o \notin orphans PROVE \E w \in Writers : LoseConnection(w) \/ Crash(w)
  <2>1. ~(orphans' = orphans) /\ ~(\E r \in orphans : orphans' = orphans \ {r})
    BY <1>5
  <2>2. QED
    BY <2>1 DEF Next, Write, Fault, Server, AllDone, vars, RecordCall, InsertCall,
       UpsertBlock, CommitCall, UpdateModels, CommitModels, Retry, Reopen, ReopenFails,
       Fail, DeadConnection, Refuse, LoseIdle, Deadlock, Resolve
<1>6. QED
  BY <1>3, <1>4, <1>5

-----------------------------------------------------------------------------

(* Faults are counted, never forgotten. *)
LEMMA BlipsGrow ==
  ASSUME TypeOK, [Next]_vars, NEW c \in CallRows
  PROVE  blips[c] \in Nat /\ (blips'[c] = blips[c] \/ blips'[c] = blips[c] + 1)
<1>1. blips \in [CallRows -> Nat]
  BY DEF TypeOK
<1>2. blips' = blips \/ \E w \in Writers : blips' = [blips EXCEPT ![Current(w)] = @ + 1]
  <2>1. ASSUME NEW w \in Writers, Deadlock(w)
        PROVE  blips' = [blips EXCEPT ![Current(w)] = @ + 1]
    BY <2>1, DeadlockEffect
  <2>2. ASSUME NEW w \in Writers, Write(w) \/ Fault(w)
        PROVE  blips' = blips \/ blips' = [blips EXCEPT ![Current(w)] = @ + 1]
    BY <2>2 DEF Write, Fault, RecordCall, InsertCall, UpsertBlock, CommitCall,
       UpdateModels, CommitModels, Retry, Reopen, ReopenFails, Fail, DeadConnection,
       Refuse, LoseConnection, LoseIdle, Crash, Blip
  <2>3. CASE (\E o \in orphans : Resolve(o)) \/ UNCHANGED vars
    BY <2>3 DEF Resolve, vars
  <2>4. QED
    BY <2>1, <2>2, <2>3 DEF Next, Server, AllDone
<1>3. QED
  BY <1>1, <1>2

(* How a call ends: told to have failed for want of attempts only after two  *)
(* faults, and as a duplicate only when its row is there.                    *)
LEMMA Ending ==
  ASSUME TypeOK, TurnInv, WriterInv, [Next]_vars, NEW c \in CallRows,
         outcome'[c] \in {"exhausted", "duplicate"}, outcome'[c] # outcome[c]
  PROVE  blips[c] >= 2 \/ c \in calls
<1>1. outcome \in [CallRows -> {"pending", "recorded"} \cup GivenUp]
  BY DEF TypeOK
<1>2. ASSUME NEW w \in Writers, CommitCall(w) PROVE FALSE
  BY <1>1, <1>2 DEF CommitCall
<1>3. ASSUME NEW w \in Writers, ReopenFails(w) PROVE FALSE
  BY <1>1, <1>3 DEF ReopenFails, GiveUp
<1>4. ASSUME NEW w \in Writers, Fail(w) PROVE blips[c] >= 2 \/ c \in calls
  <2>1. /\ pc[w] = "caught" /\ op[w] = "call" /\ c = Current(w)
        /\ outcome'[c] = "exhausted" => exc[w] # "duplicate" /\ attempt[w] = 3
        /\ outcome'[c] = "duplicate" => exc[w] = "duplicate"
    BY <1>1, <1>4 DEF Fail, GiveUp, MaxAttempts
  <2>2. BlipOf(w) /\ blips[c] \in Nat
    BY BlipsGrow DEF WriterInv
  <2>3. QED
    BY <2>1, <2>2 DEF BlipOf
<1>5. ASSUME NEW w \in Writers,
             \/ RecordCall(w) \/ InsertCall(w) \/ UpsertBlock(w) \/ UpdateModels(w)
             \/ CommitModels(w) \/ Retry(w) \/ Reopen(w) \/ DeadConnection(w)
             \/ Fault(w) \/ Deadlock(w)
      PROVE  FALSE
  BY <1>5 DEF RecordCall, InsertCall, UpsertBlock, UpdateModels, CommitModels, Retry,
     Reopen, DeadConnection, Fault, Refuse, LoseConnection, LoseIdle, Crash, Deadlock
<1>6. CASE (\E o \in orphans : Resolve(o)) \/ UNCHANGED vars
  BY <1>6 DEF Resolve, vars
<1>7. QED
  BY <1>2, <1>3, <1>4, <1>5, <1>6 DEF Next, Write, Server, AllDone

(* No step loses a call to less than two faults. *)
LEMMA LossStep ==
  ASSUME TypeOK, TurnInv, WriterInv, NoCheapLoss, [Next]_vars
  PROVE  NoCheapLoss'
<1>1. SUFFICES ASSUME NEW c \in CallRows, outcome'[c] \in {"exhausted", "duplicate"}
               PROVE  blips'[c] >= 2 \/ c \in calls'
  BY DEF NoCheapLoss
<1>2. blips[c] >= 2 \/ c \in calls
  <2>1. CASE outcome'[c] = outcome[c]
    BY <1>1, <2>1 DEF NoCheapLoss
  <2>2. CASE outcome'[c] # outcome[c]
    BY <1>1, <2>2, Ending
  <2>3. QED
    BY <2>1, <2>2
<1>3. QED
  BY <1>2, BlipsGrow, DbGrows

-----------------------------------------------------------------------------

(* The tables hold no part of a call without the rest. *)
RowsWhole ==
  /\ \A c \in calls :
       /\ {r \in members : r[1] = c} = {c} \X DOMAIN BlocksOf(c)
       /\ Range(BlocksOf(c)) \subseteq blocks
  /\ \A r \in members : r[1] \in calls

(* A whole transaction, committed, keeps it so. *)
LEMMA ApplyWhole ==
  ASSUME TypeOK, RowsWhole, NEW x \in Transactions, Whole(x), Apply(x)
  PROVE  RowsWhole'
<1>1. /\ calls' = calls \cup x.calls
      /\ members' = members \cup x.members
      /\ blocks' = blocks \cup x.blocks
  BY DEF Apply
<1>2. CASE x.calls = {} /\ x.members = {}
  BY <1>1, <1>2 DEF RowsWhole
<1>3. ASSUME NEW d \in CallRows,
             x.calls = {d},
             x.members = {d} \X (1..Len(BlocksOf(d))),
             \A i \in 1..Len(BlocksOf(d)) : BlocksOf(d)[i] \in blocks \cup x.blocks
      PROVE  RowsWhole'
  <2>1. DOMAIN BlocksOf(d) = 1..Len(BlocksOf(d))
    BY RowBlocks
  <2>2. ASSUME NEW c \in calls'
        PROVE  {r \in members' : r[1] = c} = {c} \X DOMAIN BlocksOf(c)
    <3>1. {r \in members' : r[1] = c}
            = {r \in members : r[1] = c} \cup {r \in x.members : r[1] = c}
      BY <1>1
    <3>2. CASE c = d
      <4>1. {r \in x.members : r[1] = c} = {c} \X DOMAIN BlocksOf(c)
        BY <1>3, <2>1, <3>2
      <4>2. {r \in members : r[1] = c} \subseteq {c} \X DOMAIN BlocksOf(c)
        <5>1. CASE c \in calls
          BY <5>1 DEF RowsWhole
        <5>2. CASE c \notin calls
          BY <5>2 DEF RowsWhole
        <5>3. QED
          BY <5>1, <5>2
      <4>3. QED
        BY <3>1, <4>1, <4>2
    <3>3. CASE c # d
      <4>1. {r \in x.members : r[1] = c} = {}
        BY <1>3, <3>3
      <4>2. c \in calls
        BY <1>1, <1>3, <3>3
      <4>3. QED
        BY <3>1, <4>1, <4>2 DEF RowsWhole
    <3>4. QED
      BY <3>2, <3>3
  <2>3. ASSUME NEW c \in calls' PROVE Range(BlocksOf(c)) \subseteq blocks'
    <3>1. CASE c = d
      BY <1>1, <1>3, <2>1, <3>1 DEF Range
    <3>2. CASE c # d
      BY <1>1, <1>3, <3>2 DEF RowsWhole
    <3>3. QED
      BY <3>1, <3>2
  <2>4. ASSUME NEW r \in members' PROVE r[1] \in calls'
    BY <1>1, <1>3 DEF RowsWhole
  <2>5. QED
    BY <2>2, <2>3, <2>4 DEF RowsWhole
<1>4. QED
  BY <1>2, <1>3 DEF Whole

(* What a step commits is a whole transaction. *)
LEMMA Commits ==
  ASSUME TypeOK, TurnInv, WriterInv, OrphanInv, [Next]_vars
  PROVE  UNCHANGED dbVars \/ \E x \in Transactions : Whole(x) /\ Apply(x)
<1>1. ASSUME NEW w \in Writers, CommitCall(w) \/ CommitModels(w)
      PROVE  \E x \in Transactions : Whole(x) /\ Apply(x)
  <2>1. Complete(w) /\ Apply(tx[w]) /\ tx[w] \in Transactions
    BY <1>1 DEF CommitCall, CommitModels, TypeOK
  <2>2. Whole(tx[w])
    BY <2>1, CompleteIsWhole DEF WriterInv
  <2>3. QED
    BY <2>1, <2>2
<1>2. ASSUME NEW o \in orphans, Resolve(o)
      PROVE  UNCHANGED dbVars \/ \E x \in Transactions : Whole(x) /\ Apply(x)
  BY <1>2 DEF Resolve, OrphanInv, TypeOK
<1>3. ASSUME NEW w \in Writers,
             \/ RecordCall(w) \/ InsertCall(w) \/ UpsertBlock(w) \/ UpdateModels(w)
             \/ Retry(w) \/ Reopen(w) \/ ReopenFails(w) \/ Fail(w) \/ DeadConnection(w)
             \/ Fault(w) \/ Deadlock(w)
      PROVE  UNCHANGED dbVars
  BY <1>3 DEF RecordCall, InsertCall, UpsertBlock, UpdateModels, Retry, Reopen,
     ReopenFails, Fail, DeadConnection, Fault, Refuse, LoseConnection, LoseIdle,
     Crash, Deadlock
<1>4. CASE UNCHANGED vars
  BY <1>4 DEF vars
<1>5. QED
  BY <1>1, <1>2, <1>3, <1>4 DEF Next, Write, Server, AllDone

(* A call whose caller is told it was recorded is in the table. *)
LEMMA RecordedStep ==
  ASSUME TypeOK, WriterInv, [Next]_vars, NEW c \in CallRows,
         outcome'[c] = "recorded", outcome'[c] # outcome[c]
  PROVE  c \in calls'
<1>1. outcome \in [CallRows -> {"pending", "recorded"} \cup GivenUp]
  BY DEF TypeOK
<1>2. ASSUME NEW w \in Writers, CommitCall(w) PROVE c \in calls'
  <2>1. c = Current(w) /\ calls' = calls \cup tx[w].calls
    BY <1>1, <1>2 DEF CommitCall, Apply
  <2>2. Current(w) \in tx[w].calls
    BY <1>2 DEF CommitCall, Complete, WriterInv, TxOf
  <2>3. QED
    BY <2>1, <2>2
<1>3. ASSUME NEW w \in Writers, ReopenFails(w) \/ Fail(w) PROVE FALSE
  BY <1>1, <1>3 DEF ReopenFails, Fail, GiveUp
<1>4. ASSUME NEW w \in Writers,
             \/ RecordCall(w) \/ InsertCall(w) \/ UpsertBlock(w) \/ UpdateModels(w)
             \/ CommitModels(w) \/ Retry(w) \/ Reopen(w) \/ DeadConnection(w)
             \/ Fault(w) \/ Deadlock(w)
      PROVE  FALSE
  BY <1>4 DEF RecordCall, InsertCall, UpsertBlock, UpdateModels, CommitModels, Retry,
     Reopen, DeadConnection, Fault, Refuse, LoseConnection, LoseIdle, Crash, Deadlock
<1>5. CASE (\E o \in orphans : Resolve(o)) \/ UNCHANGED vars
  BY <1>5 DEF Resolve, vars
<1>6. QED
  BY <1>2, <1>3, <1>4, <1>5 DEF Next, Write, Server, AllDone

(* Calls stay whole. *)
LEMMA WholeStep ==
  ASSUME TypeOK, TurnInv, WriterInv, OrphanInv, WholeCalls, [Next]_vars
  PROVE  WholeCalls'
<1>1. RowsWhole
  BY DEF WholeCalls, RowsWhole
<1>2. RowsWhole'
  <2>1. CASE UNCHANGED dbVars
    BY <1>1, <2>1 DEF RowsWhole, dbVars
  <2>2. CASE \E x \in Transactions : Whole(x) /\ Apply(x)
    BY <1>1, <2>2, ApplyWhole
  <2>3. QED
    BY <2>1, <2>2, Commits
<1>3. ASSUME NEW c \in CallRows, outcome'[c] = "recorded" PROVE c \in calls'
  <2>1. CASE outcome'[c] = outcome[c]
    BY <1>3, <2>1, DbGrows DEF WholeCalls
  <2>2. CASE outcome'[c] # outcome[c]
    BY <1>3, <2>2, RecordedStep
  <2>3. QED
    BY <2>1, <2>2
<1>4. QED
  BY <1>2, <1>3 DEF WholeCalls, RowsWhole

(* The mirror goes on lagging by one model at most. *)
LEMMA MirrorStep ==
  ASSUME TypeOK, WriterInv, OrphanInv, MirrorLags, [Next]_vars
  PROVE  MirrorLags'
<1> DEFINE Lags(w) == \/ models[w] = mirror[w]
                      \/ \E m \in Models \ Range(mirror[w]) : models[w] = Append(mirror[w], m)
<1>1. SUFFICES ASSUME NEW v \in Writers PROVE Lags(v)'
  BY DEF MirrorLags
<1>2. Lags(v)
  BY DEF MirrorLags
<1>3. models \in [Writers -> Seq(Models)] /\ mirror \in [Writers -> Seq(Models)]
  BY DEF TypeOK
<1>4. ASSUME NEW w \in Writers, CommitCall(w) PROVE Lags(v)'
  <2>1. tx[w].models = <<>>
    BY <1>4 DEF CommitCall, WriterInv, NoteOf
  <2>2. models' = models /\ mirror' = mirror
    BY <1>4, <2>1 DEF CommitCall, Apply
  <2>3. QED
    BY <1>2, <2>2
<1>5. ASSUME NEW w \in Writers, CommitModels(w) PROVE Lags(v)'
  <2>1. tx[w].owner = w /\ tx[w].models # <<>>
    BY <1>5 DEF CommitModels, Complete, WriterInv, NoteOf, TxOf
  <2>2. /\ models' = [models EXCEPT ![w] = tx[w].models]
        /\ mirror' = [mirror EXCEPT ![w] = tx[w].models]
    BY <1>5, <2>1 DEF CommitModels, Apply
  <2>3. CASE v = w
    BY <1>3, <2>2, <2>3
  <2>4. CASE v # w
    BY <1>2, <1>3, <2>2, <2>4
  <2>5. QED
    BY <2>3, <2>4
<1>6. ASSUME NEW o \in orphans, Resolve(o) PROVE Lags(v)'
  <2>1. mirror' = mirror
    BY <1>6 DEF Resolve
  <2>2. CASE models' = models
    BY <1>2, <2>1, <2>2
  <2>3. CASE models' = [models EXCEPT ![o.tx.owner] = o.tx.models] /\ o.tx.models # <<>>
    <3>1. CASE v = o.tx.owner
      BY <1>3, <2>1, <2>3, <3>1 DEF OrphanInv
    <3>2. CASE v # o.tx.owner
      BY <1>2, <1>3, <2>1, <2>3, <3>2
    <3>3. QED
      BY <3>1, <3>2
  <2>4. QED
    BY <1>6, <2>2, <2>3 DEF Resolve, Apply, dbVars
<1>7. ASSUME NEW w \in Writers,
             \/ RecordCall(w) \/ InsertCall(w) \/ UpsertBlock(w) \/ UpdateModels(w)
             \/ Retry(w) \/ Reopen(w) \/ ReopenFails(w) \/ Fail(w) \/ DeadConnection(w)
             \/ Fault(w) \/ Deadlock(w)
      PROVE  Lags(v)'
  <2>1. models' = models /\ mirror' = mirror
    BY <1>7 DEF RecordCall, InsertCall, UpsertBlock, UpdateModels, Retry, Reopen,
       ReopenFails, Fail, DeadConnection, Fault, Refuse, LoseConnection, LoseIdle,
       Crash, Deadlock, dbVars
  <2>2. QED
    BY <1>2, <2>1
<1>8. CASE UNCHANGED vars
  BY <1>2, <1>8 DEF vars, dbVars
<1>9. QED
  BY <1>4, <1>5, <1>6, <1>7, <1>8 DEF Next, Write, Server, AllDone

-----------------------------------------------------------------------------

(* Empty tables, idle writers. *)
LEMMA InitInv ==
  ASSUME Init
  PROVE  Inv
<1>1. TypeOK
  <2>1. <<>> \in Seq(Models)
    OBVIOUS
  <2>2. \A w \in Writers : Empty(w) \in Transactions
    BY EmptyIsTransaction
  <2>3. 1 \in 1..MaxAttempts /\ 0 \in 0..MaxFaults
    BY SqlStoreAssumption DEF MaxAttempts
  <2>4. QED
    BY <2>1, <2>2, <2>3 DEF Init, TypeOK
<1>2. TurnInv
  <2>1. \A w \in Writers : Len(Turns[w]) \in Nat
    BY SqlStoreAssumption
  <2>2. QED
    BY <2>1 DEF Init, TurnInv, Active
<1>3. WriterInv
  BY DEF Init, WriterInv, TxOf, NoteOf, BlipOf, Empty
<1>4. OrphanInv /\ WholeCalls /\ MirrorLags /\ NoCheapLoss
  BY DEF Init, OrphanInv, WholeCalls, MirrorLags, NoCheapLoss
<1>5. QED
  BY <1>1, <1>2, <1>3, <1>4 DEF Inv

LEMMA NextInv ==
  ASSUME Inv, [Next]_vars
  PROVE  Inv'
BY TypeStep, TurnStep, WriterStep, OrphanStep, WholeStep, MirrorStep, LossStep DEF Inv

(* The inductive invariant holds in every state of every run: what each open *)
(* transaction and each one lost with its connection may contain, and how    *)
(* many faults every attempt of a call has been paid for with.               *)
THEOREM Invariance == Spec => []Inv
<1>1. Init => Inv
  BY InitInv
<1>2. Inv /\ [Next]_vars => Inv'
  BY NextInv
<1>3. QED
  BY <1>1, <1>2, PTL DEF Spec

(* The variables keep their types; above all, no call is attempted more than *)
(* three times (`_WRITE_MAX_ATTEMPTS`), whatever the faults.                 *)
THEOREM TypeCorrect == Spec => []TypeOK
<1>1. Inv => TypeOK
  BY DEF Inv
<1>2. QED
  BY <1>1, Invariance, PTL

(* Every call is in the shared database whole or not at all, and one that    *)
(* `record_call` returned from is there, for any number of runs that share   *)
(* blocks, deadlock, lose connections and crash.                             *)
THEOREM AllOrNothing == Spec => []WholeCalls
<1>1. Inv => WholeCalls
  BY DEF Inv
<1>2. QED
  BY <1>1, Invariance, PTL

(* The in-memory list of models is the committed one, or the committed one   *)
(* without its last model: never ahead of it (`note_model`).                 *)
THEOREM CommitThenMark == Spec => []MirrorLags
<1>1. Inv => MirrorLags
  BY DEF Inv
<1>2. QED
  BY <1>1, Invariance, PTL

(* `_with_write_retry` gives a call up for want of attempts only after two   *)
(* faults of that call, and as a duplicate only when it is saved.            *)
THEOREM LossNeedsTwoFaults == Spec => []NoCheapLoss
<1>1. Inv => NoCheapLoss
  BY DEF Inv
<1>2. QED
  BY <1>1, Invariance, PTL

=============================================================================
