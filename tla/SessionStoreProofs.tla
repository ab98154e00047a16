------------------------- MODULE SessionStoreProofs -------------------------
(***************************************************************************)
(* Proofs about SessionStore, for any number of processes of any releases, *)
(* any calls, faults and number of attempts, on all three backends.        *)
(***************************************************************************)
EXTENDS SessionStore, WellFoundedInduction, TLAPS

(* Where a process stands, and what that says of the store. *)
PcInv ==
  /\ legacy => backend = "sqlite" /\ created
  /\ rows # {} => created
  /\ \A p \in Processes :
       /\ pc[p] \in {"columns", "alter"} => p \in Writers /\ backend = "sqlite" /\ created
       /\ pc[p] \in {"creating", "waiting"} => backend = "postgres"
       /\ pc[p] \in {"gate", "insert", "commit", "handle", "open"} => p \in Writers /\ created
       /\ pc[p] = "commit" => backend # "sqlite"
       /\ pc[p] = "handle" => backend = "sqlite"
       /\ pc[p] \in {"bind", "runs", "counts", "agents", "listed"} => p \in Readers
       /\ (pc[p] = "failed") = (why[p] # "none")

(* A second attempt on a server finds the tables, so nobody waits twice; one *)
(* on a file costs a lock error.                                             *)
AttemptInv ==
  \A p \in Processes :
    /\ pc[p] = "waiting" => attempt[p] = 1
    /\ attempt[p] > 1 /\ backend # "sqlite" => created
    /\ attempt[p] <= blips[p] + 1 \/ backend # "sqlite"

(* A file is widened by one column at a time, by the writer that saw it last;*)
(* past the upgrade all of the columns are there.                            *)
ColsInv ==
  /\ ~legacy => cols = IF created THEN AddedColumns ELSE 0
  /\ legacy /\ cols > 0 => \E q \in Writers : seen[q] = cols
  /\ \A p \in Processes :
       /\ pc[p] = "alter" => legacy /\ seen[p] < AddedColumns
       /\ seen[p] > 0 => cols > 0
       /\ pc[p] \in {"gate", "insert", "commit", "handle", "open"} => cols = AddedColumns
       /\ pc[p] = "open" => v2[p]

(* Every place is drawn once, and a row belongs to an opening that succeeded,*)
(* lost the answer to its COMMIT or could not read its handle.               *)
RowsInv ==
  /\ \A q \in rows : q.place < nextPlace
  /\ \A q, r \in rows : q.by = r.by \/ q.place = r.place => q = r
  /\ \A q \in rows :
       q.by = Old \/ pc[q.by] \in {"handle", "open"} \/ why[q.by] \in {"unanswered", "handle"}
  /\ \A w \in Writers :
       pc[w] \in {"handle", "open"} \/ why[w] \in {"unanswered", "handle"} =>
         w \in Present(rows)
  /\ \A w \in Writers : pc[w] = "commit" =>
       /\ place[w] < nextPlace
       /\ \A q \in rows : q.place # place[w]
       /\ \A v \in Writers : pc[v] = "commit" /\ place[v] = place[w] => v = w

(* The file's first row is the first of all, and a writer past its gate met  *)
(* no newer one there.                                                       *)
GateInv ==
  /\ nextPlace > 0
  /\ \A q \in rows : q.by = Old => q.place = 0
  /\ \A w \in Writers :
       pc[w] \in {"insert", "commit", "handle", "open"} \/ why[w] \in {"unanswered", "handle"} =>
         \A s \in passed[w] : VersionOf(s) <= VersionOf(w)

(* Every call carries the agent that made it. *)
Labelled(calls) == \A s \in Sessions : \A i \in 1..Len(calls[s]) : calls[s][i] = AgentOf[s]

(* What a reader has, and what it has counted, is still there. *)
ReaderAt(r) ==
  /\ Labelled(snapshot[r].turns)
  /\ \A s \in Sessions : Len(snapshot[r].turns[s]) <= Len(turns[s])
  /\ pc[r] \in {"runs", "counts", "agents", "listed"} =>
       /\ bound[r] \in Present(rows)
       /\ backend = "mysql" => bound[r] \in Present(snapshot[r].rows)
       /\ v2[r] \/ legacy
  /\ pc[r] \in {"counts", "agents", "listed"} => bound[r] \in listing[r].runs
  /\ pc[r] \in {"agents", "listed"} =>
       \A s \in Sessions : listing[r].counts[s] <= Len(Sees(r).turns[s])
  /\ pc[r] = "listed" /\ v2[r] =>
       \A s \in Sessions : listing[r].counts[s] > 0 =>
         {AgentOf[s]} \ {NoLabel} \subseteq listing[r].agents[s]

ReadInv == Labelled(turns) /\ \A r \in Readers : ReaderAt(r)

Inv ==
  /\ TypeOK
  /\ PcInv
  /\ AttemptInv
  /\ ColsInv
  /\ RowsInv
  /\ GateInv
  /\ FailureHasCause
  /\ ReadInv

-----------------------------------------------------------------------------
(* A bounded set of rows that is not empty has a last one. *)
LEMMA LastRow ==
  ASSUME NEW R, R \subseteq Row, R # {}, NEW n \in Nat, \A q \in R : q.place < n
  PROVE  Last(R) \in R /\ \A q \in R : q.place <= Last(R).place
<1> DEFINE T == {m \in Nat : \A q \in R : q.place <= m}
<1>1. PICK m \in T : \A k \in T : ~(<<k, m>> \in OpToRel(<, Nat))
  <2>1. n \in T
    BY DEF Row
  <2>2. T # {} /\ T \subseteq Nat
    BY <2>1
  <2> HIDE DEF T
  <2>3. QED
    BY <2>2, NatLessThanWellFounded, WFMin
<1>2. \A k \in T : m <= k
  <2> SUFFICES ASSUME NEW k \in T, k < m PROVE FALSE
    OBVIOUS
  <2> DEFINE p == <<k, m>>
  <2>1. p \in Nat \X Nat /\ p[1] < p[2]
    OBVIOUS
  <2>2. p \in OpToRel(<, Nat)
    BY <2>1, Zenon DEF OpToRel
  <2>3. QED
    BY <1>1, <2>2
<1>3. \E r \in R : r.place = m
  <2>1. SUFFICES ASSUME \A r \in R : r.place # m PROVE FALSE
    OBVIOUS
  <2>2. \A r \in R : r.place \in Nat /\ r.place < m
    BY <2>1 DEF Row
  <2>3. m - 1 \in T
    BY <2>2
  <2>4. QED
    BY <1>2, <2>3
<1>4. \E r \in R : \A q \in R : q.place <= r.place
  BY <1>3
<1>5. QED
  BY <1>4 DEF Last

LEMMA Kinds ==
  /\ Writers \subseteq Processes /\ Readers \subseteq Processes
  /\ Writers \subseteq Sessions /\ Old \in Sessions
BY DEF Processes, Sessions

(* The names of the places and the causes. *)
LEMMA Names ==
  /\ "creating" \in Places /\ "waiting" \in Places /\ "columns" \in Places
  /\ "alter" \in Places /\ "gate" \in Places /\ "insert" \in Places
  /\ "commit" \in Places /\ "handle" \in Places /\ "open" \in Places /\ "bind" \in Places
  /\ "runs" \in Places /\ "counts" \in Places /\ "agents" \in Places
  /\ "listed" \in Places /\ "failed" \in Places /\ "dead" \in Places /\ "ddl" \in Places
  /\ "none" \in Causes /\ "newer" \in Causes /\ "race" \in Causes
  /\ "locked" \in Causes /\ "error" \in Causes /\ "unanswered" \in Causes
  /\ "handle" \in Causes
  /\ "empty" \in Causes /\ "no table" \in Causes /\ "duplicate column" \in Causes
BY DEF Places, Causes

(* Counting up to a bound. *)
LEMMA CountUp ==
  ASSUME NEW S, NEW x \in S, NEW n \in Nat, NEW f \in [S -> 1..n], f[x] < n
  PROVE  [f EXCEPT ![x] = @ + 1] \in [S -> 1..n]
OBVIOUS

LEMMA Versions == \A p : VersionOf(p) \in Nat
BY DEF VersionOf

(* A fault is counted. *)
LEMMA BlipTypes ==
  ASSUME PlaceOK, NEW p \in Processes, Blip(p)
  PROVE  blips' \in [Processes -> Nat] /\ faults' \in 0..MaxFaults
BY SessionStoreAssumption DEF PlaceOK, Blip

LEMMA RowTypes == \A s \in Sessions, n \in Nat : [by |-> s, place |-> n] \in Row
BY DEF Row

LEMMA StoreTypes == TypeOK /\ PcInv /\ ColsInv /\ [Next]_vars => StoreOK'
<1> SUFFICES ASSUME TypeOK, PcInv, ColsInv, [Next]_vars PROVE StoreOK'
  OBVIOUS
<1> USE DEF Unharmed, tables, locals, TypeOK, StoreOK, HandleOK, AddedColumns
<1>1. ASSUME NEW w \in Writers, CreateFileTables(w) PROVE StoreOK'
  BY <1>1 DEF CreateFileTables
<1>2. ASSUME NEW w \in Writers, AddColumn(w) PROVE StoreOK'
  <2>1. /\ cols \in 0..AddedColumns /\ seen \in [Processes -> 0..AddedColumns]
        /\ w \in Processes /\ seen[w] \in 0..AddedColumns /\ seen[w] < AddedColumns
    BY <1>2, Kinds DEF AddColumn, ColsInv
  <2>2. CASE cols > seen[w]
    BY <1>2, <2>2 DEF AddColumn
  <2>3. CASE ~(cols > seen[w])
    <3>1. cols + 1 \in 0..AddedColumns
      BY <2>1, <2>3
    <3>2. QED
      BY <1>2, <2>1, <2>3, <3>1 DEF AddColumn
  <2>4. QED
    BY <2>2, <2>3
<1>3. ASSUME NEW p \in Processes, CreateTablesSerially(p) PROVE StoreOK'
  BY <1>3 DEF CreateTablesSerially
<1>4. ASSUME NEW p \in Processes, CommitTables(p) PROVE StoreOK'
  BY <1>4 DEF CommitTables
<1>5. ASSUME NEW w \in Writers, InsertRow(w) PROVE StoreOK'
  <2>1. [by |-> w, place |-> nextPlace] \in Row
    BY RowTypes, Kinds
  <2>2. QED
    BY <1>5, <2>1 DEF InsertRow
<1>6. ASSUME NEW w \in Writers, CommitRow(w) PROVE StoreOK'
  <2>1. [by |-> w, place |-> place[w]] \in Row
    BY RowTypes, Kinds
  <2>2. QED
    BY <1>6, <2>1 DEF CommitRow
<1>7. ASSUME NEW w \in Writers, RecordCall(w) PROVE StoreOK'
  <2>1. AgentOf[w] \in Labels /\ NoLabel \in Labels /\ w \in Sessions
    BY SessionStoreAssumption, Kinds
  <2>2. turns' \in [Sessions -> Seq(Labels)]
    BY <1>7, <2>1 DEF RecordCall
  <2>3. QED
    BY <1>7, <2>2 DEF RecordCall
<1>8. ASSUME NEW p \in Processes, LoseAnswer(p) PROVE StoreOK'
  <2>1. pc[p] = "commit" => [by |-> p, place |-> place[p]] \in Row
    BY RowTypes, Kinds DEF PcInv
  <2>2. CASE pc[p] = "creating"
    BY <1>8, <2>2 DEF LoseAnswer
  <2>3. CASE pc[p] = "commit"
    BY <1>8, <2>1, <2>3 DEF LoseAnswer
  <2>4. QED
    BY <1>8, <2>2, <2>3 DEF LoseAnswer
<1>9. ASSUME NEW p \in Processes, CreateTables(p) \/ LoseRace(p) \/ TakeOver(p) \/ Refuse(p) \/ Crash(p)
      PROVE StoreOK'
  <2>1. UNCHANGED <<backend, legacy, tables>>
    BY <1>9 DEF CreateTables, LoseRace, TakeOver, Refuse, Crash
  <2>2. QED
    BY <2>1
<1>10. ASSUME NEW w \in Writers, ReadColumns(w) \/ Gate(w) \/ LockedOut(w) \/
             OpenHandle(w) \/ HandleFails(w)
      PROVE StoreOK'
  <2>1. UNCHANGED <<backend, legacy, tables>>
    BY <1>10 DEF ReadColumns, Gate, LockedOut, OpenHandle, HandleFails
  <2>2. QED
    BY <2>1
<1>11. ASSUME NEW r \in Readers, Bind(r) \/ ListRuns(r) \/ CountTurns(r) \/ ListAgents(r)
      PROVE StoreOK'
  <2>1. UNCHANGED <<backend, legacy, tables>>
    BY <1>11 DEF Bind, ListRuns, CountTurns, ListAgents
  <2>2. QED
    BY <2>1
<1>12. CASE UNCHANGED vars
  BY <1>12 DEF vars
<1>13. QED
  BY <1>1, <1>2, <1>3, <1>4, <1>5, <1>6, <1>7, <1>8, <1>9, <1>10, <1>11, <1>12
     DEF Next, Schema, Write, Read, Fault, AllDone

LEMMA PlaceTypes == TypeOK /\ PcInv /\ [Next]_vars => PlaceOK'
<1> SUFFICES ASSUME TypeOK, PcInv, [Next]_vars PROVE PlaceOK'
  OBVIOUS
<1> USE Kinds, Names DEF Unharmed, tables, locals, Goto, FailWith, AfterSchema, TypeOK, StoreOK, PlaceOK
<1>1. ASSUME NEW p \in Processes, CreateTablesSerially(p) PROVE PlaceOK'
  BY <1>1 DEF CreateTablesSerially
<1>2. ASSUME NEW p \in Processes, CreateTables(p) PROVE PlaceOK'
  BY <1>2 DEF CreateTables
<1>3. ASSUME NEW p \in Processes, CommitTables(p) PROVE PlaceOK'
  BY <1>3 DEF CommitTables
<1>4. ASSUME NEW p \in Processes, LoseRace(p) PROVE PlaceOK'
  <2>1. backend = "postgres" /\ attempt \in [Processes -> 1..SchemaAttempts]
    BY <1>4 DEF LoseRace, PcInv
  <2>2. attempt' \in [Processes -> 1..SchemaAttempts]
    <3>1. CASE attempt[p] < SchemaAttempts
      <4>1. attempt' = [attempt EXCEPT ![p] = attempt[p] + 1]
        BY <1>4, <3>1 DEF LoseRace
      <4>2. SchemaAttempts \in Nat
        BY DEF SchemaAttempts
      <4> HIDE DEF TypeOK, PlaceOK, StoreOK
      <4>3. QED
        BY <2>1, <3>1, <4>1, <4>2, CountUp
    <3>2. CASE ~(attempt[p] < SchemaAttempts)
      BY <1>4, <2>1, <3>2 DEF LoseRace
    <3>3. QED
      BY <3>1, <3>2
  <2>3. QED
    BY <1>4, <2>1, <2>2 DEF LoseRace
<1>5. ASSUME NEW p \in Processes, TakeOver(p) PROVE PlaceOK'
  BY <1>5 DEF TakeOver
<1>6. ASSUME NEW p \in Processes, Refuse(p) PROVE PlaceOK'
  BY <1>6, BlipTypes DEF Refuse
<1>7. ASSUME NEW p \in Processes, LoseAnswer(p) PROVE PlaceOK'
  BY <1>7, BlipTypes DEF LoseAnswer
<1>8. ASSUME NEW p \in Processes, Crash(p) PROVE PlaceOK'
  BY <1>8, BlipTypes DEF Crash
<1>9. ASSUME NEW w \in Writers, CreateFileTables(w) PROVE PlaceOK'
  BY <1>9 DEF CreateFileTables
<1>10. ASSUME NEW w \in Writers, ReadColumns(w) PROVE PlaceOK'
  BY <1>10 DEF ReadColumns
<1>11. ASSUME NEW w \in Writers, AddColumn(w) PROVE PlaceOK'
  BY <1>11 DEF AddColumn
<1>12. ASSUME NEW w \in Writers, Gate(w) PROVE PlaceOK'
  BY <1>12 DEF Gate
<1>13. ASSUME NEW w \in Writers, InsertRow(w) PROVE PlaceOK'
  BY <1>13 DEF InsertRow
<1>14. ASSUME NEW w \in Writers, CommitRow(w) PROVE PlaceOK'
  BY <1>14 DEF CommitRow
<1>15. ASSUME NEW w \in Writers, LockedOut(w) PROVE PlaceOK'
  <2>1. backend = "sqlite" /\ attempt \in [Processes -> 1..LockAttempts]
    BY <1>15 DEF LockedOut
  <2>2. attempt' \in [Processes -> 1..LockAttempts]
    <3>1. CASE attempt[w] < LockAttempts
      <4>1. attempt' = [attempt EXCEPT ![w] = attempt[w] + 1]
        BY <1>15, <3>1 DEF LockedOut
      <4>2. LockAttempts \in Nat /\ w \in Processes
        BY SessionStoreAssumption
      <4> HIDE DEF TypeOK, PlaceOK, StoreOK
      <4>3. QED
        BY <2>1, <3>1, <4>1, <4>2, CountUp
    <3>2. CASE ~(attempt[w] < LockAttempts)
      BY <1>15, <2>1, <3>2 DEF LockedOut
    <3>3. QED
      BY <3>1, <3>2
  <2>3. QED
    BY <1>15, <2>1, <2>2, BlipTypes DEF LockedOut
<1>16. ASSUME NEW r \in Readers, Bind(r) PROVE PlaceOK'
  BY <1>16 DEF Bind
<1>17. ASSUME NEW r \in Readers, ListRuns(r) PROVE PlaceOK'
  BY <1>17 DEF ListRuns
<1>18. ASSUME NEW r \in Readers, CountTurns(r) PROVE PlaceOK'
  BY <1>18 DEF CountTurns
<1>19. ASSUME NEW r \in Readers, ListAgents(r) PROVE PlaceOK'
  BY <1>19 DEF ListAgents
<1>20. ASSUME NEW w \in Writers, RecordCall(w)
      PROVE PlaceOK'
  <2>1. UNCHANGED <<backend, pc, attempt, why, blips, faults>>
    BY <1>20 DEF RecordCall
  <2>2. QED
    BY <2>1
<1>21. ASSUME NEW w \in Writers, OpenHandle(w) PROVE PlaceOK'
  BY <1>21 DEF OpenHandle
<1>22. ASSUME NEW w \in Writers, HandleFails(w) PROVE PlaceOK'
  BY <1>22, BlipTypes DEF HandleFails
<1>23. CASE UNCHANGED vars
  BY <1>23 DEF vars
<1>24. QED
  BY <1>1, <1>2, <1>3, <1>4, <1>5, <1>6, <1>7, <1>8, <1>9, <1>10, <1>11, <1>12, <1>13, <1>14, <1>15, <1>16, <1>17, <1>18, <1>19, <1>20, <1>21, <1>22, <1>23
     DEF Next, Schema, Write, Read, Fault, AllDone

LEMMA HandleTypes == TypeOK /\ ColsInv /\ [Next]_vars => HandleOK'
<1> SUFFICES ASSUME TypeOK, ColsInv, [Next]_vars PROVE HandleOK'
  OBVIOUS
<1> USE Kinds DEF Unharmed, tables, locals, Goto, FailWith, AfterSchema, TypeOK, StoreOK, HandleOK, AddedColumns, Present, Row
<1>1. ASSUME NEW w \in Writers, ReadColumns(w) PROVE HandleOK'
  BY <1>1 DEF ReadColumns
<1>2. ASSUME NEW w \in Writers, AddColumn(w) PROVE HandleOK'
  <2>1. /\ cols \in 0..AddedColumns /\ seen \in [Processes -> 0..AddedColumns]
        /\ w \in Processes /\ seen[w] \in 0..AddedColumns /\ seen[w] < AddedColumns
    BY <1>2, Kinds DEF AddColumn, ColsInv
  <2>2. CASE cols > seen[w]
    BY <1>2, <2>2 DEF AddColumn
  <2>3. CASE ~(cols > seen[w])
    <3>1. cols + 1 \in 0..AddedColumns
      BY <2>1, <2>3
    <3>2. QED
      BY <1>2, <2>1, <2>3, <3>1 DEF AddColumn
  <2>4. QED
    BY <2>2, <2>3
<1>3. ASSUME NEW w \in Writers, Gate(w) PROVE HandleOK'
  BY <1>3 DEF Gate
<1>4. ASSUME NEW w \in Writers, InsertRow(w) PROVE HandleOK'
  BY <1>4 DEF InsertRow
<1>5. ASSUME NEW w \in Writers, CommitRow(w) PROVE HandleOK'
  BY <1>5 DEF CommitRow
<1>6. ASSUME NEW r \in Readers, Bind(r) PROVE HandleOK'
  BY <1>6 DEF Bind
<1>7. ASSUME NEW p \in Processes, CreateTablesSerially(p) \/ CreateTables(p) \/ CommitTables(p) \/
             LoseRace(p) \/ TakeOver(p) \/ Refuse(p) \/ LoseAnswer(p) \/ Crash(p)
      PROVE HandleOK'
  <2>1. UNCHANGED <<seen, place, v2, passed>>
    BY <1>7 DEF CreateTablesSerially, CreateTables, CommitTables, LoseRace, TakeOver, Refuse, LoseAnswer, Crash
  <2>2. QED
    BY <2>1
<1>8. ASSUME NEW w \in Writers, CreateFileTables(w) \/ RecordCall(w) \/ LockedOut(w) \/
             HandleFails(w)
      PROVE HandleOK'
  <2>1. UNCHANGED <<seen, place, v2, passed>>
    BY <1>8 DEF CreateFileTables, RecordCall, LockedOut, HandleFails
  <2>2. QED
    BY <2>1
<1>9. ASSUME NEW r \in Readers, ListRuns(r) \/ CountTurns(r) \/ ListAgents(r)
      PROVE HandleOK'
  <2>1. UNCHANGED <<seen, place, v2, passed>>
    BY <1>9 DEF ListRuns, CountTurns, ListAgents
  <2>2. QED
    BY <2>1
<1>10. ASSUME NEW w \in Writers, OpenHandle(w) PROVE HandleOK'
  BY <1>10 DEF OpenHandle
<1>11. CASE UNCHANGED vars
  BY <1>11 DEF vars
<1>12. QED
  BY <1>1, <1>2, <1>3, <1>4, <1>5, <1>6, <1>7, <1>8, <1>9, <1>10, <1>11
     DEF Next, Schema, Write, Read, Fault, AllDone

LEMMA ReaderTypes == TypeOK /\ RowsInv /\ [Next]_vars => ReaderOK'
<1> SUFFICES ASSUME TypeOK, RowsInv, [Next]_vars PROVE ReaderOK'
  OBVIOUS
<1> USE Kinds DEF Unharmed, tables, locals, Goto, FailWith, AfterSchema, TypeOK, StoreOK, ReaderOK, Present
<1>1. ASSUME NEW r \in Readers, Bind(r) PROVE ReaderOK'
  <2>1. rows # {} => Last(rows).by \in Sessions
    <3>1. rows \subseteq Row /\ nextPlace \in Nat /\ \A q \in rows : q.place < nextPlace
      BY DEF RowsInv
    <3>2. rows # {} => Last(rows) \in Row
      BY <3>1, LastRow
    <3>3. QED
      BY <3>2 DEF Row
  <2>2. [rows |-> rows, turns |-> turns] \in [rows : SUBSET Row, turns : [Sessions -> Seq(Labels)]]
    OBVIOUS
  <2>3. snapshot' \in [Readers -> [rows : SUBSET Row, turns : [Sessions -> Seq(Labels)]]]
    BY <1>1, <2>2 DEF Bind
  <2>4. QED
    BY <1>1, <2>1, <2>3 DEF Bind
<1>2. ASSUME NEW r \in Readers, ListRuns(r) PROVE ReaderOK'
  <2>1. Present(Sees(r).rows) \in SUBSET Sessions
    BY DEF Sees, Row
  <2>2. listing' \in [Readers -> [runs : SUBSET Sessions, counts : [Sessions -> Nat],
                               agents : [Sessions -> SUBSET Labels]]]
    BY <1>2, <2>1 DEF ListRuns
  <2>3. QED
    BY <1>2, <2>2 DEF ListRuns
<1>3. ASSUME NEW r \in Readers, CountTurns(r) PROVE ReaderOK'
  <2>1. [s \in Sessions |-> Len(Sees(r).turns[s])] \in [Sessions -> Nat]
    BY DEF Sees
  <2>2. listing' \in [Readers -> [runs : SUBSET Sessions, counts : [Sessions -> Nat],
                               agents : [Sessions -> SUBSET Labels]]]
    BY <1>3, <2>1 DEF CountTurns
  <2>3. QED
    BY <1>3, <2>2 DEF CountTurns
<1>4. ASSUME NEW r \in Readers, ListAgents(r) PROVE ReaderOK'
  <2>1. [s \in Sessions |->
          IF v2[r] THEN {Sees(r).turns[s][i] : i \in DOMAIN Sees(r).turns[s]} \ {NoLabel}
          ELSE {}] \in [Sessions -> SUBSET Labels]
    BY DEF Sees
  <2>2. listing' \in [Readers -> [runs : SUBSET Sessions, counts : [Sessions -> Nat],
                               agents : [Sessions -> SUBSET Labels]]]
    BY <1>4, <2>1 DEF ListAgents
  <2>3. QED
    BY <1>4, <2>2 DEF ListAgents
<1>5. ASSUME NEW p \in Processes, CreateTablesSerially(p) \/ CreateTables(p) \/ CommitTables(p) \/
             LoseRace(p) \/ TakeOver(p) \/ Refuse(p) \/ LoseAnswer(p) \/ Crash(p)
      PROVE ReaderOK'
  <2>1. UNCHANGED <<bound, snapshot, listing>>
    BY <1>5 DEF CreateTablesSerially, CreateTables, CommitTables, LoseRace, TakeOver, Refuse, LoseAnswer, Crash
  <2>2. QED
    BY <2>1
<1>6. ASSUME NEW w \in Writers, CreateFileTables(w) \/ ReadColumns(w) \/ AddColumn(w) \/ Gate(w) \/
             InsertRow(w) \/ OpenHandle(w) \/ HandleFails(w) \/ CommitRow(w) \/ RecordCall(w) \/
             LockedOut(w)
      PROVE ReaderOK'
  <2>1. UNCHANGED <<bound, snapshot, listing>>
    BY <1>6 DEF CreateFileTables, ReadColumns, AddColumn, Gate, InsertRow, OpenHandle,
                HandleFails, CommitRow, RecordCall, LockedOut
  <2>2. QED
    BY <2>1
<1>7. CASE UNCHANGED vars
  BY <1>7 DEF vars
<1>8. QED
  BY <1>1, <1>2, <1>3, <1>4, <1>5, <1>6, <1>7
     DEF Next, Schema, Write, Read, Fault, AllDone

LEMMA TypeStep == TypeOK /\ PcInv /\ ColsInv /\ RowsInv /\ [Next]_vars => TypeOK'
BY StoreTypes, PlaceTypes, HandleTypes, ReaderTypes DEF TypeOK

-----------------------------------------------------------------------------
LEMMA PcStep == TypeOK /\ PcInv /\ [Next]_vars => PcInv'
<1> SUFFICES ASSUME TypeOK, PcInv, [Next]_vars PROVE PcInv'
  OBVIOUS
<1> USE Kinds DEF Unharmed, tables, locals, Goto, FailWith, AfterSchema, PcInv, Processes
<1>f. pc \in [Processes -> Places] /\ why \in [Processes -> Causes]
  BY DEF TypeOK, PlaceOK
<1> USE <1>f
<1>1. ASSUME NEW p \in Processes, CreateTablesSerially(p) PROVE PcInv'
  BY <1>1 DEF CreateTablesSerially
<1>2. ASSUME NEW p \in Processes, CreateTables(p) PROVE PcInv'
  BY <1>2 DEF CreateTables
<1>3. ASSUME NEW p \in Processes, CommitTables(p) PROVE PcInv'
  BY <1>3 DEF CommitTables
<1>4. ASSUME NEW p \in Processes, LoseRace(p) PROVE PcInv'
  BY <1>4 DEF LoseRace
<1>5. ASSUME NEW p \in Processes, TakeOver(p) PROVE PcInv'
  BY <1>5 DEF TakeOver
<1>6. ASSUME NEW p \in Processes, Refuse(p) PROVE PcInv'
  BY <1>6 DEF Refuse
<1>7. ASSUME NEW p \in Processes, LoseAnswer(p) PROVE PcInv'
  BY <1>7 DEF LoseAnswer
<1>8. ASSUME NEW p \in Processes, Crash(p) PROVE PcInv'
  BY <1>8 DEF Crash
<1>9. ASSUME NEW w \in Writers, CreateFileTables(w) PROVE PcInv'
  BY <1>9 DEF CreateFileTables
<1>10. ASSUME NEW w \in Writers, ReadColumns(w) PROVE PcInv'
  BY <1>10 DEF ReadColumns
<1>11. ASSUME NEW w \in Writers, AddColumn(w) PROVE PcInv'
  BY <1>11 DEF AddColumn
<1>12. ASSUME NEW w \in Writers, Gate(w) PROVE PcInv'
  BY <1>12 DEF Gate
<1>13. ASSUME NEW w \in Writers, InsertRow(w) PROVE PcInv'
  BY <1>13 DEF InsertRow
<1>14. ASSUME NEW w \in Writers, CommitRow(w) PROVE PcInv'
  BY <1>14 DEF CommitRow
<1>15. ASSUME NEW w \in Writers, LockedOut(w) PROVE PcInv'
  BY <1>15 DEF LockedOut
<1>16. ASSUME NEW r \in Readers, Bind(r) PROVE PcInv'
  BY <1>16 DEF Bind
<1>17. ASSUME NEW r \in Readers, ListRuns(r) PROVE PcInv'
  BY <1>17 DEF ListRuns
<1>18. ASSUME NEW r \in Readers, CountTurns(r) PROVE PcInv'
  BY <1>18 DEF CountTurns
<1>19. ASSUME NEW r \in Readers, ListAgents(r) PROVE PcInv'
  BY <1>19 DEF ListAgents
<1>20. ASSUME NEW w \in Writers, RecordCall(w)
      PROVE PcInv'
  <2>1. UNCHANGED <<backend, legacy, created, rows, pc, why>>
    BY <1>20 DEF RecordCall
  <2>2. QED
    BY <2>1
<1>21. ASSUME NEW w \in Writers, OpenHandle(w) PROVE PcInv'
  BY <1>21 DEF OpenHandle
<1>22. ASSUME NEW w \in Writers, HandleFails(w) PROVE PcInv'
  BY <1>22 DEF HandleFails
<1>23. CASE UNCHANGED vars
  BY <1>23 DEF vars
<1>24. QED
  BY <1>1, <1>2, <1>3, <1>4, <1>5, <1>6, <1>7, <1>8, <1>9, <1>10, <1>11, <1>12, <1>13, <1>14, <1>15, <1>16, <1>17, <1>18, <1>19, <1>20, <1>21, <1>22, <1>23
     DEF Next, Schema, Write, Read, Fault, AllDone

LEMMA AttemptStep == TypeOK /\ PcInv /\ AttemptInv /\ [Next]_vars => AttemptInv'
<1> SUFFICES ASSUME TypeOK, PcInv, AttemptInv, [Next]_vars PROVE AttemptInv'
  OBVIOUS
<1> USE Kinds DEF Unharmed, tables, locals, Goto, FailWith, AfterSchema, Blip, AttemptInv
<1>f. /\ pc \in [Processes -> Places] /\ attempt \in [Processes -> Nat \ {0}]
      /\ blips \in [Processes -> Nat]
  BY DEF TypeOK, PlaceOK
<1> USE <1>f
<1>1. ASSUME NEW p \in Processes, CreateTablesSerially(p) PROVE AttemptInv'
  BY <1>1 DEF CreateTablesSerially
<1>2. ASSUME NEW p \in Processes, CreateTables(p) PROVE AttemptInv'
  BY <1>2 DEF CreateTables
<1>3. ASSUME NEW p \in Processes, CommitTables(p) PROVE AttemptInv'
  BY <1>3 DEF CommitTables
<1>4. ASSUME NEW p \in Processes, LoseRace(p) PROVE AttemptInv'
  BY <1>4 DEF LoseRace, PcInv
<1>5. ASSUME NEW p \in Processes, TakeOver(p) PROVE AttemptInv'
  BY <1>5 DEF TakeOver
<1>6. ASSUME NEW p \in Processes, Refuse(p) PROVE AttemptInv'
  BY <1>6 DEF Refuse
<1>7. ASSUME NEW p \in Processes, LoseAnswer(p) PROVE AttemptInv'
  BY <1>7 DEF LoseAnswer
<1>8. ASSUME NEW p \in Processes, Crash(p) PROVE AttemptInv'
  BY <1>8 DEF Crash
<1>9. ASSUME NEW w \in Writers, CreateFileTables(w) PROVE AttemptInv'
  BY <1>9 DEF CreateFileTables
<1>10. ASSUME NEW w \in Writers, ReadColumns(w) PROVE AttemptInv'
  BY <1>10 DEF ReadColumns
<1>11. ASSUME NEW w \in Writers, AddColumn(w) PROVE AttemptInv'
  BY <1>11 DEF AddColumn
<1>12. ASSUME NEW w \in Writers, Gate(w) PROVE AttemptInv'
  BY <1>12 DEF Gate
<1>13. ASSUME NEW w \in Writers, InsertRow(w) PROVE AttemptInv'
  BY <1>13 DEF InsertRow
<1>14. ASSUME NEW w \in Writers, CommitRow(w) PROVE AttemptInv'
  BY <1>14 DEF CommitRow
<1>15. ASSUME NEW w \in Writers, LockedOut(w) PROVE AttemptInv'
  BY <1>15 DEF LockedOut
<1>16. ASSUME NEW r \in Readers, Bind(r) PROVE AttemptInv'
  BY <1>16 DEF Bind
<1>17. ASSUME NEW r \in Readers, ListRuns(r) PROVE AttemptInv'
  BY <1>17 DEF ListRuns
<1>18. ASSUME NEW r \in Readers, CountTurns(r) PROVE AttemptInv'
  BY <1>18 DEF CountTurns
<1>19. ASSUME NEW r \in Readers, ListAgents(r) PROVE AttemptInv'
  BY <1>19 DEF ListAgents
<1>20. ASSUME NEW w \in Writers, RecordCall(w)
      PROVE AttemptInv'
  <2>1. UNCHANGED <<backend, created, pc, attempt, blips>>
    BY <1>20 DEF RecordCall
  <2>2. QED
    BY <2>1
<1>21. ASSUME NEW w \in Writers, OpenHandle(w) PROVE AttemptInv'
  BY <1>21 DEF OpenHandle
<1>22. ASSUME NEW w \in Writers, HandleFails(w) PROVE AttemptInv'
  BY <1>22 DEF HandleFails
<1>23. CASE UNCHANGED vars
  BY <1>23 DEF vars
<1>24. QED
  BY <1>1, <1>2, <1>3, <1>4, <1>5, <1>6, <1>7, <1>8, <1>9, <1>10, <1>11, <1>12, <1>13, <1>14, <1>15, <1>16, <1>17, <1>18, <1>19, <1>20, <1>21, <1>22, <1>23
     DEF Next, Schema, Write, Read, Fault, AllDone

LEMMA ColsStep == TypeOK /\ PcInv /\ ColsInv /\ [Next]_vars => ColsInv'
<1> SUFFICES ASSUME TypeOK, PcInv, ColsInv, [Next]_vars PROVE ColsInv'
  OBVIOUS
<1> USE Kinds DEF Unharmed, tables, locals, Goto, FailWith, AfterSchema, AddedColumns, ColsInv, PcInv
<1>f. /\ pc \in [Processes -> Places] /\ seen \in [Processes -> 0..3] /\ cols \in 0..3
      /\ v2 \in [Processes -> BOOLEAN]
  BY DEF TypeOK, PlaceOK, HandleOK, StoreOK
<1> USE <1>f
<1>1. ASSUME NEW p \in Processes, CreateTablesSerially(p) PROVE ColsInv'
  BY <1>1 DEF CreateTablesSerially
<1>2. ASSUME NEW p \in Processes, CreateTables(p) PROVE ColsInv'
  BY <1>2 DEF CreateTables
<1>3. ASSUME NEW p \in Processes, CommitTables(p) PROVE ColsInv'
  BY <1>3 DEF CommitTables
<1>4. ASSUME NEW p \in Processes, LoseRace(p) PROVE ColsInv'
  BY <1>4 DEF LoseRace
<1>5. ASSUME NEW p \in Processes, TakeOver(p) PROVE ColsInv'
  BY <1>5 DEF TakeOver
<1>6. ASSUME NEW p \in Processes, Refuse(p) PROVE ColsInv'
  BY <1>6 DEF Refuse
<1>7. ASSUME NEW p \in Processes, LoseAnswer(p) PROVE ColsInv'
  BY <1>7 DEF LoseAnswer
<1>8. ASSUME NEW p \in Processes, Crash(p) PROVE ColsInv'
  BY <1>8 DEF Crash
<1>9. ASSUME NEW w \in Writers, CreateFileTables(w) PROVE ColsInv'
  BY <1>9 DEF CreateFileTables
<1>10. ASSUME NEW w \in Writers, ReadColumns(w) PROVE ColsInv'
  BY <1>10 DEF ReadColumns
<1>11. ASSUME NEW w \in Writers, AddColumn(w) PROVE ColsInv'
  <2>1. w \in Processes /\ legacy /\ created /\ seen[w] < 3 /\ cols \in 0..3 /\ seen[w] \in 0..3
    BY <1>11 DEF AddColumn
  <2>2. CASE cols > seen[w]
    BY <1>11, <2>2 DEF AddColumn
  <2>3. CASE ~(cols > seen[w])
    <3>1. /\ cols < 3
          /\ cols' = cols + 1
          /\ seen' = [seen EXCEPT ![w] = cols + 1]
          /\ pc' = [pc EXCEPT ![w] = IF cols + 1 = 3 THEN "gate" ELSE "alter"]
          /\ UNCHANGED <<legacy, created, v2>>
      BY <1>11, <2>1, <2>3 DEF AddColumn
    <3>2. seen'[w] = cols' /\ cols' \in 1..3
      BY <2>1, <3>1
    <3>3. \A p \in Processes : pc[p] \notin {"gate", "insert", "commit", "handle", "open"}
      BY <3>1
    <3>4. QED
      BY <2>1, <3>1, <3>2, <3>3
  <2>4. QED
    BY <2>2, <2>3
<1>12. ASSUME NEW w \in Writers, Gate(w) PROVE ColsInv'
  BY <1>12 DEF Gate
<1>13. ASSUME NEW w \in Writers, InsertRow(w) PROVE ColsInv'
  BY <1>13 DEF InsertRow
<1>14. ASSUME NEW w \in Writers, CommitRow(w) PROVE ColsInv'
  BY <1>14 DEF CommitRow
<1>15. ASSUME NEW w \in Writers, LockedOut(w) PROVE ColsInv'
  BY <1>15 DEF LockedOut
<1>16. ASSUME NEW r \in Readers, Bind(r) PROVE ColsInv'
  BY <1>16 DEF Bind
<1>17. ASSUME NEW r \in Readers, ListRuns(r) PROVE ColsInv'
  BY <1>17 DEF ListRuns
<1>18. ASSUME NEW r \in Readers, CountTurns(r) PROVE ColsInv'
  BY <1>18 DEF CountTurns
<1>19. ASSUME NEW r \in Readers, ListAgents(r) PROVE ColsInv'
  BY <1>19 DEF ListAgents
<1>20. ASSUME NEW w \in Writers, RecordCall(w)
      PROVE ColsInv'
  <2>1. UNCHANGED <<legacy, created, cols, pc, seen, v2>>
    BY <1>20 DEF RecordCall
  <2>2. QED
    BY <2>1
<1>21. ASSUME NEW w \in Writers, OpenHandle(w) PROVE ColsInv'
  BY <1>21 DEF OpenHandle
<1>22. ASSUME NEW w \in Writers, HandleFails(w) PROVE ColsInv'
  BY <1>22 DEF HandleFails
<1>23. CASE UNCHANGED vars
  BY <1>23 DEF vars
<1>24. QED
  BY <1>1, <1>2, <1>3, <1>4, <1>5, <1>6, <1>7, <1>8, <1>9, <1>10, <1>11, <1>12, <1>13, <1>14, <1>15, <1>16, <1>17, <1>18, <1>19, <1>20, <1>21, <1>22, <1>23
     DEF Next, Schema, Write, Read, Fault, AllDone

LEMMA RowsStep == TypeOK /\ PcInv /\ RowsInv /\ GateInv /\ [Next]_vars => RowsInv'
<1> SUFFICES ASSUME TypeOK, PcInv, RowsInv, GateInv, [Next]_vars PROVE RowsInv'
  OBVIOUS
<1> USE Kinds DEF Unharmed, tables, locals, Goto, FailWith, AfterSchema, RowsInv, Present
<1>f. /\ pc \in [Processes -> Places] /\ why \in [Processes -> Causes]
      /\ place \in [Processes -> Nat] /\ nextPlace \in Nat /\ rows \subseteq Row
  BY DEF TypeOK, PlaceOK, HandleOK, StoreOK
<1>g. \A p \in Processes : (pc[p] = "failed") = (why[p] # "none")
  BY DEF PcInv
<1>h. \A q \in rows : q.place \in Nat /\ (q.by # Old => q.by \in Writers)
  BY <1>f DEF Row, Sessions
<1> USE <1>f, <1>g, <1>h
<1>1. ASSUME NEW p \in Processes, CreateTablesSerially(p) PROVE RowsInv'
  BY <1>1 DEF CreateTablesSerially
<1>2. ASSUME NEW p \in Processes, CreateTables(p) PROVE RowsInv'
  BY <1>2 DEF CreateTables
<1>3. ASSUME NEW p \in Processes, CommitTables(p) PROVE RowsInv'
  BY <1>3 DEF CommitTables
<1>4. ASSUME NEW p \in Processes, LoseRace(p) PROVE RowsInv'
  BY <1>4 DEF LoseRace
<1>5. ASSUME NEW p \in Processes, TakeOver(p) PROVE RowsInv'
  BY <1>5 DEF TakeOver
<1>6. ASSUME NEW p \in Processes, Refuse(p) PROVE RowsInv'
  BY <1>6 DEF Refuse
<1>7. ASSUME NEW p \in Processes, LoseAnswer(p) PROVE RowsInv'
  <2>1. CASE pc[p] = "creating"
    BY <1>7, <2>1 DEF LoseAnswer
  <2>2. CASE pc[p] = "commit"
    <3> DEFINE new == [by |-> p, place |-> place[p]]
      <3>1. /\ p \in Writers /\ pc[p] = "commit" /\ rows' = rows \cup {new}
          /\ new.by = p /\ new.place = place[p] /\ UNCHANGED <<nextPlace, place>>
          /\ pc' = [pc EXCEPT ![p] = "failed"] /\ why' = [why EXCEPT ![p] = "unanswered"]
      BY <1>7, <2>2 DEF LoseAnswer, PcInv
      <3>2. \A q \in rows : q.by # p /\ q.place # place[p]
      BY <3>1, SessionStoreAssumption
      <3> HIDE DEF new
      <3>3. \A q \in rows' : q = new \/ q \in rows
      BY <3>1
      <3>4. /\ \A q \in rows' : q.place < nextPlace'
          /\ \A q, r \in rows' : q.by = r.by \/ q.place = r.place => q = r
      BY <3>1, <3>2, <3>3
      <3>5. \A q \in rows' :
               q.by = Old \/ pc'[q.by] \in {"handle", "open"} \/ why'[q.by] \in {"unanswered", "handle"}
      BY <3>1, <3>3
      <3>6. \A x \in Writers : pc'[x] \in {"handle", "open"} \/ why'[x] \in {"unanswered", "handle"} =>
               \E q \in rows' : q.by = x
      BY <3>1
      <3>7. \A x \in Writers : pc'[x] = "commit" => x # p /\ pc[x] = "commit"
      BY <3>1
      <3>8. QED
      BY <3>1, <3>3, <3>4, <3>5, <3>6, <3>7
  <2>3. QED
    BY <1>7, <2>1, <2>2 DEF LoseAnswer
<1>8. ASSUME NEW p \in Processes, Crash(p) PROVE RowsInv'
  BY <1>8 DEF Crash
<1>9. ASSUME NEW w \in Writers, CreateFileTables(w) PROVE RowsInv'
  BY <1>9 DEF CreateFileTables
<1>10. ASSUME NEW w \in Writers, ReadColumns(w) PROVE RowsInv'
  BY <1>10 DEF ReadColumns
<1>11. ASSUME NEW w \in Writers, AddColumn(w) PROVE RowsInv'
  <2>1. \A p \in Processes : p # w => pc'[p] = pc[p] /\ why'[p] = why[p]
    BY <1>11 DEF AddColumn
  <2>2. /\ pc[w] = "alter" /\ why[w] = "none"
        /\ pc'[w] \notin {"handle", "open", "commit"} /\ why'[w] \notin {"unanswered", "handle"}
    BY <1>11 DEF AddColumn
  <2>3. UNCHANGED <<rows, nextPlace, place>>
    BY <1>11 DEF AddColumn
  <2>4. QED
    BY <2>1, <2>2, <2>3
<1>12. ASSUME NEW w \in Writers, Gate(w) PROVE RowsInv'
  BY <1>12 DEF Gate
<1>13. ASSUME NEW w \in Writers, InsertRow(w) PROVE RowsInv'
  <2> DEFINE new == [by |-> w, place |-> nextPlace]
  <2>1. \A q \in rows : q.by # w /\ q.place < nextPlace
    BY <1>13, SessionStoreAssumption DEF InsertRow
  <2>2. CASE backend = "sqlite"
    <3>1. /\ rows' = rows \cup {new} /\ new.by = w /\ new.place = nextPlace
          /\ nextPlace' = nextPlace + 1
          /\ pc' = [pc EXCEPT ![w] = "handle"] /\ why' = why
      BY <1>13, <2>2 DEF InsertRow
    <3>2. \A v \in Writers : pc'[v] # "commit"
      BY <2>2, <3>1 DEF PcInv
    <3> HIDE DEF new
    <3>3. \A q \in rows' : q = new \/ q \in rows
      BY <3>1
    <3>4. /\ \A q \in rows' : q.place < nextPlace'
          /\ \A q, r \in rows' : q.by = r.by \/ q.place = r.place => q = r
      BY <2>1, <3>1, <3>3
    <3>5. \A q \in rows' :
             q.by = Old \/ pc'[q.by] \in {"handle", "open"} \/ why'[q.by] \in {"unanswered", "handle"}
      BY <3>1, <3>3
    <3>6. \A v \in Writers : pc'[v] \in {"handle", "open"} \/ why'[v] \in {"unanswered", "handle"} =>
             \E q \in rows' : q.by = v
      BY <3>1
    <3>7. QED
      BY <3>2, <3>4, <3>5, <3>6
  <2>3. CASE backend # "sqlite"
    <3>1. /\ nextPlace' = nextPlace + 1 /\ place' = [place EXCEPT ![w] = nextPlace]
          /\ pc' = [pc EXCEPT ![w] = "commit"] /\ UNCHANGED <<rows, why>>
      BY <1>13, <2>3 DEF InsertRow
    <3>2. \A q \in rows : q.place < nextPlace'
      BY <2>1, <3>1
    <3>3. ASSUME NEW v \in Writers, pc'[v] = "commit"
          PROVE  /\ place'[v] < nextPlace'
                 /\ \A q \in rows : q.place # place'[v]
                 /\ \A u \in Writers : pc'[u] = "commit" /\ place'[u] = place'[v] => u = v
      <4>1. \A u \in Writers : u # w /\ pc'[u] = "commit" =>
              pc[u] = "commit" /\ place'[u] = place[u] /\ place[u] < nextPlace
        BY <3>1
      <4>2. place'[w] = nextPlace
        BY <3>1
      <4>3. QED
        BY <2>1, <3>1, <3>3, <4>1, <4>2
    <3>4. QED
      BY <2>1, <3>1, <3>2, <3>3
  <2>4. QED
    BY <2>2, <2>3
<1>14. ASSUME NEW w \in Writers, CommitRow(w) PROVE RowsInv'
  <2> DEFINE new == [by |-> w, place |-> place[w]]
  <2>1. /\ w \in Writers /\ pc[w] = "commit" /\ rows' = rows \cup {new}
        /\ new.by = w /\ new.place = place[w] /\ UNCHANGED <<nextPlace, place>>
        /\ pc' = [pc EXCEPT ![w] = "open"] /\ why' = why
    BY <1>14 DEF CommitRow, PcInv
  <2>2. \A q \in rows : q.by # w /\ q.place # place[w]
    BY <2>1, SessionStoreAssumption
  <2> HIDE DEF new
  <2>3. \A q \in rows' : q = new \/ q \in rows
    BY <2>1
  <2>4. /\ \A q \in rows' : q.place < nextPlace'
        /\ \A q, r \in rows' : q.by = r.by \/ q.place = r.place => q = r
    BY <2>1, <2>2, <2>3
  <2>5. \A q \in rows' :
           q.by = Old \/ pc'[q.by] \in {"handle", "open"} \/ why'[q.by] \in {"unanswered", "handle"}
    BY <2>1, <2>3
  <2>6. \A x \in Writers : pc'[x] \in {"handle", "open"} \/ why'[x] \in {"unanswered", "handle"} =>
           \E q \in rows' : q.by = x
    BY <2>1
  <2>7. \A x \in Writers : pc'[x] = "commit" => x # w /\ pc[x] = "commit"
    BY <2>1
  <2>8. QED
    BY <2>1, <2>3, <2>4, <2>5, <2>6, <2>7
<1>15. ASSUME NEW w \in Writers, LockedOut(w) PROVE RowsInv'
  BY <1>15 DEF LockedOut
<1>16. ASSUME NEW r \in Readers, Bind(r) PROVE RowsInv'
  <2>1. \A w \in Writers : pc'[w] = pc[w] /\ why'[w] = why[w]
    BY <1>16, SessionStoreAssumption DEF Bind
  <2>2. UNCHANGED <<rows, nextPlace, place>>
    BY <1>16 DEF Bind
  <2>3. QED
    BY <2>1, <2>2
<1>17. ASSUME NEW r \in Readers, ListRuns(r) PROVE RowsInv'
  BY <1>17 DEF ListRuns
<1>18. ASSUME NEW r \in Readers, CountTurns(r) PROVE RowsInv'
  BY <1>18 DEF CountTurns
<1>19. ASSUME NEW r \in Readers, ListAgents(r) PROVE RowsInv'
  BY <1>19 DEF ListAgents
<1>20. ASSUME NEW w \in Writers, RecordCall(w)
      PROVE RowsInv'
  <2>1. UNCHANGED <<rows, nextPlace, pc, why, place>>
    BY <1>20 DEF RecordCall
  <2>2. QED
    BY <2>1
<1>21. ASSUME NEW w \in Writers, OpenHandle(w) PROVE RowsInv'
  BY <1>21 DEF OpenHandle
<1>22. ASSUME NEW w \in Writers, HandleFails(w) PROVE RowsInv'
  BY <1>22 DEF HandleFails
<1>23. CASE UNCHANGED vars
  BY <1>23 DEF vars
<1>24. QED
  BY <1>1, <1>2, <1>3, <1>4, <1>5, <1>6, <1>7, <1>8, <1>9, <1>10, <1>11, <1>12, <1>13, <1>14, <1>15, <1>16, <1>17, <1>18, <1>19, <1>20, <1>21, <1>22, <1>23
     DEF Next, Schema, Write, Read, Fault, AllDone

LEMMA GateStep == TypeOK /\ PcInv /\ RowsInv /\ GateInv /\ [Next]_vars => GateInv'
<1> SUFFICES ASSUME TypeOK, PcInv, RowsInv, GateInv, [Next]_vars PROVE GateInv'
  OBVIOUS
<1> USE Kinds DEF Unharmed, tables, locals, Goto, FailWith, AfterSchema, GateInv, Present
<1>f. /\ pc \in [Processes -> Places] /\ why \in [Processes -> Causes]
      /\ place \in [Processes -> Nat] /\ nextPlace \in Nat
      /\ passed \in [Writers -> SUBSET Sessions]
  BY DEF TypeOK, PlaceOK, HandleOK, StoreOK
<1>g. \A p \in Processes : (pc[p] = "failed") = (why[p] # "none")
  BY DEF PcInv
<1> USE <1>f, <1>g
<1>1. ASSUME NEW p \in Processes, CreateTablesSerially(p) PROVE GateInv'
  BY <1>1 DEF CreateTablesSerially
<1>2. ASSUME NEW p \in Processes, CreateTables(p) PROVE GateInv'
  BY <1>2 DEF CreateTables
<1>3. ASSUME NEW p \in Processes, CommitTables(p) PROVE GateInv'
  BY <1>3 DEF CommitTables
<1>4. ASSUME NEW p \in Processes, LoseRace(p) PROVE GateInv'
  BY <1>4 DEF LoseRace
<1>5. ASSUME NEW p \in Processes, TakeOver(p) PROVE GateInv'
  BY <1>5 DEF TakeOver
<1>6. ASSUME NEW p \in Processes, Refuse(p) PROVE GateInv'
  BY <1>6 DEF Refuse
<1>7. ASSUME NEW p \in Processes, LoseAnswer(p) PROVE GateInv'
  <2>1. \A q \in rows' :
           q.by = Old => q \in rows
    BY <1>7, SessionStoreAssumption DEF LoseAnswer
  <2>2. /\ nextPlace' = nextPlace /\ passed' = passed /\ pc'[p] = "failed"
        /\ why'[p] \in {"unanswered", "handle"} => pc[p] = "commit"
        /\ \A v \in Processes : v # p => pc'[v] = pc[v] /\ why'[v] = why[v]
    BY <1>7 DEF LoseAnswer
  <2>3. QED
    BY <2>1, <2>2
<1>8. ASSUME NEW p \in Processes, Crash(p) PROVE GateInv'
  BY <1>8 DEF Crash
<1>9. ASSUME NEW w \in Writers, CreateFileTables(w) PROVE GateInv'
  BY <1>9 DEF CreateFileTables
<1>10. ASSUME NEW w \in Writers, ReadColumns(w) PROVE GateInv'
  BY <1>10 DEF ReadColumns
<1>11. ASSUME NEW w \in Writers, AddColumn(w) PROVE GateInv'
  BY <1>11 DEF AddColumn
<1>12. ASSUME NEW w \in Writers, Gate(w) PROVE GateInv'
  <2>1. pc'[w] = "insert" => \A s \in passed'[w] : ~(VersionOf(s) > VersionOf(w))
    BY <1>12 DEF Gate
  <2>2. /\ pc[w] = "gate" /\ why[w] = "none" /\ why'[w] \notin {"unanswered", "handle"}
        /\ pc'[w] \in {"failed", "insert"}
    BY <1>12 DEF Gate
  <2>3. \A v \in Writers : v # w => pc'[v] = pc[v] /\ why'[v] = why[v] /\ passed'[v] = passed[v]
    BY <1>12 DEF Gate
  <2>4. UNCHANGED <<rows, nextPlace>>
    BY <1>12 DEF Gate
  <2>5. QED
    BY <2>1, <2>2, <2>3, <2>4, Versions
<1>13. ASSUME NEW w \in Writers, InsertRow(w) PROVE GateInv'
  <2>1. \A q \in rows' :
           q.by = Old => q \in rows
    BY <1>13, SessionStoreAssumption DEF InsertRow
  <2>2. /\ nextPlace' = nextPlace + 1 /\ why' = why /\ passed' = passed
        /\ pc[w] = "insert" /\ \A v \in Writers : v # w => pc'[v] = pc[v]
    BY <1>13 DEF InsertRow
  <2>3. QED
    BY <2>1, <2>2
<1>14. ASSUME NEW w \in Writers, CommitRow(w) PROVE GateInv'
  <2>1. \A q \in rows' :
           q.by = Old => q \in rows
    BY <1>14, SessionStoreAssumption DEF CommitRow
  <2>2. /\ nextPlace' = nextPlace /\ why' = why /\ passed' = passed
        /\ pc[w] = "commit" /\ \A v \in Writers : v # w => pc'[v] = pc[v]
    BY <1>14 DEF CommitRow
  <2>3. QED
    BY <2>1, <2>2
<1>15. ASSUME NEW w \in Writers, LockedOut(w) PROVE GateInv'
  BY <1>15 DEF LockedOut
<1>16. ASSUME NEW r \in Readers, Bind(r) PROVE GateInv'
  BY <1>16 DEF Bind
<1>17. ASSUME NEW r \in Readers, ListRuns(r) PROVE GateInv'
  BY <1>17 DEF ListRuns
<1>18. ASSUME NEW r \in Readers, CountTurns(r) PROVE GateInv'
  BY <1>18 DEF CountTurns
<1>19. ASSUME NEW r \in Readers, ListAgents(r) PROVE GateInv'
  BY <1>19 DEF ListAgents
<1>20. ASSUME NEW w \in Writers, RecordCall(w)
      PROVE GateInv'
  <2>1. UNCHANGED <<rows, nextPlace, pc, why, passed>>
    BY <1>20 DEF RecordCall
  <2>2. QED
    BY <2>1
<1>21. ASSUME NEW w \in Writers, OpenHandle(w) PROVE GateInv'
  BY <1>21 DEF OpenHandle
<1>22. ASSUME NEW w \in Writers, HandleFails(w) PROVE GateInv'
  BY <1>22 DEF HandleFails
<1>23. CASE UNCHANGED vars
  BY <1>23 DEF vars
<1>24. QED
  BY <1>1, <1>2, <1>3, <1>4, <1>5, <1>6, <1>7, <1>8, <1>9, <1>10, <1>11, <1>12, <1>13, <1>14, <1>15, <1>16, <1>17, <1>18, <1>19, <1>20, <1>21, <1>22, <1>23
     DEF Next, Schema, Write, Read, Fault, AllDone

(* Rows, calls, faults and columns are never taken back. *)
Grown ==
  /\ UNCHANGED <<backend, legacy>>
  /\ rows \subseteq rows'
  /\ \A s \in Sessions : Len(turns[s]) <= Len(turns'[s])
  /\ \A p \in Processes : blips[p] <= blips'[p] /\ (seen[p] > 0 => seen'[p] > 0)

LEMMA StoreGrows == TypeOK /\ PcInv /\ ColsInv /\ [Next]_vars => Grown
<1> SUFFICES ASSUME TypeOK, PcInv, ColsInv, [Next]_vars PROVE Grown
  OBVIOUS
<1> USE Kinds DEF Unharmed, tables, locals, Goto, FailWith, Grown
<1>f. /\ blips \in [Processes -> Nat] /\ seen \in [Processes -> 0..AddedColumns]
      /\ turns \in [Sessions -> Seq(Labels)]
  BY DEF TypeOK, PlaceOK, HandleOK, StoreOK
<1> USE <1>f
<1>1. ASSUME NEW p \in Processes, Refuse(p) PROVE Grown
  <2>1. blips' = [blips EXCEPT ![p] = blips[p] + 1] /\ UNCHANGED <<backend, legacy, turns, seen>>
    BY <1>1 DEF Refuse, Blip
  <2>2. rows \subseteq rows'
    BY <1>1 DEF Refuse
  <2>3. QED
    BY <2>1, <2>2
<1>2. ASSUME NEW p \in Processes, LoseAnswer(p) PROVE Grown
  <2>1. blips' = [blips EXCEPT ![p] = blips[p] + 1] /\ UNCHANGED <<backend, legacy, turns, seen>>
    BY <1>2 DEF LoseAnswer, Blip
  <2>2. rows \subseteq rows'
    BY <1>2 DEF LoseAnswer
  <2>3. QED
    BY <2>1, <2>2
<1>3. ASSUME NEW p \in Processes, Crash(p) PROVE Grown
  <2>1. blips' = [blips EXCEPT ![p] = blips[p] + 1] /\ UNCHANGED <<backend, legacy, turns, seen>>
    BY <1>3 DEF Crash, Blip
  <2>2. rows \subseteq rows'
    BY <1>3 DEF Crash
  <2>3. QED
    BY <2>1, <2>2
<1>4. ASSUME NEW w \in Writers, ReadColumns(w) PROVE Grown
  <2>1. seen' = [seen EXCEPT ![w] = cols] /\ (seen[w] > 0 => cols > 0)
    BY <1>4 DEF ReadColumns, ColsInv
  <2>2. UNCHANGED <<backend, legacy, rows, turns, blips>>
    BY <1>4 DEF ReadColumns
  <2>3. QED
    BY <2>1, <2>2
<1>5. ASSUME NEW w \in Writers, AddColumn(w) PROVE Grown
  <2>0. cols \in Nat
    BY DEF TypeOK, StoreOK, AddedColumns
  <2>1. seen' = seen \/ seen' = [seen EXCEPT ![w] = cols + 1]
    BY <1>5 DEF AddColumn
  <2>2. UNCHANGED <<backend, legacy, rows, turns, blips>>
    BY <1>5 DEF AddColumn
  <2>3. QED
    <3>1. \A p \in Processes : seen[p] > 0 => seen'[p] > 0
      <4>1. CASE seen' = seen
        BY <4>1
      <4>2. CASE seen' = [seen EXCEPT ![w] = cols + 1]
        <5>1. cols + 1 > 0
          BY <2>0
        <5>2. QED
          BY <4>2, <5>1
      <4>3. QED
        BY <2>1, <4>1, <4>2
    <3>2. QED
      BY <2>2, <3>1
<1>6. ASSUME NEW w \in Writers, InsertRow(w) PROVE Grown
  BY <1>6 DEF InsertRow
<1>7. ASSUME NEW w \in Writers, CommitRow(w) PROVE Grown
  BY <1>7 DEF CommitRow
<1>8. ASSUME NEW w \in Writers, RecordCall(w) PROVE Grown
  <2>1. \E label \in Labels : turns' = [turns EXCEPT ![w] = Append(turns[w], label)]
    BY <1>8, SessionStoreAssumption DEF RecordCall
  <2>2. UNCHANGED <<backend, legacy, rows, blips, seen>>
    BY <1>8 DEF RecordCall
  <2>3. QED
    BY <2>1, <2>2
<1>9. ASSUME NEW w \in Writers, LockedOut(w) PROVE Grown
  <2>1. blips' = [blips EXCEPT ![w] = blips[w] + 1] /\ UNCHANGED <<backend, legacy, turns, seen>>
    BY <1>9 DEF LockedOut, Blip
  <2>2. rows \subseteq rows'
    BY <1>9 DEF LockedOut
  <2>3. QED
    BY <2>1, <2>2
<1>10. ASSUME NEW p \in Processes, CreateTablesSerially(p) \/ CreateTables(p) \/ CommitTables(p) \/
             LoseRace(p) \/ TakeOver(p)
      PROVE Grown
  <2>1. UNCHANGED <<backend, legacy, rows, turns, blips, seen>>
    BY <1>10 DEF CreateTablesSerially, CreateTables, CommitTables, LoseRace, TakeOver
  <2>2. QED
    BY <2>1
<1>11. ASSUME NEW w \in Writers, CreateFileTables(w) \/ Gate(w) \/ OpenHandle(w)
      PROVE Grown
  <2>1. UNCHANGED <<backend, legacy, rows, turns, blips, seen>>
    BY <1>11 DEF CreateFileTables, Gate, OpenHandle
  <2>2. QED
    BY <2>1
<1>12. ASSUME NEW r \in Readers, Bind(r) \/ ListRuns(r) \/ CountTurns(r) \/ ListAgents(r)
      PROVE Grown
  <2>1. UNCHANGED <<backend, legacy, rows, turns, blips, seen>>
    BY <1>12 DEF Bind, ListRuns, CountTurns, ListAgents
  <2>2. QED
    BY <2>1
<1>13. ASSUME NEW w \in Writers, HandleFails(w) PROVE Grown
  <2>1. blips' = [blips EXCEPT ![w] = blips[w] + 1] /\ UNCHANGED <<backend, legacy, turns, seen>>
    BY <1>13 DEF HandleFails, Blip
  <2>2. rows \subseteq rows'
    BY <1>13 DEF HandleFails
  <2>3. QED
    BY <2>1, <2>2
<1>14. CASE UNCHANGED vars
  BY <1>14 DEF vars
<1>15. QED
  BY <1>1, <1>2, <1>3, <1>4, <1>5, <1>6, <1>7, <1>8, <1>9, <1>10, <1>11, <1>12, <1>13, <1>14
     DEF Next, Schema, Write, Read, Fault, AllDone

(* So a cause stays one. *)
Caused(p) ==
  /\ why[p] # "race"
  /\ why[p] = "newer" => \E s \in Present(rows) : VersionOf(s) > VersionOf(p)
  /\ why[p] = "locked" => blips[p] >= LockAttempts
  /\ why[p] \in {"error", "unanswered", "handle"} => blips[p] > 0
  /\ why[p] = "duplicate column" => legacy /\ \E q \in Writers \ {p} : seen[q] > 0
  /\ why[p] = "no table" => backend = "sqlite" /\ p \in Readers

LEMMA CauseStays ==
  ASSUME TypeOK, TypeOK', Grown, NEW p \in Processes, Caused(p), why'[p] = why[p]
  PROVE  Caused(p)'
<1>1. blips[p] \in Nat /\ blips'[p] \in Nat /\ LockAttempts \in Nat
  BY SessionStoreAssumption DEF TypeOK, PlaceOK
<1>2. Present(rows) \subseteq Present(rows') /\ backend' = backend /\ legacy' = legacy
  BY DEF Grown, Present
<1>3. blips[p] <= blips'[p] /\ \A q \in Writers : seen[q] > 0 => seen'[q] > 0
  BY Kinds DEF Grown
<1>4. why'[p] \in {"error", "unanswered", "handle"} => blips'[p] > 0
  <2>1. why[p] \in {"error", "unanswered", "handle"} => blips[p] > 0
    BY DEF Caused
  <2>2. QED
    BY <1>1, <1>3, <2>1
<1>5. why'[p] = "locked" => blips'[p] >= LockAttempts
  BY <1>1, <1>3 DEF Caused
<1>6. QED
  BY <1>2, <1>3, <1>4, <1>5 DEF Caused

LEMMA CauseStep ==
  TypeOK /\ TypeOK' /\ PcInv /\ AttemptInv /\ ColsInv /\ RowsInv /\ FailureHasCause /\ [Next]_vars
    => FailureHasCause'
<1> SUFFICES ASSUME TypeOK, TypeOK', PcInv, AttemptInv, ColsInv, RowsInv, FailureHasCause,
                    [Next]_vars, NEW x \in Processes
             PROVE  Caused(x)'
  BY DEF FailureHasCause, Caused
<1> USE Kinds DEF Unharmed, tables, locals, Goto, FailWith
<1>a. Caused(x) /\ Grown
  BY StoreGrows DEF FailureHasCause, Caused
<1>b. why'[x] = why[x] => Caused(x)'
  BY <1>a, CauseStays
<1>f. /\ why \in [Processes -> Causes] /\ blips \in [Processes -> Nat]
      /\ attempt \in [Processes -> Nat] /\ LockAttempts \in Nat
      /\ cols \in Nat /\ seen \in [Processes -> Nat]
  <2>1. LockAttempts \in Nat /\ why \in [Processes -> Causes] /\ blips \in [Processes -> Nat]
    BY SessionStoreAssumption DEF TypeOK, PlaceOK
  <2>2. attempt \in [Processes -> Nat]
    BY <2>1 DEF TypeOK, PlaceOK, SchemaAttempts
  <2>3. cols \in Nat
    BY DEF TypeOK, StoreOK, AddedColumns
  <2>4. seen \in [Processes -> Nat]
    BY DEF TypeOK, HandleOK, AddedColumns
  <2>5. QED
    BY <2>1, <2>2, <2>3, <2>4
<1>1. ASSUME NEW p \in Processes, LoseRace(p) PROVE Caused(x)'
  <2>1. attempt[p] < SchemaAttempts
    BY <1>1 DEF LoseRace, AttemptInv, SchemaAttempts
  <2>2. QED
    BY <1>1, <1>b, <2>1 DEF LoseRace
<1>2. ASSUME NEW p \in Processes, Refuse(p) \/ LoseAnswer(p) PROVE Caused(x)'
  <2>1. /\ blips' = [blips EXCEPT ![p] = blips[p] + 1]
        /\ \/ why' = [why EXCEPT ![p] = "error"] \/ why' = [why EXCEPT ![p] = "unanswered"]
    BY <1>2 DEF Refuse, LoseAnswer, Blip
  <2>2. blips'[p] > 0
    BY <1>f, <2>1
  <2>3. CASE x = p
    BY <1>f, <2>1, <2>2, <2>3 DEF Caused
  <2>4. CASE x # p
    BY <1>f, <1>b, <2>1, <2>4
  <2>5. QED
    BY <2>3, <2>4
<1>3. ASSUME NEW w \in Writers, AddColumn(w) PROVE Caused(x)'
  <2>1. CASE x = w /\ cols > seen[w]
    <3>1. why'[w] = "duplicate column" /\ seen' = seen /\ legacy' = legacy /\ pc[w] = "alter"
      BY <1>f, <1>3, <2>1 DEF AddColumn
    <3>2. cols > 0
      BY <1>f, <2>1
    <3>3. legacy /\ \E q \in Writers : seen[q] = cols
      BY <3>1, <3>2 DEF ColsInv
    <3>4. \E q \in Writers \ {w} : seen'[q] > 0
      <4>1. PICK q \in Writers : seen[q] = cols
        BY <3>3
      <4>2. q # w
        BY <1>f, <2>1, <4>1
      <4>3. seen'[q] > 0
        BY <3>1, <3>2, <4>1
      <4>4. QED
        BY <4>2, <4>3
    <3>5. QED
      BY <2>1, <3>1, <3>3, <3>4 DEF Caused
  <2>2. CASE x # w \/ ~(cols > seen[w])
    <3>1. why'[x] = why[x]
      BY <1>f, <1>3, <2>2 DEF AddColumn
    <3>2. QED
      BY <1>b, <3>1
  <2>3. QED
    BY <2>1, <2>2
<1>4. ASSUME NEW w \in Writers, Gate(w) PROVE Caused(x)'
  <2>1. \/ why' = why
        \/ /\ why' = [why EXCEPT ![w] = "newer"]
           /\ \E s \in Present(rows) : VersionOf(s) > VersionOf(w)
    BY <1>4 DEF Gate
  <2>2. rows' = rows
    BY <1>4 DEF Gate
  <2>3. CASE x = w /\ why' # why
    BY <1>f, <2>1, <2>2, <2>3 DEF Caused
  <2>4. QED
    BY <1>f, <1>b, <2>1, <2>3
<1>5. ASSUME NEW w \in Writers, LockedOut(w) PROVE Caused(x)'
  <2>1. CASE attempt[w] < LockAttempts
    BY <1>5, <1>b, <2>1 DEF LockedOut
  <2>2. CASE ~(attempt[w] < LockAttempts)
    <3>1. /\ backend = "sqlite" /\ why' = [why EXCEPT ![w] = "locked"]
          /\ blips' = [blips EXCEPT ![w] = blips[w] + 1]
      BY <1>5, <2>2 DEF LockedOut, Blip
    <3>2. attempt[w] <= blips[w] + 1
      BY <3>1 DEF AttemptInv
    <3>3. blips'[w] >= LockAttempts
      BY <1>f, <2>2, <3>1, <3>2
    <3>4. CASE x = w
      BY <1>f, <3>1, <3>3, <3>4 DEF Caused
    <3>5. CASE x # w
      BY <1>f, <1>b, <3>1, <3>5
    <3>6. QED
      BY <3>4, <3>5
  <2>3. QED
    BY <2>1, <2>2
<1>6. ASSUME NEW r \in Readers, Bind(r) PROVE Caused(x)'
  <2>1. rows # {} => Last(rows).by \in Present(rows)
    <3>1. rows \subseteq Row /\ nextPlace \in Nat /\ \A q \in rows : q.place < nextPlace
      BY DEF RowsInv, TypeOK, StoreOK
    <3>2. QED
      BY <3>1, LastRow DEF Present
  <2>2. \/ why' = why
        \/ why' = [why EXCEPT ![r] = "no table"] /\ backend = "sqlite"
        \/ why' = [why EXCEPT ![r] = "empty"]
        \/ /\ why' = [why EXCEPT ![r] = "newer"]
           /\ \E s \in Present(rows) : VersionOf(s) > VersionOf(r)
    BY <1>6, <2>1 DEF Bind
  <2>3. rows' = rows /\ backend' = backend
    BY <1>6 DEF Bind
  <2>4. CASE x = r /\ why' # why
    BY <1>f, <2>2, <2>3, <2>4 DEF Caused
  <2>5. QED
    BY <1>f, <1>b, <2>2, <2>4
<1>7. ASSUME NEW p \in Processes, CreateTablesSerially(p) \/ CreateTables(p) \/ CommitTables(p) \/
             TakeOver(p) \/ Crash(p)
      PROVE Caused(x)'
  BY <1>7, <1>b DEF CreateTablesSerially, CreateTables, CommitTables, TakeOver, Crash
<1>8. ASSUME NEW w \in Writers, CreateFileTables(w) \/ ReadColumns(w) \/ InsertRow(w) \/ OpenHandle(w) \/
             CommitRow(w) \/ RecordCall(w)
      PROVE Caused(x)'
  BY <1>8, <1>b DEF CreateFileTables, ReadColumns, InsertRow, OpenHandle, CommitRow, RecordCall
<1>9. ASSUME NEW r \in Readers, ListRuns(r) \/ CountTurns(r) \/ ListAgents(r)
      PROVE Caused(x)'
  BY <1>9, <1>b DEF ListRuns, CountTurns, ListAgents
<1>10. ASSUME NEW w \in Writers, HandleFails(w) PROVE Caused(x)'
  <2>1. /\ blips' = [blips EXCEPT ![w] = blips[w] + 1]
        /\ why' = [why EXCEPT ![w] = "handle"]
    BY <1>10 DEF HandleFails, Blip
  <2>2. blips'[w] > 0
    BY <1>f, <2>1
  <2>3. CASE x = w
    BY <1>f, <2>1, <2>2, <2>3 DEF Caused
  <2>4. CASE x # w
    BY <1>f, <1>b, <2>1, <2>4
  <2>5. QED
    BY <2>3, <2>4
<1>11. CASE UNCHANGED vars
  BY <1>11, <1>b DEF vars
<1>12. QED
  BY <1>1, <1>2, <1>3, <1>4, <1>5, <1>6, <1>7, <1>8, <1>9, <1>10, <1>11
     DEF Next, Schema, Write, Read, Fault, AllDone

LEMMA LabelStep ==
  TypeOK /\ PcInv /\ ColsInv /\ Labelled(turns) /\ [Next]_vars => Labelled(turns')
<1> SUFFICES ASSUME TypeOK, PcInv, ColsInv, Labelled(turns), [Next]_vars
             PROVE  Labelled(turns')
  OBVIOUS
<1> USE Kinds DEF Unharmed, tables, locals
<1>1. ASSUME NEW w \in Writers, RecordCall(w) PROVE Labelled(turns')
  <2>1. v2[w]
    BY <1>1 DEF RecordCall, ColsInv
  <2>2. turns' = [turns EXCEPT ![w] = Append(turns[w], AgentOf[w])]
    BY <1>1, <2>1 DEF RecordCall
  <2>3. turns \in [Sessions -> Seq(Labels)] /\ AgentOf[w] \in Labels
    BY SessionStoreAssumption DEF TypeOK, StoreOK
  <2>4. SUFFICES ASSUME NEW s \in Sessions, NEW i \in 1..Len(turns'[s])
                 PROVE  turns'[s][i] = AgentOf[s]
    BY DEF Labelled
  <2>5. CASE s = w
    <3>1. turns'[s] = Append(turns[w], AgentOf[w]) /\ turns[w] \in Seq(Labels)
      BY <2>2, <2>3, <2>5
    <3>2. i \in 1..Len(turns[w]) => turns[w][i] = AgentOf[w]
      BY <2>3 DEF Labelled
    <3>3. QED
      BY <2>3, <2>5, <3>1, <3>2
  <2>6. CASE s # w
    <3>1. turns'[s] = turns[s]
      BY <2>2, <2>3, <2>6
    <3>2. QED
      BY <3>1 DEF Labelled
  <2>7. QED
    BY <2>5, <2>6
<1>2. ASSUME NEW p \in Processes, CreateTablesSerially(p) \/ CreateTables(p) \/ CommitTables(p) \/
             LoseRace(p) \/ TakeOver(p) \/ Refuse(p) \/ LoseAnswer(p) \/ Crash(p)
      PROVE Labelled(turns')
  BY <1>2 DEF CreateTablesSerially, CreateTables, CommitTables, LoseRace, TakeOver, Refuse,
              LoseAnswer, Crash
<1>3. ASSUME NEW w \in Writers, CreateFileTables(w) \/ ReadColumns(w) \/ AddColumn(w) \/ Gate(w) \/
             InsertRow(w) \/ OpenHandle(w) \/ HandleFails(w) \/ CommitRow(w) \/ LockedOut(w)
      PROVE Labelled(turns')
  BY <1>3 DEF CreateFileTables, ReadColumns, AddColumn, Gate, InsertRow, OpenHandle, HandleFails,
              CommitRow, LockedOut
<1>4. ASSUME NEW r \in Readers, Bind(r) \/ ListRuns(r) \/ CountTurns(r) \/ ListAgents(r)
      PROVE Labelled(turns')
  BY <1>4 DEF Bind, ListRuns, CountTurns, ListAgents
<1>5. CASE UNCHANGED vars
  BY <1>5 DEF vars
<1>6. QED
  BY <1>1, <1>2, <1>3, <1>4, <1>5 DEF Next, Schema, Write, Read, Fault, AllDone

(* What others do to the store does not take from a reader what it has. *)
LEMMA ReaderStays ==
  ASSUME TypeOK, TypeOK', Grown, NEW r \in Readers, ReaderAt(r),
         pc'[r] = pc[r] \/ pc'[r] \in {"waiting", "creating", "bind", "ddl", "failed", "dead"},
         bound'[r] = bound[r], snapshot'[r] = snapshot[r],
         listing'[r] = listing[r], v2'[r] = v2[r]
  PROVE  ReaderAt(r)'
<1>1. Present(rows) \subseteq Present(rows') /\ backend' = backend /\ legacy' = legacy
  BY DEF Grown, Present
<1>2. \A s \in Sessions : Len(turns[s]) <= Len(turns'[s])
  BY DEF Grown
<1>3. \A s \in Sessions : /\ Len(turns[s]) \in Nat /\ Len(turns'[s]) \in Nat
                          /\ Len(snapshot[r].turns[s]) \in Nat
                          /\ listing[r].counts[s] \in Nat
  BY DEF TypeOK, StoreOK, ReaderOK
<1>4. \A s \in Sessions : Len(snapshot'[r].turns[s]) <= Len(turns'[s])
  <2>1. \A s \in Sessions : Len(snapshot[r].turns[s]) <= Len(turns[s])
    BY DEF ReaderAt
  <2>2. QED
    BY <1>2, <1>3, <2>1
<1>5. pc'[r] = "agents" \/ pc'[r] = "listed" =>
        \A s \in Sessions : listing'[r].counts[s] <= Len(Sees(r)'.turns[s])
  <2> SUFFICES ASSUME pc'[r] = "agents" \/ pc'[r] = "listed", NEW s \in Sessions
               PROVE  listing'[r].counts[s] <= Len(Sees(r)'.turns[s])
    OBVIOUS
  <2>1. listing[r].counts[s] <= Len(Sees(r).turns[s])
    BY DEF ReaderAt
  <2>2. CASE backend = "mysql"
    BY <1>1, <2>1, <2>2 DEF Sees
  <2>3. CASE backend # "mysql"
    <3>1. listing[r].counts[s] <= Len(turns[s])
      BY <2>1, <2>3 DEF Sees
    <3>2. Sees(r)'.turns[s] = turns'[s]
      BY <1>1, <2>3 DEF Sees
    <3>3. QED
      BY <1>2, <1>3, <3>1, <3>2
  <2>4. QED
    BY <2>2, <2>3
<1>6. pc'[r] = "listed" /\ v2'[r] =>
        \A s \in Sessions : listing'[r].counts[s] > 0 =>
          {AgentOf[s]} \ {NoLabel} \subseteq listing'[r].agents[s]
  BY DEF ReaderAt
<1>7. Labelled(snapshot'[r].turns)
  BY DEF ReaderAt
<1>8. QED
  BY <1>1, <1>4, <1>5, <1>6, <1>7 DEF ReaderAt

LEMMA ReadStep ==
  TypeOK /\ TypeOK' /\ PcInv /\ ColsInv /\ RowsInv /\ ReadInv /\ [Next]_vars => ReadInv'
<1> SUFFICES ASSUME TypeOK, TypeOK', PcInv, ColsInv, RowsInv, ReadInv, [Next]_vars,
                    NEW x \in Readers
             PROVE  ReaderAt(x)'
  BY LabelStep DEF ReadInv
<1> USE Kinds DEF Unharmed, tables, locals, Goto, FailWith
<1>a. ReaderAt(x) /\ Grown /\ Labelled(turns)
  BY StoreGrows DEF ReadInv
<1>s. ASSUME pc'[x] = pc[x] \/ pc'[x] \in {"waiting", "creating", "bind", "ddl", "failed", "dead"},
             bound'[x] = bound[x], snapshot'[x] = snapshot[x],
             listing'[x] = listing[x], v2'[x] = v2[x]
      PROVE  ReaderAt(x)'
  BY <1>a, <1>s, ReaderStays
<1>f. /\ pc \in [Processes -> Places] /\ v2 \in [Processes -> BOOLEAN]
      /\ bound \in [Readers -> Sessions]
      /\ snapshot \in [Readers -> [rows : SUBSET Row, turns : [Sessions -> Seq(Labels)]]]
      /\ listing \in [Readers -> [runs : SUBSET Sessions, counts : [Sessions -> Nat],
                                  agents : [Sessions -> SUBSET Labels]]]
  BY DEF TypeOK, PlaceOK, HandleOK, ReaderOK
<1>w. \A w \in Writers : x # w
  BY SessionStoreAssumption
<1>g. \A r \in Readers : Sees(r).turns \in [Sessions -> Seq(Labels)]
  <2> SUFFICES ASSUME NEW r \in Readers PROVE Sees(r).turns \in [Sessions -> Seq(Labels)]
    OBVIOUS
  <2>1. turns \in [Sessions -> Seq(Labels)]
    BY DEF TypeOK, StoreOK
  <2>2. snapshot[r].turns \in [Sessions -> Seq(Labels)]
    BY <1>f
  <2>3. CASE backend = "mysql"
    BY <2>2, <2>3 DEF Sees
  <2>4. CASE backend # "mysql"
    BY <2>1, <2>4 DEF Sees
  <2>5. QED
    BY <2>3, <2>4
<1>1. ASSUME NEW r \in Readers, Bind(r), pc'[r] = "runs", x = r PROVE ReaderAt(x)'
  <2>1. /\ bound'[r] = Last(rows).by /\ v2'[r] = (cols = AddedColumns)
        /\ snapshot'[r] = IF backend = "mysql" THEN [rows |-> rows, turns |-> turns]
                                              ELSE snapshot[r]
        /\ rows # {} /\ UNCHANGED <<backend, legacy, rows, turns>>
    BY <1>1, <1>f DEF Bind
  <2>2. Last(rows).by \in Present(rows)
    <3>1. rows \subseteq Row /\ nextPlace \in Nat /\ \A q \in rows : q.place < nextPlace
      BY DEF RowsInv, TypeOK, StoreOK
    <3>2. QED
      BY <2>1, <3>1, LastRow DEF Present
  <2>3. v2'[r] \/ legacy
    BY <2>1 DEF PcInv, ColsInv
  <2>4. Labelled(snapshot'[r].turns)
    BY <1>a, <1>1, <2>1 DEF ReaderAt
  <2>5. \A s \in Sessions : Len(snapshot'[r].turns[s]) <= Len(turns'[s])
    <3>1. \A s \in Sessions : Len(turns[s]) \in Nat
      BY DEF TypeOK, StoreOK
    <3>2. \A s \in Sessions : Len(snapshot[r].turns[s]) <= Len(turns[s])
      BY <1>a, <1>1 DEF ReaderAt
    <3>3. CASE backend = "mysql"
      BY <2>1, <3>1, <3>3
    <3>4. CASE backend # "mysql"
      BY <2>1, <3>2, <3>4
    <3>5. QED
      BY <3>3, <3>4
  <2>6. backend' = "mysql" => bound'[r] \in Present(snapshot'[r].rows)
    BY <2>1, <2>2
  <2>7. bound'[r] \in Present(rows')
    BY <2>1, <2>2
  <2>8. QED
    BY <1>1, <2>1, <2>3, <2>4, <2>5, <2>6, <2>7 DEF ReaderAt
<1>2. ASSUME NEW r \in Readers, ListRuns(r), x = r PROVE ReaderAt(x)'
  <2>1. /\ listing'[r].runs = Present(Sees(r).rows) /\ pc'[r] = "counts" /\ pc[r] = "runs"
        /\ UNCHANGED <<backend, legacy, rows, turns, v2, bound, snapshot>>
    BY <1>2, <1>f DEF ListRuns
  <2>2. bound[r] \in Present(Sees(r).rows)
    BY <1>a, <1>2, <2>1 DEF ReaderAt, Sees
  <2>3. QED
    BY <1>a, <1>2, <2>1, <2>2 DEF ReaderAt
<1>3. ASSUME NEW r \in Readers, CountTurns(r), x = r PROVE ReaderAt(x)'
  <2>1. /\ listing'[r].counts = [s \in Sessions |-> Len(Sees(r).turns[s])]
        /\ listing'[r].runs = listing[r].runs /\ pc'[r] = "agents" /\ pc[r] = "counts"
        /\ UNCHANGED <<backend, legacy, rows, turns, v2, bound, snapshot>>
    BY <1>3, <1>f DEF CountTurns
  <2>2. Sees(r)' = Sees(r)
    BY <2>1 DEF Sees
  <2>3. \A s \in Sessions : Len(Sees(r).turns[s]) \in Nat
    BY <1>g
  <2>4. \A s \in Sessions : listing'[r].counts[s] <= Len(Sees(r)'.turns[s])
    <3>1. \A s \in Sessions : listing'[r].counts[s] = Len(Sees(r).turns[s])
      BY <2>1
    <3>2. QED
      BY <2>2, <2>3, <3>1
  <2>5. QED
    BY <1>a, <1>3, <2>1, <2>4 DEF ReaderAt
<1>4. ASSUME NEW r \in Readers, ListAgents(r), x = r PROVE ReaderAt(x)'
  <2>1. /\ listing'[r].agents = [s \in Sessions |->
             IF v2[r] THEN {Sees(r).turns[s][i] : i \in DOMAIN Sees(r).turns[s]} \ {NoLabel}
             ELSE {}]
        /\ listing'[r].runs = listing[r].runs /\ listing'[r].counts = listing[r].counts
        /\ pc'[r] = "listed" /\ pc[r] = "agents"
        /\ UNCHANGED <<backend, legacy, rows, turns, v2, bound, snapshot>>
    BY <1>4, <1>f DEF ListAgents
  <2>2. Sees(r)' = Sees(r)
    BY <2>1 DEF Sees
  <2>3. ASSUME v2[r], NEW s \in Sessions, listing[r].counts[s] > 0
        PROVE  {AgentOf[s]} \ {NoLabel} \subseteq listing'[r].agents[s]
    <3>1. Sees(r).turns[s] \in Seq(Labels) /\ listing[r].counts[s] \in Nat
      BY <1>f, <1>g
    <3>2. listing[r].counts[s] <= Len(Sees(r).turns[s])
      BY <1>a, <1>4, <2>1 DEF ReaderAt
    <3>3. 1 \in DOMAIN Sees(r).turns[s] /\ 1 \in 1..Len(Sees(r).turns[s])
      BY <2>3, <3>1, <3>2
    <3>4. Sees(r).turns[s][1] = AgentOf[s]
      BY <1>a, <1>4, <3>3 DEF Sees, ReaderAt, Labelled
    <3>5. listing'[r].agents[s] =
            {Sees(r).turns[s][i] : i \in DOMAIN Sees(r).turns[s]} \ {NoLabel}
      BY <2>1, <2>3
    <3>6. QED
      BY <3>3, <3>4, <3>5
  <2>4. QED
    BY <1>a, <1>4, <2>1, <2>2, <2>3 DEF ReaderAt
<1>5. ASSUME NEW r \in Readers, Bind(r) \/ ListRuns(r) \/ CountTurns(r) \/ ListAgents(r),
             x # r \/ (Bind(r) /\ pc'[r] # "runs")
      PROVE ReaderAt(x)'
  <2>1. CASE x # r
    <3>1. /\ pc'[x] = pc[x] /\ bound'[x] = bound[x] /\ snapshot'[x] = snapshot[x]
          /\ listing'[x] = listing[x] /\ v2'[x] = v2[x]
      BY <1>5, <1>f, <2>1 DEF Bind, ListRuns, CountTurns, ListAgents
    <3>2. QED
      BY <1>s, <3>1
  <2>2. CASE Bind(r) /\ pc'[r] # "runs"
    <3>1. /\ pc'[r] = "failed" /\ UNCHANGED <<bound, snapshot, listing, v2>>
      BY <1>f, <2>2 DEF Bind
    <3>2. QED
      BY <1>s, <2>1, <3>1
  <2>3. QED
    BY <1>5, <2>1, <2>2
<1>6. ASSUME NEW p \in Processes, CreateTablesSerially(p) \/ CreateTables(p) \/ CommitTables(p) \/
             LoseRace(p) \/ TakeOver(p) \/ Refuse(p) \/ LoseAnswer(p) \/ Crash(p)
      PROVE ReaderAt(x)'
  <2>1. UNCHANGED <<bound, snapshot, listing, v2>>
    BY <1>6 DEF CreateTablesSerially, CreateTables, CommitTables, LoseRace, TakeOver, Refuse,
                LoseAnswer, Crash
  <2>2. \/ pc'[x] = pc[x]
        \/ pc'[x] \in {"waiting", "creating", "bind", "ddl", "failed", "dead"}
    BY <1>6, <1>f, <1>w DEF CreateTablesSerially, CreateTables, CommitTables, LoseRace, TakeOver,
                Refuse, LoseAnswer, Crash, AfterSchema
  <2>3. QED
    BY <1>s, <2>1, <2>2
<1>7. ASSUME NEW w \in Writers, CreateFileTables(w) \/ ReadColumns(w) \/ AddColumn(w) \/ Gate(w) \/
             InsertRow(w) \/ OpenHandle(w) \/ HandleFails(w) \/ CommitRow(w) \/ RecordCall(w) \/
             LockedOut(w)
      PROVE ReaderAt(x)'
  <2>1. UNCHANGED <<bound, snapshot, listing>> /\ v2'[x] = v2[x] /\ pc'[x] = pc[x]
    BY <1>7, <1>f, <1>w DEF CreateFileTables, ReadColumns, AddColumn, Gate, InsertRow, OpenHandle,
                HandleFails, CommitRow, RecordCall, LockedOut
  <2>2. QED
    BY <1>s, <2>1
<1>8. CASE UNCHANGED vars
  BY <1>8, <1>s DEF vars
<1>9. QED
  BY <1>1, <1>2, <1>3, <1>4, <1>5, <1>6, <1>7, <1>8
     DEF Next, Schema, Write, Read, Fault, AllDone

LEMMA InitInv == Init => Inv
<1> SUFFICES ASSUME Init PROVE Inv
  OBVIOUS
<1> USE SessionStoreAssumption, Kinds
<1>1. backend \in Backends
  <2>1. \A s, c \in Backends \cup {"none"}, d \in Dsns \cup {Unset} :
          Resolve(s, c, d) \in Backends \cup {"unsupported"}
    <3>1. \A d \in Dsns \cup {Unset} : FromDsn(d) \in Backends \cup {"unsupported"}
      BY DEF FromDsn, Backends
    <3>2. QED
      BY <3>1 DEF Resolve, Backends
  <2>2. backend \in Resolved /\ backend # "unsupported"
    BY DEF Init
  <2>3. \E s, c \in Backends \cup {"none"}, d \in Dsns \cup {Unset} : backend = Resolve(s, c, d)
    BY <2>2 DEF Resolved
  <2>4. QED
    BY <2>1, <2>2, <2>3
<1>2. StoreOK
  <2>0. legacy \in BOOLEAN /\ created = legacy
    <3>1. CASE backend = "sqlite"
      BY <3>1 DEF Init
    <3>2. CASE backend # "sqlite"
      BY <3>2 DEF Init
    <3>3. QED
      BY <3>1, <3>2
  <2>1. legacy \in BOOLEAN /\ created \in BOOLEAN /\ cols \in 0..AddedColumns /\ nextPlace \in Nat
    BY <2>0 DEF Init, AddedColumns
  <2>2. rows \subseteq Row
    BY DEF Init, Row
  <2>3. turns \in [Sessions -> Seq(Labels)]
    BY DEF Init
  <2>4. QED
    BY <1>1, <2>1, <2>2, <2>3 DEF StoreOK
<1>3. PlaceOK
  <2>1. pc \in [Processes -> Places]
    BY DEF Init, FirstStatement, Places
  <2>2. why \in [Processes -> Causes]
    BY DEF Init, Causes
  <2>3. attempt \in [Processes ->
                    1..(IF backend = "sqlite" THEN LockAttempts ELSE SchemaAttempts)]
    BY DEF Init, SchemaAttempts
  <2>4. QED
    BY <2>1, <2>2, <2>3 DEF Init, PlaceOK
<1>4. HandleOK
  BY DEF Init, HandleOK, AddedColumns
<1>5. ReaderOK
  BY DEF Init, ReaderOK, NoSnapshot, NoListing
<1>6. PcInv
  BY DEF Init, PcInv, FirstStatement
<1>7. AttemptInv
  BY DEF Init, AttemptInv, FirstStatement
<1>8. ColsInv
  BY DEF Init, ColsInv, FirstStatement, AddedColumns
<1>9. RowsInv
  BY DEF Init, RowsInv, FirstStatement
<1>10. GateInv
  BY DEF Init, GateInv, FirstStatement
<1>11. FailureHasCause
  BY DEF Init, FailureHasCause
<1>12. ReadInv
  BY DEF Init, ReadInv, ReaderAt, Labelled, FirstStatement, NoSnapshot
<1>13. QED
  BY <1>2, <1>3, <1>4, <1>5, <1>6, <1>7, <1>8, <1>9, <1>10, <1>11, <1>12 DEF Inv, TypeOK

THEOREM Invariance == Spec => []Inv
<1>1. Inv /\ [Next]_vars => Inv'
  BY TypeStep, PcStep, AttemptStep, ColsStep, RowsStep, GateStep, CauseStep, ReadStep DEF Inv
<1>2. QED
  BY InitInv, <1>1, PTL DEF Spec

(* The columns, handles and readings are what their types say, and a         *)
(* process never begins more attempts than its backend allows.               *)
THEOREM SessionTypes == Spec => []TypeOK
BY Invariance, PTL DEF Inv

(* No opening fails of the catalog race, and none without a cause. *)
THEOREM FailuresHaveCauses == Spec => []FailureHasCause
BY Invariance, PTL DEF Inv

(* A retried set-up leaves one run row, and a failed one none unless it was  *)
(* committed before what failed: the answer to the COMMIT, or a read of the  *)
(* handle made for a row that is in the file.                                *)
THEOREM RowsAreOne == Spec => []OneRowEach
<1>1. Inv => OneRowEach
  <2> SUFFICES ASSUME Inv PROVE OneRowEach
    OBVIOUS
  <2> USE Kinds
  <2>1. \A w \in Writers : pc[w] \in {"handle", "open"} => w \in Present(rows)
    BY DEF Inv, RowsInv
  <2>2. \A w \in Writers : pc[w] = "failed" =>
          (w \in Present(rows)) = (why[w] \in {"unanswered", "handle"})
    <3> SUFFICES ASSUME NEW w \in Writers, pc[w] = "failed"
                 PROVE  (w \in Present(rows)) = (why[w] \in {"unanswered", "handle"})
      OBVIOUS
    <3>1. w # Old
      BY SessionStoreAssumption
    <3>2. w \in Present(rows) => why[w] \in {"unanswered", "handle"}
      BY <3>1 DEF Inv, RowsInv, Present
    <3>3. why[w] \in {"unanswered", "handle"} => w \in Present(rows)
      BY DEF Inv, RowsInv
    <3>4. QED
      BY <3>2, <3>3
  <2>3. QED
    BY <2>1, <2>2 DEF Inv, RowsInv, OneRowEach
<1>2. QED
  BY Invariance, <1>1, PTL

(* The version gate is only passed by those that are not listed yet. *)
THEOREM NeverMixed == Spec => []MixedOnlyByRace
<1>1. Inv => MixedOnlyByRace
  <2> SUFFICES ASSUME Inv, NEW q \in rows, NEW r \in rows,
                      VersionOf(q.by) > VersionOf(r.by), q.place < r.place,
                      q.by \in passed[r.by]
               PROVE  FALSE
    BY DEF MixedOnlyByRace
  <2>1. r.by # Old
    BY Kinds DEF Inv, GateInv, TypeOK, StoreOK, Row
  <2>2. r.by \in Writers
    BY <2>1, Kinds DEF Inv, TypeOK, StoreOK, Row, Sessions
  <2>3. pc[r.by] \in {"handle", "open"} \/ why[r.by] \in {"unanswered", "handle"}
    BY <2>1 DEF Inv, RowsInv
  <2>4. VersionOf(q.by) <= VersionOf(r.by)
    BY <2>2, <2>3 DEF Inv, GateInv
  <2>5. QED
    BY <2>4, Versions
<1>2. QED
  BY Invariance, <1>1, PTL

(* What the three queries of a listing return belongs together. *)
THEOREM ListingsHold == Spec => []ListingHolds
<1>1. Inv => ListingHolds
  <2> SUFFICES ASSUME Inv, NEW r \in Readers, pc[r] = "listed"
               PROVE  /\ bound[r] \in listing[r].runs
                      /\ \A s \in listing[r].runs :
                           /\ listing[r].counts[s] <= Len(turns[s])
                           /\ v2[r] /\ listing[r].counts[s] > 0 =>
                                {AgentOf[s]} \ {NoLabel} \subseteq listing[r].agents[s]
                      /\ ~v2[r] => legacy
    BY DEF ListingHolds
  <2>1. ReaderAt(r) /\ ReaderOK /\ StoreOK
    BY DEF Inv, ReadInv, TypeOK
  <2>2. listing[r].runs \subseteq Sessions
    BY <2>1 DEF ReaderOK
  <2>3. \A s \in Sessions : listing[r].counts[s] <= Len(turns[s])
    <3> SUFFICES ASSUME NEW s \in Sessions PROVE listing[r].counts[s] <= Len(turns[s])
      OBVIOUS
    <3>1. listing[r].counts[s] <= Len(Sees(r).turns[s])
      BY <2>1 DEF ReaderAt
    <3>2. Len(snapshot[r].turns[s]) <= Len(turns[s])
      BY <2>1 DEF ReaderAt
    <3>3. /\ listing[r].counts[s] \in Nat /\ Len(turns[s]) \in Nat
          /\ Len(snapshot[r].turns[s]) \in Nat
      BY <2>1 DEF ReaderOK, StoreOK
    <3>4. CASE backend = "mysql"
      BY <3>1, <3>2, <3>3, <3>4 DEF Sees
    <3>5. CASE backend # "mysql"
      BY <3>1, <3>5 DEF Sees
    <3>6. QED
      BY <3>4, <3>5
  <2>4. QED
    BY <2>1, <2>2, <2>3 DEF ReaderAt
<1>2. QED
  BY Invariance, <1>1, PTL
-----------------------------------------------------------------------------
(* The refinement: a run row that is committed is an OpenSession, a call is a *)
(* RecordCall, and nothing else shows.                                        *)

LEMMA RowOpens ==
  ASSUME NEW w \in Sessions, NEW n \in Nat,
         rows \subseteq Row, w \notin Present(rows), \A q \in rows : q.place # n,
         \A q, r \in rows : q.by = r.by => q = r,
         rows' = rows \cup {[by |-> w, place |-> n]}, turns' = turns
  PROVE  Promise!OpenSession(w)
<1> DEFINE new == [by |-> w, place |-> n]
           earlier == {s \in Present(rows) : \E q \in rows : q.by = s /\ q.place < n}
<1>1. Present(rows') = Present(rows) \cup {w}
  <2>1. rows' = rows \cup {new} /\ new.by = w
    OBVIOUS
  <2> HIDE DEF new
  <2>2. \A s : s \in Present(rows') <=> \E r \in rows' : r.by = s
    BY DEF Present
  <2>3. \A s : s \in Present(rows) <=> \E r \in rows : r.by = s
    BY DEF Present
  <2>4. \A s : s \in Present(rows') <=> s \in Present(rows) \/ s = w
    BY <2>1, <2>2, <2>3
  <2>5. QED
    BY <2>4
<1>2. \A q \in rows : q.place \in Nat /\ q.by # w
  BY DEF Row, Present
<1>3. \A q \in rows : q.by \in earlier <=> q.place < n
  BY DEF Present
<1>4. \A q \in rows : q.by \in Present(rows) \ earlier <=> n < q.place
  <2>1. \A q \in rows : q.by \in Present(rows)
    BY DEF Present
  <2>2. \A q \in rows : q.place < n \/ n < q.place
    BY <1>2
  <2>3. \A q \in rows : ~(q.place < n /\ n < q.place)
    BY <1>2
  <2>4. QED
    BY <1>3, <2>1, <2>2, <2>3
<1> HIDE DEF earlier
<1>5. Before' = Before \cup (earlier \X {w}) \cup ({w} \X (Present(rows) \ earlier))
  <2>1. \A a, b : <<a, b>> \in Before <=> \E q, r \in rows : q.by = a /\ r.by = b /\ q.place < r.place
    BY DEF Before, Present
  <2>2. \A a, b : <<a, b>> \in Before' <=> \E q, r \in rows' : q.by = a /\ r.by = b /\ q.place < r.place
    BY DEF Before, Present
  <2>3. earlier \subseteq Present(rows)
    BY DEF earlier
  <2>4. ASSUME NEW a, NEW b
        PROVE  <<a, b>> \in Before' <=>
                 <<a, b>> \in Before \/ (a \in earlier /\ b = w) \/ (a = w /\ b \in Present(rows) \ earlier)
    <3>1. (\E q, r \in rows' : q.by = a /\ r.by = b /\ q.place < r.place) <=>
            \/ \E q, r \in rows : q.by = a /\ r.by = b /\ q.place < r.place
            \/ \E q \in rows : q.by = a /\ b = w /\ q.place < n
            \/ \E r \in rows : a = w /\ r.by = b /\ n < r.place
      <4>1. rows' = rows \cup {new} /\ new.by = w /\ new.place = n /\ ~(n < n)
        OBVIOUS
      <4> HIDE DEF new
      <4>2. QED
        BY <4>1
    <3>2. (\E q \in rows : q.by = a /\ b = w /\ q.place < n) <=> a \in earlier /\ b = w
      BY <1>3, <2>3 DEF Present
    <3>3. (\E r \in rows : a = w /\ r.by = b /\ n < r.place) <=> a = w /\ b \in Present(rows) \ earlier
      BY <1>4 DEF Present
    <3>4. QED
      BY <2>1, <2>2, <3>1, <3>2, <3>3
  <2>5. \A b \in Before : b = <<b[1], b[2]>>
    BY DEF Before
  <2>6. \A b \in Before' : b = <<b[1], b[2]>>
    BY DEF Before
  <2>7. QED
    BY <2>4, <2>5, <2>6
<1>6. earlier \in SUBSET Present(rows)
  BY DEF earlier
<1>7. QED
  BY <1>1, <1>5, <1>6 DEF Promise!OpenSession

(* Whatever holds the rows, sessions and calls are only added, a listing     *)
(* keeps the order of the sessions it had, and every call keeps the agent    *)
(* that made it.                                                             *)
THEOREM StoreKeepsSessions == Spec => KeepsSessions
<1> USE Kinds
<1>1. Init => Promise!Init
  <2> SUFFICES ASSUME Init PROVE Promise!Init
    OBVIOUS
  <2>1. Inv
    BY InitInv
  <2>2. Present(rows) \subseteq Sessions
    BY <2>1 DEF Inv, TypeOK, StoreOK, Row, Present
  <2>3. ASSUME NEW s \in Sessions PROVE turns[s] \in Seq({AgentOf[s]})
    <3>1. turns[s] = IF legacy /\ s = Old THEN <<NoLabel>> ELSE <<>>
      BY DEF Init
    <3>2. CASE s = Old /\ legacy
      <4>1. turns[s] = <<AgentOf[s]>>
        BY <3>1, <3>2, SessionStoreAssumption
      <4>2. QED
        BY <4>1
    <3>3. CASE ~(s = Old /\ legacy)
      BY <3>1, <3>3
    <3>4. QED
      BY <3>2, <3>3
  <2>4. turns \in [Sessions -> Seq(Labels)]
    BY <2>1 DEF Inv, TypeOK, StoreOK
  <2>5. QED
    BY <2>2, <2>3, <2>4 DEF Promise!Init, Before
<1>2. Inv /\ [Next]_vars => [Promise!Next]_(Promise!vars)
  <2> SUFFICES ASSUME Inv, [Next]_vars PROVE [Promise!Next]_(Promise!vars)
    OBVIOUS
  <2> USE DEF Unharmed, tables, locals, Goto, FailWith
  <2>a. ASSUME UNCHANGED <<rows, turns>> PROVE UNCHANGED Promise!vars
    BY <2>a DEF Promise!vars, Before, Present
  <2>b. ASSUME NEW w \in Writers, NEW n \in Nat, why[w] \notin {"unanswered", "handle"},
               pc[w] \notin {"handle", "open"},
               \A q \in rows : q.place # n,
               rows' = rows \cup {[by |-> w, place |-> n]}, turns' = turns
        PROVE  Promise!Next
    <3>1. w \notin Present(rows)
      BY <2>b, SessionStoreAssumption DEF Inv, RowsInv, Present
    <3>2. rows \subseteq Row /\ \A q, r \in rows : q.by = r.by => q = r
      BY DEF Inv, TypeOK, StoreOK, RowsInv
    <3>3. Promise!OpenSession(w)
      BY <2>b, <3>1, <3>2, RowOpens
    <3>4. QED
      BY <3>3 DEF Promise!Next
  <2>c. nextPlace \in Nat /\ \A p \in Processes : place[p] \in Nat
    BY DEF Inv, TypeOK, StoreOK, HandleOK
  <2>1. ASSUME NEW w \in Writers, InsertRow(w) PROVE [Promise!Next]_(Promise!vars)
    <3>1. CASE backend = "sqlite"
      <4>1. why[w] \notin {"unanswered", "handle"} /\ pc[w] \notin {"handle", "open"}
        BY <2>1 DEF InsertRow, Inv, PcInv
      <4>2. \A q \in rows : q.place # nextPlace
        BY <2>c DEF Inv, RowsInv, TypeOK, StoreOK, Row
      <4>3. QED
        BY <2>1, <2>b, <2>c, <3>1, <4>1, <4>2 DEF InsertRow
    <3>2. CASE backend # "sqlite"
      BY <2>1, <2>a, <3>2 DEF InsertRow
    <3>3. QED
      BY <3>1, <3>2
  <2>2. ASSUME NEW w \in Writers, pc[w] = "commit", turns' = turns,
               rows' = rows \cup {[by |-> w, place |-> place[w]]}
        PROVE  [Promise!Next]_(Promise!vars)
    <3>1. why[w] \notin {"unanswered", "handle"} /\ pc[w] \notin {"handle", "open"}
      BY <2>2 DEF Inv, PcInv
    <3>2. \A q \in rows : q.place # place[w]
      BY <2>2 DEF Inv, RowsInv
    <3>3. QED
      BY <2>2, <2>b, <2>c, <3>1, <3>2
  <2>3. ASSUME NEW w \in Writers, RecordCall(w) PROVE [Promise!Next]_(Promise!vars)
    <3>1. v2[w] /\ w \in Present(rows)
      BY <2>3 DEF RecordCall, Inv, ColsInv, RowsInv
    <3>2. turns' = [turns EXCEPT ![w] = Append(turns[w], AgentOf[w])] /\ rows' = rows
      BY <2>3, <3>1 DEF RecordCall
    <3>3. Present(rows') = Present(rows) /\ Before' = Before
      BY <3>2 DEF Before, Present
    <3>4. Promise!RecordCall(w)
      BY <3>1, <3>2, <3>3 DEF Promise!RecordCall
    <3>5. QED
      BY <3>4 DEF Promise!Next
  <2>4. ASSUME NEW p \in Processes, LoseAnswer(p) PROVE [Promise!Next]_(Promise!vars)
    <3>1. CASE UNCHANGED <<rows, turns>>
      BY <2>a, <3>1
    <3>2. CASE ~UNCHANGED <<rows, turns>>
      <4>1. pc[p] = "commit" /\ turns' = turns /\ rows' = rows \cup {[by |-> p, place |-> place[p]]}
        BY <2>4, <3>2 DEF LoseAnswer
      <4>2. p \in Writers
        BY <4>1 DEF Inv, PcInv
      <4>3. QED
        BY <2>2, <4>1, <4>2
    <3>3. QED
      BY <3>1, <3>2
  <2>5. ASSUME NEW p \in Processes, CreateTablesSerially(p) \/ CreateTables(p) \/ CommitTables(p) \/
               LoseRace(p) \/ TakeOver(p) \/ Refuse(p) \/ Crash(p)
        PROVE [Promise!Next]_(Promise!vars)
    <3>1. UNCHANGED <<rows, turns>>
      BY <2>5 DEF CreateTablesSerially, CreateTables, CommitTables, LoseRace, TakeOver, Refuse, Crash
    <3>2. QED
      BY <2>a, <3>1
  <2>6. ASSUME NEW w \in Writers, CreateFileTables(w) \/ ReadColumns(w) \/ AddColumn(w) \/ Gate(w) \/
               OpenHandle(w) \/ HandleFails(w) \/ LockedOut(w)
        PROVE [Promise!Next]_(Promise!vars)
    <3>1. UNCHANGED <<rows, turns>>
      BY <2>6 DEF CreateFileTables, ReadColumns, AddColumn, Gate, OpenHandle, HandleFails,
                  LockedOut
    <3>2. QED
      BY <2>a, <3>1
  <2>7. ASSUME NEW w \in Writers, CommitRow(w) PROVE [Promise!Next]_(Promise!vars)
    BY <2>7, <2>2 DEF CommitRow
  <2>8. ASSUME NEW r \in Readers, Bind(r) \/ ListRuns(r) \/ CountTurns(r) \/ ListAgents(r)
        PROVE [Promise!Next]_(Promise!vars)
    <3>1. UNCHANGED <<rows, turns>>
      BY <2>8 DEF Bind, ListRuns, CountTurns, ListAgents
    <3>2. QED
      BY <2>a, <3>1
  <2>9. CASE UNCHANGED vars
    BY <2>9, <2>a DEF vars
  <2>10. QED
    BY <2>1, <2>3, <2>4, <2>5, <2>6, <2>7, <2>8, <2>9
       DEF Next, Schema, Write, Read, Fault, AllDone
<1>3. QED
  BY <1>1, <1>2, Invariance, PTL DEF Spec, KeepsSessions, Promise!Spec

=============================================================================
