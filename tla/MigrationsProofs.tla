-------------------------- MODULE MigrationsProofs --------------------------
(***************************************************************************)
(* Proofs of the properties of Migrations, for any set of processes and    *)
(* ids and any number of builds.                                           *)
(***************************************************************************)
EXTENDS Migrations, TLAPS

InLoop(p) == pc[p] \in {"loop", "run", "update"}

(* Build numbers identify the calls of build().                            *)
NumberInv ==
  /\ \A p \in Processes : build[p] <= builds
  /\ \A p \in Processes : pc[p] \in Building => build[p] > 0
  /\ \A p, q \in Processes : build[p] = build[q] => p = q \/ build[p] = 0
  /\ \A e \in finished : e[1] <= builds

(* Only one build ever inserts the row; the others read version 1.         *)
RowInv ==
  /\ ~hasRow => /\ started = {}
                /\ \A p \in Processes : ~inserted[p] /\ ~InLoop(p)
  /\ \A p \in Processes : pc[p] \in {"read", "insert"} => version[p] = 0 /\ ~inserted[p]
  /\ \A p \in Processes : InLoop(p) => version[p] >= StartVersion(p)
  /\ \E b \in 0..builds :
       /\ \A e \in started : e[2] <= RowId => e[1] = b
       /\ \A p \in Processes : inserted[p] => build[p] = b

(* How far the loop is.                                                    *)
LoopInv ==
  \A p \in Processes :
    /\ pc[p] \in {"run", "update"} =>
         StartVersion(p) < version[p] /\ version[p] \in migrations[p]
    /\ pc[p] = "update" => <<build[p], version[p]>> \in finished
    /\ InLoop(p) =>
         \A id \in migrations[p] :
           /\ StartVersion(p) < id
           /\ id < version[p] \/ (id = version[p] /\ pc[p] = "loop")
           => <<build[p], id>> \in finished
    /\ \A id \in Ids : <<build[p], id>> \in finished /\ build[p] > 0 => StartVersion(p) < id

(* What is in the file.                                                    *)
RecordInv ==
  /\ RecordedHasFinished
  /\ \A p \in Processes : alone[p] =>
       /\ \A q \in Processes \ {p} : pc[q] \notin Building
       /\ pc[p] = "loop" /\ version[p] > StartVersion(p) =>
            row = version[p] /\ version[p] \in migrations[p]

(* What a build that returned has executed, with this way of reading the   *)
(* version: whatever is above the id of the row.                           *)
RanAllInv ==
  \A p \in Processes : pc[p] = "built" =>
    \A id \in migrations[p] :
      StartVersion(p) < id <=> <<build[p], id>> \in finished

BuiltInv == RanAllInv /\ BuiltIsRecorded

IInv == TypeOK /\ NumberInv /\ RowInv /\ LoopInv /\ RecordInv /\ BuiltInv

-----------------------------------------------------------------------------
(* The version is an integer: ids are.                                     *)
LEMMA VersionIsInt ==
  ASSUME TypeOK, NEW p \in Processes
  PROVE  version[p] \in Int
<1>1. version[p] \in Ids \cup {0, RowId}
  BY DEF TypeOK
<1>2. Ids \subseteq Int
  BY MigrationsAssumption
<1>3. Ids \cup {0, RowId} \subseteq Int
  BY <1>2 DEF RowId
<1> QED BY <1>1, <1>3

(* Every action preserves the invariant, part by part.                     *)
USE MigrationsAssumption
    DEF IInv, history, Goto, RowId, StartVersion, InLoop, Building

(* A process that starts, or whose build threw: nothing is active any more. *)
LEMMA ReadyKeeps ==
  ASSUME IInv, NEW p \in Processes, pc' = [pc EXCEPT ![p] = "ready"],
         UNCHANGED <<hasRow, row, migrations, version, history>>
  PROVE  IInv'
<1>1. TypeOK'
  BY DEF TypeOK, Places
<1>2. NumberInv'
  BY DEF NumberInv
<1>3. RowInv'
  BY DEF RowInv
<1>4. LoopInv'
  BY DEF LoopInv
<1>5. RecordInv'
  BY DEF RecordInv, RecordedHasFinished
<1>6. BuiltInv'
  BY DEF BuiltInv, RanAllInv, BuiltIsRecorded
<1> QED BY <1>1, <1>2, <1>3, <1>4, <1>5, <1>6

(* Migrations are registered outside of build() only.                      *)
LEMMA AddMigrationKeeps ==
  ASSUME IInv, NEW p \in Processes, NEW x \in Ids, AddMigration(p, x)
  PROVE  IInv'
<1> USE DEF AddMigration
<1>1. TypeOK'
  BY DEF TypeOK, Places
<1>2. NumberInv'
  BY DEF NumberInv
<1>3. RowInv'
  BY DEF RowInv, BuiltInv, RanAllInv, BuiltIsRecorded
<1>4. LoopInv'
  BY DEF LoopInv
<1>5. RecordInv'
  BY DEF RecordInv, RecordedHasFinished
<1>6. BuiltInv'
  BY DEF TypeOK, Places, BuiltInv, RanAllInv, BuiltIsRecorded
<1> QED BY <1>1, <1>2, <1>3, <1>4, <1>5, <1>6

(* A new build has a number of its own and has finished nothing.           *)
LEMMA BuildKeeps ==
  ASSUME IInv, NEW p \in Processes, Build(p)
  PROVE  IInv'
<1> USE DEF Build
<1>1. TypeOK'
  BY DEF TypeOK, Places
<1>2. NumberInv'
  BY DEF TypeOK, Places, NumberInv
<1>3. RowInv'
  BY DEF TypeOK, Places, RowInv
<1>4. LoopInv'
  BY DEF TypeOK, Places, NumberInv, LoopInv
<1>5. RecordInv'
  <2>1. RecordedHasFinished'
    BY DEF RecordInv, RecordedHasFinished
  <2>2. ASSUME NEW q \in Processes, alone'[q]
        PROVE  q = p /\ \A r \in Processes \ {p} : pc[r] \notin Building
    BY <2>2
  <2>3. pc'[p] = "read" /\ \A r \in Processes \ {p} : pc'[r] = pc[r]
    BY DEF TypeOK
  <2> QED BY <2>1, <2>2, <2>3 DEF RecordInv
<1>6. BuiltInv'
  BY DEF TypeOK, Places, BuiltInv, RanAllInv, BuiltIsRecorded
<1> QED BY <1>1, <1>2, <1>3, <1>4, <1>5, <1>6

(* Either there is no row, or the version is 1.                            *)
LEMMA ReadKeeps ==
  ASSUME IInv, NEW p \in Processes, Read(p)
  PROVE  IInv'
<1> USE DEF Read, VersionRead
<1>1. TypeOK'
  BY DEF TypeOK, Places
<1>2. NumberInv'
  BY DEF NumberInv
<1>3. RowInv'
  BY DEF TypeOK, Places, RowInv
<1>4. LoopInv'
  BY DEF TypeOK, Places, RowInv, LoopInv
<1>5. RecordInv'
  BY DEF RowInv, RecordInv, RecordedHasFinished
<1>6. BuiltInv'
  BY DEF BuiltInv, RanAllInv, BuiltIsRecorded
<1> QED BY <1>1, <1>2, <1>3, <1>4, <1>5, <1>6

(* The first row of the file: no migration was started before.             *)
LEMMA InsertKeeps ==
  ASSUME IInv, NEW p \in Processes, Insert(p)
  PROVE  IInv'
<1> USE DEF Insert, KeyIsFree
<1>1. TypeOK'
  BY DEF TypeOK, Places
<1>2. NumberInv'
  BY DEF NumberInv
<1>3. RowInv'
  BY DEF TypeOK, Places, NumberInv, RowInv
<1>4. LoopInv'
  BY DEF TypeOK, Places, RowInv, LoopInv
<1>5. RecordInv'
  BY DEF RowInv, RecordInv, RecordedHasFinished
<1>6. BuiltInv'
  BY DEF RecordInv, RecordedHasFinished, BuiltInv, RanAllInv,
         BuiltIsRecorded
<1> QED BY <1>1, <1>2, <1>3, <1>4, <1>5, <1>6

(* The row is there, the build that inserted it is over.                   *)
LEMMA InsertThrowsKeeps ==
  ASSUME IInv, NEW p \in Processes, InsertThrows(p)
  PROVE  IInv'
<1> USE DEF InsertThrows, KeyIsFree, AfterThrow
<1>1. TypeOK'
  BY DEF TypeOK, Places
<1>2. NumberInv'
  BY DEF NumberInv
<1>3. RowInv'
  BY DEF TypeOK, Places, NumberInv, RowInv
<1>4. LoopInv'
  BY DEF LoopInv
<1>5. RecordInv'
  BY DEF RecordInv, RecordedHasFinished
<1>6. BuiltInv'
  BY DEF RecordInv, RecordedHasFinished, BuiltInv, RanAllInv,
         BuiltIsRecorded
<1> QED BY <1>1, <1>2, <1>3, <1>4, <1>5, <1>6

(* Everything below the least id above the version has finished.           *)
LEMMA ExecuteKeeps ==
  ASSUME IInv, NEW p \in Processes, NEW x \in Ids, Execute(p, x)
  PROVE  IInv'
<1> USE DEF Execute, NextMigration
<1>1. TypeOK'
  BY DEF TypeOK, Places
<1>2. NumberInv'
  BY DEF NumberInv
<1>3. RowInv'
  <2>1. x \in Int /\ version[p] \in Int /\ x > version[p] /\ version[p] >= StartVersion(p)
    <3>1. x \in Int /\ version[p] \in Int
      BY VersionIsInt DEF TypeOK
    <3>2. InLoop(p)
      OBVIOUS
    <3> QED BY <3>1, <3>2 DEF RowInv
  <2>2. hasRow
    BY DEF RowInv
  <2>3. version' = [version EXCEPT ![p] = x] /\ pc' = [pc EXCEPT ![p] = "run"]
    OBVIOUS
  <2>4. \A q \in Processes : pc'[q] \in {"read", "insert"} => version'[q] = 0 /\ ~inserted'[q]
    BY <2>3 DEF TypeOK, RowInv
  <2>5. \A q \in Processes : InLoop(q)' => version'[q] >= StartVersion(q)'
    BY <2>1, <2>3 DEF TypeOK, RowInv
  <2>6. PICK b \in 0..builds :
          /\ \A e \in started : e[2] <= RowId => e[1] = b
          /\ \A q \in Processes : inserted[q] => build[q] = b
    BY DEF RowInv
  <2>7. x <= RowId => inserted[p]
    BY <2>1
  <2>8. \A e \in started' : e[2] <= RowId => e[1] = b
    BY <2>6, <2>7
  <2>9. \E c \in 0..builds' :
          /\ \A e \in started' : e[2] <= RowId => e[1] = c
          /\ \A q \in Processes : inserted'[q] => build'[q] = c
    BY <2>6, <2>8
  <2> QED BY <2>2, <2>4, <2>5, <2>9 DEF RowInv
<1>4. LoopInv'
  <2>1. x \in Int /\ version[p] \in Int /\ x > version[p] /\ version[p] >= StartVersion(p)
    <3>1. x \in Int /\ version[p] \in Int
      BY VersionIsInt DEF TypeOK
    <3>2. InLoop(p)
      OBVIOUS
    <3> QED BY <3>1, <3>2 DEF RowInv
  <2>2. \A id \in migrations[p] : id < x => id <= version[p]
    BY <2>1 DEF TypeOK
  <2>3. version'[p] = x /\ pc'[p] = "run"
    BY DEF TypeOK
  <2>4. \A q \in Processes \ {p} : version'[q] = version[q] /\ pc'[q] = pc[q]
    BY DEF TypeOK
  <2>5. \A id \in migrations[p] :
          StartVersion(p) < id /\ id < x => <<build[p], id>> \in finished
    <3> SUFFICES ASSUME NEW id \in migrations[p], StartVersion(p) < id, id < x
                 PROVE  <<build[p], id>> \in finished
      OBVIOUS
    <3>1. id \in Int
      BY DEF TypeOK
    <3>2. pc[p] = "loop" /\ (id < version[p] \/ id = version[p])
      BY <2>1, <2>2, <3>1
    <3> QED BY <3>2 DEF LoopInv
  <2>6. StartVersion(p) \in Int
    OBVIOUS
  <2> QED BY <2>1, <2>3, <2>4, <2>5, <2>6 DEF LoopInv, TypeOK
<1>5. RecordInv'
  BY DEF TypeOK, Places, RecordInv, RecordedHasFinished
<1>6. BuiltInv'
  <2>1. pc'[p] = "run" /\ \A q \in Processes \ {p} : pc'[q] = pc[q]
    BY DEF TypeOK
  <2>2. UNCHANGED <<row, migrations, build, inserted, alone, finished>>
    OBVIOUS
  <2>3. RanAllInv'
    BY <2>1, <2>2 DEF BuiltInv, RanAllInv
  <2>4. BuiltIsRecorded'
    BY <2>1, <2>2 DEF BuiltInv, BuiltIsRecorded
  <2> QED BY <2>3, <2>4 DEF BuiltInv
<1> QED BY <1>1, <1>2, <1>3, <1>4, <1>5, <1>6

(* The version in memory is a finished migration now.                      *)
LEMMA MigrationReturnsKeeps ==
  ASSUME IInv, NEW p \in Processes, MigrationReturns(p)
  PROVE  IInv'
<1> USE DEF MigrationReturns, AfterReturn
<1>1. TypeOK'
  BY DEF TypeOK, Places, LoopInv
<1>2. NumberInv'
  BY DEF NumberInv
<1>3. RowInv'
  BY DEF RowInv
<1>4. LoopInv'
  BY DEF NumberInv, LoopInv
<1>5. RecordInv'
  BY DEF RecordInv, RecordedHasFinished
<1>6. BuiltInv'
  BY DEF NumberInv, BuiltInv, RanAllInv, BuiltIsRecorded
<1> QED BY <1>1, <1>2, <1>3, <1>4, <1>5, <1>6

(* The version in the file is a finished migration.                        *)
LEMMA UpdateKeeps ==
  ASSUME IInv, NEW p \in Processes, Update(p)
  PROVE  IInv'
<1> USE DEF Update
<1>1. TypeOK'
  BY DEF TypeOK, Places, LoopInv
<1>2. NumberInv'
  BY DEF NumberInv
<1>3. RowInv'
  BY DEF RowInv
<1>4. LoopInv'
  BY DEF LoopInv
<1>5. RecordInv'
  BY DEF LoopInv, RecordInv, RecordedHasFinished
<1>6. BuiltInv'
  BY DEF RecordInv, RecordedHasFinished, BuiltInv, RanAllInv,
         BuiltIsRecorded
<1> QED BY <1>1, <1>2, <1>3, <1>4, <1>5, <1>6

(* Nothing is left above the version.                                      *)
LEMMA ReturnKeeps ==
  ASSUME IInv, NEW p \in Processes, Return(p)
  PROVE  IInv'
<1> USE DEF Return
<1>1. TypeOK'
  BY DEF TypeOK, Places
<1>2. NumberInv'
  BY DEF NumberInv
<1>3. RowInv'
  BY DEF RowInv
<1>4. LoopInv'
  BY DEF LoopInv
<1>5. RecordInv'
  BY DEF RecordInv, RecordedHasFinished
<1>6. BuiltInv'
  <2>1. \A id \in migrations[p] : id \in Int /\ id <= version[p]
    BY DEF TypeOK
  <2>2. version[p] \in Int /\ version[p] >= StartVersion(p) /\ StartVersion(p) \in Int
    <3>1. version[p] \in Int
      BY VersionIsInt
    <3>2. InLoop(p)
      OBVIOUS
    <3> QED BY <3>1, <3>2 DEF RowInv
  <2>3. pc'[p] = "built" /\ \A q \in Processes \ {p} : pc'[q] = pc[q]
    BY DEF TypeOK
  <2>4. \A id \in migrations[p] : StartVersion(p) < id <=> <<build[p], id>> \in finished
    <3> SUFFICES ASSUME NEW id \in migrations[p]
                 PROVE  StartVersion(p) < id <=> <<build[p], id>> \in finished
      OBVIOUS
    <3>1. StartVersion(p) < id => <<build[p], id>> \in finished
      <4>1. pc[p] = "loop" /\ (id < version[p] \/ id = version[p])
        BY <2>1, <2>2
      <4> QED BY <4>1 DEF LoopInv
    <3>2. build[p] > 0 /\ id \in Ids
      BY DEF NumberInv, TypeOK
    <3> QED BY <3>1, <3>2 DEF LoopInv
  <2>5. RanAllInv'
    BY <2>3, <2>4 DEF BuiltInv, RanAllInv
  <2>6. ASSUME alone[p], NEW id \in migrations[p], StartVersion(p) < id
        PROVE  row = version[p] /\ version[p] \in migrations[p] /\ StartVersion(p) < version[p]
    BY <2>1, <2>2, <2>6 DEF RecordInv
  <2>7. alone[p] =>
          LET done == {id \in migrations[p] : <<build[p], id>> \in finished} IN
          done # {} => row \in done /\ \A id \in done : id <= row
    BY <2>1, <2>4, <2>6
  <2>8. BuiltIsRecorded'
    BY <2>3, <2>7 DEF BuiltInv, BuiltIsRecorded
  <2> QED BY <2>5, <2>8 DEF BuiltInv
<1> QED BY <1>1, <1>2, <1>3, <1>4, <1>5, <1>6

(* Only the file survives.                                                 *)
LEMMA StopKeeps ==
  ASSUME IInv, NEW p \in Processes, Stop(p)
  PROVE  IInv'
<1> USE DEF Stop
<1>1. TypeOK'
  BY DEF TypeOK, Places
<1>2. NumberInv'
  BY DEF NumberInv
<1>3. RowInv'
  BY DEF TypeOK, Places, RowInv
<1>4. LoopInv'
  BY DEF TypeOK, Places, LoopInv
<1>5. RecordInv'
  BY DEF TypeOK, Places, RecordInv, RecordedHasFinished
<1>6. BuiltInv'
  <2>1. \A q \in Processes \ {p} : pc'[q] = pc[q] /\ migrations'[q] = migrations[q]
    BY DEF TypeOK
  <2>2. pc'[p] = "down"
    BY DEF TypeOK
  <2>3. UNCHANGED <<row, build, inserted, alone, finished>>
    OBVIOUS
  <2>4. RanAllInv'
    BY <2>1, <2>2, <2>3 DEF BuiltInv, RanAllInv
  <2>5. BuiltIsRecorded'
    BY <2>1, <2>2, <2>3 DEF BuiltInv, BuiltIsRecorded
  <2> QED BY <2>4, <2>5 DEF BuiltInv
<1> QED BY <1>1, <1>2, <1>3, <1>4, <1>5, <1>6

HIDE MigrationsAssumption
     DEF IInv, history, Goto, RowId, StartVersion, InLoop, Building

(* The invariant holds at first.                                           *)
LEMMA InitEstablishes == Init => IInv
<1> SUFFICES ASSUME Init PROVE IInv
  OBVIOUS
<1> USE MigrationsAssumption
    DEF Init, Building, InLoop, StartVersion, RowId
<1>1. TypeOK
  BY DEF TypeOK, Places
<1>2. NumberInv /\ RowInv
  BY DEF NumberInv, RowInv
<1>3. LoopInv /\ RecordInv /\ BuiltInv
  BY DEF LoopInv, RecordInv, RecordedHasFinished, BuiltInv, RanAllInv,
         BuiltIsRecorded
<1> QED BY <1>1, <1>2, <1>3 DEF IInv

(* Every step preserves the invariant.                                     *)
LEMMA NextKeeps == IInv /\ [Next]_vars => IInv'
<1> SUFFICES ASSUME IInv, [Next]_vars PROVE IInv'
  OBVIOUS
<1>1. ASSUME NEW p \in Processes,
             Start(p) \/ InsertConflicts(p) \/ Busy(p) \/ MigrationThrows(p)
      PROVE  IInv'
  BY <1>1, ReadyKeeps
     DEF Start, InsertConflicts, Busy, MigrationThrows, AfterThrow, Goto
<1>2. ASSUME NEW p \in Processes, NEW id \in Ids, AddMigration(p, id) PROVE IInv'
  BY <1>2, AddMigrationKeeps
<1>3. ASSUME NEW p \in Processes, NEW id \in Ids, Execute(p, id) PROVE IInv'
  BY <1>3, ExecuteKeeps
<1>4. ASSUME NEW p \in Processes, Build(p) PROVE IInv'
  BY <1>4, BuildKeeps
<1>5. ASSUME NEW p \in Processes, Read(p) PROVE IInv'
  BY <1>5, ReadKeeps
<1>6. ASSUME NEW p \in Processes, Insert(p) PROVE IInv'
  BY <1>6, InsertKeeps
<1>7. ASSUME NEW p \in Processes, InsertThrows(p) PROVE IInv'
  BY <1>7, InsertThrowsKeeps
<1>8. ASSUME NEW p \in Processes, MigrationReturns(p) PROVE IInv'
  BY <1>8, MigrationReturnsKeeps
<1>9. ASSUME NEW p \in Processes, Update(p) PROVE IInv'
  BY <1>9, UpdateKeeps
<1>10. ASSUME NEW p \in Processes, Return(p) PROVE IInv'
  BY <1>10, ReturnKeeps
<1>11. ASSUME NEW p \in Processes, Stop(p) PROVE IInv'
  BY <1>11, StopKeeps
<1>12. CASE UNCHANGED vars
  BY <1>12 DEF vars, IInv, TypeOK, NumberInv, RowInv, LoopInv, RecordInv,
               RecordedHasFinished, BuiltInv, RanAllInv, BuiltIsRecorded,
               InLoop, StartVersion
<1> QED BY <1>1, <1>2, <1>3, <1>4, <1>5, <1>6, <1>7, <1>8, <1>9, <1>10, <1>11,
           <1>12 DEF Next

(* The invariant holds in every reachable state.                           *)
THEOREM Invariance == Spec => []IInv
<1> QED BY InitEstablishes, NextKeeps, PTL DEF Spec

-----------------------------------------------------------------------------
(* The variables keep their types.                                         *)
THEOREM TypeCorrectness == Spec => []TypeOK
<1>1. IInv => TypeOK
  BY DEF IInv
<1> QED BY <1>1, Invariance, PTL

(* The migrations up to id 1 are executed at most once per file, however   *)
(* many processes build at the same time and wherever they die.            *)
THEOREM FirstOnce == Spec => []FirstMigrationOnce
<1>1. IInv => FirstMigrationOnce
  <2> SUFFICES ASSUME IInv, NEW e \in started, NEW f \in started,
                      e[2] <= RowId, f[2] = e[2]
               PROVE  e = f
    BY DEF FirstMigrationOnce
  <2>1. e[1] = f[1]
    BY DEF IInv, RowInv
  <2>2. e \in Nat \X Ids /\ f \in Nat \X Ids
    BY DEF IInv, TypeOK
  <2> QED BY <2>1, <2>2
<1> QED BY <1>1, Invariance, PTL

(* A recorded version is a migration that the recording build finished.    *)
THEOREM RecordedFinished == Spec => []RecordedHasFinished
<1>1. IInv => RecordedHasFinished
  BY DEF IInv, RecordInv
<1> QED BY <1>1, Invariance, PTL

(* Migrations are executed in the order of their ids and without gaps.     *)
THEOREM Ordered == Spec => []NoGaps
<1>1. IInv => NoGaps
  BY DEF IInv, LoopInv, NoGaps, InLoop
<1> QED BY <1>1, Invariance, PTL

(* A build that returned has executed every registered migration above the *)
(* version that the file recorded when it began (and above 1, unless the   *)
(* build inserted the row).                                                *)
THEOREM BuildRan == Spec => []BuiltRanAll
<1>1. IInv => BuiltRanAll
  BY DEF IInv, BuiltInv, RanAllInv, BuiltRanAll
<1> QED BY <1>1, Invariance, PTL

(* What the file records when a build has returned.                        *)
THEOREM BuildRecorded == Spec => []BuiltIsRecorded
<1>1. IInv => BuiltIsRecorded
  BY DEF IInv, BuiltInv
<1> QED BY <1>1, Invariance, PTL
=============================================================================
