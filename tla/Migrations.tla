----------------------------- MODULE Migrations -----------------------------
(***************************************************************************)
(* SqliteDatabase::build and add_migration, for processes that open the    *)
(* same database file: several of them at once, one after the other, with  *)
(* other migrations in each release, throwing or dying anywhere.           *)
(*                                                                         *)
(* build() keeps one row (id = 1, version) in the table migracao.  It      *)
(* reads the row, inserts it if there is none, sorts the registered        *)
(* migrations and executes those above the version, updating the row after *)
(* each.  Nothing wraps these statements in a transaction, and every       *)
(* statement may find the file busy.  The version is taken from values[0]  *)
(* of the row, which is the column id.                                     *)
(*                                                                         *)
(* Sorting the vector and passing over what is not above the version, to   *)
(* which each executed migration is assigned, is: the least id above the   *)
(* version is next.  The vector is therefore a set here (its ids are       *)
(* distinct).                                                              *)
(***************************************************************************)
EXTENDS Integers

CONSTANTS
  Processes,  (* each has at most one SqliteDatabase object on the file    *)
  Ids,        (* the ids that migrations are registered with               *)
  Faults,     (* which steps may fail: a subset of FaultKinds              *)
  MaxBuilds   (* bound: calls of build() over the life of the file         *)

FaultKinds == {"busy", "callback", "crash"}

ASSUME MigrationsAssumption ==
  /\ Ids \subseteq Int
  /\ Faults \subseteq FaultKinds
  /\ MaxBuilds \in Nat

(* migracaoModel["id"] of the only row.                                    *)
RowId == 1

VARIABLES
  hasRow,      (* the table migracao has its row                           *)
  row,         (* the column version of that row                           *)
  pc,          (* pc[p]: where process p is                                *)
  migrations,  (* migrations[p]: the ids in mMigrations                    *)
  version,     (* version[p]: migracaoModel["version"], a local of build() *)
  (* history *)
  builds,      (* number of calls of build() so far                        *)
  build,       (* build[p]: the number of the last build of p              *)
  found,       (* found[p]: the version recorded in the file when the last *)
               (* build of p read it                                       *)
  inserted,    (* inserted[p]: the last build of p inserted the row        *)
  alone,       (* alone[p]: no other build was active since that build     *)
               (* began                                                    *)
  recorder,    (* the build that wrote the row last, 0 if none             *)
  started,     (* <<build, id>>: callbacks that were invoked               *)
  finished     (* <<build, id>>: callbacks that returned                   *)

history == <<builds, build, found, inserted, alone, recorder, started, finished>>
vars == <<hasRow, row, pc, migrations, version, builds, build, found, inserted,
          alone, recorder, started, finished>>

Building == {"read", "insert", "loop", "run", "update"}
Places == {"down", "ready", "built"} \cup Building

-----------------------------------------------------------------------------
Init ==
  /\ hasRow = FALSE /\ row = 0
  /\ pc = [p \in Processes |-> "down"]
  /\ migrations = [p \in Processes |-> {}]
  /\ version = [p \in Processes |-> 0]
  /\ builds = 0
  /\ build = [p \in Processes |-> 0]
  /\ found = [p \in Processes |-> 0]
  /\ inserted = [p \in Processes |-> FALSE]
  /\ alone = [p \in Processes |-> FALSE]
  /\ recorder = 0
  /\ started = {} /\ finished = {}

Goto(p, place) == pc' = [pc EXCEPT ![p] = place]

(* values[0] is the id of the row, not its version.                        *)
VersionRead == IF hasRow THEN RowId ELSE 0

(* A definition named Wrong... is a deliberate mistake in the definition   *)
(* after it; no action uses it.                                            *)
WrongKeyIsFree == TRUE

(* id is the primary key of migracao, and every process inserts id = 1.    *)
KeyIsFree == ~hasRow

WrongNextMigration(p, id) == id \in migrations[p] /\ id > version[p]

(* What the loop over the sorted vector comes to next.                     *)
NextMigration(p, id) ==
  /\ id \in migrations[p] /\ id > version[p]
  /\ \A other \in migrations[p] : other > version[p] => id <= other

WrongAfterThrow == "update"

(* Exceptions leave build(); the object can be used again.                 *)
AfterThrow == "ready"

WrongAfterReturn == "loop"

(* What follows the callback of a migration.                               *)
AfterReturn == "update"

-----------------------------------------------------------------------------
(* A process is started and constructs its database object.                *)
Start(p) ==
  /\ pc[p] = "down"
  /\ Goto(p, "ready")
  /\ UNCHANGED <<hasRow, row, migrations, version, history>>

(* add_migration(id): a second migration with an id of the vector throws   *)
(* and changes nothing.                                                    *)
AddMigration(p, id) ==
  /\ pc[p] \in {"ready", "built"}
  /\ id \notin migrations[p]
  /\ migrations' = [migrations EXCEPT ![p] = @ \cup {id}]
  /\ Goto(p, "ready")
  /\ UNCHANGED <<hasRow, row, version, history>>

(* build() is called.                                                      *)
Build(p) ==
  /\ pc[p] \in {"ready", "built"}
  /\ builds < MaxBuilds
  /\ builds' = builds + 1
  /\ build' = [build EXCEPT ![p] = builds + 1]
  /\ found' = [found EXCEPT ![p] = 0]
  /\ inserted' = [inserted EXCEPT ![p] = FALSE]
  /\ alone' = [q \in Processes |->
                 q = p /\ \A r \in Processes \ {p} : pc[r] \notin Building]
  /\ version' = [version EXCEPT ![p] = 0]
  /\ Goto(p, "read")
  /\ UNCHANGED <<hasRow, row, migrations, recorder, started, finished>>

(* SELECT; without a row the version stays 0 and the row will be inserted. *)
Read(p) ==
  /\ pc[p] = "read"
  /\ version' = [version EXCEPT ![p] = VersionRead]
  /\ found' = [found EXCEPT ![p] = row]
  /\ Goto(p, IF VersionRead = 0 THEN "insert" ELSE "loop")
  /\ UNCHANGED <<hasRow, row, migrations, builds, build, inserted, alone,
                 recorder, started, finished>>

(* INSERT of (1, 0).                                                       *)
Insert(p) ==
  /\ pc[p] = "insert" /\ KeyIsFree
  /\ hasRow' = TRUE /\ row' = 0
  /\ recorder' = build[p]
  /\ inserted' = [inserted EXCEPT ![p] = TRUE]
  /\ Goto(p, "loop")
  /\ UNCHANGED <<migrations, version, builds, build, found, alone, started,
                 finished>>

(* INSERT meets the row of another process.                                *)
InsertConflicts(p) ==
  /\ pc[p] = "insert" /\ ~KeyIsFree
  /\ Goto(p, AfterThrow)
  /\ UNCHANGED <<hasRow, row, migrations, version, history>>

(* The row is inserted, but reading it back throws (insert() ends with     *)
(* find_by_rowid).                                                         *)
InsertThrows(p) ==
  /\ pc[p] = "insert" /\ KeyIsFree
  /\ "busy" \in Faults
  /\ hasRow' = TRUE /\ row' = 0
  /\ recorder' = build[p]
  /\ inserted' = [inserted EXCEPT ![p] = TRUE]
  /\ Goto(p, AfterThrow)
  /\ UNCHANGED <<migrations, version, builds, build, found, alone, started,
                 finished>>

(* A statement of build() finds the file busy, before it changed anything. *)
Busy(p) ==
  /\ pc[p] \in {"read", "insert", "update"}
  /\ "busy" \in Faults
  /\ Goto(p, AfterThrow)
  /\ UNCHANGED <<hasRow, row, migrations, version, history>>

(* The callback of the next migration is invoked; its id is already        *)
(* assigned to the version in memory.                                      *)
Execute(p, id) ==
  /\ pc[p] = "loop" /\ NextMigration(p, id)
  /\ version' = [version EXCEPT ![p] = id]
  /\ started' = started \cup {<<build[p], id>>}
  /\ Goto(p, "run")
  /\ UNCHANGED <<hasRow, row, migrations, builds, build, found, inserted, alone,
                 recorder, finished>>

MigrationReturns(p) ==
  /\ pc[p] = "run"
  /\ finished' = finished \cup {<<build[p], version[p]>>}
  /\ Goto(p, AfterReturn)
  /\ UNCHANGED <<hasRow, row, migrations, version, builds, build, found,
                 inserted, alone, recorder, started>>

(* What the callback did before it threw stays in the file.                *)
MigrationThrows(p) ==
  /\ pc[p] = "run"
  /\ "callback" \in Faults
  /\ Goto(p, AfterThrow)
  /\ UNCHANGED <<hasRow, row, migrations, version, history>>

(* UPDATE migracao SET id = 1, version = ... WHERE id = 1.                 *)
Update(p) ==
  /\ pc[p] = "update"
  /\ row' = version[p] /\ UNCHANGED hasRow
  /\ recorder' = build[p]
  /\ Goto(p, "loop")
  /\ UNCHANGED <<migrations, version, builds, build, found, inserted, alone,
                 started, finished>>

(* The loop is over and build() returns.                                   *)
Return(p) ==
  /\ pc[p] = "loop" /\ \A id \in migrations[p] : id <= version[p]
  /\ Goto(p, "built")
  /\ UNCHANGED <<hasRow, row, migrations, version, history>>

(* The process ends, or dies in the middle of build(): the file stays.     *)
Stop(p) ==
  /\ pc[p] # "down"
  /\ pc[p] \in Building => "crash" \in Faults
  /\ Goto(p, "down")
  /\ migrations' = [migrations EXCEPT ![p] = {}]
  /\ version' = [version EXCEPT ![p] = 0]
  /\ UNCHANGED <<hasRow, row, history>>

-----------------------------------------------------------------------------
Next ==
  \E p \in Processes :
    \/ Start(p) \/ Build(p) \/ Stop(p)
    \/ \E id \in Ids : AddMigration(p, id) \/ Execute(p, id)
    \/ Read(p) \/ Insert(p) \/ InsertConflicts(p) \/ InsertThrows(p) \/ Busy(p)
    \/ MigrationReturns(p) \/ MigrationThrows(p) \/ Update(p) \/ Return(p)

Spec == Init /\ [][Next]_vars

-----------------------------------------------------------------------------
TypeOK ==
  /\ hasRow \in BOOLEAN
  /\ row \in Ids \cup {0}
  /\ pc \in [Processes -> Places]
  /\ migrations \in [Processes -> SUBSET Ids]
  /\ version \in [Processes -> Ids \cup {0, RowId}]
  /\ builds \in Nat /\ recorder \in Nat
  /\ build \in [Processes -> Nat]
  /\ found \in [Processes -> Ids \cup {0}]
  /\ inserted \in [Processes -> BOOLEAN]
  /\ alone \in [Processes -> BOOLEAN]
  /\ started \subseteq Nat \X Ids
  /\ finished \subseteq Nat \X Ids

(***************************************************************************)
(* The migrations that build up an empty file (those with an id up to 1)   *)
(* are executed at most once over the life of the file, however many       *)
(* processes start at the same time: the primary key of migracao lets only *)
(* one of them pass insert(), and every later build reads version 1.       *)
(* SqliteDatabase.hpp:148-171.                                             *)
(***************************************************************************)
FirstMigrationOnce ==
  \A e, f \in started : e[2] <= RowId /\ f[2] = e[2] => e = f

(***************************************************************************)
(* The version in the file is never one that was not reached: the build    *)
(* that recorded it had executed that migration to its end.  A migration   *)
(* that threw or died is not recorded.  SqliteDatabase.hpp:173-178.        *)
(***************************************************************************)
RecordedHasFinished ==
  row # 0 => <<recorder, row>> \in finished

(***************************************************************************)
(* Migrations are executed in the order of their ids, without gaps,        *)
(* whatever the order of registration: while a build executes a migration, *)
(* every registered one between the version it started from and this one   *)
(* has finished in the same build.  SqliteDatabase.hpp:164-178.            *)
(***************************************************************************)
StartVersion(p) == IF inserted[p] THEN 0 ELSE RowId

NoGaps ==
  \A p \in Processes : pc[p] \in {"run", "update"} =>
    \A id \in migrations[p] :
      StartVersion(p) < id /\ id < version[p] => <<build[p], id>> \in finished

(***************************************************************************)
(* A build that returned leaves no registered migration behind: each one   *)
(* above the version that the file recorded when the build began (and      *)
(* above 1, if the row was there already) has run to its end in this       *)
(* build.  Whether one that was already recorded runs again is left open.  *)
(* SqliteDatabase.hpp:148-184.                                             *)
(***************************************************************************)
BuiltRanAll ==
  \A p \in Processes : pc[p] = "built" =>
    \A id \in migrations[p] :
      StartVersion(p) < id /\ found[p] < id => <<build[p], id>> \in finished

(***************************************************************************)
(* A build that no other build overlapped and that returned leaves in the  *)
(* file the id of the newest migration that it executed, if any.           *)
(* SqliteDatabase.hpp:168-184.                                             *)
(***************************************************************************)
BuiltIsRecorded ==
  \A p \in Processes : pc[p] = "built" /\ alone[p] =>
    LET done == {id \in migrations[p] : <<build[p], id>> \in finished} IN
    done # {} => row \in done /\ \A id \in done : id <= row
=============================================================================
