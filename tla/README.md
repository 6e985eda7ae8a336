# Verification of jdb

jdb is a header-only C++ mapping of models onto SQLite tables (namespace `jdb`, on
SQLiteCpp). This directory holds TLA+ modules translated from its headers, TLC
configurations that check them on small instances, and proofs for every value of
the constants that TLAPS checks. Paths below are relative to
`src/include/jdb/`; line numbers are those of the commit this was written for.

`PROJECT.json` lists every run, every mapped definition with its lines, the mutants
(for each property a deliberate mistake that it notices), hazards and theorems.

    tlasany M.tla                       parse a module
    tlc -workers 2 -config X.cfg M      model-check
    tlapm M.tla                         check proofs

## 1. Inventory

### SqliteDatabase: transactions and statements (`database/SqliteDatabase.hpp:48-123`)

State: a recursive mutex, a flag `mTransactionLock`, a vector of callbacks, one SQLite
connection. Operations: `transaction(callback)`, `query_string`, `get_last_rowid`.

`transaction` takes the mutex and exchanges the flag. If it was clear, it opens a SQLite
transaction, runs the callback, then walks the vector with `for_each`, commits and clears
vector and flag. If it was set, it pushes the callback and returns. `query_string`
takes no lock. Threads interact through the mutex, through the connection (a statement of
anybody falls into whatever SQLite transaction is open), callbacks call back into
`transaction` and push to the vector that is being walked.

Hard: an exception leaves by the destructors of the SQLite transaction and the lock guard,
and neither resets the flag; the vector grows while it is walked; the process may die
between BEGIN and COMMIT; on some errors of a statement SQLite rolls back the whole transaction
by itself, and nobody asks whether it is still open. Correct means: all or nothing, also for nested callbacks; each
callback runs at most once and on its own thread; nobody waits for ever.

### SqliteDatabase: migrations (`SqliteDatabase.hpp:125-184`, `Migration.hpp`)

State: the vector of registered migrations, and in the file one row (id 1, version) of the
table `migracao`. Operations: `add_migration`, `build`. Processes interact through the
file. Hard: nothing encloses the statements and callbacks of `build` in a transaction; two
processes start at once; a callback throws half way; the file is busy; releases with other
migrations follow. Correct means: order, no gaps, no repetition, a recorded version that
was reached.

### Database and Repository: rows (`Database.hpp`, `Repository.hpp:20-350`)

State: the tables, the last rowid of the connection, which they share. Operations: `insert`, `update`,
`remove`, `find_by_rowid`; `save`, `load*`, `find`, `select`, `count*`, `update`,
`remove`, `remove_by`, `remove_all` on top of them. Hard: `insert` is three statements on a
shared connection; texts are compared with `LIKE '%text%'` in every condition, the
primary key's included; `remove_by` loads, then removes one by one and drops errors.
Correct means: what is returned is the caller's own row, what is updated, removed or found
is the row with the key.

### Batches (`Repository.hpp:276-288, 397-407, 498-511`, `Database.hpp:331-428`)

`remove_all` and the compound repository's `update` write several models in one
transaction, drop the error of each single model, whatever it did to the transaction, and return
the error of the transaction.
The builders `InsertValue`, `UpdateValue`, `RemoveValue` collect models and call
`transaction` once per model in their destructor. Hard: a call made by a callback is
deferred, so it returns before anything is done, and the lambdas of `remove_all` and
`update` hold references to the caller's models; a destructor must not throw.

### Reading lists (`Repository.hpp:24-214`)

`select`, `load_all`, `load_by` step through the rows of a SELECT and append a model per row;
`first_by`, `last_by` ask for one row with an ORDER BY. Hard: `query_string` takes no lock, so
the table may change between two steps. Correct means: no row twice, none missed that was there
all the time, the first and last by the column.

### Compound repository (`Repository.hpp:353-515`, `CompoundModel.hpp`)

A compound is several models side by side. `select` writes an INNER JOIN from the references of
the classes and assigns the columns of each row to the fields, part after part, counting fields.
No state. Hard: the text of the join depends on the order of the models; the
counting supposes that a table has exactly the columns of its class. Correct means: the
compounds are the join, each value is in its own field.

### Models (`DataClass.hpp`, `CompoundModel.hpp`, `ExtendedModel.hpp`)

Models are arrays of `Data` (null, bool, int, double, text, or unset) with a validity flag
that `restrict` clears; key, reference and field lists live in types. Operations: assignment
by name, `restrict<level>`, `fill`, copies, `set`, `get` of compounds. Correct means: what
`restrict` took out is neither shown nor written to the database.

### Schema (`SqliteDatabase.hpp:26-46, 197-340`)

The constructor of `SqliteDatabase` creates the tables of all models, one statement each, with the
text that `create_ddl` makes from a declaration, which throws for inconsistent
ones. Hard: the file outlives the program, whose next release declares other models; a
constructor that throws leaves the tables it made; the names of keys, references and fields are
compared after they were destroyed. Correct means: consistent
declarations are accepted, the table fits the statements that are written for its model.

### Scope (`utils/Scope.hpp`), State (`utils/State.hpp`), Format (`utils/Format.hpp`)

Scope: a thread pool that runs posted tasks through a strand, `stop()` from the
destructor, by other threads, or by a task. State: an observed value; `notify` calls
the observer with the mutex held, `observe` and `get` take no mutex. Format: text only.
None of them is used by the database part. Hard: who joins whom when several stop, what
happens to tasks that wait, observers that call back, data read without the mutex. Correct
means: posted tasks run, everybody who calls `stop()` comes back, nobody uses a destroyed scope,
an observer sees its value.

## 2. Modules

| module | models | state and actions |
|---|---|---|
| `UnitOfWork` | the promise of `transaction` to its callers | what is in the file, what is decided about each operation |
| `Transactions` | `transaction`, `query_string` | mutex, flag, vector and its capacity, program counters, `for_each` iterators, what the connection sees, what the file holds; one action per step between which another thread, an exception or the end of the process can come in |
| `TransactionsProofs` | | proofs about `Transactions`, that it implements `UnitOfWork`, that `Batches` implements it, and proofs about the single models of batches |
| `Migrations` | `add_migration`, `build` of several processes | the row in the file; per process the registered ids, the version in memory and the statement it is at |
| `MigrationsProofs` | | proofs about `Migrations` |
| `Rows` | `Database` and `Repository` on one table | the rows, the last rowid, per thread the step of its call and its local variables |
| `RowsProofs` | | proofs about `Rows` |
| `Batches` | `remove_all`, compound `update`, the builders | extends `Transactions`: every step of a call there is a step here, with the models of each batch |
| `Scans` | `select`, `load_by`, `first_by`, `last_by` step by step | the table, per thread the cursor and the models read so far; a change of the table is an action of its own |
| `ScansProofs` | | proofs about `Scans` |
| `Declarations` | `DataClass`, `ExtendedModel` as values | operators only |
| `Joins` | `select`, `load_all` of the compound repository | classes and columns of the tables (chosen at the start), their rows, the last answer |
| `Schema` | the constructor of `SqliteDatabase`, `create_ddl` | the tables in the file, the release that runs and where its constructor is |
| `TablesProofs` | | proofs about `Schema` and about `Joins` |
| `Restriction` | models and compounds held by a program | values and validity of each, the rows that the last call wrote |
| `RestrictionProofs` | | proofs about `Restriction` |
| `Scope` | `Scope` | work guard, `io_context`, strand and its queue, per worker its task, per thread where it is in `stop()` |
| `ScopeProofs` | | proofs about `Scope` |
| `State` | `MutableState` | mutex, value, observer, per thread where it is in `notify` |
| `StateProofs` | | proofs about `State` |
| `MC*` | | instances for TLC |

`Transactions` and the code. `Call` is the call of `transaction`; `EnterFirst` and
`EnterDeferred` are lock, exchange and the two branches; `Begin`, `CallbackReturns`,
`RunDeferred`, `DeferredReturns`, `Commit` are lines 57-72; `Nest` is `transaction` called by
a running callback (same thread, recursive mutex, flag set: push and return in one step).
Every way out by exception (BEGIN, a callback, COMMIT, a function object read from storage
the vector has left) is `Unwind`: ROLLBACK, release the mutex, and nothing else, as in the code.
`Write` and `Statement` are `query_string` inside and outside of a callback. `RollsBack` is a
statement that fails so that SQLite rolls back the open transaction by itself, caught by the callback
or made by a thread outside of any call: all that follows in the call is executed without a
transaction (`torn` lists the operations it happens to) and COMMIT throws. Data is
abstracted to the set of operations whose statement took effect. When the vector grows
while `for_each` walks it, the iterators point to freed storage: `stale` remembers it, and
what follows is either `bad_function_call` (`RunStale`) or the end of the process (`Crash`).

`Migrations`: the table `migracao` is `hasRow`, `row`; `Read`, `Insert`, `Execute`,
`MigrationReturns`, `Update`, `Return` are the lines of `build` in their order; `Busy`,
`InsertThrows`, `MigrationThrows` are the exceptions; `Stop` ends a process anywhere.
`build` takes the version from `values[0]` of the row, which is the column `id`
(`VersionRead`); `found` remembers the version that was there. Sorting and skipping are abstracted to "the least id above the version".

`Rows`: a statement is one action; `insert` is `Insert`, `ReadRowid`, `Fetch`; `OtherInsert` is an
INSERT into any other table of the database object, of which only the last rowid matters; `remove_by` is
`RemoveBy` and one `RemoveItem` per model. `foreign` and `aside` remember what other threads did in
between: a moved rowid, and the rows they inserted or changed while `remove_by` runs. `Like` is a constant relation, of which only
reflexivity is assumed; `KeyIsRowid` tells whether the key is a single integer, which in
SQLite is the rowid itself.

`Batches`: `done` and `kept` are the parts of batches that the connection and the file
hold, refining `working` and `durable`. `ModelFails` is the dropped error of a model, with or without a
rollback by SQLite; after one the models that follow are kept one by one. `BatchNest` records whether the models live as
long as the calling callback only; when it returns before the batch runs, the lambda refers to
destroyed models (`gone`).

`Scans`: a SELECT ordered by rowid finds at each step the next row that is there by then, so
the cursor is the rowid of the last row; `Begin`, `Step`, `Return`, `Throw` are prepare,
`executeStep` with the callback, the end and the exception. `first_by` and `last_by` are one step
(`Pick`): the ORDER BY is sorted first. `Order` is their list of terms; with a condition,
`for_each_where` has already appended `ORDER BY ROWID`.

`Joins`: `Conditions` is `for_each_where`, with the `AND` it writes or forgets; `StatementThrows`
says when SQLite cannot read the result; `Taken` and `Fill` are `for_each_fill_model`, which counts
the fields that `get_fields()` has and finds each one by the name of the column.
`PastTheEnd` (an iterator beyond the row) is undefined behaviour and makes the answer
"undefined". An answer maps each row of the join that was kept to its compound; every other call
forgets it, so that it is compared with the rows it was made from.

`Schema`: `DdlThrows` are the exceptions of `create_ddl` and of the constructors it
calls, `SyntaxError` and `Refuses` those of SQLite, the latter only when the table does not exist
yet. Two names or more may be misread, since they are compared after they were destroyed: `wrong` says
whether the constructors see the opposite of what is there. `CreateTable` and `CreationThrows` are one turn of the loop, `Start` and `Stop` begin and end a
process. `Consistent` is the independent definition of a good declaration.

`Restriction`: `Places` are the variables of the program and the parts of its compounds.
`Assign` gives a field a value, `AssignField` that of a field of another model with the mark it
may be, `Copy` is assignment of a model, `set` and `get`, `CopyCompound` assignment of a compound with its
flag. `Restrict` and `RestrictCompound` check what the
code checks (validity of the model, or of every part, but not of the compound) and `Write` is the
test of validity in front of `insert` and `update`. `level`, `since`, `taken` and `replaced` remember
what the properties compare with; `rows` is what the last call wrote, which is enough to see
whether anything hidden is ever written.

`Scope`: `OwnsWork`, `ResetGuard`, `Halt` and the joins are the lines of `stop()`, each one an
action, since two threads may be in it. A task that calls `stop()` comes to join its own thread;
the interruption it requested itself, or a `thread_resource_error`, ends it (`JoinOwnThread`).
No call begins once the destructor has, but the destructor may find another thread inside `stop()`, and
that thread goes no further when the object is gone; workers that are still alive then are what
`NoWorkerSurvives` is about.

`State`: storing the value is two steps, between which a reader without the mutex finds it
`Torn` (a data race). Replacing the observer while it runs is also a race: the model lets the old
one go on. An observer that notifies the same state waits for itself (`stuck`).

## 3. Runs

| run | instance | shows |
|---|---|---|
| `transactions` | 2 threads, 4 operations, every fault, late deferrals | safety of `transaction`, refinement of `UnitOfWork` |
| `transactions_return` | the same without process death, fairness | every call returns; every accepted callback is committed as long as nothing throws |
| `migrations` | 2 processes, ids 0, 1, 2, 3 builds, every fault | what runs, in which order, how often, what is recorded |
| `batches` | 2 threads, 2 batches of 2 models, 1 builder, every fault | what the file holds and what callers were told |
| `rows_text` | 2 threads, keys ann, anna, joanna, notes x, xy, 4 calls, inserts into another table among them | `insert`, `update`, `remove_by` on text keys |
| `find_text` | 3 calls, text keys | violation: `find` may return another row |
| `scans` | 1 reader, 3 rowids, 3 values, 5 changes, limit 2 | what a reader finds while the table changes, order of `first_by` and `last_by` |
| `joins` | 2 models with any ignored fields, 4 forms of each table and shared names; 3 models in all orders with null and dangling references; 2 rows each, limit 2 | `select` returns the join, and where the columns of a joined row go |
| `schema` | every declaration of up to 2 fields, 2 keys and 2 references, 6 parents; 2 more starts by any of 10 releases | which are accepted, and which tables they get, also over tables of other releases |
| `restriction` | a compound of 2 models, a model of the class of one part, one of another class, fields above and at the level | restriction, ignored fields, `fill`, assignment field by field, in and out of the compound |
| `scope` | 2 workers, 2 callers, 3 tasks, fairness | what the destructor leaves; tasks start, `stop()` returns |
| `state` | 3 threads, 3 values, 2 observers, fairness | what observers see; `notify` ends unless an observer notifies |

Bounds. Operations are done once, so their number is the length of a run. Four of them
are enough for: an outer callback that pushes two others of which the first pushes
another (the vector grows from 1 to 2 to 4 under the `for_each`), beside a statement or a
call of the second thread, before and after an exception or a rollback by SQLite. Two threads suffice for mutual
exclusion on one mutex; a third could only wait as well. In `migrations` the ids lie below,
at and above the id of the row (1), which is what `VersionRead` tells apart; three builds are two
concurrent ones and a later one, or three releases in a row. In `rows_text` four calls are
an insertion, two that disturb it, in this table or another, and one that looks; of the keys two contain the shorter ones. There is no
run on integer keys: the properties are proved for both kinds.
In `scans` one reader suffices, since readers do not disturb each other; five changes fill the
table of three rows, and change and remove rows in front of and behind the cursor. In `joins`
three models in each order are the least with a model without references between two with some,
which is where the counters of `for_each_where` differ. In `schema` two fields give all pairs of
key, `Serial`, reference and ignored field, and the ten releases that may follow differ in keys,
references and an inherited `Serial`; the third start meets a file of two releases. In `restriction` one part has a
field above the level, the other an ignored one, and the class that is filled from them a field at the level. In `scope` two workers are one that
holds the strand and one that waits or leaves, three tasks are one that stops, one that posts and one that
is dropped; two callers race in `stop()`, one of them the destructor. In `state` three values let each of three threads notify, or one of them again.
`MaxCalls`, `MaxBuilds`, `MaxChanges` and `MaxStarts` are the only bounds in guards; values,
tasks and operations are used once.

Symmetry is used in runs without liveness only: threads, operations and processes are
interchangeable (operations of `Batches` among batches), as are the rowids of `joins`, whose
order plays no part there. The rowids of `scans` are numbers and the models of the other runs differ.

Deadlock is checked in `scans`, `joins`, `restriction`, and `scope`,
whose end (`Over`) is an explicit step. It is not checked in the others: each
instance has finitely many operations, calls, builds or starts, and the application may stop calling; in
`state` an observer that notifies does block for ever. What must not block is a
property: `CallsReturn`, `StopReturns`, `OnlyReentryBlocks`.

Fairness. `FairSpec` of `Transactions` asks that a thread inside `transaction` that can
take its next step does take one: threads are scheduled, callbacks end and statements return.
It does not ask the application to call, write or nest, nor a step to fail. Weak fairness
per thread is enough for the mutex because the instance has finitely many calls.

`FairSpec` of `Scope`: threads are scheduled (weak fairness of the steps of `stop()` and of the
workers), and a task that has started ends, whatever it posts or stops meanwhile (strong, because a
task may call members again and again in between). Nothing asks tasks to be posted or the object to
be destroyed. `FairSpec` of `State`: strong fairness per thread, since a thread that waits for
the mutex finds it taken again and again; `std::mutex` promises no fairness, but the
schedulers of the platforms let a waiting thread in eventually, and observers end.

## 4. What the runs and proofs show about the code

Guaranteed, whatever throws or dies:

- the file never holds a part of a transaction, and a call whose transaction SQLite has rolled back by
  itself is never taken for committed; nested callbacks are committed with the callback
  that pushed them, callbacks run at most once and on the thread that passed them;
- every call of `transaction` returns;
- migrations run in the order of their ids without gaps, a build that returns has run all that the file
  did not record before, a recorded version was reached, migrations with ids up to 1 run at most once per file;
- `insert` returns its own row while no other thread changes the table, and no row that is older than the
  call whatever they do to it, provided that nobody inserts into another table of the database between the INSERT
  and the question for the last rowid;
- after a successful `update` at most one row contains the key;
- a committed batch has dealt with all its models, and the file holds models of no other batches, but for
  those SQLite has rolled back by itself;
- `remove_by` leaves no row that matches but those another thread inserted or changed meanwhile and those whose
  removal failed; it removes no row that does not match but those another thread inserted or changed, and
  rows whose key contains that of a row that matched (and on integer keys `find` returns the row with the key);
- a list that is read while the table changes holds no row twice, and each row that was there all
  the time (up to the limit);
- the constructor throws for a consistent declaration (which has a field, and a `Serial` only as the one key)
  at most because it misread names that were destroyed before they are compared, whatever the file holds; when it
  returns, every model has a table, and a table that was made for the same declaration fits `insert`;
- compounds are the join of the tables, in whichever order the models are named, when the
  tables have the columns of their classes; otherwise values do not reach the field of another model,
  unless fields are named alike;
- what `restrict` took out of a model is not shown and not written, through all copies and compounds, unless
  the value of a field is moved by itself, by `fill` or from field to field;
- tasks that are posted to a `Scope` start unless `stop()` is called; every `stop()` returns, save to a task that is the first to call it;
- an observer reads the value it was called with.

The models also hold what a reader of the interfaces may not expect; the properties state the
exact extent:

- After an exception the flag stays set: later calls queue their callback, run nothing and return
  as if they had (`SetFlagMeansException`, `LeftoversNeverRun`, `SuccessWithoutCommit`).
- A callback pushed by a deferred callback is dropped at the end of the
  transaction, or ends it with `bad_function_call` (`NestedSharesFate`).
- A statement outside of `transaction` that was acknowledged is lost if another thread's
  transaction was open and is rolled back (`AckedLostOnlyByOthers`).
- When a statement fails on which SQLite rolls back the transaction (a full disk), and the callback drops
  the error, as `remove_all` and the compound `update` do, the models that follow are committed one by one,
  COMMIT throws, and the caller is told of an error although a part of the batch is in the file (`AllOrNothing`,
  `KeptIsCommitted` name these operations as the exception).
- Every later `build` starts from version 1: migrations above 1 run again, the version in the
  file falls and rises; after an exception or crash between the insertion of the row and
  the end of migration 1, migration 1 is never executed (`build` takes the id of the row for the version; the
  properties neither ask for this nor forbid it).
- `insert` returns another thread's model if that thread inserts between its steps, or an older row, or fails,
  if that thread inserts into another table (`InsertReturnsOwn`, `InsertNeverOlder`, `FailedInsertExplained`).
- `update` on a text key gives the one row whose key contains it that key
  (`UpdateIdentifies`), and `find` may return a row with a longer key (run `find_text`).
- `remove_all` called by a callback reports success before it did anything, and may then run over a
  vector that no longer exists (`SuccessWithoutCommit`, `CommittedIsComplete`).
- `remove_by` removes rows that another thread has changed since, so that they no longer match, and
  with text keys the rows whose keys contain that of a row that matched (`RemovesOnlyMatching`).
- `last_by` with a condition returns the same row as `first_by` (`PicksInOrder` leaves it open); `load_all` ends after 100
  rows (`NothingMissed`).
- `load_all` of a compound of two models or more always throws (a join has no ROWID). An ignored
  field, or a table that an older release or a migration has altered, moves the columns of a compound:
  most often the walk meets a name that the class does not have and throws, as
  for the compound of the repository's own test whose class has an ignored field
  (`SelectAnswers`, `NeverCrossed`, `CompoundsAreTheJoin` say under which conditions it works).
- A `Serial` that is not the key is accepted beside one other key, and is the primary key of the table
  instead of the declared one, although the exception of `create_ddl` says "Serial must be the unique
  primary key": only the number of keys is compared (`SqliteDatabase.hpp:286`). An existing table is never altered,
  so that declaration and table differ until a migration alters it (`InsertFits` speaks of equal declarations only).
- `Primary`, `Foreign` and `DataClass` look for duplicates among views of strings that are already destroyed: with
  two names or more a good declaration may be refused, and a duplicate may pass (`NoFailureIfConsistent`).
- Assigning an empty optional leaves the old value; `fill` and the assignment of a field move a mark
  of a restricted model into a valid one, which is written (`NothingHiddenWritten` excuses these fields); a compound with a
  restricted part that is updated throws `invalid_argument`, which `update` does not catch, and
  leaves the flag of the transaction set.
- When a task, or another thread that is still waiting, was the first to call `stop()`, the destructor finds the guard
  reset and returns while workers run; in the second case the joining thread goes on with a
  destroyed object unless the application waits for it (`NoWorkerSurvives`). `stop()` drops tasks that wait.
- An observer that notifies the state that called it blocks itself and all later notifications
  (`OnlyReentryBlocks`); `get()` from another thread may read a half-stored value.

## 5. Proofs

Every safety property of a run, invariant or action property, is a theorem for all values
of the constants. `PROJECT.json` lists the theorems with the properties they are about.

The assumptions are the ASSUMEs of the modules. The sets of threads, operations,
processes, keys, values, tasks need not be finite; the rowids of `Scans` and the ids of
`Joins` are (a table is). What is assumed about the constants is:

- model values differ from each other and from the values they stand beside (`NoTable` is not a table,
  the marks of `restrict` are not values); bounds are naturals; `Faults` names known faults;
- `Like` is reflexive, and the identity if the key is the rowid;
- migrations' ids are integers, rowids are positive;
- a declaration has lists of fields, keys and references, with Boolean flags. In `Joins` neither two fields
  nor two keys have the same name (the constructors of `DataClass` and `Primary` mean to throw otherwise), the
  parts of a compound are different models, and a table has at least one column and no two of a name,
  as in SQLite; in `Restriction` fields of one class have different names.

Each proof module defines an inductive invariant as a conjunction of named parts (`IInv`;
`BInv` and `JoinInv` for the second specification of a module), proves that the initial states
satisfy it, one lemma per action or group of alike actions that they keep it, and the theorems from
there.

- `TransactionsProofs`. The properties speak of status and file; to be inductive they need who
  holds the mutex (`MutexInv`), which locals of the one call inside are meaningful
  (`FrameInv`), which operation each thread is in (`CallInv`), that the part of the vector the
  `for_each` is past has run and the rest has not (`StartInv`, `FamilyInv`: this is what makes
  "at most once" and "shares the fate" inductive), which data is pending (`DataInv`), and that a call which
  goes on without a SQLite transaction, and all it has run, is torn (`TornInv`), so that it can only throw. The
  refinement theorem maps each action to a step of `UnitOfWork` or a stutter.
  For batches, `BatchSpec => Spec`, step by step, so that all this is available; on top of it
  `FileInv` (what the connection and the file hold of the models), `LoopInv` (how far the
  loops over the models are) and `AnswerInv` (what callers were told, and that a callback pushed
  from outside of any callback meets a wedged object).
- `MigrationsProofs`. `NumberInv` gives each build its own number; `RowInv` says that
  migrations up to 1 belong to the build that inserted the row, and there is one; `LoopInv` that all
  ids between the start and the version have finished, and `RanAllInv` that a build which returned has
  finished all above its start; `RecordInv` links the
  row to its writer, and to a build that is alone.
- `RowsProofs`. `TableInv`: rowid, key and number each identify a row; `CallInv`: what the place
  of a thread tells about its call; `YoungInv` follows the rowid from the connection to the
  model, unless another table's insert moved it; `OwnInv` says that the row stays while nobody else changes
  the table; `RemoveInv` that what matches is left to remove or set aside; `FindInv` that with integer keys LIKE
  plays no part. Beside it, `OnlyInv` says that each model `remove_by` still has to remove
  matches, and is the only row with its key; the action property `RemovesOnlyMatching` follows from both.
- `ScansProofs`. `ScanInv`: the cursor of a call that is stepping is the last row it has read,
  the rows read rise up to it, and each row behind it that stayed and matches has been read;
  `HistoryInv` bounds the table from both sides, by what stayed and what was seen. That a step reads the
  next row, so that none is left out between two cursors, rests on a set of numbers having a least
  element (`MinIsLeast`).
- `TablesProofs`, `Schema`. That a table fits its declaration is not inductive, since the release that
  runs may be another one than the release that made the table; `IInv` says that a table is that of the
  declaration of the release that made it. `ConsistentDdl`: `create_ddl` has no reason
  to throw for a consistent declaration. That the list of columns in the table, and the list `insert`
  writes, are of the same fields needs what `ForEach` computes, a recursive function on lists: it is
  shown to be defined, and to call for each element once, by taking the least length for which it is not
  (`ForEachIsDefined`, `ForEachCalls`), since the induction theorems of the library cannot be used.
- `TablesProofs`, `Joins`. The invariant `JoinInv` is short: the answer is one that the rows and the
  columns allow (`ItemsInv`), and no exception without a reason (`SelectInv`). The rest is about lists, again by
  least counterexample. `FirstIsPlaced`: where the columns of a part begin in
  the selected list, and no column is of two parts. `AlignedTaken`: if the tables have the columns of their
  classes, the places that a part takes are those of its own columns, because the parts before it
  take as many as they have; so `Whole`. `JoinedIsMeeting`: the ON conditions say of two rows what the
  references say, in whichever order the models are named. `AndIsBetween`: the counter of
  `for_each_where` writes AND before every condition but the first, also when models without
  references stand between. `KeptIsLimited`: a limited answer has `Limit` rows, or all.
  `NeverCrossed` follows from `FilledFrom`: a field is filled from a column of its name.
- `RestrictionProofs`. `HiddenInv`: a valid model has a mark of `restrict` only in fields that were
  given the value of a field of a restricted one; `LevelInv`: the level of a restricted model, which goes with it through all copies, tells
  which fields show no value, unless written since; `PartsInv`: the parts of a restricted
  compound are restricted, but for those that were set since.
- `ScopeProofs`. `JoinInv`: a caller that reset the guard is on its way to `join_all()`, or the
  workers have ended; `EndedInv`: a worker that ended is in no task and not on the strand.
  Hence an owner that found the guard reset found it reset by a task, by a call that has joined, or by one
  that still waits.
- `StateProofs`. `MutexInv`: a thread is past the lock iff it owns the mutex; `DataInv`: so the
  value it stored is still there when its observer asks for it.

Proved and in no run: the type invariants; `RunsOnCaller` (a callback runs on the thread that
passed it); `FindOnIntegers` (`KeyIsRowid /\ Spec => []FindUsesKey`); `OneAtATime` (at most one
thread is past the lock of `notify`); `ReentryIsFinal` (a thread whose observer notified its
own state keeps the mutex for ever, which is the one exception of `OnlyReentryBlocks`);
`EndedIsQuiet` (when all workers have ended, no task runs and none is in `stop()`).

Only model-checked: liveness (`CallsReturn`, `AcceptedIsCommitted`, `PostedStarts`,
`StopReturns`, `OnlyReentryBlocks`), which needs fairness and ENABLED; and that `find` may return
another row (run `find_text`), which is a counterexample and not a theorem.

## 6. Modelled from outside

SQLite as far as the code relies on it: a statement is atomic and joins the open
transaction, BEGIN does not nest, ROLLBACK and crashes discard what was not committed, an error on a full disk, of the disk, of the memory or of a busy file may roll back the whole transaction, a new rowid is one more than
the largest, the last rowid belongs to the connection, an INTEGER PRIMARY KEY of one column is the rowid, the primary key is unique, a
statement may find the file busy. A SELECT that is being stepped on a connection
sees the changes made through this connection, ahead of its cursor; an ORDER BY on a column is sorted
before the first row. CREATE TABLE is atomic, and IF NOT EXISTS leaves a table alone after
its text has been read. An unknown or ambiguous column is an error. Foreign keys are not enforced
(the pragma is never set).

Boost: a strand runs its tasks one at a time in the order they were posted; `io_context::stop`
lets the worker that is in the strand go on with it; without a work guard an idle `io_context` stops by itself;
an interrupted thread ends at its next interruption point; joining oneself throws. `std::mutex` is
not recursive.

The compound repository gets the repositories of its parts
from the application's container (`jinject`); `Batches` takes them to share one database object.

A model is constructed wherever one is read or written, and its constructor may misread its names as that of
`Schema` may. Outside of `Schema` it is taken not to: a program whose models cannot be constructed has no
database object.

## 7. Not modelled

- Text of statements and escaping; a text that equals the name of a column (`UPDATE` reads
  `"name"` as the column): no code or comment says what it should do. Null keys; fields left
  unset in `Rows`.
- Conditions on several fields: `for_each_where` is only ever instantiated with one, and writes
  them without AND.
- `save_all`, `upsave`, compound `update_all`, `drop_ddl`, `VolatileState`, `CombineState`: they cannot be
  instantiated (return types that do not fit, a const member calling a non-const one, wrong number of
  template arguments, missing members).
- Comparison, conversion (`get_int`, ...) and printing of values, `to()` and `from()`, Format: pure,
  or functions of the application. This is most of `DataClass.hpp` that the map leaves out.
- The application itself; third-party code.

## 8. Plan

1. Done: all modules of section 2, model-checked.
2. Done: the safety properties of all runs, and the refinements `UnitOfWork` and `Batches`, proved.
3. Left: theorems beyond the properties of the runs, where a caller relies on more than one of them. For
   `Transactions`: what a caller may conclude from the return of a call when there has been no exception before.
   For `Migrations`: two releases in a row execute each migration up to 1 once. For `Restriction`: `restrict` of a
   lower level after a higher one hides what both hide.
