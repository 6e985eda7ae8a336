---------------------------- MODULE Transactions ----------------------------
(***************************************************************************)
(* SqliteDatabase::transaction and query_string as they are used by        *)
(* several threads that share one SqliteDatabase object, hence one SQLite  *)
(* connection.                                                             *)
(*                                                                         *)
(* transaction(callback) takes a recursive mutex, then exchanges a flag.   *)
(* The call that finds the flag clear opens a SQLite transaction, runs its *)
(* callback, runs the callbacks that were pushed meanwhile, commits and    *)
(* clears the flag.  A call that finds the flag set pushes its callback on *)
(* a vector and returns at once.  An exception leaves through the          *)
(* destructors of the SQLite transaction (ROLLBACK) and of the lock guard, *)
(* and nothing clears the flag or the vector.                              *)
(*                                                                         *)
(* An operation (a member of Ops) is one thing the application does once:  *)
(* one call of transaction, or one statement issued outside of any         *)
(* callback.  Its effect on the data is the operation itself: durable and  *)
(* working are sets of operations whose statement was executed.            *)
(*                                                                         *)
(* Some errors of a statement (a full disk, an error of the disk, no       *)
(* memory, a busy file) make SQLite roll back the whole SQLite transaction *)
(* by itself.  Nothing in the code asks whether the transaction is still   *)
(* open: a callback that catches such an error goes on, each further       *)
(* statement is committed at once, and COMMIT fails.                       *)
(***************************************************************************)
EXTENDS Naturals, Sequences, FiniteSets

CONSTANTS
  Threads,    (* the threads that share the database object                *)
  Ops,        (* the operations of the application                         *)
  NoThread,   (* owner of the mutex when it is free                        *)
  NoOp,       (* "no operation"                                            *)
  Faults,     (* which steps may fail: a subset of FaultKinds              *)
  Late        (* whether a deferred callback may itself call transaction   *)

FaultKinds == {"begin", "callback", "commit", "rollback", "crash"}

ASSUME ConstantsAssumption ==
  /\ NoThread \notin Threads
  /\ NoOp \notin Ops
  /\ Faults \subseteq FaultKinds
  /\ Late \in BOOLEAN

VARIABLES
  (* members of SqliteDatabase *)
  owner,      (* thread that holds mTransactionMutex, or NoThread          *)
  locked,     (* mTransactionLock                                          *)
  queue,      (* mTransactionCallbacks                                     *)
  capacity,   (* mTransactionCallbacks.capacity()                          *)
  (* the threads, and the locals of the call that set the flag *)
  pc,         (* pc[t]: where thread t is                                  *)
  op,         (* op[t]: the operation whose call or callback t is in       *)
  outer,      (* the operation whose call opened the SQLite transaction    *)
  cursor,     (* number of pushed callbacks the for_each is past           *)
  stop,       (* length of the vector when the for_each began              *)
  stale,      (* the vector was reallocated under the for_each             *)
  (* the SQLite connection and the file *)
  inTx,       (* between BEGIN and COMMIT or ROLLBACK                      *)
  working,    (* the data the connection sees                              *)
  durable,    (* the data in the file                                      *)
  (* history *)
  status,     (* status[o]: what became of operation o                     *)
  caller,     (* caller[o]: the thread that issued o                       *)
  parent,     (* parent[o]: the callback that o was issued from, or NoOp   *)
  runs,       (* runs[o]: how often the callback of o was started          *)
  wrote,      (* the operations whose statement succeeded                  *)
  torn,       (* the operations that were running when SQLite rolled their *)
              (* transaction back, or that were started after that         *)
  caught      (* caught[o]: the call whose SQLite transaction was open when*)
              (* the statement o outside of any callback was executed      *)

memory == <<owner, locked, queue, capacity>>
frame == <<outer, cursor, stop, stale>>
connection == <<inTx, working, durable>>
issue == <<caller, parent>>
trace == <<torn, caught>>
vars == <<owner, locked, queue, capacity, pc, op, outer, cursor, stop, stale,
          inTx, working, durable, status, caller, parent, runs, wrote, torn,
          caught>>

Places == {"idle", "lock", "begin", "callback", "drain", "deferred"}

Statuses == {"new", "waiting", "queued", "running", "ran",
             "committed", "aborted", "dropped", "lost", "acked"}

InCallback(t) == pc[t] \in {"callback", "deferred"}
InSqliteTransaction(t) == pc[t] \in {"callback", "drain", "deferred"}
InFrame(t) == pc[t] = "begin" \/ InSqliteTransaction(t)
Unfinished(o) == status[o] \in {"running", "ran"}

-----------------------------------------------------------------------------
Init ==
  /\ owner = NoThread /\ locked = FALSE /\ queue = <<>> /\ capacity = 0
  /\ pc = [t \in Threads |-> "idle"]
  /\ op = [t \in Threads |-> NoOp]
  /\ outer = NoOp /\ cursor = 0 /\ stop = 0 /\ stale = FALSE
  /\ inTx = FALSE /\ working = {} /\ durable = {}
  /\ status = [o \in Ops |-> "new"]
  /\ caller = [o \in Ops |-> NoThread]
  /\ parent = [o \in Ops |-> NoOp]
  /\ runs = [o \in Ops |-> 0]
  /\ wrote = {}
  /\ torn = {} /\ caught = [o \in Ops |-> NoOp]

(***************************************************************************)
(* Pieces of transaction().  A definition named Wrong... is a deliberate   *)
(* mistake in the definition that follows it; no action uses it, it is     *)
(* there to show which property notices the mistake.                       *)
(***************************************************************************)
(* The lock guard can be constructed: the mutex is recursive.              *)
MutexFree(t) == owner \in {NoThread, t}

(* push_back: a full vector moves to storage of twice the size.            *)
PushBack(o) ==
  /\ queue' = Append(queue, o)
  /\ capacity' = IF Len(queue) < capacity THEN capacity
                 ELSE IF capacity = 0 THEN 1 ELSE 2 * capacity

WrongLengthToDrain == Len(queue) - 1

(* How far for_each will go: it takes begin() and end() once.              *)
LengthToDrain == Len(queue)

WrongQueueAfterCommit == queue

QueueAfterCommit == <<>>

WrongLockedAfterCommit == TRUE

LockedAfterCommit == FALSE

WrongLockedAfterException == FALSE

(* No statement on the way out writes the flag.                            *)
LockedAfterException == locked

WrongOwnerAfterException == owner

(* The lock guard is destroyed on the way out.                             *)
OwnerAfterException == NoThread

(***************************************************************************)
(* The connection.                                                         *)
(***************************************************************************)
WrongExecute(o) ==
  /\ working' = working \cup {o}
  /\ durable' = durable \cup {o}
  /\ UNCHANGED inTx

(* A statement joins whatever SQLite transaction is open on the            *)
(* connection, whichever thread opened it; without one it is committed     *)
(* at once.                                                                *)
Execute(o) ==
  /\ working' = working \cup {o}
  /\ durable' = IF inTx THEN durable ELSE durable \cup {o}
  /\ UNCHANGED inTx

(* The destructor of the SQLite transaction executes ROLLBACK.             *)
WorkingAfterException == durable

WrongDurableAfterCommit == durable

(* commit() executes COMMIT.                                               *)
DurableAfterCommit == working

-----------------------------------------------------------------------------
(* A thread that is in no callback calls transaction(callback of o).       *)
Call(t, o) ==
  /\ pc[t] = "idle" /\ status[o] = "new"
  /\ pc' = [pc EXCEPT ![t] = "lock"]
  /\ op' = [op EXCEPT ![t] = o]
  /\ status' = [status EXCEPT ![o] = "waiting"]
  /\ caller' = [caller EXCEPT ![o] = t]
  /\ UNCHANGED <<memory, frame, connection, parent, runs, wrote, trace>>

(* It takes the mutex and finds the flag clear.                            *)
EnterFirst(t) ==
  /\ pc[t] = "lock" /\ MutexFree(t) /\ ~locked
  /\ owner' = t
  /\ locked' = TRUE
  /\ pc' = [pc EXCEPT ![t] = "begin"]
  /\ outer' = op[t]
  /\ UNCHANGED <<queue, capacity, op, cursor, stop, stale, connection, status,
                 issue, runs, wrote, trace>>

(* It takes the mutex, finds the flag set, pushes and returns: the mutex   *)
(* is released by the same step.                                           *)
EnterDeferred(t) ==
  /\ pc[t] = "lock" /\ MutexFree(t) /\ locked
  /\ PushBack(op[t])
  /\ status' = [status EXCEPT ![op[t]] = "queued"]
  /\ pc' = [pc EXCEPT ![t] = "idle"]
  /\ op' = [op EXCEPT ![t] = NoOp]
  /\ UNCHANGED <<owner, locked, frame, connection, issue, runs, wrote, trace>>

(* The call ends with an exception: ROLLBACK, then the mutex is released.  *)
Unwind(t) ==
  /\ inTx' = FALSE /\ working' = WorkingAfterException /\ UNCHANGED durable
  /\ owner' = OwnerAfterException /\ locked' = LockedAfterException
  /\ UNCHANGED <<queue, capacity>>
  /\ pc' = [pc EXCEPT ![t] = "idle"]
  /\ op' = [op EXCEPT ![t] = NoOp]
  /\ outer' = NoOp /\ cursor' = 0 /\ stop' = 0 /\ stale' = FALSE
  /\ status' = [o \in Ops |-> IF o = outer \/ status[o] \in {"running", "ran"}
                              THEN "aborted" ELSE status[o]]
  /\ UNCHANGED <<issue, runs, wrote, trace>>

(* BEGIN, and the callback is invoked.                                     *)
Begin(t) ==
  /\ pc[t] = "begin" /\ ~inTx
  /\ inTx' = TRUE /\ UNCHANGED <<working, durable>>
  /\ pc' = [pc EXCEPT ![t] = "callback"]
  /\ status' = [status EXCEPT ![op[t]] = "running"]
  /\ runs' = [runs EXCEPT ![op[t]] = @ + 1]
  /\ UNCHANGED <<memory, op, frame, issue, wrote, trace>>

(* BEGIN throws: SQLite refuses to nest it, or reports an error.           *)
BeginThrows(t) ==
  /\ pc[t] = "begin"
  /\ inTx \/ "begin" \in Faults
  /\ Unwind(t)

(* The running callback executes its statement.                            *)
Write(t) ==
  /\ InCallback(t) /\ op[t] \notin wrote
  /\ Execute(op[t])
  /\ wrote' = wrote \cup {op[t]}
  /\ UNCHANGED <<memory, pc, op, frame, status, issue, runs, trace>>

(* The running callback calls transaction(callback of o): the mutex is     *)
(* recursive, the flag is set by this very thread, so the call pushes and  *)
(* returns.  If the for_each is under way and the vector has to grow, the  *)
(* for_each is left with iterators into freed storage.                     *)
Nest(t, o) ==
  /\ InCallback(t) /\ status[o] = "new"
  /\ pc[t] = "deferred" => Late
  /\ locked
  /\ PushBack(o)
  /\ stale' = (stale \/ (pc[t] = "deferred" /\ Len(queue) = capacity))
  /\ status' = [status EXCEPT ![o] = "queued"]
  /\ caller' = [caller EXCEPT ![o] = t]
  /\ parent' = [parent EXCEPT ![o] = op[t]]
  /\ UNCHANGED <<owner, locked, pc, op, outer, cursor, stop, connection, runs,
                 wrote, trace>>

(* A callback (or a statement of it that is not caught) throws.            *)
CallbackThrows(t) ==
  /\ InCallback(t)
  /\ "callback" \in Faults
  /\ Unwind(t)

(* The first callback returns: for_each takes begin() and end() once.      *)
CallbackReturns(t) ==
  /\ pc[t] = "callback"
  /\ pc' = [pc EXCEPT ![t] = "drain"]
  /\ cursor' = 0 /\ stop' = LengthToDrain
  /\ UNCHANGED <<memory, op, outer, stale, connection, status, issue, runs,
                 wrote, trace>>

(* for_each invokes the next pushed callback, whether the SQLite           *)
(* transaction is still open or not.                                       *)
RunDeferred(t) ==
  /\ pc[t] = "drain" /\ cursor < stop /\ ~stale
  /\ pc' = [pc EXCEPT ![t] = "deferred"]
  /\ op' = [op EXCEPT ![t] = queue[cursor + 1]]
  /\ status' = [status EXCEPT ![queue[cursor + 1]] = "running"]
  /\ runs' = [runs EXCEPT ![queue[cursor + 1]] = @ + 1]
  /\ torn' = IF inTx THEN torn ELSE torn \cup {queue[cursor + 1]}
  /\ UNCHANGED <<memory, frame, connection, issue, wrote, caught>>

DeferredReturns(t) ==
  /\ pc[t] = "deferred"
  /\ pc' = [pc EXCEPT ![t] = "drain"]
  /\ op' = [op EXCEPT ![t] = outer]
  /\ cursor' = cursor + 1
  /\ status' = [status EXCEPT ![op[t]] = "ran"]
  /\ UNCHANGED <<memory, outer, stop, stale, connection, issue, runs, wrote,
                 trace>>

(* for_each reads a function object in freed storage.  The move into the   *)
(* new storage left it empty, so calling it throws bad_function_call; when *)
(* the storage has been reused the process dies (Crash).                   *)
RunStale(t) ==
  /\ pc[t] = "drain" /\ cursor < stop /\ stale
  /\ Unwind(t)

(* COMMIT, then the vector and the flag are cleared and the mutex released.*)
Commit(t) ==
  /\ pc[t] = "drain" /\ cursor >= stop /\ inTx
  /\ inTx' = FALSE /\ durable' = DurableAfterCommit /\ working' = DurableAfterCommit
  /\ owner' = NoThread /\ locked' = LockedAfterCommit
  /\ queue' = QueueAfterCommit /\ UNCHANGED capacity
  /\ pc' = [pc EXCEPT ![t] = "idle"]
  /\ op' = [op EXCEPT ![t] = NoOp]
  /\ outer' = NoOp /\ cursor' = 0 /\ stop' = 0 /\ stale' = FALSE
  /\ status' = [o \in Ops |->
                  IF o = outer \/ status[o] = "ran" THEN "committed"
                  ELSE IF status[o] = "queued" THEN "dropped" ELSE status[o]]
  /\ UNCHANGED <<issue, runs, wrote, trace>>

(* COMMIT throws: the file is busy or broken, or SQLite has rolled the     *)
(* transaction back long ago.                                              *)
CommitThrows(t) ==
  /\ pc[t] = "drain" /\ cursor >= stop
  /\ ~inTx \/ "commit" \in Faults
  /\ Unwind(t)

(* A thread that is in no transaction issues one statement (insert, update *)
(* or remove without a transaction) and is told that it succeeded.         *)
Statement(t, o) ==
  /\ pc[t] = "idle" /\ status[o] = "new"
  /\ Execute(o)
  /\ wrote' = wrote \cup {o}
  /\ status' = [status EXCEPT ![o] = "acked"]
  /\ caller' = [caller EXCEPT ![o] = t]
  /\ caught' = [caught EXCEPT ![o] = IF inTx THEN outer ELSE NoOp]
  /\ UNCHANGED <<memory, pc, op, frame, parent, runs, torn>>

(* SQLite rolls the open transaction back because a statement of thread t  *)
(* failed -- a statement of the callback, whose error is caught there, or  *)
(* one of a thread that is in no call.  The call that opened the           *)
(* transaction is told nothing.                                            *)
RollsBack(t) ==
  /\ "rollback" \in Faults
  /\ inTx /\ (InCallback(t) \/ pc[t] = "idle")
  /\ inTx' = FALSE /\ working' = durable /\ UNCHANGED durable
  /\ torn' = torn \cup {o \in Ops : Unfinished(o)}
  /\ UNCHANGED <<memory, pc, op, frame, status, issue, runs, wrote, caught>>

(* The process dies and is started again: SQLite discards what was not     *)
(* committed, the new object starts with an empty vector and a clear flag. *)
Crash ==
  /\ \/ "crash" \in Faults
     \/ stale /\ \E t \in Threads : pc[t] = "drain" /\ cursor < stop
  /\ owner' = NoThread /\ locked' = FALSE /\ queue' = <<>> /\ capacity' = 0
  /\ pc' = [t \in Threads |-> "idle"]
  /\ op' = [t \in Threads |-> NoOp]
  /\ outer' = NoOp /\ cursor' = 0 /\ stop' = 0 /\ stale' = FALSE
  /\ inTx' = FALSE /\ working' = durable /\ UNCHANGED durable
  /\ status' = [o \in Ops |->
                  IF status[o] \in {"waiting", "queued", "running", "ran"}
                  THEN "lost" ELSE status[o]]
  /\ UNCHANGED <<issue, runs, wrote, trace>>

-----------------------------------------------------------------------------
(* The steps a thread takes by itself once it is inside transaction().     *)
Advance(t) ==
  \/ EnterFirst(t) \/ EnterDeferred(t)
  \/ Begin(t) \/ BeginThrows(t)
  \/ CallbackThrows(t) \/ CallbackReturns(t)
  \/ RunDeferred(t) \/ DeferredReturns(t) \/ RunStale(t)
  \/ Commit(t) \/ CommitThrows(t)

Next ==
  \/ \E t \in Threads : Advance(t) \/ Write(t) \/ RollsBack(t)
  \/ \E t \in Threads, o \in Ops : Call(t, o) \/ Nest(t, o) \/ Statement(t, o)
  \/ Crash

Spec == Init /\ [][Next]_vars

(* Threads are scheduled, callbacks end: a thread inside transaction()     *)
(* that can go on does go on.  Nothing makes the application call, write   *)
(* or nest, and nothing makes a process crash.                             *)
FairSpec == Spec /\ \A t \in Threads : WF_vars(Advance(t))

-----------------------------------------------------------------------------
TypeOK ==
  /\ owner \in Threads \cup {NoThread}
  /\ locked \in BOOLEAN
  /\ queue \in Seq(Ops)
  /\ capacity \in Nat
  /\ pc \in [Threads -> Places]
  /\ op \in [Threads -> Ops \cup {NoOp}]
  /\ outer \in Ops \cup {NoOp}
  /\ cursor \in Nat /\ stop \in Nat /\ stale \in BOOLEAN
  /\ inTx \in BOOLEAN
  /\ working \subseteq Ops /\ durable \subseteq Ops
  /\ status \in [Ops -> Statuses]
  /\ caller \in [Ops -> Threads \cup {NoThread}]
  /\ parent \in [Ops -> Ops \cup {NoOp}]
  /\ runs \in [Ops -> Nat]
  /\ wrote \subseteq Ops /\ torn \subseteq Ops
  /\ caught \in [Ops -> Ops \cup {NoOp}]

(***************************************************************************)
(* All or nothing.  The file never holds the effect of a callback whose    *)
(* transaction is still open, was rolled back, was dropped or died, and it *)
(* holds every effect of a callback whose transaction was committed: the   *)
(* code never takes a transaction that SQLite has rolled back by itself    *)
(* for committed.  What such a callback writes after that is the only      *)
(* exception.  transaction(), SqliteDatabase.hpp:57-67.                    *)
(***************************************************************************)
AllOrNothing ==
  /\ \A o \in durable : status[o] \in {"committed", "acked"} \/ o \in torn
  /\ \A o \in wrote : status[o] = "committed" => o \in durable

(***************************************************************************)
(* A callback pushed from inside a callback shares the fate of the         *)
(* transaction it was pushed in: it is committed only together with the    *)
(* callback that pushed it, and once that one is committed it has been     *)
(* committed too -- or was dropped, which happens only to callbacks pushed *)
(* while the vector was being walked.  SqliteDatabase.hpp:51-69.           *)
(***************************************************************************)
PushedLate(o) == parent[o] # NoOp /\ parent[parent[o]] # NoOp

NestedSharesFate ==
  \A o \in Ops : parent[o] # NoOp =>
    /\ status[o] = "committed" => status[parent[o]] = "committed"
    /\ status[parent[o]] = "committed" =>
         status[o] = "committed" \/ (status[o] = "dropped" /\ PushedLate(o))

(***************************************************************************)
(* A thread that finds another one inside a transaction waits for it: its  *)
(* callback is never handed over to be run by the other thread inside the  *)
(* other one's transaction.  The vector is for the calls of the thread     *)
(* that owns the transaction.  SqliteDatabase.hpp:49-55.                   *)
(***************************************************************************)
RunsOnCaller ==
  \A t \in Threads : pc[t] # "idle" => caller[op[t]] = t

(***************************************************************************)
(* No callback is started twice, whatever is left in the vector.           *)
(* SqliteDatabase.hpp:59-69.                                               *)
(***************************************************************************)
RunAtMostOnce == \A o \in Ops : runs[o] <= 1

(***************************************************************************)
(* The flag outlives a call only after an exception: while no transaction  *)
(* was aborted, a free mutex means that the next call will run its         *)
(* callback, and a SQLite transaction is open only inside a call.          *)
(* SqliteDatabase.hpp:49-71.                                               *)
(***************************************************************************)
SetFlagMeansException ==
  /\ owner = NoThread /\ locked => \E o \in Ops : status[o] = "aborted"
  /\ inTx => owner # NoThread /\ locked

(***************************************************************************)
(* A statement issued outside of transaction() that was reported as done   *)
(* is missing from the file only because of the one call whose SQLite      *)
(* transaction it was caught in: that call is still open, or it was rolled *)
(* back or died with the process -- never because of another call, and not *)
(* when its call has committed.  query_string, SqliteDatabase.hpp:74-121   *)
(* takes no lock.                                                          *)
(***************************************************************************)
AckedLostOnlyByOthers ==
  \A o \in Ops : status[o] = "acked" /\ o \notin durable =>
    /\ caught[o] \in Ops
    /\ status[caught[o]] \in {"running", "aborted", "lost"}

(***************************************************************************)
(* What a rolled back transaction leaves in the vector is never run by a   *)
(* later call: the exception leaves the vector full, but it leaves the     *)
(* flag set as well.  SqliteDatabase.hpp:51-55 and 67-71.                  *)
(***************************************************************************)
Leftover(o) ==
  status[o] = "queued" /\ parent[o] # NoOp /\ status[parent[o]] = "aborted"

LeftoversNeverRun == [][\A o \in Ops : Leftover(o) => runs'[o] = runs[o]]_vars

(***************************************************************************)
(* A call of transaction() always comes back to its caller.                *)
(***************************************************************************)
CallsReturn == \A t \in Threads : pc[t] = "lock" ~> pc[t] = "idle"

(***************************************************************************)
(* As long as no call throws, every callback that transaction() accepted   *)
(* is committed, although nested calls return before their callback has    *)
(* run, unless it was pushed by a deferred callback.  After an exception   *)
(* callbacks may be accepted that never run.  SqliteDatabase.hpp:48-71.    *)
(***************************************************************************)
AcceptedIsCommitted ==
  \A o \in Ops : status[o] \in {"waiting", "queued"} ~>
    \/ status[o] = "committed"
    \/ status[o] = "dropped" /\ PushedLate(o)
    \/ \E p \in Ops : status[p] \in {"aborted", "lost"}

(***************************************************************************)
(* What a caller may rely on (module UnitOfWork): the outcome of calls and *)
(* the content of the file change together.                                *)
(***************************************************************************)
Outcome(o) ==
  CASE status[o] = "new" -> "none"
    [] status[o] \in {"waiting", "queued", "running", "ran"} -> "pending"
    [] status[o] = "committed" -> "done"
    [] status[o] \in {"aborted", "dropped", "lost"} -> "failed"
    [] status[o] = "acked" -> "acked"

Promise == INSTANCE UnitOfWork
             WITH store <- durable, outcome <- [o \in Ops |-> Outcome(o)],
                  torn <- torn

PromiseKept == Promise!Spec
=============================================================================
