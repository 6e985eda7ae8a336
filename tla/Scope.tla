------------------------------- MODULE Scope -------------------------------
(***************************************************************************)
(* jdb::Scope (utils/Scope.hpp): worker threads that run one io_context,   *)
(* tasks posted to one strand of it, and stop(), which outside threads,    *)
(* tasks and the destructor call.                                          *)
(*                                                                         *)
(* Boost is external.  A strand starts its tasks one at a time, in the     *)
(* order they were posted; the worker that holds the strand may go on with *)
(* it after io_context::stop(), no other worker takes it then.  A task     *)
(* ends by returning, by an exception, which ends the process, or at an    *)
(* interruption point once its thread has been interrupted, which ends the *)
(* thread alone.  After the destructor the state no longer changes: a      *)
(* worker still alive then, or a caller in stop(), uses destroyed members. *)
(***************************************************************************)
EXTENDS Naturals, Sequences, SequencesExt

CONSTANTS
  Workers,   (* threads created by the constructor                         *)
  Callers,   (* other threads that use the scope                           *)
  Owner,     (* the caller that destroys it                                *)
  Tasks,     (* each is posted at most once                                *)
  NoWorker,
  NoTask

ASSUME ScopeAssumption ==
  /\ Owner \in Callers
  /\ Workers \cap Callers = {}
  /\ NoWorker \notin Workers
  /\ NoTask \notin Tasks

VARIABLES
  guard,       (* mWorkGuard.owns_work()                                   *)
  halted,      (* io_context::stop() has been called, or it ran out of work *)
  interrupted, (* workers whose interruption has been requested            *)
  holder,      (* the worker that runs the strand                          *)
  queue,       (* tasks of the strand that have not started                *)
  task,        (* task[w]: what w is running                               *)
  worker,      (* worker[w]: in run() or ended                             *)
  stop,        (* stop[p]: where p is in stop()                            *)
  scope,       (* the object's life                                        *)
  terminated,  (* an exception left a thread                               *)
  posted,      (* history: the tasks that were posted                      *)
  resetBy      (* history: threads whose stop() reset the guard            *)

calls == <<guard, halted, interrupted, stop, resetBy>>
tasks == <<holder, queue, task, posted>>
vars == <<calls, tasks, worker, scope, terminated>>

Threads == Workers \cup Callers

WrongGuardAtStart == FALSE

GuardAtStart == TRUE

Init ==
  /\ guard = GuardAtStart /\ halted = FALSE
  /\ interrupted = {} /\ resetBy = {}
  /\ holder = NoWorker /\ queue = <<>>
  /\ task = [w \in Workers |-> NoTask]
  /\ worker = [w \in Workers |-> "run"]
  /\ stop = [p \in Threads |-> "out"]
  /\ scope = "alive" /\ terminated = FALSE
  /\ posted = {}

Running(w) == task[w] # NoTask
Usable == scope # "destroyed" /\ ~terminated

(* Code outside of the scope's members that is free to call them: a caller *)
(* while the object lives, the task that a worker is running.              *)
MayCall(p) ==
  /\ Usable /\ stop[p] = "out"
  /\ \/ p \in Callers /\ scope = "alive"
     \/ p \in Workers /\ Running(p)

-----------------------------------------------------------------------------
(* post() and post_ordered() are the same: both go through the strand.     *)
Post(p, t) ==
  /\ MayCall(p)
  /\ t \notin posted
  /\ queue' = Append(queue, t)
  /\ posted' = posted \cup {t}
  /\ UNCHANGED <<calls, holder, task, worker, scope, terminated>>

(* A worker in run() takes the next task of the strand.                    *)
MayTake(w) ==
  /\ worker[w] = "run" /\ ~Running(w) /\ queue # <<>>
  /\ ~halted \/ holder = w
  /\ holder \in {w, NoWorker}

TakeTask(w) ==
  /\ Usable /\ MayTake(w)
  /\ holder' = w
  /\ task' = [task EXCEPT ![w] = Head(queue)]
  /\ queue' = Tail(queue)
  /\ UNCHANGED <<calls, posted, worker, scope, terminated>>

FinishTask(w) ==
  /\ Usable /\ Running(w) /\ stop[w] = "out"
  /\ task' = [task EXCEPT ![w] = NoTask]
  /\ UNCHANGED <<calls, holder, queue, posted, worker, scope, terminated>>

LeaveStrand(w) ==
  /\ Usable /\ holder = w /\ ~Running(w)
  /\ holder' = NoWorker
  /\ UNCHANGED <<calls, queue, task, posted, worker, scope, terminated>>

(* The worker's function returns from run().                               *)
LeaveRun(w) ==
  /\ Usable /\ halted
  /\ worker[w] = "run" /\ ~Running(w) /\ holder # w
  /\ worker' = [worker EXCEPT ![w] = "ended"]
  /\ UNCHANGED <<calls, tasks, scope, terminated>>

(* thread_interrupted leaves the task, the strand and run().               *)
CutTask(w) ==
  /\ task' = [task EXCEPT ![w] = NoTask]
  /\ worker' = [worker EXCEPT ![w] = "ended"]
  /\ holder' = NoWorker
  /\ UNCHANGED <<guard, halted, resetBy, queue, posted, scope, terminated>>

Interruption(w) ==
  /\ Usable /\ Running(w) /\ stop[w] = "out"
  /\ w \in interrupted
  /\ interrupted' = interrupted \ {w}
  /\ CutTask(w)
  /\ UNCHANGED stop

(* Any other exception of a task reaches the thread's function.            *)
Terminate ==
  /\ terminated' = TRUE
  /\ UNCHANGED <<calls, tasks, worker, scope>>

TaskThrows(w) == Usable /\ Running(w) /\ stop[w] = "out" /\ Terminate

(* Without the guard an io_context that has nothing to do stops itself.    *)
RunOutOfWork ==
  /\ Usable /\ ~guard /\ ~halted
  /\ queue = <<>> /\ holder = NoWorker
  /\ halted' = TRUE
  /\ UNCHANGED <<guard, interrupted, stop, resetBy, tasks, worker, scope, terminated>>

-----------------------------------------------------------------------------
Goto(p, place) == stop' = [stop EXCEPT ![p] = place]

CallStop(p) ==
  /\ MayCall(p)
  /\ Goto(p, "check")
  /\ UNCHANGED <<guard, halted, interrupted, resetBy, tasks, worker, scope, terminated>>

(* Another thread may do the same before the guard is reset.               *)
OwnsWork(p) ==
  /\ Usable /\ stop[p] = "check"
  /\ Goto(p, IF guard THEN "owned" ELSE "done")
  /\ UNCHANGED <<guard, halted, interrupted, resetBy, tasks, worker, scope, terminated>>

ResetGuard(p) ==
  /\ Usable /\ stop[p] = "owned"
  /\ guard' = FALSE
  /\ resetBy' = resetBy \cup {p}
  /\ Goto(p, "reset")
  /\ UNCHANGED <<halted, interrupted, tasks, worker, scope, terminated>>

WrongHaltedAfterStop == halted

HaltedAfterStop == TRUE

(* mIoContext.stop() and mThreads.interrupt_all().                         *)
Halt(p) ==
  /\ Usable /\ stop[p] = "reset"
  /\ halted' = HaltedAfterStop
  /\ interrupted' = {w \in Workers : worker[w] = "run"}
  /\ Goto(p, "joining")
  /\ UNCHANGED <<guard, resetBy, tasks, worker, scope, terminated>>

WrongJoined == \E w \in Workers : worker[w] = "ended"

(* mThreads.join_all() gets past every thread.                             *)
Joined == \A w \in Workers : worker[w] = "ended"

JoinAll(c) ==
  /\ Usable /\ c \in Callers /\ stop[c] = "joining"
  /\ Joined
  /\ Goto(c, "done")
  /\ UNCHANGED <<guard, halted, interrupted, resetBy, tasks, worker, scope, terminated>>

(* A task that called stop() would join its own thread: joining is an      *)
(* interruption point, and the interruption has been requested; when it    *)
(* comes to itself first, thread_resource_error leaves the task.           *)
JoinOwnThread(w) ==
  /\ Usable /\ w \in Workers /\ stop[w] = "joining"
  /\ \/ /\ w \in interrupted
        /\ interrupted' = interrupted \ {w}
        /\ Goto(w, "out")
        /\ CutTask(w)
     \/ Terminate

ReturnFromStop(p) ==
  /\ Usable /\ stop[p] = "done"
  /\ Goto(p, "out")
  /\ scope' = IF p = Owner /\ scope = "destroying" THEN "destroyed" ELSE scope
  /\ UNCHANGED <<guard, halted, interrupted, resetBy, tasks, worker, terminated>>

(* ~Scope().  No other caller calls the scope any more, but one may still  *)
(* be in stop().                                                           *)
Destroy ==
  /\ Usable /\ scope = "alive"
  /\ stop[Owner] = "out"
  /\ scope' = "destroying"
  /\ Goto(Owner, "check")
  /\ UNCHANGED <<guard, halted, interrupted, resetBy, tasks, worker, terminated>>

(* The end of the scope or of the process.                                 *)
Over == ~Usable /\ UNCHANGED vars

StopStep(p) ==
  \/ OwnsWork(p) \/ ResetGuard(p) \/ Halt(p)
  \/ JoinAll(p) \/ JoinOwnThread(p) \/ ReturnFromStop(p)

WorkerStep(w) == TakeTask(w) \/ LeaveStrand(w) \/ LeaveRun(w)

Next ==
  \/ \E p \in Threads : CallStop(p) \/ StopStep(p) \/ \E t \in Tasks : Post(p, t)
  \/ \E w \in Workers : WorkerStep(w) \/ FinishTask(w) \/ Interruption(w) \/ TaskThrows(w)
  \/ RunOutOfWork \/ Destroy \/ Over

Spec == Init /\ [][Next]_vars

(* The scheduler runs every thread, and a task that has started ends,      *)
(* whatever it calls before.                                               *)
FairSpec ==
  /\ Spec
  /\ \A p \in Threads : WF_vars(StopStep(p))
  /\ \A w \in Workers : WF_vars(WorkerStep(w)) /\ SF_vars(FinishTask(w))

-----------------------------------------------------------------------------
AllEnded == \A w \in Workers : worker[w] = "ended"

(* When the object is gone no worker uses it any more, unless the          *)
(* destructor found the guard reset and waited for nobody, because tasks   *)
(* had called stop(), which cannot join the workers, or callers that are   *)
(* still waiting in theirs (Scope.hpp:24-26, 40-47).                       *)
NoWorkerSurvives ==
  scope = "destroyed" =>
    AllEnded \/ \A p \in resetBy : p \in Workers \/ stop[p] \in {"reset", "joining"}

(* A task that was posted is going to start unless stop() is called: the   *)
(* guard keeps idle workers in run() (Scope.hpp:16, 28-38).                *)
PostedStarts ==
  \A t \in Tasks :
    t \in ToSet(queue) ~> t \notin ToSet(queue) \/ resetBy # {} \/ ~Usable

(* stop() returns to whoever called it, save to the task that was the      *)
(* first to call it: this one is cut, with its thread or with the process. *)
StopReturns ==
  \A p \in Threads : stop[p] # "out" ~> stop[p] = "out" \/ ~Usable
=============================================================================
