---------------------------- MODULE ScopeProofs ----------------------------
(***************************************************************************)
(* Proofs of the safety of Scope, for any workers, callers and tasks.      *)
(***************************************************************************)
EXTENDS Scope, TLAPS

TypeOK ==
  /\ guard \in BOOLEAN /\ halted \in BOOLEAN
  /\ interrupted \subseteq Workers
  /\ holder \in Workers \cup {NoWorker}
  /\ queue \in Seq(Tasks) /\ posted \subseteq Tasks
  /\ task \in [Workers -> Tasks \cup {NoTask}]
  /\ worker \in [Workers -> {"run", "ended"}]
  /\ stop \in [Threads -> {"out", "check", "owned", "reset", "joining", "done"}]
  /\ scope \in {"alive", "destroying", "destroyed"}
  /\ terminated \in BOOLEAN
  /\ resetBy \subseteq Threads

(* A worker that ended is in no task, hence in no call, and not on the     *)
(* strand.                                                                 *)
EndedInv ==
  \A w \in Workers :
    /\ stop[w] # "out" => Running(w)
    /\ worker[w] = "ended" => ~Running(w) /\ holder # w

(* Who reset the guard from outside the workers waits for them, or has.    *)
JoinInv ==
  \A c \in resetBy \cap Callers : AllEnded \/ stop[c] \in {"reset", "joining"}

IInv == TypeOK /\ EndedInv /\ JoinInv

-----------------------------------------------------------------------------
LEMMA InitInv == Init => IInv
<1> SUFFICES ASSUME Init PROVE IInv
  OBVIOUS
<1> USE ScopeAssumption DEF Init
<1>1. TypeOK
  <2>1. queue \in Seq(Tasks)
    OBVIOUS
  <2> QED BY <2>1 DEF TypeOK, GuardAtStart, Threads
<1>2. EndedInv
  BY DEF EndedInv, Threads, Running
<1>3. JoinInv
  BY DEF JoinInv
<1> QED BY <1>1, <1>2, <1>3 DEF IInv

USE ScopeAssumption DEF IInv, calls, tasks, Threads, Usable, Running, Goto

(* Workers and the tasks of the strand: nobody resets the guard, and a     *)
(* worker that ended stays so.                                             *)
LEMMA PostKeeps ==
  ASSUME IInv, NEW p \in Threads, NEW t \in Tasks, Post(p, t)
  PROVE  IInv'
<1> USE DEF Post, MayCall
<1>1. TypeOK' /\ EndedInv'
  BY DEF TypeOK, EndedInv
<1>2. JoinInv'
  BY DEF JoinInv, AllEnded
<1> QED BY <1>1, <1>2

LEMMA WorkerStepKeeps ==
  ASSUME IInv, NEW w \in Workers, WorkerStep(w) \/ FinishTask(w)
  PROVE  IInv'
<1> USE DEF WorkerStep
<1>1. TypeOK'
  <2>1. CASE TakeTask(w)
    BY <2>1 DEF TypeOK, TakeTask, MayTake
  <2>2. CASE LeaveStrand(w) \/ LeaveRun(w) \/ FinishTask(w)
    BY <2>2 DEF TypeOK, LeaveStrand, LeaveRun, FinishTask
  <2> QED BY <2>1, <2>2
<1>2. EndedInv'
  BY DEF TypeOK, EndedInv, TakeTask, MayTake, LeaveStrand, LeaveRun, FinishTask
<1>3. AllEnded => AllEnded'
  BY DEF TypeOK, AllEnded, TakeTask, LeaveStrand, LeaveRun, FinishTask
<1>4. UNCHANGED <<stop, scope, resetBy>>
  BY DEF TakeTask, LeaveStrand, LeaveRun, FinishTask
<1>5. JoinInv'
  BY <1>3, <1>4 DEF JoinInv
<1> QED BY <1>1, <1>2, <1>5

(* An interruption ends the thread with the task that it was running.      *)
LEMMA CutTaskKeeps ==
  ASSUME IInv, NEW w \in Workers, CutTask(w), interrupted' \subseteq Workers,
         Usable, Running(w), \A v \in Workers \ {w} : stop'[v] = stop[v],
         \A c \in Callers : stop'[c] = stop[c], stop'[w] = "out",
         stop' = [p \in Threads |-> stop'[p]]
  PROVE  IInv'
<1> USE DEF CutTask
<1>1. TypeOK'
  BY DEF TypeOK
<1>2. EndedInv'
  BY DEF TypeOK, EndedInv
<1>3. AllEnded => AllEnded'
  BY DEF TypeOK, AllEnded
<1>4. JoinInv'
  BY <1>3 DEF JoinInv
<1> QED BY <1>1, <1>2, <1>4

LEMMA InterruptionKeeps ==
  ASSUME IInv, NEW w \in Workers, Interruption(w)
  PROVE  IInv'
  BY CutTaskKeeps DEF TypeOK, Interruption

(* What changes nothing but the end of the process, or the io_context.     *)
LEMMA TerminateKeeps ==
  ASSUME IInv, Terminate
  PROVE  IInv'
  BY DEF Terminate, TypeOK, EndedInv, JoinInv, AllEnded

LEMMA RunOutOfWorkKeeps ==
  ASSUME IInv, RunOutOfWork
  PROVE  IInv'
  BY DEF RunOutOfWork, TypeOK, EndedInv, JoinInv, AllEnded

-----------------------------------------------------------------------------
(* The steps of stop() that leave the guard and the object alone: only one *)
(* that begins in "reset" or "joining" matters to who waits.               *)
LEMMA CallStopKeeps ==
  ASSUME IInv, NEW p \in Threads, CallStop(p)
  PROVE  IInv'
<1> USE DEF CallStop, MayCall
<1>1. TypeOK'
  BY DEF TypeOK
<1>2. EndedInv'
  BY DEF TypeOK, EndedInv
<1>3. JoinInv'
  BY DEF TypeOK, JoinInv, AllEnded
<1> QED BY <1>1, <1>2, <1>3

LEMMA OwnsWorkKeeps ==
  ASSUME IInv, NEW p \in Threads, OwnsWork(p)
  PROVE  IInv'
<1> USE DEF OwnsWork
<1>1. TypeOK'
  BY DEF TypeOK
<1>2. EndedInv'
  BY DEF TypeOK, EndedInv
<1>3. JoinInv'
  BY DEF TypeOK, JoinInv, AllEnded
<1> QED BY <1>1, <1>2, <1>3

(* The guard is reset: this thread is going to wait if it is no worker.    *)
LEMMA ResetGuardKeeps ==
  ASSUME IInv, NEW p \in Threads, ResetGuard(p)
  PROVE  IInv'
<1> USE DEF ResetGuard
<1>1. TypeOK'
  BY DEF TypeOK
<1>2. EndedInv'
  BY DEF TypeOK, EndedInv
<1>3. JoinInv'
  BY DEF TypeOK, JoinInv, AllEnded
<1> QED BY <1>1, <1>2, <1>3

LEMMA HaltKeeps ==
  ASSUME IInv, NEW p \in Threads, Halt(p)
  PROVE  IInv'
<1> USE DEF Halt, HaltedAfterStop
<1>1. TypeOK'
  BY DEF TypeOK
<1>2. EndedInv'
  BY DEF TypeOK, EndedInv
<1>3. JoinInv'
  BY DEF TypeOK, JoinInv, AllEnded
<1> QED BY <1>1, <1>2, <1>3

(* A caller gets past join_all() when the workers have ended.              *)
LEMMA JoinAllKeeps ==
  ASSUME IInv, NEW c \in Callers, JoinAll(c)
  PROVE  IInv'
<1> USE DEF JoinAll
<1>1. TypeOK'
  BY DEF TypeOK
<1>2. EndedInv'
  BY DEF TypeOK, EndedInv
<1>3. JoinInv'
  BY DEF JoinInv, AllEnded, Joined
<1> QED BY <1>1, <1>2, <1>3

(* A worker that joins itself is cut, or ends the process.                 *)
LEMMA JoinOwnThreadKeeps ==
  ASSUME IInv, NEW w \in Workers, JoinOwnThread(w)
  PROVE  IInv'
<1>1. CASE Terminate
  BY <1>1, TerminateKeeps
<1>2. CASE interrupted' = interrupted \ {w} /\ Goto(w, "out") /\ CutTask(w)
  BY <1>2, CutTaskKeeps DEF TypeOK, EndedInv, JoinOwnThread
<1> QED BY <1>1, <1>2 DEF JoinOwnThread

(* A call of stop() that returns is not one that waits.                    *)
LEMMA ReturnFromStopKeeps ==
  ASSUME IInv, NEW p \in Threads, ReturnFromStop(p)
  PROVE  IInv'
<1> USE DEF ReturnFromStop
<1>1. TypeOK'
  BY DEF TypeOK
<1>2. EndedInv'
  BY DEF TypeOK, EndedInv
<1>3. JoinInv'
  BY DEF TypeOK, JoinInv, AllEnded
<1> QED BY <1>1, <1>2, <1>3

LEMMA DestroyKeeps ==
  ASSUME IInv, Destroy
  PROVE  IInv'
<1> USE DEF Destroy
<1>1. TypeOK'
  BY DEF TypeOK
<1>2. EndedInv'
  BY DEF TypeOK, EndedInv
<1>3. JoinInv'
  BY DEF TypeOK, JoinInv, AllEnded
<1> QED BY <1>1, <1>2, <1>3

LEMMA NextInv == IInv /\ [Next]_vars => IInv'
<1> SUFFICES ASSUME IInv, [Next]_vars PROVE IInv'
  OBVIOUS
<1>1. ASSUME NEW p \in Threads, StopStep(p)
      PROVE  IInv'
  BY <1>1, OwnsWorkKeeps, ResetGuardKeeps, HaltKeeps, JoinAllKeeps,
     JoinOwnThreadKeeps, ReturnFromStopKeeps
     DEF StopStep, JoinAll, JoinOwnThread
<1>2. ASSUME NEW w \in Workers,
             WorkerStep(w) \/ FinishTask(w) \/ Interruption(w) \/ TaskThrows(w)
      PROVE  IInv'
  BY <1>2, WorkerStepKeeps, InterruptionKeeps, TerminateKeeps DEF TaskThrows
<1>3. CASE UNCHANGED vars
  BY <1>3 DEF vars, TypeOK, EndedInv, JoinInv, AllEnded
<1> QED BY <1>1, <1>2, <1>3, CallStopKeeps, PostKeeps, RunOutOfWorkKeeps, DestroyKeeps
        DEF Next, Over

-----------------------------------------------------------------------------
(* Type correctness.                                                       *)
THEOREM TypeCorrect == Spec => []TypeOK
  BY InitInv, NextInv, PTL DEF Spec

(* The object is not gone before its workers, unless the destructor did    *)
(* not have to wait.                                                       *)
THEOREM WorkersEndFirst == Spec => []NoWorkerSurvives
<1>1. IInv => NoWorkerSurvives
  BY DEF TypeOK, JoinInv, NoWorkerSurvives
<1> QED BY <1>1, InitInv, NextInv, PTL DEF Spec

(* When every worker has ended no task is in the scope any more: with      *)
(* NoWorkerSurvives, nothing of the program is left in a destroyed scope.  *)
Quiet == holder = NoWorker /\ \A w \in Workers : ~Running(w) /\ stop[w] = "out"

THEOREM EndedIsQuiet == Spec => [](AllEnded => Quiet)
<1>1. IInv => (AllEnded => Quiet)
  BY DEF TypeOK, EndedInv, AllEnded, Quiet
<1> QED BY <1>1, InitInv, NextInv, PTL DEF Spec
=============================================================================
