---------------------------- MODULE StateProofs ----------------------------
(***************************************************************************)
(* Proofs of the safety of State, for any threads, values and observers.   *)
(***************************************************************************)
EXTENDS State, TLAPS

(* Where a thread has the mutex.                                           *)
Holding == {"locked", "storing", "stored", "observing", "stuck"}

TypeOK ==
  /\ mutex \in Threads \cup {NoThread}
  /\ data \in Values \cup {NoValue, Torn}
  /\ callback \in Observers \cup {NoObserver}
  /\ at \in [Threads -> {"out", "waiting"} \cup Holding]
  /\ arg \in [Threads -> Values \cup {NoValue}]
  /\ got \in [Threads -> Values \cup {NoValue, Torn}]
  /\ stored \subseteq Values

MutexInv == \A t \in Threads : at[t] \in Holding <=> mutex = t

(* The value that a thread stored stays until its notify() ends.           *)
DataInv ==
  \A t \in Threads :
    /\ at[t] # "out" => arg[t] \in Values
    /\ at[t] \in {"stored", "observing", "stuck"} => data = arg[t]

IInv == TypeOK /\ MutexInv /\ DataInv /\ ObserverReadsItsValue

-----------------------------------------------------------------------------
LEMMA InitInv == Init => IInv
  BY StateAssumption
     DEF Init, IInv, TypeOK, MutexInv, DataInv, ObserverReadsItsValue, Holding

USE StateAssumption DEF IInv, Goto, Holding

(* What code of the user does leaves the mutex alone; get() in an observer *)
(* reads what the thread that called the observer stored.                  *)
LEMMA UserStepKeeps ==
  ASSUME IInv, NEW t \in Threads, UserStep(t)
  PROVE  IInv'
<1>1. ASSUME NEW o \in Observers, Observe(t, o)
      PROVE  IInv'
  BY <1>1 DEF Observe, TypeOK, MutexInv, DataInv, ObserverReadsItsValue
<1>2. ASSUME Get(t)
      PROVE  IInv'
  <2>1. TypeOK' /\ MutexInv' /\ DataInv'
    BY <1>2 DEF Get, TypeOK, MutexInv, DataInv
  <2>2. ObserverReadsItsValue'
    BY <1>2 DEF Get, TypeOK, DataInv, ObserverReadsItsValue
  <2> QED BY <2>1, <2>2
<1>3. ASSUME NEW v \in Values, Notify(t, v)
      PROVE  IInv'
  BY <1>3 DEF Notify, TypeOK, MutexInv, DataInv, ObserverReadsItsValue
<1>4. ASSUME NotifyFromObserver(t)
      PROVE  IInv'
  BY <1>4 DEF NotifyFromObserver, TypeOK, MutexInv, DataInv, ObserverReadsItsValue
<1> QED BY <1>1, <1>2, <1>3, <1>4 DEF UserStep

(* Who enters has the mutex alone, and who stores has it.                  *)
LEMMA LockKeeps ==
  ASSUME IInv, NEW t \in Threads, Lock(t)
  PROVE  IInv'
<1> USE DEF Lock, MayLock
<1>1. TypeOK' /\ MutexInv'
  BY DEF TypeOK, MutexInv
<1>2. DataInv' /\ ObserverReadsItsValue'
  BY DEF TypeOK, DataInv, ObserverReadsItsValue
<1> QED BY <1>1, <1>2

LEMMA StartStoringKeeps ==
  ASSUME IInv, NEW t \in Threads, StartStoring(t)
  PROVE  IInv'
<1> USE DEF StartStoring
<1>1. TypeOK' /\ MutexInv'
  BY DEF TypeOK, MutexInv
<1>2. DataInv' /\ ObserverReadsItsValue'
  BY DEF TypeOK, MutexInv, DataInv, ObserverReadsItsValue
<1> QED BY <1>1, <1>2

LEMMA StoreKeeps ==
  ASSUME IInv, NEW t \in Threads, Store(t)
  PROVE  IInv'
<1> USE DEF Store
<1>1. TypeOK' /\ MutexInv'
  BY DEF TypeOK, MutexInv, DataInv
<1>2. DataInv' /\ ObserverReadsItsValue'
  BY DEF TypeOK, MutexInv, DataInv, ObserverReadsItsValue
<1> QED BY <1>1, <1>2

LEMMA CallObserverKeeps ==
  ASSUME IInv, NEW t \in Threads, CallObserver(t)
  PROVE  IInv'
<1> USE DEF CallObserver
<1>1. TypeOK' /\ MutexInv'
  BY DEF TypeOK, MutexInv
<1>2. DataInv' /\ ObserverReadsItsValue'
  BY DEF TypeOK, DataInv, ObserverReadsItsValue
<1> QED BY <1>1, <1>2

(* notify() ends by returning or by an exception, and unlocks in both      *)
(* cases.                                                                  *)
LEMMA LeaveNotifyKeeps ==
  ASSUME IInv, NEW t \in Threads, at[t] \in {"stored", "observing"},
         LeaveNotify(t, NoThread)
  PROVE  IInv'
<1> USE DEF LeaveNotify
<1>1. TypeOK' /\ MutexInv'
  BY DEF TypeOK, MutexInv
<1>2. DataInv' /\ ObserverReadsItsValue'
  BY DEF TypeOK, DataInv, ObserverReadsItsValue
<1> QED BY <1>1, <1>2

LEMMA NextInv == IInv /\ [Next]_vars => IInv'
<1> SUFFICES ASSUME IInv, [Next]_vars PROVE IInv'
  OBVIOUS
<1>1. ASSUME NEW t \in Threads, NotifyStep(t)
      PROVE  IInv'
  BY <1>1, LockKeeps, StartStoringKeeps, StoreKeeps, CallObserverKeeps, LeaveNotifyKeeps
     DEF NotifyStep, Return, Throw, MutexAfterException
<1>2. CASE UNCHANGED vars
  BY <1>2 DEF vars, TypeOK, MutexInv, DataInv, ObserverReadsItsValue
<1> QED BY <1>1, <1>2, UserStepKeeps DEF Next

-----------------------------------------------------------------------------
(* Type correctness.                                                       *)
THEOREM TypeCorrect == Spec => []TypeOK
  BY InitInv, NextInv, PTL DEF Spec

(* An observer that asks for the state reads what it was called with.      *)
THEOREM ObserverIsServed == Spec => []ObserverReadsItsValue
  BY InitInv, NextInv, PTL DEF Spec

(* The threads past the lock of notify(), observers and stuck threads      *)
(* among them.                                                             *)
Inside == {t \in Threads : at[t] \in Holding}

(* Of all threads that notify at most one stores or is in its observer.    *)
THEOREM OneAtATime == Spec => [](\A t, u \in Inside : t = u)
<1>1. IInv => \A t, u \in Inside : t = u
  BY DEF MutexInv, Inside
<1> QED BY <1>1, InitInv, NextInv, PTL DEF Spec

Stuck(t) == at[t] = "stuck" /\ mutex = t

(* An observer that notifies its own state keeps the mutex for ever, so    *)
(* that no thread gets past the lock any more: the one case that           *)
(* OnlyReentryBlocks excepts is final.                                     *)
THEOREM ReentryIsFinal ==
  Spec => [][\A t \in Threads : at[t] = "stuck" => Stuck(t) /\ Stuck(t)']_vars
<1>1. IInv /\ [Next]_vars =>
        [\A t \in Threads : at[t] = "stuck" => Stuck(t) /\ Stuck(t)']_vars
  <2> SUFFICES ASSUME IInv, NEW u \in Threads, NotifyStep(u) \/ UserStep(u),
                      NEW t \in Threads, at[t] = "stuck"
               PROVE  Stuck(t) /\ Stuck(t)'
    BY DEF Next
  <2>1. mutex = t /\ (u # t => at[u] \notin Holding)
    BY DEF MutexInv
  <2>2. CASE UserStep(u)
    BY <2>1, <2>2
       DEF TypeOK, Stuck, UserStep, Get, NotifyFromObserver, Observe, Notify, Free
  <2>3. CASE NotifyStep(u)
    BY <2>1, <2>3
       DEF TypeOK, Stuck, NotifyStep, Lock, MayLock, StartStoring, Store,
           CallObserver, Return, Throw
  <2> QED BY <2>1, <2>2, <2>3
<1> QED BY <1>1, InitInv, NextInv, PTL DEF Spec
=============================================================================
