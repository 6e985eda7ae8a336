------------------------------- MODULE State -------------------------------
(***************************************************************************)
(* jdb::MutableState (utils/State.hpp) shared by threads.  notify() stores *)
(* a value and calls the observer with the mutex held; observe() and get() *)
(* do not take it.  The observer may call get(), observe() and notify() of *)
(* the same state, and may throw.  An empty observer throws.               *)
(*                                                                         *)
(* A value being stored by one thread reads as Torn to another: the read   *)
(* is a data race.  An observer goes on when observe() replaces it.        *)
(***************************************************************************)

CONSTANTS
  Threads,
  Values,     (* each is passed to notify() at most once                   *)
  Observers,
  NoThread, NoValue, NoObserver,
  Torn

ASSUME StateAssumption ==
  /\ NoThread \notin Threads
  /\ NoObserver \notin Observers
  /\ NoValue \notin Values /\ Torn \notin Values

VARIABLES
  mutex,      (* the owner of mMutex                                       *)
  data,       (* mData                                                     *)
  callback,   (* mCallback                                                 *)
  at,         (* at[t]: where t is in notify()                             *)
  arg,        (* arg[t]: the argument of notify()                          *)
  got,        (* got[t]: what get() last returned to t, since its observer *)
              (* was called if it is in one                                *)
  stored      (* history: the values that were stored                      *)

vars == <<mutex, data, callback, at, arg, got, stored>>

Init ==
  /\ mutex = NoThread
  /\ data = NoValue /\ callback = NoObserver
  /\ at = [t \in Threads |-> "out"]
  /\ arg = [t \in Threads |-> NoValue] /\ got = [t \in Threads |-> NoValue]
  /\ stored = {}

Goto(t, place) == at' = [at EXCEPT ![t] = place]

(* Code of the user runs: outside of notify(), or in the observer.         *)
Free(t) == at[t] \in {"out", "observing"}

Observe(t, o) ==
  /\ Free(t)
  /\ callback' = o
  /\ UNCHANGED <<mutex, data, at, arg, got, stored>>

Get(t) ==
  /\ Free(t)
  /\ got' = [got EXCEPT ![t] = data]
  /\ UNCHANGED <<mutex, data, callback, at, arg, stored>>

Notify(t, v) ==
  /\ at[t] = "out"
  /\ \A u \in Threads : arg[u] # v
  /\ v \notin stored
  /\ Goto(t, "waiting")
  /\ arg' = [arg EXCEPT ![t] = v]
  /\ UNCHANGED <<mutex, data, callback, got, stored>>

(* std::mutex is not recursive: the thread waits for itself.               *)
NotifyFromObserver(t) ==
  /\ at[t] = "observing"
  /\ Goto(t, "stuck")
  /\ UNCHANGED <<mutex, data, callback, arg, got, stored>>

WrongMayLock(t) == mutex = mutex

MayLock(t) == mutex = NoThread

Lock(t) ==
  /\ at[t] = "waiting"
  /\ MayLock(t)
  /\ mutex' = t
  /\ Goto(t, "locked")
  /\ UNCHANGED <<data, callback, arg, got, stored>>

StartStoring(t) ==
  /\ at[t] = "locked"
  /\ data' = Torn
  /\ Goto(t, "storing")
  /\ UNCHANGED <<mutex, callback, arg, got, stored>>

Store(t) ==
  /\ at[t] = "storing"
  /\ data' = arg[t]
  /\ stored' = stored \cup {arg[t]}
  /\ Goto(t, "stored")
  /\ UNCHANGED <<mutex, callback, arg, got>>

CallObserver(t) ==
  /\ at[t] = "stored" /\ callback # NoObserver
  /\ got' = [got EXCEPT ![t] = NoValue]
  /\ Goto(t, "observing")
  /\ UNCHANGED <<mutex, data, callback, arg, stored>>

WrongMutexAfterException(t) == mutex

MutexAfterException(t) == NoThread

LeaveNotify(t, owner) ==
  /\ mutex' = owner
  /\ arg' = [arg EXCEPT ![t] = NoValue]
  /\ Goto(t, "out")
  /\ UNCHANGED <<data, callback, got, stored>>

Return(t) == at[t] = "observing" /\ LeaveNotify(t, NoThread)

(* The observer throws, or bad_function_call when there is none: the value *)
(* stays stored.                                                           *)
Throw(t) ==
  /\ \/ at[t] = "observing"
     \/ at[t] = "stored" /\ callback = NoObserver
  /\ LeaveNotify(t, MutexAfterException(t))

NotifyStep(t) ==
  \/ Lock(t) \/ StartStoring(t) \/ Store(t)
  \/ CallObserver(t) \/ Return(t) \/ Throw(t)

UserStep(t) ==
  \/ Get(t) \/ NotifyFromObserver(t)
  \/ \E o \in Observers : Observe(t, o)
  \/ \E v \in Values : Notify(t, v)

Next == \E t \in Threads : NotifyStep(t) \/ UserStep(t)

Spec == Init /\ [][Next]_vars

(* Threads are scheduled and an observer that is called comes to an end or *)
(* notifies; std::mutex lets every waiting thread in eventually.           *)
FairSpec == Spec /\ \A t \in Threads : SF_vars(NotifyStep(t))

-----------------------------------------------------------------------------
(* An observer that asks for the state while it runs reads the value it    *)
(* was called with, whole, and not one of a thread that notifies at the    *)
(* same time (State.hpp:54-64).                                            *)
ObserverReadsItsValue ==
  \A t \in Threads : at[t] = "observing" => got[t] \in {NoValue, arg[t]}

(* notify() returns or throws, whoever else notifies and however it ends,  *)
(* unless an observer notifies the state that called it: then neither this *)
(* notify() nor any later one ends.                                        *)
OnlyReentryBlocks ==
  \A t \in Threads :
    at[t] = "waiting" ~> at[t] = "out" \/ \E u \in Threads : at[u] = "stuck"
=============================================================================
