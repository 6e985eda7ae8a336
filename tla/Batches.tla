------------------------------- MODULE Batches -------------------------------
(***************************************************************************)
(* Batches of models written through transaction(): Repository::remove_all *)
(* and the update() of a compound repository, which catch the error of     *)
(* each model and go on, and the builders InsertValue, UpdateValue and     *)
(* RemoveValue, whose destructors call transaction() once per model.       *)
(*                                                                         *)
(* Every operation of Transactions is here a batch of Size models, or one  *)
(* model of a builder.  Its callback executes one statement per model; the *)
(* sets done and kept refine working and durable, which say nothing about  *)
(* single models.                                                          *)
(***************************************************************************)
EXTENDS Transactions

CONSTANTS
  Builders,  (* the operations that are a model of a builder               *)
  Size       (* number of models in the other operations                   *)

ASSUME BatchesAssumption ==
  /\ Builders \subseteq Ops
  /\ Size \in Nat \ {0}
  /\ "crash" \in Faults

VARIABLES
  at,       (* at[o]: how many models the callback of o has dealt with     *)
  local,    (* local[o]: the models of o live as long as the callback that *)
            (* calls remove_all() or update() with them                    *)
  gone,     (* gone[o]: the models that the callback of o refers to have   *)
            (* been destroyed                                              *)
  done,     (* <<o, i>>: the connection sees the effect of model i of o    *)
  kept,     (* <<o, i>>: the file holds that effect                        *)
  ignored,  (* <<o, i>>: the error of model i was caught and dropped       *)
  answer    (* answer[o]: what the call of o told its caller               *)

batch == <<at, local, gone, done, kept, ignored, answer>>
batchVars == <<vars, batch>>

Models(o) == 1..(IF o \in Builders THEN 1 ELSE Size)

BatchInit ==
  /\ Init
  /\ at = [o \in Ops |-> 0]
  /\ local = [o \in Ops |-> FALSE] /\ gone = [o \in Ops |-> FALSE]
  /\ done = {} /\ kept = {} /\ ignored = {}
  /\ answer = [o \in Ops |-> "none"]

(* The model that the running callback of t deals with next.               *)
Current(t) == <<op[t], at[op[t]] + 1>>

(* A definition named Wrong... is a deliberate mistake in the definition   *)
(* after it; no action uses it.                                            *)
HasCurrent(t) == InCallback(t) /\ at[op[t]] + 1 \in Models(op[t])

Answered(o, what) == answer' = [answer EXCEPT ![o] = what]

WrongKeptAfterStatement(t) == kept \cup {Current(t)}

(* The statement joins the open SQLite transaction.                        *)
KeptAfterStatement(t) == IF inTx THEN kept ELSE kept \cup {Current(t)}

WrongNextModel(o) == [at EXCEPT ![o] = Size]

(* The error of a model does not end the loop.                             *)
NextModel(o) == [at EXCEPT ![o] = @ + 1]

WrongAnswerAfterException(o) == [answer EXCEPT ![o] = "ok"]

(* remove_all() and update() return what the exception says.               *)
AnswerAfterException(o) == [answer EXCEPT ![o] = "error"]

(* The connection sees what is in the file, and no more.                   *)
DoneAfterRollback == kept

(* The loop over the models is over.                                       *)
AllDealtWith(t) == ~HasCurrent(t)

-----------------------------------------------------------------------------
(* The call is made outside of any callback: it comes back at the end.     *)
BatchCall(t, o) == Call(t, o) /\ UNCHANGED batch

(* The flag is still set after an exception: the callback is pushed, never *)
(* runs, and the call returns as if it had.                                *)
BatchEnterDeferred(t) ==
  /\ EnterDeferred(t)
  /\ Answered(op[t], "ok")
  /\ UNCHANGED <<at, local, gone, done, kept, ignored>>

(* The call is made by a callback: remove_all() returns no error before    *)
(* anything was removed.  Its lambda refers to the models, builders copy   *)
(* them.                                                                   *)
BatchNest(t, o, short) ==
  /\ Nest(t, o)
  /\ short => o \notin Builders
  /\ local' = [local EXCEPT ![o] = short]
  /\ Answered(o, "ok")
  /\ UNCHANGED <<at, gone, done, kept, ignored>>

(* The callback that called has returned: its own models are destroyed.    *)
Destroyed(t) ==
  [o \in Ops |-> gone[o] \/ (local[o] /\ status[o] = "queued" /\ parent[o] = op[t])]

(* The statement of the current model succeeds.                            *)
ModelDone(t) ==
  /\ HasCurrent(t) /\ ~gone[op[t]]
  /\ done' = done \cup {Current(t)}
  /\ kept' = KeptAfterStatement(t)
  /\ at' = [at EXCEPT ![op[t]] = @ + 1]
  /\ UNCHANGED <<vars, local, gone, ignored, answer>>

(* It throws runtime_error: Repository::remove and Repository::update      *)
(* return the text, which nobody looks at.  SQLite may have rolled back    *)
(* the whole transaction; the loop goes on without one.                    *)
ModelFails(t) ==
  /\ HasCurrent(t) /\ ~gone[op[t]] /\ op[t] \notin Builders
  /\ \/ "callback" \in Faults /\ UNCHANGED <<vars, done>>
     \/ RollsBack(t) /\ done' = DoneAfterRollback
  /\ ignored' = ignored \cup {Current(t)}
  /\ at' = NextModel(op[t])
  /\ UNCHANGED <<local, gone, kept, answer>>

(* A statement outside of any callback fails with such an error.           *)
OtherRollsBack(t) ==
  /\ pc[t] = "idle" /\ RollsBack(t)
  /\ done' = DoneAfterRollback
  /\ UNCHANGED <<at, local, gone, kept, ignored, answer>>

(* The loop runs over a vector that was destroyed: it may find it empty,   *)
(* or the process dies (BatchCrash).                                       *)
ModelsAreGone(t) ==
  /\ HasCurrent(t) /\ gone[op[t]]
  /\ at' = [at EXCEPT ![op[t]] = Size]
  /\ UNCHANGED <<vars, local, gone, done, kept, ignored, answer>>

BatchCallbackReturns(t) ==
  /\ CallbackReturns(t) /\ AllDealtWith(t)
  /\ gone' = Destroyed(t)
  /\ UNCHANGED <<at, local, done, kept, ignored, answer>>

BatchDeferredReturns(t) ==
  /\ DeferredReturns(t) /\ AllDealtWith(t)
  /\ gone' = Destroyed(t)
  /\ UNCHANGED <<at, local, done, kept, ignored, answer>>

BatchCommit(t) ==
  /\ Commit(t)
  /\ kept' = done
  /\ Answered(outer, "ok")
  /\ UNCHANGED <<at, local, gone, done, ignored>>

(* transaction() throws: BEGIN or COMMIT failed, a builder's model could   *)
(* not be written, a model was restricted (invalid_argument passes the     *)
(* handlers), or for_each ran into freed storage.  A destructor lets       *)
(* nothing out, so a builder's call can only end in std::terminate         *)
(* (BatchCrash).                                                           *)
BatchThrows(t) ==
  /\ BeginThrows(t) \/ CallbackThrows(t) \/ RunStale(t) \/ CommitThrows(t)
  /\ outer \notin Builders
  /\ done' = kept
  /\ answer' = AnswerAfterException(outer)
  /\ UNCHANGED <<at, local, gone, kept, ignored>>

(* Steps of a call that neither change nor report anything.                *)
BatchGoesOn(t) ==
  /\ EnterFirst(t) \/ Begin(t) \/ RunDeferred(t)
  /\ UNCHANGED batch

(* The process dies; what a caller was told before stays told.             *)
BatchCrash ==
  /\ Crash
  /\ done' = kept
  /\ UNCHANGED <<at, local, gone, kept, ignored, answer>>

BatchNext ==
  \/ \E t \in Threads :
       \/ BatchEnterDeferred(t) \/ ModelDone(t) \/ ModelFails(t) \/ ModelsAreGone(t)
       \/ BatchCallbackReturns(t) \/ BatchDeferredReturns(t)
       \/ BatchCommit(t) \/ BatchThrows(t) \/ BatchGoesOn(t)
       \/ OtherRollsBack(t)
  \/ \E t \in Threads, o \in Ops :
       BatchCall(t, o) \/ \E short \in BOOLEAN : BatchNest(t, o, short)
  \/ BatchCrash

BatchSpec == BatchInit /\ [][BatchNext]_batchVars

-----------------------------------------------------------------------------
Parts == {<<o, i>> : o \in Ops, i \in 1..Size}

BatchTypeOK ==
  /\ at \in [Ops -> 0..Size]
  /\ local \in [Ops -> BOOLEAN] /\ gone \in [Ops -> BOOLEAN]
  /\ done \subseteq Parts /\ kept \subseteq Parts /\ ignored \subseteq Parts
  /\ answer \in [Ops -> {"none", "ok", "error"}]

(***************************************************************************)
(* The file holds effects of committed batches only, however many          *)
(* statements a batch consists of and whatever throws between them; the    *)
(* exception is a batch whose transaction SQLite rolled back by itself.    *)
(* Repository.hpp:276-288 and 397-407 on SqliteDatabase.hpp:57-67.         *)
(***************************************************************************)
KeptIsCommitted ==
  \A e \in kept : status[e[1]] = "committed" \/ e[1] \in torn

(***************************************************************************)
(* A batch that was committed has dealt with each of its models: it is in  *)
(* the file, or its error was dropped.  Only a batch whose models were     *)
(* destroyed before it ran is committed without them.  No model is missing *)
(* because SQLite has rolled back what was written before an error that    *)
(* the loop dropped: such a batch is never committed.                      *)
(* Repository.hpp:279-281, 398 and 498-511.                                *)
(***************************************************************************)
CommittedIsComplete ==
  \A o \in Ops : status[o] = "committed" /\ ~gone[o] =>
    \A i \in Models(o) : <<o, i>> \in kept \cup ignored

(***************************************************************************)
(* remove_all() and update() report success for a batch that is not        *)
(* committed only if they were called by a callback of transaction(), or   *)
(* on a database on which an earlier transaction had thrown.               *)
(* Repository.hpp:276-288 and 397-407 on SqliteDatabase.hpp:51-55.         *)
(***************************************************************************)
SuccessWithoutCommit ==
  \A o \in Ops : answer[o] = "ok" /\ status[o] # "committed" =>
    \/ parent[o] # NoOp
    \/ status[o] \in {"queued", "lost"} /\ \E p \in Ops : status[p] = "aborted"
=============================================================================
