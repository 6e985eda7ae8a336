----------------------------- MODULE UnitOfWork -----------------------------
(***************************************************************************)
(* What SqliteDatabase::transaction promises, whatever goes on inside: the *)
(* effects of accepted operations enter the store in the very step that    *)
(* decides their outcome, several operations at once; an operation that    *)
(* failed has no effect and gets none later; nothing leaves the store.     *)
(*                                                                         *)
(* An operation that SQLite has torn out of its transaction is beyond that *)
(* promise: its effect may enter the store by itself while it runs, but    *)
(* the operation is never done.                                            *)
(*                                                                         *)
(* A statement outside of transaction() is acknowledged at once, but its   *)
(* effect may come with a later decision, or never: that is all the code   *)
(* can promise while the connection is shared.                             *)
(***************************************************************************)
CONSTANT Ops

VARIABLES
  store,    (* the operations whose effect is in the file *)
  outcome,  (* outcome[o]: what has been decided about o  *)
  torn      (* the operations without a transaction       *)

vars == <<store, outcome, torn>>

Outcomes == {"none", "pending", "done", "failed", "acked"}

Having(c) == {o \in Ops : outcome[o] = c}

Init ==
  /\ store = {}
  /\ outcome = [o \in Ops |-> "none"]
  /\ torn = {}

(* The operation is accepted; nothing is decided.                          *)
Accept(o) ==
  /\ outcome[o] = "none"
  /\ outcome' = [outcome EXCEPT ![o] = "pending"]
  /\ UNCHANGED <<store, torn>>

Acknowledge(o) ==
  /\ outcome[o] = "none"
  /\ outcome' = [outcome EXCEPT ![o] = "acked"]
  /\ store' = store \/ store' = store \cup {o}
  /\ UNCHANGED torn

(* SQLite has rolled back the transaction of the operations of S.          *)
Tear(S) ==
  /\ torn' = torn \cup S
  /\ UNCHANGED <<store, outcome>>

(* The effect of an operation without a transaction enters the store.      *)
Leak(o) ==
  /\ o \in torn /\ outcome[o] = "pending"
  /\ store' = store \cup {o}
  /\ UNCHANGED <<outcome, torn>>

(* The operations of D are done, those of F failed: what enters the store  *)
(* are effects of D and of acknowledged operations.  Nothing is done       *)
(* without a transaction.                                                  *)
Decide(D, F) ==
  /\ D \cap F = {} /\ D \cap torn = {}
  /\ outcome' = [o \in Ops |-> IF o \in D THEN "done"
                               ELSE IF o \in F THEN "failed" ELSE outcome[o]]
  /\ store \subseteq store'
  /\ store' \subseteq store \cup D \cup Having("acked")
  /\ D = {} => store' = store
  /\ UNCHANGED torn

Next ==
  \/ \E o \in Ops : Accept(o) \/ Acknowledge(o) \/ Leak(o)
  \/ \E S \in SUBSET Having("pending") : Tear(S)
  \/ \E D, F \in SUBSET Having("pending") : Decide(D, F)

Spec == Init /\ [][Next]_vars
=============================================================================
