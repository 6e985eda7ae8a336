------------------------- MODULE TransactionsProofs -------------------------
(***************************************************************************)
(* Proofs, for any set of threads and operations, of the safety properties *)
(* of Transactions and of its refinement of UnitOfWork; then, for any      *)
(* number of models in a batch, of the properties of Batches.  The first   *)
(* argument is one inductive invariant, IInv, in named parts, which BInv   *)
(* extends for the second.                                                 *)
(***************************************************************************)
EXTENDS Batches, TLAPS

Draining(t) == pc[t] \in {"drain", "deferred"}

(* Who holds the mutex, the flag and the SQLite transaction.  SQLite may   *)
(* end the latter before the call that opened it does.                     *)
MutexInv ==
  /\ \A t \in Threads : InFrame(t) <=> owner = t
  /\ \A t \in Threads : pc[t] = "idle" <=> op[t] = NoOp
  /\ owner # NoThread => locked
  /\ ~locked => queue = <<>>
  /\ inTx => \E t \in Threads : InSqliteTransaction(t)

(* The locals of the call that set the flag.                               *)
FrameInv ==
  /\ \A t \in Threads :
       /\ pc[t] \in {"begin", "callback", "drain"} => op[t] = outer
       /\ InFrame(t) => outer \in Ops /\ parent[outer] = NoOp
       /\ Draining(t) => cursor <= stop /\ stop <= Len(queue)
       /\ pc[t] = "deferred" => /\ cursor < stop
                                /\ op[t] = queue[cursor + 1]
                                /\ op[t] # outer
  /\ (\A t \in Threads : ~Draining(t)) => cursor = 0

(* How far each operation is, and which thread took it there.              *)
CallInv ==
  /\ \A t \in Threads :
       /\ pc[t] # "idle" => caller[op[t]] = t
       /\ InFrame(t) => caller[outer] = t
       /\ pc[t] \in {"lock", "begin"} => status[op[t]] = "waiting"
       /\ InSqliteTransaction(t) => status[outer] = "running"
       /\ pc[t] = "deferred" => status[op[t]] = "running"
  /\ \A o \in Ops :
       /\ status[o] = "running" =>
            \E t \in Threads : InSqliteTransaction(t) /\ o \in {outer, op[t]}
       /\ status[o] = "ran" => \E i \in 1..cursor : queue[i] = o
       /\ status[o] \in {"new", "waiting"} => parent[o] = NoOp

(* A callback that was not started yet has no trace.                       *)
StartInv ==
  \A o \in Ops :
    /\ runs[o] <= 1
    /\ status[o] \in {"new", "waiting", "queued"} => runs[o] = 0 /\ o \notin wrote

(* The vector while a call that set the flag is active.                    *)
QueueInv ==
  owner # NoThread =>
    \A i \in 1..Len(queue) :
      /\ caller[queue[i]] = owner
      /\ parent[queue[i]] \in Ops /\ Unfinished(parent[queue[i]])
      /\ i <= cursor => status[queue[i]] = "ran"
      /\ i > cursor =>
           \/ status[queue[i]] = "queued"
           \/ i = cursor + 1 /\ pc[owner] = "deferred"
      /\ \A j \in 1..Len(queue) : queue[i] = queue[j] => i = j

(* Callbacks and the callbacks that pushed them.                           *)
Family(o) ==
  /\ status[parent[o]] \in {"running", "ran", "committed", "aborted", "lost"}
  /\ Unfinished(parent[o]) =>
       \E i \in 1..Len(queue) :
         /\ queue[i] = o
         /\ parent[o] = outer /\ (\E t \in Threads : Draining(t)) => i <= stop
  /\ status[o] = "committed" => status[parent[o]] = "committed"
  /\ status[parent[o]] = "committed" =>
       status[o] = "committed" \/ (status[o] = "dropped" /\ PushedLate(o))

FamilyInv == \A o \in Ops : parent[o] # NoOp => Family(o)

(* An operation that runs without a SQLite transaction is never committed. *)
TornInv ==
  \A o \in Ops :
    /\ Unfinished(o) /\ ~inTx => o \in torn
    /\ Unfinished(o) /\ o \in torn => ~inTx
    /\ o \in torn => status[o] \in {"running", "ran", "aborted", "lost"}

(* What the connection sees, what the file holds, and why something is     *)
(* missing.                                                                *)
DataInv ==
  /\ durable \subseteq working /\ working \subseteq wrote
  /\ ~inTx => working = durable
  /\ \A o \in durable : status[o] \in {"committed", "acked"} \/ o \in torn
  /\ \A o \in working :
       Unfinished(o) \/ status[o] = "acked" \/ o \in durable
  /\ \A o \in wrote : status[o] = "committed" => o \in durable
  /\ \A o \in wrote : Unfinished(o) /\ o \notin torn => o \in working

FailureInv ==
  /\ owner = NoThread /\ locked => \E o \in Ops : status[o] = "aborted"
  /\ \A o \in Ops : status[o] = "acked" /\ o \notin durable =>
       /\ caught[o] \in Ops
       /\ \/ /\ caught[o] = outer /\ status[outer] = "running"
             /\ inTx => o \in working
          \/ status[caught[o]] \in {"aborted", "lost"}

IInv == /\ TypeOK /\ MutexInv /\ FrameInv /\ CallInv /\ StartInv
        /\ QueueInv /\ FamilyInv /\ TornInv /\ DataInv /\ FailureInv

-----------------------------------------------------------------------------
(* The callback that for_each is about to invoke has not been started.     *)
LEMMA NextIsQueued ==
  ASSUME IInv, NEW t \in Threads, pc[t] = "drain", cursor < stop
  PROVE  /\ cursor + 1 \in 1..Len(queue) /\ queue[cursor + 1] \in Ops
         /\ status[queue[cursor + 1]] = "queued"
         /\ caller[queue[cursor + 1]] = t
         /\ Unfinished(parent[queue[cursor + 1]])
<1> USE ConstantsAssumption DEF IInv, InFrame, InSqliteTransaction, Draining
<1>1. owner = t /\ t # NoThread
  BY DEF MutexInv
<1>2. cursor + 1 \in 1..Len(queue) /\ queue[cursor + 1] \in Ops
  BY DEF TypeOK, FrameInv
<1> QED BY <1>1, <1>2 DEF QueueInv, TypeOK

(* A step that takes back no failure and explains every statement it       *)
(* acknowledges preserves FailureInv.                                      *)
LEMMA FailurePersists ==
  ASSUME FailureInv, owner' = owner, locked' = locked, outer' = outer,
         inTx' => inTx /\ working \subseteq working',
         \A p \in Ops : status[p] \in {"aborted", "lost"} => status'[p] = status[p],
         outer \in Ops /\ status[outer] = "running" => status'[outer] = "running",
         \A o \in Ops : status'[o] = "acked" /\ o \notin durable' =>
           \/ status[o] = "acked" /\ o \notin durable /\ caught'[o] = caught[o]
           \/ /\ caught'[o] = outer /\ outer \in Ops /\ status'[outer] = "running"
              /\ o \in working'
  PROVE  FailureInv'
<1>1. owner' = NoThread /\ locked' => \E o \in Ops : status'[o] = "aborted"
  BY DEF FailureInv
<1>2. ASSUME NEW o \in Ops, status'[o] = "acked", o \notin durable'
      PROVE  /\ caught'[o] \in Ops
             /\ \/ /\ caught'[o] = outer' /\ status'[outer'] = "running"
                   /\ inTx' => o \in working'
                \/ status'[caught'[o]] \in {"aborted", "lost"}
  <2>1. CASE status[o] = "acked" /\ o \notin durable /\ caught'[o] = caught[o]
    <3>1. /\ caught[o] \in Ops
          /\ \/ /\ caught[o] = outer /\ status[outer] = "running"
                /\ inTx => o \in working
             \/ status[caught[o]] \in {"aborted", "lost"}
      BY <2>1 DEF FailureInv
    <3> QED BY <2>1, <3>1
  <2> QED BY <1>2, <2>1
<1> QED BY <1>1, <1>2 DEF FailureInv

-----------------------------------------------------------------------------
(* Every action preserves the invariant, part by part.                     *)
USE ConstantsAssumption
    DEF IInv, memory, frame, connection, issue, trace, InCallback, InFrame,
        InSqliteTransaction, Draining, Unfinished

(* A new call: its operation is in no vector yet.                          *)
LEMMA CallKeeps ==
  ASSUME IInv, NEW t \in Threads, NEW x \in Ops, Call(t, x)
  PROVE  IInv'
<1> USE DEF Call
<1>1. TypeOK'
  BY DEF TypeOK, Statuses, Places
<1>2. MutexInv'
  BY DEF TypeOK, MutexInv
<1>3. FrameInv'
  BY DEF FrameInv
<1>4. CallInv'
  BY DEF TypeOK, Statuses, Places, FrameInv, CallInv
<1>5. StartInv'
  BY DEF StartInv
<1>6. QueueInv'
  BY DEF CallInv, QueueInv
<1>7. FamilyInv'
  BY DEF FamilyInv, Family, PushedLate
<1>8. TornInv'
  BY DEF TypeOK, MutexInv, CallInv, TornInv
<1>9. DataInv'
  BY DEF DataInv
<1>10. FailureInv'
  <2>1. \A p \in Ops : status[p] \in {"aborted", "lost"} => status'[p] = status[p]
    BY DEF TypeOK
  <2>2. \A o \in Ops : status'[o] = "acked" /\ o \notin durable' =>
          \/ status[o] = "acked" /\ o \notin durable /\ caught'[o] = caught[o]
          \/ /\ caught'[o] = outer /\ outer \in Ops /\ status'[outer] = "running"
             /\ o \in working'
    BY DEF TypeOK, MutexInv
  <2>3. outer \in Ops /\ status[outer] = "running" => status'[outer] = "running"
    BY DEF TypeOK, CallInv, FrameInv, MutexInv
  <2>. QED BY <2>1, <2>2, <2>3, FailurePersists DEF DataInv, MutexInv
<1> QED BY <1>1, <1>2, <1>3, <1>4, <1>5, <1>6, <1>7, <1>8, <1>9, <1>10

(* The vector is empty when the flag is set, so QueueInv starts to hold.   *)
LEMMA EnterFirstKeeps ==
  ASSUME IInv, NEW t \in Threads, EnterFirst(t)
  PROVE  IInv'
<1> USE DEF EnterFirst, MutexFree
<1>1. TypeOK'
  BY DEF TypeOK, Statuses, Places
<1>2. MutexInv'
  BY DEF TypeOK, MutexInv
<1>3. FrameInv'
  BY DEF TypeOK, MutexInv, FrameInv, CallInv
<1>4. CallInv'
  BY DEF MutexInv, CallInv
<1>5. StartInv'
  BY DEF StartInv
<1>6. QueueInv'
  BY DEF MutexInv, QueueInv
<1>7. FamilyInv'
  BY DEF MutexInv, FamilyInv, Family, PushedLate
<1>8. TornInv'
  BY DEF TypeOK, MutexInv, CallInv, TornInv
<1>9. DataInv'
  BY DEF DataInv
<1>10. FailureInv'
  <2>1. \A o \in Ops : status[o] # "running"
    BY DEF MutexInv, CallInv
  <2>2. outer' = op[t] /\ op[t] \in Ops
    BY DEF TypeOK, MutexInv
  <2>3. UNCHANGED <<status, durable, working, inTx, caught>> /\ owner' # NoThread
    OBVIOUS
  <2>. QED BY <2>1, <2>2, <2>3 DEF FailureInv
<1> QED BY <1>1, <1>2, <1>3, <1>4, <1>5, <1>6, <1>7, <1>8, <1>9, <1>10

(* Only a wedged flag is met here: nobody owns the mutex.                  *)
LEMMA EnterDeferredKeeps ==
  ASSUME IInv, NEW t \in Threads, EnterDeferred(t)
  PROVE  IInv'
<1> USE DEF EnterDeferred, MutexFree, PushBack
<1>1. TypeOK'
  BY DEF TypeOK, Statuses, Places, MutexInv
<1>2. MutexInv'
  BY DEF TypeOK, MutexInv
<1>3. FrameInv'
  BY DEF TypeOK, FrameInv
<1>4. CallInv'
  <2>1. op[t] \in Ops /\ status[op[t]] = "waiting" /\ ~InFrame(t)
    BY DEF TypeOK, MutexInv, CallInv
  <2>2. /\ status' = [status EXCEPT ![op[t]] = "queued"] /\ status \in [Ops -> Statuses]
        /\ pc' = [pc EXCEPT ![t] = "idle"] /\ pc \in [Threads -> Places]
        /\ op' = [op EXCEPT ![t] = NoOp] /\ op \in [Threads -> Ops \cup {NoOp}]
        /\ UNCHANGED <<outer, cursor, caller, parent>>
    BY DEF TypeOK
  <2>3. \A i \in 1..cursor : queue'[i] = queue[i]
    BY DEF TypeOK, MutexInv, FrameInv
  <2>4. \A u \in Threads : u # t /\ pc[u] # "idle" => op[u] # op[t]
    BY <2>1 DEF CallInv
  <2>5. \A u \in Threads : InFrame(u) => outer # op[t]
    BY <2>1 DEF CallInv
  <2>6. ASSUME NEW o \in Ops
        PROVE  /\ status'[o] = "running" =>
                    \E u \in Threads : InSqliteTransaction(u)' /\ o \in {outer', op'[u]}
               /\ status'[o] = "ran" => \E i \in 1..cursor' : queue'[i] = o
               /\ status'[o] \in {"new", "waiting"} => parent'[o] = NoOp
    <3>1. ASSUME status'[o] = "running"
          PROVE  \E u \in Threads : InSqliteTransaction(u)' /\ o \in {outer', op'[u]}
      <4>1. PICK u \in Threads : InSqliteTransaction(u) /\ o \in {outer, op[u]}
        BY <2>2, <3>1 DEF CallInv
      <4>2. u # t
        BY <2>1, <4>1
      <4>. QED BY <2>2, <4>1, <4>2
    <3>2. ASSUME status'[o] = "ran" PROVE \E i \in 1..cursor' : queue'[i] = o
      <4>1. PICK i \in 1..cursor : queue[i] = o
        BY <2>2, <3>2 DEF CallInv
      <4>. QED BY <2>2, <2>3, <4>1
    <3>3. status'[o] \in {"new", "waiting"} => parent'[o] = NoOp
      BY <2>2 DEF CallInv
    <3>. QED BY <3>1, <3>2, <3>3
  <2>7. ASSUME NEW u \in Threads
        PROVE  /\ pc'[u] # "idle" => caller'[op'[u]] = u
               /\ InFrame(u)' => caller'[outer'] = u
               /\ pc'[u] \in {"lock", "begin"} => status'[op'[u]] = "waiting"
               /\ InSqliteTransaction(u)' => status'[outer'] = "running"
               /\ pc'[u] = "deferred" => status'[op'[u]] = "running"
    BY <2>1, <2>2, <2>4, <2>5 DEF CallInv
  <2>. QED BY <2>6, <2>7 DEF CallInv
<1>5. StartInv'
  BY DEF CallInv, StartInv
<1>6. QueueInv'
  BY DEF MutexInv, QueueInv
<1>7. FamilyInv'
  BY DEF MutexInv, CallInv, FamilyInv, Family, PushedLate
<1>8. TornInv'
  BY DEF TypeOK, MutexInv, CallInv, TornInv
<1>9. DataInv'
  BY DEF CallInv, DataInv
<1>10. FailureInv'
  BY DEF MutexInv, CallInv, FailureInv
<1> QED BY <1>1, <1>2, <1>3, <1>4, <1>5, <1>6, <1>7, <1>8, <1>9, <1>10

(* The outer callback starts.                                              *)
LEMMA BeginKeeps ==
  ASSUME IInv, NEW t \in Threads, Begin(t)
  PROVE  IInv'
<1> USE DEF Begin
<1>1. TypeOK'
  BY DEF TypeOK, Statuses, Places, MutexInv
<1>2. MutexInv'
  BY DEF TypeOK, MutexInv
<1>3. FrameInv'
  BY DEF FrameInv
<1>4. CallInv'
  BY DEF TypeOK, FrameInv, CallInv
<1>5. StartInv'
  BY DEF TypeOK, CallInv, StartInv
<1>6. QueueInv'
  BY DEF FrameInv, QueueInv
<1>7. FamilyInv'
  BY DEF CallInv, FamilyInv, Family, PushedLate
<1>8. TornInv'
  <2>1. \A o \in Ops : ~Unfinished(o)
    <3>1. \A u \in Threads : InFrame(u) => pc[u] = "begin"
      BY DEF MutexInv
    <3>2. cursor = 0
      BY <3>1 DEF FrameInv
    <3>. QED BY <3>1, <3>2 DEF CallInv
  <2>2. op[t] \in Ops /\ op[t] \notin torn
    <3>1. op[t] \in Ops
      BY DEF TypeOK, MutexInv
    <3>2. status[op[t]] = "waiting"
      BY DEF CallInv
    <3>. QED BY <3>1, <3>2 DEF TornInv
  <2>3. /\ status' = [status EXCEPT ![op[t]] = "running"] /\ status \in [Ops -> Statuses]
        /\ torn' = torn /\ inTx'
    BY DEF TypeOK
  <2>. QED BY <2>1, <2>2, <2>3 DEF TornInv
<1>9. DataInv'
  BY DEF TypeOK, CallInv, StartInv, DataInv
<1>10. FailureInv'
  <2>1. op[t] \in Ops /\ outer = op[t] /\ status[outer] = "waiting" /\ owner # NoThread
    BY DEF TypeOK, MutexInv, FrameInv, CallInv
  <2>2. status' = [status EXCEPT ![op[t]] = "running"] /\ status \in [Ops -> Statuses]
    BY DEF TypeOK
  <2>3. UNCHANGED <<durable, owner, outer, caught>>
    OBVIOUS
  <2>. QED BY <2>1, <2>2, <2>3 DEF FailureInv
<1> QED BY <1>1, <1>2, <1>3, <1>4, <1>5, <1>6, <1>7, <1>8, <1>9, <1>10

(* The statement of a callback joins the open SQLite transaction.          *)
LEMMA WriteKeeps ==
  ASSUME IInv, NEW t \in Threads, Write(t)
  PROVE  IInv'
<1> USE DEF Write, Execute
<1>1. TypeOK'
  BY DEF TypeOK, Statuses, Places, MutexInv
<1>2. MutexInv'
  BY DEF MutexInv
<1>3. FrameInv'
  BY DEF FrameInv
<1>4. CallInv'
  BY DEF CallInv
<1>5. StartInv'
  BY DEF FrameInv, CallInv, StartInv
<1>6. QueueInv'
  BY DEF QueueInv
<1>7. FamilyInv'
  BY DEF FamilyInv, Family, PushedLate
<1>8. TornInv'
  BY DEF TypeOK, MutexInv, CallInv, TornInv
<1>9. DataInv'
  <2>1. op[t] \in Ops /\ Unfinished(op[t])
    BY DEF TypeOK, MutexInv, FrameInv, CallInv
  <2>2. ~inTx => op[t] \in torn
    BY <2>1 DEF TornInv
  <2>3. /\ working' = working \cup {op[t]} /\ wrote' = wrote \cup {op[t]}
        /\ durable' = IF inTx THEN durable ELSE durable \cup {op[t]}
        /\ UNCHANGED <<status, torn, inTx>>
    OBVIOUS
  <2>. QED BY <2>1, <2>2, <2>3 DEF DataInv
<1>10. FailureInv'
  BY DEF FailureInv
<1> QED BY <1>1, <1>2, <1>3, <1>4, <1>5, <1>6, <1>7, <1>8, <1>9, <1>10

(* The pushed callback is the last of the vector.                          *)
LEMMA NestKeeps ==
  ASSUME IInv, NEW t \in Threads, NEW x \in Ops, Nest(t, x)
  PROVE  IInv'
<1> USE DEF Nest, PushBack
<1>1. TypeOK'
  BY DEF TypeOK, Statuses, Places
<1>2. MutexInv'
  BY DEF MutexInv
<1>3. FrameInv'
  BY DEF TypeOK, FrameInv, CallInv
<1>4. CallInv'
  BY DEF TypeOK, Statuses, Places, FrameInv, CallInv
<1>5. StartInv'
  BY DEF StartInv
<1>6. QueueInv'
  <2> SUFFICES ASSUME owner # NoThread, NEW i \in 1..Len(queue')
               PROVE  /\ caller'[queue'[i]] = owner
                      /\ parent'[queue'[i]] \in Ops
                      /\ status'[parent'[queue'[i]]] \in {"running", "ran"}
                      /\ i <= cursor => status'[queue'[i]] = "ran"
                      /\ i > cursor =>
                           \/ status'[queue'[i]] = "queued"
                           \/ i = cursor + 1 /\ pc[owner] = "deferred"
                      /\ \A j \in 1..Len(queue') : queue'[i] = queue'[j] => i = j
    BY DEF QueueInv
  <2>1. /\ owner = t /\ op[t] \in Ops /\ op[t] # x
        /\ status[op[t]] = "running" /\ status'[op[t]] = "running"
    BY DEF TypeOK, MutexInv, CallInv, FrameInv
  <2>2. /\ Len(queue) \in Nat /\ Len(queue') = Len(queue) + 1 /\ queue'[Len(queue) + 1] = x
        /\ cursor \in 0..Len(queue)
        /\ \A j \in 1..Len(queue) : queue'[j] = queue[j] /\ queue[j] \in Ops
    BY DEF TypeOK, FrameInv
  <2>3. \A j \in 1..Len(queue') : j = Len(queue) + 1 \/ j \in 1..Len(queue)
    BY <2>2
  <2>4. \A j \in 1..Len(queue) : queue[j] # x
    <3>1. pc[t] = "deferred" => op[t] = queue[cursor + 1]
      BY DEF FrameInv
    <3>2. status[x] = "new" /\ owner # NoThread
      BY <2>1
    <3>. QED BY <2>1, <2>2, <3>1, <3>2 DEF QueueInv
  <2>5. \A o \in Ops \ {x} :
          /\ status'[o] = status[o] /\ caller'[o] = caller[o] /\ parent'[o] = parent[o]
    BY DEF TypeOK
  <2>6. status'[x] = "queued" /\ caller'[x] = t /\ parent'[x] = op[t]
    BY DEF TypeOK
  <2>7. CASE i = Len(queue) + 1
    <3>1. ~(i <= cursor) /\ queue'[i] = x
      BY <2>2, <2>7
    <3>2. \A j \in 1..Len(queue') : queue'[j] = x => i = j
      BY <2>2, <2>3, <2>4, <2>7
    <3>. QED BY <2>1, <2>6, <3>1, <3>2
  <2>8. CASE i \in 1..Len(queue)
    <3>1. queue'[i] = queue[i] /\ queue[i] \in Ops \ {x}
      BY <2>2, <2>4, <2>8
    <3>2. \A j \in 1..Len(queue') : queue'[i] = queue'[j] => i = j
      BY <2>2, <2>3, <2>8, <3>1 DEF QueueInv
    <3>3. parent[queue[i]] \in Ops /\ status[parent[queue[i]]] \in {"running", "ran"}
      BY <2>1, <2>8 DEF QueueInv, MutexInv
    <3>4. status'[parent[queue[i]]] \in {"running", "ran"}
      BY <2>5, <3>3
    <3>. QED BY <2>1, <2>5, <2>8, <3>1, <3>2, <3>3, <3>4, SMTT(30) DEF QueueInv
  <2>. QED BY <2>3, <2>7, <2>8
<1>7. FamilyInv'
  <2>1. Len(queue') = Len(queue) + 1 /\ queue'[Len(queue')] = x
    BY DEF TypeOK
  <2>2. \A i \in 1..Len(queue) : queue'[i] = queue[i]
    BY DEF TypeOK
  <2>3. /\ parent[x] = NoOp /\ op[t] \in Ops /\ op[t] # x
        /\ status[op[t]] = "running" /\ status'[op[t]] = "running"
        /\ Draining(t) => op[t] # outer
    BY DEF TypeOK, CallInv, FrameInv, MutexInv
  <2> SUFFICES ASSUME NEW o \in Ops, parent'[o] # NoOp PROVE Family(o)'
    BY DEF FamilyInv
  <2>4. CASE o = x
    <3>1. parent'[x] = op[t] /\ status'[x] = "queued"
      BY DEF TypeOK
    <3>2. ASSUME op[t] = outer, NEW s \in Threads, Draining(s)' PROVE FALSE
      <4>1. s = t
        BY <3>2 DEF MutexInv
      <4>. QED BY <2>3, <3>2, <4>1
    <3>3. Len(queue') \in 1..Len(queue')
      BY <2>1 DEF TypeOK
    <3>. QED BY <2>1, <2>3, <2>4, <3>1, <3>2, <3>3 DEF Family
  <2>5. CASE o # x
    <3>1. parent'[o] = parent[o] /\ parent[o] \in Ops /\ status'[o] = status[o]
      BY <2>5 DEF TypeOK
    <3>2. parent[o] # x
      BY <3>1 DEF FamilyInv, Family
    <3>3. status'[parent[o]] = status[parent[o]]
      BY <3>1, <3>2 DEF TypeOK
    <3>4. PushedLate(o) => PushedLate(o)'
      BY <3>1, <3>2 DEF PushedLate, TypeOK
    <3>5. Len(queue) \in Nat
      BY DEF TypeOK
    <3>. QED BY <2>1, <2>2, <2>5, <3>1, <3>3, <3>4, <3>5 DEF FamilyInv, Family
  <2>. QED BY <2>4, <2>5
<1>8. TornInv'
  BY DEF TypeOK, MutexInv, CallInv, TornInv
<1>9. DataInv'
  BY DEF DataInv
<1>10. FailureInv'
  <2>1. \A p \in Ops : status[p] \in {"aborted", "lost"} => status'[p] = status[p]
    BY DEF TypeOK
  <2>2. \A o \in Ops : status'[o] = "acked" /\ o \notin durable' =>
          \/ status[o] = "acked" /\ o \notin durable /\ caught'[o] = caught[o]
          \/ /\ caught'[o] = outer /\ outer \in Ops /\ status'[outer] = "running"
             /\ o \in working'
    BY DEF TypeOK, MutexInv
  <2>3. outer \in Ops /\ status[outer] = "running" => status'[outer] = "running"
    BY DEF TypeOK, CallInv, FrameInv, MutexInv
  <2>. QED BY <2>1, <2>2, <2>3, FailurePersists DEF DataInv, MutexInv
<1> QED BY <1>1, <1>2, <1>3, <1>4, <1>5, <1>6, <1>7, <1>8, <1>9, <1>10

(* All that the outer callback pushed is within the bounds of for_each.    *)
LEMMA CallbackReturnsKeeps ==
  ASSUME IInv, NEW t \in Threads, CallbackReturns(t)
  PROVE  IInv'
<1> USE DEF CallbackReturns, LengthToDrain
<1>1. TypeOK'
  BY DEF TypeOK, Statuses, Places
<1>2. MutexInv'
  BY DEF MutexInv
<1>3. FrameInv'
  BY DEF MutexInv, FrameInv
<1>4. CallInv'
  BY DEF FrameInv, CallInv
<1>5. StartInv'
  BY DEF StartInv
<1>6. QueueInv'
  BY DEF MutexInv, FrameInv, QueueInv
<1>7. FamilyInv'
  BY DEF FamilyInv, Family, PushedLate
<1>8. TornInv'
  BY DEF TypeOK, MutexInv, CallInv, TornInv
<1>9. DataInv'
  BY DEF DataInv
<1>10. FailureInv'
  BY DEF FailureInv
<1> QED BY <1>1, <1>2, <1>3, <1>4, <1>5, <1>6, <1>7, <1>8, <1>9, <1>10

(* The next callback becomes a running one, and keeps its place.           *)
LEMMA RunDeferredKeeps ==
  ASSUME IInv, NEW t \in Threads, RunDeferred(t)
  PROVE  IInv'
<1> USE DEF RunDeferred
<1>1. TypeOK'
  BY DEF TypeOK, Statuses, Places, FrameInv
<1>2. MutexInv'
  BY DEF TypeOK, MutexInv, FrameInv
<1>3. FrameInv'
  <2>1. cursor + 1 \in 1..Len(queue) /\ queue[cursor + 1] \in Ops
    BY NextIsQueued
  <2>2. status[queue[cursor + 1]] = "queued"
    BY NextIsQueued
  <2>3. status[outer] = "running"
    BY DEF CallInv
  <2>. QED BY <2>1, <2>2, <2>3 DEF FrameInv, MutexInv, TypeOK
<1>4. CallInv'
  <2>1. cursor + 1 \in 1..Len(queue) /\ queue[cursor + 1] \in Ops
    BY NextIsQueued
  <2>2. status[queue[cursor + 1]] = "queued" /\ caller[queue[cursor + 1]] = t
    BY NextIsQueued
  <2>3. outer \in Ops /\ status[outer] = "running" /\ op[t] = outer
    BY DEF CallInv, FrameInv, MutexInv
  <2>4. \A s \in Threads \ {t} : pc'[s] = pc[s] /\ op'[s] = op[s] /\ ~InFrame(s)
    BY DEF TypeOK, MutexInv
  <2>5. op'[t] = queue[cursor + 1] /\ pc'[t] = "deferred"
    BY DEF TypeOK
  <2>6. \A s \in Threads :
          /\ pc'[s] # "idle" => caller'[op'[s]] = s
          /\ InFrame(s)' => caller'[outer'] = s
          /\ pc'[s] \in {"lock", "begin"} => status'[op'[s]] = "waiting"
          /\ InSqliteTransaction(s)' => status'[outer'] = "running"
          /\ pc'[s] = "deferred" => status'[op'[s]] = "running"
    BY <2>1, <2>2, <2>3, <2>4, <2>5 DEF TypeOK, CallInv
  <2>7. \A o \in Ops :
          /\ status'[o] = "running" =>
               \E s \in Threads : InSqliteTransaction(s)' /\ o \in {outer', op'[s]}
          /\ status'[o] = "ran" => \E i \in 1..cursor' : queue'[i] = o
          /\ status'[o] \in {"new", "waiting"} => parent'[o] = NoOp
    <3> DEFINE q == queue[cursor + 1]
    <3>1. /\ q \in Ops /\ status' = [status EXCEPT ![q] = "running"]
          /\ status \in [Ops -> Statuses] /\ status[q] = "queued"
          /\ op'[t] = q /\ InSqliteTransaction(t)'
          /\ UNCHANGED <<queue, cursor, parent, outer>>
      BY <2>1, <2>2, <2>5 DEF TypeOK
    <3> HIDE DEF q
    <3>2. \A o \in Ops : status[o] = "running" => o = outer
      BY <2>3, <2>4 DEF CallInv
    <3>. QED BY <2>3, <3>1, <3>2 DEF CallInv
  <2>. QED BY <2>6, <2>7 DEF CallInv
<1>5. StartInv'
  <2>1. cursor + 1 \in 1..Len(queue) /\ queue[cursor + 1] \in Ops
    BY NextIsQueued
  <2>2. status[queue[cursor + 1]] = "queued"
    BY NextIsQueued
  <2>3. runs[queue[cursor + 1]] = 0
    BY <2>1, <2>2 DEF StartInv
  <2>. QED BY <2>1, <2>2, <2>3 DEF StartInv, TypeOK
<1>6. QueueInv'
  BY DEF TypeOK, MutexInv, FrameInv, QueueInv
<1>7. FamilyInv'
  <2>1. cursor + 1 \in 1..Len(queue) /\ queue[cursor + 1] \in Ops
    BY NextIsQueued
  <2>2. status[queue[cursor + 1]] = "queued"
    BY NextIsQueued
  <2> SUFFICES ASSUME NEW o \in Ops, parent[o] # NoOp PROVE Family(o)'
    BY DEF FamilyInv
  <2>3. parent[o] \in Ops /\ parent[o] # queue[cursor + 1]
    <3>1. parent[o] \in Ops
      BY DEF TypeOK
    <3>2. status[parent[o]] # "queued"
      BY DEF FamilyInv, Family
    <3>. QED BY <2>2, <3>1, <3>2
  <2>4. status'[parent[o]] = status[parent[o]]
    BY <2>1, <2>3 DEF TypeOK
  <2>5. status'[o] \in {"committed", "dropped"} <=> status[o] \in {"committed", "dropped"}
    BY <2>1, <2>2 DEF TypeOK
  <2>6. status'[o] = "committed" <=> status[o] = "committed"
    BY <2>1, <2>2 DEF TypeOK
  <2>7. Draining(t)
    OBVIOUS
  <2>. QED BY <2>3, <2>4, <2>5, <2>6, <2>7
       DEF FamilyInv, Family, PushedLate
<1>8. TornInv'
  <2> DEFINE q == queue[cursor + 1]
  <2>1. q \in Ops /\ status[q] = "queued"
    BY NextIsQueued
  <2>2. /\ status' = [status EXCEPT ![q] = "running"] /\ status \in [Ops -> Statuses]
        /\ inTx' = inTx /\ torn' = IF inTx THEN torn ELSE torn \cup {q}
    BY DEF TypeOK
  <2> HIDE DEF q
  <2>3. q \notin torn
    BY <2>1 DEF TornInv
  <2>. QED BY <2>1, <2>2, <2>3 DEF TornInv
<1>9. DataInv'
  <2>1. cursor + 1 \in 1..Len(queue) /\ queue[cursor + 1] \in Ops
    BY NextIsQueued
  <2>2. status[queue[cursor + 1]] = "queued"
    BY NextIsQueued
  <2>. QED BY <2>1, <2>2 DEF DataInv, StartInv, TypeOK
<1>10. FailureInv'
  <2>1. \A p \in Ops : status[p] \in {"aborted", "lost"} => status'[p] = status[p]
    BY NextIsQueued DEF TypeOK
  <2>2. \A o \in Ops : status'[o] = "acked" /\ o \notin durable' =>
          \/ status[o] = "acked" /\ o \notin durable /\ caught'[o] = caught[o]
          \/ /\ caught'[o] = outer /\ outer \in Ops /\ status'[outer] = "running"
             /\ o \in working'
    BY DEF TypeOK, MutexInv
  <2>3. outer \in Ops /\ status[outer] = "running" => status'[outer] = "running"
    BY DEF TypeOK, CallInv, FrameInv, MutexInv
  <2>. QED BY <2>1, <2>2, <2>3, FailurePersists DEF DataInv, MutexInv
<1> QED BY <1>1, <1>2, <1>3, <1>4, <1>5, <1>6, <1>7, <1>8, <1>9, <1>10

(* The callback that ran joins the part of the vector that is done.        *)
LEMMA DeferredReturnsKeeps ==
  ASSUME IInv, NEW t \in Threads, DeferredReturns(t)
  PROVE  IInv'
<1> USE DEF DeferredReturns
<1>1. TypeOK'
  BY DEF TypeOK, Statuses, Places, MutexInv
<1>2. MutexInv'
  BY DEF MutexInv, FrameInv
<1>3. FrameInv'
  BY DEF TypeOK, MutexInv, FrameInv
<1>4. CallInv'
  <2>1. cursor' = cursor + 1 /\ queue' = queue /\ op[t] = queue[cursor'] /\ cursor \in Nat
    BY DEF TypeOK, FrameInv
  <2>2. \A o \in Ops : status'[o] = "ran" => \E i \in 1..cursor' : queue'[i] = o
    <3> SUFFICES ASSUME NEW o \in Ops, status'[o] = "ran"
                 PROVE  \E i \in 1..cursor' : queue'[i] = o
      OBVIOUS
    <3>1. CASE o = op[t]
      BY <2>1, <3>1
    <3>2. CASE o # op[t]
      <4>1. status[o] = "ran"
        BY <3>2 DEF TypeOK
      <4>2. PICK i \in 1..cursor : queue[i] = o
        BY <4>1 DEF CallInv
      <4>. QED BY <2>1, <4>2
    <3>. QED BY <3>1, <3>2
  <2>3. \A s \in Threads :
          /\ pc'[s] # "idle" => caller'[op'[s]] = s
          /\ InFrame(s)' => caller'[outer'] = s
          /\ pc'[s] \in {"lock", "begin"} => status'[op'[s]] = "waiting"
          /\ InSqliteTransaction(s)' => status'[outer'] = "running"
          /\ pc'[s] = "deferred" => status'[op'[s]] = "running"
    <3> SUFFICES ASSUME NEW s \in Threads
                 PROVE  /\ pc'[s] # "idle" => caller'[op'[s]] = s
                        /\ InFrame(s)' => caller'[outer'] = s
                        /\ pc'[s] \in {"lock", "begin"} => status'[op'[s]] = "waiting"
                        /\ InSqliteTransaction(s)' => status'[outer'] = "running"
                        /\ pc'[s] = "deferred" => status'[op'[s]] = "running"
      OBVIOUS
    <3>1. /\ op[t] \in Ops /\ outer \in Ops /\ op[t] # outer
          /\ status[op[t]] = "running" /\ status[outer] = "running"
      BY DEF TypeOK, MutexInv, FrameInv, CallInv
    <3>2. CASE s = t
      <4>. QED BY <3>1, <3>2 DEF TypeOK, CallInv
    <3>3. CASE s # t
      <4>1. pc'[s] = pc[s] /\ op'[s] = op[s] /\ ~InFrame(s)
        BY <3>3 DEF TypeOK, MutexInv
      <4>. QED BY <3>1, <3>3, <4>1 DEF TypeOK, CallInv
    <3>. QED BY <3>2, <3>3
  <2>4. \A o \in Ops :
          /\ status'[o] = "running" =>
               \E s \in Threads : InSqliteTransaction(s)' /\ o \in {outer', op'[s]}
          /\ status'[o] \in {"new", "waiting"} => parent'[o] = NoOp
    BY DEF TypeOK, MutexInv, FrameInv, CallInv
  <2>. QED BY <2>2, <2>3, <2>4 DEF CallInv
<1>5. StartInv'
  BY DEF StartInv
<1>6. QueueInv'
  BY DEF TypeOK, FrameInv, QueueInv
<1>7. FamilyInv'
  BY DEF CallInv, FamilyInv, Family, PushedLate
<1>8. TornInv'
  <2>1. op[t] \in Ops /\ status[op[t]] = "running"
    BY DEF TypeOK, MutexInv, CallInv
  <2>2. /\ status' = [status EXCEPT ![op[t]] = "ran"] /\ status \in [Ops -> Statuses]
        /\ UNCHANGED <<torn, inTx>>
    BY DEF TypeOK
  <2>. QED BY <2>1, <2>2 DEF TornInv
<1>9. DataInv'
  BY DEF CallInv, DataInv
<1>10. FailureInv'
  <2>1. op[t] \in Ops /\ status[op[t]] = "running" /\ op[t] # outer
    BY DEF TypeOK, MutexInv, FrameInv, CallInv
  <2>2. status' = [status EXCEPT ![op[t]] = "ran"] /\ status \in [Ops -> Statuses]
    BY DEF TypeOK
  <2>3. UNCHANGED <<owner, locked, outer, inTx, working, durable, caught>>
    OBVIOUS
  <2>. QED BY <2>1, <2>2, <2>3 DEF FailureInv
<1> QED BY <1>1, <1>2, <1>3, <1>4, <1>5, <1>6, <1>7, <1>8, <1>9, <1>10

(* What ran is committed, what was pushed late is dropped.                 *)
LEMMA CommitKeeps ==
  ASSUME IInv, NEW t \in Threads, Commit(t)
  PROVE  IInv'
<1> USE DEF Commit, DurableAfterCommit, LockedAfterCommit, QueueAfterCommit
<1>1. TypeOK'
  <2>1. status' \in [Ops -> Statuses]
    BY DEF TypeOK, Statuses
  <2>2. queue' \in Seq(Ops)
    OBVIOUS
  <2>. QED BY <2>1, <2>2 DEF TypeOK, Places
<1>2. MutexInv'
  BY DEF TypeOK, MutexInv
<1>3. FrameInv'
  BY DEF TypeOK, MutexInv, FrameInv
<1>4. CallInv'
  BY DEF TypeOK, MutexInv, FrameInv, CallInv
<1>5. StartInv'
  BY DEF StartInv
<1>6. QueueInv'
  BY DEF QueueInv
<1>7. FamilyInv'
  <2> SUFFICES ASSUME NEW o \in Ops, parent[o] # NoOp PROVE Family(o)'
    BY DEF FamilyInv
  <2> DEFINE p == parent[o]
  <2>1. p \in Ops /\ outer \in Ops /\ status[outer] = "running" /\ parent[outer] = NoOp
    BY DEF TypeOK, FrameInv, CallInv
  <2>2. \A q \in Ops : status[q] = "running" => q = outer
    BY DEF CallInv, FrameInv, MutexInv
  <2>3. CASE Unfinished(p)
    <3>1. status'[p] = "committed"
      BY <2>1, <2>2, <2>3
    <3>2. PICK i \in 1..Len(queue) : queue[i] = o /\ (p = outer => i <= stop)
      BY <2>3 DEF FamilyInv, Family
    <3>3. CASE p = outer
      <4>1. status[o] = "ran"
        BY <3>2, <3>3 DEF QueueInv, MutexInv, FrameInv, TypeOK
      <4>. QED BY <2>1, <3>1, <3>3, <4>1 DEF Family
    <3>4. CASE p # outer
      <4>1. parent[p] # NoOp
        <5>1. status[p] = "ran"
          BY <2>1, <2>2, <2>3, <3>4
        <5>2. PICK j \in 1..cursor : queue[j] = p
          BY <2>1, <5>1 DEF CallInv
        <5>. QED BY <5>2 DEF QueueInv, FrameInv, MutexInv, TypeOK
      <4>2. status[o] \in {"queued", "ran"}
        BY <3>2 DEF QueueInv, MutexInv, TypeOK
      <4>. QED BY <2>1, <3>1, <4>1, <4>2 DEF Family, PushedLate
    <3>. QED BY <3>3, <3>4
  <2>4. CASE ~Unfinished(p)
    <3>1. status'[p] = status[p] /\ status[p] \in {"committed", "aborted", "lost"}
      BY <2>1, <2>4 DEF FamilyInv, Family
    <3>2. o # outer
      BY <2>1
    <3>3. status[o] # "ran"
      <4> SUFFICES ASSUME status[o] = "ran" PROVE FALSE
        OBVIOUS
      <4>1. PICK j \in 1..cursor : queue[j] = o
        BY DEF CallInv
      <4>. QED BY <2>4, <4>1 DEF QueueInv, FrameInv, MutexInv, TypeOK
    <3>4. status[p] = "committed" => status'[o] = status[o]
      BY <3>2, <3>3 DEF FamilyInv, Family
    <3>5. status'[o] = "committed" => status[o] = "committed"
      BY <3>2, <3>3
    <3>. QED BY <3>1, <3>4, <3>5 DEF FamilyInv, Family, PushedLate
  <2>. QED BY <2>3, <2>4
<1>8. TornInv'
  <2>1. outer \in Ops /\ status[outer] = "running"
    BY DEF FrameInv, CallInv
  <2>2. \A o \in Ops : status[o] = "running" => o = outer
    BY DEF CallInv, FrameInv, MutexInv
  <2>3. \A o \in Ops : status'[o] =
          IF o = outer \/ status[o] = "ran" THEN "committed"
          ELSE IF status[o] = "queued" THEN "dropped" ELSE status[o]
    OBVIOUS
  <2>. QED BY <2>1, <2>2, <2>3 DEF TornInv
<1>9. DataInv'
  BY DEF TypeOK, FrameInv, CallInv, TornInv, DataInv
<1>10. FailureInv'
  BY DEF CallInv, DataInv, FailureInv
<1> QED BY <1>1, <1>2, <1>3, <1>4, <1>5, <1>6, <1>7, <1>8, <1>9, <1>10

(* A statement outside of callbacks belongs to no transaction of its own.  *)
LEMMA StatementKeeps ==
  ASSUME IInv, NEW t \in Threads, NEW x \in Ops, Statement(t, x)
  PROVE  IInv'
<1> USE DEF Statement, Execute
<1>1. TypeOK'
  BY DEF TypeOK, Statuses, Places
<1>2. MutexInv'
  BY DEF MutexInv
<1>3. FrameInv'
  BY DEF FrameInv
<1>4. CallInv'
  BY DEF TypeOK, Statuses, Places, FrameInv, CallInv
<1>5. StartInv'
  BY DEF TypeOK, StartInv
<1>6. QueueInv'
  BY DEF CallInv, QueueInv
<1>7. FamilyInv'
  BY DEF FamilyInv, Family, PushedLate
<1>8. TornInv'
  BY DEF TypeOK, MutexInv, CallInv, TornInv
<1>9. DataInv'
  BY DEF TypeOK, DataInv
<1>10. FailureInv'
  <2>1. \A p \in Ops : status[p] \in {"aborted", "lost"} => status'[p] = status[p]
    BY DEF TypeOK
  <2>2. ASSUME NEW o \in Ops, status'[o] = "acked", o \notin durable'
        PROVE  \/ status[o] = "acked" /\ o \notin durable /\ caught'[o] = caught[o]
               \/ /\ caught'[o] = outer /\ outer \in Ops /\ status'[outer] = "running"
                  /\ o \in working'
    <3>1. CASE o = x
      <4>1. inTx /\ caught'[o] = outer
        BY <2>2, <3>1 DEF TypeOK
      <4>2. outer \in Ops /\ status[outer] = "running"
        BY <4>1 DEF MutexInv, FrameInv, CallInv
      <4>. QED BY <3>1, <4>1, <4>2 DEF TypeOK
    <3>2. CASE o # x
      BY <2>2, <3>2 DEF TypeOK
    <3>. QED BY <3>1, <3>2
  <2>3. outer \in Ops /\ status[outer] = "running" => status'[outer] = "running"
    BY DEF TypeOK, CallInv, FrameInv, MutexInv
  <2>. QED BY <2>1, <2>2, <2>3, FailurePersists DEF DataInv, MutexInv
<1> QED BY <1>1, <1>2, <1>3, <1>4, <1>5, <1>6, <1>7, <1>8, <1>9, <1>10

(* What runs goes on without a SQLite transaction.                         *)
LEMMA RollsBackKeeps ==
  ASSUME IInv, NEW t \in Threads, RollsBack(t)
  PROVE  IInv'
<1> USE DEF RollsBack
<1>1. TypeOK'
  BY DEF TypeOK
<1>2. MutexInv'
  BY DEF MutexInv
<1>3. FrameInv'
  BY DEF FrameInv
<1>4. CallInv'
  BY DEF CallInv
<1>5. StartInv'
  BY DEF StartInv
<1>6. QueueInv'
  BY DEF QueueInv
<1>7. FamilyInv'
  BY DEF FamilyInv, Family, PushedLate
<1>8. TornInv'
  BY DEF TypeOK, TornInv
<1>9. DataInv'
  BY DEF TypeOK, DataInv
<1>10. FailureInv'
  BY DEF FailureInv
<1> QED BY <1>1, <1>2, <1>3, <1>4, <1>5, <1>6, <1>7, <1>8, <1>9, <1>10

(* Only the file survives, and nothing in it is unfinished.                *)
LEMMA CrashKeeps ==
  ASSUME IInv, Crash
  PROVE  IInv'
<1> USE DEF Crash
<1>1. TypeOK'
  <2>1. status' \in [Ops -> Statuses]
    BY DEF TypeOK, Statuses
  <2>2. queue' \in Seq(Ops)
    OBVIOUS
  <2>. QED BY <2>1, <2>2 DEF TypeOK, Places
<1>2. MutexInv'
  BY DEF MutexInv
<1>3. FrameInv'
  BY DEF FrameInv
<1>4. CallInv'
  BY DEF CallInv
<1>5. StartInv'
  BY DEF StartInv
<1>6. QueueInv'
  BY DEF QueueInv
<1>7. FamilyInv'
  BY DEF TypeOK, FamilyInv, Family, PushedLate
<1>8. TornInv'
  BY DEF TypeOK, MutexInv, CallInv, TornInv
<1>9. DataInv'
  BY DEF TypeOK, DataInv
<1>10. FailureInv'
  BY DEF MutexInv, FrameInv, CallInv, FailureInv
<1> QED BY <1>1, <1>2, <1>3, <1>4, <1>5, <1>6, <1>7, <1>8, <1>9, <1>10

(* An exception: everything unfinished is aborted, the flag stays.         *)
LEMMA UnwindKeeps ==
  ASSUME IInv, NEW t \in Threads, InFrame(t), Unwind(t)
  PROVE  IInv'
<1> USE DEF Unwind, WorkingAfterException, OwnerAfterException, LockedAfterException
<1>1. TypeOK'
  BY DEF TypeOK, Statuses, Places
<1>2. MutexInv'
  BY DEF TypeOK, MutexInv
<1>3. FrameInv'
  BY DEF TypeOK, MutexInv, FrameInv
<1>4. CallInv'
  BY DEF TypeOK, MutexInv, CallInv
<1>5. StartInv'
  BY DEF StartInv
<1>6. QueueInv'
  BY DEF QueueInv
<1>7. FamilyInv'
  BY DEF TypeOK, FrameInv, CallInv, FamilyInv, Family, PushedLate
<1>8. TornInv'
  BY DEF TypeOK, MutexInv, CallInv, TornInv
<1>9. DataInv'
  BY DEF TypeOK, FrameInv, CallInv, DataInv
<1>10. FailureInv'
  BY DEF FrameInv, FailureInv
<1> QED BY <1>1, <1>2, <1>3, <1>4, <1>5, <1>6, <1>7, <1>8, <1>9, <1>10

HIDE ConstantsAssumption
     DEF IInv, memory, frame, connection, issue, trace, InCallback, InFrame,
         InSqliteTransaction, Draining, Unfinished

-----------------------------------------------------------------------------
(* The invariant holds at first.                                           *)
LEMMA InitEstablishes == Init => IInv
<1> SUFFICES ASSUME Init PROVE IInv
  OBVIOUS
<1> USE ConstantsAssumption DEF Init
<1>1. TypeOK
  <2>1. queue \in Seq(Ops)
    OBVIOUS
  <2>2. /\ status \in [Ops -> Statuses] /\ caller \in [Ops -> Threads \cup {NoThread}]
        /\ parent \in [Ops -> Ops \cup {NoOp}] /\ runs \in [Ops -> Nat]
    BY DEF Statuses
  <2> QED BY <2>1, <2>2 DEF TypeOK, Places
<1>2. MutexInv /\ FrameInv /\ CallInv
  BY DEF MutexInv, FrameInv, CallInv, InFrame, InSqliteTransaction, Draining
<1>3. StartInv /\ QueueInv /\ FamilyInv
  BY DEF StartInv, QueueInv, FamilyInv
<1>4. TornInv /\ DataInv /\ FailureInv
  BY DEF TornInv, DataInv, FailureInv, Unfinished
<1> QED BY <1>1, <1>2, <1>3, <1>4 DEF IInv

(* Every way out of transaction() by an exception.                         *)
LEMMA ThrowsUnwind ==
  ASSUME NEW t \in Threads,
         BeginThrows(t) \/ CallbackThrows(t) \/ RunStale(t) \/ CommitThrows(t)
  PROVE  InFrame(t) /\ Unwind(t)
BY DEF BeginThrows, CallbackThrows, RunStale, CommitThrows,
       InFrame, InSqliteTransaction, InCallback

(* Nothing in it depends on anything but the variables.                    *)
LEMMA StutteringKeeps == ASSUME IInv, UNCHANGED vars PROVE IInv'
BY DEF vars, IInv, TypeOK, MutexInv, FrameInv, CallInv, StartInv, QueueInv,
       FamilyInv, Family, TornInv, DataInv, FailureInv, InFrame, InSqliteTransaction,
       Draining, Unfinished, PushedLate

(* Every step of Transactions preserves the invariant.                     *)
LEMMA NextKeeps == IInv /\ [Next]_vars => IInv'
<1> SUFFICES ASSUME IInv, [Next]_vars PROVE IInv'
  OBVIOUS
<1>1. ASSUME NEW t \in Threads, Advance(t) PROVE IInv'
  <2>1. CASE BeginThrows(t) \/ CallbackThrows(t) \/ RunStale(t) \/ CommitThrows(t)
    BY <2>1, ThrowsUnwind, UnwindKeeps
  <2>2. CASE EnterFirst(t)
    BY <2>2, EnterFirstKeeps
  <2>3. CASE EnterDeferred(t)
    BY <2>3, EnterDeferredKeeps
  <2>4. CASE Begin(t)
    BY <2>4, BeginKeeps
  <2>5. CASE CallbackReturns(t)
    BY <2>5, CallbackReturnsKeeps
  <2>6. CASE RunDeferred(t)
    BY <2>6, RunDeferredKeeps
  <2>7. CASE DeferredReturns(t)
    BY <2>7, DeferredReturnsKeeps
  <2>8. CASE Commit(t)
    BY <2>8, CommitKeeps
  <2> QED BY <1>1, <2>1, <2>2, <2>3, <2>4, <2>5, <2>6, <2>7, <2>8 DEF Advance
<1>2. ASSUME NEW t \in Threads, Write(t) PROVE IInv'
  BY <1>2, WriteKeeps
<1>3. ASSUME NEW t \in Threads, NEW o \in Ops, Call(t, o) PROVE IInv'
  BY <1>3, CallKeeps
<1>4. ASSUME NEW t \in Threads, NEW o \in Ops, Nest(t, o) PROVE IInv'
  BY <1>4, NestKeeps
<1>5. ASSUME NEW t \in Threads, NEW o \in Ops, Statement(t, o) PROVE IInv'
  BY <1>5, StatementKeeps
<1>6. ASSUME NEW t \in Threads, RollsBack(t) PROVE IInv'
  BY <1>6, RollsBackKeeps
<1>7. CASE Crash
  BY <1>7, CrashKeeps
<1>8. CASE UNCHANGED vars
  BY <1>8, StutteringKeeps
<1> QED BY <1>1, <1>2, <1>3, <1>4, <1>5, <1>6, <1>7, <1>8 DEF Next

(* The invariant holds in every reachable state.                           *)
THEOREM Invariance == Spec => []IInv
<1> QED BY InitEstablishes, NextKeeps, PTL DEF Spec

-----------------------------------------------------------------------------
(* The variables keep their types (transaction() never takes a callback    *)
(* from beyond the end of the vector it walks).                            *)
THEOREM TypeCorrectness == Spec => []TypeOK
<1>1. IInv => TypeOK
  BY DEF IInv
<1> QED BY <1>1, Invariance, PTL

(* The file never holds a part of a transaction, unless SQLite ended it.   *)
THEOREM Atomicity == Spec => []AllOrNothing
<1>1. IInv => AllOrNothing
  BY DEF IInv, DataInv, AllOrNothing
<1> QED BY <1>1, Invariance, PTL

(* A pushed callback is committed with the callback that pushed it.        *)
THEOREM SharedFate == Spec => []NestedSharesFate
<1>1. IInv => NestedSharesFate
  BY DEF IInv, FamilyInv, Family, NestedSharesFate
<1> QED BY <1>1, Invariance, PTL

(* A callback runs on the thread that passed it to transaction().          *)
THEOREM CallerRuns == Spec => []RunsOnCaller
<1>1. IInv => RunsOnCaller
  BY DEF IInv, CallInv, RunsOnCaller
<1> QED BY <1>1, Invariance, PTL

(* No callback runs twice.                                                 *)
THEOREM AtMostOnce == Spec => []RunAtMostOnce
<1>1. IInv => RunAtMostOnce
  BY DEF IInv, StartInv, RunAtMostOnce
<1> QED BY <1>1, Invariance, PTL

(* Only an exception leaves the flag set behind a finished call.           *)
THEOREM FlagMeaning == Spec => []SetFlagMeansException
<1>1. IInv => SetFlagMeansException
  BY ConstantsAssumption
     DEF IInv, MutexInv, FailureInv, SetFlagMeansException, InFrame
<1> QED BY <1>1, Invariance, PTL

(* An acknowledged statement is lost only with the call it was caught in.  *)
THEOREM AckedLoss == Spec => []AckedLostOnlyByOthers
<1>1. IInv => AckedLostOnlyByOthers
  BY DEF IInv, FailureInv, AckedLostOnlyByOthers
<1> QED BY <1>1, Invariance, PTL

(* What an exception leaves in the vector is never run.                    *)
THEOREM LeftoversStay == Spec => LeftoversNeverRun
<1>1. ASSUME IInv, [Next]_vars, NEW o \in Ops, Leftover(o)
      PROVE  runs'[o] = runs[o]
  <2> USE <1>1 DEF Leftover
  <2>1. runs \in [Ops -> Nat] /\ status[o] = "queued"
    BY DEF IInv, TypeOK
  <2>2. ASSUME NEW t \in Threads, Advance(t) PROVE runs'[o] = runs[o]
    <3>1. CASE Begin(t)
      <4>1. status[op[t]] = "waiting"
        BY <3>1 DEF IInv, CallInv, Begin
      <4> QED BY <2>1, <3>1, <4>1 DEF Begin
    <3>2. CASE RunDeferred(t)
      <4>1. Unfinished(parent[queue[cursor + 1]])
        BY <3>2, NextIsQueued DEF RunDeferred
      <4>2. o # queue[cursor + 1]
        BY <4>1 DEF Unfinished
      <4> QED BY <2>1, <3>2, <4>2 DEF RunDeferred
    <3>3. CASE BeginThrows(t) \/ CallbackThrows(t) \/ RunStale(t) \/ CommitThrows(t)
      BY <3>3, ThrowsUnwind DEF Unwind
    <3> QED BY <2>2, <3>1, <3>2, <3>3
            DEF Advance, EnterFirst, EnterDeferred, CallbackReturns,
                DeferredReturns, Commit
  <2>3. CASE UNCHANGED vars
    BY <2>3 DEF vars
  <2> QED BY <2>2, <2>3 DEF Next, Write, Call, Nest, Statement, RollsBack, Crash
<1>2. IInv /\ [Next]_vars => [\A o \in Ops : Leftover(o) => runs'[o] = runs[o]]_vars
  BY <1>1
<1> QED BY <1>2, Invariance, PTL DEF Spec, LeftoversNeverRun

-----------------------------------------------------------------------------
(* The refinement of UnitOfWork.                                           *)
Pending == {"waiting", "queued", "running", "ran"}

Failed == {"aborted", "dropped", "lost"}

(* How UnitOfWork sees each status.                                        *)
LEMMA OutcomeOfStatus ==
  ASSUME TypeOK, NEW o \in Ops
  PROVE  /\ Outcome(o) = "none" <=> status[o] = "new"
         /\ Outcome(o) = "pending" <=> status[o] \in Pending
         /\ Outcome(o) = "done" <=> status[o] = "committed"
         /\ Outcome(o) = "failed" <=> status[o] \in Failed
         /\ Outcome(o) = "acked" <=> status[o] = "acked"
<1>1. status[o] \in Statuses
  BY DEF TypeOK
<1> QED BY <1>1 DEF Outcome, Statuses, Pending, Failed

(* An operation that was pending and stays so has the same outcome.        *)
LEMMA SameOutcome ==
  ASSUME TypeOK, TypeOK', NEW o \in Ops,
         status'[o] = status[o] \/ {status[o], status'[o]} \subseteq Pending
  PROVE  Outcome(o)' = Outcome(o)
<1>1. CASE status'[o] = status[o]
  BY <1>1 DEF Outcome
<1>2. CASE {status[o], status'[o]} \subseteq Pending
  BY <1>2 DEF Outcome, Pending
<1> QED BY <1>1, <1>2

(* A step that leaves the file alone and decides nothing is a stutter.     *)
LEMMA Undecided ==
  ASSUME TypeOK, TypeOK', durable' = durable, torn' = torn,
         \A o \in Ops :
           status'[o] = status[o] \/ {status[o], status'[o]} \subseteq Pending
  PROVE  UNCHANGED Promise!vars
<1>1. \A o \in Ops : Outcome(o)' = Outcome(o)
  BY SameOutcome
<1> QED BY <1>1 DEF Promise!vars

(* A step that makes one new operation pending is Accept.                  *)
LEMMA Accepted ==
  ASSUME TypeOK, TypeOK', durable' = durable, torn' = torn, NEW x \in Ops,
         status[x] = "new", status'[x] \in Pending,
         \A o \in Ops \ {x} : status'[o] = status[o]
  PROVE  Promise!Accept(x)
<1>1. Outcome(x) = "none" /\ Outcome(x)' = "pending"
  BY OutcomeOfStatus DEF Outcome, Pending
<1>2. \A o \in Ops \ {x} : Outcome(o)' = Outcome(o)
  BY SameOutcome
<1> QED BY <1>1, <1>2 DEF Promise!Accept

(* A step that fails pending operations and leaves the file alone is a     *)
(* decision in favour of nobody.                                           *)
LEMMA AllFail ==
  ASSUME TypeOK, TypeOK', durable' = durable, torn' = torn,
         \A o \in Ops : \/ status'[o] = status[o]
                        \/ status[o] \in Pending /\ status'[o] \in Failed
  PROVE  Promise!Next
<1> DEFINE F == {o \in Ops : status'[o] # status[o]}
<1>1. \A o \in F : Outcome(o) = "pending" /\ Outcome(o)' = "failed"
  BY OutcomeOfStatus DEF Outcome, Pending, Failed
<1>2. \A o \in Ops \ F : Outcome(o)' = Outcome(o)
  BY SameOutcome
<1>3. Promise!Decide({}, F)
  BY <1>1, <1>2 DEF Promise!Decide
<1>4. F \in SUBSET Promise!Having("pending") /\ {} \in SUBSET Promise!Having("pending")
  BY <1>1 DEF Promise!Having
<1> QED BY <1>3, <1>4 DEF Promise!Next

(* A step after which operations of S have no transaction is Tear.         *)
LEMMA Torn ==
  ASSUME TypeOK, TypeOK', durable' = durable, NEW S \in SUBSET Ops,
         torn' = torn \cup S,
         \A o \in S : status[o] \in Pending,
         \A o \in Ops :
           status'[o] = status[o] \/ {status[o], status'[o]} \subseteq Pending
  PROVE  Promise!Next
<1>1. \A o \in Ops : Outcome(o)' = Outcome(o)
  BY SameOutcome
<1>2. Promise!Tear(S)
  BY <1>1 DEF Promise!Tear
<1>3. S \in SUBSET Promise!Having("pending")
  BY OutcomeOfStatus DEF Promise!Having
<1> QED BY <1>2, <1>3 DEF Promise!Next

(* Commit decides for what ran and against what was pushed late.           *)
LEMMA CommitDecides ==
  ASSUME IInv, TypeOK', NEW t \in Threads, Commit(t)
  PROVE  Promise!Next
<1> DEFINE D == {o \in Ops : o = outer \/ status[o] = "ran"}
           F == {o \in Ops : o \notin D /\ status[o] = "queued"}
<1> USE DEF IInv, InFrame, InSqliteTransaction, Commit
<1>1. outer \in D /\ status[outer] = "running"
  BY DEF FrameInv, CallInv
<1>2. \A o \in Ops : status[o] = "running" => o = outer
  BY DEF CallInv, FrameInv, MutexInv
<1>3. \A o \in D : Outcome(o) = "pending" /\ Outcome(o)' = "done"
  BY <1>1 DEF Outcome
<1>4. \A o \in F : Outcome(o) = "pending" /\ Outcome(o)' = "failed"
  BY DEF Outcome
<1>5. \A o \in Ops \ (D \cup F) : Outcome(o)' = Outcome(o)
  BY SameOutcome
<1>6. durable \subseteq durable'
  BY DEF DataInv, DurableAfterCommit
<1>7. \A o \in working : o \in durable \/ o \in D \/ Outcome(o) = "acked"
  <2> SUFFICES ASSUME NEW o \in working
               PROVE  o \in durable \/ o \in D \/ Outcome(o) = "acked"
    OBVIOUS
  <2>1. o \in Ops /\ o \in wrote
    BY DEF TypeOK, DataInv
  <2>2. CASE Unfinished(o)
    BY <1>2, <2>1, <2>2 DEF Unfinished
  <2>3. CASE status[o] = "acked"
    BY <2>1, <2>3, OutcomeOfStatus
  <2> QED BY <2>2, <2>3 DEF DataInv
<1>8. durable' \subseteq durable \cup D \cup Promise!Having("acked")
  BY <1>7 DEF DurableAfterCommit, Promise!Having, TypeOK
<1>9. D \cap torn = {}
  BY <1>1 DEF TornInv, Unfinished
<1>10. Promise!Decide(D, F)
  BY <1>1, <1>3, <1>4, <1>5, <1>6, <1>8, <1>9 DEF Promise!Decide, trace
<1>11. D \in SUBSET Promise!Having("pending") /\ F \in SUBSET Promise!Having("pending")
  BY <1>3, <1>4 DEF Promise!Having
<1> QED BY <1>10, <1>11 DEF Promise!Next

(* A statement outside of transaction() is Acknowledge.                    *)
LEMMA StatementAcknowledges ==
  ASSUME IInv, TypeOK', NEW t \in Threads, NEW x \in Ops, Statement(t, x)
  PROVE  Promise!Acknowledge(x)
<1>1. Outcome(x) = "none" /\ Outcome(x)' = "acked"
  BY DEF Outcome, IInv, TypeOK, Statement
<1>2. \A o \in Ops \ {x} : Outcome(o)' = Outcome(o)
  BY SameOutcome DEF IInv, TypeOK, Statement
<1>3. durable' = durable \/ durable' = durable \cup {x}
  BY DEF Statement, Execute
<1>4. torn' = torn
  BY DEF Statement
<1> QED BY <1>1, <1>2, <1>3, <1>4 DEF Promise!Acknowledge

(* Every step is a step of UnitOfWork or a stutter.                        *)
LEMMA StepRefines == IInv /\ IInv' /\ [Next]_vars => [Promise!Next]_(Promise!vars)
<1> SUFFICES ASSUME IInv, IInv', [Next]_vars
             PROVE  Promise!Next \/ UNCHANGED Promise!vars
  OBVIOUS
<1>1. TypeOK /\ TypeOK'
  BY DEF IInv
<1>2. ASSUME NEW t \in Threads, Advance(t)
      PROVE  Promise!Next \/ UNCHANGED Promise!vars
  <2>1. CASE BeginThrows(t) \/ CallbackThrows(t) \/ RunStale(t) \/ CommitThrows(t)
    <3>1. InFrame(t) /\ Unwind(t)
      BY <2>1, ThrowsUnwind
    <3>2. outer \in Ops /\ status[outer] \in Pending
      BY <3>1 DEF IInv, FrameInv, CallInv, InFrame, Pending
    <3>3. \A o \in Ops : \/ status'[o] = status[o]
                         \/ status[o] \in Pending /\ status'[o] \in Failed
      BY <3>1, <3>2 DEF Unwind, Pending, Failed
    <3> QED BY <1>1, <3>1, <3>3, AllFail DEF Unwind, trace
  <2>2. CASE Commit(t)
    BY <1>1, <2>2, CommitDecides
  <2>3. CASE EnterFirst(t) \/ CallbackReturns(t)
    BY <1>1, <2>3, Undecided DEF EnterFirst, CallbackReturns, connection, trace
  <2>4. CASE EnterDeferred(t)
    <3>1. status[op[t]] = "waiting"
      BY <2>4 DEF IInv, CallInv, EnterDeferred
    <3> QED BY <1>1, <2>4, <3>1, Undecided DEF EnterDeferred, connection, trace, Pending, TypeOK
  <2>5. CASE Begin(t)
    <3>1. status[op[t]] = "waiting"
      BY <2>5 DEF IInv, CallInv, Begin
    <3> QED BY <1>1, <2>5, <3>1, Undecided DEF Begin, trace, Pending, TypeOK
  <2>6. CASE RunDeferred(t)
    <3> DEFINE q == queue[cursor + 1]
    <3>1. q \in Ops /\ status[q] = "queued"
      BY <2>6, NextIsQueued DEF RunDeferred
    <3>2. /\ durable' = durable
          /\ status' = [status EXCEPT ![q] = "running"]
          /\ torn' = torn \/ torn' = torn \cup {q}
      BY <2>6 DEF RunDeferred, connection
    <3> HIDE DEF q
    <3>3. \A o \in Ops : status'[o] = status[o] \/ {status[o], status'[o]} \subseteq Pending
      BY <1>1, <3>1, <3>2 DEF Pending, TypeOK
    <3>4. CASE torn' = torn
      BY <1>1, <3>2, <3>3, <3>4, Undecided
    <3>5. CASE torn' = torn \cup {q}
      BY <1>1, <3>1, <3>2, <3>3, <3>5, Torn DEF Pending
    <3> QED BY <3>2, <3>4, <3>5
  <2>7. CASE DeferredReturns(t)
    <3>1. status[op[t]] = "running"
      BY <2>7 DEF IInv, CallInv, DeferredReturns
    <3> QED BY <1>1, <2>7, <3>1, Undecided DEF DeferredReturns, connection, trace, Pending, TypeOK
  <2> QED BY <1>2, <2>1, <2>2, <2>3, <2>4, <2>5, <2>6, <2>7 DEF Advance
<1>3. ASSUME NEW t \in Threads, Write(t) PROVE Promise!Next \/ UNCHANGED Promise!vars
  <2>1. op[t] \in Ops /\ status[op[t]] = "running"
    BY <1>3 DEF IInv, TypeOK, FrameInv, CallInv, Write, InCallback, InFrame,
                InSqliteTransaction
  <2>2. status' = status /\ torn' = torn
    BY <1>3 DEF Write, trace
  <2>3. CASE inTx
    BY <1>1, <1>3, <2>2, <2>3, Undecided DEF Write, Execute
  <2>4. CASE ~inTx
    <3>1. op[t] \in torn
      BY <2>1, <2>4 DEF IInv, TornInv, Unfinished
    <3>2. durable' = durable \cup {op[t]}
      BY <1>3, <2>4 DEF Write, Execute
    <3>3. Outcome(op[t]) = "pending" /\ \A o \in Ops : Outcome(o)' = Outcome(o)
      BY <1>1, <2>1, <2>2, SameOutcome DEF Outcome
    <3>4. Promise!Leak(op[t])
      BY <2>1, <2>2, <3>1, <3>2, <3>3 DEF Promise!Leak
    <3> QED BY <2>1, <3>4 DEF Promise!Next
  <2> QED BY <2>3, <2>4
<1>4. ASSUME NEW t \in Threads, NEW o \in Ops, Call(t, o) PROVE Promise!Next
  <2>1. Promise!Accept(o)
    BY <1>1, <1>4, Accepted DEF Call, connection, trace, Pending, TypeOK
  <2> QED BY <2>1 DEF Promise!Next
<1>5. ASSUME NEW t \in Threads, NEW o \in Ops, Nest(t, o) PROVE Promise!Next
  <2>1. Promise!Accept(o)
    BY <1>1, <1>5, Accepted DEF Nest, connection, trace, Pending, TypeOK
  <2> QED BY <2>1 DEF Promise!Next
<1>6. ASSUME NEW t \in Threads, NEW o \in Ops, Statement(t, o) PROVE Promise!Next
  <2>1. Promise!Acknowledge(o)
    BY <1>1, <1>6, StatementAcknowledges
  <2> QED BY <2>1 DEF Promise!Next
<1>7. ASSUME NEW t \in Threads, RollsBack(t) PROVE Promise!Next
  <2> DEFINE S == {o \in Ops : Unfinished(o)}
  <2>1. durable' = durable /\ status' = status /\ torn' = torn \cup S
    BY <1>7 DEF RollsBack
  <2>2. \A o \in S : status[o] \in Pending
    BY DEF Unfinished, Pending
  <2> HIDE DEF S
  <2>3. S \in SUBSET Ops
    BY DEF S
  <2> QED BY <1>1, <2>1, <2>2, <2>3, Torn
<1>8. CASE Crash
  BY <1>1, <1>8, AllFail DEF Crash, trace, Pending, Failed
<1>9. CASE UNCHANGED vars
  BY <1>1, <1>9, Undecided DEF vars
<1> QED BY <1>2, <1>3, <1>4, <1>5, <1>6, <1>7, <1>8, <1>9 DEF Next

(* transaction() and the statements around it implement UnitOfWork: what   *)
(* the file holds and what is decided about calls change together.         *)
THEOREM Refinement == Spec => PromiseKept
<1>1. Init => Promise!Init
  BY DEF Init, Promise!Init, Outcome
<1>2. IInv /\ IInv' /\ [Next]_vars => [Promise!Next]_(Promise!vars)
  BY StepRefines
<1> QED BY <1>1, <1>2, Invariance, PTL DEF Spec, Promise!Spec, PromiseKept

-----------------------------------------------------------------------------
(***************************************************************************)
(* Batches.  A batch is a client of transaction(), so the theorems above   *)
(* hold for it; what they say about whole operations is carried over to    *)
(* the single models here.                                                 *)
(***************************************************************************)

(* What the connection and the file hold of the models.                    *)
FileInv ==
  /\ kept \subseteq done
  /\ ~inTx => done = kept
  /\ KeptIsCommitted
  /\ \A e \in done : e \in kept \/ Unfinished(e[1])

(* How far the loops over the models are.                                  *)
LoopInv ==
  /\ CommittedIsComplete
  /\ \A o \in Ops :
       /\ status[o] \in {"new", "waiting", "queued"} => at[o] = 0
       /\ Unfinished(o) /\ ~gone[o] /\ o \notin torn =>
            \A i \in 1..at[o] : <<o, i>> \in done \cup ignored
       /\ \/ status[o] = "ran"
          \/ o = outer /\ \E t \in Threads : Draining(t)
          => Models(o) \subseteq 1..at[o]

(* What callers were told, and the callbacks that nothing will ever run.   *)
AnswerInv ==
  /\ SuccessWithoutCommit
  /\ \A o \in Ops :
       /\ answer[o] = "error" => status[o] = "aborted"
       /\ status[o] = "queued" /\ parent[o] = NoOp => owner = NoThread /\ locked

BInv == IInv /\ BatchTypeOK /\ FileInv /\ LoopInv /\ AnswerInv

-----------------------------------------------------------------------------

(* A running callback has started, and no other one is in its way.         *)
LEMMA RunningCallback ==
  ASSUME IInv, NEW t \in Threads, InCallback(t)
  PROVE  /\ op[t] \in Ops /\ status[op[t]] = "running" /\ owner = t
         /\ ~inTx => op[t] \in torn
<1>1. TypeOK /\ MutexInv /\ FrameInv /\ CallInv
  BY DEF IInv
<1>2. op[t] \in Ops /\ status[op[t]] = "running" /\ owner = t
  BY <1>1, ConstantsAssumption
     DEF TypeOK, MutexInv, FrameInv, CallInv, InCallback, InFrame, InSqliteTransaction
<1> QED BY <1>2 DEF IInv, TornInv, Unfinished

(* The call that set the flag.                                             *)
LEMMA FrameFacts ==
  ASSUME IInv, NEW t \in Threads, InFrame(t)
  PROVE  /\ outer \in Ops /\ status[outer] \in {"waiting", "running"}
         /\ parent[outer] = NoOp
         /\ owner = t /\ owner # NoThread
         /\ pc[t] = "drain" =>
              /\ status[outer] = "running"
              /\ \A o \in Ops : status[o] = "running" => o = outer
<1>1. TypeOK /\ MutexInv /\ FrameInv /\ CallInv
  BY DEF IInv
<1>2. owner = t /\ outer \in Ops /\ parent[outer] = NoOp
  BY <1>1 DEF MutexInv, FrameInv
<1>3. status[outer] \in {"waiting", "running"}
  BY <1>1 DEF FrameInv, CallInv, InFrame, InSqliteTransaction
<1>4. ASSUME pc[t] = "drain", NEW o \in Ops, status[o] = "running"
      PROVE  o = outer
  <2>1. PICK u \in Threads : InSqliteTransaction(u) /\ o \in {outer, op[u]}
    BY <1>1, <1>4 DEF CallInv
  <2>2. u = t
    BY <1>1, <1>2, <2>1 DEF MutexInv, InFrame
  <2> QED BY <1>1, <1>4, <2>1, <2>2 DEF FrameInv
<1>5. pc[t] = "drain" => status[outer] = "running"
  BY <1>1 DEF CallInv, InSqliteTransaction
<1> QED BY <1>2, <1>3, <1>4, <1>5, ConstantsAssumption

(* Models are numbered from 1 up to Size at most.                          *)
LEMMA ModelNumbers ==
  ASSUME NEW o \in Ops
  PROVE  Models(o) \subseteq 1..Size /\ \E n \in 1..Size : Models(o) = 1..n
BY BatchesAssumption DEF Models

(* The loop over the models of a running batch goes on by one model.       *)
LEMMA LoopAdvances ==
  ASSUME LoopInv, at \in [Ops -> Nat], NEW p \in Ops, status[p] = "running",
         at' = [at EXCEPT ![p] = @ + 1],
         kept \subseteq kept',
         done \cup ignored \cup {<<p, at[p] + 1>>} \subseteq done' \cup ignored',
         ignored \subseteq ignored',
         UNCHANGED <<gone, status, outer, pc, torn>>
  PROVE  LoopInv'
<1>1. CommittedIsComplete'
  BY DEF LoopInv, CommittedIsComplete, Models
<1>2. ASSUME NEW o \in Ops
      PROVE  /\ status[o] \in {"new", "waiting", "queued"} => at'[o] = 0
             /\ Unfinished(o) /\ ~gone[o] /\ o \notin torn =>
                  \A i \in 1..at'[o] : <<o, i>> \in done' \cup ignored'
             /\ \/ status[o] = "ran"
                \/ o = outer /\ \E t \in Threads : Draining(t)
                => Models(o) \subseteq 1..at'[o]
  <2>1. /\ status[o] \in {"new", "waiting", "queued"} => at[o] = 0
        /\ Unfinished(o) /\ ~gone[o] /\ o \notin torn =>
             \A i \in 1..at[o] : <<o, i>> \in done \cup ignored
        /\ \/ status[o] = "ran"
           \/ o = outer /\ \E t \in Threads : Draining(t)
           => Models(o) \subseteq 1..at[o]
    BY DEF LoopInv
  <2>2. CASE o = p
    <3>1. at'[o] = at[o] + 1 /\ at[o] \in Nat
      BY <2>2
    <3>2. \A i \in 1..at'[o] : i \in 1..at[o] \/ i = at[o] + 1
      BY <3>1
    <3>3. 1..at[o] \subseteq 1..at'[o]
      BY <3>1
    <3> QED BY <2>1, <2>2, <3>2, <3>3
  <2>3. CASE o # p
    BY <2>1, <2>3
  <2> QED BY <2>2, <2>3
<1>3. UNCHANGED <<pc, status, gone, outer, torn>>
  OBVIOUS
<1> QED BY <1>1, <1>2, <1>3 DEF LoopInv, Models, Unfinished, Draining

(* When the loop is over, every model was dealt with.                      *)
LEMMA LoopIsOver ==
  ASSUME BatchTypeOK, NEW t \in Threads, op[t] \in Ops, InCallback(t), AllDealtWith(t)
  PROVE  Models(op[t]) \subseteq 1..at[op[t]]
<1>1. PICK n \in 1..Size : Models(op[t]) = 1..n
  BY ModelNumbers
<1>2. at[op[t]] \in 0..Size /\ at[op[t]] + 1 \notin Models(op[t])
  BY DEF BatchTypeOK, AllDealtWith, HasCurrent
<1> QED BY <1>1, <1>2, BatchesAssumption

(* Every action preserves the invariant, part by part.                     *)
USE DEF BInv, IInv, memory, frame, connection, issue, trace, InCallback, InFrame,
        InSqliteTransaction, Draining, Unfinished, Answered

(* A new call.                                                             *)
LEMMA BatchCallKeeps ==
  ASSUME BInv, IInv', NEW t \in Threads, NEW o \in Ops, BatchCall(t, o)
  PROVE  BInv'
<1> USE ConstantsAssumption, BatchesAssumption DEF BatchCall, Call, batch
<1>1. BatchTypeOK'
  BY DEF BatchTypeOK
<1>2. FileInv'
  BY DEF FileInv, KeptIsCommitted
<1>3. LoopInv'
  BY DEF LoopInv, CommittedIsComplete, Models
<1>4. AnswerInv'
  BY DEF AnswerInv, SuccessWithoutCommit
<1> QED BY <1>1, <1>2, <1>3, <1>4

(* Nobody holds the mutex and the flag is set: there was an exception.     *)
LEMMA BatchEnterDeferredKeeps ==
  ASSUME BInv, IInv', NEW t \in Threads, BatchEnterDeferred(t)
  PROVE  BInv'
<1> USE ConstantsAssumption, BatchesAssumption DEF BatchEnterDeferred, EnterDeferred, FailureInv, StartInv
<1>1. BatchTypeOK'
  BY DEF BatchTypeOK
<1>2. FileInv'
  BY DEF TypeOK, MutexInv, FrameInv, CallInv, FileInv, KeptIsCommitted
<1>3. LoopInv'
  <2>1. op[t] \in Ops /\ status[op[t]] = "waiting"
    BY DEF TypeOK, MutexInv, CallInv
  <2>2. /\ status' = [status EXCEPT ![op[t]] = "queued"] /\ status \in [Ops -> Statuses]
        /\ UNCHANGED <<at, gone, done, kept, ignored, outer, torn>>
    BY DEF TypeOK
  <2>3. \A u \in Threads : Draining(u)' => Draining(u)
    OBVIOUS
  <2> QED BY <2>1, <2>2, <2>3 DEF LoopInv, CommittedIsComplete, Models
<1>4. AnswerInv'
  <2>1. op[t] \in Ops /\ status[op[t]] = "waiting"
    BY DEF TypeOK, MutexInv, CallInv
  <2>2. owner = NoThread
    BY DEF MutexInv, MutexFree
  <2>3. PICK p \in Ops : status[p] = "aborted"
    BY <2>2
  <2>4. status' = [status EXCEPT ![op[t]] = "queued"] /\ status \in [Ops -> Statuses]
    BY DEF TypeOK
  <2>5. answer' = [answer EXCEPT ![op[t]] = "ok"] /\ answer \in [Ops -> {"none", "ok", "error"}]
    BY DEF BatchTypeOK
  <2> QED BY <2>1, <2>2, <2>3, <2>4, <2>5 DEF AnswerInv, SuccessWithoutCommit
<1> QED BY <1>1, <1>2, <1>3, <1>4

(* The call has a parent.                                                  *)
LEMMA BatchNestKeeps ==
  ASSUME BInv, IInv', NEW t \in Threads, NEW o \in Ops, NEW short \in
         BOOLEAN, BatchNest(t, o, short)
  PROVE  BInv'
<1> USE ConstantsAssumption, BatchesAssumption DEF BatchNest, Nest
<1>1. BatchTypeOK'
  BY DEF BatchTypeOK
<1>2. FileInv'
  BY DEF FileInv, KeptIsCommitted
<1>3. LoopInv'
  <2>1. status[o] = "new" /\ at[o] = 0
    BY DEF LoopInv
  <2>2. status' = [status EXCEPT ![o] = "queued"] /\ status \in [Ops -> Statuses]
    BY DEF TypeOK
  <2>3. UNCHANGED <<pc, outer, at, gone, done, kept, ignored>>
    OBVIOUS
  <2>4. outer # o
    BY FrameFacts DEF CallInv
  <2> QED BY <2>1, <2>2, <2>3, <2>4 DEF LoopInv, CommittedIsComplete, Models
<1>4. AnswerInv'
  BY DEF TypeOK, MutexInv, FrameInv, CallInv, AnswerInv, SuccessWithoutCommit
<1> QED BY <1>1, <1>2, <1>3, <1>4

(* The operation is running, in a SQLite transaction.                      *)
LEMMA ModelDoneKeeps ==
  ASSUME BInv, IInv', NEW t \in Threads, ModelDone(t)
  PROVE  BInv'
<1> USE ConstantsAssumption, BatchesAssumption DEF ModelDone, KeptAfterStatement, HasCurrent, Current, vars, Models
<1>1. BatchTypeOK'
  <2>1. op[t] \in Ops /\ status[op[t]] = "running" /\ (~inTx => op[t] \in torn)
    BY RunningCallback
  <2>2. at[op[t]] + 1 \in 1..Size
    BY <2>1, ModelNumbers
  <2> QED BY <2>1, <2>2 DEF BatchTypeOK, Parts
<1>2. FileInv'
  <2>1. op[t] \in Ops /\ status[op[t]] = "running" /\ (~inTx => op[t] \in torn)
    BY RunningCallback
  <2> QED BY <2>1 DEF FileInv, KeptIsCommitted
<1>3. LoopInv'
  <2>1. op[t] \in Ops /\ status[op[t]] = "running" /\ (~inTx => op[t] \in torn)
    BY RunningCallback
  <2>2. at \in [Ops -> Nat]
    BY DEF BatchTypeOK
  <2> QED BY <2>1, <2>2, LoopAdvances
<1>4. AnswerInv'
  BY DEF AnswerInv, SuccessWithoutCommit
<1> QED BY <1>1, <1>2, <1>3, <1>4

(* SQLite has rolled the transaction back: nothing is claimed any more     *)
(* about the models of what is running.                                    *)
LEMMA LoopWithoutTransaction ==
  ASSUME LoopInv, at \in [Ops -> Nat],
         torn' = torn \cup {o \in Ops : Unfinished(o)},
         \A o \in Ops : at'[o] \in Nat /\ at'[o] >= at[o],
         \A o \in Ops : status[o] \in {"new", "waiting", "queued"} => at'[o] = at[o],
         ignored \subseteq ignored',
         UNCHANGED <<gone, status, outer, pc, kept>>
  PROVE  LoopInv'
<1>1. CommittedIsComplete'
  BY DEF LoopInv, CommittedIsComplete, Models
<1>2. ASSUME NEW o \in Ops
      PROVE  /\ status[o] \in {"new", "waiting", "queued"} => at'[o] = 0
             /\ ~(Unfinished(o) /\ ~gone[o] /\ o \notin torn')
             /\ \/ status[o] = "ran"
                \/ o = outer /\ \E t \in Threads : Draining(t)
                => Models(o) \subseteq 1..at'[o]
  <2>1. 1..at[o] \subseteq 1..at'[o]
    OBVIOUS
  <2> QED BY <2>1 DEF LoopInv
<1>3. UNCHANGED <<pc, status, gone, outer>>
  OBVIOUS
<1> QED BY <1>1, <1>2, <1>3 DEF LoopInv, Models, Unfinished, Draining

(* The error is on record.                                                 *)
LEMMA ModelFailsKeeps ==
  ASSUME BInv, IInv', NEW t \in Threads, ModelFails(t)
  PROVE  BInv'
<1> USE ConstantsAssumption, BatchesAssumption
        DEF ModelFails, NextModel, HasCurrent, Current, DoneAfterRollback, Models
<1>1. op[t] \in Ops /\ status[op[t]] = "running" /\ at \in [Ops -> Nat]
  BY RunningCallback DEF BatchTypeOK
<1>2. BatchTypeOK'
  <2>1. at[op[t]] + 1 \in 1..Size
    BY <1>1, ModelNumbers
  <2>2. done' \subseteq Parts /\ ignored' \subseteq Parts
    BY <1>1, <2>1 DEF BatchTypeOK, Parts
  <2> QED BY <1>1, <2>1, <2>2 DEF BatchTypeOK
<1>3. CASE UNCHANGED <<vars, done>>
  <2> USE <1>3 DEF vars
  <2>1. FileInv'
    BY DEF FileInv, KeptIsCommitted
  <2>2. LoopInv'
    BY <1>1, LoopAdvances
  <2>3. AnswerInv'
    BY DEF AnswerInv, SuccessWithoutCommit
  <2> QED BY <1>2, <2>1, <2>2, <2>3
<1>4. CASE RollsBack(t) /\ done' = DoneAfterRollback
  <2> USE <1>4 DEF RollsBack
  <2>1. FileInv'
    BY DEF FileInv, KeptIsCommitted
  <2>2. LoopInv'
    BY <1>1, LoopWithoutTransaction
  <2>3. AnswerInv'
    BY DEF AnswerInv, SuccessWithoutCommit
  <2> QED BY <1>2, <2>1, <2>2, <2>3
<1> QED BY <1>3, <1>4

(* No loop goes on, but the models of what is running are gone.            *)
LEMMA OtherRollsBackKeeps ==
  ASSUME BInv, IInv', NEW t \in Threads, OtherRollsBack(t)
  PROVE  BInv'
<1> USE ConstantsAssumption, BatchesAssumption
        DEF OtherRollsBack, RollsBack, DoneAfterRollback
<1>1. BatchTypeOK'
  BY DEF BatchTypeOK
<1>2. FileInv'
  BY DEF FileInv, KeptIsCommitted
<1>3. LoopInv'
  <2>1. at \in [Ops -> Nat] /\ at' = at
    BY DEF BatchTypeOK
  <2> QED BY <2>1, LoopWithoutTransaction
<1>4. AnswerInv'
  BY DEF AnswerInv, SuccessWithoutCommit
<1> QED BY <1>1, <1>2, <1>3, <1>4

(* Nothing is claimed about destroyed models.                              *)
LEMMA ModelsAreGoneKeeps ==
  ASSUME BInv, IInv', NEW t \in Threads, ModelsAreGone(t)
  PROVE  BInv'
<1> USE ConstantsAssumption, BatchesAssumption DEF ModelsAreGone, HasCurrent, Current, vars, Models
<1>1. BatchTypeOK'
  <2>1. Size \in 0..Size
    BY BatchesAssumption
  <2> QED BY <2>1 DEF BatchTypeOK
<1>2. FileInv'
  BY DEF FileInv, KeptIsCommitted
<1>3. LoopInv'
  <2>1. op[t] \in Ops /\ status[op[t]] = "running" /\ (~inTx => op[t] \in torn)
    BY RunningCallback
  <2>2. at[op[t]] \in 0..Size /\ gone[op[t]]
    BY <2>1 DEF BatchTypeOK
  <2>3. Models(op[t]) \subseteq 1..at'[op[t]]
    BY <2>1, ModelNumbers DEF BatchTypeOK
  <2>4. \A o \in Ops : o # op[t] => at'[o] = at[o]
    BY DEF BatchTypeOK
  <2> QED BY <2>1, <2>2, <2>3, <2>4 DEF LoopInv, CommittedIsComplete
<1>4. AnswerInv'
  BY DEF AnswerInv, SuccessWithoutCommit
<1> QED BY <1>1, <1>2, <1>3, <1>4

(* The loop over the models is over.                                       *)
LEMMA BatchCallbackReturnsKeeps ==
  ASSUME BInv, IInv', NEW t \in Threads, BatchCallbackReturns(t)
  PROVE  BInv'
<1> USE ConstantsAssumption, BatchesAssumption DEF BatchCallbackReturns, CallbackReturns, Destroyed, AllDealtWith, HasCurrent, LengthToDrain
<1>1. BatchTypeOK'
  BY DEF BatchTypeOK
<1>2. FileInv'
  BY DEF FileInv, KeptIsCommitted
<1>3. LoopInv'
  BY DEF BatchTypeOK, MutexInv, FrameInv, CallInv, LoopInv,
         CommittedIsComplete, Models
<1>4. AnswerInv'
  BY DEF AnswerInv, SuccessWithoutCommit
<1> QED BY <1>1, <1>2, <1>3, <1>4

(* The loop over the models is over.                                       *)
LEMMA BatchDeferredReturnsKeeps ==
  ASSUME BInv, IInv', NEW t \in Threads, BatchDeferredReturns(t)
  PROVE  BInv'
<1> USE ConstantsAssumption, BatchesAssumption DEF BatchDeferredReturns, DeferredReturns, Destroyed, AllDealtWith, HasCurrent
<1>1. BatchTypeOK'
  BY DEF BatchTypeOK
<1>2. FileInv'
  <2>1. op[t] \in Ops /\ status[op[t]] = "running" /\ (~inTx => op[t] \in torn)
    BY RunningCallback
  <2>2. status' = [status EXCEPT ![op[t]] = "ran"] /\ status \in [Ops -> Statuses]
    BY DEF TypeOK
  <2> QED BY <2>1, <2>2 DEF FileInv, KeptIsCommitted, BatchTypeOK, Parts
<1>3. LoopInv'
  <2>1. op[t] \in Ops /\ status[op[t]] = "running" /\ (~inTx => op[t] \in torn)
    BY RunningCallback
  <2>2. status' = [status EXCEPT ![op[t]] = "ran"] /\ status \in [Ops -> Statuses]
    BY DEF TypeOK
  <2>3. Models(op[t]) \subseteq 1..at[op[t]]
    BY <2>1, LoopIsOver
  <2>4. \A o \in Ops : gone[o] => gone'[o]
    OBVIOUS
  <2>5. (\E u \in Threads : Draining(u)') => \E u \in Threads : Draining(u)
    OBVIOUS
  <2> QED BY <2>1, <2>2, <2>3, <2>4, <2>5 DEF LoopInv, CommittedIsComplete, Models
<1>4. AnswerInv'
  <2>1. op[t] \in Ops /\ status[op[t]] = "running" /\ (~inTx => op[t] \in torn)
    BY RunningCallback
  <2>2. status' = [status EXCEPT ![op[t]] = "ran"] /\ status \in [Ops -> Statuses]
    BY DEF TypeOK
  <2> QED BY <2>1, <2>2 DEF AnswerInv, SuccessWithoutCommit
<1> QED BY <1>1, <1>2, <1>3, <1>4

(* What was dealt with is in the file.                                     *)
LEMMA BatchCommitKeeps ==
  ASSUME BInv, IInv', NEW t \in Threads, BatchCommit(t)
  PROVE  BInv'
<1> USE ConstantsAssumption, BatchesAssumption DEF BatchCommit, Commit, DurableAfterCommit, LockedAfterCommit, QueueAfterCommit
<1>1. BatchTypeOK'
  BY DEF BatchTypeOK
<1>2. FileInv'
  BY DEF BatchTypeOK, Parts, TypeOK, MutexInv, FrameInv, CallInv, FileInv,
         KeptIsCommitted
<1>3. LoopInv'
  <2>1. /\ outer \in Ops /\ status[outer] = "running" /\ parent[outer] = NoOp
        /\ owner # NoThread
        /\ \A o \in Ops : status[o] = "running" => o = outer
    BY FrameFacts
  <2>2. \A o \in Ops : status'[o] =
          IF o = outer \/ status[o] = "ran" THEN "committed"
          ELSE IF status[o] = "queued" THEN "dropped" ELSE status[o]
    OBVIOUS
  <2>3. outer' = NoOp /\ NoOp \notin Ops
    OBVIOUS
  <2>4. Draining(t) /\ Unfinished(outer)
    BY <2>1
  <2>5. \A o \in Ops : Unfinished(o) /\ ~gone[o] =>
          \A i \in 1..at[o] : <<o, i>> \in kept' \cup ignored'
    BY DEF LoopInv, TornInv
  <2>6. \A o \in Ops : o = outer \/ status[o] = "ran" => Models(o) \subseteq 1..at[o]
    BY <2>4 DEF LoopInv
  <2>7. kept \subseteq kept' /\ UNCHANGED <<at, gone, ignored>>
    BY DEF FileInv
  <2>8. ASSUME NEW o \in Ops, status'[o] = "committed", ~gone[o], NEW i \in Models(o)
        PROVE  <<o, i>> \in kept' \cup ignored'
    <3>1. CASE o = outer \/ status[o] = "ran"
      BY <2>4, <2>5, <2>6, <2>8, <3>1
    <3>2. CASE status[o] = "committed"
      BY <2>7, <2>8, <3>2 DEF LoopInv, CommittedIsComplete
    <3> QED BY <2>2, <2>8, <3>1, <3>2
  <2>9. CommittedIsComplete'
    BY <2>7, <2>8 DEF CommittedIsComplete, Models
  <2>10. \A o \in Ops : status'[o] \notin {"running", "ran", "queued"}
    BY <2>1, <2>2
  <2>11. \A o \in Ops : status'[o] \in {"new", "waiting"} => at'[o] = 0
    BY <2>2, <2>7 DEF LoopInv
  <2> QED BY <2>3, <2>9, <2>10, <2>11 DEF LoopInv
<1>4. AnswerInv'
  <2>1. /\ outer \in Ops /\ status[outer] = "running" /\ parent[outer] = NoOp
        /\ owner # NoThread
        /\ \A o \in Ops : status[o] = "running" => o = outer
    BY FrameFacts
  <2>2. \A o \in Ops : status'[o] =
          IF o = outer \/ status[o] = "ran" THEN "committed"
          ELSE IF status[o] = "queued" THEN "dropped" ELSE status[o]
    OBVIOUS
  <2>3. answer' = [answer EXCEPT ![outer] = "ok"] /\ answer \in [Ops -> {"none", "ok", "error"}]
    BY DEF BatchTypeOK
  <2>4. parent' = parent
    OBVIOUS
  <2> QED BY <2>1, <2>2, <2>3, <2>4 DEF AnswerInv, SuccessWithoutCommit
<1> QED BY <1>1, <1>2, <1>3, <1>4

(* The models of the transaction are taken back.                           *)
LEMMA BatchThrowsKeeps ==
  ASSUME BInv, IInv', NEW t \in Threads, BatchThrows(t)
  PROVE  BInv'
<1>1. BatchTypeOK'
  BY DEF BatchTypeOK, BatchThrows, AnswerAfterException
<1>2. FileInv'
  <2>1. InFrame(t) /\ Unwind(t)
    BY ThrowsUnwind DEF BatchThrows
  <2>2. /\ outer \in Ops /\ status[outer] \in {"waiting", "running"}
        /\ parent[outer] = NoOp /\ owner # NoThread
    BY <2>1, FrameFacts
  <2>3. \A o \in Ops : status'[o] =
          IF o = outer \/ status[o] \in {"running", "ran"} THEN "aborted" ELSE status[o]
    BY <2>1 DEF Unwind
  <2>4. done' = kept /\ kept' = kept /\ kept \subseteq Parts
    BY DEF BatchThrows, BatchTypeOK
  <2>5. torn' = torn
    BY <2>1 DEF Unwind
  <2> QED BY <2>2, <2>3, <2>4, <2>5 DEF FileInv, KeptIsCommitted, Parts
<1>3. LoopInv'
  <2>1. InFrame(t) /\ Unwind(t)
    BY ThrowsUnwind DEF BatchThrows
  <2>2. /\ outer \in Ops /\ status[outer] \in {"waiting", "running"}
        /\ parent[outer] = NoOp /\ owner # NoThread
    BY <2>1, FrameFacts
  <2>3. \A o \in Ops : status'[o] =
          IF o = outer \/ status[o] \in {"running", "ran"} THEN "aborted" ELSE status[o]
    BY <2>1 DEF Unwind
  <2>4. outer' = NoOp /\ NoOp \notin Ops
    BY <2>1, ConstantsAssumption DEF Unwind
  <2>5. UNCHANGED <<at, gone, kept, ignored>>
    BY DEF BatchThrows
  <2>6. CommittedIsComplete'
    BY <2>2, <2>3, <2>5 DEF LoopInv, CommittedIsComplete, Models
  <2>7. \A o \in Ops : status'[o] \notin {"running", "ran"}
    BY <2>3
  <2>8. \A o \in Ops : status'[o] \in {"new", "waiting", "queued"} => at'[o] = 0
    BY <2>3, <2>5 DEF LoopInv
  <2> QED BY <2>4, <2>6, <2>7, <2>8 DEF LoopInv
<1>4. AnswerInv'
  <2>1. InFrame(t) /\ Unwind(t)
    BY ThrowsUnwind DEF BatchThrows
  <2>2. /\ outer \in Ops /\ status[outer] \in {"waiting", "running"}
        /\ parent[outer] = NoOp /\ owner # NoThread
    BY <2>1, FrameFacts
  <2>3. \A o \in Ops : status'[o] =
          IF o = outer \/ status[o] \in {"running", "ran"} THEN "aborted" ELSE status[o]
    BY <2>1 DEF Unwind
  <2>4. answer' = [answer EXCEPT ![outer] = "error"] /\ answer \in [Ops -> {"none", "ok", "error"}]
    BY DEF BatchTypeOK, BatchThrows, AnswerAfterException
  <2>5. parent' = parent
    BY <2>1 DEF Unwind, issue
  <2> QED BY <2>2, <2>3, <2>4, <2>5 DEF AnswerInv, SuccessWithoutCommit
<1> QED BY <1>1, <1>2, <1>3, <1>4

(* The flag was clear: no callback waits for ever.                         *)
LEMMA BatchEnterFirstKeeps ==
  ASSUME BInv, IInv', NEW t \in Threads, EnterFirst(t), UNCHANGED batch
  PROVE  BInv'
<1> USE ConstantsAssumption, BatchesAssumption DEF EnterFirst, MutexFree, batch
<1>1. BatchTypeOK'
  BY DEF BatchTypeOK
<1>2. FileInv'
  BY DEF FileInv, KeptIsCommitted
<1>3. LoopInv'
  BY DEF TypeOK, MutexInv, FrameInv, CallInv, LoopInv, CommittedIsComplete,
         Models
<1>4. AnswerInv'
  BY DEF AnswerInv, SuccessWithoutCommit
<1> QED BY <1>1, <1>2, <1>3, <1>4

(* No model was dealt with yet.                                            *)
LEMMA BatchBeginKeeps ==
  ASSUME BInv, IInv', NEW t \in Threads, Begin(t), UNCHANGED batch
  PROVE  BInv'
<1> USE ConstantsAssumption, BatchesAssumption DEF Begin, batch
<1>1. BatchTypeOK'
  BY DEF BatchTypeOK
<1>2. FileInv'
  BY DEF TypeOK, MutexInv, FrameInv, CallInv, FileInv, KeptIsCommitted
<1>3. LoopInv'
  BY DEF TypeOK, MutexInv, FrameInv, CallInv, LoopInv, CommittedIsComplete,
         Models
<1>4. AnswerInv'
  BY DEF TypeOK, MutexInv, FrameInv, CallInv, AnswerInv, SuccessWithoutCommit
<1> QED BY <1>1, <1>2, <1>3, <1>4

(* No model was dealt with yet.                                            *)
LEMMA BatchRunDeferredKeeps ==
  ASSUME BInv, IInv', NEW t \in Threads, RunDeferred(t), UNCHANGED batch
  PROVE  BInv'
<1> USE ConstantsAssumption, BatchesAssumption DEF RunDeferred, batch
<1>1. BatchTypeOK'
  BY DEF BatchTypeOK
<1>2. FileInv'
  <2> DEFINE q == queue[cursor + 1]
  <2>1. q \in Ops /\ status[q] = "queued"
    BY NextIsQueued
  <2>2. status' = [status EXCEPT ![q] = "running"] /\ status \in [Ops -> Statuses]
    BY DEF TypeOK
  <2> HIDE DEF q
  <2> QED BY <2>1, <2>2 DEF FileInv, KeptIsCommitted, BatchTypeOK, Parts
<1>3. LoopInv'
  <2> DEFINE q == queue[cursor + 1]
  <2>1. q \in Ops /\ status[q] = "queued"
    BY NextIsQueued
  <2>2. status' = [status EXCEPT ![q] = "running"] /\ status \in [Ops -> Statuses]
    BY DEF TypeOK
  <2> HIDE DEF q
  <2>3. (\E u \in Threads : Draining(u)') => \E u \in Threads : Draining(u)
    OBVIOUS
  <2>4. UNCHANGED <<outer, at, gone, done, kept, ignored>>
    OBVIOUS
  <2> QED BY <2>1, <2>2, <2>3, <2>4 DEF LoopInv, CommittedIsComplete, Models
<1>4. AnswerInv'
  <2> DEFINE q == queue[cursor + 1]
  <2>1. q \in Ops /\ status[q] = "queued"
    BY NextIsQueued
  <2>2. status' = [status EXCEPT ![q] = "running"] /\ status \in [Ops -> Statuses]
    BY DEF TypeOK
  <2> HIDE DEF q
  <2>3. owner # NoThread
    BY FrameFacts
  <2>4. UNCHANGED <<owner, locked, answer, parent>>
    OBVIOUS
  <2> QED BY <2>1, <2>2, <2>3, <2>4 DEF AnswerInv, SuccessWithoutCommit
<1> QED BY <1>1, <1>2, <1>3, <1>4

(* The connection is left with what the file holds.                        *)
LEMMA BatchCrashKeeps ==
  ASSUME BInv, IInv', BatchCrash
  PROVE  BInv'
<1> USE ConstantsAssumption, BatchesAssumption DEF BatchCrash, Crash
<1>1. BatchTypeOK'
  BY DEF BatchTypeOK
<1>2. FileInv'
  BY DEF BatchTypeOK, Parts, FileInv, KeptIsCommitted
<1>3. LoopInv'
  BY DEF LoopInv, CommittedIsComplete, Models
<1>4. AnswerInv'
  <2>1. \A o \in Ops : status'[o] =
          IF status[o] \in {"waiting", "queued", "running", "ran"} THEN "lost" ELSE status[o]
    OBVIOUS
  <2>2. UNCHANGED <<answer, parent>>
    OBVIOUS
  <2> QED BY <2>1, <2>2 DEF AnswerInv, SuccessWithoutCommit
<1> QED BY <1>1, <1>2, <1>3, <1>4

HIDE DEF BInv, IInv, memory, frame, connection, issue, trace, InCallback, InFrame,
         InSqliteTransaction, Draining, Unfinished, Answered

-----------------------------------------------------------------------------
(* Nothing in it depends on anything but the variables.                    *)
LEMMA BatchStutteringKeeps == ASSUME BInv, IInv', UNCHANGED batchVars PROVE BInv'
BY DEF batchVars, batch, vars, BInv, BatchTypeOK, FileInv, KeptIsCommitted, LoopInv,
       CommittedIsComplete, AnswerInv, SuccessWithoutCommit, Draining, Unfinished

(* At first no model was dealt with.                                       *)
LEMMA BatchInitEstablishes == BatchInit => BInv
<1> SUFFICES ASSUME BatchInit PROVE BInv
  OBVIOUS
<1>1. IInv /\ Init
  BY InitEstablishes DEF BatchInit
<1>2. BatchTypeOK
  BY BatchesAssumption DEF BatchInit, BatchTypeOK
<1>3. FileInv
  BY <1>1 DEF BatchInit, Init, FileInv, KeptIsCommitted
<1>4. LoopInv
  BY <1>1, ConstantsAssumption
     DEF BatchInit, Init, LoopInv, CommittedIsComplete, Unfinished
<1>5. AnswerInv
  BY <1>1 DEF BatchInit, Init, AnswerInv, SuccessWithoutCommit
<1> QED BY <1>1, <1>2, <1>3, <1>4, <1>5 DEF BInv

(* Every step of a batch is a step of Transactions or leaves it alone.     *)
LEMMA BatchStepIsStep == [BatchNext]_batchVars => [Next]_vars
<1> SUFFICES ASSUME [BatchNext]_batchVars PROVE [Next]_vars
  OBVIOUS
<1> USE DEF Next, Advance
<1>1. ASSUME NEW t \in Threads,
             \/ BatchEnterDeferred(t) \/ ModelDone(t) \/ ModelFails(t) \/ ModelsAreGone(t)
             \/ BatchCallbackReturns(t) \/ BatchDeferredReturns(t)
             \/ BatchCommit(t) \/ BatchThrows(t) \/ BatchGoesOn(t)
             \/ OtherRollsBack(t)
      PROVE  [Next]_vars
  BY <1>1 DEF BatchEnterDeferred, ModelDone, ModelFails, ModelsAreGone, BatchCommit,
              BatchCallbackReturns, BatchDeferredReturns, BatchThrows, BatchGoesOn,
              OtherRollsBack
<1>2. ASSUME NEW t \in Threads, NEW o \in Ops,
             BatchCall(t, o) \/ \E short \in BOOLEAN : BatchNest(t, o, short)
      PROVE  [Next]_vars
  BY <1>2 DEF BatchCall, BatchNest
<1>3. CASE BatchCrash
  BY <1>3 DEF BatchCrash
<1>4. CASE UNCHANGED batchVars
  BY <1>4 DEF batchVars
<1> QED BY <1>1, <1>2, <1>3, <1>4 DEF BatchNext

(* Every step of a batch preserves the invariant.                          *)
LEMMA BatchNextKeeps == BInv /\ [BatchNext]_batchVars => BInv'
<1> SUFFICES ASSUME BInv, [BatchNext]_batchVars PROVE BInv'
  OBVIOUS
<1>1. IInv'
  BY BatchStepIsStep, NextKeeps DEF BInv
<1>2. ASSUME NEW t \in Threads, BatchEnterDeferred(t) \/ BatchCommit(t) \/ BatchThrows(t)
      PROVE  BInv'
  BY <1>1, <1>2, BatchEnterDeferredKeeps, BatchCommitKeeps, BatchThrowsKeeps
<1>3. ASSUME NEW t \in Threads, ModelDone(t) \/ ModelFails(t) \/ ModelsAreGone(t)
      PROVE  BInv'
  BY <1>1, <1>3, ModelDoneKeeps, ModelFailsKeeps, ModelsAreGoneKeeps
<1>4. ASSUME NEW t \in Threads, BatchCallbackReturns(t) \/ BatchDeferredReturns(t)
      PROVE  BInv'
  BY <1>1, <1>4, BatchCallbackReturnsKeeps, BatchDeferredReturnsKeeps
<1>5. ASSUME NEW t \in Threads, BatchGoesOn(t) PROVE BInv'
  BY <1>1, <1>5, BatchEnterFirstKeeps, BatchBeginKeeps, BatchRunDeferredKeeps
     DEF BatchGoesOn
<1>6. ASSUME NEW t \in Threads, NEW o \in Ops, BatchCall(t, o) PROVE BInv'
  BY <1>1, <1>6, BatchCallKeeps
<1>7. ASSUME NEW t \in Threads, NEW o \in Ops, NEW short \in BOOLEAN, BatchNest(t, o, short)
      PROVE  BInv'
  BY <1>1, <1>7, BatchNestKeeps
<1>8. ASSUME NEW t \in Threads, OtherRollsBack(t) PROVE BInv'
  BY <1>1, <1>8, OtherRollsBackKeeps
<1>9. CASE BatchCrash
  BY <1>1, <1>9, BatchCrashKeeps
<1>10. CASE UNCHANGED batchVars
  BY <1>1, <1>10, BatchStutteringKeeps
<1> QED BY <1>2, <1>3, <1>4, <1>5, <1>6, <1>7, <1>8, <1>9, <1>10 DEF BatchNext

(* The invariant holds in every reachable state.                           *)
THEOREM BatchInvariance == BatchSpec => []BInv
<1> QED BY BatchInitEstablishes, BatchNextKeeps, PTL DEF BatchSpec

-----------------------------------------------------------------------------
(* Batches and builders are clients of transaction() and query_string:     *)
(* whatever holds for Transactions holds for them.                         *)
THEOREM BatchesAreTransactions == BatchSpec => Spec
<1>1. BatchInit => Init
  BY DEF BatchInit
<1> QED BY <1>1, BatchStepIsStep, PTL DEF BatchSpec, Spec

(* The loops over the models end in time; all variables keep their types.  *)
THEOREM BatchTypeCorrectness == BatchSpec => []BatchTypeOK
<1>1. BInv => BatchTypeOK
  BY DEF BInv
<1> QED BY <1>1, BatchInvariance, PTL

(* The file holds models of committed batches only, and of those whose     *)
(* transaction SQLite has rolled back.                                     *)
THEOREM KeptAreCommitted == BatchSpec => []KeptIsCommitted
<1>1. BInv => KeptIsCommitted
  BY DEF BInv, FileInv
<1> QED BY <1>1, BatchInvariance, PTL

(* A committed batch has dealt with all its models, unless they were       *)
(* destroyed before it ran.                                                *)
THEOREM CommittedAreComplete == BatchSpec => []CommittedIsComplete
<1>1. BInv => CommittedIsComplete
  BY DEF BInv, LoopInv
<1> QED BY <1>1, BatchInvariance, PTL

(* When success is reported for what is not committed.                     *)
THEOREM SuccessExplained == BatchSpec => []SuccessWithoutCommit
<1>1. BInv => SuccessWithoutCommit
  BY DEF BInv, AnswerInv
<1> QED BY <1>1, BatchInvariance, PTL
=============================================================================
