-------------------------------- MODULE Scans --------------------------------
(***************************************************************************)
(* Repository::select, load_all, load_by, first_by and last_by, for        *)
(* threads that share one connection.  query_string steps through the      *)
(* rows of a SELECT, and between two steps another thread may change the   *)
(* table through the same connection.                                      *)
(*                                                                         *)
(* SQLite is external: ORDER BY ROWID walks along the table, so that a     *)
(* step finds the next row that is there by then; an order by a column is  *)
(* sorted before the first row is returned.                                *)
(***************************************************************************)
EXTENDS Naturals, Sequences, SequencesExt

CONSTANTS
  Threads,
  Ids,        (* rowids                                                    *)
  Values,     (* of the column, NULL among them if it may be null          *)
  Like,       (* <<value, pattern>>: the condition of for_each_where holds *)
  Below,      (* <<v, w>>: the column's value v sorts before w             *)
  Limit,      (* Limit of select, which load_all leaves at 100             *)
  MaxChanges  (* bound: changes of the table                               *)

ASSUME ScansAssumption ==
  /\ IsFiniteSet(Ids) /\ Ids \subseteq Nat \ {0}
  /\ Like \subseteq Values \X Values
  /\ Below \subseteq Values \X Values
  /\ Limit \in Nat /\ MaxChanges \in Nat

VARIABLES
  rows,     (* from the rowids to the values                               *)
  call,     (* call[t]: what t calls, or called last                       *)
  pc,       (* pc[t]: "idle" or "stepping"                                 *)
  cursor,   (* cursor[t]: the rowid of the last row, 0 before the first    *)
  items,    (* items[t]: the models that the call has read so far          *)
  changes,  (* number of changes so far                                    *)
  (* history *)
  stayed,   (* stayed[t]: the rows that are there, unchanged, since the    *)
            (* call began                                                  *)
  seen      (* seen[t]: the rows that have been there at some time since   *)

vars == <<rows, call, pc, cursor, items, changes, stayed, seen>>

(* select() has no condition here; first_by and last_by may have one.      *)
Select == [name |-> "select"]
LoadBy(v) == [name |-> "load_by", pattern |-> v]
Whole(name) == [name |-> name]
Matching(name, v) == [name |-> name, pattern |-> v]

Conditional(c) == "pattern" \in DOMAIN c
Holds(c, value) == Conditional(c) => <<value, c.pattern>> \in Like

Row(id) == [rowid |-> id, value |-> rows[id]]
Rows == {Row(id) : id \in DOMAIN rows}

-----------------------------------------------------------------------------
Init ==
  /\ rows = <<>>
  /\ call = [t \in Threads |-> Select]
  /\ pc = [t \in Threads |-> "idle"]
  /\ cursor = [t \in Threads |-> 0]
  /\ items = [t \in Threads |-> <<>>]
  /\ changes = 0
  /\ stayed = [t \in Threads |-> {}] /\ seen = [t \in Threads |-> {}]

Goto(t, place) == pc' = [pc EXCEPT ![t] = place]

(* The statement of select, load_all or load_by is prepared.               *)
Begin(t, c) ==
  /\ pc[t] = "idle"
  /\ call' = [call EXCEPT ![t] = c]
  /\ cursor' = [cursor EXCEPT ![t] = 0]
  /\ items' = [items EXCEPT ![t] = <<>>]
  /\ stayed' = [stayed EXCEPT ![t] = Rows]
  /\ seen' = [seen EXCEPT ![t] = Rows]
  /\ Goto(t, "stepping")
  /\ UNCHANGED <<rows, changes>>

(* The rows that are still to come.  (A definition named Wrong... is a     *)
(* deliberate mistake in the definition after it; no action uses it.)      *)
WrongAhead(t) == {id \in DOMAIN rows : id >= cursor[t] /\ Holds(call[t], rows[id])}

Ahead(t) == {id \in DOMAIN rows : id > cursor[t] /\ Holds(call[t], rows[id])}

WrongIsFull(t) == Len(items[t]) >= Limit

(* The callback of select returns false; load_by has no limit.             *)
IsFull(t) == call[t] = Select /\ Len(items[t]) >= Limit

(* executeStep() and the callback.                                         *)
Step(t) ==
  /\ pc[t] = "stepping" /\ Ahead(t) # {} /\ ~IsFull(t)
  /\ LET id == Min(Ahead(t)) IN
       /\ cursor' = [cursor EXCEPT ![t] = id]
       /\ items' = [items EXCEPT ![t] = Append(@, Row(id))]
  /\ UNCHANGED <<rows, call, pc, changes, stayed, seen>>

Return(t) ==
  /\ pc[t] = "stepping" /\ (Ahead(t) = {} \/ IsFull(t))
  /\ Goto(t, "idle")
  /\ UNCHANGED <<rows, call, cursor, items, changes, stayed, seen>>

(* A step finds the file busy, or a column that the model has no field     *)
(* for: the exception leaves the call without its items.                   *)
Throw(t) ==
  /\ pc[t] = "stepping"
  /\ Goto(t, "idle")
  /\ items' = [items EXCEPT ![t] = <<>>]
  /\ call' = [call EXCEPT ![t] = Whole("none")]
  /\ UNCHANGED <<rows, cursor, changes, stayed, seen>>

-----------------------------------------------------------------------------
(* The ORDER BY of first_by and last_by: with a condition the rowid comes  *)
(* before the column.                                                      *)
Order(c) == IF Conditional(c) THEN <<"rowid", "column">> ELSE <<"column">>

WrongAscending(c) == TRUE

Ascending(c) == c.name = "first_by"

Precedes(c, what, r, s) ==
  CASE what = "rowid" -> r.rowid < s.rowid
    [] what = "column" /\ Ascending(c) -> <<r.value, s.value>> \in Below
    [] OTHER -> <<s.value, r.value>> \in Below

(* Lexicographically; DESC is of the last term only.                       *)
Before(c, r, s) ==
  \E i \in DOMAIN Order(c) :
    /\ Precedes(c, Order(c)[i], r, s)
    /\ \A j \in 1..(i - 1) : ~Precedes(c, Order(c)[j], s, r)

Candidates(c) == {r \in Rows : Holds(c, r.value)}

(* first_by and last_by: LIMIT 1, a single step.                           *)
Pick(t, c) ==
  /\ pc[t] = "idle"
  /\ call' = [call EXCEPT ![t] = c]
  /\ \/ Candidates(c) = {} /\ items' = [items EXCEPT ![t] = <<>>]
     \/ \E r \in Candidates(c) :
          /\ \A s \in Candidates(c) : ~Before(c, s, r)
          /\ items' = [items EXCEPT ![t] = <<r>>]
  /\ cursor' = [cursor EXCEPT ![t] = 0]
  /\ stayed' = [stayed EXCEPT ![t] = Rows]
  /\ seen' = [seen EXCEPT ![t] = Rows]
  /\ UNCHANGED <<rows, pc, changes>>

(* Another call on the database: INSERT, UPDATE or DELETE of a row.        *)
Change(id, after) ==
  /\ changes < MaxChanges
  /\ changes' = changes + 1
  /\ rows' = after
  /\ stayed' = [t \in Threads |-> {r \in stayed[t] : r.rowid # id}]
  /\ seen' = [t \in Threads |->
       seen[t] \cup {[rowid |-> i, value |-> after[i]] : i \in DOMAIN after}]
  /\ UNCHANGED <<call, pc, cursor, items>>

Write(id, value) == Change(id, [i \in DOMAIN rows \cup {id} |-> IF i = id THEN value ELSE rows[i]])

Delete(id) == id \in DOMAIN rows /\ Change(id, [i \in DOMAIN rows \ {id} |-> rows[i]])

Next ==
  \/ \E t \in Threads :
       \/ Begin(t, Select) \/ \E v \in Values : Begin(t, LoadBy(v))
       \/ Step(t) \/ Return(t) \/ Throw(t)
       \/ \E name \in {"first_by", "last_by"} :
            Pick(t, Whole(name)) \/ \E v \in Values : Pick(t, Matching(name, v))
  \/ \E id \in Ids : Delete(id) \/ \E v \in Values : Write(id, v)

Spec == Init /\ [][Next]_vars
-----------------------------------------------------------------------------
(* A call that returned, with the models it read.                          *)
Loaded(t) == pc[t] = "idle" /\ call[t].name \in {"select", "load_by"}

(* Whatever other threads write while rows are read: every model was a row *)
(* that matched while the call ran, and no row is read twice, since the    *)
(* rowids rise (Repository.hpp:38-66, 105-132, SqliteDatabase.hpp:74-121). *)
ReadsRise ==
  \A t \in Threads : \A i \in DOMAIN items[t] :
    /\ items[t][i] \in seen[t] /\ Holds(call[t], items[t][i].value)
    /\ \A j \in 1..(i - 1) : items[t][j].rowid < items[t][i].rowid

(* A row that matched, and was neither changed nor removed while the call  *)
(* ran, is among its models; select() leaves such rows out when it has     *)
(* read Limit others, and load_all() is a select() of at most 100          *)
(* (Repository.hpp:38-68, 105-132).                                        *)
NothingMissed ==
  \A t \in Threads : Loaded(t) =>
    \A r \in stayed[t] :
      \/ ~Holds(call[t], r.value)
      \/ r \in ToSet(items[t])
      \/ call[t] = Select /\ Len(items[t]) = Limit

(* first_by and last_by without a condition return a row that no other one *)
(* sorts before, or after, and first_by with a condition the oldest of the *)
(* rows that match.  Which of them last_by with a condition should return  *)
(* is left open (Repository.hpp:134-214).                                  *)
PicksInOrder ==
  \A t \in Threads : \A i \in DOMAIN items[t] : \A r \in stayed[t] :
    Holds(call[t], r.value) =>
      /\ call[t] = Whole("first_by") => <<r.value, items[t][i].value>> \notin Below
      /\ call[t] = Whole("last_by") => <<items[t][i].value, r.value>> \notin Below
      /\ Conditional(call[t]) /\ call[t].name = "first_by" =>
           items[t][i].rowid <= r.rowid
=============================================================================
