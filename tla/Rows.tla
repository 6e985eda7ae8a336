-------------------------------- MODULE Rows --------------------------------
(***************************************************************************)
(* Models as rows: Database::insert, update, remove and find_by_rowid, and *)
(* the calls of Repository that are made of them (save, update, remove,    *)
(* find, remove_by), for threads that share one connection.                *)
(*                                                                         *)
(* A statement is atomic here (the steps of a SELECT are in Scans), a call *)
(* is not: insert() asks the connection for the last rowid after its       *)
(* INSERT and then reads that row; remove_by() loads models and then       *)
(* removes them one by one.  Integer keys are compared with =, text keys   *)
(* (and every text in a condition) with LIKE '%text%', which is the        *)
(* relation Like here.                                                     *)
(*                                                                         *)
(* The table has a primary key of one column and one more column, note.    *)
(* Texts that name a column of the table are not among the texts (as a     *)
(* double-quoted word SQLite takes such a text for the column).            *)
(*                                                                         *)
(* The last rowid belongs to the connection, and with it to all the tables *)
(* of the database object: an INSERT into any other of them, migracao      *)
(* included, changes it (OtherInsert).                                     *)
(***************************************************************************)
EXTENDS Integers

CONSTANTS
  Threads,    (* they call the repository of one database object           *)
  Keys,       (* values of the primary key                                 *)
  Notes,      (* values of the other column                                *)
  Like,       (* <<value, pattern>>: value LIKE '%pattern%', or equality   *)
              (* of integers                                               *)
  KeyIsRowid, (* the key is an integer, which SQLite takes as the rowid    *)
  OtherIds,   (* rowids that rows of the other tables get                  *)
  Busy,       (* statements may fail because the file is busy              *)
  MaxCalls    (* bound: calls over all threads                             *)

ASSUME RowsAssumption ==
  /\ \A value \in Keys \cup Notes : <<value, value>> \in Like
  /\ KeyIsRowid \in BOOLEAN
  /\ KeyIsRowid => Keys \subseteq Nat
  /\ KeyIsRowid => \A key, other \in Keys : <<key, other>> \in Like => key = other
  /\ OtherIds \subseteq Nat
  /\ Busy \in BOOLEAN
  /\ MaxCalls \in Nat

VARIABLES
  rows,       (* the table                                                 *)
  lastRowid,  (* of the connection: the rowid of the last INSERT on it     *)
  pc,         (* pc[t]: where t is in its call                             *)
  rowid,      (* rowid[t]: lastRowId, a local of insert()                  *)
  items,      (* items[t]: the models that remove_by() has yet to remove   *)
  got,        (* got[t]: the model that the last call of t returned, if    *)
              (* any                                                       *)
  (* history *)
  call,       (* call[t]: the last call of t and its arguments             *)
  outcome,    (* outcome[t]: how that call ended                           *)
  calls,      (* number of calls so far, which numbers the rows inserted   *)
  mine,       (* mine[t]: the number of the row that call inserted, or 0   *)
  quiet,      (* quiet[t]: no other thread changed the table since that    *)
              (* call began                                                *)
  foreign,    (* foreign[t]: another thread inserted into another table    *)
              (* between the INSERT of that call and get_last_rowid()      *)
  hindered,   (* hindered[t]: a statement of that call found the file busy *)
  aside       (* aside[t]: while t is in remove_by(), the rows that other  *)
              (* threads inserted or changed since it loaded its models,    *)
              (* and those whose removal failed                            *)

vars == <<rows, lastRowid, pc, rowid, items, got, call, outcome, calls, mine,
          quiet, foreign, hindered, aside>>

(* A row; born is the number of the call that inserted it (history).       *)
Row == [rowid : Nat, key : Keys, note : Notes, born : Nat]

Operations == {"none", "insert", "update", "remove", "find", "remove_by"}
Outcomes == {"running", "ok", "error"}

-----------------------------------------------------------------------------
(* What the conditions of the statements select.                           *)

WithKey(key) == {r \in rows : <<r.key, key>> \in Like}

(* A definition named Wrong... is a deliberate mistake in the definition   *)
(* after it; no action uses it.                                            *)
WrongWithNote(note) == rows

WithNote(note) == {r \in rows : <<r.note, note>> \in Like}

First(selected) == {r \in selected : \A s \in selected : r.rowid <= s.rowid}

(* load_by on the key, ORDER BY ROWID, of which find() takes the first.    *)
Found(key) == First(WithKey(key))

(* The primary key is unique.                                              *)
KeyIsFree(key) == \A r \in rows : r.key # key

(* The rowid SQLite gives a new row: an integer key itself (a Serial that  *)
(* is left out gets a free key, which is one of Keys), or else one more    *)
(* than the largest.                                                       *)
IsNextRowid(id, key) ==
  IF KeyIsRowid THEN id = key
  ELSE /\ \A r \in rows : r.rowid < id
       /\ id = 1 \/ \E r \in rows : id = r.rowid + 1

(* The result of query_string, for a statement without rows.               *)
LastRowidAfterInsert(id) == id

(* find_by_rowid.                                                          *)
Fetched(t) == {r \in rows : r.rowid = rowid[t]}

WrongUpdateFits(key) == TRUE

(* UPDATE assigns the key, too: a second row it selects violates the       *)
(* primary key, and the statement has no effect.                           *)
UpdateFits(key) == \A r, s \in WithKey(key) : r = s

Updated(r, key, note) ==
  IF r \in WithKey(key) THEN [r EXCEPT !.key = key, !.note = note] ELSE r

WrongItemsAfterRemoval(t, item) == {}

ItemsAfterRemoval(t, item) == items[t] \ {item}

-----------------------------------------------------------------------------
Init ==
  /\ rows = {} /\ lastRowid = 0
  /\ pc = [t \in Threads |-> "idle"]
  /\ rowid = [t \in Threads |-> 0]
  /\ items = [t \in Threads |-> {}]
  /\ got = [t \in Threads |-> {}]
  /\ call = [t \in Threads |-> <<"none">>]
  /\ outcome = [t \in Threads |-> "ok"]
  /\ calls = 0
  /\ mine = [t \in Threads |-> 0]
  /\ quiet = [t \in Threads |-> TRUE]
  /\ foreign = [t \in Threads |-> FALSE]
  /\ hindered = [t \in Threads |-> FALSE]
  /\ aside = [t \in Threads |-> {}]

(* t begins a call.                                                        *)
Begin(t, what) ==
  /\ pc[t] = "idle"
  /\ calls < MaxCalls
  /\ calls' = calls + 1
  /\ call' = [call EXCEPT ![t] = what]

Goto(t, place) == pc' = [pc EXCEPT ![t] = place]
Ends(t, how) == outcome' = [outcome EXCEPT ![t] = how]
Returns(t, models) == got' = [got EXCEPT ![t] = models]
Inserted(t, number) == mine' = [mine EXCEPT ![t] = number]

(* The first statement of a call of t, which changes the table or not.     *)
FirstStatement(t, changes, busy) ==
  /\ quiet' = [u \in Threads |-> u = t \/ (quiet[u] /\ ~changes)]
  /\ foreign' = [foreign EXCEPT ![t] = FALSE]
  /\ hindered' = [hindered EXCEPT ![t] = busy]

(* A later statement that changes the table.                               *)
LaterChange(t) == quiet' = [u \in Threads |-> u = t /\ quiet[u]]

(* An idle thread makes rows that were not there as they are now.          *)
NewRows ==
  aside' = [u \in Threads |->
              IF pc[u] = "removing" THEN aside[u] \cup (rows' \ rows) ELSE aside[u]]

-----------------------------------------------------------------------------
(* The last rowid is asked for before the INSERT.                          *)
WrongInsert(t, id, key, note) ==
  /\ Begin(t, <<"insert", key, note>>)
  /\ KeyIsFree(key) /\ IsNextRowid(id, key)
  /\ rows' = rows \cup
       {[rowid |-> id, key |-> key, note |-> note, born |-> calls + 1]}
  /\ lastRowid' = LastRowidAfterInsert(id)
  /\ rowid' = [rowid EXCEPT ![t] = lastRowid]
  /\ FirstStatement(t, TRUE, FALSE) /\ NewRows
  /\ Goto(t, "fetch") /\ Ends(t, "running")
  /\ Inserted(t, calls + 1) /\ Returns(t, {})
  /\ UNCHANGED items

(* insert(), called by save(): the INSERT.                                 *)
Insert(t, id, key, note) ==
  /\ Begin(t, <<"insert", key, note>>)
  /\ KeyIsFree(key) /\ IsNextRowid(id, key)
  /\ rows' = rows \cup
       {[rowid |-> id, key |-> key, note |-> note, born |-> calls + 1]}
  /\ lastRowid' = LastRowidAfterInsert(id)
  /\ FirstStatement(t, TRUE, FALSE) /\ NewRows
  /\ Goto(t, "inserted") /\ Ends(t, "running")
  /\ Inserted(t, calls + 1) /\ Returns(t, {})
  /\ UNCHANGED <<rowid, items>>

(* The primary key is taken: query_string throws.                          *)
InsertConflicts(t, key, note) ==
  /\ Begin(t, <<"insert", key, note>>)
  /\ ~KeyIsFree(key)
  /\ FirstStatement(t, FALSE, FALSE)
  /\ Ends(t, "error") /\ Inserted(t, 0) /\ Returns(t, {})
  /\ UNCHANGED <<rows, lastRowid, pc, rowid, items, aside>>

(* get_last_rowid().                                                       *)
ReadRowid(t) ==
  /\ pc[t] = "inserted"
  /\ rowid' = [rowid EXCEPT ![t] = lastRowid]
  /\ Goto(t, "fetch")
  /\ UNCHANGED <<rows, lastRowid, items, got, call, outcome, calls, mine,
                 quiet, foreign, hindered, aside>>

(* A thread inserts into another table of the database object.             *)
OtherInsert(t, id) ==
  /\ pc[t] = "idle"
  /\ calls < MaxCalls
  /\ calls' = calls + 1
  /\ lastRowid' = LastRowidAfterInsert(id)
  /\ foreign' =
       [u \in Threads |-> foreign[u] \/ (u # t /\ pc[u] = "inserted")]
  /\ UNCHANGED <<rows, pc, rowid, items, got, call, outcome, mine, quiet,
                 hindered, aside>>

(* find_by_rowid(); without a row, "unable to recover model sequence".     *)
Fetch(t) ==
  /\ pc[t] = "fetch"
  /\ Goto(t, "idle")
  /\ Returns(t, Fetched(t))
  /\ Ends(t, IF Fetched(t) = {} THEN "error" ELSE "ok")
  /\ UNCHANGED <<rows, lastRowid, rowid, items, call, calls, mine, quiet,
                 foreign, hindered, aside>>

(* The SELECT of find_by_rowid throws; the row stays inserted.             *)
FetchThrows(t) ==
  /\ pc[t] = "fetch" /\ Busy
  /\ Goto(t, "idle") /\ Ends(t, "error")
  /\ hindered' = [hindered EXCEPT ![t] = TRUE]
  /\ UNCHANGED <<rows, lastRowid, rowid, items, got, call, calls, mine, quiet,
                 foreign, aside>>

(* update(): every column of the rows that the key selects, the key among  *)
(* them.  No row at all is a success.                                      *)
Update(t, key, note) ==
  /\ Begin(t, <<"update", key, note>>)
  /\ UpdateFits(key)
  /\ rows' = {Updated(r, key, note) : r \in rows}
  /\ FirstStatement(t, rows' # rows, FALSE) /\ NewRows
  /\ Ends(t, "ok") /\ Inserted(t, 0) /\ Returns(t, {})
  /\ UNCHANGED <<lastRowid, pc, rowid, items>>

UpdateConflicts(t, key, note) ==
  /\ Begin(t, <<"update", key, note>>)
  /\ ~UpdateFits(key)
  /\ FirstStatement(t, FALSE, FALSE)
  /\ Ends(t, "error") /\ Inserted(t, 0) /\ Returns(t, {})
  /\ UNCHANGED <<rows, lastRowid, pc, rowid, items, aside>>

(* remove().                                                               *)
Remove(t, key) ==
  /\ Begin(t, <<"remove", key>>)
  /\ rows' = rows \ WithKey(key)
  /\ FirstStatement(t, rows' # rows, FALSE)
  /\ Ends(t, "ok") /\ Inserted(t, 0) /\ Returns(t, {})
  /\ UNCHANGED <<lastRowid, pc, rowid, items, aside>>

(* find().                                                                 *)
Find(t, key) ==
  /\ Begin(t, <<"find", key>>)
  /\ FirstStatement(t, FALSE, FALSE)
  /\ Ends(t, "ok") /\ Inserted(t, 0) /\ Returns(t, Found(key))
  /\ UNCHANGED <<rows, lastRowid, pc, rowid, items, aside>>

(* remove_by() on the note: load_by.                                       *)
RemoveBy(t, note) ==
  /\ Begin(t, <<"remove_by", note>>)
  /\ items' = [items EXCEPT ![t] = WithNote(note)]
  /\ FirstStatement(t, FALSE, FALSE)
  /\ Goto(t, "removing") /\ Ends(t, "running")
  /\ Inserted(t, 0) /\ Returns(t, {})
  /\ UNCHANGED <<rows, lastRowid, rowid, aside>>

(* remove_by() removes the models it loaded, by their keys, in the order   *)
(* of their rowids.                                                        *)
RemoveItem(t, item) ==
  /\ pc[t] = "removing" /\ item \in First(items[t])
  /\ rows' = rows \ WithKey(item.key)
  /\ items' = [items EXCEPT ![t] = ItemsAfterRemoval(t, item)]
  /\ IF rows' # rows THEN LaterChange(t) ELSE UNCHANGED quiet
  /\ UNCHANGED <<lastRowid, pc, rowid, got, call, outcome, calls, mine,
                 foreign, hindered, aside>>

(* remove() returns its error as a value, which remove_by() drops.         *)
RemoveItemThrows(t, item) ==
  /\ pc[t] = "removing" /\ item \in First(items[t]) /\ Busy
  /\ items' = [items EXCEPT ![t] = ItemsAfterRemoval(t, item)]
  /\ aside' = [aside EXCEPT ![t] = @ \cup {item}]
  /\ UNCHANGED <<rows, lastRowid, pc, rowid, got, call, outcome, calls, mine,
                 quiet, foreign, hindered>>

RemoveByReturns(t) ==
  /\ pc[t] = "removing" /\ items[t] = {}
  /\ Goto(t, "idle") /\ Ends(t, "ok")
  /\ aside' = [aside EXCEPT ![t] = {}]
  /\ UNCHANGED <<rows, lastRowid, rowid, items, got, call, calls, mine, quiet,
                 foreign, hindered>>

(* The only or first statement of a call throws, or the call throws before *)
(* it: the model is restricted, a field has the wrong type, a text key is  *)
(* missing.                                                                *)
Refused(t, operation) ==
  /\ Begin(t, <<operation>>)
  /\ FirstStatement(t, FALSE, TRUE)
  /\ Ends(t, "error") /\ Inserted(t, 0) /\ Returns(t, {})
  /\ UNCHANGED <<rows, lastRowid, pc, rowid, items, aside>>

-----------------------------------------------------------------------------
(* The rowids that can be next.                                            *)
Rowids == IF KeyIsRowid THEN Keys ELSE 1..MaxCalls

Next ==
  \E t \in Threads :
    \/ \E key \in Keys, note \in Notes :
         \/ \E id \in Rowids : Insert(t, id, key, note)
         \/ InsertConflicts(t, key, note)
         \/ Update(t, key, note) \/ UpdateConflicts(t, key, note)
    \/ \E id \in OtherIds : OtherInsert(t, id)
    \/ ReadRowid(t) \/ Fetch(t) \/ FetchThrows(t)
    \/ \E key \in Keys : Remove(t, key) \/ Find(t, key)
    \/ \E note \in Notes : RemoveBy(t, note)
    \/ \E item \in items[t] : RemoveItem(t, item) \/ RemoveItemThrows(t, item)
    \/ RemoveByReturns(t)
    \/ \E operation \in Operations \ {"none"} : Refused(t, operation)

Spec == Init /\ [][Next]_vars
-----------------------------------------------------------------------------
Calls ==
  {<<"none">>} \cup {<<operation>> : operation \in Operations}
    \cup ({"insert", "update"} \X Keys \X Notes)
    \cup ({"remove", "find"} \X Keys) \cup ({"remove_by"} \X Notes)

TypeOK ==
  /\ rows \subseteq Row
  /\ lastRowid \in Nat
  /\ pc \in [Threads -> {"idle", "inserted", "fetch", "removing"}]
  /\ rowid \in [Threads -> Nat]
  /\ items \in [Threads -> SUBSET Row]
  /\ got \in [Threads -> SUBSET Row]
  /\ call \in [Threads -> Calls]
  /\ outcome \in [Threads -> Outcomes]
  /\ calls \in Nat
  /\ mine \in [Threads -> Nat]
  /\ quiet \in [Threads -> BOOLEAN]
  /\ foreign \in [Threads -> BOOLEAN]
  /\ hindered \in [Threads -> BOOLEAN]
  /\ aside \in [Threads -> SUBSET Row]

(* The last call of t was this one, and it returned without an error.      *)
Succeeded(t, operation) == call[t][1] = operation /\ outcome[t] = "ok"

(***************************************************************************)
(* insert() returns the model it inserted, as long as no other thread      *)
(* changes the table before it returns, nor inserts into another table     *)
(* before it asks for the last rowid: the rowid is then that of its own    *)
(* INSERT, and so is the row found by it.  A thread that inserts in        *)
(* between, anywhere in the database, makes it return another model as if  *)
(* it were its own, or throw.  Database.hpp:171-180.                       *)
(***************************************************************************)
InsertReturnsOwn ==
  \A t \in Threads : Succeeded(t, "insert") /\ quiet[t] /\ ~foreign[t] =>
    /\ got[t] = {r \in rows : r.born = mine[t]}
    /\ \E r \in got[t] : r.key = call[t][2] /\ r.note = call[t][3]

(***************************************************************************)
(* Whatever the other threads do to this table, insert() returns no row    *)
(* that was there before it, although rowids are used again after a        *)
(* removal and texts as keys can be renamed: only the rowid of another     *)
(* table's row leads to an older one.  Database.hpp:171-180.               *)
(***************************************************************************)
InsertNeverOlder ==
  \A t \in Threads : ~foreign[t] => \A r \in got[t] : r.born >= mine[t]

(***************************************************************************)
(* save() reports an error for a row that it did insert only if another    *)
(* thread changed the table meanwhile or moved the last rowid by an insert *)
(* into another table, or the file was busy when the row was read back:    *)
(* without these an error means that nothing was inserted.                 *)
(* Database.hpp:171-178, Repository.hpp:238-244.                           *)
(***************************************************************************)
FailedInsertExplained ==
  \A t \in Threads :
    call[t][1] = "insert" /\ outcome[t] = "error" /\ mine[t] # 0 =>
      ~quiet[t] \/ foreign[t] \/ hindered[t]

(***************************************************************************)
(* After a successful update() at most one row has a key that contains the *)
(* model's key, and that row is the model: an update never spreads over    *)
(* several rows although LIKE selects them, because the key it assigns to  *)
(* all of them is unique.  (The row may have had another, longer key.)     *)
(* Database.hpp:183-266, 290-328.                                          *)
(***************************************************************************)
UpdateIdentifies ==
  \A t \in Threads : Succeeded(t, "update") /\ quiet[t] =>
    \A r, s \in WithKey(call[t][2]) :
      r = s /\ r.key = call[t][2] /\ r.note = call[t][3]

(***************************************************************************)
(* When remove_by() returns, each row that still matches was inserted or   *)
(* changed by another thread while it ran, or is one whose removal failed: *)
(* failures are passed over in silence, but a failure or what the other    *)
(* threads do to some rows saves no other row.  Repository.hpp:290-297.    *)
(***************************************************************************)
RemoveByRemoves ==
  \A t \in Threads :
    pc[t] = "removing" /\ items[t] = {} => WithNote(call[t][2]) \subseteq aside[t]

(***************************************************************************)
(* A row that remove_by() removes matches, or its text key contains that   *)
(* of another row that it loaded, or another thread inserted or changed    *)
(* that very row after the models were loaded: this one is removed         *)
(* although it no longer matches, and it is the only kind that is.         *)
(* Repository.hpp:290-297, Database.hpp:290-328.                           *)
(***************************************************************************)
RemovesOnlyMatching ==
  [][\A t \in Threads :
       pc[t] = "removing" /\ items'[t] # items[t] =>
         \A r \in rows \ rows' :
           \/ <<r.note, call[t][2]>> \in Like
           \/ \E i \in items[t] : i.key # r.key /\ <<r.key, i.key>> \in Like
           \/ r \in aside[t]]_vars

(***************************************************************************)
(* "Find a unique registry using the primary key's ids": find() returns    *)
(* the row that has the key, if there is one.  Repository.hpp:216-228.     *)
(***************************************************************************)
FindUsesKey ==
  \A t \in Threads : Succeeded(t, "find") /\ quiet[t] =>
    \A r \in rows : r.key = call[t][2] => got[t] = {r}
=============================================================================
