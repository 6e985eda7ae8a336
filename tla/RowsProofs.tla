----------------------------- MODULE RowsProofs -----------------------------
(***************************************************************************)
(* Proofs of the properties of Rows, for any number of threads and calls,  *)
(* any keys and notes, and any relation LIKE in which every text contains  *)
(* itself.                                                                 *)
(***************************************************************************)
EXTENDS Rows, TLAPS

(* What identifies a row.                                                  *)
TableInv ==
  /\ \A r, s \in rows : r.rowid = s.rowid \/ r.born = s.born \/ r.key = s.key => r = s
  /\ \A r \in rows : r.born <= calls
  /\ KeyIsRowid => \A r \in rows : r.rowid = r.key

(* What the place of a thread tells about its call.                        *)
CallInv ==
  \A t \in Threads :
    /\ mine[t] <= calls
    /\ pc[t] \in {"inserted", "fetch"} =>
         call[t][1] = "insert" /\ outcome[t] = "running" /\ mine[t] # 0
    /\ pc[t] = "removing" => call[t][1] = "remove_by" /\ outcome[t] = "running"
    /\ pc[t] = "idle" => outcome[t] # "running"
    /\ Succeeded(t, "insert") => mine[t] # 0
    /\ mine[t] # 0 => call[t][1] = "insert"

(* Where the last rowid leads to: to no row older than the call's, unless  *)
(* it is that of another table.                                            *)
YoungInv ==
  /\ InsertNeverOlder
  /\ \A t \in Threads, r \in rows :
       /\ ~foreign[t]
       /\ \/ pc[t] = "inserted" /\ r.rowid = lastRowid
          \/ pc[t] = "fetch" /\ r.rowid = rowid[t]
       => r.born >= mine[t]

(* As long as no other thread changes the table or moves the last rowid,   *)
(* the row stays there.                                                    *)
OwnInv ==
  \A t \in Threads : mine[t] # 0 /\ quiet[t] /\ ~foreign[t] =>
    \E r \in rows :
      /\ r.born = mine[t] /\ r.key = call[t][2] /\ r.note = call[t][3]
      /\ pc[t] = "inserted" => r.rowid = lastRowid
      /\ pc[t] = "fetch" => r.rowid = rowid[t]
      /\ outcome[t] = "ok" => got[t] = {r}
      /\ outcome[t] = "error" => hindered[t]

(* What matches is still to be removed, or has been set aside.             *)
RemoveInv ==
  \A t \in Threads : pc[t] = "removing" =>
    WithNote(call[t][2]) \subseteq items[t] \cup aside[t]

FindInv == KeyIsRowid => FindUsesKey

IInv ==
  /\ TypeOK /\ TableInv /\ CallInv /\ YoungInv /\ OwnInv
  /\ UpdateIdentifies /\ RemoveInv /\ FindInv

-----------------------------------------------------------------------------
(* What an update does to one row.                                         *)
LEMMA UpdatedRow ==
  ASSUME TypeOK, NEW r \in rows, NEW key \in Keys, NEW note \in Notes
  PROVE  /\ Updated(r, key, note) \in Row
         /\ Updated(r, key, note).rowid = r.rowid
         /\ Updated(r, key, note).born = r.born
         /\ <<r.key, key>> \in Like =>
              /\ Updated(r, key, note).key = key
              /\ Updated(r, key, note).note = note
         /\ <<r.key, key>> \notin Like => Updated(r, key, note) = r
<1>1. r \in Row
  BY DEF TypeOK
<1>2. CASE <<r.key, key>> \in Like
  <2>1. r \in WithKey(key)
    BY <1>2 DEF WithKey
  <2>2. Updated(r, key, note) = [r EXCEPT !.key = key, !.note = note]
    BY <2>1 DEF Updated
  <2>3. Updated(r, key, note) =
          [rowid |-> r.rowid, key |-> key, note |-> note, born |-> r.born]
    BY <1>1, <2>2 DEF Row
  <2> QED BY <1>1, <1>2, <2>3 DEF Row
<1>3. CASE <<r.key, key>> \notin Like
  <2>1. Updated(r, key, note) = r
    BY <1>3 DEF WithKey, Updated
  <2> QED BY <1>1, <1>3, <2>1
<1> QED BY <1>2, <1>3

(* The table after an update: the rows keep what identifies them.          *)
LEMMA UpdatedTable ==
  ASSUME TypeOK, TableInv, NEW key \in Keys, NEW note \in Notes, UpdateFits(key)
  PROVE  \A r, s \in rows :
           LET v == Updated(r, key, note)
               w == Updated(s, key, note)
           IN  /\ v.rowid = w.rowid \/ v.born = w.born \/ v.key = w.key => v = w
               /\ <<v.key, key>> \in Like => v.key = key /\ v.note = note
               /\ <<v.key, key>> \in Like /\ <<w.key, key>> \in Like => v = w
<1> SUFFICES ASSUME NEW r \in rows, NEW s \in rows
             PROVE  LET v == Updated(r, key, note)
                        w == Updated(s, key, note)
                    IN  /\ v.rowid = w.rowid \/ v.born = w.born \/ v.key = w.key => v = w
                        /\ <<v.key, key>> \in Like => v.key = key /\ v.note = note
                        /\ <<v.key, key>> \in Like /\ <<w.key, key>> \in Like => v = w
  OBVIOUS
<1> DEFINE v == Updated(r, key, note)
           w == Updated(s, key, note)
<1>1. /\ v.rowid = r.rowid /\ v.born = r.born
      /\ <<r.key, key>> \in Like => v.key = key /\ v.note = note
      /\ <<r.key, key>> \notin Like => v = r
  BY UpdatedRow
<1>2. /\ w.rowid = s.rowid /\ w.born = s.born
      /\ <<s.key, key>> \in Like => w.key = key /\ w.note = note
      /\ <<s.key, key>> \notin Like => w = s
  BY UpdatedRow
<1>3. <<r.key, key>> \in Like /\ <<s.key, key>> \in Like => r = s
  BY DEF UpdateFits, WithKey
<1>4. <<key, key>> \in Like
  BY RowsAssumption
<1>5. r.rowid = s.rowid \/ r.born = s.born \/ r.key = s.key => r = s
  BY DEF TableInv
<1> HIDE DEF v, w
<1>6. r = s => v = w
  BY DEF v, w
<1>7. v.rowid = w.rowid \/ v.born = w.born \/ v.key = w.key => v = w
  BY <1>1, <1>2, <1>3, <1>4, <1>5, <1>6
<1>8. <<v.key, key>> \in Like => v.key = key /\ v.note = note
  BY <1>1
<1>9. <<v.key, key>> \in Like /\ <<w.key, key>> \in Like => v = w
  BY <1>1, <1>2, <1>3, <1>6
<1> QED BY <1>7, <1>8, <1>9 DEF v, w

(* Every action preserves the invariant, part by part.                     *)
USE DEF IInv, Begin, Goto, Ends, Returns, Inserted, FirstStatement,
        LaterChange, NewRows

(* The new row is the youngest, its key and its rowid are new.             *)
LEMMA InsertKeeps ==
  ASSUME IInv, NEW t \in Threads, NEW id \in Rowids, NEW key \in Keys, NEW
         note \in Notes, Insert(t, id, key, note)
  PROVE  IInv'
<1> USE RowsAssumption DEF Insert, KeyIsFree, IsNextRowid, LastRowidAfterInsert, Rowids, Row
<1>1. TypeOK'
  BY DEF TypeOK, Row, Calls, Operations, Outcomes
<1>2. TableInv'
  BY DEF TypeOK, Row, Calls, Operations, Outcomes, TableInv
<1>3. CallInv'
  BY DEF TypeOK, Row, Calls, Operations, Outcomes, CallInv, Succeeded
<1>4. YoungInv'
  BY DEF TypeOK, Row, Calls, Operations, Outcomes, TableInv, CallInv,
         Succeeded, YoungInv, InsertNeverOlder
<1>5. OwnInv'
  <2>1. \A u \in Threads \ {t} : ~quiet'[u]
    BY DEF TypeOK
  <2>2. PICK r \in rows' : r = [rowid |-> id, key |-> key, note |-> note, born |-> calls + 1]
    OBVIOUS
  <2>3. /\ mine'[t] = calls + 1 /\ call'[t] = <<"insert", key, note>>
        /\ pc'[t] = "inserted" /\ lastRowid' = id /\ outcome'[t] = "running"
    BY DEF TypeOK
  <2>4. /\ r.born = mine'[t] /\ r.key = call'[t][2] /\ r.note = call'[t][3]
        /\ r.rowid = lastRowid' /\ pc'[t] # "fetch"
        /\ outcome'[t] # "ok" /\ outcome'[t] # "error"
    BY <2>2, <2>3
  <2> QED BY <2>1, <2>4 DEF OwnInv
<1>6. UpdateIdentifies'
  <2>1. \A u \in Threads \ {t} : ~quiet'[u]
    BY DEF TypeOK
  <2>2. call'[t][1] = "insert"
    BY DEF TypeOK
  <2> QED BY <2>1, <2>2 DEF UpdateIdentifies, Succeeded
<1>7. RemoveInv'
  BY DEF TypeOK, Row, Calls, Operations, Outcomes, CallInv, Succeeded,
         RemoveInv, WithNote
<1>8. FindInv'
  <2>1. \A u \in Threads \ {t} : ~quiet'[u]
    BY DEF TypeOK
  <2>2. call'[t][1] = "insert"
    BY DEF TypeOK
  <2> QED BY <2>1, <2>2 DEF FindInv, FindUsesKey, Succeeded
<1> QED BY <1>1, <1>2, <1>3, <1>4, <1>5, <1>6, <1>7, <1>8

(* Calls of one statement that change nothing: conflicts, refusals and find(). *)
LEMMA NothingKeeps ==
  ASSUME IInv, NEW t \in Threads, NEW what \in Calls, NEW found \in SUBSET
         rows, NEW how \in {"ok", "error"}, NEW busy \in BOOLEAN, pc[t] =
         "idle", calls' = calls + 1, call' = [call EXCEPT ![t] = what],
         FirstStatement(t, FALSE, busy), Ends(t, how), Inserted(t, 0),
         Returns(t, found), UNCHANGED <<rows, lastRowid, pc, rowid, items, aside>>,
         how = "ok" => what[1] = "find",
         what[1] = "find" /\ how = "ok" /\ KeyIsRowid =>
           \A r \in rows : r.key = what[2] => found = {r}
  PROVE  IInv'
<1>1. TypeOK'
  BY DEF TypeOK, Row, Calls, Operations, Outcomes
<1>2. TableInv'
  BY DEF TypeOK, Row, Calls, Operations, Outcomes, TableInv
<1>3. CallInv'
  BY DEF TypeOK, Row, Calls, Operations, Outcomes, CallInv, Succeeded
<1>4. YoungInv'
  BY DEF TypeOK, Row, Calls, Operations, Outcomes, YoungInv, InsertNeverOlder
<1>5. OwnInv'
  BY DEF TypeOK, Row, Calls, Operations, Outcomes, OwnInv
<1>6. UpdateIdentifies'
  BY DEF TypeOK, Row, Calls, Operations, Outcomes, CallInv, Succeeded,
         UpdateIdentifies, WithKey
<1>7. RemoveInv'
  BY DEF TypeOK, Row, Calls, Operations, Outcomes, CallInv, Succeeded,
         RemoveInv, WithNote
<1>8. FindInv'
  BY DEF TypeOK, Row, Calls, Operations, Outcomes, CallInv, Succeeded,
         FindInv, FindUsesKey
<1> QED BY <1>1, <1>2, <1>3, <1>4, <1>5, <1>6, <1>7, <1>8

(* The rowid is that of the last INSERT.                                   *)
LEMMA ReadRowidKeeps ==
  ASSUME IInv, NEW t \in Threads, ReadRowid(t)
  PROVE  IInv'
<1> USE DEF ReadRowid
<1>1. TypeOK'
  BY DEF TypeOK, Row, Calls, Operations, Outcomes
<1>2. TableInv'
  BY DEF TableInv
<1>3. CallInv'
  BY DEF CallInv, Succeeded
<1>4. YoungInv'
  BY DEF TypeOK, Row, Calls, Operations, Outcomes, YoungInv, InsertNeverOlder
<1>5. OwnInv'
  BY DEF TypeOK, Row, Calls, Operations, Outcomes, OwnInv
<1>6. UpdateIdentifies'
  BY DEF CallInv, Succeeded, UpdateIdentifies, WithKey
<1>7. RemoveInv'
  BY DEF CallInv, Succeeded, RemoveInv, WithNote
<1>8. FindInv'
  BY DEF CallInv, Succeeded, FindInv, FindUsesKey
<1> QED BY <1>1, <1>2, <1>3, <1>4, <1>5, <1>6, <1>7, <1>8

(* An insert into another table moves the last rowid for the calls that    *)
(* have yet to ask for it, and these are marked.                           *)
LEMMA OtherInsertKeeps ==
  ASSUME IInv, NEW t \in Threads, NEW id \in OtherIds, OtherInsert(t, id)
  PROVE  IInv'
<1> USE RowsAssumption DEF OtherInsert, LastRowidAfterInsert
<1>a. /\ calls' = calls + 1 /\ lastRowid' = id /\ id \in Nat
      /\ UNCHANGED <<rows, pc, rowid, items, got, call, outcome, mine, quiet, hindered,
                     aside>>
  OBVIOUS
<1>b. /\ foreign' \in [Threads -> BOOLEAN]
      /\ \A u \in Threads : ~foreign'[u] => ~foreign[u] /\ pc[u] # "inserted"
  BY DEF TypeOK
<1>1. TypeOK'
  BY <1>a, <1>b DEF TypeOK
<1>2. TableInv'
  BY <1>a DEF TableInv, TypeOK, Row
<1>3. CallInv'
  BY <1>a DEF CallInv, Succeeded, TypeOK
<1>4. YoungInv'
  BY <1>a, <1>b DEF YoungInv, InsertNeverOlder
<1>5. OwnInv'
  BY <1>a, <1>b DEF OwnInv
<1>6. UpdateIdentifies'
  BY <1>a DEF Succeeded, UpdateIdentifies, WithKey
<1>7. RemoveInv'
  BY <1>a DEF Succeeded, RemoveInv, WithNote
<1>8. FindInv'
  BY <1>a DEF Succeeded, FindInv, FindUsesKey
<1> QED BY <1>1, <1>2, <1>3, <1>4, <1>5, <1>6, <1>7, <1>8

(* The row returned is not older than the call.                            *)
LEMMA FetchKeeps ==
  ASSUME IInv, NEW t \in Threads, Fetch(t)
  PROVE  IInv'
<1> USE DEF Fetch, Fetched
<1>1. TypeOK'
  BY DEF TypeOK, Row, Calls, Operations, Outcomes
<1>2. TableInv'
  BY DEF TableInv
<1>3. CallInv'
  BY DEF TypeOK, Row, Calls, Operations, Outcomes, CallInv, Succeeded
<1>4. YoungInv'
  BY DEF YoungInv, InsertNeverOlder
<1>5. OwnInv'
  BY DEF TypeOK, Row, Calls, Operations, Outcomes, TableInv, OwnInv
<1>6. UpdateIdentifies'
  BY DEF CallInv, Succeeded, UpdateIdentifies, WithKey
<1>7. RemoveInv'
  BY DEF CallInv, Succeeded, RemoveInv, WithNote
<1>8. FindInv'
  BY DEF CallInv, Succeeded, FindInv, FindUsesKey
<1> QED BY <1>1, <1>2, <1>3, <1>4, <1>5, <1>6, <1>7, <1>8

(* The row stays inserted, and the call was hindered.                      *)
LEMMA FetchThrowsKeeps ==
  ASSUME IInv, NEW t \in Threads, FetchThrows(t)
  PROVE  IInv'
<1> USE DEF FetchThrows
<1>1. TypeOK'
  BY DEF TypeOK, Row, Calls, Operations, Outcomes
<1>2. TableInv'
  BY DEF TableInv
<1>3. CallInv'
  BY DEF TypeOK, Row, Calls, Operations, Outcomes, CallInv, Succeeded
<1>4. YoungInv'
  BY DEF YoungInv, InsertNeverOlder
<1>5. OwnInv'
  BY DEF TypeOK, Row, Calls, Operations, Outcomes, OwnInv
<1>6. UpdateIdentifies'
  BY DEF CallInv, Succeeded, UpdateIdentifies, WithKey
<1>7. RemoveInv'
  BY DEF CallInv, Succeeded, RemoveInv, WithNote
<1>8. FindInv'
  BY DEF CallInv, Succeeded, FindInv, FindUsesKey
<1> QED BY <1>1, <1>2, <1>3, <1>4, <1>5, <1>6, <1>7, <1>8

(* At most one row is selected, and it keeps its rowid.                    *)
LEMMA UpdateKeeps ==
  ASSUME IInv, NEW t \in Threads, NEW key \in Keys, NEW note \in Notes,
         Update(t, key, note)
  PROVE  IInv'
<1> USE DEF Update
<1>1. TypeOK'
  <2>1. rows' = {Updated(r, key, note) : r \in rows}
    OBVIOUS
  <2>2. \A r \in rows : Updated(r, key, note) \in Row
    BY UpdatedRow
  <2>3. rows' \subseteq Row
    BY <2>1, <2>2
  <2>4. <<"update", key, note>> \in Calls
    BY DEF Calls
  <2>5. aside' \in [Threads -> SUBSET Row]
    BY <2>3 DEF TypeOK
  <2> QED BY <2>3, <2>4, <2>5 DEF TypeOK, Outcomes
<1>2. TableInv'
  <2>1. rows' = {Updated(r, key, note) : r \in rows}
    OBVIOUS
  <2>2. \A r, s \in rows : LET v == Updated(r, key, note)
                               w == Updated(s, key, note)
                           IN  v.rowid = w.rowid \/ v.born = w.born \/ v.key = w.key => v = w
    BY UpdatedTable, ZenonT(60)
  <2>3. \A r, s \in rows' : r.rowid = s.rowid \/ r.born = s.born \/ r.key = s.key => r = s
    BY <2>1, <2>2, ZenonT(60)
  <2>4. ASSUME NEW r \in rows PROVE Updated(r, key, note).born <= calls'
    <3>1. r.born <= calls'
      BY DEF TableInv, TypeOK, Row
    <3>2. Updated(r, key, note).born = r.born
      BY UpdatedRow
    <3> QED BY <3>1, <3>2, Zenon
  <2>5. ASSUME KeyIsRowid, NEW r \in rows
        PROVE  Updated(r, key, note).rowid = Updated(r, key, note).key
    <3>1. r.rowid = r.key /\ r.key \in Keys
      BY <2>5 DEF TableInv, TypeOK, Row
    <3>2. <<r.key, key>> \in Like => r.key = key
      BY <2>5, <3>1, RowsAssumption
    <3> QED BY <3>1, <3>2, UpdatedRow
  <2>6. \A r \in rows' : r.born <= calls'
    BY <2>1, <2>4, Zenon
  <2>7. KeyIsRowid => \A r \in rows' : r.rowid = r.key
    BY <2>1, <2>5, Zenon
  <2> QED BY <2>3, <2>6, <2>7 DEF TableInv
<1>3. CallInv'
  BY DEF TypeOK, CallInv, Succeeded
<1>4. YoungInv'
  <2>1. rows' = {Updated(r, key, note) : r \in rows}
    OBVIOUS
  <2>2. \A u \in Threads : pc'[u] = pc[u] /\ rowid'[u] = rowid[u] /\ lastRowid' = lastRowid
    OBVIOUS
  <2>3. \A u \in Threads : pc[u] # "idle" => mine'[u] = mine[u] /\ foreign'[u] = foreign[u]
    BY DEF TypeOK
  <2>4. ASSUME NEW u \in Threads, NEW r \in rows, ~foreign'[u],
               \/ pc[u] = "inserted" /\ Updated(r, key, note).rowid = lastRowid
               \/ pc[u] = "fetch" /\ Updated(r, key, note).rowid = rowid[u]
        PROVE  Updated(r, key, note).born >= mine'[u]
    <3>1. Updated(r, key, note).born = r.born /\ Updated(r, key, note).rowid = r.rowid
      BY UpdatedRow
    <3>2. \/ pc[u] = "inserted" /\ r.rowid = lastRowid
          \/ pc[u] = "fetch" /\ r.rowid = rowid[u]
      BY <2>4, <3>1, Zenon
    <3>3. r.born >= mine[u]
      BY <2>3, <2>4, <3>2 DEF YoungInv
    <3>4. mine'[u] = mine[u]
      BY <2>3, <3>2
    <3> QED BY <3>1, <3>3, <3>4, Zenon
  <2>5. InsertNeverOlder'
    BY DEF TypeOK, YoungInv, InsertNeverOlder
  <2>6. \A u \in Threads, r \in rows' :
          /\ ~foreign'[u]
          /\ \/ pc'[u] = "inserted" /\ r.rowid = lastRowid'
             \/ pc'[u] = "fetch" /\ r.rowid = rowid'[u]
          => r.born >= mine'[u]
    BY <2>1, <2>2, <2>4
  <2> QED BY <2>5, <2>6 DEF YoungInv
<1>5. OwnInv'
  <2>1. \A u \in Threads \ {t} : quiet'[u] => quiet[u] /\ rows' = rows
    BY DEF TypeOK
  <2>2. \A u \in Threads \ {t} :
          /\ call'[u] = call[u] /\ outcome'[u] = outcome[u] /\ got'[u] = got[u]
          /\ pc'[u] = pc[u] /\ mine'[u] = mine[u] /\ hindered'[u] = hindered[u]
          /\ items'[u] = items[u]
    BY DEF TypeOK
  <2>3. mine'[t] = 0
    BY DEF TypeOK
  <2>4. lastRowid' = lastRowid /\ rowid' = rowid
    OBVIOUS
  <2> QED BY <2>1, <2>2, <2>3, <2>4 DEF OwnInv
<1>6. UpdateIdentifies'
  <2>1. \A u \in Threads \ {t} : quiet'[u] => quiet[u] /\ rows' = rows
    BY DEF TypeOK
  <2>2. \A u \in Threads \ {t} :
          /\ call'[u] = call[u] /\ outcome'[u] = outcome[u] /\ got'[u] = got[u]
          /\ pc'[u] = pc[u] /\ mine'[u] = mine[u] /\ hindered'[u] = hindered[u]
          /\ items'[u] = items[u]
    BY DEF TypeOK
  <2>3. call'[t] = <<"update", key, note>>
    BY DEF TypeOK
  <2>4. \A r, s \in rows' : <<r.key, key>> \in Like /\ <<s.key, key>> \in Like =>
          r = s /\ r.key = key /\ r.note = note
    BY UpdatedTable
  <2> QED BY <2>1, <2>2, <2>3, <2>4 DEF UpdateIdentifies, Succeeded, WithKey
<1>7. RemoveInv'
  <2> SUFFICES ASSUME NEW u \in Threads, pc'[u] = "removing",
                      NEW r \in rows', <<r.note, call'[u][2]>> \in Like
               PROVE  r \in items'[u] \cup aside'[u]
    BY DEF RemoveInv, WithNote
  <2>1. u # t /\ pc[u] = "removing"
    OBVIOUS
  <2>2. call'[u] = call[u] /\ items'[u] = items[u]
    BY <2>1 DEF TypeOK
  <2>3. aside'[u] = aside[u] \cup (rows' \ rows)
    BY <2>1
  <2>4. r \in rows => r \in items[u] \cup aside[u]
    BY <2>1, <2>2 DEF RemoveInv, WithNote
  <2> QED BY <2>2, <2>3, <2>4
<1>8. FindInv'
  <2>1. \A u \in Threads \ {t} : quiet'[u] => quiet[u] /\ rows' = rows
    BY DEF TypeOK
  <2>2. \A u \in Threads \ {t} :
          /\ call'[u] = call[u] /\ outcome'[u] = outcome[u] /\ got'[u] = got[u]
          /\ pc'[u] = pc[u] /\ mine'[u] = mine[u] /\ hindered'[u] = hindered[u]
          /\ items'[u] = items[u]
    BY DEF TypeOK
  <2>3. call'[t][1] = "update"
    BY DEF TypeOK
  <2> QED BY <2>1, <2>2, <2>3 DEF FindInv, FindUsesKey, Succeeded
<1> QED BY <1>1, <1>2, <1>3, <1>4, <1>5, <1>6, <1>7, <1>8

(* Rows go, none comes.                                                    *)
LEMMA RemoveKeeps ==
  ASSUME IInv, NEW t \in Threads, NEW key \in Keys, Remove(t, key)
  PROVE  IInv'
<1> USE DEF Remove
<1>1. TypeOK'
  BY DEF TypeOK, Row, Calls, Operations, Outcomes
<1>2. TableInv'
  BY DEF TypeOK, Row, Calls, Operations, Outcomes, TableInv
<1>3. CallInv'
  BY DEF TypeOK, Row, Calls, Operations, Outcomes, CallInv, Succeeded
<1>4. YoungInv'
  BY DEF TypeOK, Row, Calls, Operations, Outcomes, YoungInv, InsertNeverOlder
<1>5. OwnInv'
  <2>1. \A u \in Threads \ {t} : quiet'[u] => quiet[u] /\ rows' = rows
    BY DEF TypeOK
  <2>2. \A u \in Threads \ {t} :
          /\ call'[u] = call[u] /\ outcome'[u] = outcome[u] /\ got'[u] = got[u]
          /\ pc'[u] = pc[u] /\ mine'[u] = mine[u] /\ hindered'[u] = hindered[u]
          /\ items'[u] = items[u]
    BY DEF TypeOK
  <2>3. mine'[t] = 0
    BY DEF TypeOK
  <2>4. lastRowid' = lastRowid /\ rowid' = rowid
    OBVIOUS
  <2> QED BY <2>1, <2>2, <2>3, <2>4 DEF OwnInv
<1>6. UpdateIdentifies'
  BY DEF TypeOK, Row, Calls, Operations, Outcomes, CallInv, Succeeded,
         UpdateIdentifies, WithKey
<1>7. RemoveInv'
  BY DEF TypeOK, Row, Calls, Operations, Outcomes, CallInv, Succeeded,
         RemoveInv, WithNote
<1>8. FindInv'
  BY DEF TypeOK, Row, Calls, Operations, Outcomes, CallInv, Succeeded,
         FindInv, FindUsesKey
<1> QED BY <1>1, <1>2, <1>3, <1>4, <1>5, <1>6, <1>7, <1>8

(* The rows that match are those to be removed.                            *)
LEMMA RemoveByKeeps ==
  ASSUME IInv, NEW t \in Threads, NEW note \in Notes, RemoveBy(t, note)
  PROVE  IInv'
<1> USE DEF RemoveBy
<1>1. TypeOK'
  BY DEF TypeOK, Row, Calls, Operations, Outcomes, RemoveInv, WithNote
<1>2. TableInv'
  BY DEF TypeOK, Row, Calls, Operations, Outcomes, TableInv
<1>3. CallInv'
  BY DEF TypeOK, Row, Calls, Operations, Outcomes, CallInv, Succeeded
<1>4. YoungInv'
  BY DEF TypeOK, Row, Calls, Operations, Outcomes, YoungInv, InsertNeverOlder
<1>5. OwnInv'
  BY DEF TypeOK, Row, Calls, Operations, Outcomes, OwnInv
<1>6. UpdateIdentifies'
  BY DEF TypeOK, Row, Calls, Operations, Outcomes, CallInv, Succeeded,
         UpdateIdentifies, WithKey
<1>7. RemoveInv'
  BY DEF TypeOK, Row, Calls, Operations, Outcomes, CallInv, Succeeded,
         RemoveInv, WithNote
<1>8. FindInv'
  BY DEF TypeOK, Row, Calls, Operations, Outcomes, CallInv, Succeeded,
         FindInv, FindUsesKey
<1> QED BY <1>1, <1>2, <1>3, <1>4, <1>5, <1>6, <1>7, <1>8

(* The item is removed, because its key contains itself.                   *)
LEMMA RemoveItemKeeps ==
  ASSUME IInv, NEW t \in Threads, NEW item \in items[t], RemoveItem(t, item)
  PROVE  IInv'
<1> USE RowsAssumption DEF RemoveItem, ItemsAfterRemoval, Row
<1>1. TypeOK'
  <2>1. rows' \subseteq Row /\ items' \in [Threads -> SUBSET Row]
    BY DEF TypeOK
  <2>2. quiet' \in [Threads -> BOOLEAN]
    BY DEF TypeOK
  <2> QED BY <2>1, <2>2 DEF TypeOK
<1>2. TableInv'
  BY DEF TableInv
<1>3. CallInv'
  BY DEF CallInv, Succeeded
<1>4. YoungInv'
  BY DEF YoungInv, InsertNeverOlder
<1>5. OwnInv'
  <2>1. \A u \in Threads \ {t} : quiet'[u] => quiet[u] /\ rows' = rows
    BY DEF TypeOK
  <2>2. mine[t] = 0
    BY DEF CallInv
  <2> QED BY <2>1, <2>2 DEF OwnInv
<1>6. UpdateIdentifies'
  BY DEF TypeOK, Row, Calls, Operations, Outcomes, CallInv, Succeeded,
         UpdateIdentifies, WithKey
<1>7. RemoveInv'
  BY DEF TypeOK, Row, Calls, Operations, Outcomes, CallInv, Succeeded,
         UpdateIdentifies, WithKey, RemoveInv, WithNote
<1>8. FindInv'
  BY ZenonT(60) DEF CallInv, Succeeded, FindInv, FindUsesKey
<1> QED BY <1>1, <1>2, <1>3, <1>4, <1>5, <1>6, <1>7, <1>8

(* The item is set aside.                                                  *)
LEMMA RemoveItemThrowsKeeps ==
  ASSUME IInv, NEW t \in Threads, NEW item \in items[t], RemoveItemThrows(t,
         item)
  PROVE  IInv'
<1> USE DEF RemoveItemThrows, ItemsAfterRemoval
<1>1. TypeOK'
  BY DEF TypeOK, Row, Calls, Operations, Outcomes
<1>2. TableInv'
  BY DEF TableInv
<1>3. CallInv'
  BY DEF CallInv, Succeeded
<1>4. YoungInv'
  BY DEF YoungInv, InsertNeverOlder
<1>5. OwnInv'
  BY DEF OwnInv
<1>6. UpdateIdentifies'
  BY DEF CallInv, Succeeded, UpdateIdentifies, WithKey
<1>7. RemoveInv'
  BY DEF TypeOK, Row, Calls, Operations, Outcomes, CallInv, Succeeded,
         RemoveInv, WithNote
<1>8. FindInv'
  BY DEF CallInv, Succeeded, FindInv, FindUsesKey
<1> QED BY <1>1, <1>2, <1>3, <1>4, <1>5, <1>6, <1>7, <1>8

(* Nothing is left to be removed.                                          *)
LEMMA RemoveByReturnsKeeps ==
  ASSUME IInv, NEW t \in Threads, RemoveByReturns(t)
  PROVE  IInv'
<1> USE DEF RemoveByReturns
<1>1. TypeOK'
  BY DEF TypeOK, Row, Calls, Operations, Outcomes
<1>2. TableInv'
  BY DEF TableInv
<1>3. CallInv'
  BY DEF TypeOK, Row, Calls, Operations, Outcomes, CallInv, Succeeded
<1>4. YoungInv'
  BY DEF YoungInv, InsertNeverOlder
<1>5. OwnInv'
  BY DEF CallInv, Succeeded, OwnInv
<1>6. UpdateIdentifies'
  BY DEF CallInv, Succeeded, UpdateIdentifies, WithKey
<1>7. RemoveInv'
  <2>1. pc'[t] = "idle" /\ \A u \in Threads \ {t} :
          pc'[u] = pc[u] /\ aside'[u] = aside[u]
    BY DEF TypeOK
  <2> QED BY <2>1 DEF RemoveInv, WithNote
<1>8. FindInv'
  BY DEF CallInv, Succeeded, FindInv, FindUsesKey
<1> QED BY <1>1, <1>2, <1>3, <1>4, <1>5, <1>6, <1>7, <1>8

HIDE DEF IInv, Begin, Goto, Ends, Returns, Inserted, FirstStatement,
         LaterChange, NewRows

(* With integer keys find() returns the row that has the key.              *)
LEMMA FoundHasKey ==
  ASSUME TypeOK, TableInv, KeyIsRowid, NEW key \in Keys,
         NEW r \in rows, r.key = key
  PROVE  Found(key) = {r}
<1>1. \A s \in rows : <<s.key, key>> \in Like <=> s = r
  <2> SUFFICES ASSUME NEW s \in rows
               PROVE  <<s.key, key>> \in Like <=> s = r
    OBVIOUS
  <2>1. s.key \in Keys
    BY DEF TypeOK, Row
  <2>2. <<s.key, key>> \in Like => s.key = r.key
    BY <2>1, RowsAssumption
  <2>3. s.key = r.key => s = r
    BY DEF TableInv
  <2>4. s = r => <<s.key, key>> \in Like
    BY RowsAssumption
  <2> QED BY <2>2, <2>3, <2>4
<1>2. WithKey(key) = {r}
  BY <1>1 DEF WithKey
<1>3. r.rowid <= r.rowid
  BY DEF TypeOK, Row
<1> QED BY <1>2, <1>3 DEF Found, First

(* The invariant holds at first.                                           *)
LEMMA InitEstablishes == Init => IInv
<1> SUFFICES ASSUME Init PROVE IInv
  OBVIOUS
<1> USE DEF Init
<1>1. TypeOK
  BY DEF TypeOK, Calls, Operations, Outcomes
<1>2. TableInv /\ CallInv /\ YoungInv /\ OwnInv
  BY DEF TableInv, CallInv, Succeeded, YoungInv, InsertNeverOlder, OwnInv
<1>3. UpdateIdentifies /\ RemoveInv /\ FindInv
  BY DEF UpdateIdentifies, RemoveInv, FindInv, FindUsesKey,
         Succeeded, WithKey, WithNote
<1> QED BY <1>1, <1>2, <1>3 DEF IInv

(* Every step preserves the invariant.                                     *)
LEMMA NextKeeps == IInv /\ [Next]_vars => IInv'
<1> SUFFICES ASSUME IInv, [Next]_vars PROVE IInv'
  OBVIOUS
<1>1. ASSUME NEW t \in Threads, NEW id \in Rowids, NEW key \in Keys,
             NEW note \in Notes, Insert(t, id, key, note)
      PROVE  IInv'
  BY <1>1, InsertKeeps
<1>2. ASSUME NEW t \in Threads, NEW key \in Keys, NEW note \in Notes,
             InsertConflicts(t, key, note)
      PROVE  IInv'
  <2>1. <<"insert", key, note>> \in Calls
    BY DEF Calls
  <2> QED BY <1>2, <2>1, NothingKeeps DEF InsertConflicts, Begin
<1>3. ASSUME NEW t \in Threads, NEW key \in Keys, NEW note \in Notes,
             UpdateConflicts(t, key, note)
      PROVE  IInv'
  <2>1. <<"update", key, note>> \in Calls
    BY DEF Calls
  <2> QED BY <1>3, <2>1, NothingKeeps DEF UpdateConflicts, Begin
<1>4. ASSUME NEW t \in Threads, NEW key \in Keys, Find(t, key) PROVE IInv'
  <2>1. <<"find", key>> \in Calls
    BY DEF Calls
  <2>2. Found(key) \subseteq rows
    BY DEF Found, First, WithKey
  <2>3. KeyIsRowid => \A r \in rows : r.key = key => Found(key) = {r}
    BY FoundHasKey DEF IInv
  <2> QED BY <1>4, <2>1, <2>2, <2>3, NothingKeeps DEF Find, Begin
<1>5. ASSUME NEW t \in Threads, NEW operation \in Operations \ {"none"},
             Refused(t, operation)
      PROVE  IInv'
  <2>1. <<operation>> \in Calls
    BY DEF Calls
  <2> QED BY <1>5, <2>1, NothingKeeps DEF Refused, Begin
<1>6. ASSUME NEW t \in Threads, ReadRowid(t) PROVE IInv'
  BY <1>6, ReadRowidKeeps
<1>7. ASSUME NEW t \in Threads, Fetch(t) PROVE IInv'
  BY <1>7, FetchKeeps
<1>8. ASSUME NEW t \in Threads, FetchThrows(t) PROVE IInv'
  BY <1>8, FetchThrowsKeeps
<1>9. ASSUME NEW t \in Threads, NEW key \in Keys, NEW note \in Notes,
             Update(t, key, note)
      PROVE  IInv'
  BY <1>9, UpdateKeeps
<1>10. ASSUME NEW t \in Threads, NEW key \in Keys, Remove(t, key) PROVE IInv'
  BY <1>10, RemoveKeeps
<1>11. ASSUME NEW t \in Threads, NEW note \in Notes, RemoveBy(t, note) PROVE IInv'
  BY <1>11, RemoveByKeeps
<1>12. ASSUME NEW t \in Threads, NEW item \in items[t], RemoveItem(t, item)
       PROVE  IInv'
  BY <1>12, RemoveItemKeeps
<1>13. ASSUME NEW t \in Threads, NEW item \in items[t], RemoveItemThrows(t, item)
       PROVE  IInv'
  BY <1>13, RemoveItemThrowsKeeps
<1>14. ASSUME NEW t \in Threads, RemoveByReturns(t) PROVE IInv'
  BY <1>14, RemoveByReturnsKeeps
<1>15. ASSUME NEW t \in Threads, NEW id \in OtherIds, OtherInsert(t, id) PROVE IInv'
  BY <1>15, OtherInsertKeeps
<1>16. CASE UNCHANGED vars
  BY <1>16 DEF vars, IInv, TypeOK, TableInv, CallInv, YoungInv,
               InsertNeverOlder, OwnInv, UpdateIdentifies, RemoveInv,
               FindInv, FindUsesKey, Succeeded, WithKey,
               WithNote
<1> QED BY <1>1, <1>2, <1>3, <1>4, <1>5, <1>6, <1>7, <1>8, <1>9, <1>10, <1>11,
           <1>12, <1>13, <1>14, <1>15, <1>16 DEF Next

(* The invariant holds in every reachable state.                           *)
THEOREM Invariance == Spec => []IInv
<1> QED BY InitEstablishes, NextKeeps, PTL DEF Spec

-----------------------------------------------------------------------------
(* The variables keep their types.                                         *)
THEOREM TypeCorrectness == Spec => []TypeOK
<1>1. IInv => TypeOK
  BY DEF IInv
<1> QED BY <1>1, Invariance, PTL

(* insert() returns its own model as long as the other threads leave the   *)
(* table alone and insert nothing elsewhere before the rowid is asked for. *)
THEOREM ReturnsOwn == Spec => []InsertReturnsOwn
<1>1. IInv => InsertReturnsOwn
  <2> SUFFICES ASSUME IInv, NEW t \in Threads, Succeeded(t, "insert"), quiet[t], ~foreign[t]
               PROVE  /\ got[t] = {r \in rows : r.born = mine[t]}
                      /\ \E r \in got[t] : r.key = call[t][2] /\ r.note = call[t][3]
    BY DEF InsertReturnsOwn
  <2>1. mine[t] # 0 /\ outcome[t] = "ok"
    BY DEF IInv, CallInv, Succeeded
  <2>2. PICK r \in rows :
          r.born = mine[t] /\ r.key = call[t][2] /\ r.note = call[t][3] /\ got[t] = {r}
    BY <2>1 DEF IInv, OwnInv
  <2>3. \A s \in rows : s.born = mine[t] => s = r
    BY <2>2 DEF IInv, TableInv
  <2> QED BY <2>2, <2>3
<1> QED BY <1>1, Invariance, PTL

(* insert() returns no row older than the call, whatever is removed,       *)
(* renamed and inserted in this table meanwhile, unless the rowid is that  *)
(* of another table.                                                       *)
THEOREM NeverOlder == Spec => []InsertNeverOlder
<1>1. IInv => InsertNeverOlder
  BY DEF IInv, YoungInv
<1> QED BY <1>1, Invariance, PTL

(* An error of save() for a row that it inserted has one of the three      *)
(* explanations.                                                           *)
THEOREM ErrorExplained == Spec => []FailedInsertExplained
<1>1. IInv => FailedInsertExplained
  BY DEF IInv, OwnInv, FailedInsertExplained
<1> QED BY <1>1, Invariance, PTL

(* After an update at most one row contains the key, and it is the model.  *)
THEOREM UpdateIsUnique == Spec => []UpdateIdentifies
<1>1. IInv => UpdateIdentifies
  BY DEF IInv
<1> QED BY <1>1, Invariance, PTL

(* remove_by() leaves nothing that matches but what another thread         *)
(* inserted or changed, or what a removal that failed left.                *)
THEOREM RemovesAll == Spec => []RemoveByRemoves
<1>1. IInv => RemoveByRemoves
  BY DEF IInv, RemoveInv, RemoveByRemoves
<1> QED BY <1>1, Invariance, PTL

(* With integer keys find() returns the row that has the key.              *)
THEOREM FindOnIntegers == KeyIsRowid /\ Spec => []FindUsesKey
<1>1. KeyIsRowid /\ IInv => FindUsesKey
  BY DEF IInv, FindInv
<1>2. CASE KeyIsRowid
  <2>1. IInv => FindUsesKey
    BY <1>1, <1>2
  <2> QED BY <2>1, Invariance, PTL
<1>3. CASE ~KeyIsRowid
  BY <1>3
<1> QED BY <1>2, <1>3

-----------------------------------------------------------------------------
(* What remove_by() loaded and has not removed: rows that match; a row     *)
(* that has its key by now and is not as it was has been set aside.        *)
MatchesItem(t, i) ==
  /\ <<i.note, call[t][2]>> \in Like
  /\ \A r \in rows : r.key = i.key => r = i \/ r \in aside[t]

OnlyInv ==
  \A t \in Threads : pc[t] = "removing" => \A i \in items[t] : MatchesItem(t, i)

(* A step of one thread can disturb the items of another one by new rows   *)
(* only, and these are set aside.                                          *)
LEMMA OthersKeepItems ==
  ASSUME OnlyInv, NEW t \in Threads,
         \A u \in Threads \ {t} :
           /\ pc'[u] = pc[u] /\ items'[u] = items[u] /\ call'[u] = call[u]
           /\ pc[u] = "removing" => aside[u] \cup (rows' \ rows) \subseteq aside'[u],
         pc'[t] = "removing" => \A i \in items'[t] : MatchesItem(t, i)'
  PROVE  OnlyInv'
<1> SUFFICES ASSUME NEW u \in Threads, pc'[u] = "removing", NEW i \in items'[u]
             PROVE  MatchesItem(u, i)'
  BY DEF OnlyInv
<1>1. CASE u = t
  BY <1>1
<1>2. CASE u # t
  <2>1. pc[u] = "removing" /\ i \in items[u] /\ call'[u] = call[u]
    BY <1>2
  <2>2. MatchesItem(u, i)
    BY <2>1 DEF OnlyInv
  <2>3. aside[u] \cup (rows' \ rows) \subseteq aside'[u]
    BY <1>2, <2>1
  <2> QED BY <2>1, <2>2, <2>3 DEF MatchesItem
<1> QED BY <1>1, <1>2

(* Every step keeps what remove_by() has still to remove.                  *)
LEMMA ItemsKeep == IInv /\ OnlyInv /\ [Next]_vars => OnlyInv'
<1> SUFFICES ASSUME IInv, OnlyInv, [Next]_vars PROVE OnlyInv'
  OBVIOUS
<1> USE DEF Begin, Goto, FirstStatement, NewRows
<1>t. TypeOK
  BY DEF IInv
<1>1. ASSUME NEW t \in Threads, NEW id \in Rowids, NEW key \in Keys,
             NEW note \in Notes, Insert(t, id, key, note)
      PROVE  OnlyInv'
  BY <1>t, <1>1, OthersKeepItems DEF Insert, TypeOK
<1>2. ASSUME NEW t \in Threads, NEW key \in Keys, NEW note \in Notes,
             InsertConflicts(t, key, note) \/ UpdateConflicts(t, key, note)
      PROVE  OnlyInv'
  BY <1>t, <1>2, OthersKeepItems DEF InsertConflicts, UpdateConflicts, TypeOK
<1>3. ASSUME NEW t \in Threads, NEW key \in Keys, NEW note \in Notes,
             Update(t, key, note)
      PROVE  OnlyInv'
  BY <1>t, <1>3, OthersKeepItems DEF Update, TypeOK
<1>4. ASSUME NEW t \in Threads, NEW key \in Keys, Remove(t, key) \/ Find(t, key)
      PROVE  OnlyInv'
  BY <1>t, <1>4, OthersKeepItems DEF Remove, Find, TypeOK
<1>5. ASSUME NEW t \in Threads, NEW operation \in Operations, Refused(t, operation)
      PROVE  OnlyInv'
  BY <1>t, <1>5, OthersKeepItems DEF Refused, TypeOK
<1>6. ASSUME NEW t \in Threads, ReadRowid(t) \/ Fetch(t) \/ FetchThrows(t)
      PROVE  OnlyInv'
  BY <1>t, <1>6, OthersKeepItems DEF ReadRowid, Fetch, FetchThrows, TypeOK
<1>7. ASSUME NEW t \in Threads, RemoveByReturns(t) PROVE OnlyInv'
  BY <1>t, <1>7, OthersKeepItems DEF RemoveByReturns, TypeOK
<1>8. ASSUME NEW t \in Threads, NEW note \in Notes, RemoveBy(t, note) PROVE OnlyInv'
  <2>1. call'[t][2] = note /\ items'[t] = WithNote(note) /\ rows' = rows
    BY <1>t, <1>8 DEF RemoveBy, TypeOK
  <2>2. \A r, s \in rows : r.key = s.key => r = s
    BY DEF IInv, TableInv
  <2>3. \A i \in items'[t] : MatchesItem(t, i)'
    BY <2>1, <2>2 DEF MatchesItem, WithNote
  <2> QED BY <1>t, <1>8, <2>3, OthersKeepItems DEF RemoveBy, TypeOK
<1>9. ASSUME NEW t \in Threads, NEW item \in items[t],
             RemoveItem(t, item) \/ RemoveItemThrows(t, item)
      PROVE  OnlyInv'
  <2>1. /\ rows' \subseteq rows /\ items'[t] \subseteq items[t]
        /\ call' = call /\ pc[t] = "removing"
        /\ \A u \in Threads : aside[u] \subseteq aside'[u]
    BY <1>t, <1>9 DEF RemoveItem, RemoveItemThrows, ItemsAfterRemoval, TypeOK
  <2>2. \A i \in items'[t] : MatchesItem(t, i)'
    BY <2>1 DEF OnlyInv, MatchesItem
  <2>3. \A u \in Threads \ {t} :
          pc'[u] = pc[u] /\ items'[u] = items[u] /\ call'[u] = call[u]
    BY <1>t, <1>9 DEF RemoveItem, RemoveItemThrows, TypeOK
  <2> QED BY <2>1, <2>2, <2>3, OthersKeepItems
<1>10. ASSUME NEW t \in Threads, NEW id \in OtherIds, OtherInsert(t, id)
       PROVE  OnlyInv'
  BY <1>10 DEF OtherInsert, OnlyInv, MatchesItem
<1>11. CASE UNCHANGED vars
  BY <1>11 DEF vars, OnlyInv, MatchesItem
<1> QED BY <1>1, <1>2, <1>3, <1>4, <1>5, <1>6, <1>7, <1>8, <1>9, <1>10, <1>11 DEF Next

(* Only the removal of an item takes from what a thread has to remove.     *)
LEMMA ItemsChange ==
  ASSUME TypeOK, Next, NEW t \in Threads, pc[t] = "removing", items'[t] # items[t]
  PROVE  \E item \in items[t] : RemoveItem(t, item) \/ RemoveItemThrows(t, item)
<1> SUFFICES ASSUME \A item \in items[t] : ~RemoveItem(t, item) /\ ~RemoveItemThrows(t, item)
             PROVE  items'[t] = items[t]
  OBVIOUS
<1>1. ASSUME NEW u \in Threads, NEW key \in Keys, NEW note \in Notes,
             \/ \E id \in Rowids : Insert(u, id, key, note)
             \/ InsertConflicts(u, key, note)
             \/ Update(u, key, note) \/ UpdateConflicts(u, key, note)
      PROVE  items' = items
  BY <1>1 DEF Insert, InsertConflicts, Update, UpdateConflicts
<1>2. ASSUME NEW u \in Threads,
             \/ ReadRowid(u) \/ Fetch(u) \/ FetchThrows(u) \/ RemoveByReturns(u)
             \/ \E id \in OtherIds : OtherInsert(u, id)
      PROVE  items' = items
  BY <1>2 DEF OtherInsert, ReadRowid, Fetch, FetchThrows, RemoveByReturns
<1>3. ASSUME NEW u \in Threads, NEW key \in Keys, Remove(u, key) \/ Find(u, key)
      PROVE  items' = items
  BY <1>3 DEF Remove, Find
<1>4. ASSUME NEW u \in Threads, NEW operation \in Operations, Refused(u, operation)
      PROVE  items' = items
  BY <1>4 DEF Refused
<1>5. ASSUME NEW u \in Threads, NEW note \in Notes, RemoveBy(u, note)
      PROVE  items'[t] = items[t]
  BY <1>5 DEF RemoveBy, Begin, TypeOK
<1>6. ASSUME NEW u \in Threads, NEW item \in items[u],
             RemoveItem(u, item) \/ RemoveItemThrows(u, item)
      PROVE  items'[t] = items[t]
  <2>1. u # t
    BY <1>6
  <2> QED BY <1>6, <2>1 DEF RemoveItem, RemoveItemThrows, TypeOK
<1> QED BY <1>1, <1>2, <1>3, <1>4, <1>5, <1>6 DEF Next

(* A row removed for an item is the item itself, or has another key, or is *)
(* another row by now.                                                     *)
LEMMA StepRemovesOnlyMatching ==
  ASSUME IInv, OnlyInv, Next,
         NEW t \in Threads, pc[t] = "removing", items'[t] # items[t],
         NEW r \in rows \ rows'
  PROVE  \/ <<r.note, call[t][2]>> \in Like
         \/ \E i \in items[t] : i.key # r.key /\ <<r.key, i.key>> \in Like
         \/ r \in aside[t]
<1>1. PICK item \in items[t] : RemoveItem(t, item) \/ RemoveItemThrows(t, item)
  BY ItemsChange DEF IInv
<1>2. r \in rows /\ <<r.key, item.key>> \in Like
  BY <1>1 DEF RemoveItem, RemoveItemThrows, WithKey
<1>3. MatchesItem(t, item)
  BY DEF OnlyInv
<1>4. CASE r.key = item.key
  BY <1>2, <1>3, <1>4 DEF MatchesItem
<1>5. CASE r.key # item.key
  BY <1>2, <1>5
<1> QED BY <1>4, <1>5

(* remove_by() removes what matches, rows whose keys contain a key of what *)
(* matches, and rows that another thread changed under its hands.          *)
THEOREM RemovesNothingElse == Spec => RemovesOnlyMatching
<1>1. Init => OnlyInv
  BY DEF Init, OnlyInv
<1>2. IInv /\ OnlyInv /\ [Next]_vars =>
        [\A t \in Threads :
           pc[t] = "removing" /\ items'[t] # items[t] =>
             \A r \in rows \ rows' :
               \/ <<r.note, call[t][2]>> \in Like
               \/ \E i \in items[t] : i.key # r.key /\ <<r.key, i.key>> \in Like
               \/ r \in aside[t]]_vars
  BY StepRemovesOnlyMatching
<1> QED BY <1>1, <1>2, ItemsKeep, Invariance, PTL DEF Spec, RemovesOnlyMatching
=============================================================================
