---------------------------- MODULE ScansProofs ----------------------------
(***************************************************************************)
(* Proofs of the properties of Scans, for any threads, rows and changes of *)
(* the table, any limit, and any order and condition on the values.        *)
(***************************************************************************)
EXTENDS Scans, WellFoundedInduction, TLAPS

Models == [rowid : Ids, value : Values]

Scanning == {Select} \cup {LoadBy(v) : v \in Values}
Picking ==
  {Whole(name) : name \in {"first_by", "last_by"}}
    \cup {Matching(name, v) : name \in {"first_by", "last_by"}, v \in Values}

TypeOK ==
  /\ DOMAIN rows \subseteq Ids /\ rows \in [DOMAIN rows -> Values]
  /\ call \in [Threads -> Scanning \cup Picking \cup {Whole("none")}]
  /\ pc \in [Threads -> {"idle", "stepping"}]
  /\ cursor \in [Threads -> Ids \cup {0}]
  /\ items \in [Threads -> Seq(Models)]
  /\ changes \in 0..MaxChanges
  /\ stayed \in [Threads -> SUBSET Models] /\ seen \in [Threads -> SUBSET Models]

(* A call that is stepping: the cursor is at the last row that it read,    *)
(* and what it has left behind and still matches it has read.              *)
ScanInv ==
  \A t \in Threads : pc[t] = "stepping" =>
    /\ call[t] \in Scanning
    /\ \A i \in DOMAIN items[t] : items[t][i].rowid <= cursor[t]
    /\ \A r \in stayed[t] :
         r.rowid <= cursor[t] /\ Holds(call[t], r.value) =>
           \E i \in DOMAIN items[t] : items[t][i] = r

(* What stayed is in the table, and the table is what has been seen last.  *)
HistoryInv == \A t \in Threads : stayed[t] \subseteq Rows /\ Rows \subseteq seen[t]

LimitInv == \A t \in Threads : call[t] = Select => Len(items[t]) <= Limit

IInv ==
  /\ TypeOK /\ ScanInv /\ HistoryInv /\ LimitInv
  /\ ReadsRise /\ NothingMissed /\ PicksInOrder

-----------------------------------------------------------------------------
(* A set of numbers that is not empty has a least one, which Min chooses.  *)
LEMMA MinIsLeast ==
  ASSUME NEW S, S \subseteq Nat, S # {}
  PROVE  Min(S) \in S /\ \A n \in S : Min(S) <= n
<1> DEFINE R == {ss \in Nat \X Nat : ss[1] < ss[2]}
<1>1. IsWellFoundedOn(R, Nat)
  BY NatLessThanWellFounded DEF OpToRel
<1> HIDE DEF R
<1>2. PICK m \in S : \A n \in S : ~(<<n, m>> \in R)
  BY <1>1, WFMin, Zenon
<1>3. \A n \in S : n < m => <<n, m>> \in R
  BY DEF R
<1>4. \A n \in S : ~(n < m)
  BY <1>2, <1>3
<1>5. \A n \in S : m <= n
  BY <1>4
<1> QED BY <1>5 DEF Min

(* The rows are models, each of them the row of its rowid.                 *)
LEMMA RowsAreModels ==
  ASSUME TypeOK
  PROVE  /\ Rows \subseteq Models
         /\ \A id \in DOMAIN rows : Row(id) \in Rows
         /\ \A r \in Rows : r.rowid \in DOMAIN rows /\ r.value = rows[r.rowid]
                            /\ r = Row(r.rowid)
  BY DEF TypeOK, Rows, Row, Models

(* Calls of the two kinds differ, and so do their names.                   *)
LEMMA CallsDiffer ==
  /\ \A c \in Scanning : c.name \in {"select", "load_by"} /\ (c # Select => c.name = "load_by")
  /\ \A c \in Picking : c.name \in {"first_by", "last_by"}
  /\ Select.name = "select" /\ Whole("none").name = "none"
  /\ Whole("first_by").name = "first_by" /\ Whole("last_by").name = "last_by"
  BY DEF Scanning, Picking, Select, LoadBy, Whole, Matching

(* At first there are no rows and no calls.                                *)
LEMMA InitInv == Init => IInv
<1> SUFFICES ASSUME Init PROVE IInv
  OBVIOUS
<1> USE ScansAssumption DEF Init
<1>0. Rows = {} /\ DOMAIN rows = {}
  BY DEF Rows
<1>1. TypeOK
  <2>1. rows \in [DOMAIN rows -> Values]
    BY <1>0
  <2>2. <<>> \in Seq(Models) /\ Select \in Scanning
    BY DEF Scanning
  <2> QED BY <1>0, <2>1, <2>2 DEF TypeOK
<1>2. ScanInv /\ HistoryInv /\ LimitInv
  BY <1>0 DEF ScanInv, HistoryInv, LimitInv
<1>3. ReadsRise /\ NothingMissed /\ PicksInOrder
  BY DEF ReadsRise, NothingMissed, PicksInOrder
<1> QED BY <1>1, <1>2, <1>3 DEF IInv

USE DEF IInv, Goto

(* The statement has read nothing, and what is there from now on counts.   *)
LEMMA BeginKeeps ==
  ASSUME IInv, NEW t \in Threads, NEW c \in Scanning, Begin(t, c)
  PROVE  IInv'
<1> USE DEF Begin
<1>0. Rows' = Rows
  BY DEF Rows, Row
<1>1. TypeOK'
  <2>1. <<>> \in Seq(Models)
    OBVIOUS
  <2> QED BY <2>1, RowsAreModels DEF TypeOK
<1>2. /\ call'[t] = c /\ cursor'[t] = 0 /\ items'[t] = <<>>
      /\ stayed'[t] = Rows /\ seen'[t] = Rows /\ pc'[t] = "stepping"
      /\ \A u \in Threads \ {t} :
           /\ call'[u] = call[u] /\ cursor'[u] = cursor[u] /\ items'[u] = items[u]
           /\ stayed'[u] = stayed[u] /\ seen'[u] = seen[u] /\ pc'[u] = pc[u]
  BY DEF TypeOK
<1>3. ScanInv'
  <2> SUFFICES ASSUME NEW r \in Rows, r.rowid <= 0 PROVE FALSE
    BY <1>2 DEF ScanInv
  <2>1. r \in Models
    BY RowsAreModels
  <2>2. r.rowid \in Ids
    BY <2>1 DEF Models
  <2>3. r.rowid \in Nat \ {0}
    BY <2>2, ScansAssumption
  <2> QED BY <2>3
<1>4. HistoryInv' /\ LimitInv'
  BY <1>0, <1>2, ScansAssumption DEF HistoryInv, LimitInv
<1>5. ReadsRise'
  BY <1>2 DEF ReadsRise
<1>6. NothingMissed'
  BY <1>2 DEF NothingMissed, Loaded
<1>7. PicksInOrder'
  BY <1>2 DEF PicksInOrder
<1> QED BY <1>1, <1>3, <1>4, <1>5, <1>6, <1>7

(* A row that stayed is the row of its rowid.                              *)
LEMMA StayedRow ==
  ASSUME IInv, NEW t \in Threads, NEW r \in stayed[t]
  PROVE  /\ r.rowid \in DOMAIN rows /\ r.value = rows[r.rowid] /\ r = Row(r.rowid)
         /\ r.rowid \in Nat /\ cursor[t] \in Nat
<1>1. r \in Rows
  BY DEF HistoryInv
<1>2. r.rowid \in DOMAIN rows /\ r.value = rows[r.rowid] /\ r = Row(r.rowid)
  BY <1>1, RowsAreModels
<1>3. cursor[t] \in Nat /\ r.rowid \in Nat
  BY <1>2, ScansAssumption DEF TypeOK
<1> QED BY <1>2, <1>3

(* The row that a step reads: the least one behind the cursor that matches. *)
LEMMA NextRow ==
  ASSUME TypeOK, NEW t \in Threads, Ahead(t) # {}
  PROVE  LET id == Min(Ahead(t)) IN
           /\ id \in DOMAIN rows /\ id \in Ids /\ id \in Nat
           /\ id > cursor[t] /\ Holds(call[t], rows[id])
           /\ \A i \in DOMAIN rows :
                i > cursor[t] /\ Holds(call[t], rows[i]) => id <= i
<1>1. Ahead(t) \subseteq DOMAIN rows /\ Ahead(t) \subseteq Nat
  BY ScansAssumption DEF TypeOK, Ahead
<1>2. Min(Ahead(t)) \in Ahead(t) /\ \A i \in Ahead(t) : Min(Ahead(t)) <= i
  BY <1>1, MinIsLeast
<1> QED BY <1>1, <1>2 DEF TypeOK, Ahead

LEMMA StepKeeps ==
  ASSUME IInv, NEW t \in Threads, Step(t)
  PROVE  IInv'
<1> DEFINE id == Min(Ahead(t))
<1>0. /\ pc[t] = "stepping" /\ Ahead(t) # {} /\ ~IsFull(t)
      /\ cursor' = [cursor EXCEPT ![t] = id]
      /\ items' = [items EXCEPT ![t] = Append(@, Row(id))]
      /\ UNCHANGED <<rows, call, pc, changes, stayed, seen>>
  BY DEF Step
<1>1. /\ id \in DOMAIN rows /\ id \in Ids /\ id \in Nat
      /\ id > cursor[t] /\ Holds(call[t], rows[id])
      /\ \A i \in DOMAIN rows :
           i > cursor[t] /\ Holds(call[t], rows[i]) => id <= i
  BY <1>0, NextRow
<1> HIDE DEF id
<1> DEFINE n == Len(items[t])
<1>2. /\ Row(id) \in Models /\ Row(id) \in Rows
      /\ Row(id).rowid = id /\ Row(id).value = rows[id]
  BY <1>1, RowsAreModels DEF Row
<1>3. items'[t] = Append(items[t], Row(id)) /\ cursor'[t] = id
  BY <1>0 DEF TypeOK
<1>4. /\ items[t] \in Seq(Models) /\ n \in Nat /\ DOMAIN items[t] = 1..n
      /\ DOMAIN items'[t] = 1..(n + 1) /\ Len(items'[t]) = n + 1
      /\ items'[t][n + 1] = Row(id)
      /\ \A i \in 1..n : items'[t][i] = items[t][i] /\ items[t][i] \in Models
  BY <1>2, <1>3 DEF TypeOK
<1>5. \A u \in Threads \ {t} : items'[u] = items[u] /\ cursor'[u] = cursor[u]
  BY <1>0 DEF TypeOK
<1>6. TypeOK'
  <2>1. items' \in [Threads -> Seq(Models)]
    BY <1>0, <1>2, <1>4 DEF TypeOK
  <2> QED BY <1>0, <1>1, <2>1 DEF TypeOK
<1>7. ScanInv'
  <2>1. ASSUME NEW i \in 1..(n + 1)
        PROVE  items'[t][i].rowid <= id
    <3>1. CASE i = n + 1
      BY <1>1, <1>2, <1>4, <3>1
    <3>2. CASE i \in 1..n
      <4>1. items[t][i].rowid <= cursor[t] /\ items[t][i].rowid \in Nat /\ cursor[t] \in Nat
        BY <1>0, <1>4, <3>2, ScansAssumption DEF ScanInv, TypeOK, Models
      <4> QED BY <1>1, <1>4, <3>2, <4>1
    <3> QED BY <1>4, <3>1, <3>2
  <2>2. ASSUME NEW r \in stayed[t], r.rowid <= id, Holds(call[t], r.value)
        PROVE  \E i \in 1..(n + 1) : items'[t][i] = r
    <3>1. /\ r.rowid \in DOMAIN rows /\ r.value = rows[r.rowid] /\ r = Row(r.rowid)
          /\ r.rowid \in Nat /\ cursor[t] \in Nat
      BY StayedRow
    <3>2. CASE r.rowid <= cursor[t]
      <4>1. PICK i \in 1..n : items[t][i] = r
        BY <1>0, <1>4, <2>2, <3>2 DEF ScanInv
      <4> QED BY <1>4, <4>1
    <3>3. CASE r.rowid > cursor[t]
      <4>1. r.rowid = id
        BY <1>1, <2>2, <3>1, <3>3
      <4> QED BY <1>4, <3>1, <4>1
    <3> QED BY <3>1, <3>2, <3>3
  <2> QED BY <1>0, <1>3, <1>4, <1>5, <2>1, <2>2 DEF ScanInv
<1>8. HistoryInv'
  BY <1>0 DEF HistoryInv, Rows, Row
<1>9. LimitInv'
  BY <1>0, <1>4, <1>5, ScansAssumption DEF LimitInv, IsFull
<1>10. ReadsRise'
  <2>1. ASSUME NEW i \in 1..(n + 1)
        PROVE  /\ items'[t][i] \in seen[t] /\ Holds(call[t], items'[t][i].value)
               /\ \A j \in 1..(i - 1) : items'[t][j].rowid < items'[t][i].rowid
    <3>1. CASE i = n + 1
      <4>1. Row(id) \in seen[t] /\ Holds(call[t], Row(id).value)
        BY <1>1, <1>2 DEF HistoryInv
      <4>2. ASSUME NEW j \in 1..n
            PROVE  items[t][j].rowid < id
        <5>1. items[t][j].rowid <= cursor[t] /\ items[t][j].rowid \in Nat /\ cursor[t] \in Nat
          BY <1>0, <1>4, ScansAssumption DEF ScanInv, TypeOK, Models
        <5> QED BY <1>1, <5>1
      <4> QED BY <1>2, <1>4, <3>1, <4>1, <4>2
    <3>2. CASE i \in 1..n
      <4>1. i \in DOMAIN items[t] /\ \A j \in 1..(i - 1) : j \in 1..n
        BY <1>4, <3>2
      <4>2. /\ items[t][i] \in seen[t] /\ Holds(call[t], items[t][i].value)
            /\ \A j \in 1..(i - 1) : items[t][j].rowid < items[t][i].rowid
        BY <4>1 DEF ReadsRise
      <4> QED BY <1>4, <3>2, <4>1, <4>2
    <3> QED BY <1>4, <3>1, <3>2
  <2> QED BY <1>0, <1>4, <1>5, <2>1 DEF ReadsRise
<1>11. NothingMissed'
  BY <1>0, <1>5 DEF NothingMissed, Loaded
<1>12. PicksInOrder'
  <2>1. call[t].name \in {"select", "load_by"}
    BY <1>0, CallsDiffer DEF ScanInv
  <2> QED BY <1>0, <1>5, <2>1, CallsDiffer DEF PicksInOrder
<1> QED BY <1>6, <1>7, <1>8, <1>9, <1>10, <1>11, <1>12

(* The scan is at its end, or full.                                        *)
LEMMA ReturnKeeps ==
  ASSUME IInv, NEW t \in Threads, Return(t)
  PROVE  IInv'
<1> USE DEF Return
<1>1. TypeOK' /\ LimitInv' /\ ReadsRise' /\ PicksInOrder'
  BY DEF TypeOK, LimitInv, ReadsRise, PicksInOrder
<1>2. ScanInv'
  BY DEF TypeOK, ScanInv
<1>3. HistoryInv'
  BY DEF HistoryInv, Rows, Row
<1>4. NothingMissed'
  <2>1. ASSUME NEW r \in stayed[t], Holds(call[t], r.value)
        PROVE  \/ r \in ToSet(items[t])
               \/ call[t] = Select /\ Len(items[t]) = Limit
    <3>1. CASE IsFull(t)
      BY <3>1, ScansAssumption DEF TypeOK, LimitInv, IsFull
    <3>2. CASE Ahead(t) = {}
      <4>1. r.rowid \in DOMAIN rows /\ r.value = rows[r.rowid] /\ r.rowid \in Nat
            /\ cursor[t] \in Nat
        BY StayedRow
      <4>2. r.rowid <= cursor[t]
        BY <2>1, <3>2, <4>1 DEF Ahead
      <4> QED BY <2>1, <4>2 DEF ScanInv, ToSet
    <3> QED BY <3>1, <3>2
  <2> QED BY <2>1 DEF TypeOK, NothingMissed, Loaded
<1> QED BY <1>1, <1>2, <1>3, <1>4

(* The models of a call that throws are lost with it.                      *)
LEMMA ThrowKeeps ==
  ASSUME IInv, NEW t \in Threads, Throw(t)
  PROVE  IInv'
<1> USE DEF Throw
<1>1. TypeOK'
  <2>1. <<>> \in Seq(Models)
    OBVIOUS
  <2> QED BY <2>1 DEF TypeOK
<1>2. /\ call'[t] = Whole("none") /\ items'[t] = <<>> /\ pc'[t] = "idle"
      /\ \A u \in Threads \ {t} :
           call'[u] = call[u] /\ items'[u] = items[u] /\ pc'[u] = pc[u]
  BY DEF TypeOK
<1>3. ScanInv' /\ ReadsRise' /\ PicksInOrder'
  BY <1>2 DEF ScanInv, ReadsRise, PicksInOrder
<1>4. HistoryInv'
  BY DEF HistoryInv, Rows, Row
<1>5. LimitInv' /\ NothingMissed'
  BY <1>2, CallsDiffer, ScansAssumption DEF LimitInv, NothingMissed, Loaded
<1> QED BY <1>1, <1>3, <1>4, <1>5

-----------------------------------------------------------------------------
(* The row that is picked has no other one before it: with a condition the *)
(* rowid decides, and without one the column.                              *)
LEMMA PickedFirst ==
  ASSUME TypeOK, NEW c \in Picking, NEW r \in Rows, NEW s \in Rows, ~Before(c, s, r)
  PROVE  /\ c = Whole("first_by") => <<s.value, r.value>> \notin Below
         /\ c = Whole("last_by") => <<r.value, s.value>> \notin Below
         /\ Conditional(c) => r.rowid <= s.rowid
<1>1. CASE Conditional(c)
  <2>1. Order(c) = <<"rowid", "column">> /\ 1 \in DOMAIN Order(c) /\ Order(c)[1] = "rowid"
    BY <1>1 DEF Order
  <2>2. ~Precedes(c, "rowid", s, r)
    BY <2>1 DEF Before
  <2>3. ~(s.rowid < r.rowid) /\ s.rowid \in Nat /\ r.rowid \in Nat
    BY <2>2, RowsAreModels, ScansAssumption DEF Precedes, Models
  <2>4. c # Whole("first_by") /\ c # Whole("last_by")
    BY <1>1 DEF Conditional, Whole
  <2> QED BY <2>3, <2>4
<1>2. CASE ~Conditional(c)
  <2>1. Order(c) = <<"column">> /\ 1 \in DOMAIN Order(c) /\ Order(c)[1] = "column"
    BY <1>2 DEF Order
  <2>2. ~Precedes(c, "column", s, r)
    BY <2>1 DEF Before
  <2> QED BY <1>2, <2>2 DEF Precedes, Ascending, Whole
<1> QED BY <1>1, <1>2

(* A single step: the table is as it was when the call began.              *)
LEMMA PickKeeps ==
  ASSUME IInv, NEW t \in Threads, NEW c \in Picking, Pick(t, c)
  PROVE  IInv'
<1> USE DEF Pick
<1>0. Rows' = Rows
  BY DEF Rows, Row
<1>1. items'[t] = <<>> \/ \E r \in Rows :
        /\ items'[t] = <<r>> /\ Holds(c, r.value)
        /\ \A s \in Rows : Holds(c, s.value) => ~Before(c, s, r)
  BY DEF TypeOK, Candidates
<1>2. /\ pc[t] = "idle" /\ call'[t] = c /\ stayed'[t] = Rows /\ seen'[t] = Rows
      /\ \A u \in Threads \ {t} :
           /\ call'[u] = call[u] /\ cursor'[u] = cursor[u] /\ items'[u] = items[u]
           /\ stayed'[u] = stayed[u] /\ seen'[u] = seen[u]
  BY DEF TypeOK
<1>3. c # Select /\ c.name \notin {"select", "load_by"}
  BY CallsDiffer
<1>4. TypeOK'
  <2>1. items' \in [Threads -> Seq(Models)]
    <3>1. items'[t] \in Seq(Models)
      <4>1. \A r \in Rows : r \in Models /\ <<r>> \in Seq(Models)
        BY RowsAreModels
      <4>2. <<>> \in Seq(Models)
        OBVIOUS
      <4> QED BY <1>1, <4>1, <4>2
    <3> QED BY <3>1 DEF TypeOK
  <2> QED BY <2>1, RowsAreModels DEF TypeOK
<1>5. ScanInv'
  BY <1>2 DEF ScanInv
<1>6. HistoryInv' /\ LimitInv'
  BY <1>0, <1>2, <1>3 DEF HistoryInv, LimitInv
<1>7. ReadsRise'
  <2>1. \A i \in DOMAIN items'[t] :
          /\ items'[t][i] \in Rows /\ Holds(c, items'[t][i].value)
          /\ \A j \in 1..(i - 1) : items'[t][j].rowid < items'[t][i].rowid
    BY <1>1
  <2> QED BY <1>2, <2>1 DEF ReadsRise
<1>8. NothingMissed'
  BY <1>2, <1>3 DEF NothingMissed, Loaded
<1>9. PicksInOrder'
  <2>1. ASSUME NEW i \in DOMAIN items'[t], NEW s \in Rows, Holds(c, s.value)
        PROVE  /\ c = Whole("first_by") => <<s.value, items'[t][i].value>> \notin Below
               /\ c = Whole("last_by") => <<items'[t][i].value, s.value>> \notin Below
               /\ Conditional(c) => items'[t][i].rowid <= s.rowid
    <3>1. PICK r \in Rows : items'[t][i] = r /\ ~Before(c, s, r)
      BY <1>1, <2>1
    <3> QED BY <3>1, PickedFirst
  <2> QED BY <1>2, <2>1 DEF PicksInOrder
<1> QED BY <1>4, <1>5, <1>6, <1>7, <1>8, <1>9

-----------------------------------------------------------------------------
(* A change of the row with rowid id: what stayed loses it, and no more.   *)
LEMMA ChangeKeeps ==
  ASSUME IInv, NEW id \in Ids, NEW after, Change(id, after),
         DOMAIN after \subseteq Ids, after \in [DOMAIN after -> Values],
         \A i \in DOMAIN rows \ {id} : i \in DOMAIN after /\ after[i] = rows[i]
  PROVE  IInv'
<1> USE DEF Change
<1> DEFINE new == {[rowid |-> i, value |-> after[i]] : i \in DOMAIN after}
<1>0. Rows' = new /\ new \subseteq Models
  BY DEF Rows, Row, Models
<1>1. \A t \in Threads :
        /\ stayed'[t] = {r \in stayed[t] : r.rowid # id}
        /\ seen'[t] = seen[t] \cup new
  BY DEF TypeOK
<1>2. TypeOK'
  BY <1>0, ScansAssumption DEF TypeOK
<1>3. ScanInv'
  BY <1>1 DEF ScanInv
<1>4. HistoryInv'
  <2>1. ASSUME NEW t \in Threads, NEW r \in stayed[t], r.rowid # id
        PROVE  r \in new
    <3>1. r.rowid \in DOMAIN rows /\ r = [rowid |-> r.rowid, value |-> rows[r.rowid]]
      BY RowsAreModels DEF HistoryInv, Row
    <3> QED BY <2>1, <3>1
  <2> QED BY <1>0, <1>1, <2>1 DEF HistoryInv
<1>5. LimitInv'
  BY DEF LimitInv
<1>6. ReadsRise'
  BY <1>1 DEF ReadsRise
<1>7. NothingMissed'
  BY <1>1 DEF NothingMissed, Loaded
<1>8. PicksInOrder'
  BY <1>1 DEF PicksInOrder
<1> QED BY <1>2, <1>3, <1>4, <1>5, <1>6, <1>7, <1>8

LEMMA WriteKeeps ==
  ASSUME IInv, NEW id \in Ids, NEW v \in Values, Write(id, v)
  PROVE  IInv'
<1> DEFINE after == [i \in DOMAIN rows \cup {id} |-> IF i = id THEN v ELSE rows[i]]
<1>1. /\ DOMAIN after \subseteq Ids /\ after \in [DOMAIN after -> Values]
      /\ \A i \in DOMAIN rows \ {id} : i \in DOMAIN after /\ after[i] = rows[i]
  BY DEF TypeOK
<1>2. Change(id, after)
  BY DEF Write
<1> HIDE DEF after, IInv
<1> QED BY <1>1, <1>2, ChangeKeeps

LEMMA DeleteKeeps ==
  ASSUME IInv, NEW id \in Ids, Delete(id)
  PROVE  IInv'
<1> DEFINE after == [i \in DOMAIN rows \ {id} |-> rows[i]]
<1>1. /\ DOMAIN after \subseteq Ids /\ after \in [DOMAIN after -> Values]
      /\ \A i \in DOMAIN rows \ {id} : i \in DOMAIN after /\ after[i] = rows[i]
  BY DEF TypeOK
<1>2. Change(id, after)
  BY DEF Delete
<1> HIDE DEF after, IInv
<1> QED BY <1>1, <1>2, ChangeKeeps

(* The invariant is inductive.                                             *)
LEMMA NextInv == IInv /\ [Next]_vars => IInv'
<1> SUFFICES ASSUME IInv, [Next]_vars PROVE IInv'
  OBVIOUS
<1>1. ASSUME NEW t \in Threads,
             Begin(t, Select) \/ \E v \in Values : Begin(t, LoadBy(v))
      PROVE  IInv'
  BY <1>1, BeginKeeps DEF Scanning
<1>2. ASSUME NEW t \in Threads, NEW name \in {"first_by", "last_by"},
             Pick(t, Whole(name)) \/ \E v \in Values : Pick(t, Matching(name, v))
      PROVE  IInv'
  <2>1. CASE Pick(t, Whole(name))
    BY <2>1, PickKeeps DEF Picking
  <2>2. ASSUME NEW v \in Values, Pick(t, Matching(name, v))
        PROVE  IInv'
    BY <2>2, PickKeeps DEF Picking
  <2> QED BY <1>2, <2>1, <2>2
<1>3. CASE UNCHANGED vars
  <2>1. Rows' = Rows
    BY <1>3 DEF vars, Rows, Row
  <2> QED BY <1>3, <2>1
          DEF vars, TypeOK, ScanInv, HistoryInv, LimitInv, ReadsRise, NothingMissed,
              Loaded, PicksInOrder
<1> HIDE DEF IInv
<1> QED BY <1>1, <1>2, <1>3, StepKeeps, ReturnKeeps, ThrowKeeps, WriteKeeps, DeleteKeeps
        DEF Next

-----------------------------------------------------------------------------
(* Type correctness.                                                       *)
THEOREM TypeCorrect == Spec => []TypeOK
  BY InitInv, NextInv, PTL DEF Spec

(* Rows come in the order of their rowids, each as it was at some time     *)
(* while the call ran.                                                     *)
THEOREM RowsRise == Spec => []ReadsRise
  BY InitInv, NextInv, PTL DEF Spec

(* What stays and matches is read, unless the limit ends the call.         *)
THEOREM StayedIsLoaded == Spec => []NothingMissed
  BY InitInv, NextInv, PTL DEF Spec

(* first_by and last_by without a condition return an extreme row, and     *)
(* first_by with a condition the oldest that matches.                      *)
THEOREM FirstIsPicked == Spec => []PicksInOrder
  BY InitInv, NextInv, PTL DEF Spec
=============================================================================
