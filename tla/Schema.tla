------------------------------- MODULE Schema -------------------------------
(***************************************************************************)
(* The constructor of SqliteDatabase creates the table of every model,     *)
(* with the CREATE TABLE IF NOT EXISTS that create_ddl writes from the     *)
(* declaration; the program is started again and again, by releases that   *)
(* declare other models, on one file.                                      *)
(*                                                                         *)
(* SQLite is external: every CREATE TABLE is a transaction of its own.     *)
(* The table migracao, which is always well declared, is left out.         *)
(***************************************************************************)
EXTENDS Declarations

CONSTANTS
  Models,    (* the names of the tables                                    *)
  Order,     (* Tables..., in which each model appears once                *)
  Releases,  (* functions from Models to declarations                      *)
  Sequels,   (* the releases that are started when another one was before  *)
  NoModel,
  NoTable,
  NoRelease,
  MaxStarts  (* bound: how often the program is started                    *)

ASSUME SchemaAssumption ==
  /\ Order \in Seq(Models) /\ ToSet(Order) = Models /\ ~Duplicated(Order)
  /\ Sequels \subseteq Releases
  /\ \A r \in Releases : \A m \in Models :
       IsDeclaration(r[m]) /\ \A f \in ToSet(r[m].refers) : f.model \in Models
  /\ NoModel \notin Models
  /\ NoRelease \notin Releases
  /\ MaxStarts \in Nat

VARIABLES
  file,      (* file[m]: the table, or NoTable                             *)
  release,   (* the release that runs                                      *)
  at,        (* 0: no database object; i: Order[i] comes next in the       *)
             (* constructor; Len(Order) + 1: constructed                   *)
  failed,    (* the model with which the constructor threw                 *)
  starts,
  (* history *)
  made,      (* made[m]: the declaration that the table was made from      *)
  misread    (* the exception is that of a name misread                    *)

vars == <<file, release, at, failed, starts, made, misread>>

-----------------------------------------------------------------------------
(* create_ddl, for the model m of the release.                             *)
Of(m) == release[m]

Serials(d) == {f \in ToSet(d.fields) : f.serial}

(* Keys{}, Refers{} and Table{} compare string_views into temporaries that *)
(* were destroyed a statement before: with two names or more they see a    *)
(* duplicate that is not there, or none where there is one (wrong).  (What *)
(* a missed duplicate writes beyond the array of the keys may end the      *)
(* process, as Stop does.)                                                 *)
NameLists(d) == {d.keys, ReferNames(d), FieldNames(d)}

MayMisread(d) == \E names \in NameLists(d) : Len(names) > 1

ConstructorsThrow(d, wrong) ==
  IF wrong THEN \A names \in NameLists(d) : ~Duplicated(names)
  ELSE \E names \in NameLists(d) : Duplicated(names)

DefaultThrows(d) == \E f \in ToSet(d.fields) : f.nullable /\ f.default

NullableKeyThrows(d) ==
  \E f \in ToSet(GetFields(d)) : f.nullable /\ f.name \in ToSet(d.keys)

SerialThrows(d) == Serials(d) # {} /\ Len(d.keys) # 1

RefersThrow(d) == \E r \in ToSet(d.refers) : GetKeysThrows(Of(r.model))

DdlThrows(d, wrong) ==
  \/ ConstructorsThrow(d, wrong) \/ DefaultThrows(d)
  \/ GetKeysThrows(d) \/ NullableKeyThrows(d)
  \/ SerialThrows(d) \/ RefersThrow(d)

(* A class without fields leaves nothing between the brackets, an ignored  *)
(* key an empty name in PRIMARY KEY (...); the keys of a referenced model  *)
(* are written as (k)(l).                                                  *)
SyntaxError(d) ==
  \/ d.fields = <<>>
  \/ Serials(d) = {} /\ Len(GetKeys(d)) # Len(d.keys)
  \/ \E r \in ToSet(d.refers) : Len(GetKeys(Of(r.model))) > 1

(* What SQLite refuses when there is no table of that name yet.            *)
Refuses(d) ==
  \/ Duplicated(FieldNames(d))
  \/ \E i, j \in DOMAIN d.fields : i < j /\ d.fields[i].serial /\ d.fields[j].serial
  \/ \E r \in ToSet(d.refers) : ~HasField(d, r.name)

(* INTEGER PRIMARY KEY AUTOINCREMENT takes the place of PRIMARY KEY (...). *)
TableKey(d) ==
  IF Serials(d) # {} THEN <<(CHOOSE f \in Serials(d) : TRUE).name>> ELSE d.keys

(* The fields that get_fields() leaves out are columns, too.               *)
Table(d) == [columns |-> ToSet(FieldNames(d)), key |-> TableKey(d)]

ASSUME NoTableAssumption == \A r \in Releases : \A m \in Models : NoTable # Table(r[m])

(* A definition named Wrong... is a deliberate mistake in the definition   *)
(* after it; no action uses it.                                            *)
WrongCreateThrows(m, wrong) ==
  DdlThrows(Of(m), wrong) \/ SyntaxError(Of(m)) \/ file[m] # NoTable

CreateThrows(m, wrong) ==
  \/ DdlThrows(Of(m), wrong) \/ SyntaxError(Of(m))
  \/ file[m] = NoTable /\ Refuses(Of(m))

-----------------------------------------------------------------------------
Init ==
  /\ file = [m \in Models |-> NoTable] /\ made = [m \in Models |-> NoTable]
  /\ release = NoRelease
  /\ at = 0 /\ failed = NoModel /\ starts = 0
  /\ misread = FALSE

Startable == IF starts = 0 THEN Releases ELSE Sequels

(* A release is started: the constructor opens the file.                   *)
Start(r) ==
  /\ at = 0 /\ starts < MaxStarts
  /\ starts' = starts + 1
  /\ release' = r
  /\ at' = 1 /\ failed' = NoModel /\ misread' = FALSE
  /\ UNCHANGED <<file, made>>

Creating == at \in DOMAIN Order

Comparing(wrong) == wrong => MayMisread(Of(Order[at]))

CreateTable(wrong) ==
  /\ Creating /\ Comparing(wrong) /\ ~CreateThrows(Order[at], wrong)
  /\ LET m == Order[at] IN
       IF file[m] = NoTable
       THEN /\ file' = [file EXCEPT ![m] = Table(Of(m))]
            /\ made' = [made EXCEPT ![m] = Of(m)]
       ELSE UNCHANGED <<file, made>>
  /\ at' = at + 1
  /\ UNCHANGED <<release, failed, starts, misread>>

WrongCreationThrows(wrong) ==
  /\ Creating /\ Comparing(wrong) /\ CreateThrows(Order[at], wrong)
  /\ at' = at + 1
  /\ UNCHANGED <<file, release, failed, starts, made, misread>>

(* runtime_error("On ..."): there is no database object.  The tables made  *)
(* before stay.                                                            *)
CreationThrows(wrong) ==
  /\ Creating /\ Comparing(wrong) /\ CreateThrows(Order[at], wrong)
  /\ failed' = Order[at] /\ misread' = wrong
  /\ at' = 0
  /\ UNCHANGED <<file, release, starts, made>>

(* The process ends, or the constructor throws because the file is busy.   *)
Stop ==
  /\ at # 0
  /\ at' = 0
  /\ UNCHANGED <<file, release, failed, starts, made, misread>>

Next ==
  \/ \E r \in Startable : Start(r)
  \/ \E wrong \in BOOLEAN : CreateTable(wrong) \/ CreationThrows(wrong)
  \/ Stop

Spec == Init /\ [][Next]_vars
-----------------------------------------------------------------------------
Constructed == at = Len(Order) + 1
SameDeclaration(m) == made[m] = Of(m)

(* A declaration as the interface means it: fields, of distinct names,     *)
(* keys that are such fields and never null, references from distinct      *)
(* fields to models with one key, and a Serial only as the one key.        *)
Single(names) == \A i, j \in DOMAIN names : names[i] = names[j] => i = j

Key(f, d) == ~f.ignore /\ ~f.nullable /\ f.name \in ToSet(d.keys)

Consistent(d) ==
  /\ d.fields # <<>>
  /\ Single(FieldNames(d)) /\ Single(d.keys) /\ Single(ReferNames(d))
  /\ \A key \in ToSet(d.keys) : \E f \in ToSet(d.fields) : f.name = key /\ Key(f, d)
  /\ \A f \in ToSet(d.fields) : f.serial => d.keys = <<f.name>>
  /\ \A f \in ToSet(d.fields) : f.default => ~f.nullable
  /\ \A r \in ToSet(d.refers) :
       /\ r.name \in ToSet(FieldNames(d))
       /\ \E f \in ToSet(Of(r.model).fields) : Of(r.model).keys = <<f.name>>

(* For a consistent declaration the constructor throws at most because it  *)
(* misread the names of two of its keys, references or fields, whatever    *)
(* tables the file had before, however often and with whatever failures it *)
(* was started before (SqliteDatabase.hpp:26-44, 223-332).                 *)
NoFailureIfConsistent == failed # NoModel /\ ~misread => ~Consistent(Of(failed))

(* When the constructor returns, every model has its table, although any   *)
(* number of starts failed or died before; and where the table was made    *)
(* for the same declaration insert() finds each column that it writes.  (A *)
(* table that an older release made is left as it is.)                     *)
(* SqliteDatabase.hpp:230-275, Database.hpp:79-97.                         *)
InsertFits ==
  Constructed => \A m \in Models :
    /\ file[m] # NoTable
    /\ SameDeclaration(m) =>
         {f.name : f \in ToSet(GetFields(Of(m)))} \subseteq file[m].columns
=============================================================================
