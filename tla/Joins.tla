-------------------------------- MODULE Joins --------------------------------
(***************************************************************************)
(* Repository<CompoundModel<Models...>>::select and load_all: the tables   *)
(* of several models are joined on their references, and each row of the   *)
(* join fills one compound, column by column from left to right.           *)
(*                                                                         *)
(* A table may hold other columns than its class declares: it stays as an  *)
(* older release made it, and migrations alter it.  A value in a compound  *)
(* is the cell <<model, column, id of the row>> that it was read from.     *)
(* Every class has fields (there is no operator[] for one without, whose   *)
(* get_fields() throws), and its constructor, which Schema has, does not   *)
(* throw.                                                                  *)
(* SQLite is external; foreign keys are not enforced (the pragma is off).  *)
(***************************************************************************)
EXTENDS Declarations

CONSTANTS
  Setups,    (* records [parts, class, columns, contents]: the models of   *)
             (* a compound, the declarations and the columns of the tables *)
             (* there are, and what rows may hold: functions from names to *)
             (* values, or to NoValue (NULL)                               *)
  Ids,
  NoValue,
  Unset,     (* InvalidData                                                *)
  Limit

ASSUME JoinsAssumption ==
  /\ Limit \in Nat
  /\ IsFiniteSet(Ids)
  /\ \A s \in Setups :
       /\ DOMAIN s.class = DOMAIN s.columns
       /\ s.parts # <<>> /\ s.parts \in Seq(DOMAIN s.class)
       /\ ~Duplicated(s.parts)
       /\ \A m \in DOMAIN s.class :
            /\ IsDeclaration(s.class[m]) /\ ~GetFieldsThrows(s.class[m])
            /\ s.columns[m] \in Seq(ToSet(s.columns[m]))
            /\ s.columns[m] # <<>> /\ ~Duplicated(s.columns[m])
            /\ ~Duplicated(FieldNames(s.class[m])) /\ ~Duplicated(s.class[m].keys)

VARIABLES
  setup,   (* never changes                                                *)
  rows,    (* rows[m]: from the ids of its rows to their contents          *)
  answer   (* what the last call returned, while the rows are the same     *)

joinVars == <<setup, rows, answer>>

Tables == DOMAIN setup.class
Parts == DOMAIN setup.parts
ClassOf(i) == setup.class[setup.parts[i]]
Columns(i) == setup.columns[setup.parts[i]]
PartOf(m) == CHOOSE i \in Parts : setup.parts[i] = m

-----------------------------------------------------------------------------
(* for_each_where: one condition for each reference.  Its template         *)
(* argument Index counts the models before that have references.           *)
WrongIndex(i) == i - 1

Index(i) == Cardinality({j \in 1..(i - 1) : ClassOf(j).refers # <<>>})

(* The recursion ends at the first model without references.               *)
WrongConditions ==
  FlattenSeq([i \in Parts |->
    [k \in {n \in DOMAIN ClassOf(i).refers : Index(i) = i - 1} |->
      [and |-> Index(i) # 0 \/ k # 1,
       part |-> i, name |-> ClassOf(i).refers[k].name, to |-> ClassOf(i).refers[k].model]]])

Conditions ==
  FlattenSeq([i \in Parts |-> [k \in DOMAIN ClassOf(i).refers |->
    [and |-> Index(i) # 0 \/ k # 1,
     part |-> i, name |-> ClassOf(i).refers[k].name, to |-> ClassOf(i).refers[k].model]]])

(* All keys of the referenced model are written one after the other.       *)
ReferredKeys(c) == GetKeys(setup.class[c.to])

UnknownColumn(c) ==
  \/ c.name \notin ToSet(Columns(c.part))
  \/ c.to \notin ToSet(setup.parts)
  \/ ~\E key \in ToSet(setup.columns[c.to]) : ReferredKeys(c) = <<key>>

StatementThrows ==
  \E i \in DOMAIN Conditions :
    \/ GetKeysThrows(setup.class[Conditions[i].to])
    \/ Conditions[i].and = (i = 1)
    \/ UnknownColumn(Conditions[i])

(* t[i] is the row of the part i.  NULL is equal to nothing.               *)
Matches(t, c) ==
  LET to == PartOf(c.to)
      value == rows[setup.parts[c.part]][t[c.part]][c.name]
  IN value # NoValue /\ value = rows[c.to][t[to]][ReferredKeys(c)[1]]

Joined ==
  {t \in [Parts -> Ids] :
     /\ \A i \in Parts : t[i] \in DOMAIN rows[setup.parts[i]]
     /\ \A c \in ToSet(Conditions) : Matches(t, c)}

-----------------------------------------------------------------------------
(* for_each_fill_model: a part takes as many columns as get_fields() has   *)
(* fields, from where the part before it stopped.                          *)
Selected ==
  FlattenSeq([i \in Parts |-> [k \in DOMAIN Columns(i) |->
    [part |-> i, name |-> Columns(i)[k]]]])

Count(i) == Len(GetFields(ClassOf(i)))

Skipped(i) == Len(FlattenSeq([j \in 1..(i - 1) |-> GetFields(ClassOf(j))]))

(* The places among the selected columns that the part i takes.            *)
Taken(i) == (Skipped(i) + 1)..(Skipped(i) + Count(i))

FieldUnknown ==
  \E i \in Parts : \E p \in Taken(i) \cap DOMAIN Selected :
    ~HasField(ClassOf(i), Selected[p].name)

(* The iterators are not compared with the end of the row.                 *)
PastTheEnd == \E i \in Parts : ~(Taken(i) \subseteq DOMAIN Selected)

WrongNamed(i, f) == {p \in Taken(i) : ClassOf(i).fields[p - Skipped(i)].name = f}

(* operator[]: the field is found by the name of the column.               *)
Named(i, f) == {p \in Taken(i) : Selected[p].name = f}

Fill(t) ==
  [i \in Parts |-> [f \in ToSet(FieldNames(ClassOf(i))) |->
    IF Named(i, f) = {} THEN Unset
    ELSE LET from == Selected[Max(Named(i, f))]
         IN <<from.part, from.name, t[from.part]>>]]

-----------------------------------------------------------------------------
NoAnswer == [call |-> "none", is |-> "none", items |-> <<>>]

JoinInit ==
  /\ setup \in Setups
  /\ rows = [m \in Tables |-> <<>>]
  /\ answer = NoAnswer

(* Other calls on the database; the declared key is the primary key.       *)
KeyIsFree(m, content) ==
  LET keys == ToSet(setup.class[m].keys) \cap ToSet(setup.columns[m])
  IN /\ \A key \in keys : content[key] # NoValue
     /\ keys # {} => \A id \in DOMAIN rows[m] : \E key \in keys : rows[m][id][key] # content[key]

Stored(m, content) == [name \in ToSet(setup.columns[m]) |-> content[name]]

InsertRow(m, id, content) ==
  /\ id \notin DOMAIN rows[m] /\ KeyIsFree(m, content)
  /\ rows' = [rows EXCEPT ![m] =
       [x \in DOMAIN @ \cup {id} |-> IF x = id THEN Stored(m, content) ELSE @[x]]]
  /\ answer' = NoAnswer
  /\ UNCHANGED setup

RemoveRow(m, id) ==
  /\ id \in DOMAIN rows[m]
  /\ rows' = [rows EXCEPT ![m] = [x \in DOMAIN @ \ {id} |-> @[x]]]
  /\ answer' = NoAnswer
  /\ UNCHANGED setup

(* items.size() >= Limit ends the query; the order of the rows is SQLite's.*)
Kept ==
  kSubset(IF Cardinality(Joined) < Limit THEN Cardinality(Joined) ELSE Limit, Joined)

Answers(call, is, items) ==
  /\ answer = NoAnswer
  /\ answer' = [call |-> call, is |-> is, items |-> items]
  /\ UNCHANGED <<setup, rows>>

Fills == ~StatementThrows /\ Kept # {{}}

Query(call) ==
  \/ (StatementThrows \/ (Fills /\ FieldUnknown)) /\ Answers(call, "exception", <<>>)
  \/ Fills /\ ~FieldUnknown /\ PastTheEnd /\ Answers(call, "undefined", <<>>)
  \/ /\ ~StatementThrows /\ (Fills => ~FieldUnknown /\ ~PastTheEnd)
     /\ \E kept \in Kept : Answers(call, "items", [t \in kept |-> Fill(t)])

Select == Query("select")

(* ORDER BY ROWID: a join of two tables or more has no such column.        *)
LoadAll ==
  \/ Len(setup.parts) = 1 /\ Query("load_all")
  \/ Len(setup.parts) > 1 /\ Answers("load_all", "exception", <<>>)

JoinNext ==
  \/ \E m \in Tables, id \in Ids :
       (\E content \in setup.contents : InsertRow(m, id, content)) \/ RemoveRow(m, id)
  \/ Select \/ LoadAll

JoinSpec == JoinInit /\ [][JoinNext]_joinVars
-----------------------------------------------------------------------------
(* The names of the columns that are read into a model.                   *)
Read(class) == {f.name : f \in {f \in ToSet(class.fields) : ~f.ignore}}

(* Each reference is from a column to the one key of a model of the        *)
(* compound.                                                               *)
Refers(i, name, m, key) ==
  /\ \E r \in ToSet(ClassOf(i).refers) : r.name = name /\ r.model = m
  /\ m \in ToSet(setup.parts)
  /\ ToSet(setup.class[m].keys) \cap Read(setup.class[m]) = {key}

Joinable ==
  \A i \in Parts : \A r \in ToSet(ClassOf(i).refers) :
    /\ r.name \in ToSet(Columns(i)) /\ ~GetKeysThrows(setup.class[r.model])
    /\ \E key \in ToSet(setup.columns[r.model]) : Refers(i, r.name, r.model, key)

(* The table of the part begins with its fields, those that get_fields()   *)
(* has, in any order; unless it is the last part it has no other columns.  *)
Aligned(i) ==
  LET own == Read(ClassOf(i))
  IN /\ Len(Columns(i)) >= Cardinality(own)
     /\ {Columns(i)[k] : k \in 1..Cardinality(own)} = own
     /\ i # Len(setup.parts) => ToSet(Columns(i)) = own

(* Select returns compounds, whatever the tables hold and in whichever     *)
(* order the models of the compound are named, when the references can be  *)
(* joined and the tables have the columns of their classes                 *)
(* (Repository.hpp:362-401, 432-496).                                      *)
SelectAnswers ==
  answer.call = "select" /\ Joinable /\ (\A i \in Parts : Aligned(i)) => answer.is = "items"

Own(i, f, value) == value # Unset => value[1] = i /\ value[2] = f

(* Then each compound is made of one row of each table, with every field   *)
(* in its own place; the rows refer to each other, a reference to a row    *)
(* that is gone or a null is in none; and no such rows are left out unless *)
(* there are more than Limit (Repository.hpp:362-401, 432-496).            *)
Met(t) ==
  \A i, j \in Parts : \A name \in ToSet(Columns(i)), key \in ToSet(Columns(j)) :
    Refers(i, name, setup.parts[j], key) =>
      /\ rows[setup.parts[i]][t[i]][name] # NoValue
      /\ rows[setup.parts[i]][t[i]][name] = rows[setup.parts[j]][t[j]][key]

Meeting ==
  {t \in [Parts -> Ids] : (\A i \in Parts : t[i] \in DOMAIN rows[setup.parts[i]]) /\ Met(t)}

Whole(t, item) ==
  \A i \in Parts : \A name \in Read(ClassOf(i)) : item[i][name] = <<i, name, t[i]>>

CompoundsAreTheJoin ==
  answer.is = "items" /\ (\A i \in Parts : Aligned(i)) =>
    LET kept == DOMAIN answer.items
    IN /\ kept \subseteq Meeting /\ \A t \in kept : Whole(t, answer.items[t])
       /\ Cardinality(kept) <= Limit
       /\ Cardinality(kept) = Limit \/ kept = Meeting

(* With ignored fields, and columns added or missing, the columns move     *)
(* from one model to the next.  As long as no model has a field named like *)
(* a column of another one's table, that is found out: no compound holds a *)
(* value in a field that it was not written to (Repository.hpp:432-445,    *)
(* DataClass.hpp:433-442).                                                 *)
Apart(i, j) == ToSet(FieldNames(ClassOf(i))) \cap ToSet(Columns(j)) = {}

NeverCrossed ==
  answer.is = "items" /\ (\A i, j \in Parts : i # j => Apart(i, j)) =>
    \A t \in DOMAIN answer.items : \A i \in Parts : \A f \in DOMAIN answer.items[t][i] :
      Own(i, f, answer.items[t][i][f])
=============================================================================
