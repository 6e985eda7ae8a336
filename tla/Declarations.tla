---------------------------- MODULE Declarations ----------------------------
(***************************************************************************)
(* DataClass<Name, Primary<...>, Foreign<...>, Fields...> as a value.  A   *)
(* declaration is a record                                                 *)
(*   fields : a sequence of [name, serial, nullable, default, ignore],     *)
(*   keys   : a sequence of names,                                         *)
(*   refers : a sequence of [name, model].                                 *)
(* Of the field types only Serial is told apart, of a default value only   *)
(* whether there is one.  Names differ in more than upper and lower case.  *)
(***************************************************************************)
EXTENDS Naturals, Sequences, SequencesExt

(* The sequences are sequences, and the flags are flags.                   *)
IsDeclaration(d) ==
  /\ d.fields \in Seq(ToSet(d.fields))
  /\ d.keys \in Seq(ToSet(d.keys))
  /\ d.refers \in Seq(ToSet(d.refers))
  /\ \A f \in ToSet(d.fields) :
       {f.serial, f.nullable, f.default, f.ignore} \subseteq BOOLEAN

FieldNames(d) == [i \in DOMAIN d.fields |-> d.fields[i].name]
ReferNames(d) == [i \in DOMAIN d.refers |-> d.refers[i].name]

(* sort, then unique: what the constructors of Primary, Foreign and        *)
(* DataClass look for.  They compare views into strings that are already   *)
(* destroyed, and may see something else (Schema).                         *)
Duplicated(names) ==
  \E i, j \in DOMAIN names : i < j /\ names[i] = names[j]

(* for_each calls back for the elements that are in S, from first to last. *)
ForEach(s, S) ==
  LET called[n \in 0..Len(s)] ==
        IF n = 0 THEN <<>>
        ELSE IF s[n] \in S THEN Append(called[n - 1], s[n]) ELSE called[n - 1]
  IN called[Len(s)]

(* for_each throws for a class without fields.                             *)
GetFieldsThrows(d) == d.fields = <<>>

(* get_fields(): for_each leaves out the ignored fields.                   *)
GetFields(d) == ForEach(d.fields, {f \in ToSet(d.fields) : ~f.ignore})

(* index_of() finds ignored fields as well.                                *)
HasField(d, name) == name \in ToSet(FieldNames(d))

(* get_keys() throws for a key that is no field, and calls back for the    *)
(* keys among get_fields().                                                *)
GetKeysThrows(d) == \E key \in ToSet(d.keys) : ~HasField(d, key)

GetKeys(d) == ForEach(d.keys, {f.name : f \in ToSet(GetFields(d))})

(* ExtendedModel: the fields of classes without keys and references are    *)
(* added after the others.                                                 *)
Extended(d, classes) ==
  [d EXCEPT !.fields = FoldLeft(LAMBDA fs, c : fs \o c.fields, @, classes)]
=============================================================================
