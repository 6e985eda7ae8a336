----------------------------- MODULE Restriction -----------------------------
(***************************************************************************)
(* The models that a program holds: single models, and the parts of        *)
(* CompoundModels, which are models too.  Their fields are assigned, from  *)
(* values and from fields of other models; they are copied, alone and as   *)
(* compounds, restricted to a level, filled into models of other classes,  *)
(* and written to the database.                                            *)
(*                                                                         *)
(* One thread.  Values are not told apart by type; that a write fails      *)
(* because of a value, or in SQLite, is in Rows and Batches.               *)
(***************************************************************************)
EXTENDS Naturals

CONSTANTS
  Fields,      (* Fields[class]: its fields, records [name, level, ignore] *)
  Dtos,        (* the classes without keys, that fill() accepts            *)
  Singles,     (* Singles[x]: the class of the variable x                  *)
  Compounds,   (* the variables of the type CompoundModel<Parts...>        *)
  Parts,
  Values,
  Levels,      (* the levels that restrict<level>() is called with         *)
  Invalid,     (* InvalidData, as a field has it before it is assigned     *)
  Hidden,      (* InvalidData that restrict() has put there                *)
  Empty        (* std::nullopt                                             *)

ASSUME RestrictionAssumption ==
  /\ Parts \cup Dtos \subseteq DOMAIN Fields
  /\ \A x \in DOMAIN Singles : Singles[x] \in DOMAIN Fields
  /\ DOMAIN Singles \cap (Compounds \X Parts) = {}
  /\ \A c \in DOMAIN Fields : \A f, g \in Fields[c] : f.name = g.name => f = g
  /\ \A c \in DOMAIN Fields : \A f \in Fields[c] : f.level \in Nat
  /\ Levels \subseteq Nat
  /\ {Invalid, Hidden, Empty} \cap Values = {}
  /\ Invalid # Hidden /\ Empty \notin {Invalid, Hidden}

Places == DOMAIN Singles \cup (Compounds \X Parts)

Class(p) == IF p \in DOMAIN Singles THEN Singles[p] ELSE p[2]

Names(class) == {f.name : f \in Fields[class]}
GetFields(class) == {f \in Fields[class] : ~f.ignore}

VARIABLES
  data,      (* data[p]: from the names of the fields to their values      *)
  valid,     (* valid[p]: mValid                                           *)
  intact,    (* intact[c]: mValid of the CompoundModel                     *)
  rows,      (* rows[class]: the row of the class that the last call wrote *)
  written,   (* history: written[class], the place of that row's model     *)
  locked,    (* mTransactionLock, which an exception leaves set            *)
  taken,     (* history: taken[p], the fields of a valid model that were   *)
             (* given the value of a field of a restricted one, directly   *)
             (* or through others                                          *)
  level,     (* history: level[p], to which the model was restricted       *)
  since,     (* history: since[p], the fields written to after that        *)
  replaced   (* history: replaced[c], the parts that were set after the    *)
             (* compound was restricted                                    *)

models == <<data, valid, level, since, taken>>
vars == <<models, intact, rows, written, locked, replaced>>

Init ==
  /\ data = [p \in Places |-> [n \in Names(Class(p)) |-> Invalid]]
  /\ valid = [p \in Places |-> TRUE]
  /\ intact = [c \in Compounds |-> TRUE]
  /\ rows = <<>> /\ written = <<>>
  /\ locked = FALSE
  /\ level = [p \in Places |-> 0]
  /\ since = [p \in Places |-> {}]
  /\ taken = [p \in Places |-> {}]
  /\ replaced = [c \in Compounds |-> {}]

-----------------------------------------------------------------------------
Written(p, names) ==
  IF valid[p] THEN since ELSE [since EXCEPT ![p] = @ \cup names]

(* The empty optional leaves the value as it was.                          *)
Assigned(old, value) == IF value = Empty THEN old ELSE value

(* A valid model's fields are given values, those in doubtful such as may  *)
(* be marks.                                                               *)
Taken(p, names, doubtful) ==
  IF valid[p] THEN [taken EXCEPT ![p] = (@ \ names) \cup doubtful] ELSE taken

NothingWritten == rows' = <<>> /\ written' = <<>>

(* model[name] = value.                                                    *)
Assign(p, name, value) ==
  /\ data' = [data EXCEPT ![p][name] = Assigned(@, value)]
  /\ since' = IF value = Empty THEN since ELSE Written(p, {name})
  /\ taken' = IF value = Empty THEN taken ELSE Taken(p, {name}, {})
  /\ NothingWritten
  /\ UNCHANGED <<valid, level, intact, locked, replaced>>

(* A field of a restricted model, or one that got its value from such.     *)
Doubtful(p, name) == ~valid[p] \/ name \in taken[p]

(* q[other] = p[name]: a Data is copied with its mark, whatever the two    *)
(* models are.                                                             *)
AssignField(p, name, q, other) ==
  /\ data' = [data EXCEPT ![q][other] = data[p][name]]
  /\ since' = Written(q, {other})
  /\ taken' = Taken(q, {other}, {n \in {other} : Doubtful(p, name)})
  /\ NothingWritten
  /\ UNCHANGED <<valid, level, intact, locked, replaced>>

SetReplaced(q) ==
  replaced' =
    IF q \in DOMAIN Singles \/ intact[q[1]] THEN replaced
    ELSE [replaced EXCEPT ![q[1]] = @ \cup {q[2]}]

WrongValidAfterCopy(from) == valid

ValidAfterCopy(from) ==
  [q \in Places |-> IF q \in DOMAIN from THEN valid[from[q]] ELSE valid[q]]

(* The models at from[q] copied to q, for q in DOMAIN from.                *)
CopyInto(from) ==
  LET Moved(f) == [q \in Places |-> IF q \in DOMAIN from THEN f[from[q]] ELSE f[q]]
  IN /\ data' = Moved(data) /\ valid' = ValidAfterCopy(from)
     /\ level' = Moved(level) /\ since' = Moved(since) /\ taken' = Moved(taken)

(* q = p; CompoundModel::set and get copy in and out of a compound.        *)
Copy(p, q) ==
  /\ Class(p) = Class(q)
  /\ CopyInto([x \in {q} |-> p])
  /\ SetReplaced(q)
  /\ NothingWritten
  /\ UNCHANGED <<intact, locked>>

(* The parts of the compound c, by their places in the compound e.         *)
PartsFrom(c, e, parts) == [q \in {e} \X parts |-> <<c, q[2]>>]

(* e = c: all parts and mValid.                                            *)
CopyCompound(c, e) ==
  /\ CopyInto(PartsFrom(c, e, Parts))
  /\ intact' = [intact EXCEPT ![e] = intact[c]]
  /\ replaced' = [replaced EXCEPT ![e] = replaced[c]]
  /\ NothingWritten
  /\ UNCHANGED locked

(* restrict(): the ignored fields are not looked at.                       *)
Restricted(p, l) ==
  [n \in Names(Class(p)) |->
     IF \E f \in GetFields(Class(p)) : f.name = n /\ f.level > l THEN Hidden
     ELSE data[p][n]]

ValidAfterRestriction(targets) ==
  [q \in Places |-> IF q \in targets THEN FALSE ELSE valid[q]]

(* The models at from[q] restricted into q, for q in DOMAIN from.          *)
RestrictInto(from, l) ==
  /\ data' = [q \in Places |-> IF q \in DOMAIN from THEN Restricted(from[q], l) ELSE data[q]]
  /\ valid' = ValidAfterRestriction(DOMAIN from)
  /\ level' = [q \in Places |-> IF q \in DOMAIN from THEN l ELSE level[q]]
  /\ since' = [q \in Places |-> IF q \in DOMAIN from THEN {} ELSE since[q]]
  /\ taken' = [q \in Places |-> IF q \in DOMAIN from THEN {} ELSE taken[q]]

(* q = p.restrict<l>(), which throws for a restricted model.               *)
Restrict(p, q, l) ==
  /\ Class(p) = Class(q) /\ valid[p]
  /\ RestrictInto([x \in {q} |-> p], l)
  /\ SetReplaced(q)
  /\ NothingWritten
  /\ UNCHANGED <<intact, locked>>

WrongRestrictedParts == {}

(* restricted_for_each.                                                    *)
RestrictedParts == Parts

(* e = c.restrict<l>(): throws when a part is restricted; mValid of the    *)
(* compound is not looked at.                                              *)
RestrictCompound(c, e, l) ==
  /\ \A m \in Parts : valid[<<c, m>>]
  /\ RestrictInto(PartsFrom(c, e, RestrictedParts), l)
  /\ intact' = [intact EXCEPT ![e] = FALSE]
  /\ replaced' = [replaced EXCEPT ![e] = {}]
  /\ NothingWritten
  /\ UNCHANGED locked

(* p.fill(q): by name; the function does not compile when p lacks a field. *)
(* The validity of p and q is not looked at.                               *)
Fill(p, q) ==
  LET names == {f.name : f \in GetFields(Class(q))}
  IN /\ Class(q) \in Dtos /\ names \subseteq Names(Class(p))
     /\ data' = [data EXCEPT ![q] =
          [n \in DOMAIN @ |-> IF n \in names THEN data[p][n] ELSE @[n]]]
     /\ since' = Written(q, names)
     /\ taken' = Taken(q, names, {n \in names : Doubtful(p, n)})
     /\ NothingWritten
     /\ UNCHANGED <<valid, level, intact, locked, replaced>>

-----------------------------------------------------------------------------
Row(p) == [n \in {f.name : f \in GetFields(Class(p))} |-> data[p][n]]

(* insert() and update() begin with is_valid(), or throw.                  *)
Write(p) ==
  /\ valid[p]
  /\ rows' = [c \in {Class(p)} |-> Row(p)]
  /\ written' = [c \in {Class(p)} |-> p]
  /\ UNCHANGED <<models, intact, locked, replaced>>

(* update() of the repository of the compound writes one part after the    *)
(* other in a transaction.  The invalid_argument of a restricted part is   *)
(* no runtime_error: the transaction is rolled back, the call throws, and  *)
(* later updates are deferred for ever.                                    *)
WriteCompound(c) ==
  /\ \/ /\ ~locked /\ \A m \in Parts : valid[<<c, m>>]
        /\ rows' = [m \in Parts |-> Row(<<c, m>>)]
        /\ written' = [m \in Parts |-> <<c, m>>]
        /\ UNCHANGED locked
     \/ /\ locked \/ \E m \in Parts : ~valid[<<c, m>>]
        /\ NothingWritten
        /\ locked' = TRUE
  /\ UNCHANGED <<models, intact, replaced>>

Next ==
  \/ \E p \in Places : \E n \in Names(Class(p)), v \in Values \cup {Empty} : Assign(p, n, v)
  \/ \E p, q \in Places :
       \/ Copy(p, q) \/ Fill(p, q) \/ \E l \in Levels : Restrict(p, q, l)
       \/ \E n \in Names(Class(p)), k \in Names(Class(q)) : AssignField(p, n, q, k)
  \/ \E c, e \in Compounds :
       \/ CopyCompound(c, e) \/ \E l \in Levels : RestrictCompound(c, e, l)
  \/ \E p \in Places : Write(p)
  \/ \E c \in Compounds : WriteCompound(c)

Spec == Init /\ [][Next]_vars
-----------------------------------------------------------------------------
(* Restricted, or a part of a restricted compound that was not set since.  *)
MustHide(p) ==
  ~valid[p] \/ (p \notin DOMAIN Singles /\ ~intact[p[1]] /\ p[2] \notin replaced[p[1]])

(* A restricted model, each copy of it, in or out of a compound, and every *)
(* part of a restricted compound shows no field above the level that it    *)
(* was restricted to, unless the field was written to since.  Ignored      *)
(* fields are shown to who asks for them.                                  *)
(* (DataClass.hpp:444-461, CompoundModel.hpp:12-32, 71-82.)                *)
RestrictedShowsNothing ==
  \A p \in Places : MustHide(p) =>
    \A f \in GetFields(Class(p)) :
      f.level > level[p] /\ f.name \notin since[p] => data[p][f.name] \in {Invalid, Hidden}

(* What restrict() took out of a model is never written over the value in  *)
(* the database, however models and compounds are copied, set into others, *)
(* filled and assigned, unless a field of a valid model was given the      *)
(* value of a field of a restricted one, by fill() or operator[]: the mark *)
(* moves with the value, the flag that insert() and update() look at does  *)
(* not (Database.hpp:72-74, 185-187, 270-272, DataClass.hpp:415-461,       *)
(* CompoundModel.hpp:12-32).                                               *)
NothingHiddenWritten ==
  \A c \in DOMAIN rows : \A n \in DOMAIN rows[c] \ taken[written[c]] :
    rows[c][n] # Hidden
=============================================================================
