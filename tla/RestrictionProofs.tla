------------------------- MODULE RestrictionProofs -------------------------
(***************************************************************************)
(* Proofs of the properties of Restriction, for any classes and fields,    *)
(* any number of models and compounds, and any levels.                     *)
(***************************************************************************)
EXTENDS Restriction, TLAPS

(* What a field can hold: the empty optional is never stored.              *)
Contents == Values \cup {Invalid, Hidden}
Models(class) == [Names(class) -> Contents]

TypeOK ==
  /\ data = [p \in Places |-> data[p]]
  /\ \A p \in Places : data[p] \in Models(Class(p))
  /\ valid \in [Places -> BOOLEAN] /\ intact \in [Compounds -> BOOLEAN]
  /\ locked \in BOOLEAN
  /\ level \in [Places -> Nat]
  /\ since = [p \in Places |-> since[p]]
  /\ \A p \in Places : since[p] \subseteq Names(Class(p))
  /\ taken = [p \in Places |-> taken[p]]
  /\ \A p \in Places : taken[p] \subseteq Names(Class(p))
  /\ replaced \in [Compounds -> SUBSET Parts]

(* The marks of restrict() stay with the models that it returned, and the  *)
(* copies of these; a valid model has them only in the fields that took    *)
(* the value of a field of one.                                            *)
HiddenInv ==
  \A p \in Places : valid[p] =>
    \A n \in Names(Class(p)) \ taken[p] : data[p][n] # Hidden

(* A restricted model keeps its secrets, wherever it is copied to.         *)
LevelInv ==
  \A p \in Places : ~valid[p] =>
    \A f \in GetFields(Class(p)) :
      f.level > level[p] /\ f.name \notin since[p] => data[p][f.name] \in {Invalid, Hidden}

(* The compound's flag tells what those of its parts do.                   *)
PartsInv ==
  \A c \in Compounds : ~intact[c] =>
    \A m \in Parts \ replaced[c] : ~valid[<<c, m>>]

IInv == TypeOK /\ HiddenInv /\ LevelInv /\ PartsInv /\ NothingHiddenWritten

-----------------------------------------------------------------------------
(* The class of a part is its place in the compound.                       *)
LEMMA ClassOfPart ==
  ASSUME NEW c \in Compounds, NEW m \in Parts
  PROVE  <<c, m>> \in Places /\ <<c, m>> \notin DOMAIN Singles /\ Class(<<c, m>>) = m
  BY RestrictionAssumption DEF Places, Class

(* Each place is a variable or a part of a compound.                       *)
LEMMA PlaceOfPart ==
  ASSUME NEW p \in Places, p \notin DOMAIN Singles
  PROVE  p[1] \in Compounds /\ p[2] \in Parts /\ p = <<p[1], p[2]>>
  BY DEF Places

(* The fields that are not ignored are fields.                             *)
LEMMA FieldsAreNamed ==
  ASSUME NEW class, NEW f \in GetFields(class)
  PROVE  f \in Fields[class] /\ f.name \in Names(class)
  BY DEF GetFields, Names

(* At first nothing is assigned and nothing is restricted.                 *)
LEMMA InitInv == Init => IInv
<1> SUFFICES ASSUME Init PROVE IInv
  OBVIOUS
<1>1. TypeOK
  BY DEF Init, TypeOK, Models, Contents
<1>2. HiddenInv
  BY RestrictionAssumption DEF Init, HiddenInv
<1>3. LevelInv /\ PartsInv
  BY DEF Init, LevelInv, PartsInv
<1>4. NothingHiddenWritten
  BY DEF Init, NothingHiddenWritten
<1> QED BY <1>1, <1>2, <1>3, <1>4 DEF IInv

USE DEF IInv

(* One field of a model is given something: the field of a restricted      *)
(* model counts as written, that of a valid model as taken if what it is   *)
(* given may be a mark.                                                    *)
LEMMA FieldKeeps ==
  ASSUME IInv, NEW p \in Places, NEW n \in Names(Class(p)),
         NEW new \in Contents, NEW doubtful \in SUBSET {n},
         data' = [data EXCEPT ![p][n] = new],
         since' = Written(p, {n}), taken' = Taken(p, {n}, doubtful),
         valid[p] /\ doubtful = {} => new # Hidden,
         rows' = <<>>, UNCHANGED <<valid, level, intact, locked, replaced>>
  PROVE  IInv'
<1>2. /\ data' = [q \in Places |-> data'[q]]
      /\ \A q \in Places \ {p} : data'[q] = data[q]
      /\ data'[p] = [data[p] EXCEPT ![n] = new]
  BY DEF TypeOK
<1>3. data'[p] \in Models(Class(p)) /\ data'[p][n] = new
      /\ \A k \in Names(Class(p)) \ {n} : data'[p][k] = data[p][k]
  BY <1>2 DEF TypeOK, Models
<1>4. /\ since' = [q \in Places |-> since'[q]]
      /\ \A q \in Places \ {p} : since'[q] = since[q]
      /\ since[p] \subseteq since'[p] /\ since'[p] \subseteq since[p] \cup {n}
      /\ ~valid[p] => n \in since'[p]
  BY DEF TypeOK, Written
<1>5. /\ taken' = [q \in Places |-> taken'[q]]
      /\ \A q \in Places \ {p} : taken'[q] = taken[q]
      /\ taken'[p] = IF valid[p] THEN (taken[p] \ {n}) \cup doubtful ELSE taken[p]
  BY DEF TypeOK, Taken
<1>6. TypeOK'
  <2>1. \A q \in Places : data'[q] \in Models(Class(q))
    BY <1>2, <1>3 DEF TypeOK
  <2>2. \A q \in Places :
          since'[q] \subseteq Names(Class(q)) /\ taken'[q] \subseteq Names(Class(q))
    BY <1>4, <1>5 DEF TypeOK
  <2> QED BY <1>2, <1>4, <1>5, <2>1, <2>2 DEF TypeOK
<1>7. HiddenInv'
  <2> SUFFICES ASSUME NEW q \in Places, valid[q],
                      NEW k \in Names(Class(q)) \ taken'[q]
               PROVE  data'[q][k] # Hidden
    BY DEF HiddenInv
  <2>1. CASE q # p
    <3>1. k \in Names(Class(q)) \ taken[q] /\ data'[q] = data[q]
      BY <1>2, <1>5, <2>1
    <3> QED BY <3>1 DEF HiddenInv
  <2>2. CASE q = p /\ k # n
    <3>1. k \in Names(Class(p)) \ taken[p] /\ data'[q][k] = data[p][k]
      BY <1>3, <1>5, <2>2
    <3> QED BY <2>2, <3>1 DEF HiddenInv
  <2>3. CASE q = p /\ k = n
    BY <1>3, <1>5, <2>3
  <2> QED BY <2>1, <2>2, <2>3
<1>8. LevelInv'
  <2> SUFFICES ASSUME NEW q \in Places, ~valid[q], NEW f \in GetFields(Class(q)),
                      f.level > level[q], f.name \notin since'[q]
               PROVE  data'[q][f.name] \in {Invalid, Hidden}
    BY DEF LevelInv
  <2>1. f.name \notin since[q] /\ (q = p => f.name # n)
    BY <1>4
  <2>2. data[q][f.name] \in {Invalid, Hidden}
    BY <2>1 DEF LevelInv
  <2>3. data'[q][f.name] = data[q][f.name]
    BY <1>2, <1>3, <2>1, FieldsAreNamed
  <2> QED BY <2>2, <2>3
<1>9. PartsInv' /\ NothingHiddenWritten'
  BY DEF PartsInv, NothingHiddenWritten
<1> QED BY <1>6, <1>7, <1>8, <1>9

(* A value is no mark; the empty optional changes nothing.                 *)
LEMMA AssignKeeps ==
  ASSUME IInv, NEW p \in Places, NEW n \in Names(Class(p)),
         NEW v \in Values \cup {Empty}, Assign(p, n, v)
  PROVE  IInv'
<1> USE DEF Assign, NothingWritten
<1>1. CASE v = Empty
  <2>1. data' = data
    BY <1>1 DEF TypeOK, Models, Assigned
  <2>2. since' = since /\ taken' = taken /\ rows' = <<>>
    BY <1>1
  <2>3. TypeOK' /\ HiddenInv' /\ LevelInv' /\ PartsInv'
    BY <2>1, <2>2 DEF TypeOK, HiddenInv, LevelInv, PartsInv
  <2>4. NothingHiddenWritten'
    BY <2>2 DEF NothingHiddenWritten
  <2> QED BY <2>3, <2>4
<1>2. CASE v # Empty
  <2>1. v \in Contents /\ v # Hidden
    BY <1>2, RestrictionAssumption DEF Contents
  <2>2. data' = [data EXCEPT ![p][n] = v]
    BY <1>2 DEF Assigned
  <2>3. /\ since' = Written(p, {n}) /\ taken' = Taken(p, {n}, {})
        /\ rows' = <<>> /\ UNCHANGED <<valid, level, intact, locked, replaced>>
    BY <1>2
  <2>4. {} \in SUBSET {n}
    OBVIOUS
  <2> HIDE DEF IInv, Assign, NothingWritten
  <2> QED BY <2>1, <2>2, <2>3, <2>4, FieldKeeps
<1> QED BY <1>1, <1>2

(* The field of a valid model that was taken from none has no mark.        *)
LEMMA AssignFieldKeeps ==
  ASSUME IInv, NEW p \in Places, NEW n \in Names(Class(p)),
         NEW q \in Places, NEW k \in Names(Class(q)), AssignField(p, n, q, k)
  PROVE  IInv'
<1> DEFINE doubtful == {m \in {k} : Doubtful(p, n)}
<1>1. data[p][n] \in Contents /\ doubtful \in SUBSET {k}
  BY DEF TypeOK, Models
<1>2. doubtful = {} => data[p][n] # Hidden
  BY DEF Doubtful, HiddenInv
<1>3. /\ data' = [data EXCEPT ![q][k] = data[p][n]]
      /\ since' = Written(q, {k}) /\ taken' = Taken(q, {k}, doubtful)
      /\ rows' = <<>> /\ UNCHANGED <<valid, level, intact, locked, replaced>>
  BY DEF AssignField, NothingWritten
<1> HIDE DEF doubtful, IInv
<1> QED BY <1>1, <1>2, <1>3, FieldKeeps

(* Who sets a part, or assigns a model to it, has set it.                  *)
LEMMA SetReplacedKeeps ==
  ASSUME TypeOK, NEW q \in Places, SetReplaced(q)
  PROVE  /\ replaced' \in [Compounds -> SUBSET Parts]
         /\ \A c \in Compounds : replaced[c] \subseteq replaced'[c]
         /\ \A c \in Compounds, m \in Parts :
              q = <<c, m>> /\ ~intact[c] => m \in replaced'[c]
<1>1. CASE q \in DOMAIN Singles
  BY <1>1, ClassOfPart DEF TypeOK, SetReplaced
<1>2. CASE q \notin DOMAIN Singles
  <2>1. PICK c \in Compounds, m \in Parts : q = <<c, m>>
    BY <1>2 DEF Places
  <2>2. replaced' = IF intact[c] THEN replaced
                    ELSE [replaced EXCEPT ![c] = @ \cup {m}]
    BY <1>2, <2>1 DEF SetReplaced
  <2> QED BY <2>1, <2>2 DEF TypeOK
<1> QED BY <1>1, <1>2

(* A copy has the validity, and the secrets, of the original.              *)
LEMMA CopyIntoKeeps ==
  ASSUME IInv, NEW from, CopyInto(from),
         \A q \in Places \cap DOMAIN from :
           from[q] \in Places /\ Class(from[q]) = Class(q),
         intact' \in [Compounds -> BOOLEAN], locked' = locked,
         replaced' \in [Compounds -> SUBSET Parts]
  PROVE  /\ TypeOK' /\ HiddenInv' /\ LevelInv'
         /\ \A q \in Places :
              valid'[q] = IF q \in DOMAIN from THEN valid[from[q]] ELSE valid[q]
<1> DEFINE source(q) == IF q \in DOMAIN from THEN from[q] ELSE q
<1>1. \A q \in Places : source(q) \in Places /\ Class(source(q)) = Class(q)
  OBVIOUS
<1>2. /\ data' = [q \in Places |-> data[source(q)]]
      /\ valid' = [q \in Places |-> valid[source(q)]]
      /\ level' = [q \in Places |-> level[source(q)]]
      /\ since' = [q \in Places |-> since[source(q)]]
      /\ taken' = [q \in Places |-> taken[source(q)]]
  BY DEF CopyInto, ValidAfterCopy
<1>3. \A q \in Places :
        valid'[q] = IF q \in DOMAIN from THEN valid[from[q]] ELSE valid[q]
  BY <1>2
<1> HIDE DEF source
<1>4. TypeOK'
  BY <1>1, <1>2 DEF TypeOK
<1>5. HiddenInv'
  BY <1>1, <1>2 DEF HiddenInv
<1>6. LevelInv'
  BY <1>1, <1>2 DEF LevelInv
<1> QED BY <1>3, <1>4, <1>5, <1>6

(* A part that is copied into a compound was set.                          *)
LEMMA CopyKeeps ==
  ASSUME IInv, NEW p \in Places, NEW q \in Places, Copy(p, q)
  PROVE  IInv'
<1> DEFINE from == [x \in {q} |-> p]
<1>1. \A x \in Places \cap DOMAIN from :
        from[x] \in Places /\ Class(from[x]) = Class(x)
  BY DEF Copy
<1>2. /\ TypeOK' /\ HiddenInv' /\ LevelInv'
      /\ \A x \in Places :
           valid'[x] = IF x \in DOMAIN from THEN valid[from[x]] ELSE valid[x]
  BY <1>1, CopyIntoKeeps, SetReplacedKeeps DEF Copy, TypeOK
<1>3. PartsInv'
  BY <1>2, SetReplacedKeeps, ClassOfPart DEF Copy, PartsInv
<1>4. NothingHiddenWritten'
  BY DEF Copy, NothingWritten, NothingHiddenWritten
<1> QED BY <1>2, <1>3, <1>4

(* The parts of one compound in the places of another.                     *)
LEMMA PartsFromPlaces ==
  ASSUME NEW c \in Compounds, NEW e \in Compounds
  PROVE  LET from == PartsFrom(c, e, Parts)
         IN /\ \A m \in Parts : <<e, m>> \in DOMAIN from /\ from[<<e, m>>] = <<c, m>>
            /\ \A q \in DOMAIN from :
                 /\ q[1] = e
                 /\ from[q] \in Places /\ Class(from[q]) = Class(q)
<1> DEFINE from == PartsFrom(c, e, Parts)
<1>1. \A m \in Parts : <<e, m>> \in DOMAIN from /\ from[<<e, m>>] = <<c, m>>
  BY DEF PartsFrom
<1>2. ASSUME NEW q \in DOMAIN from
      PROVE  q[1] = e /\ from[q] \in Places /\ Class(from[q]) = Class(q)
  <2>1. PICK m \in Parts : q = <<e, m>>
    BY DEF PartsFrom
  <2> QED BY <1>1, <2>1, ClassOfPart
<1> QED BY <1>1, <1>2

(* A compound is copied with its flag, which tells the same of the copies. *)
LEMMA CopyCompoundKeeps ==
  ASSUME IInv, NEW c \in Compounds, NEW e \in Compounds, CopyCompound(c, e)
  PROVE  IInv'
<1> DEFINE from == PartsFrom(c, e, Parts)
<1>1. /\ \A m \in Parts : <<e, m>> \in DOMAIN from /\ from[<<e, m>>] = <<c, m>>
      /\ \A q \in DOMAIN from :
           q[1] = e /\ from[q] \in Places /\ Class(from[q]) = Class(q)
  BY PartsFromPlaces
<1>2. /\ intact' = [intact EXCEPT ![e] = intact[c]]
      /\ replaced' = [replaced EXCEPT ![e] = replaced[c]]
      /\ CopyInto(from) /\ locked' = locked /\ rows' = <<>>
  BY DEF CopyCompound, NothingWritten
<1> HIDE DEF from
<1>3. /\ TypeOK' /\ HiddenInv' /\ LevelInv'
      /\ \A q \in Places :
           valid'[q] = IF q \in DOMAIN from THEN valid[from[q]] ELSE valid[q]
  <2>1. intact' \in [Compounds -> BOOLEAN] /\ replaced' \in [Compounds -> SUBSET Parts]
    BY <1>2 DEF TypeOK
  <2> QED BY <1>1, <1>2, <2>1, CopyIntoKeeps
<1>4. PartsInv'
  <2> SUFFICES ASSUME NEW d \in Compounds, ~intact'[d], NEW m \in Parts \ replaced'[d]
               PROVE  ~valid'[<<d, m>>]
    BY DEF PartsInv
  <2>1. CASE d = e
    <3>1. ~intact[c] /\ m \in Parts \ replaced[c]
      BY <1>2, <2>1 DEF TypeOK
    <3>2. ~valid[<<c, m>>]
      BY <3>1 DEF PartsInv
    <3>3. <<e, m>> \in DOMAIN from /\ from[<<e, m>>] = <<c, m>> /\ <<e, m>> \in Places
      BY <1>1, ClassOfPart
    <3>4. valid'[<<e, m>>] = valid[<<c, m>>]
      BY <1>3, <3>3
    <3> QED BY <2>1, <3>2, <3>4
  <2>2. CASE d # e
    <3>1. <<d, m>> \notin DOMAIN from
      BY <1>1, <2>2
    <3> QED BY <1>2, <1>3, <2>2, <3>1, ClassOfPart DEF TypeOK, PartsInv
  <2> QED BY <2>1, <2>2
<1>5. NothingHiddenWritten'
  BY <1>2 DEF NothingHiddenWritten
<1> QED BY <1>3, <1>4, <1>5

(* What restrict() returns is a model of the class that shows no more than *)
(* the level.                                                              *)
LEMMA RestrictedModel ==
  ASSUME TypeOK, NEW p \in Places, NEW l \in Nat
  PROVE  /\ Restricted(p, l) \in Models(Class(p))
         /\ \A f \in GetFields(Class(p)) :
              f.level > l => Restricted(p, l)[f.name] = Hidden
  BY FieldsAreNamed DEF TypeOK, Models, Contents, Restricted

(* Restriction hides the fields of every model that it writes.             *)
LEMMA RestrictIntoKeeps ==
  ASSUME IInv, NEW from, NEW l \in Levels, RestrictInto(from, l),
         \A q \in Places \cap DOMAIN from :
           from[q] \in Places /\ Class(from[q]) = Class(q),
         intact' \in [Compounds -> BOOLEAN], locked' = locked,
         replaced' \in [Compounds -> SUBSET Parts]
  PROVE  TypeOK' /\ HiddenInv' /\ LevelInv'
<1> USE DEF RestrictInto, ValidAfterRestriction
<1>0. l \in Nat
  BY RestrictionAssumption
<1>1. TypeOK'
  BY <1>0, RestrictedModel DEF TypeOK
<1>2. HiddenInv'
  BY DEF HiddenInv
<1>3. LevelInv'
  BY <1>0, RestrictedModel DEF LevelInv
<1> QED BY <1>1, <1>2, <1>3

(* One model is restricted into another of its class.                      *)
LEMMA RestrictKeeps ==
  ASSUME IInv, NEW p \in Places, NEW q \in Places, NEW l \in Levels,
         Restrict(p, q, l)
  PROVE  IInv'
<1> USE DEF Restrict
<1>1. TypeOK' /\ HiddenInv' /\ LevelInv'
  BY RestrictIntoKeeps, SetReplacedKeeps DEF TypeOK
<1>2. PartsInv'
  BY SetReplacedKeeps, ClassOfPart DEF RestrictInto, ValidAfterRestriction, PartsInv
<1>3. NothingHiddenWritten'
  BY DEF NothingWritten, NothingHiddenWritten
<1> QED BY <1>1, <1>2, <1>3

(* All parts of a compound are restricted into those of another.           *)
LEMMA RestrictCompoundKeeps ==
  ASSUME IInv, NEW c \in Compounds, NEW e \in Compounds, NEW l \in Levels,
         RestrictCompound(c, e, l)
  PROVE  IInv'
<1> USE DEF RestrictCompound
<1> DEFINE from == PartsFrom(c, e, Parts)
<1>1. \A m \in Parts : <<e, m>> \in DOMAIN from
  BY PartsFromPlaces
<1>2. \A q \in Places \cap DOMAIN from :
        from[q] \in Places /\ Class(from[q]) = Class(q)
  BY PartsFromPlaces
<1>3. TypeOK' /\ HiddenInv' /\ LevelInv'
  BY <1>2, RestrictIntoKeeps DEF TypeOK, RestrictedParts
<1>4. PartsInv'
  BY <1>1, ClassOfPart
     DEF TypeOK, RestrictInto, ValidAfterRestriction, PartsInv, RestrictedParts
<1>5. NothingHiddenWritten'
  BY DEF NothingWritten, NothingHiddenWritten
<1> QED BY <1>3, <1>4, <1>5

(* A filled model takes what the other has; what it gets counts as         *)
(* written.                                                                *)
LEMMA FillKeeps ==
  ASSUME IInv, NEW p \in Places, NEW q \in Places, Fill(p, q)
  PROVE  IInv'
<1> DEFINE names == {f.name : f \in GetFields(Class(q))}
           doubtful == {n \in names : Doubtful(p, n)}
<1>1. /\ names \subseteq Names(Class(p)) /\ names \subseteq Names(Class(q))
      /\ since' = Written(q, names) /\ taken' = Taken(q, names, doubtful)
      /\ rows' = <<>>
      /\ UNCHANGED <<valid, level, intact, locked, replaced>>
  BY FieldsAreNamed DEF Fill, NothingWritten
<1>2. /\ data' = [x \in Places |-> data'[x]]
      /\ \A x \in Places \ {q} : data'[x] = data[x]
      /\ data'[q] = [n \in Names(Class(q)) |->
                      IF n \in names THEN data[p][n] ELSE data[q][n]]
  BY DEF Fill, TypeOK, Models
<1>3. doubtful \subseteq names /\ \A n \in names \ doubtful : data[p][n] # Hidden
  BY <1>1 DEF Doubtful, HiddenInv
<1> HIDE DEF names, doubtful
<1>4. data'[q] \in Models(Class(q))
  BY <1>1, <1>2 DEF TypeOK, Models
<1>5. /\ since' = [x \in Places |-> since'[x]]
      /\ \A x \in Places \ {q} : since'[x] = since[x]
      /\ since'[q] \subseteq Names(Class(q))
      /\ ~valid[q] => names \subseteq since'[q]
      /\ since[q] \subseteq since'[q]
  BY <1>1 DEF TypeOK, Written
<1>6. /\ taken' = [x \in Places |-> taken'[x]]
      /\ \A x \in Places \ {q} : taken'[x] = taken[x]
      /\ taken'[q] \subseteq Names(Class(q))
      /\ valid[q] => taken'[q] = (taken[q] \ names) \cup doubtful
  BY <1>1, <1>3 DEF TypeOK, Taken
<1>7. TypeOK'
  BY <1>1, <1>2, <1>4, <1>5, <1>6 DEF TypeOK
<1>8. HiddenInv'
  <2> SUFFICES ASSUME NEW x \in Places, valid[x],
                      NEW n \in Names(Class(x)) \ taken'[x]
               PROVE  data'[x][n] # Hidden
    BY <1>1 DEF HiddenInv
  <2>1. CASE x # q
    BY <1>2, <1>6, <2>1 DEF HiddenInv
  <2>2. CASE x = q /\ n \in names
    BY <1>2, <1>3, <1>6, <2>2
  <2>3. CASE x = q /\ n \notin names
    BY <1>2, <1>6, <2>3 DEF HiddenInv
  <2> QED BY <2>1, <2>2, <2>3
<1>9. LevelInv'
  <2> SUFFICES ASSUME NEW x \in Places, ~valid[x], NEW f \in GetFields(Class(x)),
                      f.level > level[x], f.name \notin since'[x]
               PROVE  data'[x][f.name] \in {Invalid, Hidden}
    BY <1>1 DEF LevelInv
  <2>1. f.name \notin since[x] /\ (x = q => f.name \notin names)
    BY <1>5
  <2>2. data[x][f.name] \in {Invalid, Hidden}
    BY <2>1 DEF LevelInv
  <2> QED BY <1>2, <2>1, <2>2, FieldsAreNamed
<1>10. PartsInv' /\ NothingHiddenWritten'
  BY <1>1 DEF PartsInv, NothingHiddenWritten
<1> QED BY <1>7, <1>8, <1>9, <1>10

(* Only a valid model is written, and it has marks in what it took alone.  *)
LEMMA WriteKeeps ==
  ASSUME IInv, NEW p \in Places, Write(p)
  PROVE  IInv'
<1> USE DEF Write, models
<1>1. TypeOK' /\ HiddenInv' /\ LevelInv' /\ PartsInv'
  BY DEF TypeOK, HiddenInv, LevelInv, PartsInv
<1>2. NothingHiddenWritten'
  BY FieldsAreNamed DEF HiddenInv, NothingHiddenWritten, Row
<1> QED BY <1>1, <1>2

(* The parts are written if all of them are valid.                         *)
LEMMA WriteCompoundKeeps ==
  ASSUME IInv, NEW c \in Compounds, WriteCompound(c)
  PROVE  IInv'
<1> USE DEF WriteCompound, models
<1>1. TypeOK' /\ HiddenInv' /\ LevelInv' /\ PartsInv'
  BY DEF TypeOK, HiddenInv, LevelInv, PartsInv
<1>2. NothingHiddenWritten'
  <2>1. CASE rows' = <<>>
    BY <2>1 DEF NothingHiddenWritten
  <2>2. CASE /\ rows' = [m \in Parts |-> Row(<<c, m>>)]
             /\ written' = [m \in Parts |-> <<c, m>>]
             /\ \A m \in Parts : valid[<<c, m>>]
    <3> SUFFICES ASSUME NEW m \in Parts,
                        NEW n \in DOMAIN Row(<<c, m>>) \ taken[<<c, m>>]
                 PROVE  Row(<<c, m>>)[n] # Hidden
      BY <2>2, ZenonT(60) DEF NothingHiddenWritten
    <3> QED BY <2>2, ClassOfPart, FieldsAreNamed DEF HiddenInv, Row
  <2> QED BY <2>1, <2>2 DEF NothingWritten
<1> QED BY <1>1, <1>2

(* The invariant is inductive.                                             *)
LEMMA NextInv == IInv /\ [Next]_vars => IInv'
<1> SUFFICES ASSUME IInv, [Next]_vars PROVE IInv'
  OBVIOUS
<1>1. ASSUME NEW p \in Places, NEW n \in Names(Class(p)),
             NEW v \in Values \cup {Empty}, Assign(p, n, v)
      PROVE  IInv'
  BY <1>1, AssignKeeps
<1>2. ASSUME NEW p \in Places, NEW q \in Places, Copy(p, q)
      PROVE  IInv'
  BY <1>2, CopyKeeps
<1>3. ASSUME NEW p \in Places, NEW q \in Places, Fill(p, q)
      PROVE  IInv'
  BY <1>3, FillKeeps
<1>4. ASSUME NEW p \in Places, NEW q \in Places, NEW l \in Levels, Restrict(p, q, l)
      PROVE  IInv'
  BY <1>4, RestrictKeeps
<1>5. ASSUME NEW c \in Compounds, NEW e \in Compounds,
             CopyCompound(c, e) \/ \E l \in Levels : RestrictCompound(c, e, l)
      PROVE  IInv'
  BY <1>5, CopyCompoundKeeps, RestrictCompoundKeeps
<1>6. ASSUME NEW p \in Places, Write(p)
      PROVE  IInv'
  BY <1>6, WriteKeeps
<1>7. ASSUME NEW c \in Compounds, WriteCompound(c)
      PROVE  IInv'
  BY <1>7, WriteCompoundKeeps
<1>9. ASSUME NEW p \in Places, NEW n \in Names(Class(p)),
             NEW q \in Places, NEW k \in Names(Class(q)), AssignField(p, n, q, k)
      PROVE  IInv'
  BY <1>9, AssignFieldKeeps
<1>8. CASE UNCHANGED vars
  BY <1>8 DEF vars, models, TypeOK, HiddenInv, LevelInv, PartsInv, NothingHiddenWritten
<1> HIDE DEF IInv
<1> QED BY <1>1, <1>2, <1>3, <1>4, <1>5, <1>6, <1>7, <1>8, <1>9 DEF Next

-----------------------------------------------------------------------------
(* Type correctness: a model has a value or a mark in each field of its    *)
(* class, whatever it is copied, restricted and filled into.               *)
THEOREM TypeCorrect == Spec => []TypeOK
  BY InitInv, NextInv, PTL DEF Spec

(* Who must hide something is marked invalid, or shows it to no one: a     *)
(* part that was not set since its compound was restricted still is.       *)
THEOREM RestrictionHides == Spec => []RestrictedShowsNothing
<1>1. IInv => RestrictedShowsNothing
  <2> SUFFICES ASSUME IInv, NEW p \in Places, MustHide(p) PROVE ~valid[p]
    BY DEF RestrictedShowsNothing, LevelInv
  <2> QED BY PlaceOfPart DEF MustHide, PartsInv
<1> QED BY <1>1, InitInv, NextInv, PTL DEF Spec

(* No write takes what was restricted for a value, in a field that took    *)
(* nothing from a restricted model.                                        *)
THEOREM HiddenStaysOut == Spec => []NothingHiddenWritten
  BY InitInv, NextInv, PTL DEF Spec
=============================================================================
