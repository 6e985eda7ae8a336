---------------------------- MODULE TablesProofs ----------------------------
(***************************************************************************)
(* Proofs about what is made of declarations: of the properties of Schema  *)
(* (for any models, declarations, releases and numbers of starts) and of   *)
(* Joins (for any compound, tables and rows).  First, what for_each calls  *)
(* back for, whatever the sequence.                                        *)
(***************************************************************************)
EXTENDS Schema, Joins, FiniteSetTheorems, WellFoundedInduction, TLAPS

(* A set of numbers that is not empty has a least one: what holds of a     *)
(* number when it holds of those before it holds of all.                   *)
LEMMA LeastNumber ==
  ASSUME NEW S, S \subseteq Nat, S # {}
  PROVE  \E m \in S : \A n \in S : m <= n
<1> DEFINE R == {ss \in Nat \X Nat : ss[1] < ss[2]}
<1>1. IsWellFoundedOn(R, Nat)
  BY NatLessThanWellFounded DEF OpToRel
<1> HIDE DEF R
<1>2. PICK m \in S : \A n \in S : ~(<<n, m>> \in R)
  BY <1>1, WFMin, Zenon
<1>3. \A n \in S : n < m => <<n, m>> \in R
  BY DEF R
<1>4. \A n \in S : ~(n < m)
  BY <1>2, <1>3
<1>5. \A n \in S : m <= n
  BY <1>4
<1> QED BY <1>5

Called(f, s, S, n) ==
  IF n = 0 THEN <<>>
  ELSE IF s[n] \in S THEN Append(f[n - 1], s[n]) ELSE f[n - 1]

(* The function by which ForEach is defined exists.                        *)
LEMMA ForEachIsDefined ==
  ASSUME NEW s, Len(s) \in Nat, NEW S
  PROVE  \E f : f = [n \in 0..Len(s) |-> Called(f, s, S, n)] /\ ForEach(s, S) = f[Len(s)]
<1> DEFINE Begun(f, m) == f = [n \in 0..m |-> Called(f, s, S, n)]
           Missing == {m \in 0..Len(s) : \A f : ~Begun(f, m)}
<1>1. ASSUME NEW m \in 0..Len(s), m # 0, NEW f, Begun(f, m - 1)
      PROVE  Begun([n \in 0..m |-> IF n = m THEN Called(f, s, S, m) ELSE f[n]], m)
  <2> DEFINE g == [n \in 0..m |-> IF n = m THEN Called(f, s, S, m) ELSE f[n]]
  <2>1. \A n \in 0..m : n # 0 => n - 1 \in 0..m /\ n - 1 # m
    OBVIOUS
  <2>2. ASSUME NEW n \in 0..m
        PROVE  Called(g, s, S, n) = Called(f, s, S, n)
    BY <2>1 DEF Called
  <2>3. ASSUME NEW n \in 0..m, n # m
        PROVE  g[n] = Called(f, s, S, n)
    BY <1>1, <2>3
  <2>4. \A n \in 0..m : g[n] = Called(g, s, S, n)
    BY <2>2, <2>3
  <2>5. g = [n \in 0..m |-> g[n]]
    OBVIOUS
  <2> HIDE DEF g
  <2> QED BY <2>4, <2>5
<1>2. Begun([n \in 0..0 |-> <<>>], 0)
  BY DEF Called
<1>3. Missing = {}
  <2> SUFFICES ASSUME Missing # {} PROVE FALSE
    OBVIOUS
  <2>0. Missing \subseteq Nat
    OBVIOUS
  <2> HIDE DEF Missing
  <2>1. PICK m \in Missing : \A n \in Missing : m <= n
    BY <2>0, LeastNumber
  <2> USE DEF Missing
  <2>2. m # 0
    BY <1>2, <2>1
  <2>3. m - 1 \in 0..Len(s) /\ m - 1 \notin Missing
    BY <2>1, <2>2
  <2>4. PICK f : Begun(f, m - 1)
    BY <2>3
  <2>5. \E g : Begun(g, m)
    <3>1. m \in 0..Len(s)
      BY <2>1
    <3> HIDE DEF Begun, Missing
    <3> QED BY <1>1, <2>2, <2>4, <3>1
  <2>6. ~\E g : Begun(g, m)
    BY <2>1
  <2> QED BY <2>5, <2>6
<1>4. PICK g : Begun(g, Len(s))
  BY <1>3
<1> DEFINE f == CHOOSE f : Begun(f, Len(s))
<1>5. Begun(f, Len(s))
  BY <1>4
<1>6. ForEach(s, S) = f[Len(s)]
  BY DEF ForEach, Called
<1> QED BY <1>5, <1>6

(* It calls back for the elements in S, for no others, in their order.     *)
LEMMA ForEachCalls ==
  ASSUME NEW T, NEW s \in Seq(T), NEW S
  PROVE  /\ ForEach(s, S) \in Seq(T) /\ Len(ForEach(s, S)) <= Len(s)
         /\ ToSet(ForEach(s, S)) = ToSet(s) \cap S
         /\ ToSet(s) \subseteq S => ForEach(s, S) = s
         /\ ~(ToSet(s) \subseteq S) => Len(ForEach(s, S)) < Len(s)
<1>1. PICK f : /\ f = [n \in 0..Len(s) |-> Called(f, s, S, n)]
               /\ ForEach(s, S) = f[Len(s)]
  BY ForEachIsDefined
<1> DEFINE Right(n) ==
      /\ f[n] \in Seq(T) /\ Len(f[n]) <= n
      /\ \A i \in 1..Len(f[n]) : f[n][i] \in S /\ \E j \in 1..n : f[n][i] = s[j]
      /\ \A j \in 1..n : s[j] \in S => \E i \in 1..Len(f[n]) : f[n][i] = s[j]
      /\ (\A j \in 1..n : s[j] \in S) => Len(f[n]) = n /\ \A j \in 1..n : f[n][j] = s[j]
      /\ (\E j \in 1..n : s[j] \notin S) => Len(f[n]) < n
    Wrong == {n \in 0..Len(s) : ~Right(n)}
<1>2. Right(0)
  <2>1. f[0] = <<>>
    BY <1>1 DEF Called
  <2> QED BY <2>1
<1>3. ASSUME NEW n \in 1..Len(s), Right(n - 1)
      PROVE  Right(n)
  <2> DEFINE k == Len(f[n - 1])
  <2>1. /\ n - 1 \in Nat /\ n - 1 \in 0..Len(s) /\ n \in 0..Len(s) /\ n # 0
        /\ \A j \in 1..n : j = n \/ j \in 1..(n - 1)
        /\ 1..(n - 1) \subseteq 1..n /\ n \in 1..n /\ k \in Nat
    BY <1>3
  <2>2. f[n] = Called(f, s, S, n)
    BY <1>1, <2>1
  <2>3. CASE s[n] \in S
    <3>1. f[n] = Append(f[n - 1], s[n])
      BY <2>1, <2>2, <2>3 DEF Called
    <3>2. s[n] \in T /\ f[n - 1] \in Seq(T)
      BY <1>3
    <3>3. /\ f[n] \in Seq(T) /\ Len(f[n]) = k + 1 /\ f[n][k + 1] = s[n]
          /\ \A i \in 1..k : f[n][i] = f[n - 1][i]
          /\ \A i \in 1..(k + 1) : i = k + 1 \/ i \in 1..k
          /\ 1..k \subseteq 1..(k + 1) /\ k + 1 \in 1..(k + 1)
      BY <2>1, <3>1, <3>2
    <3>4. \A i \in 1..(k + 1) : f[n][i] \in S /\ \E j \in 1..n : f[n][i] = s[j]
      <4> SUFFICES ASSUME NEW i \in 1..(k + 1)
                   PROVE  f[n][i] \in S /\ \E j \in 1..n : f[n][i] = s[j]
        OBVIOUS
      <4>1. CASE i = k + 1
        BY <2>1, <2>3, <3>3, <4>1
      <4>2. CASE i \in 1..k
        <5>1. f[n - 1][i] \in S /\ \E j \in 1..(n - 1) : f[n - 1][i] = s[j]
          BY <1>3, <4>2
        <5> QED BY <2>1, <3>3, <4>2, <5>1
      <4> QED BY <3>3, <4>1, <4>2
    <3>5. \A j \in 1..n : s[j] \in S => \E i \in 1..(k + 1) : f[n][i] = s[j]
      BY <1>3, <2>1, <3>3
    <3>6. ASSUME \A j \in 1..n : s[j] \in S
          PROVE  Len(f[n]) = n /\ \A j \in 1..n : f[n][j] = s[j]
      <4>1. k = n - 1 /\ \A j \in 1..(n - 1) : f[n - 1][j] = s[j]
        BY <1>3, <2>1, <3>6
      <4>2. Len(f[n]) = n
        BY <2>1, <3>3, <4>1
      <4>3. ASSUME NEW j \in 1..n PROVE f[n][j] = s[j]
        <5>1. CASE j = n
          BY <2>1, <3>3, <4>1, <5>1
        <5>2. CASE j \in 1..(n - 1)
          <6>1. f[n][j] = f[n - 1][j] /\ f[n - 1][j] = s[j]
            BY <3>3, <4>1, <5>2
          <6> QED BY <6>1
        <5> QED BY <2>1, <5>1, <5>2
      <4> QED BY <4>2, <4>3
    <3>7. (\E j \in 1..n : s[j] \notin S) => Len(f[n]) < n
      <4> SUFFICES ASSUME NEW j \in 1..n, s[j] \notin S PROVE k + 1 < n
        BY <3>3
      <4>1. j \in 1..(n - 1)
        BY <2>1, <2>3
      <4>2. k < n - 1
        BY <1>3, <4>1
      <4> QED BY <2>1, <4>2
    <3>8. Len(f[n]) <= n
      BY <1>3, <2>1, <3>3
    <3> QED BY <3>3, <3>4, <3>5, <3>6, <3>7, <3>8
  <2>4. CASE s[n] \notin S
    <3>1. f[n] = f[n - 1]
      BY <2>1, <2>2, <2>4 DEF Called
    <3> QED BY <1>3, <2>1, <2>4, <3>1
  <2> QED BY <2>3, <2>4
<1>4. Wrong = {}
  <2> SUFFICES ASSUME Wrong # {} PROVE FALSE
    OBVIOUS
  <2>0. Wrong \subseteq Nat
    OBVIOUS
  <2> HIDE DEF Wrong, Right
  <2>1. PICK m \in Wrong : \A n \in Wrong : m <= n
    BY <2>0, LeastNumber
  <2>2. m \in 0..Len(s) /\ ~Right(m)
    BY <2>1 DEF Wrong
  <2>3. m - 1 \notin Wrong /\ m # 0
    BY <1>2, <2>1, <2>2
  <2>4. m \in 1..Len(s) /\ m - 1 \in 0..Len(s)
    BY <2>2, <2>3
  <2>5. Right(m - 1)
    BY <2>3, <2>4 DEF Wrong
  <2> QED BY <1>3, <2>2, <2>4, <2>5
<1>5. Right(Len(s))
  <2>1. Len(s) \in 0..Len(s)
    OBVIOUS
  <2> HIDE DEF Right
  <2> QED BY <1>4, <2>1
<1> DEFINE c == ForEach(s, S)
<1>6. /\ c \in Seq(T) /\ Len(c) <= Len(s)
      /\ \A i \in 1..Len(c) : c[i] \in S /\ \E j \in 1..Len(s) : c[i] = s[j]
      /\ \A j \in 1..Len(s) : s[j] \in S => \E i \in 1..Len(c) : c[i] = s[j]
      /\ (\A j \in 1..Len(s) : s[j] \in S) =>
           Len(c) = Len(s) /\ \A j \in 1..Len(s) : c[j] = s[j]
      /\ (\E j \in 1..Len(s) : s[j] \notin S) => Len(c) < Len(s)
  BY <1>1, <1>5, ZenonT(60)
<1> HIDE DEF c
<1>7. DOMAIN c = 1..Len(c) /\ DOMAIN s = 1..Len(s)
  BY <1>6
<1>8. ToSet(c) = ToSet(s) \cap S
  <2>1. ASSUME NEW i \in DOMAIN c
        PROVE  c[i] \in ToSet(s) /\ c[i] \in S
    <3>1. c[i] \in S /\ \E j \in DOMAIN s : c[i] = s[j]
      BY <1>6, <1>7, <2>1
    <3> QED BY <3>1 DEF ToSet
  <2>2. ASSUME NEW j \in DOMAIN s, s[j] \in S
        PROVE  s[j] \in ToSet(c)
    BY <1>6, <1>7, <2>2 DEF ToSet
  <2> QED BY <2>1, <2>2 DEF ToSet
<1>9. ToSet(s) \subseteq S => c = s
  <2> SUFFICES ASSUME ToSet(s) \subseteq S PROVE c = s
    OBVIOUS
  <2>1. Len(c) = Len(s) /\ \A j \in 1..Len(s) : c[j] = s[j]
    BY <1>6, <1>7 DEF ToSet
  <2>2. c = [i \in 1..Len(c) |-> c[i]] /\ s = [i \in 1..Len(s) |-> s[i]]
    BY <1>6
  <2> HIDE DEF c
  <2> QED BY <2>1, <2>2
<1>10. ~(ToSet(s) \subseteq S) => Len(c) < Len(s)
  BY <1>6, <1>7 DEF ToSet
<1> QED BY <1>6, <1>8, <1>9, <1>10 DEF c

-----------------------------------------------------------------------------
(* What is known of the declarations of a release.                         *)
Declares(r) ==
  \A m \in Models : IsDeclaration(r[m]) /\ \A f \in ToSet(r[m].refers) : f.model \in Models

LEMMA ReleasesDeclare == ASSUME NEW r \in Releases PROVE Declares(r)
  BY SchemaAssumption DEF Declares

(* get_fields() and get_keys() in terms of the declaration.                *)
LEMMA FieldsAndKeys ==
  ASSUME NEW d, IsDeclaration(d)
  PROVE  /\ ToSet(GetFields(d)) = {f \in ToSet(d.fields) : ~f.ignore}
         /\ ToSet(FieldNames(d)) = {f.name : f \in ToSet(d.fields)}
         /\ Len(GetKeys(d)) \in Nat /\ Len(GetKeys(d)) <= Len(d.keys)
         /\ (\A key \in ToSet(d.keys) : \E f \in ToSet(d.fields) : f.name = key /\ ~f.ignore)
              => GetKeys(d) = d.keys
         /\ Len(GetKeys(d)) = Len(d.keys) => GetKeys(d) = d.keys
<1>1. ToSet(GetFields(d)) = {f \in ToSet(d.fields) : ~f.ignore}
  <2>1. ToSet(GetFields(d)) = ToSet(d.fields) \cap {f \in ToSet(d.fields) : ~f.ignore}
    BY ForEachCalls DEF IsDeclaration, GetFields
  <2> QED BY <2>1
<1>2. ToSet(FieldNames(d)) = {f.name : f \in ToSet(d.fields)}
  BY DEF FieldNames, ToSet
<1> DEFINE names == {f.name : f \in ToSet(GetFields(d))}
<1>3. /\ ForEach(d.keys, names) \in Seq(ToSet(d.keys))
      /\ Len(ForEach(d.keys, names)) <= Len(d.keys)
      /\ ToSet(d.keys) \subseteq names => ForEach(d.keys, names) = d.keys
      /\ ~(ToSet(d.keys) \subseteq names) => Len(ForEach(d.keys, names)) < Len(d.keys)
  BY ForEachCalls DEF IsDeclaration
<1>4. GetKeys(d) = ForEach(d.keys, names) /\ Len(d.keys) \in Nat
  BY DEF GetKeys, IsDeclaration
<1>5. Len(GetKeys(d)) \in Nat
  BY <1>3, <1>4
<1>6. (\A key \in ToSet(d.keys) : \E f \in ToSet(d.fields) : f.name = key /\ ~f.ignore)
        => ToSet(d.keys) \subseteq names
  BY <1>1
<1> HIDE DEF names
<1> QED BY <1>1, <1>2, <1>3, <1>4, <1>5, <1>6

(* Two fields of one name are one when no name appears twice.              *)
LEMMA FieldsByName ==
  ASSUME NEW d, Single(FieldNames(d)),
         NEW f \in ToSet(d.fields), NEW g \in ToSet(d.fields), f.name = g.name
  PROVE  f = g
  BY DEF Single, FieldNames, ToSet

(* What sort and unique look for, and what the interface means.            *)
LEMMA SingleNames ==
  ASSUME NEW names, DOMAIN names \subseteq Nat, Single(names)
  PROVE  ~Duplicated(names)
<1> SUFFICES ASSUME NEW i \in DOMAIN names, NEW j \in DOMAIN names, i < j,
                    names[i] = names[j]
             PROVE  FALSE
  BY DEF Duplicated
<1>1. i = j
  BY DEF Single
<1> QED BY <1>1

(* A consistent declaration whose names are not misread passes the checks  *)
(* of create_ddl.                                                          *)
LEMMA ConsistentDdl ==
  ASSUME NEW d, IsDeclaration(d), Consistent(d)
  PROVE  ~DdlThrows(d, FALSE)
<1>1. ~ConstructorsThrow(d, FALSE)
  <2>1. DOMAIN d.keys \subseteq Nat /\ DOMAIN FieldNames(d) \subseteq Nat
        /\ DOMAIN ReferNames(d) \subseteq Nat
    BY DEF IsDeclaration, FieldNames, ReferNames
  <2> QED BY <2>1, SingleNames DEF Consistent, ConstructorsThrow, NameLists
<1>2. ~DefaultThrows(d)
  BY DEF Consistent, DefaultThrows
<1>3. ~GetKeysThrows(d)
  BY FieldsAndKeys DEF Consistent, GetKeysThrows, HasField
<1>4. ~NullableKeyThrows(d)
  <2> SUFFICES ASSUME NEW f \in ToSet(d.fields), f.nullable, f.name \in ToSet(d.keys)
               PROVE  FALSE
    BY FieldsAndKeys DEF NullableKeyThrows
  <2>1. PICK g \in ToSet(d.fields) : g.name = f.name /\ Key(g, d)
    BY DEF Consistent
  <2>2. f = g
    BY <2>1, FieldsByName DEF Consistent
  <2> QED BY <2>1, <2>2 DEF Key
<1>5. ~SerialThrows(d)
  <2> SUFFICES ASSUME NEW f \in ToSet(d.fields), f.serial PROVE Len(d.keys) = 1
    BY DEF SerialThrows, Serials
  <2>1. d.keys = <<f.name>>
    BY DEF Consistent
  <2> QED BY <2>1
<1>6. ~RefersThrow(d)
  <2> SUFFICES ASSUME NEW r \in ToSet(d.refers) PROVE ~GetKeysThrows(Of(r.model))
    BY DEF RefersThrow
  <2>1. PICK f \in ToSet(Of(r.model).fields) : Of(r.model).keys = <<f.name>>
    BY DEF Consistent
  <2>2. \A key \in ToSet(Of(r.model).keys) : key = f.name
    BY <2>1 DEF ToSet
  <2>3. f.name \in ToSet(FieldNames(Of(r.model)))
    BY DEF FieldNames, ToSet
  <2> QED BY <2>2, <2>3 DEF GetKeysThrows, HasField
<1> QED BY <1>1, <1>2, <1>3, <1>4, <1>5, <1>6 DEF DdlThrows

(* SQLite understands what create_ddl writes for it, and accepts it.       *)
LEMMA ConsistentTable ==
  ASSUME NEW d, IsDeclaration(d), Consistent(d),
         \A r \in ToSet(d.refers) : IsDeclaration(Of(r.model))
  PROVE  ~SyntaxError(d) /\ ~Refuses(d)
<1>1. GetKeys(d) = d.keys
  BY FieldsAndKeys DEF Consistent, Key
<1>2. ASSUME NEW r \in ToSet(d.refers)
      PROVE  ~(Len(GetKeys(Of(r.model))) > 1)
  <2>1. Len(Of(r.model).keys) = 1
    <3>1. PICK f \in ToSet(Of(r.model).fields) : Of(r.model).keys = <<f.name>>
      BY <1>2 DEF Consistent
    <3> QED BY <3>1
  <2>2. Len(GetKeys(Of(r.model))) \in Nat
        /\ Len(GetKeys(Of(r.model))) <= Len(Of(r.model).keys)
    BY FieldsAndKeys
  <2> QED BY <2>1, <2>2
<1>3. ASSUME NEW i \in DOMAIN d.fields, NEW j \in DOMAIN d.fields, i < j,
             d.fields[i].serial, d.fields[j].serial
      PROVE  FALSE
  <2>1. d.fields[i] \in ToSet(d.fields) /\ d.fields[j] \in ToSet(d.fields)
    BY DEF ToSet
  <2>2. d.keys = <<d.fields[i].name>> /\ d.keys = <<d.fields[j].name>>
    BY <1>3, <2>1 DEF Consistent
  <2>3. d.fields[i].name = d.fields[j].name
    BY <2>2
  <2>4. i = j
    BY <2>3 DEF Consistent, Single, FieldNames
  <2> QED BY <1>3, <2>4 DEF IsDeclaration
<1>4. \A r \in ToSet(d.refers) : HasField(d, r.name)
  BY DEF Consistent, HasField
<1>5. ~Duplicated(FieldNames(d))
  <2>1. DOMAIN FieldNames(d) \subseteq Nat
    BY DEF IsDeclaration, FieldNames
  <2> QED BY <2>1, SingleNames DEF Consistent
<1>6. d.fields # <<>>
  BY DEF Consistent
<1> QED BY <1>1, <1>2, <1>3, <1>4, <1>5, <1>6 DEF SyntaxError, Refuses

-----------------------------------------------------------------------------
TypeOK ==
  /\ release \in Releases \cup {NoRelease}
  /\ at \in 0..(Len(Order) + 1)
  /\ failed \in Models \cup {NoModel}
  /\ starts \in 0..MaxStarts
  /\ misread \in BOOLEAN
  /\ file = [m \in Models |-> file[m]] /\ made = [m \in Models |-> made[m]]

(* Only a release that was started constructs, or has failed.              *)
ReleaseInv == at # 0 \/ failed # NoModel => release \in Releases

(* A table is the one of the release that made it.                         *)
TableInv ==
  \A m \in Models : file[m] # NoTable =>
    /\ \E r \in Releases : made[m] = r[m]
    /\ file[m] = Table(made[m])

(* The constructor has dealt with the tables before the one that is next.  *)
PassedInv == \A i \in DOMAIN Order : i < at => file[Order[i]] # NoTable

IInv == TypeOK /\ ReleaseInv /\ TableInv /\ PassedInv /\ NoFailureIfConsistent

LEMMA OrderIsOfModels ==
  /\ Len(Order) \in Nat /\ DOMAIN Order = 1..Len(Order)
  /\ \A i \in DOMAIN Order : Order[i] \in Models
  /\ \A m \in Models : \E i \in DOMAIN Order : Order[i] = m
  BY SchemaAssumption DEF ToSet

LEMMA InitInv == Init => IInv
<1> SUFFICES ASSUME Init PROVE IInv
  OBVIOUS
<1>1. misread \in BOOLEAN
  BY DEF Init
<1>2. /\ release = NoRelease /\ at = 0 /\ failed = NoModel /\ starts = 0
      /\ file = [m \in Models |-> NoTable] /\ made = [m \in Models |-> NoTable]
  BY DEF Init
<1>3. TypeOK
  BY <1>1, <1>2, SchemaAssumption, OrderIsOfModels DEF TypeOK
<1>4. ReleaseInv /\ TableInv /\ PassedInv /\ NoFailureIfConsistent
  BY <1>2, OrderIsOfModels DEF ReleaseInv, TableInv, PassedInv, NoFailureIfConsistent
<1> QED BY <1>3, <1>4 DEF IInv

USE DEF IInv

(* The next release finds the tables as they are.                          *)
LEMMA StartKeeps ==
  ASSUME IInv, NEW r \in Releases, Start(r)
  PROVE  IInv'
<1> USE DEF Start
<1>1. TypeOK'
  <2>1. misread' \in BOOLEAN
    OBVIOUS
  <2>2. /\ release' = r /\ at' = 1 /\ failed' = NoModel /\ starts' = starts + 1
        /\ starts < MaxStarts /\ UNCHANGED <<file, made>>
    OBVIOUS
  <2> HIDE DEF Start
  <2> QED BY <2>1, <2>2, SchemaAssumption, OrderIsOfModels DEF TypeOK
<1>2. ReleaseInv' /\ TableInv'
  BY DEF ReleaseInv, TableInv
<1>4. NoFailureIfConsistent'
  <2>1. failed' = NoModel
    OBVIOUS
  <2> QED BY <2>1 DEF NoFailureIfConsistent
<1>3. PassedInv'
  BY OrderIsOfModels DEF PassedInv
<1> QED BY <1>1, <1>2, <1>3, <1>4

(* The table is made unless there is one of that name.                     *)
LEMMA CreateTableKeeps ==
  ASSUME IInv, NEW wrong \in BOOLEAN, CreateTable(wrong)
  PROVE  IInv'
<1> USE DEF CreateTable, Creating
<1> DEFINE m == Order[at]
<1>1. m \in Models /\ release \in Releases /\ at \in Nat /\ at' = at + 1
      /\ at \in 1..Len(Order)
  BY OrderIsOfModels DEF ReleaseInv
<1>2. \A n \in Models \ {m} : file'[n] = file[n] /\ made'[n] = made[n]
  BY DEF TypeOK
<1>3. CASE file[m] # NoTable
  <2>1. TypeOK'
    BY <1>1, <1>3, OrderIsOfModels DEF TypeOK
  <2>2. ReleaseInv' /\ TableInv' /\ NoFailureIfConsistent'
    BY <1>1, <1>3 DEF ReleaseInv, TableInv, NoFailureIfConsistent, Consistent, Of
  <2>3. PassedInv'
    BY <1>1, <1>3, OrderIsOfModels DEF PassedInv
  <2> QED BY <2>1, <2>2, <2>3
<1>4. CASE file[m] = NoTable
  <2>1. file'[m] = Table(Of(m)) /\ made'[m] = Of(m) /\ Of(m) = release[m]
    BY <1>1, <1>4 DEF TypeOK, Of
  <2>2. Table(Of(m)) # NoTable
    BY <1>1, <2>1, NoTableAssumption
  <2>3. TypeOK'
    BY <1>1, <1>4, OrderIsOfModels DEF TypeOK
  <2>5. ReleaseInv' /\ NoFailureIfConsistent'
    BY <1>1 DEF ReleaseInv, NoFailureIfConsistent, Consistent, Of
  <2>6. TableInv'
    BY <1>1, <1>2, <2>1 DEF TableInv
  <2>7. PassedInv'
    BY <1>1, <1>2, <2>1, <2>2, OrderIsOfModels DEF PassedInv
  <2> QED BY <2>3, <2>5, <2>6, <2>7
<1> QED BY <1>3, <1>4

(* The declaration is to blame for what the constructor throws, unless it  *)
(* was misread.                                                            *)
LEMMA CreationThrowsKeeps ==
  ASSUME IInv, NEW wrong \in BOOLEAN, CreationThrows(wrong)
  PROVE  IInv'
<1> USE DEF CreationThrows, Creating
<1> DEFINE m == Order[at]
<1>1. m \in Models /\ release \in Releases
  BY OrderIsOfModels DEF ReleaseInv
<1>2. TypeOK' /\ ReleaseInv' /\ TableInv'
  BY <1>1, OrderIsOfModels DEF TypeOK, ReleaseInv, TableInv
<1>3. PassedInv'
  BY OrderIsOfModels DEF PassedInv
<1>4. ~wrong => ~Consistent(Of(m))
  <2> SUFFICES ASSUME wrong = FALSE, Consistent(Of(m)) PROVE FALSE
    OBVIOUS
  <2>1. IsDeclaration(Of(m)) /\ \A r \in ToSet(Of(m).refers) : IsDeclaration(Of(r.model))
    BY <1>1, ReleasesDeclare DEF Declares, Of
  <2> QED BY <2>1, ConsistentDdl, ConsistentTable DEF CreateThrows
<1>5. NoFailureIfConsistent'
  BY <1>4 DEF NoFailureIfConsistent, Consistent, Of
<1> QED BY <1>2, <1>3, <1>5

LEMMA StopKeeps ==
  ASSUME IInv, Stop
  PROVE  IInv'
<1> USE DEF Stop
<1>1. TypeOK' /\ ReleaseInv' /\ TableInv'
  BY OrderIsOfModels DEF TypeOK, ReleaseInv, TableInv
<1>2. PassedInv'
  BY OrderIsOfModels DEF PassedInv
<1>3. NoFailureIfConsistent'
  BY DEF NoFailureIfConsistent, Consistent, Of
<1> QED BY <1>1, <1>2, <1>3

LEMMA NextInv == IInv /\ [Next]_vars => IInv'
<1> SUFFICES ASSUME IInv, [Next]_vars PROVE IInv'
  OBVIOUS
<1>1. Startable \subseteq Releases
  BY SchemaAssumption DEF Startable
<1>2. CASE UNCHANGED vars
  BY <1>2
     DEF vars, TypeOK, ReleaseInv, TableInv, PassedInv, NoFailureIfConsistent, Consistent, Of
<1> HIDE DEF IInv
<1> QED BY <1>1, <1>2, StartKeeps, CreateTableKeeps, CreationThrowsKeeps, StopKeeps DEF Next

-----------------------------------------------------------------------------
(* Type correctness.                                                       *)
THEOREM TypeCorrect == Spec => []TypeOK
  BY InitInv, NextInv, PTL DEF Spec

(* With a consistent declaration the constructor fails only when it        *)
(* misreads the names.                                                     *)
THEOREM ConsistentIsConstructed == Spec => []NoFailureIfConsistent
  BY InitInv, NextInv, PTL DEF Spec

(* After the constructor each table is there, and is what the release that *)
(* made it declared.                                                       *)
LEMMA ConstructedTables ==
  ASSUME IInv, Constructed, NEW m \in Models
  PROVE  /\ file[m] # NoTable /\ file[m] = Table(made[m])
         /\ IsDeclaration(Of(m))
<1>1. PICK i \in DOMAIN Order : Order[i] = m
  BY OrderIsOfModels
<1>2. file[m] # NoTable
  BY <1>1, OrderIsOfModels DEF Constructed, PassedInv
<1>3. release \in Releases
  BY OrderIsOfModels DEF Constructed, ReleaseInv
<1> QED BY <1>2, <1>3, ReleasesDeclare DEF TableInv, Declares, Of

(* The statements that insert() writes fit the tables of their release.    *)
THEOREM InsertsFit == Spec => []InsertFits
<1>1. IInv => InsertFits
  <2> SUFFICES ASSUME IInv, Constructed, NEW m \in Models
               PROVE  /\ file[m] # NoTable
                      /\ SameDeclaration(m) =>
                           {f.name : f \in ToSet(GetFields(Of(m)))} \subseteq file[m].columns
    BY DEF InsertFits
  <2>1. /\ file[m] # NoTable /\ file[m] = Table(made[m])
        /\ IsDeclaration(Of(m))
    BY ConstructedTables
  <2>2. /\ ToSet(GetFields(Of(m))) = {f \in ToSet(Of(m).fields) : ~f.ignore}
        /\ ToSet(FieldNames(Of(m))) = {f.name : f \in ToSet(Of(m).fields)}
    BY <2>1, FieldsAndKeys
  <2>3. SameDeclaration(m) => file[m].columns = ToSet(FieldNames(Of(m)))
    BY <2>1 DEF SameDeclaration, Table
  <2> QED BY <2>1, <2>2, <2>3
<1> QED BY <1>1, InitInv, NextInv, PTL DEF Spec

-----------------------------------------------------------------------------
(* From here on Joins: lists of columns and conditions, one after the      *)
(* other.  What FlattenSeq computes, and that it is defined.               *)
Grown(f, ss, i) == IF i = 1 THEN ss[i] ELSE f[i - 1] \o ss[i]

Grows(f, ss, m) == f = [i \in 1..m |-> Grown(f, ss, i)]

LEMMA GrowthIsDefined ==
  ASSUME NEW ss, NEW m \in Nat
  PROVE  \E f : Grows(f, ss, m)
<1> DEFINE Missing == {n \in Nat : \A f : ~Grows(f, ss, n)}
<1>1. ASSUME NEW n \in Nat \ {0}, NEW f, Grows(f, ss, n - 1)
      PROVE  Grows([i \in 1..n |-> IF i = n THEN Grown(f, ss, n) ELSE f[i]], ss, n)
  <2> DEFINE g == [i \in 1..n |-> IF i = n THEN Grown(f, ss, n) ELSE f[i]]
  <2>1. \A i \in 1..n : i # 1 => i - 1 \in 1..n /\ i - 1 # n
    OBVIOUS
  <2>2. ASSUME NEW i \in 1..n
        PROVE  Grown(g, ss, i) = Grown(f, ss, i)
    BY <2>1 DEF Grown
  <2>3. ASSUME NEW i \in 1..n, i # n
        PROVE  g[i] = Grown(f, ss, i)
    <3>1. i \in 1..(n - 1)
      BY <2>3
    <3>2. f[i] = Grown(f, ss, i)
      BY <1>1, <3>1 DEF Grows
    <3> QED BY <2>3, <3>2
  <2>4. \A i \in 1..n : g[i] = Grown(g, ss, i)
    BY <2>2, <2>3
  <2>5. g = [i \in 1..n |-> g[i]]
    OBVIOUS
  <2> HIDE DEF g
  <2>6. Grows(g, ss, n)
    BY <2>4, <2>5 DEF Grows
  <2> QED BY <2>6 DEF g
<1>2. Grows([i \in 1..0 |-> <<>>], ss, 0)
  BY DEF Grows
<1>3. Missing = {}
  <2> SUFFICES ASSUME Missing # {} PROVE FALSE
    OBVIOUS
  <2>0. Missing \subseteq Nat
    OBVIOUS
  <2> HIDE DEF Missing
  <2>1. PICK n \in Missing : \A k \in Missing : n <= k
    BY <2>0, LeastNumber
  <2> USE DEF Missing
  <2>2. n \in Nat \ {0}
    BY <1>2, <2>1
  <2>3. n - 1 \in Nat /\ n - 1 \notin Missing
    BY <2>1, <2>2
  <2>4. PICK f : Grows(f, ss, n - 1)
    BY <2>3
  <2>5. ~\E g : Grows(g, ss, n)
    BY <2>1
  <2> HIDE DEF Missing
  <2> QED BY <1>1, <2>2, <2>4, <2>5
<1> QED BY <1>3

LEMMA GrowthIsUnique ==
  ASSUME NEW ss, NEW m \in Nat, NEW n \in Nat, m <= n,
         NEW f, Grows(f, ss, m), NEW g, Grows(g, ss, n)
  PROVE  \A i \in 1..m : f[i] = g[i]
<1> DEFINE Other == {i \in 1..m : f[i] # g[i]}
<1> SUFFICES ASSUME Other # {} PROVE FALSE
  OBVIOUS
<1>0. Other \subseteq Nat
  OBVIOUS
<1> HIDE DEF Other
<1>1. PICK i \in Other : \A k \in Other : i <= k
  BY <1>0, LeastNumber
<1>2. i \in 1..m /\ i \in 1..n /\ f[i] # g[i]
  BY <1>1 DEF Other
<1>3. f[i] = Grown(f, ss, i) /\ g[i] = Grown(g, ss, i)
  BY <1>2 DEF Grows
<1>4. i # 1
  BY <1>2, <1>3 DEF Grown
<1>5. i - 1 \in 1..m /\ i - 1 \notin Other
  BY <1>0, <1>1, <1>2, <1>4
<1>6. f[i - 1] = g[i - 1]
  BY <1>5 DEF Other
<1> QED BY <1>2, <1>3, <1>4, <1>6 DEF Grown

(* The first n sequences of ss, one after the other.                       *)
First(ss, n) == FlattenSeq([j \in 1..n |-> ss[j]])

LEMMA FirstGrows ==
  ASSUME NEW ss, NEW m \in Nat \ {0}
  PROVE  \E f : Grows(f, ss, m) /\ First(ss, m) = f[m]
<1> DEFINE s == [j \in 1..m |-> ss[j]]
           Wanted(f) == f = [i \in 1..Len(s) |-> IF i = 1 THEN s[i] ELSE f[i - 1] \o s[i]]
           f == CHOOSE f : Wanted(f)
<1>1. Len(s) = m
  OBVIOUS
<1>2. ASSUME NEW g
      PROVE  Wanted(g) <=> Grows(g, ss, m)
  <2>1. [i \in 1..Len(s) |-> IF i = 1 THEN s[i] ELSE g[i - 1] \o s[i]]
          = [i \in 1..m |-> Grown(g, ss, i)]
    <3>1. \A i \in 1..m : (IF i = 1 THEN s[i] ELSE g[i - 1] \o s[i]) = Grown(g, ss, i)
      BY DEF Grown
    <3> HIDE DEF s
    <3> QED BY <1>1, <3>1
  <2> HIDE DEF s
  <2> QED BY <2>1 DEF Grows
<1> HIDE DEF Wanted
<1>3. \E g : Wanted(g)
  BY <1>2, GrowthIsDefined
<1>4. Wanted(f)
  BY <1>3
<1> HIDE DEF f
<1>5. Grows(f, ss, m)
  BY <1>2, <1>4
<1>6. FlattenSeq(s) = f[m]
  BY <1>1 DEF f, Wanted, FlattenSeq
<1> QED BY <1>5, <1>6 DEF First

LEMMA FirstAndNext ==
  ASSUME NEW T, NEW n \in Nat, NEW ss, ss[n + 1] \in Seq(T)
  PROVE  First(ss, 0) = <<>> /\ First(ss, n + 1) = First(ss, n) \o ss[n + 1]
<1>1. First(ss, 0) = <<>>
  BY DEF First, FlattenSeq
<1>2. PICK g : Grows(g, ss, n + 1) /\ First(ss, n + 1) = g[n + 1]
  BY FirstGrows
<1>3. g[n + 1] = Grown(g, ss, n + 1)
  BY <1>2 DEF Grows
<1>4. CASE n = 0
  <2>1. First(ss, 1) = ss[1]
    BY <1>2, <1>3, <1>4 DEF Grown
  <2> QED BY <1>1, <1>4, <2>1
<1>5. CASE n # 0
  <2>1. PICK f : Grows(f, ss, n) /\ First(ss, n) = f[n]
    BY <1>5, FirstGrows
  <2>2. f[n] = g[n]
    <3>1. n \in 1..n /\ n <= n + 1 /\ n + 1 \in Nat
      BY <1>5
    <3> QED BY <1>2, <2>1, <3>1, GrowthIsUnique
  <2>3. g[n + 1] = g[n] \o ss[n + 1]
    <3>1. n + 1 # 1 /\ (n + 1) - 1 = n
      BY <1>5
    <3> QED BY <1>3, <3>1 DEF Grown
  <2> QED BY <1>1, <1>2, <2>1, <2>2, <2>3
<1> QED BY <1>4, <1>5

(* Where the elements of the sequences are in the flattened one.           *)
Begins(ss, i) == Len(First(ss, i - 1))

Placed(T, ss, n) ==
  /\ First(ss, n) \in Seq(T)
  /\ \A i \in 1..n : \A k \in 1..Len(ss[i]) :
       /\ Begins(ss, i) \in Nat /\ Begins(ss, i) + k \in 1..Len(First(ss, n))
       /\ First(ss, n)[Begins(ss, i) + k] = ss[i][k]
  /\ \A p \in 1..Len(First(ss, n)) :
       \E i \in 1..n : \E k \in 1..Len(ss[i]) : p = Begins(ss, i) + k

LEMMA NextIsPlaced ==
  ASSUME NEW T, NEW n \in Nat, NEW ss, ss[n + 1] \in Seq(T), Placed(T, ss, n)
  PROVE  Placed(T, ss, n + 1)
<1> DEFINE a == First(ss, n)
           b == ss[n + 1]
           c == First(ss, n + 1)
<1>1. a \in Seq(T) /\ b \in Seq(T) /\ c = a \o b
  BY FirstAndNext DEF Placed
<1>2. /\ c \in Seq(T) /\ Len(a) \in Nat /\ Len(b) \in Nat /\ Len(c) = Len(a) + Len(b)
      /\ \A p \in 1..Len(a) : c[p] = a[p]
      /\ \A k \in 1..Len(b) : c[Len(a) + k] = b[k]
  <2> HIDE DEF a, b, c
  <2> QED BY <1>1
<1>3. /\ Begins(ss, n + 1) = Len(a)
      /\ \A i \in 1..(n + 1) : i = n + 1 \/ i \in 1..n
      /\ 1..n \subseteq 1..(n + 1) /\ n + 1 \in 1..(n + 1)
  <2>1. (n + 1) - 1 = n
    OBVIOUS
  <2> QED BY <2>1 DEF Begins
<1> HIDE DEF a, b, c
<1>4. ASSUME NEW i \in 1..(n + 1), NEW k \in 1..Len(ss[i])
      PROVE  /\ Begins(ss, i) \in Nat /\ Begins(ss, i) + k \in 1..Len(c)
             /\ c[Begins(ss, i) + k] = ss[i][k]
  <2>1. CASE i = n + 1
    <3>1. ss[i] = b /\ Begins(ss, i) = Len(a)
      BY <1>3, <2>1 DEF b
    <3>2. k \in 1..Len(b)
      BY <1>4, <3>1
    <3> QED BY <1>2, <3>1, <3>2
  <2>2. CASE i \in 1..n
    <3>1. /\ Begins(ss, i) \in Nat /\ Begins(ss, i) + k \in 1..Len(a)
          /\ a[Begins(ss, i) + k] = ss[i][k]
      BY <1>4, <2>2 DEF Placed, a
    <3> QED BY <1>2, <3>1
  <2> QED BY <1>3, <2>1, <2>2
<1>5. ASSUME NEW p \in 1..Len(c)
      PROVE  \E i \in 1..(n + 1) : \E k \in 1..Len(ss[i]) : p = Begins(ss, i) + k
  <2>1. CASE p \in 1..Len(a)
    <3>1. \E i \in 1..n : \E k \in 1..Len(ss[i]) : p = Begins(ss, i) + k
      BY <2>1 DEF Placed, a
    <3> QED BY <1>3, <3>1
  <2>2. CASE p \notin 1..Len(a)
    <3>1. p - Len(a) \in 1..Len(b) /\ p = Len(a) + (p - Len(a))
      BY <1>2, <2>2
    <3> QED BY <1>3, <3>1 DEF b
  <2> QED BY <2>1, <2>2
<1> QED BY <1>2, <1>4, <1>5 DEF Placed, c

LEMMA FirstIsPlaced ==
  ASSUME NEW T, NEW n \in Nat, NEW ss, \A i \in 1..n : ss[i] \in Seq(T)
  PROVE  \A m \in 0..n : Placed(T, ss, m)
<1> DEFINE Wrong == {m \in 0..n : ~Placed(T, ss, m)}
<1> SUFFICES ASSUME Wrong # {} PROVE FALSE
  OBVIOUS
<1>0. Wrong \subseteq Nat
  OBVIOUS
<1> HIDE DEF Wrong
<1>1. PICK m \in Wrong : \A k \in Wrong : m <= k
  BY <1>0, LeastNumber
<1>2. m \in 0..n /\ ~Placed(T, ss, m)
  BY <1>1 DEF Wrong
<1>3. m # 0
  <2>1. First(ss, 0) = <<>>
    BY DEF First, FlattenSeq
  <2>2. <<>> \in Seq(T) /\ 1..Len(<<>>) = {} /\ 1..0 = {}
    OBVIOUS
  <2>3. Placed(T, ss, 0)
    BY <2>1, <2>2, Zenon DEF Placed
  <2> QED BY <1>2, <2>3
<1>4. m - 1 \in Nat /\ m - 1 \in 0..n /\ m - 1 \notin Wrong /\ m \in 1..n /\ (m - 1) + 1 = m
  BY <1>0, <1>1, <1>2, <1>3
<1>5. Placed(T, ss, m - 1)
  BY <1>4 DEF Wrong
<1>6. Placed(T, ss, (m - 1) + 1)
  BY <1>4, <1>5, NextIsPlaced
<1> QED BY <1>2, <1>4, <1>6

LEMMA LengthsAdd ==
  ASSUME NEW T, NEW a \in Seq(T), NEW b \in Seq(T)
  PROVE  Len(a \o b) = Len(a) + Len(b)
  OBVIOUS

(* The place of an element depends on the lengths alone.                   *)
LEMMA SameLengths ==
  ASSUME NEW T, NEW U, NEW n \in Nat, NEW ss, NEW tt,
         \A i \in 1..n : ss[i] \in Seq(T) /\ tt[i] \in Seq(U) /\ Len(ss[i]) = Len(tt[i])
  PROVE  Len(First(ss, n)) = Len(First(tt, n))
<1> DEFINE Wrong == {m \in 0..n : Len(First(ss, m)) # Len(First(tt, m))}
<1> SUFFICES ASSUME Wrong # {} PROVE FALSE
  OBVIOUS
<1>0. Wrong \subseteq Nat
  OBVIOUS
<1> HIDE DEF Wrong
<1>1. PICK m \in Wrong : \A k \in Wrong : m <= k
  BY <1>0, LeastNumber
<1>2. m \in 0..n /\ Len(First(ss, m)) # Len(First(tt, m))
  BY <1>1 DEF Wrong
<1>3. m # 0
  BY <1>2 DEF First, FlattenSeq
<1>4. /\ m - 1 \in Nat /\ m - 1 \in 0..n /\ m - 1 \notin Wrong /\ m \in 1..n
      /\ (m - 1) + 1 = m
  BY <1>0, <1>1, <1>2, <1>3
<1>5. Len(First(ss, m - 1)) = Len(First(tt, m - 1))
  BY <1>4 DEF Wrong
<1>6. First(ss, m - 1) \in Seq(T) /\ First(tt, m - 1) \in Seq(U)
  <2>1. Placed(T, ss, m - 1) /\ Placed(U, tt, m - 1)
    BY <1>4, FirstIsPlaced
  <2> QED BY <2>1 DEF Placed
<1>7. First(ss, m) = First(ss, m - 1) \o ss[m] /\ First(tt, m) = First(tt, m - 1) \o tt[m]
  BY <1>4, FirstAndNext
<1>8. Len(ss[m]) = Len(tt[m]) /\ ss[m] \in Seq(T) /\ tt[m] \in Seq(U)
  BY <1>4
<1> DEFINE a == First(ss, m - 1)
           b == First(tt, m - 1)
           c == ss[m]
           d == tt[m]
<1>9. Len(a \o c) = Len(b \o d)
  <2>1. /\ a \in Seq(T) /\ c \in Seq(T) /\ b \in Seq(U) /\ d \in Seq(U)
        /\ Len(a) = Len(b) /\ Len(c) = Len(d)
    BY <1>5, <1>6, <1>8
  <2> HIDE DEF a, b, c, d
  <2>2. Len(a \o c) = Len(a) + Len(c) /\ Len(b \o d) = Len(b) + Len(d)
    BY <2>1, LengthsAdd
  <2> QED BY <2>1, <2>2
<1> QED BY <1>2, <1>7, <1>9

(* The elements for which it calls back keep their order.                  *)
Ordered(c, s, n) ==
  \E place \in [1..Len(c) -> 1..n] :
    /\ \A i \in 1..Len(c) : c[i] = s[place[i]]
    /\ \A i, j \in 1..Len(c) : i < j => place[i] < place[j]

LEMMA NextIsOrdered ==
  ASSUME NEW T, NEW s, NEW n \in Nat, NEW c \in Seq(T), Ordered(c, s, n), s[n + 1] \in T
  PROVE  Ordered(c, s, n + 1) /\ Ordered(Append(c, s[n + 1]), s, n + 1)
<1>1. PICK it \in [1..Len(c) -> 1..n] :
         /\ \A i \in 1..Len(c) : c[i] = s[it[i]]
         /\ \A i, j \in 1..Len(c) : i < j => it[i] < it[j]
  BY DEF Ordered
<1>2. 1..n \subseteq 1..(n + 1) /\ Len(c) \in Nat
  OBVIOUS
<1>3. Ordered(c, s, n + 1)
  <2>1. it \in [1..Len(c) -> 1..(n + 1)]
    BY <1>2
  <2> QED BY <1>1, <2>1 DEF Ordered
<1> DEFINE d == Append(c, s[n + 1])
           to == [i \in 1..(Len(c) + 1) |-> IF i = Len(c) + 1 THEN n + 1 ELSE it[i]]
<1>4. /\ Len(d) = Len(c) + 1 /\ d[Len(c) + 1] = s[n + 1]
      /\ \A i \in 1..Len(c) : d[i] = c[i]
  OBVIOUS
<1>5. \A i \in 1..(Len(c) + 1) : i = Len(c) + 1 \/ i \in 1..Len(c)
  BY <1>2
<1>6. /\ to[Len(c) + 1] = n + 1
      /\ \A i \in 1..Len(c) : to[i] = it[i] /\ it[i] \in 1..n
      /\ to \in [1..Len(d) -> 1..(n + 1)]
  <2>1. \A i \in 1..Len(c) : it[i] \in 1..n
    OBVIOUS
  <2>2. \A i \in 1..Len(c) : i \in 1..(Len(c) + 1) /\ i # Len(c) + 1
    BY <1>2
  <2>3. \A i \in 1..(Len(c) + 1) : to[i] \in 1..(n + 1)
    BY <1>2, <1>5, <2>1, <2>2
  <2> HIDE DEF d
  <2> QED BY <1>2, <1>4, <2>1, <2>2, <2>3
<1> HIDE DEF d, to
<1>7. \A i \in 1..Len(d) : d[i] = s[to[i]]
  BY <1>1, <1>4, <1>5, <1>6
<1>8. \A i, j \in 1..Len(d) : i < j => to[i] < to[j]
  <2> SUFFICES ASSUME NEW i \in 1..Len(d), NEW j \in 1..Len(d), i < j
               PROVE  to[i] < to[j]
    OBVIOUS
  <2>1. i \in 1..Len(c)
    BY <1>2, <1>4
  <2>2. CASE j = Len(c) + 1
    BY <1>6, <2>1, <2>2
  <2>3. CASE j \in 1..Len(c)
    BY <1>1, <1>6, <2>1, <2>3
  <2> QED BY <1>4, <1>5, <2>2, <2>3
<1>9. Ordered(d, s, n + 1)
  BY <1>6, <1>7, <1>8 DEF Ordered
<1> QED BY <1>3, <1>9 DEF d

LEMMA ForEachKeepsOrder ==
  ASSUME NEW T, NEW s \in Seq(T), NEW S
  PROVE  Ordered(ForEach(s, S), s, Len(s))
<1>1. PICK f : /\ f = [n \in 0..Len(s) |-> Called(f, s, S, n)]
               /\ ForEach(s, S) = f[Len(s)]
  BY ForEachIsDefined
<1> DEFINE Right(n) == f[n] \in Seq(T) /\ Ordered(f[n], s, n)
           Wrong == {n \in 0..Len(s) : ~Right(n)}
<1>2. Right(0)
  <2>1. f[0] = <<>>
    BY <1>1 DEF Called
  <2>2. Len(<<>>) = 0 /\ <<>> \in Seq(T)
    OBVIOUS
  <2>3. Ordered(<<>>, s, 0)
    <3> DEFINE none == [i \in 1..0 |-> i]
    <3>1. none \in [1..Len(<<>>) -> 1..0]
      OBVIOUS
    <3>2. 1..Len(<<>>) = {}
      OBVIOUS
    <3> HIDE DEF none
    <3> QED BY <3>1, <3>2 DEF Ordered
  <2> QED BY <2>1, <2>2, <2>3
<1>3. ASSUME NEW n \in 0..Len(s), n # Len(s), Right(n)
      PROVE  Right(n + 1)
  <2>1. n + 1 \in 0..Len(s) /\ n + 1 # 0 /\ (n + 1) - 1 = n /\ s[n + 1] \in T /\ n \in Nat
    BY <1>3
  <2>2. f[n + 1] = IF s[n + 1] \in S THEN Append(f[n], s[n + 1]) ELSE f[n]
    BY <1>1, <2>1 DEF Called
  <2>3. Append(f[n], s[n + 1]) \in Seq(T)
    BY <1>3, <2>1
  <2>4. Ordered(f[n], s, n + 1) /\ Ordered(Append(f[n], s[n + 1]), s, n + 1)
    BY <1>3, <2>1, NextIsOrdered
  <2> QED BY <1>3, <2>2, <2>3, <2>4
<1>4. Wrong = {}
  <2> SUFFICES ASSUME Wrong # {} PROVE FALSE
    OBVIOUS
  <2>0. Wrong \subseteq Nat
    OBVIOUS
  <2> HIDE DEF Wrong, Right
  <2>1. PICK m \in Wrong : \A n \in Wrong : m <= n
    BY <2>0, LeastNumber
  <2>2. m \in 0..Len(s) /\ ~Right(m)
    BY <2>1 DEF Wrong
  <2>3. m # 0
    BY <1>2, <2>2
  <2>4. m - 1 \in 0..Len(s) /\ m - 1 # Len(s) /\ (m - 1) + 1 = m /\ m - 1 \notin Wrong
    BY <2>0, <2>1, <2>2, <2>3
  <2>5. Right(m - 1)
    BY <2>4 DEF Wrong
  <2>6. Right((m - 1) + 1)
    BY <1>3, <2>4, <2>5
  <2> QED BY <2>2, <2>4, <2>6
<1>5. Len(s) \in 0..Len(s)
  OBVIOUS
<1> HIDE DEF Right
<1>6. Right(Len(s))
  BY <1>4, <1>5
<1> QED BY <1>1, <1>6 DEF Right

(* A sequence without duplicates is as long as it has elements.            *)
LEMMA LengthIsCardinality ==
  ASSUME NEW T, NEW s \in Seq(T), ~Duplicated(s)
  PROVE  IsFiniteSet(ToSet(s)) /\ Cardinality(ToSet(s)) = Len(s)
<1>1. Len(s) \in Nat /\ DOMAIN s = 1..Len(s)
  OBVIOUS
<1>2. \A i, j \in 1..Len(s) : s[i] = s[j] => i = j
  BY <1>1 DEF Duplicated
<1>3. s \in Bijection(1..Len(s), ToSet(s))
  <2>1. s \in [1..Len(s) -> ToSet(s)]
    BY <1>1 DEF ToSet
  <2>2. \A t \in ToSet(s) : \E i \in 1..Len(s) : s[i] = t
    BY <1>1 DEF ToSet
  <2> QED BY <1>2, <2>1, <2>2 DEF Bijection, Injection, Surjection, IsInjective
<1>4. ExistsBijection(1..Len(s), ToSet(s))
  BY <1>3 DEF ExistsBijection
<1> QED BY <1>1, <1>4, FS_CountingElements, FS_NatBijection

LEMMA OrderedIsSingle ==
  ASSUME NEW T, NEW s \in Seq(T), NEW c \in Seq(T), Ordered(c, s, Len(s)), ~Duplicated(s)
  PROVE  ~Duplicated(c)
<1> SUFFICES ASSUME NEW i \in 1..Len(c), NEW j \in 1..Len(c), i < j, c[i] = c[j]
             PROVE  FALSE
  BY DEF Duplicated
<1>1. PICK place \in [1..Len(c) -> 1..Len(s)] :
         /\ \A n \in 1..Len(c) : c[n] = s[place[n]]
         /\ \A n, m \in 1..Len(c) : n < m => place[n] < place[m]
  BY DEF Ordered
<1>2. place[i] < place[j] /\ s[place[i]] = s[place[j]] /\ place[i] \in DOMAIN s /\ place[j] \in DOMAIN s
  BY <1>1
<1> QED BY <1>2 DEF Duplicated

(* The fields that are read, counted; the key among them.                  *)
LEMMA ReadFields ==
  ASSUME NEW d, IsDeclaration(d), ~Duplicated(FieldNames(d))
  PROVE  /\ {f.name : f \in ToSet(GetFields(d))} = Read(d)
         /\ IsFiniteSet(Read(d)) /\ Cardinality(Read(d)) = Len(GetFields(d))
         /\ GetFields(d) \in Seq(ToSet(d.fields))
         /\ Read(d) \subseteq ToSet(FieldNames(d))
<1> DEFINE fields == d.fields
           T == ToSet(d.fields)
           got == GetFields(d)
           names == [i \in 1..Len(got) |-> got[i].name]
<1>1. fields \in Seq(T)
  BY DEF IsDeclaration
<1>2. got \in Seq(T) /\ Ordered(got, fields, Len(fields))
  BY <1>1, ForEachCalls, ForEachKeepsOrder DEF GetFields
<1>3. {f.name : f \in ToSet(got)} = Read(d)
  BY FieldsAndKeys DEF Read
<1>4. ToSet(names) = {f.name : f \in ToSet(got)}
  <2>1. DOMAIN got = 1..Len(got)
    BY <1>2
  <2> HIDE DEF got
  <2> QED BY <2>1 DEF ToSet
<1> HIDE DEF got
<1>5. names \in Seq(Read(d)) /\ Len(names) = Len(got)
  <2>1. \A i \in 1..Len(got) : got[i].name \in Read(d)
    BY <1>2, <1>3 DEF ToSet
  <2> QED BY <1>2, <2>1
<1>6. ~Duplicated(names)
  <2> SUFFICES ASSUME NEW i \in 1..Len(got), NEW j \in 1..Len(got), i < j,
                      got[i].name = got[j].name
               PROVE  FALSE
    BY <1>5 DEF Duplicated
  <2>1. PICK place \in [1..Len(got) -> 1..Len(fields)] :
           /\ \A n \in 1..Len(got) : got[n] = fields[place[n]]
           /\ \A n, m \in 1..Len(got) : n < m => place[n] < place[m]
    BY <1>2 DEF Ordered
  <2>2. place[i] < place[j] /\ fields[place[i]].name = fields[place[j]].name
        /\ place[i] \in DOMAIN fields /\ place[j] \in DOMAIN fields
    BY <1>1, <2>1
  <2> QED BY <2>2 DEF Duplicated, FieldNames
<1>7. IsFiniteSet(Read(d)) /\ Cardinality(Read(d)) = Len(got)
  <2> HIDE DEF names
  <2> QED BY <1>3, <1>4, <1>5, <1>6, LengthIsCardinality
<1>8. Read(d) \subseteq ToSet(FieldNames(d))
  BY FieldsAndKeys DEF Read
<1> QED BY <1>2, <1>3, <1>7, <1>8 DEF got

LEMMA TheOnlyKey ==
  ASSUME NEW d, IsDeclaration(d), ~Duplicated(FieldNames(d)), ~Duplicated(d.keys), NEW key
  PROVE  GetKeys(d) = <<key>> <=> ToSet(d.keys) \cap Read(d) = {key}
<1> DEFINE T == ToSet(d.keys)
           got == GetKeys(d)
<1>1. d.keys \in Seq(T) /\ got = ForEach(d.keys, Read(d))
  BY ReadFields DEF IsDeclaration, GetKeys
<1>2. got \in Seq(T) /\ ToSet(got) = T \cap Read(d) /\ Ordered(got, d.keys, Len(d.keys))
  BY <1>1, ForEachCalls, ForEachKeepsOrder
<1>3. ~Duplicated(got)
  BY <1>1, <1>2, OrderedIsSingle
<1>4. Cardinality(ToSet(got)) = Len(got)
  BY <1>2, <1>3, LengthIsCardinality
<1> HIDE DEF got
<1>5. ASSUME got = <<key>> PROVE ToSet(got) = {key}
  BY <1>5 DEF ToSet
<1>6. ASSUME ToSet(got) = {key} PROVE got = <<key>>
  <2>1. Len(got) = 1
    BY <1>4, <1>6, FS_Singleton
  <2>2. got[1] \in ToSet(got)
    BY <1>2, <2>1 DEF ToSet
  <2> QED BY <1>2, <1>6, <2>1, <2>2
<1> QED BY <1>2, <1>5, <1>6 DEF got

-----------------------------------------------------------------------------
(* The models of a compound.                                               *)
LEMMA PartsOfSetup ==
  ASSUME setup \in Setups
  PROVE  /\ Len(setup.parts) \in Nat \ {0} /\ Parts = 1..Len(setup.parts)
         /\ \A i \in Parts :
              /\ setup.parts[i] \in Tables /\ setup.parts[i] \in ToSet(setup.parts)
              /\ PartOf(setup.parts[i]) = i
         /\ \A m \in ToSet(setup.parts) : \E i \in Parts : m = setup.parts[i]
         /\ \A m \in Tables :
              /\ IsDeclaration(setup.class[m])
              /\ ~Duplicated(FieldNames(setup.class[m])) /\ ~Duplicated(setup.class[m].keys)
              /\ setup.columns[m] \in Seq(ToSet(setup.columns[m]))
              /\ ~Duplicated(setup.columns[m])
<1>1. setup.parts \in Seq(Tables) /\ setup.parts # <<>> /\ ~Duplicated(setup.parts)
  BY JoinsAssumption DEF Tables
<1>2. Len(setup.parts) \in Nat \ {0} /\ Parts = 1..Len(setup.parts)
  BY <1>1 DEF Parts
<1>3. \A i, j \in Parts : setup.parts[i] = setup.parts[j] => i = j
  BY <1>1, <1>2 DEF Duplicated, Parts
<1>4. ASSUME NEW i \in Parts
      PROVE  /\ setup.parts[i] \in Tables /\ setup.parts[i] \in ToSet(setup.parts)
             /\ PartOf(setup.parts[i]) = i
  <2>1. setup.parts[i] \in Tables /\ setup.parts[i] \in ToSet(setup.parts)
    BY <1>1, <1>2 DEF ToSet, Parts
  <2> QED BY <1>3, <2>1 DEF PartOf
<1>5. \A m \in ToSet(setup.parts) : \E i \in Parts : m = setup.parts[i]
  BY DEF ToSet, Parts
<1>6. ASSUME NEW m \in Tables
      PROVE  /\ IsDeclaration(setup.class[m])
             /\ ~Duplicated(FieldNames(setup.class[m])) /\ ~Duplicated(setup.class[m].keys)
             /\ setup.columns[m] \in Seq(ToSet(setup.columns[m]))
             /\ ~Duplicated(setup.columns[m])
  BY JoinsAssumption DEF Tables
<1> QED BY <1>2, <1>4, <1>5, <1>6

(* What is selected: the columns of one part after the other.              *)
ColumnLists ==
  [i \in Parts |-> [k \in DOMAIN Columns(i) |-> [part |-> i, name |-> Columns(i)[k]]]]

Column(i, k) == [part |-> i, name |-> Columns(i)[k]]

LEMMA ListsFlattened ==
  ASSUME NEW n \in Nat \ {0}, NEW ss, ss = [i \in 1..n |-> ss[i]], NEW T,
         \A i \in 1..n : ss[i] \in Seq(T)
  PROVE  /\ FlattenSeq(ss) = First(ss, n) /\ FlattenSeq(ss) \in Seq(T)
         /\ \A i \in 1..n : Begins(ss, i) \in Nat
         /\ Placed(T, ss, n)
<1>1. FlattenSeq(ss) = First(ss, n)
  BY DEF First
<1>2. \A m \in 0..n : Placed(T, ss, m)
  BY FirstIsPlaced
<1>3. n \in 0..n /\ \A i \in 1..n : i - 1 \in 0..n
  OBVIOUS
<1>4. \A i \in 1..n : Begins(ss, i) \in Nat
  BY <1>2, <1>3 DEF Placed, Begins
<1>5. Placed(T, ss, n) /\ First(ss, n) \in Seq(T)
  BY <1>2, <1>3 DEF Placed
<1> QED BY <1>1, <1>4, <1>5

LEMMA SelectedColumns ==
  ASSUME setup \in Setups
  PROVE  /\ \A i \in Parts : /\ Begins(ColumnLists, i) \in Nat
                             /\ DOMAIN Columns(i) = 1..Len(Columns(i))
                             /\ Len(Columns(i)) \in Nat
         /\ \A i \in Parts : \A k \in DOMAIN Columns(i) :
              /\ Begins(ColumnLists, i) + k \in DOMAIN Selected
              /\ Selected[Begins(ColumnLists, i) + k] = Column(i, k)
         /\ \A p \in DOMAIN Selected : \E i \in Parts : \E k \in DOMAIN Columns(i) :
              Selected[p] = Column(i, k)
         /\ \E n \in Nat : DOMAIN Selected = 1..n
<1> DEFINE T == UNION {{Column(i, k) : k \in DOMAIN Columns(i)} : i \in Parts}
           n == Len(setup.parts)
           ss == ColumnLists
<1>1. n \in Nat \ {0} /\ Parts = 1..n
  BY PartsOfSetup
<1>2. ASSUME NEW i \in Parts
      PROVE  Columns(i) \in Seq(ToSet(Columns(i)))
  BY <1>2, PartsOfSetup DEF Columns
<1>3. ASSUME NEW i \in Parts
      PROVE  /\ ss[i] \in Seq(T) /\ Len(ss[i]) = Len(Columns(i))
             /\ DOMAIN Columns(i) = 1..Len(Columns(i)) /\ Len(Columns(i)) \in Nat
             /\ \A k \in DOMAIN Columns(i) : ss[i][k] = Column(i, k)
  <2>1. ss[i] = [k \in 1..Len(Columns(i)) |-> Column(i, k)] /\ Len(Columns(i)) \in Nat
        /\ DOMAIN Columns(i) = 1..Len(Columns(i))
    BY <1>2 DEF ColumnLists, Column
  <2>2. \A k \in DOMAIN Columns(i) : Column(i, k) \in T
    OBVIOUS
  <2> HIDE DEF ss, T
  <2> QED BY <2>1, <2>2
<1>4. ss = [i \in 1..n |-> ss[i]] /\ \A i \in 1..n : ss[i] \in Seq(T)
  <2>1. ss = [i \in 1..n |-> ss[i]]
    BY <1>1 DEF ColumnLists
  <2> QED BY <1>1, <1>3, <2>1
<1>5. Selected = FlattenSeq(ss)
  BY DEF Selected, ColumnLists
<1> HIDE DEF ss, T, n
<1>6. /\ Selected = First(ss, n) /\ Selected \in Seq(T) /\ Placed(T, ss, n)
      /\ \A i \in 1..n : Begins(ss, i) \in Nat
  BY <1>1, <1>4, <1>5, ListsFlattened
<1>7. DOMAIN Selected = 1..Len(Selected) /\ Len(Selected) \in Nat
  BY <1>6
<1>8. ASSUME NEW i \in Parts, NEW k \in DOMAIN Columns(i)
      PROVE  Begins(ss, i) + k \in DOMAIN Selected /\ Selected[Begins(ss, i) + k] = Column(i, k)
  <2>1. k \in 1..Len(ss[i]) /\ i \in 1..n /\ ss[i][k] = Column(i, k)
    BY <1>1, <1>3, <1>8
  <2> QED BY <1>6, <1>7, <2>1 DEF Placed
<1>9. ASSUME NEW p \in DOMAIN Selected
      PROVE  \E i \in Parts : \E k \in DOMAIN Columns(i) : Selected[p] = Column(i, k)
  <2>1. PICK i \in 1..n : \E k \in 1..Len(ss[i]) : p = Begins(ss, i) + k
    BY <1>6, <1>7, <1>9 DEF Placed
  <2>2. PICK k \in 1..Len(ss[i]) : p = Begins(ss, i) + k
    BY <2>1
  <2>3. i \in Parts /\ k \in DOMAIN Columns(i)
    BY <1>1, <1>3, <2>1, <2>2
  <2> QED BY <1>8, <2>2, <2>3
<1>10. \A i \in Parts : Begins(ss, i) \in Nat /\ DOMAIN Columns(i) = 1..Len(Columns(i))
                        /\ Len(Columns(i)) \in Nat
  BY <1>1, <1>3, <1>6
<1>11. \E l \in Nat : DOMAIN Selected = 1..l
  BY <1>7
<1> QED BY <1>8, <1>9, <1>10, <1>11 DEF ss

(* The last place of a name among those a part takes.                      *)
LEMMA MaxIsOne ==
  ASSUME NEW S, S \subseteq Nat, S # {}, NEW n \in Nat, \A p \in S : p <= n
  PROVE  Max(S) \in S
<1> DEFINE Above == {m \in Nat : \A p \in S : p <= m}
<1>1. Above \subseteq Nat /\ n \in Above
  OBVIOUS
<1> HIDE DEF Above
<1>2. PICK m \in Above : \A k \in Above : m <= k
  BY <1>1, LeastNumber
<1>3. m \in Nat /\ \A p \in S : p <= m
  BY <1>2 DEF Above
<1>4. m \in S
  <2> SUFFICES ASSUME m \notin S PROVE FALSE
    OBVIOUS
  <2>1. m # 0
    <3>1. PICK p \in S : TRUE
      OBVIOUS
    <3> QED BY <1>3, <3>1
  <2>2. m - 1 \in Nat /\ \A p \in S : p <= m - 1
    BY <1>3, <2>1
  <2>3. m - 1 \in Above
    BY <2>2 DEF Above
  <2> QED BY <1>2, <1>3, <2>3
<1>5. \E m1 \in S : \A p \in S : m1 >= p
  BY <1>3, <1>4
<1> QED BY <1>5 DEF Max

(* A field is filled from a column of its name.                            *)
LEMMA FilledFrom ==
  ASSUME setup \in Setups, ~PastTheEnd, NEW i \in Parts, NEW f, Named(i, f) # {}
  PROVE  /\ Max(Named(i, f)) \in Named(i, f)
         /\ Max(Named(i, f)) \in DOMAIN Selected
         /\ \E j \in Parts : \E k \in DOMAIN Columns(j) :
              Selected[Max(Named(i, f))] = Column(j, k) /\ Columns(j)[k] = f
<1> DEFINE S == Named(i, f)
           p == Max(S)
<1>1. Taken(i) \subseteq DOMAIN Selected /\ DOMAIN Selected \subseteq Nat
  BY SelectedColumns DEF PastTheEnd
<1>2. S \subseteq Taken(i) /\ \A q \in S : Selected[q].name = f
  BY DEF Named
<1>3. \E n \in Nat : \A q \in S : q <= n
  <2>1. PICK n \in Nat : DOMAIN Selected = 1..n
    BY SelectedColumns
  <2> QED BY <1>1, <1>2, <2>1
<1> HIDE DEF S
<1>4. p \in S
  BY <1>1, <1>2, <1>3, MaxIsOne DEF S
<1>5. p \in DOMAIN Selected /\ Selected[p].name = f
  BY <1>1, <1>2, <1>4
<1>0. PICK j \in Parts : \E k \in DOMAIN Columns(j) : Selected[p] = Column(j, k)
  BY <1>5, SelectedColumns
<1>6. PICK k \in DOMAIN Columns(j) : Selected[p] = Column(j, k)
  BY <1>0
<1>7. Columns(j)[k] = f
  BY <1>5, <1>6 DEF Column
<1> QED BY <1>4, <1>5, <1>6, <1>7 DEF S

-----------------------------------------------------------------------------
(* The answer is one that the rows and the columns allow.                  *)
JoinTypeOK ==
  /\ setup \in Setups
  /\ rows = [m \in Tables |-> rows[m]] /\ \A m \in Tables : DOMAIN rows[m] \subseteq Ids

ItemsInv ==
  answer.is = "items" => \E kept \in Kept :
    /\ answer.items = [t \in kept |-> Fill(t)]
    /\ ~StatementThrows /\ (Fills => ~FieldUnknown /\ ~PastTheEnd)

SelectInv ==
  answer.call = "select" =>
    answer.is = "items" \/ StatementThrows \/ FieldUnknown \/ PastTheEnd

JoinInv == JoinTypeOK /\ ItemsInv /\ SelectInv

LEMMA JoinInitInv == JoinInit => JoinInv
<1> SUFFICES ASSUME JoinInit PROVE JoinInv
  OBVIOUS
<1>1. JoinTypeOK
  BY DEF JoinInit, JoinTypeOK
<1> QED BY <1>1 DEF JoinInit, NoAnswer, JoinInv, ItemsInv, SelectInv

(* Other calls forget the answer.                                          *)
LEMMA RowsKeep ==
  ASSUME JoinInv, NEW m \in Tables, NEW id \in Ids, NEW content,
         InsertRow(m, id, content) \/ RemoveRow(m, id)
  PROVE  JoinInv'
<1>1. setup' = setup /\ Tables' = Tables
  BY DEF InsertRow, RemoveRow, Tables
<1>2. answer'.is = "none" /\ answer'.call = "none"
  BY DEF InsertRow, RemoveRow, NoAnswer
<1>3. JoinTypeOK'
  <2>1. CASE InsertRow(m, id, content)
    <3>1. \A n \in Tables : n # m => rows'[n] = rows[n]
      BY <2>1 DEF InsertRow, JoinInv, JoinTypeOK
    <3>2. DOMAIN rows'[m] = DOMAIN rows[m] \cup {id}
      BY <2>1 DEF InsertRow, JoinInv, JoinTypeOK
    <3>3. rows' = [n \in Tables |-> rows'[n]]
      BY <2>1 DEF InsertRow, JoinInv, JoinTypeOK
    <3> QED BY <1>1, <3>1, <3>2, <3>3 DEF JoinInv, JoinTypeOK
  <2>2. CASE RemoveRow(m, id)
    <3>1. \A n \in Tables : n # m => rows'[n] = rows[n]
      BY <2>2 DEF RemoveRow, JoinInv, JoinTypeOK
    <3>2. DOMAIN rows'[m] \subseteq DOMAIN rows[m]
      BY <2>2 DEF RemoveRow, JoinInv, JoinTypeOK
    <3>3. rows' = [n \in Tables |-> rows'[n]]
      BY <2>2 DEF RemoveRow, JoinInv, JoinTypeOK
    <3> QED BY <1>1, <3>1, <3>2, <3>3 DEF JoinInv, JoinTypeOK
  <2> QED BY <2>1, <2>2
<1> QED BY <1>2, <1>3 DEF JoinInv, ItemsInv, SelectInv

(* What a query meets depends on the rows alone.                           *)
LEMMA SameRowsAsk ==
  ASSUME setup' = setup, rows' = rows
  PROVE  /\ Kept' = Kept /\ StatementThrows' = StatementThrows /\ Fills' = Fills
         /\ FieldUnknown' = FieldUnknown /\ PastTheEnd' = PastTheEnd
         /\ \A t : Fill(t)' = Fill(t)
  BY DEF Kept, Fills, StatementThrows, FieldUnknown, PastTheEnd, Fill, Joined, Matches,
         Conditions, Index, UnknownColumn, ReferredKeys, Selected, Taken, Skipped, Count,
         Named, Parts, ClassOf, Columns, PartOf

(* A query answers from the rows that it finds.                            *)
LEMMA QueryKeeps ==
  ASSUME JoinInv, NEW call, Query(call)
  PROVE  JoinInv'
<1> USE DEF JoinInv
<1>1. setup' = setup /\ rows' = rows /\ answer'.call = call
  BY DEF Query, Answers
<1>2. JoinTypeOK'
  BY <1>1 DEF JoinTypeOK, Tables
<1>3. /\ Kept' = Kept /\ StatementThrows' = StatementThrows /\ Fills' = Fills
      /\ FieldUnknown' = FieldUnknown /\ PastTheEnd' = PastTheEnd
      /\ \A t : Fill(t)' = Fill(t)
  BY <1>1, SameRowsAsk
<1>4. CASE answer'.is = "items"
  <2>1. PICK kept \in Kept : answer' = [call |-> call, is |-> "items", items |-> [t \in kept |-> Fill(t)]]
    BY <1>4 DEF Query, Answers
  <2>2. ~StatementThrows /\ (Fills => ~FieldUnknown /\ ~PastTheEnd)
    BY <1>4 DEF Query, Answers
  <2>3. \E k \in Kept' : /\ answer'.items = [t \in k |-> Fill(t)']
                         /\ ~StatementThrows' /\ (Fills' => ~FieldUnknown' /\ ~PastTheEnd')
    BY <1>3, <2>1, <2>2
  <2>4. ItemsInv'
    BY <2>3 DEF ItemsInv
  <2> QED BY <1>2, <1>4, <2>4 DEF SelectInv
<1>5. CASE answer'.is # "items"
  <2>1. StatementThrows \/ FieldUnknown \/ PastTheEnd
    BY <1>5 DEF Query, Answers
  <2> QED BY <1>2, <1>3, <1>5, <2>1 DEF ItemsInv, SelectInv
<1> QED BY <1>4, <1>5

LEMMA LoadAllKeeps ==
  ASSUME JoinInv, LoadAll
  PROVE  JoinInv'
<1>1. CASE Query("load_all")
  BY <1>1, QueryKeeps
<1>2. CASE Answers("load_all", "exception", <<>>)
  BY <1>2 DEF Answers, JoinInv, JoinTypeOK, Tables, ItemsInv, SelectInv
<1> QED BY <1>1, <1>2 DEF LoadAll

LEMMA JoinStepInv == JoinInv /\ [JoinNext]_joinVars => JoinInv'
<1> SUFFICES ASSUME JoinInv, [JoinNext]_joinVars PROVE JoinInv'
  OBVIOUS
<1>1. CASE \E m \in Tables, id \in Ids :
             (\E content \in setup.contents : InsertRow(m, id, content)) \/ RemoveRow(m, id)
  BY <1>1, RowsKeep
<1>2. CASE Select \/ LoadAll
  BY <1>2, QueryKeeps, LoadAllKeeps DEF Select
<1>3. CASE UNCHANGED joinVars
  <2>1. setup' = setup /\ rows' = rows /\ answer' = answer
    BY <1>3 DEF joinVars
  <2>2. JoinTypeOK'
    BY <2>1 DEF JoinInv, JoinTypeOK, Tables
  <2>3. ItemsInv' /\ SelectInv'
    BY <2>1, SameRowsAsk DEF JoinInv, ItemsInv, SelectInv
  <2> QED BY <2>2, <2>3 DEF JoinInv
<1> QED BY <1>1, <1>2, <1>3 DEF JoinNext

LEMMA JoinInvariant == JoinSpec => []JoinInv
<1> QED BY JoinInitInv, JoinStepInv, PTL DEF JoinSpec

(* The rows are functions on the ids of the tables there are.              *)
THEOREM JoinTypeCorrect == JoinSpec => []JoinTypeOK
<1>1. JoinInv => JoinTypeOK
  BY DEF JoinInv
<1> QED BY <1>1, JoinInvariant, PTL

(* What an answer with compounds says of the rows and columns.             *)
LEMMA KeptRows ==
  ASSUME JoinInv, answer.is = "items"
  PROVE  /\ DOMAIN answer.items \in Kept
         /\ \A t \in DOMAIN answer.items : answer.items[t] = Fill(t)
         /\ ~StatementThrows /\ (DOMAIN answer.items # {} => ~FieldUnknown /\ ~PastTheEnd)
<1>1. PICK kept \in Kept : /\ answer.items = [t \in kept |-> Fill(t)]
                           /\ ~StatementThrows /\ (Fills => ~FieldUnknown /\ ~PastTheEnd)
  BY DEF JoinInv, ItemsInv
<1>2. DOMAIN answer.items = kept
  BY <1>1
<1>3. kept # {} => Kept # {{}}
  BY <1>1
<1> QED BY <1>1, <1>2, <1>3 DEF Fills

(* No compound holds a value of another model's column, unless names are   *)
(* shared (Repository.hpp:432-445).                                        *)
THEOREM ColumnsStayApart == JoinSpec => []NeverCrossed
<1>1. ASSUME JoinInv PROVE NeverCrossed
  <2> SUFFICES ASSUME answer.is = "items", \A i, j \in Parts : i # j => Apart(i, j),
                      NEW t \in DOMAIN answer.items, NEW i \in Parts,
                      NEW f \in DOMAIN answer.items[t][i], answer.items[t][i][f] # Unset
               PROVE  answer.items[t][i][f][1] = i /\ answer.items[t][i][f][2] = f
    BY DEF NeverCrossed, Own
  <2>1. answer.items[t] = Fill(t) /\ ~PastTheEnd /\ setup \in Setups
    BY <1>1, KeptRows DEF JoinInv, JoinTypeOK
  <2>2. f \in ToSet(FieldNames(ClassOf(i)))
    BY <2>1 DEF Fill
  <2> DEFINE from == Selected[Max(Named(i, f))]
  <2>3. Named(i, f) # {} /\ answer.items[t][i][f] = <<from.part, from.name, t[from.part]>>
    BY <2>1, <2>2 DEF Fill
  <2>4. PICK j \in Parts : \E k \in DOMAIN Columns(j) : from = Column(j, k) /\ Columns(j)[k] = f
    BY <2>1, <2>3, FilledFrom
  <2>5. from.part = j /\ from.name = f /\ f \in ToSet(Columns(j))
    BY <2>4 DEF Column, ToSet
  <2>6. j = i
    BY <2>2, <2>5 DEF Apart
  <2> QED BY <2>3, <2>5, <2>6
<1> QED BY <1>1, JoinInvariant, PTL

LEMMA ListsOfParts ==
  ASSUME setup \in Setups
  PROVE  /\ \E T : \A i \in Parts : ColumnLists[i] \in Seq(T) /\ Len(ColumnLists[i]) = Len(Columns(i))
         /\ \E U : \A i \in Parts : GetFields(ClassOf(i)) \in Seq(U)
<1> DEFINE T == UNION {{Column(i, k) : k \in DOMAIN Columns(i)} : i \in Parts}
           U == UNION {ToSet(ClassOf(i).fields) : i \in Parts}
<1>1. ASSUME NEW i \in Parts
      PROVE  ColumnLists[i] \in Seq(T) /\ Len(ColumnLists[i]) = Len(Columns(i))
  <2>1. Columns(i) \in Seq(ToSet(Columns(i)))
    BY <1>1, PartsOfSetup DEF Columns
  <2>2. ColumnLists[i] = [k \in 1..Len(Columns(i)) |-> Column(i, k)] /\ Len(Columns(i)) \in Nat
        /\ DOMAIN Columns(i) = 1..Len(Columns(i))
    BY <2>1 DEF ColumnLists, Column
  <2>3. \A k \in DOMAIN Columns(i) : Column(i, k) \in T
    OBVIOUS
  <2> HIDE DEF T
  <2> QED BY <2>2, <2>3
<1>2. ASSUME NEW i \in Parts
      PROVE  GetFields(ClassOf(i)) \in Seq(U)
  <2>1. IsDeclaration(ClassOf(i)) /\ ~Duplicated(FieldNames(ClassOf(i)))
    BY <1>2, PartsOfSetup DEF ClassOf
  <2>2. GetFields(ClassOf(i)) \in Seq(ToSet(ClassOf(i).fields))
    BY <2>1, ReadFields
  <2>3. ToSet(ClassOf(i).fields) \subseteq U
    OBVIOUS
  <2> HIDE DEF U
  <2> QED BY <2>2, <2>3
<1> QED BY <1>1, <1>2

(* Where the tables are those of the classes, the parts take their own.    *)
LEMMA AlignedPart ==
  ASSUME setup \in Setups, NEW i \in Parts, Aligned(i)
  PROVE  /\ Count(i) \in Nat /\ Count(i) <= Len(Columns(i))
         /\ Read(ClassOf(i)) = {Columns(i)[k] : k \in 1..Count(i)}
         /\ Read(ClassOf(i)) \subseteq ToSet(FieldNames(ClassOf(i)))
         /\ i # Len(setup.parts) => Len(Columns(i)) = Count(i)
<1> DEFINE own == Read(ClassOf(i))
<1>1. IsDeclaration(ClassOf(i)) /\ ~Duplicated(FieldNames(ClassOf(i)))
      /\ Columns(i) \in Seq(ToSet(Columns(i))) /\ ~Duplicated(Columns(i))
  BY PartsOfSetup DEF ClassOf, Columns
<1>2. /\ IsFiniteSet(own) /\ Cardinality(own) = Count(i)
      /\ own \subseteq ToSet(FieldNames(ClassOf(i)))
  BY <1>1, ReadFields DEF Count
<1>3. Count(i) \in Nat
  BY <1>2, FS_CardinalityType
<1>4. /\ Count(i) <= Len(Columns(i)) /\ own = {Columns(i)[k] : k \in 1..Count(i)}
      /\ i # Len(setup.parts) => ToSet(Columns(i)) = own
  BY <1>2 DEF Aligned
<1>5. Cardinality(ToSet(Columns(i))) = Len(Columns(i))
  BY <1>1, LengthIsCardinality
<1> QED BY <1>2, <1>3, <1>4, <1>5

LEMMA AlignedBegin ==
  ASSUME setup \in Setups, \A i \in Parts : Aligned(i), NEW i \in Parts
  PROVE  Skipped(i) = Begins(ColumnLists, i)
<1> DEFINE gs == [j \in Parts |-> GetFields(ClassOf(j))]
<1>1. Parts = 1..Len(setup.parts) /\ Len(setup.parts) \in Nat
  BY PartsOfSetup
<1>2. /\ i - 1 \in Nat /\ 1..(i - 1) \subseteq Parts
      /\ \A j \in 1..(i - 1) : j # Len(setup.parts)
  BY <1>1
<1>3. PICK T : \A j \in Parts : /\ ColumnLists[j] \in Seq(T)
                                /\ Len(ColumnLists[j]) = Len(Columns(j))
  BY ListsOfParts
<1>4. PICK U : \A j \in Parts : GetFields(ClassOf(j)) \in Seq(U)
  BY ListsOfParts
<1>5. ASSUME NEW j \in 1..(i - 1)
      PROVE  gs[j] \in Seq(U) /\ ColumnLists[j] \in Seq(T) /\ Len(gs[j]) = Len(ColumnLists[j])
  <2>1. j \in Parts /\ j # Len(setup.parts)
    BY <1>2
  <2>2. Len(Columns(j)) = Count(j)
    BY <2>1, AlignedPart
  <2> QED BY <1>3, <1>4, <2>1, <2>2 DEF Count
<1>6. [j \in 1..(i - 1) |-> GetFields(ClassOf(j))] = [j \in 1..(i - 1) |-> gs[j]]
  BY <1>2
<1> HIDE DEF gs
<1>7. Skipped(i) = Len(First(gs, i - 1))
  BY <1>6 DEF Skipped, First
<1>8. Len(First(gs, i - 1)) = Len(First(ColumnLists, i - 1))
  <2> DEFINE n == i - 1
             cs == ColumnLists
  <2>1. n \in Nat /\ \A j \in 1..n : gs[j] \in Seq(U) /\ cs[j] \in Seq(T) /\ Len(gs[j]) = Len(cs[j])
    BY <1>2, <1>5
  <2> HIDE DEF n, cs
  <2>2. Len(First(gs, n)) = Len(First(cs, n))
    BY <2>1, SameLengths
  <2> QED BY <2>2 DEF n, cs
<1> QED BY <1>7, <1>8 DEF Begins

LEMMA AlignedTaken ==
  ASSUME setup \in Setups, \A i \in Parts : Aligned(i), NEW i \in Parts
  PROVE  /\ \A p \in Taken(i) :
              /\ p \in DOMAIN Selected /\ Selected[p].part = i
              /\ Selected[p].name \in Read(ClassOf(i))
         /\ \A name \in Read(ClassOf(i)) : Named(i, name) # {}
<1> DEFINE b == Begins(ColumnLists, i)
<1>1. /\ Count(i) \in Nat /\ Count(i) <= Len(Columns(i))
      /\ Read(ClassOf(i)) = {Columns(i)[k] : k \in 1..Count(i)}
  BY AlignedPart
<1>2. /\ b \in Nat /\ DOMAIN Columns(i) = 1..Len(Columns(i)) /\ Len(Columns(i)) \in Nat
      /\ \A k \in DOMAIN Columns(i) : b + k \in DOMAIN Selected /\ Selected[b + k] = Column(i, k)
  BY SelectedColumns
<1>3. Taken(i) = (b + 1)..(b + Count(i))
  BY AlignedBegin DEF Taken
<1> HIDE DEF b
<1>4. ASSUME NEW k \in 1..Count(i)
      PROVE  /\ b + k \in Taken(i) /\ b + k \in DOMAIN Selected
             /\ Selected[b + k].part = i /\ Selected[b + k].name = Columns(i)[k]
             /\ Columns(i)[k] \in Read(ClassOf(i))
  <2>1. k \in DOMAIN Columns(i) /\ b + k \in (b + 1)..(b + Count(i))
    BY <1>1, <1>2
  <2>2. Selected[b + k] = [part |-> i, name |-> Columns(i)[k]] /\ b + k \in DOMAIN Selected
    BY <1>2, <2>1 DEF Column
  <2> QED BY <1>1, <1>3, <2>1, <2>2
<1>5. ASSUME NEW p \in Taken(i)
      PROVE  /\ p \in DOMAIN Selected /\ Selected[p].part = i
             /\ Selected[p].name \in Read(ClassOf(i))
  <2>1. p - b \in 1..Count(i) /\ b + (p - b) = p
    BY <1>1, <1>2, <1>3
  <2> QED BY <1>4, <2>1
<1>6. ASSUME NEW name \in Read(ClassOf(i))
      PROVE  Named(i, name) # {}
  <2>1. PICK k \in 1..Count(i) : name = Columns(i)[k]
    BY <1>1
  <2>2. b + k \in Named(i, name)
    BY <1>4, <2>1 DEF Named
  <2> QED BY <2>2
<1> QED BY <1>5, <1>6

LEMMA AlignedFills ==
  ASSUME setup \in Setups, \A i \in Parts : Aligned(i)
  PROVE  /\ ~FieldUnknown /\ ~PastTheEnd
         /\ \A t : Whole(t, Fill(t))
<1>1. ~PastTheEnd
  BY AlignedTaken DEF PastTheEnd
<1>2. ~FieldUnknown
  <2> SUFFICES ASSUME NEW i \in Parts, NEW p \in Taken(i)
               PROVE  HasField(ClassOf(i), Selected[p].name)
    BY DEF FieldUnknown
  <2>1. Selected[p].name \in Read(ClassOf(i))
    BY AlignedTaken
  <2> QED BY <2>1, AlignedPart DEF HasField
<1>3. ASSUME NEW t, NEW i \in Parts, NEW name \in Read(ClassOf(i))
      PROVE  Fill(t)[i][name] = <<i, name, t[i]>>
  <2>1. name \in ToSet(FieldNames(ClassOf(i))) /\ Named(i, name) # {}
    BY AlignedTaken, AlignedPart
  <2> DEFINE p == Max(Named(i, name))
  <2>2. p \in Named(i, name)
    BY <1>1, <2>1, FilledFrom
  <2>3. p \in Taken(i) /\ Selected[p].name = name
    BY <2>2 DEF Named
  <2>4. Selected[p].part = i
    BY <2>3, AlignedTaken
  <2>5. Fill(t)[i][name] = <<Selected[p].part, Selected[p].name, t[Selected[p].part]>>
    BY <2>1 DEF Fill
  <2> QED BY <2>3, <2>4, <2>5
<1>4. \A t : Whole(t, Fill(t))
  BY <1>3 DEF Whole
<1> QED BY <1>1, <1>2, <1>4

(* The conditions of the join, one for each reference.                     *)
ConditionLists ==
  [i \in Parts |-> [k \in DOMAIN ClassOf(i).refers |->
    [and |-> Index(i) # 0 \/ k # 1,
     part |-> i, name |-> ClassOf(i).refers[k].name, to |-> ClassOf(i).refers[k].model]]]

Condition(i, k) ==
  [and |-> Index(i) # 0 \/ k # 1,
   part |-> i, name |-> ClassOf(i).refers[k].name, to |-> ClassOf(i).refers[k].model]

LEMMA ConditionsOfReferences ==
  ASSUME setup \in Setups
  PROVE  /\ \A i \in Parts : /\ Begins(ConditionLists, i) \in Nat
                             /\ Len(ConditionLists[i]) = Len(ClassOf(i).refers)
                             /\ Len(ClassOf(i).refers) \in Nat
                             /\ DOMAIN ClassOf(i).refers = 1..Len(ClassOf(i).refers)
         /\ \A i \in Parts : \A k \in DOMAIN ClassOf(i).refers :
              /\ Begins(ConditionLists, i) + k \in DOMAIN Conditions
              /\ Conditions[Begins(ConditionLists, i) + k] = Condition(i, k)
         /\ \A p \in DOMAIN Conditions : \E i \in Parts : \E k \in DOMAIN ClassOf(i).refers :
              p = Begins(ConditionLists, i) + k /\ Conditions[p] = Condition(i, k)
         /\ \E T : \A i \in Parts : ConditionLists[i] \in Seq(T)
<1> DEFINE T == UNION {{Condition(i, k) : k \in DOMAIN ClassOf(i).refers} : i \in Parts}
           n == Len(setup.parts)
           ss == ConditionLists
<1>1. n \in Nat \ {0} /\ Parts = 1..n
  BY PartsOfSetup
<1>2. ASSUME NEW i \in Parts
      PROVE  ClassOf(i).refers \in Seq(ToSet(ClassOf(i).refers))
  BY <1>2, PartsOfSetup DEF ClassOf, IsDeclaration
<1>3. ASSUME NEW i \in Parts
      PROVE  /\ ss[i] \in Seq(T) /\ Len(ss[i]) = Len(ClassOf(i).refers)
             /\ DOMAIN ClassOf(i).refers = 1..Len(ClassOf(i).refers)
             /\ Len(ClassOf(i).refers) \in Nat
             /\ \A k \in DOMAIN ClassOf(i).refers : ss[i][k] = Condition(i, k)
  <2>1. /\ ss[i] = [k \in 1..Len(ClassOf(i).refers) |-> Condition(i, k)]
        /\ Len(ClassOf(i).refers) \in Nat
        /\ DOMAIN ClassOf(i).refers = 1..Len(ClassOf(i).refers)
    BY <1>2 DEF ConditionLists, Condition
  <2>2. \A k \in DOMAIN ClassOf(i).refers : Condition(i, k) \in T
    OBVIOUS
  <2> HIDE DEF ss, T
  <2> QED BY <2>1, <2>2
<1>4. ss = [i \in 1..n |-> ss[i]] /\ \A i \in 1..n : ss[i] \in Seq(T)
  <2>1. ss = [i \in 1..n |-> ss[i]]
    BY <1>1 DEF ConditionLists
  <2> QED BY <1>1, <1>3, <2>1
<1>5. Conditions = FlattenSeq(ss)
  BY DEF Conditions, ConditionLists
<1> HIDE DEF ss, T, n
<1>6. /\ Conditions = First(ss, n) /\ Conditions \in Seq(T) /\ Placed(T, ss, n)
      /\ \A i \in 1..n : Begins(ss, i) \in Nat
  BY <1>1, <1>4, <1>5, ListsFlattened
<1>7. DOMAIN Conditions = 1..Len(Conditions) /\ Len(Conditions) \in Nat
  BY <1>6
<1>8. ASSUME NEW i \in Parts, NEW k \in DOMAIN ClassOf(i).refers
      PROVE  /\ Begins(ss, i) + k \in DOMAIN Conditions
             /\ Conditions[Begins(ss, i) + k] = Condition(i, k)
  <2>1. k \in 1..Len(ss[i]) /\ i \in 1..n /\ ss[i][k] = Condition(i, k)
    BY <1>1, <1>3, <1>8
  <2> QED BY <1>6, <1>7, <2>1 DEF Placed
<1>9. ASSUME NEW p \in DOMAIN Conditions
      PROVE  \E i \in Parts : \E k \in DOMAIN ClassOf(i).refers :
               p = Begins(ss, i) + k /\ Conditions[p] = Condition(i, k)
  <2>1. PICK i \in 1..n : \E k \in 1..Len(ss[i]) : p = Begins(ss, i) + k
    BY <1>6, <1>7, <1>9 DEF Placed
  <2>2. PICK k \in 1..Len(ss[i]) : p = Begins(ss, i) + k
    BY <2>1
  <2>3. i \in Parts /\ k \in DOMAIN ClassOf(i).refers
    BY <1>1, <1>3, <2>1, <2>2
  <2> QED BY <1>8, <2>2, <2>3
<1>10. \A i \in Parts : /\ Begins(ss, i) \in Nat /\ Len(ss[i]) = Len(ClassOf(i).refers)
                        /\ Len(ClassOf(i).refers) \in Nat
                        /\ DOMAIN ClassOf(i).refers = 1..Len(ClassOf(i).refers)
  BY <1>1, <1>3, <1>6
<1> QED BY <1>3, <1>8, <1>9, <1>10 DEF ss

(* The join of a statement that SQLite understands is the one meant.       *)
LEMMA JoinedIsMeeting ==
  ASSUME setup \in Setups, ~StatementThrows
  PROVE  Joined = Meeting
<1>1. ASSUME NEW i \in Parts, NEW k \in DOMAIN ClassOf(i).refers
      PROVE  Condition(i, k) \in ToSet(Conditions) /\ ~UnknownColumn(Condition(i, k))
  <2> DEFINE p == Begins(ConditionLists, i) + k
  <2>1. p \in DOMAIN Conditions /\ Conditions[p] = Condition(i, k)
    BY ConditionsOfReferences
  <2> HIDE DEF p
  <2> QED BY <2>1 DEF ToSet, StatementThrows
<1>2. ASSUME NEW c \in ToSet(Conditions)
      PROVE  \E i \in Parts : \E k \in DOMAIN ClassOf(i).refers : c = Condition(i, k)
  <2>1. PICK p \in DOMAIN Conditions : c = Conditions[p]
    BY <1>2 DEF ToSet
  <2> QED BY <2>1, ConditionsOfReferences
<1>3. ASSUME NEW j \in Parts, NEW key
      PROVE  GetKeys(setup.class[setup.parts[j]]) = <<key>>
               <=> ToSet(setup.class[setup.parts[j]].keys) \cap Read(setup.class[setup.parts[j]]) = {key}
  BY PartsOfSetup, TheOnlyKey
<1>4. ASSUME NEW t, \A c \in ToSet(Conditions) : Matches(t, c)
      PROVE  Met(t)
  <2> SUFFICES ASSUME NEW i \in Parts, NEW j \in Parts, NEW name \in ToSet(Columns(i)),
                      NEW key \in ToSet(Columns(j)), Refers(i, name, setup.parts[j], key)
               PROVE  /\ rows[setup.parts[i]][t[i]][name] # NoValue
                      /\ rows[setup.parts[i]][t[i]][name] = rows[setup.parts[j]][t[j]][key]
    BY DEF Met
  <2>1. PICK k \in DOMAIN ClassOf(i).refers :
           ClassOf(i).refers[k].name = name /\ ClassOf(i).refers[k].model = setup.parts[j]
    BY DEF Refers, ToSet
  <2> DEFINE c == Condition(i, k)
  <2>2. c.part = i /\ c.name = name /\ c.to = setup.parts[j]
    BY <2>1 DEF Condition
  <2>3. Matches(t, c)
    BY <1>1, <1>4
  <2>4. ReferredKeys(c) = <<key>>
    BY <1>3, <2>2 DEF ReferredKeys, Refers
  <2>5. PartOf(c.to) = j
    BY <2>2, PartsOfSetup
  <2> HIDE DEF c
  <2> QED BY <2>2, <2>3, <2>4, <2>5 DEF Matches
<1>5. ASSUME NEW t, Met(t), NEW c \in ToSet(Conditions)
      PROVE  Matches(t, c)
  <2>1. PICK i \in Parts : \E k \in DOMAIN ClassOf(i).refers : c = Condition(i, k)
    BY <1>2
  <2>2. PICK k \in DOMAIN ClassOf(i).refers : c = Condition(i, k)
    BY <2>1
  <2>3. /\ c.part = i /\ c.name = ClassOf(i).refers[k].name
        /\ c.to = ClassOf(i).refers[k].model
    BY <2>2 DEF Condition
  <2>4. ~UnknownColumn(c)
    BY <1>1, <2>2
  <2>5. PICK j \in Parts : c.to = setup.parts[j]
    BY <2>4, PartsOfSetup DEF UnknownColumn
  <2>6. PICK key \in ToSet(setup.columns[c.to]) : ReferredKeys(c) = <<key>>
    BY <2>4 DEF UnknownColumn
  <2>7. c.name \in ToSet(Columns(i)) /\ key \in ToSet(Columns(j))
    BY <2>3, <2>4, <2>5, <2>6 DEF UnknownColumn, Columns
  <2>8. Refers(i, c.name, setup.parts[j], key)
    <3>1. \E r \in ToSet(ClassOf(i).refers) : r.name = c.name /\ r.model = setup.parts[j]
      BY <2>3, <2>5 DEF ToSet
    <3>2. setup.parts[j] \in ToSet(setup.parts)
      BY PartsOfSetup
    <3> QED BY <1>3, <2>5, <2>6, <3>1, <3>2 DEF Refers, ReferredKeys
  <2>9. /\ rows[setup.parts[i]][t[i]][c.name] # NoValue
        /\ rows[setup.parts[i]][t[i]][c.name] = rows[setup.parts[j]][t[j]][key]
    BY <1>5, <2>7, <2>8 DEF Met
  <2>10. PartOf(c.to) = j
    BY <2>5, PartsOfSetup
  <2> QED BY <2>3, <2>5, <2>6, <2>9, <2>10 DEF Matches
<1> QED BY <1>4, <1>5 DEF Joined, Meeting

LEMMA FunctionsAreFinite ==
  ASSUME NEW S, NEW T, IsFiniteSet(S), IsFiniteSet(T)
  PROVE  IsFiniteSet([S -> T])
<1> DEFINE Graph(f) == {<<x, f[x]>> : x \in S}
           graph == [f \in [S -> T] |-> Graph(f)]
           Graphs == SUBSET (S \X T)
<1>1. IsFiniteSet(Graphs)
  BY FS_Product, FS_SUBSET
<1>2. ASSUME NEW f \in [S -> T]
      PROVE  Graph(f) \in Graphs
  BY <1>2
<1>3. ASSUME NEW f \in [S -> T], NEW g \in [S -> T], Graph(f) = Graph(g)
      PROVE  f = g
  <2>1. ASSUME NEW x \in S PROVE f[x] = g[x]
    <3>1. <<x, f[x]>> \in Graph(g)
      BY <1>3
    <3> QED BY <3>1
  <2> QED BY <2>1
<1> HIDE DEF Graph, Graphs
<1>4. graph \in [[S -> T] -> Graphs]
  BY <1>2
<1>5. \A f, g \in [S -> T] : graph[f] = graph[g] => f = g
  BY <1>3
<1> HIDE DEF graph
<1>6. graph \in Injection([S -> T], Graphs)
  BY <1>4, <1>5 DEF Injection, IsInjective
<1> QED BY <1>1, <1>6, FS_Injection

(* The limit cuts the join, and nothing else does.                         *)
LEMMA KeptIsLimited ==
  ASSUME setup \in Setups, NEW kept \in Kept
  PROVE  /\ kept \subseteq Joined /\ Cardinality(kept) <= Limit
         /\ Cardinality(kept) = Limit \/ kept = Joined
<1>1. IsFiniteSet(Joined) /\ Cardinality(Joined) \in Nat
  <2>1. IsFiniteSet(Parts)
    <3>1. Parts = 1..Len(setup.parts) /\ Len(setup.parts) \in Int /\ 1 \in Int
      BY PartsOfSetup
    <3>2. IsFiniteSet(1..Len(setup.parts))
      BY <3>1, FS_Interval
    <3> QED BY <3>1, <3>2
  <2>2. IsFiniteSet([Parts -> Ids])
    BY <2>1, JoinsAssumption, FunctionsAreFinite
  <2>3. Joined \in SUBSET [Parts -> Ids]
    BY DEF Joined
  <2>4. IsFiniteSet(Joined)
    BY <2>2, <2>3, FS_Subset
  <2> QED BY <2>4, FS_CardinalityType
<1> DEFINE size == IF Cardinality(Joined) < Limit THEN Cardinality(Joined) ELSE Limit
<1>2. kept \in SUBSET Joined /\ Cardinality(kept) = size
  BY DEF Kept, kSubset
<1>3. Limit \in Nat
  BY JoinsAssumption
<1>4. CASE Cardinality(Joined) < Limit
  <2>1. Cardinality(Joined) = Cardinality(kept)
    BY <1>2, <1>4
  <2>2. Joined = kept
    BY <1>1, <1>2, <2>1, FS_Subset
  <2> QED BY <1>1, <1>2, <1>3, <1>4, <2>1, <2>2
<1>5. CASE ~(Cardinality(Joined) < Limit)
  BY <1>2, <1>3, <1>5
<1> QED BY <1>4, <1>5

(* The compounds of an answer are the rows of the join, field by field, up *)
(* to the limit (Repository.hpp:362-401, 432-496).                         *)
THEOREM CompoundsAreJoined == JoinSpec => []CompoundsAreTheJoin
<1>1. ASSUME JoinInv PROVE CompoundsAreTheJoin
  <2> DEFINE kept == DOMAIN answer.items
  <2> SUFFICES ASSUME answer.is = "items", \A i \in Parts : Aligned(i)
               PROVE  /\ kept \subseteq Meeting /\ \A t \in kept : Whole(t, answer.items[t])
                      /\ Cardinality(kept) <= Limit
                      /\ Cardinality(kept) = Limit \/ kept = Meeting
    BY DEF CompoundsAreTheJoin
  <2>1. setup \in Setups
    BY <1>1 DEF JoinInv, JoinTypeOK
  <2>2. /\ kept \in Kept /\ \A t \in kept : answer.items[t] = Fill(t)
        /\ ~StatementThrows
    BY <1>1, KeptRows
  <2>3. Joined = Meeting
    BY <2>1, <2>2, JoinedIsMeeting
  <2> HIDE DEF kept
  <2>4. /\ kept \subseteq Joined /\ Cardinality(kept) <= Limit
        /\ Cardinality(kept) = Limit \/ kept = Joined
    BY <2>1, <2>2, KeptIsLimited
  <2>5. \A t \in kept : Whole(t, answer.items[t])
    BY <2>1, <2>2, AlignedFills
  <2> QED BY <2>3, <2>4, <2>5
<1> QED BY <1>1, JoinInvariant, PTL

-----------------------------------------------------------------------------
(* AND stands between the conditions, and not in front of the first one.   *)
LEMMA AndIsBetween ==
  ASSUME setup \in Setups, NEW p \in DOMAIN Conditions
  PROVE  Conditions[p].and <=> p # 1
<1> DEFINE ss == ConditionLists
<1>1. PICK i \in Parts : \E k \in DOMAIN ClassOf(i).refers :
        p = Begins(ss, i) + k /\ Conditions[p] = Condition(i, k)
  BY ConditionsOfReferences
<1>2. PICK k \in DOMAIN ClassOf(i).refers :
        p = Begins(ss, i) + k /\ Conditions[p] = Condition(i, k)
  BY <1>1
<1>3. /\ Begins(ss, i) \in Nat /\ k \in Nat \ {0}
      /\ Parts = 1..Len(setup.parts) /\ Len(setup.parts) \in Nat
      /\ i - 1 \in Nat /\ 1..(i - 1) \subseteq Parts
  <2>1. /\ Begins(ss, i) \in Nat /\ DOMAIN ClassOf(i).refers = 1..Len(ClassOf(i).refers)
        /\ Len(ClassOf(i).refers) \in Nat
    BY ConditionsOfReferences
  <2>2. Parts = 1..Len(setup.parts) /\ Len(setup.parts) \in Nat
    BY PartsOfSetup
  <2>3. k \in Nat \ {0}
    BY <2>1
  <2> HIDE DEF ss
  <2> QED BY <2>1, <2>2, <2>3
<1>4. p = 1 <=> Begins(ss, i) = 0 /\ k = 1
  BY <1>2, <1>3
<1>5. Conditions[p].and <=> Index(i) # 0 \/ k # 1
  <2>1. Condition(i, k).and = (Index(i) # 0 \/ k # 1)
    BY DEF Condition
  <2> QED BY <1>2, <2>1, Zenon
<1> DEFINE before == {j \in 1..(i - 1) : ClassOf(j).refers # <<>>}
<1>6. Index(i) = 0 <=> before = {}
  <2>1. IsFiniteSet(1..(i - 1))
    <3>1. 1 \in Int /\ i - 1 \in Int
      BY <1>3
    <3> QED BY <3>1, FS_Interval
  <2>2. before \in SUBSET (1..(i - 1))
    OBVIOUS
  <2>3. IsFiniteSet(before)
    BY <2>1, <2>2, FS_Subset
  <2> QED BY <2>3, FS_EmptySet DEF Index
<1>7. PICK T : \A j \in Parts : ss[j] \in Seq(T)
  BY ConditionsOfReferences
<1>8. Placed(T, ss, i - 1)
  <2> DEFINE n == i - 1
  <2>1. n \in Nat /\ n \in 0..n /\ \A j \in 1..n : ss[j] \in Seq(T)
    BY <1>3, <1>7
  <2> HIDE DEF n, ss
  <2>2. Placed(T, ss, n)
    BY <2>1, FirstIsPlaced
  <2> QED BY <2>2 DEF n
<1>9. \A j \in 1..(i - 1) : /\ Len(ss[j]) = Len(ClassOf(j).refers)
                            /\ Len(ss[j]) \in Nat
                            /\ ClassOf(j).refers # <<>> => 1 \in 1..Len(ss[j])
                            /\ 1..Len(ss[j]) # {} => ClassOf(j).refers # <<>>
  <2> SUFFICES ASSUME NEW j \in 1..(i - 1)
               PROVE  /\ Len(ss[j]) = Len(ClassOf(j).refers)
                      /\ Len(ss[j]) \in Nat
                      /\ ClassOf(j).refers # <<>> => 1 \in 1..Len(ss[j])
                      /\ 1..Len(ss[j]) # {} => ClassOf(j).refers # <<>>
    OBVIOUS
  <2>1. j \in Parts
    BY <1>3
  <2>2. Len(ss[j]) = Len(ClassOf(j).refers) /\ Len(ClassOf(j).refers) \in Nat
    BY <2>1, ConditionsOfReferences
  <2>3. ClassOf(j).refers \in Seq(ToSet(ClassOf(j).refers))
    BY <2>1, PartsOfSetup DEF ClassOf, IsDeclaration
  <2>4. ClassOf(j).refers # <<>> <=> Len(ClassOf(j).refers) # 0
    BY <2>3
  <2> QED BY <2>2, <2>4
<1>10. Begins(ss, i) = 0 <=> before = {}
  <2>1. Begins(ss, i) = Len(First(ss, i - 1))
    BY DEF Begins
  <2> HIDE DEF ss
  <2>2. ASSUME Begins(ss, i) = 0, NEW j \in 1..(i - 1), ClassOf(j).refers # <<>>
        PROVE  FALSE
    <3>1. Begins(ss, j) + 1 \in 1..Len(First(ss, i - 1))
      BY <1>8, <1>9, <2>2 DEF Placed
    <3> QED BY <2>1, <2>2, <3>1
  <2>3. ASSUME Begins(ss, i) # 0
        PROVE  before # {}
    <3>1. 1 \in 1..Len(First(ss, i - 1))
      BY <1>3, <2>1, <2>3
    <3>2. PICK j \in 1..(i - 1) : \E l \in 1..Len(ss[j]) : 1 = Begins(ss, j) + l
      BY <1>8, <3>1 DEF Placed
    <3>3. j \in before
      BY <1>9, <3>2
    <3> QED BY <3>3
  <2> QED BY <2>2, <2>3
<1> QED BY <1>4, <1>5, <1>6, <1>10

(* SQLite understands the join of references that can be joined.           *)
LEMMA JoinableIsUnderstood ==
  ASSUME setup \in Setups, Joinable
  PROVE  ~StatementThrows
<1> SUFFICES ASSUME NEW p \in DOMAIN Conditions
             PROVE  /\ ~GetKeysThrows(setup.class[Conditions[p].to])
                    /\ ~(Conditions[p].and = (p = 1)) /\ ~UnknownColumn(Conditions[p])
  BY DEF StatementThrows
<1> DEFINE c == Conditions[p]
<1>1. PICK i \in Parts : \E k \in DOMAIN ClassOf(i).refers : c = Condition(i, k)
  BY ConditionsOfReferences
<1>2. PICK k \in DOMAIN ClassOf(i).refers : c = Condition(i, k)
  BY <1>1
<1>3. /\ c.part = i /\ c.name = ClassOf(i).refers[k].name /\ c.to = ClassOf(i).refers[k].model
      /\ c.and \in BOOLEAN /\ ClassOf(i).refers[k] \in ToSet(ClassOf(i).refers)
  BY <1>2 DEF Condition, ToSet
<1>4. c.name \in ToSet(Columns(i)) /\ ~GetKeysThrows(setup.class[c.to])
  BY <1>3 DEF Joinable
<1>5. PICK key \in ToSet(setup.columns[c.to]) : Refers(i, c.name, c.to, key)
  BY <1>3 DEF Joinable
<1>6. c.to \in ToSet(setup.parts)
      /\ ToSet(setup.class[c.to].keys) \cap Read(setup.class[c.to]) = {key}
  BY <1>5 DEF Refers
<1>7. c.to \in Tables
  BY <1>6, PartsOfSetup
<1>8. ReferredKeys(c) = <<key>>
  BY <1>6, <1>7, PartsOfSetup, TheOnlyKey DEF ReferredKeys
<1>9. ~UnknownColumn(c)
  BY <1>3, <1>4, <1>5, <1>6, <1>8 DEF UnknownColumn
<1>10. c.and <=> p # 1
  BY AndIsBetween
<1>11. ~(c.and = (p = 1))
  BY <1>3, <1>10, Zenon
<1> QED BY <1>4, <1>9, <1>11

(* Select throws for no compound whose references can be joined and whose  *)
(* tables are those of the classes (Repository.hpp:362-401, 432-496).      *)
THEOREM JoinableIsSelected == JoinSpec => []SelectAnswers
<1>1. ASSUME JoinInv PROVE SelectAnswers
  <2> SUFFICES ASSUME answer.call = "select", Joinable, \A i \in Parts : Aligned(i)
               PROVE  answer.is = "items"
    BY DEF SelectAnswers
  <2>1. setup \in Setups /\ SelectInv
    BY <1>1 DEF JoinInv, JoinTypeOK
  <2>2. ~StatementThrows /\ ~FieldUnknown /\ ~PastTheEnd
    BY <2>1, JoinableIsUnderstood, AlignedFills
  <2> QED BY <2>1, <2>2 DEF SelectInv
<1> QED BY <1>1, JoinInvariant, PTL
=============================================================================
