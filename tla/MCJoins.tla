------------------------------ MODULE MCJoins ------------------------------
(* Instances of Joins: two tables with every combination of ignored        *)
(* fields and of altered columns, and three tables in every order with     *)
(* rows that are inserted and removed.                                     *)
EXTENDS Joins, TLC

CONSTANTS child, parent, other, a, b, c, d, z, v, w, i, j

Plain(name, ignore) ==
  [name |-> name, serial |-> FALSE, nullable |-> FALSE, default |-> FALSE, ignore |-> ignore]

Fields(names, ignored) == [k \in DOMAIN names |-> Plain(names[k], names[k] \in ignored)]

Class(fields, keys, refers) == [fields |-> fields, keys |-> keys, refers |-> refers]

To(name, m) == [name |-> name, model |-> m]

(* The table as it is declared, without the last column, with another one  *)
(* at the end, and in the order of a declaration that was changed since.   *)
Altered(names) ==
  {names, SubSeq(names, 1, Len(names) - 1), Append(names, z), Reverse(names)}

Same == {[name \in {a, b, c, d, z} |-> v]}

(* The key and the other column of the parent are named alike or not.      *)
TwoTables ==
  UNION {
    {[parts |-> parts,
      class |-> child :> Class(Fields(<<a, b>>, ignored), <<a>>, refers)
                @@ parent :> Class(Fields(names, ignored), <<names[1]>>, <<>>),
      columns |-> child :> own @@ parent :> its, contents |-> Same] :
        parts \in {<<child, parent>>, <<parent, child>>},
        ignored \in SUBSET {a, b, c, d}, refers \in {<<>>, <<To(b, parent)>>},
        own \in Altered(<<a, b>>), its \in Altered(names)} :
    names \in {<<c, d>>, <<a, d>>, <<c, b>>}}

(* Two references, of one model or of two, a model without any, one with   *)
(* two keys, one that is not in the compound.                              *)
Orders(models) == {s \in [1..Cardinality(models) -> models] : ToSet(s) = models}

Declared(class) == [m \in DOMAIN class |-> FieldNames(class[m])]

ThreeClasses ==
  {child :> Class(Fields(<<a, b, c>>, {}), <<a>>, refers)
   @@ parent :> Class(Fields(<<a, b>>, {}), keys, its)
   @@ other :> Class(Fields(<<d>>, {}), <<d>>, <<>>) :
     refers \in {<<>>, <<To(b, parent)>>, <<To(b, parent), To(c, other)>>},
     <<keys, its>> \in {<< <<a>>, <<>> >>, << <<a, b>>, <<>> >>, << <<a>>, <<To(b, other)>> >>}}

Different ==
  {a :> x @@ b :> y @@ c :> y @@ d :> x :
     <<x, y>> \in {<<v, v>>, <<w, v>>, <<v, NoValue>>}}

ThreeTables ==
  {[parts |-> parts, class |-> class, columns |-> Declared(class), contents |-> Different] :
     parts \in Orders({child, parent, other}) \cup {<<child, other>>, <<other>>},
     class \in ThreeClasses}

AllSetups == TwoTables \cup ThreeTables

SymIds == Permutations(Ids)
=============================================================================
