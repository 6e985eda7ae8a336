------------------------------ MODULE MCSchema ------------------------------
(* Instances of Schema: every declaration of one or two fields beside a    *)
(* model it may refer to, and a few releases that follow each other.       *)
EXTENDS Schema, TLC

CONSTANTS main, parent, a, b, z

ParentFirst == <<parent, main>>

Plain(name) ==
  [name |-> name, serial |-> FALSE, nullable |-> FALSE, default |-> FALSE, ignore |-> FALSE]

Field(name, defaults) ==
  [name : {name}, serial : BOOLEAN, nullable : BOOLEAN, default : defaults, ignore : BOOLEAN]

Class(fields, keys, refers) == [fields |-> fields, keys |-> keys, refers |-> refers]

ToParent(name) == [name |-> name, model |-> parent]

Empty == Class(<<>>, <<>>, <<>>)

(* One key, two keys, a key that is no field, an ignored key, no fields.   *)
Parents ==
  {Class(<<Plain(a), Plain(b)>>, keys, <<>>) : keys \in {<<a>>, <<a, b>>, <<z>>, <<>>}}
    \cup {Class(<<Plain(a), [Plain(b) EXCEPT !.ignore = TRUE]>>, <<b>>, <<>>), Empty}

Mains(defaults, references) ==
  LET First == Field(a, defaults)
      Second == Field(b, {FALSE}) \cup {Plain(a)}
  IN {Class(fields, keys, refers) :
        fields \in {<<f>> : f \in First} \cup (First \X Second),
        keys \in {<<>>, <<a>>, <<b>>, <<a, b>>, <<a, a>>}, refers \in references}

References == {<<ToParent(b)>>, <<ToParent(a), ToParent(b)>>, <<ToParent(a), ToParent(a)>>}

Declarable ==
  {main :> d @@ parent :> Class(<<Plain(a)>>, <<a>>, <<>>) :
     d \in Mains(BOOLEAN, {<<>>}) \cup {Empty}}
    \cup {main :> d @@ parent :> p : d \in Mains({FALSE}, References), p \in Parents}

(* Consistent and not, each an alteration of another one.                  *)
Serial(name) == [Plain(name) EXCEPT !.serial = TRUE]
Notes == Class(<<Plain(b)>>, <<>>, <<>>)

Successive ==
  {Class(<<Serial(a)>>, <<a>>, <<>>),
   Extended(Class(<<Serial(a)>>, <<a>>, <<>>), <<Notes>>),
   Extended(Class(<<Serial(a)>>, <<a>>, <<>>), <<Class(<<Serial(b)>>, <<>>, <<>>)>>),
   Class(<<Plain(a), Plain(b)>>, <<a, b>>, <<ToParent(b)>>),
   Class(<<Plain(a)>>, <<a>>, <<ToParent(b)>>)}

SuccessiveReleases ==
  {main :> d @@ parent :> p : d \in Successive,
     p \in {Class(<<Plain(a), Plain(b)>>, keys, <<>>) : keys \in {<<a>>, <<a, b>>}}}

AllReleases == Declarable \cup SuccessiveReleases
=============================================================================
