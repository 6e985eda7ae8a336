------------------------------- MODULE MCRows -------------------------------
(* Instances of Rows: text keys of which one contains the others.          *)
EXTENDS Rows, TLC

CONSTANTS ann, anna, joanna, x, xy

TextKeys == {ann, anna, joanna}
TextNotes == {x, xy}

(* value LIKE '%pattern%'.                                                 *)
Containment ==
  {<<v, v>> : v \in TextKeys \cup TextNotes}
    \cup {<<anna, ann>>, <<joanna, ann>>, <<joanna, anna>>, <<xy, x>>}

Interchangeable == Permutations(Threads)
=============================================================================
