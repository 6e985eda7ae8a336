--------------------------- MODULE MCRestriction ---------------------------
(* An instance of Restriction: a compound, a model of the class of one of  *)
(* its parts, and a model of another class that is filled from them.       *)
EXTENDS Restriction, TLC

CONSTANTS user, login, card, x, y, z, one, secret, pass

Field(n, l, ignore) == [name |-> n, level |-> l, ignore |-> ignore]

AllFields ==
  user :> {Field(secret, 2, FALSE)}
    @@ login :> {Field(pass, 2, TRUE)}
    @@ card :> {Field(secret, 1, FALSE)}

AllSingles == x :> user @@ z :> card
=============================================================================
