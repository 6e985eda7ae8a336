------------------------------ MODULE MCScope ------------------------------
(* An instance of Scope.  Its properties include liveness: no symmetry.    *)
EXTENDS Scope, TLC
=============================================================================
