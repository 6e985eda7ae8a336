------------------------------ MODULE MCState ------------------------------
(* An instance of State.  Its properties include liveness: no symmetry.    *)
EXTENDS State, TLC
=============================================================================
