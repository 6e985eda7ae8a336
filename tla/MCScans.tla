------------------------------- MODULE MCScans -------------------------------
(* Instances of Scans: a text that contains another one, and no text.      *)
EXTENDS Scans, TLC

CONSTANTS x, xy, null

Containment == {<<x, x>>, <<xy, xy>>, <<xy, x>>, <<null, null>>}

NullFirst == {<<null, x>>, <<null, xy>>, <<x, xy>>}
=============================================================================
