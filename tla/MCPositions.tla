---------------------------- MODULE MCPositions ----------------------------
(* One vehicle, two places and the circle that holds one of them: a crossing  *)
(* happens both ways.  Two writes overlap out of three, so the one in between *)
(* may be slow, fail or die.                                                  *)
EXTENDS Positions

Places == {"depot", "road"}
Areas == {{"depot"}}
=============================================================================
