------------------------------ MODULE MCPhotos ------------------------------
(* Days of two minutes, so that requests cross both boundaries; limits that   *)
(* a handful of requests reaches.                                             *)
EXTENDS Photos, TLC

Symmetry == Permutations(Req)
=============================================================================
