------------------------------ MODULE MCFleetHub ------------------------------
(* Two sockets on one token, which share its cached verdict; a re-check every  *)
(* second frame and three frames a socket, so that the entry may be written    *)
(* before, between and after the sampled frames 1 and 3; a clock long enough   *)
(* for a cached verdict and an entry to expire.                                *)
EXTENDS FleetHub, TLC

Symmetry == Permutations(Sock)
=============================================================================
