----------------------------- MODULE MCLiveStore -----------------------------
(* Three handles: a socket of each of two earlier visits may still be closing  *)
(* while the third connects.                                                   *)
EXTENDS LiveStore
=============================================================================
