------------------------------ MODULE MCSession ------------------------------
(* Two tokens and two concurrent requests; a second is two ticks, a token    *)
(* lives three seconds and KV's floor is two, so both arms of Put's lifetime  *)
(* (raised, truncated) are used.                                              *)
EXTENDS Session, TLC

Symmetry == Permutations(Req) \cup Permutations(Token)
=============================================================================
