----------------------------- MODULE MCRateLimit -----------------------------
(* Two tokens, three ticks each, two requests at once: a full bucket, an empty *)
(* one and a fraction that Retry-After must round; long enough for an entry to *)
(* expire.                                                                     *)
EXTENDS RateLimit, TLC

Symmetry == Permutations(Req)
=============================================================================
