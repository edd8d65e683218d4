----------------------------- MODULE MCRevocation -----------------------------
(* One token, one socket, one request: enough for login, upgrade, logout and   *)
(* the frames that follow.                                                     *)
EXTENDS Revocation
=============================================================================
