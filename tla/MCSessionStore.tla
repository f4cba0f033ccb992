--------------------------- MODULE MCSessionStore ---------------------------
(* A small instance of SessionStore for TLC.  It checks liveness too, so   *)
(* no symmetry is declared: store.cfg gives every constant its value.      *)
EXTENDS SessionStore
=============================================================================
