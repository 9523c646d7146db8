------------------------- MODULE MCSessionLifecycle -------------------------
(* The session of SessionLifecycle with a queue of a few jobs.              *)
EXTENDS SessionLifecycle
=============================================================================
