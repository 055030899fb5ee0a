-------------------------- MODULE MCConnectionPool --------------------------
(* ConnectionPool on small instances; liveness is checked with safety, so no *)
(* symmetry.                                                                 *)
EXTENDS ConnectionPool
=============================================================================
