------------------------ MODULE MCPreparedStatements ------------------------
(* PreparedStatements on small instances; liveness is checked with safety,   *)
(* so no symmetry.                                                           *)
EXTENDS PreparedStatements
=============================================================================
