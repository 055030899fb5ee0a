---------------------------- MODULE MCHandshake -----------------------------
(* Handshake on small instances; addresses are ordered, so no symmetry. *)
EXTENDS Handshake
=============================================================================
