---------------------------- MODULE MCKeyExpiry ----------------------------
(* KeyExpiry on small instances. *)
EXTENDS KeyExpiry
=============================================================================
