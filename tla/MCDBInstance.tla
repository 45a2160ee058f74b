----------------------------- MODULE MCDBInstance -----------------------------
(* The instance of DBInstance for TLC. *)
EXTENDS DBInstance
=============================================================================
