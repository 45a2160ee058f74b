------------------------- MODULE MCSecurityGroupRule -------------------------
(* Instances of SecurityGroupRule for TLC. *)
EXTENDS SecurityGroupRule
=============================================================================
