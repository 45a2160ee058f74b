--------------------------- MODULE MCSecurityGroup ---------------------------
(* Instances of SecurityGroup for TLC. *)
EXTENDS SecurityGroup, TLC
=============================================================================
