---------------------------- MODULE MCTerraformRun ----------------------------
(* The instance of TerraformRun for TLC. *)
EXTENDS TerraformRun
=============================================================================
