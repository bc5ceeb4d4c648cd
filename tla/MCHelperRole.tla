---------------------------- MODULE MCHelperRole ----------------------------
(* Instances of HelperRole for TLC. *)
EXTENDS HelperRole
=============================================================================
