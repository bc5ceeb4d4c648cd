--------------------------- MODULE MCVaultService ---------------------------
(* Instances of VaultService for TLC. *)
EXTENDS VaultService
=============================================================================
