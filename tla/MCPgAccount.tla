---------------------------- MODULE MCPgAccount -----------------------------
(* Instance of PgAccount for TLC. *)
EXTENDS PgAccount
=============================================================================
