------------------------------ MODULE MCGrants ------------------------------
(* Instances of Grants for TLC. *)
EXTENDS Grants, TLC

\* All grants are for one database: its lock serializes them.
OnePostgres == [g \in Grants |-> "postgres"]
OneClickhouse == [g \in Grants |-> "clickhouse"]

\* Workers run the same operations. Grants differ by DbOf alone.
WorkerSymmetry == Permutations(Workers)
FullSymmetry == Permutations(Workers) \cup Permutations(Grants)
=============================================================================
