---------------------------- MODULE MCStatements ----------------------------
(* Instance of Statements for TLC. *)
EXTENDS Statements

CONSTANTS t1, t2, odd, s1, s2

\* A request for one table; for two; for everything; for a table with a name
\* that is not an identifier; with a command of the other database; for too
\* long.
Ask1 == [db |-> "postgres", scope |-> "tables", tables |-> {t1},
         commands |-> {"SELECT", "INSERT"}, ttl |-> 2]
MCRequests ==
    {Ask1,
     [Ask1 EXCEPT !.tables = {t1, t2}, !.commands = {"INSERT"}],
     [Ask1 EXCEPT !.scope = "database", !.tables = {}],
     [Ask1 EXCEPT !.tables = {odd}],
     [Ask1 EXCEPT !.commands = {"ALTER UPDATE"}],
     [Ask1 EXCEPT !.ttl = 4],
     [Ask1 EXCEPT !.db = "clickhouse", !.tables = {t1, t2}],
     [Ask1 EXCEPT !.db = "clickhouse", !.scope = "database", !.commands = {"SELECT"}]}
=============================================================================
