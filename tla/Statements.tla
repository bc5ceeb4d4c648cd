----------------------------- MODULE Statements -----------------------------
(***************************************************************************)
(* What an account may do: from the catalog that db_introspect.py reads,   *)
(* over the statements that statement_builder.py makes of it for issue, to *)
(* the account Vault creates with them, while others change the tables.    *)
(*                                                                         *)
(* The catalog of PostgreSQL is read in two statements, each with a        *)
(* snapshot of its own, and issue may wait a minute for the database lock  *)
(* before Vault runs what was built. PostgreSQL runs the statements in one *)
(* transaction, ClickHouse one by one and without a look at the tables.    *)
(* Their order does not matter: they are a set.                            *)
(***************************************************************************)
EXTENDS Naturals, FiniteSets

CONSTANTS Tables, Sequences,  \* names
          Plain,              \* those IDENTIFIER_RE matches
          Requests,           \* GrantRequests
          TtlMin, TtlMax,     \* TTL_MIN, TTL_MAX
          Free, Gone,         \* no table owns the sequence; there is none
          None,               \* no request
          MaxDdl              \* bound: changes of the schema during a request

Allowed(db) ==
    IF db = "postgres" THEN {"SELECT", "INSERT", "UPDATE", "DELETE"}
    ELSE {"SELECT", "INSERT", "ALTER UPDATE", "ALTER DELETE"}

\* What a request may list: a command, or "other" for any other text. USAGE is
\* what the portal grants on sequences.
Commands == Allowed("postgres") \cup Allowed("clickhouse") \cup {"USAGE", "other"}

Request == [db : {"postgres", "clickhouse"}, scope : {"database", "tables"},
            tables : SUBSET Tables, commands : SUBSET Commands, ttl : Nat]

ASSUME StatementsAssumption ==
    /\ Tables \cap Sequences = {}
    /\ {Free, Gone} \cap Tables = {} /\ Free # Gone
    /\ Requests \subseteq Request /\ None \notin Requests
    /\ TtlMin \in Nat /\ TtlMax \in Nat /\ MaxDdl \in Nat

VARIABLES
    tables,   \* the tables of the database
    owner,    \* the table that owns each sequence
    pc,
    req,      \* the request
    known,    \* Catalog.tables
    owned,    \* Catalog.sequences, as pairs of a table and a sequence
    todo,     \* the rights that statements are still to be run for
    account,  \* is there an account?
    rights,   \* its rights
    ddl,      \* changes of the schema since the request
    changed,  \* history: the tables and sequences they were about
    was       \* history: the pairs of a table and its sequence since the request

schema  == <<tables, owner, ddl, changed, was>>
catalog == <<known, owned>>
vars    == <<schema, pc, req, catalog, todo, account, rights>>

Right == [on : Tables \cup Sequences, may : Commands]

TypeOK ==
    /\ tables \subseteq Tables
    /\ owner \in [Sequences -> Tables \cup {Free, Gone}]
    /\ \A s \in Sequences : owner[s] \in Tables => owner[s] \in tables
    /\ pc \in {"idle", "tables", "sequences", "build", "create", "issued", "failed"}
    /\ req \in Requests \cup {None} /\ (pc = "idle" \/ req # None)
    /\ known \subseteq Tables \cap Plain
    /\ owned \subseteq Tables \X Sequences
    /\ todo \subseteq Right /\ rights \subseteq Right
    /\ account \in BOOLEAN
    /\ ddl \in 0 .. MaxDdl
    /\ changed \subseteq Tables \cup Sequences
    /\ was \subseteq Tables \X Sequences

Pairs == {p \in tables \X Sequences : owner[p[2]] = p[1]}

Init ==
    /\ tables \in SUBSET Tables
    /\ owner \in [Sequences -> tables \cup {Free, Gone}]
    /\ pc = "idle"
    /\ req = None
    /\ known = {} /\ owned = {}
    /\ todo = {} /\ account = FALSE /\ rights = {}
    /\ ddl = 0 /\ changed = {} /\ was = Pairs
-----------------------------------------------------------------------------
(* Others change the schema                                                *)

Alter(objects) ==
    /\ ddl < MaxDdl /\ ddl' = ddl + 1
    /\ changed' = changed \cup objects
    /\ was' = was \cup Pairs'
    /\ UNCHANGED <<pc, req, catalog, todo, account>>

CreateTable(t) ==
    /\ t \notin tables
    /\ tables' = tables \cup {t}
    /\ UNCHANGED <<owner, rights>>
    /\ Alter({t})

\* DROP TABLE, with its sequences and, in PostgreSQL, the rights on them.
DropTable(t) ==
    LET with == {s \in Sequences : owner[s] = t}
    IN  /\ t \in tables
        /\ tables' = tables \ {t}
        /\ owner' = [s \in Sequences |-> IF s \in with THEN Gone ELSE owner[s]]
        /\ rights' = IF req # None /\ req.db = "postgres"
                     THEN {r \in rights : r.on \notin {t} \cup with} ELSE rights
        /\ Alter({t} \cup with)

\* CREATE SEQUENCE, a serial column, or ALTER SEQUENCE ... OWNED BY.
GiveSequence(s, t) ==
    /\ owner[s] # t
    /\ owner' = [owner EXCEPT ![s] = t]
    /\ UNCHANGED <<tables, rights>>
    /\ Alter({s})
-----------------------------------------------------------------------------
(* issue                                                                   *)

\* A request with a TTL that validate_ttl lets pass. Its history begins.
Ask(r) ==
    /\ pc = "idle"
    /\ r.ttl \in TtlMin .. TtlMax
    /\ req' = r
    /\ pc' = "tables"
    /\ ddl' = 0 /\ changed' = {} /\ was' = Pairs
    /\ UNCHANGED <<tables, owner, catalog, todo, account, rights>>

\* Faulty: names are not filtered.
ReadTablesAll ==
    /\ pc = "tables"
    /\ known' = tables
    /\ pc' = IF req.db = "postgres" THEN "sequences" ELSE "build"
    /\ UNCHANGED <<schema, req, owned, todo, account, rights>>

\* The first query of postgres_catalog, the only one of clickhouse_catalog.
ReadTables ==
    /\ pc = "tables"
    /\ known' = tables \cap Plain
    /\ pc' = IF req.db = "postgres" THEN "sequences" ELSE "build"
    /\ UNCHANGED <<schema, req, owned, todo, account, rights>>

\* Faulty: a table's next sequence replaces the one before.
ReadLastSequence ==
    /\ pc = "sequences"
    /\ \E ps \in SUBSET {p \in Pairs : p[1] \in known /\ p[2] \in Plain} :
          /\ \A p, q \in ps : p[1] = q[1] => p = q
          /\ owned' = ps
    /\ pc' = "build"
    /\ UNCHANGED <<schema, req, known, todo, account, rights>>

\* The second one: the sequences that the tables of the first own by now.
ReadSequences ==
    /\ pc = "sequences"
    /\ owned' = {p \in Pairs : p[1] \in known /\ p[2] \in Plain}
    /\ pc' = "build"
    /\ UNCHANGED <<schema, req, known, todo, account, rights>>

\* Faulty: tables that are not known are passed over.
ChosenKnown(r) == IF r.scope = "database" THEN known ELSE r.tables \cap known

\* _tables: every known table, or the ones of the request.
Chosen(r) == IF r.scope = "database" THEN known ELSE r.tables

\* _commands and _tables raise ValueError.
Refused(r) ==
    \/ r.commands = {} \/ ~(r.commands \subseteq Allowed(r.db))
    \/ Chosen(r) = {} \/ ~(Chosen(r) \subseteq known \cap Plain)

\* Faulty: the sequences of every table.
AllSequences(r) == {p[2] : p \in owned}

\* Only sequences owned by the granted tables, and only for INSERT.
SequencesOf(r) ==
    IF r.db = "postgres" /\ "INSERT" \in r.commands
    THEN {p[2] : p \in {q \in owned : q[1] \in Chosen(r)}} ELSE {}

\* build_statements, without the statements that are always the same.
Build ==
    /\ pc = "build"
    /\ IF Refused(req) THEN pc' = "failed" /\ UNCHANGED todo
       ELSE /\ todo' = [on : Chosen(req), may : req.commands]
                         \cup [on : SequencesOf(req), may : {"USAGE"}]
            /\ pc' = "create"
    /\ UNCHANGED <<schema, req, catalog, account, rights>>

\* The catalog cannot be read, the lock is not to be had, a call of issue or a
\* statement fails.
Fail ==
    /\ pc \in {"tables", "sequences", "create"}
    /\ pc' = "failed"
    /\ UNCHANGED <<schema, req, catalog, todo, account, rights>>

Exists(o) == IF o \in Tables THEN o \in tables ELSE owner[o] # Gone

\* PostgreSQL: all of the statements, or none of them (Fail).
CreateRole ==
    /\ pc = "create" /\ req.db = "postgres"
    /\ \A r \in todo : Exists(r.on)
    /\ account' = TRUE
    /\ rights' = todo
    /\ todo' = {}
    /\ pc' = "issued"
    /\ UNCHANGED <<schema, req, catalog>>

\* ClickHouse: CREATE USER, then one GRANT for each table.
CreateUser ==
    /\ pc = "create" /\ req.db = "clickhouse"
    /\ ~account
    /\ account' = TRUE
    /\ UNCHANGED <<schema, pc, req, catalog, todo, rights>>

GrantOn(t) ==
    LET these == {r \in todo : r.on = t}
    IN  /\ pc = "create" /\ req.db = "clickhouse" /\ account
        /\ these # {}
        /\ rights' = rights \cup these
        /\ todo' = todo \ these
        /\ UNCHANGED <<schema, pc, req, catalog, account>>

CredentialsRead ==
    /\ pc = "create" /\ req.db = "clickhouse" /\ account
    /\ todo = {}
    /\ pc' = "issued"
    /\ UNCHANGED <<schema, req, catalog, todo, account, rights>>

\* The TTL is over, the grant is revoked, or the failed one is torn down.
End ==
    /\ pc \in {"issued", "failed"}
    /\ pc' = "idle"
    /\ req' = None
    /\ known' = {} /\ owned' = {}
    /\ todo' = {} /\ account' = FALSE /\ rights' = {}
    /\ ddl' = 0 /\ changed' = {} /\ was' = Pairs
    /\ UNCHANGED <<tables, owner>>

Next ==
    \/ \E t \in Tables : CreateTable(t) \/ DropTable(t)
    \/ \E s \in Sequences, t \in tables \cup {Free, Gone} : GiveSequence(s, t)
    \/ \E r \in Requests : Ask(r)
    \/ ReadTables \/ ReadSequences \/ Build \/ Fail
    \/ CreateRole \/ CreateUser \/ (\E t \in Tables : GrantOn(t)) \/ CredentialsRead
    \/ End

Spec == Init /\ [][Next]_vars
-----------------------------------------------------------------------------
\* A right the request asks for: a listed command on a listed table, or USAGE of
\* a sequence for an INSERT into a table that owned it at some moment since.
Asked(r) ==
    \/ /\ r.on \in Tables /\ r.may \in req.commands
       /\ req.scope = "tables" => r.on \in req.tables
    \/ /\ r.on \in Sequences /\ r.may = "USAGE" /\ "INSERT" \in req.commands
       /\ \E p \in was : p[2] = r.on /\ (req.scope = "tables" => p[1] \in req.tables)

\* Whatever happens to the tables meanwhile, an account has no right that was
\* not asked for.
OnlyWhatWasAsked == \A r \in rights : Asked(r)

\* Credentials are handed out for nothing less than the request: each listed
\* table, or each table there was all the time, with each command.
IssuedIsComplete ==
    pc = "issued" =>
        \A t \in (IF req.scope = "tables" THEN req.tables ELSE tables \cap Plain) \ changed :
            [on : {t}, may : req.commands] \subseteq rights

\* An INSERT finds the sequences of its table usable, those with names that no
\* statement may contain excepted, unless they were changed on the way.
InsertsWork ==
    pc = "issued" /\ req.db = "postgres" =>
        \A p \in Pairs :
            [on |-> p[1], may |-> "INSERT"] \in rights /\ p[2] \in Plain \ changed
                /\ p[1] \notin changed
            => [on |-> p[2], may |-> "USAGE"] \in rights
=============================================================================
