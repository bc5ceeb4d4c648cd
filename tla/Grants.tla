------------------------------- MODULE Grants -------------------------------
(***************************************************************************)
(* The life of a database grant: issue, revoke and the reconciler of       *)
(* src/middleware/app/grants.py over the SQLite rows of store.py, the      *)
(* objects of Vault (role, token, lease) and the account in the database.  *)
(*                                                                         *)
(* A thread of the middleware runs one operation at a time; every call it  *)
(* makes to SQLite, Vault or the database is one action, so that the       *)
(* process may crash, another thread may run, a lease may expire or the    *)
(* call may fail between any two of them.                                  *)
(***************************************************************************)
EXTENDS Naturals, FiniteSets

CONSTANTS Grants,       \* grant identifiers
          Workers,      \* threads that serve issue and revoke requests
          Reconciler,   \* the thread of reconcile_loop
          None,         \* no thread, no grant
          DbOf,         \* the database each grant is for
          LateEffects,  \* may Vault execute a request after its client gave up?
          MaxFaults     \* bound: failed calls, timeouts and crashes in a behaviour

Dbs == {"postgres", "clickhouse"}
Threads == Workers \cup {Reconciler}

ASSUME GrantsAssumption ==
    /\ Reconciler \notin Workers
    /\ None \notin Threads \cup Grants
    /\ DbOf \in [Grants -> Dbs]
    /\ LateEffects \in BOOLEAN
    /\ MaxFaults \in Nat

VARIABLES
    status,    \* SQLite: the row's status, "none" when there is no row
    accessor,  \* SQLite: is token_accessor recorded?
    named,     \* SQLite: are username, lease_id and expires_at recorded?
    role,      \* Vault: does database/roles/<grant> exist?
    token,     \* Vault: is the grant's token alive?
    lease,     \* Vault: is the lease on the grant's credentials alive?
    pend,      \* Vault: requests of issue whose client gave up, still being executed
    acct,      \* the database account: "absent", "open" or "locked" (NOLOGIN)
    age,       \* "fresh", "lapsed" (lease TTL over), "overdue" (15 s more)
    lock,      \* _db_locks
    inflight,  \* _inflight
    pc,        \* the next call of each thread
    job,       \* the grant a thread works on
    final,     \* the status the thread's _teardown is to end with
    found,     \* has the thread's _teardown found a token to revoke?
    todo,      \* rows reconcile_once has still to look at
    live,      \* grants whose account _report_orphans counts as explained
    told,      \* history: what the client that asked for the grant was told
    reported,  \* audit rows "orphan_account"
    landed,    \* history: requests that were executed after their client gave up
    faults     \* failures and crashes that may still happen

rows  == <<status, accessor, named>>
vault == <<role, token, lease>>
late  == <<pend, landed>>
sync  == <<lock, inflight>>
local == <<job, final, found>>
round == <<todo, live>>
hist  == <<told, reported>>
vars  == <<rows, vault, late, acct, age, sync, pc, local, round, hist, faults>>

Live == {"issuing", "active", "revoking"}
Terminal == {"revoked", "expired", "failed"}
Status == Live \cup Terminal

Accounts == {"absent", "open", "locked"}
Ages == {"fresh", "lapsed", "overdue"}

\* The request a step of issue sends to Vault.
Request == [write_role |-> "role", create_token |-> "token", read_creds |-> "creds"]
Requests == {"role", "token", "creds"}

IssueTry == {"write_role", "create_token", "save_accessor", "read_creds", "activate"}
IssuePcs == IssueTry \cup {"insert", "issue_error", "audit_ok"}
TeardownTry == {"lock_out", "revoke_lease", "drop", "confirm", "revoke_token", "delete_role"}
TeardownPcs == TeardownTry \cup {"find_tokens", "settle"}
LockedPcs == IssuePcs \cup TeardownPcs \cup {"mark_revoking", "decide", "end"}
Pcs == LockedPcs \cup {"idle", "lock_wait", "respond", "pick", "orphans", "scan_pg", "scan_ch"}

Init ==
    /\ status = [g \in Grants |-> "none"]
    /\ accessor = [g \in Grants |-> FALSE]
    /\ named = [g \in Grants |-> FALSE]
    /\ role = [g \in Grants |-> FALSE]
    /\ token = [g \in Grants |-> FALSE]
    /\ lease = [g \in Grants |-> FALSE]
    /\ pend = [g \in Grants |-> {}]
    /\ acct = [g \in Grants |-> "absent"]
    /\ age = [g \in Grants |-> "fresh"]
    /\ lock = [d \in Dbs |-> None]
    /\ inflight = {}
    /\ pc = [t \in Threads |-> "idle"]
    /\ job = [t \in Threads |-> None]
    /\ final = [t \in Threads |-> "none"]
    /\ found = [t \in Threads |-> FALSE]
    /\ todo = {}
    /\ live = {}
    /\ told = [g \in Grants |-> "none"]
    /\ reported = {}
    /\ landed = [g \in Grants |-> {}]
    /\ faults = MaxFaults

-----------------------------------------------------------------------------
(* Locks and the thread's program counter.                                 *)

Goto(t, l) == pc' = [pc EXCEPT ![t] = l]

\* A call fails, a wait times out or the process dies.
Fault == faults > 0 /\ faults' = faults - 1

\* _begin: the database's lock, then the grant is in flight.
Begin(t, g) ==
    /\ lock[DbOf[g]] = None
    /\ lock' = [lock EXCEPT ![DbOf[g]] = t]
    /\ inflight' = inflight \cup {g}

\* Faulty: the grant stays in _inflight.
EndInFlight(t) ==
    /\ lock' = [lock EXCEPT ![DbOf[job[t]]] = None]
    /\ UNCHANGED inflight

\* _end
EndWork(t) ==
    /\ lock' = [lock EXCEPT ![DbOf[job[t]]] = None]
    /\ inflight' = inflight \ {job[t]}

\* The thread forgets its operation.
Forget(t) ==
    /\ job' = [job EXCEPT ![t] = None]
    /\ final' = [final EXCEPT ![t] = "none"]
    /\ found' = [found EXCEPT ![t] = FALSE]
    /\ Goto(t, IF t = Reconciler THEN "pick" ELSE "idle")

\* Faulty: expires_at is not compared with the clock.
FinalForAnyActive(g) ==
    IF status[g] = "issuing" THEN "failed"
    ELSE IF status[g] = "revoking" THEN "revoked"
    ELSE IF status[g] = "active" /\ named[g] THEN "expired"
    ELSE "none"

\* The status a row needs when it is not being worked on (_final_for).
FinalFor(g) ==
    IF status[g] = "issuing" THEN "failed"
    ELSE IF status[g] = "revoking" THEN "revoked"
    ELSE IF status[g] = "active" /\ named[g] /\ age[g] = "overdue" THEN "expired"
    ELSE "none"

Due(g) == FinalFor(g) # "none"
-----------------------------------------------------------------------------
(* issue                                                                   *)

\* A new grant id and its database's lock. What issue does before (the
\* catalog, the statements) leaves no trace.
StartIssue(w, g) ==
    /\ pc[w] = "idle"
    /\ status[g] = "none"
    /\ \A t \in Threads : job[t] # g
    /\ Begin(w, g)
    /\ job' = [job EXCEPT ![w] = g]
    /\ final' = [final EXCEPT ![w] = "failed"]
    /\ Goto(w, "insert")
    /\ UNCHANGED <<rows, vault, late, acct, age, found, round, hist, faults>>

InsertGrant(w) ==
    /\ pc[w] = "insert"
    /\ status' = [status EXCEPT ![job[w]] = "issuing"]
    /\ Goto(w, "write_role")
    /\ UNCHANGED <<accessor, named, vault, late, acct, age, sync, local, round, hist, faults>>

WriteRole(w) ==
    /\ pc[w] = "write_role"
    /\ role' = [role EXCEPT ![job[w]] = TRUE]
    /\ Goto(w, "create_token")
    /\ UNCHANGED <<rows, token, lease, late, acct, age, sync, local, round, hist, faults>>

CreateToken(w) ==
    /\ pc[w] = "create_token"
    /\ token' = [token EXCEPT ![job[w]] = TRUE]
    /\ Goto(w, "save_accessor")
    /\ UNCHANGED <<rows, role, lease, late, acct, age, sync, local, round, hist, faults>>

SaveAccessor(w) ==
    /\ pc[w] = "save_accessor"
    /\ accessor' = [accessor EXCEPT ![job[w]] = TRUE]
    /\ Goto(w, "read_creds")
    /\ UNCHANGED <<status, named, vault, late, acct, age, sync, local, round, hist, faults>>

\* Vault runs the creation statements and registers the lease. It may fail
\* after the account was committed and before the lease is registered; in
\* ClickHouse, which has no transaction, a failing GRANT is enough for that.
ReadCredentials(w) ==
    LET g == job[w]
        Opened == acct' = [acct EXCEPT ![g] = "open"]
    IN  /\ pc[w] = "read_creds"
        /\ \/ /\ token[g]
              /\ Opened
              /\ lease' = [lease EXCEPT ![g] = TRUE]
              /\ Goto(w, "activate")
              /\ UNCHANGED faults
           \/ /\ token[g]
              /\ Opened
              /\ lease' = lease
              /\ Goto(w, "issue_error")
              /\ Fault
           \/ /\ ~token[g]
              /\ Goto(w, "issue_error")
              /\ UNCHANGED <<acct, lease, faults>>
        /\ UNCHANGED <<rows, role, token, late, age, sync, local, round, hist>>

Activate(w) ==
    /\ pc[w] = "activate"
    /\ status' = [status EXCEPT ![job[w]] = "active"]
    /\ named' = [named EXCEPT ![job[w]] = TRUE]
    /\ Goto(w, "audit_ok")
    /\ UNCHANGED <<accessor, vault, late, acct, age, sync, local, round, hist, faults>>

\* The audit row "ok" and _end. A revoke that waits for the lock may mark the
\* row, and end the grant, before the password is told.
IssueDone(w) ==
    /\ pc[w] = "audit_ok"
    /\ EndWork(w)
    /\ Goto(w, "respond")
    /\ UNCHANGED <<rows, vault, late, acct, age, local, round, hist, faults>>

\* The row is read once more and the password is told, whatever the row says
\* by now. If it cannot be read, "issuing failed and was rolled back" is.
Respond(w) ==
    /\ pc[w] = "respond"
    /\ \/ told' = [told EXCEPT ![job[w]] = "password"] /\ UNCHANGED faults
       \/ told' = [told EXCEPT ![job[w]] = "rolled_back"] /\ Fault
    /\ Forget(w)
    /\ UNCHANGED <<rows, vault, late, acct, age, sync, round, reported>>

\* A call inside issue's try block raises. Its effect, if it had one, is that
\* of the action at this label: a lost reply is the action, then a failure at
\* the next label. A request that timed out may also be executed later.
IssueFails(w) ==
    /\ pc[w] \in IssueTry
    /\ Fault
    /\ Goto(w, "issue_error")
    /\ \/ UNCHANGED late
       \/ /\ LateEffects
          /\ pc[w] \in DOMAIN Request
          /\ pend' = [pend EXCEPT ![job[w]] = @ \cup {Request[pc[w]]}]
          /\ UNCHANGED landed
    /\ UNCHANGED <<rows, vault, acct, age, sync, local, round, hist>>

\* The audit row "error", then _teardown with the status failed.
IssueError(w) ==
    /\ pc[w] = "issue_error"
    /\ Goto(w, "find_tokens")
    /\ UNCHANGED <<rows, vault, late, acct, age, sync, local, round, hist, faults>>
-----------------------------------------------------------------------------
(* revoke                                                                  *)

\* Faulty: the row is marked before the lock is held.
StartRevokeMarking(w, g) ==
    /\ pc[w] = "idle"
    /\ status[g] \in Live
    /\ status' = [status EXCEPT ![g] = "revoking"]
    /\ job' = [job EXCEPT ![w] = g]
    /\ final' = [final EXCEPT ![w] = "revoked"]
    /\ Goto(w, "lock_wait")
    /\ UNCHANGED <<accessor, named, vault, late, acct, age, sync, found, round, hist, faults>>

\* The status is read before the lock is asked for: a row that is already
\* terminal is returned as it is.
StartRevoke(w, g) ==
    /\ pc[w] = "idle"
    /\ status[g] \in Live
    /\ job' = [job EXCEPT ![w] = g]
    /\ final' = [final EXCEPT ![w] = "revoked"]
    /\ Goto(w, "lock_wait")
    /\ UNCHANGED <<rows, vault, late, acct, age, sync, found, round, hist, faults>>

\* _begin of revoke and of reconcile_one.
Acquire(t) ==
    /\ pc[t] = "lock_wait"
    /\ Begin(t, job[t])
    /\ Goto(t, IF t = Reconciler THEN "decide" ELSE "mark_revoking")
    /\ UNCHANGED <<rows, vault, late, acct, age, local, round, hist, faults>>

\* _begin gives up after 60 s: Busy.
Timeout(t) ==
    /\ pc[t] = "lock_wait"
    /\ lock[DbOf[job[t]]] # None
    /\ Fault
    /\ job' = [job EXCEPT ![t] = None]
    /\ final' = [final EXCEPT ![t] = "none"]
    /\ Goto(t, IF t = Reconciler THEN "pick" ELSE "idle")
    /\ UNCHANGED <<rows, vault, late, acct, age, sync, found, round, hist>>

\* Faulty: a word that is not a status is written.
MarkStarted(w) ==
    /\ pc[w] = "mark_revoking"
    /\ status' = [status EXCEPT ![job[w]] = "started"]
    /\ Goto(w, "find_tokens")
    /\ UNCHANGED <<accessor, named, vault, late, acct, age, sync, local, round, hist, faults>>

\* Faulty: the row is not marked before the cleanup starts.
MarkNothing(w) ==
    /\ pc[w] = "mark_revoking"
    /\ Goto(w, "find_tokens")
    /\ UNCHANGED <<rows, vault, late, acct, age, sync, local, round, hist, faults>>

MarkRevoking(w) ==
    /\ pc[w] = "mark_revoking"
    /\ status' = [status EXCEPT ![job[w]] = "revoking"]
    /\ Goto(w, "find_tokens")
    /\ UNCHANGED <<accessor, named, vault, late, acct, age, sync, local, round, hist, faults>>
-----------------------------------------------------------------------------
(* _teardown                                                               *)

\* Faulty: a token whose accessor was not recorded is not looked for.
FindRecordedToken(t) ==
    /\ pc[t] = "find_tokens"
    /\ found' = [found EXCEPT ![t] = accessor[job[t]]]
    /\ Goto(t, "lock_out")
    /\ UNCHANGED <<rows, vault, late, acct, age, sync, job, final, round, hist, faults>>

\* The row's accessor, or else a search of the live tokens by display name.
FindTokens(t) ==
    /\ pc[t] = "find_tokens"
    /\ found' = [found EXCEPT ![t] = accessor[job[t]] \/ token[job[t]]]
    /\ Goto(t, "lock_out")
    /\ UNCHANGED <<rows, vault, late, acct, age, sync, job, final, round, hist, faults>>

LockOut(g) ==
    acct' = [acct EXCEPT ![g] =
                IF DbOf[g] = "postgres" /\ acct[g] = "open" THEN "locked" ELSE @]

LockOutAccounts(t) ==
    /\ pc[t] = "lock_out"
    /\ LockOut(job[t])
    /\ Goto(t, "revoke_lease")
    /\ UNCHANGED <<rows, vault, late, age, sync, local, round, hist, faults>>

\* The leases Vault lists and the row's, revoked synchronously: Vault runs the
\* revocation statements. A lease that is gone already is no error.
RevokeLeases(t) ==
    /\ pc[t] = "revoke_lease"
    /\ lease' = [lease EXCEPT ![job[t]] = FALSE]
    /\ acct' = [acct EXCEPT ![job[t]] = IF lease[job[t]] THEN "absent" ELSE @]
    /\ Goto(t, "drop")
    /\ UNCHANGED <<rows, role, token, late, age, sync, local, round, hist, faults>>

\* Faulty: an account without a lease is not dropped.
TrustLeases(t) ==
    /\ pc[t] = "drop"
    /\ Goto(t, "confirm")
    /\ UNCHANGED <<rows, vault, late, acct, age, sync, local, round, hist, faults>>

\* Accounts that are still there: locked out (committed), then dropped.
DropAccounts(t) ==
    LET g == job[t]
    IN  /\ pc[t] = "drop"
        /\ \/ /\ DbOf[g] = "postgres" /\ acct[g] = "open"
              /\ LockOut(g)
              /\ UNCHANGED pc
           \/ /\ ~(DbOf[g] = "postgres" /\ acct[g] = "open")
              /\ acct' = [acct EXCEPT ![g] = "absent"]
              /\ Goto(t, "confirm")
        /\ UNCHANGED <<rows, vault, late, age, sync, local, round, hist, faults>>

Confirm(t) ==
    /\ pc[t] = "confirm"
    /\ acct[job[t]] = "absent"
    /\ Goto(t, "revoke_token")
    /\ UNCHANGED <<rows, vault, late, acct, age, sync, local, round, hist, faults>>

RevokeToken(t) ==
    /\ pc[t] = "revoke_token"
    /\ token' = [token EXCEPT ![job[t]] = @ /\ ~found[t]]
    /\ Goto(t, "delete_role")
    /\ UNCHANGED <<rows, role, lease, late, acct, age, sync, local, round, hist, faults>>

DeleteRole(t) ==
    /\ pc[t] = "delete_role"
    /\ role' = [role EXCEPT ![job[t]] = FALSE]
    /\ Goto(t, "settle")
    /\ UNCHANGED <<rows, token, lease, late, acct, age, sync, local, round, hist, faults>>

Settle(t) ==
    /\ pc[t] = "settle"
    /\ status' = [status EXCEPT ![job[t]] = final[t]]
    /\ Goto(t, "end")
    /\ UNCHANGED <<accessor, named, vault, late, acct, age, sync, local, round, hist, faults>>

\* A call of _teardown raises, before its effect or (at the next label) after
\* it, or the accounts are not gone: the row stays revoking.
GiveUp(t) ==
    /\ \/ /\ pc[t] \in TeardownTry \cup {"find_tokens", "settle"}
          /\ Fault
       \/ /\ pc[t] = "confirm" /\ acct[job[t]] # "absent"
          /\ UNCHANGED faults
    /\ status' = [status EXCEPT ![job[t]] = "revoking"]
    /\ Goto(t, "end")
    /\ UNCHANGED <<accessor, named, vault, late, acct, age, sync, local, round, hist>>

\* A call to SQLite outside every try block raises.
StoreFails(t) ==
    /\ pc[t] \in TeardownPcs \cup {"insert", "issue_error", "audit_ok", "mark_revoking", "decide"}
    /\ Fault
    /\ Goto(t, "end")
    /\ UNCHANGED <<rows, vault, late, acct, age, sync, local, round, hist>>

\* _end after a failed issue, a revoke or a reconcile_one. An exception of
\* issue that is not VaultUnavailable is answered "issuing failed and was
\* rolled back".
End(t) ==
    /\ pc[t] = "end"
    /\ \/ told' = told
       \/ /\ t \in Workers /\ final[t] = "failed"
          /\ status[job[t]] # "none"
          /\ told' = [told EXCEPT ![job[t]] = "rolled_back"]
    /\ EndWork(t)
    /\ Forget(t)
    /\ UNCHANGED <<rows, vault, late, acct, age, round, reported, faults>>
-----------------------------------------------------------------------------
(* reconcile_once                                                          *)

\* The rows that need work, from one read of the table.
StartRound(t) ==
    /\ t = Reconciler
    /\ pc[t] = "idle"
    /\ todo' = {g \in Grants : Due(g)}
    /\ Goto(t, "pick")
    /\ UNCHANGED <<rows, vault, late, acct, age, sync, local, live, hist, faults>>

\* The next row; one that is in flight is left to its thread.
PickRow(t) ==
    /\ pc[t] = "pick"
    /\ \E g \in todo :
          /\ todo' = todo \ {g}
          /\ IF g \in inflight
             THEN UNCHANGED <<pc, job>>
             ELSE Goto(t, "lock_wait") /\ job' = [job EXCEPT ![t] = g]
    /\ UNCHANGED <<rows, vault, late, acct, age, sync, final, found, live, hist, faults>>

RowsDone(t) ==
    /\ pc[t] = "pick"
    /\ todo = {}
    /\ Goto(t, "orphans")
    /\ UNCHANGED <<rows, vault, late, acct, age, sync, local, round, hist, faults>>

\* Faulty: the row is not read again under the lock.
DecideUnread(t) ==
    /\ pc[t] = "decide"
    /\ final' = [final EXCEPT ![t] = "failed"]
    /\ Goto(t, "find_tokens")
    /\ UNCHANGED <<rows, vault, late, acct, age, sync, job, found, round, hist, faults>>

\* reconcile_one: the row is read again under the lock.
Decide(t) ==
    /\ pc[t] = "decide"
    /\ final' = [final EXCEPT ![t] = FinalFor(job[t])]
    /\ Goto(t, IF Due(job[t]) THEN "find_tokens" ELSE "end")
    /\ UNCHANGED <<rows, vault, late, acct, age, sync, job, found, round, hist, faults>>

\* Faulty: a row of any status explains an account.
ReadAllRows(t) ==
    /\ pc[t] = "orphans"
    /\ live' = {g \in Grants : status[g] # "none"}
    /\ Goto(t, "scan_pg")
    /\ UNCHANGED <<rows, vault, late, acct, age, sync, local, todo, hist, faults>>

\* _report_orphans reads the live rows first; one that is issuing has no
\* username yet, so the check is skipped.
ReadLiveRows(t) ==
    /\ pc[t] = "orphans"
    /\ IF \E g \in Grants : status[g] = "issuing"
       THEN Goto(t, "idle") /\ live' = {}
       ELSE /\ live' = {g \in Grants : status[g] \in Live /\ named[g]}
            /\ Goto(t, "scan_pg")
    /\ UNCHANGED <<rows, vault, late, acct, age, sync, local, todo, hist, faults>>

Unexplained(db) == {g \in Grants \ live : DbOf[g] = db /\ acct[g] # "absent"}

\* ... then the accounts of one database after the other; a scan that fails
\* is skipped.
ScanAccounts(t) ==
    /\ pc[t] \in {"scan_pg", "scan_ch"}
    /\ LET db == IF pc[t] = "scan_pg" THEN "postgres" ELSE "clickhouse"
       IN  \/ reported' = reported \cup Unexplained(db) /\ UNCHANGED faults
           \/ reported' = reported /\ Fault
    /\ IF pc[t] = "scan_pg"
       THEN Goto(t, "scan_ch") /\ live' = live
       ELSE Goto(t, "idle") /\ live' = {}
    /\ UNCHANGED <<rows, vault, late, acct, age, sync, local, todo, told>>
-----------------------------------------------------------------------------
(* Vault, the databases and the machine                                    *)

\* Time passes for the credentials of a grant: the lease's TTL ends, and later
\* expires_at + 15 s is over.
Tick(g) ==
    /\ \/ age[g] = "fresh" /\ lease[g] /\ age' = [age EXCEPT ![g] = "lapsed"]
       \/ age[g] = "lapsed" /\ status[g] = "active" /\ age' = [age EXCEPT ![g] = "overdue"]
    /\ UNCHANGED <<rows, vault, late, acct, sync, pc, local, round, hist, faults>>

\* Vault revokes a lease on its own when its TTL ends or its token is gone.
LeaseExpires(g) ==
    /\ lease[g]
    /\ age[g] # "fresh" \/ ~token[g]
    /\ lease' = [lease EXCEPT ![g] = FALSE]
    /\ acct' = [acct EXCEPT ![g] = "absent"]
    /\ UNCHANGED <<rows, role, token, late, age, sync, pc, local, round, hist, faults>>

\* The token's TTL is the lease's and 120 s.
TokenExpires(g) ==
    /\ token[g]
    /\ age[g] # "fresh" \/ ~lease[g]
    /\ token' = [token EXCEPT ![g] = FALSE]
    /\ UNCHANGED <<rows, role, lease, late, acct, age, sync, pc, local, round, hist, faults>>

\* Vault executes a request whose client gave up.
LateLands(g, r) ==
    /\ r \in pend[g]
    /\ pend' = [pend EXCEPT ![g] = @ \ {r}]
    /\ landed' = [landed EXCEPT ![g] = @ \cup {r}]
    /\ role' = [role EXCEPT ![g] = @ \/ r = "role"]
    /\ token' = [token EXCEPT ![g] = @ \/ r = "token"]
    /\ IF r = "creds" /\ role[g] /\ token[g]
       THEN /\ acct' = [acct EXCEPT ![g] = "open"]
            /\ lease' = [lease EXCEPT ![g] = TRUE]
       ELSE UNCHANGED <<acct, lease>>
    /\ UNCHANGED <<rows, age, sync, pc, local, round, hist, faults>>

\* The process dies and is started again: rows, Vault and the databases stay.
\* What it had asked of Vault may still be executed.
Crash ==
    /\ Fault
    /\ \E asking \in SUBSET {w \in Workers : pc[w] \in DOMAIN Request} :
          /\ ~LateEffects => asking = {}
          /\ pend' = [g \in Grants |->
                         pend[g] \cup {Request[pc[w]] : w \in {v \in asking : job[v] = g}}]
    /\ lock' = [d \in Dbs |-> None]
    /\ inflight' = {}
    /\ pc' = [t \in Threads |-> "idle"]
    /\ job' = [t \in Threads |-> None]
    /\ final' = [t \in Threads |-> "none"]
    /\ found' = [t \in Threads |-> FALSE]
    /\ todo' = {}
    /\ live' = {}
    /\ UNCHANGED <<rows, vault, landed, acct, age, hist>>

-----------------------------------------------------------------------------
IssueStep(w) ==
    \/ InsertGrant(w) \/ WriteRole(w) \/ CreateToken(w) \/ SaveAccessor(w)
    \/ ReadCredentials(w) \/ Activate(w) \/ IssueDone(w) \/ Respond(w)
    \/ IssueFails(w) \/ IssueError(w)

TeardownStep(t) ==
    \/ FindTokens(t) \/ LockOutAccounts(t) \/ RevokeLeases(t) \/ DropAccounts(t)
    \/ Confirm(t) \/ RevokeToken(t) \/ DeleteRole(t) \/ Settle(t) \/ GiveUp(t)
    \/ StoreFails(t) \/ End(t)

ReconcileStep(t) ==
    StartRound(t) \/ PickRow(t) \/ RowsDone(t) \/ Decide(t) \/ ReadLiveRows(t) \/ ScanAccounts(t)

\* The operation a thread has begun goes on.
Step(t) ==
    IssueStep(t) \/ Acquire(t) \/ Timeout(t) \/ MarkRevoking(t) \/ TeardownStep(t) \/ ReconcileStep(t)

Environment ==
    \/ \E g \in Grants :
          Tick(g) \/ LeaseExpires(g) \/ TokenExpires(g) \/ \E r \in Requests : LateLands(g, r)
    \/ Crash

Next ==
    \/ \E w \in Workers, g \in Grants : StartIssue(w, g) \/ StartRevoke(w, g)
    \/ \E t \in Threads : Step(t)
    \/ Environment

Spec == Init /\ [][Next]_vars

\* A thread that has begun goes on, the reconciler starts round after round
\* (reconcile_loop), and a lock that is released again and again is given to
\* the reconciler at some time, as its 60 s timeout outlasts the operations of
\* the others when no call fails.
Fairness ==
    /\ \A t \in Threads : WF_vars(Step(t))
    /\ SF_vars(Acquire(Reconciler))

FairSpec == Spec /\ Fairness
-----------------------------------------------------------------------------
(* What the rows promise about Vault, the databases and the clients.       *)

\* Types of the state: rows, Vault objects, accounts and the threads' memory.
TypeOK ==
    /\ status \in [Grants -> Status \cup {"none"}]
    /\ accessor \in [Grants -> BOOLEAN]
    /\ named \in [Grants -> BOOLEAN]
    /\ role \in [Grants -> BOOLEAN]
    /\ token \in [Grants -> BOOLEAN]
    /\ lease \in [Grants -> BOOLEAN]
    /\ pend \in [Grants -> SUBSET Requests]
    /\ acct \in [Grants -> Accounts]
    /\ age \in [Grants -> Ages]
    /\ lock \in [Dbs -> Threads \cup {None}]
    /\ inflight \subseteq Grants
    /\ pc \in [Threads -> Pcs]
    /\ job \in [Threads -> Grants \cup {None}]
    /\ final \in [Threads -> Terminal \cup {"none"}]
    /\ found \in [Threads -> BOOLEAN]
    /\ todo \subseteq Grants
    /\ live \subseteq Grants
    /\ told \in [Grants -> {"none", "password", "rolled_back"}]
    /\ reported \subseteq Grants
    /\ landed \in [Grants -> SUBSET Requests]
    /\ faults \in 0 .. MaxFaults

\* Did Vault execute the request of g's issue after its client gave up?
Landed(g, r) == r \in landed[g]

\* A row becomes revoked, expired or failed only when the cleanup is confirmed:
\* nothing of the grant is left in Vault or the database, whatever crashed,
\* failed or was retried on the way, but what a request made that Vault executed
\* after its client gave up (see LeftoverIsNoticed).
TerminalIsClean ==
    \A g \in Grants : status[g] \in Terminal =>
        /\ role[g] => Landed(g, "role")
        /\ token[g] => Landed(g, "token")
        /\ lease[g] \/ acct[g] # "absent" => Landed(g, "creds")

\* Until its TTL ends, an active grant works: no reconciler round, failed issue
\* or revoke of something else has taken its account, lease, role or token.
ActiveIsBacked ==
    \A g \in Grants :
        status[g] = "active" /\ age[g] = "fresh" =>
            acct[g] = "open" /\ lease[g] /\ role[g] /\ token[g]

\* A password is handed out only for a grant whose row names the account, the
\* lease and the token, and that is not called failed then or later, so that
\* it can be listed and revoked.
PasswordIsTracked ==
    \A g \in Grants :
        told[g] = "password" =>
            status[g] \in {"active", "revoking", "revoked", "expired"} /\ named[g] /\ accessor[g]

Level == [absent |-> 0, locked |-> 1, open |-> 2]

\* Once a row is revoking or terminal the account only loses access: no issue
\* still at work, retry or round of the reconciler opens it again. Only Vault
\* can, at the moment it executes the request whose client gave up.
AccessOnlyShrinks ==
    [][\A g \in Grants :
          status[g] \in Terminal \cup {"revoking"} /\ Landed(g, "creds")' = Landed(g, "creds")
              => Level[acct'[g]] <= Level[acct[g]]]_vars

\* Whatever a crash or a failure left behind, the reconciler finishes it once
\* the calls succeed: a row that needs work does not need it for ever.
DueIsFinished ==
    \A g \in Grants : Due(g) ~> ~Due(g)

\* An account that appeared after its grant's cleanup does not go unnoticed:
\* it is reported as an orphan, or is gone.
LeftoverIsNoticed ==
    \A g \in Grants :
        status[g] \in Terminal /\ acct[g] # "absent"
            ~> g \in reported \/ acct[g] = "absent"

\* The lock's holder alone works on a grant of that database; only the
\* reconciler goes through rows.
Exclusive ==
    \A t \in Threads :
        /\ pc[t] \in LockedPcs => job[t] \in Grants /\ lock[DbOf[job[t]]] = t
        /\ pc[t] \in {"lock_wait", "respond"} => job[t] \in Grants
        /\ pc[t] \in {"pick", "decide"} => t = Reconciler

\* No request of g's issue was given up.
Punctual(g) == pend[g] = {} /\ landed[g] = {}

\* What a thread in issue knows of its grant.
IssueKnows(t) ==
    LET g == job[t]
    IN  /\ pc[t] \in IssuePcs \cup {"respond"} => t \in Workers /\ final[t] = "failed"
        /\ pc[t] = "insert" => status[g] = "none"
        /\ pc[t] \in IssueTry \cup {"issue_error"} => status[g] = "issuing"
        /\ pc[t] = "audit_ok" => status[g] = "active"
        /\ pc[t] = "respond" => named[g]
        /\ pc[t] \in {"create_token", "save_accessor", "read_creds", "activate"} => role[g]
        /\ pc[t] \in {"read_creds", "activate"} => accessor[g]
        /\ pc[t] = "activate" /\ age[g] = "fresh" => acct[g] = "open" /\ lease[g] /\ token[g]
        /\ pc[t] \in IssueTry => Punctual(g)
        /\ pc[t] \in {"write_role", "create_token", "save_accessor", "read_creds"} =>
              acct[g] = "absent"

\* A grant is issued once: nobody but the worker that issues it, which alone is
\* to end with failed, tells its password.
IssuedOnce(w) ==
    final[w] = "failed" =>
        /\ job[w] \in Grants
        /\ told[job[w]] # "password"
        /\ \A v \in Workers \ {w} : final[v] = "failed" => job[v] # job[w]

\* What a thread in _teardown knows: which rows it may end, and which status
\* it may write.
TeardownKnows(t) ==
    LET g == job[t]
    IN  /\ pc[t] = "lock_wait" /\ t \in Workers => final[t] = "revoked" /\ status[g] # "none"
        /\ pc[t] = "mark_revoking" => final[t] = "revoked" /\ status[g] # "none"
        /\ pc[t] \in TeardownPcs =>
              /\ status[g] \in Live
              /\ status[g] = "active" => age[g] # "fresh"
              /\ final[t] \in Terminal
              /\ final[t] = "failed" => status[g] = "issuing"

\* What _teardown has removed so far, in its order.
Removed(t) ==
    LET g == job[t]
    IN  /\ pc[t] \in {"lock_out", "revoke_lease", "drop", "confirm", "revoke_token"} =>
              (token[g] => found[t] \/ Landed(g, "token"))
        /\ pc[t] \in {"revoke_lease", "drop"} /\ DbOf[g] = "postgres" =>
              (acct[g] = "open" => Landed(g, "creds"))
        /\ pc[t] \in {"drop", "confirm", "revoke_token", "delete_role", "settle"} =>
              (lease[g] => Landed(g, "creds"))
        /\ pc[t] \in {"confirm", "revoke_token", "delete_role", "settle"} =>
              (acct[g] # "absent" => Landed(g, "creds"))
        /\ pc[t] \in {"delete_role", "settle"} => (token[g] => Landed(g, "token"))
        /\ pc[t] = "settle" => (role[g] => Landed(g, "role"))

\* The inductive invariant behind the properties above: the lock, what each
\* thread knows at each label, and that no request is executed late for a grant
\* that is or was in use, nor twice. A row that names its account names its token,
\* and was active; a lease does not outlive its token before its time.
IInv ==
    /\ Exclusive
    /\ \A t \in Threads : IssueKnows(t) /\ TeardownKnows(t) /\ Removed(t)
    /\ \A w \in Workers : IssuedOnce(w)
    /\ \A g \in Grants :
          /\ status[g] = "none" => acct[g] = "absent" /\ Punctual(g)
          /\ pend[g] \cap landed[g] = {}
          /\ status[g] = "active" => named[g]
          /\ named[g] =>
                accessor[g] /\ Punctual(g) /\ status[g] \in {"active", "revoking", "revoked", "expired"}
          /\ lease[g] /\ age[g] = "fresh" => token[g] \/ Landed(g, "creds")
    /\ TerminalIsClean
    /\ ActiveIsBacked
    /\ PasswordIsTracked

\* The portal seen from outside: see GrantAccess.
Phase ==
    [g \in Grants |->
        IF status[g] = "revoking" THEN "ending"
        ELSE IF status[g] \in Terminal THEN "ended" ELSE status[g]]

Access == INSTANCE GrantAccess WITH
    phase <- Phase,
    Locking <- {g \in Grants : DbOf[g] = "postgres"},
    account <- acct,
    lapsed <- {g \in Grants : age[g] # "fresh"},
    used <- {g \in Grants : named[g]},
    handed <- {g \in Grants : told[g] = "password"},
    late <- {g \in Grants : Landed(g, "creds")}

\* Grants implements GrantAccess: the account exists only for a record that says
\* so, is not locked out or taken before its time, is locked out before it is
\* dropped, and is gone when the record says it is; a request that Vault executes
\* late can open it once more, but never that of a grant that came into use; and
\* only of such a grant, perhaps no longer in use by then, the password is told.
ImplementsAccess == Access!Spec

\* README.md's lifecycle: nothing leads out of revoked, expired or failed.
TerminalIsFinal ==
    [][\A g \in Grants : status[g] \in Terminal => status'[g] = status[g]]_vars
=============================================================================
