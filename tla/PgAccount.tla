------------------------------ MODULE PgAccount -----------------------------
(***************************************************************************)
(* How one PostgreSQL account is taken away while its clients keep logging *)
(* in: the functions lockout_role and cleanup_role of                      *)
(* src/postgres-init/02-roles.sh, which Vault runs when the lease ends and *)
(* the portal runs through a helper role, and the teardown of grants.py    *)
(* that locks the account out, ends its sessions and confirms that before. *)
(*                                                                         *)
(* cleanup_role is one transaction. Its NOLOGIN is seen by nobody else     *)
(* before it commits, and undone when it raises. A login passes its checks *)
(* some time before its backend is listed in pg_stat_activity. Grants has  *)
(* the lockout and the drop as one step each.                              *)
(***************************************************************************)
EXTENDS Naturals, FiniteSets

CONSTANTS Clients,    \* those who know the password
          Nobody,     \* no transaction
          MaxTries,   \* rounds of cleanup_role before it raises (50 in the code)
          MaxFaults   \* bound: calls of the portal and transactions that fail

\* Who runs cleanup_role: Vault for the lease, or a helper role of the portal;
\* a helper's transaction may go on when the portal has given it up and runs
\* another one.
Helpers == {"helper", "retry"}
Runners == Helpers \cup {"vault"}

ASSUME PgAccountAssumption ==
    /\ Nobody \notin Runners
    /\ MaxTries \in Nat
    /\ MaxFaults \in Nat

VARIABLES
    role,     \* committed: "open" (LOGIN), "locked" (NOLOGIN) or "absent"
    due,      \* Vault: is the TTL of the lease over?
    lapsed,   \* is VALID UNTIL, some seconds later, over too?
    lease,    \* Vault: is the lease still to be revoked?
    asked,    \* is the portal's revocation of the lease under way?
    conn,     \* each client's session
    at,       \* the next statement of each cleanup_role, or "none"
    seen,     \* its snapshot of pg_stat_activity
    tries,
    writer,   \* the transaction that has changed the role's row
    pc,       \* the next call of the portal's _teardown
    mine,     \* the helper it waits for
    round,    \* is it the second time it locks out and confirms?
    signaled, \* has it terminated backends since it locked out?
    slow,     \* history: clients that may still turn up: everyone until the
              \* portal's lockout is committed, then who had passed the login by
              \* then and was not listed yet
    faults    \* faults that may still happen

roles == <<role, due, lapsed, lease, asked>>
txns  == <<at, seen, tries, writer>>
local == <<pc, mine, round, signaled>>
vars  == <<roles, conn, txns, local, slow, faults>>

\* "passed": the password was accepted; "listed": in pg_stat_activity under the
\* account's name; "dying": listed and signalled; "nameless": its role is gone.
Conns == {"out", "passed", "listed", "dying", "nameless"}
Places == {"none", "check", "lockout", "terminate", "count", "drop"}
Pcs == {"idle", "find", "lock_out", "poll", "terminate", "revoke", "revoking", "find_again",
        "drop", "dropping", "confirm", "done"}

TypeOK ==
    /\ role \in {"open", "locked", "absent"}
    /\ due \in BOOLEAN /\ lapsed \in BOOLEAN /\ lease \in BOOLEAN /\ asked \in BOOLEAN
    /\ conn \in [Clients -> Conns]
    /\ at \in [Runners -> Places]
    /\ seen \in [Runners -> SUBSET Clients]
    /\ tries \in [Runners -> 0 .. MaxTries]
    /\ writer \in Runners \cup {Nobody}
    /\ pc \in Pcs /\ mine \in Helpers
    /\ round \in {1, 2} /\ signaled \in BOOLEAN
    /\ slow \subseteq Clients
    /\ faults \in 0 .. MaxFaults

\* The grant is active, or issue has failed after the account was created and
\* before its lease was registered.
Init ==
    /\ role = "open" /\ due = FALSE /\ lapsed = FALSE /\ lease \in BOOLEAN /\ asked = FALSE
    /\ conn = [c \in Clients |-> "out"]
    /\ at = [r \in Runners |-> "none"]
    /\ seen = [r \in Runners |-> {}]
    /\ tries = [r \in Runners |-> 0]
    /\ writer = Nobody
    /\ pc = (IF lease THEN "idle" ELSE "find")
    /\ mine = "helper" /\ round = 1 /\ signaled = FALSE
    /\ slow = Clients
    /\ faults = MaxFaults

Fault == faults > 0 /\ faults' = faults - 1

\* The backends that pg_stat_activity shows under the account's name.
Listed == {c \in Clients : conn[c] \in {"listed", "dying"}}

\* pg_terminate_backend of these, as far as they are still there.
Signal(cs) ==
    conn' = [c \in Clients |-> IF c \in cs /\ conn[c] = "listed" THEN "dying" ELSE conn[c]]
-----------------------------------------------------------------------------
(* The clients and the clock                                               *)

\* Faulty: CREATE ROLE without VALID UNTIL.
LogInUnbounded(c) ==
    /\ conn[c] = "out"
    /\ role = "open"
    /\ conn' = [conn EXCEPT ![c] = "passed"]
    /\ UNCHANGED <<roles, txns, local, slow, faults>>

\* LOGIN and VALID UNTIL of CREATE ROLE are looked at in what is committed.
LogIn(c) ==
    /\ conn[c] = "out"
    /\ role = "open" /\ ~lapsed
    /\ conn' = [conn EXCEPT ![c] = "passed"]
    /\ UNCHANGED <<roles, txns, local, slow, faults>>

\* The backend is listed. It is a new one: no snapshot has it.
Appear(c) ==
    /\ conn[c] = "passed"
    /\ conn' = [conn EXCEPT ![c] = IF role = "absent" THEN "nameless" ELSE "listed"]
    /\ seen' = [r \in Runners |-> IF tries[r] > 0 THEN seen[r] \ {c} ELSE seen[r]]
    /\ UNCHANGED <<roles, at, tries, writer, local, slow, faults>>

\* A backend ends because it was signalled, or its client has left.
Leave(c) ==
    /\ conn[c] \in {"listed", "dying", "nameless"}
    /\ conn' = [conn EXCEPT ![c] = "out"]
    /\ slow' = IF role = "open" THEN slow ELSE slow \ {c}
    /\ UNCHANGED <<roles, txns, local, faults>>

\* The TTL ends, and some seconds later VALID UNTIL is over.
Expire ==
    /\ ~due
    /\ due' = TRUE
    /\ UNCHANGED <<role, lapsed, lease, asked, conn, txns, local, slow, faults>>

Lapse ==
    /\ due /\ ~lapsed
    /\ lapsed' = TRUE
    /\ UNCHANGED <<role, due, lease, asked, conn, txns, local, slow, faults>>
-----------------------------------------------------------------------------
(* cleanup_role                                                            *)

\* The function is called.
Call(r) ==
    /\ at[r] = "none"
    /\ at' = [at EXCEPT ![r] = "check"]
    /\ seen' = [seen EXCEPT ![r] = Clients]
    /\ tries' = [tries EXCEPT ![r] = 0]
    /\ UNCHANGED writer

\* The transaction ends, and with it its lock on the row.
Ends(r) ==
    /\ at' = [at EXCEPT ![r] = "none"]
    /\ seen' = [seen EXCEPT ![r] = {}]
    /\ tries' = [tries EXCEPT ![r] = 0]
    /\ writer' = IF writer = r THEN Nobody ELSE writer

\* What the caller makes of the end of the transaction: the lease is revoked,
\* or stays for Vault to try again; the portal is told if it still waits.
Answered(r, ok) ==
    /\ lease' = (lease /\ ~(r = "vault" /\ ok))
    /\ asked' = (asked /\ r # "vault")
    /\ pc' = IF pc = "dropping" /\ r = mine THEN (IF ok THEN "confirm" ELSE "find") ELSE pc
    /\ UNCHANGED <<due, lapsed, mine, round, signaled>>

\* Vault revokes the lease, when it has expired or when the portal asks.
VaultRevokes ==
    /\ lease /\ (due \/ asked)
    /\ Call("vault")
    /\ UNCHANGED <<roles, conn, local, slow, faults>>

\* A role that is gone is a no-op.
Check(r) ==
    /\ at[r] = "check"
    /\ IF role = "absent"
       THEN Ends(r) /\ Answered(r, TRUE)
       ELSE /\ at' = [at EXCEPT ![r] = "lockout"]
            /\ UNCHANGED <<due, lapsed, lease, asked, seen, tries, writer, local>>
    /\ UNCHANGED <<role, conn, slow, faults>>

\* lockout_role inside of the transaction: the row is changed, not committed.
LockRow(r) ==
    /\ at[r] = "lockout"
    /\ role # "absent" /\ writer = Nobody
    /\ writer' = r
    /\ at' = [at EXCEPT ![r] = "terminate"]
    /\ UNCHANGED <<roles, conn, seen, tries, local, slow, faults>>

\* lock_timeout, or the row that was waited for has been changed or deleted.
LockFails(r) ==
    /\ at[r] = "lockout"
    /\ writer # Nobody \/ role = "absent"
    /\ Ends(r)
    /\ Answered(r, FALSE)
    /\ UNCHANGED <<role, conn, slow, faults>>

\* The backends of the snapshot are signalled. The first round takes a fresh
\* one, the others have the one of the last count.
Terminate(r) ==
    /\ at[r] = "terminate"
    /\ Signal(seen[r])
    /\ at' = [at EXCEPT ![r] = "count"]
    /\ UNCHANGED <<roles, seen, tries, writer, local, slow, faults>>

\* Faulty: the rounds are not limited.
CountForever(r) ==
    /\ at[r] = "count"
    /\ IF Listed = {}
       THEN at' = [at EXCEPT ![r] = "drop"] /\ UNCHANGED <<seen, tries>>
       ELSE /\ tries' = [tries EXCEPT ![r] = @ + 1]
            /\ at' = [at EXCEPT ![r] = "terminate"]
            /\ seen' = [seen EXCEPT ![r] = Listed]
    /\ UNCHANGED <<roles, conn, writer, local, slow, faults>>

\* Faulty: once they are signalled, backends count as gone.
CountNone(r) ==
    /\ at[r] = "count"
    /\ at' = [at EXCEPT ![r] = "drop"]
    /\ UNCHANGED <<roles, conn, seen, tries, writer, local, slow, faults>>

\* pg_stat_clear_snapshot and the count, which is the next round's snapshot.
Count(r) ==
    /\ at[r] = "count"
    /\ IF Listed = {}
       THEN at' = [at EXCEPT ![r] = "drop"] /\ UNCHANGED <<seen, tries>>
       ELSE /\ tries[r] < MaxTries
            /\ tries' = [tries EXCEPT ![r] = @ + 1]
            /\ at' = [at EXCEPT ![r] = "terminate"]
            /\ seen' = [seen EXCEPT ![r] = Listed]
    /\ UNCHANGED <<roles, conn, writer, local, slow, faults>>

\* Too many rounds: the exception undoes the lockout of this transaction.
GiveUp(r) ==
    /\ at[r] = "count"
    /\ Listed # {} /\ tries[r] = MaxTries
    /\ Ends(r)
    /\ Answered(r, FALSE)
    /\ UNCHANGED <<role, conn, slow, faults>>

\* DROP OWNED, DROP ROLE and the commit. Backends that appeared since the count
\* are not looked for.
Drop(r) ==
    /\ at[r] = "drop"
    /\ role' = "absent"
    /\ conn' = [c \in Clients |-> IF c \in Listed THEN "nameless" ELSE conn[c]]
    /\ Ends(r)
    /\ Answered(r, TRUE)
    /\ UNCHANGED <<slow, faults>>

\* The connection is lost, or the database restarts.
Abort(r) ==
    /\ at[r] # "none"
    /\ Fault
    /\ Ends(r)
    /\ Answered(r, FALSE)
    /\ UNCHANGED <<role, conn, slow>>
-----------------------------------------------------------------------------
(* _teardown                                                               *)

Goto(l) == pc' = l

\* The grant becomes revoking.
Revoke ==
    /\ pc = "idle"
    /\ Goto("find")
    /\ UNCHANGED <<roles, conn, txns, mine, round, signaled, slow, faults>>

\* find_accounts, at first and after the lease was revoked.
Find ==
    /\ pc \in {"find", "find_again"}
    /\ Goto(IF role # "absent" THEN "lock_out" ELSE IF pc = "find" THEN "revoke" ELSE "confirm")
    /\ round' = IF pc = "find" THEN 1 ELSE 2
    /\ signaled' = FALSE
    /\ UNCHANGED <<roles, conn, txns, mine, slow, faults>>

\* Faulty: the statement is rolled back.
LockOutUncommitted ==
    /\ pc = "lock_out"
    /\ writer = Nobody
    /\ Goto("poll")
    /\ UNCHANGED <<roles, conn, txns, mine, round, signaled, slow, faults>>

\* lockout_role in a transaction of its own, committed at once.
LockOut ==
    /\ pc = "lock_out"
    /\ writer = Nobody
    /\ role' = IF role = "open" THEN "locked" ELSE role
    /\ slow' = IF role = "open" THEN {c \in Clients : conn[c] = "passed"} ELSE slow
    /\ Goto("poll")
    /\ UNCHANGED <<due, lapsed, lease, asked, conn, txns, mine, round, signaled, faults>>

\* Another transaction keeps the row: the helper's call times out or fails.
LockOutFails ==
    /\ pc = "lock_out"
    /\ writer # Nobody
    /\ Goto("find")
    /\ UNCHANGED <<roles, conn, txns, mine, round, signaled, slow, faults>>

\* pg_backends: none is left, or they are terminated, or the 20 seconds are
\* over and they have been terminated again and again.
Poll ==
    /\ pc = "poll"
    /\ IF Listed = {} THEN Goto(IF round = 1 THEN "revoke" ELSE "drop")
       ELSE Goto("terminate") \/ (signaled /\ Goto("find"))
    /\ UNCHANGED <<roles, conn, txns, mine, round, signaled, slow, faults>>

TerminateAll ==
    /\ pc = "terminate"
    /\ Signal(Clients)
    /\ signaled' = TRUE
    /\ Goto("poll")
    /\ UNCHANGED <<roles, txns, mine, round, slow, faults>>

\* revoke_lease with sync; it is not an error when the lease is gone.
RevokeLease ==
    /\ pc = "revoke"
    /\ asked' = lease
    /\ Goto("revoking")
    /\ UNCHANGED <<role, due, lapsed, lease, conn, txns, mine, round, signaled, slow, faults>>

LeaseAnswered ==
    /\ pc = "revoking"
    /\ ~asked
    /\ Goto(IF lease THEN "find" ELSE "find_again")
    /\ UNCHANGED <<roles, conn, txns, mine, round, signaled, slow, faults>>

\* The account is still there, as it had no lease: the portal drops it itself.
DropAccount ==
    /\ pc = "drop"
    /\ \E r \in Helpers : Call(r) /\ mine' = r
    /\ Goto("dropping")
    /\ UNCHANGED <<roles, conn, round, signaled, slow, faults>>

Confirm ==
    /\ pc = "confirm"
    /\ Goto(IF role = "absent" THEN "done" ELSE "find")
    /\ UNCHANGED <<roles, conn, txns, mine, round, signaled, slow, faults>>

\* A call of the portal fails, or the portal is restarted: the reconciler tries
\* again. What the database and Vault were asked to do goes on.
Fail ==
    /\ pc \notin {"idle", "done"}
    /\ Fault
    /\ Goto("find")
    /\ UNCHANGED <<roles, conn, txns, mine, round, signaled, slow>>

Cleanup(r) ==
    Check(r) \/ LockRow(r) \/ LockFails(r) \/ Terminate(r) \/ Count(r) \/ GiveUp(r) \/ Drop(r)

Teardown ==
    \/ Find \/ LockOut \/ LockOutFails \/ Poll \/ TerminateAll
    \/ RevokeLease \/ LeaseAnswered \/ DropAccount \/ Confirm

Next ==
    \/ \E c \in Clients : LogIn(c) \/ Appear(c) \/ Leave(c)
    \/ Expire \/ Lapse \/ VaultRevokes \/ Revoke \/ Teardown \/ Fail
    \/ \E r \in Runners : Cleanup(r) \/ Abort(r)

Spec == Init /\ [][Next]_vars

\* Time passes once the TTL is over, Vault tries again until the lease is
\* revoked, statements end, a signalled backend ends, and the reconciler takes
\* every teardown up again. Clients may log in whenever they can.
FairSpec ==
    /\ Spec
    /\ WF_vars(Lapse)
    /\ WF_vars(VaultRevokes)
    /\ \A r \in Runners : WF_vars(Cleanup(r))
    /\ \A c \in Clients : WF_vars(Appear(c)) /\ WF_vars(conn[c] = "dying" /\ Leave(c))
    /\ WF_vars(Teardown)
-----------------------------------------------------------------------------
\* When the portal's lockout was committed first, the only sessions that
\* outlive the account are of logins that had passed before it and were slow to
\* be listed: the count of cleanup_role sees all others, and nobody comes back.
\* (A role that Vault drops on its own was not locked out before.)
OnlySlowLoginsSurvive ==
    \A c \in Clients : role = "absent" /\ conn[c] \in {"passed", "nameless"} => c \in slow

\* Expiry needs no portal: after the TTL Vault gets the account dropped, however
\* often cleanup_role raises because its clients come back, as VALID UNTIL keeps
\* them out in the end.
ExpiredRoleGoes == due ~> role = "absent"

\* A revocation long before the TTL ends, too: the lockout that is committed
\* first keeps the clients out for the transaction that comes after it.
TornDownRoleGoes == pc # "idle" ~> pc = "done"

\* The account as GrantAccess has it: see there.
Account == {"account"}

Access == INSTANCE GrantAccess WITH
    Grants <- Account,
    Locking <- Account,
    phase <- [g \in Account |->
                 IF pc = "idle" THEN "active" ELSE IF pc = "done" THEN "ended" ELSE "ending"],
    account <- [g \in Account |-> role],
    lapsed <- {g \in Account : due},
    used <- Account,
    handed <- {},
    late <- {}

\* The transactions keep the promise that Grants relies on with its lockout and
\* its drop in one step each: nothing of a cleanup_role shows before its commit,
\* a grant in use keeps its account until its time is over, and what the portal
\* ends early is locked out before it is dropped and gone when it says so.
KeepsAccess == Access!Resumed
=============================================================================
