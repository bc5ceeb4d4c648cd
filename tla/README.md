# Verification of vault-db-access

This directory holds TLA+ models of the portal in `src/`, the TLC
configurations that check them on small instances and TLAPS proofs of what
matters most for every size. The portal hands out short-lived database accounts: an administrator
asks for one, the middleware (FastAPI, `src/middleware/app/`) lets HashiCorp
Vault create it in PostgreSQL or ClickHouse, and the account goes when it is
revoked, when its time is over, or when anything on the way fails.

The modules follow the code call by call. One call to SQLite, Vault or a
database is one action, because that is where the process can die, another
thread can run, a TTL can end or the call can fail. An action that starts with
the comment `Faulty:` is not part of any specification: it is the form that a
plausible mistake in the definition after it would have, and the check that
the properties notice it is to put it in that definition's place.

## Inventory

| Component | Source | State it keeps | Operations |
|---|---|---|---|
| Grant lifecycle and reconciler | `grants.py` | `_db_locks`, `_inflight`; rows of `grants` | `issue`, `revoke`, `_teardown`, `reconcile_once`, `_report_orphans` |
| SQLite store | `store.py` | tables `grants`, `sessions`, `audit` | one transaction for each function |
| Vault service client | `vault_client.py`, `Service` | the shared AppRole token, its login time, a lock | `client`, `_login`, `call` |
| Helper roles | `vault_client.py`, `run_as_manager` | a role, a token and a lease in Vault, for one call | write, read, clean up |
| Sessions and admin login | `main.py`, `store.py` | rows of `sessions`, each with the admin's Vault token | `_do_login`, `_do_logout`, `current_session`, purge |
| Bootstrap | `setup.py` | Vault's provisioning, `KEYS_FILE`, the delivered secrets | `main`, run again after a failure |
| Admission control | `grants.py` `admit`, `_begin`, `_end`, `config.py` | semaphores, database locks, threads of the pool | take a slot or answer Busy, wait for a lock |
| PostgreSQL maintenance functions | `postgres-init/02-roles.sh` | roles and backends of PostgreSQL | `lockout_role`, `cleanup_role` |
| Statement builder, request models | `statement_builder.py`, `models.py` | none; works on a catalog read before | validate and write SQL |
| HTTP guard, CSRF, origin | `main.py` | the request and its reply | `Guard`, `require_admin`, the handlers |
| Catalog introspection | `db_introspect.py` | none | read catalogs and accounts |
| Preflight, configuration | `preflight.py`, `config.py` | none | check the environment at start |
| Templates, deployment | `templates/`, compose files | none | markup and static set-up |

How they interact. Handlers in `main.py` run in a pool of threads. A handler
first goes through `current_session`, then through `admit`, then calls `issue`
or `revoke`, which take one lock for each database and put the grant in
`_inflight`. They work on Vault through the one `Service` object that all
threads share, and on the databases either through Vault (credentials, lease
revocation, `run_as_manager`) or through the inspector's own connection. Rows
in SQLite are the only memory that outlives the process. A thread of its own
runs `reconcile_once` round after round: it finishes what a crash or failure
left, expires what is over, reports accounts nobody explains and purges
sessions.

What is hard. Requests on the same grant, the reconciler, Vault's own expiry
and the clock run concurrently; every remote call may fail before its effect,
after it, or after its caller has given up; the process may die between any
two calls; and cleanup is itself a sequence of calls that can fail. The list
`hazards` in `PROJECT.json` has each of these at its line.

What makes each component correct:

* Grants: a terminal row means nothing is left; an active grant works until
  its TTL; a row that is being ended never regains access; whatever is left
  over is finished or reported.
* Vault client: no token is forgotten; a 403 reaches the caller only after a
  fresh login; no call hangs.
* Helper roles: a return confirms the work; nothing that grants access stays.
* Sessions: no administrator's token is left without an owner; ended sessions
  stay ended; removed rights are noticed; sessions end.
* Bootstrap: the root token goes last; setup can be repeated until it works.
* Admission, guard, handlers: every slot is given back, nothing is begun for a
  request that a check should have stopped, a refusal means that nothing was
  begun, every request is answered.
* Maintenance functions: no session outlives the account but that of a login
  which was slow to be listed; the account goes, by Vault or by the portal.
* Statements: an account has the rights that were asked for, all and no other,
  whatever happens to the tables meanwhile.

## Modules

| Module | What it is |
|---|---|
| `Grants` | `issue`, `revoke`, `_teardown` and `reconcile_once`, with rows, Vault objects, accounts, locks, crashes and late requests |
| `GrantAccess` | the abstract promise: when an account may exist, when it may be locked out or taken, what the record says meanwhile; `Grants` and `PgAccount` implement it |
| `GrantsProofs` | proofs about `Grants`, its refinement of `GrantAccess` included |
| `VaultService` | class `Service` |
| `HelperRole` | `run_as_manager` |
| `Sessions` | login, logout, `current_session`, purge |
| `Admission` | what requests share: threads of the pool, the semaphores of `admit`, the database locks |
| `Portal` | the requests of `main.py` from the body limit to the reply, over `Admission` |
| `PgAccount` | `lockout_role` and `cleanup_role`, the logins they race with, and the part of `_teardown` that calls them |
| `Statements` | from the catalog queries over the statement builder to the rights of the account |
| `Setup` | repeated runs of `setup.py` |
| `*Proofs` | proofs about the module of that name |
| `MC*` | instances for TLC: definitions of `DbOf` and the symmetry sets for `Grants`, the requests of `Portal` and `Statements` |

The components meet at calls, and each module treats the one below as an
environment that may fail. `Portal` EXTENDS `Admission` and sees a session or a
grant only as a look with every outcome; what these are is `Sessions` and
`Grants`. `Grants` sees `Service.call` as a request that succeeds or raises,
`run_as_manager` as the work it does, and a lockout or a drop as one step: that
a return really means that the work was done is `ReturnConfirms` of
`HelperRole`, and what the steps are inside of the database is `PgAccount`.
`GrantAccess` is the contract between the two: `Grants` keeps it with a lockout
and a drop in one step each (`ImplementsAccess`), and `PgAccount` shows that
the transactions and logins these consist of keep it as well (`KeepsAccess`).
The statements that `Grants` lets Vault run are those of `Statements`.

### Grants

`status`, `accessor` and `named` are columns of a row (`named` stands for
username, lease_id and expires_at, which one update writes). `role`, `token`
and `lease` are Vault's, `acct` is the account, `age` its time. `pc`, `job`,
`final`, `found` are a thread's locals; `todo` and `live` those of
`reconcile_once`. `told`, `reported` and `landed` are history.

* A thread's label names the call it is about to make; `Step(t)` makes it. A
  call that fails without effect is `IssueFails`, `GiveUp` or `StoreFails`; one
  that fails after its effect is the action, then a failure at the next label.
* `issue` frees the lock (`IssueDone`, with the steps of `_end` in `EndWork`)
  before it reads the row again and returns the password (`Respond`). A revoke
  that waited for the lock may mark or end the grant in between, and the client
  is told a password that is no longer good. `GrantAccess` promises accordingly:
  a password is told once, and only for a grant that came into use (`used`),
  but not that the grant is still in use (`HandOver`).
* `LateEffects`: Vault may execute a request after its client timed out (or
  died). `pend` holds these requests for each grant, and one that was executed
  moves to `landed`. A property excuses only the object that this very request
  made: a terminal row may have a role, a token or an account left if the
  request for that role, token or account came late, and nothing else.
* `LockOutAccounts` and `DropAccounts` distinguish PostgreSQL, where an account
  is locked out before it is dropped, from ClickHouse, where it is not.
* `ReadCredentials` may leave an account without a lease: the revocation of
  leases alone does not remove it.
* Time: `age` moves from `fresh` to `lapsed` (TTL over) to `overdue` (the 15 s
  of `_final_for` are over too). Vault's expiry may come at any time after
  `lapsed`.
* `_report_orphans` reads the rows, then one database, then the other, as the
  code does.

### VaultService

A thread runs `call`: `TakeClient` (with the lock, and `Login`, `StoreClient`,
`RevokeOld`, `Unlock` when there is no client or it is old), the request
outside the lock, and after the first 403 `TakeLock` and a login. Tokens are
numbered by login. The token's TTL is one hour and it is replaced after 45
minutes, so a token that is not stale or in use does not expire; operators may
revoke it or change the policy when `Disturbed`.

### HelperRole

A call is a sequence of six requests, the last three in `finally`. A request of
the cleanup has its effect or not, and either way may raise, which is
swallowed. Helper names end in two random bytes; the model gives every call a
name of its own.

### Sessions

A session's row is `none`, `live` or `ended`; its token, its age and its last
check are sets of sessions. `Look` reads the row and judges it by the clock;
everything after acts on what was read. `Purge` is the one transaction of
`purge_sessions`, `RevokePurged` the revocations that follow it.

### Admission and Portal

`free` is the value of each semaphore, `held` the kind of the one a request is
inside of, `lock` the database locks, `pool` the requests that occupy a thread.
A request's `pc` follows it: `Guard` judges its headers, `ReadBody` its body,
`Session`, `Recheck` and `EndSession` are `current_session`, `Checks` is what
`require_admin` and the handler look at, in the order of each handler (the
token may be in a form that has to be read first). `Op` enters the slot of the
operation or answers Busy; `Prepare`, `Begin` and `Work` are what `issue` and
`revoke` do before, at and under the lock of their database; `IndexTry` and
`IndexRead` are the page that reports a form's outcome and needs the catalogs
of both databases. `settings_page` and `api_session` behave as the route
`list`; `healthz` and `login_form`, which need no session but a thread, are
`Pages`.

A reply goes out in one of two ways. A result and an HTTPException need nothing
more (`Answer`). TooLarge, NotAuthenticated, RequestValidationError,
VaultUnavailable and any exception that nobody expects (500) are answered by the
functions of `main.py:127-159`; these are no coroutines, so that Starlette runs
them in the same pool of threads: `Raise` gives everything back and waits for a
thread, `Start` gets it and `Reply` answers. The code 500 is one of those
exceptions and 502 an HTTPException of `_issue`, `revoke_grant` or
`rotate_connection`. Which header or token is right is a field of the request.

### PgAccount

The columns of interest of one role (`role`), the lease in Vault, each client's
session (`conn`), and each transaction that runs `cleanup_role` (`at`, with its
snapshot `seen` and the row lock `writer`). A transaction's changes are
committed by `Drop` and undone by `GiveUp`, `LockFails` or `Abort`. A login has
passed its checks (`LogIn`) some time before it is listed (`Appear`).
`Runners`: Vault runs the function for the lease; the portal runs it for an
account that has none (`issue` failed before Vault registered a lease), in a
transaction that goes on when the portal has given it up, so that the retry
may run a second one. `slow` is history: who had passed the login and was not
listed when the portal's lockout was committed.

### Statements

`tables` and `owner` are the schema, which `CreateTable`, `DropTable` and
`GiveSequence` change at any moment; `known` and `owned` are what the two
catalog queries saw, each at its own time. `Build` makes the statements as a set
of rights (a command on a table, USAGE of a sequence). PostgreSQL runs them in
one transaction (`CreateRole`), ClickHouse one by one (`CreateUser`, `GrantOn`)
without looking at the tables. Names are model values; those that
`IDENTIFIER_RE` matches are the set `Plain`.

### Setup

One run is a sequence of labels; `Fail` ends it anywhere, `StartSetup` begins
the next. `Ensure` writes what has no life of its own: audit device, engines, the
passwords of the introspection accounts in KV (`ensure_connections`, after the
connections), policies and roles. Root tokens are numbered in the order they are made, so that "the
stored token", "the token the run uses" and "what Vault accepts" can differ.
A connection that exists is validated, never taken as it is: its account and
username template (`CheckConnection`) and its privileges (`ProbeRole`, `Probe`,
`ProbeEnd`). A run that finds no root token looks at the connections with the
middleware's own identity (`Recheck`). The environment restarts Vault (which
seals it), gives a manager account a privilege too many, writes a connection of
another kind between runs (`WriteForeign`), disturbs the delivered files, and
the operator generates a root token or deletes a connection when the run asks
for it.

## Runs

| Run | Instance | What it shows |
|---|---|---|
| `grants_faults` | 1 PostgreSQL grant, 2 workers, reconciler, 2 faults, late effects, fair; 241,034 states | types; `TerminalIsClean`, `AccessOnlyShrinks`; the inductive invariant `IInv` of the proofs; `Grants` implements `GrantAccess`, late requests included; the reconciler finishes every row that needs it (`DueIsFinished`) and an account that comes after its cleanup is reported or goes (`LeftoverIsNoticed`) |
| `grants_contention` | 2 ClickHouse grants, 2 workers, reconciler, no faults; 505,024 states | `ActiveIsBacked`, `PasswordIsTracked`: lock, in-flight set and second read keep the reconciler off live grants |
| `service_calls` | 2 threads, 3 tokens, disturbed, fair; 73,446 states | `LiveTokensAreKnown`, `ForbiddenIsExplained`, every call ends |
| `helper_calls` | 3 calls, 3 faults, fair; 224,836 states | `ReturnConfirms`, `LeftoversHaveACause`; calls end, and so do their token and lease |
| `sessions_requests` | 2 sessions, 2 threads, 1 fault, fair; 549,696 states | `TokensAreOwned`, `RemovedRightsAreNoticed`, `EndedStaysEnded`; a session past its absolute limit ends with its token, without any request (`AgedSessionsEnd`) |
| `setup_runs` | 2 databases, 4 faults, fair; 262,539 states | `IdentityOutlivesRoot`, `ProbesGoBeforeRoot`; repeated runs end in a middleware that can log in (`SetupConverges`) |
| `portal_requests` | 2 requests at once, a page, the reconciler, 2 threads in the pool, one slot of each kind, 1 database, fair; 239,932 states | `SharedIsAccountedFor`: semaphores, threads and locks are held exactly where a handler needs them; `EffectsAreChecked`, `RefusedMeansUntouched`; every request is answered (`RequestsAreAnswered`), those included that need another thread for an exception's reply |
| `pgaccount_cleanup` | 2 clients, 2 rounds, 2 faults, with and without a lease, fair; 207,733 states | `OnlySlowLoginsSurvive`; after the TTL Vault gets the account dropped (`ExpiredRoleGoes`), and a teardown gets to its end (`TornDownRoleGoes`), however eager the clients are; the transactions keep the promise of `GrantAccess` (`KeepsAccess`) |
| `statements_requests` | 3 tables (one with a name that is no identifier), 2 sequences, 8 requests, 2 changes of the schema; 350,271 states | `OnlyWhatWasAsked`, `IssuedIsComplete`, `InsertsWork` |

`pgaccount_cleanup` and `helper_calls` have deadlock checking off: an account's
life and a call have an end.

### Where code and documentation disagree

Each of these runs checks one sentence of the repository and TLC finds a
behaviour of the code that contradicts it.

| Run | Sentence | Behaviour |
|---|---|---|
| `grants_v_terminal` | README.md: the lifecycle has no arrow out of a terminal status | a revoke that waited for the lock sets a row that ended meanwhile back to revoking (and cleans up again) |
| `service_v_forbidden` | "a second 403 is a real permission error" | two refused threads log in one after the other; the second revokes the first one's new token before it is used |
| `setup_v_root` | "root token revoked and removed from disk" | of two stored root tokens one is revoked, both files are cleared |

None of them contradicts the safety properties above: the second cleanup of a
terminal row opens nothing, a call that was refused for a replaced token may be
repeated, and a root token left over is visible to Vault's operator.

Three limits of what the code promises, visible in the models without a run of
their own. A request that Vault executes after its client gave up can leave an
account behind a row that says `failed`; it is reported as an orphan. What
`run_as_manager` fails to clean up ends with its TTL, except the helper's role,
which has none. When the process dies between the initialization of Vault and
the write of `KEYS_FILE` (`setup.py:116`), the unseal keys are lost and no
later run can help (`KeysLost` in `Setup`). Apart from these: an orphan report
compares an old read of the rows with a later scan, so it can name the account
of a grant issued between the two.

## Bounds

* `MaxFaults` counts everything that goes wrong in a behaviour. Each single
  fault may hit any call; two allow a fault in the cleanup of another, or a
  crash in a retry. The proofs about `Grants` and `Setup` hold for any number.
* Threads of `Grants`: two workers and the reconciler are the least that let a
  request wait for the lock while another works and the reconciler acts on an
  old read. Grants of different databases share no lock and no row; the two
  grants of `grants_contention` share a database.
* `grants_faults` is about PostgreSQL, where an account is locked out before it
  is dropped, and `grants_contention` about ClickHouse, where it is not; so both
  branches of every step that depends on the database run. The refinement of
  `GrantAccess` is checked in `grants_faults`, with faults and late requests; its
  proof covers ClickHouse as well, several grants and any number of faults.
* `MaxTokens`: two logins are needed for one thread to replace the token of
  another, three for that to happen after an expiry or twice.
* `HelperRole`: calls share only the budget of faults; three faults are enough
  for one in the work and two in the cleanup of the same call.
* `Portal`: two requests and a page on two threads are the least with which the
  pool can be exhausted by requests that wait, and one slot of each kind makes
  every `admit` a contest. One database: a request takes the lock of one only, and
  a shared one is the worse case. `MCRequests` has a good request for each kind of handler and
  requests with one flaw each. `SharedIsAccountedFor`, `EffectsAreChecked`
  and `RefusedMeansUntouched` are proved for any requests, limits and pool.
* `PgAccount`: two clients (one may be slow while the other is listed); 2 rounds
  stand for the 50 of the code: the property that depends on the limit is that
  there is one. `Helpers` bounds the portal's transactions under way at once to
  two: the current one and one that was given up.
* `Statements`: `MaxDdl` = 2 changes of the schema in a request (a table that
  goes and one that comes, or a sequence that moves twice). The three
  invariants are proved for any number.
* `Sessions`: two sessions (the old and the new one of a login) and two threads
  (one that ends a session, one that has read it before).
* `Setup`: two databases make "all are verified" differ from "one is". Four
  faults allow a lost token check, a restart, a disturbance (a foreign connection
  is one) and a kill in one behaviour. A generated root token does not cost a fault, but each follows a
  run that asked for one; `MaxFaults + 1` tokens bound their number.
* Symmetry is used only in runs without liveness properties. `DbOf` is the same
  for all symmetric grants.

## Fairness

* `Grants.Fairness`: every thread goes on (HTTP clients and SQLite have
  timeouts), `reconcile_loop` starts a round again and again, and the
  reconciler gets the lock at some time: it waits 60 s each round, longer than
  an undisturbed operation. Expiry, requests and faults are not fair.
* `VaultService.FairSpec`: threads go on; a lock that is released again and
  again is acquired (`SF`), since a login is bounded by the client's timeout.
* `HelperRole.FairSpec`: calls go on; Vault enforces TTLs.
* `Sessions.FairSpec`: the purge and its revocations happen, threads end their
  requests. Logins, expiry and the clock are not fair.
* `Portal.FairSpec`: every call has a time limit, so each step of a request, a
  page or the reconciler ends (`WF`); the pool serves those that wait in the
  order of their arrival (`SF` for `Start`). Clients need not send anything.
  The database lock is given up after 60 s, so no fairness of locks is needed.
* `PgAccount.FairSpec`: time passes once the TTL is over, Vault tries again
  until the lease is revoked, statements end, a backend that was signalled
  ends, a login is listed some time after it passed, and the reconciler takes
  every teardown up again. Clients log in whenever they like; faults are not fair.
* `Setup.FairSpec`: the operator runs setup again, does what it asks for
  (`SF`, as it is possible only while no run is on: `GenerateRoot`,
  `DeleteForeign`) and takes back privileges it complains about; a run goes on.

## Proofs

`GrantsProofs` (for any grants, workers, assignment of databases and number of
faults):

* `Typing`: `Spec => []TypeOK`. `TypeOK` alone is not inductive: that a thread
  has a grant to work on comes from the lock, so the induction is over
  `TypeOK /\ Exclusive`.
* `Safety`: `TerminalIsClean`, `ActiveIsBacked` and `PasswordIsTracked` always
  hold. The inductive invariant `IInv` adds who may work on a grant
  (`Exclusive`), what a thread in `issue` knows at each label (`IssueKnows`),
  which rows a teardown may end and with which status (`TeardownKnows`), and
  what it has removed so far, in its order (`Removed`). Without `Removed`, the
  last write of `_teardown` could not be shown to be true; without
  `TeardownKnows`, neither could it be shown that no teardown hits a grant
  that is being issued or is still valid.
* `Invariance`: `TypeOK` and `IInv` always hold. That a password is told once
  needs `IssuedOnce`: the worker that issues a grant is the only one that ever
  tells its password, however long it waits between `_end` and the reply. Late
  requests need a part of `IInv` of their own: nothing can come late for a grant without a row, or for one
  whose row names its account, in use or ended (`Punctual`), because the name
  follows calls of the same grant that have all returned; and a request that was
  executed is not waiting any more.
* `Shrinking`: `AccessOnlyShrinks`, from the lemma `AccountMoves`, which says
  for each step how an account can change. Only the step that executes a late
  request for the credentials is excepted.
* `Refinement`: every step of `Grants` is a step of `GrantAccess` or a stutter
  under the mapping in `Access`, with faults, crashes and late requests.
  `Removed` says for this that the account of a PostgreSQL grant has been
  locked out before the teardown takes it, and `IssueKnows` and `IssuedOnce`
  that `Respond`, at whatever moment it comes, is the one `HandOver` of a grant
  that was in use.
* `Observed`: every state of a grant is one from which the promise can be taken
  up (`Consistent` of `GrantAccess`).

`SetupProofs` (for any databases and number of faults):

* `RootGoesLast`: `IdentityOutlivesRoot` and `ProbesGoBeforeRoot` always hold.
  The inductive invariant `SetupInv` adds `Progress`: at each label the run's
  root token is alive, what lies behind the label is provisioned, and no
  connection that the run has verified is foreign. The run does not look back
  at what it did, so only its place says what exists.
* `Typing`: in two parts, the control of the run and the data.

`PortalProofs` (for any requests, slots, threads and databases):

* `Invariance`: `PortalInv` is inductive. `Slots` says that the value of each
  semaphore and the requests inside of it make up its limit, which is a fact
  about cardinalities of sets and needs a lemma for entering and for leaving;
  `Good(t)` says what a request's place says about what it has shown so far
  (session, origin, token, body), about the block it is in, and about whether
  something was begun.
* `Typing`, `Protection` (`EffectsAreChecked`) and `Refusal`
  (`RefusedMeansUntouched`) follow.
* `Accounting`: `SharedIsAccountedFor`, by an induction of its own over `Fits`,
  which says for each place in a handler which semaphore, thread and lock belong
  to it. It is the part of freedom from deadlock that is a safety property: who
  waits for a thread (the one that answers an exception included) has nothing, who
  waits for a lock has no other, and the owner of a lock waits for neither.
* `Reservation` and `Bound`, from it: what `config.py` says of MAX_REVOKE_OPS (no
  issue takes a place of the revokes), and how many threads the locks can keep
  waiting. A revoke still waits for its database's lock, 60 s at most.

`PgAccountProofs` (for any clients, rounds and failures):

* `Lockout`: `OnlySlowLoginsSurvive`. `AccountInv` says that who counts the
  backends holds the role's row, so nobody locks the account out between its
  count and its drop, and that after the lockout the logins under way are
  those that passed before. `Typing`.
* `Refinement`: `KeepsAccess`. `PgAccount` begins with a grant in use, or one
  whose `issue` failed, so what it implements is the promise from such a state on
  (`Resumed`: `Consistent`, which `Observed` shows of every state of `Grants`,
  and the steps of `GrantAccess`). The invariant `Ordered` says that before the
  portal's lockout is committed only Vault takes the account, and only when its
  time is over, and that the portal is done only when the account is gone.

`StatementsProofs` (for any catalog, requests and number of changes):

* `Scope`, `Completeness`, `Usability`: the three invariants of the run.
  `CatalogIsTrue` says that what was read differs from what is only in changed
  objects; `Wanted` that the rights given and those still to come are all asked
  for and miss only what was changed. `Typing`.

`VaultServiceProofs` (for any threads and number of logins):

* `Accounting`: `LiveTokensAreKnown`, which is inductive with the types: only
  the thread with the lock gets a token or gives one up.
* `Explanation`: `ForbiddenIsExplained`, from `Current`: a second try is made
  with a token that was alive when the thread was given it, or the thread is
  noted as overtaken. `Typing`.

`HelperRoleProofs` (for any calls and faults):

* `Confirmation`, `Leftovers`: `ReturnConfirms` and `LeftoversHaveACause`.
  `Tidy` says what there is in Vault of a call that lost nothing, and what the
  call knows of it, at each of its requests. `Typing`.

`SessionsProofs` (for any sessions, threads and faults):

* `Ownership`: `TokensAreOwned`, shown token by token: `Handed` says what each
  step does with the duty to revoke it. `Finality`: `EndedStaysEnded`, which
  needs that two logins never create the same session (`NewSessions`).
  `Notice`: `RemovedRightsAreNoticed`. `Typing`.

Assumptions are the `ASSUME`s of the modules: distinct names, a database for
each grant, finite sets of requests, natural bounds.

Model-checked only: all liveness properties (`DueIsFinished`,
`LeftoverIsNoticed`, `CallsEnd`, `HelperAccessEnds`, `AgedSessionsEnd`,
`SetupConverges`, `RequestsAreAnswered`, `ExpiredRoleGoes`,
`TornDownRoleGoes`), which are out of the prover's reach. Every invariant and
every action property of the passing runs is a theorem.

## Not modelled

* Of `setup.py`: `mint_test_admin` (test stacks only), and the connections that
  `recheck_without_root` may not read under an older policy and only warns about.
* Of the database calls: connections, TLS options and timeouts, which are calls
  that may fail. The texts of the audit and what `public()` shows.
* Of the maintenance functions: the check of the name (the portal passes names
  that its own template made) and the static grants of `02-roles.sh`.
* Preflight and configuration: checks of environment strings at start, without
  state or concurrency.
* Templates, compose files, container definitions: no behaviour over time.

## Plan

Done, in this order: `Grants`, `GrantAccess`, `VaultService`, `HelperRole`,
`Sessions`, `Setup`, `Admission`, `Portal`, `PgAccount`, `Statements`, and proofs
about each of them but `Admission`, whose promises are those of `Portal`.

Next:

1. Two databases in `Portal`, for the page that needs both catalogs.
2. `Sessions` as the look that `Portal` takes at a session, by an abstract
   specification that both keep, as `GrantAccess` is for grants.
