------------------------------- MODULE Portal -------------------------------
(***************************************************************************)
(* The requests of src/middleware/app/main.py from the first byte to the   *)
(* reply: the body limit of Guard, the session, the origin and the CSRF    *)
(* token of require_admin, and each handler with the threads, semaphores   *)
(* and locks of Admission. What sessions and grants are is left to the     *)
(* modules Sessions and Grants: here a look at them has every outcome.     *)
(*                                                                         *)
(* A request is a coroutine that runs blocking work in a thread of the     *)
(* pool. Its waits for a thread, its calls to Vault or a database and its  *)
(* wait for a lock are steps of their own.                                 *)
(***************************************************************************)
EXTENDS Admission

CONSTANTS Requests   \* what clients may send

Safe == {"list", "index", "tables"}
Routes == Safe \cup {"login", "logout", "issue", "issue_form", "revoke", "rotate"}

\* "both": Transfer-Encoding and Content-Length; "declared": a Content-Length
\* over BODY_LIMIT, or none; "streamed": chunks that turn out to exceed it;
\* "garbled": not JSON; "invalid": not a GrantRequest; "other": JSON of another
\* media type. The token is sent in a header, in the form, or is not the right
\* one.
Bodies == {"fits", "both", "declared", "streamed", "garbled", "invalid", "other"}
Request == [route : Routes, db : Dbs, cookie : BOOLEAN, origin : BOOLEAN,
            csrf : {"header", "form", "bad"}, body : Bodies]

ASSUME PortalAssumption == Requests \subseteq Request /\ None \notin Requests

VARIABLES
    pc,     \* the next step of each request
    req,    \* the request, None before the first one
    reply,  \* the outcome that the index page or an exception handler is to show
    began,  \* history: has the handler begun to change something?
    told    \* history: the kind of the last reply

local == <<pc, req, reply, began, told>>
vars == <<shared, local>>

IndexPcs == {"index_wait", "index_pg", "index_pg_io", "index_ch", "index_ch_io"}
ReplyPcs == IndexPcs \cup {"raised_wait", "raised"}
WaitPcs == {"session_wait", "op_wait", "index_wait", "raised_wait"}
Pcs == ReplyPcs \cup WaitPcs \cup
       {"idle", "body", "session", "recheck", "session_end", "checks", "op",
        "prepare", "lock_wait", "locked", "io", "create", "logout"}
Codes == {"none", "ok", "400", "401", "403", "404", "413", "415", "busy", "down", "500", "502"}

TypeOK ==
    /\ SharedTypeOK
    /\ pc \in [Tasks -> Pcs]
    /\ req \in [Tasks -> Requests \cup {None}]
    /\ \A t \in Tasks : pc[t] # "idle" => req[t] # None
    /\ reply \in [Tasks -> Codes]
    /\ began \in [Tasks -> BOOLEAN]
    /\ told \in [Tasks -> {"nothing", "refused", "other"}]

Init ==
    /\ SharedInit
    /\ pc = [t \in Tasks |-> "idle"]
    /\ req = [t \in Tasks |-> None]
    /\ reply = [t \in Tasks |-> "none"]
    /\ began = [t \in Tasks |-> FALSE]
    /\ told = [t \in Tasks |-> "nothing"]

Goto(t, l) == pc' = [pc EXCEPT ![t] = l]
Route(t) == req[t].route

\* The request goes on, with what it holds or with something more or less.
slots == <<free, held>>
Move(t, l) == Goto(t, l) /\ UNCHANGED <<req, reply, told>>

Refused == {"400", "401", "403", "404", "413", "415", "busy"}

\* The reply goes out: whatever the request holds of the pool and the
\* semaphores has been given back on the way.
Answer(t, code) ==
    /\ Goto(t, "idle")
    /\ req' = [req EXCEPT ![t] = None]
    /\ reply' = [reply EXCEPT ![t] = "none"]
    /\ told' = [told EXCEPT ![t] = IF code \in Refused THEN "refused" ELSE "other"]
    /\ LeavePool(t)
    /\ Release(t, code = "busy")

\* The handler is left, and the reply is made in a thread of the pool: what the
\* request holds is given back before it waits for that thread.
Leave(t, l, code) ==
    /\ Goto(t, l)
    /\ reply' = [reply EXCEPT ![t] = code]
    /\ LeavePool(t)
    /\ Release(t, code = "busy")
    /\ UNCHANGED <<req, told>>

\* An exception that one of the portal's own handlers answers: TooLarge,
\* NotAuthenticated, RequestValidationError, VaultUnavailable and whatever is not
\* expected (500). They are plain functions, so that each takes a thread of the
\* pool; an HTTPException is answered without one (Answer).
Raise(t, code) == Leave(t, "raised_wait", code)

\* The end of an operation. The form shows its outcome on the index page.
Outcome(t, code) ==
    IF Route(t) = "issue_form" THEN Leave(t, "index_wait", code) ELSE Answer(t, code)
-----------------------------------------------------------------------------
(* Guard, the body, the session, the origin and the CSRF token             *)

\* The JSON body is read before the dependencies of the handler are solved.
First(route) ==
    CASE route = "login" -> "checks"
      [] route = "issue" -> "body"
      [] OTHER -> "session_wait"

\* A request arrives. What its headers alone show is refused before anything
\* is read.
Guard(t, r) ==
    /\ pc[t] = "idle"
    /\ began' = [began EXCEPT ![t] = FALSE]
    /\ CASE r.body = "both" -> Answer(t, "400")
         [] r.body = "declared" -> Answer(t, "413")
         [] OTHER -> /\ req' = [req EXCEPT ![t] = r]
                     /\ Goto(t, First(r.route))
                     /\ told' = [told EXCEPT ![t] = "nothing"]
                     /\ UNCHANGED <<free, held, pool, reply>>
    /\ UNCHANGED lock

\* counting_receive raises TooLarge; the 400 this becomes is made a 413.
ReadBody(t) ==
    /\ pc[t] = "body"
    /\ CASE req[t].body = "streamed" -> Answer(t, "413")
         [] req[t].body = "garbled" -> Raise(t, "400")
         [] OTHER -> Move(t, "session_wait") /\ UNCHANGED <<slots, pool>>
    /\ UNCHANGED <<began, lock>>

\* run_in_threadpool, for the session, the operation, the index page or an
\* exception handler.
Start(t) ==
    /\ pc[t] \in WaitPcs
    /\ EnterPool(t)
    /\ Move(t, CASE pc[t] = "session_wait" -> "session"
                 [] pc[t] = "op_wait" -> "op"
                 [] pc[t] = "index_wait" -> "index_pg"
                 [] pc[t] = "raised_wait" -> "raised")
    /\ UNCHANGED <<slots, lock, began>>

\* The exception handler.
Reply(t) ==
    /\ pc[t] = "raised"
    /\ Answer(t, reply[t])
    /\ UNCHANGED <<began, lock>>

\* current_session: no session; one past its limits, whose row is deleted; one
\* to be checked with Vault; one that is used. The store may fail.
Session(t) ==
    /\ pc[t] = "session"
    /\ \/ \E code \in {"401", "500"} : Raise(t, code)
       \/ /\ req[t].cookie
          /\ \/ Move(t, "session_end") /\ UNCHANGED <<slots, pool>>
             \/ Move(t, "checks") /\ LeavePool(t) /\ UNCHANGED slots
             \/ Admit(t, "session") /\ Move(t, "recheck") /\ UNCHANGED pool
       \/ req[t].cookie /\ Full("session") /\ Answer(t, "busy")
    /\ UNCHANGED <<lock, began>>

\* user_policies and token_policies answer, or do not.
Recheck(t) ==
    /\ pc[t] = "recheck"
    /\ \/ \E code \in {"down", "500"} : Raise(t, code)
       \/ Move(t, "checks") /\ LeavePool(t) /\ Release(t, FALSE)
       \/ Move(t, "session_end") /\ Release(t, FALSE) /\ UNCHANGED pool
    /\ UNCHANGED <<lock, began>>

\* revoke_token_quietly: Vault is asked outside of the block of admit. The store
\* may fail when the row is deleted or the audit written.
EndSession(t) ==
    /\ pc[t] = "session_end"
    /\ \E code \in {"401", "500"} : Raise(t, code)
    /\ UNCHANGED <<lock, began>>

\* Faulty: a token in the form is not compared.
VerdictFormTrusted(r) ==
    IF r.route \in Safe THEN "none"
    ELSE IF ~r.origin THEN "403"
    ELSE IF r.body = "streamed" /\ (r.route = "login" \/ r.csrf = "form") THEN "413"
    ELSE IF r.csrf = "bad" /\ r.route # "issue_form" THEN "403"
    ELSE IF r.body = "streamed" /\ r.route = "issue_form" THEN "413"
    ELSE IF r.body = "invalid" /\ r.route \in {"issue", "issue_form"} THEN "400"
    ELSE IF r.body = "other" /\ r.route = "issue" THEN "415"
    ELSE "none"

\* check_origin, then the token, for which the form may have to be read, then
\* what the handler itself makes of the body.
Verdict(r) ==
    IF r.route \in Safe THEN "none"
    ELSE IF ~r.origin THEN "403"
    ELSE IF r.body = "streamed" /\ (r.route = "login" \/ r.csrf = "form") THEN "413"
    ELSE IF r.csrf = "bad" THEN "403"
    ELSE IF r.body = "streamed" /\ r.route = "issue_form" THEN "413"
    ELSE IF r.body = "invalid" /\ r.route \in {"issue", "issue_form"} THEN "400"
    ELSE IF r.body = "other" /\ r.route = "issue" THEN "415"
    ELSE "none"

Checks(t) ==
    LET v == Verdict(req[t])
    IN  /\ pc[t] = "checks"
        /\ IF v = "none"
           THEN /\ Move(t, IF Route(t) = "index" THEN "index_wait" ELSE "op_wait")
                /\ UNCHANGED <<slots, pool>>
           ELSE IF v = "400" /\ Route(t) = "issue_form" THEN Outcome(t, v)
           ELSE IF v \in {"400", "413"} THEN Raise(t, v)
           ELSE Answer(t, v)
        /\ UNCHANGED <<lock, began>>
-----------------------------------------------------------------------------
(* The handlers                                                            *)

\* The semaphore of each operation.
KindOf(route) ==
    CASE route = "revoke" -> "revoke"
      [] route = "login" -> "auth"
      [] OTHER -> "issue"

\* api_list_grants asks the store alone (settings_page and api_session ask
\* nobody: the same route), _do_logout needs no semaphore.
Op(t) ==
    /\ pc[t] = "op"
    /\ CASE Route(t) = "list" ->
              (Answer(t, "ok") \/ Raise(t, "500")) /\ UNCHANGED began
         [] Route(t) = "logout" ->
              \/ /\ Move(t, "logout")
                 /\ began' = [began EXCEPT ![t] = TRUE]
                 /\ UNCHANGED <<slots, pool>>
              \/ Raise(t, "500") /\ UNCHANGED began
         [] OTHER ->
              \/ Full(KindOf(Route(t))) /\ Outcome(t, "busy") /\ UNCHANGED began
              \/ /\ Admit(t, KindOf(Route(t)))
                 /\ Move(t, IF Route(t) \in {"issue", "issue_form", "revoke"}
                            THEN "prepare" ELSE "io")
                 /\ began' = [began EXCEPT ![t] = Route(t) = "rotate"]
                 /\ UNCHANGED pool
    /\ UNCHANGED lock

\* The catalog and the statements of issue; the row that revoke looks for,
\* which may be missing or terminal.
Prepare(t) ==
    /\ pc[t] = "prepare"
    /\ \/ Move(t, "lock_wait") /\ UNCHANGED <<slots, pool>>
       \/ Outcome(t, "502")
       \/ Route(t) # "revoke" /\ Raise(t, "down")
       \/ \E code \in IF Route(t) = "revoke" THEN {"404", "ok"} ELSE {"400"} : Outcome(t, code)
    /\ UNCHANGED <<lock, began>>

\* Faulty: the row is written before the lock is there.
BeginMarked(t) ==
    /\ pc[t] = "lock_wait"
    /\ \/ /\ Acquire(t, req[t].db)
          /\ Move(t, "locked")
          /\ UNCHANGED <<slots, pool>>
       \/ TimesOut(t, req[t].db) /\ Outcome(t, "busy") /\ UNCHANGED lock
    /\ began' = [began EXCEPT ![t] = TRUE]

\* _begin of issue and of revoke.
Begin(t) ==
    /\ pc[t] = "lock_wait"
    /\ \/ /\ Acquire(t, req[t].db)
          /\ Move(t, "locked")
          /\ began' = [began EXCEPT ![t] = TRUE]
          /\ UNCHANGED <<slots, pool>>
       \/ TimesOut(t, req[t].db) /\ Outcome(t, "busy") /\ UNCHANGED <<lock, began>>

\* The work under the lock (see Grants), and _end whatever became of it.
Work(t) ==
    /\ pc[t] = "locked"
    /\ Unlock(t)
    /\ Outcome(t, "ok") \/ Outcome(t, "502") \/ Raise(t, "down")
    /\ UNCHANGED began

\* The calls of _do_login (see Sessions), rotate_root and the list of tables.
Io(t) ==
    /\ pc[t] = "io"
    /\ \/ \E code \in {"500", "down"} : Raise(t, code) /\ UNCHANGED began
       \/ Route(t) # "login" /\ Answer(t, "ok") /\ UNCHANGED began
       \/ Route(t) = "rotate" /\ Answer(t, "502") /\ UNCHANGED began
       \/ /\ Route(t) = "login"
          /\ \/ \E code \in {"401", "403"} : Answer(t, code) /\ UNCHANGED began
             \/ /\ Move(t, "create")
                /\ began' = [began EXCEPT ![t] = TRUE]
                /\ UNCHANGED <<slots, pool>>
    /\ UNCHANGED lock

\* create_session, after a session that the cookie names has been ended.
Create(t) ==
    /\ pc[t] = "create"
    /\ Answer(t, "ok") \/ Raise(t, "500")
    /\ UNCHANGED <<lock, began>>

\* The admin's token is revoked after the row of the session is gone.
Logout(t) ==
    /\ pc[t] = "logout"
    /\ Answer(t, "ok") \/ Raise(t, "500")
    /\ UNCHANGED <<lock, began>>

\* The page is sent with the outcome of the operation it follows.
IndexNext(t) ==
    IF pc[t] \in {"index_pg", "index_pg_io"}
    THEN Move(t, "index_ch") /\ Release(t, FALSE) /\ UNCHANGED pool
    ELSE \/ Answer(t, IF reply[t] = "none" THEN "ok" ELSE reply[t])
         \/ Raise(t, "500")

\* _index: each catalog is admitted on its own; one that is not is shown empty.
IndexTry(t) ==
    /\ pc[t] \in {"index_pg", "index_ch"}
    /\ \/ Full("issue") /\ IndexNext(t)
       \/ /\ Admit(t, "issue")
          /\ Move(t, IF pc[t] = "index_pg" THEN "index_pg_io" ELSE "index_ch_io")
          /\ UNCHANGED pool
    /\ UNCHANGED <<lock, began>>

IndexRead(t) ==
    /\ pc[t] \in {"index_pg_io", "index_ch_io"}
    /\ IndexNext(t)
    /\ UNCHANGED <<lock, began>>

\* reconcile_one, which has a thread of its own and no semaphore.
ReconcileBegin(d) ==
    /\ Unlocked(Reconciler)
    /\ Acquire(Reconciler, d)
    /\ UNCHANGED <<slots, pool, local>>

ReconcileEnd ==
    /\ ~Unlocked(Reconciler)
    /\ Unlock(Reconciler)
    /\ UNCHANGED <<slots, pool, local>>

\* The handlers of healthz and login_form, for which nobody is asked.
PageStart(p) == p \notin pool /\ EnterPool(p) /\ UNCHANGED <<slots, lock, local>>
PageEnd(p) == p \in pool /\ LeavePool(p) /\ UNCHANGED <<slots, lock, local>>

\* The steps of a request that need no thread of the pool to be free.
Step(t) ==
    \/ ReadBody(t) \/ Reply(t) \/ Session(t) \/ Recheck(t) \/ EndSession(t) \/ Checks(t)
    \/ Op(t) \/ Prepare(t) \/ Begin(t) \/ Work(t) \/ Io(t) \/ Create(t) \/ Logout(t)
    \/ IndexTry(t) \/ IndexRead(t)

Next ==
    \/ \E t \in Tasks : Start(t) \/ Step(t) \/ \E r \in Requests : Guard(t, r)
    \/ \E p \in Pages : PageStart(p) \/ PageEnd(p)
    \/ \E d \in Dbs : ReconcileBegin(d)
    \/ ReconcileEnd

Spec == Init /\ [][Next]_vars

\* Every call has a time limit, so a step ends. The pool serves the requests
\* that wait for a thread in the order of their arrival.
FairSpec ==
    /\ Spec
    /\ \A t \in Tasks : WF_vars(Step(t)) /\ SF_vars(Start(t))
    /\ \A p \in Pages : WF_vars(PageEnd(p))
    /\ WF_vars(ReconcileEnd)
-----------------------------------------------------------------------------
\* Where a request is inside of a block of admit, and where it has a thread.
SlotAt(t) ==
    CASE pc[t] = "recheck" -> "session"
      [] pc[t] \in {"prepare", "lock_wait", "locked", "io", "create"} -> KindOf(Route(t))
      [] pc[t] \in {"index_pg_io", "index_ch_io"} -> "issue"
      [] OTHER -> None
Running == Pcs \ (WaitPcs \cup {"idle", "body", "checks"})

Fits(t) ==
    /\ held[t] = SlotAt(t)
    /\ t \in pool <=> pc[t] \in Running
    /\ \A d \in Dbs : lock[d] = t <=> pc[t] = "locked" /\ req[t].db = d

\* No way out of a handler keeps a semaphore, a thread or a lock, or gives one
\* back twice, and they are taken in one order only: who waits for a thread has
\* nothing that others wait for, the owner of a lock waits for none of them, and it
\* is revokes alone that a revoke finds in its semaphore.
SharedIsAccountedFor == SlotsAreKept /\ \A t \in Tasks : Fits(t)

\* Whatever a handler begins to change, the request that made it do so was
\* sent by the portal's own pages (origin and token), with a session unless it
\* is the login that creates one, and its body was read to the end if the
\* handler uses it.
Checked(r) ==
    /\ r.route \notin Safe
    /\ r.origin /\ r.csrf # "bad"
    /\ r.cookie \/ r.route = "login"
    /\ r.body \notin {"both", "declared"}
    /\ r.route \in {"issue", "issue_form", "login"} => r.body # "streamed"

EffectsAreChecked == \A t \in Tasks : began[t] /\ pc[t] # "idle" => Checked(req[t])

\* A client that is told that its request was refused, or that the portal is
\* busy, may send it again: the change it asks for was not begun (a login that is
\* refused for want of rights has been given a token by Vault, and has revoked it).
\* Only 500, 502 and "Vault is unavailable" leave that open.
RefusedMeansUntouched == \A t \in Tasks : told[t] = "refused" => ~began[t]

\* Every request is answered: no thread of the pool waits for another one, a
\* request that needs a second or third thread, if only for the reply that it is
\* refused, holds nothing while it waits, a lock is not waited for without a
\* limit, and no way out of a handler keeps what the others need.
RequestsAreAnswered == \A t \in Tasks : pc[t] # "idle" ~> pc[t] = "idle"
=============================================================================
