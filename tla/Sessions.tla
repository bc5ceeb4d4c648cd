------------------------------ MODULE Sessions ------------------------------
(***************************************************************************)
(* The portal's sessions: login, logout and current_session of             *)
(* src/middleware/app/main.py over the table of store.py, and the purge of *)
(* reconcile_once. A session holds the admin's own Vault login token.      *)
(* Threads of the pool serve requests; the sessions are those of one user. *)
(***************************************************************************)
EXTENDS Naturals, FiniteSets

CONSTANTS Sessions,   \* session ids
          Threads,    \* threads that serve requests
          None,       \* no session
          MaxFaults   \* bound: failed calls and crashes in a behaviour

ASSUME SessionsAssumption ==
    /\ None \notin Sessions
    /\ MaxFaults \in Nat

VARIABLES
    row,      \* SQLite: "none", "live" or "ended" (deleted)
    token,    \* Vault: sessions whose login token is alive
    admin,    \* Vault: does the user have the portal's admin policy?
    idle,     \* sessions not used for SESSION_IDLE_SECONDS
    aged,     \* sessions older than SESSION_ABSOLUTE_SECONDS
    due,      \* sessions not checked for SESSION_RECHECK_SECONDS
    pc,       \* the next call of each thread
    sid,      \* the session a thread's request carries, or creates
    old,      \* the session a login replaces
    rights,   \* what user_policies answered to the thread
    purged,   \* rows purge_sessions returned, their tokens not revoked yet
    leaked,   \* history: tokens nobody is going to revoke, after a fault
    doomed,   \* history: requests on a due session that began with no rights left
    faults    \* faults that may still happen

clock  == <<idle, aged, due>>
local  == <<sid, old, rights>>
hist   == <<leaked, doomed>>
vars   == <<row, token, admin, clock, pc, local, purged, hist, faults>>

LoginPcs == {"drop_old", "revoke_old", "create", "deny"}
CheckPcs == {"recheck_user", "recheck_token", "touch", "touch_checked"}
EndPcs == {"delete", "revoke"}
Pcs == LoginPcs \cup CheckPcs \cup EndPcs \cup {"idle", "admitted"}

\* Types of the state; a thread that works has a session to work on.
TypeOK ==
    /\ row \in [Sessions -> {"none", "live", "ended"}]
    /\ token \subseteq Sessions
    /\ admin \in BOOLEAN
    /\ idle \subseteq Sessions /\ aged \subseteq Sessions /\ due \subseteq Sessions
    /\ pc \in [Threads -> Pcs]
    /\ sid \in [Threads -> Sessions \cup {None}]
    /\ old \in [Threads -> Sessions \cup {None}]
    /\ rights \in [Threads -> BOOLEAN]
    /\ \A t \in Threads : pc[t] # "idle" => sid[t] # None
    /\ \A t \in Threads : pc[t] = "revoke_old" => old[t] # None
    /\ purged \subseteq Sessions
    /\ leaked \subseteq Sessions
    /\ doomed \subseteq Threads
    /\ faults \in 0 .. MaxFaults

Init ==
    /\ row = [s \in Sessions |-> "none"]
    /\ token = {}
    /\ admin = TRUE
    /\ idle = {} /\ aged = {} /\ due = {}
    /\ pc = [t \in Threads |-> "idle"]
    /\ sid = [t \in Threads |-> None]
    /\ old = [t \in Threads |-> None]
    /\ rights = [t \in Threads |-> FALSE]
    /\ purged = {}
    /\ leaked = {}
    /\ doomed = {}
    /\ faults = MaxFaults

Goto(t, l) == pc' = [pc EXCEPT ![t] = l]
Fault == faults > 0 /\ faults' = faults - 1

\* The reply is sent; the thread is free.
Reply(t) ==
    /\ Goto(t, "idle")
    /\ sid' = [sid EXCEPT ![t] = None]
    /\ old' = [old EXCEPT ![t] = None]
    /\ rights' = [rights EXCEPT ![t] = FALSE]
    /\ doomed' = doomed \ {t}

Live(s) == s # None /\ row[s] = "live"

\* These rows are deleted, if they are there, and their times with them.
End(ss) ==
    /\ row' = [s \in Sessions |-> IF s \in ss /\ row[s] = "live" THEN "ended" ELSE row[s]]
    /\ idle' = idle \ ss /\ aged' = aged \ ss /\ due' = due \ ss
Delete(s) == End({s})

\* revoke_token_quietly: the token dies, or the failure is ignored.
RevokeQuietly(s) ==
    \/ token' = token \ {s} /\ UNCHANGED <<leaked, faults>>
    \/ token' = token /\ leaked' = leaked \cup {s} /\ Fault
-----------------------------------------------------------------------------
(* _do_login                                                               *)

\* Vault accepts the password; the policies decide. The browser may still
\* carry the cookie of a session.
LogIn(t, s, o) ==
    /\ pc[t] = "idle"
    /\ row[s] = "none" /\ s \notin token
    /\ \A u \in Threads : sid[u] # s
    /\ o = None \/ (o \in Sessions /\ row[o] # "none")
    /\ token' = token \cup {s}
    /\ sid' = [sid EXCEPT ![t] = s]
    /\ old' = [old EXCEPT ![t] = o]
    /\ Goto(t, IF admin THEN "drop_old" ELSE "deny")
    /\ UNCHANGED <<row, admin, clock, rights, purged, hist, faults>>

\* The reply of the login is lost: nobody knows the token.
LogInLost(s) ==
    /\ row[s] = "none" /\ s \notin token
    /\ \A u \in Threads : sid[u] # s
    /\ Fault
    /\ token' = token \cup {s}
    /\ leaked' = leaked \cup {s}
    /\ UNCHANGED <<row, admin, clock, pc, local, purged, doomed>>

\* Not a portal administrator: the token is revoked at once.
Deny(t) ==
    /\ pc[t] = "deny"
    /\ \/ token' = token \ {sid[t]} /\ UNCHANGED <<leaked, faults>>
       \/ token' = token /\ leaked' = leaked \cup {sid[t]} /\ Fault
    /\ Reply(t)
    /\ UNCHANGED <<row, admin, clock, purged>>

\* Faulty: a cookie is taken for a session.
DropUnchecked(t) ==
    /\ pc[t] = "drop_old"
    /\ row' = [s \in Sessions |-> IF s = old[t] THEN "ended" ELSE row[s]]
    /\ Goto(t, "revoke_old")
    /\ UNCHANGED <<token, admin, clock, local, purged, hist, faults>>

\* The session of the old cookie ends.
DropOld(t) ==
    /\ pc[t] = "drop_old"
    /\ IF Live(old[t])
       THEN Delete(old[t]) /\ Goto(t, "revoke_old") /\ old' = old
       ELSE Goto(t, "create") /\ old' = [old EXCEPT ![t] = None] /\ UNCHANGED <<row, clock>>
    /\ UNCHANGED <<token, admin, sid, rights, purged, hist, faults>>

\* Faulty: only the row of the old session is deleted.
KeepOldToken(t) ==
    /\ pc[t] = "revoke_old"
    /\ Goto(t, "create")
    /\ UNCHANGED <<row, token, admin, clock, local, purged, hist, faults>>

RevokeOld(t) ==
    /\ pc[t] = "revoke_old"
    /\ RevokeQuietly(old[t])
    /\ old' = [old EXCEPT ![t] = None]
    /\ Goto(t, "create")
    /\ UNCHANGED <<row, admin, clock, sid, rights, purged, doomed>>

CreateSession(t) ==
    /\ pc[t] = "create"
    /\ row' = [row EXCEPT ![sid[t]] = "live"]
    /\ Reply(t)
    /\ UNCHANGED <<token, admin, clock, purged, leaked, faults>>

\* A call to SQLite raises: the token just issued has no row.
LoginFails(t) ==
    /\ pc[t] \in {"drop_old", "create"}
    /\ Fault
    /\ leaked' = leaked \cup {sid[t]}
    /\ Reply(t)
    /\ UNCHANGED <<row, token, admin, clock, purged>>
-----------------------------------------------------------------------------
(* current_session                                                         *)

\* The row is read, and judged by the clock. What is decided from it may be
\* old when it is acted upon.
Look(t, s) ==
    /\ pc[t] = "idle"
    /\ row[s] = "live"
    /\ sid' = [sid EXCEPT ![t] = s]
    /\ doomed' = IF s \in due /\ ~admin THEN doomed \cup {t} ELSE doomed
    /\ Goto(t, IF s \in idle \cup aged THEN "delete"
               ELSE IF s \in due THEN "recheck_user" ELSE "touch")
    /\ UNCHANGED <<row, token, admin, clock, old, rights, purged, leaked, faults>>

\* Faulty: the token's own policies, frozen at login, are all that is read.
RecheckNobody(t) ==
    /\ pc[t] = "recheck_user"
    /\ rights' = [rights EXCEPT ![t] = TRUE]
    /\ Goto(t, "recheck_token")
    /\ UNCHANGED <<row, token, admin, clock, sid, old, purged, hist, faults>>

\* user_policies: the current policies of the user.
RecheckUser(t) ==
    /\ pc[t] = "recheck_user"
    /\ rights' = [rights EXCEPT ![t] = admin]
    /\ Goto(t, "recheck_token")
    /\ UNCHANGED <<row, token, admin, clock, sid, old, purged, hist, faults>>

\* token_policies: is the token alive?
RecheckToken(t) ==
    /\ pc[t] = "recheck_token"
    /\ Goto(t, IF rights[t] /\ sid[t] \in token THEN "touch_checked" ELSE "delete")
    /\ rights' = [rights EXCEPT ![t] = FALSE]
    /\ UNCHANGED <<row, token, admin, clock, sid, old, purged, hist, faults>>

\* Too many checks at once, Vault or SQLite does not answer: the request is
\* refused and nothing is changed.
CheckFails(t) ==
    /\ pc[t] \in CheckPcs \cup {"delete"}
    /\ Fault
    /\ Reply(t)
    /\ UNCHANGED <<row, token, admin, clock, purged, leaked>>

\* Faulty: the row is written whether or not it is still there.
TouchAnyway(t) ==
    LET s == sid[t]
    IN  /\ pc[t] \in {"touch", "touch_checked"}
        /\ row' = [row EXCEPT ![s] = "live"]
        /\ idle' = idle \ {s}
        /\ due' = IF pc[t] = "touch_checked" THEN due \ {s} ELSE due
        /\ Goto(t, "admitted")
        /\ UNCHANGED <<token, admin, aged, local, purged, hist, faults>>

\* touch_session: the times of the row, if it is still there.
Touch(t) ==
    LET s == sid[t]
    IN  /\ pc[t] \in {"touch", "touch_checked"}
        /\ idle' = IF Live(s) THEN idle \ {s} ELSE idle
        /\ due' = IF Live(s) /\ pc[t] = "touch_checked" THEN due \ {s} ELSE due
        /\ Goto(t, "admitted")
        /\ UNCHANGED <<row, token, admin, aged, local, purged, hist, faults>>

\* The handler of the request runs; the handler of logout ends the session.
Handle(t) ==
    /\ pc[t] = "admitted"
    /\ \/ Reply(t)
       \/ Goto(t, "delete") /\ UNCHANGED <<local, doomed>>
    /\ UNCHANGED <<row, token, admin, clock, purged, leaked, faults>>

DeleteSession(t) ==
    /\ pc[t] = "delete"
    /\ Delete(sid[t])
    /\ Goto(t, "revoke")
    /\ doomed' = doomed \ {t}
    /\ UNCHANGED <<token, admin, local, purged, leaked, faults>>

RevokeToken(t) ==
    /\ pc[t] = "revoke"
    /\ RevokeQuietly(sid[t])
    /\ Goto(t, "idle")
    /\ sid' = [sid EXCEPT ![t] = None]
    /\ rights' = [rights EXCEPT ![t] = FALSE]
    /\ doomed' = doomed \ {t}
    /\ UNCHANGED <<row, admin, clock, old, purged>>
-----------------------------------------------------------------------------
(* The reconciler, the clock, Vault and the machine                        *)

\* Faulty: only idle sessions are purged.
PurgeIdle ==
    /\ \E s \in idle : row[s] = "live"
    /\ purged' = purged \cup {s \in idle : row[s] = "live"}
    /\ End(idle)
    /\ UNCHANGED <<token, admin, pc, local, hist, faults>>

\* purge_sessions, in one transaction.
Purge ==
    /\ \E s \in idle \cup aged : row[s] = "live"
    /\ purged' = purged \cup {s \in idle \cup aged : row[s] = "live"}
    /\ End(idle \cup aged)
    /\ UNCHANGED <<token, admin, pc, local, hist, faults>>

RevokePurged(s) ==
    /\ s \in purged
    /\ RevokeQuietly(s)
    /\ purged' = purged \ {s}
    /\ UNCHANGED <<row, admin, clock, pc, local, doomed>>

\* Time passes for a session: SESSION_RECHECK_SECONDS is less than
\* SESSION_IDLE_SECONDS, and a check never comes after the last use.
Tick(s) ==
    /\ row[s] = "live"
    /\ \/ s \in due \ idle /\ idle' = idle \cup {s} /\ UNCHANGED <<aged, due>>
       \/ s \notin aged /\ aged' = aged \cup {s} /\ UNCHANGED <<idle, due>>
       \/ s \notin due /\ due' = due \cup {s} /\ UNCHANGED <<idle, aged>>
    /\ UNCHANGED <<row, token, admin, pc, local, purged, hist, faults>>

\* A Vault operator takes the user's rights away, or gives them back.
ChangeRights ==
    /\ admin' = ~admin
    /\ doomed' = IF admin' THEN {} ELSE doomed
    /\ UNCHANGED <<row, token, clock, pc, local, purged, leaked, faults>>

TokenExpires(s) ==
    /\ s \in token
    /\ token' = token \ {s}
    /\ leaked' = leaked \ {s}
    /\ UNCHANGED <<row, admin, clock, pc, local, purged, doomed, faults>>

\* The process dies: tokens it was about to store or to revoke stay alive.
Crash ==
    /\ Fault
    /\ leaked' = leaked \cup {s \in token : row[s] # "live"}
    /\ pc' = [t \in Threads |-> "idle"]
    /\ sid' = [t \in Threads |-> None]
    /\ old' = [t \in Threads |-> None]
    /\ rights' = [t \in Threads |-> FALSE]
    /\ purged' = {}
    /\ doomed' = {}
    /\ UNCHANGED <<row, token, admin, clock>>

LoginStep(t) ==
    Deny(t) \/ DropOld(t) \/ RevokeOld(t) \/ CreateSession(t) \/ LoginFails(t)

RequestStep(t) ==
    \/ RecheckUser(t) \/ RecheckToken(t) \/ CheckFails(t) \/ Touch(t) \/ Handle(t)
    \/ DeleteSession(t) \/ RevokeToken(t)

Next ==
    \/ \E t \in Threads, s \in Sessions :
          Look(t, s) \/ \E o \in Sessions \cup {None} : LogIn(t, s, o)
    \/ \E s \in Sessions : LogInLost(s)
    \/ \E t \in Threads : LoginStep(t) \/ RequestStep(t)
    \/ Purge
    \/ \E s \in Sessions : RevokePurged(s) \/ Tick(s) \/ TokenExpires(s)
    \/ ChangeRights
    \/ Crash

Spec == Init /\ [][Next]_vars

\* The reconciler comes round every RECONCILE_INTERVAL, and a thread that has
\* ended a session goes on to revoke its token.
FairSpec ==
    /\ Spec
    /\ WF_vars(Purge \/ \E s \in Sessions : RevokePurged(s))
    /\ \A t \in Threads : WF_vars(RevokeOld(t) \/ RevokeToken(t))
-----------------------------------------------------------------------------
\* Every admin token Vault accepts belongs to a session that can be used, or
\* somebody is about to store or revoke it; what a failed revocation or a crash
\* leaves is the only exception.
TokensAreOwned ==
    \A s \in token :
        \/ row[s] = "live"
        \/ s \in purged \cup leaked
        \/ \E t \in Threads :
              \/ sid[t] = s /\ pc[t] \in LoginPcs \cup {"revoke"}
              \/ old[t] = s /\ pc[t] = "revoke_old"

\* A session that has ended stays so: a request that read the row before does
\* not bring it back when it touches it.
EndedStaysEnded == [][\A s \in Sessions : row[s] = "ended" => row'[s] = "ended"]_vars

\* SESSION_RECHECK_SECONDS after the rights were removed, requests that begin
\* then are refused, whatever concurrent requests of the session do.
RemovedRightsAreNoticed == \A t \in Threads : pc[t] = "admitted" => t \notin doomed

\* A session past its absolute limit is ended by the reconciler if no request
\* ends it, and its token dies unless that failed.
AgedSessionsEnd ==
    \A s \in Sessions :
        s \in aged /\ row[s] = "live" ~> row[s] = "ended" /\ (s \in token => s \in leaked)
=============================================================================
