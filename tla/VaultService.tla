---------------------------- MODULE VaultService ----------------------------
(***************************************************************************)
(* The middleware's Vault client, class Service of                         *)
(* src/middleware/app/vault_client.py: one AppRole token shared by all     *)
(* threads, replaced when it is old or refused. A thread runs one          *)
(* Service.call at a time.                                                 *)
(***************************************************************************)
EXTENDS Naturals, FiniteSets

CONSTANTS Threads,    \* threads that call Vault
          None,       \* no thread
          Disturbed,  \* may operators revoke the service's tokens and change its policy?
          MaxTokens   \* bound: logins in a behaviour

ASSUME ServiceAssumption ==
    /\ None \notin Threads
    /\ Disturbed \in BOOLEAN
    /\ MaxTokens \in Nat \ {0}

\* Tokens are numbered in the order of their logins; 0 is no token.
Tokens == 1 .. MaxTokens
NoToken == 0

VARIABLES
    alive,      \* tokens Vault accepts
    issued,     \* how many tokens Vault has issued
    client,     \* _client
    stale,      \* is _logged_in_at more than RELOGIN_AFTER ago?
    lock,       \* _lock
    pc,         \* where each thread's call is
    using,      \* the token the call was given by client() or _login()
    replaced,   \* _login's old
    tried,      \* is the thread's request a second try?
    permitted,  \* does the service's policy allow the requests?
    overtaken,  \* history: threads whose token died after they were given it
    result,     \* how the thread's last call ended
    kept        \* history: tokens whose revocation, or whose login's reply, was lost

shared == <<client, stale, lock>>
server == <<alive, issued, permitted>>
call   == <<using, replaced, tried>>
hist   == <<overtaken, result, kept>>
vars   == <<server, shared, pc, call, hist>>

Pcs == {"idle", "client", "relogin", "login", "store", "revoke_old", "unlock", "request"}
\* "error" is an exception of the HTTP client that call does not translate.
Results == {"none", "done", "forbidden", "unavailable", "error"}

\* Types of the state; a request is made with a token, and only the thread
\* that holds the lock logs in.
TypeOK ==
    /\ alive \subseteq Tokens
    /\ issued \in 0 .. MaxTokens
    /\ client \in Tokens \cup {NoToken}
    /\ stale \in BOOLEAN
    /\ lock \in Threads \cup {None}
    /\ pc \in [Threads -> Pcs]
    /\ using \in [Threads -> Tokens \cup {NoToken}]
    /\ replaced \in [Threads -> Tokens \cup {NoToken}]
    /\ tried \in [Threads -> BOOLEAN]
    /\ permitted \in BOOLEAN
    /\ overtaken \subseteq Threads
    /\ result \in [Threads -> Results]
    /\ kept \subseteq Tokens
    /\ \A t \in Threads : pc[t] \in {"store", "unlock", "request"} => using[t] # NoToken
    /\ \A t \in Threads : pc[t] \in {"login", "store", "revoke_old", "unlock"} => lock = t

Init ==
    /\ alive = {}
    /\ issued = 0
    /\ client = NoToken
    /\ stale = FALSE
    /\ lock = None
    /\ pc = [t \in Threads |-> "idle"]
    /\ using = [t \in Threads |-> NoToken]
    /\ replaced = [t \in Threads |-> NoToken]
    /\ tried = [t \in Threads |-> FALSE]
    /\ permitted = TRUE
    /\ overtaken = {}
    /\ result = [t \in Threads |-> "none"]
    /\ kept = {}

Goto(t, l) == pc' = [pc EXCEPT ![t] = l]

\* The call returns or raises.
Answer(t, r) ==
    /\ result' = [result EXCEPT ![t] = r]
    /\ using' = [using EXCEPT ![t] = NoToken]
    /\ replaced' = [replaced EXCEPT ![t] = NoToken]
    /\ tried' = [tried EXCEPT ![t] = FALSE]
    /\ Goto(t, "idle")

\* Tokens that die while a thread is about to use them.
Kill(k) ==
    /\ alive' = alive \ {k}
    /\ overtaken' = overtaken \cup {t \in Threads : using[t] = k}
-----------------------------------------------------------------------------
Start(t) ==
    /\ pc[t] = "idle"
    /\ result' = [result EXCEPT ![t] = "none"]
    /\ overtaken' = overtaken \ {t}
    /\ Goto(t, "client")
    /\ UNCHANGED <<server, shared, call, kept>>

\* Faulty: a client is taken to be there.
TakeUnset(t) ==
    /\ pc[t] = "client"
    /\ lock = None
    /\ IF stale
       THEN /\ lock' = t
            /\ Goto(t, "login")
            /\ using' = using
       ELSE /\ lock' = lock
            /\ Goto(t, "request")
            /\ using' = [using EXCEPT ![t] = client]
    /\ UNCHANGED <<server, client, stale, replaced, tried, hist>>

\* client(): the shared client, unless there is none or it is old.
TakeClient(t) ==
    /\ pc[t] = "client"
    /\ lock = None
    /\ IF client = NoToken \/ stale
       THEN /\ lock' = t
            /\ Goto(t, "login")
            /\ using' = using
       ELSE /\ lock' = lock
            /\ Goto(t, "request")
            /\ using' = [using EXCEPT ![t] = client]
    /\ UNCHANGED <<server, client, stale, replaced, tried, hist>>

\* A refused request: the lock is taken for a new login.
TakeLock(t) ==
    /\ pc[t] = "relogin"
    /\ lock = None
    /\ lock' = t
    /\ Goto(t, "login")
    /\ UNCHANGED <<server, client, stale, call, hist>>

\* _login: Vault issues a token.
Login(t) ==
    /\ pc[t] = "login"
    /\ issued < MaxTokens
    /\ issued' = issued + 1
    /\ alive' = alive \cup {issued'}
    /\ using' = [using EXCEPT ![t] = issued']
    /\ Goto(t, "store")
    /\ UNCHANGED <<permitted, shared, replaced, tried, hist>>

\* Faulty: the lock stays taken.
LoginFailsLocked(t) ==
    /\ pc[t] = "login"
    /\ Answer(t, "unavailable")
    /\ UNCHANGED <<server, shared, overtaken, kept>>

\* The login fails: VaultUnavailable, and the lock is released. Vault may have
\* issued the token when its reply is lost.
LoginFails(t) ==
    /\ pc[t] = "login"
    /\ lock' = None
    /\ \/ UNCHANGED <<alive, issued, kept>>
       \/ /\ issued < MaxTokens
          /\ issued' = issued + 1
          /\ alive' = alive \cup {issued'}
          /\ kept' = kept \cup {issued'}
    /\ Answer(t, "unavailable")
    /\ UNCHANGED <<permitted, client, stale, overtaken>>

\* Faulty: the client that is replaced is forgotten.
StoreOver(t) ==
    /\ pc[t] = "store"
    /\ client' = using[t]
    /\ stale' = FALSE
    /\ Goto(t, "unlock")
    /\ UNCHANGED <<server, lock, call, hist>>

StoreClient(t) ==
    /\ pc[t] = "store"
    /\ replaced' = [replaced EXCEPT ![t] = client]
    /\ client' = using[t]
    /\ stale' = FALSE
    /\ Goto(t, IF client = NoToken THEN "unlock" ELSE "revoke_old")
    /\ UNCHANGED <<server, lock, using, tried, hist>>

\* revoke_self of the replaced token; any failure is ignored.
RevokeOld(t) ==
    /\ pc[t] = "revoke_old"
    /\ \/ Kill(replaced[t]) /\ kept' = kept
       \/ /\ kept' = kept \cup ({replaced[t]} \cap alive)
          /\ UNCHANGED <<alive, overtaken>>
    /\ Goto(t, "unlock")
    /\ UNCHANGED <<issued, permitted, shared, call, result>>

Unlock(t) ==
    /\ pc[t] = "unlock"
    /\ lock' = None
    /\ Goto(t, "request")
    /\ UNCHANGED <<server, client, stale, call, hist>>

\* fn(c), outside the lock.
RequestDone(t) ==
    /\ pc[t] = "request"
    /\ using[t] \in alive /\ permitted
    /\ Answer(t, "done")
    /\ UNCHANGED <<server, shared, overtaken, kept>>

\* Faulty: the first refusal is raised.
RefusedAtOnce(t) ==
    /\ pc[t] = "request"
    /\ ~(using[t] \in alive /\ permitted)
    /\ Answer(t, "forbidden")
    /\ UNCHANGED <<server, shared, overtaken, kept>>

\* Vault refuses: the first time the thread logs in again, the second 403 is
\* raised.
RequestRefused(t) ==
    /\ pc[t] = "request"
    /\ ~(using[t] \in alive /\ permitted)
    /\ IF tried[t]
       THEN /\ Answer(t, "forbidden")
            /\ UNCHANGED <<server, shared, overtaken, kept>>
       ELSE /\ tried' = [tried EXCEPT ![t] = TRUE]
            /\ overtaken' = overtaken \ {t}
            /\ Goto(t, "relogin")
            /\ UNCHANGED <<server, shared, using, replaced, result, kept>>

\* Any other exception. Vault down or a connection that fails is translated to
\* VaultUnavailable, but only at the first try; the rest is raised as it is.
RequestFails(t) ==
    /\ pc[t] = "request"
    /\ \/ ~tried[t] /\ Answer(t, "unavailable")
       \/ Answer(t, "error")
    /\ UNCHANGED <<server, shared, overtaken, kept>>
-----------------------------------------------------------------------------
\* 45 minutes pass since the login.
GrowOld ==
    /\ client # NoToken /\ ~stale
    /\ stale' = TRUE
    /\ UNCHANGED <<server, client, lock, pc, call, hist>>

\* A token reaches its TTL. It is an hour, and client() gives a token out for
\* 45 minutes: one that a thread has in hand does not end.
Expire(k) ==
    /\ k \in alive
    /\ k = client => stale
    /\ \A t \in Threads : using[t] # k
    /\ Kill(k)
    /\ kept' = kept \ {k}
    /\ UNCHANGED <<issued, permitted, shared, pc, call, result>>

\* An operator revokes a token.
Revoke(k) ==
    /\ Disturbed
    /\ k \in alive
    /\ Kill(k)
    /\ kept' = kept \ {k}
    /\ UNCHANGED <<issued, permitted, shared, pc, call, result>>

\* An operator changes the service's policy.
ChangePolicy ==
    /\ Disturbed
    /\ permitted' = ~permitted
    /\ UNCHANGED <<alive, issued, shared, pc, call, hist>>

Step(t) ==
    \/ TakeClient(t) \/ TakeLock(t) \/ Login(t) \/ LoginFails(t) \/ StoreClient(t)
    \/ RevokeOld(t) \/ Unlock(t) \/ RequestDone(t) \/ RequestRefused(t) \/ RequestFails(t)

Next ==
    \/ \E t \in Threads : Start(t) \/ Step(t)
    \/ GrowOld
    \/ \E k \in Tokens : Expire(k) \/ Revoke(k)
    \/ ChangePolicy

Spec == Init /\ [][Next]_vars

\* A thread that has begun goes on, and gets the lock at some time: _login is
\* bounded by the client's timeout and threading.Lock wakes every waiter.
FairSpec ==
    /\ Spec
    /\ \A t \in Threads : WF_vars(Step(t)) /\ SF_vars(TakeClient(t)) /\ SF_vars(TakeLock(t))
-----------------------------------------------------------------------------
\* _login: "do not leave the previous service token alive until its TTL". A
\* token Vault accepts is the shared one, the one a thread is logging in with
\* or replacing under the lock, or one whose revocation failed.
LiveTokensAreKnown ==
    \A k \in alive :
        \/ k = client
        \/ k \in kept
        \/ \E t \in Threads :
              /\ lock = t
              /\ \/ pc[t] = "store" /\ k = using[t]
                 \/ pc[t] = "revoke_old" /\ k = replaced[t]

\* A 403 is raised to the caller only for a second token, and then for a missing
\* permission or because that token died under it.
ForbiddenIsExplained ==
    [][\A t \in Threads :
          result'[t] = "forbidden" /\ result[t] # "forbidden"
              => tried[t] /\ (~permitted \/ t \in overtaken)]_vars

\* Every call ends: no thread waits for ever for the login of another, and a
\* refused call does not log in again and again.
CallsEnd == \A t \in Threads : pc[t] # "idle" ~> pc[t] = "idle"

\* call: "a second 403 is a real permission error".
SecondForbiddenIsReal ==
    [][\A t \in Threads :
          result'[t] = "forbidden" /\ result[t] # "forbidden" => ~permitted]_vars
=============================================================================
