--------------------------- MODULE SessionsProofs ---------------------------
(***************************************************************************)
(* Proofs about Sessions, for any sessions, threads and number of faults.  *)
(***************************************************************************)
EXTENDS Sessions, TLAPS

\* A login creates a session that no row has had and nobody else creates.
NewSessions ==
    /\ \A t \in Threads : pc[t] \in LoginPcs => row[sid[t]] = "none"
    /\ \A t, u \in Threads : pc[t] \in LoginPcs /\ pc[u] # "idle" /\ sid[t] = sid[u] => t = u

\* A request that began with no rights left is refused, or about to be.
DoomedAreRefused ==
    \A t \in doomed :
        /\ ~admin
        /\ pc[t] \in {"recheck_user", "recheck_token", "delete"}
        /\ pc[t] = "recheck_token" => ~rights[t]

SessionsInv == TypeOK /\ NewSessions /\ TokensAreOwned /\ DoomedAreRefused

LEMMA InitSessions == Init => SessionsInv
<1> SUFFICES ASSUME Init
             PROVE  SessionsInv
  OBVIOUS
<1> USE DEF Init
<1>1. pc \in [Threads -> Pcs] /\ \A t \in Threads : pc[t] = "idle"
  BY DEF Pcs
<1>2. /\ row \in [Sessions -> {"none", "live", "ended"}]
      /\ sid \in [Threads -> Sessions \cup {None}] /\ old \in [Threads -> Sessions \cup {None}]
  OBVIOUS
<1>3. admin \in BOOLEAN /\ rights \in [Threads -> BOOLEAN]
  OBVIOUS
<1>4. faults \in 0 .. MaxFaults
  BY SessionsAssumption
<1>5. TypeOK
  BY <1>1, <1>2, <1>3, <1>4 DEF TypeOK
<1> QED
  BY <1>1, <1>5 DEF SessionsInv, NewSessions, TokensAreOwned, DoomedAreRefused, LoginPcs

\* The places of a thread, one by one.
LEMMA Places ==
    /\ Pcs = {"drop_old", "revoke_old", "create", "deny", "recheck_user", "recheck_token",
              "touch", "touch_checked", "delete", "revoke", "idle", "admitted"}
    /\ LoginPcs = {"drop_old", "revoke_old", "create", "deny"}
BY DEF Pcs, LoginPcs, CheckPcs, EndPcs

\* What the reply to a request changes.
LEMMA ReplyEnds ==
    ASSUME TypeOK, NEW t \in Threads, Reply(t)
    PROVE  /\ pc' \in [Threads -> Pcs] /\ pc'[t] = "idle"
           /\ sid' \in [Threads -> Sessions \cup {None}]
           /\ old' \in [Threads -> Sessions \cup {None}]
           /\ rights' \in [Threads -> BOOLEAN]
           /\ doomed' = doomed \ {t}
           /\ \A u \in Threads \ {t} : /\ pc'[u] = pc[u] /\ sid'[u] = sid[u]
                                       /\ old'[u] = old[u] /\ rights'[u] = rights[u]
<1>1. "idle" \in Pcs /\ FALSE \in BOOLEAN
  BY DEF Pcs
<1> QED
  BY <1>1 DEF Reply, Goto, TypeOK

\* A login's steps keep the types ...
LEMMA LoginKeepsType ==
    ASSUME TypeOK, NEW t \in Threads,
           LoginStep(t) \/ \E s \in Sessions, o \in Sessions \cup {None} : LogIn(t, s, o)
    PROVE  TypeOK'
<1>0. Fault => faults' \in 0 .. MaxFaults
  BY SessionsAssumption DEF Fault, TypeOK
<1>1. ASSUME NEW s \in Sessions, NEW o \in Sessions \cup {None}, LogIn(t, s, o)
      PROVE  TypeOK'
  BY <1>1, Places, SessionsAssumption DEF LogIn, Goto, TypeOK, clock, hist
<1>2. CASE Deny(t)
  BY <1>0, <1>2, ReplyEnds DEF Deny, TypeOK, clock
<1>3. CASE DropOld(t)
  BY <1>3, Places DEF DropOld, Live, Delete, End, Goto, TypeOK, clock, hist
<1>4. CASE RevokeOld(t)
  BY <1>0, <1>4, Places DEF RevokeOld, RevokeQuietly, Goto, TypeOK, clock
<1>5. CASE CreateSession(t)
  BY <1>5, ReplyEnds DEF CreateSession, TypeOK, clock
<1>6. CASE LoginFails(t)
  BY <1>0, <1>6, ReplyEnds DEF LoginFails, TypeOK, clock
<1> QED
  BY <1>1, <1>2, <1>3, <1>4, <1>5, <1>6 DEF LoginStep

\* ... those of a request do ...
LEMMA RequestKeepsType ==
    ASSUME TypeOK, NEW t \in Threads, RequestStep(t) \/ \E s \in Sessions : Look(t, s)
    PROVE  TypeOK'
<1>0. Fault => faults' \in 0 .. MaxFaults
  BY SessionsAssumption DEF Fault, TypeOK
<1>1. ASSUME NEW s \in Sessions, Look(t, s)
      PROVE  TypeOK'
  BY <1>1, Places, SessionsAssumption DEF Look, Goto, TypeOK, clock
<1>2. CASE RecheckUser(t)
  <2>1. rights' \in [Threads -> BOOLEAN]
    BY <1>2 DEF RecheckUser, TypeOK
  <2> QED
    BY <1>2, <2>1, Places DEF RecheckUser, Goto, TypeOK, clock, hist
<1>3. CASE RecheckToken(t)
  <2>1. rights' \in [Threads -> BOOLEAN]
    BY <1>3 DEF RecheckToken, TypeOK
  <2> QED
    BY <1>3, <2>1, Places DEF RecheckToken, Goto, TypeOK, clock, hist
<1>4. CASE CheckFails(t)
  BY <1>0, <1>4, ReplyEnds DEF CheckFails, TypeOK, clock
<1>5. CASE Touch(t)
  BY <1>5, Places DEF Touch, Goto, TypeOK, local, hist
<1>6. CASE Handle(t)
  <2>1. CASE Reply(t)
    BY <1>6, <2>1, ReplyEnds DEF Handle, TypeOK, clock
  <2>2. CASE Goto(t, "delete") /\ UNCHANGED <<local, doomed>>
    BY <1>6, <2>2, Places DEF Handle, Goto, TypeOK, clock, local
  <2> QED
    BY <1>6, <2>1, <2>2 DEF Handle
<1>7. CASE DeleteSession(t)
  BY <1>7, Places DEF DeleteSession, Delete, End, Goto, TypeOK, local
<1>8. CASE RevokeToken(t)
  <2>1. rights' \in [Threads -> BOOLEAN]
    BY <1>8 DEF RevokeToken, TypeOK
  <2> QED
    BY <1>0, <1>8, <2>1, Places DEF RevokeToken, RevokeQuietly, Goto, TypeOK, clock
<1> QED
  BY <1>1, <1>2, <1>3, <1>4, <1>5, <1>6, <1>7, <1>8 DEF RequestStep

\* What no thread of the pool does.
Outside ==
    \/ Purge \/ ChangeRights \/ Crash
    \/ \E s \in Sessions : LogInLost(s) \/ RevokePurged(s) \/ Tick(s) \/ TokenExpires(s)

LEMMA NextSplits ==
    [Next]_vars =>
        \/ \E t \in Threads : LoginStep(t) \/ \E s \in Sessions, o \in Sessions \cup {None} : LogIn(t, s, o)
        \/ \E t \in Threads : RequestStep(t) \/ \E s \in Sessions : Look(t, s)
        \/ Outside
        \/ UNCHANGED vars
BY DEF Next, Outside

\* ... and so does everything else.
LEMMA OutsideKeepsType == TypeOK /\ (Outside \/ UNCHANGED vars) => TypeOK'
<1> SUFFICES ASSUME TypeOK, Outside \/ UNCHANGED vars
             PROVE  TypeOK'
  OBVIOUS
<1>0. Fault => faults' \in 0 .. MaxFaults
  BY SessionsAssumption DEF Fault, TypeOK
<1>1. CASE Purge
  BY <1>1 DEF Purge, End, TypeOK, local, hist
<1>2. CASE ChangeRights
  BY <1>2 DEF ChangeRights, TypeOK, clock, local
<1>3. CASE Crash
  <2>1. rights' \in [Threads -> BOOLEAN]
    BY <1>3 DEF Crash
  <2> QED
    BY <1>0, <1>3, <2>1, Places DEF Crash, TypeOK, clock
<1>4. ASSUME NEW s \in Sessions, LogInLost(s) \/ RevokePurged(s)
      PROVE  TypeOK'
  BY <1>0, <1>4 DEF LogInLost, RevokePurged, RevokeQuietly, TypeOK, clock, local
<1>5. ASSUME NEW s \in Sessions, Tick(s) \/ TokenExpires(s)
      PROVE  TypeOK'
  BY <1>5 DEF Tick, TokenExpires, TypeOK, clock, local, hist
<1>6. CASE UNCHANGED vars
  BY <1>6 DEF vars, TypeOK, clock, local, hist
<1> QED
  BY <1>1, <1>2, <1>3, <1>4, <1>5, <1>6 DEF Outside

LEMMA KeepsType == TypeOK /\ [Next]_vars => TypeOK'
BY NextSplits, LoginKeepsType, RequestKeepsType, OutsideKeepsType

\* The thread that is to revoke the token of s.
Owner(t, s) ==
    \/ sid[t] = s /\ pc[t] \in LoginPcs \cup {"revoke"}
    \/ old[t] = s /\ pc[t] = "revoke_old"

\* What a step may do to the tokens and rows of sessions that it does not take
\* over: a token comes with an owner or as leaked, a row that ends hands its
\* token to an owner, and an owner who lets go has revoked it or failed to.
Handed(s) ==
    s \in token' => \/ row'[s] = "live"
                    \/ s \in purged' \cup leaked'
                    \/ \E t \in Threads : Owner(t, s)'

\* A thread's step leaves the others as they are.
LEMMA OthersStay ==
    ASSUME TypeOK, NEW t \in Threads,
           \/ LoginStep(t) \/ RequestStep(t)
           \/ \E s \in Sessions : Look(t, s) \/ \E o \in Sessions \cup {None} : LogIn(t, s, o)
    PROVE  /\ UNCHANGED <<admin, purged>>
           /\ \A u \in Threads \ {t} : /\ pc'[u] = pc[u] /\ sid'[u] = sid[u]
                                       /\ old'[u] = old[u] /\ rights'[u] = rights[u]
                                       /\ u \in doomed' <=> u \in doomed
<1> USE DEF TypeOK, Goto, clock, local, hist
<1>1. CASE \E s \in Sessions : Look(t, s) \/ \E o \in Sessions \cup {None} : LogIn(t, s, o)
  BY <1>1 DEF Look, LogIn
<1>2. CASE Deny(t) \/ CreateSession(t) \/ LoginFails(t)
  BY <1>2 DEF Deny, CreateSession, LoginFails, Reply
<1>3. CASE DropOld(t) \/ RevokeOld(t)
  BY <1>3 DEF DropOld, RevokeOld, RevokeQuietly
<1>4. CASE RecheckUser(t) \/ RecheckToken(t) \/ Touch(t)
  BY <1>4 DEF RecheckUser, RecheckToken, Touch
<1>5. CASE CheckFails(t) \/ Handle(t)
  BY <1>5 DEF CheckFails, Handle, Reply
<1>6. CASE DeleteSession(t) \/ RevokeToken(t)
  BY <1>6 DEF DeleteSession, RevokeToken, RevokeQuietly
<1> QED
  BY <1>1, <1>2, <1>3, <1>4, <1>5, <1>6 DEF LoginStep, RequestStep

\* Tokens stay owned over the steps of a login ...
LEMMA LoginKeepsOwned ==
    ASSUME SessionsInv, NEW t \in Threads,
           LoginStep(t) \/ \E s \in Sessions, o \in Sessions \cup {None} : LogIn(t, s, o),
           NEW x \in Sessions
    PROVE  Handed(x)
<1> USE DEF SessionsInv, TypeOK, TokensAreOwned, Handed, Owner, Goto, clock, local, hist
<1>o. \A u \in Threads \ {t} : Owner(u, x) => Owner(u, x)'
  BY OthersStay
<1>p. purged' = purged
  BY OthersStay
<1>1. ASSUME NEW s \in Sessions, NEW o \in Sessions \cup {None}, LogIn(t, s, o)
      PROVE  Handed(x)
  <2>1. Owner(t, s)'
    BY <1>1, Places DEF LogIn
  <2>2. ~Owner(t, x)
    BY <1>1, Places DEF LogIn
  <2> QED
    BY <1>1, <1>o, <2>1, <2>2 DEF LogIn
<1>2. CASE Deny(t)
  <2>1. Owner(t, x) => x = sid[t]
    BY <1>2 DEF Deny
  <2> QED
    BY <1>2, <1>o, <2>1 DEF Deny
<1>3. CASE DropOld(t)
  <2>1. Owner(t, x) => Owner(t, x)'
    BY <1>3, Places DEF DropOld
  <2>2. row[x] = "live" => row'[x] = "live" \/ Owner(t, x)'
    BY <1>3 DEF DropOld, Delete, End, Live
  <2> QED
    BY <1>3, <1>o, <2>1, <2>2 DEF DropOld
<1>4. CASE RevokeOld(t)
  <2>1. sid[t] = x => Owner(t, x)'
    BY <1>4, Places DEF RevokeOld
  <2>2. old[t] = x => x \notin token' \/ x \in leaked'
    BY <1>4 DEF RevokeOld, RevokeQuietly
  <2>3. leaked \subseteq leaked' /\ token' \subseteq token /\ row' = row
    BY <1>4 DEF RevokeOld, RevokeQuietly
  <2> QED
    BY <1>4, <1>o, <1>p, <2>1, <2>2, <2>3
<1>5. CASE CreateSession(t)
  <2>1. Owner(t, x) => row'[x] = "live"
    BY <1>5 DEF CreateSession
  <2>2. row[x] = "live" => row'[x] = "live"
    BY <1>5 DEF CreateSession
  <2> QED
    BY <1>5, <1>o, <2>1, <2>2 DEF CreateSession
<1>6. CASE LoginFails(t)
  <2>1. Owner(t, x) => x \in leaked'
    BY <1>6 DEF LoginFails
  <2> QED
    BY <1>6, <1>o, <2>1 DEF LoginFails
<1> QED
  BY <1>1, <1>2, <1>3, <1>4, <1>5, <1>6 DEF LoginStep

\* ... and over those of a request.
LEMMA RequestKeepsOwned ==
    ASSUME SessionsInv, NEW t \in Threads, RequestStep(t) \/ \E s \in Sessions : Look(t, s),
           NEW x \in Sessions
    PROVE  Handed(x)
<1> USE DEF SessionsInv, TypeOK, TokensAreOwned, Handed, Owner, Goto, clock, local, hist
<1>o. \A u \in Threads \ {t} : Owner(u, x) => Owner(u, x)'
  BY OthersStay
<1>p. purged' = purged
  BY OthersStay
<1>1. ASSUME ~Owner(t, x), UNCHANGED <<row, token, leaked>>
      PROVE  Handed(x)
  BY <1>1, <1>o, <1>p
<1>2. CASE \E s \in Sessions : Look(t, s)
  BY <1>1, <1>2, Places DEF Look
<1>3. CASE RecheckUser(t) \/ RecheckToken(t) \/ Touch(t)
  BY <1>1, <1>3, Places DEF RecheckUser, RecheckToken, Touch
<1>4. CASE CheckFails(t) \/ Handle(t)
  BY <1>1, <1>4, Places DEF CheckFails, CheckPcs, Handle
<1>5. CASE DeleteSession(t)
  <2>1. ~Owner(t, x)
    BY <1>5, Places DEF DeleteSession
  <2>2. row[x] = "live" => row'[x] = "live" \/ Owner(t, x)'
    BY <1>5 DEF DeleteSession, Delete, End
  <2> QED
    BY <1>5, <1>o, <1>p, <2>1, <2>2 DEF DeleteSession
<1>6. CASE RevokeToken(t)
  <2>1. Owner(t, x) => x \notin token' \/ x \in leaked'
    BY <1>6 DEF RevokeToken, RevokeQuietly
  <2>2. leaked \subseteq leaked' /\ token' \subseteq token /\ row' = row
    BY <1>6 DEF RevokeToken, RevokeQuietly
  <2> QED
    BY <1>o, <1>p, <2>1, <2>2
<1> QED
  BY <1>2, <1>3, <1>4, <1>5, <1>6 DEF RequestStep

\* So do the reconciler, the clock and a crash.
LEMMA OutsideKeepsOwned == SessionsInv /\ (Outside \/ UNCHANGED vars) => TokensAreOwned'
<1> SUFFICES ASSUME SessionsInv, Outside \/ UNCHANGED vars, NEW x \in Sessions
             PROVE  Handed(x)
  BY KeepsType, OutsideKeepsType DEF SessionsInv, TypeOK, TokensAreOwned, Handed, Owner
<1> USE DEF SessionsInv, TypeOK, TokensAreOwned, Handed, Owner, clock, local, hist
<1>1. CASE Purge
  BY <1>1 DEF Purge, End
<1>2. CASE ChangeRights
  BY <1>2 DEF ChangeRights
<1>3. CASE Crash
  BY <1>3 DEF Crash
<1>4. ASSUME NEW s \in Sessions, LogInLost(s) \/ RevokePurged(s)
      PROVE  Handed(x)
  BY <1>4 DEF LogInLost, RevokePurged, RevokeQuietly
<1>5. ASSUME NEW s \in Sessions, Tick(s) \/ TokenExpires(s)
      PROVE  Handed(x)
  BY <1>5 DEF Tick, TokenExpires
<1>6. CASE UNCHANGED vars
  BY <1>6 DEF vars
<1> QED
  BY <1>1, <1>2, <1>3, <1>4, <1>5, <1>6 DEF Outside

\* A row changes in two ways: it ends, or the login that is to create it does.
LEMMA RowMoves ==
    ASSUME SessionsInv, [Next]_vars, NEW x \in Sessions
    PROVE  \/ row'[x] = row[x]
           \/ row[x] = "live" /\ row'[x] = "ended"
           \/ /\ row[x] = "none"
              /\ \E t \in Threads : pc[t] = "create" /\ sid[t] = x /\ pc'[t] = "idle"
<1> USE DEF SessionsInv, TypeOK, Goto, clock, local, hist
<1>1. ASSUME NEW t \in Threads, CreateSession(t)
      PROVE  \/ row'[x] = row[x]
             \/ /\ row[x] = "none"
                /\ pc[t] = "create" /\ sid[t] = x /\ pc'[t] = "idle"
  BY <1>1, Places DEF CreateSession, Reply, NewSessions
<1>2. ASSUME NEW t \in Threads, DropOld(t) \/ DeleteSession(t) \/ Purge
      PROVE  row'[x] = row[x] \/ (row[x] = "live" /\ row'[x] = "ended")
  BY <1>2 DEF DropOld, DeleteSession, Purge, Delete, End
<1>3. CASE Purge
  BY <1>3 DEF Purge, End
<1>4. ASSUME NEW t \in Threads,
             \/ Deny(t) \/ RevokeOld(t) \/ LoginFails(t) \/ (RequestStep(t) /\ ~DeleteSession(t))
             \/ \E s \in Sessions : Look(t, s) \/ \E o \in Sessions \cup {None} : LogIn(t, s, o)
      PROVE  row' = row
  BY <1>4 DEF Deny, RevokeOld, LoginFails, RequestStep, RecheckUser, RecheckToken, CheckFails,
     Touch, Handle, RevokeToken, Look, LogIn
<1>5. CASE Outside /\ ~Purge
  BY <1>5 DEF Outside, ChangeRights, Crash, LogInLost, RevokePurged, Tick, TokenExpires
<1>6. CASE UNCHANGED vars
  BY <1>6 DEF vars
<1> QED
  BY <1>1, <1>2, <1>3, <1>4, <1>5, <1>6, NextSplits DEF LoginStep

\* Which steps begin or go on with a login, and with a request.
LEMMA ThreadMoves ==
    ASSUME TypeOK, NEW t \in Threads,
           \/ LoginStep(t) \/ RequestStep(t) \/ \E s \in Sessions : Look(t, s)
    PROVE  /\ pc'[t] \in LoginPcs => pc[t] \in LoginPcs /\ sid'[t] = sid[t]
           /\ pc'[t] # "idle" => (sid'[t] = sid[t] /\ pc[t] # "idle") \/ row[sid'[t]] = "live"
<1> USE Places DEF TypeOK, Goto, local
<1>1. CASE \E s \in Sessions : Look(t, s)
  BY <1>1 DEF Look
<1>2. CASE Deny(t) \/ CreateSession(t) \/ LoginFails(t)
  BY <1>2 DEF Deny, CreateSession, LoginFails, Reply
<1>3. CASE DropOld(t) \/ RevokeOld(t)
  BY <1>3 DEF DropOld, RevokeOld
<1>4. CASE RecheckUser(t) \/ RecheckToken(t) \/ Touch(t)
  BY <1>4 DEF RecheckUser, RecheckToken, Touch
<1>5. CASE CheckFails(t) \/ Handle(t)
  BY <1>5 DEF CheckFails, CheckPcs, Handle, Reply
<1>6. CASE DeleteSession(t) \/ RevokeToken(t)
  BY <1>6 DEF DeleteSession, RevokeToken
<1> QED
  BY <1>1, <1>2, <1>3, <1>4, <1>5, <1>6 DEF LoginStep, RequestStep

\* Logins keep creating sessions of their own.
LEMMA KeepsNew == SessionsInv /\ [Next]_vars => NewSessions'
<1> SUFFICES ASSUME SessionsInv, [Next]_vars
             PROVE  NewSessions'
  OBVIOUS
<1> USE DEF SessionsInv, TypeOK
<1>1. ASSUME NEW u \in Threads, pc[u] \in LoginPcs, pc'[u] = pc[u] \/ pc'[u] # "idle", sid'[u] = sid[u]
      PROVE  row'[sid'[u]] = "none"
  <2>1. sid[u] \in Sessions /\ row[sid[u]] = "none" /\ pc[u] # "idle"
    BY <1>1, Places DEF NewSessions
  <2>2. \A t \in Threads : pc[t] = "create" /\ sid[t] = sid[u] => t = u
    BY <1>1, <2>1, Places DEF NewSessions
  <2> QED
    BY <1>1, <2>1, <2>2, RowMoves
<1>2. ASSUME NEW t \in Threads,
             LoginStep(t) \/ RequestStep(t) \/ \E s \in Sessions : Look(t, s)
      PROVE  NewSessions'
  <2>1. \A u \in Threads : pc'[u] \in LoginPcs =>
            pc[u] \in LoginPcs /\ sid'[u] = sid[u] /\ pc'[u] # "idle"
    BY <1>2, ThreadMoves, OthersStay, Places
  <2>2. \A u \in Threads : pc'[u] # "idle" =>
            (sid'[u] = sid[u] /\ pc[u] # "idle") \/ row[sid'[u]] = "live"
    BY <1>2, ThreadMoves, OthersStay
  <2> QED
    BY <1>1, <2>1, <2>2 DEF NewSessions
<1>3. ASSUME NEW t \in Threads, NEW s \in Sessions, NEW o \in Sessions \cup {None}, LogIn(t, s, o)
      PROVE  NewSessions'
  <2>1. pc[t] = "idle" /\ sid'[t] = s /\ row' = row /\ row[s] = "none"
    BY <1>3 DEF LogIn
  <2>2. \A u \in Threads \ {t} : pc'[u] = pc[u] /\ sid'[u] = sid[u] /\ sid[u] # s
    BY <1>3, OthersStay DEF LogIn
  <2> QED
    BY <2>1, <2>2, Places DEF NewSessions
<1>4. CASE Outside \/ UNCHANGED vars
  <2>1. (\A u \in Threads : pc'[u] = "idle") \/ (pc' = pc /\ sid' = sid)
    BY <1>4 DEF Outside, Purge, ChangeRights, Crash, LogInLost, RevokePurged, Tick, TokenExpires,
       vars, local
  <2>2. CASE \A u \in Threads : pc'[u] = "idle"
    BY <2>2, Places DEF NewSessions
  <2>3. CASE pc' = pc /\ sid' = sid
    BY <1>1, <2>3 DEF NewSessions
  <2> QED
    BY <2>1, <2>2, <2>3
<1> QED
  BY <1>2, <1>3, <1>4, NextSplits

\* A request that began without rights stays refused.
LEMMA KeepsDoomed == SessionsInv /\ [Next]_vars => DoomedAreRefused'
<1> SUFFICES ASSUME SessionsInv, [Next]_vars
             PROVE  DoomedAreRefused'
  OBVIOUS
<1> USE DEF SessionsInv, TypeOK, Goto, clock, local, hist
<1>1. ASSUME NEW t \in Threads,
             \/ LoginStep(t) \/ RequestStep(t)
             \/ \E s \in Sessions : Look(t, s) \/ \E o \in Sessions \cup {None} : LogIn(t, s, o)
      PROVE  DoomedAreRefused'
  <2>1. admin' = admin /\ \A u \in Threads \ {t} :
            /\ pc'[u] = pc[u] /\ rights'[u] = rights[u]
            /\ u \in doomed' <=> u \in doomed
    BY <1>1, OthersStay
  <2>2. t \in doomed' =>
            /\ ~admin
            /\ pc'[t] \in {"recheck_user", "recheck_token", "delete"}
            /\ pc'[t] = "recheck_token" => ~rights'[t]
    <3>1. CASE \E s \in Sessions : Look(t, s) \/ \E o \in Sessions \cup {None} : LogIn(t, s, o)
      BY <3>1 DEF Look, LogIn, DoomedAreRefused
    <3>2. CASE Deny(t) \/ CreateSession(t) \/ LoginFails(t)
      BY <3>2 DEF Deny, CreateSession, LoginFails, Reply
    <3>3. CASE DropOld(t) \/ RevokeOld(t)
      BY <3>3 DEF DropOld, RevokeOld, DoomedAreRefused
    <3>4. CASE RecheckUser(t) \/ Touch(t)
      BY <3>4 DEF RecheckUser, Touch, DoomedAreRefused
    <3>5. CASE RecheckToken(t)
      BY <3>5 DEF RecheckToken, DoomedAreRefused
    <3>6. CASE CheckFails(t) \/ Handle(t)
      BY <3>6 DEF CheckFails, Handle, Reply, DoomedAreRefused
    <3>7. CASE DeleteSession(t) \/ RevokeToken(t)
      BY <3>7 DEF DeleteSession, RevokeToken
    <3> QED
      BY <1>1, <3>1, <3>2, <3>3, <3>4, <3>5, <3>6, <3>7 DEF LoginStep, RequestStep
  <2>3. doomed' \subseteq Threads
    BY KeepsType
  <2> QED
    BY <2>1, <2>2, <2>3 DEF DoomedAreRefused
<1>2. CASE ChangeRights
  BY <1>2 DEF ChangeRights, DoomedAreRefused
<1>3. CASE Outside /\ ~ChangeRights
  BY <1>3 DEF Outside, Purge, Crash, LogInLost, RevokePurged, Tick, TokenExpires, DoomedAreRefused
<1>4. CASE UNCHANGED vars
  BY <1>4 DEF vars, DoomedAreRefused
<1> QED
  BY <1>1, <1>2, <1>3, <1>4, NextSplits

LEMMA Invariance == Spec => []SessionsInv
<1>1. SessionsInv /\ [Next]_vars => TokensAreOwned'
  <2> SUFFICES ASSUME SessionsInv, [Next]_vars, ~(Outside \/ UNCHANGED vars)
               PROVE  TokensAreOwned'
    BY OutsideKeepsOwned
  <2>1. \A x \in Sessions : Handed(x)
    BY NextSplits, LoginKeepsOwned, RequestKeepsOwned
  <2>2. token' \subseteq Sessions
    BY KeepsType DEF SessionsInv, TypeOK
  <2> QED
    BY <2>1, <2>2 DEF TokensAreOwned, Handed, Owner
<1>2. SessionsInv /\ [Next]_vars => SessionsInv'
  BY <1>1, KeepsType, KeepsNew, KeepsDoomed DEF SessionsInv
<1> QED
  BY <1>2, InitSessions, PTL DEF Spec

\* Every variable keeps its type: a thread that works has a session to work on.
THEOREM Typing == Spec => []TypeOK
<1>1. SessionsInv => TypeOK
  BY DEF SessionsInv
<1> QED
  BY <1>1, Invariance, PTL

\* No administrator's token is left without somebody to revoke it, for any
\* sessions and threads, but for what a failure leaves.
THEOREM Ownership == Spec => []TokensAreOwned
<1>1. SessionsInv => TokensAreOwned
  BY DEF SessionsInv
<1> QED
  BY <1>1, Invariance, PTL

\* A request that began when the rights were gone and the check was due never
\* reaches its handler.
THEOREM Notice == Spec => []RemovedRightsAreNoticed
<1>1. SessionsInv => RemovedRightsAreNoticed
  BY DEF SessionsInv, DoomedAreRefused, RemovedRightsAreNoticed
<1> QED
  BY <1>1, Invariance, PTL

\* No step of any thread brings a session back that has ended.
THEOREM Finality == Spec => EndedStaysEnded
<1>1. SessionsInv /\ [Next]_vars =>
          [\A s \in Sessions : row[s] = "ended" => row'[s] = "ended"]_vars
  BY RowMoves
<1> QED
  BY <1>1, Invariance, PTL DEF Spec, EndedStaysEnded
=============================================================================
