------------------------- MODULE VaultServiceProofs -------------------------
(***************************************************************************)
(* Proofs about VaultService, for any threads and number of logins.        *)
(***************************************************************************)
EXTENDS VaultService, TLAPS

\* A thread that replaces a client has the new one in hand.
Typed == TypeOK /\ \A t \in Threads : pc[t] = "revoke_old" => using[t] # NoToken

\* A second try is made with a token that was alive when the thread was given
\* it, and a call begins with no try behind it.
Current ==
    \A t \in Threads :
        /\ pc[t] \in {"idle", "client"} => ~tried[t]
        /\ pc[t] \in {"store", "revoke_old", "unlock", "request"} /\ tried[t]
               => using[t] \in alive \/ t \in overtaken

LEMMA TokensAreNat == \A k \in Tokens : k \in Nat /\ k # NoToken
BY ServiceAssumption DEF Tokens, NoToken

LEMMA InitService == Init => Typed /\ LiveTokensAreKnown /\ Current
<1> SUFFICES ASSUME Init
             PROVE  Typed /\ LiveTokensAreKnown /\ Current
  OBVIOUS
<1> USE DEF Init
<1>1. /\ issued \in 0 .. MaxTokens
      /\ alive \subseteq Tokens /\ kept \subseteq Tokens /\ overtaken \subseteq Threads
  BY ServiceAssumption
<1>2. client \in Tokens \cup {NoToken} /\ lock \in Threads \cup {None}
  OBVIOUS
<1>3. stale \in BOOLEAN /\ permitted \in BOOLEAN
  OBVIOUS
<1>4. pc \in [Threads -> Pcs] /\ result \in [Threads -> Results]
  BY DEF Pcs, Results
<1>5. /\ using \in [Threads -> Tokens \cup {NoToken}]
      /\ replaced \in [Threads -> Tokens \cup {NoToken}]
      /\ tried \in [Threads -> BOOLEAN]
  OBVIOUS
<1>6. \A t \in Threads : pc[t] = "idle" /\ ~tried[t]
  OBVIOUS
<1> QED
  BY <1>1, <1>2, <1>3, <1>4, <1>5, <1>6 DEF Typed, TypeOK, LiveTokensAreKnown, Current

\* The end of a call keeps the types of what it resets.
LEMMA AnswerType ==
    ASSUME Typed, NEW t \in Threads, NEW r \in Results, Answer(t, r)
    PROVE  /\ pc' \in [Threads -> Pcs]
           /\ using' \in [Threads -> Tokens \cup {NoToken}]
           /\ replaced' \in [Threads -> Tokens \cup {NoToken}]
           /\ tried' \in [Threads -> BOOLEAN]
           /\ result' \in [Threads -> Results]
           /\ pc'[t] = "idle"
           /\ \A u \in Threads \ {t} :
                 /\ pc'[u] = pc[u] /\ using'[u] = using[u]
                 /\ replaced'[u] = replaced[u] /\ tried'[u] = tried[u]
                 /\ result'[u] = result[u]
<1>1. "idle" \in Pcs
  BY DEF Pcs
<1>2. pc' = [pc EXCEPT ![t] = "idle"]
  BY DEF Answer, Goto
<1>3. FALSE \in BOOLEAN
  OBVIOUS
<1> QED
  BY <1>1, <1>2, <1>3 DEF Answer, Typed, TypeOK

\* A step of a thread keeps the types.
LEMMA StepKeepsType == ASSUME Typed, NEW t \in Threads, Step(t) PROVE Typed'
<1> USE DEF Typed, TypeOK
<1>0. Pcs = {"idle", "client", "relogin", "login", "store", "revoke_old", "unlock", "request"}
  BY DEF Pcs
<1>r. {"done", "forbidden", "unavailable", "error"} \subseteq Results
  BY DEF Results
<1>1. CASE TakeClient(t)
  BY <1>0, <1>1, ServiceAssumption DEF TakeClient, Goto, server, hist
<1>2. CASE TakeLock(t)
  BY <1>0, <1>2, ServiceAssumption DEF TakeLock, Goto, server, call, hist
<1>3. CASE Login(t)
  <2>1. issued + 1 \in Tokens /\ issued + 1 \in 0 .. MaxTokens
    BY <1>3, ServiceAssumption DEF Login, Tokens
  <2>2. issued + 1 # NoToken
    BY <2>1, TokensAreNat
  <2> QED
    BY <1>0, <1>3, <2>1, <2>2 DEF Login, Goto, shared, hist
<1>4. CASE LoginFails(t)
  <2>1. issued < MaxTokens => issued + 1 \in Tokens /\ issued + 1 \in 0 .. MaxTokens
    BY ServiceAssumption DEF Tokens
  <2>2. Answer(t, "unavailable") /\ "unavailable" \in Results
    BY <1>4, <1>r DEF LoginFails
  <2>3. alive' \subseteq Tokens /\ issued' \in 0 .. MaxTokens /\ kept' \subseteq Tokens
    BY <1>4, <2>1 DEF LoginFails
  <2>4. \A u \in Threads \ {t} : lock # u
    BY <1>4 DEF LoginFails
  <2> QED
    BY <1>4, <2>2, <2>3, <2>4, AnswerType DEF LoginFails
<1>5. CASE StoreClient(t)
  BY <1>0, <1>5 DEF StoreClient, Goto, server, hist
<1>6. CASE RevokeOld(t)
  BY <1>0, <1>6 DEF RevokeOld, Kill, Goto, shared, call
<1>7. CASE Unlock(t)
  <2>1. \A u \in Threads \ {t} : lock # u
    BY <1>7 DEF Unlock
  <2> QED
    BY <1>0, <1>7, <2>1 DEF Unlock, Goto, server, call, hist
<1>8. CASE RequestDone(t)
  BY <1>r, <1>8, AnswerType DEF RequestDone, server, shared
<1>9. CASE RequestRefused(t)
  <2>1. CASE tried[t]
    BY <1>r, <1>9, <2>1, AnswerType DEF RequestRefused, server, shared
  <2>2. CASE ~tried[t]
    BY <1>0, <1>9, <2>2 DEF RequestRefused, Goto, server, shared
  <2> QED
    BY <2>1, <2>2
<1>10. CASE RequestFails(t)
  BY <1>r, <1>10, AnswerType DEF RequestFails, server, shared
<1> QED
  BY <1>1, <1>2, <1>3, <1>4, <1>5, <1>6, <1>7, <1>8, <1>9, <1>10 DEF Step

\* Every step keeps the types.
LEMMA KeepsType == Typed /\ [Next]_vars => Typed'
<1> SUFFICES ASSUME Typed, [Next]_vars
             PROVE  Typed'
  OBVIOUS
<1>1. CASE \E t \in Threads : Step(t)
  BY <1>1, StepKeepsType
<1>2. ASSUME NEW t \in Threads, Start(t)
      PROVE  Typed'
  BY <1>2 DEF Start, Goto, server, shared, call, Typed, TypeOK, Pcs, Results
<1>3. CASE GrowOld
  BY <1>3 DEF GrowOld, server, call, hist, Typed, TypeOK
<1>4. ASSUME NEW k \in Tokens, Expire(k) \/ Revoke(k)
      PROVE  Typed'
  BY <1>4 DEF Expire, Revoke, Kill, shared, call, Typed, TypeOK
<1>5. CASE ChangePolicy
  BY <1>5 DEF ChangePolicy, shared, call, hist, Typed, TypeOK
<1>6. CASE UNCHANGED vars
  BY <1>6 DEF vars, server, shared, call, hist, Typed, TypeOK
<1> QED
  BY <1>1, <1>2, <1>3, <1>4, <1>5, <1>6 DEF Next

\* A token that is accepted stays known over a thread's step: only the thread
\* that holds the lock gets a token or gives one up, and it hands each on.
LEMMA StepKeepsKnown ==
    ASSUME Typed, LiveTokensAreKnown, NEW t \in Threads, Step(t)
    PROVE  LiveTokensAreKnown'
<1> USE DEF Typed, TypeOK, LiveTokensAreKnown
<1>1. CASE TakeClient(t)
  BY <1>1, ServiceAssumption DEF TakeClient, Goto, server, hist
<1>2. CASE TakeLock(t)
  BY <1>2, ServiceAssumption DEF TakeLock, Goto, server, call, hist
<1>3. CASE Login(t)
  BY <1>3 DEF Login, Goto, shared, hist
<1>4. CASE LoginFails(t)
  <2>1. \A k \in alive : k = client \/ k \in kept
    BY <1>4 DEF LoginFails
  <2> QED
    BY <1>4, <2>1 DEF LoginFails
<1>5. CASE StoreClient(t)
  <2>1. NoToken \notin alive
    BY TokensAreNat
  <2> QED
    BY <1>5, <2>1 DEF StoreClient, Goto, server, hist
<1>6. CASE RevokeOld(t)
  BY <1>6 DEF RevokeOld, Kill, Goto, shared, call
<1>7. CASE Unlock(t)
  BY <1>7 DEF Unlock, Goto, server, call, hist
<1>8. CASE RequestDone(t) \/ RequestRefused(t) \/ RequestFails(t)
  <2>1. \A u \in Threads \ {t} : pc'[u] = pc[u] /\ using'[u] = using[u] /\ replaced'[u] = replaced[u]
    BY <1>8 DEF RequestDone, RequestRefused, RequestFails, Answer, Goto
  <2>2. pc[t] = "request" /\ UNCHANGED <<alive, client, lock, kept>>
    BY <1>8 DEF RequestDone, RequestRefused, RequestFails, server, shared
  <2> QED
    BY <2>1, <2>2
<1> QED
  BY <1>1, <1>2, <1>3, <1>4, <1>5, <1>6, <1>7, <1>8 DEF Step

LEMMA KeepsKnown == Typed /\ LiveTokensAreKnown /\ [Next]_vars => LiveTokensAreKnown'
<1> SUFFICES ASSUME Typed, LiveTokensAreKnown, [Next]_vars
             PROVE  LiveTokensAreKnown'
  OBVIOUS
<1>1. CASE \E t \in Threads : Step(t)
  BY <1>1, StepKeepsKnown
<1>2. ASSUME NEW t \in Threads, Start(t)
      PROVE  LiveTokensAreKnown'
  BY <1>2 DEF Start, Goto, server, shared, call, Typed, TypeOK, LiveTokensAreKnown
<1>3. ASSUME NEW k \in Tokens, Expire(k) \/ Revoke(k)
      PROVE  LiveTokensAreKnown'
  BY <1>3 DEF Expire, Revoke, Kill, shared, call, LiveTokensAreKnown
<1>4. CASE GrowOld \/ ChangePolicy \/ UNCHANGED vars
  BY <1>4 DEF GrowOld, ChangePolicy, vars, server, shared, call, hist, LiveTokensAreKnown
<1> QED
  BY <1>1, <1>2, <1>3, <1>4 DEF Next

\* The second tries stay current: whoever kills a token in use is seen.
LEMMA KeepsCurrent == Typed /\ Current /\ [Next]_vars => Current'
<1> SUFFICES ASSUME Typed, Current, [Next]_vars, NEW u \in Threads
             PROVE  /\ pc'[u] \in {"idle", "client"} => ~tried'[u]
                    /\ pc'[u] \in {"store", "revoke_old", "unlock", "request"} /\ tried'[u]
                           => using'[u] \in alive' \/ u \in overtaken'
  BY DEF Current
<1> USE DEF Typed, TypeOK, Current
<1>1. ASSUME NEW t \in Threads, Step(t)
      PROVE  /\ pc'[u] \in {"idle", "client"} => ~tried'[u]
             /\ pc'[u] \in {"store", "revoke_old", "unlock", "request"} /\ tried'[u]
                    => using'[u] \in alive' \/ u \in overtaken'
  <2>1. CASE TakeClient(t)
    BY <2>1 DEF TakeClient, Goto, server, hist
  <2>2. CASE TakeLock(t)
    BY <2>2 DEF TakeLock, Goto, server, call, hist
  <2>3. CASE Login(t)
    BY <2>3 DEF Login, Goto, shared, hist
  <2>4. CASE LoginFails(t)
    BY <2>4 DEF LoginFails, Answer, Goto
  <2>5. CASE StoreClient(t)
    BY <2>5 DEF StoreClient, Goto, server, hist
  <2>6. CASE RevokeOld(t)
    BY <2>6 DEF RevokeOld, Kill, Goto, shared, call
  <2>7. CASE Unlock(t)
    BY <2>7 DEF Unlock, Goto, server, call, hist
  <2>8. CASE RequestDone(t) \/ RequestFails(t)
    BY <2>8 DEF RequestDone, RequestFails, Answer, Goto, server, shared
  <2>9. CASE RequestRefused(t)
    BY <2>9 DEF RequestRefused, Answer, Goto, server, shared
  <2> QED
    BY <1>1, <2>1, <2>2, <2>3, <2>4, <2>5, <2>6, <2>7, <2>8, <2>9 DEF Step
<1>2. CASE \E t \in Threads : Start(t)
  BY <1>2 DEF Start, Goto, server, shared, call
<1>3. CASE \E k \in Tokens : Expire(k) \/ Revoke(k)
  BY <1>3 DEF Expire, Revoke, Kill, shared, call
<1>4. CASE GrowOld \/ ChangePolicy \/ UNCHANGED vars
  BY <1>4 DEF GrowOld, ChangePolicy, vars, server, shared, call, hist
<1> QED
  BY <1>1, <1>2, <1>3, <1>4 DEF Next

LEMMA Invariance == Spec => [](Typed /\ LiveTokensAreKnown /\ Current)
BY InitService, KeepsType, KeepsKnown, KeepsCurrent, PTL DEF Spec

\* Every variable keeps its type: a request is made with a token, and only the
\* thread that holds the lock logs in.
THEOREM Typing == Spec => []TypeOK
<1>1. Typed => TypeOK
  BY DEF Typed
<1> QED
  BY <1>1, Invariance, PTL

\* No token of the service is forgotten by _login, for any threads: each one
\* that Vault accepts is the shared one, in the hands of the thread with the
\* lock, or lost to a failure.
THEOREM Accounting == Spec => []LiveTokensAreKnown
BY Invariance, PTL

\* A 403 reaches the caller only after a second try, and only for a missing
\* permission or a token that died in its hands.
THEOREM Explanation == Spec => ForbiddenIsExplained
<1>1. Typed /\ Current /\ [Next]_vars =>
          [\A t \in Threads :
              result'[t] = "forbidden" /\ result[t] # "forbidden"
                  => tried[t] /\ (~permitted \/ t \in overtaken)]_vars
  <2> SUFFICES ASSUME Typed, Current, Next, NEW u \in Threads,
                      result'[u] = "forbidden", result[u] # "forbidden"
               PROVE  tried[u] /\ (~permitted \/ u \in overtaken)
    OBVIOUS
  <2> USE DEF Typed, TypeOK, Current
  <2>1. ASSUME NEW t \in Threads, RequestRefused(t)
        PROVE  tried[u] /\ (~permitted \/ u \in overtaken)
    BY <2>1 DEF RequestRefused, Answer, Goto
  <2>2. ASSUME NEW t \in Threads, RequestDone(t) \/ RequestFails(t) \/ LoginFails(t)
        PROVE  FALSE
    BY <2>2 DEF RequestDone, RequestFails, LoginFails, Answer
  <2>3. ASSUME NEW t \in Threads,
               TakeClient(t) \/ TakeLock(t) \/ Login(t) \/ StoreClient(t) \/ RevokeOld(t) \/ Unlock(t)
        PROVE  FALSE
    BY <2>3 DEF TakeClient, TakeLock, Login, StoreClient, RevokeOld, Unlock, hist
  <2>4. ASSUME NEW t \in Threads, Start(t)
        PROVE  FALSE
    BY <2>4 DEF Start
  <2>5. CASE GrowOld \/ ChangePolicy \/ \E k \in Tokens : Expire(k) \/ Revoke(k)
    BY <2>5 DEF GrowOld, ChangePolicy, Expire, Revoke, hist
  <2> QED
    BY <2>1, <2>2, <2>3, <2>4, <2>5 DEF Next, Step
<1> QED
  BY <1>1, Invariance, PTL DEF Spec, ForbiddenIsExplained
=============================================================================
