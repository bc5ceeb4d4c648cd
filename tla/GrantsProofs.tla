---------------------------- MODULE GrantsProofs ----------------------------
(***************************************************************************)
(* Proofs about Grants, for any grants, workers, databases of the grants   *)
(* and number of faults, whether or not requests may land late.            *)
(***************************************************************************)
EXTENDS Grants, TLAPS

\* The initial states have their types, and nobody holds a lock.
LEMMA InitTyped == Init => TypeOK /\ Exclusive
BY GrantsAssumption
   DEF Init, TypeOK, Exclusive, Status, Live, Terminal, Accounts, Ages, Pcs, LockedPcs,
       IssuePcs, IssueTry, TeardownPcs, TeardownTry

\* Every step keeps the types, and works on a grant only under its lock. One
\* step per action, each from the action's definition.
LEMMA StepTyped == TypeOK /\ Exclusive /\ [Next]_vars => TypeOK' /\ Exclusive'
<1> SUFFICES ASSUME TypeOK, Exclusive, [Next]_vars
             PROVE  TypeOK' /\ Exclusive'
  OBVIOUS
<1> USE GrantsAssumption
    DEF TypeOK, Exclusive, Status, Live, Terminal, Accounts, Ages, Requests,
        Pcs, LockedPcs, IssuePcs, IssueTry, TeardownPcs, TeardownTry, Threads, Dbs,
        rows, vault, late, sync, local, round, hist, Goto, Fault
<1>1. ASSUME NEW w \in Workers, NEW g \in Grants, StartIssue(w, g)
      PROVE  TypeOK' /\ Exclusive'
  BY <1>1 DEF StartIssue, Begin
<1>2. ASSUME NEW w \in Workers, NEW g \in Grants, StartRevoke(w, g)
      PROVE  TypeOK' /\ Exclusive'
  BY <1>2 DEF StartRevoke
<1>3. ASSUME NEW t \in Threads, IssueStep(t)
      PROVE  TypeOK' /\ Exclusive'
  <2>1. CASE InsertGrant(t)
    BY <2>1 DEF InsertGrant
  <2>2. CASE WriteRole(t)
    BY <2>2 DEF WriteRole
  <2>3. CASE CreateToken(t)
    BY <2>3 DEF CreateToken
  <2>4. CASE SaveAccessor(t)
    BY <2>4 DEF SaveAccessor
  <2>5. CASE ReadCredentials(t)
    <3>1. /\ acct' \in [Grants -> Accounts]
          /\ lease' \in [Grants -> BOOLEAN]
          /\ faults' \in 0 .. MaxFaults
      <4>1. acct' \in {acct, [acct EXCEPT ![job[t]] = "open"]}
        BY <2>5, Zenon DEF ReadCredentials
      <4>2. lease' \in {lease, [lease EXCEPT ![job[t]] = TRUE]}
        BY <2>5, Zenon DEF ReadCredentials
      <4>3. faults' \in 0 .. MaxFaults
        BY <2>5 DEF ReadCredentials
      <4>4. acct' \in [Grants -> Accounts]
        BY <4>1
      <4>5. lease' \in [Grants -> BOOLEAN]
        <5>1. CASE lease' = lease
          BY <5>1
        <5>2. CASE lease' = [lease EXCEPT ![job[t]] = TRUE]
          BY <5>2
        <5> QED
          BY <4>2, <5>1, <5>2
      <4> QED
        BY <4>3, <4>4, <4>5
    <3>2. \E l \in {"activate", "issue_error"} : pc' = [pc EXCEPT ![t] = l]
      BY <2>5 DEF ReadCredentials
    <3>3. /\ pc[t] = "read_creds"
          /\ UNCHANGED <<rows, role, token, late, age, sync, local, round, hist>>
      BY <2>5 DEF ReadCredentials
    <3> QED
      BY <3>1, <3>2, <3>3
  <2>6. CASE Activate(t)
    BY <2>6 DEF Activate
  <2>7. CASE IssueDone(t)
    BY <2>7 DEF IssueDone, EndWork
  <2>8. CASE IssueFails(t)
    BY <2>8 DEF IssueFails, Request
  <2>9. CASE IssueError(t)
    BY <2>9 DEF IssueError
  <2>10. CASE Respond(t)
    BY <2>10 DEF Respond, Forget
  <2> QED
    BY <1>3, <2>1, <2>2, <2>3, <2>4, <2>5, <2>6, <2>7, <2>8, <2>9, <2>10 DEF IssueStep
<1>4. ASSUME NEW t \in Threads, Acquire(t) \/ Timeout(t) \/ MarkRevoking(t)
      PROVE  TypeOK' /\ Exclusive'
  <2>1. CASE Acquire(t)
    BY <2>1 DEF Acquire, Begin
  <2>2. CASE Timeout(t)
    BY <2>2 DEF Timeout
  <2>3. CASE MarkRevoking(t)
    BY <2>3 DEF MarkRevoking
  <2> QED
    BY <1>4, <2>1, <2>2, <2>3
<1>5. ASSUME NEW t \in Threads, TeardownStep(t)
      PROVE  TypeOK' /\ Exclusive'
  <2>1. CASE FindTokens(t)
    BY <2>1 DEF FindTokens
  <2>2. CASE LockOutAccounts(t)
    BY <2>2 DEF LockOutAccounts, LockOut
  <2>3. CASE RevokeLeases(t)
    BY <2>3 DEF RevokeLeases
  <2>4. CASE DropAccounts(t)
    BY <2>4 DEF DropAccounts, LockOut
  <2>5. CASE Confirm(t)
    BY <2>5 DEF Confirm
  <2>6. CASE RevokeToken(t)
    BY <2>6 DEF RevokeToken
  <2>7. CASE DeleteRole(t)
    BY <2>7 DEF DeleteRole
  <2>8. CASE Settle(t)
    BY <2>8 DEF Settle
  <2>9. CASE GiveUp(t)
    BY <2>9 DEF GiveUp
  <2>10. CASE StoreFails(t)
    BY <2>10 DEF StoreFails
  <2>11. CASE End(t)
    BY <2>11 DEF End, EndWork, Forget
  <2> QED
    BY <1>5, <2>1, <2>2, <2>3, <2>4, <2>5, <2>6, <2>7, <2>8, <2>9, <2>10, <2>11 DEF TeardownStep
<1>6. ASSUME NEW t \in Threads, ReconcileStep(t)
      PROVE  TypeOK' /\ Exclusive'
  <2>1. CASE StartRound(t)
    BY <2>1 DEF StartRound
  <2>2. CASE PickRow(t)
    BY <2>2 DEF PickRow
  <2>3. CASE RowsDone(t)
    BY <2>3 DEF RowsDone
  <2>4. CASE Decide(t)
    BY <2>4 DEF Decide, FinalFor
  <2>5. CASE ReadLiveRows(t)
    BY <2>5 DEF ReadLiveRows
  <2>6. CASE ScanAccounts(t)
    BY <2>6 DEF ScanAccounts, Unexplained
  <2> QED
    BY <1>6, <2>1, <2>2, <2>3, <2>4, <2>5, <2>6 DEF ReconcileStep
<1>7. ASSUME NEW g \in Grants,
             Tick(g) \/ LeaseExpires(g) \/ TokenExpires(g) \/ \E r \in Requests : LateLands(g, r)
      PROVE  TypeOK' /\ Exclusive'
  <2>1. CASE Tick(g)
    BY <2>1 DEF Tick
  <2>2. CASE LeaseExpires(g)
    BY <2>2 DEF LeaseExpires
  <2>3. CASE TokenExpires(g)
    BY <2>3 DEF TokenExpires
  <2>4. ASSUME NEW r \in Requests, LateLands(g, r)
        PROVE  TypeOK' /\ Exclusive'
    <3>1. pend' \in [Grants -> SUBSET Requests] /\ landed' \in [Grants -> SUBSET Requests]
      BY <2>4 DEF LateLands
    <3>2. role' \in [Grants -> BOOLEAN] /\ token' \in [Grants -> BOOLEAN]
      BY <2>4 DEF LateLands
    <3>3. acct' \in [Grants -> Accounts] /\ lease' \in [Grants -> BOOLEAN]
      <4>1. CASE r = "creds" /\ role[g] /\ token[g]
        <5>1. acct' = [acct EXCEPT ![g] = "open"] /\ lease' = [lease EXCEPT ![g] = TRUE]
          BY <2>4, <4>1, Zenon DEF LateLands
        <5> QED
          BY <5>1
      <4>2. CASE ~(r = "creds" /\ role[g] /\ token[g])
        <5>1. acct' = acct /\ lease' = lease
          BY <2>4, <4>2 DEF LateLands
        <5> QED
          BY <5>1
      <4> QED
        BY <4>1, <4>2
    <3>4. UNCHANGED <<rows, age, sync, pc, local, round, hist, faults>>
      BY <2>4 DEF LateLands
    <3> QED
      BY <3>1, <3>2, <3>3, <3>4
  <2> QED
    BY <1>7, <2>1, <2>2, <2>3, <2>4
<1>8. CASE Crash
  <2>1. \A v \in Workers : pc[v] \in DOMAIN Request => job[v] \in Grants /\ Request[pc[v]] \in Requests
    BY DEF Request
  <2> QED
    BY <1>8, <2>1 DEF Crash
<1>9. CASE UNCHANGED vars
  BY <1>9 DEF vars
<1> HIDE GrantsAssumption
         DEF TypeOK, Exclusive, Status, Live, Terminal, Accounts, Ages, Requests,
             Pcs, LockedPcs, IssuePcs, IssueTry, TeardownPcs, TeardownTry, Threads, Dbs,
             rows, vault, late, sync, local, round, hist, Goto, Fault
<1> QED
  BY <1>1, <1>2, <1>3, <1>4, <1>5, <1>6, <1>7, <1>8, <1>9 DEF Next, Step, Environment

\* Type correctness: every variable keeps its type in every behaviour.
THEOREM Typing == Spec => []TypeOK
<1>1. Spec => [](TypeOK /\ Exclusive)
  BY InitTyped, StepTyped, PTL DEF Spec
<1> QED
  BY <1>1, PTL
-----------------------------------------------------------------------------
(* The inductive invariant: the lock's holder knows its grant at every     *)
(* label, and nobody else changes it.                                      *)

\* The initial states satisfy the invariant.
LEMMA InitInv == Init => IInv
BY GrantsAssumption
   DEF Init, IInv, Exclusive, IssueKnows, IssuedOnce, Punctual, TeardownKnows, Removed, TerminalIsClean, Landed,
       ActiveIsBacked, PasswordIsTracked, Terminal, LockedPcs, IssuePcs, IssueTry,
       TeardownPcs, TeardownTry, Threads

\* What _teardown makes of the token it looked for.
LEMMA ForgetToken ==
    ASSUME token \in [Grants -> BOOLEAN], NEW t, job[t] \in Grants, RevokeToken(t)
    PROVE  token'[job[t]] = (token[job[t]] /\ ~found[t])
BY Zenon DEF RevokeToken

\* Every step preserves it.
LEMMA StepInv == TypeOK /\ IInv /\ [Next]_vars => IInv'
<1> SUFFICES ASSUME TypeOK, IInv, [Next]_vars
             PROVE  IInv'
  OBVIOUS
<1> USE GrantsAssumption
    DEF TypeOK, IInv, Exclusive, IssueKnows, IssuedOnce, Punctual, TeardownKnows, Removed,
        TerminalIsClean, Landed, ActiveIsBacked, PasswordIsTracked,
        Status, Live, Terminal, Accounts, Ages, Requests,
        Pcs, LockedPcs, IssuePcs, IssueTry, TeardownPcs, TeardownTry, Threads, Dbs,
        rows, vault, late, sync, local, round, hist, Goto, Fault
<1>1. ASSUME NEW w \in Workers, NEW g \in Grants, StartIssue(w, g)
      PROVE  IInv'
  BY <1>1 DEF StartIssue, Begin
<1>2. ASSUME NEW w \in Workers, NEW g \in Grants, StartRevoke(w, g)
      PROVE  IInv'
  BY <1>2 DEF StartRevoke
<1>3. ASSUME NEW t \in Threads, IssueStep(t)
      PROVE  IInv'
  <2>1. CASE InsertGrant(t)
    BY <2>1 DEF InsertGrant
  <2>2. CASE WriteRole(t)
    BY <2>2 DEF WriteRole
  <2>3. CASE CreateToken(t)
    BY <2>3 DEF CreateToken
  <2>4. CASE SaveAccessor(t)
    BY <2>4 DEF SaveAccessor
  <2>5. CASE ReadCredentials(t)
    <3>1. Exclusive'
      BY <2>5 DEF ReadCredentials
    <3>2. ASSUME NEW v \in Threads
          PROVE  (IssueKnows(v) /\ TeardownKnows(v) /\ Removed(v))'
      BY <2>5 DEF ReadCredentials
    <3>3. ASSUME NEW v \in Workers
          PROVE  IssuedOnce(v)'
      BY <2>5 DEF ReadCredentials
    <3>4. ASSUME NEW g \in Grants
          PROVE  /\ status'[g] = "none" => acct'[g] = "absent" /\ Punctual(g)'
                 /\ pend'[g] \cap landed'[g] = {}
                 /\ status'[g] = "active" => named'[g]
                 /\ named'[g] =>
                       /\ accessor'[g] /\ Punctual(g)'
                       /\ status'[g] \in {"active", "revoking", "revoked", "expired"}
                 /\ lease'[g] /\ age'[g] = "fresh" => token'[g] \/ Landed(g, "creds")'
      BY <2>5 DEF ReadCredentials
    <3>5. TerminalIsClean' /\ ActiveIsBacked' /\ PasswordIsTracked'
      BY <2>5 DEF ReadCredentials
    <3> HIDE DEF Exclusive, IssueKnows, IssuedOnce, TeardownKnows, Removed, Punctual, Landed,
                 TerminalIsClean, ActiveIsBacked, PasswordIsTracked
    <3> QED
      BY <3>1, <3>2, <3>3, <3>4, <3>5
  <2>6. CASE Activate(t)
    BY <2>6 DEF Activate
  <2>7. CASE IssueDone(t)
    BY <2>7 DEF IssueDone, EndWork
  <2>8. CASE IssueFails(t)
    <3>1. CASE UNCHANGED late
      BY <2>8, <3>1 DEF IssueFails
    <3>2. CASE /\ pend' = [pend EXCEPT ![job[t]] = @ \cup {Request[pc[t]]}]
               /\ UNCHANGED landed
      <4>1. job[t] \in Grants /\ status[job[t]] = "issuing" /\ landed[job[t]] = {}
        BY <2>8 DEF IssueFails
      <4>2. \A g \in Grants : g # job[t] => pend'[g] = pend[g]
        BY <3>2
      <4> QED
        BY <2>8, <3>2, <4>1, <4>2 DEF IssueFails
    <3> QED
      BY <2>8, <3>1, <3>2 DEF IssueFails
  <2>9. CASE IssueError(t)
    BY <2>9 DEF IssueError
  <2>10. CASE Respond(t)
    BY <2>10 DEF Respond, Forget
  <2> QED
    BY <1>3, <2>1, <2>2, <2>3, <2>4, <2>5, <2>6, <2>7, <2>8, <2>9, <2>10 DEF IssueStep
<1>4. ASSUME NEW t \in Threads, Acquire(t) \/ Timeout(t) \/ MarkRevoking(t)
      PROVE  IInv'
  <2>1. CASE Acquire(t)
    BY <2>1 DEF Acquire, Begin
  <2>2. CASE Timeout(t)
    BY <2>2 DEF Timeout
  <2>3. CASE MarkRevoking(t)
    BY <2>3 DEF MarkRevoking
  <2> QED
    BY <1>4, <2>1, <2>2, <2>3
<1>5. ASSUME NEW t \in Threads, TeardownStep(t)
      PROVE  IInv'
  <2>1. CASE FindTokens(t)
    BY <2>1 DEF FindTokens
  <2>2. CASE LockOutAccounts(t)
    BY <2>2 DEF LockOutAccounts, LockOut
  <2>3. CASE RevokeLeases(t)
    BY <2>3 DEF RevokeLeases
  <2>4. CASE DropAccounts(t)
    BY <2>4 DEF DropAccounts, LockOut
  <2>5. CASE Confirm(t)
    BY <2>5 DEF Confirm
  <2>6. CASE RevokeToken(t)
    <3>1. job[t] \in Grants /\ pc[t] = "revoke_token"
      BY <2>6 DEF RevokeToken
    <3>2. \A g \in Grants : g # job[t] => token'[g] = token[g]
      BY <2>6 DEF RevokeToken
    <3>3. token'[job[t]] => Landed(job[t], "token")
      <4>1. token'[job[t]] = (token[job[t]] /\ ~found[t])
        BY <2>6, <3>1, ForgetToken DEF TypeOK
      <4>2. token[job[t]] => found[t] \/ Landed(job[t], "token")
        BY <3>1, Zenon DEF Removed, IInv
      <4> QED
        BY <4>1, <4>2, Zenon
    <3>4. \A g \in Grants :
             status[g] = "active" /\ age[g] = "fresh" => g # job[t] /\ token'[g]
      BY <2>6, <3>2 DEF RevokeToken
    <3>5. Exclusive' /\ TerminalIsClean' /\ ActiveIsBacked' /\ PasswordIsTracked'
      BY <2>6, <3>1, <3>2, <3>3, <3>4 DEF RevokeToken
    <3>6. ASSUME NEW u \in Threads
          PROVE  IssueKnows(u)' /\ TeardownKnows(u)' /\ Removed(u)'
      BY <2>6, <3>1, <3>2, <3>3 DEF RevokeToken
    <3>7. ASSUME NEW h \in Grants
          PROVE  /\ status'[h] = "none" => acct'[h] = "absent" /\ Punctual(h)'
                 /\ pend'[h] \cap landed'[h] = {}
                 /\ status'[h] = "active" => named'[h]
                 /\ named'[h] =>
                       /\ accessor'[h] /\ Punctual(h)'
                       /\ status'[h] \in {"active", "revoking", "revoked", "expired"}
                 /\ lease'[h] /\ age'[h] = "fresh" => token'[h] \/ "creds" \in landed'[h]
      BY <2>6, <3>1, <3>2, <3>3 DEF RevokeToken
    <3>8. ASSUME NEW w \in Workers
          PROVE  IssuedOnce(w)'
      BY <2>6 DEF RevokeToken
    <3> QED
      BY <3>5, <3>6, <3>7, <3>8
  <2>7. CASE DeleteRole(t)
    BY <2>7 DEF DeleteRole
  <2>8. CASE Settle(t)
    BY <2>8 DEF Settle
  <2>9. CASE GiveUp(t)
    BY <2>9 DEF GiveUp
  <2>10. CASE StoreFails(t)
    BY <2>10 DEF StoreFails
  <2>11. CASE End(t)
    <3>1. /\ job[t] \in Grants /\ lock[DbOf[job[t]]] = t
          /\ told' = told \/ (/\ told' = [told EXCEPT ![job[t]] = "rolled_back"]
                             /\ final[t] = "failed")
          /\ UNCHANGED <<rows, vault, late, acct, age>>
      BY <2>11 DEF End
    <3>2. /\ pc'[t] \in {"pick", "idle"} /\ (pc'[t] = "pick" => t = Reconciler)
          /\ lock' = [lock EXCEPT ![DbOf[job[t]]] = None]
      BY <2>11 DEF End, EndWork, Forget
    <3>3. \A u \in Threads : u # t =>
             pc'[u] = pc[u] /\ job'[u] = job[u] /\ final'[u] = final[u] /\ found'[u] = found[u]
      BY <2>11 DEF End, EndWork, Forget
    <3>4. \A u \in Threads : u # t /\ pc[u] \in LockedPcs => job[u] # job[t]
      BY <3>1
    <3>5. \A h \in Grants :
             told'[h] = told[h] \/ (h = job[t] /\ told'[h] = "rolled_back")
      BY <3>1
    <3>6. Exclusive' /\ TerminalIsClean' /\ ActiveIsBacked' /\ PasswordIsTracked'
      BY <3>1, <3>2, <3>3, <3>4, <3>5
    <3>7. ASSUME NEW u \in Threads
          PROVE  IssueKnows(u)' /\ TeardownKnows(u)' /\ Removed(u)'
      <4>1. CASE u = t
        BY <3>2, <4>1
      <4>2. CASE u # t
        BY <3>1, <3>3, <3>4, <3>5, <4>2
      <4> QED
        BY <4>1, <4>2
    <3>8. ASSUME NEW w \in Workers
          PROVE  IssuedOnce(w)'
      BY <2>11, <3>3, <3>5 DEF End, Forget
    <3> QED
      BY <3>1, <3>5, <3>6, <3>7, <3>8
  <2> QED
    BY <1>5, <2>1, <2>2, <2>3, <2>4, <2>5, <2>6, <2>7, <2>8, <2>9, <2>10, <2>11 DEF TeardownStep
<1>6. ASSUME NEW t \in Threads, ReconcileStep(t)
      PROVE  IInv'
  <2>1. CASE StartRound(t)
    BY <2>1 DEF StartRound
  <2>2. CASE PickRow(t)
    BY <2>2 DEF PickRow
  <2>3. CASE RowsDone(t)
    BY <2>3 DEF RowsDone
  <2>4. CASE Decide(t)
    BY <2>4 DEF Decide, FinalFor, Due
  <2>5. CASE ReadLiveRows(t)
    BY <2>5 DEF ReadLiveRows
  <2>6. CASE ScanAccounts(t)
    BY <2>6 DEF ScanAccounts, Unexplained
  <2> QED
    BY <1>6, <2>1, <2>2, <2>3, <2>4, <2>5, <2>6 DEF ReconcileStep
<1>7. ASSUME NEW g \in Grants,
             Tick(g) \/ LeaseExpires(g) \/ TokenExpires(g) \/ \E r \in Requests : LateLands(g, r)
      PROVE  IInv'
  <2>1. CASE Tick(g)
    BY <2>1 DEF Tick
  <2>2. CASE LeaseExpires(g)
    BY <2>2 DEF LeaseExpires
  <2>3. CASE TokenExpires(g)
    BY <2>3 DEF TokenExpires
  <2>4. ASSUME NEW r \in Requests, LateLands(g, r)
        PROVE  IInv'
    <3>1. /\ status[g] \notin {"none", "active"} /\ ~named[g]
          /\ \A t \in Threads : pc[t] \in IssueTry => job[t] # g
      BY <2>4 DEF LateLands
    <3>2. \A h \in Grants : h # g =>
             /\ pend'[h] = pend[h] /\ landed'[h] = landed[h] /\ role'[h] = role[h]
             /\ token'[h] = token[h] /\ lease'[h] = lease[h] /\ acct'[h] = acct[h]
      BY <2>4 DEF LateLands
    <3>3. /\ landed'[g] = landed[g] \cup {r} /\ pend'[g] = pend[g] \ {r}
          /\ role'[g] => role[g] \/ "role" \in landed'[g]
          /\ role[g] => role'[g]
          /\ token'[g] => token[g] \/ "token" \in landed'[g]
          /\ token[g] => token'[g]
          /\ (lease'[g] = lease[g] /\ acct'[g] = acct[g]) \/ "creds" \in landed'[g]
      BY <2>4 DEF LateLands
    <3>4. UNCHANGED <<rows, age, sync, pc, local, round, hist>>
      BY <2>4 DEF LateLands
    <3>5. Exclusive' /\ TerminalIsClean' /\ ActiveIsBacked' /\ PasswordIsTracked'
      BY <3>1, <3>2, <3>3, <3>4
    <3>6. ASSUME NEW t \in Threads
          PROVE  IssueKnows(t)' /\ TeardownKnows(t)' /\ Removed(t)'
      BY <3>1, <3>2, <3>3, <3>4
    <3>7. ASSUME NEW h \in Grants
          PROVE  /\ status'[h] = "none" => acct'[h] = "absent" /\ Punctual(h)'
                 /\ pend'[h] \cap landed'[h] = {}
                 /\ status'[h] = "active" => named'[h]
                 /\ named'[h] =>
                       /\ accessor'[h] /\ Punctual(h)'
                       /\ status'[h] \in {"active", "revoking", "revoked", "expired"}
                 /\ lease'[h] /\ age'[h] = "fresh" => token'[h] \/ "creds" \in landed'[h]
      BY <3>1, <3>2, <3>3, <3>4
    <3>8. ASSUME NEW w \in Workers
          PROVE  IssuedOnce(w)'
      BY <3>4
    <3> QED
      BY <3>5, <3>6, <3>7, <3>8
  <2> HIDE DEF TypeOK, IInv
  <2> QED
    BY <1>7, <2>1, <2>2, <2>3, <2>4
<1>8. CASE Crash
  <2>1. PICK asking \in SUBSET {w \in Workers : pc[w] \in DOMAIN Request} :
           /\ ~LateEffects => asking = {}
           /\ pend' = [g \in Grants |->
                         pend[g] \cup {Request[pc[w]] : w \in {v \in asking : job[v] = g}}]
    BY <1>8, Zenon DEF Crash
  <2>2. \A w \in asking :
           status[job[w]] = "issuing" /\ ~named[job[w]] /\ landed[job[w]] = {}
    BY DEF Request
  <2>3. ASSUME NEW g \in Grants
        PROVE  /\ pend'[g] \cap landed[g] = {}
               /\ status[g] = "none" \/ named[g] => pend'[g] = {} /\ landed[g] = {}
    BY <2>1, <2>2
  <2>4. /\ pc' = [u \in Threads |-> "idle"]
        /\ final' = [u \in Threads |-> "none"]
        /\ UNCHANGED <<rows, vault, landed, acct, age, told>>
    BY <1>8 DEF Crash
  <2> QED
    BY <2>3, <2>4
<1>9. CASE UNCHANGED vars
  BY <1>9 DEF vars
<1> HIDE GrantsAssumption
         DEF TypeOK, IInv, Exclusive, IssueKnows, IssuedOnce, Punctual, TeardownKnows, Removed,
             TerminalIsClean, Landed, ActiveIsBacked, PasswordIsTracked,
             Status, Live, Terminal, Accounts, Ages, Requests,
             Pcs, LockedPcs, IssuePcs, IssueTry, TeardownPcs, TeardownTry, Threads, Dbs,
             rows, vault, late, sync, local, round, hist, Goto, Fault
<1> QED
  BY <1>1, <1>2, <1>3, <1>4, <1>5, <1>6, <1>7, <1>8, <1>9 DEF Next, Step, Environment

\* The inductive invariant holds in every behaviour: who holds a lock, what each
\* thread of issue, revoke and reconcile_once knows at its label, and which
\* requests may still be executed late.
THEOREM Invariance == Spec => [](TypeOK /\ IInv)
<1>1. Init => TypeOK /\ Exclusive /\ IInv
  BY InitTyped, InitInv
<1>2. TypeOK /\ Exclusive /\ IInv /\ [Next]_vars => (TypeOK /\ Exclusive /\ IInv)'
  BY StepTyped, StepInv
<1> QED
  BY <1>1, <1>2, PTL DEF Spec

\* Rows, Vault, accounts and replies agree in every behaviour: a terminal row
\* has left nothing behind, an active one works until its TTL ends, and a
\* password is known only for a grant that is tracked.
THEOREM Safety == Spec => [](TerminalIsClean /\ ActiveIsBacked /\ PasswordIsTracked)
<1>1. IInv => TerminalIsClean /\ ActiveIsBacked /\ PasswordIsTracked
  BY DEF IInv
<1> QED
  BY <1>1, Invariance, PTL

\* What a step may do to an account: nothing, lock it, remove it, or open the
\* account of a grant that is being issued or whose request lands late.
LEMMA AccountMoves ==
    TypeOK /\ IInv /\ [Next]_vars =>
        \/ acct' = acct
        \/ \E g \in Grants, a \in Accounts :
              /\ acct' = [acct EXCEPT ![g] = a]
              /\ \/ a = "absent"
                 \/ a = "locked" /\ acct[g] = "open"
                 \/ a = "open" /\ (status[g] = "issuing" \/ "creds" \in landed'[g] \ landed[g])
<1> DEFINE Moves ==
        \/ acct' = acct
        \/ \E g \in Grants, a \in Accounts :
              /\ acct' = [acct EXCEPT ![g] = a]
              /\ \/ a = "absent"
                 \/ a = "locked" /\ acct[g] = "open"
                 \/ a = "open" /\ (status[g] = "issuing" \/ "creds" \in landed'[g] \ landed[g])
<1> SUFFICES ASSUME TypeOK, IInv, [Next]_vars
             PROVE  Moves
  OBVIOUS
<1>0. \A t \in Threads : pc[t] \in LockedPcs => job[t] \in Grants
  BY DEF IInv, Exclusive
<1>1. CASE \E w \in Workers, g \in Grants : StartIssue(w, g) \/ StartRevoke(w, g)
  BY <1>1 DEF StartIssue, StartRevoke
<1>2. ASSUME NEW t \in Threads, Step(t)
      PROVE  Moves
  <2>1. CASE ReadCredentials(t)
    <3>1. PICK g \in Grants : g = job[t] /\ status[g] = "issuing"
      BY <1>0, <2>1 DEF ReadCredentials, IInv, IssueKnows, IssueTry, IssuePcs, LockedPcs
    <3>2. acct' = [acct EXCEPT ![g] = "open"] \/ acct' = acct
      BY <2>1, <3>1, Zenon DEF ReadCredentials
    <3> QED
      BY <3>1, <3>2 DEF Accounts
  <2>2. CASE LockOutAccounts(t) \/ DropAccounts(t)
    <3>1. PICK g \in Grants : g = job[t]
      BY <1>0, <2>2 DEF LockOutAccounts, DropAccounts, TeardownTry, TeardownPcs, LockedPcs
    <3>2. \/ acct' = acct
          \/ acct' = [acct EXCEPT ![g] = "locked"] /\ acct[g] = "open"
          \/ acct' = [acct EXCEPT ![g] = "absent"]
      BY <2>2, <3>1 DEF LockOutAccounts, DropAccounts, LockOut, TypeOK
    <3> QED
      BY <3>2 DEF Accounts
  <2>3. CASE RevokeLeases(t)
    <3>1. PICK g \in Grants : g = job[t]
      BY <1>0, <2>3 DEF RevokeLeases, TeardownTry, TeardownPcs, LockedPcs
    <3>2. acct' = acct \/ acct' = [acct EXCEPT ![g] = "absent"]
      BY <2>3, <3>1 DEF RevokeLeases, TypeOK
    <3> QED
      BY <3>2 DEF Accounts
  <2>4. ReadCredentials(t) \/ LockOutAccounts(t) \/ DropAccounts(t) \/ RevokeLeases(t) \/ acct' = acct
    <3>1. CASE IssueStep(t)
      BY <3>1 DEF IssueStep, InsertGrant, WriteRole, CreateToken, SaveAccessor,
                  Activate, IssueDone, Respond, IssueFails, IssueError
    <3>2. CASE Acquire(t) \/ Timeout(t) \/ MarkRevoking(t)
      BY <3>2 DEF Acquire, Timeout, MarkRevoking
    <3>3. CASE TeardownStep(t)
      BY <3>3 DEF TeardownStep, FindTokens, Confirm, RevokeToken, DeleteRole,
                  Settle, GiveUp, StoreFails, End
    <3>4. CASE ReconcileStep(t)
      BY <3>4 DEF ReconcileStep, StartRound, PickRow, RowsDone, Decide, ReadLiveRows, ScanAccounts
    <3> QED
      BY <1>2, <3>1, <3>2, <3>3, <3>4 DEF Step
  <2> QED
    BY <2>1, <2>2, <2>3, <2>4
<1>3. ASSUME NEW g \in Grants,
             Tick(g) \/ LeaseExpires(g) \/ TokenExpires(g) \/ \E r \in Requests : LateLands(g, r)
      PROVE  Moves
  <2>1. CASE LeaseExpires(g)
    BY <2>1 DEF LeaseExpires, Accounts
  <2>2. ASSUME NEW r \in Requests, LateLands(g, r)
        PROVE  Moves
    <3>1. r \in landed'[g] \ landed[g]
      BY <2>2 DEF LateLands, IInv, TypeOK
    <3>2. acct' = acct \/ (r = "creds" /\ acct' = [acct EXCEPT ![g] = "open"])
      BY <2>2 DEF LateLands
    <3>3. CASE acct' = acct
      BY <3>3
    <3>4. CASE r = "creds" /\ acct' = [acct EXCEPT ![g] = "open"]
      BY <3>1, <3>4 DEF Accounts
    <3> QED
      BY <3>2, <3>3, <3>4
  <2> QED
    BY <1>3, <2>1, <2>2 DEF Tick, TokenExpires
<1>4. CASE Crash
  BY <1>4 DEF Crash
<1>5. CASE UNCHANGED vars
  BY <1>5 DEF vars
<1> QED
  BY <1>1, <1>2, <1>3, <1>4, <1>5 DEF Next, Environment

\* Once a row is revoking or terminal, its account only loses access, for any
\* number of faults and whatever the threads do.
THEOREM Shrinking == Spec => AccessOnlyShrinks
<1> DEFINE Shrinks(g) ==
        status[g] \in Terminal \cup {"revoking"} /\ Landed(g, "creds")' = Landed(g, "creds")
            => Level[acct'[g]] <= Level[acct[g]]
<1>1. TypeOK /\ IInv /\ [Next]_vars => [\A g \in Grants : Shrinks(g)]_vars
  <2> SUFFICES ASSUME TypeOK, IInv, [Next]_vars, NEW g \in Grants
               PROVE  Shrinks(g)
    OBVIOUS
  <2>1. CASE acct' = acct
    BY <2>1 DEF Level, TypeOK, Accounts
  <2>2. ASSUME NEW h \in Grants, NEW a \in Accounts,
               acct' = [acct EXCEPT ![h] = a],
               \/ a = "absent"
               \/ a = "locked" /\ acct[h] = "open"
               \/ a = "open" /\ (status[h] = "issuing" \/ "creds" \in landed'[h] \ landed[h])
        PROVE  Shrinks(g)
    BY <2>2 DEF Level, TypeOK, Accounts, Terminal, Landed
  <2> QED
    BY AccountMoves, <2>1, <2>2
<1> QED
  BY <1>1, Invariance, PTL DEF Spec, AccessOnlyShrinks
-----------------------------------------------------------------------------
(* Grants implements GrantAccess.                                          *)

\* The initial states map to the initial state.
LEMMA InitAccess == Init => Access!Init
BY DEF Init, Access!Init, Phase, Terminal, Landed

\* A step of Grants is one step of GrantAccess for one grant, or a stutter.
LEMMA StepAccess ==
    TypeOK /\ IInv /\ [Next]_vars => [Access!Next]_(Access!vars)
<1> SUFFICES ASSUME TypeOK, IInv, [Next]_vars
             PROVE  Access!Next \/ UNCHANGED Access!vars
  OBVIOUS
<1> USE GrantsAssumption
    DEF TypeOK, IInv, Exclusive, IssueKnows, IssuedOnce, Punctual, TeardownKnows, Removed,
        ActiveIsBacked, TerminalIsClean, Landed, Status, Live, Terminal, Accounts, Ages,
        LockedPcs, IssuePcs, IssueTry, TeardownPcs, TeardownTry, Threads,
        rows, vault, late, sync, local, round, hist, Goto
<1>0. \A g \in Grants : Access!Step(g) => Access!Next
  BY DEF Access!Next
<1>1. ASSUME NEW w \in Workers, NEW g \in Grants, StartIssue(w, g)
      PROVE  Access!Next \/ UNCHANGED Access!vars
  BY <1>1 DEF StartIssue, Access!vars, Phase
<1>2. ASSUME NEW w \in Workers, NEW g \in Grants, StartRevoke(w, g)
      PROVE  Access!Next \/ UNCHANGED Access!vars
  BY <1>2 DEF StartRevoke, Access!vars, Phase
<1>3. ASSUME NEW t \in Threads, IssueStep(t)
      PROVE  Access!Next \/ UNCHANGED Access!vars
  <2>1. CASE InsertGrant(t)
    <3>1. PICK g \in Grants : g = job[t]
      BY <2>1 DEF InsertGrant
    <3>2. Phase[g] = "none" /\ Phase' = [Phase EXCEPT ![g] = "issuing"]
      BY <2>1, <3>1 DEF InsertGrant, Phase
    <3>3. UNCHANGED <<acct, age, named, told, landed>>
      BY <2>1 DEF InsertGrant
    <3>4. Access!Record(g)
      BY <3>2, <3>3 DEF Access!Record, Access!Become
    <3> QED
      BY <1>0, <3>4 DEF Access!Step
  <2>2. CASE WriteRole(t)
    BY <2>2 DEF WriteRole, Access!vars, Phase
  <2>3. CASE CreateToken(t)
    BY <2>3 DEF CreateToken, Access!vars, Phase
  <2>4. CASE SaveAccessor(t)
    BY <2>4 DEF SaveAccessor, Access!vars, Phase
  <2>5. CASE ReadCredentials(t)
    <3>1. PICK g \in Grants : g = job[t]
      BY <2>5 DEF ReadCredentials
    <3>2. Phase[g] = "issuing" /\ acct[g] = "absent" /\ landed[g] = {}
      BY <2>5, <3>1 DEF ReadCredentials, Phase
    <3>3. /\ acct' = [acct EXCEPT ![g] = "open"] \/ acct' = acct
          /\ UNCHANGED <<status, named, age, told, landed>>
      BY <2>5, <3>1 DEF ReadCredentials
    <3>4. Access!Open(g) \/ UNCHANGED Access!vars
      BY <3>2, <3>3 DEF Access!Open, Access!Turn, Access!vars, Phase
    <3> QED
      BY <1>0, <3>1, <3>4 DEF Access!Step
  <2>6. CASE Activate(t)
    <3>1. PICK g \in Grants : g = job[t]
      BY <2>6 DEF Activate
    <3>2. /\ Phase[g] = "issuing" /\ landed[g] = {}
          /\ acct[g] = "open" \/ age[g] # "fresh"
      BY <2>6, <3>1 DEF Activate, Phase
    <3>3. /\ status' = [status EXCEPT ![g] = "active"] /\ named' = [named EXCEPT ![g] = TRUE]
          /\ UNCHANGED <<acct, age, told, landed>>
      BY <2>6, <3>1 DEF Activate
    <3>4. Phase' = [Phase EXCEPT ![g] = "active"]
      BY <3>3 DEF Phase
    <3>5. Access!Activate(g)
      BY <3>2, <3>3, <3>4 DEF Access!Activate, Access!Become
    <3> QED
      BY <1>0, <3>1, <3>5 DEF Access!Step
  <2>7. CASE IssueDone(t)
    BY <2>7 DEF IssueDone, Access!vars, Phase
  <2>8. CASE IssueFails(t)
    BY <2>8 DEF IssueFails, Access!vars, Phase
  <2>9. CASE IssueError(t)
    BY <2>9 DEF IssueError, Access!vars, Phase
  <2>10. CASE Respond(t)
    <3>1. PICK g \in Grants : g = job[t]
      BY <2>10 DEF Respond
    <3>2. named[g] /\ told[g] # "password"
      BY <2>10, <3>1 DEF Respond
    <3>3. /\ \/ told' = [told EXCEPT ![g] = "password"]
             \/ told' = [told EXCEPT ![g] = "rolled_back"]
          /\ UNCHANGED <<rows, vault, late, acct, age>>
      BY <2>10, <3>1 DEF Respond
    <3>4. Access!HandOver(g) \/ UNCHANGED Access!vars
      BY <3>2, <3>3 DEF Access!HandOver, Access!vars, Phase
    <3> QED
      BY <1>0, <3>1, <3>4 DEF Access!Step
  <2> QED
    BY <1>3, <2>1, <2>2, <2>3, <2>4, <2>5, <2>6, <2>7, <2>8, <2>9, <2>10 DEF IssueStep
<1>4. ASSUME NEW t \in Threads, Acquire(t) \/ Timeout(t) \/ MarkRevoking(t)
      PROVE  Access!Next \/ UNCHANGED Access!vars
  <2>1. CASE Acquire(t)
    BY <2>1 DEF Acquire, Access!vars, Phase
  <2>2. CASE Timeout(t)
    BY <2>2 DEF Timeout, Access!vars, Phase
  <2>3. CASE MarkRevoking(t)
    <3>1. PICK g \in Grants : g = job[t]
      BY <2>3 DEF MarkRevoking
    <3>2. Access!StartEnding(g) \/ UNCHANGED Access!vars
      <4>1. status[g] # "none" /\ status' = [status EXCEPT ![g] = "revoking"]
        BY <2>3, <3>1 DEF MarkRevoking
      <4>2. Phase' = [Phase EXCEPT ![g] = "ending"]
        BY <4>1 DEF Phase
      <4>3. Phase[g] \in {"issuing", "active", "ended"} \/ Phase[g] = "ending"
        BY <4>1 DEF Phase
      <4>4. Phase[g] = "ending" => Phase' = Phase
        <5>1. Phase[g] = "ending" => status[g] = "revoking"
          BY <4>1 DEF Phase
        <5>2. status[g] = "revoking" => status' = status
          BY <4>1
        <5> QED
          BY <5>1, <5>2 DEF Phase
      <4> QED
        BY <2>3, <4>2, <4>3, <4>4
           DEF MarkRevoking, Access!StartEnding, Access!Become, Access!vars
    <3> QED
      BY <1>0, <3>1, <3>2 DEF Access!Step
  <2> QED
    BY <1>4, <2>1, <2>2, <2>3
<1>5. ASSUME NEW t \in Threads, TeardownStep(t)
      PROVE  Access!Next \/ UNCHANGED Access!vars
  <2>1. CASE FindTokens(t)
    BY <2>1 DEF FindTokens, Access!vars, Phase
  <2>2. CASE LockOutAccounts(t)
    <3>1. PICK g \in Grants : g = job[t]
      BY <2>2 DEF LockOutAccounts
    <3>2. Access!LockOut(g) \/ UNCHANGED Access!vars
      <4>1. CASE DbOf[g] = "postgres" /\ acct[g] = "open"
        <5>1. Phase[g] \in {"issuing", "active", "ending"} /\ (Phase[g] = "active" => age[g] # "fresh")
          BY <2>2, <3>1 DEF LockOutAccounts, Phase
        <5>2. acct' = [acct EXCEPT ![g] = "locked"]
          BY <2>2, <3>1, <4>1 DEF LockOutAccounts, LockOut
        <5>3. UNCHANGED <<Phase, named, age, told, landed>>
          BY <2>2 DEF LockOutAccounts, Phase
        <5> QED
          BY <4>1, <5>1, <5>2, <5>3 DEF Access!LockOut, Access!Turn
      <4>2. CASE ~(DbOf[g] = "postgres" /\ acct[g] = "open")
        BY <2>2, <3>1, <4>2 DEF LockOutAccounts, LockOut, Access!vars, Phase
      <4> QED
        BY <4>1, <4>2
    <3> QED
      BY <1>0, <3>1, <3>2 DEF Access!Step
  <2>3. CASE RevokeLeases(t)
    <3>1. PICK g \in Grants : g = job[t]
      BY <2>3 DEF RevokeLeases
    <3>2. Access!Close(g) \/ UNCHANGED Access!vars
      <4>1. CASE lease[g] /\ acct[g] # "absent"
        <5>1. Phase[g] = "active" => age[g] # "fresh"
          BY <2>3, <3>1 DEF RevokeLeases, Phase
        <5>2. acct[g] = "open" /\ DbOf[g] = "postgres" => Landed(g, "creds")
          BY <2>3, <3>1 DEF RevokeLeases
        <5>3. acct' = [acct EXCEPT ![g] = "absent"]
          BY <2>3, <3>1, <4>1 DEF RevokeLeases
        <5>4. UNCHANGED <<Phase, named, age, told, landed>>
          BY <2>3 DEF RevokeLeases, Phase
        <5> QED
          BY <4>1, <5>1, <5>2, <5>3, <5>4 DEF Access!Close, Access!Turn
      <4>2. CASE ~(lease[g] /\ acct[g] # "absent")
        BY <2>3, <3>1, <4>2 DEF RevokeLeases, Access!vars, Phase
      <4> QED
        BY <4>1, <4>2
    <3> QED
      BY <1>0, <3>1, <3>2 DEF Access!Step
  <2>4. CASE DropAccounts(t)
    <3>1. PICK g \in Grants : g = job[t]
      BY <2>4 DEF DropAccounts
    <3>2. Access!LockOut(g) \/ Access!Close(g) \/ UNCHANGED Access!vars
      BY <2>4, <3>1 DEF DropAccounts, LockOut, Access!LockOut, Access!Close, Access!Become, Access!Turn, Access!vars, Phase
    <3> QED
      BY <1>0, <3>1, <3>2 DEF Access!Step
  <2>5. CASE Confirm(t)
    BY <2>5 DEF Confirm, Access!vars, Phase
  <2>6. CASE RevokeToken(t)
    BY <2>6 DEF RevokeToken, Access!vars, Phase
  <2>7. CASE DeleteRole(t)
    BY <2>7 DEF DeleteRole, Access!vars, Phase
  <2>8. CASE Settle(t)
    <3>1. PICK g \in Grants : g = job[t]
      BY <2>8 DEF Settle
    <3>2. Access!Finish(g) \/ UNCHANGED Access!vars
      <4>1. /\ Phase[g] \in {"issuing", "active", "ending"}
            /\ Phase[g] = "active" => age[g] # "fresh"
            /\ acct[g] # "absent" => Landed(g, "creds")
        BY <2>8, <3>1 DEF Settle, Phase
      <4>2. status' = [status EXCEPT ![g] = final[t]] /\ final[t] \in Terminal
        BY <2>8, <3>1 DEF Settle
      <4>3. Phase' = [Phase EXCEPT ![g] = "ended"]
        BY <4>2 DEF Phase
      <4>4. UNCHANGED <<named, acct, age, told, landed>>
        BY <2>8 DEF Settle
      <4> QED
        BY <4>1, <4>3, <4>4 DEF Access!Finish, Access!Become
    <3> QED
      BY <1>0, <3>1, <3>2 DEF Access!Step
  <2>9. CASE GiveUp(t)
    <3>1. PICK g \in Grants : g = job[t]
      BY <2>9 DEF GiveUp
    <3>2. Access!StartEnding(g) \/ UNCHANGED Access!vars
      BY <2>9, <3>1 DEF GiveUp, Access!StartEnding, Access!Become, Access!Turn, Access!vars, Phase
    <3> QED
      BY <1>0, <3>1, <3>2 DEF Access!Step
  <2>10. CASE StoreFails(t)
    BY <2>10 DEF StoreFails, Access!vars, Phase
  <2>11. CASE End(t)
    BY <2>11 DEF End, EndWork, Forget, Access!vars, Phase
  <2> QED
    BY <1>5, <2>1, <2>2, <2>3, <2>4, <2>5, <2>6, <2>7, <2>8, <2>9, <2>10, <2>11 DEF TeardownStep
<1>6. ASSUME NEW t \in Threads, ReconcileStep(t)
      PROVE  Access!Next \/ UNCHANGED Access!vars
  <2>1. CASE StartRound(t)
    BY <2>1 DEF StartRound, Access!vars, Phase
  <2>2. CASE PickRow(t)
    BY <2>2 DEF PickRow, Access!vars, Phase
  <2>3. CASE RowsDone(t)
    BY <2>3 DEF RowsDone, Access!vars, Phase
  <2>4. CASE Decide(t)
    BY <2>4 DEF Decide, Access!vars, Phase
  <2>5. CASE ReadLiveRows(t)
    BY <2>5 DEF ReadLiveRows, Access!vars, Phase
  <2>6. CASE ScanAccounts(t)
    BY <2>6 DEF ScanAccounts, Access!vars, Phase
  <2> QED
    BY <1>6, <2>1, <2>2, <2>3, <2>4, <2>5, <2>6 DEF ReconcileStep
<1>7. ASSUME NEW g \in Grants,
             Tick(g) \/ LeaseExpires(g) \/ TokenExpires(g) \/ \E r \in Requests : LateLands(g, r)
      PROVE  Access!Next \/ UNCHANGED Access!vars
  <2>1. CASE Tick(g)
    <3>1. Access!Lapse(g) \/ UNCHANGED Access!vars
      BY <2>1 DEF Tick, Access!Lapse, Access!vars, Phase
    <3> QED
      BY <1>0, <3>1 DEF Access!Step
  <2>2. CASE LeaseExpires(g)
    <3>1. Access!Close(g) \/ UNCHANGED Access!vars
      BY <2>2 DEF LeaseExpires, Access!Close, Access!Turn, Access!vars, Phase
    <3> QED
      BY <1>0, <3>1 DEF Access!Step
  <2>3. CASE TokenExpires(g)
    BY <2>3 DEF TokenExpires, Access!vars, Phase
  <2>4. ASSUME NEW r \in Requests, LateLands(g, r)
        PROVE  Access!Next \/ UNCHANGED Access!vars
    <3>1. Access!OpenLate(g) \/ UNCHANGED Access!vars
      BY <2>4 DEF LateLands, Access!OpenLate, Access!Turn, Access!vars, Phase
    <3> QED
      BY <1>0, <3>1 DEF Access!Step
  <2> QED
    BY <1>7, <2>1, <2>2, <2>3, <2>4
<1>8. CASE Crash
  BY <1>8 DEF Crash, Access!vars, Phase
<1>9. CASE UNCHANGED vars
  BY <1>9 DEF vars, Access!vars, Phase
<1> QED
  BY <1>1, <1>2, <1>3, <1>4, <1>5, <1>6, <1>7, <1>8, <1>9 DEF Next, Step, Environment

\* The rows and accounts are what GrantAccess promises: an account exists only
\* for a record that says so, is not taken away before its time unless the grant
\* is ended, and is gone when the record says that the grant has ended. Vault may
\* open it once more when it executes a request late, but not that of a grant that
\* came into use; and only of such a grant the password is told.
THEOREM Refinement == Spec => ImplementsAccess
<1>1. Init => Access!Init
  BY InitAccess
<1>2. TypeOK /\ IInv /\ [Next]_vars => [Access!Next]_(Access!vars)
  BY StepAccess
<1> QED
  BY <1>1, <1>2, Invariance, PTL DEF Spec, ImplementsAccess, Access!Spec

\* What GrantAccess says can be seen at any moment is seen at any moment: every
\* state of a grant is one from which its promise can be resumed.
THEOREM Observed == Spec => []Access!Consistent
<1>1. TypeOK /\ IInv => Access!Consistent
  BY DEF TypeOK, IInv, TerminalIsClean, ActiveIsBacked, PasswordIsTracked, Punctual, Landed,
         Access!Consistent, Phase, Status, Live, Terminal
<1> QED
  BY <1>1, Invariance, PTL
=============================================================================
