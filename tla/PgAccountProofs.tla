--------------------------- MODULE PgAccountProofs --------------------------
(* Which sessions can outlive a PostgreSQL account, for any clients, rounds *)
(* and failures.                                                           *)
EXTENDS PgAccount, TLAPS

\* Who counts the backends holds the role's row, so nobody locks the account
\* out or drops it between its count and its drop; and once the account is
\* locked out, the logins under way are those that passed before.
AccountInv ==
    /\ \A r \in Runners : at[r] \in {"terminate", "count", "drop"} =>
          writer = r /\ role # "absent"
    /\ role = "open" => slow = Clients
    /\ role # "open" => \A c \in Clients : conn[c] = "passed" => c \in slow
    /\ role = "locked" => \A r \in Runners : at[r] = "drop" => Listed \subseteq slow
    /\ role # "absent" => \A c \in Clients : conn[c] # "nameless"
    /\ role = "absent" =>
          /\ Listed = {}
          /\ \A c \in Clients : conn[c] = "nameless" => c \in slow

LEMMA InitAccount == Init => TypeOK /\ AccountInv
<1> SUFFICES ASSUME Init PROVE TypeOK /\ AccountInv
  OBVIOUS
<1>1. 0 \in 0 .. MaxTries /\ MaxFaults \in 0 .. MaxFaults
  BY PgAccountAssumption
<1>2. /\ conn \in [Clients -> Conns] /\ at \in [Runners -> Places]
      /\ seen \in [Runners -> SUBSET Clients] /\ tries \in [Runners -> 0 .. MaxTries]
  BY <1>1 DEF Init, Conns, Places
<1>3. TypeOK
  BY <1>1, <1>2 DEF Init, TypeOK, Pcs, Helpers
<1>4. AccountInv
  BY DEF Init, AccountInv
<1> QED
  BY <1>3, <1>4

\* What the steps of cleanup_role change of the portal's state.
LEMMA AnsweredType ==
    ASSUME TypeOK, NEW r \in Runners, NEW ok \in BOOLEAN, Answered(r, ok)
    PROVE  /\ due' \in BOOLEAN /\ lapsed' \in BOOLEAN /\ lease' \in BOOLEAN /\ asked' \in BOOLEAN
           /\ pc' \in Pcs /\ mine' \in Helpers /\ round' \in {1, 2} /\ signaled' \in BOOLEAN
BY DEF TypeOK, Answered, Pcs

LEMMA EndsType ==
    ASSUME TypeOK, NEW r \in Runners, Ends(r)
    PROVE  /\ at' \in [Runners -> Places]
           /\ seen' \in [Runners -> SUBSET Clients]
           /\ tries' \in [Runners -> 0 .. MaxTries]
           /\ writer' \in Runners \cup {Nobody}
<1>1. 0 \in 0 .. MaxTries
  BY PgAccountAssumption
<1> QED
  BY <1>1 DEF TypeOK, Ends, Places

\* Every step keeps the types.
LEMMA StepType == TypeOK /\ [Next]_vars => TypeOK'
<1> SUFFICES ASSUME TypeOK, [Next]_vars PROVE TypeOK'
  OBVIOUS
<1> USE PgAccountAssumption DEF TypeOK, roles, txns, local, Fault
<1>1. ASSUME NEW c \in Clients, LogIn(c) PROVE TypeOK'
  BY <1>1 DEF LogIn, Conns
<1>2. ASSUME NEW c \in Clients, Appear(c) PROVE TypeOK'
  BY <1>2 DEF Appear, Conns
<1>3. ASSUME NEW c \in Clients, Leave(c) PROVE TypeOK'
  BY <1>3 DEF Leave, Conns
<1>4. CASE Expire \/ Lapse
  BY <1>4 DEF Expire, Lapse
<1>5. CASE VaultRevokes
  BY <1>5 DEF VaultRevokes, Call, Runners, Helpers, Places
<1>6. CASE Revoke
  BY <1>6 DEF Revoke, Goto, Pcs
<1>7. CASE Teardown
  <2>1. CASE Find \/ Poll \/ LockOutFails
    BY <2>1 DEF Find, Poll, LockOutFails, Goto, Pcs
  <2>5. CASE LeaseAnswered \/ Confirm \/ RevokeLease
    BY <2>5 DEF LeaseAnswered, Confirm, RevokeLease, Goto, Pcs
  <2>2. CASE LockOut
    BY <2>2 DEF LockOut, Goto, Pcs
  <2>3. CASE TerminateAll
    BY <2>3 DEF TerminateAll, Goto, Pcs, Signal, Conns
  <2>4. CASE DropAccount
    BY <2>4 DEF DropAccount, Call, Goto, Pcs, Runners, Helpers, Places
  <2> QED
    BY <1>7, <2>1, <2>2, <2>3, <2>4, <2>5 DEF Teardown
<1>8. CASE Fail
  BY <1>8 DEF Fail, Goto, Pcs
<1>9. ASSUME NEW r \in Runners, Cleanup(r) PROVE TypeOK'
  <2>1. CASE Check(r)
    <3>1. CASE role = "absent"
      BY <2>1, <3>1, EndsType, AnsweredType DEF Check
    <3>2. CASE role # "absent"
      BY <2>1, <3>2 DEF Check, Places
    <3> QED
      BY <3>1, <3>2
  <2>2. CASE LockRow(r)
    BY <2>2 DEF LockRow, Places
  <2>3. CASE LockFails(r)
    BY <2>3, EndsType, AnsweredType DEF LockFails
  <2>4. CASE Terminate(r)
    BY <2>4 DEF Terminate, Signal, Places, Conns
  <2>5. CASE Count(r)
    BY <2>5 DEF Count, Places, Listed
  <2>6. CASE GiveUp(r)
    BY <2>6, EndsType, AnsweredType DEF GiveUp
  <2>7. CASE Drop(r)
    BY <2>7, EndsType, AnsweredType DEF Drop, Conns
  <2> QED
    BY <1>9, <2>1, <2>2, <2>3, <2>4, <2>5, <2>6, <2>7 DEF Cleanup
<1>10. ASSUME NEW r \in Runners, Abort(r) PROVE TypeOK'
  <2>1. faults' \in 0 .. MaxFaults
    BY <1>10 DEF Abort
  <2> QED
    BY <1>10, <2>1, EndsType, AnsweredType DEF Abort
<1>11. CASE UNCHANGED vars
  BY <1>11 DEF vars
<1> QED
  BY <1>1, <1>2, <1>3, <1>4, <1>5, <1>6, <1>7, <1>8, <1>9, <1>10, <1>11 DEF Next

\* Every step keeps the invariant.
LEMMA StepAccount == TypeOK /\ AccountInv /\ [Next]_vars => AccountInv'
<1> SUFFICES ASSUME TypeOK, AccountInv, [Next]_vars PROVE AccountInv'
  OBVIOUS
<1> USE PgAccountAssumption DEF TypeOK, AccountInv, roles, txns, local, Listed
<1>1. ASSUME NEW c \in Clients, LogIn(c) PROVE AccountInv'
  BY <1>1 DEF LogIn
<1>2. ASSUME NEW c \in Clients, Appear(c) PROVE AccountInv'
  BY <1>2 DEF Appear
<1>3. ASSUME NEW c \in Clients, Leave(c) PROVE AccountInv'
  BY <1>3 DEF Leave
<1>4. CASE Expire \/ Lapse
  BY <1>4 DEF Expire, Lapse
<1>5. CASE VaultRevokes
  BY <1>5 DEF VaultRevokes, Call
<1>6. CASE Revoke
  BY <1>6 DEF Revoke
<1>7. CASE Teardown
  <2>1. CASE Find \/ Poll \/ LockOutFails \/ LeaseAnswered \/ Confirm \/ RevokeLease
    BY <2>1 DEF Find, Poll, LockOutFails, LeaseAnswered, Confirm, RevokeLease
  <2>2. CASE LockOut
    BY <2>2 DEF LockOut, Runners
  <2>3. CASE TerminateAll
    BY <2>3 DEF TerminateAll, Signal
  <2>4. CASE DropAccount
    BY <2>4 DEF DropAccount, Call
  <2> QED
    BY <1>7, <2>1, <2>2, <2>3, <2>4 DEF Teardown
<1>8. CASE Fail
  BY <1>8 DEF Fail
<1>9. ASSUME NEW r \in Runners, Cleanup(r) PROVE AccountInv'
  <2>1. CASE Check(r)
    BY <2>1 DEF Check, Ends
  <2>2. CASE LockRow(r)
    BY <2>2 DEF LockRow
  <2>3. CASE LockFails(r)
    BY <2>3 DEF LockFails, Ends
  <2>4. CASE Terminate(r)
    BY <2>4 DEF Terminate, Signal
  <2>5. CASE Count(r)
    BY <2>5 DEF Count
  <2>6. CASE GiveUp(r)
    BY <2>6 DEF GiveUp, Ends
  <2>7. CASE Drop(r)
    BY <2>7 DEF Drop, Ends, Runners
  <2> QED
    BY <1>9, <2>1, <2>2, <2>3, <2>4, <2>5, <2>6, <2>7 DEF Cleanup
<1>10. ASSUME NEW r \in Runners, Abort(r) PROVE AccountInv'
  BY <1>10 DEF Abort, Ends
<1>11. CASE UNCHANGED vars
  BY <1>11 DEF vars
<1> QED
  BY <1>1, <1>2, <1>3, <1>4, <1>5, <1>6, <1>7, <1>8, <1>9, <1>10, <1>11 DEF Next

LEMMA Invariance == Spec => [](TypeOK /\ AccountInv)
<1>1. Init => TypeOK /\ AccountInv
  BY InitAccount
<1>2. TypeOK /\ AccountInv /\ [Next]_vars => (TypeOK /\ AccountInv)'
  BY StepType, StepAccount
<1> QED
  BY <1>1, <1>2, PTL DEF Spec

\* Types of the state, for any clients, rounds and failures.
THEOREM Typing == Spec => []TypeOK
BY Invariance, PTL

\* After a committed lockout, nobody but a slow login outlives the account:
\* for any number of clients, of rounds and of failures.
THEOREM Lockout == Spec => []OnlySlowLoginsSurvive
<1>1. AccountInv => OnlySlowLoginsSurvive
  BY DEF AccountInv, OnlySlowLoginsSurvive
<1> QED
  BY <1>1, Invariance, PTL
-----------------------------------------------------------------------------
(* PgAccount implements GrantAccess.                                       *)

\* The portal asks Vault and drops only after its lockout was committed, and
\* before the TTL is over Vault revokes only what the portal asked for; so a
\* grant that is neither over nor being ended keeps its account.
Ordered ==
    /\ asked => role # "open"
    /\ pc \notin {"idle", "find", "lock_out"} => role # "open"
    /\ pc = "idle" /\ ~due => role = "open"
    /\ pc = "done" => role = "absent"
    /\ \A r \in Runners : at[r] # "none" /\ role = "open" => r = "vault" /\ due

\* What the portal does at the end of a transaction keeps the order.
LEMMA StepOrdered == TypeOK /\ AccountInv /\ Ordered /\ [Next]_vars => Ordered'
<1> SUFFICES ASSUME TypeOK, AccountInv, Ordered, [Next]_vars PROVE Ordered'
  OBVIOUS
<1> USE PgAccountAssumption DEF TypeOK, AccountInv, Ordered, roles, txns, local
<1>1. ASSUME NEW c \in Clients, LogIn(c) \/ Appear(c) \/ Leave(c) PROVE Ordered'
  BY <1>1 DEF LogIn, Appear, Leave
<1>2. CASE Expire \/ Lapse
  BY <1>2 DEF Expire, Lapse
<1>3. CASE VaultRevokes
  BY <1>3 DEF VaultRevokes, Call
<1>4. CASE Revoke \/ Fail
  BY <1>4 DEF Revoke, Fail, Goto
<1>5. CASE Teardown
  <2>1. CASE Find \/ Poll \/ LockOutFails \/ LeaseAnswered \/ Confirm \/ RevokeLease
    BY <2>1 DEF Find, Poll, LockOutFails, LeaseAnswered, Confirm, RevokeLease, Goto
  <2>2. CASE LockOut
    BY <2>2 DEF LockOut, Goto
  <2>3. CASE TerminateAll
    BY <2>3 DEF TerminateAll, Goto
  <2>4. CASE DropAccount
    BY <2>4 DEF DropAccount, Call, Goto
  <2> QED
    BY <1>5, <2>1, <2>2, <2>3, <2>4 DEF Teardown
<1>6. ASSUME NEW r \in Runners, Cleanup(r) PROVE Ordered'
  <2>1. CASE Check(r)
    BY <2>1 DEF Check, Ends, Answered
  <2>2. CASE LockRow(r)
    BY <2>2 DEF LockRow
  <2>3. CASE LockFails(r)
    BY <2>3 DEF LockFails, Ends, Answered
  <2>4. CASE Terminate(r)
    BY <2>4 DEF Terminate
  <2>5. CASE Count(r)
    BY <2>5 DEF Count
  <2>6. CASE GiveUp(r)
    BY <2>6 DEF GiveUp, Ends, Answered
  <2>7. CASE Drop(r)
    BY <2>7 DEF Drop, Ends, Answered
  <2> QED
    BY <1>6, <2>1, <2>2, <2>3, <2>4, <2>5, <2>6, <2>7 DEF Cleanup
<1>7. ASSUME NEW r \in Runners, Abort(r) PROVE Ordered'
  BY <1>7 DEF Abort, Ends, Answered
<1>8. CASE UNCHANGED vars
  BY <1>8 DEF vars
<1> QED
  BY <1>1, <1>2, <1>3, <1>4, <1>5, <1>6, <1>7, <1>8 DEF Next

\* A step of PgAccount is one step of GrantAccess for the account, or a stutter:
\* the portal's committed lockout, the drop of whoever runs cleanup_role, the end
\* of the TTL, and the beginning and the end of the teardown are seen outside.
LEMMA StepAccess ==
    TypeOK /\ AccountInv /\ Ordered /\ [Next]_vars => [Access!Next]_(Access!vars)
<1> SUFFICES ASSUME TypeOK, AccountInv, Ordered, [Next]_vars
             PROVE  Access!Next \/ UNCHANGED Access!vars
  OBVIOUS
<1> USE DEF TypeOK, roles, txns, local
<1>0. \A g \in Account : Access!Step(g) => Access!Next
  BY DEF Access!Next
<1>1. ASSUME NEW c \in Clients, LogIn(c) \/ Appear(c) \/ Leave(c)
      PROVE  Access!Next \/ UNCHANGED Access!vars
  BY <1>1 DEF LogIn, Appear, Leave, Access!vars
<1>2. CASE Expire
  <2>1. Access!Lapse("account")
    BY <1>2 DEF Expire, Account, Access!Lapse
  <2> QED
    BY <1>0, <2>1 DEF Access!Step, Account
<1>3. CASE Lapse
  BY <1>3 DEF Lapse, Access!vars
<1>4. CASE VaultRevokes
  BY <1>4 DEF VaultRevokes, Access!vars
<1>5. CASE Revoke
  <2>1. Access!StartEnding("account")
    BY <1>5 DEF Revoke, Goto, Account, Access!StartEnding, Access!Become
  <2> QED
    BY <1>0, <2>1 DEF Access!Step, Account
<1>6. CASE Teardown
  <2>1. CASE Find \/ Poll \/ LockOutFails \/ LeaseAnswered \/ RevokeLease \/ TerminateAll \/ DropAccount
    BY <2>1 DEF Find, Poll, LockOutFails, LeaseAnswered, RevokeLease, TerminateAll, DropAccount,
                Goto, Access!vars
  <2>2. CASE LockOut
    <3>1. Access!LockOut("account") \/ UNCHANGED Access!vars
      BY <2>2 DEF LockOut, Goto, Account, Access!LockOut, Access!Turn, Access!vars
    <3> QED
      BY <1>0, <3>1 DEF Access!Step, Account
  <2>3. CASE Confirm
    <3>1. Access!Finish("account") \/ UNCHANGED Access!vars
      BY <2>3 DEF Confirm, Goto, Account, Access!Finish, Access!Become, Access!vars
    <3> QED
      BY <1>0, <3>1 DEF Access!Step, Account
  <2> QED
    BY <1>6, <2>1, <2>2, <2>3 DEF Teardown
<1>7. CASE Fail
  BY <1>7 DEF Fail, Goto, Access!vars
<1>8. ASSUME NEW r \in Runners, Cleanup(r) \/ Abort(r)
      PROVE  Access!Next \/ UNCHANGED Access!vars
  <2>1. CASE Drop(r)
    <3>1. Access!Close("account")
      BY <2>1 DEF Drop, Ends, Answered, AccountInv, Ordered, Account, Access!Close, Access!Turn
    <3> QED
      BY <1>0, <3>1 DEF Access!Step, Account
  <2>2. CASE Check(r) \/ LockRow(r) \/ LockFails(r) \/ Terminate(r) \/ Count(r) \/ GiveUp(r) \/ Abort(r)
    BY <2>2 DEF Check, LockRow, LockFails, Terminate, Count, GiveUp, Abort, Answered, Access!vars
  <2> QED
    BY <1>8, <2>1, <2>2 DEF Cleanup
<1>9. CASE UNCHANGED vars
  BY <1>9 DEF vars, Access!vars
<1> QED
  BY <1>1, <1>2, <1>3, <1>4, <1>5, <1>6, <1>7, <1>8, <1>9 DEF Next

\* The transactions of the database, with the clients' logins, Vault's retries and
\* the failures of either side, keep the promise that Grants makes with a lockout
\* and a drop in one step each.
THEOREM Refinement == Spec => KeepsAccess
<1>1. Init => TypeOK /\ AccountInv /\ Ordered /\ Access!Consistent
  BY InitAccount DEF Init, Ordered, Access!Consistent, Account
<1>2. TypeOK /\ AccountInv /\ Ordered /\ [Next]_vars => (TypeOK /\ AccountInv /\ Ordered)'
  BY StepType, StepAccount, StepOrdered
<1>3. TypeOK /\ AccountInv /\ Ordered /\ [Next]_vars => [Access!Next]_(Access!vars)
  BY StepAccess
<1> QED
  BY <1>1, <1>2, <1>3, PTL DEF Spec, KeepsAccess, Access!Resumed
=============================================================================
