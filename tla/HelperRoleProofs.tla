-------------------------- MODULE HelperRoleProofs --------------------------
(***************************************************************************)
(* Proofs about HelperRole, for any calls of run_as_manager and number of  *)
(* faults.                                                                 *)
(***************************************************************************)
EXTENDS HelperRole, TLAPS

\* Credentials are read only by a call that knows its token, and only the
\* reply to that read lets a call return.
Confirmed ==
    /\ ok \subseteq ran
    /\ \A c \in Calls : pc[c] = "read_creds" => c \in accessor
    /\ \A c \in Calls : pc[c] = "returned" => c \in ok

\* What there is in Vault of a call that lost nothing, and what the call knows
\* of it, at each of its requests.
Tidy(c) ==
    /\ pc[c] = "write_role" => c \notin role
    /\ pc[c] \in {"write_role", "create_token"} => c \notin token
    /\ pc[c] \in Work => c \notin lease
    /\ pc[c] \in {"revoke_lease", "revoke_accessor"} => (c \in token => c \in accessor)
    /\ pc[c] = "revoke_lease" => (c \in lease => c \in leaseId)
    /\ pc[c] = "revoke_accessor" => c \notin lease
    /\ pc[c] = "delete_role" => c \notin token \cup lease
    /\ pc[c] \in {"returned", "raised"} => c \notin role \cup token \cup lease
    /\ pc[c] # "killed"

\* The inductive invariant.
HelperInv == Confirmed /\ \A c \in Calls : c \in hurt \/ Tidy(c)

LEMMA InitHelper == Init => TypeOK /\ HelperInv
BY HelperAssumption DEF Init, TypeOK, HelperInv, Confirmed, Tidy, Work, Cleanup, Ended

\* The types are kept by every step of a call ...
LEMMA StepKeepsType == ASSUME TypeOK, Confirmed, NEW c \in Calls, Step(c) PROVE TypeOK'
<1>1. ASSUME NEW l \in Work \cup Cleanup \cup Ended, Goto(c, l)
      PROVE  pc' \in [Calls -> Work \cup Cleanup \cup Ended]
  BY <1>1 DEF Goto, TypeOK
<1>2. /\ Hurt(c) => hurt' \subseteq Calls /\ faults' \in 0 .. MaxFaults
      /\ Fine => hurt' \subseteq Calls /\ faults' \in 0 .. MaxFaults
  BY HelperAssumption DEF Hurt, Fine, TypeOK
<1>3. Work \cup Cleanup \cup Ended =
        {"write_role", "create_token", "read_creds", "revoke_lease", "revoke_accessor",
         "delete_role", "returned", "raised", "killed"}
  BY DEF Work, Cleanup, Ended
<1>4. CASE WriteRole(c)
  BY <1>1, <1>2, <1>3, <1>4 DEF WriteRole, local, TypeOK
<1>5. CASE CreateToken(c)
  BY <1>1, <1>2, <1>3, <1>5 DEF CreateToken, TypeOK
<1>6. CASE ReadCredentials(c)
  BY <1>1, <1>2, <1>3, <1>6 DEF ReadCredentials, Confirmed, TypeOK
<1>7. CASE RequestFails(c)
  BY <1>1, <1>2, <1>3, <1>7 DEF RequestFails, vault, local, TypeOK
<1>8. CASE RevokeLease(c)
  BY <1>1, <1>2, <1>3, <1>8 DEF RevokeLease, Quietly, local, TypeOK
<1>9. CASE RevokeAccessor(c)
  BY <1>1, <1>2, <1>3, <1>9 DEF RevokeAccessor, Quietly, local, TypeOK
<1>10. CASE DeleteRole(c)
  BY <1>1, <1>2, <1>3, <1>10 DEF DeleteRole, Quietly, local, TypeOK
<1> QED
  BY <1>4, <1>5, <1>6, <1>7, <1>8, <1>9, <1>10 DEF Step

\* ... and by every other step.
LEMMA KeepsType == TypeOK /\ Confirmed /\ [Next]_vars => TypeOK'
<1> SUFFICES ASSUME TypeOK, Confirmed, [Next]_vars
             PROVE  TypeOK'
  OBVIOUS
<1>1. CASE \E c \in Calls : Step(c)
  BY <1>1, StepKeepsType
<1>2. CASE \E c \in Calls : LeaseExpires(c) \/ TokenExpires(c)
  BY <1>2 DEF LeaseExpires, TokenExpires, local, TypeOK
<1>3. CASE Crash
  BY <1>3, HelperAssumption DEF Crash, vault, local, TypeOK, Ended
<1>4. CASE UNCHANGED vars
  BY <1>4 DEF vars, vault, local, TypeOK
<1> QED
  BY <1>1, <1>2, <1>3, <1>4 DEF Next

\* A step of a call leaves the others alone.
LEMMA StepIsOwn ==
    ASSUME TypeOK, NEW c \in Calls, Step(c), NEW d \in Calls, d # c
    PROVE  /\ pc'[d] = pc[d]
           /\ d \in role' <=> d \in role
           /\ d \in token' <=> d \in token
           /\ d \in lease' <=> d \in lease
           /\ d \in accessor' <=> d \in accessor
           /\ d \in leaseId' <=> d \in leaseId
           /\ d \in ok' <=> d \in ok
           /\ d \in hurt' <=> d \in hurt
<1> USE DEF TypeOK, Goto, Hurt, Fine, Quietly, vault, local
<1>1. CASE WriteRole(c)
  BY <1>1 DEF WriteRole
<1>2. CASE CreateToken(c)
  BY <1>2 DEF CreateToken
<1>3. CASE ReadCredentials(c)
  BY <1>3 DEF ReadCredentials
<1>4. CASE RequestFails(c)
  BY <1>4 DEF RequestFails
<1>5. CASE RevokeLease(c)
  BY <1>5 DEF RevokeLease
<1>6. CASE RevokeAccessor(c)
  BY <1>6 DEF RevokeAccessor
<1>7. CASE DeleteRole(c)
  BY <1>7 DEF DeleteRole
<1> QED
  BY <1>1, <1>2, <1>3, <1>4, <1>5, <1>6, <1>7 DEF Step

\* A step of a call keeps the invariant for the call itself: it is hurt, or its
\* request did what the next one relies on.
LEMMA StepIsTidy ==
    ASSUME TypeOK, Confirmed, NEW c \in Calls, Step(c), c \in hurt \/ Tidy(c)
    PROVE  c \in hurt' \/ Tidy(c)'
<1>1. Hurt(c) => c \in hurt'
  BY DEF Hurt
<1>2. c \in hurt => c \in hurt'
  BY DEF Step, WriteRole, CreateToken, ReadCredentials, RequestFails, RevokeLease,
         RevokeAccessor, DeleteRole, Quietly, Hurt, Fine
<1> SUFFICES ASSUME Tidy(c), c \notin hurt, ~Hurt(c)
             PROVE  Tidy(c)'
  BY <1>1, <1>2
<1> USE DEF TypeOK, Goto, Quietly, Tidy, Work, vault, local
<1>3. CASE WriteRole(c)
  BY <1>3 DEF WriteRole
<1>4. CASE CreateToken(c)
  BY <1>4 DEF CreateToken
<1>5. CASE ReadCredentials(c)
  BY <1>5 DEF ReadCredentials, Confirmed
<1>6. CASE RequestFails(c)
  BY <1>6 DEF RequestFails, Confirmed
<1>7. CASE RevokeLease(c)
  BY <1>7 DEF RevokeLease
<1>8. CASE RevokeAccessor(c)
  BY <1>8 DEF RevokeAccessor
<1>9. CASE DeleteRole(c)
  BY <1>9 DEF DeleteRole
<1> QED
  BY <1>3, <1>4, <1>5, <1>6, <1>7, <1>8, <1>9 DEF Step

\* What was run stays run, and a call that returns has seen it.
LEMMA KeepsConfirmed == TypeOK /\ Confirmed /\ [Next]_vars => Confirmed'
<1> SUFFICES ASSUME TypeOK, Confirmed, [Next]_vars
             PROVE  Confirmed'
  OBVIOUS
<1>1. ASSUME NEW c \in Calls, Step(c)
      PROVE  Confirmed'
  <2>1. ok' \subseteq ran'
    BY <1>1 DEF Confirmed, Step, WriteRole, CreateToken, ReadCredentials, RequestFails,
       RevokeLease, RevokeAccessor, DeleteRole, vault, local
  <2>2. /\ pc'[c] = "read_creds" => c \in accessor'
        /\ pc'[c] = "returned" => c \in ok'
    BY <1>1 DEF TypeOK, Goto, Step, WriteRole, CreateToken, ReadCredentials, RequestFails,
       RevokeLease, RevokeAccessor, DeleteRole, vault, local
  <2> QED
    BY <1>1, <2>1, <2>2, StepIsOwn DEF Confirmed
<1>2. CASE \E c \in Calls : LeaseExpires(c) \/ TokenExpires(c)
  BY <1>2 DEF LeaseExpires, TokenExpires, local, Confirmed
<1>3. CASE Crash
  BY <1>3 DEF Crash, vault, local, TypeOK, Confirmed, Ended
<1>4. CASE UNCHANGED vars
  BY <1>4 DEF vars, vault, local, Confirmed
<1> QED
  BY <1>1, <1>2, <1>3, <1>4 DEF Next

\* Every step keeps the invariant.
LEMMA KeepsInv == TypeOK /\ HelperInv /\ [Next]_vars => HelperInv'
<1> SUFFICES ASSUME TypeOK, HelperInv, [Next]_vars
             PROVE  HelperInv'
  OBVIOUS
<1>0. Confirmed'
  BY KeepsConfirmed DEF HelperInv
<1> SUFFICES ASSUME NEW d \in Calls
             PROVE  d \in hurt' \/ Tidy(d)'
  BY <1>0 DEF HelperInv
<1>1. ASSUME NEW c \in Calls, Step(c)
      PROVE  d \in hurt' \/ Tidy(d)'
  <2>1. CASE d = c
    BY <1>1, <2>1, StepIsTidy DEF HelperInv
  <2>2. CASE d # c
    BY <1>1, <2>2, StepIsOwn DEF HelperInv, Tidy
  <2> QED
    BY <2>1, <2>2
<1>2. ASSUME NEW c \in Calls, LeaseExpires(c) \/ TokenExpires(c)
      PROVE  d \in hurt' \/ Tidy(d)'
  BY <1>2 DEF LeaseExpires, TokenExpires, local, HelperInv, Tidy
<1>3. CASE Crash
  BY <1>3 DEF Crash, vault, local, TypeOK, HelperInv, Tidy, Ended
<1>4. CASE UNCHANGED vars
  BY <1>4 DEF vars, vault, local, HelperInv, Tidy
<1> QED
  BY <1>1, <1>2, <1>3, <1>4 DEF Next

LEMMA Invariance == Spec => [](TypeOK /\ HelperInv)
<1>1. HelperInv => Confirmed
  BY DEF HelperInv
<1> QED
  BY <1>1, InitHelper, KeepsType, KeepsInv, PTL DEF Spec

\* Every variable keeps its type: no call knows a lease without its token.
THEOREM Typing == Spec => []TypeOK
BY Invariance, PTL

\* A successful return confirms the statements, whatever the cleanup swallows:
\* for any calls and faults.
THEOREM Confirmation == Spec => []ReturnConfirms
<1>1. HelperInv => ReturnConfirms
  BY DEF HelperInv, Confirmed, ReturnConfirms
<1> QED
  BY <1>1, Invariance, PTL

\* A call that ended and left a role, a token or a lease has lost a request, a
\* reply or its process.
THEOREM Leftovers == Spec => []LeftoversHaveACause
<1>1. HelperInv => LeftoversHaveACause
  BY DEF HelperInv, Tidy, LeftoversHaveACause
<1> QED
  BY <1>1, Invariance, PTL
=============================================================================
