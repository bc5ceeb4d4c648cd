----------------------------- MODULE HelperRole -----------------------------
(***************************************************************************)
(* run_as_manager of src/middleware/app/vault_client.py: statements are    *)
(* run as the database's manager account by a Vault role whose creation    *)
(* statements are the work, read once with a token of its own. Every call  *)
(* has a label of its own, so the calls share nothing but the faults.      *)
(***************************************************************************)
EXTENDS Naturals, FiniteSets

CONSTANTS Calls,     \* calls of run_as_manager
          MaxFaults  \* bound: failed requests, lost replies and crashes

ASSUME HelperAssumption == MaxFaults \in Nat

VARIABLES
    role,     \* Vault: helper roles that exist
    token,    \* Vault: calls whose token is alive
    lease,    \* Vault: calls whose lease is alive
    ran,      \* the databases: calls all of whose statements were committed
    pc,       \* the next request of each call
    accessor, \* calls that know their token's accessor
    leaseId,  \* calls that know their lease
    ok,       \* calls whose statements were seen to succeed
    hurt,     \* history: calls that lost a request, a reply or their process
    faults    \* faults that may still happen

vault == <<role, token, lease, ran>>
local == <<accessor, leaseId, ok>>
vars  == <<vault, pc, local, hurt, faults>>

Work == {"write_role", "create_token", "read_creds"}
Cleanup == {"revoke_lease", "revoke_accessor", "delete_role"}
Ended == {"returned", "raised", "killed"}

\* Types of the state; a call knows a lease only if it knows the token.
TypeOK ==
    /\ role \subseteq Calls /\ token \subseteq Calls /\ lease \subseteq Calls
    /\ ran \subseteq Calls
    /\ pc \in [Calls -> Work \cup Cleanup \cup Ended]
    /\ accessor \subseteq Calls /\ leaseId \subseteq Calls /\ ok \subseteq Calls
    /\ leaseId \subseteq accessor
    /\ hurt \subseteq Calls
    /\ faults \in 0 .. MaxFaults

Init ==
    /\ role = {} /\ token = {} /\ lease = {} /\ ran = {}
    /\ pc = [c \in Calls |-> "write_role"]
    /\ accessor = {} /\ leaseId = {} /\ ok = {}
    /\ hurt = {}
    /\ faults = MaxFaults

Goto(c, l) == pc' = [pc EXCEPT ![c] = l]

Hurt(c) ==
    /\ faults > 0
    /\ faults' = faults - 1
    /\ hurt' = hurt \cup {c}

Fine == UNCHANGED <<hurt, faults>>
-----------------------------------------------------------------------------
(* try                                                                     *)

WriteRole(c) ==
    /\ pc[c] = "write_role"
    /\ role' = role \cup {c}
    /\ \/ Goto(c, "create_token") /\ Fine
       \/ Goto(c, "revoke_lease") /\ Hurt(c)
    /\ UNCHANGED <<token, lease, ran, local>>

\* Faulty: the reply's accessor is not taken.
CreateTokenUnseen(c) ==
    /\ pc[c] = "create_token"
    /\ token' = token \cup {c}
    /\ \/ Goto(c, "read_creds") /\ Fine
       \/ Goto(c, "revoke_lease") /\ Hurt(c)
    /\ UNCHANGED <<role, lease, ran, local>>

\* The reply carries the accessor: a lost one leaves a token nobody knows.
CreateToken(c) ==
    /\ pc[c] = "create_token"
    /\ token' = token \cup {c}
    /\ \/ Goto(c, "read_creds") /\ accessor' = accessor \cup {c} /\ Fine
       \/ Goto(c, "revoke_lease") /\ accessor' = accessor /\ Hurt(c)
    /\ UNCHANGED <<role, lease, ran, leaseId, ok>>

\* Vault runs the statements, then registers the lease and replies; it may
\* fail between, or the reply is lost.
ReadCredentials(c) ==
    /\ pc[c] = "read_creds"
    /\ c \in token
    /\ ran' = ran \cup {c}
    /\ \/ /\ lease' = lease \cup {c}
          /\ leaseId' = leaseId \cup {c}
          /\ ok' = ok \cup {c}
          /\ Fine
       \/ /\ lease' \in {lease, lease \cup {c}}
          /\ UNCHANGED <<leaseId, ok>>
          /\ Hurt(c)
    /\ Goto(c, "revoke_lease")
    /\ UNCHANGED <<role, token, accessor>>

\* Faulty: a request that fails is taken for done.
RequestIgnored(c) ==
    /\ pc[c] \in Work
    /\ Hurt(c)
    /\ ok' = ok \cup {c}
    /\ Goto(c, "revoke_lease")
    /\ UNCHANGED <<vault, accessor, leaseId>>

\* Faulty: the credentials are asked for again until Vault gives them.
RequestRetried(c) ==
    /\ pc[c] \in Work
    /\ \/ Hurt(c) /\ Goto(c, "revoke_lease")
       \/ pc[c] = "read_creds" /\ c \notin token /\ Fine /\ UNCHANGED pc
    /\ UNCHANGED <<vault, local>>

\* A request fails, its work not done.
RequestFails(c) ==
    /\ pc[c] \in Work
    /\ \/ Hurt(c)
       \/ pc[c] = "read_creds" /\ c \notin token /\ Fine
    /\ Goto(c, "revoke_lease")
    /\ UNCHANGED <<vault, local>>
-----------------------------------------------------------------------------
(* finally: every request may fail, which is ignored.                      *)

\* A request of the cleanup: its effect, or a failure that is swallowed.
Quietly(c, effect, nothing) ==
    \/ effect /\ Fine
    \/ effect /\ Hurt(c)
    \/ nothing /\ Hurt(c)

RevokeLease(c) ==
    /\ pc[c] = "revoke_lease"
    /\ IF c \in leaseId
       THEN Quietly(c, lease' = lease \ {c}, lease' = lease)
       ELSE lease' = lease /\ Fine
    /\ Goto(c, "revoke_accessor")
    /\ UNCHANGED <<role, token, ran, local>>

\* Faulty: the token is left to its TTL.
SkipAccessor(c) ==
    /\ pc[c] = "revoke_accessor"
    /\ Goto(c, "delete_role")
    /\ UNCHANGED <<vault, local, hurt, faults>>

\* Vault revokes the leases of a token with it.
RevokeAccessor(c) ==
    /\ pc[c] = "revoke_accessor"
    /\ IF c \in accessor
       THEN Quietly(c, token' = token \ {c} /\ lease' = lease \ {c}, UNCHANGED <<token, lease>>)
       ELSE UNCHANGED <<token, lease>> /\ Fine
    /\ Goto(c, "delete_role")
    /\ UNCHANGED <<role, ran, local>>

\* The role is deleted in any case; then the call returns, or raises what the
\* work raised.
DeleteRole(c) ==
    /\ pc[c] = "delete_role"
    /\ Quietly(c, role' = role \ {c}, role' = role)
    /\ Goto(c, IF c \in ok THEN "returned" ELSE "raised")
    /\ UNCHANGED <<token, lease, ran, local>>
-----------------------------------------------------------------------------
\* The lease's TTL (HELPER_TTL_SECONDS) ends.
LeaseExpires(c) ==
    /\ c \in lease
    /\ lease' = lease \ {c}
    /\ UNCHANGED <<role, token, ran, pc, local, hurt, faults>>

\* The token's TTL ends, and its leases with it.
TokenExpires(c) ==
    /\ c \in token
    /\ token' = token \ {c}
    /\ lease' = lease \ {c}
    /\ UNCHANGED <<role, ran, pc, local, hurt, faults>>

\* The process dies: every call stops where it is.
Crash ==
    /\ faults > 0
    /\ faults' = faults - 1
    /\ hurt' = hurt \cup {c \in Calls : pc[c] \notin Ended}
    /\ pc' = [c \in Calls |-> IF pc[c] \in Ended THEN pc[c] ELSE "killed"]
    /\ UNCHANGED <<vault, local>>

Step(c) ==
    \/ WriteRole(c) \/ CreateToken(c) \/ ReadCredentials(c) \/ RequestFails(c)
    \/ RevokeLease(c) \/ RevokeAccessor(c) \/ DeleteRole(c)

Next ==
    \/ \E c \in Calls : Step(c) \/ LeaseExpires(c) \/ TokenExpires(c)
    \/ Crash

Spec == Init /\ [][Next]_vars

\* A call goes on (its requests have a timeout), and Vault ends what has a TTL.
FairSpec ==
    /\ Spec
    /\ \A c \in Calls : WF_vars(Step(c)) /\ WF_vars(LeaseExpires(c)) /\ WF_vars(TokenExpires(c))
-----------------------------------------------------------------------------
\* run_as_manager: "a successful return is a confirmation" that the statements
\* ran, though every failure of the cleanup is swallowed.
ReturnConfirms == \A c \in Calls : pc[c] = "returned" => c \in ran

\* A call leaves something in Vault only when a request, a reply or the process
\* was lost: what is swallowed in `finally` never hides a step that is missing.
LeftoversHaveACause ==
    \A c \in Calls :
        pc[c] \in {"returned", "raised"} /\ c \in role \cup token \cup lease => c \in hurt

\* Whatever is lost, every call ends and, for good, no token is left that could
\* read the helper's role, nor a lease: a lost reply, a token that expired
\* before it was used and a swallowed failure included.
HelperAccessEnds ==
    \A c \in Calls : <>[](pc[c] \in Ended /\ c \notin token \cup lease)
=============================================================================
