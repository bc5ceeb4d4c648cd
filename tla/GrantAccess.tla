---------------------------- MODULE GrantAccess -----------------------------
(***************************************************************************)
(* What the portal promises about a grant, without saying how: when the    *)
(* grant's account may come into being, when it may be locked out or taken *)
(* away, and what the record says meanwhile. Grants implements it, with    *)
(* calls that fail and processes that die (GrantsProofs), and PgAccount,   *)
(* with the transactions that a lockout and a drop consist of              *)
(* (PgAccountProofs).                                                      *)
(***************************************************************************)
CONSTANTS Grants,
          Locking   \* those in a database that can lock an account out

Phases == {"none", "issuing", "active", "ending", "ended"}

VARIABLES phase,    \* what the record says
          account,  \* "absent", "open" or "locked"
          lapsed,   \* the grants whose time is over
          used,     \* the grants that came into use
          handed,   \* the grants whose password was told
          late      \* the grants whose account Vault was late to make

vars == <<phase, account, lapsed, used, handed, late>>

Init ==
    /\ phase = [g \in Grants |-> "none"]
    /\ account = [g \in Grants |-> "absent"]
    /\ lapsed = {}
    /\ used = {}
    /\ handed = {}
    /\ late = {}

Become(g, p) == phase' = [phase EXCEPT ![g] = p]
Turn(g, a) == account' = [account EXCEPT ![g] = a]

\* The record is written before anything else exists.
Record(g) ==
    /\ phase[g] = "none"
    /\ Become(g, "issuing")
    /\ UNCHANGED <<account, lapsed, used, handed, late>>

\* The account comes into being only while the record says issuing.
Open(g) ==
    /\ phase[g] = "issuing" /\ account[g] = "absent" /\ g \notin late
    /\ Turn(g, "open")
    /\ UNCHANGED <<phase, lapsed, used, handed, late>>

\* A request that was given up may be executed after all, once, but not for a
\* grant that came into use.
OpenLate(g) ==
    /\ phase[g] \in {"issuing", "ending", "ended"} /\ g \notin late \cup used
    /\ late' = late \cup {g}
    /\ Turn(g, "open") \/ UNCHANGED account
    /\ UNCHANGED <<phase, lapsed, used, handed>>

\* No grant comes into use whose requests may still be executed.
Activate(g) ==
    /\ phase[g] = "issuing" /\ g \notin late
    /\ account[g] = "open" \/ g \in lapsed
    /\ Become(g, "active")
    /\ used' = used \cup {g}
    /\ UNCHANGED <<account, lapsed, handed, late>>

\* The password of a grant that came into use is told once. A revoke may have
\* ended the grant in the meantime: the password is then of no account.
HandOver(g) ==
    /\ g \in used \ handed
    /\ handed' = handed \cup {g}
    /\ UNCHANGED <<phase, account, lapsed, used, late>>

Lapse(g) ==
    /\ g \notin lapsed
    /\ lapsed' = lapsed \cup {g}
    /\ UNCHANGED <<phase, account, used, handed, late>>

\* Nobody is locked out of an active grant before its time is over.
LockOut(g) ==
    /\ account[g] = "open" /\ g \in Locking
    /\ phase[g] \in {"issuing", "active", "ending"}
    /\ phase[g] = "active" => g \in lapsed
    /\ Turn(g, "locked")
    /\ UNCHANGED <<phase, lapsed, used, handed, late>>

\* The account of an active grant is taken away only when its time is over, and
\* one that can be locked out is so before it is taken away early.
Close(g) ==
    /\ account[g] # "absent"
    /\ phase[g] = "active" => g \in lapsed
    /\ account[g] = "open" /\ g \in Locking => g \in lapsed \cup late
    /\ Turn(g, "absent")
    /\ UNCHANGED <<phase, lapsed, used, handed, late>>

\* A revoke, or a cleanup that did not succeed. A revoke that waited while
\* another cleanup ended the grant takes it up again.
StartEnding(g) ==
    /\ phase[g] \in {"issuing", "active", "ended"}
    /\ Become(g, "ending")
    /\ UNCHANGED <<account, lapsed, used, handed, late>>

\* The record calls a grant ended only when the account is gone (or was late to
\* come), and one that was active and not revoked only when its time is over.
Finish(g) ==
    /\ phase[g] \in {"issuing", "active", "ending"}
    /\ phase[g] = "active" => g \in lapsed
    /\ account[g] = "absent" \/ g \in late
    /\ Become(g, "ended")
    /\ UNCHANGED <<account, lapsed, used, handed, late>>

Step(g) ==
    \/ Record(g) \/ Open(g) \/ OpenLate(g) \/ Activate(g) \/ HandOver(g) \/ Lapse(g)
    \/ LockOut(g) \/ Close(g) \/ StartEnding(g) \/ Finish(g)

Next == \E g \in Grants : Step(g)

Spec == Init /\ [][Next]_vars

\* What can be seen at any moment: the account of an active grant works until
\* its time is over, an ended grant has none (unless it was late to come), one
\* that came into use is on record and has none that comes late, a password is
\* told of such a grant only, and nothing exists without a record.
Consistent ==
    \A g \in Grants :
        /\ phase[g] = "active" /\ g \notin lapsed => account[g] = "open"
        /\ phase[g] = "ended" => account[g] = "absent" \/ g \in late
        /\ g \in late => phase[g] # "none" /\ g \notin used
        /\ phase[g] = "active" => g \in used
        /\ g \in used => phase[g] \in {"active", "ending", "ended"}
        /\ g \in handed => g \in used
        /\ phase[g] = "none" => account[g] = "absent"

\* The promise for a grant that is observed from some moment on.
Resumed == Consistent /\ [][Next]_vars
=============================================================================
