-------------------------------- MODULE Setup --------------------------------
(***************************************************************************)
(* The bootstrap of src/middleware/app/setup.py: it initializes Vault,     *)
(* provisions it with the root token, hands the AppRole identity to the    *)
(* middleware and revokes the root token. A run may fail or be killed      *)
(* after any step; the operator starts it again.                           *)
(***************************************************************************)
EXTENDS Naturals

CONSTANTS Dbs,       \* the databases Vault is connected to
          None,      \* no database
          MaxFaults  \* bound: failures, kills and disturbances

ASSUME SetupAssumption ==
    /\ None \notin Dbs
    /\ MaxFaults \in Nat

\* Root tokens in the order they are made; 0 is no token. The first is Vault's
\* initial one, the others are generated by the operator.
NoRoot == 0
RootTokens == 1 .. MaxFaults + 1

Budgets == 0 .. MaxFaults

VARIABLES
    vault,     \* "new", "sealed" or "open"
    roots,     \* root tokens Vault accepts
    made,      \* what is provisioned: "audit", "engines", "introspect", "policies"
    conns,     \* connections written to Vault
    foreign,   \* connections with another account or username template
    probes,    \* connections whose probe role exists
    excess,    \* databases: manager accounts with more privileges than allowed
    issued,    \* how many root tokens were ever made
    keyRoot,   \* KEYS_FILE: its root_token
    keyUnseal, \* KEYS_FILE: does it hold the unseal keys?
    rootFile,  \* the token in SECRETS/root-token
    secret,    \* the delivered secret_id: "none", "bad" or "good"
    roleId,    \* is role_id delivered?
    pc,        \* the next step of the run, "off" when none runs
    keep,      \* --keep-root
    root,      \* the run's root token
    db,        \* the connection the run is at
    verified,  \* connections the run has verified
    outcome,   \* how the last run ended
    tampered,  \* history: have the delivered files been disturbed?
    faults     \* faults that may still happen

server == <<vault, roots, made, conns, foreign, probes, issued>>
disk   == <<keyRoot, keyUnseal, rootFile, secret, roleId>>
run    == <<pc, keep, root, db, verified, outcome>>
vars   == <<server, excess, disk, run, tampered, faults>>

Parts == {"audit", "engines", "introspect", "policies"}
VaultPcs == {"audit", "engines", "connect", "probe_role", "probe", "probe_end", "introspect",
             "policies", "secret", "role_id", "self_check", "accessor", "revoke"}
Pcs == VaultPcs \cup {"off", "init", "save_keys", "unseal", "root", "recheck", "forget", "unlink"}
Outcomes == {"none", "failed", "no_root", "already", "kept", "revoked"}

\* Types of the state; the steps that need a root token have one.
TypeOK ==
    /\ vault \in {"new", "sealed", "open"}
    /\ roots \subseteq RootTokens
    /\ made \subseteq Parts
    /\ conns \subseteq Dbs /\ foreign \subseteq conns
    /\ probes \subseteq Dbs /\ excess \subseteq Dbs
    /\ issued \in RootTokens \cup {NoRoot}
    /\ keyRoot \in RootTokens \cup {NoRoot}
    /\ keyUnseal \in BOOLEAN
    /\ rootFile \in RootTokens \cup {NoRoot}
    /\ secret \in {"none", "bad", "good"}
    /\ roleId \in BOOLEAN
    /\ pc \in Pcs
    /\ keep \in BOOLEAN
    /\ root \in RootTokens \cup {NoRoot}
    /\ pc \in VaultPcs => root # NoRoot
    /\ db \in Dbs \cup {None}
    /\ verified \subseteq Dbs
    /\ outcome \in Outcomes
    /\ tampered \in BOOLEAN
    /\ faults \in Budgets

\* A new Vault; the files of an earlier one may still be there.
Init ==
    /\ vault = "new" /\ roots = {} /\ made = {} /\ conns = {} /\ foreign = {}
    /\ probes = {} /\ issued = 0 /\ excess = {}
    /\ keyRoot = NoRoot /\ keyUnseal = FALSE /\ rootFile = NoRoot
    /\ secret \in {"none", "bad"} /\ roleId = (secret = "bad")
    /\ pc = "off" /\ keep = FALSE /\ root = NoRoot /\ db = None /\ verified = {}
    /\ outcome = "none"
    /\ tampered = FALSE
    /\ faults = MaxFaults

\* The middleware can log in with the delivered files.
Works == roleId /\ secret = "good"

Fault == faults > 0 /\ faults' = faults - 1

\* The run goes on at label l.
Goto(l) ==
    /\ pc' = l
    /\ UNCHANGED <<keep, root, db, verified, outcome>>

\* The run ends.
Exit(o) ==
    /\ pc' = "off" /\ keep' = FALSE /\ root' = NoRoot /\ db' = None /\ verified' = {}
    /\ outcome' = o
-----------------------------------------------------------------------------
StartSetup(k) ==
    /\ pc = "off"
    /\ pc' = "init" /\ keep' = k /\ outcome' = "none"
    /\ UNCHANGED <<server, excess, disk, root, db, verified, tampered, faults>>

(* init_and_unseal *)

Initialize ==
    /\ pc = "init"
    /\ IF vault = "new"
       THEN /\ vault' = "sealed"
            /\ issued' = 1
            /\ roots' = {1}
            /\ Goto("save_keys")
       ELSE Goto("unseal") /\ UNCHANGED <<vault, issued, roots>>
    /\ UNCHANGED <<made, conns, foreign, probes, excess, disk, tampered, faults>>

SaveKeys ==
    /\ pc = "save_keys"
    /\ keyUnseal' = TRUE
    /\ keyRoot' = 1
    /\ Goto("unseal")
    /\ UNCHANGED <<server, excess, rootFile, secret, roleId, tampered, faults>>

Unseal ==
    /\ pc = "unseal"
    /\ IF vault = "sealed" /\ ~keyUnseal
       THEN Exit("failed") /\ vault' = vault
       ELSE vault' = "open" /\ Goto("root")
    /\ UNCHANGED <<roots, made, conns, foreign, probes, issued, excess, disk, tampered, faults>>

FirstRoot ==
    IF keyRoot \in roots THEN keyRoot ELSE IF rootFile \in roots THEN rootFile ELSE NoRoot

\* Faulty: provisioning begins without a root token.
ChooseNoRoot ==
    /\ pc = "root"
    /\ root' = FirstRoot
    /\ pc' = "audit"
    /\ UNCHANGED <<server, excess, disk, keep, db, verified, outcome, tampered, faults>>

\* root_client: the first stored token that Vault accepts. One whose check
\* raises is passed over.
ChooseRoot ==
    /\ pc = "root"
    /\ \E r \in ({keyRoot, rootFile} \cap roots) \cup {NoRoot} :
          /\ vault = "sealed" => r = NoRoot
          /\ \/ vault = "sealed" /\ UNCHANGED faults
             \/ r = FirstRoot /\ UNCHANGED faults
             \/ r # FirstRoot /\ Fault
          /\ root' = r
          /\ pc' = IF r = NoRoot THEN "recheck" ELSE "audit"
    /\ UNCHANGED <<server, excess, disk, keep, db, verified, outcome, tampered>>

\* check_connection_config: the connection is there, with our account and our
\* username template.
CheckConnection(d) == d \in conns \ foreign

\* Without a root token: either the AppRole works, and the connections are the
\* ones setup writes (recheck_without_root), or the operator is asked to
\* generate one. A login that raises is taken for one that is refused.
Recheck ==
    /\ pc = "recheck"
    /\ \/ /\ Exit(IF ~Works \/ vault # "open" THEN "no_root"
                  ELSE IF \A d \in Dbs : CheckConnection(d) THEN "already" ELSE "failed")
          /\ UNCHANGED faults
       \/ Exit("no_root") /\ Fault
    /\ UNCHANGED <<server, excess, disk, tampered>>
-----------------------------------------------------------------------------
(* Provisioning                                                            *)

\* The step after each part.
After == [audit |-> "engines", engines |-> "connect",
          introspect |-> "policies", policies |-> "secret"]

\* ensure_audit, ensure_engines, the passwords of the introspection accounts
\* that ensure_connections writes when the connections are there, and
\* ensure_policies_and_roles.
Ensure ==
    /\ pc \in Parts /\ vault = "open"
    /\ made' = made \cup {pc}
    /\ Goto(After[pc])
    /\ UNCHANGED <<vault, roots, conns, foreign, probes, issued, excess, disk, tampered, faults>>

\* Faulty: a connection that exists is taken for one that was verified.
ConnectOnce ==
    /\ pc = "connect" /\ vault = "open"
    /\ IF verified = Dbs
       THEN Goto("introspect") /\ conns' = conns
       ELSE \E d \in Dbs \ verified :
               IF d \in conns
               THEN /\ verified' = verified \cup {d} /\ conns' = conns
                    /\ UNCHANGED <<pc, keep, root, db, outcome>>
               ELSE /\ conns' = conns \cup {d}
                    /\ db' = d
                    /\ pc' = "probe_role"
                    /\ UNCHANGED <<keep, root, verified, outcome>>
    /\ UNCHANGED <<vault, roots, made, foreign, probes, issued, excess, disk, tampered, faults>>

\* ensure_connection, for one database after the other (in any order); one that
\* exists is only validated, and refused when it is not ours. The passwords that
\* ensure_connections writes after them are a part of Ensure.
Connect ==
    /\ pc = "connect" /\ vault = "open"
    /\ IF verified = Dbs
       THEN Goto("introspect") /\ conns' = conns
       ELSE \E d \in Dbs \ verified :
               IF d \in conns /\ ~CheckConnection(d)
               THEN Exit("failed") /\ conns' = conns
               ELSE /\ conns' = conns \cup {d}
                    /\ db' = d
                    /\ pc' = "probe_role"
                    /\ UNCHANGED <<keep, root, verified, outcome>>
    /\ UNCHANGED <<vault, roots, made, foreign, probes, issued, excess, disk, tampered, faults>>

\* validate_connection: a role whose creation statements are the check ...
ProbeRole ==
    /\ pc = "probe_role" /\ vault = "open"
    /\ probes' = probes \cup {db}
    /\ Goto("probe")
    /\ UNCHANGED <<vault, roots, made, conns, foreign, issued, excess, disk, tampered, faults>>

\* ... is read, which fails when the account may do too much ...
Probe ==
    /\ pc = "probe" /\ vault = "open"
    /\ verified' = IF db \in excess THEN verified ELSE verified \cup {db}
    /\ pc' = "probe_end"
    /\ UNCHANGED <<server, excess, disk, keep, root, db, outcome, tampered, faults>>

\* Faulty: the role is not deleted.
ProbeEndLeaving ==
    /\ pc = "probe_end" /\ vault = "open"
    /\ IF db \in verified
       THEN pc' = "connect" /\ db' = None /\ UNCHANGED <<keep, root, verified, outcome>>
       ELSE Exit("failed")
    /\ UNCHANGED <<server, excess, disk, tampered, faults>>

\* ... and is deleted in any case.
ProbeEnd ==
    /\ pc = "probe_end" /\ vault = "open"
    /\ probes' = probes \ {db}
    /\ IF db \in verified
       THEN pc' = "connect" /\ db' = None /\ UNCHANGED <<keep, root, verified, outcome>>
       ELSE Exit("failed")
    /\ UNCHANGED <<vault, roots, made, conns, foreign, issued, excess, disk, tampered, faults>>

\* Faulty: a secret_id that is there is kept.
DeliverSecretOnce ==
    /\ pc = "secret" /\ vault = "open"
    /\ secret' = IF secret = "none" THEN "good" ELSE secret
    /\ Goto("role_id")
    /\ UNCHANGED <<server, excess, keyRoot, keyUnseal, rootFile, roleId, tampered, faults>>

\* deliver_approle: a secret_id that works is kept, any other replaced.
DeliverSecret ==
    /\ pc = "secret" /\ vault = "open"
    /\ secret' = "good"
    /\ Goto("role_id")
    /\ UNCHANGED <<server, excess, keyRoot, keyUnseal, rootFile, roleId, tampered, faults>>

DeliverRoleId ==
    /\ pc = "role_id" /\ vault = "open"
    /\ roleId' = TRUE
    /\ Goto("self_check")
    /\ UNCHANGED <<server, excess, keyRoot, keyUnseal, rootFile, secret, tampered, faults>>

\* self_check: a login with the delivered files; --keep-root ends the run here.
SelfCheck ==
    /\ pc = "self_check" /\ vault = "open"
    /\ IF ~Works THEN Exit("failed")
       ELSE IF keep THEN Exit("kept") ELSE Goto("accessor")
    /\ UNCHANGED <<server, excess, disk, tampered, faults>>
-----------------------------------------------------------------------------
(* revoke_root                                                             *)

\* The accessor is noted in KEYS_FILE.
NoteAccessor ==
    /\ pc = "accessor" /\ vault = "open"
    /\ Goto("revoke")
    /\ UNCHANGED <<server, excess, disk, tampered, faults>>

RevokeRoot ==
    /\ pc = "revoke" /\ vault = "open"
    /\ roots' = roots \ {root}
    /\ Goto("forget")
    /\ UNCHANGED <<vault, made, conns, foreign, probes, issued, excess, disk, tampered, faults>>

ForgetRoot ==
    /\ pc = "forget"
    /\ keyRoot' = NoRoot
    /\ Goto("unlink")
    /\ UNCHANGED <<server, excess, keyUnseal, rootFile, secret, roleId, tampered, faults>>

UnlinkRoot ==
    /\ pc = "unlink"
    /\ rootFile' = NoRoot
    /\ Exit("revoked")
    /\ UNCHANGED <<server, excess, keyRoot, keyUnseal, secret, roleId, tampered, faults>>
-----------------------------------------------------------------------------
\* A step raises, or the run is killed between two steps.
Fail ==
    /\ pc # "off"
    /\ \/ Fault
       \/ pc \in VaultPcs /\ vault = "sealed" /\ UNCHANGED faults
    /\ Exit("failed")
    /\ UNCHANGED <<server, excess, disk, tampered>>

\* Vault is restarted, which seals it.
VaultRestarts ==
    /\ vault = "open"
    /\ Fault
    /\ vault' = "sealed"
    /\ UNCHANGED <<roots, made, conns, foreign, probes, issued, excess, disk, run, tampered>>

\* Somebody gives the manager account a privilege too many, or takes it back.
GainPrivilege(d) ==
    /\ d \notin excess
    /\ Fault
    /\ excess' = excess \cup {d}
    /\ UNCHANGED <<server, disk, run, tampered>>

LosePrivilege(d) ==
    /\ d \in excess
    /\ excess' = excess \ {d}
    /\ UNCHANGED <<server, disk, run, tampered, faults>>

\* The delivered files are lost, or the secret_id is destroyed in Vault.
LoseIdentity ==
    /\ Fault
    /\ \/ secret' \in {"none", "bad"} /\ roleId' = roleId
       \/ roleId' = FALSE /\ secret' = secret
    /\ tampered' = TRUE
    /\ UNCHANGED <<server, excess, keyRoot, keyUnseal, rootFile, run>>

\* Between the runs somebody with a root token writes a connection of another
\* kind, or deletes it as the run has asked for.
WriteForeign(d) ==
    /\ pc = "off" /\ roots # {} /\ vault = "open" /\ "engines" \in made
    /\ d \notin foreign
    /\ Fault
    /\ conns' = conns \cup {d}
    /\ foreign' = foreign \cup {d}
    /\ UNCHANGED <<vault, roots, made, probes, issued, excess, disk, run, tampered>>

DeleteForeign(d) ==
    /\ pc = "off" /\ roots # {} /\ vault = "open"
    /\ d \in foreign
    /\ conns' = conns \ {d}
    /\ foreign' = foreign \ {d}
    /\ UNCHANGED <<vault, roots, made, probes, issued, excess, disk, run, tampered, faults>>

\* The operator does what the run asked for: a new root token in root-token.
GenerateRoot ==
    /\ outcome = "no_root" /\ vault = "open"
    /\ issued <= MaxFaults
    /\ issued' = issued + 1
    /\ roots' = roots \cup {issued'}
    /\ rootFile' = issued'
    /\ outcome' = "none"
    /\ UNCHANGED <<vault, made, conns, foreign, probes, excess, keyRoot, keyUnseal, secret, roleId>>
    /\ UNCHANGED <<pc, keep, root, db, verified, tampered, faults>>

Step ==
    \/ Initialize \/ SaveKeys \/ Unseal \/ ChooseRoot \/ Recheck \/ Ensure \/ Connect
    \/ ProbeRole \/ Probe \/ ProbeEnd \/ DeliverSecret \/ DeliverRoleId \/ SelfCheck
    \/ NoteAccessor \/ RevokeRoot \/ ForgetRoot \/ UnlinkRoot \/ Fail

Start == \E k \in BOOLEAN : StartSetup(k)

Next ==
    \/ Start
    \/ Step
    \/ VaultRestarts \/ LoseIdentity \/ GenerateRoot
    \/ \E d \in Dbs : GainPrivilege(d) \/ LosePrivilege(d) \/ WriteForeign(d) \/ DeleteForeign(d)

Spec == Init /\ [][Next]_vars

\* The operator runs setup again and again, does what it asks for, deletes the
\* connections and takes back the privileges it complains about; a run that has
\* begun goes on.
FairSpec ==
    /\ Spec
    /\ WF_vars(Step) /\ WF_vars(Start)
    /\ SF_vars(GenerateRoot)
    /\ \A d \in Dbs : WF_vars(LosePrivilege(d)) /\ SF_vars(DeleteForeign(d))
-----------------------------------------------------------------------------
\* Once Vault accepts no root token any more, everything a root token is needed
\* for is there, no connection is left that is not of setup's making, and the
\* middleware can log in, over any sequence of failed, killed and repeated runs,
\* unless its files were disturbed.
IdentityOutlivesRoot ==
    vault # "new" /\ roots = {} =>
        made = Parts /\ conns = Dbs /\ foreign = {} /\ (tampered \/ Works)

\* A probe role that a failed run has left is gone before the root token goes.
ProbesGoBeforeRoot == vault # "new" /\ roots = {} => probes = {}

\* Setup is idempotent: whatever failed, running it again leads to a middleware
\* that can log in. Only unseal keys that were lost before they were written
\* cannot be had again.
KeysLost == vault # "new" /\ ~keyUnseal /\ pc # "save_keys"
SetupConverges == <>[](Works \/ KeysLost)

\* "root token revoked and removed from disk".
NoRootIsLeft == outcome = "revoked" => roots = {}
=============================================================================
