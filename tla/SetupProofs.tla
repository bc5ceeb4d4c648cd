---------------------------- MODULE SetupProofs -----------------------------
(***************************************************************************)
(* Proofs about Setup, for any databases and number of faults.             *)
(***************************************************************************)
EXTENDS Setup, TLAPS

AfterAudit == {"engines", "connect", "probe_role", "probe", "probe_end"} \cup
              {"introspect", "policies", "secret", "role_id", "self_check", "accessor", "revoke"}
AfterEngines == AfterAudit \ {"engines"}
AfterConnect == {"introspect", "policies", "secret", "role_id", "self_check", "accessor", "revoke"}
AfterIntrospect == AfterConnect \ {"introspect"}
AfterPolicies == AfterIntrospect \ {"policies"}
AfterCheck == {"accessor", "revoke"}

\* What the run has reached at each label: its root token is alive, what it
\* has passed is provisioned, and the connections it has verified are there,
\* with no probe role left but the one it is at.
Progress ==
    /\ pc \in VaultPcs => root \in roots
    /\ pc \in AfterAudit => "audit" \in made
    /\ pc \in AfterEngines => "engines" \in made
    /\ pc \in AfterIntrospect => "introspect" \in made
    /\ pc \in AfterPolicies => "policies" \in made
    /\ verified \subseteq conns
    /\ foreign \cap verified = {}
    /\ pc \in {"probe_role", "probe", "probe_end"} => db \in conns \ foreign
    /\ verified \cap probes \subseteq IF pc = "probe_end" THEN {db} ELSE {}
    /\ pc \in {"probe_role", "probe"} => db \notin verified
    /\ pc \in AfterConnect => verified = Dbs
    /\ pc \in AfterCheck => tampered \/ Works

\* The inductive invariant.
SetupInv ==
    /\ made \subseteq Parts /\ conns \subseteq Dbs /\ foreign \subseteq conns /\ probes \subseteq Dbs
    /\ pc = "off" => verified = {}
    /\ Progress
    /\ vault = "new" => roots = {} /\ pc \in {"off", "init"}
    /\ IdentityOutlivesRoot
    /\ ProbesGoBeforeRoot

\* The initial states satisfy the invariant ...
LEMMA InitSetup == Init => SetupInv
BY DEF Init, SetupInv, Progress, IdentityOutlivesRoot, ProbesGoBeforeRoot, VaultPcs,
       AfterAudit, AfterEngines, AfterConnect, AfterIntrospect, AfterPolicies, AfterCheck

\* ... and every step preserves it.
LEMMA StepSetup == SetupInv /\ [Next]_vars => SetupInv'
<1> SUFFICES ASSUME SetupInv, [Next]_vars
             PROVE  SetupInv'
  OBVIOUS
<1> USE DEF SetupInv, Progress, IdentityOutlivesRoot, ProbesGoBeforeRoot, Works,
        VaultPcs, Parts, server, disk, run, Fault, Goto, Exit,
        AfterAudit, AfterEngines, AfterConnect, AfterIntrospect, AfterPolicies, AfterCheck
<1>1. CASE Start
  BY <1>1 DEF Start, StartSetup
<1>2. CASE Step
  <2>1. CASE Initialize
    BY <2>1 DEF Initialize
  <2>2. CASE SaveKeys
    BY <2>2 DEF SaveKeys
  <2>3. CASE Unseal
    BY <2>3 DEF Unseal
  <2>4. CASE ChooseRoot
    BY <2>4 DEF ChooseRoot, FirstRoot
  <2>5. CASE Recheck
    BY <2>5 DEF Recheck, CheckConnection
  <2>6. CASE Ensure
    BY <2>6 DEF Ensure, After
  <2>7. CASE Connect
    <3>1. CASE verified = Dbs
      BY <2>7, <3>1 DEF Connect
    <3>2. CASE verified # Dbs /\ pc' = "off"
      BY <2>7, <3>2 DEF Connect
    <3>3. CASE verified # Dbs /\ pc' # "off"
      <4>1. PICK d \in Dbs \ verified :
               /\ d \notin foreign
               /\ conns' = conns \cup {d} /\ db' = d /\ pc' = "probe_role"
               /\ UNCHANGED <<keep, root, verified, outcome>>
        BY <2>7, <3>3 DEF Connect, CheckConnection
      <4> QED
        BY <2>7, <4>1 DEF Connect
    <3> QED
      BY <3>1, <3>2, <3>3
  <2>8. CASE ProbeRole
    BY <2>8 DEF ProbeRole
  <2>9. CASE Probe
    BY <2>9 DEF Probe
  <2>10. CASE ProbeEnd
    BY <2>10 DEF ProbeEnd
  <2>11. CASE DeliverSecret
    BY <2>11 DEF DeliverSecret
  <2>12. CASE DeliverRoleId
    BY <2>12 DEF DeliverRoleId
  <2>13. CASE SelfCheck
    BY <2>13 DEF SelfCheck
  <2>14. CASE NoteAccessor
    BY <2>14 DEF NoteAccessor
  <2>15. CASE RevokeRoot
    BY <2>15 DEF RevokeRoot
  <2>16. CASE ForgetRoot
    BY <2>16 DEF ForgetRoot
  <2>17. CASE UnlinkRoot
    BY <2>17 DEF UnlinkRoot
  <2>18. CASE Fail
    BY <2>18 DEF Fail
  <2> QED
    BY <1>2, <2>1, <2>2, <2>3, <2>4, <2>5, <2>6, <2>7, <2>8, <2>9, <2>10, <2>11, <2>12,
       <2>13, <2>14, <2>15, <2>16, <2>17, <2>18 DEF Step
<1>3. CASE VaultRestarts
  BY <1>3 DEF VaultRestarts
<1>4. CASE LoseIdentity
  BY <1>4 DEF LoseIdentity
<1>5. CASE GenerateRoot
  BY <1>5 DEF GenerateRoot
<1>6. CASE \E d \in Dbs : GainPrivilege(d) \/ LosePrivilege(d)
  <2>1. UNCHANGED <<server, disk, run, tampered>>
    BY <1>6 DEF GainPrivilege, LosePrivilege
  <2> QED
    BY <2>1
<1>8. CASE \E d \in Dbs : WriteForeign(d) \/ DeleteForeign(d)
  BY <1>8 DEF WriteForeign, DeleteForeign
<1>7. CASE UNCHANGED vars
  BY <1>7 DEF vars
<1> QED
  BY <1>1, <1>2, <1>3, <1>4, <1>5, <1>6, <1>7, <1>8 DEF Next

\* However often setup fails, is killed and is run again: when Vault accepts no
\* root token any more, everything a root token is needed for is there, the
\* middleware can log in unless its files were disturbed, and no probe role
\* is left.
THEOREM RootGoesLast == Spec => [](IdentityOutlivesRoot /\ ProbesGoBeforeRoot)
<1>1. SetupInv => IdentityOutlivesRoot /\ ProbesGoBeforeRoot
  BY DEF SetupInv
<1> QED
  BY <1>1, InitSetup, StepSetup, PTL DEF Spec

\* Types of the state are preserved. The type invariant in two parts: the
\* control of the run, and the data.
TypeOfRun ==
    /\ pc \in Pcs /\ keep \in BOOLEAN /\ outcome \in Outcomes
    /\ root \in RootTokens \cup {NoRoot}
    /\ pc \in VaultPcs => root # NoRoot
    /\ db \in Dbs \cup {None} /\ verified \subseteq Dbs

TypeOfData ==
    /\ vault \in {"new", "sealed", "open"}
    /\ roots \subseteq RootTokens /\ made \subseteq Parts
    /\ conns \subseteq Dbs /\ foreign \subseteq conns
    /\ probes \subseteq Dbs /\ excess \subseteq Dbs
    /\ issued \in RootTokens \cup {NoRoot}
    /\ keyRoot \in RootTokens \cup {NoRoot} /\ keyUnseal \in BOOLEAN
    /\ rootFile \in RootTokens \cup {NoRoot}
    /\ secret \in {"none", "bad", "good"} /\ roleId \in BOOLEAN
    /\ tampered \in BOOLEAN /\ faults \in Budgets

LEMMA TypesOfExit == \A o \in Outcomes : Exit(o) => TypeOfRun'
BY DEF Exit, TypeOfRun, Pcs, VaultPcs

LEMMA TypesOfGoto ==
    ASSUME TypeOfRun, NEW l \in Pcs, l \in VaultPcs => root # NoRoot, Goto(l)
    PROVE  TypeOfRun'
BY DEF Goto, TypeOfRun

\* A step that the run takes leaves its control well typed ...
LEMMA TypesOfStep == TypeOfRun /\ TypeOfData /\ SetupInv /\ Step => TypeOfRun'
<1> SUFFICES ASSUME TypeOfRun, TypeOfData, SetupInv, Step
             PROVE  TypeOfRun'
  OBVIOUS
<1>1. Outcomes = {"none", "failed", "no_root", "already", "kept", "revoked"}
  BY DEF Outcomes
<1>2. CASE Initialize \/ SaveKeys
  BY <1>2, TypesOfGoto DEF Initialize, SaveKeys, Pcs, VaultPcs
<1>3. CASE Unseal
  BY <1>1, <1>3, TypesOfGoto, TypesOfExit DEF Unseal, Pcs, VaultPcs
<1>4. CASE ChooseRoot
  <2>1. PICK r \in ({keyRoot, rootFile} \cap roots) \cup {NoRoot} :
           root' = r /\ pc' = IF r = NoRoot THEN "recheck" ELSE "audit"
    BY <1>4 DEF ChooseRoot
  <2>2. r \in RootTokens \cup {NoRoot}
    BY <2>1 DEF TypeOfData
  <2> QED
    BY <1>4, <2>1, <2>2 DEF ChooseRoot, TypeOfRun, Pcs, VaultPcs
<1>5. CASE Recheck
  BY <1>1, <1>5, TypesOfExit DEF Recheck
<1>6. CASE Ensure
  BY <1>6, TypesOfGoto DEF Ensure, After, Parts, Pcs, VaultPcs, TypeOfRun
<1>7. CASE Connect
  <2>1. CASE verified = Dbs
    BY <1>7, <2>1, TypesOfGoto DEF Connect, Pcs, VaultPcs, TypeOfRun
  <2>2. ASSUME NEW d \in Dbs, db' = d, pc' = "probe_role", pc = "connect",
               UNCHANGED <<keep, root, verified, outcome>>
        PROVE  TypeOfRun'
    BY <2>2 DEF TypeOfRun, Pcs, VaultPcs
  <2>3. CASE verified # Dbs
    BY <1>1, <1>7, <2>2, <2>3, TypesOfExit DEF Connect
  <2> QED
    BY <2>1, <2>3
<1>8. CASE ProbeRole
  BY <1>8, TypesOfGoto DEF ProbeRole, Pcs, VaultPcs, TypeOfRun
<1>9. CASE Probe
  <2>1. db \in Dbs
    BY <1>9 DEF Probe, SetupInv, Progress
  <2> QED
    BY <1>9, <2>1 DEF Probe, run, Pcs, VaultPcs, TypeOfRun
<1>10. CASE ProbeEnd
  <2>1. CASE db \in verified
    BY <1>10, <2>1 DEF ProbeEnd, Pcs, VaultPcs, TypeOfRun
  <2>2. CASE db \notin verified
    BY <1>1, <1>10, <2>2, TypesOfExit DEF ProbeEnd
  <2> QED
    BY <2>1, <2>2
<1>11. CASE DeliverSecret \/ DeliverRoleId
  BY <1>11, TypesOfGoto DEF DeliverSecret, DeliverRoleId, Pcs, VaultPcs, TypeOfRun
<1>12. CASE SelfCheck
  BY <1>1, <1>12, TypesOfGoto, TypesOfExit DEF SelfCheck, Pcs, VaultPcs, TypeOfRun
<1>13. CASE NoteAccessor \/ RevokeRoot \/ ForgetRoot \/ UnlinkRoot
  BY <1>1, <1>13, TypesOfGoto, TypesOfExit
     DEF NoteAccessor, RevokeRoot, ForgetRoot, UnlinkRoot, Pcs, VaultPcs, TypeOfRun
<1>14. CASE Fail
  BY <1>1, <1>14, TypesOfExit DEF Fail
<1> QED
  BY <1>2, <1>3, <1>4, <1>5, <1>6, <1>7, <1>8, <1>9, <1>10, <1>11, <1>12, <1>13, <1>14 DEF Step

\* ... and so does any other.
LEMMA TypesOfControl == TypeOfRun /\ TypeOfData /\ SetupInv /\ [Next]_vars => TypeOfRun'
<1> SUFFICES ASSUME TypeOfRun, TypeOfData, SetupInv, [Next]_vars
             PROVE  TypeOfRun'
  OBVIOUS
<1>1. CASE Start
  BY <1>1 DEF Start, StartSetup, TypeOfRun, Pcs, VaultPcs, Outcomes
<1>2. CASE Step
  BY <1>2, TypesOfStep
<1>3. CASE GenerateRoot
  BY <1>3 DEF GenerateRoot, TypeOfRun, Outcomes
<1>4. CASE UNCHANGED run
  BY <1>4 DEF run, TypeOfRun
<1> QED
  BY <1>1, <1>2, <1>3, <1>4 DEF Next, vars, VaultRestarts, LoseIdentity, GainPrivilege,
     LosePrivilege, WriteForeign, DeleteForeign

\* The data keep their types.
LEMMA TypesOfServer == TypeOfRun /\ TypeOfData /\ SetupInv /\ [Next]_vars => TypeOfData'
<1> SUFFICES ASSUME TypeOfRun, TypeOfData, SetupInv, [Next]_vars
             PROVE  TypeOfData'
  OBVIOUS
<1>0. Fault => faults' \in Budgets
  BY SetupAssumption DEF Fault, Budgets, TypeOfData
<1>1. 1 \in RootTokens
  BY SetupAssumption DEF RootTokens
<1> USE DEF TypeOfData, server, disk
<1>2. CASE Start
  BY <1>2 DEF Start, StartSetup
<1>3. CASE Step
  <2>1. CASE Initialize \/ SaveKeys
    BY <1>1, <2>1 DEF Initialize, SaveKeys
  <2>2. CASE Unseal
    BY <2>2 DEF Unseal
  <2>3. CASE ChooseRoot \/ Recheck
    BY <1>0, <2>3 DEF ChooseRoot, Recheck
  <2>4. CASE Ensure
    BY <2>4 DEF Ensure, After
  <2>5. CASE Connect
    BY <2>5 DEF Connect
  <2>6. CASE ProbeRole
    BY <2>6 DEF ProbeRole, SetupInv, Progress
  <2>7. CASE Probe \/ ProbeEnd
    BY <2>7 DEF Probe, ProbeEnd
  <2>8. CASE DeliverSecret \/ DeliverRoleId \/ SelfCheck
    BY <2>8 DEF DeliverSecret, DeliverRoleId, SelfCheck
  <2>9. CASE NoteAccessor \/ RevokeRoot
    BY <2>9 DEF NoteAccessor, RevokeRoot
  <2>10. CASE ForgetRoot \/ UnlinkRoot
    BY <2>10 DEF ForgetRoot, UnlinkRoot
  <2>11. CASE Fail
    BY <1>0, <2>11 DEF Fail
  <2> QED
    BY <1>3, <2>1, <2>2, <2>3, <2>4, <2>5, <2>6, <2>7, <2>8, <2>9, <2>10, <2>11 DEF Step
<1>4. CASE VaultRestarts \/ LoseIdentity
  BY <1>0, <1>4 DEF VaultRestarts, LoseIdentity
<1>5. CASE GenerateRoot
  <2>1. issued + 1 \in RootTokens
    BY <1>5, SetupAssumption DEF GenerateRoot, RootTokens, NoRoot
  <2> QED
    BY <1>5, <2>1 DEF GenerateRoot
<1>6. CASE \E d \in Dbs : GainPrivilege(d) \/ LosePrivilege(d)
  BY <1>0, <1>6 DEF GainPrivilege, LosePrivilege
<1>7. CASE \E d \in Dbs : WriteForeign(d) \/ DeleteForeign(d)
  BY <1>0, <1>7 DEF WriteForeign, DeleteForeign
<1>8. CASE UNCHANGED vars
  BY <1>8 DEF vars
<1> QED
  BY <1>2, <1>3, <1>4, <1>5, <1>6, <1>7, <1>8 DEF Next

\* Every variable keeps its type, for any databases and number of faults: a
\* step that needs a root token has one.
THEOREM Typing == Spec => []TypeOK
<1>1. TypeOfRun /\ TypeOfData => TypeOK
  BY DEF TypeOK, TypeOfRun, TypeOfData
<1>2. Init => TypeOfRun
  BY DEF Init, TypeOfRun, VaultPcs, Pcs, Outcomes
<1>3. Init => TypeOfData
  <2>1. Init => roleId \in BOOLEAN /\ keyUnseal \in BOOLEAN /\ tampered \in BOOLEAN
    BY DEF Init
  <2>2. Init => issued = NoRoot /\ faults \in Budgets
    BY SetupAssumption DEF Init, NoRoot, Budgets
  <2>3. Init => vault \in {"new", "sealed", "open"} /\ secret \in {"none", "bad", "good"}
    BY DEF Init
  <2>4. Init => /\ roots = {} /\ made = {} /\ conns = {} /\ foreign = {}
                /\ probes = {} /\ excess = {} /\ keyRoot = NoRoot /\ rootFile = NoRoot
    BY DEF Init
  <2> QED
    BY <2>1, <2>2, <2>3, <2>4 DEF TypeOfData
<1> QED
  BY <1>1, <1>2, <1>3, InitSetup, StepSetup, TypesOfControl, TypesOfServer, PTL DEF Spec
=============================================================================
