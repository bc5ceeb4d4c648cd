-------------------------- MODULE StatementsProofs --------------------------
(* What Statements promises of the rights of an account, for any catalog,  *)
(* requests and number of changes of the schema.                           *)
EXTENDS Statements, TLAPS

\* Nothing is left of an earlier request.
Fresh ==
    /\ pc \notin {"create", "issued", "failed"} => todo = {} /\ rights = {}
    /\ pc \in {"idle", "tables", "sequences"} => owned = {}
    /\ pc = "create" /\ req.db = "postgres" => rights = {}
    /\ pc = "issued" => todo = {}

\* What the catalog says is missing in it only if it was changed since.
CatalogIsTrue ==
    /\ Pairs \subseteq was
    /\ owned \subseteq was \cap (known \X Plain)
    /\ pc \in {"sequences", "build", "create", "issued"} =>
          (tables \cap Plain) \ changed \subseteq known
    /\ pc \in {"build", "create", "issued"} /\ req.db = "postgres" =>
          \A p \in Pairs : p[1] \in known /\ p[2] \in Plain \ changed => p \in owned

\* The rights there are and those still to come: all asked for, none missing
\* but those whose object was changed.
Wanted ==
    /\ \A r \in todo \cup rights :
          Asked(r) /\ (r.on \in Tables => r.on \in Chosen(req))
    /\ pc \in {"create", "issued"} =>
          /\ Chosen(req) \subseteq known
          /\ \A t \in Chosen(req) \ changed, c \in req.commands :
                [on |-> t, may |-> c] \in todo \cup rights
          /\ \A s \in SequencesOf(req) \ changed :
                [on |-> s, may |-> "USAGE"] \in todo \cup rights

StInv == Fresh /\ CatalogIsTrue /\ Wanted

\* The commands and the names in the statements have the types of a right.
LEMMA RightsTyped ==
    ASSUME TypeOK, req # None
    PROVE  /\ Chosen(req) \subseteq Tables
           /\ SequencesOf(req) \subseteq Sequences
           /\ req.commands \subseteq Commands
           /\ req.db \in {"postgres", "clickhouse"}
           /\ req.tables \subseteq Tables
BY StatementsAssumption DEF TypeOK, Request, Chosen, SequencesOf

\* The pairs are pairs of a table and a sequence, now and in the next state.
LEMMA PairsTyped == tables \subseteq Tables => Pairs \subseteq Tables \X Sequences
BY DEF Pairs

LEMMA InitType == Init => TypeOK
<1> SUFFICES ASSUME Init PROVE TypeOK
  OBVIOUS
<1>1. tables \subseteq Tables /\ was \subseteq Tables \X Sequences
  BY PairsTyped DEF Init
<1>2. ddl \in 0 .. MaxDdl
  BY StatementsAssumption DEF Init
<1>3. /\ owner \in [Sequences -> Tables \cup {Free, Gone}]
      /\ \A s \in Sequences : owner[s] \in Tables => owner[s] \in tables
  BY <1>1, StatementsAssumption DEF Init
<1>4. known \subseteq Tables \cap Plain /\ owned \subseteq Tables \X Sequences
  BY DEF Init
<1>5. todo \subseteq Right /\ rights \subseteq Right /\ changed \subseteq Tables \cup Sequences
  BY DEF Init
<1> QED
  BY <1>1, <1>2, <1>3, <1>4, <1>5 DEF Init, TypeOK

\* Every step keeps the types.
LEMMA StepType == TypeOK /\ [Next]_vars => TypeOK'
<1> SUFFICES ASSUME TypeOK, [Next]_vars PROVE TypeOK'
  OBVIOUS
<1> USE StatementsAssumption DEF TypeOK
<1>0. tables' \subseteq Tables => Pairs' \subseteq Tables \X Sequences
  BY DEF Pairs
<1>1. ASSUME NEW t \in Tables, CreateTable(t) PROVE TypeOK'
  BY <1>0, <1>1 DEF CreateTable, Alter, catalog
<1>2. ASSUME NEW t \in Tables, DropTable(t) PROVE TypeOK'
  BY <1>2 DEF DropTable, Alter, catalog, Pairs
<1>3. ASSUME NEW s \in Sequences, NEW t \in tables \cup {Free, Gone}, GiveSequence(s, t)
      PROVE  TypeOK'
  BY <1>3 DEF GiveSequence, Alter, catalog, Pairs
<1>4. ASSUME NEW r \in Requests, Ask(r) PROVE TypeOK'
  BY <1>4 DEF Ask, catalog, Pairs
<1>5. CASE ReadTables
  BY <1>5 DEF ReadTables, schema
<1>6. CASE ReadSequences
  BY <1>6 DEF ReadSequences, schema, Pairs
<1>7. CASE Build
  <2>1. req # None
    BY <1>7 DEF Build
  <2>2. todo' \subseteq Right
    <3>1. CASE Refused(req)
      BY <1>7, <3>1 DEF Build
    <3>2. CASE ~Refused(req)
      <4>1. todo' = [on : Chosen(req), may : req.commands]
                      \cup [on : SequencesOf(req), may : {"USAGE"}]
        BY <1>7, <3>2 DEF Build
      <4>2. /\ Chosen(req) \subseteq Tables /\ SequencesOf(req) \subseteq Sequences
            /\ req.commands \subseteq Commands
        BY <2>1, RightsTyped
      <4>3. [on : Chosen(req), may : req.commands] \subseteq Right
        BY <4>2 DEF Right
      <4>4. [on : SequencesOf(req), may : {"USAGE"}] \subseteq Right
        <5>1. {"USAGE"} \subseteq Commands
          BY DEF Commands
        <5> QED
          BY <4>2, <5>1 DEF Right
      <4> QED
        BY <4>1, <4>3, <4>4
    <3> QED
      BY <3>1, <3>2
  <2> QED
    BY <1>7, <2>2 DEF Build, schema, catalog
<1>8. CASE Fail
  BY <1>8 DEF Fail, schema, catalog
<1>9. CASE CreateRole
  BY <1>9 DEF CreateRole, schema, catalog
<1>10. CASE CreateUser
  BY <1>10 DEF CreateUser, schema, catalog
<1>11. ASSUME NEW t \in Tables, GrantOn(t) PROVE TypeOK'
  BY <1>11 DEF GrantOn, schema, catalog
<1>12. CASE CredentialsRead
  BY <1>12 DEF CredentialsRead, schema, catalog
<1>13. CASE End
  <2>1. /\ tables' = tables /\ owner' = owner /\ was' \subseteq Tables \X Sequences
        /\ known' = {} /\ owned' = {} /\ todo' = {} /\ rights' = {} /\ changed' = {}
        /\ pc' = "idle" /\ req' = None /\ account' = FALSE
    BY <1>13, PairsTyped DEF End
  <2>2. ddl' \in 0 .. MaxDdl
    BY <1>13 DEF End
  <2> QED
    BY <2>1, <2>2
<1>14. CASE UNCHANGED vars
  BY <1>14 DEF vars, schema, catalog
<1> QED
  BY <1>1, <1>2, <1>3, <1>4, <1>5, <1>6, <1>7, <1>8, <1>9, <1>10, <1>11, <1>12, <1>13, <1>14
     DEF Next

\* Types of the state, for any catalog and requests.
THEOREM Typing == Spec => []TypeOK
<1>1. Init => TypeOK
  BY InitType
<1>2. TypeOK /\ [Next]_vars => TypeOK'
  BY StepType
<1> QED
  BY <1>1, <1>2, PTL DEF Spec

LEMMA InitInv == Init => StInv
BY DEF Init, StInv, Fresh, CatalogIsTrue, Wanted, Pairs

\* Nothing of an earlier request is left after any step.
LEMMA StepFresh == TypeOK /\ Fresh /\ [Next]_vars => Fresh'
<1> SUFFICES ASSUME TypeOK, Fresh, [Next]_vars PROVE Fresh'
  OBVIOUS
<1> USE DEF Fresh
<1>1. ASSUME NEW t \in Tables, CreateTable(t) PROVE Fresh'
  BY <1>1 DEF CreateTable, Alter, catalog
<1>2. ASSUME NEW t \in Tables, DropTable(t) PROVE Fresh'
  BY <1>2 DEF DropTable, Alter, catalog
<1>3. ASSUME NEW s \in Sequences, NEW t \in tables \cup {Free, Gone}, GiveSequence(s, t)
      PROVE  Fresh'
  BY <1>3 DEF GiveSequence, Alter, catalog
<1>4. ASSUME NEW r \in Requests, Ask(r) PROVE Fresh'
  BY <1>4 DEF Ask, catalog
<1>5. CASE ReadTables
  BY <1>5 DEF ReadTables, schema
<1>6. CASE ReadSequences
  BY <1>6 DEF ReadSequences, schema
<1>7. CASE Build
  BY <1>7 DEF Build, schema, catalog
<1>8. CASE Fail
  BY <1>8 DEF Fail, schema, catalog
<1>9. CASE CreateRole
  BY <1>9 DEF CreateRole, schema, catalog
<1>10. CASE CreateUser
  BY <1>10 DEF CreateUser, schema, catalog
<1>11. ASSUME NEW t \in Tables, GrantOn(t) PROVE Fresh'
  BY <1>11 DEF GrantOn, schema, catalog, TypeOK
<1>12. CASE CredentialsRead
  BY <1>12 DEF CredentialsRead, schema, catalog
<1>13. CASE End
  BY <1>13 DEF End
<1>14. CASE UNCHANGED vars
  BY <1>14 DEF vars, schema, catalog
<1> QED
  BY <1>1, <1>2, <1>3, <1>4, <1>5, <1>6, <1>7, <1>8, <1>9, <1>10, <1>11, <1>12, <1>13, <1>14
     DEF Next

\* What a change of the schema leaves of catalog and rights: a pair there is afterwards was
\* there before, or is of a changed sequence.
LEMMA OtherPairs ==
    ASSUME TypeOK,
           \/ \E t \in Tables : CreateTable(t) \/ DropTable(t)
           \/ \E s \in Sequences, t \in tables \cup {Free, Gone} : GiveSequence(s, t)
    PROVE  /\ changed \subseteq changed' /\ was' = was \cup Pairs'
           /\ UNCHANGED <<pc, req, catalog, todo, account>>
           /\ (tables' \cap Plain) \ changed' \subseteq (tables \cap Plain) \ changed
           /\ \A p \in Pairs' : p[2] \notin changed' => p \in Pairs
           /\ rights' \subseteq rights
           /\ \A r \in rights : r.on \notin changed' => r \in rights'
<1> USE StatementsAssumption DEF TypeOK, Pairs
<1>1. ASSUME NEW t \in Tables, CreateTable(t)
      PROVE  /\ changed' = changed \cup {t}
             /\ was' = was \cup Pairs' /\ UNCHANGED <<pc, req, catalog, todo, account>>
             /\ tables' = tables \cup {t} /\ owner' = owner /\ rights' = rights
  BY <1>1 DEF CreateTable, Alter
<1>2. ASSUME NEW t \in Tables, CreateTable(t), NEW p \in Pairs', p[2] \notin changed'
      PROVE  p \in Pairs
  <2>1. p \in (tables \cup {t}) \X Sequences /\ owner[p[2]] = p[1]
    BY <1>1, <1>2
  <2>2. t \notin tables
    BY <1>2 DEF CreateTable
  <2>3. p[1] # t
    BY <2>1, <2>2
  <2> QED
    BY <2>1, <2>3
<1>3. ASSUME NEW t \in Tables, DropTable(t)
      PROVE  /\ changed' = changed \cup {t} \cup {s \in Sequences : owner[s] = t}
             /\ was' = was \cup Pairs' /\ UNCHANGED <<pc, req, catalog, todo, account>>
             /\ tables' = tables \ {t}
             /\ owner' = [s \in Sequences |-> IF owner[s] = t THEN Gone ELSE owner[s]]
             /\ rights' \subseteq rights
             /\ \A r \in rights : r.on \notin changed' => r \in rights'
  BY <1>3 DEF DropTable, Alter
<1>4. ASSUME NEW t \in Tables, DropTable(t), NEW p \in Pairs', p[2] \notin changed'
      PROVE  p \in Pairs
  BY <1>3, <1>4
<1>5. ASSUME NEW s \in Sequences, NEW t \in tables \cup {Free, Gone}, GiveSequence(s, t)
      PROVE  /\ changed' = changed \cup {s}
             /\ was' = was \cup Pairs' /\ UNCHANGED <<pc, req, catalog, todo, account>>
             /\ tables' = tables /\ rights' = rights
             /\ owner' = [owner EXCEPT ![s] = t]
  BY <1>5 DEF GiveSequence, Alter
<1>6. ASSUME NEW s \in Sequences, NEW t \in tables \cup {Free, Gone}, GiveSequence(s, t),
             NEW p \in Pairs', p[2] \notin changed'
      PROVE  p \in Pairs
  BY <1>5, <1>6
<1> HIDE DEF TypeOK, Pairs
<1>7. CASE \E t \in Tables : CreateTable(t)
  BY <1>7, <1>1, <1>2
<1>8. CASE \E t \in Tables : DropTable(t)
  BY <1>8, <1>3, <1>4
<1>9. CASE \E s \in Sequences, t \in tables \cup {Free, Gone} : GiveSequence(s, t)
  BY <1>9, <1>5, <1>6
<1> QED
  BY <1>7, <1>8, <1>9

Others ==
    \/ \E t \in Tables : CreateTable(t) \/ DropTable(t)
    \/ \E s \in Sequences, t \in tables \cup {Free, Gone} : GiveSequence(s, t)

\* The catalog stays true after any step.
LEMMA StepCatalog == TypeOK /\ StInv /\ [Next]_vars => CatalogIsTrue'
<1> SUFFICES ASSUME TypeOK, Fresh, CatalogIsTrue, [Next]_vars PROVE CatalogIsTrue'
  BY DEF StInv
<1> USE DEF CatalogIsTrue
<1>1. CASE Others
  <2>1. /\ changed \subseteq changed' /\ was' = was \cup Pairs'
        /\ UNCHANGED <<pc, req, known, owned>>
        /\ (tables' \cap Plain) \ changed' \subseteq (tables \cap Plain) \ changed
        /\ \A p \in Pairs' : p[2] \notin changed' => p \in Pairs
    BY <1>1, OtherPairs DEF Others, catalog
  <2> QED
    BY <2>1
<1>2. ASSUME NEW r \in Requests, Ask(r) PROVE CatalogIsTrue'
  BY <1>2 DEF Ask, catalog, Fresh, Pairs
<1>3. CASE ReadTables
  BY <1>3 DEF ReadTables, schema, Fresh, Pairs
<1>4. CASE ReadSequences
  BY <1>4 DEF ReadSequences, schema, Fresh, Pairs
<1>5. ASSUME UNCHANGED <<schema, catalog>>,
             (pc' = pc /\ req' = req) \/ pc' = "failed" \/ pc = "build" \/ pc = "create",
             pc \in {"build", "create"} => req' = req
      PROVE  CatalogIsTrue'
  BY <1>5 DEF schema, catalog, Pairs
<1>6. CASE Build
  BY <1>5, <1>6 DEF Build
<1>7. CASE Fail
  BY <1>5, <1>7 DEF Fail
<1>8. CASE CreateRole
  BY <1>5, <1>8 DEF CreateRole
<1>9. CASE CreateUser
  BY <1>5, <1>9 DEF CreateUser
<1>10. ASSUME NEW t \in Tables, GrantOn(t) PROVE CatalogIsTrue'
  BY <1>5, <1>10 DEF GrantOn
<1>11. CASE CredentialsRead
  BY <1>5, <1>11 DEF CredentialsRead
<1>12. CASE End
  BY <1>12 DEF End, Pairs
<1>13. CASE UNCHANGED vars
  BY <1>5, <1>13 DEF vars
<1> QED
  BY <1>1, <1>2, <1>3, <1>4, <1>6, <1>7, <1>8, <1>9, <1>10, <1>11, <1>12, <1>13
     DEF Next, Others

\* The rights stay the wanted ones after any step.
LEMMA StepWanted == TypeOK /\ StInv /\ [Next]_vars => Wanted'
<1> SUFFICES ASSUME TypeOK, Fresh, CatalogIsTrue, Wanted, [Next]_vars PROVE Wanted'
  BY DEF StInv
<1>1. CASE Others
  <2>1. /\ changed \subseteq changed' /\ was \subseteq was'
        /\ UNCHANGED <<pc, req, known, owned, todo>>
        /\ rights' \subseteq rights
        /\ \A r \in rights : r.on \notin changed' => r \in rights'
    BY <1>1, OtherPairs DEF Others, catalog
  <2>2. Chosen(req)' = Chosen(req) /\ SequencesOf(req)' = SequencesOf(req)
    BY <2>1 DEF Chosen, SequencesOf
  <2>3. \A r \in todo' \cup rights' : Asked(r)' /\ (r.on \in Tables => r.on \in Chosen(req)')
    BY <2>1, <2>2 DEF Wanted, Asked
  <2>4. ASSUME pc \in {"create", "issued"}
        PROVE  /\ \A t \in Chosen(req) \ changed', c \in req.commands :
                     [on |-> t, may |-> c] \in todo' \cup rights'
               /\ \A s \in SequencesOf(req) \ changed' :
                     [on |-> s, may |-> "USAGE"] \in todo' \cup rights'
    BY <2>1, <2>4 DEF Wanted
  <2> QED
    BY <2>1, <2>2, <2>3, <2>4 DEF Wanted
<1>2. ASSUME todo' = {}, rights' = {}, pc' \notin {"create", "issued"} PROVE Wanted'
  BY <1>2 DEF Wanted
<1>3. ASSUME NEW r \in Requests, Ask(r) PROVE Wanted'
  BY <1>2, <1>3 DEF Ask, Fresh
<1>4. CASE ReadTables
  BY <1>2, <1>4 DEF ReadTables, Fresh
<1>5. CASE ReadSequences
  BY <1>2, <1>5 DEF ReadSequences, Fresh
<1>6. CASE Build
  <2>1. CASE Refused(req)
    BY <1>2, <1>6, <2>1 DEF Build, Fresh
  <2>2. CASE ~Refused(req)
    <3>1. /\ todo' = [on : Chosen(req), may : req.commands]
                       \cup [on : SequencesOf(req), may : {"USAGE"}]
          /\ pc' = "create" /\ rights' = {}
          /\ UNCHANGED <<req, known, owned, was, changed>>
      BY <1>6, <2>2 DEF Build, Fresh, schema, catalog
    <3>2. Chosen(req)' = Chosen(req) /\ SequencesOf(req)' = SequencesOf(req)
      BY <3>1 DEF Chosen, SequencesOf
    <3>3. /\ Chosen(req) \subseteq Tables /\ SequencesOf(req) \subseteq Sequences
          /\ Chosen(req) \subseteq known
          /\ req.scope = "tables" => Chosen(req) = req.tables
      BY <1>6, <2>2, RightsTyped DEF Build, TypeOK, Refused, Chosen
    <3>4. ASSUME NEW r \in [on : Chosen(req), may : req.commands]
          PROVE  Asked(r)' /\ (r.on \in Tables => r.on \in Chosen(req)')
      BY <3>1, <3>2, <3>3 DEF Asked
    <3>5. ASSUME NEW r \in [on : SequencesOf(req), may : {"USAGE"}]
          PROVE  Asked(r)' /\ (r.on \in Tables => r.on \in Chosen(req)')
      <4>1. PICK q \in owned : q[1] \in Chosen(req) /\ q[2] = r.on /\ "INSERT" \in req.commands
        BY DEF SequencesOf
      <4>2. q \in was /\ r.on \in Sequences /\ r.may = "USAGE" /\ r.on \notin Tables
        BY <3>3, StatementsAssumption DEF CatalogIsTrue
      <4> QED
        BY <3>1, <3>3, <4>1, <4>2 DEF Asked
    <3>6. /\ \A t \in Chosen(req), c \in req.commands : [on |-> t, may |-> c] \in todo'
          /\ \A s \in SequencesOf(req) : [on |-> s, may |-> "USAGE"] \in todo'
      BY <3>1
    <3> QED
      BY <3>1, <3>2, <3>3, <3>4, <3>5, <3>6 DEF Wanted
  <2> QED
    BY <2>1, <2>2
<1>7. ASSUME UNCHANGED <<req, known, owned, was, changed>>,
             todo' \cup rights' = todo \cup rights,
             pc' \in {"create", "issued"} => pc \in {"create", "issued"}
      PROVE  Wanted'
  <2>1. Chosen(req)' = Chosen(req) /\ SequencesOf(req)' = SequencesOf(req)
    BY <1>7 DEF Chosen, SequencesOf
  <2>2. \A r \in todo' \cup rights' : Asked(r)' /\ (r.on \in Tables => r.on \in Chosen(req)')
    BY <1>7, <2>1 DEF Wanted, Asked
  <2> QED
    BY <1>7, <2>1, <2>2 DEF Wanted
<1>8. CASE Fail
  BY <1>7, <1>8 DEF Fail, schema, catalog
<1>9. CASE CreateRole
  BY <1>7, <1>9 DEF CreateRole, Fresh, schema, catalog
<1>10. CASE CreateUser
  BY <1>7, <1>10 DEF CreateUser, schema, catalog
<1>11. ASSUME NEW t \in Tables, GrantOn(t) PROVE Wanted'
  BY <1>7, <1>11 DEF GrantOn, schema, catalog
<1>12. CASE CredentialsRead
  BY <1>7, <1>12 DEF CredentialsRead, schema, catalog
<1>13. CASE End
  BY <1>2, <1>13 DEF End
<1>14. CASE UNCHANGED vars
  BY <1>7, <1>14 DEF vars, schema, catalog
<1> QED
  BY <1>1, <1>3, <1>4, <1>5, <1>6, <1>8, <1>9, <1>10, <1>11, <1>12, <1>13, <1>14
     DEF Next, Others

\* The invariant holds always.
LEMMA Invariance == Spec => [](TypeOK /\ StInv)
<1>1. Init => TypeOK /\ StInv
  BY InitType, InitInv
<1>2. TypeOK /\ StInv /\ [Next]_vars => (TypeOK /\ StInv)'
  BY StepType, StepFresh, StepCatalog, StepWanted DEF StInv
<1> QED
  BY <1>1, <1>2, PTL DEF Spec

\* An account never has a right that was not asked for, whatever others do to
\* the tables between the reads of the catalog and the statements.
THEOREM Scope == Spec => []OnlyWhatWasAsked
<1>1. StInv => OnlyWhatWasAsked
  BY DEF StInv, Wanted, OnlyWhatWasAsked
<1> QED
  BY <1>1, Invariance, PTL

\* Credentials are handed out only for all of the tables and commands.
THEOREM Completeness == Spec => []IssuedIsComplete
<1>1. ASSUME TypeOK, StInv, pc = "issued",
             NEW t \in (IF req.scope = "tables" THEN req.tables ELSE tables \cap Plain) \ changed
      PROVE  [on : {t}, may : req.commands] \subseteq rights
  <2>1. t \in Chosen(req) \ changed /\ todo = {}
    <3>1. CASE req.scope = "tables"
      BY <1>1, <3>1 DEF Chosen, StInv, Fresh
    <3>2. CASE req.scope # "tables"
      <4>1. req.scope = "database"
        BY <1>1, <3>2, StatementsAssumption DEF TypeOK, Request
      <4> QED
        BY <1>1, <4>1 DEF Chosen, StInv, Fresh, CatalogIsTrue
    <3> QED
      BY <3>1, <3>2
  <2>2. \A c \in req.commands : [on |-> t, may |-> c] \in rights
    BY <1>1, <2>1 DEF StInv, Wanted
  <2> QED
    BY <2>2
<1>2. TypeOK /\ StInv => IssuedIsComplete
  BY <1>1 DEF IssuedIsComplete
<1> QED
  BY <1>2, Invariance, PTL

\* An INSERT finds the unchanged sequences of its table usable.
THEOREM Usability == Spec => []InsertsWork
<1>1. ASSUME TypeOK, StInv, pc = "issued", req.db = "postgres", NEW p \in Pairs,
             [on |-> p[1], may |-> "INSERT"] \in rights, p[2] \in Plain \ changed
      PROVE  [on |-> p[2], may |-> "USAGE"] \in rights
  <2>1. p[1] \in Tables /\ p[1] \notin Sequences
    BY <1>1, StatementsAssumption DEF TypeOK, Pairs
  <2>2. p[1] \in Chosen(req) /\ "INSERT" \in req.commands /\ p[1] \in known
    BY <1>1, <2>1 DEF StInv, Wanted, Asked
  <2>3. p \in owned
    BY <1>1, <2>2 DEF StInv, CatalogIsTrue
  <2>4. p[2] \in SequencesOf(req) \ changed
    BY <1>1, <2>2, <2>3 DEF SequencesOf
  <2> QED
    BY <1>1, <2>4 DEF StInv, Wanted, Fresh
<1>2. TypeOK /\ StInv => InsertsWork
  BY <1>1 DEF InsertsWork
<1> QED
  BY <1>2, Invariance, PTL
=============================================================================
