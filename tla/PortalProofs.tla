---------------------------- MODULE PortalProofs ----------------------------
(* What the semaphores and the checks of a request guarantee, for any      *)
(* requests, tasks, limits and size of the pool.                           *)
EXTENDS Portal, FiniteSetTheorems, TLAPS

Slots ==
    /\ free \in [Kinds -> Nat]
    /\ held \in [Tasks -> Kinds \cup {None}]
    /\ SlotsAreKept
Threads == pool \subseteq Tasks \cup Pages /\ Cardinality(pool) <= PoolSize

\* The requests inside of a semaphore's block are finitely many.
LEMMA HoldersFinite == \A k : IsFiniteSet({t \in Tasks : held[t] = k})
BY AdmissionAssumption, FS_Subset

\* A request that is inside of no block may enter one: the place it gets is
\* taken from the semaphore.
LEMMA AdmitKeeps ==
    ASSUME Slots, NEW t \in Tasks, NEW k \in Kinds, held[t] = None, Admit(t, k)
    PROVE  Slots'
<1> DEFINE H(j) == {u \in Tasks : held[u] = j}
<1>1. /\ free' = [free EXCEPT ![k] = @ - 1] /\ free[k] > 0
      /\ held' = [held EXCEPT ![t] = k]
  BY DEF Admit
<1>2. free' \in [Kinds -> Nat] /\ held' \in [Tasks -> Kinds \cup {None}]
  BY <1>1 DEF Slots
<1>3. \A j \in Kinds : IsFiniteSet(H(j)) /\ Cardinality(H(j)) \in Nat
  BY HoldersFinite, FS_CardinalityType
<1>4. ASSUME NEW j \in Kinds
      PROVE  free'[j] + Cardinality({u \in Tasks : held'[u] = j}) = Limit[j]
  <2>1. free[j] + Cardinality(H(j)) = Limit[j]
    BY DEF Slots, SlotsAreKept
  <2>2. CASE j = k
    <3>1. {u \in Tasks : held'[u] = j} = H(j) \cup {t} /\ t \notin H(j)
      BY <1>1, <2>2, AdmissionAssumption DEF Slots
    <3>2. Cardinality(H(j) \cup {t}) = Cardinality(H(j)) + 1
      BY <1>3, <3>1, FS_AddElement
    <3>3. free'[j] = free[j] - 1 /\ free[j] \in Nat
      BY <1>1, <2>2 DEF Slots
    <3>4. Cardinality({u \in Tasks : held'[u] = j}) = Cardinality(H(j)) + 1
      BY <3>1, <3>2
    <3>5. Cardinality(H(j)) \in Nat /\ Limit[j] \in Nat
      BY <1>3, AdmissionAssumption
    <3> HIDE DEF H
    <3> QED
      BY <2>1, <3>3, <3>4, <3>5
  <2>3. CASE j # k
    <3>1. {u \in Tasks : held'[u] = j} = H(j)
      BY <1>1, <2>3, AdmissionAssumption DEF Slots
    <3>2. free'[j] = free[j]
      BY <1>1, <2>3 DEF Slots
    <3> QED
      BY <2>1, <3>1, <3>2
  <2> QED
    BY <2>2, <2>3
<1> QED
  BY <1>2, <1>4 DEF Slots, SlotsAreKept

\* However a block is left, its place is given back, once.
LEMMA ReleaseKeeps ==
    ASSUME Slots, NEW t \in Tasks, NEW busy, Release(t, busy)
    PROVE  Slots' /\ held' = [held EXCEPT ![t] = None]
<1> DEFINE H(j) == {u \in Tasks : held[u] = j}
<1>1. /\ free' = [k \in Kinds |-> IF k = held[t] THEN free[k] + 1 ELSE free[k]]
      /\ held' = [held EXCEPT ![t] = None]
  BY DEF Release
<1>2. free' \in [Kinds -> Nat] /\ held' \in [Tasks -> Kinds \cup {None}]
  BY <1>1 DEF Slots
<1>3. \A j \in Kinds : IsFiniteSet(H(j)) /\ Cardinality(H(j)) \in Nat
  BY HoldersFinite, FS_CardinalityType
<1>4. ASSUME NEW j \in Kinds
      PROVE  free'[j] + Cardinality({u \in Tasks : held'[u] = j}) = Limit[j]
  <2>1. free[j] + Cardinality(H(j)) = Limit[j] /\ free[j] \in Nat
    BY DEF Slots, SlotsAreKept
  <2>2. CASE j = held[t]
    <3>1. {u \in Tasks : held'[u] = j} = H(j) \ {t} /\ t \in H(j)
      BY <1>1, <2>2, AdmissionAssumption DEF Slots
    <3>2. Cardinality(H(j) \ {t}) = Cardinality(H(j)) - 1
      BY <1>3, <3>1, FS_RemoveElement
    <3>3. free'[j] = free[j] + 1
      BY <1>1, <2>2
    <3>4. Cardinality({u \in Tasks : held'[u] = j}) = Cardinality(H(j)) - 1
      BY <3>1, <3>2
    <3>5. Cardinality(H(j)) \in Nat /\ Limit[j] \in Nat
      BY <1>3, AdmissionAssumption
    <3> HIDE DEF H
    <3> QED
      BY <2>1, <3>3, <3>4, <3>5
  <2>3. CASE j # held[t]
    <3>1. {u \in Tasks : held'[u] = j} = H(j)
      BY <1>1, <2>3, AdmissionAssumption DEF Slots
    <3>2. free'[j] = free[j]
      BY <1>1, <2>3
    <3> QED
      BY <2>1, <3>1, <3>2
  <2> QED
    BY <2>2, <2>3
<1> QED
  BY <1>1, <1>2, <1>4 DEF Slots, SlotsAreKept

\* The pool stays within its size.
LEMMA PoolKeeps ==
    ASSUME Threads, NEW t \in Tasks \cup Pages, EnterPool(t) \/ LeavePool(t)
    PROVE  Threads'
<1>1. IsFiniteSet(pool) /\ PoolSize \in Nat
  <2>1. IsFiniteSet(Tasks \cup Pages)
    BY AdmissionAssumption, FS_Union
  <2> QED
    BY <2>1, AdmissionAssumption, FS_Subset DEF Threads
<1>2. Cardinality(pool) \in Nat
  BY <1>1, FS_CardinalityType
<1>3. CASE EnterPool(t)
  <2>1. \/ Cardinality(pool \cup {t}) = Cardinality(pool)
        \/ Cardinality(pool \cup {t}) = Cardinality(pool) + 1
    BY <1>1, FS_AddElement
  <2>2. IsFiniteSet(pool \cup {t}) /\ Cardinality(pool \cup {t}) \in Nat
    BY <1>1, FS_AddElement, FS_CardinalityType
  <2> QED
    BY <1>1, <1>2, <1>3, <2>1, <2>2 DEF EnterPool, Threads
<1>4. CASE LeavePool(t)
  <2>1. Cardinality(pool \ {t}) <= Cardinality(pool) /\ Cardinality(pool \ {t}) \in Nat
    BY <1>1, FS_Subset, FS_CardinalityType
  <2> QED
    BY <1>1, <1>2, <1>4, <2>1 DEF LeavePool, Threads
<1> QED
  BY <1>3, <1>4
-----------------------------------------------------------------------------
\* The places of a request, by what has been done before them.
Outside == {"idle", "body", "session_wait", "session", "session_end", "checks",
            "op_wait", "op", "index_wait", "index_pg", "index_ch", "logout",
            "raised_wait", "raised"}
Early == {"body", "session_wait", "session", "recheck", "session_end", "checks",
          "op_wait", "op", "prepare", "lock_wait"}
Granted == {"op_wait", "op", "prepare", "lock_wait", "locked", "io", "create", "logout"}
Anonymous == {"idle", "body", "session_wait", "session", "raised_wait", "raised"}
Grants == {"issue", "issue_form", "revoke"}

\* What a request's place says about it.
Good(t) ==
    /\ pc[t] \in Outside => held[t] = None
    /\ pc[t] # "idle" => told[t] = "nothing" /\ req[t].body \notin {"both", "declared"}
    /\ pc[t] \in Early => ~began[t]
    /\ pc[t] = "io" /\ req[t].route = "login" => ~began[t]
    /\ pc[t] \in {"prepare", "lock_wait", "locked"} => req[t].route \in Grants
    /\ pc[t] \notin Anonymous => req[t].cookie \/ req[t].route = "login"
    /\ pc[t] \notin {"idle", "body"} /\ req[t].route = "issue" => req[t].body # "streamed"
    /\ pc[t] \in Granted => Verdict(req[t]) = "none"
    /\ pc[t] = "create" => req[t].route = "login"
    /\ began[t] /\ pc[t] # "idle" => Checked(req[t])
    /\ pc[t] \notin ReplyPcs => reply[t] = "none"
    /\ reply[t] \in Refused => ~began[t]
    /\ told[t] = "refused" => ~began[t]

Typed ==
    /\ pc \in [Tasks -> Pcs]
    /\ req \in [Tasks -> Requests \cup {None}]
    /\ \A t \in Tasks : pc[t] # "idle" => req[t] \in Requests
    /\ reply \in [Tasks -> Codes]
    /\ began \in [Tasks -> BOOLEAN]
    /\ told \in [Tasks -> {"nothing", "refused", "other"}]
    /\ lock \in [Dbs -> Tasks \cup {Reconciler, None}]

PortalInv == Slots /\ Threads /\ Typed /\ \A t \in Tasks : Good(t)

\* A step of one request leaves the others as they are.
Frame(t) ==
    \A u \in Tasks \ {t} :
        /\ pc'[u] = pc[u] /\ req'[u] = req[u] /\ reply'[u] = reply[u]
        /\ began'[u] = began[u] /\ told'[u] = told[u] /\ held'[u] = held[u]

LEMMA OthersGood ==
    ASSUME PortalInv, NEW t \in Tasks, Frame(t), Slots', Threads', Typed', Good(t)'
    PROVE  PortalInv'
<1>1. ASSUME NEW u \in Tasks, u # t PROVE Good(u)'
  BY <1>1 DEF PortalInv, Frame, Good, Verdict, Checked
<1> QED
  BY <1>1 DEF PortalInv

\* A request is answered.
LEMMA AnswerInv ==
    ASSUME PortalInv, NEW t \in Tasks, NEW code \in Codes, Answer(t, code),
           NEW b \in BOOLEAN, began' = [began EXCEPT ![t] = b], code \in Refused => ~b,
           lock' \in [Dbs -> Tasks \cup {Reconciler, None}]
    PROVE  PortalInv'
<1> USE DEF PortalInv
<1>1. /\ pc' = [pc EXCEPT ![t] = "idle"]
      /\ req' = [req EXCEPT ![t] = None]
      /\ reply' = [reply EXCEPT ![t] = "none"]
      /\ told' = [told EXCEPT ![t] = IF code \in Refused THEN "refused" ELSE "other"]
      /\ LeavePool(t) /\ Release(t, code = "busy")
  BY DEF Answer, Goto
<1>2. Slots' /\ held' = [held EXCEPT ![t] = None]
  BY <1>1, ReleaseKeeps
<1>3. Threads'
  BY <1>1, PoolKeeps
<1>4. Typed'
  BY <1>1 DEF Typed, Pcs, Codes
<1>5. Frame(t)
  BY <1>1, <1>2 DEF Frame, Typed, Slots
<1>6. Good(t)'
  BY <1>1, <1>2 DEF Good, Typed, Slots, Refused, Early, Granted, Anonymous
<1> QED
  BY <1>2, <1>3, <1>4, <1>5, <1>6, OthersGood

\* A handler is left, and its reply waits for a thread.
LEMMA LeaveInv ==
    ASSUME PortalInv, NEW t \in Tasks, NEW code \in Codes,
           NEW l \in {"index_wait", "raised_wait"}, Leave(t, l, code),
           pc[t] # "idle", l = "index_wait" => pc[t] \notin Anonymous,
           pc[t] = "body" => req[t].body # "streamed",
           NEW b \in BOOLEAN, began' = [began EXCEPT ![t] = b], code \in Refused => ~b,
           b => Checked(req[t]),
           lock' \in [Dbs -> Tasks \cup {Reconciler, None}]
    PROVE  PortalInv'
<1> USE DEF PortalInv
<1>1. /\ pc' = [pc EXCEPT ![t] = l] /\ reply' = [reply EXCEPT ![t] = code]
      /\ LeavePool(t) /\ Release(t, code = "busy")
      /\ UNCHANGED <<req, told>>
  BY DEF Leave, Goto
<1>2. Slots' /\ held' = [held EXCEPT ![t] = None]
  BY <1>1, ReleaseKeeps
<1>3. Threads'
  BY <1>1, PoolKeeps
<1>4. Typed'
  BY <1>1 DEF Typed, Pcs, WaitPcs
<1>5. Frame(t)
  BY <1>1, <1>2 DEF Frame, Typed, Slots
<1>6. /\ pc'[t] = l /\ reply'[t] = code /\ req'[t] = req[t] /\ told'[t] = told[t]
      /\ began'[t] = b /\ held'[t] = None
  BY <1>1, <1>2 DEF Typed, Slots
<1>7. /\ told[t] = "nothing" /\ req[t].body \notin {"both", "declared"}
      /\ l = "index_wait" => req[t].cookie \/ req[t].route = "login"
      /\ req[t].route = "issue" => req[t].body # "streamed"
  BY DEF Good
<1>8. Good(t)'
  BY <1>6, <1>7 DEF Good, IndexPcs, ReplyPcs, Early, Granted, Anonymous
<1> QED
  BY <1>2, <1>3, <1>4, <1>5, <1>8, OthersGood

\* An exception is answered by a handler of the portal.
LEMMA RaiseInv ==
    ASSUME PortalInv, NEW t \in Tasks, NEW code \in Codes, Raise(t, code),
           pc[t] # "idle", pc[t] = "body" => req[t].body # "streamed",
           UNCHANGED began, code \in Refused => ~began[t],
           lock' \in [Dbs -> Tasks \cup {Reconciler, None}]
    PROVE  PortalInv'
<1>1. began' = [began EXCEPT ![t] = began[t]] /\ began[t] \in BOOLEAN
  BY DEF PortalInv, Typed
<1>2. began[t] => Checked(req[t])
  BY DEF PortalInv, Good
<1>3. Leave(t, "raised_wait", code)
  BY DEF Raise
<1> QED
  BY <1>1, <1>2, <1>3, LeaveInv

LEMMA RaiseKeeps ==
    ASSUME PortalInv, NEW t \in Tasks, NEW code \in Codes, Raise(t, code),
           pc[t] # "idle", pc[t] = "body" => req[t].body # "streamed",
           UNCHANGED <<began, lock>>, code \in Refused => ~began[t]
    PROVE  PortalInv'
<1>1. lock' \in [Dbs -> Tasks \cup {Reconciler, None}]
  BY DEF PortalInv, Typed
<1> QED
  BY <1>1, RaiseInv

\* An operation ends, perhaps with the index page still to be shown.
LEMMA OutcomeInv ==
    ASSUME PortalInv, NEW t \in Tasks, NEW code \in Codes, Outcome(t, code),
           pc[t] \notin Anonymous,
           NEW b \in BOOLEAN, began' = [began EXCEPT ![t] = b], code \in Refused => ~b,
           b => Checked(req[t]),
           lock' \in [Dbs -> Tasks \cup {Reconciler, None}]
    PROVE  PortalInv'
<1>1. CASE Answer(t, code)
  BY <1>1, AnswerInv
<1>2. CASE Leave(t, "index_wait", code)
  BY <1>2, LeaveInv DEF Anonymous
<1> QED
  BY <1>1, <1>2 DEF Outcome

\* A request goes on.
LEMMA MoveInv ==
    ASSUME PortalInv, NEW t \in Tasks, NEW l \in Pcs \ {"idle"}, Move(t, l), pc[t] # "idle",
           NEW b \in BOOLEAN, began' = [began EXCEPT ![t] = b],
           NEW h \in Kinds \cup {None}, held' = [held EXCEPT ![t] = h],
           Slots', Threads', lock' \in [Dbs -> Tasks \cup {Reconciler, None}],
           /\ l \in Outside => h = None
           /\ l \in Early => ~b
           /\ l = "io" /\ req[t].route = "login" => ~b
           /\ l \in {"prepare", "lock_wait", "locked"} => req[t].route \in Grants
           /\ l \notin Anonymous => req[t].cookie \/ req[t].route = "login"
           /\ l \notin {"idle", "body"} /\ req[t].route = "issue" => req[t].body # "streamed"
           /\ l \in Granted => Verdict(req[t]) = "none"
           /\ l = "create" => req[t].route = "login"
           /\ b => Checked(req[t])
           /\ l \notin ReplyPcs => pc[t] \notin ReplyPcs
           /\ b = began[t] \/ pc[t] \notin ReplyPcs
    PROVE  PortalInv'
<1> USE DEF PortalInv
<1>1. /\ pc' = [pc EXCEPT ![t] = l] /\ UNCHANGED <<req, reply, told>>
  BY DEF Move, Goto
<1>2. Typed'
  BY <1>1 DEF Typed
<1>3. Frame(t)
  BY <1>1 DEF Frame, Typed, Slots
<1>4. /\ pc'[t] = l /\ req'[t] = req[t] /\ reply'[t] = reply[t] /\ told'[t] = told[t]
      /\ began'[t] = b /\ held'[t] = h
  BY <1>1 DEF Typed, Slots
<1>5. /\ told[t] = "nothing" /\ req[t].body \notin {"both", "declared"}
      /\ pc[t] \notin ReplyPcs => reply[t] = "none"
      /\ reply[t] \in Refused => ~began[t]
  BY DEF Good
<1>6. reply[t] \in Refused => ~b
  BY <1>5 DEF Refused
<1>7. l # "idle" => Good(t)'
  BY <1>4, <1>5, <1>6 DEF Good
<1> QED
  BY <1>2, <1>3, <1>7, OthersGood

\* A reply to a request whose handler is not told to begin anything.
LEMMA AnswerKeeps ==
    ASSUME PortalInv, NEW t \in Tasks, NEW code \in Codes, Answer(t, code),
           UNCHANGED <<began, lock>>, code \in Refused => ~began[t]
    PROVE  PortalInv'
<1>1. began' = [began EXCEPT ![t] = began[t]] /\ began[t] \in BOOLEAN
  BY DEF PortalInv, Typed
<1>2. lock' \in [Dbs -> Tasks \cup {Reconciler, None}]
  BY DEF PortalInv, Typed
<1> QED
  BY <1>1, <1>2, AnswerInv

\* The outcome of an operation that is not told to begin anything more.
LEMMA OutcomeKeeps ==
    ASSUME PortalInv, NEW t \in Tasks, NEW code \in Codes, Outcome(t, code),
           pc[t] \notin Anonymous,
           UNCHANGED <<began, lock>>, code \in Refused => ~began[t]
    PROVE  PortalInv'
<1>1. began' = [began EXCEPT ![t] = began[t]] /\ began[t] \in BOOLEAN
  BY DEF PortalInv, Typed
<1>2. lock' \in [Dbs -> Tasks \cup {Reconciler, None}]
  BY DEF PortalInv, Typed
<1>3. began[t] => Checked(req[t])
  BY DEF PortalInv, Good, Anonymous
<1> QED
  BY <1>1, <1>2, <1>3, OutcomeInv

\* What a request has to have shown before it is at a place.
Allowed(t, l) ==
    /\ l \in Early => ~began[t]
    /\ l = "io" /\ req[t].route = "login" => ~began[t]
    /\ l \in {"prepare", "lock_wait", "locked"} => req[t].route \in Grants
    /\ l \notin Anonymous => req[t].cookie \/ req[t].route = "login"
    /\ l \notin {"idle", "body"} /\ req[t].route = "issue" => req[t].body # "streamed"
    /\ l \in Granted => Verdict(req[t]) = "none"
    /\ l = "create" => req[t].route = "login"
    /\ l \notin ReplyPcs => pc[t] \notin ReplyPcs

LEMMA MoveKeeps ==
    ASSUME PortalInv, NEW t \in Tasks, NEW l \in Pcs \ {"idle"}, Move(t, l), pc[t] # "idle",
           UNCHANGED <<began, lock>>, Allowed(t, l),
           NEW h \in Kinds \cup {None}, held' = [held EXCEPT ![t] = h],
           Slots', Threads', l \in Outside => h = None
    PROVE  PortalInv'
<1>1. began' = [began EXCEPT ![t] = began[t]] /\ began[t] \in BOOLEAN
  BY DEF PortalInv, Typed
<1>2. lock' \in [Dbs -> Tasks \cup {Reconciler, None}]
  BY DEF PortalInv, Typed
<1>3. began[t] => Checked(req[t])
  BY DEF PortalInv, Good
<1> QED
  BY <1>1, <1>2, <1>3, MoveInv DEF Allowed

\* It neither enters nor leaves anything.
LEMMA StayKeeps ==
    ASSUME PortalInv, NEW t \in Tasks, NEW l \in Pcs \ {"idle"}, Move(t, l), pc[t] # "idle",
           UNCHANGED <<began, lock>>, Allowed(t, l), UNCHANGED slots,
           \/ UNCHANGED pool \/ EnterPool(t) \/ LeavePool(t),
           l \in Outside => pc[t] \in Outside
    PROVE  PortalInv'
<1>1. held' = [held EXCEPT ![t] = held[t]] /\ held[t] \in Kinds \cup {None}
  BY DEF PortalInv, Slots, slots
<1>2. Slots'
  BY DEF PortalInv, Slots, SlotsAreKept, slots
<1>3. Threads'
  BY PoolKeeps DEF PortalInv, Threads
<1>4. l \in Outside => held[t] = None
  BY DEF PortalInv, Good
<1> QED
  BY <1>1, <1>2, <1>3, <1>4, MoveKeeps

\* It enters a block that it was outside of.
LEMMA EnterKeeps ==
    ASSUME PortalInv, NEW t \in Tasks, NEW l \in Pcs \ Outside, Move(t, l), pc[t] # "idle",
           UNCHANGED <<began, lock, pool>>, Allowed(t, l), NEW k \in Kinds, Admit(t, k),
           pc[t] \in Outside
    PROVE  PortalInv'
<1>1. held[t] = None
  BY DEF PortalInv, Good
<1>2. held' = [held EXCEPT ![t] = k]
  BY DEF Admit
<1>3. Slots'
  BY <1>1, AdmitKeeps DEF PortalInv
<1>4. Threads'
  BY DEF PortalInv, Threads
<1> QED
  BY <1>2, <1>3, <1>4, MoveKeeps DEF Outside

\* It leaves a block.
LEMMA LeaveKeeps ==
    ASSUME PortalInv, NEW t \in Tasks, NEW l \in Pcs \ {"idle"}, Move(t, l), pc[t] # "idle",
           UNCHANGED <<began, lock>>, Allowed(t, l), Release(t, FALSE),
           UNCHANGED pool \/ LeavePool(t)
    PROVE  PortalInv'
<1>1. Slots' /\ held' = [held EXCEPT ![t] = None]
  BY ReleaseKeeps DEF PortalInv
<1>2. Threads'
  BY PoolKeeps DEF PortalInv, Threads
<1> QED
  BY <1>1, <1>2, MoveKeeps
-----------------------------------------------------------------------------
(* One lemma per group of actions.                                         *)

\* A request arrives.
LEMMA GuardInv ==
    ASSUME PortalInv, NEW t \in Tasks, NEW r \in Requests, Guard(t, r)
    PROVE  PortalInv'
<1>1. began' = [began EXCEPT ![t] = FALSE] /\ UNCHANGED lock /\ pc[t] = "idle"
  BY DEF Guard
<1>2. lock' \in [Dbs -> Tasks \cup {Reconciler, None}]
  BY <1>1 DEF PortalInv, Typed
<1>3. CASE Answer(t, "400") \/ Answer(t, "413")
  BY <1>1, <1>2, <1>3, AnswerInv DEF Codes
<1>4. CASE /\ r.body \notin {"both", "declared"}
           /\ req' = [req EXCEPT ![t] = r]
           /\ Goto(t, First(r.route))
           /\ told' = [told EXCEPT ![t] = "nothing"]
           /\ UNCHANGED <<free, held, pool, reply>>
  <2>1. First(r.route) \in {"checks", "body", "session_wait"}
    BY DEF First
  <2>2. /\ First(r.route) = "checks" => r.route = "login"
        /\ r.route = "issue" => First(r.route) = "body"
    BY DEF First
  <2> HIDE DEF First
  <2>3. Slots' /\ Threads'
    BY <1>4 DEF PortalInv, Slots, SlotsAreKept, Threads
  <2>4. Typed'
    BY <1>1, <1>2, <1>4, <2>1 DEF PortalInv, Typed, Goto, Pcs, WaitPcs
  <2>5. Frame(t)
    BY <1>1, <1>4 DEF PortalInv, Frame, Typed, Goto
  <2>6. /\ pc'[t] = First(r.route) /\ req'[t] = r /\ told'[t] = "nothing"
        /\ ~began'[t] /\ held'[t] = None /\ reply'[t] = "none"
    BY <1>1, <1>4 DEF PortalInv, Typed, Goto, Good, Outside, IndexPcs, ReplyPcs
  <2>7. Good(t)'
    BY <1>4, <2>1, <2>2, <2>6 DEF Good, Granted, Anonymous, IndexPcs, ReplyPcs, Refused
  <2> QED
    BY <2>3, <2>4, <2>5, <2>7, OthersGood
<1> QED
  BY <1>3, <1>4 DEF Guard

\* The body is read (counting_receive).
LEMMA ReadBodyInv ==
    ASSUME PortalInv, NEW t \in Tasks, ReadBody(t)
    PROVE  PortalInv'
<1>1. UNCHANGED <<began, lock>> /\ pc[t] = "body" /\ ~began[t]
  BY DEF ReadBody, PortalInv, Good, Early
<1>2. CASE Answer(t, "413")
  BY <1>1, <1>2, AnswerKeeps DEF Codes
<1>4. CASE Raise(t, "400") /\ req[t].body = "garbled"
  BY <1>1, <1>4, RaiseKeeps DEF Codes
<1>3. CASE /\ Move(t, "session_wait") /\ UNCHANGED <<slots, pool>>
           /\ req[t].body # "streamed"
  <2>1. Allowed(t, "session_wait")
    BY <1>1, <1>3 DEF Allowed, Granted, Anonymous, IndexPcs, ReplyPcs
  <2> QED
    BY <1>1, <1>3, <2>1, StayKeeps DEF Pcs, WaitPcs, Outside
<1> QED
  BY <1>2, <1>3, <1>4 DEF ReadBody

\* A thread is found (run_in_threadpool).
LEMMA StartInv ==
    ASSUME PortalInv, NEW t \in Tasks, Start(t)
    PROVE  PortalInv'
<1>1. UNCHANGED <<began, lock>> /\ UNCHANGED slots /\ EnterPool(t)
  BY DEF Start
<1>2. Good(t)
  BY DEF PortalInv
<1>3. CASE pc[t] = "session_wait" /\ Move(t, "session")
  <2>1. Allowed(t, "session")
    BY <1>2, <1>3 DEF Good, Allowed, Granted, Anonymous, IndexPcs, ReplyPcs, Early
  <2> QED
    BY <1>1, <1>3, <2>1, StayKeeps DEF Pcs, Outside
<1>4. CASE pc[t] = "op_wait" /\ Move(t, "op")
  <2>1. Allowed(t, "op")
    BY <1>2, <1>4 DEF Good, Allowed, Granted, Anonymous, IndexPcs, ReplyPcs, Early
  <2> QED
    BY <1>1, <1>4, <2>1, StayKeeps DEF Pcs, Outside
<1>5. CASE pc[t] = "index_wait" /\ Move(t, "index_pg")
  <2>1. Allowed(t, "index_pg")
    BY <1>2, <1>5 DEF Good, Allowed, Granted, Anonymous, IndexPcs, ReplyPcs, Early
  <2> QED
    BY <1>1, <1>5, <2>1, StayKeeps DEF Pcs, IndexPcs, ReplyPcs, Outside
<1>6. CASE pc[t] = "raised_wait" /\ Move(t, "raised")
  <2>1. Allowed(t, "raised")
    BY <1>2, <1>6 DEF Good, Allowed, Granted, Anonymous, IndexPcs, ReplyPcs, Early
  <2> QED
    BY <1>1, <1>6, <2>1, StayKeeps DEF Pcs, ReplyPcs, Outside
<1> QED
  BY <1>3, <1>4, <1>5, <1>6 DEF Start, WaitPcs

\* The reply of an exception handler goes out.
LEMMA ReplyInv ==
    ASSUME PortalInv, NEW t \in Tasks, Reply(t)
    PROVE  PortalInv'
<1>1. UNCHANGED <<began, lock>> /\ Answer(t, reply[t])
  BY DEF Reply
<1>2. reply[t] \in Codes /\ (reply[t] \in Refused => ~began[t])
  BY DEF PortalInv, Typed, Good
<1> QED
  BY <1>1, <1>2, AnswerKeeps

\* The session, and what Vault says of it.
LEMMA SessionInv ==
    ASSUME PortalInv, NEW t \in Tasks, Session(t) \/ Recheck(t) \/ EndSession(t)
    PROVE  PortalInv'
<1>1. /\ UNCHANGED <<began, lock>> /\ pc[t] \in {"session", "recheck", "session_end"}
      /\ pc[t] = "session" \/ req[t].cookie \/ req[t].route = "login"
      /\ req[t].route = "issue" => req[t].body # "streamed"
  BY DEF Session, Recheck, EndSession, PortalInv, Good, Anonymous
<1>2. ~began[t]
  BY <1>1 DEF PortalInv, Good, Early
<1>3. CASE Answer(t, "busy")
  BY <1>1, <1>2, <1>3, AnswerKeeps DEF Codes
<1>10. CASE \E code \in {"401", "500", "down"} : Raise(t, code)
  BY <1>1, <1>2, <1>10, RaiseKeeps DEF Codes
<1>4. req[t].cookie \/ req[t].route = "login" =>
          Allowed(t, "session_end") /\ Allowed(t, "checks") /\ Allowed(t, "recheck")
  BY <1>1, <1>2 DEF Allowed, Granted, IndexPcs, ReplyPcs
<1>5. CASE Session(t) /\ req[t].cookie /\ Move(t, "session_end") /\ UNCHANGED <<slots, pool>>
  BY <1>1, <1>4, <1>5, StayKeeps DEF Pcs, Outside, Session
<1>6. CASE Session(t) /\ req[t].cookie /\ Move(t, "checks") /\ LeavePool(t) /\ UNCHANGED slots
  BY <1>1, <1>4, <1>6, StayKeeps DEF Pcs, Outside, Session
<1>7. CASE Session(t) /\ req[t].cookie /\ Admit(t, "session") /\ Move(t, "recheck") /\ UNCHANGED pool
  <2>1. "session" \in Kinds /\ "recheck" \in Pcs \ Outside /\ pc[t] \in Outside
    BY <1>7 DEF Kinds, Pcs, Outside, Session
  <2> QED
    BY <1>1, <1>4, <1>7, <2>1, EnterKeeps
<1>8. CASE Move(t, "checks") /\ LeavePool(t) /\ Release(t, FALSE) /\ pc[t] # "session"
  BY <1>1, <1>4, <1>8, LeaveKeeps DEF Pcs
<1>9. CASE Move(t, "session_end") /\ Release(t, FALSE) /\ UNCHANGED pool /\ pc[t] # "session"
  BY <1>1, <1>4, <1>9, LeaveKeeps DEF Pcs
<1> QED
  BY <1>3, <1>5, <1>6, <1>7, <1>8, <1>9, <1>10 DEF Session, Recheck, EndSession

\* The origin, the token and the body.
LEMMA ChecksInv ==
    ASSUME PortalInv, NEW t \in Tasks, Checks(t)
    PROVE  PortalInv'
<1> DEFINE v == Verdict(req[t])
<1>1. UNCHANGED <<began, lock>> /\ pc[t] = "checks" /\ ~began[t]
  BY DEF Checks, PortalInv, Good, Early
<1>2. v \in {"none", "400", "403", "413", "415"} /\ v \in Codes
  BY DEF Verdict, Codes
<1>3. /\ req[t].cookie \/ req[t].route = "login"
      /\ req[t].route = "issue" => req[t].body # "streamed"
  BY <1>1 DEF PortalInv, Good, Anonymous
<1>4. CASE v = "none" /\ Move(t, "index_wait") /\ UNCHANGED <<slots, pool>>
  <2>1. Allowed(t, "index_wait")
    BY <1>1, <1>3 DEF Allowed, Granted, IndexPcs, ReplyPcs, Early
  <2> QED
    BY <1>1, <1>4, <2>1, StayKeeps DEF Pcs, WaitPcs, Outside
<1>5. CASE v = "none" /\ Move(t, "op_wait") /\ UNCHANGED <<slots, pool>>
  <2>1. Allowed(t, "op_wait")
    BY <1>1, <1>3, <1>5 DEF Allowed, Granted, IndexPcs, ReplyPcs
  <2> QED
    BY <1>1, <1>5, <2>1, StayKeeps DEF Pcs, WaitPcs, Outside
<1>6. CASE v # "none" /\ Answer(t, v)
  <2> HIDE DEF v
  <2> QED
    BY <1>1, <1>2, <1>6, AnswerKeeps
<1>7. CASE v # "none" /\ Outcome(t, v)
  <2> HIDE DEF v
  <2> QED
    BY <1>1, <1>2, <1>7, OutcomeKeeps DEF Anonymous
<1>8. CASE v # "none" /\ Raise(t, v)
  <2> HIDE DEF v
  <2> QED
    BY <1>1, <1>2, <1>8, RaiseKeeps
<1> QED
  BY <1>4, <1>5, <1>6, <1>7, <1>8 DEF Checks

\* A verdict of "none" is what the checks are for.
LEMMA CheckedNow ==
    ASSUME PortalInv, NEW t \in Tasks, pc[t] \in Granted, Route(t) \notin Safe
    PROVE  Checked(req[t])
<1>1. Verdict(req[t]) = "none" /\ pc[t] # "idle" /\ pc[t] \notin Anonymous /\ pc[t] # "body"
  BY DEF PortalInv, Good, Granted, Anonymous
<1>2. /\ req[t].body \notin {"both", "declared"}
      /\ req[t].cookie \/ req[t].route = "login"
      /\ req[t].route = "issue" => req[t].body # "streamed"
  BY <1>1 DEF PortalInv, Good
<1>3. /\ req[t].origin /\ req[t].csrf # "bad"
      /\ req[t].route \in {"login", "issue_form"} => req[t].body # "streamed"
  BY <1>1 DEF Verdict, Route
<1> QED
  BY <1>2, <1>3 DEF Checked, Route

\* The handler goes on, and has begun.
LEMMA BegunInv ==
    ASSUME PortalInv, NEW t \in Tasks, NEW l \in {"locked", "io", "create", "logout"},
           Move(t, l), pc[t] \in Granted, Route(t) \notin Safe,
           began' = [began EXCEPT ![t] = TRUE],
           NEW h \in Kinds \cup {None}, held' = [held EXCEPT ![t] = h],
           Slots', Threads', lock' \in [Dbs -> Tasks \cup {Reconciler, None}],
           /\ l \in Outside => h = None
           /\ l = "io" => Route(t) = "rotate"
           /\ l = "locked" => Route(t) \in Grants
           /\ l = "create" => Route(t) = "login"
    PROVE  PortalInv'
<1>1. Checked(req[t])
  BY CheckedNow
<1>2. pc[t] # "idle" /\ pc[t] \notin ReplyPcs
  BY DEF Granted, IndexPcs, ReplyPcs
<1>3. l \in Pcs \ {"idle"} /\ l \notin Early /\ l \notin ReplyPcs /\ l # "body"
  BY DEF Pcs, Early, IndexPcs, ReplyPcs
<1>4. Verdict(req[t]) = "none"
  BY DEF PortalInv, Good
<1>5. /\ req[t].cookie \/ req[t].route = "login"
      /\ req[t].route = "issue" => req[t].body # "streamed"
  BY <1>1 DEF Checked
<1>6. /\ l = "io" => req[t].route # "login"
      /\ l \in {"prepare", "lock_wait", "locked"} => req[t].route \in Grants
      /\ l = "create" => req[t].route = "login"
  BY DEF Route
<1> QED
  BY <1>1, <1>2, <1>3, <1>4, <1>5, <1>6, MoveInv

\* The operation enters its block.
LEMMA OpInv ==
    ASSUME PortalInv, NEW t \in Tasks, Op(t)
    PROVE  PortalInv'
<1>1. UNCHANGED lock /\ pc[t] = "op" /\ ~began[t] /\ held[t] = None
  BY DEF Op, PortalInv, Good, Early, Outside
<1>2. lock' \in [Dbs -> Tasks \cup {Reconciler, None}]
  BY <1>1 DEF PortalInv, Typed
<1>3. pc[t] \in Granted /\ pc[t] \notin Anonymous /\ pc[t] \notin ReplyPcs /\ pc[t] \in Outside
  BY <1>1 DEF Granted, Anonymous, IndexPcs, ReplyPcs, Outside
<1>4. /\ req[t].cookie \/ req[t].route = "login"
      /\ req[t].route = "issue" => req[t].body # "streamed"
      /\ Verdict(req[t]) = "none"
  BY <1>1, <1>3 DEF PortalInv, Good
<1>5. CASE Answer(t, "ok") /\ UNCHANGED began
  BY <1>1, <1>5, AnswerKeeps DEF Codes, Refused
<1>9. CASE Raise(t, "500") /\ UNCHANGED began
  BY <1>1, <1>9, RaiseKeeps DEF Codes, Refused
<1>6. CASE Outcome(t, "busy") /\ UNCHANGED began
  BY <1>1, <1>3, <1>6, OutcomeKeeps DEF Codes
<1>7. CASE /\ Route(t) = "logout" /\ Move(t, "logout")
           /\ began' = [began EXCEPT ![t] = TRUE] /\ UNCHANGED <<slots, pool>>
  <2>1. held' = [held EXCEPT ![t] = None]
    BY <1>1, <1>7 DEF slots, PortalInv, Slots
  <2>2. Slots' /\ Threads'
    BY <1>7 DEF slots, PortalInv, Slots, SlotsAreKept, Threads
  <2>3. Route(t) \notin Safe
    BY <1>7 DEF Safe
  <2> QED
    BY <1>2, <1>3, <1>7, <2>1, <2>2, <2>3, BegunInv
<1>8. CASE /\ Admit(t, KindOf(Route(t)))
           /\ Move(t, IF Route(t) \in {"issue", "issue_form", "revoke"}
                      THEN "prepare" ELSE "io")
           /\ began' = [began EXCEPT ![t] = Route(t) = "rotate"]
           /\ UNCHANGED pool
  <2> DEFINE k == KindOf(Route(t))
  <2>1. k \in Kinds
    BY DEF KindOf, Kinds
  <2>2. held' = [held EXCEPT ![t] = k] /\ Slots'
    BY <1>1, <1>8, <2>1, AdmitKeeps DEF Admit, PortalInv
  <2>3. Threads'
    BY <1>8 DEF PortalInv, Threads
  <2> HIDE DEF k
  <2>4. CASE Route(t) = "rotate"
    <3>1. Move(t, "io") /\ began' = [began EXCEPT ![t] = TRUE] /\ Route(t) \notin Safe
      BY <1>8, <2>4 DEF Safe
    <3>2. "io" \notin Outside
      BY DEF Outside
    <3> QED
      BY <1>2, <1>3, <2>1, <2>2, <2>3, <2>4, <3>1, <3>2, BegunInv
  <2>5. CASE Route(t) # "rotate"
    <3>1. UNCHANGED began
      BY <1>1, <1>8, <2>5 DEF PortalInv, Typed
    <3>2. CASE Route(t) \in {"issue", "issue_form", "revoke"} /\ Move(t, "prepare")
      <4>1. Allowed(t, "prepare")
        BY <1>1, <1>3, <1>4, <3>2 DEF Allowed, Grants, Route, Granted
      <4>2. "prepare" \in Pcs \ {"idle"} /\ "prepare" \notin Outside
        BY DEF Pcs, Outside
      <4> QED
        BY <1>1, <2>1, <2>2, <2>3, <3>1, <3>2, <4>1, <4>2, MoveKeeps
    <3>3. CASE Move(t, "io")
      <4>1. Allowed(t, "io")
        BY <1>1, <1>3, <1>4 DEF Allowed, Early
      <4>2. "io" \in Pcs \ {"idle"} /\ "io" \notin Outside
        BY DEF Pcs, Outside
      <4> QED
        BY <1>1, <2>1, <2>2, <2>3, <3>1, <3>3, <4>1, <4>2, MoveKeeps
    <3> QED
      BY <1>8, <3>2, <3>3
  <2> QED
    BY <2>4, <2>5
<1> QED
  BY <1>5, <1>6, <1>7, <1>8, <1>9 DEF Op

\* The work of issue and revoke before the lock.
LEMMA PrepareInv ==
    ASSUME PortalInv, NEW t \in Tasks, Prepare(t)
    PROVE  PortalInv'
<1>1. UNCHANGED <<began, lock>> /\ pc[t] = "prepare" /\ ~began[t] /\ pc[t] \notin Anonymous
  BY DEF Prepare, PortalInv, Good, Early, Anonymous
<1>2. CASE Move(t, "lock_wait") /\ UNCHANGED <<slots, pool>>
  <2>1. Allowed(t, "lock_wait")
    BY <1>1 DEF PortalInv, Good, Allowed, Anonymous, Granted, IndexPcs, ReplyPcs
  <2>2. "lock_wait" \in Pcs \ {"idle"} /\ "lock_wait" \notin Outside
    BY DEF Pcs, Outside
  <2> QED
    BY <1>1, <1>2, <2>1, <2>2, StayKeeps
<1>3. CASE \E code \in {"502", "404", "ok", "400"} : Outcome(t, code)
  <2>1. PICK code \in {"502", "404", "ok", "400"} : Outcome(t, code)
    BY <1>3
  <2>2. code \in Codes
    BY DEF Codes
  <2> QED
    BY <1>1, <2>1, <2>2, OutcomeKeeps
<1>4. CASE Raise(t, "down")
  BY <1>1, <1>4, RaiseKeeps DEF Codes
<1> QED
  BY <1>2, <1>3, <1>4 DEF Prepare

\* The lock is taken, or is not to be had (_begin).
LEMMA BeginInv ==
    ASSUME PortalInv, NEW t \in Tasks, Begin(t)
    PROVE  PortalInv'
<1>1. pc[t] = "lock_wait" /\ ~began[t] /\ pc[t] \notin Anonymous /\ pc[t] \in Granted
  BY DEF Begin, PortalInv, Good, Early, Anonymous, Granted
<1>2. CASE /\ Acquire(t, req[t].db) /\ Move(t, "locked")
           /\ began' = [began EXCEPT ![t] = TRUE] /\ UNCHANGED <<slots, pool>>
  <2>1. lock' \in [Dbs -> Tasks \cup {Reconciler, None}]
    BY <1>2 DEF PortalInv, Typed, Acquire
  <2>2. held' = [held EXCEPT ![t] = held[t]] /\ held[t] \in Kinds \cup {None}
    BY <1>2 DEF slots, PortalInv, Slots
  <2>3. Slots' /\ Threads'
    BY <1>2 DEF slots, PortalInv, Slots, SlotsAreKept, Threads
  <2>4. Route(t) \in Grants /\ Route(t) \notin Safe
    BY <1>1 DEF PortalInv, Good, Grants, Safe, Route
  <2>5. "locked" \notin Outside
    BY DEF Outside
  <2> QED
    BY <1>1, <1>2, <2>1, <2>2, <2>3, <2>4, <2>5, BegunInv
<1>3. CASE Outcome(t, "busy") /\ UNCHANGED <<lock, began>>
  BY <1>1, <1>3, OutcomeKeeps DEF Codes
<1> QED
  BY <1>2, <1>3 DEF Begin

\* The work under the lock ends (_end).
LEMMA WorkInv ==
    ASSUME PortalInv, NEW t \in Tasks, Work(t)
    PROVE  PortalInv'
<1>1. pc[t] = "locked" /\ pc[t] \notin Anonymous
  BY DEF Work, Anonymous
<1>2. began' = [began EXCEPT ![t] = began[t]] /\ began[t] \in BOOLEAN
  BY DEF Work, PortalInv, Typed
<1>3. lock' \in [Dbs -> Tasks \cup {Reconciler, None}]
  BY DEF Work, Unlock, PortalInv, Typed
<1>4. began[t] => Checked(req[t])
  BY <1>1 DEF PortalInv, Good
<1>5. CASE Outcome(t, "ok") \/ Outcome(t, "502")
  BY <1>1, <1>2, <1>3, <1>4, <1>5, OutcomeInv DEF Codes, Refused
<1>6. CASE Raise(t, "down")
  BY <1>1, <1>3, <1>6, RaiseInv DEF Work, Codes, Refused
<1> QED
  BY <1>5, <1>6 DEF Work

\* The login, the rotation and the tables; the end of a session.
LEMMA IoInv ==
    ASSUME PortalInv, NEW t \in Tasks, Io(t) \/ Create(t) \/ Logout(t)
    PROVE  PortalInv'
<1>1. UNCHANGED lock /\ pc[t] \in {"io", "create", "logout"} /\ pc[t] \in Granted
  BY DEF Io, Create, Logout, Granted
<1>2. lock' \in [Dbs -> Tasks \cup {Reconciler, None}]
  BY <1>1 DEF PortalInv, Typed
<1>3. CASE \E code \in {"502", "ok"} : Answer(t, code) /\ UNCHANGED began
  <2>1. PICK code \in {"502", "ok"} : Answer(t, code) /\ UNCHANGED began
    BY <1>3
  <2>2. code \in Codes /\ code \notin Refused
    BY DEF Codes, Refused
  <2> QED
    BY <1>1, <2>1, <2>2, AnswerKeeps
<1>6. CASE \E code \in {"500", "down"} : Raise(t, code) /\ UNCHANGED began
  <2>1. PICK code \in {"500", "down"} : Raise(t, code) /\ UNCHANGED began
    BY <1>6
  <2>2. code \in Codes /\ code \notin Refused
    BY DEF Codes, Refused
  <2> QED
    BY <1>1, <2>1, <2>2, RaiseKeeps
<1>4. CASE /\ pc[t] = "io" /\ Route(t) = "login"
           /\ \E code \in {"401", "403"} : Answer(t, code) /\ UNCHANGED began
  <2>1. ~began[t]
    BY <1>4 DEF PortalInv, Good, Route
  <2> QED
    BY <1>1, <1>4, <2>1, AnswerKeeps DEF Codes
<1>5. CASE /\ Route(t) = "login" /\ Move(t, "create")
           /\ began' = [began EXCEPT ![t] = TRUE] /\ UNCHANGED <<slots, pool>>
  <2>1. held' = [held EXCEPT ![t] = held[t]] /\ held[t] \in Kinds \cup {None}
    BY <1>5 DEF slots, PortalInv, Slots
  <2>2. Slots' /\ Threads'
    BY <1>5 DEF slots, PortalInv, Slots, SlotsAreKept, Threads
  <2>3. Route(t) \notin Safe /\ "create" \notin Outside
    BY <1>5 DEF Safe, Outside
  <2> QED
    BY <1>1, <1>2, <1>5, <2>1, <2>2, <2>3, BegunInv
<1> QED
  BY <1>3, <1>4, <1>5, <1>6 DEF Io, Create, Logout

\* The index page, which answers with an outcome found before.
LEMMA IndexInv ==
    ASSUME PortalInv, NEW t \in Tasks, IndexTry(t) \/ IndexRead(t)
    PROVE  PortalInv'
<1>1. /\ UNCHANGED <<began, lock>>
      /\ pc[t] \in {"index_pg", "index_pg_io", "index_ch", "index_ch_io"}
  BY DEF IndexTry, IndexRead
<1>2. /\ pc[t] # "idle" /\ pc[t] \notin Anonymous
      /\ req[t].cookie \/ req[t].route = "login"
      /\ req[t].route = "issue" => req[t].body # "streamed"
  BY <1>1 DEF PortalInv, Good, Anonymous
<1>3. \A l \in {"index_pg_io", "index_ch", "index_ch_io"} : Allowed(t, l)
  BY <1>2 DEF Allowed, Early, Granted, IndexPcs, ReplyPcs
<1>4. CASE IndexNext(t)
  <2>1. CASE Move(t, "index_ch") /\ Release(t, FALSE) /\ UNCHANGED pool
    BY <1>1, <1>2, <1>3, <2>1, LeaveKeeps DEF Pcs, IndexPcs, ReplyPcs
  <2>2. CASE Raise(t, "500")
    BY <1>1, <2>2, RaiseKeeps DEF Codes, Refused
  <2>3. CASE Answer(t, IF reply[t] = "none" THEN "ok" ELSE reply[t])
    <3> DEFINE code == IF reply[t] = "none" THEN "ok" ELSE reply[t]
    <3>1. code \in Codes /\ (code \in Refused => ~began[t])
      BY DEF PortalInv, Typed, Good, Codes, Refused
    <3> HIDE DEF code
    <3> QED
      BY <1>1, <2>3, <3>1, AnswerKeeps DEF code
  <2> QED
    BY <1>4, <2>1, <2>2, <2>3 DEF IndexNext
<1>5. CASE /\ pc[t] \in {"index_pg", "index_ch"} /\ UNCHANGED pool /\ Admit(t, "issue")
           /\ (Move(t, "index_pg_io") \/ Move(t, "index_ch_io"))
  <2>1. "issue" \in Kinds /\ pc[t] \in Outside
    BY <1>5 DEF Kinds, Outside
  <2>2. {"index_pg_io", "index_ch_io"} \subseteq Pcs \ Outside
    BY DEF Pcs, IndexPcs, ReplyPcs, Outside
  <2> QED
    BY <1>1, <1>2, <1>3, <1>5, <2>1, <2>2, EnterKeeps
<1> QED
  BY <1>4, <1>5 DEF IndexTry, IndexRead

\* What is not a request of an admin.
LEMMA ElseInv ==
    ASSUME PortalInv,
           \/ \E p \in Pages : PageStart(p) \/ PageEnd(p)
           \/ \E d \in Dbs : ReconcileBegin(d)
           \/ ReconcileEnd
           \/ UNCHANGED vars
    PROVE  PortalInv'
<1>1. UNCHANGED <<slots, local>>
  BY DEF PageStart, PageEnd, ReconcileBegin, ReconcileEnd, vars, shared, slots
<1>2. Slots'
  BY <1>1 DEF PortalInv, Slots, SlotsAreKept, slots
<1>3. Threads'
  <2>1. CASE UNCHANGED pool
    BY <2>1 DEF PortalInv, Threads
  <2>2. CASE \E p \in Pages : EnterPool(p) \/ LeavePool(p)
    BY <2>2, PoolKeeps DEF PortalInv
  <2> QED
    BY <2>1, <2>2 DEF PageStart, PageEnd, ReconcileBegin, ReconcileEnd, vars, shared
<1>4. lock' \in [Dbs -> Tasks \cup {Reconciler, None}]
  BY DEF PageStart, PageEnd, ReconcileBegin, ReconcileEnd, Acquire, Unlock, vars, shared,
         PortalInv, Typed
<1>5. Typed'
  BY <1>1, <1>4 DEF PortalInv, Typed, local
<1>6. \A t \in Tasks : Good(t)'
  BY <1>1 DEF PortalInv, Good, local, slots
<1> QED
  BY <1>2, <1>3, <1>5, <1>6 DEF PortalInv
-----------------------------------------------------------------------------
\* The places, the threads and what each request has shown so far are an
\* invariant of the portal.
THEOREM Invariance == Spec => []PortalInv
<1>1. Init => PortalInv
  <2> SUFFICES ASSUME Init PROVE PortalInv
    OBVIOUS
  <2>1. /\ held = [t \in Tasks |-> None] /\ free = Limit /\ pool = {}
        /\ lock = [d \in Dbs |-> None] /\ pc = [t \in Tasks |-> "idle"]
        /\ req = [t \in Tasks |-> None] /\ reply = [t \in Tasks |-> "none"]
        /\ began = [t \in Tasks |-> FALSE] /\ told = [t \in Tasks |-> "nothing"]
    BY DEF Init, SharedInit
  <2>2. Slots
    <3>1. \A k \in Kinds : {t \in Tasks : held[t] = k} = {}
      BY <2>1, AdmissionAssumption
    <3>2. Cardinality({}) = 0
      BY FS_EmptySet
    <3>3. \A k \in Kinds : free[k] + Cardinality({t \in Tasks : held[t] = k}) = Limit[k]
      BY <2>1, <3>1, <3>2, AdmissionAssumption
    <3> QED
      BY <2>1, <3>3, AdmissionAssumption DEF Slots, SlotsAreKept
  <2>3. Threads
    BY <2>1, FS_EmptySet, AdmissionAssumption DEF Threads
  <2>4. Typed
    BY <2>1 DEF Typed, Pcs, Codes
  <2>5. \A t \in Tasks : Good(t)
    BY <2>1 DEF Good, Early, Granted, Anonymous, Refused
  <2> QED
    BY <2>2, <2>3, <2>4, <2>5 DEF PortalInv
<1>2. PortalInv /\ [Next]_vars => PortalInv'
  BY GuardInv, ReadBodyInv, StartInv, ReplyInv, SessionInv, ChecksInv, OpInv, PrepareInv, BeginInv,
     WorkInv, IoInv, IndexInv, ElseInv DEF Next, Step
<1> QED
  BY <1>1, <1>2, PTL DEF Spec

\* Every variable keeps its type, and the pool its size (run_in_threadpool).
THEOREM Typing == Spec => []TypeOK
<1>1. PortalInv => TypeOK
  BY PortalAssumption DEF PortalInv, Slots, Threads, Typed, TypeOK, SharedTypeOK
<1> QED
  BY <1>1, Invariance, PTL

-----------------------------------------------------------------------------
(* What a request holds.                                                   *)

AllFit == \A t \in Tasks : Fits(t)

\* A step of one request leaves what the others hold as it is.
HoldFrame(t) ==
    \A u \in Tasks \ {t} :
        /\ pc'[u] = pc[u] /\ req'[u] = req[u] /\ held'[u] = held[u]
        /\ u \in pool' <=> u \in pool
        /\ \A d \in Dbs : lock'[d] = u <=> lock[d] = u

LEMMA OthersFit ==
    ASSUME AllFit, NEW t \in Tasks, HoldFrame(t), Fits(t)'
    PROVE  AllFit'
<1>1. ASSUME NEW u \in Tasks, u # t PROVE Fits(u)'
  <2>1. Fits(u)
    BY DEF AllFit
  <2>2. SlotAt(u)' = SlotAt(u)
    BY <1>1 DEF HoldFrame, SlotAt, Route
  <2> QED
    BY <1>1, <2>1, <2>2 DEF HoldFrame, Fits
<1> QED
  BY <1>1 DEF AllFit

\* A reply, and the way to where it is made, gives back whatever the request
\* holds; a lock has its own step.
LEMMA OutcomeFits ==
    ASSUME PortalInv, AllFit, NEW t \in Tasks, NEW l \in {"idle", "index_wait", "raised_wait"},
           Goto(t, l), NEW r, req' = [req EXCEPT ![t] = r], LeavePool(t),
           NEW busy, Release(t, busy),
           Unlock(t) \/ (UNCHANGED lock /\ pc[t] # "locked")
    PROVE  AllFit'
<1>1. held' = [held EXCEPT ![t] = None] /\ pool' = pool \ {t} /\ pc' = [pc EXCEPT ![t] = l]
  BY DEF Release, LeavePool, Goto
<1>2. HoldFrame(t)
  BY <1>1, AdmissionAssumption DEF HoldFrame, PortalInv, Slots, Typed, Unlock
<1>3. held'[t] = None /\ t \notin pool' /\ pc'[t] = l
  BY <1>1 DEF PortalInv, Slots, Typed
<1>4. SlotAt(t)' = None /\ l \notin Running
  BY <1>3 DEF SlotAt, Running, WaitPcs
<1>5. \A d \in Dbs : lock'[d] # t
  BY AdmissionAssumption DEF AllFit, Fits, Unlock
<1>6. Fits(t)'
  BY <1>3, <1>4, <1>5 DEF Fits
<1> QED
  BY <1>2, <1>6, OthersFit

\* A request goes on to a place that fits what it holds then.
LEMMA MoveFits ==
    ASSUME PortalInv, AllFit, NEW t \in Tasks, NEW l \in Pcs, Move(t, l), pc[t] # "locked",
           l # "locked", UNCHANGED lock,
           NEW h \in Kinds \cup {None}, held' = [held EXCEPT ![t] = h],
           h = CASE l = "recheck" -> "session"
                 [] l \in {"prepare", "lock_wait", "locked", "io", "create"} -> KindOf(Route(t))
                 [] l \in {"index_pg_io", "index_ch_io"} -> "issue"
                 [] OTHER -> None,
           pool' = IF l \in Running THEN pool \cup {t} ELSE pool \ {t}
    PROVE  AllFit'
<1>1. pc' = [pc EXCEPT ![t] = l] /\ req' = req
  BY DEF Move, Goto
<1>2. HoldFrame(t)
  BY <1>1 DEF HoldFrame, PortalInv, Slots, Typed
<1>3. held'[t] = h /\ pc'[t] = l
  BY <1>1 DEF PortalInv, Slots, Typed
<1>4. SlotAt(t)' = h
  BY <1>1, <1>3 DEF SlotAt, Route
<1>5. \A d \in Dbs : lock'[d] # t
  BY DEF AllFit, Fits
<1>6. t \in pool' <=> l \in Running
  OBVIOUS
<1>7. Fits(t)'
  BY <1>3, <1>4, <1>5, <1>6 DEF Fits
<1> QED
  BY <1>2, <1>7, OthersFit

\* The replies and the outcomes, in the words of Portal.
LEMMA AnswerFits ==
    ASSUME PortalInv, AllFit, NEW t \in Tasks, NEW code,
           Answer(t, code) \/ Outcome(t, code) \/ Raise(t, code),
           Unlock(t) \/ (UNCHANGED lock /\ pc[t] # "locked")
    PROVE  AllFit'
<1>1. CASE Answer(t, code)
  BY <1>1, OutcomeFits DEF Answer
<1>2. ASSUME NEW l \in {"index_wait", "raised_wait"}, Leave(t, l, code)
      PROVE  AllFit'
  <2>1. /\ Goto(t, l) /\ LeavePool(t) /\ Release(t, code = "busy")
        /\ req' = [req EXCEPT ![t] = req[t]]
    BY <1>2 DEF Leave, PortalInv, Typed
  <2> QED
    BY <2>1, OutcomeFits
<1> QED
  BY <1>1, <1>2 DEF Outcome, Raise

\* A step on which the request keeps what it has of the semaphores.
LEMMA StayFits ==
    ASSUME PortalInv, AllFit, NEW t \in Tasks, NEW l \in Pcs, Move(t, l), UNCHANGED slots,
           pc[t] # "locked", l # "locked", UNCHANGED lock,
           \/ UNCHANGED pool /\ (pc[t] \in Running <=> l \in Running)
           \/ EnterPool(t) /\ l \in Running
           \/ LeavePool(t) /\ l \notin Running,
           held[t] = CASE l = "recheck" -> "session"
                       [] l \in {"prepare", "lock_wait", "locked", "io", "create"} ->
                             KindOf(Route(t))
                       [] l \in {"index_pg_io", "index_ch_io"} -> "issue"
                       [] OTHER -> None
    PROVE  AllFit'
<1>1. held' = [held EXCEPT ![t] = held[t]] /\ held[t] \in Kinds \cup {None}
  BY DEF slots, PortalInv, Slots
<1>2. t \in pool <=> pc[t] \in Running
  BY DEF AllFit, Fits
<1>3. pool' = IF l \in Running THEN pool \cup {t} ELSE pool \ {t}
  BY <1>2 DEF EnterPool, LeavePool
<1> QED
  BY <1>1, <1>3, MoveFits

\* It enters a block in a thread that it has.
LEMMA EnterFits ==
    ASSUME PortalInv, AllFit, NEW t \in Tasks, NEW l \in Pcs, Move(t, l),
           NEW k \in Kinds, Admit(t, k), UNCHANGED <<lock, pool>>,
           pc[t] # "locked", pc[t] \in Running,
           \/ l = "recheck" /\ k = "session"
           \/ l \in {"prepare", "io"} /\ k = KindOf(Route(t))
           \/ l \in {"index_pg_io", "index_ch_io"} /\ k = "issue"
    PROVE  AllFit'
<1>1. held' = [held EXCEPT ![t] = k]
  BY DEF Admit
<1>2. t \in pool /\ l \in Running
  BY DEF AllFit, Fits, Running, WaitPcs
<1>3. pool' = IF l \in Running THEN pool \cup {t} ELSE pool \ {t}
  BY <1>2
<1>4. k = CASE l = "recheck" -> "session"
            [] l \in {"prepare", "lock_wait", "locked", "io", "create"} -> KindOf(Route(t))
            [] l \in {"index_pg_io", "index_ch_io"} -> "issue"
            [] OTHER -> None
  OBVIOUS
<1> QED
  BY <1>1, <1>3, <1>4, MoveFits

\* It leaves a block.
LEMMA LeaveFits ==
    ASSUME PortalInv, AllFit, NEW t \in Tasks, NEW l \in {"checks", "session_end", "index_ch"},
           Move(t, l), Release(t, FALSE), UNCHANGED lock, pc[t] # "locked",
           pc[t] \in Running, IF l = "checks" THEN LeavePool(t) ELSE UNCHANGED pool
    PROVE  AllFit'
<1>1. held' = [held EXCEPT ![t] = None]
  BY DEF Release
<1>2. t \in pool
  BY DEF AllFit, Fits
<1>3. l \in Pcs /\ (l \in Running <=> l # "checks")
  BY DEF Pcs, IndexPcs, ReplyPcs, Running, WaitPcs
<1>4. pool' = IF l \in Running THEN pool \cup {t} ELSE pool \ {t}
  BY <1>2, <1>3 DEF LeavePool
<1>5. None = CASE l = "recheck" -> "session"
               [] l \in {"prepare", "lock_wait", "locked", "io", "create"} -> KindOf(Route(t))
               [] l \in {"index_pg_io", "index_ch_io"} -> "issue"
               [] OTHER -> None
  OBVIOUS
<1> QED
  BY <1>1, <1>3, <1>4, <1>5, MoveFits

\* The steps of a request before its handler.
LEMMA ArrivalFits ==
    ASSUME PortalInv, AllFit, NEW t \in Tasks,
           \/ \E r \in Requests : Guard(t, r)
           \/ ReadBody(t) \/ Start(t) \/ Reply(t) \/ Session(t) \/ Recheck(t) \/ EndSession(t) \/ Checks(t)
    PROVE  AllFit'
<1>1. Fits(t) /\ held[t] = SlotAt(t)
  BY DEF AllFit, Fits
<1>2. ASSUME NEW r \in Requests, Guard(t, r) PROVE AllFit'
  <2>1. UNCHANGED lock /\ pc[t] = "idle"
    BY <1>2 DEF Guard
  <2>2. CASE Answer(t, "400") \/ Answer(t, "413")
    BY <2>1, <2>2, AnswerFits
  <2>3. CASE /\ req' = [req EXCEPT ![t] = r] /\ Goto(t, First(r.route))
             /\ UNCHANGED <<held, pool>>
    <3>1. First(r.route) \in {"checks", "body", "session_wait"}
      BY DEF First
    <3> HIDE DEF First
    <3>2. HoldFrame(t)
      BY <2>1, <2>3 DEF HoldFrame, Goto, PortalInv, Typed
    <3>3. /\ held'[t] = None /\ t \notin pool' /\ pc'[t] = First(r.route)
          /\ \A d \in Dbs : lock'[d] # t
      BY <1>1, <2>1, <2>3 DEF Goto, PortalInv, Typed, Fits, SlotAt, Running
    <3>4. Fits(t)'
      BY <3>1, <3>3 DEF Fits, SlotAt, Running, WaitPcs
    <3> QED
      BY <3>2, <3>4, OthersFit
  <2> QED
    BY <1>2, <2>2, <2>3 DEF Guard
<1>3. CASE ReadBody(t)
  <2>1. pc[t] = "body" /\ UNCHANGED lock /\ held[t] = None
    BY <1>1, <1>3 DEF ReadBody, SlotAt
  <2>2. CASE Move(t, "session_wait") /\ UNCHANGED <<slots, pool>>
    BY <2>1, <2>2, StayFits DEF Pcs, WaitPcs, Running
  <2> QED
    BY <1>3, <2>1, <2>2, AnswerFits DEF ReadBody
<1>4. CASE Start(t)
  <2>1. /\ pc[t] \in WaitPcs /\ UNCHANGED lock /\ UNCHANGED slots /\ EnterPool(t)
        /\ held[t] = None
    BY <1>1, <1>4 DEF Start, SlotAt, WaitPcs
  <2>2. \/ Move(t, "session") \/ Move(t, "op") \/ Move(t, "index_pg") \/ Move(t, "raised")
    BY <1>4, <2>1 DEF Start, WaitPcs
  <2>3. \A l \in {"session", "op", "index_pg", "raised"} : l \in Pcs /\ l \in Running
    BY DEF Pcs, IndexPcs, ReplyPcs, Running, WaitPcs
  <2> QED
    BY <2>1, <2>2, <2>3, StayFits DEF WaitPcs
<1>5. CASE Session(t)
  <2>1. pc[t] = "session" /\ UNCHANGED lock /\ held[t] = None /\ pc[t] \in Running
    BY <1>1, <1>5 DEF Session, SlotAt, Running, Pcs, WaitPcs
  <2>2. CASE \E code \in {"401", "500", "busy"} : Answer(t, code) \/ Raise(t, code)
    BY <2>1, <2>2, AnswerFits
  <2>3. CASE Move(t, "session_end") /\ UNCHANGED <<slots, pool>>
    <3>1. "session_end" \in Pcs /\ "session_end" \in Running
      BY DEF Pcs, Running, WaitPcs
    <3> QED
      BY <2>1, <2>3, <3>1, StayFits
  <2>4. CASE Move(t, "checks") /\ LeavePool(t) /\ UNCHANGED slots
    <3>1. "checks" \in Pcs /\ "checks" \notin Running
      BY DEF Pcs, Running
    <3> QED
      BY <2>1, <2>4, <3>1, StayFits
  <2>5. CASE Admit(t, "session") /\ Move(t, "recheck") /\ UNCHANGED pool
    <3>1. "session" \in Kinds /\ "recheck" \in Pcs
      BY DEF Kinds, Pcs
    <3> QED
      BY <2>1, <2>5, <3>1, EnterFits
  <2> QED
    BY <1>5, <2>2, <2>3, <2>4, <2>5 DEF Session
<1>6. CASE Recheck(t)
  <2>1. pc[t] = "recheck" /\ UNCHANGED lock /\ pc[t] \in Running
    BY <1>6 DEF Recheck, Running, Pcs, WaitPcs
  <2> QED
    BY <1>6, <2>1, AnswerFits, LeaveFits DEF Recheck
<1>7. CASE EndSession(t) \/ Reply(t)
  BY <1>7, AnswerFits DEF EndSession, Reply
<1>8. CASE Checks(t)
  <2>1. pc[t] = "checks" /\ UNCHANGED lock /\ held[t] = None
    BY <1>1, <1>8 DEF Checks, SlotAt
  <2>2. ASSUME NEW l \in {"index_wait", "op_wait"}, Move(t, l), UNCHANGED <<slots, pool>>
        PROVE  AllFit'
    BY <2>1, <2>2, StayFits DEF Pcs, WaitPcs, Running
  <2>3. CASE \E code : Answer(t, code) \/ Outcome(t, code) \/ Raise(t, code)
    BY <2>1, <2>3, AnswerFits
  <2> QED
    BY <1>8, <2>2, <2>3 DEF Checks
<1> QED
  BY <1>2, <1>3, <1>4, <1>5, <1>6, <1>7, <1>8

\* The steps of the handlers.
LEMMA HandlerFits ==
    ASSUME PortalInv, AllFit, NEW t \in Tasks,
           \/ Op(t) \/ Prepare(t) \/ Begin(t) \/ Work(t) \/ Io(t) \/ Create(t) \/ Logout(t)
           \/ IndexTry(t) \/ IndexRead(t)
    PROVE  AllFit'
<1>1. Fits(t) /\ held[t] = SlotAt(t)
  BY DEF AllFit, Fits
<1>2. CASE Op(t)
  <2>1. pc[t] = "op" /\ UNCHANGED lock /\ held[t] = None /\ pc[t] \in Running
    BY <1>1, <1>2 DEF Op, SlotAt, Running, Pcs, WaitPcs
  <2>2. CASE \E code : Answer(t, code) \/ Outcome(t, code) \/ Raise(t, code)
    BY <2>1, <2>2, AnswerFits
  <2>3. CASE Move(t, "logout") /\ UNCHANGED <<slots, pool>>
    <3>1. "logout" \in Pcs /\ "logout" \in Running
      BY DEF Pcs, Running, WaitPcs
    <3> QED
      BY <2>1, <2>3, <3>1, StayFits
  <2>4. ASSUME NEW l \in {"prepare", "io"}, Admit(t, KindOf(Route(t))), Move(t, l), UNCHANGED pool
        PROVE  AllFit'
    <3>1. KindOf(Route(t)) \in Kinds /\ l \in Pcs
      BY DEF Kinds, KindOf, Pcs
    <3> QED
      BY <2>1, <2>4, <3>1, EnterFits
  <2> QED
    BY <1>2, <2>2, <2>3, <2>4 DEF Op
<1>3. CASE Prepare(t)
  <2>1. pc[t] = "prepare" /\ UNCHANGED lock /\ held[t] = KindOf(Route(t))
    BY <1>1, <1>3 DEF Prepare, SlotAt
  <2>2. CASE Move(t, "lock_wait") /\ UNCHANGED <<slots, pool>>
    <3>1. "lock_wait" \in Pcs /\ {"prepare", "lock_wait"} \subseteq Running
      BY DEF Pcs, Running, WaitPcs
    <3> QED
      BY <2>1, <2>2, <3>1, StayFits
  <2> QED
    BY <1>3, <2>1, <2>2, AnswerFits DEF Prepare
<1>4. CASE Begin(t)
  <2>1. CASE Acquire(t, req[t].db) /\ Move(t, "locked") /\ UNCHANGED <<slots, pool>>
    <3>1. /\ pc[t] = "lock_wait" /\ held[t] = KindOf(Route(t)) /\ t \in pool
          /\ \A d \in Dbs : lock[d] # t
      BY <1>1, <1>4 DEF Begin, Fits, SlotAt, Running, Pcs, WaitPcs
    <3>2. req[t] \in Requests /\ req[t].db \in Dbs
      BY <3>1, PortalAssumption DEF PortalInv, Typed, Request
    <3>3. /\ pc' = [pc EXCEPT ![t] = "locked"] /\ UNCHANGED <<req, held, pool>>
          /\ lock[req[t].db] = None /\ lock' = [lock EXCEPT ![req[t].db] = t]
      BY <2>1 DEF Move, Goto, Acquire, slots
    <3>4. HoldFrame(t)
      BY <3>2, <3>3, AdmissionAssumption DEF HoldFrame, PortalInv, Typed
    <3>5. pc'[t] = "locked" /\ \A d \in Dbs : lock'[d] = t <=> d = req[t].db
      BY <3>1, <3>2, <3>3 DEF PortalInv, Typed
    <3>6. SlotAt(t)' = KindOf(Route(t))
      BY <3>3, <3>5 DEF SlotAt, Route
    <3>7. "locked" \in Running
      BY DEF Running, Pcs, WaitPcs
    <3>8. Fits(t)'
      BY <3>1, <3>3, <3>5, <3>6, <3>7 DEF Fits
    <3> QED
      BY <3>4, <3>8, OthersFit
  <2>2. CASE Outcome(t, "busy") /\ UNCHANGED lock
    BY <1>4, <2>2, AnswerFits DEF Begin
  <2> QED
    BY <1>4, <2>1, <2>2 DEF Begin
<1>5. CASE Work(t)
  BY <1>5, AnswerFits DEF Work
<1>6. CASE Io(t)
  <2>1. pc[t] = "io" /\ UNCHANGED lock /\ held[t] = KindOf(Route(t))
    BY <1>1, <1>6 DEF Io, SlotAt
  <2>2. CASE Move(t, "create") /\ UNCHANGED <<slots, pool>>
    <3>1. "create" \in Pcs /\ {"io", "create"} \subseteq Running
      BY DEF Pcs, Running, WaitPcs
    <3> QED
      BY <2>1, <2>2, <3>1, StayFits
  <2> QED
    BY <1>6, <2>1, <2>2, AnswerFits DEF Io
<1>7. CASE Create(t) \/ Logout(t)
  BY <1>7, AnswerFits DEF Create, Logout
<1>8. CASE IndexTry(t) \/ IndexRead(t)
  <2>1. /\ pc[t] \in {"index_pg", "index_ch", "index_pg_io", "index_ch_io"} /\ UNCHANGED lock
        /\ pc[t] \in Running
    BY <1>8 DEF IndexTry, IndexRead, Running, Pcs, IndexPcs, ReplyPcs, WaitPcs
  <2>2. CASE IndexNext(t)
    BY <2>1, <2>2, AnswerFits, LeaveFits DEF IndexNext
  <2>3. ASSUME NEW l \in {"index_pg_io", "index_ch_io"}, Admit(t, "issue"), Move(t, l),
               UNCHANGED pool
        PROVE  AllFit'
    <3>1. "issue" \in Kinds /\ l \in Pcs
      BY DEF Kinds, Pcs, IndexPcs, ReplyPcs
    <3> QED
      BY <2>1, <2>3, <3>1, EnterFits
  <2> QED
    BY <1>8, <2>2, <2>3 DEF IndexTry, IndexRead
<1> QED
  BY <1>2, <1>3, <1>4, <1>5, <1>6, <1>7, <1>8

\* What is not a request of an admin.
LEMMA ElseFits ==
    ASSUME PortalInv, AllFit,
           \/ \E p \in Pages : PageStart(p) \/ PageEnd(p)
           \/ \E d \in Dbs : ReconcileBegin(d)
           \/ ReconcileEnd
           \/ UNCHANGED vars
    PROVE  AllFit'
<1>1. UNCHANGED <<held, pc, req>>
  BY DEF PageStart, PageEnd, ReconcileBegin, ReconcileEnd, vars, shared, slots, local
<1>2. \A t \in Tasks : t \in pool' <=> t \in pool
  BY AdmissionAssumption DEF PageStart, PageEnd, EnterPool, LeavePool, ReconcileBegin,
     ReconcileEnd, slots, vars, shared
<1>3. \A t \in Tasks, d \in Dbs : lock'[d] = t <=> lock[d] = t
  BY AdmissionAssumption DEF PageStart, PageEnd, ReconcileBegin, ReconcileEnd, Acquire, Unlock,
     PortalInv, Typed, vars, shared
<1>4. ASSUME NEW t \in Tasks PROVE Fits(t)'
  <2>1. SlotAt(t)' = SlotAt(t)
    BY <1>1 DEF SlotAt, Route
  <2> QED
    BY <1>1, <1>2, <1>3, <2>1 DEF AllFit, Fits
<1> QED
  BY <1>4 DEF AllFit

\* A request has a semaphore, a thread and a lock exactly where its place in the
\* handler needs them, for any limits and any size of the pool (admit,
\* run_in_threadpool, _begin and _end).
THEOREM Accounting == Spec => []SharedIsAccountedFor
<1>1. Init => AllFit
  BY AdmissionAssumption DEF Init, SharedInit, AllFit, Fits, SlotAt, Running
<1>2. PortalInv /\ AllFit /\ [Next]_vars => AllFit'
  BY ArrivalFits, HandlerFits, ElseFits DEF Next, Step
<1>3. PortalInv /\ AllFit => SharedIsAccountedFor
  BY DEF PortalInv, Slots, AllFit, SharedIsAccountedFor
<1> QED
  BY <1>1, <1>2, <1>3, Invariance, PTL DEF Spec

\* config.py reserves MAX_REVOKE_OPS "so a flood of issues can never starve
\* revocation": a revoke that is refused on its way into the semaphore finds
\* that many other revokes there, and no issue.
PlacesAreReserved ==
    Full("revoke") =>
        Cardinality({t \in Tasks : held[t] = "revoke" /\ Route(t) = "revoke"}) = Limit["revoke"]

\* No issue takes a place of the revokes (admit).
THEOREM Reservation == Spec => []PlacesAreReserved
<1>1. PortalInv /\ SharedIsAccountedFor => PlacesAreReserved
  <2> SUFFICES ASSUME PortalInv, SharedIsAccountedFor, Full("revoke")
               PROVE  Cardinality({t \in Tasks : held[t] = "revoke" /\ Route(t) = "revoke"})
                        = Limit["revoke"]
    BY DEF PlacesAreReserved
  <2>1. \A t \in Tasks : held[t] = "revoke" => Route(t) = "revoke"
    BY AdmissionAssumption DEF SharedIsAccountedFor, Fits, SlotAt, KindOf, Kinds
  <2>2. {t \in Tasks : held[t] = "revoke" /\ Route(t) = "revoke"}
          = {t \in Tasks : held[t] = "revoke"}
    BY <2>1
  <2>3. 0 + Cardinality({t \in Tasks : held[t] = "revoke"}) = Limit["revoke"]
    BY DEF SharedIsAccountedFor, SlotsAreKept, Full, Kinds
  <2>4. Cardinality({t \in Tasks : held[t] = "revoke"}) \in Nat
    BY HoldersFinite, FS_CardinalityType
  <2> QED
    BY <2>2, <2>3, <2>4
<1> QED
  BY <1>1, Invariance, Accounting, PTL

\* The threads of the pool that the database locks can keep waiting, even if
\* every call under a lock takes its whole time: those of the issues and revokes
\* that admit has let in.
WaitingIsBounded ==
    Cardinality({t \in Tasks : pc[t] \in {"lock_wait", "locked"}})
        <= Limit["issue"] + Limit["revoke"]

\* With the limits of config.py, 10 of the pool's threads wait for locks at most.
THEOREM Bound == Spec => []WaitingIsBounded
<1>1. PortalInv /\ SharedIsAccountedFor => WaitingIsBounded
  <2> SUFFICES ASSUME PortalInv, SharedIsAccountedFor PROVE WaitingIsBounded
    OBVIOUS
  <2> DEFINE I == {t \in Tasks : held[t] = "issue"}
             R == {t \in Tasks : held[t] = "revoke"}
             W == {t \in Tasks : pc[t] \in {"lock_wait", "locked"}}
  <2>1. ASSUME NEW t \in W PROVE t \in I \cup R
    <3>1. Route(t) \in Grants
      BY DEF PortalInv, Good, Route
    <3>2. held[t] = KindOf(Route(t))
      BY DEF SharedIsAccountedFor, Fits, SlotAt
    <3> QED
      BY <3>1, <3>2 DEF Grants, KindOf
  <2>2. IsFiniteSet(I) /\ IsFiniteSet(R)
    BY HoldersFinite
  <2>3. /\ Cardinality(I) \in Nat /\ Cardinality(R) \in Nat
        /\ Cardinality(I) <= Limit["issue"] /\ Cardinality(R) <= Limit["revoke"]
    <3>1. /\ free["issue"] + Cardinality(I) = Limit["issue"]
          /\ free["revoke"] + Cardinality(R) = Limit["revoke"]
          /\ free["issue"] \in Nat /\ free["revoke"] \in Nat
      BY DEF PortalInv, Slots, SlotsAreKept, Kinds
    <3>2. Cardinality(I) \in Nat /\ Cardinality(R) \in Nat
      BY <2>2, FS_CardinalityType
    <3>3. Limit["issue"] \in Nat /\ Limit["revoke"] \in Nat
      BY AdmissionAssumption DEF Kinds
    <3> HIDE DEF I, R
    <3> QED
      BY <3>1, <3>2, <3>3
  <2> HIDE DEF I, R
  <2>4. /\ IsFiniteSet(I \cup R)
        /\ Cardinality(I \cup R) = Cardinality(I) + Cardinality(R) - Cardinality(I \cap R)
        /\ Cardinality(I \cap R) \in Nat
    BY <2>2, FS_Union, FS_Intersection, FS_CardinalityType
  <2>5. Cardinality(W) <= Cardinality(I \cup R) /\ Cardinality(W) \in Nat
    <3> HIDE DEF W
    <3>1. W \subseteq I \cup R
      BY <2>1
    <3> QED
      BY <2>4, <3>1, FS_Subset, FS_CardinalityType
  <2>6. Limit["issue"] \in Nat /\ Limit["revoke"] \in Nat
    BY AdmissionAssumption DEF Kinds
  <2>7. Cardinality(W) <= Limit["issue"] + Limit["revoke"]
    <3> HIDE DEF W
    <3> QED
      BY <2>3, <2>4, <2>5, <2>6, FS_CardinalityType
  <2> QED
    BY <2>7 DEF WaitingIsBounded
<1> QED
  BY <1>1, Invariance, Accounting, PTL

\* No request makes a handler begin a change without the checks of Guard and
\* require_admin having let it pass.
THEOREM Protection == Spec => []EffectsAreChecked
<1>1. PortalInv => EffectsAreChecked
  BY DEF PortalInv, Good, EffectsAreChecked
<1> QED
  BY <1>1, Invariance, PTL

\* A refusal, Busy included, is sent only where nothing was begun.
THEOREM Refusal == Spec => []RefusedMeansUntouched
<1>1. PortalInv => RefusedMeansUntouched
  BY DEF PortalInv, Good, RefusedMeansUntouched
<1> QED
  BY <1>1, Invariance, PTL
=============================================================================
