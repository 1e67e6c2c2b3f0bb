-------------------- MODULE NewTransactionStarts_proofs --------------------
(***************************************************************************)
(* Safety of the activities and of what sessions do next to them, for any  *)
(* activities, sessions, limits and number of restarts.                    *)
(***************************************************************************)
EXTENDS NewTransactionStarts, FiniteSetTheorems, TLAPS

SqlSteps == {"queued", "slot", "admit", "sqlWait", "sqlConnect", "sqlFence", "sqlQuote", "run",
             "unwind", "done"}
HttpSteps == {"queued", "slot", "admit", "check", "catWait", "catConnect", "catAttest", "catLock",
              "catClose", "build", "send", "body", "sinkWait", "sinkConnect", "sinkFence",
              "sinkCommit", "sinkClose", "unwind", "done"}
Resources == {"slot", "pool", "permit", "conn", "lock"}

\* Types; which steps an activity goes through depends on its kind.
TypeOK ==
    /\ pc \in [Activity -> SqlSteps \cup HttpSteps]
    /\ \A a \in Activity : pc[a] \in IF a \in Sql THEN SqlSteps ELSE HttpSteps
    /\ held \in [Activity -> SUBSET Resources]
    /\ stored \in [Activity -> Nat]
    /\ seen \in [Activity -> {None, Own, Own + 1}] /\ inst \in {None, Own, Own + 1}
    /\ owner \in Sessions \cup {Nobody} /\ allowed \in BOOLEAN /\ stale \subseteq Activity

\* A connection is held with the permit or the slot it stands for.
Backed ==
    \A a \in Activity :
        /\ "conn" \in held[a] => "permit" \in held[a]
        /\ "pool" \in held[a] => "slot" \in held[a]
        /\ pc[a] \in {"sqlConnect", "catConnect", "sinkConnect"} => "permit" \in held[a]

\* The semaphores.
Metered ==
    /\ Cardinality(Holders("permit")) <= MaxUserConnections
    /\ Cardinality(Holders("slot")) <= MaxOriginConnections

\* Shared and exclusive locks exclude each other, and a body is inserted under
\* a lock on an installation that is in place.
Locked ==
    \A a \in Activity :
        /\ "lock" \in held[a] => owner = Nobody
        /\ a \in Local /\ pc[a] = "sinkCommit" => "lock" \in held[a] /\ inst = Own

\* What made an activity stale is not undone, so its last check fails.
Revoked ==
    \A a \in stale : \/ a \in Routed /\ inst # Own
                     \/ a \in Http /\ ~allowed

\* The inductive invariant.
IInv == TypeOK /\ Backed /\ Metered /\ Locked /\ Revoked /\ StaleNeverActs

\* Nothing has begun.
LEMMA InitInv == Init => IInv
<1> SUFFICES ASSUME Init PROVE IInv
    OBVIOUS
<1> USE DEF Init, ActInit
<1>1. TypeOK
    BY DEF TypeOK, SqlSteps, HttpSteps, None, Own
<1>2. Holders("permit") = {} /\ Holders("slot") = {}
    BY DEF Holders
<1>3. Metered
    BY <1>2, FS_EmptySet, ActivitiesAssumption DEF Metered
<1>4. Backed /\ Locked /\ Revoked /\ StaleNeverActs
    BY DEF Backed, Locked, Revoked, StaleNeverActs
<1> QED
    BY <1>1, <1>3, <1>4 DEF IInv

\* Holders are activities, so they can be counted.
LEMMA HoldersFinite ==
    \A r : IsFiniteSet(Holders(r)) /\ Cardinality(Holders(r)) \in Nat
<1> SUFFICES ASSUME NEW r PROVE IsFiniteSet(Holders(r)) /\ Cardinality(Holders(r)) \in Nat
    OBVIOUS
<1>1. Holders(r) \subseteq Activity /\ IsFiniteSet(Activity)
    BY ActivitiesAssumption DEF Holders
<1> QED
    BY <1>1, FS_Subset, FS_CardinalityType

\* A semaphore admits one more only where there is room.
LEMMA OneMoreHolder ==
    ASSUME NEW r, NEW max \in Nat, Cardinality(Holders(r)) <= max,
           NEW a \in Activity, Holders(r)' \subseteq Holders(r) \cup {a},
           a \in Holders(r)' => a \in Holders(r) \/ Cardinality(Holders(r)) < max
    PROVE  Cardinality(Holders(r)') <= max
<1>1. IsFiniteSet(Holders(r)) /\ Cardinality(Holders(r)) \in Nat
    BY HoldersFinite
<1>2. CASE Holders(r)' \subseteq Holders(r)
  <2>1. /\ Cardinality(Holders(r)') <= Cardinality(Holders(r))
        /\ Cardinality(Holders(r)') \in Nat
      BY <1>1, <1>2, FS_Subset, FS_CardinalityType
  <2> QED
      BY <1>1, <2>1
<1>3. CASE Cardinality(Holders(r)) < max
  <2>1. /\ IsFiniteSet(Holders(r) \cup {a})
        /\ Cardinality(Holders(r) \cup {a}) \in {Cardinality(Holders(r)), Cardinality(Holders(r)) + 1}
      BY <1>1, FS_AddElement
  <2>2. /\ Cardinality(Holders(r)') <= Cardinality(Holders(r) \cup {a})
        /\ Cardinality(Holders(r)') \in Nat
      BY <2>1, FS_Subset, FS_CardinalityType
  <2> QED
      BY <1>1, <1>3, <2>1, <2>2
<1> QED
    BY <1>2, <1>3

\* What a step of one activity has to see to: what it ends up holding is
\* backed and within the limits, and where it goes it may go.
LEMMA OneActivity ==
    ASSUME IInv, UNCHANGED origin, NEW a \in Activity,
           NEW to \in IF a \in Sql THEN SqlSteps ELSE HttpSteps, Go(a, to),
           NEW h \in SUBSET Resources, held' = [held EXCEPT ![a] = h],
           stored' \in [Activity -> Nat], seen' \in [Activity -> {None, Own, Own + 1}],
           "conn" \in h => "permit" \in h,
           "pool" \in h => "slot" \in h,
           to \in {"sqlConnect", "catConnect", "sinkConnect"} => "permit" \in h,
           "permit" \in h => "permit" \in held[a] \/ PermitFree,
           "slot" \in h => "slot" \in held[a] \/ SlotFree,
           "lock" \in h => owner = Nobody,
           a \in Local /\ to = "sinkCommit" => "lock" \in h /\ inst = Own,
           a \in stale => to \notin {"send", "run"}
    PROVE  IInv'
<1> USE DEF IInv
<1>1. \A b \in Activity : /\ pc'[b] = IF b = a THEN to ELSE pc[b]
                          /\ held'[b] = IF b = a THEN h ELSE held[b]
    BY DEF TypeOK, Go
<1>2. TypeOK'
    BY <1>1 DEF TypeOK, Go, origin
<1>3. Backed'
    BY <1>1 DEF Backed
<1>4. Locked' /\ Revoked'
    BY <1>1 DEF Locked, Revoked, origin
<1>5. StaleNeverActs'
    BY <1>1 DEF StaleNeverActs, TypeOK, origin
<1>6. \A r : Holders(r)' \subseteq Holders(r) \cup {a}
    BY <1>1 DEF Holders
<1>7. /\ a \in Holders("permit")' => a \in Holders("permit") \/ PermitFree
      /\ a \in Holders("slot")' => a \in Holders("slot") \/ SlotFree
    BY <1>1 DEF Holders
<1>8. Metered'
    BY <1>6, <1>7, OneMoreHolder, ActivitiesAssumption DEF Metered, PermitFree, SlotFree
<1> QED
    BY <1>2, <1>3, <1>4, <1>5, <1>8

\* The same for a step that takes and releases nothing.
LEMMA OnlyMoves ==
    ASSUME IInv, UNCHANGED <<origin, held, stored>>, NEW a \in Activity,
           NEW to \in (IF a \in Sql THEN SqlSteps ELSE HttpSteps)
                        \ {"sqlConnect", "catConnect", "sinkConnect", "sinkCommit"},
           Go(a, to), seen' \in [Activity -> {None, Own, Own + 1}],
           a \in stale => to \notin {"send", "run"}
    PROVE  IInv'
<1>1. held' = [held EXCEPT ![a] = held[a]] /\ held[a] \in SUBSET Resources
    BY DEF IInv, TypeOK
<1>2. /\ stored' \in [Activity -> Nat]
      /\ "conn" \in held[a] => "permit" \in held[a]
      /\ "pool" \in held[a] => "slot" \in held[a]
      /\ "lock" \in held[a] => owner = Nobody
    BY DEF IInv, TypeOK, Backed, Locked
<1> QED
    BY <1>1, <1>2, OneActivity

\* A check that a stale activity passes is not its last one.
LEMMA ChecksCatch ==
    ASSUME IInv, NEW a \in stale
    PROVE  /\ a \in Sql => ~InPlace(a)
           /\ ~(allowed /\ InPlace(a))
BY ActivitiesAssumption DEF IInv, Revoked, InPlace, TypeOK, Activity

\* The steps of an activity that take and release nothing.
LEMMA MovesInv ==
    ASSUME IInv, UNCHANGED origin, NEW a \in Activity,
           \/ Route(a) \/ Admit(a) \/ SqlFence(a) \/ SqlQuote(a) \/ RunSql(a)
           \/ Check(a) \/ CatalogAttest(a) \/ Build(a) \/ Send(a)
           \/ \E serverError \in BOOLEAN : ReadBody(a, serverError)
           \/ StepFails(a)
    PROVE  IInv'
<1> USE ActivitiesAssumption
<1>1. UNCHANGED <<held, stored>>
    BY DEF Route, Admit, SqlFence, SqlQuote, RunSql, Check, CatalogAttest, Build, Send, ReadBody,
           StepFails
<1>2. seen' \in [Activity -> {None, Own, Own + 1}]
    BY DEF IInv, TypeOK, Route, Admit, SqlFence, SqlQuote, RunSql, Check, CatalogAttest, Build,
           Send, ReadBody, StepFails
<1>3. \E to \in (IF a \in Sql THEN SqlSteps ELSE HttpSteps)
                  \ {"sqlConnect", "catConnect", "sinkConnect", "sinkCommit"} :
        Go(a, to) /\ (a \in stale => to \notin {"send", "run"})
  <2>1. pc[a] \in IF a \in Sql THEN SqlSteps ELSE HttpSteps
      BY DEF IInv, TypeOK
  <2> USE <2>1 DEF At, Go, Return, Checked, Authorized, SqlSteps, HttpSteps
  <2>2. CASE Route(a) \/ Admit(a)
      BY <2>2 DEF Route, Admit, Begin
  <2>3. CASE SqlFence(a) \/ RunSql(a) \/ CatalogAttest(a) \/ Send(a) \/ StepFails(a)
      BY <2>3 DEF SqlFence, RunSql, CatalogAttest, Send, StepFails
  <2>4. CASE SqlQuote(a)
      BY <2>4, ChecksCatch DEF SqlQuote
  <2>5. CASE Check(a) \/ Build(a)
      BY <2>5, ChecksCatch DEF Check, Build
  <2>6. CASE \E serverError \in BOOLEAN : ReadBody(a, serverError)
      BY <2>6 DEF ReadBody
  <2> QED
      BY <2>2, <2>3, <2>4, <2>5, <2>6
<1> QED
    BY <1>1, <1>2, <1>3, OnlyMoves

\* A slot is for a pool, where the semaphore has one.
LEMMA TakeSlotInv ==
    ASSUME IInv, UNCHANGED origin, NEW a \in Activity, TakeSlot(a)
    PROVE  IInv'
<1>1. held' = [held EXCEPT ![a] = held[a] \cup {"slot", "pool"}]
    BY DEF TakeSlot, Take, IInv, TypeOK
<1>2. Go(a, "admit") /\ "admit" \in IF a \in Sql THEN SqlSteps ELSE HttpSteps
    BY DEF TakeSlot, SqlSteps, HttpSteps
<1>3. /\ held[a] \cup {"slot", "pool"} \in SUBSET Resources
      /\ stored' \in [Activity -> Nat] /\ seen' \in [Activity -> {None, Own, Own + 1}]
    BY DEF TakeSlot, IInv, TypeOK, Resources
<1>4. /\ "conn" \in held[a] => "permit" \in held[a]
      /\ "lock" \in held[a] => owner = Nobody
    BY DEF IInv, Backed, Locked
<1>5. SlotFree
    BY DEF TakeSlot
<1> QED
    BY <1>1, <1>2, <1>3, <1>4, <1>5, OneActivity

\* A permit comes before a connection.
LEMMA TakePermitInv ==
    ASSUME IInv, UNCHANGED origin, NEW a \in Activity, TakePermit(a)
    PROVE  IInv'
<1>1. held' = [held EXCEPT ![a] = held[a] \cup {"permit"}]
    BY DEF TakePermit, Take, IInv, TypeOK
<1>2. PICK to \in (IF a \in Sql THEN SqlSteps ELSE HttpSteps)
                     \cap {"sqlConnect", "catConnect", "sinkConnect"} : Go(a, to)
    BY DEF TakePermit, At, IInv, TypeOK, SqlSteps, HttpSteps
<1>3. PermitFree /\ stored' \in [Activity -> Nat] /\ seen' \in [Activity -> {None, Own, Own + 1}]
    BY DEF TakePermit, IInv, TypeOK
<1> DEFINE h == held[a] \cup {"permit"}
<1>4. /\ h \in SUBSET Resources /\ "permit" \in h
      /\ "pool" \in h => "slot" \in h
      /\ "slot" \in h => "slot" \in held[a]
      /\ "lock" \in h => owner = Nobody
    BY DEF IInv, TypeOK, Backed, Locked, Resources
<1>5. /\ to \in IF a \in Sql THEN SqlSteps ELSE HttpSteps
      /\ to \notin {"sinkCommit", "send", "run"}
    BY <1>2
<1> HIDE DEF h
<1> QED
    BY <1>1, <1>2, <1>3, <1>4, <1>5, OneActivity DEF h

\* The connection is made under the permit.
LEMMA ConnectInv ==
    ASSUME IInv, UNCHANGED origin, NEW a \in Activity, ConnectAsUser(a)
    PROVE  IInv'
<1>0. "permit" \in held[a]
    BY DEF ConnectAsUser, At, IInv, Backed
<1>1. \E to \in (IF a \in Sql THEN SqlSteps ELSE HttpSteps)
                  \cap {"sqlFence", "catAttest", "sinkFence", "unwind"} : Go(a, to)
    BY DEF ConnectAsUser, At, Checked, Return, IInv, TypeOK, SqlSteps, HttpSteps
<1>2. \E h \in {held[a], held[a] \cup {"conn"}} : held' = [held EXCEPT ![a] = h]
    BY DEF ConnectAsUser, Take, IInv, TypeOK
<1> QED
    BY <1>0, <1>1, <1>2, OneActivity DEF ConnectAsUser, IInv, TypeOK, Backed, Locked, Resources

\* The lock of the catalog's transaction is shared with no exclusive one.
LEMMA CatalogLockInv ==
    ASSUME IInv, UNCHANGED origin, NEW a \in Activity, CatalogLock(a)
    PROVE  IInv'
<1>2. PICK to \in (IF a \in Sql THEN SqlSteps ELSE HttpSteps) \cap {"catClose", "unwind"} :
          /\ Go(a, to)
          /\ a \in Routed /\ to = "catClose" => owner = Nobody
    BY DEF CatalogLock, At, Checked, InPlace, Return, IInv, TypeOK, SqlSteps, HttpSteps
<1>3. pc'[a] = to
    BY <1>2 DEF Go, IInv, TypeOK
<1>4. PICK h \in {held[a], held[a] \cup {"lock"}} :
          held' = [held EXCEPT ![a] = h] /\ ("lock" \in h => owner = Nobody)
    BY <1>2, <1>3 DEF CatalogLock, Take, IInv, TypeOK, Locked
<1>5. stored' \in [Activity -> Nat] /\ seen' \in [Activity -> {None, Own, Own + 1}]
    BY DEF CatalogLock, IInv, TypeOK
<1>6. /\ h \in SUBSET Resources
      /\ "conn" \in h => "permit" \in h
      /\ "pool" \in h => "slot" \in h
      /\ "permit" \in h => "permit" \in held[a]
      /\ "slot" \in h => "slot" \in held[a]
    BY DEF IInv, TypeOK, Backed, Resources
<1> QED
    BY <1>2, <1>4, <1>5, <1>6, OneActivity

\* The catalog's connection goes before its permit.
LEMMA CatalogCloseInv ==
    ASSUME IInv, UNCHANGED origin, NEW a \in Activity, CatalogClose(a)
    PROVE  IInv'
<1>1. pc[a] = "catClose" /\ stored' = stored /\ seen' = seen
    BY DEF CatalogClose, At
<1>2. CASE "conn" \in held[a]
  <2>1. held' = [held EXCEPT ![a] = held[a] \ {"conn", "lock"}] /\ Go(a, "catClose")
      BY <1>1, <1>2 DEF CatalogClose, Drop, Go, IInv, TypeOK
  <2> QED
      BY <1>1, <2>1, OneActivity DEF IInv, TypeOK, Backed, Resources
<1>3. CASE "conn" \notin held[a]
  <2> DEFINE h == held[a] \ {"permit"}
  <2>1. /\ held' = [held EXCEPT ![a] = h] /\ Go(a, "build")
        /\ "build" \in IF a \in Sql THEN SqlSteps ELSE HttpSteps
      BY <1>1, <1>3 DEF CatalogClose, Drop, IInv, TypeOK, SqlSteps, HttpSteps
  <2>2. /\ h \in SUBSET Resources /\ h \subseteq held[a]
        /\ "conn" \notin h
        /\ "pool" \in h => "slot" \in h
        /\ "lock" \in h => owner = Nobody
        /\ stored' \in [Activity -> Nat] /\ seen' \in [Activity -> {None, Own, Own + 1}]
      BY <1>1, <1>3 DEF IInv, TypeOK, Backed, Locked
  <2> HIDE DEF h
  <2> QED
      BY <2>1, <2>2, OneActivity
<1> QED
    BY <1>2, <1>3

\* The sink's transaction locks an installation that is in place.
LEMMA SinkFenceInv ==
    ASSUME IInv, UNCHANGED origin, NEW a \in Activity, SinkFence(a)
    PROVE  IInv'
<1>1. PICK to \in (IF a \in Sql THEN SqlSteps ELSE HttpSteps) \cap {"sinkCommit", "unwind"} :
          /\ Go(a, to)
          /\ a \in Local /\ to = "sinkCommit" => owner = Nobody /\ inst = Own
    BY ActivitiesAssumption
    DEF SinkFence, At, Checked, InPlace, Return, IInv, TypeOK, SqlSteps, HttpSteps
<1>2. pc'[a] = to
    BY <1>1 DEF Go, IInv, TypeOK
<1>3. PICK h \in {held[a], held[a] \cup {"lock"}} :
          /\ held' = [held EXCEPT ![a] = h]
          /\ "lock" \in h => owner = Nobody
          /\ a \in Local /\ to = "sinkCommit" => "lock" \in h
    BY <1>1, <1>2 DEF SinkFence, Take, IInv, TypeOK, Locked
<1>4. stored' \in [Activity -> Nat] /\ seen' \in [Activity -> {None, Own, Own + 1}]
    BY DEF SinkFence, IInv, TypeOK
<1>5. /\ h \in SUBSET Resources
      /\ "conn" \in h => "permit" \in h
      /\ "pool" \in h => "slot" \in h
      /\ "permit" \in h => "permit" \in held[a]
      /\ "slot" \in h => "slot" \in held[a]
    BY <1>3 DEF IInv, TypeOK, Backed, Resources
<1>6. /\ to \in IF a \in Sql THEN SqlSteps ELSE HttpSteps
      /\ to \notin {"sqlConnect", "catConnect", "sinkConnect", "send", "run"}
    BY <1>1
<1> QED
    BY <1>1, <1>3, <1>4, <1>5, <1>6, OneActivity

\* The transaction ends and gives its lock back.
LEMMA SinkCommitInv ==
    ASSUME IInv, UNCHANGED origin, NEW a \in Activity, NEW committed \in BOOLEAN,
           NEW answered \in BOOLEAN, SinkCommit(a, committed, answered)
    PROVE  IInv'
<1>1. \E to \in (IF a \in Sql THEN SqlSteps ELSE HttpSteps) \cap {"sinkClose", "unwind"} : Go(a, to)
    BY DEF SinkCommit, At, Return, IInv, TypeOK, SqlSteps, HttpSteps
<1>2. held' = [held EXCEPT ![a] = held[a] \ {"lock"}]
    BY DEF SinkCommit, Drop, IInv, TypeOK
<1>3. stored' \in [Activity -> Nat] /\ seen' = seen
    BY DEF SinkCommit, IInv, TypeOK
<1> QED
    BY <1>1, <1>2, <1>3, OneActivity DEF IInv, TypeOK, Backed, Resources

\* The connection is closed before the permit is given back.
LEMMA SinkCloseInv ==
    ASSUME IInv, UNCHANGED origin, NEW a \in Activity, SinkClose(a)
    PROVE  IInv'
<1> DEFINE h == held[a] \ {"conn"}
<1>1. /\ Go(a, "unwind") /\ "unwind" \in IF a \in Sql THEN SqlSteps ELSE HttpSteps
      /\ held' = [held EXCEPT ![a] = h]
    BY DEF SinkClose, Return, Drop, IInv, TypeOK, SqlSteps, HttpSteps
<1>2. /\ h \in SUBSET Resources /\ h \subseteq held[a]
      /\ "conn" \notin h
      /\ "pool" \in h => "slot" \in h
      /\ "lock" \in h => owner = Nobody
      /\ stored' \in [Activity -> Nat] /\ seen' \in [Activity -> {None, Own, Own + 1}]
    BY DEF SinkClose, IInv, TypeOK, Backed, Locked
<1> HIDE DEF h
<1> QED
    BY <1>1, <1>2, OneActivity

\* What stands for something goes after it.
LEMMA UnwindInv ==
    ASSUME IInv, UNCHANGED origin, NEW a \in Activity, Unwind(a)
    PROVE  IInv'
<1>1. PICK to \in {"unwind", "done"} : Go(a, to)
    BY DEF Unwind, At, Go, IInv, TypeOK
<1>2. to \in IF a \in Sql THEN SqlSteps ELSE HttpSteps
    BY DEF SqlSteps, HttpSteps
<1>3. PICK first \in {{"conn", "lock"}, {"permit"}, {"pool"}, {"slot"}} :
          /\ Drop(a, first)
          /\ "permit" \in first => "conn" \notin held[a]
          /\ "slot" \in first => "pool" \notin held[a]
    BY DEF Unwind
<1> DEFINE h == held[a] \ first
<1>4. /\ held' = [held EXCEPT ![a] = h] /\ h \in SUBSET Resources /\ h \subseteq held[a]
      /\ stored' \in [Activity -> Nat] /\ seen' \in [Activity -> {None, Own, Own + 1}]
    BY <1>3 DEF Unwind, Drop, IInv, TypeOK
<1>5. /\ "conn" \in h => "permit" \in h
      /\ "pool" \in h => "slot" \in h
      /\ "lock" \in h => owner = Nobody
    BY <1>3 DEF IInv, Backed, Locked
<1> HIDE DEF h
<1> QED
    BY <1>1, <1>2, <1>4, <1>5, OneActivity

\* A restart closes every connection; what is stale stays so.
LEMMA CrashInv ==
    ASSUME IInv, UNCHANGED origin, NEW committing \in SUBSET Sinks, WorkerCrash(committing)
    PROVE  IInv'
<1>1. TypeOK'
    BY DEF WorkerCrash, IInv, TypeOK, At, origin, SqlSteps, HttpSteps, Resources
<1>2. Holders("permit")' = {} /\ Holders("slot")' = {}
    BY DEF WorkerCrash, Holders
<1>3. Metered'
    BY <1>2, FS_EmptySet, ActivitiesAssumption DEF Metered
<1>4. Backed' /\ Locked' /\ Revoked' /\ StaleNeverActs'
    BY DEF WorkerCrash, IInv, TypeOK, At, origin, Backed, Locked, Revoked, StaleNeverActs
<1> QED
    BY <1>1, <1>3, <1>4 DEF IInv

\* Calls and their slots touch neither the activities nor the origin.
LEMMA UntouchedInv ==
    ASSUME IInv, UNCHANGED <<actvars, origin>>
    PROVE  IInv'
BY DEF actvars, origin, IInv, TypeOK, Backed, Metered, Locked, Revoked, StaleNeverActs, Holders

\* The exclusive lock waits for the shared ones.
LEMMA LockTablesInv ==
    ASSUME IInv, NEW s \in Sessions, LockTables(s)
    PROVE  IInv'
BY DEF LockTables, actvars, IInv, TypeOK, Backed, Metered, Locked, Revoked, StaleNeverActs, Holders

\* Under the exclusive lock no body is on its way; what is no longer the
\* instances' own installation never is again.
LEMMA EndTransactionInv ==
    ASSUME IInv, NEW s \in Sessions, NEW new \in {None, Own, Own + 1}, EndTransaction(s, new)
    PROVE  IInv'
<1>1. \A a \in Activity : "lock" \notin held[a]
    BY StartsAssumption DEF EndTransaction, IInv, Locked
<1> USE DEF EndTransaction, actvars, IInv
<1>2. TypeOK'
    BY ActivitiesAssumption DEF TypeOK
<1>3. Backed' /\ Metered'
    BY DEF Backed, Metered, Holders
<1>4. Locked'
    BY <1>1 DEF Locked
<1>5. Revoked'
    BY DEF Revoked, None, Own
<1>6. StaleNeverActs'
    BY ActivitiesAssumption DEF StaleNeverActs, BeforeLastCheck, TypeOK, SqlSteps
<1> QED
    BY <1>2, <1>3, <1>4, <1>5, <1>6

\* A revoked privilege is not granted again.
LEMMA RevokeInv ==
    ASSUME IInv, Revoke
    PROVE  IInv'
<1> USE DEF Revoke, actvars, IInv
<1>1. TypeOK'
    BY DEF TypeOK, Activity
<1>2. Backed' /\ Metered' /\ Locked'
    BY DEF Backed, Metered, Locked, Holders
<1>3. Revoked'
    BY DEF Revoked
<1>4. StaleNeverActs'
    BY ActivitiesAssumption DEF StaleNeverActs, BeforeLastCheck
<1> QED
    BY <1>1, <1>2, <1>3, <1>4

\* Every step preserves the inductive invariant.
LEMMA StepInv == IInv /\ [Next]_vars => IInv'
<1> SUFFICES ASSUME IInv, [Next]_vars PROVE IInv'
    OBVIOUS
<1>1. CASE ActNext
  <2>1. ASSUME NEW a \in Activity, ActStep(a) \/ StepFails(a) PROVE IInv'
      BY <1>1, <2>1, MovesInv, TakeSlotInv, TakePermitInv, ConnectInv, CatalogLockInv,
         CatalogCloseInv, SinkFenceInv, SinkCommitInv, SinkCloseInv, UnwindInv
      DEF ActNext, ActStep
  <2> QED
      BY <1>1, <2>1, CrashInv DEF ActNext
<1>2. ASSUME NEW s \in Sessions,
             CallStep(s) \/ LaunchTimesOut(s) \/ \E valid \in BOOLEAN : CallStart(s, valid)
      PROVE  IInv'
    BY <1>2, UntouchedInv
    DEF CallStep, TakeLaunchSlot, InnerStart, CallReturns, LaunchTimesOut, CallStart
<1>3. CASE Settled \/ UNCHANGED vars
    BY <1>3, UntouchedInv DEF Settled, vars
<1> QED
    BY <1>1, <1>2, <1>3, LockTablesInv, EndTransactionInv, RevokeInv DEF Next

\* The inductive invariant holds in every reachable state.
THEOREM Invariance == Spec => []IInv
BY InitInv, StepInv, PTL DEF Spec

\* No limit is exceeded by open connections, for any limits and any number of
\* activities: every way out of an activity closes a connection before it
\* gives back the permit or the slot that stands for it.
THEOREM LimitsKept == Spec => []ConnectionsWithinLimits
<1>1. IInv => ConnectionsWithinLimits
  <2> SUFFICES ASSUME IInv PROVE ConnectionsWithinLimits
      OBVIOUS
  <2>1. Holders("conn") \subseteq Holders("permit") /\ Holders("pool") \subseteq Holders("slot")
      BY DEF IInv, Backed, Holders
  <2>2. /\ Cardinality(Holders("conn")) <= Cardinality(Holders("permit"))
        /\ Cardinality(Holders("pool")) <= Cardinality(Holders("slot"))
      BY <2>1, HoldersFinite, FS_Subset
  <2> QED
      BY <2>2, HoldersFinite, ActivitiesAssumption DEF IInv, Metered, ConnectionsWithinLimits
<1> QED
    BY <1>1, Invariance, PTL

\* An activity that lost its installation or its role's privilege before its
\* last check never runs its statement or sends its request, restarts of the
\* worker between its checks included.
THEOREM StaleStops == Spec => []StaleNeverActs
<1>1. IInv => StaleNeverActs
    BY DEF IInv
<1> QED
    BY <1>1, Invariance, PTL

\* A body is committed only into the installation of its instance, and only a
\* committed body is named in an answer: the sink's transaction locks the
\* installation, and the exclusive lock of DROP EXTENSION waits for it.
THEOREM BodiesInPlace == Spec => BodiesAreInPlace
<1> DEFINE Landed ==
        \A a \in Sinks :
          /\ stored'[a] > stored[a] /\ a \in Local => inst = Own
          /\ pc'[a] = "sinkClose" /\ pc[a] # "sinkClose" => stored'[a] > stored[a]
<1>1. IInv /\ [Next]_vars => [Landed]_vars
  <2> SUFFICES ASSUME IInv, Next, NEW a \in Sinks
               PROVE  /\ stored'[a] > stored[a] /\ a \in Local => inst = Own
                      /\ pc'[a] = "sinkClose" /\ pc[a] # "sinkClose" => stored'[a] > stored[a]
      OBVIOUS
  <2>0. a \in Activity /\ stored[a] \in Nat /\ stored[a] + 1 > stored[a] /\ ~(stored[a] > stored[a])
      BY ActivitiesAssumption DEF Activity, IInv, TypeOK
  <2>1. CASE UNCHANGED actvars
      BY <2>0, <2>1 DEF actvars
  <2>2. ASSUME NEW b \in Activity, ActStep(b) \/ StepFails(b),
               ~\E committed, answered \in BOOLEAN : SinkCommit(b, committed, answered)
        PROVE  stored' = stored /\ (pc'[a] = "sinkClose" => pc[a] = "sinkClose")
    <3>1. stored' = stored
        BY <2>2
        DEF ActStep, Route, TakeSlot, Admit, TakePermit, ConnectAsUser, SqlFence, SqlQuote, RunSql,
            Check, CatalogAttest, CatalogLock, CatalogClose, Build, Send, ReadBody, SinkFence,
            SinkClose, Unwind, StepFails
    <3>2. pc'[a] = "sinkClose" => pc[a] = "sinkClose"
        BY <2>0, <2>2
        DEF IInv, TypeOK, ActStep, Route, TakeSlot, Admit, TakePermit, ConnectAsUser, SqlFence,
            SqlQuote, RunSql, Check, CatalogAttest, CatalogLock, CatalogClose, Build, Send,
            ReadBody, SinkFence, SinkClose, Unwind, StepFails, Go, Return, Checked, Authorized,
            Begin
    <3> QED
        BY <3>1, <3>2
  <2>3. ASSUME NEW b \in Activity, NEW committed \in BOOLEAN, NEW answered \in BOOLEAN,
               SinkCommit(b, committed, answered)
        PROVE  /\ stored'[a] > stored[a] /\ a \in Local => inst = Own
               /\ pc'[a] = "sinkClose" /\ pc[a] # "sinkClose" => stored'[a] > stored[a]
      BY <2>0, <2>3 DEF SinkCommit, At, Go, Return, IInv, TypeOK, Locked
  <2>4. ASSUME NEW committing \in SUBSET Sinks, WorkerCrash(committing)
        PROVE  /\ stored'[a] > stored[a] /\ a \in Local => inst = Own
               /\ pc'[a] = "sinkClose" /\ pc[a] # "sinkClose" => stored'[a] > stored[a]
      BY <2>0, <2>4 DEF WorkerCrash, At, IInv, TypeOK, Locked
  <2>5. CASE ActNext
      BY <2>0, <2>2, <2>3, <2>4, <2>5 DEF ActNext
  <2>6. CASE ~ActNext
      BY <2>1, <2>6
      DEF Next, CallStep, TakeLaunchSlot, InnerStart, CallReturns, LaunchTimesOut, CallStart,
          LockTables, EndTransaction, Revoke, Settled, vars
  <2> QED
      BY <2>5, <2>6
<1> QED
    BY <1>1, Invariance, PTL DEF Spec, BodiesAreInPlace
=============================================================================
