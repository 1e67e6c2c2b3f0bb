----------------------- MODULE WorkerLifecycle_proofs -----------------------
(***************************************************************************)
(* For any number of installations, backends and failing queries: an       *)
(* installation that is marked ready is migrated, and a call of a backend  *)
(* fails only for a cause.  The second rests on the first: the provider is *)
(* accepted where readiness was read because readiness implies migration.  *)
(***************************************************************************)
EXTENDS WorkerLifecycle, TLAPS

\* Steps between the capture of an epoch and the publication of its readiness.
Initializing == {"resolve", "init", "owned", "release", "store", "ready"}

\* The installation has an identity no other one had, the worker's epoch is one
\* that was created, and nothing but a migrated installation is marked ready.
InstallationInv ==
    /\ inst = NoInst \/ inst.oid \in 1 .. epochs
    /\ cap <= epochs
    /\ pc \in Initializing => cap # 0
    /\ pc = "ready" /\ inst.oid = cap => inst.migrated
    /\ inst.ready => inst.migrated

\* What a call has read still holds, or the installation changed under it; a
\* closed connection no call has met is news.
CallInv ==
    \A b \in Backends :
        /\ broken[b] \subseteq news[b]
        /\ call[b] = "provider" =>
              cause[b] \/ (Exists /\ inst.schema = ctl[b].schema /\ inst.migrated)
        /\ call[b] = "use" =>
              cause[b] \/ (Exists /\ inst.schema = cli[b].schema /\ inst.migrated)
        /\ b \notin unexcused

IInv == TypeOK /\ InstallationInv /\ CallInv

-----------------------------------------------------------------------------
\* A step that leaves the backends alone, and of the installation changes
\* neither its schema nor takes back its migration, keeps what calls know.
LEMMA CallsUndisturbed ==
    ASSUME IInv, UNCHANGED backends, Exists => Exists',
           inst'.schema = inst.schema, inst.migrated => inst'.migrated
    PROVE  CallInv'
BY DEF IInv, CallInv, backends

\* CREATE and DROP EXTENSION excuse every call under way.
LEMMA CallsExcused ==
    ASSUME IInv, cause' = Disturbed, UNCHANGED <<call, ctl, cli, broken, news, unexcused>>
    PROVE  CallInv'
<1> SUFFICES ASSUME NEW b \in Backends
             PROVE  /\ broken'[b] \subseteq news'[b]
                    /\ call'[b] \in {"provider", "use"} => cause'[b]
                    /\ b \notin unexcused'
  BY DEF CallInv
<1> QED BY DEF IInv, CallInv, Disturbed, InCall

\* CREATE EXTENSION: the new installation has an oid no worker has captured.
LEMMA CreatePreserves ==
    ASSUME IInv, NEW s \in Schemas, NEW embedded \in BOOLEAN, CreateExtension(s, embedded)
    PROVE  IInv'
<1> USE LifecycleAssumption
<1>1. inst' = [oid |-> epochs + 1, schema |-> s, embedded |-> embedded, migrated |-> FALSE,
               ready |-> FALSE, sentinel |-> "none"]
  BY DEF CreateExtension, NoInst
<1>2. epochs' = epochs + 1 /\ epochs + 1 \in Epochs /\ cap <= epochs /\ cap \in Nat
  BY DEF CreateExtension, IInv, TypeOK, InstallationInv, Epochs
<1>3. cause' \in [Backends -> BOOLEAN]
  BY DEF CreateExtension, Disturbed, IInv, TypeOK
<1>4. TypeOK'
  <2>1. s \in {Legacy, Current} /\ UNCHANGED <<shutdown, faults, pc, cap, schema, rt, sent>>
    BY DEF CreateExtension, worker
  <2>2. inst' \in Installations
    <3>1. CASE embedded = TRUE
      BY <1>1, <1>2, <2>1, <3>1 DEF Installations
    <3>2. CASE embedded = FALSE
      BY <1>1, <1>2, <2>1, <3>2 DEF Installations
    <3> QED BY <3>1, <3>2
  <2> QED
    BY <1>2, <1>3, <2>1, <2>2 DEF CreateExtension, IInv, TypeOK
<1>5. InstallationInv'
  <2>1. UNCHANGED <<pc, cap>>
    BY DEF CreateExtension, worker
  <2>2. inst'.oid = epochs + 1 /\ inst'.ready = FALSE
    BY <1>1, Zenon
  <2> QED
    BY <1>2, <2>1, <2>2 DEF IInv, TypeOK, InstallationInv, Epochs
<1>6. CallInv'
  BY CallsExcused DEF CreateExtension
<1> QED BY <1>4, <1>5, <1>6 DEF IInv

\* DROP EXTENSION: oid 0 is never a captured epoch.
LEMMA DropPreserves == ASSUME IInv, DropExtension PROVE IInv'
<1> USE LifecycleAssumption
<1>1. inst' = NoInst /\ UNCHANGED <<epochs, cap, pc>>
  BY DEF DropExtension, worker
<1>2. cause' \in [Backends -> BOOLEAN]
  BY DEF DropExtension, Disturbed, IInv, TypeOK
<1>3. TypeOK'
  BY <1>1, <1>2 DEF DropExtension, worker, IInv, TypeOK, Epochs, Installations, NoInst
<1>4. InstallationInv'
  BY <1>1 DEF IInv, TypeOK, InstallationInv, Initializing, NoInst
<1>5. CallInv'
  BY CallsExcused DEF DropExtension
<1> QED BY <1>3, <1>4, <1>5 DEF IInv

-----------------------------------------------------------------------------
\* A query either counts as a fault or leaves the count alone.
LEMMA QueryType == ASSUME IInv, NEW f \in BOOLEAN, Query(f) PROVE faults' \in 0 .. MaxFaults
BY LifecycleAssumption DEF IInv, TypeOK, Query

\* What the worker writes to an installation keeps it the installation it is.
LEMMA InstallationWritten ==
    ASSUME IInv, inst' \in Installations, UNCHANGED epochs,
           cap' = cap \/ (cap' = 0 /\ pc' \notin Initializing),
           inst = NoInst => inst' = inst, inst'.oid = inst.oid,
           inst.migrated => inst'.migrated,
           pc' \in Initializing => cap # 0,
           pc' = "ready" /\ inst.oid = cap => inst'.migrated,
           inst'.ready => inst'.migrated
    PROVE  InstallationInv' /\ (Exists => Exists')
<1>0. cap' <= epochs' /\ (pc' = "ready" => cap' = cap)
  BY LifecycleAssumption DEF IInv, TypeOK, InstallationInv, Epochs, Initializing
<1>1. inst = NoInst \/ inst.oid \in 1 .. epochs
  BY DEF IInv, InstallationInv
<1>2. CASE inst = NoInst
  BY <1>0, <1>2 DEF IInv, InstallationInv, Exists
<1>3. CASE inst.oid \in 1 .. epochs
  <2>1. inst'.oid # 0
    BY <1>3 DEF IInv, TypeOK, Epochs
  <2>2. Exists'
    BY <2>1 DEF Exists, NoInst
  <2> QED BY <1>0, <1>3, <2>2 DEF IInv, InstallationInv
<1> QED BY <1>1, <1>2, <1>3

-----------------------------------------------------------------------------
\* A worker step that writes nothing to the installation.
LEMMA ReadingStep ==
    ASSUME IInv, UNCHANGED <<inst, epochs, shutdown, backends>>,
           faults' \in 0 .. MaxFaults, pc' \in StepsOfWorker,
           cap' = cap \/ cap' = inst.oid \/ cap' = 0, schema' \in {Legacy, Current},
           rt' \in {0, rt, cap}, sent' \in BOOLEAN,
           pc' \in Initializing => cap' # 0,
           pc' = "ready" => pc = "ready" /\ cap' = cap
    PROVE  IInv'
<1>1. inst.oid \in Epochs /\ 0 \in Epochs
  BY LifecycleAssumption DEF IInv, TypeOK, Installations, Epochs
<1>2. TypeOK'
  BY <1>1 DEF IInv, TypeOK, backends
<1>3. InstallationInv'
  <2>1. cap' <= epochs
    BY LifecycleAssumption DEF IInv, TypeOK, InstallationInv, NoInst, Epochs
  <2> QED BY <2>1 DEF IInv, InstallationInv
<1>4. CallInv'
  BY CallsUndisturbed DEF Exists
<1> QED BY <1>2, <1>3, <1>4 DEF IInv

\* A worker step that writes to the installation it found.
LEMMA WritingStep ==
    ASSUME IInv, UNCHANGED <<epochs, shutdown, backends>>,
           faults' \in 0 .. MaxFaults, pc' \in StepsOfWorker,
           cap' = cap \/ (cap' = 0 /\ pc' \notin Initializing),
           schema' \in {Legacy, Current}, rt' \in {0, rt}, sent' \in BOOLEAN,
           inst' \in Installations, inst = NoInst => inst' = inst,
           inst'.oid = inst.oid, inst'.schema = inst.schema,
           inst.migrated => inst'.migrated,
           pc' \in Initializing => cap # 0,
           pc' = "ready" /\ inst.oid = cap => inst'.migrated,
           inst'.ready => inst'.migrated
    PROVE  IInv'
<1>1. InstallationInv' /\ (Exists => Exists')
  BY InstallationWritten
<1>2. CallInv'
  BY <1>1, CallsUndisturbed
<1>3. TypeOK'
  <2>1. 0 \in Epochs
    BY LifecycleAssumption DEF Epochs
  <2> QED BY <2>1 DEF IInv, TypeOK, backends
<1> QED BY <1>1, <1>2, <1>3 DEF IInv

\* The steps of the worker that only read.
LEMMA ReadersPreserve ==
    ASSUME IInv, NEW f \in BOOLEAN,
           \/ ConnectPools \/ LoopTop \/ wait_for_extension_creation \/ StartRuntime
           \/ CaptureEpoch(f) \/ ResolveSchema(f) \/ InitCheck(f) \/ CheckOwned(f)
           \/ Revalidate(f) \/ Recheck(f) \/ DropPoll(f)
    PROVE  IInv'
<1> USE DEF Goto, Initializing, StepsOfWorker
<1>0. /\ faults \in 0 .. MaxFaults /\ schema \in {Legacy, Current} /\ sent \in BOOLEAN
      /\ inst.schema \in {Legacy, Current}
      /\ pc \in Initializing => cap # 0
  BY DEF IInv, TypeOK, InstallationInv, Installations
<1>1. CASE ConnectPools
  BY <1>0, <1>1, ReadingStep DEF ConnectPools
<1>2. CASE LoopTop
  BY <1>0, <1>2, ReadingStep DEF LoopTop
<1>3. CASE wait_for_extension_creation
  BY <1>0, <1>3, ReadingStep DEF wait_for_extension_creation
<1>4. CASE StartRuntime
  BY <1>0, <1>4, ReadingStep DEF StartRuntime
<1>5. CASE CaptureEpoch(f)
  BY <1>0, <1>5, QueryType, ReadingStep DEF CaptureEpoch, capture_extension_epoch
<1>6. CASE ResolveSchema(f)
  BY <1>0, <1>6, QueryType, ReadingStep DEF ResolveSchema, resolve_duroxide_schema_pool
<1>7. CASE InitCheck(f)
  BY <1>0, <1>7, QueryType, ReadingStep DEF InitCheck
<1>8. CASE CheckOwned(f)
  BY <1>0, <1>8, QueryType, ReadingStep DEF CheckOwned
<1>9. CASE Revalidate(f)
  BY <1>0, <1>9, QueryType, ReadingStep DEF Revalidate
<1>10. CASE Recheck(f)
  BY <1>0, <1>10, QueryType, ReadingStep DEF Recheck
<1>11. CASE DropPoll(f)
  BY <1>0, <1>11, QueryType, ReadingStep DEF DropPoll
<1> QED BY <1>1, <1>2, <1>3, <1>4, <1>5, <1>6, <1>7, <1>8, <1>9, <1>10, <1>11

\* What the worker may make of an installation: every field keeps its type, and
\* identity and schema stay.
Successor(i, j) ==
    /\ j \in Installations /\ j.oid = i.oid /\ j.schema = i.schema
    /\ i.migrated => j.migrated
    /\ j.ready => j.migrated
    /\ i = NoInst => j = i

\* The updates of the worker, field by field.
LEMMA FieldWrites ==
    ASSUME NEW i \in Installations, i.ready => i.migrated
    PROVE  /\ Successor(i, i)
           /\ i # NoInst => Successor(i, [i EXCEPT !.embedded = FALSE])
           /\ i # NoInst => Successor(i, [i EXCEPT !.migrated = TRUE])
           /\ [i EXCEPT !.migrated = TRUE].migrated
           /\ i # NoInst /\ i.migrated => Successor(i, [i EXCEPT !.ready = TRUE])
           /\ i # NoInst => Successor(i, [i EXCEPT !.sentinel = "none"])
           /\ i # NoInst => Successor(i, [i EXCEPT !.sentinel = "mine"])
           /\ Successor(i, Abandoned(i))
<1>1. Successor(i, i)
  BY DEF Successor
<1>2. /\ i # NoInst => Successor(i, [i EXCEPT !.embedded = FALSE])
      /\ i # NoInst => Successor(i, [i EXCEPT !.migrated = TRUE])
      /\ [i EXCEPT !.migrated = TRUE].migrated
      /\ i # NoInst /\ i.migrated => Successor(i, [i EXCEPT !.ready = TRUE])
  BY DEF Successor, Installations
<1>3. /\ i # NoInst => Successor(i, [i EXCEPT !.sentinel = "none"])
      /\ i # NoInst => Successor(i, [i EXCEPT !.sentinel = "mine"])
  BY DEF Successor, Installations
<1>4. Successor(i, Abandoned(i))
  <2>1. CASE i.sentinel = "mine"
    BY <2>1 DEF Successor, Installations, Abandoned, NoInst
  <2>2. CASE i.sentinel # "mine"
    <3>1. Abandoned(i) = i
      BY <2>2 DEF Installations, Abandoned
    <3> QED BY <3>1, <1>1
  <2> QED BY <2>1, <2>2
<1> QED BY <1>1, <1>2, <1>3, <1>4

\* The steps of the worker that write: release of the embedded objects, the
\* migrations, readiness and sentinel, and the end of a runtime.
LEMMA WritersPreserve ==
    ASSUME IInv, NEW f \in BOOLEAN, NEW r \in {"ok", "look", "alter"},
           \/ ReleaseObjects(r) \/ CreateStore(f) \/ PublishReady(f)
           \/ DeleteSentinel(f) \/ InsertSentinel(f) \/ teardown_runtime \/ WorkerCrash
    PROVE  IInv'
<1>0. /\ faults \in 0 .. MaxFaults /\ schema \in {Legacy, Current} /\ sent \in BOOLEAN
      /\ inst \in Installations
      /\ inst.ready => inst.migrated
      /\ pc \in Initializing => cap # 0
      /\ pc = "ready" /\ inst.oid = cap => inst.migrated
  BY DEF IInv, TypeOK, InstallationInv
<1>w. /\ Successor(inst, inst)
      /\ Exists => Successor(inst, [inst EXCEPT !.embedded = FALSE])
      /\ Exists => Successor(inst, [inst EXCEPT !.migrated = TRUE])
      /\ [inst EXCEPT !.migrated = TRUE].migrated
      /\ Exists /\ inst.migrated => Successor(inst, [inst EXCEPT !.ready = TRUE])
      /\ Exists => Successor(inst, [inst EXCEPT !.sentinel = "none"])
      /\ Exists => Successor(inst, [inst EXCEPT !.sentinel = "mine"])
      /\ Successor(inst, Abandoned(inst))
  BY <1>0, FieldWrites DEF Exists
<1> SUFFICES /\ UNCHANGED <<epochs, shutdown, backends>>
             /\ faults' \in 0 .. MaxFaults /\ pc' \in StepsOfWorker
             /\ cap' = cap \/ (cap' = 0 /\ pc' \notin Initializing)
             /\ schema' \in {Legacy, Current} /\ rt' \in {0, rt} /\ sent' \in BOOLEAN
             /\ Successor(inst, inst')
             /\ pc' \in Initializing => cap # 0
             /\ pc' = "ready" /\ inst.oid = cap => inst'.migrated
  BY WritingStep DEF Successor
<1> USE DEF Goto, Initializing, StepsOfWorker
<1>1. CASE ReleaseObjects(r)
  <2>1. faults' \in 0 .. MaxFaults
    BY <1>1, QueryType DEF ReleaseObjects
  <2> QED
    BY <1>0, <1>1, <2>1, <1>w
       DEF ReleaseObjects, has_extension_owned_duroxide_objects,
           release_extension_owned_duroxide_objects
<1>2. CASE CreateStore(f)
  BY <1>0, <1>2, QueryType, <1>w DEF CreateStore
<1>3. CASE PublishReady(f)
  <2>1. inst.oid = cap => Exists
    BY <1>0, <1>3 DEF PublishReady, Exists, NoInst
  <2> QED
    BY <1>0, <1>3, <2>1, QueryType, <1>w DEF PublishReady, write_worker_ready
<1>4. CASE DeleteSentinel(f)
  BY <1>0, <1>4, QueryType, <1>w DEF DeleteSentinel
<1>5. CASE InsertSentinel(f)
  BY <1>0, <1>5, QueryType, <1>w DEF InsertSentinel
<1>6. CASE teardown_runtime
  BY <1>0, <1>6, <1>w DEF teardown_runtime
<1>7. CASE WorkerCrash
  <2>1. faults' \in 0 .. MaxFaults
    BY <1>0, <1>7, LifecycleAssumption DEF WorkerCrash
  <2> QED
    BY <1>0, <1>7, <2>1, <1>w DEF WorkerCrash
<1> QED BY <1>1, <1>2, <1>3, <1>4, <1>5, <1>6, <1>7

-----------------------------------------------------------------------------
\* The entries of a call have their types.
CallTypes ==
    /\ call \in [Backends -> {"idle", "control", "readiness", "provider", "use"}]
    /\ ctl \in [Backends -> States] /\ cli \in [Backends -> States]
    /\ broken \in [Backends -> SUBSET {"control", "provider"}]
    /\ news \in [Backends -> SUBSET {"control", "provider"}]
    /\ cause \in [Backends -> BOOLEAN]

\* The entries of the other backends stay.
Only(b) ==
    \A c \in Backends \ {b} :
        /\ call'[c] = call[c] /\ ctl'[c] = ctl[c] /\ cli'[c] = cli[c]
        /\ broken'[c] = broken[c] /\ news'[c] = news[c] /\ cause'[c] = cause[c]

\* A step of one backend, with what its call knows afterwards.
LEMMA OneCall ==
    ASSUME IInv, NEW b \in Backends, UNCHANGED <<inst, epochs, shutdown, worker, unexcused>>,
           faults' \in 0 .. MaxFaults, CallTypes', Only(b),
           broken'[b] \subseteq news'[b],
           call'[b] = "provider" =>
              cause'[b] \/ (Exists /\ inst.schema = ctl'[b].schema /\ inst.migrated),
           call'[b] = "use" =>
              cause'[b] \/ (Exists /\ inst.schema = cli'[b].schema /\ inst.migrated)
    PROVE  IInv'
<1>1. TypeOK'
  BY DEF IInv, TypeOK, CallTypes, worker
<1>2. InstallationInv'
  BY DEF IInv, InstallationInv, worker
<1>3. CallInv'
  <2> SUFFICES ASSUME NEW c \in Backends
               PROVE  /\ broken'[c] \subseteq news'[c]
                      /\ call'[c] = "provider" =>
                            cause'[c] \/ (Exists' /\ inst'.schema = ctl'[c].schema /\ inst'.migrated)
                      /\ call'[c] = "use" =>
                            cause'[c] \/ (Exists' /\ inst'.schema = cli'[c].schema /\ inst'.migrated)
                      /\ c \notin unexcused'
    BY DEF CallInv
  <2>1. CASE c = b
    BY <2>1 DEF IInv, CallInv, Exists
  <2>2. CASE c # b
    BY <2>2 DEF IInv, CallInv, Only, Exists
  <2> QED BY <2>1, <2>2
<1> QED BY <1>1, <1>2, <1>3 DEF IInv

\* A call that ends with a cause: only its own entries change.
LEMMA EndsExcused ==
    ASSUME IInv, NEW b \in Backends, NEW how, NEW reason, EndCall(b, how, reason),
           how = "ok" \/ cause[b] \/ reason \/ how \in news[b]
    PROVE  /\ UNCHANGED unexcused
           /\ call' = [call EXCEPT ![b] = "idle"] /\ ctl' = [ctl EXCEPT ![b] = NoState]
           /\ cause' = [cause EXCEPT ![b] = FALSE]
           /\ news' = [news EXCEPT ![b] = @ \ {how}]
BY Zenon DEF EndCall

\* A control lookup that fails: on a closed connection, or for a reason.
LEMMA LookupPreserves ==
    ASSUME IInv, NEW b \in Backends, NEW f \in BOOLEAN, NEW reason \in BOOLEAN,
           LookupFails(b, f, reason), f \/ "control" \in broken[b] \/ reason,
           faults' \in 0 .. MaxFaults, UNCHANGED unaffected
    PROVE  IInv'
<1> DEFINE how == IF "control" \in broken[b] THEN "control" ELSE "failed"
<1>1. EndCall(b, how, f \/ reason)
  BY DEF LookupFails
<1>2. broken[b] \subseteq news[b]
  BY DEF IInv, CallInv
<1>3. (f \/ reason) \/ how \in news[b]
  BY <1>2
<1>4. /\ UNCHANGED unexcused
      /\ call' = [call EXCEPT ![b] = "idle"] /\ ctl' = [ctl EXCEPT ![b] = NoState]
      /\ cause' = [cause EXCEPT ![b] = FALSE]
      /\ news' = [news EXCEPT ![b] = @ \ {how}]
  BY <1>1, <1>3, EndsExcused
<1>5. /\ broken' = [broken EXCEPT ![b] = @ \ {"control", "provider"}]
      /\ cli' = [cli EXCEPT ![b] = NoState]
  BY DEF LookupFails, Forget, CacheClient
<1>6. NoState \in States
  BY LifecycleAssumption DEF NoState, States, Epochs
<1>7. CallTypes'
  BY <1>4, <1>5, <1>6 DEF IInv, TypeOK, CallTypes
<1>8. Only(b)
  BY <1>4, <1>5 DEF IInv, TypeOK, Only
<1>9. broken'[b] \subseteq news'[b] /\ call'[b] = "idle"
  BY <1>4, <1>5 DEF IInv, TypeOK
<1> QED BY <1>4, <1>7, <1>8, <1>9, OneCall DEF unaffected

\* The first query of a call, for the installation.
LEMMA ReadInstallationPreserves ==
    ASSUME IInv, NEW b \in Backends, NEW f \in BOOLEAN, ReadInstallation(b, f)
    PROVE  IInv'
<1>1. faults' \in 0 .. MaxFaults /\ UNCHANGED unaffected
  BY QueryType DEF ReadInstallation
<1>2. CASE f \/ "control" \in broken[b] \/ ~Exists
  <2>1. LookupFails(b, f, ~Exists)
    BY <1>2 DEF ReadInstallation
  <2> QED BY <1>1, <1>2, <2>1, LookupPreserves
<1>3. CASE ~(f \/ "control" \in broken[b] \/ ~Exists)
  <2>1. /\ ctl' = [ctl EXCEPT ![b] = [oid |-> inst.oid, schema |-> inst.schema, ready |-> FALSE]]
        /\ call' = [call EXCEPT ![b] = "readiness"]
        /\ UNCHANGED <<cli, broken, news, cause, unexcused>>
    BY <1>3 DEF ReadInstallation
  <2>2. [oid |-> inst.oid, schema |-> inst.schema, ready |-> FALSE] \in States
    BY DEF IInv, TypeOK, Installations, States
  <2>3. CallTypes' /\ Only(b)
    BY <2>1, <2>2 DEF IInv, TypeOK, CallTypes, Only
  <2>4. broken'[b] \subseteq news'[b] /\ call'[b] = "readiness"
    BY <2>1 DEF IInv, TypeOK, CallInv
  <2> QED BY <1>1, <2>1, <2>3, <2>4, OneCall DEF unaffected
<1> QED BY <1>2, <1>3

\* The second query, for readiness, and the choice of the client.
LEMMA ReadReadyPreserves ==
    ASSUME IInv, NEW b \in Backends, NEW f \in BOOLEAN, ReadReady(b, f)
    PROVE  IInv'
<1> DEFINE state == [ctl[b] EXCEPT !.ready = TRUE]
           ready == Exists /\ inst.schema = ctl[b].schema /\ inst.ready
           kept == KeptClient(b, state)
<1>1. faults' \in 0 .. MaxFaults /\ UNCHANGED unaffected
  BY QueryType DEF ReadReady
<1>2. CASE f \/ "control" \in broken[b] \/ ~ready
  <2>1. LookupFails(b, f, ~ready)
    BY <1>2 DEF ReadReady
  <2> QED BY <1>1, <1>2, <2>1, LookupPreserves
<1>3. CASE ~(f \/ "control" \in broken[b] \/ ~ready)
  <2>1. /\ ctl' = [ctl EXCEPT ![b] = state]
        /\ cli' = [cli EXCEPT ![b] = kept]
        /\ broken' = [broken EXCEPT ![b] = @ \ (IF kept = NoState THEN {"provider"} ELSE {})]
        /\ call' = [call EXCEPT ![b] = IF kept = NoState THEN "provider" ELSE "use"]
        /\ UNCHANGED <<news, cause, unexcused>>
    BY <1>3 DEF ReadReady, CacheClient, Forget
  <2>2. /\ state \in States /\ state.schema = ctl[b].schema
        /\ NoState \in States /\ cli[b] \in States
        /\ kept \in States
    <3>1. ctl[b] \in States /\ cli[b] \in States
      BY DEF IInv, TypeOK
    <3>2. NoState \in States
      BY LifecycleAssumption DEF States, Epochs, NoState
    <3> QED BY <3>1, <3>2 DEF States, KeptClient
  <2>3. CallTypes' /\ Only(b)
    BY <2>1, <2>2 DEF IInv, TypeOK, CallTypes, Only
  <2>4. broken'[b] \subseteq news'[b]
    BY <2>1 DEF IInv, TypeOK, CallInv
  <2>5. Exists /\ inst.schema = state.schema /\ inst.migrated
    BY <1>3, <2>2 DEF IInv, InstallationInv
  <2>6. ctl'[b] = state /\ cli'[b] = kept
        /\ call'[b] = IF kept = NoState THEN "provider" ELSE "use"
    BY <2>1 DEF IInv, TypeOK
  <2>7. call'[b] = "use" => cli'[b] = state
    BY <2>6 DEF KeptClient
  <2> QED BY <1>1, <2>1, <2>3, <2>4, <2>5, <2>6, <2>7, OneCall DEF unaffected
<1> QED BY <1>2, <1>3

\* The provider is refused only where the migrations are missing, which a call
\* that read readiness meets only after a change.
LEMMA ProviderPreserves ==
    ASSUME IInv, NEW b \in Backends, NEW f \in BOOLEAN, new_backend_provider(b, f)
    PROVE  IInv'
<1>1. /\ faults' \in 0 .. MaxFaults /\ UNCHANGED unaffected
      /\ broken' = [broken EXCEPT ![b] = @ \ {"provider"}]
  BY QueryType DEF new_backend_provider, Forget
<1>2. call[b] = "provider"
  BY DEF new_backend_provider
<1>3. broken[b] \subseteq news[b]
  BY DEF IInv, CallInv
<1>4. CASE ~f /\ Exists /\ inst.schema = ctl[b].schema /\ inst.migrated
  <2>1. /\ cli' = [cli EXCEPT ![b] = ctl[b]]
        /\ call' = [call EXCEPT ![b] = "use"]
        /\ UNCHANGED <<ctl, news, cause, unexcused>>
    BY <1>4 DEF new_backend_provider, CacheClient
  <2>2. CallTypes' /\ Only(b)
    BY <1>1, <2>1 DEF IInv, TypeOK, CallTypes, Only
  <2>3. broken'[b] \subseteq news'[b] /\ call'[b] = "use" /\ cli'[b] = ctl[b]
    BY <1>1, <1>3, <2>1 DEF IInv, TypeOK
  <2> QED BY <1>1, <1>4, <2>1, <2>2, <2>3, OneCall DEF unaffected
<1>5. CASE ~(~f /\ Exists /\ inst.schema = ctl[b].schema /\ inst.migrated)
  <2>1. EndCall(b, "failed", f) /\ UNCHANGED cli
    BY <1>5 DEF new_backend_provider
  <2>2. cause[b] \/ f
    BY <1>2, <1>5 DEF IInv, CallInv
  <2>3. /\ UNCHANGED unexcused
        /\ call' = [call EXCEPT ![b] = "idle"] /\ ctl' = [ctl EXCEPT ![b] = NoState]
        /\ cause' = [cause EXCEPT ![b] = FALSE]
        /\ news' = [news EXCEPT ![b] = @ \ {"failed"}]
    BY <2>1, <2>2, EndsExcused
  <2>4. NoState \in States
    BY LifecycleAssumption DEF NoState, States, Epochs
  <2>5. CallTypes' /\ Only(b)
    BY <1>1, <2>1, <2>3, <2>4 DEF IInv, TypeOK, CallTypes, Only
  <2>6. broken'[b] \subseteq news'[b] /\ call'[b] = "idle"
    BY <1>1, <1>3, <2>3 DEF IInv, TypeOK
  <2> QED BY <1>1, <2>3, <2>5, <2>6, OneCall DEF unaffected
<1> QED BY <1>4, <1>5

\* The operation itself.
LEMMA UsePreserves == ASSUME IInv, NEW b \in Backends, UseClient(b) PROVE IInv'
<1>1. /\ call[b] = "use" /\ EndCall(b, Outcome(b), FALSE)
      /\ cli' = [cli EXCEPT ![b] = IF Outcome(b) = "provider" THEN NoState ELSE cli[b]]
      /\ broken' = [broken EXCEPT ![b] = @ \ {Outcome(b)}]
      /\ UNCHANGED <<unaffected, faults>>
  BY DEF UseClient, CacheClient, Forget
<1>2. broken[b] \subseteq news[b]
  BY DEF IInv, CallInv
<1>3. Outcome(b) = "ok" \/ cause[b] \/ Outcome(b) \in news[b]
  BY <1>1, <1>2 DEF Outcome, IInv, CallInv
<1>4. /\ UNCHANGED unexcused
      /\ call' = [call EXCEPT ![b] = "idle"] /\ ctl' = [ctl EXCEPT ![b] = NoState]
      /\ cause' = [cause EXCEPT ![b] = FALSE]
      /\ news' = [news EXCEPT ![b] = @ \ {Outcome(b)}]
  BY <1>1, <1>3, EndsExcused
<1>5. NoState \in States
  BY LifecycleAssumption DEF NoState, States, Epochs
<1>6. CallTypes' /\ Only(b)
  BY <1>1, <1>4, <1>5 DEF IInv, TypeOK, CallTypes, Only
<1>7. broken'[b] \subseteq news'[b] /\ call'[b] = "idle"
  BY <1>1, <1>2, <1>4 DEF IInv, TypeOK
<1>8. faults' \in 0 .. MaxFaults
  BY <1>1 DEF IInv, TypeOK
<1> QED BY <1>1, <1>4, <1>6, <1>7, <1>8, OneCall DEF unaffected

\* A call begins, or a connection is closed under a backend.
LEMMA BeginsPreserve ==
    ASSUME IInv, NEW b \in Backends, NEW k \in {"control", "provider"},
           BeginCall(b) \/ LoseConnection(b, k)
    PROVE  IInv'
<1>1. CASE BeginCall(b)
  <2>1. call' = [call EXCEPT ![b] = "control"]
        /\ UNCHANGED <<unaffected, faults, ctl, cli, broken, news, cause, unexcused>>
    BY <1>1 DEF BeginCall
  <2>2. CallTypes' /\ Only(b)
    BY <2>1 DEF IInv, TypeOK, CallTypes, Only
  <2>3. broken'[b] \subseteq news'[b] /\ call'[b] = "control" /\ faults' \in 0 .. MaxFaults
    BY <2>1 DEF IInv, TypeOK, CallInv
  <2> QED BY <2>1, <2>2, <2>3, OneCall DEF unaffected
<1>2. CASE LoseConnection(b, k)
  <2>1. /\ broken' = [broken EXCEPT ![b] = @ \cup {k}]
        /\ news' = [news EXCEPT ![b] = @ \cup {k}]
        /\ UNCHANGED <<unaffected, call, ctl, cli, cause, unexcused>>
    BY <1>2 DEF LoseConnection
  <2>2. CallTypes' /\ Only(b)
    BY <2>1 DEF IInv, TypeOK, CallTypes, Only
  <2>3. broken'[b] \subseteq news'[b]
    BY <2>1 DEF IInv, TypeOK, CallInv
  <2>4. faults' \in 0 .. MaxFaults
    BY <1>2, LifecycleAssumption DEF LoseConnection, IInv, TypeOK
  <2>5. /\ call[b] = "provider" =>
              cause[b] \/ (Exists /\ inst.schema = ctl[b].schema /\ inst.migrated)
        /\ call[b] = "use" =>
              cause[b] \/ (Exists /\ inst.schema = cli[b].schema /\ inst.migrated)
    BY DEF IInv, CallInv
  <2> QED BY <2>1, <2>2, <2>3, <2>4, <2>5, OneCall DEF unaffected
<1> QED BY <1>1, <1>2

-----------------------------------------------------------------------------
\* Every step of the installation, the worker and the backends.
LEMMA IInvPreserved == IInv /\ [Next]_vars => IInv'
<1> SUFFICES ASSUME IInv, [Next]_vars PROVE IInv'
  OBVIOUS
<1>1. CASE \E s \in Schemas, embedded \in BOOLEAN : CreateExtension(s, embedded)
  BY <1>1, CreatePreserves
<1>2. CASE DropExtension
  BY <1>2, DropPreserves
<1>3. CASE RequestShutdown
  <2>1. shutdown' \in BOOLEAN /\ UNCHANGED <<inst, epochs, faults, worker, backends>>
    BY <1>3, Zenon DEF RequestShutdown
  <2>2. TypeOK'
    BY <2>1 DEF IInv, TypeOK, worker, backends
  <2>3. InstallationInv'
    BY <2>1 DEF IInv, InstallationInv, worker
  <2>4. CallInv'
    BY <2>1, CallsUndisturbed DEF Exists
  <2> QED BY <2>2, <2>3, <2>4 DEF IInv
<1>4. CASE WorkerCrash
  BY <1>4, WritersPreserve
<1>5. CASE WorkerStep(BOOLEAN, {"ok", "look", "alter"})
  BY <1>5, ReadersPreserve, WritersPreserve DEF WorkerStep
<1>6. CASE \E b \in Backends :
              BackendStep(b) \/ \E k \in {"control", "provider"} : LoseConnection(b, k)
  BY <1>6, ReadInstallationPreserves, ReadReadyPreserves, ProviderPreserves, UsePreserves,
     BeginsPreserve DEF BackendStep
<1>7. CASE UNCHANGED vars
  BY <1>7 DEF vars, worker, backends, IInv, TypeOK, InstallationInv, CallInv, Exists
<1> QED BY <1>1, <1>2, <1>3, <1>4, <1>5, <1>6, <1>7 DEF Next

\* The invariant holds of every behaviour.
THEOREM Invariance == Spec => []IInv
<1>1. Init => IInv
  <2> SUFFICES ASSUME Init PROVE IInv
    OBVIOUS
  <2>1. NoState \in States /\ NoInst \in Installations
    BY LifecycleAssumption DEF NoState, States, NoInst, Installations, Epochs
  <2>2. shutdown \in BOOLEAN /\ sent \in BOOLEAN /\ cause \in [Backends -> BOOLEAN]
    BY Zenon DEF Init
  <2>3. TypeOK
    BY <2>1, <2>2, LifecycleAssumption DEF Init, TypeOK, Epochs, StepsOfWorker
  <2>4. InstallationInv
    BY DEF Init, InstallationInv, NoInst, Initializing
  <2>5. CallInv
    BY DEF Init, CallInv
  <2> QED BY <2>3, <2>4, <2>5 DEF IInv
<1> QED BY <1>1, IInvPreserved, PTL DEF Spec

\* write_worker_ready never certifies an installation without the provider's
\* tables, however often the extension is dropped and created around it.
THEOREM ReadyImpliesMigrated == Spec => []ReadyIsMigrated
<1>1. IInv => ReadyIsMigrated
  BY DEF IInv, InstallationInv, ReadyIsMigrated
<1> QED BY <1>1, Invariance, PTL

\* with_backend_client never fails for what it has cached.
THEOREM FailuresHaveCauses == Spec => []CallsFailWithCause
<1>1. IInv => CallsFailWithCause
  BY DEF IInv, TypeOK, CallInv, CallsFailWithCause
<1> QED BY <1>1, Invariance, PTL
=============================================================================
