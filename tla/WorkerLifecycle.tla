-------------------------- MODULE WorkerLifecycle --------------------------
(***************************************************************************)
(* The control installation and the two kinds of process that hold on to   *)
(* one: the background worker, which builds a runtime for the installation *)
(* it captured, and client backends, which cache an engine client.         *)
(*                                                                         *)
(* DROP EXTENSION and CREATE EXTENSION may come between any two of their   *)
(* statements.  Every installation ("epoch") has its own oid; its provider *)
(* schema is the legacy one or the current one.  Every query of worker and *)
(* backend is a step; a query may fail at most MaxFaults times in all.     *)
(***************************************************************************)
EXTENDS Naturals, FiniteSets

CONSTANTS
    Backends,   \* client backends of a satellite database
    Schemas,    \* the provider schemas an installation may have
    MaxEpochs,  \* bound: CREATE EXTENSIONs in a behaviour
    MaxFaults   \* bound: failed queries, lost connections and worker crashes

Legacy == "duroxide"
Current == "_duroxide"

ASSUME LifecycleAssumption ==
    /\ IsFiniteSet(Backends)
    /\ Schemas \subseteq {Legacy, Current}
    /\ MaxEpochs \in Nat /\ MaxFaults \in Nat

VARIABLES
    inst,       \* the control installation
    epochs,     \* installations created so far
    shutdown,   \* PostgreSQL has asked the worker to stop
    faults,
    pc,         \* the next step of the worker
    cap,        \* the epoch it captured
    schema,     \* the provider schema it resolved
    rt,         \* the epoch its runtime was started for, 0 when it has none
    sent,       \* it holds the identifier of a sentinel it wrote
    call,       \* call[b]: where with_backend_client is in backend b
    ctl,        \* ctl[b]: the control state the call has read
    cli,        \* cli[b]: the control state the cached client was made for
    broken,     \* broken[b]: cached connections the server has closed
    news,       \* news[b]: the losses no call has met yet
    cause,      \* cause[b]: the installation changed during the call
    unexcused   \* backends that have had a call fail without a cause

worker == <<pc, cap, schema, rt, sent>>
backends == <<call, ctl, cli, broken, news, cause, unexcused>>
vars == <<inst, epochs, shutdown, faults, worker, backends>>

NoInst == [oid |-> 0, schema |-> Legacy, embedded |-> FALSE, migrated |-> FALSE,
           ready |-> FALSE, sentinel |-> "none"]
NoState == [oid |-> 0, schema |-> Legacy, ready |-> FALSE]
Exists == inst # NoInst

\* A query that answers, or one that fails.
Query(f) == IF f THEN faults < MaxFaults /\ faults' = faults + 1 ELSE UNCHANGED faults

Goto(s) == pc' = s
StepsOfWorker == {"pools", "loop", "wait", "capture", "resolve", "init", "owned", "release",
                  "store", "ready", "start", "revalidate", "delete", "insert", "recheck",
                  "processing", "teardown", "exited"}

---------------------------------------------------------------------------
(* The installation. *)

InCall == {b \in Backends : call[b] # "idle"}
Disturbed == [b \in Backends |-> cause[b] \/ b \in InCall]

\* An installation made from version 0.1.1 owns the embedded engine objects.
CreateExtension(s, embedded) ==
    /\ ~Exists /\ epochs < MaxEpochs
    /\ embedded => s = Legacy
    /\ epochs' = epochs + 1
    /\ inst' = [NoInst EXCEPT !.oid = epochs + 1, !.schema = s, !.embedded = embedded]
    /\ cause' = Disturbed
    /\ UNCHANGED <<shutdown, faults, worker, call, ctl, cli, broken, news, unexcused>>

\* Tables, readiness record and sentinel go with the installation.
DropExtension ==
    /\ Exists
    /\ inst' = NoInst
    /\ cause' = Disturbed
    /\ UNCHANGED <<epochs, shutdown, faults, worker, call, ctl, cli, broken, news, unexcused>>

RequestShutdown ==
    /\ ~shutdown
    /\ shutdown' = TRUE
    /\ UNCHANGED <<inst, epochs, faults, worker, backends>>

\* A later incarnation of the worker writes a sentinel of its own.
Abandoned(i) == [i EXCEPT !.sentinel = IF @ = "mine" THEN "old" ELSE @]

WorkerCrash ==
    /\ pc # "exited" /\ faults < MaxFaults
    /\ faults' = faults + 1
    /\ pc' = "pools" /\ cap' = 0 /\ schema' = Legacy /\ rt' = 0 /\ sent' = FALSE
    /\ inst' = Abandoned(inst)
    /\ UNCHANGED <<epochs, shutdown, backends>>

---------------------------------------------------------------------------
(* The worker: run_duroxide_runtime. *)

ConnectPools ==
    /\ pc = "pools"
    /\ Goto(IF shutdown THEN "exited" ELSE "loop")
    /\ UNCHANGED <<inst, epochs, shutdown, faults, cap, schema, rt, sent, backends>>

LoopTop ==
    /\ pc = "loop"
    /\ Goto(IF shutdown THEN "exited" ELSE "wait")
    /\ UNCHANGED <<inst, epochs, shutdown, faults, cap, schema, rt, sent, backends>>

\* A failed existence query reads as "absent".
check_extension_exists(f) == ~f /\ Exists

wait_for_extension_creation ==
    /\ pc = "wait"
    /\ shutdown \/ check_extension_exists(FALSE)
    /\ Goto(IF shutdown THEN "exited" ELSE "capture")
    /\ UNCHANGED <<inst, epochs, shutdown, faults, cap, schema, rt, sent, backends>>

\* The oid of pg_extension; an absent installation is not an error.
capture_extension_epoch(f) ==
    IF f THEN [err |-> TRUE, oid |-> 0] ELSE [err |-> FALSE, oid |-> inst.oid]

CaptureEpoch(f) ==
    /\ pc = "capture"
    /\ Query(f)
    /\ cap' = capture_extension_epoch(f).oid
    /\ Goto(IF capture_extension_epoch(f).oid # 0 THEN "resolve" ELSE "loop")
    /\ UNCHANGED <<inst, epochs, shutdown, schema, rt, sent, backends>>

\* Every failure, and an absent helper, fall back to the legacy schema.
resolve_duroxide_schema_pool(f) == IF f \/ ~Exists THEN Legacy ELSE inst.schema

ResolveSchema(f) ==
    /\ pc = "resolve"
    /\ Query(f)
    /\ schema' = resolve_duroxide_schema_pool(f)
    /\ Goto("init")
    /\ UNCHANGED <<inst, epochs, shutdown, cap, rt, sent, backends>>

\* The retry loop of initialize_duroxide_runtime.
InitCheck(f) ==
    /\ pc = "init"
    /\ Query(f)
    /\ Goto(IF ~shutdown /\ check_extension_exists(f) THEN "owned" ELSE "loop")
    /\ UNCHANGED <<inst, epochs, shutdown, cap, schema, rt, sent, backends>>

check_duroxide_schema_owned(f) == ~f /\ Exists /\ inst.schema = schema

CheckOwned(f) ==
    /\ pc = "owned"
    /\ Query(f)
    /\ Goto(IF check_duroxide_schema_owned(f) THEN "release" ELSE "init")
    /\ UNCHANGED <<inst, epochs, shutdown, cap, schema, rt, sent, backends>>

\* Objects of the extension in the schema; a failed look finds none.
has_extension_owned_duroxide_objects(f) ==
    ~f /\ Exists /\ inst.schema = schema /\ inst.embedded

\* Triggers, functions, tables, indexes and sequences leave the extension in
\* one statement.
release_extension_owned_duroxide_objects(i) == [i EXCEPT !.embedded = FALSE]

\* The look may fail, or the release after it.
ReleaseObjects(f) ==
    /\ pc = "release"
    /\ Query(f # "ok")
    /\ LET found == has_extension_owned_duroxide_objects(f = "look")
       IN  /\ f = "alter" => found
           /\ inst' = IF found /\ f = "ok"
                    THEN release_extension_owned_duroxide_objects(inst) ELSE inst
           /\ Goto(IF f = "alter" THEN "init" ELSE "store")
    /\ UNCHANGED <<epochs, shutdown, cap, schema, rt, sent, backends>>

\* The provider applies its migrations to the schema it is given, which must
\* not hold objects of the extension.
CreateStore(f) ==
    /\ pc = "store"
    /\ Query(f)
    /\ IF ~f /\ Exists /\ inst.schema = schema /\ ~inst.embedded
       THEN inst' = [inst EXCEPT !.migrated = TRUE] /\ Goto("ready")
       ELSE inst' = inst /\ Goto("init")
    /\ UNCHANGED <<epochs, shutdown, cap, schema, rt, sent, backends>>

\* Mutant: readiness is published for whatever installation is there.
AnyEpochReady(f, i) == IF ~f /\ Exists THEN [i EXCEPT !.ready = TRUE] ELSE i

\* One transaction: the table locks keep the installation that the epoch is
\* compared with from being dropped before the record is committed.
write_worker_ready(f, i) == IF ~f /\ i.oid = cap THEN [i EXCEPT !.ready = TRUE] ELSE i

\* A refused publication gives the initialization up.
PublishReady(f) ==
    /\ pc = "ready"
    /\ Query(f)
    /\ inst' = write_worker_ready(f, inst)
    /\ Goto(IF ~f /\ inst.oid = cap THEN "start" ELSE "loop")
    /\ UNCHANGED <<epochs, shutdown, cap, schema, rt, sent, backends>>

StartRuntime ==
    /\ pc = "start"
    /\ rt' = cap
    /\ Goto("revalidate")
    /\ UNCHANGED <<inst, epochs, shutdown, faults, cap, schema, sent, backends>>

\* A failed read reports "not replaced".
extension_epoch_replaced(f) ==
    LET read == capture_extension_epoch(f) IN ~read.err /\ read.oid # cap

Revalidate(f) ==
    /\ pc = "revalidate"
    /\ Query(f)
    /\ Goto(IF extension_epoch_replaced(f) THEN "teardown" ELSE "delete")
    /\ UNCHANGED <<inst, epochs, shutdown, cap, schema, rt, sent, backends>>

\* write_epoch_sentinel is two statements.
DeleteSentinel(f) ==
    /\ pc = "delete"
    /\ Query(f)
    /\ IF ~f /\ Exists
       THEN inst' = [inst EXCEPT !.sentinel = "none"] /\ Goto("insert")
       ELSE inst' = inst /\ Goto("recheck")
    /\ UNCHANGED <<epochs, shutdown, cap, schema, rt, sent, backends>>

InsertSentinel(f) ==
    /\ pc = "insert"
    /\ Query(f)
    /\ IF ~f /\ Exists
       THEN inst' = [inst EXCEPT !.sentinel = "mine"] /\ sent' = TRUE
       ELSE inst' = inst /\ sent' = FALSE
    /\ Goto("recheck")
    /\ UNCHANGED <<epochs, shutdown, cap, schema, rt, backends>>

\* Mutant: the sentinel is trusted from the moment it is written.
NoRecheck(f) ==
    /\ pc = "recheck"
    /\ Query(f)
    /\ Goto("processing")
    /\ UNCHANGED <<inst, epochs, shutdown, cap, schema, rt, sent, backends>>

Recheck(f) ==
    /\ pc = "recheck"
    /\ Query(f)
    /\ Goto(IF extension_epoch_replaced(f) THEN "teardown" ELSE "processing")
    /\ UNCHANGED <<inst, epochs, shutdown, cap, schema, rt, sent, backends>>

\* A failed query reads as "gone".
check_epoch_sentinel(f) == ~f /\ inst.sentinel = "mine"
StillValid(f) == IF sent THEN check_epoch_sentinel(f) ELSE check_extension_exists(f)

\* Mutant: a processing worker does not look at the shutdown flag.
DeafPoll(f) ==
    /\ pc = "processing"
    /\ Query(f)
    /\ ~StillValid(f)
    /\ Goto("teardown")
    /\ UNCHANGED <<inst, epochs, shutdown, cap, schema, rt, sent, backends>>

\* run_until_extension_dropped_or_shutdown, apart from its maintenance.
DropPoll(f) ==
    /\ pc = "processing"
    /\ Query(f)
    /\ shutdown \/ ~StillValid(f)
    /\ Goto("teardown")
    /\ UNCHANGED <<inst, epochs, shutdown, cap, schema, rt, sent, backends>>

\* Runtime and provider pool are gone before the worker goes on.
teardown_runtime ==
    /\ pc = "teardown"
    /\ rt' = 0 /\ sent' = FALSE
    /\ inst' = Abandoned(inst)
    /\ Goto("loop")
    /\ UNCHANGED <<epochs, shutdown, faults, cap, schema, backends>>

\* The worker's steps, with the given outcomes of its queries.
WorkerStep(failed, release) ==
    \/ ConnectPools \/ LoopTop \/ wait_for_extension_creation
    \/ \E f \in failed :
          \/ CaptureEpoch(f) \/ ResolveSchema(f)
          \/ InitCheck(f) \/ CheckOwned(f)
          \/ CreateStore(f) \/ PublishReady(f)
          \/ Revalidate(f) \/ DeleteSentinel(f) \/ InsertSentinel(f) \/ Recheck(f)
          \/ DropPoll(f)
    \/ \E f \in release : ReleaseObjects(f)
    \/ StartRuntime \/ teardown_runtime

---------------------------------------------------------------------------
(* with_backend_client in a backend of a satellite database. *)

unaffected == <<inst, epochs, shutdown, worker>>

\* The server closes a connection the backend has cached.
LoseConnection(b, k) ==
    /\ faults < MaxFaults /\ k \notin broken[b]
    /\ faults' = faults + 1
    /\ broken' = [broken EXCEPT ![b] = @ \cup {k}]
    /\ news' = [news EXCEPT ![b] = @ \cup {k}]
    /\ UNCHANGED <<unaffected, call, ctl, cli, cause, unexcused>>

BeginCall(b) ==
    /\ call[b] = "idle"
    /\ call' = [call EXCEPT ![b] = "control"]
    /\ UNCHANGED <<unaffected, faults, ctl, cli, broken, news, cause, unexcused>>

\* The call ends: well, or for a reason of its own, or on a lost connection k.
\* A lost connection excuses one failure.
EndCall(b, how, reason) ==
    /\ call' = [call EXCEPT ![b] = "idle"]
    /\ ctl' = [ctl EXCEPT ![b] = NoState]
    /\ cause' = [cause EXCEPT ![b] = FALSE]
    /\ news' = [news EXCEPT ![b] = @ \ {how}]
    /\ unexcused' = IF how = "ok" \/ cause[b] \/ reason \/ how \in news[b]
                    THEN unexcused ELSE unexcused \cup {b}

Forget(b, ks) == broken' = [broken EXCEPT ![b] = @ \ ks]
CacheClient(b, state) == cli' = [cli EXCEPT ![b] = state]

\* refresh_backend_control_state: one query for the installation, a second
\* for its readiness.  An error drops the control connection, so that the next
\* lookup connects again; any answer but "ready" drops the client.
LookupFails(b, f, reason) ==
    /\ EndCall(b, IF "control" \in broken[b] THEN "control" ELSE "failed", f \/ reason)
    /\ Forget(b, {"control", "provider"})
    /\ CacheClient(b, NoState)

ReadInstallation(b, f) ==
    /\ call[b] = "control"
    /\ Query(f)
    /\ IF f \/ "control" \in broken[b] \/ ~Exists
       THEN LookupFails(b, f, ~Exists)
       ELSE /\ ctl' = [ctl EXCEPT ![b] = [oid |-> inst.oid, schema |-> inst.schema,
                                          ready |-> FALSE]]
            /\ call' = [call EXCEPT ![b] = "readiness"]
            /\ UNCHANGED <<cli, broken, news, cause, unexcused>>
    /\ UNCHANGED unaffected

\* Mutant: a client that exists is used.
KeepClient(b, state) == cli[b]

\* A client made for another control state is dropped.
KeptClient(b, state) == IF cli[b] = state THEN cli[b] ELSE NoState

ReadReady(b, f) ==
    /\ call[b] = "readiness"
    /\ Query(f)
    /\ LET state == [ctl[b] EXCEPT !.ready = TRUE]
           ready == Exists /\ inst.schema = ctl[b].schema /\ inst.ready
           kept == KeptClient(b, state)
       IN  IF f \/ "control" \in broken[b] \/ ~ready
           THEN LookupFails(b, f, ~ready)
           ELSE /\ ctl' = [ctl EXCEPT ![b] = state]
                /\ CacheClient(b, kept)
                /\ Forget(b, IF kept = NoState THEN {"provider"} ELSE {})
                /\ call' = [call EXCEPT ![b] = IF kept = NoState THEN "provider" ELSE "use"]
                /\ UNCHANGED <<news, cause, unexcused>>
    /\ UNCHANGED unaffected

\* VerifyOnly: the provider is refused where the migrations are missing.
new_backend_provider(b, f) ==
    /\ call[b] = "provider"
    /\ Query(f)
    /\ IF ~f /\ Exists /\ inst.schema = ctl[b].schema /\ inst.migrated
       THEN /\ CacheClient(b, ctl[b])
            /\ call' = [call EXCEPT ![b] = "use"]
            /\ UNCHANGED <<ctl, news, cause, unexcused>>
       ELSE EndCall(b, "failed", f) /\ UNCHANGED cli
    /\ Forget(b, {"provider"})
    /\ UNCHANGED unaffected

Outcome(b) ==
    IF "provider" \in broken[b] THEN "provider"
    ELSE IF Exists /\ inst.schema = cli[b].schema /\ inst.migrated THEN "ok"
    ELSE "failed"

\* Mutant: a client whose connection failed stays cached.
UseForever(b) ==
    /\ call[b] = "use"
    /\ EndCall(b, Outcome(b), FALSE)
    /\ UNCHANGED <<unaffected, faults, cli, broken>>

\* The operation.  Only a connection error drops the client.
UseClient(b) ==
    /\ call[b] = "use"
    /\ EndCall(b, Outcome(b), FALSE)
    /\ CacheClient(b, IF Outcome(b) = "provider" THEN NoState ELSE cli[b])
    /\ Forget(b, {Outcome(b)})
    /\ UNCHANGED <<unaffected, faults>>

BackendStep(b) ==
    \/ BeginCall(b) \/ UseClient(b)
    \/ \E f \in BOOLEAN : ReadInstallation(b, f) \/ ReadReady(b, f) \/ new_backend_provider(b, f)

---------------------------------------------------------------------------
Init ==
    /\ inst = NoInst /\ epochs = 0 /\ shutdown = FALSE /\ faults = 0
    /\ pc = "pools" /\ cap = 0 /\ schema = Legacy /\ rt = 0 /\ sent = FALSE
    /\ call = [b \in Backends |-> "idle"]
    /\ ctl = [b \in Backends |-> NoState]
    /\ cli = [b \in Backends |-> NoState]
    /\ broken = [b \in Backends |-> {}]
    /\ news = [b \in Backends |-> {}]
    /\ cause = [b \in Backends |-> FALSE]
    /\ unexcused = {}

Next ==
    \/ \E s \in Schemas, embedded \in BOOLEAN : CreateExtension(s, embedded)
    \/ DropExtension \/ RequestShutdown \/ WorkerCrash
    \/ WorkerStep(BOOLEAN, {"ok", "look", "alter"})
    \/ \E b \in Backends :
          BackendStep(b) \/ \E k \in {"control", "provider"} : LoseConnection(b, k)

Spec == Init /\ [][Next]_vars

\* The worker's task is always polled, its sleeps and timeouts end, and a query
\* that may be answered is answered in the end; nothing has to fail.
FairSpec == Spec /\ WF_vars(WorkerStep({FALSE}, {"ok"}))

---------------------------------------------------------------------------
(* Properties. *)

Epochs == 0 .. MaxEpochs
Installations == [oid : Epochs, schema : {Legacy, Current}, embedded : BOOLEAN,
                  migrated : BOOLEAN, ready : BOOLEAN, sentinel : {"none", "mine", "old"}]
States == [oid : Epochs, schema : {Legacy, Current}, ready : BOOLEAN]

\* Every variable has its type.
TypeOK ==
    /\ inst \in Installations
    /\ epochs \in Epochs /\ shutdown \in BOOLEAN /\ faults \in 0 .. MaxFaults
    /\ pc \in StepsOfWorker /\ cap \in Epochs /\ schema \in {Legacy, Current}
    /\ rt \in Epochs /\ sent \in BOOLEAN
    /\ call \in [Backends -> {"idle", "control", "readiness", "provider", "use"}]
    /\ ctl \in [Backends -> States] /\ cli \in [Backends -> States]
    /\ broken \in [Backends -> SUBSET {"control", "provider"}]
    /\ news \in [Backends -> SUBSET {"control", "provider"}]
    /\ cause \in [Backends -> BOOLEAN]
    /\ unexcused \in SUBSET Backends

\* An installation that says its worker is ready has the provider's tables,
\* however often it was dropped and created while the worker initialized:
\* write_worker_ready certifies only the epoch that was captured first.
ReadyIsMigrated == inst.ready => inst.migrated

\* A call of a client backend fails only when the installation was missing,
\* changing or not ready, or a query or a connection was lost, since the
\* last call: what the backend caches never makes a later call fail.
CallsFailWithCause == unexcused = {}

Serving == pc = "processing" /\ rt = inst.oid /\ inst.ready

\* States in which every check the worker makes goes on saying "valid": it
\* waits for a schema the installation does not have, or, after a query has
\* failed, it processes with the runtime of a replaced installation.
Misled ==
    \/ pc \in {"init", "owned"} /\ schema # inst.schema
    \/ faults > 0 /\ pc = "processing" /\ rt # inst.oid /\ StillValid(FALSE)

\* Once the installation stays, the worker ends up serving it, or in one of
\* the states where it cannot notice that it does not.
ServesOrIsMisled == <>[](Exists /\ ~shutdown) => <>[](Serving \/ Misled)

\* Once the installation stays, the worker ends up serving it: the comments
\* at the captured epoch and at extension_epoch_replaced say that a DROP and
\* CREATE at any point is caught.
EventuallyServes == <>[](Exists /\ ~shutdown) => <>[]Serving

\* A shutdown request ends the worker, wherever it is.
ShutdownEnds == shutdown ~> pc = "exited"
=============================================================================
