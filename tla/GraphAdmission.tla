--------------------------- MODULE GraphAdmission ---------------------------
(***************************************************************************)
(* One durable function instance from df.start() to its terminal status.   *)
(*                                                                         *)
(* df.start() hands the orchestration to the engine on a connection that   *)
(* commits on its own, while the instance and node rows stay in the        *)
(* caller's transaction.  The worker therefore starts with a graph that    *)
(* may appear later, never, or already be there, and finds out which with  *)
(* the multi-statement probe activity.  The module interleaves             *)
(*   - the caller's transaction (commit in PostgreSQL's two steps, abort,  *)
(*     rollback to a savepoint),                                           *)
(*   - the probe activity, one action per SQL statement,                   *)
(*   - the orchestration: waiting, retrying, compacting, running the body, *)
(*     driving the terminal status write,                                  *)
(*   - the status-update activity, which may commit without being          *)
(*     acknowledged and may outlive a cancelled orchestration,             *)
(*   - df.cancel() in a transaction of its own, and worker crashes.        *)
(***************************************************************************)
EXTENDS Naturals

CONSTANTS
    MaxGraphRetryAttempts,      \* MAX_GRAPH_RETRY_ATTEMPTS (20)
    GraphWaitPolls,             \* GRAPH_WAIT_POLLS_PER_EXECUTION (64)
    MaxStatusFinalizeAttempts,  \* MAX_STATUS_FINALIZE_ATTEMPTS (20)
    MaxPollShift,               \* the delay stops growing at attempt 6
    MaxCrashes                  \* bound of the model: worker crashes

ASSUME ConstantsAssumption ==
    /\ MaxGraphRetryAttempts \in Nat
    /\ GraphWaitPolls \in Nat \ {0}
    /\ MaxStatusFinalizeAttempts \in Nat
    /\ MaxPollShift \in Nat
    /\ MaxCrashes \in Nat

VARIABLES
    txn,              \* origin transaction, as the worker's statements see it
    staged,           \* the rows of df.start() are still part of txn
    hasXid,           \* FunctionInput.origin_xid is present
    probe,            \* next statement of the running probe activity
    answer,           \* recorded result of the last probe activity
    orch,             \* where the orchestration is suspended
    engine,           \* the engine's status of the instance
    why,              \* what made the orchestration fail
    input,            \* attempts carried by FunctionInput across executions
    waitAttempt, retryAttempt, polls,   \* locals of load_initial_graph
    transients,       \* history: Retry answers seen since df.start()
    finalizeAttempt,  \* local of finalize_instance_status
    write, writePc,   \* the last scheduled update-instance-status activity
    status,           \* df.instances.status in the newest committed version
    cancel,           \* the transaction that called df.cancel()
    cancelReq,        \* a cancellation is queued in the engine
    crashes

txnVars    == <<txn, staged>>
probeVars  == <<probe, answer>>
waitVars   == <<input, waitAttempt, retryAttempt, polls, transients>>
writeVars  == <<write, writePc>>
cancelVars == <<cancel, cancelReq>>
vars == <<txnVars, hasXid, probeVars, orch, engine, why, waitVars,
          finalizeAttempt, writeVars, status, cancelVars, crashes>>

Terminal == {"completed", "failed", "cancelled"}
Answers  == {"Ready", "InProgress", "Retry", "Aborted", "CommittedMissing", "Err"}

TypeOK ==
    /\ txn \in {"open", "recorded", "visible", "aborted"}
    /\ staged \in BOOLEAN
    /\ hasXid \in BOOLEAN
    /\ probe \in {"none", "find", "load", "xact", "snapshot", "reread", "reload"}
    /\ answer \in Answers \cup {"none"}
    /\ orch \in {"admit", "wait", "backoff", "markRunning", "body",
                 "finalize", "finalTimer", "done"}
    /\ engine \in {"running", "completed", "failed", "cancelled"}
    /\ why \in {"none", "Aborted", "CommittedMissing", "Err", "budget", "body"}
    /\ input \in [wait : Nat, retry : Nat]
    /\ waitAttempt \in Nat
    /\ retryAttempt \in Nat
    /\ polls \in Nat
    /\ transients \in Nat
    /\ finalizeAttempt \in Nat
    /\ write \in {"none", "running", "completed", "failed"}
    /\ writePc \in {"none", "sched", "applied", "ok", "err"}
    /\ status \in {"pending", "running"} \cup Terminal
    /\ cancel \in {"none", "signalled", "updated"}
    /\ cancelReq \in BOOLEAN
    /\ crashes \in Nat

\* A READ COMMITTED statement of the worker finds the instance row.
RowVisible == txn = "visible" /\ staged

\* The row is visible or may still become visible.
GraphCanAppear == txn # "aborted" /\ staged

\* start_in_caller_transaction: the engine holds the start, the rows are
\* uncommitted.  Inputs recorded before transaction_mode carry no xid.
Init ==
    /\ txn = "open" /\ staged = TRUE
    /\ hasXid \in BOOLEAN
    /\ probe = "find" /\ answer = "none"
    /\ orch = "admit" /\ engine = "running" /\ why = "none"
    /\ input = [wait |-> 0, retry |-> 0]
    /\ waitAttempt = 0 /\ retryAttempt = 0 /\ polls = 0 /\ transients = 0
    /\ finalizeAttempt = 0
    /\ write = "none" /\ writePc = "none"
    /\ status = "pending"
    /\ cancel = "none" /\ cancelReq = FALSE
    /\ crashes = 0

-----------------------------------------------------------------------------
(* The caller's transaction (PostgreSQL; external to the repository).      *)

\* Everything but the transaction is left alone by the caller.
CallerFrame == UNCHANGED <<hasXid, probeVars, orch, engine, why, waitVars,
                           finalizeAttempt, writeVars, status, cancelVars, crashes>>

\* ROLLBACK TO SAVEPOINT: the rows go, the top-level transaction lives on.
SavepointRollback ==
    /\ txn = "open" /\ staged
    /\ staged' = FALSE
    /\ UNCHANGED txn
    /\ CallerFrame

\* COMMIT is recorded in the commit log first ...
CommitRecorded ==
    /\ txn = "open"
    /\ txn' = "recorded"
    /\ UNCHANGED staged
    /\ CallerFrame

\* ... and the xid leaves the set of running transactions afterwards, which
\* is when fresh snapshots see the rows.
CommitVisible ==
    /\ txn = "recorded"
    /\ txn' = "visible"
    /\ UNCHANGED staged
    /\ CallerFrame

Abort ==
    /\ txn = "open"
    /\ txn' = "aborted"
    /\ UNCHANGED staged
    /\ CallerFrame

\* pg_xact_status(): the answers the server may give in each state.
XactStatus ==
    { s \in {"in progress", "committed", "aborted"} :
        \/ s = "in progress" /\ txn \in {"open", "recorded"}
        \/ s = "committed" /\ txn \in {"recorded", "visible"}
        \/ s = "aborted" /\ txn = "aborted" }

-----------------------------------------------------------------------------
(* The probe activity: probe_transaction, one action per SQL statement.    *)

ProbeFrame == UNCHANGED <<txnVars, hasXid, orch, engine, why, waitVars,
                          finalizeAttempt, writeVars, status, cancelVars, crashes>>

\* The activity returns: its result is recorded in the history.
Answer(a) == probe' = "none" /\ answer' = a /\ ProbeFrame

\* The activity goes on to its next statement.
GoTo(statement) == probe' = statement /\ UNCHANGED answer /\ ProbeFrame

\* classify_sqlx_error and the query timeouts: any statement of the activity
\* may fail transiently (a bounded Retry) or permanently (the activity errs).
ProbeStatementFails ==
    /\ probe # "none" /\ hasXid
    /\ Answer("Retry") \/ Answer("Err")

\* find_visible_instance, before anything is known of the transaction.
ProbeFind ==
    /\ probe = "find" /\ hasXid
    /\ IF RowVisible THEN GoTo("load") ELSE GoTo("xact")

\* load_visible_graph: the row was read; the guards on submitted_by may still
\* refuse it, which is a permanent error (ProbeStatementFails).
ProbeLoad ==
    /\ probe \in {"load", "reload"} /\ hasXid
    /\ Answer("Ready")

\* Mutant: a committed status is taken as proof that the graph can be loaded.
TrustingXactStatus ==
    /\ probe = "xact"
    /\ \E s \in XactStatus :
         \/ s = "in progress" /\ Answer("InProgress")
         \/ s = "aborted" /\ Answer("Aborted")
         \/ s = "committed" /\ GoTo("reload")

\* probe_origin_transaction_status.
ProbeXactStatus ==
    /\ probe = "xact"
    /\ \E s \in XactStatus :
         \/ s = "in progress" /\ Answer("InProgress")
         \/ s = "aborted" /\ Answer("Aborted")
         \/ s = "committed" /\ GoTo("snapshot")

\* Mutant: the snapshot check is dropped.
UncheckedSnapshot == probe = "snapshot" /\ GoTo("reread")

\* probe_snapshot_visible and committed_probe_step: a commit that fresh
\* snapshots do not show yet is retried, never trusted as an absence.
ProbeSnapshot ==
    /\ probe = "snapshot"
    /\ IF txn = "visible" THEN GoTo("reread") ELSE Answer("Retry")

\* The re-read after the commit was observed.
ProbeReread ==
    /\ probe = "reread"
    /\ IF RowVisible THEN GoTo("reload") ELSE Answer("CommittedMissing")

\* The activity of inputs without an xid polls for the row until a fixed
\* deadline; each turn of its loop either finds the row, polls again (no
\* change) or gives up.  Its load turns every failure into an error.
LegacyLoad ==
    /\ ~hasXid
    /\ \/ probe = "find" /\ RowVisible /\ GoTo("load")
       \/ probe = "find" /\ ~RowVisible /\ Answer("Err")
       \/ probe = "load" /\ Answer("Ready")
       \/ probe = "load" /\ Answer("Err")

ProbeStep == \/ ProbeFind \/ ProbeLoad \/ ProbeXactStatus \/ ProbeSnapshot
             \/ ProbeReread \/ ProbeStatementFails \/ LegacyLoad

-----------------------------------------------------------------------------
(* The orchestration: load_initial_graph.                                  *)

\* The delay of transaction_poll_delay depends on the attempt only up to
\* MaxPollShift, so that is all the model remembers of it.
NextWaitAttempt(w) == IF w < MaxPollShift THEN w + 1 ELSE w

graph_retry_budget_exceeded(r) == r > MaxGraphRetryAttempts

\* Mutant: off by one.
LateCompaction(p) == p > GraphWaitPolls

should_compact_graph_wait(p) == p >= GraphWaitPolls

\* Mutant: the retries absorbed so far are forgotten at compaction.
ForgetfulContinuation(w, r) == [wait |-> w, retry |-> 0]

\* The input of the next execution: both budgets travel with it.
graph_wait_continuation(w, r) == [wait |-> w, retry |-> r]

ScheduleProbe == probe' = "find" /\ answer' = "none"

ScheduleWrite(s) == write' = s /\ writePc' = "sched"

\* The `?` and Err arms of load_initial_graph: execute() finalizes the
\* instance as failed before it propagates the error.
FailAdmission(reason) ==
    /\ why' = reason
    /\ orch' = "finalize"
    /\ finalizeAttempt' = 0
    /\ ScheduleWrite("failed")
    /\ answer' = "none"
    /\ UNCHANGED <<txnVars, hasXid, probe, engine, status, cancelVars, crashes>>

\* InProgress: wait on a durable timer.
AnswerInProgress ==
    /\ orch = "admit" /\ answer = "InProgress"
    /\ orch' = "wait"
    /\ answer' = "none"
    /\ UNCHANGED <<txnVars, hasXid, probe, engine, why, waitVars, finalizeAttempt,
                   writeVars, status, cancelVars, crashes>>

\* Retry: charge the budget, then wait on a durable timer or fail.
AnswerRetry ==
    /\ orch = "admit" /\ answer = "Retry"
    /\ retryAttempt' = retryAttempt + 1
    /\ transients' = transients + 1
    /\ UNCHANGED <<input, waitAttempt, polls>>
    /\ IF graph_retry_budget_exceeded(retryAttempt + 1)
       THEN FailAdmission("budget")
       ELSE /\ orch' = "backoff"
            /\ answer' = "none"
            /\ UNCHANGED <<txnVars, hasXid, probe, engine, why, finalizeAttempt,
                           writeVars, status, cancelVars, crashes>>

\* Mutant: a committed but absent graph is not treated as final.
RefusalWithoutMissing ==
    /\ orch = "admit" /\ answer \in {"Aborted", "Err"}
    /\ FailAdmission(answer)
    /\ UNCHANGED waitVars

\* Aborted, CommittedMissing and a failed activity end the admission.
AnswerRefuses ==
    /\ orch = "admit" /\ answer \in {"Aborted", "CommittedMissing", "Err"}
    /\ FailAdmission(answer)
    /\ UNCHANGED waitVars

\* The timer fires: count the poll, compact the history when it is full
\* (continue_as_new restarts load_initial_graph from the input), probe again.
TimerFires ==
    /\ orch \in {"wait", "backoff"}
    /\ orch' = "admit"
    /\ ScheduleProbe
    /\ LET w == IF orch = "wait" THEN NextWaitAttempt(waitAttempt) ELSE waitAttempt
           continuation == graph_wait_continuation(w, retryAttempt)
       IN IF should_compact_graph_wait(polls + 1)
          THEN /\ input' = continuation
               /\ waitAttempt' = continuation.wait
               /\ retryAttempt' = continuation.retry
               /\ polls' = 0
          ELSE /\ waitAttempt' = w
               /\ polls' = polls + 1
               /\ UNCHANGED <<input, retryAttempt>>
    /\ UNCHANGED <<txnVars, hasXid, engine, why, transients, finalizeAttempt,
                   writeVars, status, cancelVars, crashes>>

-----------------------------------------------------------------------------
(* The orchestration: execute and finalize_instance_status.                *)

OrchFrame == UNCHANGED <<txnVars, hasXid, probe, waitVars, status, cancelVars, crashes>>

\* Ready: the graph is loaded once; mark the instance running (best effort).
GraphReady ==
    /\ orch = "admit" /\ answer = "Ready"
    /\ orch' = "markRunning"
    /\ answer' = "none"
    /\ ScheduleWrite("running")
    /\ UNCHANGED <<engine, why, finalizeAttempt>>
    /\ OrchFrame

\* The outcome of the running write is ignored.
RunningMarked ==
    /\ orch = "markRunning" /\ writePc \in {"ok", "err"}
    /\ orch' = "body"
    /\ UNCHANGED <<answer, engine, why, finalizeAttempt, writeVars>>
    /\ OrchFrame

\* The root node returns (or a root loop continues as new with the graph
\* inline, which re-enters execute after the load).
BodyEnds ==
    /\ orch = "body"
    /\ \/ /\ orch' = "finalize"
          /\ ScheduleWrite("completed")
          /\ finalizeAttempt' = 0
          /\ UNCHANGED why
       \/ /\ orch' = "finalize"
          /\ ScheduleWrite("failed")
          /\ finalizeAttempt' = 0
          /\ why' = "body"
       \/ /\ orch' = "markRunning"
          /\ ScheduleWrite("running")
          /\ UNCHANGED <<why, finalizeAttempt>>
    /\ UNCHANGED <<answer, engine>>
    /\ OrchFrame

\* finalize_instance_status: return on success, give up when the attempts
\* are used, otherwise wait on a durable timer.
FinalizeAcked ==
    /\ orch = "finalize" /\ writePc \in {"ok", "err"}
    /\ IF writePc = "ok" \/ finalizeAttempt >= MaxStatusFinalizeAttempts
       THEN orch' = "done" /\ engine' = write
       ELSE orch' = "finalTimer" /\ UNCHANGED engine
    /\ UNCHANGED <<answer, why, finalizeAttempt, writeVars>>
    /\ OrchFrame

\* Mutant: the attempt is not counted.
UncountedFinalizeTimer ==
    /\ orch = "finalTimer"
    /\ orch' = "finalize"
    /\ ScheduleWrite(write)
    /\ UNCHANGED <<answer, engine, why, finalizeAttempt>>
    /\ OrchFrame

FinalizeTimer ==
    /\ orch = "finalTimer"
    /\ orch' = "finalize"
    /\ finalizeAttempt' = finalizeAttempt + 1
    /\ ScheduleWrite(write)
    /\ UNCHANGED <<answer, engine, why>>
    /\ OrchFrame

\* The engine processes a queued cancellation at the next turn; activities
\* already dispatched keep running.
ProcessCancel ==
    /\ cancelReq /\ orch # "done"
    /\ orch' = "done"
    /\ engine' = "cancelled"
    /\ cancelReq' = FALSE
    /\ probe' = "none" /\ answer' = "none"
    /\ UNCHANGED <<txnVars, hasXid, why, waitVars, finalizeAttempt, writeVars,
                   status, cancel, crashes>>

OrchStep == \/ AnswerInProgress \/ AnswerRetry \/ AnswerRefuses \/ TimerFires
            \/ GraphReady \/ RunningMarked \/ FinalizeAcked \/ FinalizeTimer

-----------------------------------------------------------------------------
(* The activity update_instance_status.                                    *)

WriteFrame == UNCHANGED <<txnVars, hasXid, probeVars, orch, engine, why, waitVars,
                          finalizeAttempt, write, cancelVars>>

\* Mutant: the guard on terminal rows is dropped.
UnguardedUpdate(s, current) == IF RowVisible THEN s ELSE current

\* Mutant: the lifecycle is enforced by its happy path, so that a terminal
\* write is lost when the best-effort running write was.
StrictLifecycleUpdate(s, current) ==
    IF RowVisible /\ current = (IF s = "running" THEN "pending" ELSE "running")
    THEN s ELSE current

\* UPDATE ... WHERE status <> ALL (terminal): a terminal row is never
\* overwritten, and a row that is not visible is not an error.
update_instance_status(s, current) ==
    IF RowVisible /\ current \notin Terminal THEN s ELSE current

\* The transaction commits; it waits for the row lock of an open df.cancel().
WriteCommits ==
    /\ writePc = "sched"
    /\ ~(RowVisible /\ cancel = "updated")
    /\ status' = update_instance_status(write, status)
    /\ writePc' = "applied"
    /\ UNCHANGED crashes
    /\ WriteFrame

\* The result reaches the history; an unclear commit is reported as an error.
WriteAcked ==
    /\ writePc = "applied"
    /\ writePc' \in {"ok", "err"}
    /\ UNCHANGED <<status, crashes>>
    /\ WriteFrame

\* Origin validation, the UPDATE or the pool fails: nothing was written.
WriteFails ==
    /\ writePc = "sched"
    /\ writePc' = "err"
    /\ UNCHANGED <<status, crashes>>
    /\ WriteFrame

WriteStep == WriteCommits \/ WriteAcked \/ WriteFails

\* The worker restarts: history is durable, so the orchestration replays to
\* where it was; activities without a recorded result are dispatched again.
WorkerCrash ==
    /\ crashes < MaxCrashes
    /\ crashes' = crashes + 1
    /\ probe' = IF probe = "none" THEN "none" ELSE "find"
    /\ writePc' = IF writePc = "applied" THEN "sched" ELSE writePc
    /\ UNCHANGED <<txnVars, hasXid, answer, orch, engine, why, waitVars,
                   finalizeAttempt, write, status, cancelVars>>

-----------------------------------------------------------------------------
(* df.cancel(): the engine first, then the row, in the caller's transaction. *)

CancelFrame == UNCHANGED <<txnVars, hasXid, probeVars, orch, engine, why, waitVars,
                           finalizeAttempt, writeVars, crashes>>

\* Mutant: only the row is cancelled.
UnsentCancel ==
    /\ cancel = "none" /\ staged /\ txn \in {"open", "visible"}
    /\ cancel' = "signalled"
    /\ UNCHANGED <<cancelReq, status>>
    /\ CancelFrame

\* The row is visible to the caller: committed, or its own.  The engine call
\* commits by itself; cancelling a finished instance is a no-op.
CancelSignal ==
    /\ cancel = "none" /\ staged /\ txn \in {"open", "visible"}
    /\ cancel' = "signalled"
    /\ cancelReq' = (orch # "done")
    /\ UNCHANGED status
    /\ CancelFrame

\* The guarded UPDATE takes the row lock, or matches nothing.
CancelUpdate ==
    /\ cancel = "signalled" /\ staged /\ txn \in {"open", "visible"}
    /\ cancel' = IF status \in Terminal THEN "none" ELSE "updated"
    /\ UNCHANGED <<cancelReq, status>>
    /\ CancelFrame

CancelCommit ==
    /\ cancel = "updated" /\ RowVisible
    /\ cancel' = "none"
    /\ status' = "cancelled"
    /\ UNCHANGED cancelReq
    /\ CancelFrame

\* The caller rolls back, or its session ends, after the engine call.
CancelRollback ==
    /\ cancel # "none"
    /\ cancel' = "none"
    /\ UNCHANGED <<cancelReq, status>>
    /\ CancelFrame

-----------------------------------------------------------------------------
\* Nothing is left to do once the start was rolled back and reported.
Settled ==
    /\ orch = "done" /\ ~GraphCanAppear /\ txn \in {"visible", "aborted"}
    /\ UNCHANGED vars

Next ==
    \/ SavepointRollback \/ CommitRecorded \/ CommitVisible \/ Abort
    \/ ProbeStep \/ OrchStep \/ BodyEnds \/ ProcessCancel
    \/ WriteStep \/ WorkerCrash
    \/ CancelSignal \/ CancelUpdate \/ CancelCommit \/ CancelRollback
    \/ Settled

Spec == Init /\ [][Next]_vars

\* The dispatchers keep running activities, timers and orchestration turns;
\* the server finishes a recorded commit; a transaction that called
\* df.cancel() ends.  Nothing is assumed of the caller's transaction or of
\* how long the body runs.
Fairness ==
    /\ WF_vars(ProbeStep)
    /\ WF_vars(OrchStep)
    /\ WF_vars(WriteStep)
    /\ WF_vars(ProcessCancel)
    /\ WF_vars(CommitVisible)
    /\ WF_vars(CancelUpdate \/ CancelCommit \/ CancelRollback)

FairSpec == Spec /\ Fairness

-----------------------------------------------------------------------------
(* Properties.                                                             *)

\* The admission says "aborted" or "committed but absent" only when the graph
\* is absent for good: no later snapshot will ever show it.  (probe_transaction:
\* the re-read after the commit and the snapshot check exist for this.)
NoFalseAbsence ==
    why \in {"Aborted", "CommittedMissing"} => ~GraphCanAppear

\* Nothing of a graph is executed, and the instance cannot complete, unless
\* the caller's transaction committed with the start in it.
RunsOnlyCommittedGraphs ==
    orch \in {"markRunning", "body"} \/ engine = "completed" => RowVisible

\* The transient-retry budget is one per instance, not one per execution:
\* compaction forgets no failure, and no more than the budget is absorbed.
RetryBudgetIsLifetime ==
    /\ retryAttempt = transients
    /\ transients <= MaxGraphRetryAttempts + 1

\* One execution never accumulates more polls than the compaction bound,
\* whichever mixture of waits and retries it goes through.
HistoryIsBounded == polls < GraphWaitPolls

\* When the body ran and the engine is terminal, the row is terminal too and
\* says the same or 'cancelled', unless finalization gave up on its budget.
StatusAgreesWithEngine ==
    /\ engine = "completed" /\ writePc # "err" => status \in {"completed", "cancelled"}
    /\ engine = "failed" /\ why = "body" /\ writePc # "err"
         => status \in {"failed", "cancelled"}

\* A terminal status is never overwritten: not by a late running write of a
\* cancelled orchestration, not by a repeated one, not by a second cancel.
TerminalIsFinal == [][(status \in Terminal) => (status' = status)]_vars

\* Once the caller's transaction ended, the admission is decided: the graph
\* runs, or the failure is being reported, or the instance was cancelled.
AdmissionDecided ==
    hasXid /\ txn # "open" ~> orch \notin {"admit", "wait", "backoff"}

\* Reporting the end of an instance ends, however the writes fare.
FinalizationEnds == orch = "finalize" ~> orch = "done"

\* A row that says 'cancelled' belongs to an instance the engine stops.
CancelStopsEngine == status = "cancelled" ~> orch = "done"

\* What the comment in execute() says of a failed admission: the failure is
\* written durably, so the row does not stay non-terminal.
FailedAdmissionReachesRow ==
    hasXid /\ engine = "failed" /\ writePc # "err" /\ RowVisible
        => status \in Terminal
=============================================================================
