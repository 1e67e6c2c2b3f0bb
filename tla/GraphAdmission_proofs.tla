----------------------- MODULE GraphAdmission_proofs -----------------------
(***************************************************************************)
(* Proofs about GraphAdmission, for every value of the budgets.            *)
(*                                                                         *)
(* The invariants checked by TLC speak of the end of a probe or of an      *)
(* instance.  The inductive invariant adds what each program point knows:  *)
(* which statement of the probe has seen which state of the transaction,   *)
(* what the scheduled status write stands for, and which row it leaves.    *)
(***************************************************************************)
EXTENDS GraphAdmission, TLAPS

Admitting == orch \in {"admit", "wait", "backoff"}
Finalizing == orch \in {"finalize", "finalTimer"}

\* What the statements of the probe have established about the transaction.
ProbeKnows ==
    /\ probe = "snapshot" => txn \in {"recorded", "visible"}
    /\ probe = "reread" => txn = "visible"
    /\ probe \in {"load", "reload"} => RowVisible
    /\ answer = "Ready" => RowVisible
    /\ answer = "Aborted" => txn = "aborted"
    /\ answer = "CommittedMissing" => txn = "visible" /\ ~staged

\* What the orchestration has concluded from the answers.
VerdictKnows ==
    /\ why = "Aborted" => txn = "aborted"
    /\ why = "CommittedMissing" => txn = "visible" /\ ~staged
    /\ why = "body" => RowVisible
    /\ orch \in {"markRunning", "body"} => RowVisible
    /\ write = "completed" => RowVisible

\* The budgets: only an admission that is over may exceed the retry bound.
BudgetInv ==
    /\ retryAttempt = transients
    /\ transients <= MaxGraphRetryAttempts + 1
    /\ Admitting => transients <= MaxGraphRetryAttempts
    /\ polls < GraphWaitPolls

\* The terminal write: who schedules it, and what its commit leaves behind.
WriteInv ==
    /\ engine = "running" <=> orch # "done"
    /\ Finalizing => write \in {"completed", "failed"}
    /\ Admitting => write = "none"
    /\ writePc # "none" => write # "none"
    /\ orch \in {"markRunning", "body"} => write = "running"
    /\ engine \in {"completed", "failed"} => write = engine /\ writePc \in {"ok", "err"}
    /\ status \in {"completed", "failed"} => write = status
    /\ write = "completed" /\ writePc \in {"applied", "ok"}
         => status \in {"completed", "cancelled"}
    /\ write = "failed" /\ why = "body" /\ writePc \in {"applied", "ok"}
         => status \in {"failed", "cancelled"}
    /\ cancel = "updated" => status \notin Terminal
    /\ why # "none" => orch \in {"finalize", "finalTimer", "done"} /\ write = "failed"

IInv == TypeOK /\ ProbeKnows /\ VerdictKnows /\ BudgetInv /\ WriteInv

-----------------------------------------------------------------------------
\* Every step of every actor preserves the inductive invariant: the caller's
\* transaction, the probe, the orchestration, the status writes, df.cancel().
LEMMA IInvPreserved == IInv /\ [Next]_vars => IInv'
<1> SUFFICES ASSUME IInv, [Next]_vars PROVE IInv'
  OBVIOUS
<1> USE ConstantsAssumption DEF IInv, TypeOK, ProbeKnows, VerdictKnows, BudgetInv,
        WriteInv, Admitting, Finalizing, RowVisible, Terminal, Answers,
        txnVars, probeVars, waitVars, writeVars, cancelVars
<1>1. CASE SavepointRollback
  <2>1. staged' \in BOOLEAN /\ hasXid' \in BOOLEAN /\ cancelReq' \in BOOLEAN
    BY <1>1, Zenon DEF SavepointRollback, CallerFrame
  <2> QED
    BY <1>1, <2>1 DEF SavepointRollback, CallerFrame
<1>2. CASE CommitRecorded
  BY <1>2 DEF CommitRecorded, CallerFrame
<1>3. CASE CommitVisible
  BY <1>3 DEF CommitVisible, CallerFrame
<1>4. CASE Abort
  BY <1>4 DEF Abort, CallerFrame
<1>5. CASE ProbeStatementFails
  <2>1. CASE Answer("Retry")
    BY <2>1 DEF Answer, ProbeFrame
  <2>2. CASE Answer("Err")
    BY <2>2 DEF Answer, ProbeFrame
  <2> QED
    BY <1>5, <2>1, <2>2 DEF ProbeStatementFails
<1>6. CASE ProbeFind
  <2>1. CASE RowVisible /\ GoTo("load")
    BY <2>1 DEF GoTo, ProbeFrame
  <2>2. CASE GoTo("xact")
    BY <2>2 DEF GoTo, ProbeFrame
  <2> QED
    BY <1>6, <2>1, <2>2 DEF ProbeFind
<1>7. CASE ProbeLoad
  BY <1>7 DEF ProbeLoad, Answer, ProbeFrame
<1>8. CASE ProbeXactStatus
  <2>1. CASE Answer("InProgress")
    BY <2>1 DEF Answer, ProbeFrame
  <2>2. CASE txn = "aborted" /\ Answer("Aborted")
    BY <2>2 DEF Answer, ProbeFrame
  <2>3. CASE txn \in {"recorded", "visible"} /\ GoTo("snapshot")
    BY <2>3 DEF GoTo, ProbeFrame
  <2> QED
    BY <1>8, <2>1, <2>2, <2>3 DEF ProbeXactStatus, XactStatus
<1>9. CASE ProbeSnapshot
  BY <1>9 DEF ProbeSnapshot, Answer, GoTo, ProbeFrame
<1>10. CASE ProbeReread
  BY <1>10 DEF ProbeReread, Answer, GoTo, ProbeFrame
<1>11. CASE LegacyLoad
  BY <1>11 DEF LegacyLoad, Answer, GoTo, ProbeFrame
<1>12. CASE AnswerInProgress
  BY <1>12 DEF AnswerInProgress
<1>13. CASE AnswerRetry
  BY <1>13 DEF AnswerRetry, FailAdmission, ScheduleWrite, graph_retry_budget_exceeded
<1>14. CASE AnswerRefuses
  BY <1>14 DEF AnswerRefuses, FailAdmission, ScheduleWrite
<1>15. CASE TimerFires
  BY <1>15 DEF TimerFires, ScheduleProbe, NextWaitAttempt, should_compact_graph_wait, graph_wait_continuation
<1>16. CASE GraphReady
  BY <1>16 DEF GraphReady, OrchFrame, ScheduleWrite
<1>17. CASE RunningMarked
  BY <1>17 DEF RunningMarked, OrchFrame
<1>18. CASE FinalizeAcked
  BY <1>18 DEF FinalizeAcked, OrchFrame
<1>19. CASE FinalizeTimer
  BY <1>19 DEF FinalizeTimer, OrchFrame, ScheduleWrite
<1>20. CASE BodyEnds
  BY <1>20 DEF BodyEnds, OrchFrame, ScheduleWrite
<1>21. CASE ProcessCancel
  <2>1. staged' \in BOOLEAN /\ hasXid' \in BOOLEAN /\ cancelReq' \in BOOLEAN
    BY <1>21, Zenon DEF ProcessCancel
  <2> QED
    BY <1>21, <2>1 DEF ProcessCancel
<1>22. CASE WriteCommits
  BY <1>22 DEF WriteCommits, WriteFrame, update_instance_status
<1>23. CASE WriteAcked
  BY <1>23 DEF WriteAcked, WriteFrame
<1>24. CASE WriteFails
  BY <1>24 DEF WriteFails, WriteFrame
<1>25. CASE WorkerCrash
  BY <1>25 DEF WorkerCrash
<1>26. CASE CancelSignal
  BY <1>26 DEF CancelSignal, CancelFrame
<1>27. CASE CancelUpdate
  BY <1>27 DEF CancelUpdate, CancelFrame
<1>28. CASE CancelCommit
  BY <1>28 DEF CancelCommit, CancelFrame
<1>29. CASE CancelRollback
  BY <1>29 DEF CancelRollback, CancelFrame
<1>30. CASE Settled
  BY <1>30 DEF Settled, vars
<1>31. CASE UNCHANGED vars
  BY <1>31 DEF vars
<1> QED
  BY <1>1, <1>2, <1>3, <1>4, <1>5, <1>6, <1>7, <1>8, <1>9, <1>10, <1>11, <1>12, <1>13, <1>14, <1>15, <1>16, <1>17, <1>18, <1>19, <1>20, <1>21, <1>22, <1>23, <1>24, <1>25, <1>26, <1>27, <1>28, <1>29, <1>30, <1>31
     DEF Next, ProbeStep, OrchStep, WriteStep

\* The invariant holds of every behaviour, whatever the budgets are.
THEOREM Invariance == Spec => []IInv
<1>1. Init => IInv
  <2> SUFFICES ASSUME Init PROVE IInv
    OBVIOUS
  <2>1. staged \in BOOLEAN /\ hasXid \in BOOLEAN /\ cancelReq \in BOOLEAN
    BY Zenon DEF Init
  <2> QED
    BY <2>1, ConstantsAssumption DEF Init, IInv, TypeOK, ProbeKnows, VerdictKnows,
       BudgetInv, WriteInv, Admitting, Finalizing, RowVisible, Terminal, Answers
<1> QED
  BY <1>1, IInvPreserved, PTL DEF Spec

\* Type correctness of the admission state machine.
THEOREM TypeCorrect == Spec => []TypeOK
<1>1. IInv => TypeOK
  BY DEF IInv
<1> QED
  BY <1>1, Invariance, PTL

\* probe_transaction never reports a graph as aborted or missing that a later
\* snapshot could show: the commit-log race cannot lose a committed start.
THEOREM AbsenceIsTrue == Spec => []NoFalseAbsence
<1>1. IInv => NoFalseAbsence
  BY DEF IInv, VerdictKnows, NoFalseAbsence, GraphCanAppear
<1> QED
  BY <1>1, Invariance, PTL

\* execute() runs a body, and completes an instance, only for a start that was
\* committed.
THEOREM OnlyCommittedGraphsRun == Spec => []RunsOnlyCommittedGraphs
<1>1. IInv => RunsOnlyCommittedGraphs
  BY DEF IInv, VerdictKnows, WriteInv, RunsOnlyCommittedGraphs
<1> QED
  BY <1>1, Invariance, PTL

\* graph_wait_continuation carries the retry count, so the budget of
\* load_initial_graph bounds the whole life of the instance.
THEOREM RetryBudgetHolds == Spec => []RetryBudgetIsLifetime
<1>1. IInv => RetryBudgetIsLifetime
  BY DEF IInv, BudgetInv, RetryBudgetIsLifetime
<1> QED
  BY <1>1, Invariance, PTL

\* should_compact_graph_wait bounds the history of every single execution.
THEOREM HistoryStaysBounded == Spec => []HistoryIsBounded
<1>1. IInv => HistoryIsBounded
  BY DEF IInv, BudgetInv, HistoryIsBounded
<1> QED
  BY <1>1, Invariance, PTL

\* finalize_instance_status: when the engine is terminal after running a body,
\* df.instances says so too, unless finalization gave up.
THEOREM EngineAndRowAgree == Spec => []StatusAgreesWithEngine
<1>1. IInv => StatusAgreesWithEngine
  BY DEF IInv, TypeOK, WriteInv, StatusAgreesWithEngine
<1> QED
  BY <1>1, Invariance, PTL

\* No actor overwrites a terminal status: update_instance_status guards its
\* UPDATE, and df.cancel() commits only under the row lock of its own guard.
THEOREM TerminalStatusFinal == Spec => TerminalIsFinal
<1>1. IInv /\ [Next]_vars => [(status \in Terminal) => (status' = status)]_vars
  <2> SUFFICES ASSUME IInv, Next, status \in Terminal PROVE status' = status
    OBVIOUS
  <2>1. CASE WriteCommits
    BY <2>1 DEF WriteCommits, update_instance_status, Terminal
  <2>2. CASE CancelCommit
    BY <2>2 DEF CancelCommit, IInv, WriteInv
  <2> QED
    BY <2>1, <2>2 DEF Next, SavepointRollback, CommitRecorded, CommitVisible, Abort,
       CallerFrame, ProbeStep, ProbeFind, ProbeLoad, ProbeXactStatus, ProbeSnapshot,
       ProbeReread, ProbeStatementFails, LegacyLoad, Answer, GoTo, ProbeFrame,
       OrchStep, AnswerInProgress, AnswerRetry, AnswerRefuses, FailAdmission,
       TimerFires, GraphReady, RunningMarked, FinalizeAcked, FinalizeTimer, OrchFrame,
       BodyEnds, ProcessCancel, WriteStep, WriteAcked, WriteFails, WorkerCrash,
       CancelSignal, CancelUpdate, CancelRollback, Settled, vars
<1> QED
  BY <1>1, Invariance, PTL DEF Spec, TerminalIsFinal
=============================================================================
