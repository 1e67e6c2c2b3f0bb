---------------------------- MODULE Submissions ----------------------------
(***************************************************************************)
(* The three stores an instance identifier lives in, and who changes them: *)
(*                                                                         *)
(*   rows    df.instances, written in the caller's transaction             *)
(*   ledger  _submissions, written and committed on a separate connection, *)
(*           together with the queue item                                  *)
(*   work    what the engine has of the identifier (orchestrator_queue,    *)
(*           instances, executions, history, worker_queue, instance_locks) *)
(*                                                                         *)
(* Sessions call df.start() under the quotas, commit or roll back; the     *)
(* engine runs the work; the worker's maintenance pass retires expired     *)
(* instances engine first, reclaims engine records without a row, and      *)
(* removes ledger entries.  Every transaction and engine call is a step.   *)
(*                                                                         *)
(* One role and one database: the quotas are per role and database.  Pages *)
(* hold all candidates (RECLAIM_BATCH is 1000).                            *)
(***************************************************************************)
EXTENDS Naturals, FiniteSets

CONSTANTS
    Ids,            \* the instance identifiers short_id may produce
    Sessions,       \* client backends of the role
    Nobody,         \* owner of what does not exist
    Committed,      \* owner of what is committed
    MaxInstances,   \* df.max_instances_per_user, 0 disables
    MaxConcurrent,  \* df.max_concurrent_per_user, 0 disables
    MaxSubs,        \* bound: reservations in a behaviour
    MaxFaults       \* bound: failed maintenance queries and worker restarts

ASSUME OwnersAssumption ==
    Nobody # Committed /\ Nobody \notin Sessions /\ Committed \notin Sessions
ASSUME BoundsAssumption ==
    /\ IsFiniteSet(Ids)
    /\ MaxInstances \in Nat /\ MaxConcurrent \in Nat
    /\ MaxSubs \in Nat /\ MaxFaults \in Nat

VARIABLES
    stage,      \* stage[c]: where df.start() is in session c
    cand,       \* cand[c]: the set holding the identifier c has reserved
    seen,       \* seen[c]: the df.instances identifiers c counted
    locker,     \* holder of the quota lock
    rows, ledger, work,
    next,       \* number of the next reservation
    pc,         \* the next step of the maintenance pass
    todo,       \* its candidates still to be looked at
    picked,     \* its candidates that passed
    faults

calls == <<stage, cand, seen, locker, next>>
pass == <<pc, todo, picked, faults>>
vars == <<calls, rows, ledger, work, pass>>

Owners == Sessions \cup {Nobody, Committed}
Stages == {"idle", "counting", "reserve", "claim", "enqueue"}
Steps == {"expired", "retire", "delete", "orphans", "present", "bulk",
          "scan", "metadata", "uncharge"}
Subs == 1 .. MaxSubs

NoRow == [sub |-> 0, owner |-> Nobody, status |-> "none", aged |-> FALSE]
NoEntry == [sub |-> 0, owner |-> Nobody]
NoWork == [sub |-> 0, state |-> "none", cancelled |-> FALSE, aged |-> FALSE]

Own(c) == {id \in Ids : rows[id].owner = c}
Visible == {id \in Ids : rows[id].owner = Committed}
Charged == {id \in Ids : ledger[id].owner = Committed}

---------------------------------------------------------------------------
(* df.start() in the caller's transaction. *)

LimitsOn == MaxInstances > 0 \/ MaxConcurrent > 0

\* Mutant: callers count without waiting for each other.
UnlockedStart(c) ==
    /\ stage[c] = "idle" /\ next <= MaxSubs
    /\ seen' = [seen EXCEPT ![c] = Visible \cup Own(c)]
    /\ stage' = [stage EXCEPT ![c] = IF LimitsOn THEN "counting" ELSE "reserve"]
    /\ UNCHANGED <<cand, locker, next, rows, ledger, work, pass>>

\* The lock is taken before the rows are counted and kept until the
\* transaction ends; the caller sees its own rows too.
BeginStart(c) ==
    /\ stage[c] = "idle" /\ next <= MaxSubs
    /\ IF LimitsOn
       THEN /\ locker \in {Nobody, c}
            /\ locker' = c
            /\ seen' = [seen EXCEPT ![c] = Visible \cup Own(c)]
            /\ stage' = [stage EXCEPT ![c] = "counting"]
       ELSE /\ stage' = [stage EXCEPT ![c] = "reserve"]
            /\ UNCHANGED <<locker, seen>>
    /\ UNCHANGED <<cand, next, rows, ledger, work, pass>>

\* What is left of a df.start() that raises an error: nothing.  An error may
\* be caught by a savepoint, so earlier starts of the transaction survive.
Undo(c) ==
    /\ ledger' = [id \in Ids |-> IF ledger[id].owner = c THEN NoEntry ELSE ledger[id]]
    /\ rows' = [id \in Ids |->
                   IF stage[c] = "enqueue" /\ id \in cand[c] THEN NoRow ELSE rows[id]]
    /\ locker' = IF locker = c /\ \A id \in Ids : rows'[id].owner # c THEN Nobody ELSE locker
    /\ stage' = [stage EXCEPT ![c] = "idle"]
    /\ cand' = [cand EXCEPT ![c] = {}]
    /\ seen' = [seen EXCEPT ![c] = {}]
    /\ UNCHANGED <<next, work, pass>>

\* Any statement of df.start() may fail: a lock timeout, exhausted identifiers,
\* a lost connection, a privilege.  (A commit of the reservation that succeeds
\* without an answer is Enqueue followed by Rollback.)
StartFails(c) == stage[c] # "idle" /\ Undo(c)

\* Mutant: only df.instances rows are counted.
RowsOnly(c) == seen[c]

\* Identifiers that count as retained, and those whose work is not terminal.
Requested(c) == seen[c] \cup Charged
ActiveWork == {id \in Ids : work[id].state \in {"queued", "running"}}

\* enforce_instance_limits: the second half, on the engine's connection.
CheckLimits(c) ==
    /\ stage[c] = "counting"
    /\ IF \/ MaxInstances > 0 /\ Cardinality(Requested(c)) >= MaxInstances
          \/ MaxConcurrent > 0 /\ Cardinality(Requested(c) \cap ActiveWork) >= MaxConcurrent
       THEN Undo(c)
       ELSE /\ stage' = [stage EXCEPT ![c] = "reserve"]
            /\ UNCHANGED <<cand, seen, locker, next, rows, ledger, work, pass>>

\* Mutant: a conflicting ledger entry is taken over.
TakeOver(c, id) ==
    /\ stage[c] = "reserve" /\ ledger[id].owner \in {Nobody, Committed} /\ next <= MaxSubs
    /\ ledger' = [ledger EXCEPT ![id] = [sub |-> next, owner |-> c]]
    /\ cand' = [cand EXCEPT ![c] = {id}]
    /\ next' = next + 1
    /\ stage' = [stage EXCEPT ![c] = "claim"]
    /\ UNCHANGED <<seen, locker, rows, work, pass>>

\* INSERT INTO _submissions ON CONFLICT DO NOTHING in a transaction of its own:
\* a committed entry makes the caller roll another identifier (no change), an
\* uncommitted one makes it wait.
Reserve(c, id) ==
    /\ stage[c] = "reserve" /\ ledger[id].owner = Nobody /\ next <= MaxSubs
    /\ ledger' = [ledger EXCEPT ![id] = [sub |-> next, owner |-> c]]
    /\ cand' = [cand EXCEPT ![c] = {id}]
    /\ next' = next + 1
    /\ stage' = [stage EXCEPT ![c] = "claim"]
    /\ UNCHANGED <<seen, locker, rows, work, pass>>

\* INSERT INTO df.instances ON CONFLICT DO NOTHING in the caller's transaction;
\* on a conflict the reservation is rolled back.
Claim(c, id) ==
    /\ stage[c] = "claim" /\ id \in cand[c]
    /\ \/ /\ rows[id].owner = Nobody
          /\ rows' = [rows EXCEPT ![id] = [sub |-> ledger[id].sub, owner |-> c,
                                           status |-> "pending", aged |-> FALSE]]
          /\ stage' = [stage EXCEPT ![c] = "enqueue"]
          /\ UNCHANGED <<cand, ledger>>
       \/ /\ rows[id].owner \in {Committed, c}
          /\ ledger' = [ledger EXCEPT ![id] = NoEntry]
          /\ stage' = [stage EXCEPT ![c] = "reserve"]
          /\ cand' = [cand EXCEPT ![c] = {}]
          /\ UNCHANGED rows
    /\ UNCHANGED <<seen, locker, next, work, pass>>

\* Queue item and ledger entry commit together.  The engine ignores a start of
\* an instance it already has.
Enqueue(c, id) ==
    /\ stage[c] = "enqueue" /\ id \in cand[c]
    /\ ledger' = [ledger EXCEPT ![id].owner = Committed]
    /\ work' = IF work[id].sub = 0
               THEN [work EXCEPT ![id] = [sub |-> ledger[id].sub, state |-> "queued",
                                          cancelled |-> FALSE, aged |-> FALSE]]
               ELSE work
    /\ stage' = [stage EXCEPT ![c] = "idle"]
    /\ cand' = [cand EXCEPT ![c] = {}]
    /\ seen' = [seen EXCEPT ![c] = {}]
    /\ UNCHANGED <<locker, next, rows, pass>>

\* The caller commits.
Commit(c) ==
    /\ stage[c] = "idle" /\ Own(c) # {}
    /\ rows' = [id \in Ids |-> IF id \in Own(c) THEN [rows[id] EXCEPT !.owner = Committed]
                               ELSE rows[id]]
    /\ locker' = IF locker = c THEN Nobody ELSE locker
    /\ UNCHANGED <<stage, cand, seen, next, ledger, work, pass>>

\* The caller rolls back, all of it or to a savepoint.
Rollback(c) ==
    /\ stage[c] = "idle"
    /\ \E gone \in SUBSET Own(c) :
        /\ gone # {}
        /\ rows' = [id \in Ids |-> IF id \in gone THEN NoRow ELSE rows[id]]
        /\ locker' = IF locker = c /\ gone = Own(c) THEN Nobody ELSE locker
    /\ UNCHANGED <<stage, cand, seen, next, ledger, work, pass>>

\* df.cancel(): the engine first, then the row; the row's update is lost when
\* the cancelling transaction rolls back.
Cancel(id) ==
    /\ rows[id].status = "pending"
    /\ \A c \in Sessions : id \in Own(c) => stage[c] = "idle"
    /\ work' = IF work[id].state \in {"queued", "running"}
               THEN [work EXCEPT ![id].cancelled = TRUE] ELSE work
    /\ \/ rows' = [rows EXCEPT ![id].status = "cancelled"]
       \/ UNCHANGED rows
    /\ UNCHANGED <<calls, ledger, pass>>

---------------------------------------------------------------------------
(* The engine. *)

\* A queued start becomes an instance; a cancellation queued with it ends it.
Dispatch(id) ==
    /\ work[id].state = "queued"
    /\ work' = [work EXCEPT ![id].state = IF work[id].cancelled THEN "Failed" ELSE "running"]
    /\ UNCHANGED <<calls, rows, ledger, pass>>

\* update_instance_status at the end of the graph.
Finalize(id) ==
    /\ work[id].state = "running" /\ id \in Visible /\ rows[id].status = "pending"
    /\ rows' = [rows EXCEPT ![id].status = "finished"]
    /\ UNCHANGED <<calls, ledger, work, pass>>

\* An orchestration fails for many reasons, also while its caller's transaction
\* is open; it completes only after the row was visible and written.
Ends(id) ==
    /\ work[id].state = "running"
    /\ \E end \in {"Completed", "Failed"} :
        /\ end = "Completed" => id \in Visible /\ rows[id].status # "pending"
        /\ work' = [work EXCEPT ![id].state = end]
    /\ UNCHANGED <<calls, rows, ledger, pass>>

Ended(id) == work[id].state \in {"Completed", "Failed"}

\* Time passes: the row is terminal and beyond the retention window or the cap.
AgeRow(id) ==
    /\ id \in Visible /\ rows[id].status \in {"cancelled", "finished"} /\ ~rows[id].aged
    /\ rows' = [rows EXCEPT ![id].aged = TRUE]
    /\ UNCHANGED <<calls, ledger, work, pass>>

\* Time passes: the engine record ended before the retention cutoff.
AgeWork(id) ==
    /\ Ended(id) /\ ~work[id].aged
    /\ work' = [work EXCEPT ![id].aged = TRUE]
    /\ UNCHANGED <<calls, rows, ledger, pass>>

---------------------------------------------------------------------------
(* The maintenance pass: three scans, one after the other. *)

Goto(step, rest, passed) ==
    pc' = step /\ todo' = rest /\ picked' = passed /\ UNCHANGED faults

\* Expired terminal rows.
SelectExpired ==
    /\ pc = "expired"
    /\ LET expired == {id \in Visible : rows[id].aged} IN
       IF expired = {} THEN Goto("orphans", {}, {}) ELSE Goto("retire", expired, {})
    /\ UNCHANGED <<calls, rows, ledger, work>>

\* Mutant: the answer of the engine is not looked at, as with a bulk deletion.
RetireUnchecked(id) ==
    /\ pc = "retire" /\ id \in todo
    /\ work' = IF Ended(id) THEN [work EXCEPT ![id] = NoWork] ELSE work
    /\ Goto("retire", todo \ {id}, picked \cup {id})
    /\ UNCHANGED <<calls, rows, ledger>>

\* Mutant: an instance the engine does not find is not retired.
NotFoundFails(id) ==
    /\ pc = "retire" /\ id \in todo
    /\ work' = IF Ended(id) THEN [work EXCEPT ![id] = NoWork] ELSE work
    /\ Goto("retire", todo \ {id}, IF Ended(id) THEN picked \cup {id} ELSE picked)
    /\ UNCHANGED <<calls, rows, ledger>>

\* delete_instance: deleted or not found is retired, running is not.
RetireOne(id) ==
    /\ pc = "retire" /\ id \in todo
    /\ work' = IF Ended(id) THEN [work EXCEPT ![id] = NoWork] ELSE work
    /\ Goto("retire", todo \ {id},
            IF work[id].state = "running" THEN picked ELSE picked \cup {id})
    /\ UNCHANGED <<calls, rows, ledger>>

RetireDone ==
    /\ pc = "retire" /\ todo = {}
    /\ Goto(IF picked = {} THEN "orphans" ELSE "delete", {}, picked)
    /\ UNCHANGED <<calls, rows, ledger, work>>

\* The rows of retired instances only.
DeleteExpired ==
    /\ pc = "delete"
    /\ rows' = [id \in Ids |-> IF id \in picked \cap Visible THEN NoRow ELSE rows[id]]
    /\ Goto("orphans", {}, {})
    /\ UNCHANGED <<calls, ledger, work>>

\* Mutant: the wrong engine status is scanned.
CompletedCandidates ==
    /\ pc = "orphans"
    /\ LET ended == {id \in Ids : work[id].state = "Completed"} IN
       Goto(IF ended = {} THEN "scan" ELSE "present", {}, ended)
    /\ UNCHANGED <<calls, rows, ledger, work>>

\* Engine records that failed, as those of rolled-back callers do.
OrphanCandidates ==
    /\ pc = "orphans"
    /\ LET failed == {id \in Ids : work[id].state = "Failed"} IN
       Goto(IF failed = {} THEN "scan" ELSE "present", {}, failed)
    /\ UNCHANGED <<calls, rows, ledger, work>>

\* Candidates without a df.instances row.
SelectOrphans ==
    /\ pc = "present"
    /\ LET orphans == picked \ Visible IN
       Goto(IF orphans = {} THEN "scan" ELSE "bulk", {}, orphans)
    /\ UNCHANGED <<calls, rows, ledger, work>>

\* delete_instance_bulk skips what runs or is younger than the cutoff.
DeleteOrphans ==
    /\ pc = "bulk"
    /\ work' = [id \in Ids |-> IF id \in picked /\ Ended(id) /\ work[id].aged
                               THEN NoWork ELSE work[id]]
    /\ Goto("scan", {}, {})
    /\ UNCHANGED <<calls, rows, ledger>>

\* Mutant: the queue is not one of the tables looked at.
IgnoresQueue(id) == work[id].state \in {"none", "queued"}

\* no_work: none of the six engine tables has the identifier.
NoWorkLeft(id) == work[id].sub = 0

\* Ledger entries without engine work.
ScanLedger ==
    /\ pc = "scan"
    /\ LET retired == {id \in Charged : NoWorkLeft(id)} IN
       Goto(IF retired = {} THEN "expired" ELSE "metadata", {}, retired)
    /\ UNCHANGED <<calls, rows, ledger, work>>

\* Mutant: a surviving row does not keep the entry.
MetadataIgnored ==
    /\ pc = "metadata" /\ Goto("uncharge", {}, picked)
    /\ UNCHANGED <<calls, rows, ledger, work>>

\* submissions_without_metadata: a visible row keeps the entry.
WithoutMetadata ==
    /\ pc = "metadata"
    /\ LET removable == picked \ Visible IN
       Goto(IF removable = {} THEN "expired" ELSE "uncharge", {}, removable)
    /\ UNCHANGED <<calls, rows, ledger, work>>

\* The entries are deleted, if there still is no work.
Uncharge ==
    /\ pc = "uncharge"
    /\ ledger' = [id \in Ids |-> IF id \in picked \cap Charged /\ NoWorkLeft(id)
                                 THEN NoEntry ELSE ledger[id]]
    /\ Goto("expired", {}, {})
    /\ UNCHANGED <<calls, rows, work>>

\* A failed query ends its scan; a failed delete_instance skips its instance;
\* a restart of the worker starts the pass again.
PassFault ==
    /\ faults < MaxFaults /\ faults' = faults + 1
    /\ \/ /\ pc \in {"expired", "delete"} /\ pc' = "orphans"
          /\ todo' = {} /\ picked' = {}
       \/ /\ pc \in {"orphans", "present", "bulk"} /\ pc' = "scan"
          /\ todo' = {} /\ picked' = {}
       \/ /\ pc = "retire" /\ \E id \in todo : todo' = todo \ {id}
          /\ UNCHANGED <<pc, picked>>
       \/ /\ pc # "expired" /\ pc' = "expired"
          /\ todo' = {} /\ picked' = {}
    /\ UNCHANGED <<calls, rows, ledger, work>>

---------------------------------------------------------------------------

Init ==
    /\ stage = [c \in Sessions |-> "idle"]
    /\ cand = [c \in Sessions |-> {}]
    /\ seen = [c \in Sessions |-> {}]
    /\ locker = Nobody
    /\ rows = [id \in Ids |-> NoRow]
    /\ ledger = [id \in Ids |-> NoEntry]
    /\ work = [id \in Ids |-> NoWork]
    /\ next = 1
    /\ pc = "expired" /\ todo = {} /\ picked = {} /\ faults = 0

SessionStep(c) ==
    \/ BeginStart(c) \/ CheckLimits(c) \/ StartFails(c)
    \/ \E id \in Ids : Reserve(c, id) \/ Claim(c, id) \/ Enqueue(c, id)
    \/ Commit(c) \/ Rollback(c)

EngineStep(id) == Dispatch(id) \/ Finalize(id) \/ Ends(id)

PassStep ==
    \/ SelectExpired \/ (\E id \in Ids : RetireOne(id)) \/ RetireDone \/ DeleteExpired
    \/ OrphanCandidates \/ SelectOrphans \/ DeleteOrphans
    \/ ScanLedger \/ WithoutMetadata \/ Uncharge

Next ==
    \/ \E c \in Sessions : SessionStep(c)
    \/ \E id \in Ids : Cancel(id) \/ EngineStep(id) \/ AgeRow(id) \/ AgeWork(id)
    \/ PassStep
    \/ PassFault

Spec == Init /\ [][Next]_vars

\* The worker's loop and the engine's dispatchers run on, workflows end, time
\* passes.  Callers owe nothing.
FairSpec ==
    /\ Spec
    /\ WF_vars(PassStep)
    /\ \A id \in Ids :
        WF_vars(EngineStep(id)) /\ WF_vars(AgeRow(id)) /\ WF_vars(AgeWork(id))
---------------------------------------------------------------------------
(* Properties. *)

RowRecord == [sub : 0 .. MaxSubs, owner : Owners, aged : BOOLEAN,
              status : {"none", "pending", "cancelled", "finished"}]
EntryRecord == [sub : 0 .. MaxSubs, owner : Owners]
WorkRecord == [sub : 0 .. MaxSubs, cancelled : BOOLEAN, aged : BOOLEAN,
               state : {"none", "queued", "running", "Completed", "Failed"}]

\* Types.
TypeOK ==
    /\ stage \in [Sessions -> Stages]
    /\ cand \in [Sessions -> SUBSET Ids] /\ seen \in [Sessions -> SUBSET Ids]
    /\ locker \in Sessions \cup {Nobody}
    /\ rows \in [Ids -> RowRecord]
    /\ ledger \in [Ids -> EntryRecord]
    /\ work \in [Ids -> WorkRecord]
    /\ next \in 1 .. MaxSubs + 1 /\ faults \in 0 .. MaxFaults
    /\ pc \in Steps /\ todo \subseteq Ids /\ picked \subseteq Ids

\* Whatever the engine has of an identifier is charged to the submission that
\* enqueued it, after a rollback of the caller too.
WorkIsCharged ==
    \A id \in Ids : work[id].sub # 0 =>
        id \in Charged /\ ledger[id].sub = work[id].sub

\* A row the worker finished keeps its ledger entry for as long as it exists,
\* whatever step of its removal fails (submissions_without_metadata).
EvidenceOutlivesRow ==
    \A id \in Ids : rows[id].status = "finished" =>
        id \in Charged /\ ledger[id].sub = rows[id].sub

\* The retained quota bounds rows and ledger entries together and the concurrent
\* one the engine's unfinished work, whatever concurrent callers, rollbacks and
\* maintenance do between a count and its start (enforce_instance_limits).
QuotasHold ==
    /\ MaxInstances > 0 =>
           Cardinality(Charged \cup {id \in Ids : rows[id].sub # 0}) <= MaxInstances
    /\ MaxConcurrent > 0 => Cardinality(ActiveWork) <= MaxConcurrent

\* Retention never takes the row away from running work: it deletes rows only
\* after delete_instance found the engine record ended or absent.
NoRunningRowRemoved ==
    [][\A id \in Ids : id \in Visible \ Visible' => work[id].state # "running"]_vars

\* The identifier names the submission of its row or of its ledger entry.
Holder(id) == IF ledger[id].owner = Committed THEN ledger[id].sub ELSE rows[id].sub
Phase(id) ==
    IF Holder(id) = 0 THEN "free"
    ELSE IF work[id].sub # 0 THEN "active"
    ELSE IF ledger[id].owner \in Sessions /\ ledger[id].sub = rows[id].sub THEN "claimed"
    ELSE "over"

SI == INSTANCE SubmissionIds
        WITH name <- [id \in Ids |-> [sub |-> Holder(id), phase |-> Phase(id)]]

\* An identifier names one submission at a time, and that submission's work
\* runs at most once: the stores implement SubmissionIds.
IdNamesOneSubmission == SI!Spec

\* A rolled-back submission does not consume quota for ever: its engine record
\* and then its ledger entry are reclaimed.
OrphansAreReclaimed ==
    \A id \in Ids, s \in Subs :
        (id \in Charged /\ ledger[id].sub = s /\ rows[id].sub # s)
            ~> ~(id \in Charged /\ ledger[id].sub = s)

\* Finished instances leave all three stores.
FinishedAreRemoved ==
    \A id \in Ids, s \in Subs :
        (rows[id].status = "finished" /\ rows[id].sub = s)
            ~> (rows[id].sub # s /\ ledger[id].sub # s /\ work[id].sub # s)

\* The comment on reclaim_orphaned_instances: an instance whose df commit is
\* merely in-flight is never touched.
InFlightCommitUntouched ==
    [][\A id \in Ids :
        (\E c \in Sessions : id \in Own(c)) /\ work[id].sub # 0 => work'[id].sub # 0]_vars
=============================================================================
