------------------------- MODULE OriginMaintenance -------------------------
(***************************************************************************)
(* The worker's maintenance slices over the control database and the       *)
(* registered origins (satellite databases with an installation of their   *)
(* own): six scans, each of which looks at one page and keeps a cursor.    *)
(* A slice runs the scans that are pending; when none is left, the round   *)
(* is over and the worker sleeps.                                          *)
(*                                                                         *)
(* The records of the engine's tables are numbered in the order of their   *)
(* identifiers; Scope gives the database of each.  A scan of one page is   *)
(* one step: module Submissions takes the scans apart, for one database    *)
(* and one page.  pg_durable.retention_days is 0, so that terminal rows    *)
(* are expired and ended engine records are before the cutoff.             *)
(***************************************************************************)
EXTENDS Naturals, FiniteSets, FiniteSetsExt

CONSTANTS
    Origins,        \* the satellite installations, positive numbers
    Records,        \* the identifiers, positive numbers
    Scope,          \* Scope[s]: the origin of s, Control for the control database
    Batch,          \* RECLAIM_BATCH
    EngineBatch,    \* ORIGIN_ENGINE_BATCH
    Uses,           \* bound: the sets of identifiers in use
    MaxFaults       \* bound: failed queries, outages and worker restarts

Control == 0

ASSUME MaintenanceAssumption ==
    /\ IsFiniteSet(Origins) /\ Origins \subseteq Nat \ {Control}
    /\ IsFiniteSet(Records) /\ Records \subseteq Nat \ {0}
    /\ Scope \in [Records -> Origins \cup {Control}]
    /\ \A s, t \in Records : s < t => Scope[s] <= Scope[t]
    /\ Batch \in Nat \ {0} /\ EngineBatch \in Nat \ {0}
    /\ Uses \subseteq SUBSET Records /\ MaxFaults \in Nat

VARIABLES
    row,        \* row[s]: the df.instances row
    work,       \* work[s]: what the engine has
    withdrawn,  \* work df.cancel() has told the engine to cancel
    cancelled,  \* running work of removed origins the worker has cancelled
    ledger,     \* the identifiers _submissions has
    state,      \* state[o]: the origin is "up", "down" or "removed"
    registered, \* the origins _origins has
    stage,      \* the scan the slice is at, or "idle"
    pending,    \* MaintenanceProgress: the scans with pages left
    cursor,     \* cursor[x]: where scan x goes on, 0 at its start
    round,      \* OriginRetentionCursor
    faults

data == <<row, work, withdrawn, cancelled, ledger>>
progress == <<stage, pending, cursor, round>>
vars == <<data, state, registered, progress, faults>>

Scans == {"control", "legacy", "origins", "engine", "registrations", "submissions"}
Position == [control |-> 1, legacy |-> 2, origins |-> 3, engine |-> 4,
             registrations |-> 5, submissions |-> 6]

Of(o) == {s \in Records : Scope[s] = o}
StateOf(s) == IF Scope[s] = Control THEN "up" ELSE state[Scope[s]]
Ended(s) == work[s] \in {"Failed", "Completed"}

\* The databases the scans visit: an origin that no activity has registered is
\* not among them.
Known == registered \cup {Control}
Expired(o) == {s \in Of(o) : row[s] = "terminal"}

\* A query that answers, or one that fails.
Query(f) == IF f THEN faults < MaxFaults /\ faults' = faults + 1 ELSE UNCHANGED faults

\* ORDER BY id LIMIT n, after a cursor.
Page(S, after, n) ==
    LET later == {s \in S : s > after}
    IN  {s \in later : Cardinality({t \in later : t < s}) < n}

Last(page) == IF page = {} THEN 0 ELSE Max(page)

\* The cursor of a scan that stops at the first page that is not full.
AfterFull(page) == IF Cardinality(page) = Batch THEN Last(page) ELSE 0

\* delete_instance and delete_instance_bulk take ended records only.
DeleteWork(S) ==
    /\ work' = [s \in Records |-> IF s \in S /\ Ended(s) THEN "none" ELSE work[s]]

DeleteRows(S) == row' = [s \in Records |-> IF s \in S THEN "none" ELSE row[s]]

---------------------------------------------------------------------------
(* Progress of a round. *)

NoRound == [origin |-> 0, pending |-> [o \in Origins |-> 0], visited |-> {}, finished |-> {}]

\* finish_slice and the order of the scans: scan x is over, those in p have
\* pages left.
Leave(x, p, r) ==
    LET later == {y \in p : Position[y] > Position[x]}
        first(S) == CHOOSE y \in S : \A z \in S : Position[y] <= Position[z]
    IN  IF p = {}
        THEN stage' = "idle" /\ pending' = Scans /\ round' = NoRound
        ELSE /\ stage' = first(IF later # {} THEN later ELSE p)
             /\ pending' = p /\ round' = r

MoveTo(x, c) == cursor' = [cursor EXCEPT ![x] = c]
LeaveScan(x, more) == Leave(x, IF more THEN pending ELSE pending \ {x}, round)

\* The interval has passed.
BeginRound ==
    /\ stage = "idle"
    /\ stage' = "control"
    /\ UNCHANGED <<data, state, registered, pending, cursor, round, faults>>

---------------------------------------------------------------------------
(* The control database. *)

\* Mutant: the scan starts over as long as something on the page is left.
StuckPage(f, bad) ==
    /\ stage = "control"
    /\ Query(f # "ok")
    /\ f \in {"ok", "read", "delete"} /\ bad = 0
    /\ LET page == Page(Expired(Control), cursor["control"], Batch)
           retired == {s \in page : work[s] # "running"}
           stop == IF retired = page THEN AfterFull(page) ELSE 0
       IN  IF f = "read"
           THEN MoveTo("control", 0) /\ LeaveScan("control", FALSE) /\ UNCHANGED <<row, work>>
           ELSE /\ MoveTo("control", stop)
                /\ DeleteWork(retired)
                /\ IF f = "delete" THEN UNCHANGED row ELSE DeleteRows(retired)
                /\ LeaveScan("control", stop # 0)
    /\ UNCHANGED <<withdrawn, cancelled, ledger, state, registered>>

\* A page of expired rows: the engine record first, then the row.  The read
\* may fail, one engine call, or the deletion of the rows.
ControlScan(f, bad) ==
    /\ stage = "control"
    /\ Query(f # "ok")
    /\ LET page == Page(Expired(Control), cursor["control"], Batch)
           retired == {s \in page \ {bad} : work[s] # "running"}
       IN  /\ IF f = "engine" THEN bad \in page ELSE bad = 0
           /\ IF f = "read"
              THEN MoveTo("control", 0) /\ LeaveScan("control", FALSE) /\ UNCHANGED <<row, work>>
              ELSE /\ MoveTo("control", AfterFull(page))
                   /\ DeleteWork(retired)
                   /\ IF f = "delete" THEN UNCHANGED row ELSE DeleteRows(retired)
                   /\ LeaveScan("control", AfterFull(page) # 0)
    /\ UNCHANGED <<withdrawn, cancelled, ledger, state, registered>>

\* Mutant: the scan stops after its first page.
FirstPageOnly(f) ==
    /\ stage = "legacy"
    /\ Query(f)
    /\ LET page == Page({s \in Of(Control) : work[s] = "Failed"}, cursor["legacy"], Batch)
       IN  DeleteWork(IF f THEN {} ELSE {s \in page : row[s] = "none"})
    /\ MoveTo("legacy", 0) /\ LeaveScan("legacy", FALSE)
    /\ UNCHANGED <<row, withdrawn, cancelled, ledger, state, registered>>

\* reclaim_orphaned_instances: a page of failed records of the control
\* database; the cursor goes on until a page is empty.
LegacyScan(f) ==
    /\ stage = "legacy"
    /\ Query(f)
    /\ LET page == Page({s \in Of(Control) : work[s] = "Failed"}, cursor["legacy"], Batch)
           stop == IF f THEN 0 ELSE Last(page)
       IN  /\ DeleteWork(IF f THEN {} ELSE {s \in page : row[s] = "none"})
           /\ MoveTo("legacy", stop)
           /\ LeaveScan("legacy", stop # 0)
    /\ UNCHANGED <<row, withdrawn, cancelled, ledger, state, registered>>

---------------------------------------------------------------------------
(* The registered origins. *)

\* OriginRetentionCursor::enter, for an origin not finished in this round.
Enter(o) == [round EXCEPT !.origin = o, !.visited = @ \cup {o}, !.pending[o] = 0]

\* Mutant: any saved identifier brings the origin back in this round.
AlwaysResume(r, o, before, after) ==
    IF after # 0 THEN [r EXCEPT !.pending[o] = after] ELSE [r EXCEPT !.finished = @ \cup {o}]

\* An origin comes up again in this round only if its pass moved on.
resume_after_pass(r, o, before, after) ==
    IF after # 0 /\ after # before
    THEN [r EXCEPT !.pending[o] = after]
    ELSE [r EXCEPT !.finished = @ \cup {o}]

finish_round ==
    [round EXCEPT !.origin = 0, !.visited = {},
                  !.pending = [o \in Origins |-> IF o \in round.visited THEN @[o] ELSE 0]]

\* retire_origin_instances: one candidate after the other.  The pass ends at
\* bad when the engine does not answer, or when its record is gone and the row
\* cannot be deleted.
RetirePage(page, f, bad) ==
    LET done == {s \in page : work[s] # "running" /\ (bad = 0 \/ s < bad)}
        half == {s \in page : f = "delete" /\ s = bad}
    IN  DeleteWork(done \cup half) /\ DeleteRows(done)

\* sweep_registered_origins: one origin of the round.  The list of origins, the
\* connection, one engine call or the deletion of one row may fail; a timeout is
\* a failure where the pass has come to.
OriginScan(f, bad) ==
    /\ stage = "origins"
    /\ Query(f # "ok")
    /\ LET nexts == {o \in registered : o > round.origin}
       IN  \/ /\ f = "read" /\ bad = 0
              /\ Leave("origins", pending \ {"origins"}, NoRound)
              /\ UNCHANGED <<row, work>>
           \/ /\ f = "ok" /\ bad = 0 /\ nexts = {}
              /\ LET r == finish_round
                     more == \E o \in Origins : r.pending[o] # 0
                 IN  Leave("origins", IF more THEN pending ELSE pending \ {"origins"}, r)
              /\ UNCHANGED <<row, work>>
           \/ /\ nexts # {} /\ f \in {"ok", "connect", "engine", "delete"}
              /\ LET o == Min(nexts)
                     before == round.pending[o]
                     page == Page(Expired(o), before, Batch)
                     after == IF bad # 0 THEN bad ELSE AfterFull(page)
                     connects == state[o] = "up" /\ f # "connect"
                 IN  /\ f \in {"engine", "delete"} <=> bad # 0
                     /\ IF o \in round.finished \/ ~connects
                        THEN bad = 0 /\ UNCHANGED <<row, work>>
                        ELSE /\ bad \in page \cup {0}
                             /\ f = "delete" => work[bad] # "running"
                             /\ RetirePage(page, f, bad)
                     /\ Leave("origins", pending,
                              IF o \in round.finished
                              THEN [round EXCEPT !.origin = o, !.visited = @ \cup {o}]
                              ELSE resume_after_pass(Enter(o), o, before,
                                       IF connects THEN after ELSE before))
    /\ UNCHANGED <<cursor, withdrawn, cancelled, ledger, state, registered>>

\* Mutant: an origin the worker cannot connect to counts as removed.
UnreachableIsRemoved(o, probed) == state[o] # "up"

\* The absence probe connects by itself; it answers only when the database is
\* gone or can be asked.
origin_is_removed(o, probed) == probed /\ state[o] = "removed"

\* reclaim_origin_instances: a page of engine records of registered origins.
\* Those of an origin that answers lose their orphans; those of a removed one
\* are cancelled and deleted; those of any other are left for later.  The list
\* may fail, or the connections to the origins.
EngineScan(f) ==
    /\ stage = "engine"
    /\ Query(f # "ok")
    /\ LET listed == {s \in Records : /\ Scope[s] \in registered
                                      /\ work[s] \in {"running", "Failed", "Completed"}}
           page == IF f = "read" THEN {} ELSE Page(listed, cursor["engine"], EngineBatch)
           gone == {s \in page : StateOf(s) # "up" /\ origin_is_removed(Scope[s], f = "ok")}
           orphans == {s \in page : /\ StateOf(s) = "up" /\ f = "ok"
                                     /\ work[s] = "Failed" /\ row[s] = "none"}
       IN  /\ cancelled' = cancelled \cup {s \in gone : work[s] = "running"}
           /\ DeleteWork(gone \cup orphans)
           /\ MoveTo("engine", Last(page))
           /\ LeaveScan("engine", page # {})
    /\ UNCHANGED <<row, withdrawn, ledger, state, registered>>

\* no_work: nothing in any of the engine's six tables.
NoWork(o) == \A s \in Of(o) : work[s] = "none"

\* Mutant: the registration of a removed origin goes at once.
DeleteRegistration(o) == registered' = registered \ {o}

\* The registration's row is locked, so that an activity that registers its
\* origin waits and then inserts it again.
CleanRegistration(o) == registered' = IF NoWork(o) THEN registered \ {o} ELSE registered

\* cleanup_origin_registrations: the next registration.
RegistrationScan(f) ==
    /\ stage = "registrations"
    /\ Query(f # "ok")
    /\ LET nexts == {o \in registered : o > cursor["registrations"]}
           o == Min(nexts)
       IN  IF f = "read" \/ nexts = {}
           THEN /\ LET stop == IF f = "read" THEN cursor["registrations"] ELSE 0
                   IN  MoveTo("registrations", stop) /\ LeaveScan("registrations", stop # 0)
                /\ UNCHANGED registered
           ELSE /\ MoveTo("registrations", o)
                /\ IF origin_is_removed(o, f = "ok") THEN CleanRegistration(o)
                                                     ELSE UNCHANGED registered
                /\ LeaveScan("registrations", TRUE)
    /\ UNCHANGED <<data, state>>

\* cleanup_submissions: a page of the ledger.  An entry goes when neither the
\* engine nor its database has the identifier.
SubmissionScan(f) ==
    /\ stage = "submissions"
    /\ Query(f)
    /\ LET page == Page(ledger, cursor["submissions"], Batch)
           answered == {s \in page : /\ work[s] = "none"
                                     /\ \/ StateOf(s) = "up" /\ row[s] = "none"
                                        \/ StateOf(s) = "removed"}
           stop == IF f THEN 0 ELSE AfterFull(page)
       IN  /\ ledger' = IF f THEN ledger ELSE ledger \ answered
           /\ MoveTo("submissions", stop)
           /\ LeaveScan("submissions", stop # 0)
    /\ UNCHANGED <<row, work, withdrawn, cancelled, state, registered>>

\* The worker comes back with a fresh MaintenanceProgress.
Restart ==
    /\ Query(TRUE)
    /\ stage' = "idle" /\ pending' = Scans /\ round' = NoRound
    /\ cursor' = [x \in DOMAIN cursor |-> 0]
    /\ UNCHANGED <<data, state, registered>>

---------------------------------------------------------------------------
(* The engine, the callers and the databases. *)

\* The first turn: a start with its cancellation behind it ends there, before
\* any activity.
Dispatch(s) ==
    /\ work[s] = "queued"
    /\ work' = [work EXCEPT ![s] = IF s \in withdrawn THEN "Failed" ELSE "running"]
    /\ withdrawn' = withdrawn \ {s}
    /\ UNCHANGED <<row, cancelled, ledger, state, registered, progress, faults>>

\* Every routed activity registers its origin before it connects.
register_origin(s) ==
    /\ work[s] = "running" /\ Scope[s] \in Origins \ registered
    /\ registered' = registered \cup {Scope[s]}
    /\ UNCHANGED <<data, state, progress, faults>>

\* An orchestration ends.  It completes after its finalization, and fails
\* after its first activity or at a cancellation that comes before it.
End(s) ==
    /\ work[s] = "running"
    /\ Scope[s] \in Known \/ s \in withdrawn
    /\ \E end \in {"Failed", "Completed"} :
        /\ end = "Completed" =>
              Scope[s] \in Known /\ (row[s] = "terminal" \/ StateOf(s) = "removed")
        /\ work' = [work EXCEPT ![s] = end]
    /\ withdrawn' = withdrawn \ {s} /\ cancelled' = cancelled \ {s}
    /\ UNCHANGED <<row, ledger, state, registered, progress, faults>>

\* The registration kept failing until graph admission and finalization had
\* spent their attempts.
AdmissionGivesUp(s) ==
    /\ work[s] = "running" /\ Scope[s] \notin Known
    /\ Query(TRUE)
    /\ work' = [work EXCEPT ![s] = "Failed"]
    /\ withdrawn' = withdrawn \ {s} /\ cancelled' = cancelled \ {s}
    /\ UNCHANGED <<row, ledger, state, registered, progress>>

\* update_instance_status: the worker makes the row terminal.
Finalize(s) ==
    /\ row[s] = "open" /\ work[s] = "running"
    /\ StateOf(s) = "up" /\ Scope[s] \in Known
    /\ row' = [row EXCEPT ![s] = "terminal"]
    /\ UNCHANGED <<work, withdrawn, cancelled, ledger, state, registered, progress, faults>>

\* df.cancel(), also of a start that is still queued: the engine is told at
\* once; the row becomes terminal when and if the caller commits.
cancel(s, commits) ==
    /\ row[s] # "none" /\ StateOf(s) = "up"
    /\ withdrawn' = withdrawn \cup {t \in {s} : work[t] \in {"queued", "running"}}
    /\ row' = IF commits THEN [row EXCEPT ![s] = "terminal"] ELSE row
    /\ UNCHANGED <<work, cancelled, ledger, state, registered, progress, faults>>

\* DROP EXTENSION or DROP DATABASE.
Remove(o) ==
    /\ state[o] # "removed"
    /\ state' = [state EXCEPT ![o] = "removed"]
    /\ DeleteRows(Of(o))
    /\ UNCHANGED <<work, withdrawn, cancelled, ledger, registered, progress, faults>>

Outage(o) ==
    /\ state[o] = "up" /\ Query(TRUE)
    /\ state' = [state EXCEPT ![o] = "down"]
    /\ UNCHANGED <<data, registered, progress>>

Recover(o) ==
    /\ state[o] = "down"
    /\ state' = [state EXCEPT ![o] = "up"]
    /\ UNCHANGED <<data, registered, progress, faults>>

---------------------------------------------------------------------------
\* Started work, of callers that committed and of callers that rolled back;
\* the latter may have called df.cancel() as well.  An origin without work is
\* of no account: it is one that was removed.
Init ==
    /\ \E used \in Uses : \E committed \in SUBSET used :
        /\ row = [s \in Records |-> IF s \in committed THEN "open" ELSE "none"]
        /\ work = [s \in Records |-> IF s \in used THEN "queued" ELSE "none"]
        /\ withdrawn \in SUBSET (used \ committed)
        /\ ledger = used
        /\ state = [o \in Origins |-> IF used \cap Of(o) # {} THEN "up" ELSE "removed"]
    /\ cancelled = {} /\ registered = {}
    /\ stage = "idle" /\ pending = Scans /\ round = NoRound
    /\ cursor = [x \in Scans \ {"origins"} |-> 0]
    /\ faults = 0

SliceStep ==
    \/ BeginRound
    \/ ControlScan("ok", 0) \/ LegacyScan(FALSE) \/ OriginScan("ok", 0)
    \/ EngineScan("ok") \/ RegistrationScan("ok") \/ SubmissionScan(FALSE)

SliceFault ==
    \/ \E f \in {"read", "delete"} : ControlScan(f, 0)
    \/ \E bad \in Records : \/ ControlScan("engine", bad)
                            \/ \E f \in {"engine", "delete"} : OriginScan(f, bad)
    \/ LegacyScan(TRUE) \/ SubmissionScan(TRUE)
    \/ \E f \in {"read", "connect"} :
          OriginScan(f, 0) \/ EngineScan(f) \/ RegistrationScan(f)

Next ==
    \/ SliceStep \/ SliceFault \/ Restart
    \/ \E s \in Records :
          \/ Dispatch(s) \/ register_origin(s) \/ End(s) \/ AdmissionGivesUp(s)
          \/ Finalize(s) \/ \E commits \in BOOLEAN : cancel(s, commits)
    \/ \E o \in Origins : Remove(o) \/ Outage(o) \/ Recover(o)

Spec == Init /\ [][Next]_vars

\* The worker's loop goes on, the engine dispatches, registers and obeys a
\* cancellation.  Uncancelled work may run for ever and an outage may last.
FairSpec ==
    /\ Spec
    /\ WF_vars(SliceStep)
    /\ WF_vars(\E s \in Records : Dispatch(s))
    /\ WF_vars(\E s \in Records : register_origin(s))
    /\ WF_vars(\E s \in cancelled : End(s))

---------------------------------------------------------------------------
(* Properties. *)

\* The worker cancels running work only of origins that are gone for good: a
\* failed connection, a failed probe or an outage never counts as removal.
OnlyRemovedAreCancelled == \A s \in cancelled : StateOf(s) = "removed"

\* A round ends, whatever cannot be retired or reached: the worker goes back
\* to its interval instead of sweeping the same page again and again.
RoundsEnd == []<>(stage = "idle")

\* Finished instances leave a database that answers and that some activity has
\* registered, whatever running or failing candidates come before them on
\* their page, and though their start may still be queued: again and again
\* there is none left.  It is false of an origin that nothing has registered,
\* where an instance was cancelled before its first activity.
ExpiredAreRetired ==
    []<>(\A s \in Records :
            ~(/\ row[s] = "terminal" /\ work[s] # "running"
              /\ StateOf(s) = "up" /\ Scope[s] \in Known))

\* Rolled-back submissions leave the engine once they failed in a database the
\* scans visit, and what neither the engine nor a database has leaves the
\* ledger, registered or not.
OrphansAreReclaimed ==
    []<>(\A s \in Records :
            ~(/\ row[s] = "none" /\ s \in ledger /\ StateOf(s) = "up"
              /\ work[s] = "none" \/ (work[s] = "Failed" /\ Scope[s] \in Known)))

\* A registered origin that is removed leaves nothing: its work is cancelled
\* and deleted, its ledger entries go, and then its registration.
RemovedOriginLeavesNothing ==
    \A o \in Origins :
        (state[o] = "removed" /\ o \in registered)
        ~> (o \notin registered /\ NoWork(o) /\ ledger \cap Of(o) = {})
=============================================================================
