------------------------ MODULE NewTransactionStarts ------------------------
(***************************************************************************)
(* df.start(..., transaction_mode => 'new') in client sessions of the      *)
(* origin, next to the activities of Activities.                           *)
(*                                                                         *)
(* Such a call runs df.start() on a loopback session and waits for it on a *)
(* socket, inside the caller's open transaction.  When that transaction    *)
(* holds a lock the loopback session needs, neither can go on and the      *)
(* deadlock detector does not see why.  At most max_new_transaction_starts *)
(* calls run at a time; the slots are session-level advisory locks.        *)
(***************************************************************************)
EXTENDS Activities

CONSTANTS
    Sessions,           \* client sessions, each with one transaction
    MaxLaunches         \* pg_durable.max_new_transaction_starts

ASSUME StartsAssumption == MaxLaunches \in Nat \ {0} /\ Nobody \notin Sessions

VARIABLES
    call,       \* call[s]: where the session's call is
    launching   \* the sessions that hold a launch slot

launch == <<call, launching>>
vars == <<actvars, origin, launch>>

Calls(s, to) == call' = [call EXCEPT ![s] = to]

---------------------------------------------------------------------------
(* The call. *)

\* Not inside a workflow, and a role that can log in: otherwise an error.
CallStart(s, valid) ==
    /\ call[s] = "idle"
    /\ Calls(s, IF valid THEN "slot" ELSE "returned")
    /\ UNCHANGED <<actvars, origin, launching>>

\* try_acquire_new_transaction_start_slot: one round over the slots.
TakeLaunchSlot(s) ==
    /\ call[s] = "slot" /\ Cardinality(launching) < MaxLaunches
    /\ launching' = launching \cup {s}
    /\ Calls(s, "inner")
    /\ UNCHANGED <<actvars, origin>>

\* Polling ends after new_transaction_start_timeout.
LaunchTimesOut(s) ==
    /\ call[s] = "slot" /\ Cardinality(launching) >= MaxLaunches
    /\ Calls(s, "returned")
    /\ UNCHANGED <<actvars, origin, launching>>

\* Mutant: the loopback session has no timeouts.
UnboundedStart(s) ==
    /\ call[s] = "inner" /\ owner = Nobody
    /\ Calls(s, "close")
    /\ UNCHANGED <<actvars, origin, launching>>

\* start_on_new_session: connect, then df.start() commits, fails, or waits for
\* a lock until lock_timeout or statement_timeout.
InnerStart(s) ==
    /\ call[s] = "inner"
    /\ Calls(s, "close")
    /\ UNCHANGED <<actvars, origin, launching>>

\* The loopback session is closed, then the guard gives the slot back.
CallReturns(s) ==
    /\ call[s] = "close"
    /\ launching' = launching \ {s}
    /\ Calls(s, "returned")
    /\ UNCHANGED <<actvars, origin>>

---------------------------------------------------------------------------
(* What else a session's transaction does: DDL on the extension. *)

\* An exclusive lock on the extension's tables, once nobody shares them.
LockTables(s) ==
    /\ call[s] = "idle" /\ owner = Nobody
    /\ Holders("lock") = {}
    /\ owner' = s
    /\ UNCHANGED <<actvars, inst, allowed, stale, launch>>

\* The activities whose last check is still to come.
BeforeLastCheck ==
    {a \in Sql : pc[a] \notin {"run", "unwind", "done"}}
      \cup {a \in Http : pc[a] \in {"queued", "slot", "admit", "check", "catWait", "catConnect",
                                    "catAttest", "catLock", "catClose", "build"}}

\* The transaction ends: it dropped the extension, created it again, or
\* neither (a rollback too).
EndTransaction(s, new) ==
    /\ owner = s /\ call[s] \in {"idle", "returned"}
    /\ owner' = Nobody
    /\ new \in {inst, None, Own + 1} /\ (inst # Own => new # None)
    /\ inst' = new
    /\ stale' = IF new # Own THEN stale \cup (BeforeLastCheck \cap Routed) ELSE stale
    /\ Calls(s, "returned")
    /\ UNCHANGED <<actvars, allowed, launching>>

\* REVOKE EXECUTE ON FUNCTION df.http.
Revoke ==
    /\ allowed /\ allowed' = FALSE
    /\ stale' = stale \cup (BeforeLastCheck \cap Http)
    /\ UNCHANGED <<actvars, inst, owner, launch>>

---------------------------------------------------------------------------

Init ==
    /\ ActInit
    /\ call = [s \in Sessions |-> "idle"] /\ launching = {}

\* A call goes on without a wait for a slot having to time out.
CallStep(s) ==
    TakeLaunchSlot(s) \/ InnerStart(s) \/ CallReturns(s)

Quiet ==
    /\ \A a \in Activity : At(a, "done")
    /\ \A s \in Sessions : call[s] \in {"idle", "returned"}

Settled == Quiet /\ UNCHANGED vars

Next ==
    \/ ActNext /\ UNCHANGED launch
    \/ \E s \in Sessions :
          \/ CallStep(s) \/ LaunchTimesOut(s) \/ LockTables(s)
          \/ \E valid \in BOOLEAN : CallStart(s, valid)
          \/ \E new \in {None, Own, Own + 1} : EndTransaction(s, new)
    \/ Revoke
    \/ Settled

Progress ==
    \/ (\E a \in Activity : ActStep(a)) /\ UNCHANGED <<origin, launch>>
    \/ \E s \in Sessions : CallStep(s)

\* The worker and the sessions go on; no transaction has to end, and no wait
\* for a slot or a permit has to time out.
Spec == Init /\ [][Next]_vars /\ WF_vars(Progress)

---------------------------------------------------------------------------
(* Properties. *)

\* Neither limit is exceeded by connections that are still open, whichever
\* way an activity ended: a permit is given back after what it stands for.
ConnectionsWithinLimits ==
    /\ Cardinality(Holders("conn")) <= MaxUserConnections
    /\ Cardinality(Holders("pool")) <= MaxOriginConnections

\* Neither a statement nor a request goes out for an activity whose
\* installation was dropped or whose role lost the privilege before the
\* activity's last check, however long ago the others passed.
StaleNeverActs == \A a \in stale : pc[a] \notin {"send", "run"}

\* A response body lands in the installation of its instance only, while that
\* one is in place; and an answer other than an error names a row that was
\* committed, even when an earlier delivery of the activity stored one too.
BodiesAreInPlace ==
    [][\A a \in Sinks :
          /\ stored'[a] > stored[a] /\ a \in Local => inst = Own
          /\ pc'[a] = "sinkClose" /\ pc[a] # "sinkClose" => stored'[a] > stored[a]]_vars

\* Everything comes to an end without anyone timing out on a slot or a permit:
\* activities that wait for a second resource hold none the others wait for,
\* and a call whose loopback session waits for the caller's own locks returns.
EverythingReturns == <>[]Quiet
=============================================================================
