----------------------------- MODULE Activities -----------------------------
(***************************************************************************)
(* The activities of the worker and the connections they share.            *)
(*                                                                         *)
(* Every activity of an instance of a satellite database (an origin), the  *)
(* ones of GraphAdmission and GraphExecution included, first takes one of  *)
(* max_origin_connections slots, for a management pool of its own.         *)
(* SQL nodes, HTTP nodes that read the endpoint catalog, and HTTP          *)
(* nodes that store the response body take one of max_user_connections     *)
(* permits for a connection as the submitting role.  Meanwhile sessions    *)
(* may lock, drop and create the extension of that database, and revoke    *)
(* the role's privileges (module NewTransactionStarts).                    *)
(*                                                                         *)
(* What is computed from the node's configuration (options, URL, policy,   *)
(* sizes) either passes or fails the activity: see module HttpPolicy.      *)
(***************************************************************************)
EXTENDS Naturals, FiniteSets

CONSTANTS
    Sql, Http,              \* the activities: SQL nodes, HTTP nodes
    Routed,                 \* those of an instance of the origin
    Local,                  \* those whose database is the origin's own
    Cataloged,              \* HTTP nodes with an endpoint or named secrets
    Sinks,                  \* HTTP nodes whose response mode is sink
    MaxOriginConnections,   \* pg_durable.max_origin_connections
    MaxUserConnections,     \* pg_durable.max_user_connections
    Nobody,
    MaxCrashes              \* bound: worker restarts

Activity == Sql \cup Http

ASSUME ActivitiesAssumption ==
    /\ IsFiniteSet(Activity) /\ Sql \cap Http = {}
    /\ Routed \subseteq Activity /\ Local \subseteq Routed
    /\ Cataloged \subseteq Http /\ Sinks \subseteq Http
    /\ MaxOriginConnections \in Nat \ {0} /\ MaxUserConnections \in Nat \ {0}

VARIABLES
    pc,         \* pc[a]: the await the activity is at
    held,       \* held[a]: what it holds
    seen,       \* seen[a]: the installation its catalog connection attested
    stored,     \* stored[a]: response bodies committed
    inst,       \* the installation in the origin: the instances' own is 1
    owner,      \* the session with an exclusive lock on its tables
    allowed,    \* the submitting role may execute df.http()
    stale,      \* activities that lost an authorization before their last check
    crashes

actvars == <<pc, held, seen, stored, crashes>>
origin == <<inst, owner, allowed, stale>>

Own == 1
None == 0

Holders(r) == {a \in Activity : r \in held[a]}
Take(a, rs) == held' = [held EXCEPT ![a] = @ \cup rs]
Drop(a, rs) == held' = [held EXCEPT ![a] = @ \ rs]
Go(a, to) == pc' = [pc EXCEPT ![a] = to]
At(a, here) == pc[a] = here

\* The activity has its result, a value or an error: what it holds is released
\* on the way out.
Return(a) == Go(a, "unwind")

\* A check of the installation: a transaction that takes a shared lock on
\* df._installation, attests the objects again and compares the identity.
\* An exclusive lock makes it wait, until lock_timeout.
InPlace(a) == a \notin Routed \/ (owner = Nobody /\ inst = Own)
Checked(a, to) == IF InPlace(a) THEN Go(a, to) ELSE Return(a)

\* The semaphores.
SlotFree == Cardinality(Holders("slot")) < MaxOriginConnections
PermitFree == Cardinality(Holders("permit")) < MaxUserConnections

---------------------------------------------------------------------------
(* The route: registry.rs wraps every activity into it. *)

\* The activity proper.
Begin(a) == IF a \in Sql THEN "sqlWait" ELSE "check"

\* route_typed: the control database needs none; an origin is registered.
Route(a) ==
    /\ At(a, "queued")
    /\ Go(a, IF a \in Routed THEN "slot" ELSE Begin(a))
    /\ UNCHANGED <<held, seen, stored, crashes>>

\* acquire_connections(1); connect_typed looks the database up and connects.
TakeSlot(a) ==
    /\ At(a, "slot") /\ SlotFree
    /\ Take(a, {"slot", "pool"}) /\ Go(a, "admit")
    /\ UNCHANGED <<seen, stored, crashes>>

\* connect_typed: the first validation of the route.
Admit(a) ==
    /\ At(a, "admit")
    /\ Checked(a, Begin(a))
    /\ UNCHANGED <<held, seen, stored, crashes>>

\* Mutant: the permits are given back before the connections are closed.
PermitsFirst(a) ==
    /\ At(a, "unwind")
    /\ LET first == IF "permit" \in held[a] THEN {"permit"}
                    ELSE IF "conn" \in held[a] THEN {"conn", "lock"}
                    ELSE IF "slot" \in held[a] THEN {"slot"} ELSE {"pool"}
       IN  /\ Drop(a, first)
           /\ IF held[a] \subseteq first THEN Go(a, "done") ELSE UNCHANGED pc
    /\ UNCHANGED <<seen, stored, crashes>>

\* Drop order: the user connection (and the locks of its transaction), its
\* permit; then Route::close, the pool and its slot.
Unwind(a) ==
    /\ At(a, "unwind")
    /\ LET first == IF "conn" \in held[a] THEN {"conn", "lock"}
                    ELSE IF "permit" \in held[a] THEN {"permit"}
                    ELSE IF "pool" \in held[a] THEN {"pool"} ELSE {"slot"}
       IN  /\ Drop(a, first)
           /\ IF held[a] \subseteq first THEN Go(a, "done") ELSE UNCHANGED pc
    /\ UNCHANGED <<seen, stored, crashes>>

---------------------------------------------------------------------------
(* User connections, for whichever purpose: the queries of SQL nodes, the  *)
(* endpoint catalog, the response sink.                                    *)

\* acquire_execution_permit.
TakePermit(a) ==
    /\ PermitFree
    /\ Take(a, {"permit"})
    /\ \/ At(a, "sqlWait") /\ Go(a, "sqlConnect")
       \/ At(a, "catWait") /\ Go(a, "catConnect")
       \/ At(a, "sinkWait") /\ Go(a, "sinkConnect")
    /\ UNCHANGED <<seen, stored, crashes>>

\* connect_as_user; SQL nodes and the sink validate the route before it.
ConnectAsUser(a) ==
    /\ \/ At(a, "sqlConnect") /\ Checked(a, "sqlFence")
       \/ At(a, "catConnect") /\ Go(a, "catAttest")
       \/ At(a, "sinkConnect") /\ Checked(a, "sinkFence")
    /\ IF pc'[a] = "unwind" THEN UNCHANGED held ELSE Take(a, {"conn"})
    /\ UNCHANGED <<seen, stored, crashes>>

---------------------------------------------------------------------------
(* SQL nodes. *)

\* The route again, and the fence on the user connection itself.
SqlFence(a) ==
    /\ At(a, "sqlFence")
    /\ Checked(a, "sqlQuote")
    /\ UNCHANGED <<held, seen, stored, crashes>>

\* Mutant: the route is not validated again after the session is prepared.
QuoteOnly(a) ==
    /\ At(a, "sqlQuote") /\ Go(a, "run")
    /\ UNCHANGED <<held, seen, stored, crashes>>

\* prepare_sql_quoting, and the route once more.
SqlQuote(a) ==
    /\ At(a, "sqlQuote") /\ Checked(a, "run")
    /\ UNCHANGED <<held, seen, stored, crashes>>

\* execute_query: the rows, or the error.
RunSql(a) ==
    /\ At(a, "run")
    /\ Return(a)
    /\ UNCHANGED <<held, seen, stored, crashes>>

---------------------------------------------------------------------------
(* HTTP nodes up to the request. *)

\* Mutant: the fence without the privilege.
FenceOnly(a, to) == Checked(a, to)

\* check_http_privilege: in a fenced transaction, the role's privilege.
Authorized(a, to) == IF allowed THEN Checked(a, to) ELSE Return(a)

\* The first check; the options are validated after it.
Check(a) ==
    /\ At(a, "check")
    /\ Authorized(a, IF a \in Cataloged THEN "catWait" ELSE "build")
    /\ UNCHANGED <<held, seen, stored, crashes>>

\* EndpointCatalog::connection: attest before BEGIN, as the catalog shows it.
CatalogAttest(a) ==
    /\ At(a, "catAttest")
    /\ IF a \in Routed /\ inst = None THEN Return(a) ELSE Go(a, "catLock")
    /\ seen' = [seen EXCEPT ![a] = inst]
    /\ UNCHANGED <<held, stored, crashes>>

\* In the repeatable read transaction, whose snapshot is taken with the lock:
\* the same objects and the same identity.  Then servers, mappings and
\* secrets are read, and scheme and allowlist checked.
CatalogLock(a) ==
    /\ At(a, "catLock")
    /\ IF a \in Routed /\ inst # seen[a] THEN Return(a) ELSE Checked(a, "catClose")
    /\ IF a \in Routed /\ pc'[a] = "catClose" THEN Take(a, {"lock"}) ELSE UNCHANGED held
    /\ seen' = [seen EXCEPT ![a] = None]
    /\ UNCHANGED <<stored, crashes>>

\* Mutant: the catalog keeps its connection and its permit.
CatalogKept(a) ==
    /\ At(a, "catClose")
    /\ Drop(a, {"lock"}) /\ Go(a, "build")
    /\ UNCHANGED <<seen, stored, crashes>>

\* EndpointCatalog::close: the connection, then the permit.
CatalogClose(a) ==
    /\ At(a, "catClose")
    /\ IF "conn" \in held[a]
       THEN Drop(a, {"conn", "lock"}) /\ UNCHANGED pc
       ELSE Drop(a, {"permit"}) /\ Go(a, "build")
    /\ UNCHANGED <<seen, stored, crashes>>

\* Method, headers, body or parts, and their sizes; then the second check.
Build(a) ==
    /\ At(a, "build")
    /\ Authorized(a, "send")
    /\ UNCHANGED <<held, seen, stored, crashes>>

---------------------------------------------------------------------------
(* The request and its response. *)

\* request.send().
Send(a) ==
    /\ At(a, "send")
    /\ Go(a, "body")
    /\ UNCHANGED <<held, seen, stored, crashes>>

\* read_body: all of it within the limit, or an error (StepFails).  A server
\* error is an error of the node and its body is not stored.
ReadBody(a, serverError) ==
    /\ At(a, "body")
    /\ IF a \in Sinks /\ ~serverError THEN Go(a, "sinkWait") ELSE Return(a)
    /\ UNCHANGED <<held, seen, stored, crashes>>

\* Mutant: the installation is validated, but not locked, for the transaction.
SinkUnlocked(a) ==
    /\ At(a, "sinkFence")
    /\ Checked(a, "sinkCommit")
    /\ UNCHANGED <<held, seen, stored, crashes>>

\* The route again; the sink's transaction locks the installation when it is
\* in the origin's own database.  For a sink elsewhere this is the validation
\* before the insert, and the installation may go between the two.
SinkFence(a) ==
    /\ At(a, "sinkFence")
    /\ Checked(a, "sinkCommit")
    /\ IF a \in Local /\ pc'[a] = "sinkCommit" THEN Take(a, {"lock"}) ELSE UNCHANGED held
    /\ UNCHANGED <<seen, stored, crashes>>

\* Insert the body, verify its digest and commit.  The answer of the commit
\* may be lost, or come after the sink's timeout.
SinkCommit(a, committed, answered) ==
    /\ At(a, "sinkCommit")
    /\ answered => committed
    /\ stored' = [stored EXCEPT ![a] = IF committed THEN @ + 1 ELSE @]
    /\ Drop(a, {"lock"})
    /\ IF answered THEN Go(a, "sinkClose") ELSE Return(a)
    /\ UNCHANGED <<seen, crashes>>

\* The connection is closed and the envelope names the row.
SinkClose(a) ==
    /\ At(a, "sinkClose")
    /\ Drop(a, {"conn"}) /\ Return(a)
    /\ UNCHANGED <<seen, stored, crashes>>

---------------------------------------------------------------------------
(* Failures. *)

\* Statements, connections and checks of the configuration that fail, and the
\* timeouts of the request and the sink.  Waiting for a slot or a permit ends
\* with a timeout when there is none.
StepFails(a) ==
    /\ pc[a] \notin {"sinkCommit", "unwind", "done"}
    /\ At(a, "slot") => ~SlotFree
    /\ pc[a] \in {"sqlWait", "catWait"} => ~PermitFree
    /\ Return(a)
    /\ UNCHANGED <<held, seen, stored, crashes>>

\* The worker restarts: the connections are gone, a commit that was on its way
\* may have happened, and the engine delivers the activities again.
WorkerCrash(committing) ==
    /\ crashes < MaxCrashes
    /\ crashes' = crashes + 1
    /\ committing \subseteq {a \in Activity : At(a, "sinkCommit")}
    /\ stored' = [a \in Activity |-> IF a \in committing THEN stored[a] + 1 ELSE stored[a]]
    /\ pc' = [a \in Activity |-> IF At(a, "done") THEN "done" ELSE "queued"]
    /\ held' = [a \in Activity |-> {}]
    /\ seen' = [a \in Activity |-> None]

---------------------------------------------------------------------------

ActInit ==
    /\ pc = [a \in Activity |-> "queued"]
    /\ held = [a \in Activity |-> {}]
    /\ seen = [a \in Activity |-> None]
    /\ stored = [a \in Activity |-> 0]
    /\ inst = Own /\ owner = Nobody /\ allowed = TRUE /\ stale = {}
    /\ crashes = 0

\* Steps that need no failure and no timeout of a wait for a slot or permit.
ActStep(a) ==
    \/ Route(a) \/ TakeSlot(a) \/ Admit(a)
    \/ TakePermit(a) \/ ConnectAsUser(a)
    \/ SqlFence(a) \/ SqlQuote(a) \/ RunSql(a)
    \/ Check(a) \/ CatalogAttest(a) \/ CatalogLock(a) \/ CatalogClose(a)
    \/ Build(a) \/ Send(a) \/ \E serverError \in BOOLEAN : ReadBody(a, serverError)
    \/ SinkFence(a) \/ SinkClose(a)
    \/ \E committed, answered \in BOOLEAN : SinkCommit(a, committed, answered)
    \/ Unwind(a)

ActNext ==
    /\ \/ \E a \in Activity : ActStep(a) \/ StepFails(a)
       \/ \E committing \in SUBSET Sinks : WorkerCrash(committing)
    /\ UNCHANGED origin
=============================================================================
