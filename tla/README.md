# A TLA+ model of pg_durable

pg_durable is a PostgreSQL extension that runs *durable functions*: graphs of SQL,
HTTP, timer and signal nodes composed with sequence, condition, join, race and loop.
`df.start()` stores a graph and hands it to the duroxide engine; a background worker
replays orchestrations from their history and runs their activities. This directory
models the parts of it where steps of different actors meet, checks them with TLC and
proves what can be proved with TLAPS.

## The system

| Part | State | Operations | Hard because |
|---|---|---|---|
| Submission (`dsl.rs`, `client.rs`) | ledger `_submissions`, `df.instances`, `df.nodes`, the engine's queue | `df.start()` in the caller's or in a new transaction, identifier reservation | rows and queue item commit in different transactions |
| Start limits (`dsl.rs`) | counts per user, advisory locks, start slots | quota check, slot acquisition | check and use by concurrent sessions |
| Graph admission (`execute_function_graph.rs`, `load_function_graph.rs`) | attempts carried across executions | probe, wait, retry, compact, refuse | the caller's transaction may still be open, commit in two steps, or roll back |
| Graph execution (`execute_function_graph.rs`) | orchestrations and their generations | node handlers, child orchestrations, `continue_as_new` | concurrent children, cancellation of race losers, error classes |
| Node rows (`update_node_status.rs`) | `df.nodes.status`, `status_details` | fenced update | late writes of old generations |
| Status inference (`node_status.rs`) | none (read only) | `infer_statuses` | rows of several iterations side by side |
| Instance status (`update_instance_status.rs`) | `df.instances.status` | guarded update, durable finalization | at-least-once delivery, cancel |
| Cancellation (`dsl.rs`, `client.rs`) | engine queue, `df.instances.status` | `df.cancel()` | engine and row change in different transactions |
| Signals (`dsl.rs`, `client.rs`) | engine queues | `df.signal()` fan-out | children that start later |
| Retention (`worker.rs`) | terminal instances, engine records, ledger | select, retire, delete, reclaim | engine and rows are retired in separate transactions |
| Worker lifecycle (`worker.rs`) | extension epoch, readiness row, runtime | wait, initialise, supervise, tear down | the extension is dropped and created under a running worker |
| Origins (`origin.rs`, `worker.rs`) | `_origins`, routed pools | attest, register, clean up | databases that disappear |
| Activities (`execute_sql.rs`, `execute_http.rs`, `execute_multipart.rs`, `http_response.rs`, `registry.rs`) | origin slots, permits, connections, stored bodies | route, authorize, connect, run or send, store, release | two bounded resources; authorizations that go stale between await points |
| Graph construction (`types.rs`, `dsl.rs`) | `df.nodes` | constructors, `flatten_graph`, reading back | limits, identifiers, settings next to references |
| Substitution (`types.rs`, `execute_sql.rs`) | none | variables, then results, then the session's check | text inserted by one step is scanned by the next |
| Request policy (`endpoints.rs`, `secrets.rs`, `ssrf.rs`) | none | path, domain, address, credential checks | each check sees another form of the request |
| Listing (`monitoring.rs`) | none (read only) | `df.list_instances()` page by page | rows come and go between pages |

A backend session calls `df.start()`; its rows belong to the session's transaction, the
queue item to a transaction of its own. The worker's dispatcher takes the item, replays
`execute`, which schedules activities (SQL on the worker's pools), timers and child
orchestrations (`execute_subtree`). Activities write `df.instances` and `df.nodes`; the
monitoring functions read them. `PROJECT.json` lists the hazards of the code line by line.

## Modules

**`GraphAdmission`** is one instance from `df.start()` to its terminal status. Its state is
the caller's transaction (`txn`, `staged`), the probe activity (`probe`, `answer`), the
orchestration (`orch`, the counters of `load_initial_graph` and
`finalize_instance_status`), the status activity (`write`, `writePc`), the row (`status`)
and a `df.cancel()` in a transaction of its own. Every SQL statement of the probe is an
action, because each takes its own snapshot. COMMIT is two actions: PostgreSQL records a
commit before fresh snapshots show it, and `pg_xact_status()` may already answer
"committed" in between. A crash restarts activities that have no recorded result; the
orchestration itself replays to where it was. The outcome of the graph is a free choice
here.

**`NodeStamps`** holds the execution stamps: a lineage of (generation, node) pairs and a
generation. `incoming_stamp_is_superseded` is the write fence, `is_superseded` the
reader's test.

**`GraphExecution`** is the execution of one admitted graph, an arbitrary tree given by
`Kind` and `Kids`. `phase` says where each node's handler is: `marking` (the "running"
write is in flight), `exec` (children or an activity run), `stamping` (the parent writes
"failed" on a loop child), `ending` (the terminal write is in flight), `done`. `scope`
gives every spawned node its orchestration: lineage, generation and whether it is live,
cancelled but not yet stopped (`doomed`), returned (`ended`) or cut off (`dropped`).
`out` is `NodeResult`: `ok`, `break`, `app` (NodeError::Application) or `fail`
(NodeError::Failure). One action per handler step; between two awaits a step is atomic, as
in a replayed orchestration. A cancelled orchestration runs on until the engine delivers
the cancellation; the write it was waiting for stays in `late` and lands at any later
time, or never. `infer_status` is what `df.instance_nodes()` shows; its top-down walk is
stated as "the nearest current terminal ancestor decides".

**`Submissions`** is the life of instance identifiers in the three stores that know them:
`rows` (`df.instances`, in the caller's transaction), `ledger` (`_submissions`) and `work`
(the engine's six tables). Sessions take the quota lock, count, reserve, claim, enqueue,
commit or roll back, each step a transaction or statement of the code; the engine
dispatches and ends work; the maintenance pass walks through its scans (`pc`, `todo`,
`picked`), and every query and every `delete_instance` is an action, after which it may
fail or the worker restart. A store remembers which submission (`sub`) it holds the
identifier for: identifiers are reused, and that is what the properties are about.

**`SubmissionIds`** is what the stores promise together: an identifier names one
submission at a time, which is claimed, active once, over, and then free. `Holder` and
`Phase` are the refinement mapping.

**`Signals`** extends `GraphExecution` with `df.signal()`: raise the event in the root, list
the running descendants, raise it in each. Every engine call is a step of its own, between
which the graph goes on, and may fail. `waited` remembers which waits (node and stamp)
were on when the call began. Calls begin while some node waits, which is the case the
property is about.

**`WorkerLifecycle`** is the control installation, the background worker and the client
backends that cache an engine client. `inst` is the installation: its oid, provider schema,
and whether it is migrated and ready; CREATE and DROP EXTENSION replace it at any moment.
`pc` walks the worker through `run_duroxide_runtime`, `initialize_duroxide_runtime` and
`run_until_extension_dropped_or_shutdown`, one query per step; `call`, `ctl` and `cli` walk
a backend through `with_backend_client`. `cause` and `news` are history variables: they
remember what excuses a failing call.

**`OriginMaintenance`** is the maintenance loop over the control database and its registered
origins: six scans (`stage`), each with a cursor and a page, the flags of
`MaintenanceProgress` (`pending`), slices and rounds. Origins are up, down for a while, or
removed. A page is one step; `Submissions` takes the scans of one database apart. Only an
activity registers its origin (`register_origin`), and scans visit registered origins only
(`Known`): work that `df.cancel()` withdraws before its first turn, or whose registration
keeps failing, ends in an origin no scan may know of.

**`Activities`** is what happens around every activity: the route to its database and its
slot, the permit, the connection, the checks of the installation and of the role, the
statement or the request, the response sink, and the release of all of it at every exit.
`pc[a]` is the await an activity is at, `held[a]` what it holds. Any await may fail, and the
worker may crash. **`NewTransactionStarts`** adds the sessions: `df.start()` with
`transaction_mode => 'new'`, its launch slots and its loopback session, and other
transactions that lock, drop and create the extension or revoke the privilege.

The others compute something for one caller; `MCAlgorithms` runs each on bounded inputs
against a reference definition:

- **`GraphFlattening`**: `flatten_graph` as the loop over a stack that it is, and batched
  inserts. **`GraphConstruction`** adds the constructors and the graph read back from the
  rows, which are recursive.
- **`Substitution`**: `substitute_braced_variables`, then `substitute_results`, then
  `prepare_sql_quoting`, over sequences of characters; the server's lexer is external.
  **`SqlLiterals`** has the string literals: `quote_literal`, and how the server reads one. An
  open brace pairs with the next closing brace, so a `{name}` inside a JSON object is left
  as it is: the code does this (`src/src/types.rs:1127`) and
  `src/examples/audio-roundtrip/sql/04_start_workflow.sql:41` relies on it.
- **`HttpPolicy`**: the checks of a request in their order, from the node's configuration to
  the address that is connected to. How URL parsers and servers read a name or a segment of
  a path is external and given by constants (`Lower`, `DecodedName`, `Encoded`, `Parsed`,
  `Decoded`); `SegmentsOf` and `Resolved` apply them along a path.
- **`InstanceListing`**: the pages of `df.list_instances()` while other sessions start,
  finish and remove instances.

**`MCGraphAdmission`, `MCGraphExecution`, `MCSubmissions`, `MCWorkerLifecycle`,
`MCOriginMaintenance`, `MCActivities`, `MCAlgorithms`** instantiate them for TLC.
**`GraphAdmission_proofs`, `GraphExecution_proofs` (with `NodeStamps` and `Signals`),
`Submissions_proofs`, `NewTransactionStarts_proofs`, `OriginMaintenance_proofs`,
`WorkerLifecycle_proofs`, `Algorithms_proofs` (`GraphFlattening` and
`InstanceListing`), `Outgoing_proofs` (`HttpPolicy` and `SqlLiterals`)** hold the theorems.

## Runs

| Run | Question | Answer |
|---|---|---|
| `admission` | Can the admission report a graph absent that appears later, run an uncommitted one, lose its budget, or a write undo a terminal status? Is it decided after the caller's transaction ended, does finalization end, does a cancelled row stop the engine? | no; yes |
| `admission_late_commit` | Does a failed admission always reach the row, as the comment in `execute()` says? | no: the row commits later as `pending` |
| `execution_display` | Is what `df.instance_nodes()` shows true, with late writes of abandoned branches and two levels of generations? Does every orchestration end, cancelled or not? | yes |
| `execution_faults` | Can a `continue_on_failure` loop consume a fault hidden in a JOIN, a nested loop or its condition? Does a signal reach every node that waits for it? | no; yes |
| `submissions_safety` | Can an identifier name two submissions, work be uncharged, a finished row lose its ledger entry, running work its row, or a quota be exceeded? | no |
| `submissions_liveness` | Are rolled-back submissions reclaimed and finished instances removed from all stores, with failing steps and restarts? | yes |
| `submissions_in_flight` | Is an instance whose caller has not committed never reclaimed, as the comment in `worker.rs` says? | no: with a window of 0 days, or a longer transaction, it is |
| `worker_lifecycle` | Is an installation marked ready only when it is migrated, does a backend's cache ever make a call fail, does the worker end up serving the installation that stays, and does a shutdown end it? | yes; no; yes, but for two states it cannot notice; yes |
| `worker_stall` | Is a DROP and CREATE during initialization always caught, as the comments in `worker.rs` say, when no query fails? | no: with another provider schema the worker waits for the old one |
| `origin_maintenance` | Do rounds end, is everything of a registered origin reached behind pages that cannot be retired, does a removed one leave nothing, and only a removed one lose running work? | yes |
| `activities` | Do the limits hold for open connections, is nothing sent or run on a stale authorization, are bodies stored in place, does everything return although slots and permits are scarce? | yes |
| `algorithms` | Do graphs, listings, substituted texts and requests come out as their reference definitions say? | yes |

The three negative answers are findings; `PROJECT.json` quotes the lines. `worker_lifecycle`
names the states in which the worker is wrong without noticing (`Misled`): the one of
`worker_stall`, and a runtime of a replaced installation that is kept because reading the
epoch failed, which the comment at `extension_epoch_replaced` accepts.

Three disagreements with the guide were met and have no run of their own. An instance of a
satellite that is cancelled before its first activity ends in an origin nothing has
registered: only the route of an activity registers one (`src/src/origin.rs:403`), retention
and reclamation visit registered origins only (`src/src/worker.rs:1439`, `:1612`), and the
reclamation of the control database leaves identifiers of satellites out
(`src/src/worker.rs:2012`). Until other work registers the origin, the terminal row, the
engine's record and the ledger entry stay, where `src/USER_GUIDE.md:2600` says that terminal
instances older than the window are removed. `OriginMaintenance` has such instances:
without the conjunct `Scope[s] \in Known`, TLC refutes `ExpiredAreRetired`. A loop that
lost a RACE after its first iteration is shown `skipped`, because the parent's write carries
generation 1 (`src/src/orchestrations/execute_function_graph.rs:1726`), where
`src/USER_GUIDE.md:1880` says `failed`. A node left `running` by an abandoned branch is shown
`running` in the next iteration (`src/src/node_status.rs:285`), where `src/USER_GUIDE.md:2423`
says `pending`. Neither of these two concerns a node that returned in a branch that counts
(`TruthfulDisplay`) or a result (`NoStaleResult`).

Every property of a passing run has a mutant, an operator next to the definition it
replaces, that changes the code the way a plausible mistake would and makes the property
fail.

### Bounds

Admission: budgets of 2 retries, 2 polls per execution and 1 finalization attempt. Every
counter crosses its bound, compaction happens between retries, and one crash can hit
every activity. The delay grows with the attempt only up to a shift, and the attempt is
not remembered beyond it. The theorems below hold for every value.

Execution: two graphs of 8 and 10 nodes and two generations per loop, so that a nested
loop has a higher generation in an older outer one, the case in which comparing innermost
generations goes wrong. The `Fault` graph has one branch of each error class meeting in a
JOIN below a `continue_on_failure` loop, and a SIGNAL node three orchestrations below the
root; one call of `df.signal()`, one of whose engine calls may fail. Writes fail
(`LossyNodes`) for one node of that graph: rows do not influence the control flow, and
every lost write doubles the states.

Submissions: 3 identifiers, 2 sessions and 3 reservations under limits of 2, so that an
identifier is reused while others are held and the quotas bind; 1 fault (2 in the liveness
run, which has 1 identifier and no limits). Both limits are 2, so the concurrent one binds only
together with the retained one; with 1 no two instances would ever be active at once.
`QuotasAreKept` covers all limits. Sessions and identifiers are symmetric, which
the safety run uses. One role and one database, because the quotas and the ledger are per
role and origin. A page holds all candidates (`RECLAIM_BATCH` is 1000). The retention
window is a flag per record that time sets (`aged`): every length of the window is covered,
0 included. A display status is written only by `df.cancel()` and by the worker. When no
quota is set nothing takes the lock, as in the code.

Worker lifecycle: two installations, with either schema, and 2 failed queries, lost
connections or crashes: one to mislead the worker and one more while it is misled (195,289
states). The theorems hold for every bound.

Origin maintenance: two origins, five identifiers of which two are in use (`Uses`: both in
the control database, both in one origin, one in each of two origins), pages
of one record, one fault. With pages of one record every page is full, and one record that cannot
be retired fills it. Assumed: `retention_days = 0`, so that time does not matter; the
callers' transactions are over when the scans begin, with the start and perhaps a cancellation
still queued; an outage may last for ever, in which case nothing is claimed for its origin.
One fault stands for all the attempts that graph admission and finalization spend on a
registration that keeps failing (`GraphAdmission` counts them). An origin without work has
been removed (316,874 states).

Of an origin no activity has registered, little is claimed. Its ledger entries go once the
engine and its database have nothing more (`OrphansAreReclaimed`), but the failed work and
the terminal rows of instances that ended before their first activity stay until some later
activity registers the origin.

Activities: one SQL and one HTTP node of the origin's own database, the HTTP node with an
endpoint and a response sink, two slots, one permit, two sessions, one launch slot, one
crash. Two slots are enough for both nodes; that connections stay within the slots when these
run out is `LimitsKept`. It was also checked on an instance with a second SQL node and one
session (316,308 states). An instance with two HTTP nodes and a sink in another database has
1.68 million states and was checked with the same result; it takes too long to be kept.

Algorithms (1.9 million states): graphs up to the limits, set to 2 levels and 6 nodes, with
batches of 4 rows, so that every limit and a partial batch is met, names on first-level
nodes only; templates of two pieces with every character that means something to SQL or to
the scanners; requests with every pair of places a credential can collide in, paths with dot segments
and separators, plain and encoded, and segments the parser spells anew, and both sides of
each boundary between internal and public addresses; listings of three rows in pages of
two, with ties. `SignsAreSafe` leaves out negative numbers under Legacy quoting,
which inserts them as they print, after an operator too. Cells are texts, numbers and nulls:
booleans print without quotes like numbers, nested values are quoted like texts. The internal
networks (`Internal`) are the ones the code lists, written as ranges of numbers: what is
checked of them is the arithmetic of octets and masks at their boundaries, not whether the
list is the right one. A page whose rows the engine
knows none of ends the listing; the code documents that, and `gap` leaves it out.

### Fairness

Weak fairness on the steps of activities, timers and orchestration turns: duroxide's
dispatchers take what is ready, and a lost worker is restarted by the postmaster. A
recorded commit becomes visible. A transaction that called `df.cancel()` ends. No
fairness on the caller's transaction: admission is decided only after it ended. No
fairness on the body in `GraphAdmission`; in `GraphExecution` every leaf returns, which is
the premise of "everything ends": a signal node without a timeout that is never signalled
keeps its instance running by design. In `Submissions` the maintenance loop, the engine
and time go on, and every workflow ends; callers owe nothing. In `WorkerLifecycle`,
`Signals` and `NewTransactionStarts` the fairness is weak and of the steps that succeed as a
whole (`Progress`): some step that can be taken is taken, no query has to fail, no one has
to call `df.signal()`, end a transaction or time out on a slot or permit. In
`OriginMaintenance` the loop goes on and the engine dispatches, registers and obeys a
cancellation; work that nobody cancels may run for ever.

### Assumptions about duroxide

The engine is not part of the repository and is modelled from its use: histories are
durable and replay is deterministic; activities run at least once; dropping the losing
future of `select2` cancels the child orchestration; a cancellation cascades to children
and does not undo an activity already dispatched. When a loop continues as new, branches
it abandoned earlier have been cut off (the loop waits for the RACE's own writes and for
the one-second rate limit first); what they left in flight may still land. A start and a
cancellation queued together end the instance at its first turn; `delete_instance` does
not find a start that is only queued, and refuses one that runs; a second start of an
instance the engine has is ignored. An event is given to the wait its instance has
registered, and dropped when there is none.

### Other assumptions

`read_backend_control_state` asks two queries (`src/src/types.rs:515`); `WorkerLifecycle` takes what
they answer together as one read. `is_connection_error` recognises every lost connection. A
cursor's timestamp is read back as the one that was written. A path with `#`, white space or
control characters is refused by `validate_endpoint_path`; `HttpPolicy` has no such paths
(`PathAssumption`).

## Proofs

`GraphAdmission_proofs` proves every safety property of `admission` for all values
of the constants. None is inductive alone. The invariant `IInv` adds to the types

- `ProbeKnows`: what the probe has learnt at each statement (at `snapshot` the commit is
  recorded, at `reread` it is visible, at `load` and `reload` the row is);
- `VerdictKnows`: the same for a recorded answer and for the reason of a failure, and that
  a graph that runs is visible;
- `BudgetInv`: attempts in the input, in the locals and in the history of failures agree,
  and the bounds on them;
- `WriteInv`: which write can be in flight in each state of the orchestration, and what an
  acknowledged terminal write says of the row.

One step per action shows that `IInv` is preserved; the named theorems follow, and
`TerminalStatusFinal` is an action property from the same invariant. The only assumption
is that the constants are natural numbers and the compaction bound is not 0.

The last part of `GraphExecution_proofs` proves about `NodeStamps`, for lineages of any
depth, that fencing is asymmetric and
transitive, so the accepted stamps of a row never go back whatever the order in which
writes land, and that a stamp the reader takes for superseded by a row is refused by that
row's fence. The converse is false by design: the fence looks at one row, the reader at
all.

`GraphExecution_proofs` is about `GraphExecution` and `Signals` together (`SignalSpec`) and
holds for every graph, any number of iterations, calls of `df.signal()`, cancellations and
lost engine calls. A graph is any tree that `flatten_graph` can produce: `TreeAssumption`
(one parent each, no cycles: what `FlattenedIsTree` proves of the rows), `ArityAssumption` (children per kind of node) and the typing
of what leaves return. The path from a node to the root (`Upward`) is the least set closed
under `Parent`; the first lemmas of the module give it its usual laws. The argument has four
layers.

- `GInv` is what the control flow keeps. `Untouched` and `Lifetimes`: how the life of an
  orchestration goes with the phase of its root. `Awaited`: whoever is busy is waited for,
  unless it was cancelled; `Abandoned`: whoever was cancelled is waited for by nobody.
  `InTurn` and `AllStarted`: which children of a sequential node, and of a JOIN or RACE, are
  under way. `FaultsSurface`: a fatal failure of a child nobody cancelled is the failure of
  its parent, save in a JOIN that is not failure-isolated. `StructuredConcurrency`
  (`ChildrenAreAwaited`) is a part of it. `FaultsEndLoops` (`FatalNeverConsumed`) goes from
  one level to a whole subtree: of all fatal nodes that count, take one whose parent is not
  among them (`NothingFatal`).
- `Chain`: the instance id of an orchestration spells its path and the generation of every
  loop on it. `DistinctIds` follows. Incarnations of an orchestration are then compared by
  their generations from the root down (`Built`, `Same`, `Past`): an earlier one never
  becomes current again.
- `SInv`: of every node that waited when a `df.signal()` call began, the wait is of a past
  incarnation, or answered, or its orchestration is among those the call has yet to reach
  (`Tracked`, `Untold`). At the end of a call that lost no engine call nothing is left to
  tell, which is `SignalsReach` (`SignalReachesWaiters`).
- `DInv` is about the rows. `RowStamps`: a row carries the stamp of an incarnation that
  existed. `LateWrites`: what is in flight is of a past incarnation or of a cancelled branch
  (`Adrift`). `Owes`: a parent writes failed-stamps only for loops it cancelled or that
  failed. `RowsFollow`: the row of a node no write of which is lost follows its phase.
  Four lemmas connect stamps with incarnations: a current write passes the fence
  (`CurrentPasses`), a past one is refused once a current one has landed (`PastIsFenced`),
  no row is ahead of the current incarnation (`NoneAhead`), and the row of a past
  incarnation is superseded by a loop's (`StaleIsSuperseded`). `DisplayIsTruthful`
  (`TruthfulDisplay`) and `NoStaleDisplay` (`NoStaleResult`) follow. Both have a hypothesis:
  no status write is lost, respectively none of a loop. A status write that failed is
  not repeated, so without it a row stays behind. The lemma `Truthful` is finer: a node is
  shown truly when its own writes are not lost, whoever else's are.

`FatalNeverConsumed` speaks of what counts for a loop (`CountsFor`). The proof showed that
the first version, over everything below the loop, is false: below an isolating loop's
*condition* a JOIN keeps its first error, so that a break can hide a fault of its sibling.
The documented isolation (`src/docs/ARCHITECTURE.md:710`) is of loop bodies, and the code
agrees with it.

`Submissions_proofs` proves the invariants of `submissions_safety` for any number of
identifiers, sessions, submissions and faults. The inductive invariant adds

- `Shapes` and `Numbers`: a store holds nothing or a numbered submission, and a number
  belongs to one identifier;
- `Reservations`: an uncommitted ledger entry is the candidate of the session that made
  it, whose row is another submission's before the claim and its own after it;
- `RowsAgree`: a row and a committed entry of an identifier are of one submission;
- `CancelKnown`: the engine knew of a cancellation before the row did, so a queued start
  whose row is terminal ends at its first turn and never runs;
- `PassKnows`: what the maintenance pass has learnt in one transaction and still relies on
  in the next. This is the heart of the argument: an instance picked for deletion cannot
  start running, and an entry found without work and without row cannot get either.

Three results are derived from it. `QuotasAreKept` (`QuotasHold`) adds an invariant of its
own: when a limit is set, a session between its count and its insert holds the advisory lock
(`LockKept`), what it counted is still an upper bound (`RowsCounted`), and there is room for
one more (`RoomLeft`); the rest is cardinality. `RunningRowsStay` is the action
property that retention leaves rows of running instances alone. `Refinement` is
`Spec => SI!Spec`: each action is shown to be, for every identifier, one of five abstract
steps or none (`IdStep`), with one lemma per kind of change to a store. The assumptions
are that `Nobody`, `Committed` and the sessions differ, that `Ids` is finite and that the
bounds are natural numbers.

`WorkerLifecycle_proofs` proves both invariants of `worker_lifecycle` for any number of
installations, backends and faults. `IInv` adds to the types

- `InstallationInv`: the installation has an oid no earlier one had, and when the worker is
  about to publish readiness, the installation it captured, if it is still there, is
  migrated: migration goes with the oid, not with the schema's name;
- `CallInv`: what a backend's call has read still holds, or the installation changed during
  the call (`cause`); a closed connection no call has met is `news`.

The lemmas `CallsUndisturbed` and `CallsExcused` cover the steps of the worker and the two
DDL statements; each step of the backend has its own.

`NewTransactionStarts_proofs` is about `Activities` and the sessions together, for any
activities, sessions, limits and crashes. `IInv` has the types, by kind of activity, and
`Backed` (a connection is held with the permit or slot that stands for it), `Metered` (both
semaphores), `Locked` (shared and exclusive locks exclude each other; a body is inserted
under a lock on the installation of its instance), `Revoked` (what made an activity stale is
not undone, because an installation that was dropped does not come back and a privilege is
not granted again) and `StaleNeverActs`, which is inductive with them. `LimitsKept`,
`StaleStops` and the action property `BodiesInPlace` follow. Assumed: activities are finitely
many, of one kind each, and the limits are not 0, as their settings ensure.

`OriginMaintenance_proofs` covers any origins, records, page sizes and faults. `IInv`:
a removed origin has no rows, a cancellation by the worker is on its way to running work only,
a row is terminal only when the engine has taken its work up or will end it at its first turn
(`TerminalNeverStarts`), the ledger names all that the engine or a database has
(`LedgerCovers`), and completed work is where a scan finds it: in a registered origin, with
its row terminal or the origin removed (`CompletedIsCovered`). The last two are a theorem of
their own, `NothingIsLost`. It matters because the reclamation of orphans passes over
completed work. Of failed work nothing of the kind holds, since it can be of an origin that was
never registered. `OnlyRemovedCancelled` is the run's invariant. `EngineGoesFirst` is the
action property that a row leaves a database in place only after the engine's record, or when
all the engine has is a start whose cancellation is queued behind it: `delete_instance` does
not find such a start, and it ends at its first turn as an orphan. The assumption is that the
engine lists records origin by origin.

`Algorithms_proofs` proves of `df.start()` of any future, of any size, with any limits, that
the rows form a tree (`FlattenedIsTree`) and that it is the tree that was given
(`FlattenedIsGiven`). The only hypothesis, `Futures`, says that a future is a record whose
children are futures. `FlattenInv` has three parts. `Numbered`: the numbers up to
`Discovered` are the identifiers of nodes and stack entries, one each, so that the next
children can take the numbers that follow. `Named`: a node names what is neither before it
nor itself, and everything but the root is named once; this needs `Numbered`, and is where
the tree comes from. `Pictured`: there is a map `at` from identifiers to parts of the future,
and a `level` for each, that agree with every node and stack entry; a round extends both by
its children (`Grows`, `ShowsStill`, `ShowsNew`). The map takes the place of a recursive
definition of the graph below a row, so no induction over graphs is needed. `ChildrenOf` and
`MaterializedRow` say where each child stands and which number it has; `RoundOf` takes the
stack apart.

It also proves `PagesAreComplete` for any number of instances, with
identifiers used again, and any page size. `LInv`: identifiers on a page have no row beyond
the cursor and cannot get one, because a new row has the time of now (`SeenInv`, `PageInv`);
what was there all the while is on a page or lies beyond the cursor (`SteadyInv`). The one
fact about ORDER BY and LIMIT is `FirstComeFirst`: rows of a page come before all others
that were found, by comparing the sets of rows ahead of two rows. The assumption is that a
cursor is told from the absence of one.

`Outgoing_proofs` proves both properties of requests for any allowlist, endpoints, names,
paths and addresses. `PolicyInv` says of every stage what the checks before it found, and
what `prepared` and `fields` have become since (`Value` as prepared, `Completed` with the
bound parameters). Each check sees an earlier form of the request; its finding holds for the
form that is sent because later steps only add what the check has excluded a collision with
(`Distinct`). Three groups of lemmas carry the weight.

- `BelowBase`: a path that `validate_endpoint_path` lets through leads, as a server decodes
  it, strictly below the endpoint's base path. The path that is sent has gone through the
  parser, which may spell segments anew, and through a second reading by the server.
  `SegmentsOf` and `Resolved` are recursive functions along a sequence; `Recursion` shows
  them well defined at every length, and the lemmas on them go by the least length at which
  a claim fails (`LeastNumber`) in place of induction.
- `BlockedIsInternal`: `check_blocked_ip`, written with octets and masks, is membership in
  the internal networks, written as ranges, for all 16-bit segments.
- `HeadersOnce`, `QueryOnce`, `FormOnce`: each reader of the request takes exactly one
  field for a credential's name.

Assumptions: names in lower case are their own lower case and encoding is undone by
decoding; a server takes a dot segment for what it is; a parser keeps a segment that holds
neither dots nor separators, encoded or not, at most in another spelling; a base path has
been parsed. The constants of the `algorithms` run satisfy them.

It also proves, for every string, that the server reads the literal `quote_literal` makes of
it as that string and goes on with the text behind the closing quote (`QuotedIsRead`): with
`V1` under either setting of `standard_conforming_strings`, with `Legacy` under the setting
that `prepare_sql_quoting` insists on. Writing and reading are recursive functions along two
texts that drift apart with every doubled character. `WrittenWhere` says where the n-th
character stands in what was written, `ReadCharacter` that one step reads it there, and
`ReadToQuote` that after n steps the scan has read the first n characters; behind the
closing quote it stops, unless a quote follows. That is the one hypothesis on the text after
a literal, which is the template's: the server would read `'a''b'` as one literal.

Only model-checked:

- all liveness properties: fairness and ENABLED are out of the prover's reach;
- of `GraphSurvives`, all but its conjunct `RowsFormTree`: it compares rows and graph by
  recursive operators. `FlattenedIsGiven` says the same of them without recursion, save that
  the rows are in the order of the graph and that only a graph that is not acceptable is
  refused;
- `ValuesStayValues`, but for the reading of its literals (`QuotedIsRead`): templates, results
  and the lexer are recursive operators over texts, and what they compute needs induction
  over data.

## Not modelled

- Bodies of requests and responses: streaming, decoding and size limits either pass or fail
  the activity. The conversion of SQL rows to JSON and the multipart encoding are input and
  output of one step.
- Rendering (`explain.rs`), metrics (`monitoring.rs`), redaction of messages (`redact.rs`):
  formatting and plain queries.
- Parsing: policy settings, cron schedules, leaf options, operator expressions, and the
  truth of a condition's result (a choice in `GraphExecution`).
- `df.setvar()` and its table: single statements in the caller's transaction.
- The SQL bootstrap (`lib.rs`), grants and row-level security: declarations evaluated by
  PostgreSQL.
- Values the engine hands back that do not parse: the graph of `load_function_graph`
  (`src/src/orchestrations/execute_function_graph.rs:519`) and the result of a branch (`:1805`)
  were written by the same code.
- The catalog queries behind the attestation of an installation: one check of identity and
  locks.
- duroxide's own storage and dispatch, beyond the assumptions above.

## Next

More action properties from the invariants at hand: what a step of `OriginMaintenance` may
do to the records of an origin that is down, and what a step of `GraphExecution` may do to
the row of a node that returned.
