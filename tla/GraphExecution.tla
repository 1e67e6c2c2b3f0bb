--------------------------- MODULE GraphExecution ---------------------------
(***************************************************************************)
(* Execution of one function graph by the durable engine.                  *)
(*                                                                         *)
(* A graph is a tree of nodes.  The root orchestration (execute) walks it; *)
(* every branch of a JOIN or a RACE, every loop that is not the root of    *)
(* its orchestration and every body of a continue_on_failure loop runs in  *)
(* a child orchestration of its own (execute_subtree).  A loop advances by *)
(* continue_as_new on the orchestration it is the root of, which restarts  *)
(* that orchestration under the next generation.  Orchestrations run       *)
(* concurrently; between two awaits a step of one of them is atomic.       *)
(*                                                                         *)
(* Every node writes its row twice through the update_node_status          *)
(* activity, "running" before and "completed"/"failed" after its handler.  *)
(* The rows are fenced by execution stamps (NodeStamps), and               *)
(* df.instance_nodes() infers what it shows from rows and stamps.          *)
(***************************************************************************)
EXTENDS NodeStamps, FiniteSets, Functions

CONSTANTS
    Nodes,              \* the nodes of the graph
    Root,               \* df.instances.root_node
    Kind,               \* node -> leaf, signal, break, then, if, if_rows, join, race, loop
    Kids,               \* node -> its children, in children_of order
    Isolating,          \* the loops with continue_on_failure
    LeafOutcomes,       \* leaf or SIGNAL node -> the outcomes it can have
    MaxLoopIterations,  \* MAX_LOOP_ITERATIONS
    LossyNodes          \* the nodes whose status writes may fail (they are not retried)

VARIABLES
    phase,  \* node -> where its handler is
    out,    \* node -> what the handler returned
    fb,     \* node -> loop children its handler still has to stamp failed
    scope,  \* spawned node -> the orchestration it is the root of
    rows,   \* node -> its row in df.nodes
    late    \* status writes left in flight by cancelled orchestrations

vars == <<phase, out, fb, scope, rows, late>>

Kinds == {"leaf", "signal", "break", "then", "if", "if_rows", "join", "race", "loop"}

\* What a handler returns: a value, or NodeError's three variants.
Outcomes == {"ok", "break", "app", "fail"}

---------------------------------------------------------------------------
(* The shape of the graph. *)

Children(n) == Range(Kids[n])
Parent(n) == CHOOSE p \in Nodes : n \in Children(p)
Body(l) == Kids[l][1]

\* Nodes that run in an orchestration of their own.
Spawned ==
    {Root}
      \cup {n \in Nodes \ {Root} : Kind[n] = "loop" \/ Kind[Parent(n)] \in {"join", "race"}}
      \cup {Body(l) : l \in Isolating}

\* The path from a node to the root: what every set that has the node, and
\* with a node its parent, contains.
UpClosed(S) == \A m \in S \ {Root} : Parent(m) \in S
Upward ==
    [n \in Nodes |-> {a \in Nodes : \A S \in SUBSET Nodes : n \in S /\ UpClosed(S) => a \in S}]

\* Proper ancestors and descendants of a node, and the root of the orchestration
\* it runs in: the nearest spawned node on its path.
Ancestors == [n \in Nodes |-> Upward[n] \ {n}]
Below(n) == {m \in Nodes : n \in Ancestors[m]}
Owner ==
    [n \in Nodes |-> CHOOSE s \in Upward[n] \cap Spawned : Upward[n] \cap Spawned \subseteq Upward[s]]

\* ExecutionContext::failure_isolated: inside the body of an isolating loop.
FailureIsolated(n) == \E l \in Isolating : Body(l) \in Upward[n]

ASSUME GraphAssumption ==
    /\ Root \in Nodes /\ Isolating \subseteq {n \in Nodes : Kind[n] = "loop"}
    /\ Kind \in [Nodes -> Kinds] /\ Kids \in [Nodes -> Seq(Nodes)]
    /\ MaxLoopIterations \in Nat \ {0} /\ LossyNodes \subseteq Nodes
    /\ \A n \in Nodes : Kind[n] \in {"leaf", "signal"} => LeafOutcomes[n] \subseteq Outcomes

\* flatten_graph gives every node but the root one parent, once, and a graph
\* built from nested objects has no cycles.
ASSUME TreeAssumption ==
    /\ \A n \in Nodes \ {Root} : \E p \in Nodes : n \in Children(p)
    /\ \A p, q \in Nodes : p # q => Children(p) \cap Children(q) = {}
    /\ \A p \in Nodes : Root \notin Children(p) /\ IsInjective(Kids[p])
    /\ \A S \in SUBSET Nodes : S # {} => \E n \in S : n = Root \/ Parent(n) \notin S

\* The children of each kind; df.join3 gives a JOIN a third one.
ASSUME ArityAssumption ==
    \A n \in Nodes :
        /\ Kind[n] \in {"leaf", "signal", "break"} => Len(Kids[n]) = 0
        /\ Kind[n] \in {"then", "race", "if_rows"} => Len(Kids[n]) = 2
        /\ Kind[n] = "if" => Len(Kids[n]) = 3
        /\ Kind[n] = "loop" => Len(Kids[n]) \in {1, 2}

---------------------------------------------------------------------------
(* Orchestrations. *)

\* Cancelled orchestrations run on until the engine delivers the cancellation.
Active(n) == scope[Owner[n]].life \in {"live", "doomed"}

\* The stamp of a node's writes: the orchestration instance and generation.
Stamp(n) == [inst |-> scope[Owner[n]].inst, gen |-> scope[Owner[n]].gen]

\* The child orchestration rooted at a node, first generation.
subtree_instance(c) ==
    compose_subtree_instance_id(Stamp(Parent(c)).inst, Stamp(Parent(c)).gen, c)

\* A handler starts children and waits for them.
StartKids(n, kids) ==
    /\ phase' = [m \in Nodes |-> IF m \in kids THEN "marking"
                                 ELSE IF m = n THEN "exec" ELSE phase[m]]
    /\ scope' = [s \in Spawned |->
                    IF s \in kids
                    THEN [inst |-> subtree_instance(s), gen |-> 1, life |-> "live"]
                    ELSE scope[s]]

\* A handler has its result; loops in stamps are first stamped failed.
Decide(n, result, stamps) ==
    /\ out' = [out EXCEPT ![n] = result]
    /\ fb' = [fb EXCEPT ![n] = stamps]
    /\ phase' = [phase EXCEPT ![n] = IF stamps = <<>> THEN "ending" ELSE "stamping"]

Returned(n) == phase[n] = "done"

---------------------------------------------------------------------------
(* Node rows. *)

\* The row status a result is recorded as: a break is not a failure.
Recorded(result) == IF result \in {"ok", "break"} THEN "completed" ELSE "failed"

\* The update_node_status activity a node's handler is waiting for, if any.
WritesOf(n) ==
    IF phase[n] = "marking"
    THEN {[node |-> n, status |-> "running", stamp |-> Stamp(n)]}
    ELSE IF phase[n] = "ending"
    THEN {[node |-> n, status |-> Recorded(out[n]), stamp |-> Stamp(n)]}
    ELSE IF phase[n] = "stamping"
    THEN {[node |-> Head(fb[n]), status |-> "failed",
           stamp |-> [inst |-> subtree_instance(Head(fb[n])), gen |-> 1]]}
    ELSE {}

\* The activity: lock the row, fence a superseded stamp, write.
update_node_status(w) ==
    rows' = IF incoming_stamp_is_superseded(w.stamp, rows[w.node].stamp)
            THEN rows
            ELSE [rows EXCEPT ![w.node] = [status |-> w.status, stamp |-> w.stamp]]

\* An await of the activity; its error is discarded (let _ = ...).
AwaitWrite(n) ==
    \E w \in WritesOf(n) : update_node_status(w) \/ (w.node \in LossyNodes /\ UNCHANGED rows)

---------------------------------------------------------------------------
(* Entering a node: execute_function_node_with_vars up to the first await  *)
(* of the handler.                                                         *)

MarkRunning(n) == phase[n] = "marking" /\ Active(n) /\ AwaitWrite(n)

\* The handler's first children: the sequential kinds start one, JOIN and
\* RACE all of them, a leaf an activity, a SIGNAL node none (module Signals).
Enter(n) ==
    /\ MarkRunning(n)
    /\ Kind[n] \notin {"break", "if_rows"}
    /\ \/ Kind[n] \in {"join", "race"} /\ StartKids(n, Children(n))
       \/ Kind[n] \in {"then", "if", "loop"} /\ StartKids(n, {Kids[n][1]})
       \/ Kind[n] \in {"leaf", "signal"} /\ StartKids(n, {})
    /\ UNCHANGED <<out, fb, late>>

\* df.break(), and a leaf whose configuration or substitution fails, return
\* without waiting for anything.
EnterAndReturn(n) ==
    /\ MarkRunning(n)
    /\ \/ Kind[n] = "break" /\ Decide(n, "break", <<>>)
       \/ /\ Kind[n] \in {"leaf", "signal"} /\ "fail" \in LeafOutcomes[n]
          /\ Decide(n, "fail", <<>>)
    /\ UNCHANGED <<scope, late>>

\* df.if_rows reads a named result in memory: an arm, or a failure when the
\* result is missing or has no row count.
EnterIfRows(n) ==
    /\ MarkRunning(n)
    /\ Kind[n] = "if_rows"
    /\ \/ \E arm \in Children(n) : StartKids(n, {arm}) /\ UNCHANGED <<out, fb>>
       \/ Decide(n, "fail", <<>>) /\ UNCHANGED scope
    /\ UNCHANGED late

---------------------------------------------------------------------------
(* Handlers. *)

Waiting(n, kind) == phase[n] = "exec" /\ Kind[n] = kind /\ Active(n)

\* The activity or timer of a leaf answers.
LeafReturns(n) ==
    /\ Waiting(n, "leaf")
    /\ \E result \in LeafOutcomes[n] \ {"fail"} : Decide(n, result, <<>>)
    /\ UNCHANGED <<scope, rows, late>>

\* A loop child that failed is stamped failed by its parent.
FailedLoop(c) == IF Kind[c] = "loop" /\ out[c] \in {"app", "fail"} THEN <<c>> ELSE <<>>

\* The ? operator: a result other than ok, and a last child's result, is the
\* parent's result.
Propagate(n, c) == Decide(n, out[c], FailedLoop(c)) /\ UNCHANGED scope

\* Mutant: only a value of the left node is reacted to, not its error.
ThenAwaitsValue(n) ==
    /\ Waiting(n, "then")
    /\ LET left == Kids[n][1]  right == Kids[n][2] IN
       \/ /\ Returned(left) /\ out[left] = "ok" /\ phase[right] = "idle"
          /\ StartKids(n, {right}) /\ UNCHANGED <<out, fb>>
       \/ Returned(right) /\ Propagate(n, right)
    /\ UNCHANGED <<rows, late>>

\* The right node starts only after the left one returned a value.
ThenStep(n) ==
    /\ Waiting(n, "then")
    /\ LET left == Kids[n][1]  right == Kids[n][2] IN
       \/ /\ Returned(left) /\ out[left] = "ok" /\ phase[right] = "idle"
          /\ StartKids(n, {right}) /\ UNCHANGED <<out, fb>>
       \/ Returned(left) /\ out[left] # "ok" /\ Propagate(n, left)
       \/ Returned(right) /\ Propagate(n, right)
    /\ UNCHANGED <<rows, late>>

\* df.if: the condition picks an arm; a value that is no condition fails.
IfStep(n) ==
    /\ Waiting(n, "if")
    /\ LET cond == Kids[n][1]  arms == {Kids[n][2], Kids[n][3]} IN
       \/ /\ Returned(cond) /\ out[cond] = "ok"
          /\ \A arm \in arms : phase[arm] = "idle"
          /\ \/ \E arm \in arms : StartKids(n, {arm}) /\ UNCHANGED <<out, fb>>
             \/ Decide(n, "fail", <<>>) /\ UNCHANGED scope
       \/ Returned(cond) /\ out[cond] # "ok" /\ Propagate(n, cond)
       \/ \E arm \in arms : Returned(arm) /\ Propagate(n, arm)
    /\ UNCHANGED <<rows, late>>

\* The arm's result is the result of df.if_rows.
IfRowsStep(n) ==
    /\ Waiting(n, "if_rows")
    /\ \E arm \in Children(n) : Returned(arm) /\ Propagate(n, arm)
    /\ UNCHANGED <<rows, late>>

\* Mutant: an application error outranks a failure in retained join errors.
ApplicationFirst(result) ==
    IF result = "fail" THEN 0 ELSE IF result = "break" THEN 1 ELSE 2

\* retain_higher_priority_join_error.
ErrorPriority(result) ==
    IF result = "app" THEN 0 ELSE IF result = "break" THEN 1 ELSE 2

\* The branch whose error a JOIN returns: outside an isolated body the first
\* in branch order, inside one the first of the highest priority.
SelectedError(n) ==
    LET errors == {i \in DOMAIN Kids[n] : out[Kids[n][i]] # "ok"}
        Outranks(i, j) == ErrorPriority(out[Kids[n][i]]) > ErrorPriority(out[Kids[n][j]])
        best == IF FailureIsolated(n)
                THEN {i \in errors : \A j \in errors : ~Outranks(j, i)} ELSE errors
    IN  {Kids[n][i] : i \in {i \in best : \A j \in best : i <= j}}

\* ctx.join waits for every branch, failed ones too.
JoinStep(n) ==
    /\ Waiting(n, "join")
    /\ \A c \in Children(n) : Returned(c)
    /\ \/ SelectedError(n) = {} /\ Decide(n, "ok", <<>>) /\ UNCHANGED scope
       \/ \E c \in SelectedError(n) : Propagate(n, c)
    /\ UNCHANGED <<rows, late>>

\* Mutant: the losing branch is left running.
UncancelledLoser(n) ==
    /\ Waiting(n, "race")
    /\ \E winner, loser \in Children(n) :
         /\ winner # loser /\ Returned(winner)
         /\ Decide(n, out[winner],
                   (IF Kind[loser] = "loop" THEN <<loser>> ELSE <<>>) \o FailedLoop(winner))
    /\ UNCHANGED <<scope, rows, late>>

\* ctx.select2: the first branch to return wins; dropping the other's future
\* cancels its orchestration, and a losing loop is stamped failed.
RaceStep(n) ==
    /\ Waiting(n, "race")
    /\ \E winner, loser \in Children(n) :
         /\ winner # loser /\ Returned(winner)
         /\ Decide(n, out[winner],
                   (IF Kind[loser] = "loop" THEN <<loser>> ELSE <<>>) \o FailedLoop(winner))
         /\ scope' = [scope EXCEPT ![loser].life = IF @ = "live" THEN "doomed" ELSE "dropped"]
    /\ UNCHANGED <<rows, late>>

---------------------------------------------------------------------------
(* Loops: the loop is the root of its orchestration. *)

\* continue_as_new: the next generation starts from the loop node.  What an
\* abandoned branch below left in flight stays in flight.
ContinueAsNew(l) ==
    LET below == Below(l)
        cut == {m \in below : Active(m)}
    IN  /\ phase' = [m \in Nodes |-> IF m = l THEN "marking"
                                     ELSE IF m \in below THEN "idle" ELSE phase[m]]
        /\ out' = [m \in Nodes |-> IF m \in below THEN "none" ELSE out[m]]
        /\ fb' = [m \in Nodes |-> IF m \in below THEN <<>> ELSE fb[m]]
        /\ scope' = [s \in Spawned |->
                        IF s = l THEN [scope[l] EXCEPT !.gen = @ + 1]
                        ELSE IF s \in below THEN [scope[s] EXCEPT !.life = "none"]
                        ELSE scope[s]]
        /\ late' = late \cup UNION {WritesOf(m) : m \in cut}

\* MAX_LOOP_ITERATIONS, then the rate limit, then the next generation.
NextIteration(l) ==
    \/ scope[l].gen < MaxLoopIterations /\ ContinueAsNew(l)
    \/ /\ scope[l].gen >= MaxLoopIterations
       /\ Decide(l, "fail", <<>>) /\ UNCHANGED <<scope, late>>

\* LoopConfig::condition_node.
HasCondition(l) == Len(Kids[l]) = 2

\* The body returned: a break ends the loop, an isolated application failure
\* skips the condition, any other error is the loop's.
LoopBodyReturns(l) ==
    /\ Waiting(l, "loop")
    /\ Returned(Body(l))
    /\ HasCondition(l) => phase[Kids[l][2]] = "idle"
    /\ \/ out[Body(l)] = "break" /\ Decide(l, "ok", <<>>) /\ UNCHANGED <<scope, late>>
       \/ /\ out[Body(l)] = "ok" /\ HasCondition(l)
          /\ StartKids(l, {Kids[l][2]}) /\ UNCHANGED <<out, fb, late>>
       \/ out[Body(l)] = "ok" /\ ~HasCondition(l) /\ NextIteration(l)
       \/ out[Body(l)] = "app" /\ l \in Isolating /\ NextIteration(l)
       \/ /\ out[Body(l)] = "fail" \/ (out[Body(l)] = "app" /\ l \notin Isolating)
          /\ Decide(l, out[Body(l)], IF l \in Isolating THEN <<>> ELSE FailedLoop(Body(l)))
          /\ UNCHANGED <<scope, late>>
    /\ UNCHANGED rows

\* Mutant: a failing condition keeps its error class.
ConditionKeepsClass(l) ==
    /\ Waiting(l, "loop") /\ HasCondition(l) /\ Returned(Kids[l][2])
    /\ LET cond == Kids[l][2] IN
       \/ out[cond] = "ok" /\ NextIteration(l)
       \/ /\ out[cond] \in {"ok", "break"}
          /\ Decide(l, "ok", <<>>) /\ UNCHANGED <<scope, late>>
       \/ /\ out[cond] \in {"app", "fail"}
          /\ Decide(l, out[cond], FailedLoop(cond)) /\ UNCHANGED <<scope, late>>
    /\ UNCHANGED rows

\* The condition returned: true iterates, false or a break ends the loop, and
\* no enclosing loop may consume its failure.
LoopConditionReturns(l) ==
    /\ Waiting(l, "loop") /\ HasCondition(l) /\ Returned(Kids[l][2])
    /\ LET cond == Kids[l][2] IN
       \/ out[cond] = "ok" /\ NextIteration(l)
       \/ /\ out[cond] \in {"ok", "break"}
          /\ Decide(l, "ok", <<>>) /\ UNCHANGED <<scope, late>>
       \/ /\ out[cond] \in {"app", "fail"}
          /\ Decide(l, "fail", FailedLoop(cond)) /\ UNCHANGED <<scope, late>>
    /\ UNCHANGED rows

---------------------------------------------------------------------------
(* Leaving a node. *)

\* stamp_loop_node by the parent, one loop after the other.
StampLoop(n) ==
    /\ phase[n] = "stamping" /\ Active(n) /\ AwaitWrite(n)
    /\ fb' = [fb EXCEPT ![n] = Tail(@)]
    /\ phase' = [phase EXCEPT ![n] = IF Len(fb[n]) = 1 THEN "ending" ELSE "stamping"]
    /\ UNCHANGED <<out, scope, late>>

\* The terminal write; the orchestration's root returns to its parent.
Leave(n) ==
    /\ phase[n] = "ending" /\ Active(n) /\ AwaitWrite(n)
    /\ phase' = [phase EXCEPT ![n] = "done"]
    /\ scope' = IF n \in Spawned
                THEN [scope EXCEPT ![n].life = IF @ = "live" THEN "ended" ELSE "dropped"]
                ELSE scope
    /\ UNCHANGED <<out, fb, late>>

---------------------------------------------------------------------------
(* Cancellation and the engine. *)

\* df.cancel() on the instance.
CancelInstance ==
    /\ scope[Root].life = "live"
    /\ scope' = [scope EXCEPT ![Root].life = "doomed"]
    /\ UNCHANGED <<phase, out, fb, rows, late>>

\* The engine ends a cancelled orchestration and cancels its children; an
\* activity it was waiting for is not undone.
Reap(s) ==
    /\ scope[s].life = "doomed"
    /\ scope' = [t \in Spawned |->
                    IF t = s THEN [scope[t] EXCEPT !.life = "dropped"]
                    ELSE IF t # Root /\ Owner[Parent(t)] = s /\ scope[t].life = "live"
                    THEN [scope[t] EXCEPT !.life = "doomed"] ELSE scope[t]]
    /\ late' = late \cup UNION {WritesOf(n) : n \in {m \in Nodes : Owner[m] = s}}
    /\ UNCHANGED <<phase, out, fb, rows>>

\* An activity of a cancelled orchestration lands, or never does.
LateWrite ==
    \E w \in late :
        /\ late' = late \ {w}
        /\ update_node_status(w) \/ UNCHANGED rows
        /\ UNCHANGED <<phase, out, fb, scope>>

AllEnded == \A s \in Spawned : scope[s].life \notin {"live", "doomed"}

\* Every orchestration has ended: nothing is left to do.
Settled == AllEnded /\ late = {} /\ UNCHANGED vars

---------------------------------------------------------------------------

\* The graph has been admitted and the root orchestration enters its root.
Init ==
    /\ phase = [n \in Nodes |-> IF n = Root THEN "marking" ELSE "idle"]
    /\ out = [n \in Nodes |-> "none"]
    /\ fb = [n \in Nodes |-> <<>>]
    /\ scope = [s \in Spawned |->
                   [inst |-> <<>>, gen |-> 1, life |-> IF s = Root THEN "live" ELSE "none"]]
    /\ rows = [n \in Nodes |-> [status |-> "pending", stamp |-> NoStamp]]
    /\ late = {}

NodeStep(n) ==
    \/ Enter(n) \/ EnterAndReturn(n) \/ EnterIfRows(n)
    \/ LeafReturns(n) \/ ThenStep(n) \/ IfStep(n) \/ IfRowsStep(n)
    \/ JoinStep(n) \/ RaceStep(n)
    \/ LoopBodyReturns(n) \/ LoopConditionReturns(n)
    \/ StampLoop(n) \/ Leave(n)

Next ==
    \/ \E n \in Nodes : NodeStep(n)
    \/ \E s \in Spawned : Reap(s)
    \/ CancelInstance
    \/ LateWrite
    \/ Settled

Spec == Init /\ [][Next]_vars

---------------------------------------------------------------------------
(* What df.instance_nodes() shows. *)

Terminal(n) == rows[n].status \in {"completed", "failed"}
Superseded(n) == is_superseded(rows[n].stamp, {rows[m].stamp : m \in Nodes})

\* infer_statuses: a current terminal ancestor decides for what did not run
\* to an end in the current generation.
infer_status(n) ==
    LET decided == \E a \in Ancestors[n] : Terminal(a) /\ ~Superseded(a) IN
    IF Terminal(n) /\ ~Superseded(n) THEN rows[n].status
    ELSE IF decided THEN "skipped"
    ELSE IF Terminal(n) THEN "pending" ELSE rows[n].status

---------------------------------------------------------------------------
(* Properties. *)

\* No part of the path from the root to the node was cancelled.
Honoured(n) ==
    \A s \in Upward[n] \cap Spawned : scope[s].life \notin {"doomed", "dropped"}

\* Structured concurrency: a child orchestration nobody cancelled has a
\* parent that still runs and waits for it.  No RACE, failing JOIN or
\* cancellation leaves one behind.
ChildrenAreAwaited ==
    \A s \in Spawned \ {Root} :
        scope[s].life = "live" => phase[Parent(s)] = "exec" /\ Active(Parent(s))

\* Failures a continue_on_failure loop must not consume: graph and runtime
\* faults, and any failure of a loop's condition.
Fatal(n) ==
    /\ Returned(n)
    /\ \/ out[n] = "fail"
       \/ out[n] = "app" /\ n # Root /\ Kind[Parent(n)] = "loop" /\ n # Body(Parent(n))

\* What counts for a continue_on_failure loop: its body, its condition, and
\* below a condition what an enclosing body isolates too.  Elsewhere below a
\* condition a JOIN keeps its first error, and a break there hides a fault.
CountsFor(l, n) == Body(l) \in Upward[n] \/ Parent(n) = l \/ FailureIsolated(l)

\* A continue_on_failure loop starts its next iteration only when nothing
\* fatal happened in what counts for it, in a branch nobody cancelled: a fault
\* is not hidden by a sibling branch's application failure or by a nested loop.
FatalNeverConsumed ==
    [][\A l \in Isolating : scope'[l].gen > scope[l].gen =>
          \A n \in Below(l) : CountsFor(l, n) /\ Fatal(n) => ~Honoured(n)]_vars

\* Whatever was left in flight by cancelled branches and earlier generations,
\* a node that returned in a branch that counts is shown with its result.
TruthfulDisplay ==
    \A n \in Nodes : Returned(n) /\ Honoured(n) => infer_status(n) = Recorded(out[n])

\* A node the current iteration has not reached, below loops whose rows carry
\* the current generation.
NotReached(n) ==
    /\ phase[n] = "idle" /\ Honoured(n)
    /\ \A a \in Ancestors[n] : Kind[a] = "loop" => phase[a] # "marking"

\* Once a loop's row carries the current generation, the result of an earlier
\* iteration is not shown for a node the current one has not reached.
NoStaleResult ==
    \A n \in Nodes : NotReached(n) => infer_status(n) \notin {"completed", "failed"}

\* Every orchestration of the instance ends, the cancelled ones too, when its
\* leaves do: no JOIN waits for ever and no loop iterates beyond its maximum.
EverythingEnds == <>[]AllEnded
=============================================================================
