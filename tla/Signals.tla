------------------------------ MODULE Signals ------------------------------
(***************************************************************************)
(* df.signal() and the nodes that wait for one, on top of GraphExecution.  *)
(*                                                                         *)
(* A SIGNAL node waits in the orchestration it runs in, which may be a     *)
(* descendant of the instance's root.  df.signal() knows the root only: it *)
(* raises the event there, then asks the engine for the tree of instances  *)
(* and raises it in every descendant that runs at that moment.  Graph and  *)
(* call interleave.  The engine gives an event to the wait its instance    *)
(* has registered and drops it when there is none; an orchestration has at *)
(* most one wait at a time, as branches run in children of their own.      *)
(***************************************************************************)
EXTENDS GraphExecution

CONSTANTS
    Timed,          \* the SIGNAL nodes with timeout_seconds
    MaxSignals,     \* bound: calls of df.signal()
    MaxLost         \* bound: engine calls of df.signal() that fail

VARIABLES
    step,       \* where the call is: "none", "raised", "listed"
    targets,    \* list_running_descendants: the instances still to be raised
    waited,     \* the waits (node and stamp) that were on when the call began
    signals,    \* calls so far
    lost        \* failed engine calls so far

sigvars == <<step, targets, waited, signals, lost>>

Instance(s) == scope[s].inst
Descendants == {s \in Spawned \ {Root} : scope[s].life \in {"live", "doomed"}}
Waits == {n \in Nodes : Waiting(n, "signal")}

\* An engine call that answers, or one that fails.
Engine(ok) == IF ok THEN UNCHANGED lost ELSE lost < MaxLost /\ lost' = lost + 1

\* schedule_wait: the event is the answer of the node that waits in instance i.
Deliver(i) ==
    LET waits == {n \in Waits : Instance(Owner[n]) = i}
    IN  IF waits = {} THEN UNCHANGED vars
        ELSE \E n \in waits : Decide(n, "ok", <<>>) /\ UNCHANGED <<scope, rows, late>>

---------------------------------------------------------------------------
(* df.signal() *)

\* Raise the event in the root; an error is the caller's.  Bound: calls begin
\* while some node waits.
RaiseRoot(ok) ==
    /\ step = "none" /\ signals < MaxSignals /\ Waits # {}
    /\ Engine(ok)
    /\ signals' = signals + 1
    /\ IF ok
       THEN Deliver(Instance(Root)) /\ step' = "raised" /\ waited' = [n \in Waits |-> Stamp(n)]
       ELSE UNCHANGED <<vars, step, waited>>
    /\ UNCHANGED targets

\* Mutant: only the children of the root are asked for.
DirectChildren(missed) ==
    /\ step = "raised"
    /\ Engine(missed = {})
    /\ targets' = {Instance(s) : s \in {t \in Descendants \ missed : Owner[Parent(t)] = Root}}
    /\ step' = "listed"
    /\ UNCHANGED <<vars, waited, signals>>

\* The descendants that run.  When the tree cannot be read there are none,
\* and one whose status cannot be read is left out; both are warnings.
list_running_descendants(missed) ==
    /\ step = "raised"
    /\ Engine(missed = {})
    /\ targets' = {Instance(s) : s \in Descendants \ missed}
    /\ step' = "listed"
    /\ UNCHANGED <<vars, waited, signals>>

\* Raise the event in one of them; an error is a warning.
RaiseDescendant(i, ok) ==
    /\ step = "listed" /\ i \in targets
    /\ Engine(ok)
    /\ IF ok THEN Deliver(i) ELSE UNCHANGED vars
    /\ targets' = targets \ {i}
    /\ UNCHANGED <<step, waited, signals>>

SignalReturns ==
    /\ step = "listed" /\ targets = {}
    /\ step' = "none"
    /\ waited' = <<>>
    /\ UNCHANGED <<vars, targets, signals, lost>>

---------------------------------------------------------------------------

\* select2 with a timer: the answer says that the wait timed out.
TimesOut(n) ==
    /\ Waiting(n, "signal") /\ n \in Timed
    /\ Decide(n, "ok", <<>>)
    /\ UNCHANGED <<scope, rows, late, sigvars>>

SignalInit ==
    /\ Init
    /\ step = "none" /\ targets = {} /\ waited = <<>> /\ signals = 0 /\ lost = 0

SignalNext ==
    \/ Next /\ UNCHANGED sigvars
    \/ \E ok \in BOOLEAN : RaiseRoot(ok)
    \/ \E missed \in {{}, Descendants} \cup {{s} : s \in Descendants} :
          list_running_descendants(missed)
    \/ \E i \in targets, ok \in BOOLEAN : RaiseDescendant(i, ok)
    \/ SignalReturns
    \/ \E n \in Nodes : TimesOut(n)

\* What the engine goes on with: handlers, timers and cancellations.  Nobody
\* has to call df.signal() or df.cancel().
Progress ==
    \/ \E n \in Nodes : (NodeStep(n) /\ UNCHANGED sigvars) \/ TimesOut(n)
    \/ (\E s \in Spawned : Reap(s)) /\ UNCHANGED sigvars
    \/ LateWrite /\ UNCHANGED sigvars

SignalSpec ==
    /\ SignalInit /\ [][SignalNext]_<<vars, sigvars>>
    /\ WF_<<vars, sigvars>>(Progress)

---------------------------------------------------------------------------

\* A signal reaches every node that waits for it: when a call returns and none
\* of its engine calls failed, no node is still in a wait that was on when the
\* call began, however deep its orchestration is in the tree and whatever was
\* spawned, cancelled or restarted meanwhile.
SignalReachesWaiters ==
    [][step = "listed" /\ step' = "none" /\ lost = 0 =>
          \A n \in DOMAIN waited : Waiting(n, "signal") => Stamp(n) # waited[n]
      ]_<<vars, sigvars>>
=============================================================================
