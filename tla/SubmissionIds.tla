--------------------------- MODULE SubmissionIds ---------------------------
(***************************************************************************)
(* What the submission ledger promises about an instance identifier: it    *)
(* names one submission at a time.  A submission claims a free identifier, *)
(* its work is enqueued once, and the identifier is free again only when   *)
(* that work is over and nothing refers to it.                             *)
(***************************************************************************)
EXTENDS Naturals

CONSTANTS
    Ids,    \* instance identifiers
    Subs    \* submissions

VARIABLE name    \* name[id]: the submission the identifier names, and how far it is

Free == [sub |-> 0, phase |-> "free"]

Init == name = [id \in Ids |-> Free]

Claimed(id) ==
    \E s \in Subs :
        /\ name[id] = Free
        /\ \A other \in Ids : name[other].sub # s
        /\ name'[id] = [sub |-> s, phase |-> "claimed"]

\* The same submission goes from one phase to another.
Moves(id, from, to) ==
    name[id].phase = from /\ name'[id] = [name[id] EXCEPT !.phase = to]

Released(id) == name[id].phase \in {"claimed", "over"} /\ name'[id] = Free

Step(id) ==
    \/ name'[id] = name[id]
    \/ Claimed(id)
    \/ Moves(id, "claimed", "active")
    \/ Moves(id, "active", "over")
    \/ Released(id)

Next == \A id \in Ids : Step(id)

Spec == Init /\ [][Next]_name
=============================================================================
