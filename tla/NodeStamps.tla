----------------------------- MODULE NodeStamps -----------------------------
(***************************************************************************)
(* Execution stamps: which orchestration generation last wrote a node row. *)
(*                                                                         *)
(* The code spells a stamp {root}::{g0}::{n1}::{g1}::...::{nN}::{gN}: the  *)
(* root instance, its continue_as_new generation, then for every spawned   *)
(* sub-orchestration the node it is rooted at and its own generation.  The *)
(* model keeps the lineage of the instance id as a sequence of             *)
(* [gen, node] pairs and the trailing generation apart:                    *)
(*     [inst |-> << [gen |-> g0, node |-> n1], ... >>, gen |-> gN].        *)
(***************************************************************************)
EXTENDS Naturals, Sequences

\* The stamp of a row nobody has written: generation 0 is older than any.
NoStamp == [inst |-> <<>>, gen |-> 0]

\* compose_subtree_instance_id: the lineage of a child orchestration.
compose_subtree_instance_id(parentInst, parentGen, childRoot) ==
    Append(parentInst, [gen |-> parentGen, node |-> childRoot])

\* Number of generations in a stamp, and the one at each level.
Depth(stamp) == Len(stamp.inst) + 1
GenAt(stamp, level) ==
    IF level <= Len(stamp.inst) THEN stamp.inst[level].gen ELSE stamp.gen

\* Two stamps agree above a level: same generations, same branch taken.
AgreeAbove(a, b, level) ==
    \A l \in 1 .. (level - 1) : a.inst[l] = b.inst[l]

\* Mutant: only the innermost generations are compared.
InnermostOnly(incoming, existing) == incoming.gen < existing.gen

\* The write fence: at the first level where the lineages differ, the
\* incoming generation is older.  Different branches never fence each other,
\* and a lineage that ends is the same or a deeper scope.
incoming_stamp_is_superseded(incoming, existing) ==
    \E level \in 1 .. Depth(incoming) :
        /\ level <= Depth(existing)
        /\ AgreeAbove(incoming, existing, level)
        /\ GenAt(incoming, level) < GenAt(existing, level)

\* Mutant: ancestor scopes are not consulted.
OwnScopeOnly(stamp, stamps) ==
    \E other \in stamps : other.inst = stamp.inst /\ other.gen > stamp.gen

\* Read-time inference: a newer generation has been stamped in the stamp's own
\* scope or in a scope it was spawned from (scope_max holds, for every scope,
\* the newest generation any row carries).
is_superseded(stamp, stamps) ==
    \E other \in stamps :
        /\ Depth(other) <= Depth(stamp)
        /\ \A l \in 1 .. Len(other.inst) : other.inst[l] = stamp.inst[l]
        /\ other.gen > GenAt(stamp, Depth(other))
=============================================================================
