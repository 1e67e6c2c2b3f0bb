------------------------- MODULE GraphConstruction -------------------------
(***************************************************************************)
(* From the DSL to the rows of df.nodes.                                   *)
(*                                                                         *)
(* The constructors of df nest one JSON object in the next.  df.start()    *)
(* takes such an object, or one written by hand, and turns it into rows    *)
(* that name their children by identifier: flatten_graph, a loop over a    *)
(* stack with bounds on depth and number of nodes.  The worker and the     *)
(* monitoring functions read the graph back from the rows.                 *)
(*                                                                         *)
(* The query of a node is abstracted to the keys of its JSON object, or to *)
(* Text when it is none.                                                   *)
(***************************************************************************)
EXTENDS GraphFlattening

CONSTANT
    Leaves          \* the leaf types used

---------------------------------------------------------------------------
(* The DSL. *)

\* Text that is no Durofut, or has an unknown node_type, is taken for SQL.  A
\* corrupt object, or the result of another df function, is an error of the
\* call: the constructors are applied to neither.
ensure(f) == IF f.type \in VALID_NODE_TYPES THEN f ELSE LeafNode("SQL")

Pair(type, a, b) ==
    [Durofut(type, Absent) EXCEPT !.left = ensure(a), !.right = ensure(b)]

then_fn(a, b) == Pair("THEN", a, b)
race(a, b) == Pair("RACE", a, b)
join(a, b) == Pair("JOIN", a, b)
join3(a, b, c) == [Pair("JOIN", a, b) EXCEPT !.extras = <<ensure(c)>>]
if_fn(c, a, b) == [Pair("IF", a, b) EXCEPT !.cond = ensure(c)]
if_rows_fn(a, b) == [Pair("IF", a, b) EXCEPT !.query = {"result_name"}]
as_named(a) == [ensure(a) EXCEPT !.name = "name"]

build_loop(a, cond, continue_on_failure) ==
    [Durofut("LOOP", IF continue_on_failure THEN {"continue_on_failure"} ELSE Absent)
       EXCEPT !.left = ensure(a), !.cond = cond]

\* What the constructors make of three futures.
Constructed(a, b, c) ==
    {then_fn(a, b), race(a, b), join(a, b), join3(a, b, c), if_fn(c, a, b),
     if_rows_fn(a, b)}
      \cup {build_loop(a, Absent, keep) : keep \in BOOLEAN}
      \cup {build_loop(a, ensure(c), TRUE)}

\* What a client may write by hand around a future.
Handwritten(a) ==
    {[then_fn(a, a) EXCEPT !.cond = a],
     [race(a, a) EXCEPT !.extras = <<a>>],
     [if_fn(a, a, a) EXCEPT !.query = Text],
     [build_loop(a, Absent, FALSE) EXCEPT !.query = {"condition_node"}],
     [join(a, a) EXCEPT !.query = {"extra_nodes"}],
     [join(a, a) EXCEPT !.right = Corrupt],
     [then_fn(a, a) EXCEPT !.left = LeafNode("unknown")]}

---------------------------------------------------------------------------
(* The shape of a graph: its reference definition. *)

Kids(f) == SelectSeq(<<f.left, f.right, f.cond>>, LAMBDA k : k # Absent) \o f.extras

RECURSIVE Height(_)
Height(f) ==
    LET hs == {Height(k) : k \in Range(Kids(f))}
    IN  IF hs = {} THEN 0 ELSE 1 + CHOOSE h \in hs : \A o \in hs : o <= h

RECURSIVE Preorder(_)
Preorder(f) == <<f.type>> \o FlattenSeq([i \in DOMAIN Kids(f) |-> Preorder(Kids(f)[i])])

\* Children only where the executor looks for them.
RECURSIVE Readable(_)
Readable(f) ==
    /\ f.type \in VALID_NODE_TYPES
    /\ f.cond # Absent => f.type \in {"IF", "LOOP"} /\ f.query # Text
    /\ f.extras # <<>> => f.type = "JOIN" /\ f.query # Text
    /\ f.type \in {"IF", "LOOP"} /\ f.query \notin {Absent, Text} => "condition_node" \notin f.query
    /\ f.type = "JOIN" /\ f.query \notin {Absent, Text} => "extra_nodes" \notin f.query
    /\ \A k \in Range(Kids(f)) : Readable(k)

Acceptable(f) ==
    Readable(f) /\ Height(f) <= MaxDepth /\ Len(Preorder(f)) <= MaxNodes

RECURSIVE Shape(_)
Shape(f) ==
    [type |-> f.type, settings |-> Settings(f.query), name |-> f.name,
     left |-> IF f.left = Absent THEN Absent ELSE Shape(f.left),
     right |-> IF f.right = Absent THEN Absent ELSE Shape(f.right),
     cond |-> IF f.cond = Absent THEN Absent ELSE Shape(f.cond),
     extras |-> [i \in DOMAIN f.extras |-> Shape(f.extras[i])]]

---------------------------------------------------------------------------
(* The calls. *)

\* One more constructor, or a piece of JSON.
Construct ==
    /\ phase = "building" /\ Height(fut) <= MaxDepth
    /\ \E a, b, c \in {fut} \cup {LeafNode(t) : t \in Leaves} :
          fut' \in Constructed(a, b, c) \cup Handwritten(a)
    /\ UNCHANGED <<phase, pending, nodes, rows>>

\* The |=> operator.  Bound: on nodes of one level.
NameResult ==
    /\ phase = "building" /\ Height(fut) = 1
    /\ fut' = as_named(fut)
    /\ UNCHANGED <<phase, pending, nodes, rows>>

GraphInit ==
    /\ \E t \in Leaves : fut = LeafNode(t)
    /\ phase = "building" /\ pending = <<>> /\ nodes = <<>> /\ rows = <<>>

GraphNext == Construct \/ NameResult \/ Start \/ FlattenStep \/ IdsExhausted \/ InsertBatch

---------------------------------------------------------------------------
(* Reading back. *)

\* The row of an identifier.
RowOf(id) == CHOOSE r \in Range(rows) : r.id = id

\* What the executor sees below an identifier: the columns left_node and
\* right_node, and the references in the query of the types that have them.
RECURSIVE GraphAt(_)
GraphAt(id) ==
    LET r == RowOf(id)
        conditional == r.type \in {"IF", "LOOP"} /\ "condition_node" \in r.query
    IN  [type |-> r.type, settings |-> Settings(r.query), name |-> r.name,
         left |-> IF r.left = Absent THEN Absent ELSE GraphAt(r.left),
         right |-> IF r.right = Absent THEN Absent ELSE GraphAt(r.right),
         cond |-> IF r.query \notin {Absent, Text} /\ conditional THEN GraphAt(r.cond) ELSE Absent,
         extras |-> [i \in DOMAIN r.extras |-> GraphAt(r.extras[i])]]

\* df.start() takes a graph exactly when it is well formed and within both
\* limits; its rows form a tree, one for each node, in the order of the graph;
\* and the worker reads from them the graph that was built: the same children in
\* the same roles, the settings next to the references.
GraphSurvives ==
    /\ RowsFormTree
    /\ phase = "failed" => ~Acceptable(fut)
    /\ phase = "started" =>
          /\ Acceptable(fut)
          /\ [i \in DOMAIN rows |-> rows[i].type] = Preorder(fut)
          /\ GraphAt(1) = Shape(fut)
=============================================================================
