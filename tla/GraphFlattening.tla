-------------------------- MODULE GraphFlattening --------------------------
(***************************************************************************)
(* df.start() turns a future, a nested JSON object, into rows of df.nodes  *)
(* that name their children by identifier: flatten_graph, a loop over a    *)
(* stack with bounds on depth and number of nodes, and then inserts in     *)
(* batches.  Identifiers are numbered as they are drawn; the source never  *)
(* gives one twice.                                                        *)
(*                                                                         *)
(* The query of a node is abstracted to the keys of its JSON object, or to *)
(* Text when it is none.                                                   *)
(***************************************************************************)
EXTENDS Naturals, FiniteSets, SequencesExt

CONSTANTS
    Absent, Text,
    MaxDepth,       \* MAX_GRAPH_DEPTH
    MaxNodes,       \* MAX_GRAPH_NODES
    BatchSize       \* NODE_INSERT_BATCH_SIZE

ASSUME LimitsAssumption ==
    {MaxDepth, MaxNodes, BatchSize} \subseteq Nat \ {0}

\* The absence of an identifier is none.
ASSUME AbsentAssumption == Absent \notin Nat

VARIABLES
    fut,        \* the future built so far
    phase,      \* what df.start() does with it
    pending,    \* the stack of flatten_graph
    nodes,      \* the nodes materialized
    rows        \* the rows inserted

graphvars == <<fut, phase, pending, nodes, rows>>

VALID_NODE_TYPES ==
    {"SQL", "THEN", "IF", "JOIN", "LOOP", "BREAK", "RACE", "SLEEP",
     "WAIT_SCHEDULE", "HTTP", "HTTP_MULTIPART", "SIGNAL"}


Durofut(type, query) ==
    [type |-> type, left |-> Absent, right |-> Absent, cond |-> Absent,
     extras |-> <<>>, query |-> query, name |-> Absent]

\* df.sql and df.sleep write text; the other leaves write a JSON object.
LeafNode(type) == Durofut(type, IF type \in {"SQL", "SLEEP"} THEN Text ELSE {"config"})

\* An object that cannot be read as a Durofut although it has a node_type.
Corrupt == LeafNode("corrupt")

\* The settings in a query that are not references to children.
Settings(query) ==
    IF query \in {Absent, Text} THEN {} ELSE query \ {"condition_node", "extra_nodes"}

---------------------------------------------------------------------------
(* flatten_graph. *)

\* condition_node and extra_nodes are fields, of the types that have them, and
\* not part of the query.
validate_config_children(f) ==
    /\ f.cond # Absent => f.type \in {"IF", "LOOP"}
    /\ f.extras # <<>> => f.type = "JOIN"
    /\ f.query \notin {Absent, Text} =>
          /\ f.type \in {"IF", "LOOP"} => "condition_node" \notin f.query
          /\ f.type = "JOIN" => "extra_nodes" \notin f.query

\* A child, if there is one.
Given(child) == IF child = Absent THEN <<>> ELSE <<child>>

\* A bug: the condition of a loop is left out.
IfOnly(f) ==
    Given(f.left) \o Given(f.right)
      \o (IF f.type = "IF" THEN Given(f.cond) ELSE <<>>)
      \o (IF f.type = "JOIN" THEN f.extras ELSE <<>>)

\* parse_child for left, right, condition_node and extra_nodes, in this order.
children(f) ==
    Given(f.left) \o Given(f.right)
      \o (IF f.type \in {"IF", "LOOP"} THEN Given(f.cond) ELSE <<>>)
      \o (IF f.type = "JOIN" THEN f.extras ELSE <<>>)

\* The query with the identifiers of the condition and the further branches.
materialized_query(f, ids) ==
    IF ids = {} THEN f.query
    ELSE (IF f.query = Absent THEN {} ELSE f.query) \cup ids

\* A bug: the right child has the identifier of the left one.
OneIdentifier(entry, next) ==
    LET f == entry.node
    IN  [id |-> entry.id, type |-> f.type, name |-> f.name,
         left |-> IF f.left = Absent THEN Absent ELSE next,
         right |-> IF f.right = Absent THEN Absent ELSE next,
         cond |-> Absent, extras |-> <<>>, query |-> f.query]

\* Of the children, in order, the identifiers: next, next + 1, ...
Materialized(entry, next) ==
    LET f == entry.node
        right == next + Len(Given(f.left))
        config == right + Len(Given(f.right))
    IN  [id |-> entry.id, type |-> f.type, name |-> f.name,
         left |-> IF f.left = Absent THEN Absent ELSE next,
         right |-> IF f.right = Absent THEN Absent ELSE right,
         cond |-> IF f.type \in {"IF", "LOOP"} /\ f.cond # Absent THEN config ELSE Absent,
         extras |-> IF f.type = "JOIN" THEN [i \in DOMAIN f.extras |-> config + i - 1] ELSE <<>>,
         query |-> materialized_query(f,
                      (IF f.cond # Absent THEN {"condition_node"} ELSE {})
                        \cup (IF f.extras # <<>> THEN {"extra_nodes"} ELSE {}))]

\* The errors of one round of the loop.
Refused(entry, discovered) ==
    \/ entry.depth > MaxDepth
    \/ entry.node.type \notin VALID_NODE_TYPES
    \/ ~validate_config_children(entry.node)
    \/ children(entry.node) # <<>> /\ discovered + Len(children(entry.node)) > MaxNodes
    \/ Corrupt \in Range(children(entry.node))
    \/ entry.node.query = Text /\ (entry.node.cond # Absent \/ entry.node.extras # <<>>)

---------------------------------------------------------------------------
(* df.start(). *)

\* df.start(): ensure_strict, and the first entry of the stack.
Start ==
    /\ phase = "building"
    /\ phase' = IF fut.type \in VALID_NODE_TYPES THEN "flatten" ELSE "failed"
    /\ pending' = <<[node |-> fut, id |-> 1, depth |-> 0]>>
    /\ UNCHANGED <<fut, nodes, rows>>

\* One round: the top of the stack, its children on the stack in its place.
FlattenStep ==
    /\ phase = "flatten" /\ pending # <<>>
    /\ LET entry == Last(pending)
           discovered == Len(nodes) + Len(pending)
           kids == [i \in DOMAIN children(entry.node) |->
                      [node |-> children(entry.node)[i], id |-> discovered + i,
                       depth |-> entry.depth + 1]]
       IN  IF Refused(entry, discovered)
           THEN /\ phase' = "failed"
                /\ pending' = <<>> /\ nodes' = <<>>
           ELSE /\ nodes' = Append(nodes, Materialized(entry, discovered + 1))
                /\ pending' = Front(pending) \o Reverse(kids)
                /\ UNCHANGED phase
    /\ UNCHANGED <<fut, rows>>

\* The source finds no identifier the graph does not have yet.
IdsExhausted ==
    /\ phase = "flatten" /\ pending # <<>>
    /\ phase' = "unlucky"
    /\ pending' = <<>> /\ nodes' = <<>>
    /\ UNCHANGED <<fut, rows>>

\* insert_nodes: one statement for each chunk.
InsertBatch ==
    /\ phase = "flatten" /\ pending = <<>>
    /\ rows' = rows \o SubSeq(nodes, Len(rows) + 1,
                              IF Len(rows) + BatchSize < Len(nodes)
                              THEN Len(rows) + BatchSize ELSE Len(nodes))
    /\ phase' = IF Len(rows') = Len(nodes) THEN "started" ELSE phase
    /\ UNCHANGED <<fut, pending, nodes>>

\* df.start() of any future of F.
FlattenSpec(F) ==
    /\ fut \in F /\ phase = "building" /\ pending = <<>> /\ nodes = <<>> /\ rows = <<>>
    /\ [][Start \/ FlattenStep \/ IdsExhausted \/ InsertBatch]_graphvars

---------------------------------------------------------------------------
\* The identifiers a row names, as its columns and its query have them.
References(r) == Given(r.left) \o Given(r.right) \o Given(r.cond) \o r.extras

\* What load_function_graph and the executor take for granted of the rows
\* (types.rs:1355): there are at most MAX_GRAPH_NODES, each identifier is that of
\* one row, the root's is the first; a row names rows that come after it only, so
\* that nothing is its own ancestor; and every row but the root's is named by one
\* other, once.
RowsFormTree ==
    phase = "started" =>
        /\ Len(rows) \in 1..MaxNodes /\ rows[1].id = 1
        /\ \A i, j \in DOMAIN rows : rows[i].id = rows[j].id => i = j
        /\ \A i \in DOMAIN rows : \A k \in DOMAIN References(rows[i]) :
              \E j \in DOMAIN rows : j > i /\ rows[j].id = References(rows[i])[k]
        /\ \A j \in DOMAIN rows : j # 1 =>
              \E i \in DOMAIN rows : \E k \in DOMAIN References(rows[i]) :
                 References(rows[i])[k] = rows[j].id
        /\ \A i, j \in DOMAIN rows :
              \A k \in DOMAIN References(rows[i]), l \in DOMAIN References(rows[j]) :
                 References(rows[i])[k] = References(rows[j])[l] => i = j /\ k = l
=============================================================================
