----------------------- MODULE GraphExecution_proofs -----------------------
(***************************************************************************)
(* Safety of graph execution, of signals and of what df.instance_nodes()   *)
(* shows, for every graph, any number of iterations, signals and lost      *)
(* engine calls.                                                           *)
(***************************************************************************)
EXTENDS Signals, SequenceTheorems, WellFoundedInduction, TLAPS

-----------------------------------------------------------------------------
(* The tree. *)

\* A child has one parent.
LEMMA ParentOfChild ==
    ASSUME NEW p \in Nodes, NEW c \in Children(p)
    PROVE  c \in Nodes \ {Root} /\ Parent(c) = p
<1>1. c \in Nodes
    BY GraphAssumption DEF Children, Range
<1>2. c # Root /\ \A q \in Nodes : c \in Children(q) => q = p
    BY TreeAssumption
<1> QED
    BY <1>1, <1>2 DEF Parent

\* Every node but the root is a child of its parent.
LEMMA ChildOfParent ==
    ASSUME NEW n \in Nodes \ {Root}
    PROVE  Parent(n) \in Nodes /\ n \in Children(Parent(n))
BY TreeAssumption DEF Parent

\* The kids of a node are children of it, and different ones.
LEMMA KidsAreChildren ==
    ASSUME NEW n \in Nodes
    PROVE  /\ \A i \in 1 .. Len(Kids[n]) : Kids[n][i] \in Children(n) /\ Kids[n][i] \in Nodes
           /\ \A i, j \in 1 .. Len(Kids[n]) : Kids[n][i] = Kids[n][j] => i = j
           /\ \A c \in Children(n) : \E i \in 1 .. Len(Kids[n]) : c = Kids[n][i]
           /\ Len(Kids[n]) \in Nat
<1>1. Kids[n] \in Seq(Nodes)
    BY GraphAssumption
<1>2. DOMAIN Kids[n] = 1 .. Len(Kids[n]) /\ Len(Kids[n]) \in Nat
    BY <1>1
<1>3. IsInjective(Kids[n])
    BY TreeAssumption
<1> QED
    BY <1>1, <1>2, <1>3 DEF Children, Range, IsInjective

\* A path has its node, is closed and leads to where its members' paths lead.
LEMMA UpwardClosed ==
    ASSUME NEW n \in Nodes
    PROVE  /\ n \in Upward[n] /\ Upward[n] \subseteq Nodes
           /\ UpClosed(Upward[n])
           /\ \A a \in Upward[n] : Upward[a] \subseteq Upward[n]
<1>1. Upward[n] = {a \in Nodes : \A S \in SUBSET Nodes : n \in S /\ UpClosed(S) => a \in S}
    BY DEF Upward
<1>2. n \in Upward[n] /\ Upward[n] \subseteq Nodes
    BY <1>1
<1>3. UpClosed(Upward[n])
  <2> SUFFICES ASSUME NEW m \in Upward[n] \ {Root} PROVE Parent(m) \in Upward[n]
      BY DEF UpClosed
  <2>1. Parent(m) \in Nodes
      BY <1>2, ChildOfParent
  <2>2. ASSUME NEW S \in SUBSET Nodes, n \in S, UpClosed(S) PROVE Parent(m) \in S
      BY <1>1, <2>2 DEF UpClosed
  <2> QED
      BY <1>1, <2>1, <2>2
<1>4. ASSUME NEW a \in Upward[n] PROVE Upward[a] \subseteq Upward[n]
  <2>1. Upward[a] = {b \in Nodes : \A S \in SUBSET Nodes : a \in S /\ UpClosed(S) => b \in S}
      BY <1>2, <1>4 DEF Upward
  <2> QED
      BY <1>2, <1>3, <1>4, <2>1
<1> QED
    BY <1>2, <1>3, <1>4

\* One step of a path.
LEMMA UpwardStep ==
    /\ Upward[Root] = {Root}
    /\ \A n \in Nodes \ {Root} : Upward[n] = {n} \cup Upward[Parent(n)]
<1>1. Upward[Root] = {Root}
  <2>1. {Root} \in SUBSET Nodes /\ UpClosed({Root}) /\ Root \in Nodes
      BY GraphAssumption DEF UpClosed
  <2>2. Upward[Root] \subseteq {Root}
      BY <2>1 DEF Upward
  <2> QED
      BY <2>1, <2>2, UpwardClosed
<1>2. ASSUME NEW n \in Nodes \ {Root} PROVE Upward[n] = {n} \cup Upward[Parent(n)]
  <2> DEFINE S == {n} \cup Upward[Parent(n)]
  <2>1. Parent(n) \in Nodes
      BY ChildOfParent
  <2>2. Parent(n) \in Upward[n] /\ n \in Upward[n]
      BY UpwardClosed DEF UpClosed
  <2>3. S \subseteq Upward[n]
      BY <2>2, UpwardClosed
  <2>4. S \in SUBSET Nodes /\ UpClosed(S) /\ n \in S
      BY <2>1, UpwardClosed DEF UpClosed
  <2>5. Upward[n] \subseteq S
    <3> HIDE DEF S
    <3> QED BY <2>4 DEF Upward
  <2> QED
      BY <2>3, <2>5
<1> QED
    BY <1>1, <1>2

\* Paths do not come back.
LEMMA NoCycle ==
    /\ \A n \in Nodes \ {Root} : n \notin Upward[Parent(n)]
    /\ \A a, b \in Nodes : a \in Upward[b] /\ b \in Upward[a] => a = b
<1>1. \A n \in Nodes \ {Root} : n \notin Upward[Parent(n)]
  <2> DEFINE S == {n \in Nodes \ {Root} : n \in Upward[Parent(n)]}
  <2> SUFFICES ASSUME S # {} PROVE FALSE
      OBVIOUS
  <2>1. PICK n \in S : n = Root \/ Parent(n) \notin S
    <3>1. S \in SUBSET Nodes
        OBVIOUS
    <3> QED
        BY <3>1, TreeAssumption
  <2>2. n \in Nodes \ {Root} /\ n \in Upward[Parent(n)] /\ Parent(n) \notin S
      BY <2>1
  <2>3. Parent(n) \in Nodes
      BY ChildOfParent
  <2>4. Parent(n) # Root
      BY <2>2, UpwardStep
  <2>5. Upward[Parent(n)] = {Parent(n)} \cup Upward[Parent(Parent(n))]
      BY <2>3, <2>4, UpwardStep
  <2>6. Parent(Parent(n)) \in Nodes
      BY <2>3, <2>4, ChildOfParent
  <2>7. CASE n = Parent(n)
      BY <2>2, <2>7
  <2>8. CASE n \in Upward[Parent(Parent(n))]
      BY <2>2, <2>3, <2>4, <2>6, <2>8, UpwardClosed DEF UpClosed
  <2> QED
      BY <2>2, <2>5, <2>7, <2>8
<1>2. ASSUME NEW a \in Nodes, NEW b \in Nodes, a \in Upward[b], b \in Upward[a], a # b
      PROVE  FALSE
  <2>1. b # Root
      BY <1>2, UpwardStep
  <2>2. a \in Upward[Parent(b)] /\ Parent(b) \in Nodes
      BY <1>2, <2>1, UpwardStep, ChildOfParent
  <2>3. b \in Upward[Parent(b)]
      BY <1>2, <2>2, UpwardClosed
  <2> QED
      BY <1>1, <2>1, <2>3
<1> QED
    BY <1>1, <1>2

\* What is below a node, one step at a time.
LEMMA BelowStep ==
    ASSUME NEW l \in Nodes
    PROVE  /\ l \notin Below(l) /\ Below(l) \subseteq Nodes \ {Root}
           /\ \A n \in Nodes \ {Root} : n \in Below(l) <=> Parent(n) = l \/ Parent(n) \in Below(l)
           /\ \A n \in Nodes : n \in Below(l) <=> l \in Upward[n] /\ n # l
<1>1. \A n \in Nodes : n \in Below(l) <=> l \in Upward[n] /\ n # l
    BY DEF Below, Ancestors
<1>2. l \notin Below(l) /\ Below(l) \subseteq Nodes \ {Root}
    BY <1>1, UpwardStep DEF Below
<1>3. ASSUME NEW n \in Nodes \ {Root}
      PROVE  n \in Below(l) <=> Parent(n) = l \/ Parent(n) \in Below(l)
  <2>1. Parent(n) \in Nodes /\ Upward[n] = {n} \cup Upward[Parent(n)] /\ n \notin Upward[Parent(n)]
      BY ChildOfParent, UpwardStep, NoCycle
  <2> QED
      BY <1>1, <2>1, UpwardClosed
<1> QED
    BY <1>1, <1>2, <1>3

\* Spawned nodes are nodes; loops and the branches of JOIN and RACE are spawned.
LEMMA SpawnedNodes ==
    /\ Spawned \subseteq Nodes /\ Root \in Spawned
    /\ \A n \in Nodes : Kind[n] = "loop" => n \in Spawned
    /\ \A n \in Nodes : Kind[n] \in {"join", "race"} => Children(n) \subseteq Spawned
<1>1. \A l \in Isolating : Body(l) \in Nodes
  <2> SUFFICES ASSUME NEW l \in Isolating PROVE Body(l) \in Nodes
      OBVIOUS
  <2>1. l \in Nodes /\ Len(Kids[l]) \in {1, 2}
      BY GraphAssumption, ArityAssumption
  <2> QED
      BY <2>1, KidsAreChildren DEF Body
<1>2. Spawned \subseteq Nodes /\ Root \in Spawned
    BY <1>1, GraphAssumption DEF Spawned
<1>3. \A n \in Nodes : Kind[n] \in {"join", "race"} => Children(n) \subseteq Spawned
    BY ParentOfChild DEF Spawned
<1> QED
    BY <1>2, <1>3 DEF Spawned

\* The owner of a node is the nearest spawned one on its path, and the owner of
\* what lies between them.
LEMMA OwnerStep ==
    /\ \A n \in Nodes : Owner[n] \in Spawned /\ Owner[n] \in Upward[n] /\ Owner[n] \in Nodes
    /\ \A s \in Spawned : Owner[s] = s
    /\ \A n \in Nodes \ Spawned : n # Root /\ Owner[n] = Owner[Parent(n)]
    /\ \A n \in Nodes : Upward[n] \cap Spawned \subseteq Upward[Owner[n]]
<1> DEFINE Fits(n, s) == s \in Upward[n] \cap Spawned /\ Upward[n] \cap Spawned \subseteq Upward[s]
<1>1. \A n \in Nodes : Owner[n] = CHOOSE s \in Upward[n] \cap Spawned :
                                        Upward[n] \cap Spawned \subseteq Upward[s]
    BY DEF Owner
<1>2. \A s \in Spawned : Fits(s, s)
    BY SpawnedNodes, UpwardClosed
<1>3. \A n \in Nodes \ Spawned :
        n # Root /\ Parent(n) \in Nodes /\ Upward[n] \cap Spawned = Upward[Parent(n)] \cap Spawned
    BY SpawnedNodes, UpwardStep, ChildOfParent
<1>4. \A n \in Nodes : \E s \in Nodes : Fits(n, s)
  <2> DEFINE S == {n \in Nodes : ~\E s \in Nodes : Fits(n, s)}
  <2> SUFFICES ASSUME S # {} PROVE FALSE
      OBVIOUS
  <2>1. PICK n \in S : n = Root \/ Parent(n) \notin S
    <3>1. S \in SUBSET Nodes
        OBVIOUS
    <3> QED
        BY <3>1, TreeAssumption
  <2>2. n \notin Spawned
      BY <1>2, SpawnedNodes
  <2> QED
      BY <1>3, <2>1, <2>2
<1>5. \A n \in Nodes : Owner[n] \in Upward[n] \cap Spawned
                       /\ Upward[n] \cap Spawned \subseteq Upward[Owner[n]]
    BY <1>1, <1>4
<1>6. \A s \in Spawned : Owner[s] = s
    BY <1>5, SpawnedNodes, UpwardClosed, NoCycle
<1>7. \A n \in Nodes \ Spawned : Owner[n] = Owner[Parent(n)]
  <2> DEFINE Nearest(path) == CHOOSE s \in path : path \subseteq Upward[s]
  <2>1. \A n \in Nodes : Owner[n] = Nearest(Upward[n] \cap Spawned)
      BY <1>1
  <2> HIDE DEF Nearest
  <2> QED
      BY <1>3, <2>1
<1> QED
    BY <1>3, <1>5, <1>6, <1>7, SpawnedNodes

-----------------------------------------------------------------------------
(* Who waits for whom. *)

Busy == {"marking", "exec", "stamping", "ending"}
Lineage == Seq([gen : Nat, node : Nodes])

TypeOK ==
    /\ phase \in [Nodes -> Busy \cup {"idle", "done"}]
    /\ DOMAIN out = Nodes /\ DOMAIN fb = Nodes
    /\ scope \in [Spawned -> [inst : Lineage, gen : Nat \ {0},
                              life : {"none", "live", "doomed", "ended", "dropped"}]]

\* What has not been entered has no children yet, and no orchestration.
Untouched ==
    /\ \A s \in Spawned : phase[s] = "idle" <=> scope[s].life = "none"
    /\ \A n \in Nodes : phase[n] \in {"idle", "marking"} =>
          \A c \in Children(n) : phase[c] = "idle"

\* An orchestration lives from its root's first write to its last.
Lifetimes ==
    \A s \in Spawned :
        /\ scope[s].life \in {"live", "doomed"} => phase[s] \in Busy
        /\ scope[s].life = "ended" => phase[s] = "done"
        /\ phase[s] = "done" => scope[s].life \in {"ended", "dropped"}

\* Whoever is busy is waited for, unless it is the root of an orchestration
\* that was cancelled.
Awaited ==
    \A c \in Nodes \ {Root} :
        phase[c] \in Busy /\ (c \in Spawned => scope[c].life = "live") =>
            phase[Parent(c)] = "exec"

\* THEN, IF and loops run their first child, then at most one of the others.
Later(n) == IF Kind[n] = "if_rows" THEN Children(n) ELSE Children(n) \ {Kids[n][1]}
InTurn ==
    \A n \in Nodes : Kind[n] \in {"then", "if", "if_rows", "loop"} =>
        \A c \in Later(n) : phase[c] # "idle" =>
            /\ \A d \in Later(n) : d # c => phase[d] = "idle"
            /\ Kind[n] # "if_rows" => phase[Kids[n][1]] = "done" /\ out[Kids[n][1]] = "ok"

\* JOIN and RACE start all their branches at once.
AllStarted ==
    \A n \in Nodes : Kind[n] \in {"join", "race"} /\ phase[n] = "exec" =>
        \A c \in Children(n) : phase[c] # "idle"

\* A cancelled child is one nobody waits for any more.
Abandoned ==
    \A s \in Spawned \ {Root} : scope[s].life = "doomed" =>
        phase[Parent(s)] \in {"stamping", "ending", "done"} \/ ~Active(Parent(s))

\* What a handler returned is a result.
Decided == {"stamping", "ending", "done"}
OutTyped == \A n \in Nodes : phase[n] \in Decided => out[n] \in Outcomes

\* A fatal failure of a child nobody cancelled is the failure of its parent,
\* save in a JOIN that is not failure-isolated.
Kept(c) == c \in Spawned => scope[c].life \notin {"doomed", "dropped"}
Inspects(n) == Kind[n] = "join" => FailureIsolated(n)
FaultsSurface ==
    \A n \in Nodes : phase[n] \in Decided /\ Inspects(n) =>
        \A c \in Children(n) : Fatal(c) /\ Kept(c) => out[n] = "fail"

\* The invariant of structured concurrency, and of how failures travel.
GInv ==
    /\ TypeOK
    /\ Untouched
    /\ Lifetimes
    /\ Awaited
    /\ InTurn
    /\ AllStarted
    /\ Abandoned
    /\ ChildrenAreAwaited
    /\ OutTyped
    /\ FaultsSurface

\* Below a node that is not entered nothing is.
LEMMA IdleBelow ==
    ASSUME GInv, NEW l \in Nodes, phase[l] \in {"idle", "marking"}, NEW m \in Below(l)
    PROVE  phase[m] = "idle"
<1> DEFINE S == {n \in Below(l) : phase[n] # "idle"}
<1> SUFFICES ASSUME S # {} PROVE FALSE
    OBVIOUS
<1>1. PICK n \in S : n = Root \/ Parent(n) \notin S
  <2>1. S \in SUBSET Nodes
      BY DEF Below
  <2> QED
      BY <2>1, TreeAssumption
<1>2. n \in Nodes \ {Root} /\ n \in Children(Parent(n)) /\ Parent(n) \in Nodes
    BY BelowStep, ChildOfParent
<1>3. phase[Parent(n)] \in {"idle", "marking"}
    BY <1>1, <1>2, BelowStep
<1> QED
    BY <1>2, <1>3 DEF GInv, Untouched

\* The root of an orchestration waits for what is busy in it.
LEMMA OwnerWaits ==
    ASSUME GInv, NEW p \in Nodes \ Spawned, phase[p] \in Busy
    PROVE  phase[Owner[p]] = "exec"
<1> DEFINE S == {n \in Nodes \ Spawned : phase[n] \in Busy /\ phase[Owner[n]] # "exec"}
<1> SUFFICES ASSUME S # {} PROVE FALSE
    OBVIOUS
<1>1. PICK n \in S : n = Root \/ Parent(n) \notin S
  <2>1. S \in SUBSET Nodes
      OBVIOUS
  <2> QED
      BY <2>1, TreeAssumption
<1>2. n \in Nodes \ {Root} /\ Parent(n) \in Nodes /\ Owner[n] = Owner[Parent(n)]
    BY OwnerStep, ChildOfParent
<1>3. phase[Parent(n)] = "exec"
    BY <1>2 DEF GInv, Awaited
<1> QED
    BY <1>1, <1>2, <1>3, OwnerStep DEF Busy

\* The root orchestration has entered its root.
LEMMA InitG == Init => GInv
<1> SUFFICES ASSUME Init PROVE GInv
    OBVIOUS
<1> USE DEF Init
<1>1. TypeOK
    BY SpawnedNodes DEF TypeOK, Busy, Lineage
<1>2. Untouched
    BY SpawnedNodes, ParentOfChild, GraphAssumption DEF Untouched
<1>3. Lifetimes /\ Abandoned /\ ChildrenAreAwaited
    BY SpawnedNodes DEF Lifetimes, Abandoned, ChildrenAreAwaited, Busy
<1>4. Awaited /\ AllStarted
    BY DEF Awaited, AllStarted, Busy
<1>5. InTurn
  <2>1. \A n \in Nodes : \A c \in Later(n) : phase[c] = "idle"
      BY ParentOfChild DEF Later
  <2> QED
      BY <2>1 DEF InTurn
<1>6. OutTyped /\ FaultsSurface
    BY DEF OutTyped, FaultsSurface, Decided
<1> QED
    BY <1>1, <1>2, <1>3, <1>4, <1>5, <1>6 DEF GInv

\* A handler may return when none of its children is busy.
LEMMA DecideG ==
    ASSUME GInv, NEW n \in Nodes, phase[n] \in {"marking", "exec"},
           \A c \in Children(n) : phase[c] \in {"idle", "done"},
           NEW result \in Outcomes, NEW stamps, Decide(n, result, stamps), UNCHANGED scope,
           Inspects(n) => \A c \in Children(n) : Fatal(c) /\ Kept(c) => result = "fail"
    PROVE  GInv'
<1>1. \A m \in Nodes : phase'[m] = phase[m] \/ (m = n /\ phase'[m] \in {"stamping", "ending"})
    BY DEF Decide, GInv, TypeOK
<1>2. \A m \in Nodes : m # n => phase'[m] = phase[m] /\ out'[m] = out[m]
    BY DEF Decide, GInv, TypeOK
<1>3. TypeOK'
    BY DEF Decide, GInv, TypeOK, Busy
<1> USE DEF GInv
<1>4. Untouched'
    BY <1>1, SpawnedNodes, ParentOfChild DEF Untouched
<1>5. Lifetimes'
    BY <1>1, SpawnedNodes DEF Lifetimes, Busy
<1>6. Awaited'
    BY <1>1, ChildOfParent DEF Awaited, Busy
<1>7. InTurn'
  <2> SUFFICES ASSUME NEW m \in Nodes, Kind[m] \in {"then", "if", "if_rows", "loop"},
                      NEW c \in Later(m), phase'[c] # "idle"
               PROVE  /\ \A d \in Later(m) : d # c => phase'[d] = "idle"
                      /\ Kind[m] # "if_rows" =>
                            phase'[Kids[m][1]] = "done" /\ out'[Kids[m][1]] = "ok"
      BY DEF InTurn
  <2>1. Later(m) \subseteq Nodes /\ (Kind[m] # "if_rows" => Kids[m][1] \in Nodes)
      BY ParentOfChild, KidsAreChildren, ArityAssumption DEF Later
  <2>2. phase[c] # "idle"
      BY <1>1, <2>1
  <2>3. /\ \A d \in Later(m) : d # c => phase[d] = "idle"
        /\ Kind[m] # "if_rows" => phase[Kids[m][1]] = "done" /\ out[Kids[m][1]] = "ok"
      BY <2>2 DEF InTurn
  <2> QED
      BY <1>1, <1>2, <2>1, <2>3
<1>8. AllStarted'
    BY <1>1, ParentOfChild DEF AllStarted
<1>9. Abandoned' /\ ChildrenAreAwaited'
    BY <1>1, SpawnedNodes, ChildOfParent
    DEF Abandoned, ChildrenAreAwaited, Active, Lifetimes, Busy
<1>10. phase'[n] # "done" /\ out'[n] = result
    BY DEF Decide, TypeOK
<1>11. OutTyped'
    BY <1>1, <1>2, <1>10 DEF OutTyped, Decided
<1>12. FaultsSurface'
  <2> SUFFICES ASSUME NEW m \in Nodes, phase'[m] \in Decided, Inspects(m),
                      NEW c \in Children(m), Fatal(c)', Kept(c)'
               PROVE  out'[m] = "fail"
      BY DEF FaultsSurface, Inspects, FailureIsolated
  <2>1. c \in Nodes /\ c # n
      BY <1>10, ParentOfChild DEF Fatal, Returned
  <2>2. Fatal(c) /\ Kept(c)
      BY <1>2, <2>1 DEF Fatal, Returned, Kept
  <2>3. CASE m = n
      BY <1>10, <2>2, <2>3
  <2>4. CASE m # n
      BY <1>2, <2>2, <2>4 DEF FaultsSurface
  <2> QED
      BY <2>3, <2>4
<1> QED
    BY <1>3, <1>4, <1>5, <1>6, <1>7, <1>8, <1>9, <1>11, <1>12

\* A handler may start children that are idle, in their turn.
LEMMA StartG ==
    ASSUME GInv, NEW n \in Nodes, phase[n] \in {"marking", "exec"}, Active(n),
           NEW kids \in SUBSET Children(n), \A c \in kids : phase[c] = "idle",
           StartKids(n, kids), UNCHANGED <<out, fb>>,
           Kind[n] \in {"join", "race"} => kids = Children(n),
           Kind[n] \in {"then", "if", "if_rows", "loop"} =>
               \A c \in kids \cap Later(n) :
                  /\ kids = {c} /\ \A d \in Later(n) : phase[d] = "idle"
                  /\ Kind[n] # "if_rows" => phase[Kids[n][1]] = "done" /\ out[Kids[n][1]] = "ok"
    PROVE  GInv'
<1>0. kids \subseteq Nodes /\ n \notin kids /\ \A c \in kids : c # Root /\ Parent(c) = n
    BY ParentOfChild
<1>1. \A m \in Nodes : phase'[m] = IF m \in kids THEN "marking" ELSE IF m = n THEN "exec" ELSE phase[m]
    BY DEF StartKids
<1>2. \A s \in Spawned : s \notin kids => scope'[s] = scope[s]
    BY DEF StartKids
<1>3. \A s \in Spawned \cap kids : scope'[s].life = "live"
    BY DEF StartKids
<1>4. TypeOK'
  <2>1. \A s \in Spawned \cap kids : subtree_instance(s) \in Lineage
    <3> SUFFICES ASSUME NEW s \in Spawned \cap kids PROVE subtree_instance(s) \in Lineage
        OBVIOUS
    <3>1. scope[Owner[n]].inst \in Lineage /\ scope[Owner[n]].gen \in Nat
        BY OwnerStep DEF GInv, TypeOK
    <3>2. [gen |-> scope[Owner[n]].gen, node |-> s] \in [gen : Nat, node : Nodes]
        BY <1>0, <3>1
    <3> QED
        BY <1>0, <3>1, <3>2, AppendProperties
        DEF subtree_instance, compose_subtree_instance_id, Stamp, Lineage
  <2>2. scope' \in [Spawned -> [inst : Lineage, gen : Nat \ {0},
                                life : {"none", "live", "doomed", "ended", "dropped"}]]
      BY <2>1 DEF StartKids, GInv, TypeOK
  <2>3. phase' \in [Nodes -> Busy \cup {"idle", "done"}]
      BY DEF StartKids, GInv, TypeOK, Busy
  <2> QED
      BY <2>2, <2>3 DEF GInv, TypeOK
<1>5. Untouched'
  <2>1. \A s \in Spawned : phase'[s] = "idle" <=> scope'[s].life = "none"
      BY <1>0, <1>1, <1>2, <1>3, SpawnedNodes DEF GInv, Untouched
  <2>2. ASSUME NEW m \in Nodes, phase'[m] \in {"idle", "marking"}, NEW c \in Children(m)
        PROVE  phase'[c] = "idle"
    <3>1. c \in Nodes /\ Parent(c) = m
        BY ParentOfChild
    <3>2. phase[m] \in {"idle", "marking"} /\ m # n
        BY <1>0, <1>1, <2>2
    <3>3. phase[c] = "idle"
        BY <3>2, <2>2 DEF GInv, Untouched
    <3>4. c # n /\ c \notin kids
        BY <1>0, <3>1, <3>2, <3>3
    <3> QED
        BY <1>1, <3>1, <3>3, <3>4
  <2> QED
      BY <2>1, <2>2 DEF Untouched
<1>6. Lifetimes'
    BY <1>0, <1>1, <1>2, <1>3, SpawnedNodes DEF GInv, Lifetimes, Busy
<1>7. Awaited'
  <2> SUFFICES ASSUME NEW c \in Nodes \ {Root}, phase'[c] \in Busy,
                      c \in Spawned => scope'[c].life = "live"
               PROVE  phase'[Parent(c)] = "exec"
      BY DEF Awaited
  <2>0. Parent(c) \in Nodes
      BY ChildOfParent
  <2>1. CASE c \in kids
      BY <1>0, <1>1, <2>0, <2>1
  <2>2. CASE c \notin kids
    <3>1. phase[c] \in Busy /\ (c \in Spawned => scope[c].life = "live")
        BY <1>1, <1>2, <2>2 DEF Busy
    <3>2. phase[Parent(c)] = "exec"
        BY <3>1 DEF GInv, Awaited
    <3> QED
        BY <1>1, <2>0, <3>2
  <2> QED
      BY <2>1, <2>2
<1>8. InTurn'
  <2> SUFFICES ASSUME NEW m \in Nodes, Kind[m] \in {"then", "if", "if_rows", "loop"},
                      NEW c \in Later(m), phase'[c] # "idle"
               PROVE  /\ \A d \in Later(m) : d # c => phase'[d] = "idle"
                      /\ Kind[m] # "if_rows" =>
                            phase'[Kids[m][1]] = "done" /\ out'[Kids[m][1]] = "ok"
      BY DEF InTurn
  <2>1. /\ Later(m) \subseteq Children(m) /\ Children(m) \subseteq Nodes
        /\ \A d \in Children(m) : Parent(d) = m
        /\ Kind[m] # "if_rows" => Kids[m][1] \in Children(m)
      BY ParentOfChild, KidsAreChildren, ArityAssumption DEF Later
  <2>2. CASE c \in kids
    <3>1. m = n
        BY <1>0, <2>1, <2>2
    <3>2. /\ kids = {c} /\ \A d \in Later(n) : phase[d] = "idle"
          /\ Kind[n] # "if_rows" => phase[Kids[n][1]] = "done" /\ out[Kids[n][1]] = "ok"
        BY <2>2, <3>1
    <3>3. \A d \in Children(m) : d # n
        BY <1>0, <2>1, NoCycle, UpwardClosed, <3>1, ParentOfChild
    <3> QED
        BY <1>1, <2>1, <3>1, <3>2, <3>3
  <2>3. CASE c \notin kids
    <3>1. phase[c] # "idle"
        BY <1>1, <2>1, <2>3
    <3>2. /\ \A d \in Later(m) : d # c => phase[d] = "idle"
          /\ Kind[m] # "if_rows" => phase[Kids[m][1]] = "done" /\ out[Kids[m][1]] = "ok"
        BY <3>1 DEF GInv, InTurn
    <3>3. \A d \in kids : d \notin Later(m)
        BY <1>0, <2>1, <2>3, <3>1
    <3> QED
        BY <1>1, <2>1, <3>2, <3>3
  <2> QED
      BY <2>2, <2>3
<1>9. AllStarted'
    BY <1>0, <1>1, ParentOfChild DEF GInv, AllStarted
<1>10. Abandoned'
  <2> SUFFICES ASSUME NEW s \in Spawned \ {Root}, scope'[s].life = "doomed"
               PROVE  phase'[Parent(s)] \in {"stamping", "ending", "done"} \/ ~Active(Parent(s))'
      BY DEF Abandoned
  <2>1. s \notin kids /\ scope[s].life = "doomed" /\ s \in Nodes
      BY <1>2, <1>3, SpawnedNodes
  <2>2. Parent(s) \in Nodes /\ s \in Children(Parent(s))
      BY <2>1, ChildOfParent
  <2>3. phase[s] # "idle"
      BY <2>1 DEF GInv, Untouched
  <2>4. CASE phase[Parent(s)] \in {"stamping", "ending", "done"}
      BY <1>1, <2>2, <2>4
  <2>5. CASE ~Active(Parent(s))
    <3>1. Owner[Parent(s)] \in Spawned /\ Owner[Parent(s)] \in Upward[Parent(s)]
        BY <2>2, OwnerStep
    <3>2. Owner[Parent(s)] \notin kids
      <4> SUFFICES ASSUME Owner[Parent(s)] \in kids PROVE FALSE
          OBVIOUS
      <4>1. s \in Below(Owner[Parent(s)])
          BY <1>0, <2>1, <2>2, <3>1, BelowStep
      <4> QED
          BY <1>0, <2>3, <4>1, IdleBelow
    <3> QED
        BY <1>2, <2>5, <3>1, <3>2 DEF Active
  <2> QED
      BY <2>1, <2>4, <2>5 DEF GInv, Abandoned
<1>11. ChildrenAreAwaited'
  <2> SUFFICES ASSUME NEW s \in Spawned \ {Root}, scope'[s].life = "live"
               PROVE  phase'[Parent(s)] = "exec" /\ Active(Parent(s))'
      BY DEF ChildrenAreAwaited
  <2>1. Parent(s) \in Nodes /\ Owner[Parent(s)] \in Spawned
      BY ChildOfParent, SpawnedNodes, OwnerStep
  <2>2. phase'[Parent(s)] = "exec" /\ Active(Parent(s))
    <3>1. CASE s \in kids
        BY <1>0, <1>1, <2>1, <3>1
    <3>2. CASE s \notin kids
        BY <1>0, <1>1, <1>2, <2>1, <3>2 DEF GInv, ChildrenAreAwaited
    <3> QED
        BY <3>1, <3>2
  <2> QED
      BY <1>2, <1>3, <2>1, <2>2 DEF Active
<1>12. OutTyped'
    BY <1>1 DEF GInv, OutTyped, Decided
<1>13. FaultsSurface'
  <2> SUFFICES ASSUME NEW m \in Nodes, phase'[m] \in Decided, Inspects(m),
                      NEW c \in Children(m), Fatal(c)', Kept(c)'
               PROVE  out'[m] = "fail"
      BY DEF FaultsSurface, Inspects, FailureIsolated
  <2>1. c \in Nodes /\ phase'[c] = "done"
      BY ParentOfChild DEF Fatal, Returned
  <2>2. c \notin kids /\ phase[c] = "done" /\ phase[m] \in Decided
      BY <1>1, <2>1 DEF Decided
  <2>3. Fatal(c) /\ Kept(c)
      BY <1>2, <2>2 DEF Fatal, Returned, Kept
  <2> QED
      BY <2>2, <2>3 DEF GInv, FaultsSurface
<1> QED
    BY <1>4, <1>5, <1>6, <1>7, <1>8, <1>9, <1>10, <1>11, <1>12, <1>13 DEF GInv
\* A RACE returns with its winner and leaves no branch running uncancelled.
LEMMA RaceG ==
    ASSUME GInv, NEW n \in Nodes, RaceStep(n)
    PROVE  GInv'
<1> USE DEF GInv
<1>0. phase[n] = "exec" /\ Kind[n] = "race" /\ Active(n)
    BY DEF RaceStep, Waiting
<1>1. PICK winner \in Children(n), loser \in Children(n) :
         /\ winner # loser /\ Returned(winner)
         /\ Decide(n, out[winner],
                   (IF Kind[loser] = "loop" THEN <<loser>> ELSE <<>>) \o FailedLoop(winner))
         /\ scope' = [scope EXCEPT ![loser].life = IF @ = "live" THEN "doomed" ELSE "dropped"]
    BY DEF RaceStep
<1>2. Children(n) = {winner, loser}
  <2>1. Len(Kids[n]) = 2
      BY <1>0, ArityAssumption
  <2>2. \A c \in Children(n) : c = Kids[n][1] \/ c = Kids[n][2]
      BY <2>1, KidsAreChildren
  <2> QED
      BY <1>1, <2>2
<1>3. /\ loser \in Spawned /\ winner \in Spawned /\ loser \in Nodes /\ winner \in Nodes
      /\ Parent(loser) = n /\ Parent(winner) = n /\ loser # Root
    BY <1>0, SpawnedNodes, ParentOfChild
<1>4. \A m \in Nodes : phase'[m] = phase[m] \/ (m = n /\ phase'[m] \in {"stamping", "ending"})
    BY <1>1 DEF Decide, TypeOK
<1>5. \A m \in Nodes : m # n => phase'[m] = phase[m] /\ out'[m] = out[m]
    BY <1>1 DEF Decide, TypeOK
<1>6. phase'[n] \in {"stamping", "ending"}
    BY <1>1 DEF Decide, TypeOK
<1>7. \A s \in Spawned : s # loser => scope'[s] = scope[s]
    BY <1>1, <1>3 DEF TypeOK
<1>8. scope'[loser].life = IF scope[loser].life = "live" THEN "doomed" ELSE "dropped"
    BY <1>1, <1>3 DEF TypeOK
<1>9. phase[loser] # "idle" /\ scope[loser].life # "doomed" /\ phase[winner] = "done"
    BY <1>0, <1>1, <1>3 DEF AllStarted, Abandoned, Returned
<1>10. \A m \in Nodes : Active(m)' <=> Active(m)
    BY <1>7, <1>8, <1>9, OwnerStep DEF Active
<1>11. TypeOK'
  <2>1. scope' \in [Spawned -> [inst : Lineage, gen : Nat \ {0},
                                life : {"none", "live", "doomed", "ended", "dropped"}]]
      BY <1>1, <1>3 DEF TypeOK
  <2> QED
      BY <1>1, <2>1 DEF TypeOK, Decide, Busy
<1>12. Untouched'
  <2>1. \A s \in Spawned : phase'[s] = "idle" <=> scope'[s].life = "none"
      BY <1>0, <1>4, <1>7, <1>8, <1>9, <1>5, SpawnedNodes DEF Untouched
  <2> QED
      BY <1>0, <1>4, <2>1, ParentOfChild DEF Untouched
<1>13. Lifetimes'
    BY <1>0, <1>4, <1>5, <1>7, <1>8, <1>9, SpawnedNodes DEF Lifetimes, Busy
<1>14. Awaited'
  <2> SUFFICES ASSUME NEW c \in Nodes \ {Root}, phase'[c] \in Busy,
                      c \in Spawned => scope'[c].life = "live"
               PROVE  phase'[Parent(c)] = "exec"
      BY DEF Awaited
  <2>1. Parent(c) \in Nodes /\ c \in Children(Parent(c))
      BY ChildOfParent
  <2>2. c # loser /\ c # winner
      BY <1>3, <1>4, <1>5, <1>8, <1>9, <1>0 DEF Busy
  <2>3. Parent(c) # n
      BY <1>2, <2>1, <2>2
  <2>4. phase[c] \in Busy /\ (c \in Spawned => scope[c].life = "live")
      BY <1>0, <1>4, <1>7, <2>2 DEF Busy
  <2> QED
      BY <1>5, <2>1, <2>3, <2>4 DEF Awaited
<1>15. InTurn'
  <2> SUFFICES ASSUME NEW m \in Nodes, Kind[m] \in {"then", "if", "if_rows", "loop"},
                      NEW c \in Later(m), phase'[c] # "idle"
               PROVE  /\ \A d \in Later(m) : d # c => phase'[d] = "idle"
                      /\ Kind[m] # "if_rows" =>
                            phase'[Kids[m][1]] = "done" /\ out'[Kids[m][1]] = "ok"
      BY DEF InTurn
  <2>1. Later(m) \subseteq Nodes /\ (Kind[m] # "if_rows" => Kids[m][1] \in Nodes)
      BY ParentOfChild, KidsAreChildren, ArityAssumption DEF Later
  <2>2. phase[c] # "idle"
      BY <1>0, <1>4, <2>1
  <2>3. /\ \A d \in Later(m) : d # c => phase[d] = "idle"
        /\ Kind[m] # "if_rows" => phase[Kids[m][1]] = "done" /\ out[Kids[m][1]] = "ok"
      BY <2>2 DEF InTurn
  <2> QED
      BY <1>0, <1>5, <2>1, <2>3
<1>16. AllStarted'
    BY <1>0, <1>4, <1>6, ParentOfChild DEF AllStarted
<1>17. Abandoned'
  <2> SUFFICES ASSUME NEW s \in Spawned \ {Root}, scope'[s].life = "doomed"
               PROVE  phase'[Parent(s)] \in {"stamping", "ending", "done"} \/ ~Active(Parent(s))'
      BY DEF Abandoned
  <2>1. Parent(s) \in Nodes
      BY ChildOfParent, SpawnedNodes
  <2>2. CASE s = loser
      BY <1>3, <1>6, <2>2
  <2>3. CASE s # loser
    <3>1. phase[Parent(s)] \in {"stamping", "ending", "done"} \/ ~Active(Parent(s))
        BY <1>7, <2>3 DEF Abandoned
    <3> QED
        BY <1>4, <1>10, <2>1, <3>1
  <2> QED
      BY <2>2, <2>3
<1>18. ChildrenAreAwaited'
  <2> SUFFICES ASSUME NEW s \in Spawned \ {Root}, scope'[s].life = "live"
               PROVE  phase'[Parent(s)] = "exec" /\ Active(Parent(s))'
      BY DEF ChildrenAreAwaited
  <2>1. Parent(s) \in Nodes /\ s \in Children(Parent(s)) /\ s \in Nodes
      BY ChildOfParent, SpawnedNodes
  <2>2. s # loser /\ scope[s].life = "live"
      BY <1>7, <1>8
  <2>3. s # winner
      BY <1>9, <2>2 DEF Lifetimes, Busy
  <2>4. Parent(s) # n
      BY <1>2, <2>1, <2>2, <2>3
  <2> QED
      BY <1>5, <1>10, <2>1, <2>2, <2>4 DEF ChildrenAreAwaited
<1>19. out'[n] = out[winner] /\ out[winner] \in Outcomes /\ winner # n
    BY <1>0, <1>1, <1>3, <1>9 DEF Decide, TypeOK, OutTyped, Decided
<1>20. OutTyped'
    BY <1>4, <1>5, <1>19 DEF OutTyped, Decided
<1>21. FaultsSurface'
  <2> SUFFICES ASSUME NEW m \in Nodes, phase'[m] \in Decided, Inspects(m),
                      NEW c \in Children(m), Fatal(c)', Kept(c)'
               PROVE  out'[m] = "fail"
      BY DEF FaultsSurface, Inspects, FailureIsolated
  <2>1. c \in Nodes /\ c # n /\ c # loser /\ Parent(c) = m
      BY <1>3, <1>6, <1>8, ParentOfChild DEF Fatal, Returned, Kept
  <2>2. Fatal(c) /\ Kept(c)
      BY <1>5, <1>7, <2>1 DEF Fatal, Returned, Kept
  <2>3. CASE m = n
    <3>1. c = winner
        BY <1>2, <2>1, <2>3
    <3> QED
        BY <1>0, <1>19, <2>1, <2>2, <2>3, <3>1 DEF Fatal
  <2>4. CASE m # n
      BY <1>5, <2>2, <2>4 DEF FaultsSurface
  <2> QED
      BY <2>3, <2>4
<1> QED
    BY <1>11, <1>12, <1>13, <1>14, <1>15, <1>16, <1>17, <1>18, <1>20, <1>21

\* A loop restarts with everything below it as at first.
LEMMA ContinueG ==
    ASSUME GInv, NEW l \in Nodes, Kind[l] = "loop", phase[l] = "exec", ContinueAsNew(l)
    PROVE  GInv'
<1> USE DEF GInv
<1> DEFINE B == Below(l)
<1>1. /\ l \notin B /\ B \subseteq Nodes \ {Root} /\ l \in Spawned
      /\ \A n \in Nodes \ {Root} : n \in B <=> Parent(n) = l \/ Parent(n) \in B
      /\ \A n \in Nodes : n \in B <=> l \in Upward[n] /\ n # l
    BY BelowStep, SpawnedNodes
<1>2. /\ \A m \in Nodes : phase'[m] = IF m = l THEN "marking" ELSE IF m \in B THEN "idle" ELSE phase[m]
      /\ \A m \in Nodes : out'[m] = IF m \in B THEN "none" ELSE out[m]
      /\ \A s \in Spawned : scope'[s] = IF s = l THEN [scope[l] EXCEPT !.gen = @ + 1]
                                        ELSE IF s \in B THEN [scope[s] EXCEPT !.life = "none"]
                                        ELSE scope[s]
      /\ phase' \in [Nodes -> Busy \cup {"idle", "done"}]
      /\ DOMAIN out' = Nodes /\ DOMAIN fb' = Nodes
    BY DEF ContinueAsNew, TypeOK, Busy
<1>3. scope' \in [Spawned -> [inst : Lineage, gen : Nat \ {0},
                              life : {"none", "live", "doomed", "ended", "dropped"}]]
    BY <1>1 DEF ContinueAsNew, TypeOK
<1> HIDE DEF B
<1>4. /\ scope'[l].life = scope[l].life
      /\ \A s \in Spawned : s \in B => scope'[s].life = "none"
      /\ \A s \in Spawned : s \notin B => scope'[s].life = scope[s].life
  <2>1. \A s \in Spawned : scope[s] \in [inst : Lineage, gen : Nat \ {0},
                              life : {"none", "live", "doomed", "ended", "dropped"}]
      BY DEF TypeOK
  <2>2. scope'[l].life = scope[l].life
    <3>1. scope'[l] = [scope[l] EXCEPT !.gen = @ + 1]
        BY <1>1, <1>2
    <3> QED
        BY <1>1, <2>1, <3>1
  <2>3. ASSUME NEW s \in Spawned, s \in B PROVE scope'[s].life = "none"
    <3>1. scope'[s] = [scope[s] EXCEPT !.life = "none"]
        BY <1>1, <1>2, <2>3
    <3> QED
        BY <2>1, <3>1
  <2> QED
      BY <1>2, <2>2, <2>3
<1>5. \A m \in Nodes : m \notin B => Owner[m] \notin B /\ (Active(m)' <=> Active(m))
  <2> SUFFICES ASSUME NEW m \in Nodes, m \notin B
               PROVE  Owner[m] \notin B /\ (Active(m)' <=> Active(m))
      OBVIOUS
  <2>1. Owner[m] \notin B
    <3> SUFFICES ASSUME Owner[m] \in B PROVE FALSE
        OBVIOUS
    <3>1. l \in Upward[m]
        BY <1>1, OwnerStep, UpwardClosed
    <3>2. m = l
        BY <1>1, <3>1
    <3> QED
        BY <1>1, <3>2, OwnerStep
  <2> QED
      BY <1>4, <2>1, OwnerStep DEF Active
<1>6. \A n \in Nodes \ {Root} : n \notin B => Parent(n) \in Nodes /\ Parent(n) # l /\ Parent(n) \notin B
    BY <1>1, ChildOfParent
<1>7. \A m \in Nodes : m \notin B /\ m # l => \A c \in Children(m) : c \in Nodes \ {Root} /\ c \notin B
    BY <1>1, ParentOfChild
<1>8. TypeOK'
    BY <1>2, <1>3 DEF TypeOK
<1>9. Untouched'
  <2>1. \A s \in Spawned : phase'[s] = "idle" <=> scope'[s].life = "none"
      BY <1>1, <1>2, <1>4, SpawnedNodes DEF Untouched
  <2>2. ASSUME NEW m \in Nodes, phase'[m] \in {"idle", "marking"}, NEW c \in Children(m)
        PROVE  phase'[c] = "idle"
    <3>1. c \in Nodes \ {Root} /\ Parent(c) = m
        BY ParentOfChild
    <3>2. CASE m = l \/ m \in B
        BY <1>1, <1>2, <3>1, <3>2
    <3>3. CASE m # l /\ m \notin B
      <4>1. phase[c] = "idle"
          BY <1>2, <2>2, <3>3 DEF Untouched
      <4> QED
          BY <1>2, <3>1, <4>1
    <3> QED
        BY <3>2, <3>3
  <2> QED
      BY <2>1, <2>2 DEF Untouched
<1>10. Lifetimes'
    BY <1>1, <1>2, <1>4, SpawnedNodes DEF Lifetimes, Busy
<1>11. Awaited'
  <2> SUFFICES ASSUME NEW c \in Nodes \ {Root}, phase'[c] \in Busy,
                      c \in Spawned => scope'[c].life = "live"
               PROVE  phase'[Parent(c)] = "exec"
      BY DEF Awaited
  <2>1. c \notin B /\ phase[c] \in Busy
      BY <1>1, <1>2 DEF Busy
  <2>2. c \in Spawned => scope[c].life = "live"
      BY <1>4, <2>1
  <2> QED
      BY <1>2, <1>6, <2>1, <2>2 DEF Awaited
<1>12. InTurn'
  <2> SUFFICES ASSUME NEW m \in Nodes, Kind[m] \in {"then", "if", "if_rows", "loop"},
                      NEW c \in Later(m), phase'[c] # "idle"
               PROVE  /\ \A d \in Later(m) : d # c => phase'[d] = "idle"
                      /\ Kind[m] # "if_rows" =>
                            phase'[Kids[m][1]] = "done" /\ out'[Kids[m][1]] = "ok"
      BY DEF InTurn
  <2>1. /\ Later(m) \subseteq Children(m) /\ Children(m) \subseteq Nodes
        /\ \A d \in Children(m) : Parent(d) = m /\ d # Root
        /\ Kind[m] # "if_rows" => Kids[m][1] \in Children(m)
      BY ParentOfChild, KidsAreChildren, ArityAssumption DEF Later
  <2>2. c \notin B /\ phase[c] # "idle"
      BY <1>1, <1>2, <2>1
  <2>3. m \notin B /\ m # l
      BY <1>1, <2>1, <2>2
  <2>4. /\ \A d \in Later(m) : d # c => phase[d] = "idle"
        /\ Kind[m] # "if_rows" => phase[Kids[m][1]] = "done" /\ out[Kids[m][1]] = "ok"
      BY <2>2 DEF InTurn
  <2>5. \A d \in Later(m) : d # c => phase'[d] = "idle"
      BY <1>2, <1>7, <2>1, <2>3, <2>4
  <2>6. ASSUME Kind[m] # "if_rows"
        PROVE  phase'[Kids[m][1]] = "done" /\ out'[Kids[m][1]] = "ok"
    <3>1. Kids[m][1] \in Nodes /\ Kids[m][1] \notin B /\ Kids[m][1] # l
        BY <1>7, <2>1, <2>3, <2>4, <2>6
    <3> QED
        BY <1>2, <2>4, <2>6, <3>1
  <2> QED
      BY <2>5, <2>6
<1>13. AllStarted'
    BY <1>2, <1>7 DEF AllStarted
<1>14. Abandoned' /\ ChildrenAreAwaited'
  <2>1. \A s \in Spawned \ {Root} : scope'[s].life \in {"live", "doomed"} =>
           /\ scope[s].life = scope'[s].life
           /\ phase'[Parent(s)] = phase[Parent(s)]
           /\ Active(Parent(s))' <=> Active(Parent(s))
      BY <1>2, <1>4, <1>5, <1>6, SpawnedNodes
  <2> QED
      BY <2>1 DEF Abandoned, ChildrenAreAwaited
<1>15. OutTyped'
    BY <1>2 DEF OutTyped, Decided
<1>16. FaultsSurface'
  <2> SUFFICES ASSUME NEW m \in Nodes, phase'[m] \in Decided, Inspects(m),
                      NEW c \in Children(m), Fatal(c)', Kept(c)'
               PROVE  out'[m] = "fail"
      BY DEF FaultsSurface, Inspects, FailureIsolated
  <2>1. m \notin B /\ m # l /\ phase[m] \in Decided /\ out'[m] = out[m]
      BY <1>2 DEF Decided
  <2>2. c \in Nodes /\ c \notin B /\ c # l
      BY <1>2, <1>7, <2>1 DEF Fatal, Returned
  <2>3. Fatal(c) /\ Kept(c)
      BY <1>2, <1>4, <2>2 DEF Fatal, Returned, Kept
  <2> QED
      BY <2>1, <2>3 DEF FaultsSurface
<1> QED
    BY <1>8, <1>9, <1>10, <1>11, <1>12, <1>13, <1>14, <1>15, <1>16

\* The terminal write: nothing below the root of an orchestration that ends
\* still waits for a child.
LEMMA LeaveG ==
    ASSUME GInv, NEW n \in Nodes, Leave(n)
    PROVE  GInv'
<1> USE DEF GInv
<1>1. phase[n] = "ending" /\ Active(n)
    BY DEF Leave
<1>2. \A m \in Nodes : phase'[m] = IF m = n THEN "done" ELSE phase[m]
    BY DEF Leave, TypeOK
<1>3. out' = out /\ fb' = fb
    BY DEF Leave
<1>4. /\ \A s \in Spawned : s # n => scope'[s] = scope[s]
      /\ n \in Spawned => scope'[n].life = IF scope[n].life = "live" THEN "ended" ELSE "dropped"
    BY DEF Leave, TypeOK
<1>5. TypeOK'
  <2>1. scope' \in [Spawned -> [inst : Lineage, gen : Nat \ {0},
                                life : {"none", "live", "doomed", "ended", "dropped"}]]
      BY DEF Leave, TypeOK
  <2> QED
      BY <2>1 DEF TypeOK, Leave, Busy
<1>6. Untouched'
    BY <1>1, <1>2, <1>4, SpawnedNodes, ParentOfChild DEF Untouched
<1>7. Lifetimes'
    BY <1>1, <1>2, <1>4, SpawnedNodes DEF Lifetimes, Busy
<1>8. Awaited'
    BY <1>1, <1>2, <1>4, ChildOfParent DEF Awaited, Busy
<1>9. InTurn'
  <2>1. \A m \in Nodes : Kind[m] \in {"then", "if", "if_rows", "loop"} =>
           Later(m) \subseteq Nodes /\ (Kind[m] # "if_rows" => Kids[m][1] \in Nodes)
      BY ParentOfChild, KidsAreChildren, ArityAssumption DEF Later
  <2> QED
      BY <1>1, <1>2, <1>3, <2>1 DEF InTurn
<1>10. AllStarted'
    BY <1>1, <1>2, ParentOfChild DEF AllStarted
<1>11. \A m \in Nodes : Active(m)' => Active(m)
    BY <1>4, OwnerStep DEF Active
<1>12. Abandoned'
    BY <1>1, <1>2, <1>4, <1>11, SpawnedNodes, ChildOfParent DEF Abandoned
<1>13. ChildrenAreAwaited'
  <2> SUFFICES ASSUME NEW s \in Spawned \ {Root}, scope'[s].life = "live"
               PROVE  phase'[Parent(s)] = "exec" /\ Active(Parent(s))'
      BY DEF ChildrenAreAwaited
  <2>1. s # n /\ scope[s].life = "live" /\ Parent(s) \in Nodes
      BY <1>4, SpawnedNodes, ChildOfParent
  <2>2. phase[Parent(s)] = "exec" /\ Active(Parent(s))
      BY <2>1 DEF ChildrenAreAwaited
  <2>3. Owner[Parent(s)] # n
      BY <1>1, <2>1, <2>2, OwnerStep, OwnerWaits DEF Busy
  <2> QED
      BY <1>1, <1>2, <1>4, <2>1, <2>2, <2>3, OwnerStep DEF Active
<1>14. OutTyped'
    BY <1>1, <1>2, <1>3 DEF OutTyped, Decided
<1>15. FaultsSurface'
  <2> SUFFICES ASSUME NEW m \in Nodes, phase'[m] \in Decided, Inspects(m),
                      NEW c \in Children(m), Fatal(c)', Kept(c)'
               PROVE  out'[m] = "fail"
      BY DEF FaultsSurface, Inspects, FailureIsolated
  <2>1. c \in Nodes \ {Root} /\ Parent(c) = m /\ phase[m] \in Decided
      BY <1>1, <1>2, ParentOfChild DEF Decided
  <2>2. CASE c = n
    <3>1. c \in Spawned => scope[c].life = "live"
      <4> SUFFICES ASSUME c \in Spawned PROVE scope[c].life = "live"
          OBVIOUS
      <4> QED
          BY <1>4, <2>2 DEF Kept
    <3>2. phase[m] = "exec"
        BY <1>1, <2>1, <2>2, <3>1 DEF Awaited, Busy
    <3> QED
        BY <2>1, <3>2 DEF Decided
  <2>3. CASE c # n
    <3>1. Fatal(c) /\ Kept(c)
        BY <1>2, <1>3, <1>4, <2>1, <2>3 DEF Fatal, Returned, Kept
    <3> QED
        BY <1>3, <2>1, <3>1 DEF FaultsSurface
  <2> QED
      BY <2>2, <2>3
<1> QED
    BY <1>5, <1>6, <1>7, <1>8, <1>9, <1>10, <1>12, <1>13, <1>14, <1>15

\* One loop more is stamped.
LEMMA StampG ==
    ASSUME GInv, NEW n \in Nodes, StampLoop(n)
    PROVE  GInv'
<1> USE DEF GInv
<1>1. phase[n] = "stamping" /\ out' = out /\ scope' = scope
    BY DEF StampLoop
<1>2. \A m \in Nodes : phase'[m] = phase[m] \/ (m = n /\ phase'[m] = "ending")
    BY <1>1 DEF StampLoop, TypeOK
<1>3. TypeOK'
    BY DEF StampLoop, TypeOK, Busy
<1>4. Untouched' /\ Lifetimes'
    BY <1>1, <1>2, SpawnedNodes, ParentOfChild DEF Untouched, Lifetimes, Busy
<1>5. Awaited' /\ AllStarted'
    BY <1>1, <1>2, ChildOfParent, ParentOfChild DEF Awaited, AllStarted, Busy
<1>6. InTurn'
  <2>1. \A m \in Nodes : Kind[m] \in {"then", "if", "if_rows", "loop"} =>
           Later(m) \subseteq Nodes /\ (Kind[m] # "if_rows" => Kids[m][1] \in Nodes)
      BY ParentOfChild, KidsAreChildren, ArityAssumption DEF Later
  <2> QED
      BY <1>1, <1>2, <2>1 DEF InTurn
<1>7. Abandoned' /\ ChildrenAreAwaited'
    BY <1>1, <1>2, SpawnedNodes, ChildOfParent DEF Abandoned, ChildrenAreAwaited, Active
<1>8. OutTyped'
    BY <1>1, <1>2 DEF OutTyped, Decided
<1>9. FaultsSurface'
  <2> SUFFICES ASSUME NEW m \in Nodes, phase'[m] \in Decided, Inspects(m),
                      NEW c \in Children(m), Fatal(c)', Kept(c)'
               PROVE  out'[m] = "fail"
      BY DEF FaultsSurface, Inspects, FailureIsolated
  <2>1. Fatal(c) /\ Kept(c)
      BY <1>1, <1>2, ParentOfChild DEF Fatal, Returned, Kept
  <2> QED
      BY <1>1, <1>2, <2>1 DEF FaultsSurface, Decided
<1> QED
    BY <1>3, <1>4, <1>5, <1>6, <1>7, <1>8, <1>9

\* The engine ends a cancelled orchestration and dooms its children; df.cancel()
\* dooms the root.
LEMMA CancelG ==
    ASSUME GInv, CancelInstance \/ \E s \in Spawned : Reap(s)
    PROVE  GInv'
<1> USE DEF GInv
<1>1. phase' = phase /\ out' = out /\ fb' = fb
    BY DEF CancelInstance, Reap
<1>2. InTurn' /\ AllStarted' /\ OutTyped'
    BY <1>1 DEF InTurn, AllStarted, OutTyped
<1>0. ASSUME \A s \in Spawned : scope[s].life \in {"doomed", "dropped"} =>
                                   scope'[s].life \in {"doomed", "dropped"}
      PROVE  FaultsSurface'
    BY <1>0, <1>1 DEF FaultsSurface, Fatal, Returned, Kept, Inspects, FailureIsolated
<1>3. CASE CancelInstance
  <2>1. /\ \A s \in Spawned \ {Root} : scope'[s] = scope[s]
        /\ scope'[Root].life = "doomed" /\ scope[Root].life = "live"
      BY <1>3, SpawnedNodes DEF CancelInstance, TypeOK
  <2>2. TypeOK'
    <3>1. scope' \in [Spawned -> [inst : Lineage, gen : Nat \ {0},
                                  life : {"none", "live", "doomed", "ended", "dropped"}]]
        BY <1>3, SpawnedNodes DEF CancelInstance, TypeOK
    <3> QED
        BY <1>1, <3>1 DEF TypeOK
  <2>3. \A m \in Nodes : Active(m)' <=> Active(m)
      BY <2>1, OwnerStep DEF Active
  <2>4. Untouched' /\ Lifetimes' /\ Awaited'
      BY <1>1, <2>1, SpawnedNodes DEF Untouched, Lifetimes, Awaited
  <2>5. Abandoned' /\ ChildrenAreAwaited'
      BY <1>1, <2>1, <2>3, ChildOfParent, SpawnedNodes DEF Abandoned, ChildrenAreAwaited
  <2>6. FaultsSurface'
      BY <1>0, <2>1
  <2> QED
      BY <1>2, <2>2, <2>4, <2>5, <2>6
<1>4. ASSUME NEW s \in Spawned, Reap(s) PROVE GInv'
  <2>1. \A t \in Spawned :
          scope'[t] = IF t = s THEN [scope[t] EXCEPT !.life = "dropped"]
                      ELSE IF t # Root /\ Owner[Parent(t)] = s /\ scope[t].life = "live"
                      THEN [scope[t] EXCEPT !.life = "doomed"] ELSE scope[t]
      BY <1>4 DEF Reap
  <2>2. \A t \in Spawned : scope[t] \in [inst : Lineage, gen : Nat \ {0},
                              life : {"none", "live", "doomed", "ended", "dropped"}]
      BY DEF TypeOK
  <2>3. /\ scope[s].life = "doomed" /\ scope'[s].life = "dropped"
        /\ \A t \in Spawned : t # s => \/ scope'[t].life = scope[t].life
                                       \/ /\ t # Root /\ Owner[Parent(t)] = s
                                          /\ scope[t].life = "live" /\ scope'[t].life = "doomed"
      BY <1>4, <2>1, <2>2 DEF Reap
  <2>4. TypeOK'
    <3>1. scope' \in [Spawned -> [inst : Lineage, gen : Nat \ {0},
                                  life : {"none", "live", "doomed", "ended", "dropped"}]]
        BY <1>4, <2>2 DEF Reap, TypeOK
    <3> QED
        BY <1>1, <3>1 DEF TypeOK
  <2>5. Untouched'
      BY <1>1, <2>3 DEF Untouched
  <2>6. Lifetimes'
      BY <1>1, <2>3 DEF Lifetimes, Busy
  <2>7. Awaited'
      BY <1>1, <2>3 DEF Awaited
  <2>8. \A m \in Nodes : Active(m)' <=> Active(m) /\ Owner[m] # s
      BY <2>3, OwnerStep DEF Active
  <2>9. Abandoned'
      BY <1>1, <2>3, <2>8, ChildOfParent, SpawnedNodes DEF Abandoned
  <2>10. ChildrenAreAwaited'
    <3> SUFFICES ASSUME NEW t \in Spawned \ {Root}, scope'[t].life = "live"
                 PROVE  phase'[Parent(t)] = "exec" /\ Active(Parent(t))'
        BY DEF ChildrenAreAwaited
    <3>1. t # s /\ scope[t].life = "live" /\ Parent(t) \in Nodes
        BY <2>3, ChildOfParent, SpawnedNodes
    <3>2. Owner[Parent(t)] # s
        BY <2>1, <2>2, <3>1
    <3> QED
        BY <1>1, <2>8, <3>1, <3>2 DEF ChildrenAreAwaited
  <2>11. FaultsSurface'
      BY <1>0, <2>3
  <2> QED
      BY <1>2, <2>4, <2>5, <2>6, <2>7, <2>9, <2>10, <2>11
<1> QED
    BY <1>3, <1>4

-----------------------------------------------------------------------------
(* The handlers. *)

\* A set of numbers has a least one.
LEMMA LeastOf ==
    ASSUME NEW T \in SUBSET Nat, T # {}
    PROVE  \E x \in T : \A y \in T : x <= y
<1> DEFINE R == OpToRel(<, Nat)
<1>1. IsWellFoundedOn(R, Nat)
    BY NatLessThanWellFounded
<1>2. \A x, y \in Nat : x < y => <<x, y>> \in R
    BY DEF OpToRel
<1>3. \E x \in T : \A y \in T : ~(<<y, x>> \in R)
  <2> HIDE DEF R
  <2> QED
      BY <1>1, WFMin
<1>4. \E x \in T : \A y \in T : ~(y < x)
  <2>1. \A x, y \in T : <<y, x>> \notin R => ~(y < x)
      BY <1>2
  <2> HIDE DEF R
  <2> QED
      BY <1>3, <2>1
<1>5. \A x, y \in T : ~(y < x) => x <= y
    OBVIOUS
<1> QED
    BY <1>4, <1>5

\* The children of the kinds that have two or three.
LEMMA ChildrenByKind ==
    ASSUME NEW n \in Nodes
    PROVE  /\ Kind[n] \in {"leaf", "signal", "break"} => Children(n) = {}
           /\ Kind[n] \in {"then", "race", "if_rows"} =>
                 Children(n) = {Kids[n][1], Kids[n][2]} /\ Kids[n][1] # Kids[n][2]
           /\ Kind[n] = "if" =>
                 /\ Children(n) = {Kids[n][1], Kids[n][2], Kids[n][3]}
                 /\ Kids[n][1] \notin {Kids[n][2], Kids[n][3]} /\ Kids[n][2] # Kids[n][3]
           /\ Kind[n] = "loop" /\ HasCondition(n) =>
                 Children(n) = {Body(n), Kids[n][2]} /\ Body(n) # Kids[n][2]
           /\ Kind[n] = "loop" /\ ~HasCondition(n) => Children(n) = {Body(n)}
<1>1. /\ \A i \in 1 .. Len(Kids[n]) : Kids[n][i] \in Children(n)
      /\ \A i, j \in 1 .. Len(Kids[n]) : Kids[n][i] = Kids[n][j] => i = j
      /\ \A c \in Children(n) : \E i \in 1 .. Len(Kids[n]) : c = Kids[n][i]
    BY KidsAreChildren
<1>2. CASE Kind[n] \in {"leaf", "signal", "break"}
    BY <1>1, <1>2, ArityAssumption
<1>3. CASE Kind[n] \in {"then", "race", "if_rows"}
  <2>1. Len(Kids[n]) = 2
      BY <1>3, ArityAssumption
  <2> QED
      BY <1>1, <1>3, <2>1
<1>4. CASE Kind[n] = "if"
  <2>1. Len(Kids[n]) = 3
      BY <1>4, ArityAssumption
  <2> QED
      BY <1>1, <1>4, <2>1
<1>5. CASE Kind[n] = "loop"
  <2>1. Len(Kids[n]) = 1 \/ Len(Kids[n]) = 2
      BY <1>5, ArityAssumption
  <2> QED
      BY <1>1, <1>5, <2>1 DEF Body, HasCondition
<1> QED
    BY <1>2, <1>3, <1>4, <1>5

\* The branch a JOIN reports is one of its branches that failed, and a fatal
\* one when it is failure-isolated and there is a fatal one.
LEMMA JoinReports ==
    ASSUME NEW n \in Nodes, \A c \in Children(n) : out[c] \in Outcomes
    PROVE  /\ SelectedError(n) \subseteq Children(n)
           /\ FailureIsolated(n) /\ (\E c \in Children(n) : out[c] = "fail") =>
                 SelectedError(n) # {} /\ \A c \in SelectedError(n) : out[c] = "fail"
<1> DEFINE errors == {i \in DOMAIN Kids[n] : out[Kids[n][i]] # "ok"}
           Outranks(i, j) == ErrorPriority(out[Kids[n][i]]) > ErrorPriority(out[Kids[n][j]])
           best == IF FailureIsolated(n)
                   THEN {i \in errors : \A j \in errors : ~Outranks(j, i)} ELSE errors
<1>1. SelectedError(n) = {Kids[n][i] : i \in {i \in best : \A j \in best : i <= j}}
    BY DEF SelectedError
<1>2. /\ DOMAIN Kids[n] = 1 .. Len(Kids[n]) /\ Len(Kids[n]) \in Nat
      /\ \A i \in DOMAIN Kids[n] : Kids[n][i] \in Children(n)
      /\ \A c \in Children(n) : \E i \in DOMAIN Kids[n] : c = Kids[n][i]
    BY GraphAssumption, KidsAreChildren
<1>3. best \subseteq DOMAIN Kids[n] /\ best \subseteq Nat
    BY <1>2
<1>4. SelectedError(n) \subseteq Children(n)
  <2> HIDE DEF best
  <2> QED
      BY <1>1, <1>2, <1>3
<1>5. ASSUME FailureIsolated(n), NEW c \in Children(n), out[c] = "fail"
      PROVE  SelectedError(n) # {} /\ \A d \in SelectedError(n) : out[d] = "fail"
  <2>1. PICK i \in DOMAIN Kids[n] : c = Kids[n][i]
      BY <1>2
  <2>2. ErrorPriority(out[Kids[n][i]]) = 2 /\ i \in errors
      BY <1>5, <2>1 DEF ErrorPriority
  <2>3. best = {k \in errors : \A j \in errors : ~Outranks(j, k)}
      BY <1>5
  <2>4. i \in best /\ \A j \in best : out[Kids[n][j]] = "fail"
    <3> DEFINE priority(k) == ErrorPriority(out[Kids[n][k]])
    <3>1. ASSUME NEW k \in errors
          PROVE  priority(k) \in {0, 1, 2} /\ (priority(k) = 2 => out[Kids[n][k]] = "fail")
      <4>1. out[Kids[n][k]] \in {"break", "app", "fail"}
          BY <1>2 DEF Outcomes
      <4> QED
          BY <4>1 DEF ErrorPriority
    <3>2. priority(i) = 2 /\ i \in errors
        BY <2>2
    <3>3. \A k \in errors : k \in best <=> \A j \in errors : ~(priority(j) > priority(k))
        BY <2>3
    <3>4. best \subseteq errors
        BY <2>3
    <3> HIDE DEF priority, best, errors
    <3> QED
        BY <3>1, <3>2, <3>3, <3>4
  <2> HIDE DEF best
  <2>5. \E j \in best : \A k \in best : j <= k
      BY <1>3, <2>4, LeastOf
  <2> QED
      BY <1>1, <2>4, <2>5
<1> QED
    BY <1>4, <1>5

\* Entering a node.
LEMMA EnterG ==
    ASSUME GInv, NEW n \in Nodes, Enter(n) \/ EnterAndReturn(n) \/ EnterIfRows(n)
    PROVE  GInv'
<1>1. phase[n] = "marking" /\ Active(n)
    BY DEF Enter, EnterAndReturn, EnterIfRows, MarkRunning
<1>2. \A c \in Children(n) : phase[c] = "idle" /\ ~Fatal(c)
    BY <1>1 DEF GInv, Untouched, Fatal, Returned
<1>3. ASSUME NEW kids \in SUBSET Children(n), StartKids(n, kids), UNCHANGED <<out, fb>>,
             Kind[n] \in {"join", "race"} => kids = Children(n),
             Kind[n] \in {"then", "if", "if_rows", "loop"} =>
                 (Kind[n] = "if_rows" /\ \E c \in kids : kids = {c}) \/ kids = {Kids[n][1]}
      PROVE  GInv'
  <2>1. ASSUME Kind[n] \in {"then", "if", "if_rows", "loop"}, NEW c \in kids \cap Later(n)
        PROVE  /\ kids = {c} /\ \A d \in Later(n) : phase[d] = "idle"
               /\ Kind[n] # "if_rows" => phase[Kids[n][1]] = "done" /\ out[Kids[n][1]] = "ok"
      BY <1>2, <1>3, <2>1 DEF Later
  <2> QED
      BY <1>1, <1>2, <1>3, <2>1, StartG
<1>4. ASSUME NEW result \in Outcomes, Decide(n, result, <<>>), UNCHANGED scope
      PROVE  GInv'
    BY <1>1, <1>2, <1>4, DecideG
<1>5. CASE Enter(n)
  <2>1. Kind[n] \in {"then", "if", "loop"} => Kids[n][1] \in Children(n)
      BY KidsAreChildren, ArityAssumption
  <2>2. CASE Kind[n] \in {"join", "race"} /\ StartKids(n, Children(n))
      BY <1>3, <1>5, <2>2 DEF Enter
  <2>3. CASE Kind[n] \in {"then", "if", "loop"} /\ StartKids(n, {Kids[n][1]})
      BY <1>3, <1>5, <2>1, <2>3 DEF Enter
  <2>4. CASE Kind[n] \in {"leaf", "signal"} /\ StartKids(n, {})
      BY <1>3, <1>5, <2>4 DEF Enter
  <2> QED
      BY <1>5, <2>2, <2>3, <2>4 DEF Enter
<1>6. CASE EnterAndReturn(n)
    BY <1>4, <1>6 DEF EnterAndReturn, Outcomes
<1>7. CASE EnterIfRows(n)
  <2>1. ASSUME NEW arm \in Children(n), StartKids(n, {arm}), UNCHANGED <<out, fb>>
        PROVE  GInv'
      BY <1>3, <1>7, <2>1 DEF EnterIfRows
  <2> QED
      BY <1>4, <1>7, <2>1 DEF EnterIfRows, Outcomes
<1> QED
    BY <1>5, <1>6, <1>7

\* A handler returns what a child returned, when no other child is busy or failed.
LEMMA PropagateG ==
    ASSUME GInv, NEW n \in Nodes, phase[n] = "exec", Kind[n] # "loop",
           NEW c \in Children(n), Returned(c), Propagate(n, c),
           \A d \in Children(n) : d = c \/ phase[d] = "idle" \/ (phase[d] = "done" /\ out[d] = "ok")
    PROVE  GInv'
<1>1. out[c] \in Outcomes
    BY ParentOfChild DEF GInv, OutTyped, Returned, Decided
<1>2. \A d \in Children(n) : Fatal(d) => out[c] = "fail"
    BY ParentOfChild DEF Fatal, Returned
<1>3. \A d \in Children(n) : phase[d] \in {"idle", "done"}
    BY DEF Returned
<1>4. Decide(n, out[c], FailedLoop(c)) /\ UNCHANGED scope
    BY DEF Propagate
<1> QED
    BY <1>1, <1>2, <1>3, <1>4, DecideG

\* Leaves, THEN and the conditionals.
LEMMA SequentialG ==
    ASSUME GInv, NEW n \in Nodes,
           LeafReturns(n) \/ ThenStep(n) \/ IfStep(n) \/ IfRowsStep(n)
    PROVE  GInv'
<1>1. phase[n] = "exec" /\ Active(n)
    BY DEF LeafReturns, ThenStep, IfStep, IfRowsStep, Waiting
<1>2. Kind[n] \in {"then", "if", "if_rows"} =>
         \A c \in Later(n) : phase[c] # "idle" =>
            /\ \A d \in Later(n) : d # c => phase[d] = "idle"
            /\ Kind[n] # "if_rows" => phase[Kids[n][1]] = "done" /\ out[Kids[n][1]] = "ok"
    BY DEF GInv, InTurn
<1>3. CASE LeafReturns(n)
  <2>1. Kind[n] = "leaf" /\ Children(n) = {} /\ LeafOutcomes[n] \subseteq Outcomes
      BY <1>3, ChildrenByKind, GraphAssumption DEF LeafReturns, Waiting
  <2>2. PICK result \in LeafOutcomes[n] \ {"fail"} : Decide(n, result, <<>>)
      BY <1>3 DEF LeafReturns
  <2>3. UNCHANGED scope
      BY <1>3 DEF LeafReturns
  <2> QED
      BY <1>1, <2>1, <2>2, <2>3, DecideG
<1>4. CASE ThenStep(n)
  <2> DEFINE left == Kids[n][1]
             right == Kids[n][2]
  <2>1. /\ Kind[n] = "then" /\ Children(n) = {left, right} /\ left # right
        /\ Later(n) = {right}
      BY <1>4, ChildrenByKind DEF ThenStep, Waiting, Later
  <2>2. phase[right] # "idle" => phase[left] = "done" /\ out[left] = "ok"
      BY <1>2, <2>1
  <2>3. CASE /\ Returned(left) /\ out[left] = "ok" /\ phase[right] = "idle"
             /\ StartKids(n, {right}) /\ UNCHANGED <<out, fb>>
      BY <1>1, <2>1, <2>3, StartG DEF Returned
  <2>4. CASE Returned(left) /\ out[left] # "ok" /\ Propagate(n, left)
      BY <1>1, <2>1, <2>2, <2>4, PropagateG
  <2>5. CASE Returned(right) /\ Propagate(n, right)
    <3>1. phase[right] # "idle"
        BY <2>5 DEF Returned
    <3> QED
        BY <1>1, <2>1, <2>2, <2>5, <3>1, PropagateG
  <2> QED
      BY <1>4, <2>3, <2>4, <2>5 DEF ThenStep
<1>5. CASE IfStep(n)
  <2> DEFINE cond == Kids[n][1]
             arms == {Kids[n][2], Kids[n][3]}
  <2>1. /\ Kind[n] = "if" /\ Children(n) = {cond} \cup arms /\ cond \notin arms
        /\ Later(n) = arms
      BY <1>5, ChildrenByKind DEF IfStep, Waiting, Later
  <2>2. \A c \in arms : phase[c] # "idle" =>
            /\ \A d \in arms : d # c => phase[d] = "idle"
            /\ phase[cond] = "done" /\ out[cond] = "ok"
      BY <1>2, <2>1
  <2> HIDE DEF cond, arms
  <2>3. ASSUME Returned(cond), out[cond] = "ok", \A arm \in arms : phase[arm] = "idle",
               NEW arm \in arms, StartKids(n, {arm}), UNCHANGED <<out, fb>>
        PROVE  GInv'
    <3>1. phase[Kids[n][1]] = "done" /\ out[Kids[n][1]] = "ok"
        BY <2>3 DEF Returned, cond
    <3> QED
        BY <1>1, <2>1, <2>3, <3>1, StartG
  <2>4. ASSUME Returned(cond), out[cond] = "ok", \A arm \in arms : phase[arm] = "idle",
               Decide(n, "fail", <<>>), UNCHANGED scope
        PROVE  GInv'
      BY <1>1, <2>1, <2>4, DecideG DEF Returned, Outcomes
  <2>5. CASE Returned(cond) /\ out[cond] # "ok" /\ Propagate(n, cond)
      BY <1>1, <2>1, <2>2, <2>5, PropagateG
  <2>6. ASSUME NEW arm \in arms, Returned(arm), Propagate(n, arm)
        PROVE  GInv'
    <3>1. phase[arm] # "idle"
        BY <2>6 DEF Returned
    <3> QED
        BY <1>1, <2>1, <2>2, <2>6, <3>1, PropagateG
  <2> QED
      BY <1>5, <2>3, <2>4, <2>5, <2>6 DEF IfStep, cond, arms
<1>6. CASE IfRowsStep(n)
  <2>1. Kind[n] = "if_rows" /\ Later(n) = Children(n)
      BY <1>6 DEF IfRowsStep, Waiting, Later
  <2>2. PICK arm \in Children(n) : Returned(arm) /\ Propagate(n, arm)
      BY <1>6 DEF IfRowsStep
  <2>3. phase[arm] # "idle"
      BY <2>2 DEF Returned
  <2> QED
      BY <1>1, <1>2, <2>1, <2>2, <2>3, PropagateG
<1> QED
    BY <1>3, <1>4, <1>5, <1>6

\* JOIN waits for all of its branches.
LEMMA JoinG ==
    ASSUME GInv, NEW n \in Nodes, JoinStep(n)
    PROVE  GInv'
<1>1. /\ phase[n] = "exec" /\ Kind[n] = "join"
      /\ \A c \in Children(n) : phase[c] = "done" /\ c \in Nodes /\ Parent(c) = n
    BY ParentOfChild DEF JoinStep, Waiting, Returned
<1>2. \A c \in Children(n) : out[c] \in Outcomes /\ (Fatal(c) => out[c] = "fail")
    BY <1>1 DEF GInv, OutTyped, Decided, Fatal
<1>3. /\ SelectedError(n) \subseteq Children(n)
      /\ Inspects(n) /\ (\E c \in Children(n) : Fatal(c)) =>
            SelectedError(n) # {} /\ \A c \in SelectedError(n) : out[c] = "fail"
    BY <1>1, <1>2, JoinReports DEF Inspects
<1>4. CASE SelectedError(n) = {} /\ Decide(n, "ok", <<>>) /\ UNCHANGED scope
    BY <1>1, <1>3, <1>4, DecideG DEF Outcomes
<1>5. ASSUME NEW c \in SelectedError(n), Propagate(n, c) PROVE GInv'
  <2>1. Decide(n, out[c], FailedLoop(c)) /\ UNCHANGED scope
      BY <1>5 DEF Propagate
  <2> QED
      BY <1>1, <1>2, <1>3, <1>5, <2>1, DecideG
<1> QED
    BY <1>4, <1>5 DEF JoinStep

\* A node that waits for a signal is answered.
LEMMA AnswerG ==
    ASSUME GInv, NEW n \in Nodes, Waiting(n, "signal"), Decide(n, "ok", <<>>), UNCHANGED scope
    PROVE  GInv'
<1>1. phase[n] = "exec" /\ Children(n) = {}
    BY ChildrenByKind DEF Waiting
<1> QED
    BY <1>1, DecideG DEF Outcomes

\* The body of a loop, or its condition, returned.
LEMMA LoopG ==
    ASSUME GInv, NEW l \in Nodes, LoopBodyReturns(l) \/ LoopConditionReturns(l)
    PROVE  GInv'
<1>1. phase[l] = "exec" /\ Kind[l] = "loop" /\ Active(l)
    BY DEF LoopBodyReturns, LoopConditionReturns, Waiting
<1>2. Body(l) \in Children(l) /\ (HasCondition(l) => Kids[l][2] \in Children(l) /\ Kids[l][2] # Body(l))
    BY <1>1, ChildrenByKind
<1>3. \A c \in Children(l) : c \in Nodes \ {Root} /\ Parent(c) = l
    BY ParentOfChild
<1>4. ASSUME NextIteration(l), \A c \in Children(l) : phase[c] \in {"idle", "done"}
      PROVE  GInv'
  <2>1. CASE ContinueAsNew(l)
      BY <1>1, <2>1, ContinueG
  <2>2. CASE Decide(l, "fail", <<>>) /\ UNCHANGED scope
      BY <1>1, <1>4, <2>2, DecideG DEF Outcomes
  <2> QED
      BY <1>4, <2>1, <2>2 DEF NextIteration
<1>5. CASE LoopBodyReturns(l)
  <2>1. phase[Body(l)] = "done" /\ out[Body(l)] \in Outcomes
      BY <1>2, <1>3, <1>5 DEF LoopBodyReturns, Returned, GInv, OutTyped, Decided
  <2>2. \A c \in Children(l) : c # Body(l) => phase[c] = "idle" /\ HasCondition(l) /\ c = Kids[l][2]
      BY <1>1, <1>2, <1>5, ChildrenByKind DEF LoopBodyReturns
  <2>3. \A c \in Children(l) : phase[c] \in {"idle", "done"} /\ (Fatal(c) => out[Body(l)] = "fail")
      BY <1>3, <2>1, <2>2 DEF Fatal, Returned
  <2>4. CASE out[Body(l)] = "break" /\ Decide(l, "ok", <<>>) /\ UNCHANGED <<scope, late>>
      BY <1>1, <2>3, <2>4, DecideG DEF Outcomes
  <2>5. CASE /\ out[Body(l)] = "ok" /\ HasCondition(l)
             /\ StartKids(l, {Kids[l][2]}) /\ UNCHANGED <<out, fb, late>>
    <3>1. Later(l) = {Kids[l][2]}
        BY <1>1, <1>2, <2>5, ChildrenByKind DEF Later, Body
    <3>2. phase[Kids[l][1]] = "done" /\ out[Kids[l][1]] = "ok"
        BY <2>1, <2>5 DEF Body
    <3>3. phase[Kids[l][2]] = "idle"
        BY <1>2, <2>2, <2>5
    <3> QED
        BY <1>1, <1>2, <2>5, <3>1, <3>2, <3>3, StartG
  <2>6. CASE NextIteration(l)
      BY <1>4, <2>3, <2>6
  <2>7. CASE /\ out[Body(l)] = "fail" \/ (out[Body(l)] = "app" /\ l \notin Isolating)
             /\ Decide(l, out[Body(l)], IF l \in Isolating THEN <<>> ELSE FailedLoop(Body(l)))
             /\ UNCHANGED <<scope, late>>
      BY <1>1, <2>1, <2>3, <2>7, DecideG
  <2> QED
      BY <1>5, <2>4, <2>5, <2>6, <2>7 DEF LoopBodyReturns
<1>6. CASE LoopConditionReturns(l)
  <2> DEFINE cond == Kids[l][2]
  <2>1. phase[cond] = "done" /\ HasCondition(l)
      BY <1>6 DEF LoopConditionReturns, Returned
  <2>2. Children(l) = {Body(l), cond} /\ cond # Body(l) /\ cond \in Later(l)
      BY <1>1, <2>1, ChildrenByKind DEF Later, Body
  <2>3. phase[Body(l)] = "done" /\ out[Body(l)] = "ok"
      BY <1>1, <2>1, <2>2 DEF GInv, InTurn, Body
  <2>4. \A c \in Children(l) : phase[c] \in {"idle", "done"}
      BY <2>1, <2>2, <2>3
  <2>5. \A c \in Children(l) : Fatal(c) => out[cond] \in {"app", "fail"}
      BY <2>1, <2>2, <2>3 DEF Fatal
  <2>6. CASE NextIteration(l)
      BY <1>4, <2>4, <2>6
  <2>7. CASE /\ out[cond] \in {"ok", "break"}
             /\ Decide(l, "ok", <<>>) /\ UNCHANGED <<scope, late>>
    <3>1. \A c \in Children(l) : ~Fatal(c)
        BY <2>7, <2>5
    <3> QED
        BY <1>1, <2>4, <2>7, <3>1, DecideG DEF Outcomes
  <2>8. CASE /\ out[cond] \in {"app", "fail"}
             /\ Decide(l, "fail", FailedLoop(cond)) /\ UNCHANGED <<scope, late>>
      BY <1>1, <2>4, <2>8, DecideG DEF Outcomes
  <2> QED
      BY <1>6, <2>6, <2>7, <2>8 DEF LoopConditionReturns
<1> QED
    BY <1>5, <1>6

-----------------------------------------------------------------------------
(* Structured concurrency. *)

\* Calls of df.signal() do what an answered or a timed-out wait does, or nothing
\* to the graph.
LEMMA SignalDoes ==
    ASSUME \/ \E ok \in BOOLEAN : RaiseRoot(ok)
           \/ \E missed \in {{}, Descendants} \cup {{s} : s \in Descendants} :
                 list_running_descendants(missed)
           \/ \E i \in targets, ok \in BOOLEAN : RaiseDescendant(i, ok)
           \/ SignalReturns
           \/ \E n \in Nodes : TimesOut(n)
    PROVE  \/ UNCHANGED vars
           \/ \E n \in Nodes : /\ Waiting(n, "signal") /\ Decide(n, "ok", <<>>)
                             /\ UNCHANGED <<scope, rows, late>>
<1>1. ASSUME NEW i, Deliver(i)
      PROVE  \/ UNCHANGED vars
             \/ \E n \in Nodes : /\ Waiting(n, "signal") /\ Decide(n, "ok", <<>>)
                             /\ UNCHANGED <<scope, rows, late>>
    BY <1>1 DEF Deliver, Waits
<1>2. ASSUME NEW ok \in BOOLEAN, RaiseRoot(ok)
      PROVE  UNCHANGED vars \/ Deliver(Instance(Root))
    BY <1>2 DEF RaiseRoot
<1>3. ASSUME NEW i \in targets, NEW ok \in BOOLEAN, RaiseDescendant(i, ok)
      PROVE  UNCHANGED vars \/ Deliver(i)
    BY <1>3 DEF RaiseDescendant
<1> QED
    BY <1>1, <1>2, <1>3 DEF list_running_descendants, SignalReturns, TimesOut

\* Every step keeps the invariant.
LEMMA StepG == GInv /\ [SignalNext]_<<vars, sigvars>> => GInv'
<1> SUFFICES ASSUME GInv, [SignalNext]_<<vars, sigvars>> PROVE GInv'
    OBVIOUS
<1>1. CASE UNCHANGED <<phase, out, fb, scope>>
    BY <1>1 DEF GInv, TypeOK, Untouched, Lifetimes, Awaited, InTurn, AllStarted, Abandoned,
               ChildrenAreAwaited, OutTyped, FaultsSurface, Inspects, FailureIsolated, Active,
               Kept, Fatal, Returned
<1>2. ASSUME NEW n \in Nodes, NodeStep(n) PROVE GInv'
    BY <1>2, EnterG, SequentialG, JoinG, RaceG, LoopG, StampG, LeaveG DEF NodeStep
<1>3. CASE Next
    BY <1>1, <1>2, <1>3, CancelG DEF Next, LateWrite, Settled, vars
<1>4. CASE UNCHANGED <<vars, sigvars>>
    BY <1>1, <1>4 DEF vars
<1>5. CASE SignalNext /\ ~Next
    BY <1>1, <1>5, SignalDoes, AnswerG DEF SignalNext, vars
<1> QED
    BY <1>3, <1>4, <1>5 DEF SignalNext

\* The invariant holds throughout.
THEOREM Invariance == SignalSpec => []GInv
<1>1. SignalInit => GInv
    BY InitG DEF SignalInit
<1> QED
    BY <1>1, StepG, PTL DEF SignalSpec

\* Structured concurrency: whatever branches race, fail, restart or are
\* cancelled, no child orchestration that nobody cancelled outlives the handler
\* that awaits it.
THEOREM StructuredConcurrency == SignalSpec => []ChildrenAreAwaited
<1>1. GInv => ChildrenAreAwaited
    BY DEF GInv
<1> QED
    BY <1>1, Invariance, PTL

-----------------------------------------------------------------------------
(* Failures that no loop may consume. *)

\* What is busy below a waiting node, in a branch nobody cancelled, keeps a
\* child of that node busy.
LEMMA BusyChild ==
    ASSUME GInv, NEW l \in Nodes, NEW n \in Below(l), phase[n] \in Busy, Honoured(n)
    PROVE  \E c \in Children(l) : phase[c] \in Busy
<1> DEFINE S == {m \in Below(l) : phase[m] \in Busy /\ Honoured(m)}
<1>1. PICK m \in S : m = Root \/ Parent(m) \notin S
  <2>1. S \in SUBSET Nodes /\ S # {}
      BY DEF Below
  <2> HIDE DEF S
  <2> QED
      BY <2>1, TreeAssumption
<1>2. /\ m \in Nodes \ {Root} /\ m \in Children(Parent(m)) /\ Parent(m) \in Nodes
      /\ Parent(m) = l \/ Parent(m) \in Below(l)
      /\ Upward[m] = {m} \cup Upward[Parent(m)]
    BY BelowStep, ChildOfParent, UpwardStep
<1>3. m \in Spawned => scope[m].life = "live"
  <2> SUFFICES ASSUME m \in Spawned PROVE scope[m].life = "live"
      OBVIOUS
  <2>1. scope[m].life \notin {"doomed", "dropped"}
      BY <1>2 DEF Honoured
  <2>2. scope[m].life \notin {"none", "ended"}
      BY DEF GInv, Untouched, Lifetimes, Busy
  <2> QED
      BY <2>1, <2>2 DEF GInv, TypeOK
<1>4. phase[Parent(m)] = "exec"
    BY <1>2, <1>3 DEF GInv, Awaited
<1>5. Honoured(Parent(m))
    BY <1>2 DEF Honoured
<1> QED
    BY <1>1, <1>2, <1>4, <1>5 DEF Busy

\* When a continue_on_failure loop may iterate, nothing that counts is fatal.
LEMMA NothingFatal ==
    ASSUME GInv, NEW l \in Isolating,
           Returned(Body(l)), out[Body(l)] # "fail",
           HasCondition(l) => \/ phase[Kids[l][2]] = "idle"
                              \/ Returned(Kids[l][2]) /\ out[Kids[l][2]] = "ok",
           NEW n \in Below(l), CountsFor(l, n), Fatal(n), Honoured(n)
    PROVE  FALSE
<1> DEFINE S == {m \in Below(l) : CountsFor(l, m) /\ Fatal(m) /\ Honoured(m)}
<1>0. l \in Nodes /\ Kind[l] = "loop"
    BY GraphAssumption
<1>1. PICK m \in S : m = Root \/ Parent(m) \notin S
  <2>1. S \in SUBSET Nodes /\ S # {}
      BY DEF Below
  <2> HIDE DEF S
  <2> QED
      BY <2>1, TreeAssumption
<1>2. /\ m \in Nodes \ {Root} /\ m \in Children(Parent(m)) /\ Parent(m) \in Nodes
      /\ Parent(m) = l \/ Parent(m) \in Below(l)
      /\ Upward[m] = {m} \cup Upward[Parent(m)]
      /\ Parent(m) # l => l \in Upward[Parent(m)]
    BY <1>0, BelowStep, ChildOfParent, UpwardStep
<1>3. \A c \in Children(l) :
         \/ c = Body(l) /\ phase[c] = "done" /\ out[c] # "fail"
         \/ c # Body(l) /\ (phase[c] = "idle" \/ (phase[c] = "done" /\ out[c] = "ok"))
    BY <1>0, ChildrenByKind DEF Returned
<1>4. Parent(m) # l
    BY <1>2, <1>3 DEF Fatal, Returned
<1>5. CountsFor(l, Parent(m)) /\ FailureIsolated(Parent(m))
  <2>1. m # Body(l)
      BY <1>0, <1>4, ChildrenByKind, ParentOfChild
  <2>2. CASE Body(l) \in Upward[m]
      BY <1>2, <2>1, <2>2 DEF CountsFor, FailureIsolated
  <2>3. CASE FailureIsolated(l)
    <3>1. Upward[l] \subseteq Upward[Parent(m)]
        BY <1>2, <1>4, UpwardClosed
    <3> QED
        BY <2>3, <3>1 DEF CountsFor, FailureIsolated
  <2> QED
      BY <1>4, <2>2, <2>3 DEF CountsFor
<1>6. Honoured(Parent(m)) /\ Kept(m)
    BY <1>2 DEF Honoured, Kept
<1>7. ~Fatal(Parent(m))
    BY <1>1, <1>2, <1>4, <1>5, <1>6
<1>8. phase[Parent(m)] \in Decided => out[Parent(m)] = "fail"
    BY <1>2, <1>5, <1>6 DEF GInv, FaultsSurface, Inspects
<1>9. phase[Parent(m)] \notin {"idle", "marking", "done"}
    BY <1>2, <1>7, <1>8 DEF GInv, Untouched, Fatal, Returned, Decided
<1>10. phase[Parent(m)] \in Busy
    BY <1>2, <1>9 DEF GInv, TypeOK
<1> QED
    BY <1>0, <1>2, <1>3, <1>4, <1>6, <1>10, BusyChild DEF Busy

\* Only continue_as_new raises a generation, and for a continue_on_failure loop
\* only after a body and a condition that returned nothing fatal.
LEMMA GenerationRises ==
    ASSUME GInv, [SignalNext]_<<vars, sigvars>>, NEW l \in Isolating, scope'[l].gen > scope[l].gen
    PROVE  /\ Returned(Body(l)) /\ out[Body(l)] # "fail"
           /\ HasCondition(l) => \/ phase[Kids[l][2]] = "idle"
                                 \/ Returned(Kids[l][2]) /\ out[Kids[l][2]] = "ok"
<1> USE DEF GInv
<1>1. l \in Nodes /\ l \in Spawned /\ Kind[l] = "loop"
    BY GraphAssumption, SpawnedNodes
<1>2. scope[l].gen \in Nat \ {0} /\ scope[l] \in [inst : Lineage, gen : Nat \ {0},
                              life : {"none", "live", "doomed", "ended", "dropped"}]
    BY <1>1 DEF TypeOK
<1>3. scope'[l].gen # scope[l].gen
    BY <1>2
<1>4. ~UNCHANGED scope
    BY <1>3
<1>5. ASSUME NEW n \in Nodes, NEW kids, StartKids(n, kids) PROVE FALSE
  <2>1. scope'[l] = scope[l] \/ scope'[l].gen = 1
      BY <1>1, <1>5 DEF StartKids
  <2> QED
      BY <1>2, <2>1
<1>6. ASSUME NEW m \in Nodes, ContinueAsNew(m) PROVE m = l
  <2>1. m # l => scope'[l] = [scope[l] EXCEPT !.life = "none"] \/ scope'[l] = scope[l]
      BY <1>1, <1>6 DEF ContinueAsNew
  <2> QED
      BY <1>2, <1>3, <2>1
<1>7. ~Next => UNCHANGED scope
    BY SignalDoes DEF SignalNext, vars
<1>8. ~LateWrite /\ ~Settled
    BY <1>4 DEF LateWrite, Settled, vars
<1>9. ~CancelInstance
  <2> SUFFICES ASSUME CancelInstance PROVE FALSE
      OBVIOUS
  <2>1. scope'[l].gen = scope[l].gen
      BY <1>1, <1>2 DEF CancelInstance, TypeOK
  <2> QED
      BY <1>3, <2>1
<1>10. ASSUME NEW s \in Spawned, Reap(s) PROVE FALSE
  <2>1. \/ scope'[l] = [scope[l] EXCEPT !.life = "dropped"]
        \/ scope'[l] = [scope[l] EXCEPT !.life = "doomed"]
        \/ scope'[l] = scope[l]
      BY <1>1, <1>10 DEF Reap
  <2> QED
      BY <1>2, <1>3, <2>1
<1>11. PICK n \in Nodes : NodeStep(n)
    BY <1>4, <1>7, <1>8, <1>9, <1>10 DEF Next
<1>12. ~Enter(n) /\ ~EnterAndReturn(n) /\ ~EnterIfRows(n)
    BY <1>4, <1>5 DEF Enter, EnterAndReturn, EnterIfRows
<1>13. ~LeafReturns(n) /\ ~ThenStep(n) /\ ~IfStep(n) /\ ~IfRowsStep(n) /\ ~JoinStep(n)
    BY <1>4, <1>5 DEF LeafReturns, ThenStep, IfStep, IfRowsStep, JoinStep, Propagate
<1>14. ~RaceStep(n)
  <2> SUFFICES ASSUME RaceStep(n) PROVE FALSE
      OBVIOUS
  <2>1. PICK loser \in Children(n) :
           scope' = [scope EXCEPT ![loser].life = IF @ = "live" THEN "doomed" ELSE "dropped"]
      BY DEF RaceStep
  <2>2. scope'[l].gen = scope[l].gen
      BY <1>1, <1>2, <2>1 DEF TypeOK
  <2> QED
      BY <1>3, <2>2
<1>15. ~StampLoop(n) /\ ~Leave(n)
  <2>1. ~StampLoop(n)
      BY <1>4 DEF StampLoop
  <2>2. ASSUME Leave(n) PROVE scope'[l].gen = scope[l].gen
      BY <1>1, <1>2, <2>2 DEF Leave, TypeOK
  <2> QED
      BY <1>3, <2>1, <2>2
<1>16. LoopBodyReturns(n) \/ LoopConditionReturns(n)
    BY <1>11, <1>12, <1>13, <1>14, <1>15 DEF NodeStep
<1>17. NextIteration(n) => n = l
    BY <1>4, <1>6 DEF NextIteration
<1>18. CASE LoopBodyReturns(n)
  <2>1. NextIteration(n) /\ out[Body(n)] \in {"ok", "app"}
      BY <1>4, <1>5, <1>18 DEF LoopBodyReturns
  <2> QED
      BY <1>17, <1>18, <2>1 DEF LoopBodyReturns
<1>19. CASE LoopConditionReturns(n)
  <2>1. NextIteration(n) /\ out[Kids[n][2]] = "ok" /\ HasCondition(n) /\ Returned(Kids[n][2])
      BY <1>4, <1>19 DEF LoopConditionReturns
  <2>2. n = l
      BY <1>17, <2>1
  <2>3. Kids[l][2] \in Later(l)
      BY <1>1, <2>1, <2>2, ChildrenByKind DEF Later, Body
  <2>4. phase[Body(l)] = "done" /\ out[Body(l)] = "ok"
      BY <1>1, <2>1, <2>2, <2>3 DEF InTurn, Returned, Body
  <2> QED
      BY <2>1, <2>2, <2>4 DEF Returned
<1> QED
    BY <1>16, <1>18, <1>19

\* A continue_on_failure loop consumes no graph or runtime fault and no failure
\* of a condition: it iterates only when nothing fatal happened in what counts
\* for it, through JOIN and RACE, nested loops and cancellations.
THEOREM FaultsEndLoops == SignalSpec => FatalNeverConsumed
<1>1. GInv /\ [SignalNext]_<<vars, sigvars>> =>
         [\A l \in Isolating : scope'[l].gen > scope[l].gen =>
             \A n \in Below(l) : CountsFor(l, n) /\ Fatal(n) => ~Honoured(n)]_vars
    BY GenerationRises, NothingFatal
<1> QED
    BY <1>1, Invariance, PTL DEF SignalSpec, FatalNeverConsumed

-----------------------------------------------------------------------------
(* Instance ids. *)

\* What a step other than continue_as_new leaves as it is: nothing goes back,
\* a result and an orchestration's id and generation stay, what ended or was
\* cancelled stays so, and a started one gets the id of its place.
Keeps ==
    /\ \A n \in Nodes :
          /\ phase[n] # "idle" => phase'[n] # "idle"
          /\ phase[n] = "exec" => phase'[n] \in {"exec"} \cup Decided
          /\ phase[n] \in Decided => phase'[n] \in Decided /\ out'[n] = out[n]
          /\ phase[n] = "done" => phase'[n] = "done"
    /\ \A s \in Spawned : phase[s] # "idle" =>
          /\ scope'[s].inst = scope[s].inst /\ scope'[s].gen = scope[s].gen
          /\ scope[s].life \in {"ended", "dropped"} => scope'[s].life \in {"ended", "dropped"}
          /\ scope[s].life \in {"doomed", "dropped"} => scope'[s].life \in {"doomed", "dropped"}
    /\ \A s \in Spawned : phase[s] = "idle" /\ phase'[s] # "idle" =>
          /\ scope'[s].inst = subtree_instance(s) /\ scope'[s].gen = 1
          /\ phase[Parent(s)] # "idle"

\* A handler that decides, with the orchestrations as they are.
LEMMA DecideKeeps ==
    ASSUME GInv, NEW n \in Nodes, phase[n] \in {"marking", "exec"},
           NEW result, NEW stamps, Decide(n, result, stamps), UNCHANGED scope
    PROVE  Keeps
<1>1. \A m \in Nodes : \/ phase'[m] = phase[m] /\ out'[m] = out[m]
                       \/ m = n /\ phase'[m] \in {"stamping", "ending"}
    BY DEF Decide, GInv, TypeOK
<1> QED
    BY <1>1, SpawnedNodes DEF Keeps, Decided

\* A handler that starts children.
LEMMA StartKeeps ==
    ASSUME GInv, NEW n \in Nodes, phase[n] \in {"marking", "exec"},
           NEW kids \in SUBSET Children(n), StartKids(n, kids), \A c \in kids : phase[c] = "idle",
           out' = out
    PROVE  Keeps
<1>1. \A m \in Nodes : phase'[m] = IF m \in kids THEN "marking" ELSE IF m = n THEN "exec" ELSE phase[m]
    BY DEF StartKids
<1>2. \A s \in Spawned : IF s \in kids THEN scope'[s].inst = subtree_instance(s) /\ scope'[s].gen = 1
                         ELSE scope'[s] = scope[s]
    BY DEF StartKids
<1>3. \A c \in kids : Parent(c) = n
    BY ParentOfChild
<1> QED
    BY <1>1, <1>2, <1>3, SpawnedNodes DEF Keeps, Decided

\* A step restarts a loop, or keeps what there is.
LEMMA KeepsOrRestarts ==
    ASSUME GInv, [SignalNext]_<<vars, sigvars>>
    PROVE  Keeps \/ \E l \in Nodes : Kind[l] = "loop" /\ phase[l] = "exec" /\ ContinueAsNew(l)
<1>0. \A s \in Spawned : scope[s] \in [inst : Lineage, gen : Nat \ {0},
                              life : {"none", "live", "doomed", "ended", "dropped"}]
    BY DEF GInv, TypeOK
<1>1. CASE UNCHANGED <<phase, out, scope>>
    BY <1>1 DEF Keeps
<1>2. ASSUME NEW n \in Nodes, Enter(n) \/ EnterAndReturn(n) \/ EnterIfRows(n) PROVE Keeps
  <2>1. phase[n] = "marking" /\ \A c \in Children(n) : phase[c] = "idle"
      BY <1>2 DEF Enter, EnterAndReturn, EnterIfRows, MarkRunning, GInv, Untouched
  <2>2. Kind[n] \in {"then", "if", "loop"} => Kids[n][1] \in Children(n)
      BY KidsAreChildren, ArityAssumption
  <2>3. \/ \E kids \in SUBSET Children(n) : StartKids(n, kids) /\ out' = out
        \/ \E result : Decide(n, result, <<>>) /\ UNCHANGED scope
      BY <1>2, <2>2 DEF Enter, EnterAndReturn, EnterIfRows
  <2> QED
      BY <2>1, <2>3, StartKeeps, DecideKeeps
<1>3. ASSUME NEW n \in Nodes, LeafReturns(n) \/ IfRowsStep(n) \/ JoinStep(n) PROVE Keeps
  <2>1. phase[n] = "exec"
      BY <1>3 DEF LeafReturns, IfRowsStep, JoinStep, Waiting
  <2>2. \E result, stamps : Decide(n, result, stamps) /\ UNCHANGED scope
      BY <1>3 DEF LeafReturns, IfRowsStep, JoinStep, Propagate
  <2> QED
      BY <2>1, <2>2, DecideKeeps
<1>4. ASSUME NEW n \in Nodes, ThenStep(n) \/ IfStep(n) PROVE Keeps
  <2>1. phase[n] = "exec"
      BY <1>4 DEF ThenStep, IfStep, Waiting
  <2>2. Kind[n] \in {"then", "if"} => Kids[n][2] \in Children(n)
      BY ChildrenByKind
  <2>3. Kind[n] = "if" => Kids[n][3] \in Children(n)
      BY ChildrenByKind
  <2>4. \/ \E kid \in Children(n) : phase[kid] = "idle" /\ StartKids(n, {kid}) /\ out' = out
        \/ \E result, stamps : Decide(n, result, stamps) /\ UNCHANGED scope
      BY <1>4, <2>2, <2>3 DEF ThenStep, IfStep, Propagate, Waiting
  <2> QED
      BY <2>1, <2>4, StartKeeps, DecideKeeps
<1>5. ASSUME NEW n \in Nodes, RaceStep(n) PROVE Keeps
  <2>1. phase[n] = "exec"
      BY <1>5 DEF RaceStep, Waiting
  <2>2. PICK loser, result, stamps :
          /\ loser \in Children(n) /\ Decide(n, result, stamps)
          /\ scope' = [scope EXCEPT ![loser].life = IF @ = "live" THEN "doomed" ELSE "dropped"]
      BY <1>5 DEF RaceStep
  <2>3. \A m \in Nodes : \/ phase'[m] = phase[m] /\ out'[m] = out[m]
                         \/ m = n /\ phase'[m] \in {"stamping", "ending"}
      BY <2>2 DEF Decide, GInv, TypeOK
  <2>4. \A s \in Spawned :
          /\ scope'[s].inst = scope[s].inst /\ scope'[s].gen = scope[s].gen
          /\ scope[s].life \in {"ended", "dropped"} => scope'[s].life \in {"ended", "dropped"}
          /\ scope[s].life \in {"doomed", "dropped"} => scope'[s].life \in {"doomed", "dropped"}
      BY <1>0, <2>2 DEF GInv, TypeOK
  <2> QED
      BY <2>1, <2>3, <2>4, SpawnedNodes DEF Keeps, Decided
<1>6. ASSUME NEW l \in Nodes, LoopBodyReturns(l) \/ LoopConditionReturns(l)
      PROVE  Keeps \/ (Kind[l] = "loop" /\ phase[l] = "exec" /\ ContinueAsNew(l))
  <2>1. phase[l] = "exec" /\ Kind[l] = "loop"
      BY <1>6 DEF LoopBodyReturns, LoopConditionReturns, Waiting
  <2>2. HasCondition(l) => Kids[l][2] \in Children(l)
      BY <2>1, ChildrenByKind
  <2>3. \/ ContinueAsNew(l)
        \/ \E kid \in Children(l) : phase[kid] = "idle" /\ StartKids(l, {kid}) /\ out' = out
        \/ \E result, stamps : Decide(l, result, stamps) /\ UNCHANGED scope
      BY <1>6, <2>2 DEF LoopBodyReturns, LoopConditionReturns, NextIteration
  <2> QED
      BY <2>1, <2>3, StartKeeps, DecideKeeps
<1>7. ASSUME NEW n \in Nodes, StampLoop(n) PROVE Keeps
  <2>1. out' = out /\ \A m \in Nodes : \/ phase'[m] = phase[m]
                                       \/ /\ m = n /\ phase[m] \in {"stamping", "ending"}
                                          /\ phase'[m] \in Decided
      BY <1>7 DEF StampLoop, GInv, TypeOK, Decided
  <2>2. scope' = scope
      BY <1>7 DEF StampLoop
  <2> QED
      BY <2>1, <2>2, SpawnedNodes DEF Keeps, Decided
<1>8. ASSUME NEW n \in Nodes, Leave(n) PROVE Keeps
  <2>1. out' = out /\ \A m \in Nodes : \/ phase'[m] = phase[m]
                                       \/ /\ m = n /\ phase[m] \in {"stamping", "ending"}
                                          /\ phase'[m] \in Decided
      BY <1>8 DEF Leave, GInv, TypeOK, Decided
  <2>2. \A s \in Spawned :
          /\ scope'[s].inst = scope[s].inst /\ scope'[s].gen = scope[s].gen
          /\ scope[s].life \in {"ended", "dropped"} => scope'[s].life \in {"ended", "dropped"}
          /\ scope[s].life \in {"doomed", "dropped"} => scope'[s].life \in {"doomed", "dropped"}
      BY <1>0, <1>8 DEF Leave, GInv, TypeOK
  <2> QED
      BY <2>1, <2>2, SpawnedNodes DEF Keeps, Decided
<1>9. CASE CancelInstance
  <2>1. \A s \in Spawned :
          /\ scope'[s].inst = scope[s].inst /\ scope'[s].gen = scope[s].gen
          /\ scope[s].life \in {"ended", "dropped"} => scope'[s].life \in {"ended", "dropped"}
          /\ scope[s].life \in {"doomed", "dropped"} => scope'[s].life \in {"doomed", "dropped"}
      BY <1>0, <1>9 DEF CancelInstance, GInv, TypeOK
  <2> QED
      BY <1>9, <2>1 DEF Keeps, CancelInstance
<1>10. ASSUME NEW r \in Spawned, Reap(r) PROVE Keeps
  <2>1. ASSUME NEW s \in Spawned
        PROVE  /\ scope'[s].inst = scope[s].inst /\ scope'[s].gen = scope[s].gen
               /\ scope[s].life \in {"ended", "dropped"} => scope'[s].life \in {"ended", "dropped"}
               /\ scope[s].life \in {"doomed", "dropped"} => scope'[s].life \in {"doomed", "dropped"}
    <3>1. \/ scope'[s] = [scope[s] EXCEPT !.life = "dropped"]
          \/ scope[s].life = "live" /\ scope'[s] = [scope[s] EXCEPT !.life = "doomed"]
          \/ scope'[s] = scope[s]
        BY <1>10 DEF Reap
    <3> QED
        BY <1>0, <3>1
  <2> QED
      BY <1>10, <2>1 DEF Keeps, Reap
<1>11. ASSUME NEW n \in Nodes, Waiting(n, "signal"), Decide(n, "ok", <<>>), UNCHANGED scope
       PROVE  Keeps
    BY <1>11, DecideKeeps DEF Waiting
<1>12. CASE Next
    BY <1>1, <1>2, <1>3, <1>4, <1>5, <1>6, <1>7, <1>8, <1>9, <1>10, <1>12
    DEF Next, NodeStep, LateWrite, Settled, vars
<1>13. CASE ~Next
    BY <1>1, <1>11, <1>13, SignalDoes DEF SignalNext, vars
<1> QED
    BY <1>12, <1>13

\* An orchestration that was started has the id of its place: the lineage and
\* the current generation of the one that started it.
Chain ==
    /\ phase[Root] # "idle" /\ scope[Root].inst = <<>>
    /\ \A s \in Spawned \ {Root} : phase[s] # "idle" => scope[s].inst = subtree_instance(s)

\* What a restart does to what is not below the loop.
LEMMA Outside ==
    ASSUME GInv, NEW l \in Nodes, Kind[l] = "loop", phase[l] = "exec", ContinueAsNew(l),
           NEW s \in Spawned, s \notin Below(l)
    PROVE  /\ scope'[s].inst = scope[s].inst /\ scope'[s].life = scope[s].life
           /\ scope'[s].gen = IF s = l THEN scope[s].gen + 1 ELSE scope[s].gen
           /\ phase[s] # "idle" => phase'[s] # "idle"
<1>1. scope[s] \in [inst : Lineage, gen : Nat \ {0},
                     life : {"none", "live", "doomed", "ended", "dropped"}]
    BY DEF GInv, TypeOK
<1>2. scope'[s] = IF s = l THEN [scope[s] EXCEPT !.gen = @ + 1] ELSE scope[s]
    BY DEF ContinueAsNew
<1>3. phase'[s] = IF s = l THEN "marking" ELSE phase[s]
    BY SpawnedNodes DEF ContinueAsNew
<1> QED
    BY <1>1, <1>2, <1>3

\* The orchestration that started another has been entered when the other is,
\* or is being, started.
LEMMA HostEntered ==
    ASSUME GInv, NEW s \in Spawned \ {Root}, phase[s] # "idle" \/ phase[Parent(s)] # "idle"
    PROVE  Owner[Parent(s)] \in Spawned /\ phase[Owner[Parent(s)]] # "idle"
<1>1. s \in Nodes \ {Root} /\ Parent(s) \in Nodes /\ s \in Children(Parent(s))
    BY SpawnedNodes, ChildOfParent
<1>2. phase[Parent(s)] # "idle"
    BY <1>1 DEF GInv, Untouched
<1>3. Owner[Parent(s)] \in Spawned /\ Owner[Parent(s)] \in Nodes /\ Owner[Parent(s)] \in Upward[Parent(s)]
    BY <1>1, OwnerStep
<1>4. Parent(s) = Owner[Parent(s)] \/ Parent(s) \in Below(Owner[Parent(s)])
    BY <1>1, <1>3, BelowStep
<1> QED
    BY <1>2, <1>3, <1>4, IdleBelow

\* Every step keeps the ids right.
LEMMA StepChain == GInv /\ Chain /\ [SignalNext]_<<vars, sigvars>> => Chain'
<1> SUFFICES ASSUME GInv, Chain, [SignalNext]_<<vars, sigvars>> PROVE Chain'
    OBVIOUS
<1>1. CASE Keeps
  <2>1. phase'[Root] # "idle" /\ scope'[Root].inst = <<>>
    <3>1. Root \in Nodes /\ Root \in Spawned
        BY SpawnedNodes
    <3> QED
        BY <1>1, <3>1 DEF Keeps, Chain
  <2>2. ASSUME NEW s \in Spawned \ {Root}, phase'[s] # "idle"
        PROVE  scope'[s].inst = subtree_instance(s)'
    <3> DEFINE h == Owner[Parent(s)]
    <3>1. scope'[s].inst = subtree_instance(s)
        BY <1>1, <2>2 DEF Keeps, Chain
    <3>2. phase[s] # "idle" \/ phase[Parent(s)] # "idle"
        BY <1>1, <2>2 DEF Keeps
    <3>3. h \in Spawned /\ phase[h] # "idle"
        BY <3>2, HostEntered
    <3>4. scope'[h].inst = scope[h].inst /\ scope'[h].gen = scope[h].gen
        BY <1>1, <3>3 DEF Keeps
    <3> QED
        BY <3>1, <3>4 DEF subtree_instance, Stamp
  <2> QED
      BY <2>1, <2>2 DEF Chain
<1>2. ASSUME NEW l \in Nodes, Kind[l] = "loop", phase[l] = "exec", ContinueAsNew(l) PROVE Chain'
  <2>1. /\ Root \in Spawned /\ Root \notin Below(l)
        /\ \A s \in Nodes \ {Root} : s \in Below(l) <=> Parent(s) = l \/ Parent(s) \in Below(l)
        /\ \A s \in Nodes : s \in Below(l) <=> l \in Upward[s] /\ s # l
      BY SpawnedNodes, BelowStep
  <2>2. phase'[Root] # "idle" /\ scope'[Root].inst = <<>>
      BY <1>2, <2>1, Outside DEF Chain
  <2>3. ASSUME NEW s \in Spawned \ {Root}, phase'[s] # "idle"
        PROVE  scope'[s].inst = subtree_instance(s)'
    <3> DEFINE h == Owner[Parent(s)]
    <3>0. s \in Nodes \ {Root} /\ Parent(s) \in Nodes
        BY SpawnedNodes, ChildOfParent
    <3>1. s \notin Below(l) /\ phase[s] # "idle"
        BY <1>2, <2>3, <3>0, BelowStep DEF ContinueAsNew
    <3>2. scope'[s].inst = subtree_instance(s)
        BY <1>2, <3>1, Outside DEF Chain
    <3>3. h \in Spawned /\ h \in Upward[Parent(s)] /\ h \in Nodes
        BY <3>0, OwnerStep
    <3>4. h \notin Below(l) /\ h # l
      <4>1. l \notin Upward[Parent(s)]
          BY <2>1, <3>0, <3>1
      <4> QED
          BY <2>1, <3>0, <3>3, <4>1, UpwardClosed
    <3>5. scope'[h].inst = scope[h].inst /\ scope'[h].gen = scope[h].gen
        BY <1>2, <3>3, <3>4, Outside
    <3> QED
        BY <3>2, <3>5 DEF subtree_instance, Stamp
  <2> QED
      BY <2>2, <2>3 DEF Chain
<1> QED
    BY <1>1, <1>2, KeepsOrRestarts

\* The invariant of ids holds throughout.
THEOREM InstanceIds == SignalSpec => [](GInv /\ Chain)
<1>1. SignalInit => GInv /\ Chain
  <2>1. Init => Chain
      BY SpawnedNodes DEF Init, Chain
  <2> QED
      BY <2>1, InitG DEF SignalInit
<1> QED
    BY <1>1, StepG, StepChain, PTL DEF SignalSpec

\* The parts of the id of an orchestration that was started.
LEMMA IdParts ==
    ASSUME GInv, NEW s \in Spawned \ {Root}
    PROVE  /\ Owner[Parent(s)] \in Spawned /\ scope[Owner[Parent(s)]].inst \in Lineage
           /\ scope[Owner[Parent(s)]].gen \in Nat
           /\ [gen |-> scope[Owner[Parent(s)]].gen, node |-> s] \in [gen : Nat, node : Nodes]
           /\ subtree_instance(s) = Append(scope[Owner[Parent(s)]].inst,
                                          [gen |-> scope[Owner[Parent(s)]].gen, node |-> s])
<1>1. s \in Nodes /\ Parent(s) \in Nodes
    BY SpawnedNodes, ChildOfParent
<1>2. Owner[Parent(s)] \in Spawned
    BY <1>1, OwnerStep
<1>3. scope[Owner[Parent(s)]].inst \in Lineage /\ scope[Owner[Parent(s)]].gen \in Nat
    BY <1>2 DEF GInv, TypeOK
<1> QED
    BY <1>1, <1>2, <1>3 DEF subtree_instance, compose_subtree_instance_id, Stamp

\* Orchestrations have ids of their own.
LEMMA DistinctInstances ==
    ASSUME GInv, Chain, NEW a \in Spawned, NEW b \in Spawned,
           phase[a] # "idle", phase[b] # "idle", scope[a].inst = scope[b].inst
    PROVE  a = b
<1>1. ASSUME NEW s \in Spawned \ {Root}, phase[s] # "idle"
      PROVE  scope[s].inst # <<>> /\ scope[s].inst[Len(scope[s].inst)].node = s
  <2>1. scope[s].inst = subtree_instance(s)
      BY <1>1 DEF Chain
  <2> DEFINE x == scope[Owner[Parent(s)]].inst
             e == [gen |-> scope[Owner[Parent(s)]].gen, node |-> s]
  <2>2. x \in Seq([gen : Nat, node : Nodes]) /\ e \in [gen : Nat, node : Nodes] /\ e.node = s
        /\ scope[s].inst = Append(x, e)
      BY <2>1, IdParts DEF Lineage
  <2> HIDE DEF x, e
  <2>3. /\ Append(x, e) # <<>> /\ Len(Append(x, e)) = Len(x) + 1
        /\ Append(x, e)[Len(x) + 1] = e
      BY <2>2, AppendProperties
  <2> QED
      BY <2>2, <2>3
<1> QED
    BY <1>1 DEF Chain

\* No two orchestrations of an instance that were started have the same id, so
\* an event, a cancellation or a write of one is never taken for another's.
IdsAreDistinct ==
    \A a, b \in Spawned :
        phase[a] # "idle" /\ phase[b] # "idle" /\ scope[a].inst = scope[b].inst => a = b

\* Whatever is spawned, restarted and cancelled, in graphs of any depth, the
\* ids that compose_subtree_instance_id gives stay distinct.
THEOREM DistinctIds == SignalSpec => []IdsAreDistinct
<1>1. GInv /\ Chain => IdsAreDistinct
    BY DistinctInstances DEF IdsAreDistinct
<1> QED
    BY <1>1, InstanceIds, PTL

-----------------------------------------------------------------------------
(* One wait at a time. *)

\* Of the children that run in the orchestration of their parent, one is busy.
LEMMA OneBusyChild ==
    ASSUME GInv, NEW p \in Nodes, NEW c \in Children(p) \ Spawned, NEW d \in Children(p) \ Spawned,
           phase[c] \in Busy, phase[d] \in Busy
    PROVE  c = d
<1>1. Kind[p] \in {"then", "if", "if_rows", "loop"}
    BY ChildrenByKind, SpawnedNodes, GraphAssumption DEF Kinds
<1>2. ASSUME NEW k \in Later(p), phase[k] \in Busy
      PROVE  \A j \in Children(p) : phase[j] \in Busy => j = k
    BY <1>1, <1>2 DEF GInv, InTurn, Later, Busy
<1>3. c \in Later(p) \/ d \in Later(p) \/ (c = Kids[p][1] /\ d = Kids[p][1])
    BY DEF Later
<1> QED
    BY <1>2, <1>3

\* What lies between the root of an orchestration and a busy node of it is busy.
LEMMA BusyPath ==
    ASSUME GInv, NEW n \in Nodes, phase[n] \in Busy, NEW k \in Upward[n], Owner[k] = Owner[n]
    PROVE  phase[k] \in Busy
<1> DEFINE S == {m \in Upward[n] : Owner[m] = Owner[n] => phase[m] \in Busy}
<1>0. Owner[n] \in Nodes /\ Owner[n] \in Spawned /\ Upward[n] \subseteq Nodes
    BY OwnerStep, UpwardClosed
<1>1. n \in S /\ S \in SUBSET Nodes
    BY <1>0, OwnerStep, UpwardClosed
<1>2. UpClosed(S)
  <2> SUFFICES ASSUME NEW m \in S \ {Root} PROVE Parent(m) \in S
      BY DEF UpClosed
  <2>1. m \in Nodes /\ Parent(m) \in Nodes /\ Parent(m) \in Upward[n] /\ Upward[m] = {m} \cup Upward[Parent(m)]
      BY <1>0, ChildOfParent, UpwardClosed, UpwardStep DEF UpClosed
  <2> SUFFICES ASSUME Owner[Parent(m)] = Owner[n]
               PROVE  phase[Parent(m)] \in Busy
      BY <2>1
  <2>2. Owner[n] \in Upward[Parent(m)]
      BY <2>1, OwnerStep
  <2>3. m \notin Spawned
    <3> SUFFICES ASSUME m \in Spawned PROVE FALSE
        OBVIOUS
    <3>1. m \in Upward[Owner[n]] /\ Owner[n] \in Upward[m]
        BY <2>1, <2>2, OwnerStep
    <3> QED
        BY <1>0, <2>1, <2>2, <3>1, NoCycle
  <2>4. Owner[m] = Owner[n]
      BY <2>1, <2>3, OwnerStep
  <2> QED
      BY <2>1, <2>2, <2>3, <2>4 DEF GInv, Awaited, Busy
<1> QED
    BY <1>0, <1>1, <1>2 DEF Upward

\* The step of a path below one of its members.
LEMMA StepDown ==
    ASSUME NEW n \in Nodes, NEW p \in Upward[n], p # n
    PROVE  \E c \in Children(p) : c \in Upward[n] /\ c \in Nodes /\ c # Root
<1> SUFFICES ASSUME \A c \in Children(p) : c \notin Upward[n] PROVE FALSE
    BY UpwardClosed, ParentOfChild
<1> DEFINE T == {m \in Upward[n] : m # p /\ p \in Upward[m]}
<1>1. T \in SUBSET Nodes /\ n \in T
    BY UpwardClosed
<1>2. PICK m \in T : m = Root \/ Parent(m) \notin T
  <2> HIDE DEF T
  <2> QED
      BY <1>1, TreeAssumption
<1>3. m \in Nodes \ {Root}
    BY <1>1, <1>2, UpwardStep
<1>4. m \in Children(Parent(m)) /\ Parent(m) \in Upward[n] /\ p \in Upward[Parent(m)]
    BY <1>2, <1>3, ChildOfParent, UpwardStep, UpwardClosed DEF UpClosed
<1> QED
    BY <1>2, <1>3, <1>4

\* The busy nodes of an orchestration are on one path.
LEMMA BusyOnOnePath ==
    ASSUME GInv, NEW m \in Nodes, NEW n \in Nodes, phase[m] \in Busy, phase[n] \in Busy,
           Owner[m] = Owner[n]
    PROVE  m \in Upward[n] \/ n \in Upward[m]
<1> DEFINE S == {k \in Upward[m] : Owner[k] = Owner[m] /\ k \notin Upward[n] /\ n \notin Upward[k]}
<1> SUFFICES ASSUME m \notin Upward[n], n \notin Upward[m] PROVE FALSE
    OBVIOUS
<1>0. Upward[m] \subseteq Nodes /\ Upward[n] \subseteq Nodes
    BY UpwardClosed
<1>1. S \in SUBSET Nodes /\ m \in S
    BY UpwardClosed
<1>2. PICK k \in S : k = Root \/ Parent(k) \notin S
  <2> HIDE DEF S
  <2> QED
      BY <1>1, TreeAssumption
<1>3. k \notin Spawned
    BY <1>2, OwnerStep
<1>4. k \in Nodes \ {Root} /\ Parent(k) \in Nodes /\ Owner[Parent(k)] = Owner[m]
    BY <1>0, <1>2, <1>3, OwnerStep, ChildOfParent
<1>5. Parent(k) \in Upward[m] /\ k \in Children(Parent(k)) /\ Upward[k] = {k} \cup Upward[Parent(k)]
    BY <1>2, <1>4, UpwardClosed, ChildOfParent, UpwardStep DEF UpClosed
<1>6. Parent(k) \in Upward[n] /\ Parent(k) # n
    BY <1>2, <1>4, <1>5, UpwardClosed
<1>7. PICK c \in Children(Parent(k)) : c \in Upward[n] /\ c \in Nodes /\ c # Root
    BY <1>4, <1>6, StepDown
<1>8. Parent(c) = Parent(k) /\ c # k
    BY <1>2, <1>4, <1>7, ParentOfChild
<1>9. c \notin Spawned
  <2> SUFFICES ASSUME c \in Spawned PROVE FALSE
      OBVIOUS
  <2>1. c \in Upward[Owner[n]]
      BY <1>7, OwnerStep
  <2>2. Owner[n] \in Upward[Parent(c)] /\ Owner[n] \in Nodes
      BY <1>4, <1>8, OwnerStep
  <2> QED
      BY <1>4, <1>7, <1>8, <2>1, <2>2, NoCycle, UpwardClosed
<1>10. Owner[c] = Owner[n]
    BY <1>4, <1>7, <1>8, <1>9, OwnerStep
<1>11. phase[c] \in Busy /\ phase[k] \in Busy
    BY <1>2, <1>7, <1>10, BusyPath
<1> QED
    BY <1>3, <1>4, <1>5, <1>7, <1>8, <1>9, <1>11, OneBusyChild

\* An orchestration has at most one wait for a signal.
LEMMA OneWait ==
    ASSUME GInv, NEW m \in Nodes, NEW n \in Nodes, Owner[m] = Owner[n],
           phase[m] = "exec", phase[n] = "exec", Kind[m] = "signal", Kind[n] = "signal"
    PROVE  m = n
<1>1. \A a, b \in Nodes : Kind[a] = "signal" /\ a \in Upward[b] => a = b
    BY StepDown, ChildrenByKind
<1>2. m \in Upward[n] \/ n \in Upward[m]
    BY BusyOnOnePath DEF Busy
<1> QED
    BY <1>1, <1>2

-----------------------------------------------------------------------------
(* Incarnations: the generations and ids of the orchestrations on a path.    *)

Above(o) == Upward[o] \cap Spawned

Built(o, g, h) ==
    /\ g \in [Above(o) -> Nat] /\ h \in [Above(o) -> Lineage]
    /\ h[Root] = <<>>
    /\ \A a \in Above(o) \ {Root} :
          h[a] = Append(h[Owner[Parent(a)]], [gen |-> g[Owner[Parent(a)]], node |-> a])

\* The path is in this incarnation, or in a later one: some orchestration on
\* it has a later generation, and none above that an earlier one.
Same(o, g, h) ==
    \A a \in Above(o) : phase[a] # "idle" /\ scope[a].gen = g[a] /\ scope[a].inst = h[a]
Past(o, g) ==
    \E a \in Above(o) : /\ phase[a] # "idle" /\ scope[a].gen > g[a]
                        /\ \A b \in Above(a) : scope[b].gen >= g[b]

\* Paths of orchestrations.
LEMMA AboveFacts ==
    ASSUME NEW o \in Spawned
    PROVE  /\ o \in Above(o) /\ Root \in Above(o) /\ Above(o) \subseteq Spawned
           /\ \A a \in Above(o) : Above(a) \subseteq Above(o)
           /\ \A a \in Above(o) \ {Root} : Owner[Parent(a)] \in Above(o)
<1>1. o \in Nodes /\ Above(o) \subseteq Nodes /\ o \in Above(o)
    BY SpawnedNodes, UpwardClosed DEF Above
<1>2. \A a \in Above(o) : Above(a) \subseteq Above(o)
    BY <1>1, UpwardClosed DEF Above
<1>3. Root \in Above(o)
  <2> DEFINE S == Upward[o]
  <2>1. S \in SUBSET Nodes /\ S # {}
      BY <1>1, UpwardClosed
  <2>2. PICK m \in S : m = Root \/ Parent(m) \notin S
      BY <2>1, TreeAssumption
  <2> QED
      BY <1>1, <2>2, UpwardClosed, SpawnedNodes DEF UpClosed, Above
<1>4. ASSUME NEW a \in Above(o) \ {Root} PROVE Owner[Parent(a)] \in Above(o)
  <2>1. Parent(a) \in Nodes /\ Parent(a) \in Upward[o]
      BY <1>1, UpwardClosed, ChildOfParent DEF Above, UpClosed
  <2> QED
      BY <1>1, <2>1, OwnerStep, UpwardClosed DEF Above
<1> QED
    BY <1>1, <1>2, <1>3, <1>4 DEF Above

\* What an entered orchestration has above it has been entered.
LEMMA AboveEntered ==
    ASSUME GInv, NEW o \in Spawned, phase[o] # "idle", NEW a \in Above(o)
    PROVE  phase[a] # "idle"
<1>1. o \in Nodes /\ a \in Nodes /\ (a = o \/ o \in Below(a))
    BY SpawnedNodes, BelowStep DEF Above
<1> QED
    BY <1>1, IdleBelow

\* The current incarnation.
LEMMA BuiltNow ==
    ASSUME GInv, Chain, NEW o \in Spawned, phase[o] # "idle"
    PROVE  LET g == [a \in Above(o) |-> scope[a].gen]
               h == [a \in Above(o) |-> scope[a].inst]
           IN  Built(o, g, h) /\ Same(o, g, h)
<1> DEFINE g == [a \in Above(o) |-> scope[a].gen]
           h == [a \in Above(o) |-> scope[a].inst]
<1>1. \A a \in Above(o) : phase[a] # "idle" /\ a \in Spawned
    BY AboveEntered, AboveFacts
<1>2. Same(o, g, h)
    BY <1>1 DEF Same
<1>3. g \in [Above(o) -> Nat] /\ h \in [Above(o) -> Lineage]
    BY <1>1 DEF GInv, TypeOK
<1>4. h[Root] = <<>>
    BY AboveFacts DEF Chain
<1>5. ASSUME NEW a \in Above(o) \ {Root}
      PROVE  h[a] = Append(h[Owner[Parent(a)]], [gen |-> g[Owner[Parent(a)]], node |-> a])
  <2>1. scope[a].inst = subtree_instance(a) /\ Owner[Parent(a)] \in Above(o)
      BY <1>1, AboveFacts DEF Chain
  <2> QED
      BY <1>1, <2>1, IdParts
<1> QED
    BY <1>2, <1>3, <1>4, <1>5 DEF Built

\* One step of a path of orchestrations.
LEMMA AboveStep ==
    /\ Above(Root) = {Root}
    /\ \A a \in Spawned \ {Root} :
          /\ Owner[Parent(a)] \in Spawned /\ Above(a) = {a} \cup Above(Owner[Parent(a)])
          /\ a \notin Above(Owner[Parent(a)])
<1>1. Above(Root) = {Root}
    BY UpwardStep, SpawnedNodes DEF Above
<1>2. ASSUME NEW a \in Spawned \ {Root}
      PROVE  /\ Owner[Parent(a)] \in Spawned /\ Above(a) = {a} \cup Above(Owner[Parent(a)])
             /\ a \notin Above(Owner[Parent(a)])
  <2> DEFINE p == Parent(a)
  <2>1. a \in Nodes /\ p \in Nodes /\ Upward[a] = {a} \cup Upward[p] /\ a \notin Upward[p]
      BY SpawnedNodes, ChildOfParent, UpwardStep, NoCycle
  <2>2. /\ Owner[p] \in Spawned /\ Owner[p] \in Upward[p]
        /\ Upward[p] \cap Spawned \subseteq Upward[Owner[p]]
      BY <2>1, OwnerStep
  <2>3. Upward[Owner[p]] \subseteq Upward[p]
      BY <2>1, <2>2, UpwardClosed
  <2> QED
      BY <2>1, <2>2, <2>3 DEF Above
<1> QED
    BY <1>1, <1>2

\* A set of orchestrations has one whose host is not in it.
LEMMA AboveLeast ==
    ASSUME NEW S \in SUBSET Spawned, S # {}
    PROVE  \E a \in S : a = Root \/ Owner[Parent(a)] \notin S
<1> DEFINE T == {m \in Nodes : Owner[m] \in S}
<1>1. T \in SUBSET Nodes /\ T # {}
    BY OwnerStep, SpawnedNodes
<1>2. PICK m \in T : m = Root \/ Parent(m) \notin T
    BY <1>1, TreeAssumption
<1>3. CASE m = Root
    BY <1>2, <1>3, OwnerStep, SpawnedNodes
<1>4. CASE m # Root
  <2>1. Parent(m) \in Nodes /\ Owner[Parent(m)] \notin S
      BY <1>2, <1>4, ChildOfParent
  <2>2. m \in Spawned
      BY <1>4, <2>1, OwnerStep
  <2> QED
      BY <2>1, <2>2, OwnerStep
<1> QED
    BY <1>3, <1>4

\* Of two orchestrations on a path one is above the other.
LEMMA Comparable ==
    ASSUME NEW o \in Spawned, NEW a \in Above(o), NEW b \in Above(o)
    PROVE  a \in Above(b) \/ b \in Above(a)
<1> DEFINE Line(s) == \A c, d \in Above(s) : c \in Above(d) \/ d \in Above(c)
           S == {s \in Spawned : ~Line(s)}
<1> SUFFICES ASSUME S # {} PROVE FALSE
    OBVIOUS
<1>1. PICK s \in S : s = Root \/ Owner[Parent(s)] \notin S
    BY AboveLeast
<1> QED
    BY <1>1, AboveStep

\* What an id has at each level: the ids of the path are its beginnings, in the
\* order of the path, and the next entry has the generation.
Leveled(a, g, h) ==
    /\ Len(h[a]) \in Nat
    /\ \A b \in Above(a) :
          /\ Len(h[b]) \in Nat /\ Len(h[b]) <= Len(h[a])
          /\ \A i \in 1 .. Len(h[b]) : h[b][i] = h[a][i]
          /\ b # a => Len(h[b]) < Len(h[a]) /\ h[a][Len(h[b]) + 1].gen = g[b]
    /\ \A j \in 1 .. Len(h[a]) + 1 : \E b \in Above(a) : j = Len(h[b]) + 1

\* The id of a child, taken apart.
LEMMA BuiltStep ==
    ASSUME NEW o \in Spawned, NEW g, NEW h, Built(o, g, h), NEW a \in Above(o) \ {Root}
    PROVE  /\ Owner[Parent(a)] \in Above(o)
           /\ h[Owner[Parent(a)]] \in Lineage /\ h[a] \in Lineage
           /\ Len(h[Owner[Parent(a)]]) \in Nat
           /\ Len(h[a]) = Len(h[Owner[Parent(a)]]) + 1
           /\ \A i \in 1 .. Len(h[Owner[Parent(a)]]) : h[a][i] = h[Owner[Parent(a)]][i]
           /\ h[a][Len(h[a])] = [gen |-> g[Owner[Parent(a)]], node |-> a]
<1> DEFINE p == Owner[Parent(a)]
           e == [gen |-> g[p], node |-> a]
<1>1. p \in Above(o) /\ a \in Nodes
    BY AboveFacts, SpawnedNodes
<1>2. h[p] \in Lineage /\ h[a] \in Lineage /\ g[p] \in Nat /\ h[a] = Append(h[p], e)
    BY <1>1 DEF Built
<1>3. e \in [gen : Nat, node : Nodes] /\ h[p] \in Seq([gen : Nat, node : Nodes])
    BY <1>1, <1>2 DEF Lineage
<1> HIDE DEF e
<1>4. /\ Len(h[p]) \in Nat /\ Len(h[a]) = Len(h[p]) + 1
      /\ \A i \in 1 .. Len(h[p]) : h[a][i] = h[p][i]
      /\ h[a][Len(h[a])] = e
    BY <1>2, <1>3, AppendProperties
<1> QED
    BY <1>1, <1>2, <1>4 DEF e

\* Every id is so.
LEMMA Levels ==
    ASSUME NEW o \in Spawned, NEW g, NEW h, Built(o, g, h)
    PROVE  \A a \in Above(o) : Leveled(a, g, h)
<1> DEFINE S == {a \in Above(o) : ~Leveled(a, g, h)}
<1> SUFFICES ASSUME S # {} PROVE FALSE
    OBVIOUS
<1>1. S \in SUBSET Spawned
    BY AboveFacts
<1>2. PICK a \in S : a = Root \/ Owner[Parent(a)] \notin S
  <2> HIDE DEF S
  <2> QED BY <1>1, AboveLeast
<1>3. CASE a = Root
  <2>1. h[Root] = <<>> /\ Above(Root) = {Root}
      BY AboveStep DEF Built
  <2> QED
      BY <1>3, <2>1 DEF Leveled
<1>4. CASE a # Root
  <2> DEFINE p == Owner[Parent(a)]
             e == [gen |-> g[p], node |-> a]
  <2>1. /\ p \in Above(o)
        /\ Len(h[p]) \in Nat /\ Len(h[a]) = Len(h[p]) + 1
        /\ \A i \in 1 .. Len(h[p]) : h[a][i] = h[p][i]
        /\ h[a][Len(h[a])] = e
      BY <1>4, BuiltStep
  <2>2. Above(a) = {a} \cup Above(p) /\ p \in Above(p)
      BY <1>1, <1>4, <2>1, AboveStep, AboveFacts
  <2>3. Leveled(p, g, h) /\ e.gen = g[p]
      BY <1>2, <1>4, <2>1
  <2> HIDE DEF p, e
  <2>4. ASSUME NEW b \in Above(a)
        PROVE  /\ Len(h[b]) \in Nat /\ Len(h[b]) <= Len(h[a])
               /\ \A i \in 1 .. Len(h[b]) : h[b][i] = h[a][i]
               /\ b # a => Len(h[b]) < Len(h[a]) /\ h[a][Len(h[b]) + 1].gen = g[b]
    <3>1. CASE b = a
        BY <2>1, <3>1
    <3>2. CASE b \in Above(p)
      <4>1. /\ Len(h[b]) \in Nat /\ Len(h[b]) <= Len(h[p])
            /\ \A i \in 1 .. Len(h[b]) : h[b][i] = h[p][i]
            /\ b # p => Len(h[b]) < Len(h[p]) /\ h[p][Len(h[b]) + 1].gen = g[b]
          BY <2>3, <3>2 DEF Leveled
      <4>2. Len(h[b]) < Len(h[a]) /\ \A i \in 1 .. Len(h[b]) : h[b][i] = h[a][i]
          BY <2>1, <4>1
      <4>3. CASE b = p
          BY <2>1, <2>3, <4>2, <4>3
      <4>4. CASE b # p
        <5>1. Len(h[b]) + 1 \in 1 .. Len(h[p])
            BY <2>1, <4>1, <4>4
        <5> QED
            BY <2>1, <4>1, <4>2, <4>4, <5>1
      <4> QED
          BY <4>3, <4>4
    <3> QED
        BY <2>2, <3>1, <3>2
  <2>5. ASSUME NEW j \in 1 .. Len(h[a]) + 1 PROVE \E b \in Above(a) : j = Len(h[b]) + 1
    <3>1. CASE j = Len(h[a]) + 1
        BY <2>2, <3>1
    <3>2. CASE j # Len(h[a]) + 1
      <4>1. j \in 1 .. Len(h[p]) + 1
          BY <2>1, <3>2
      <4> QED
          BY <2>2, <2>3, <4>1 DEF Leveled
    <3> QED
        BY <3>1, <3>2
  <2> QED
      BY <2>1, <2>4, <2>5 DEF Leveled
<1> QED
    BY <1>3, <1>4

\* The length of an id is a matter of the place.
LEMMA SameLevels ==
    ASSUME NEW o \in Spawned, NEW g, NEW h, Built(o, g, h),
           NEW o2 \in Spawned, NEW g2, NEW h2, Built(o2, g2, h2)
    PROVE  \A a \in Above(o) \cap Above(o2) : Len(h[a]) = Len(h2[a])
<1> DEFINE S == {a \in Above(o) \cap Above(o2) : Len(h[a]) # Len(h2[a])}
<1> SUFFICES ASSUME S # {} PROVE FALSE
    OBVIOUS
<1>1. S \in SUBSET Spawned
    BY AboveFacts
<1>2. PICK a \in S : a = Root \/ Owner[Parent(a)] \notin S
  <2> HIDE DEF S
  <2> QED BY <1>1, AboveLeast
<1>3. CASE a = Root
    BY <1>2, <1>3 DEF Built
<1>4. CASE a # Root
  <2>0. a \in Above(o) \ {Root} /\ a \in Above(o2) \ {Root}
      BY <1>2, <1>4
  <2>1. Owner[Parent(a)] \in Above(o) \cap Above(o2)
      BY <2>0, AboveFacts
  <2>2. Len(h[Owner[Parent(a)]]) = Len(h2[Owner[Parent(a)]])
      BY <1>2, <1>4, <2>1
  <2> HIDE DEF S
  <2>3. /\ Len(h[Owner[Parent(a)]]) \in Nat /\ Len(h[a]) = Len(h[Owner[Parent(a)]]) + 1
        /\ h[a][Len(h[a])] = [gen |-> g[Owner[Parent(a)]], node |-> a]
      BY <2>0, BuiltStep
  <2>4. /\ Len(h2[Owner[Parent(a)]]) \in Nat /\ Len(h2[a]) = Len(h2[Owner[Parent(a)]]) + 1
        /\ h2[a][Len(h2[a])] = [gen |-> g2[Owner[Parent(a)]], node |-> a]
      BY <2>0, BuiltStep
  <2> QED
      BY <1>2, <2>2, <2>3, <2>4 DEF S
<1> QED
    BY <1>3, <1>4

\* Equal generations above make equal ids, and the other way round.
LEMMA Agree ==
    ASSUME NEW o \in Spawned, NEW g, NEW h, Built(o, g, h),
           NEW o2 \in Spawned, NEW g2, NEW h2, Built(o2, g2, h2),
           NEW x \in Above(o) \cap Above(o2)
    PROVE  h[x] = h2[x] <=> \A b \in Above(x) \ {x} : g[b] = g2[b]
<1>0. Above(x) \subseteq Above(o) \cap Above(o2) /\ x \in Spawned
    BY AboveFacts
<1>1. ASSUME h[x] = h2[x], NEW b \in Above(x) \ {x} PROVE g[b] = g2[b]
  <2>1. Leveled(x, g, h) /\ Leveled(x, g2, h2) /\ Len(h[b]) = Len(h2[b])
      BY <1>0, Levels, SameLevels
  <2> QED
      BY <1>1, <2>1 DEF Leveled
<1>2. ASSUME \A b \in Above(x) \ {x} : g[b] = g2[b] PROVE h[x] = h2[x]
  <2> DEFINE S == {a \in Above(x) : h[a] # h2[a]}
  <2> SUFFICES ASSUME S # {} PROVE FALSE
      BY <1>0, AboveFacts
  <2>1. S \in SUBSET Spawned
      BY <1>0, AboveFacts
  <2>2. PICK a \in S : a = Root \/ Owner[Parent(a)] \notin S
    <3> HIDE DEF S
    <3> QED BY <2>1, AboveLeast
  <2>3. CASE a = Root
      BY <2>2, <2>3 DEF Built
  <2>4. CASE a # Root
    <3> DEFINE p == Owner[Parent(a)]
    <3>1. p \in Above(x) /\ a \in Spawned
        BY <1>0, <2>4, AboveFacts
    <3>2. p # x
      <4>1. a \in Above(x) /\ a \notin Above(p)
          BY <2>1, <2>4, AboveStep
      <4> QED
          BY <4>1
    <3>3. h[p] = h2[p] /\ g[p] = g2[p]
        BY <1>2, <2>2, <2>4, <3>1, <3>2
    <3> HIDE DEF p
    <3>4. h[a] = Append(h[p], [gen |-> g[p], node |-> a]) /\ h2[a] = Append(h2[p], [gen |-> g2[p], node |-> a])
        BY <1>0, <2>4 DEF Built, p
    <3> QED
        BY <2>2, <3>3, <3>4
  <2> QED
      BY <2>3, <2>4
<1> QED
    BY <1>1, <1>2

\* A stamp tells the incarnation.
LEMMA Decode ==
    ASSUME NEW o \in Spawned, NEW g, NEW h, NEW g2, NEW h2, Built(o, g, h), Built(o, g2, h2),
           h[o] = h2[o], g[o] = g2[o]
    PROVE  \A a \in Above(o) : g[a] = g2[a]
BY Agree, AboveFacts

\* A restart spares the paths that do not pass its loop.
LEMMA Spared ==
    ASSUME NEW l \in Nodes, NEW x \in Spawned, x \notin Below(l), NEW b \in Above(x)
    PROVE  b \notin Below(l)
<1>1. x \in Nodes /\ b \in Nodes /\ b \in Upward[x]
    BY SpawnedNodes DEF Above
<1> SUFFICES ASSUME b \in Below(l) PROVE FALSE
    OBVIOUS
<1>2. l \in Upward[b] /\ b # l
    BY <1>1, BelowStep
<1>3. l \in Upward[x]
    BY <1>1, <1>2, UpwardClosed
<1>4. x = l
    BY <1>1, <1>3, BelowStep
<1> QED
    BY <1>1, <1>2, <1>4, NoCycle

\* A restarted loop is in a later generation, and what is above it in no earlier one.
LEMMA RestartIsLater ==
    ASSUME GInv, NEW l \in Nodes, Kind[l] = "loop", phase[l] = "exec", ContinueAsNew(l),
           NEW o \in Spawned, l \in Above(o), NEW g \in [Above(o) -> Nat],
           \A b \in Above(l) : scope[b].gen >= g[b]
    PROVE  Past(o, g)'
<1>1. /\ l \in Spawned /\ l \notin Below(l) /\ l \in Above(l)
      /\ Above(l) \subseteq Above(o) /\ Above(l) \subseteq Spawned
    BY AboveFacts, BelowStep, SpawnedNodes
<1>2. \A b \in Above(l) : scope[b].gen \in Nat /\ g[b] \in Nat
    BY <1>1 DEF GInv, TypeOK
<1>3. \A b \in Above(l) : scope'[b].gen = IF b = l THEN scope[b].gen + 1 ELSE scope[b].gen
    BY <1>1, Spared, Outside
<1>4. scope'[l].gen > g[l] /\ \A b \in Above(l) : scope'[b].gen >= g[b]
    BY <1>1, <1>2, <1>3
<1>5. phase'[l] # "idle"
    BY <1>1, Outside
<1> QED
    BY <1>4, <1>5 DEF Past, Above, Spawned

\* A later incarnation stays later.
LEMMA PastStep ==
    ASSUME GInv, [SignalNext]_<<vars, sigvars>>, NEW o \in Spawned,
           NEW g \in [Above(o) -> Nat], Past(o, g)
    PROVE  Past(o, g)'
<1>1. PICK a \in Above(o) : /\ phase[a] # "idle" /\ scope[a].gen > g[a]
                            /\ \A b \in Above(a) : scope[b].gen >= g[b]
    BY DEF Past
<1>2. a \in Spawned /\ Above(a) \subseteq Spawned /\ Above(a) \subseteq Above(o) /\ a \in Above(a)
    BY AboveFacts
<1>3. ASSUME phase'[a] # "idle", \A b \in Above(a) : scope'[b].gen >= scope[b].gen /\ scope'[b].gen \in Nat
      PROVE  Past(o, g)'
  <2>1. \A b \in Above(a) : scope[b].gen \in Nat /\ g[b] \in Nat
      BY <1>2 DEF GInv, TypeOK
  <2>2. scope'[a].gen > g[a] /\ \A b \in Above(a) : scope'[b].gen >= g[b]
      BY <1>1, <1>2, <1>3, <2>1
  <2> QED
      BY <1>3, <2>2 DEF Past, Above, Spawned
<1>4. CASE Keeps
  <2>1. \A b \in Above(a) : phase[b] # "idle"
      BY <1>1, <1>2, AboveEntered
  <2>2. \A b \in Above(a) : scope'[b].gen = scope[b].gen /\ scope[b].gen \in Nat
      BY <1>2, <1>4, <2>1 DEF Keeps, GInv, TypeOK
  <2>3. phase'[a] # "idle"
      BY <1>1, <1>2, <1>4, SpawnedNodes DEF Keeps
  <2> QED
      BY <1>3, <2>2, <2>3
<1>5. ASSUME NEW l \in Nodes, Kind[l] = "loop", phase[l] = "exec", ContinueAsNew(l)
      PROVE  Past(o, g)'
  <2>1. CASE a \in Below(l)
    <3>1. l \in Above(a)
        BY <1>2, <1>5, <2>1, BelowStep, SpawnedNodes DEF Above
    <3>2. l \in Above(o) /\ Above(l) \subseteq Above(a)
        BY <1>2, <3>1, AboveFacts
    <3> QED
        BY <1>1, <1>5, <3>2, RestartIsLater
  <2>2. CASE a \notin Below(l)
    <3>1. \A b \in Above(a) : scope'[b].gen = IF b = l THEN scope[b].gen + 1 ELSE scope[b].gen
        BY <1>2, <1>5, <2>2, Spared, Outside
    <3>2. \A b \in Above(a) : scope[b].gen \in Nat
        BY <1>2 DEF GInv, TypeOK
    <3>3. phase'[a] # "idle"
        BY <1>1, <1>2, <1>5, <2>2, Outside
    <3> QED
        BY <1>3, <3>1, <3>2, <3>3
  <2> QED
      BY <2>1, <2>2
<1> QED
    BY <1>4, <1>5, KeepsOrRestarts

\* An incarnation lasts until a loop on its path restarts.
LEMMA SameStep ==
    ASSUME GInv, [SignalNext]_<<vars, sigvars>>, NEW o \in Spawned,
           NEW g \in [Above(o) -> Nat], NEW h, Same(o, g, h)
    PROVE  \/ Past(o, g)'
           \/ /\ Same(o, g, h)'
              /\ Keeps \/ \E l \in Nodes : /\ Kind[l] = "loop" /\ phase[l] = "exec"
                                            /\ ContinueAsNew(l) /\ l \notin Above(o)
<1>1. Above(o) \subseteq Spawned /\ \A a \in Above(o) : Above(a) \subseteq Above(o)
    BY AboveFacts
<1>2. CASE Keeps
  <2>1. \A a \in Above(o) : /\ phase'[a] # "idle" /\ scope'[a].gen = g[a] /\ scope'[a].inst = h[a]
      BY <1>1, <1>2, SpawnedNodes DEF Keeps, Same
  <2> QED
      BY <1>2, <2>1 DEF Same, Above, Spawned
<1>3. ASSUME NEW l \in Nodes, Kind[l] = "loop", phase[l] = "exec", ContinueAsNew(l), l \in Above(o)
      PROVE  Past(o, g)'
  <2>1. \A b \in Above(l) : scope[b].gen >= g[b]
      BY <1>1, <1>3 DEF Same
  <2> QED
      BY <1>3, <2>1, RestartIsLater
<1>4. ASSUME NEW l \in Nodes, Kind[l] = "loop", phase[l] = "exec", ContinueAsNew(l), l \notin Above(o)
      PROVE  Same(o, g, h)'
  <2>1. o \notin Below(l)
      BY <1>4, BelowStep, SpawnedNodes DEF Above
  <2>2. \A a \in Above(o) : a \notin Below(l) /\ a # l
      BY <1>4, <2>1, Spared
  <2>3. \A a \in Above(o) : /\ phase'[a] # "idle" /\ scope'[a].gen = g[a] /\ scope'[a].inst = h[a]
      BY <1>1, <1>4, <2>2, Outside DEF Same
  <2> QED
      BY <2>3 DEF Same, Above, Spawned
<1> QED
    BY <1>2, <1>3, <1>4, KeepsOrRestarts

-----------------------------------------------------------------------------
(* Signals. *)

\* The wait of node n with stamp w, and what became of it: it is the wait of an
\* earlier incarnation, or the node still waits or has been answered.
Tracked(n, w) ==
    \E g, h :
        /\ Built(Owner[n], g, h) /\ h[Owner[n]] = w.inst /\ g[Owner[n]] = w.gen
        /\ Past(Owner[n], g) \/ (Same(Owner[n], g, h) /\ phase[n] \in {"exec"} \cup Decided)

\* A wait that is on is tracked.
LEMMA WaitIsTracked ==
    ASSUME GInv, Chain, NEW n \in Nodes, phase[n] = "exec"
    PROVE  Tracked(n, Stamp(n)) /\ phase[Owner[n]] # "idle"
<1> DEFINE o == Owner[n]
           g == [a \in Above(o) |-> scope[a].gen]
           h == [a \in Above(o) |-> scope[a].inst]
<1>1. o \in Spawned /\ o \in Nodes /\ (n = o \/ n \in Below(o))
    BY OwnerStep, BelowStep
<1>2. phase[o] # "idle"
    BY <1>1, IdleBelow
<1>3. Built(o, g, h) /\ Same(o, g, h) /\ o \in Above(o)
    BY <1>1, <1>2, BuiltNow, AboveFacts
<1>4. h[o] = Stamp(n).inst /\ g[o] = Stamp(n).gen
    BY <1>3 DEF Stamp
<1> HIDE DEF g, h
<1> QED
    BY <1>2, <1>3, <1>4 DEF Tracked

\* The ids and generations on the path of a waiting node are an incarnation.
Current ==
    \A n \in Nodes : phase[n] = "exec" =>
        Built(Owner[n], [a \in Above(Owner[n]) |-> scope[a].gen],
                        [a \in Above(Owner[n]) |-> scope[a].inst])

\* They always are.
LEMMA AlwaysCurrent == GInv /\ Chain => Current
    BY WaitIsTracked, BuiltNow, OwnerStep DEF Current

\* It stays tracked, and a node is in it after a step only when it was before.
LEMMA TrackedStep ==
    ASSUME GInv, Chain, [SignalNext]_<<vars, sigvars>>,
           NEW n \in Nodes, Kind[n] = "signal", NEW w, Tracked(n, w)
    PROVE  /\ Tracked(n, w)'
           /\ Waiting(n, "signal")' /\ Stamp(n)' = w => Waiting(n, "signal") /\ Stamp(n) = w
<1> DEFINE o == Owner[n]
<1>0. o \in Spawned /\ o \in Nodes /\ o \in Above(o) /\ o \in Upward[n]
    BY OwnerStep, AboveFacts
<1>1. PICK g, h : /\ Built(o, g, h) /\ h[o] = w.inst /\ g[o] = w.gen
                  /\ Past(o, g) \/ (Same(o, g, h) /\ phase[n] \in {"exec"} \cup Decided)
    BY DEF Tracked
<1>2. Built(o, g, h)'
    BY <1>1 DEF Built, Above, Spawned, Lineage
<1>3. GInv' /\ Chain'
    BY StepG, StepChain
<1>4. g \in [Above(o) -> Nat]
    BY <1>1 DEF Built
<1>5. CASE Past(o, g)'
  <2>1. Tracked(n, w)'
      BY <1>1, <1>2, <1>5 DEF Tracked
  <2>2. ASSUME Waiting(n, "signal")', Stamp(n)' = w PROVE FALSE
    <3> DEFINE g2 == [a \in Above(o) |-> scope'[a].gen]
               h2 == [a \in Above(o) |-> scope'[a].inst]
    <3>1. Current'
        BY <1>3, AlwaysCurrent, PTL
    <3>2. Built(o, g2, h2)
        BY <2>2, <3>1 DEF Current, Waiting, Built, Above, Spawned, Lineage
    <3>3. h2[o] = h[o] /\ g2[o] = g[o]
        BY <1>0, <1>1, <2>2 DEF Stamp
    <3>4. \A a \in Above(o) : scope'[a].gen = g[a]
      <4> HIDE DEF g2, h2
      <4>1. \A a \in Above(o) : g2[a] = g[a]
          BY <1>0, <1>1, <3>2, <3>3, Decode
      <4> QED
          BY <4>1 DEF g2
    <3>5. PICK a \in Above(o) : scope'[a].gen > g[a]
        BY <1>5 DEF Past, Above, Spawned
    <3> QED
        BY <1>4, <3>4, <3>5
  <2> QED
      BY <2>1, <2>2
<1>6. CASE ~Past(o, g)'
  <2>1. Same(o, g, h) /\ phase[n] \in {"exec"} \cup Decided
      BY <1>0, <1>1, <1>4, <1>6, PastStep
  <2>2. /\ Same(o, g, h)'
        /\ Keeps \/ \E l \in Nodes : /\ Kind[l] = "loop" /\ phase[l] = "exec"
                                      /\ ContinueAsNew(l) /\ l \notin Above(o)
      BY <1>0, <1>4, <1>6, <2>1, SameStep
  <2>3. /\ phase'[n] \in {"exec"} \cup Decided
        /\ phase'[n] = "exec" => phase[n] = "exec"
        /\ Active(n)' => Active(n)
    <3>1. CASE Keeps
      <4>1. phase[o] # "idle"
          BY <1>0, <2>1 DEF Same
      <4>2. scope[o].life \in {"none", "live", "doomed", "ended", "dropped"} /\ scope[o].life # "none"
          BY <1>0, <4>1 DEF GInv, TypeOK, Untouched
      <4> QED
          BY <1>0, <2>1, <3>1, <4>1, <4>2 DEF Keeps, Active, Decided
    <3>2. ASSUME NEW l \in Nodes, Kind[l] = "loop", phase[l] = "exec", ContinueAsNew(l), l \notin Above(o)
          PROVE  phase'[n] = phase[n] /\ (Active(n)' => Active(n))
      <4>1. o \notin Below(l) /\ o # l
          BY <1>0, <3>2, BelowStep, SpawnedNodes DEF Above
      <4>2. n \notin Below(l)
        <5>1. l \in Upward[n] => l \in Upward[o]
            BY <3>2, OwnerStep, SpawnedNodes
        <5> QED
            BY <1>0, <3>2, <5>1, BelowStep, SpawnedNodes DEF Above
      <4>3. phase'[n] = phase[n]
          BY <3>2, <4>2 DEF ContinueAsNew
      <4> QED
          BY <1>0, <3>2, <4>1, <4>3, Outside DEF Active
    <3> QED
        BY <2>1, <2>2, <3>1, <3>2
  <2>4. Tracked(n, w)'
      BY <1>1, <1>2, <2>2, <2>3 DEF Tracked
  <2>5. ASSUME Waiting(n, "signal")', Stamp(n)' = w PROVE Waiting(n, "signal") /\ Stamp(n) = w
    <3>1. Waiting(n, "signal")
        BY <2>3, <2>5 DEF Waiting
    <3>2. scope[o].inst = h[o] /\ scope[o].gen = g[o]
        BY <1>0, <2>1 DEF Same
    <3>3. scope'[o].inst = h[o] /\ scope'[o].gen = g[o]
        BY <1>0, <2>2 DEF Same, Above, Spawned
    <3> QED
        BY <2>5, <3>1, <3>2, <3>3 DEF Stamp
  <2> QED
      BY <2>4, <2>5
<1> QED
    BY <1>5, <1>6

\* Who still has to be told: while the root's event is raised, the waits in its
\* descendants; then the waits of the instances that are left.
Untold(n) == IF step = "raised" THEN Owner[n] # Root ELSE waited[n].inst \in targets

SInv ==
    /\ step \in {"none", "raised", "listed"} /\ lost \in Nat
    /\ step # "none" /\ lost = 0 =>
          \A n \in DOMAIN waited :
             /\ n \in Nodes /\ Kind[n] = "signal" /\ Tracked(n, waited[n])
             /\ Waiting(n, "signal") /\ Stamp(n) = waited[n] => Untold(n)

\* An event raised in an instance answers its wait.
LEMMA DeliverAnswers ==
    ASSUME GInv, Chain, NEW n \in Nodes, Waiting(n, "signal"), Deliver(scope[Owner[n]].inst)
    PROVE  ~Waiting(n, "signal")'
<1> DEFINE i == scope[Owner[n]].inst
           waits == {m \in Waits : Instance(Owner[m]) = i}
<1>1. n \in waits
    BY DEF Waits, Instance
<1>2. PICK m \in waits : Decide(m, "ok", <<>>)
    BY <1>1 DEF Deliver
<1>3. m \in Nodes /\ Waiting(m, "signal") /\ scope[Owner[m]].inst = scope[Owner[n]].inst
    BY DEF Waits, Instance
<1>4. Owner[m] = Owner[n]
    BY <1>3, WaitIsTracked, DistinctInstances, OwnerStep DEF Waiting
<1>5. m = n
    BY <1>3, <1>4, OneWait DEF Waiting
<1> QED
    BY <1>2, <1>5 DEF Decide, Waiting, GInv, TypeOK

\* Every step keeps track of the waits.
LEMMA StepS == GInv /\ Chain /\ SInv /\ [SignalNext]_<<vars, sigvars>> => SInv'
<1> SUFFICES ASSUME GInv, Chain, SInv, [SignalNext]_<<vars, sigvars>> PROVE SInv'
    OBVIOUS
<1>1. ASSUME NEW n \in Nodes, Kind[n] = "signal", NEW w, Tracked(n, w)
      PROVE  /\ Tracked(n, w)'
             /\ Waiting(n, "signal")' /\ Stamp(n)' = w => Waiting(n, "signal") /\ Stamp(n) = w
    BY <1>1, TrackedStep
<1>2. CASE UNCHANGED sigvars
  <2>1. step' = step /\ targets' = targets /\ waited' = waited /\ lost' = lost
      BY <1>2 DEF sigvars
  <2>2. ASSUME step # "none", lost = 0, NEW n \in DOMAIN waited
        PROVE  /\ n \in Nodes /\ Kind[n] = "signal" /\ Tracked(n, waited[n])'
               /\ Waiting(n, "signal")' /\ Stamp(n)' = waited[n] => Untold(n)'
    <3>1. n \in Nodes /\ Kind[n] = "signal" /\ Tracked(n, waited[n])
        BY <2>2 DEF SInv
    <3>2. Waiting(n, "signal") /\ Stamp(n) = waited[n] => Untold(n)'
        BY <2>1, <2>2 DEF SInv, Untold
    <3> HIDE DEF SInv
    <3> QED
        BY <2>1, <3>1, <3>2, <1>1
  <2> QED
      BY <2>1, <2>2 DEF SInv
<1>3. ASSUME NEW ok \in BOOLEAN, RaiseRoot(ok) PROVE SInv'
  <2>1. CASE ok
    <3>1. /\ Deliver(Instance(Root)) /\ step' = "raised" /\ lost' = lost
          /\ waited' = [n \in Waits |-> Stamp(n)]
        BY <1>3, <2>1 DEF RaiseRoot, Engine
    <3>2. ASSUME NEW n \in Waits
          PROVE  /\ n \in Nodes /\ Kind[n] = "signal" /\ waited'[n] = Stamp(n)
                 /\ Tracked(n, waited[n])'
                 /\ Waiting(n, "signal")' /\ Stamp(n)' = waited'[n] => Owner[n] # Root
      <4>1. n \in Nodes /\ Kind[n] = "signal" /\ Waiting(n, "signal") /\ phase[n] = "exec"
          BY DEF Waits, Waiting
      <4>2. waited'[n] = Stamp(n)
          BY <3>1
      <4>3. Tracked(n, Stamp(n))
          BY <4>1, WaitIsTracked
      <4>4. ASSUME NEW w, w = Stamp(n) PROVE Tracked(n, w)'
          BY <1>1, <4>1, <4>3, <4>4
      <4>5. Tracked(n, waited[n])'
          BY <4>2, <4>4
      <4>6. Owner[n] = Root => ~Waiting(n, "signal")'
          BY <3>1, <4>1, DeliverAnswers DEF Instance
      <4> QED
          BY <4>1, <4>2, <4>5, <4>6
    <3> QED
        BY <3>1, <3>2 DEF SInv, Untold
  <2>2. CASE ~ok
    <3>1. step' = step /\ lost' = lost + 1
        BY <1>3, <2>2 DEF RaiseRoot, Engine
    <3> QED
        BY <3>1 DEF SInv
  <2> QED
      BY <2>1, <2>2
<1>4. ASSUME NEW missed, list_running_descendants(missed) PROVE SInv'
  <2>1. /\ step = "raised" /\ step' = "listed" /\ UNCHANGED <<vars, waited, signals>>
        /\ IF missed = {} THEN lost' = lost ELSE lost' = lost + 1
        /\ targets' = {Instance(s) : s \in Descendants \ missed}
      BY <1>4 DEF list_running_descendants, Engine
  <2>2. CASE missed # {}
      BY <2>1, <2>2 DEF SInv
  <2>3. CASE missed = {}
    <3>1. ASSUME lost = 0, NEW n \in DOMAIN waited
          PROVE  /\ n \in Nodes /\ Kind[n] = "signal" /\ Tracked(n, waited[n])'
                 /\ Waiting(n, "signal")' /\ Stamp(n)' = waited[n] => waited[n].inst \in targets'
      <4>1. /\ n \in Nodes /\ Kind[n] = "signal" /\ Tracked(n, waited[n])
            /\ Waiting(n, "signal") /\ Stamp(n) = waited[n] => Owner[n] # Root
          BY <2>1, <3>1 DEF SInv, Untold
      <4>2. ASSUME Waiting(n, "signal"), Stamp(n) = waited[n] PROVE waited[n].inst \in targets'
        <5>1. Owner[n] \in Descendants \ missed
            BY <2>3, <4>1, <4>2, OwnerStep DEF Descendants, Waiting, Active
        <5> QED
            BY <2>1, <4>2, <5>1 DEF Instance, Stamp
      <4>3. Tracked(n, waited[n])'
          BY <1>1, <2>1, <4>1
      <4> QED
          BY <1>1, <4>1, <4>2, <4>3
    <3> QED
        BY <2>1, <2>3, <3>1 DEF SInv, Untold
  <2> QED
      BY <2>2, <2>3
<1>5. ASSUME NEW i \in targets, NEW ok \in BOOLEAN, RaiseDescendant(i, ok) PROVE SInv'
  <2>1. /\ step = "listed" /\ step' = "listed" /\ waited' = waited /\ targets' = targets \ {i}
        /\ IF ok THEN lost' = lost /\ Deliver(i) ELSE lost' = lost + 1
      BY <1>5 DEF RaiseDescendant, Engine
  <2>2. CASE ~ok
      BY <2>1, <2>2 DEF SInv
  <2>3. CASE ok
    <3>1. ASSUME lost = 0, NEW n \in DOMAIN waited
          PROVE  /\ n \in Nodes /\ Kind[n] = "signal" /\ Tracked(n, waited[n])'
                 /\ Waiting(n, "signal")' /\ Stamp(n)' = waited[n] => waited[n].inst \in targets'
      <4>1. /\ n \in Nodes /\ Kind[n] = "signal" /\ Tracked(n, waited[n])
            /\ Waiting(n, "signal") /\ Stamp(n) = waited[n] => waited[n].inst \in targets
          BY <2>1, <3>1 DEF SInv, Untold
      <4>2. ASSUME Waiting(n, "signal"), Waiting(n, "signal")', Stamp(n) = waited[n]
            PROVE  waited[n].inst \in targets'
        <5>1. waited[n].inst = scope[Owner[n]].inst
            BY <4>2 DEF Stamp
        <5>2. waited[n].inst # i
            BY <2>1, <2>3, <4>1, <4>2, <5>1, DeliverAnswers
        <5> QED
            BY <2>1, <4>1, <4>2, <5>2
      <4>3. Tracked(n, waited[n])'
          BY <1>1, <2>1, <4>1
      <4> QED
          BY <1>1, <4>1, <4>2, <4>3
    <3> QED
        BY <2>1, <2>3, <3>1 DEF SInv, Untold
  <2> QED
      BY <2>2, <2>3
<1>6. CASE SignalReturns
    BY <1>6 DEF SignalReturns, SInv
<1>7. ASSUME NEW n \in Nodes, TimesOut(n) PROVE UNCHANGED sigvars
    BY <1>7 DEF TimesOut
<1> QED
    BY <1>2, <1>3, <1>4, <1>5, <1>6, <1>7 DEF SignalNext

\* df.signal() reaches every node that waits for it: a call that returns and
\* lost none of its engine calls leaves no node in a wait that was on when the
\* call began, whatever was spawned, cancelled or restarted meanwhile.
THEOREM SignalsReach == SignalSpec => SignalReachesWaiters
<1> DEFINE Inv == GInv /\ Chain /\ SInv
<1>1. SignalInit => Inv
  <2>1. SignalInit => SInv
      BY DEF SignalInit, SInv
  <2>2. Init => Chain
      BY SpawnedNodes DEF Init, Chain
  <2> QED
      BY <2>1, <2>2, InitG DEF SignalInit
<1>2. Inv /\ [SignalNext]_<<vars, sigvars>> => Inv'
    BY StepG, StepChain, StepS
<1>3. Inv /\ [SignalNext]_<<vars, sigvars>> =>
         [step = "listed" /\ step' = "none" /\ lost = 0 =>
             \A n \in DOMAIN waited : Waiting(n, "signal") => Stamp(n) # waited[n]]_<<vars, sigvars>>
  <2> SUFFICES ASSUME Inv, SignalNext, step = "listed", step' = "none", lost = 0,
                      NEW n \in DOMAIN waited, Waiting(n, "signal"), Stamp(n) = waited[n]
               PROVE  FALSE
      OBVIOUS
  <2>1. targets = {}
      BY DEF SignalNext, RaiseRoot, list_running_descendants, RaiseDescendant, SignalReturns,
             TimesOut, sigvars
  <2> QED
      BY <2>1 DEF SInv, Untold
<1> HIDE DEF Inv
<1> QED
    BY <1>1, <1>2, <1>3, PTL DEF SignalSpec, SignalReachesWaiters

-----------------------------------------------------------------------------
(* Stamps and the display. *)

\* The levels of a stamp are the orchestrations of its path.
LEMMA StampLevels ==
    ASSUME NEW o \in Spawned, NEW g, NEW h, Built(o, g, h),
           NEW w, w.inst = h[o], w.gen = g[o]
    PROVE  /\ \A b \in Above(o) :
                /\ Len(h[b]) \in Nat /\ Len(h[b]) + 1 \in 1 .. Depth(w)
                /\ GenAt(w, Len(h[b]) + 1) = g[b]
                /\ \A i \in 1 .. Len(h[b]) : w.inst[i] = h[b][i]
           /\ \A level \in 1 .. Depth(w) : \E b \in Above(o) : level = Len(h[b]) + 1
<1>1. Leveled(o, g, h)
    BY Levels, AboveFacts
<1>2. ASSUME NEW b \in Above(o)
      PROVE  /\ Len(h[b]) \in Nat /\ Len(h[b]) + 1 \in 1 .. Depth(w)
             /\ GenAt(w, Len(h[b]) + 1) = g[b]
             /\ \A i \in 1 .. Len(h[b]) : w.inst[i] = h[b][i]
  <2>1. /\ Len(h[o]) \in Nat /\ Len(h[b]) \in Nat /\ Len(h[b]) <= Len(h[o])
        /\ \A i \in 1 .. Len(h[b]) : h[b][i] = h[o][i]
        /\ b # o => Len(h[b]) < Len(h[o]) /\ h[o][Len(h[b]) + 1].gen = g[b]
      BY <1>1 DEF Leveled
  <2>2. CASE b = o
      BY <2>1, <2>2 DEF GenAt, Depth
  <2>3. CASE b # o
      BY <2>1, <2>3 DEF GenAt, Depth
  <2> QED
      BY <2>2, <2>3
<1>3. ASSUME NEW level \in 1 .. Depth(w) PROVE \E b \in Above(o) : level = Len(h[b]) + 1
    BY <1>1 DEF Leveled, Depth
<1> QED
    BY <1>2, <1>3

\* The current incarnation of a path.
NowG(o) == [a \in Above(o) |-> scope[a].gen]
NowH(o) == [a \in Above(o) |-> scope[a].inst]

\* An entered node writes with the stamp of the current incarnation.
LEMMA Now ==
    ASSUME GInv, Chain, NEW n \in Nodes, phase[n] # "idle"
    PROVE  /\ Owner[n] \in Spawned /\ Owner[n] \in Above(Owner[n]) /\ phase[Owner[n]] # "idle"
           /\ Built(Owner[n], NowG(Owner[n]), NowH(Owner[n]))
           /\ Same(Owner[n], NowG(Owner[n]), NowH(Owner[n]))
           /\ Stamp(n).inst = NowH(Owner[n])[Owner[n]] /\ Stamp(n).gen = NowG(Owner[n])[Owner[n]]
           /\ \A a \in Above(Owner[n]) :
                /\ NowG(Owner[n])[a] = scope[a].gen /\ NowH(Owner[n])[a] = scope[a].inst
                /\ scope[a].gen \in Nat \ {0} /\ phase[a] # "idle"
<1>1. Owner[n] \in Spawned /\ Owner[n] \in Nodes /\ (n = Owner[n] \/ n \in Below(Owner[n]))
    BY OwnerStep, BelowStep
<1>2. phase[Owner[n]] # "idle"
    BY <1>1, IdleBelow
<1>3. Owner[n] \in Above(Owner[n]) /\ Above(Owner[n]) \subseteq Spawned
    BY <1>1, AboveFacts
<1>4. /\ Built(Owner[n], NowG(Owner[n]), NowH(Owner[n]))
      /\ Same(Owner[n], NowG(Owner[n]), NowH(Owner[n]))
    BY <1>1, <1>2, BuiltNow DEF NowG, NowH
<1>5. \A a \in Above(Owner[n]) : scope[a].gen \in Nat \ {0}
    BY <1>3 DEF GInv, TypeOK
<1>6. \A a \in Above(Owner[n]) : phase[a] # "idle"
    BY <1>1, <1>2, AboveEntered
<1> QED
    BY <1>1, <1>2, <1>3, <1>4, <1>5, <1>6 DEF NowG, NowH, Stamp

\* The first orchestration on the path that is in a later generation.
LEMMA FirstLater ==
    ASSUME GInv, NEW o \in Spawned, NEW g \in [Above(o) -> Nat], Past(o, g)
    PROVE  \E a \in Above(o) : /\ phase[a] # "idle" /\ scope[a].gen > g[a]
                               /\ \A b \in Above(a) \ {a} : scope[b].gen = g[b]
<1>1. PICK x \in Above(o) : /\ phase[x] # "idle" /\ scope[x].gen > g[x]
                            /\ \A b \in Above(x) : scope[b].gen >= g[b]
    BY DEF Past
<1>2. x \in Spawned /\ x \in Above(x) /\ Above(x) \subseteq Above(o) /\ Above(x) \subseteq Spawned
    BY AboveFacts
<1>3. \A b \in Above(x) : scope[b].gen \in Nat /\ g[b] \in Nat
    BY <1>2 DEF GInv, TypeOK
<1> DEFINE S == {a \in Above(x) : \E b \in Above(a) : scope[b].gen > g[b]}
<1>4. S \in SUBSET Spawned /\ S # {}
    BY <1>1, <1>2
<1>5. PICK a \in S : a = Root \/ Owner[Parent(a)] \notin S
  <2> HIDE DEF S
  <2> QED BY <1>4, AboveLeast
<1>6. a \in Spawned /\ phase[a] # "idle" /\ a \in Above(o) /\ Above(a) \subseteq Above(x) /\ a \in Above(a)
    BY <1>1, <1>2, AboveEntered, AboveFacts
<1>7. \A b \in Above(a) \ {a} : scope[b].gen = g[b]
  <2>1. CASE a = Root
      BY <2>1, AboveStep
  <2>2. CASE a # Root
    <3> DEFINE p == Owner[Parent(a)]
    <3>1. Above(a) = {a} \cup Above(p) /\ p \in Above(x)
        BY <1>2, <1>6, <2>2, AboveStep, AboveFacts
    <3>2. \A b \in Above(p) : ~(scope[b].gen > g[b])
        BY <1>5, <2>2, <3>1
    <3>3. Above(p) \subseteq Above(x)
        BY <1>6, <3>1
    <3> HIDE DEF p
    <3> QED
        BY <1>1, <1>3, <3>1, <3>2, <3>3
  <2> QED
      BY <2>1, <2>2
<1>8. scope[a].gen > g[a]
  <2>1. PICK b \in Above(a) : scope[b].gen > g[b]
      BY <1>5
  <2> QED
      BY <1>3, <1>6, <1>7, <2>1
<1> QED
    BY <1>6, <1>7, <1>8

\* The write with this stamp was issued by node n, or for it by its parent: in
\* an earlier incarnation of its path, or in the current one after the node was
\* entered.
Stamped(n, w) ==
    \E g, h :
        /\ Built(Owner[n], g, h) /\ h[Owner[n]] = w.inst /\ g[Owner[n]] = w.gen
        /\ \A a \in Above(Owner[n]) : g[a] # 0
        /\ Past(Owner[n], g) \/ (Same(Owner[n], g, h) /\ phase[n] # "idle")

\* The fence lets through what an entered node writes now.
LEMMA CurrentPasses ==
    ASSUME GInv, Chain, NEW n \in Nodes, phase[n] # "idle", NEW w, Stamped(n, w) \/ w = NoStamp
    PROVE  ~incoming_stamp_is_superseded(Stamp(n), w)
<1> DEFINE o == Owner[n]
           g2 == NowG(o)
           h2 == NowH(o)
<1>1. /\ o \in Spawned /\ Built(o, g2, h2) /\ Stamp(n).inst = h2[o] /\ Stamp(n).gen = g2[o]
      /\ \A a \in Above(o) : g2[a] = scope[a].gen /\ scope[a].gen \in Nat
    BY Now
<1> HIDE DEF g2, h2
<1> SUFFICES ASSUME NEW level \in 1 .. Depth(Stamp(n)), level <= Depth(w),
                    AgreeAbove(Stamp(n), w, level), GenAt(Stamp(n), level) < GenAt(w, level)
             PROVE  FALSE
    BY DEF incoming_stamp_is_superseded
<1>2. PICK a \in Above(o) : level = Len(h2[a]) + 1
    BY <1>1, StampLevels
<1>3. GenAt(Stamp(n), level) = scope[a].gen /\ scope[a].gen \in Nat /\ Len(h2[a]) \in Nat
    BY <1>1, <1>2, StampLevels
<1>4. CASE w = NoStamp
  <2>1. w.inst = <<>> /\ w.gen = 0
      BY <1>4 DEF NoStamp
  <2>2. level = 1
      BY <1>2, <1>3, <2>1 DEF Depth
  <2>3. GenAt(w, level) = 0
      BY <2>1, <2>2 DEF GenAt
  <2> QED
      BY <1>3, <2>3
<1>5. ASSUME NEW g, NEW h, Built(o, g, h), h[o] = w.inst, g[o] = w.gen,
             Past(o, g) \/ Same(o, g, h)
      PROVE  FALSE
  <2>1. level = Len(h[a]) + 1 /\ \A b \in Above(o) : Len(h[b]) = Len(h2[b])
      BY <1>1, <1>2, <1>5, SameLevels
  <2>2. GenAt(w, level) = g[a] /\ g \in [Above(o) -> Nat]
    <3>1. g \in [Above(o) -> Nat]
        BY <1>5 DEF Built
    <3>2. GenAt(w, Len(h[a]) + 1) = g[a]
        BY <1>1, <1>5, StampLevels
    <3> QED
        BY <2>1, <3>1, <3>2
  <2>3. scope[a].gen < g[a]
      BY <1>3, <2>2
  <2>4. PICK x \in Above(o) : /\ phase[x] # "idle" /\ scope[x].gen > g[x]
                              /\ \A b \in Above(x) : scope[b].gen >= g[b]
      BY <1>3, <1>5, <2>2, <2>3 DEF Past, Same
  <2>5. a \notin Above(x)
      BY <1>3, <2>2, <2>3, <2>4
  <2>6. x \in Above(a) /\ x # a
      BY <1>1, <2>5, <2>4, Comparable, AboveFacts
  <2>7. /\ x # o /\ Len(h[x]) < Len(h[a]) /\ Len(h[x]) \in Nat /\ Len(h[a]) \in Nat
        /\ h[o][Len(h[x]) + 1].gen = g[x] /\ h2[o][Len(h2[x]) + 1].gen = g2[x]
    <3>1. Leveled(a, g, h) /\ Leveled(o, g, h) /\ Leveled(o, g2, h2)
        BY <1>1, <1>5, Levels, AboveFacts
    <3>2. x # o
        BY <1>1, <2>5, <2>6
    <3> QED
        BY <2>4, <2>6, <3>1, <3>2 DEF Leveled
  <2>8. h[o][Len(h[x]) + 1] = h2[o][Len(h[x]) + 1]
      BY <1>1, <1>5, <2>1, <2>7 DEF AgreeAbove
  <2>9. g[x] = scope[x].gen
      BY <1>1, <2>1, <2>7, <2>8
  <2> QED
      BY <2>2, <2>4, <2>9
<1> QED
    BY <1>4, <1>5 DEF Stamped

\* The fence stops what an earlier incarnation left, once the row is current.
LEMMA PastIsFenced ==
    ASSUME GInv, Chain, NEW n \in Nodes, phase[n] # "idle", NEW w, NEW g, NEW h,
           Built(Owner[n], g, h), h[Owner[n]] = w.inst, g[Owner[n]] = w.gen, Past(Owner[n], g)
    PROVE  incoming_stamp_is_superseded(w, Stamp(n))
<1> DEFINE o == Owner[n]
           g2 == NowG(o)
           h2 == NowH(o)
<1>1. /\ o \in Spawned /\ Built(o, g2, h2) /\ Stamp(n).inst = h2[o] /\ Stamp(n).gen = g2[o]
      /\ \A a \in Above(o) : g2[a] = scope[a].gen
    BY Now
<1> HIDE DEF g2, h2
<1>2. PICK a \in Above(o) : scope[a].gen > g[a] /\ \A b \in Above(a) \ {a} : scope[b].gen = g[b]
  <2>1. g \in [Above(o) -> Nat]
      BY DEF Built
  <2> QED
      BY <1>1, <2>1, FirstLater
<1>3. h[a] = h2[a]
  <2>1. Above(a) \subseteq Above(o)
      BY <1>1, AboveFacts
  <2>2. \A b \in Above(a) \ {a} : g[b] = g2[b]
      BY <1>1, <1>2, <2>1
  <2> QED
      BY <1>1, <2>2, Agree
<1> DEFINE level == Len(h[a]) + 1
<1>4. /\ level \in 1 .. Depth(w) /\ GenAt(w, level) = g[a] /\ Len(h[a]) \in Nat
      /\ \A i \in 1 .. Len(h[a]) : w.inst[i] = h[a][i]
    BY <1>1, StampLevels
<1>5. /\ level \in 1 .. Depth(Stamp(n)) /\ GenAt(Stamp(n), level) = g2[a]
      /\ \A i \in 1 .. Len(h[a]) : Stamp(n).inst[i] = h[a][i]
    BY <1>1, <1>3, StampLevels
<1>6. level <= Depth(Stamp(n)) /\ AgreeAbove(w, Stamp(n), level)
    BY <1>4, <1>5 DEF AgreeAbove
<1>7. GenAt(w, level) < GenAt(Stamp(n), level)
  <2>1. g[a] \in Nat /\ scope[a].gen \in Nat
      BY <1>1, AboveFacts DEF Built, GInv, TypeOK
  <2> QED
      BY <1>1, <1>2, <1>4, <1>5, <2>1
<1> HIDE DEF level
<1> QED
    BY <1>4, <1>6, <1>7 DEF incoming_stamp_is_superseded

\* The last entry of an id names its orchestration.
LEMMA IdNamesItsRoot ==
    ASSUME NEW o \in Spawned, NEW g, NEW h, Built(o, g, h), NEW a \in Above(o),
           NEW o2 \in Spawned, NEW g2, NEW h2, Built(o2, g2, h2), NEW b \in Above(o2), h[a] = h2[b]
    PROVE  a = b
<1>1. ASSUME NEW q \in Spawned, NEW f, NEW k, Built(q, f, k), NEW c \in Above(q)
      PROVE  IF c = Root THEN Len(k[c]) = 0 ELSE Len(k[c]) # 0 /\ k[c][Len(k[c])].node = c
  <2>1. CASE c = Root
      BY <1>1, <2>1 DEF Built
  <2>2. CASE c # Root
    <3>1. /\ Len(k[Owner[Parent(c)]]) \in Nat /\ Len(k[c]) = Len(k[Owner[Parent(c)]]) + 1
          /\ k[c][Len(k[c])] = [gen |-> f[Owner[Parent(c)]], node |-> c]
        BY <1>1, <2>2, BuiltStep
    <3> QED
        BY <2>2, <3>1
  <2> QED
      BY <2>1, <2>2
<1>2. IF a = Root THEN Len(h[a]) = 0 ELSE Len(h[a]) # 0 /\ h[a][Len(h[a])].node = a
    BY <1>1
<1>3. IF b = Root THEN Len(h2[b]) = 0 ELSE Len(h2[b]) # 0 /\ h2[b][Len(h2[b])].node = b
    BY <1>1
<1> QED
    BY <1>2, <1>3

\* What supersedes a stamp for the reader.
Supersedes(w, v) ==
    /\ Depth(w) <= Depth(v)
    /\ \A l \in 1 .. Len(w.inst) : w.inst[l] = v.inst[l]
    /\ w.gen > GenAt(v, Depth(w))

\* No stamp supersedes a current one.
LEMMA NoneAhead ==
    ASSUME GInv, Chain, NEW n \in Nodes, phase[n] # "idle",
           NEW m \in Nodes, NEW w, Stamped(m, w) \/ w = NoStamp
    PROVE  ~Supersedes(w, Stamp(n))
<1> DEFINE o == Owner[n]
           g2 == NowG(o)
           h2 == NowH(o)
<1>1. /\ o \in Spawned /\ Built(o, g2, h2) /\ Stamp(n).inst = h2[o] /\ Stamp(n).gen = g2[o]
      /\ \A a \in Above(o) : g2[a] = scope[a].gen /\ scope[a].gen \in Nat
    BY Now
<1> HIDE DEF g2, h2
<1> SUFFICES ASSUME Supersedes(w, Stamp(n)) PROVE FALSE
    OBVIOUS
<1>2. CASE w = NoStamp
  <2>1. w.inst = <<>> /\ w.gen = 0 /\ Depth(w) = 1
      BY <1>2 DEF NoStamp, Depth
  <2>2. Root \in Above(o) /\ Len(h2[Root]) = 0
      BY <1>1, AboveFacts DEF Built
  <2>3. GenAt(Stamp(n), Len(h2[Root]) + 1) = g2[Root]
      BY <1>1, <2>2, StampLevels
  <2>4. GenAt(Stamp(n), 1) \in Nat
      BY <1>1, <2>2, <2>3
  <2> QED
      BY <2>1, <2>4 DEF Supersedes
<1>3. ASSUME NEW g, NEW h, Built(Owner[m], g, h), h[Owner[m]] = w.inst, g[Owner[m]] = w.gen,
             Past(Owner[m], g) \/ Same(Owner[m], g, h)
      PROVE  FALSE
  <2> DEFINE x == Owner[m]
  <2>0. x \in Spawned /\ x \in Above(x)
      BY OwnerStep, AboveFacts
  <2>1. w.inst \in Lineage /\ Len(w.inst) \in Nat /\ g \in [Above(x) -> Nat]
    <3>1. w.inst \in Lineage /\ g \in [Above(x) -> Nat]
        BY <1>3, <2>0 DEF Built
    <3> QED
        BY <3>1, LenProperties DEF Lineage
  <2>2. PICK a \in Above(o) : Depth(w) = Len(h2[a]) + 1
    <3>1. Depth(w) \in 1 .. Depth(Stamp(n))
        BY <2>1 DEF Supersedes, Depth
    <3> QED
        BY <1>1, <3>1, StampLevels
  <2>3. /\ Len(h2[a]) \in Nat /\ GenAt(Stamp(n), Depth(w)) = g2[a]
        /\ \A i \in 1 .. Len(h2[a]) : Stamp(n).inst[i] = h2[a][i]
      BY <1>1, <2>2, StampLevels
  <2>4. w.inst = h2[a]
    <3>1. h2[a] \in Seq([gen : Nat, node : Nodes]) /\ w.inst \in Seq([gen : Nat, node : Nodes])
        BY <1>1, <2>1 DEF Built, Lineage
    <3>2. Len(w.inst) = Len(h2[a])
        BY <2>1, <2>2, <2>3 DEF Depth
    <3>3. \A i \in 1 .. Len(h2[a]) : w.inst[i] = h2[a][i]
        BY <2>3, <3>2 DEF Supersedes
    <3> QED
        BY <3>1, <3>2, <3>3, SeqEqual
  <2>5. x = a
      BY <1>1, <1>3, <2>0, <2>4, IdNamesItsRoot
  <2>6. \A b \in Above(a) \ {a} : g[b] = g2[b]
      BY <1>1, <1>3, <2>0, <2>4, <2>5, Agree
  <2>7. g[a] > scope[a].gen
      BY <1>1, <1>3, <2>3, <2>5 DEF Supersedes
  <2>8. Above(a) \subseteq Above(o)
      BY <1>1, AboveFacts
  <2>9. CASE Same(x, g, h)
      BY <1>1, <2>0, <2>5, <2>7, <2>9 DEF Same
  <2>10. CASE Past(x, g)
    <3>1. PICK y \in Above(a) : scope[y].gen > g[y]
        BY <2>5, <2>10 DEF Past
    <3>2. y = a
        BY <1>1, <2>1, <2>5, <2>6, <2>8, <3>1
    <3> QED
        BY <1>1, <2>0, <2>1, <2>5, <2>7, <3>1, <3>2
  <2> QED
      BY <1>3, <2>9, <2>10
<1> QED
    BY <1>2, <1>3 DEF Stamped

\* Only loops have generations after the first.
Generations == \A s \in Spawned : phase[s] # "idle" /\ Kind[s] # "loop" => scope[s].gen = 1

\* The stamp of a node that is not entered is superseded by that of a loop above
\* it.
LEMMA StaleIsSuperseded ==
    ASSUME GInv, Chain, Generations, NEW n \in Nodes, phase[n] = "idle", NEW w, Stamped(n, w)
    PROVE  \E b \in Ancestors[n] : /\ Kind[b] = "loop" /\ phase[b] # "idle"
                                   /\ Supersedes(Stamp(b), w)
<1> DEFINE o == Owner[n]
<1>1. o \in Spawned /\ o \in Upward[n]
    BY OwnerStep
<1>2. PICK g, h : /\ Built(o, g, h) /\ h[o] = w.inst /\ g[o] = w.gen
                  /\ \A a \in Above(o) : g[a] # 0
                  /\ Past(o, g)
    BY DEF Stamped
<1>3. g \in [Above(o) -> Nat]
    BY <1>2 DEF Built
<1>4. PICK a \in Above(o) : /\ phase[a] # "idle" /\ scope[a].gen > g[a]
                            /\ \A b \in Above(a) \ {a} : scope[b].gen = g[b]
    BY <1>1, <1>2, <1>3, FirstLater
<1>5. a \in Spawned /\ a \in Nodes /\ a \in Upward[n] /\ Owner[a] = a /\ a \in Above(a)
  <2>1. a \in Spawned /\ a \in Nodes /\ Owner[a] = a /\ a \in Above(a)
      BY <1>1, AboveFacts, SpawnedNodes, OwnerStep
  <2> QED
      BY <1>1, <2>1, UpwardClosed DEF Above
<1>6. Kind[a] = "loop"
  <2>1. scope[a].gen \in Nat /\ g[a] \in Nat /\ g[a] # 0
      BY <1>2, <1>3, <1>5 DEF GInv, TypeOK
  <2> QED
      BY <1>4, <1>5, <2>1 DEF Generations
<1>7. a \in Ancestors[n]
    BY <1>4, <1>5 DEF Ancestors
<1> DEFINE g2 == NowG(a)
           h2 == NowH(a)
<1>8. /\ Built(a, g2, h2) /\ Stamp(a).inst = h2[a] /\ Stamp(a).gen = scope[a].gen
      /\ \A b \in Above(a) : g2[b] = scope[b].gen
    BY <1>4, <1>5, Now
<1> HIDE DEF g2, h2
<1>9. h2[a] = h[a]
    BY <1>1, <1>2, <1>4, <1>5, <1>8, Agree
<1>10. /\ Len(h[a]) \in Nat /\ Len(h[a]) + 1 \in 1 .. Depth(w) /\ GenAt(w, Len(h[a]) + 1) = g[a]
       /\ \A i \in 1 .. Len(h[a]) : w.inst[i] = h[a][i]
    BY <1>1, <1>2, StampLevels
<1>11. Supersedes(Stamp(a), w)
  <2>1. Depth(Stamp(a)) = Len(h[a]) + 1 /\ Len(Stamp(a).inst) = Len(h[a])
      BY <1>8, <1>9 DEF Depth
  <2>2. Depth(w) \in Int
      BY <1>1, <1>2, AboveFacts DEF Depth, Built, Lineage
  <2>3. Depth(Stamp(a)) <= Depth(w)
      BY <1>10, <2>1, <2>2
  <2>4. Stamp(a).gen > GenAt(w, Depth(Stamp(a)))
      BY <1>4, <1>8, <1>10, <2>1
  <2> QED
      BY <1>8, <1>9, <1>10, <2>1, <2>3, <2>4 DEF Supersedes
<1> QED
    BY <1>4, <1>6, <1>7, <1>11

\* What becomes of a node that was entered in an incarnation of its path.
LEMMA PathStep ==
    ASSUME GInv, [SignalNext]_<<vars, sigvars>>, NEW n \in Nodes, phase[n] # "idle",
           NEW g, NEW h, Built(Owner[n], g, h), Same(Owner[n], g, h)
    PROVE  \/ Past(Owner[n], g)'
           \/ /\ Same(Owner[n], g, h)' /\ phase'[n] # "idle"
              /\ Honoured(n)' => Honoured(n)
<1> DEFINE o == Owner[n]
<1>1. /\ o \in Spawned /\ o \in Upward[n] /\ Upward[n] \cap Spawned = Above(o)
      /\ Above(o) \subseteq Spawned
  <2>1. o \in Spawned /\ o \in Upward[n] /\ Upward[n] \cap Spawned \subseteq Upward[o]
      BY OwnerStep
  <2>2. Upward[o] \subseteq Upward[n]
      BY <2>1, UpwardClosed
  <2> QED
      BY <2>1, <2>2 DEF Above
<1>2. g \in [Above(o) -> Nat]
    BY DEF Built
<1> SUFFICES ASSUME ~Past(o, g)'
             PROVE  Same(o, g, h)' /\ phase'[n] # "idle" /\ (Honoured(n)' => Honoured(n))
    OBVIOUS
<1>3. /\ Same(o, g, h)'
      /\ Keeps \/ \E l \in Nodes : /\ Kind[l] = "loop" /\ phase[l] = "exec"
                                    /\ ContinueAsNew(l) /\ l \notin Above(o)
    BY <1>1, <1>2, SameStep
<1>4. Honoured(n) <=> \A a \in Above(o) : scope[a].life \notin {"doomed", "dropped"}
    BY <1>1 DEF Honoured
<1>5. Honoured(n)' <=> \A a \in Above(o) : scope'[a].life \notin {"doomed", "dropped"}
    BY <1>1 DEF Honoured, Upward, UpClosed, Spawned
<1>6. \A a \in Above(o) : phase[a] # "idle"
    BY DEF Same
<1>7. CASE Keeps
  <2>1. \A a \in Above(o) : scope[a].life \in {"doomed", "dropped"} => scope'[a].life \in {"doomed", "dropped"}
      BY <1>1, <1>6, <1>7 DEF Keeps
  <2> QED
      BY <1>3, <1>4, <1>5, <1>7, <2>1 DEF Keeps
<1>8. ASSUME NEW l \in Nodes, Kind[l] = "loop", phase[l] = "exec", ContinueAsNew(l), l \notin Above(o)
      PROVE  phase'[n] # "idle" /\ (Honoured(n)' => Honoured(n))
  <2>1. l \notin Upward[n]
      BY <1>1, <1>8, SpawnedNodes
  <2>2. n \notin Below(l) /\ o \notin Below(l)
    <3>1. o \in Nodes /\ Upward[o] \subseteq Upward[n]
        BY <1>1, UpwardClosed, SpawnedNodes
    <3> QED
        BY <2>1, <3>1, BelowStep
  <2>3. phase'[n] # "idle"
      BY <1>8, <2>2 DEF ContinueAsNew
  <2>4. \A a \in Above(o) : scope'[a].life = scope[a].life
      BY <1>1, <1>8, <2>2, Spared, Outside
  <2> QED
      BY <1>4, <1>5, <2>3, <2>4
<1> QED
    BY <1>3, <1>7, <1>8

\* A stamp stays one of its node's.
LEMMA StampedStep ==
    ASSUME GInv, [SignalNext]_<<vars, sigvars>>, NEW n \in Nodes, NEW w, Stamped(n, w)
    PROVE  Stamped(n, w)'
<1> DEFINE o == Owner[n]
<1>1. PICK g, h : /\ Built(o, g, h) /\ h[o] = w.inst /\ g[o] = w.gen
                  /\ \A a \in Above(o) : g[a] # 0
                  /\ Past(o, g) \/ (Same(o, g, h) /\ phase[n] # "idle")
    BY DEF Stamped
<1>2. o \in Spawned /\ g \in [Above(o) -> Nat]
    BY <1>1, OwnerStep DEF Built
<1>3. Past(o, g)' \/ (Same(o, g, h)' /\ phase'[n] # "idle")
    BY <1>1, <1>2, PastStep, PathStep
<1> QED
    BY <1>1, <1>3 DEF Stamped, Built, Above, Spawned, Lineage

\* A restarted or started orchestration keeps to that.
LEMMA GenerationsStep ==
    ASSUME GInv, Generations, [SignalNext]_<<vars, sigvars>>
    PROVE  Generations'
<1> SUFFICES ASSUME NEW s \in Spawned, phase'[s] # "idle", Kind[s] # "loop" PROVE scope'[s].gen = 1
    BY DEF Generations, Spawned
<1>1. CASE Keeps
    BY <1>1 DEF Keeps, Generations
<1>2. ASSUME NEW l \in Nodes, Kind[l] = "loop", phase[l] = "exec", ContinueAsNew(l)
      PROVE  scope'[s].gen = 1
  <2>1. s \notin Below(l) /\ phase[s] # "idle" /\ s # l
      BY <1>2, SpawnedNodes, BelowStep DEF ContinueAsNew
  <2> QED
      BY <1>2, <2>1, Outside DEF Generations
<1> QED
    BY <1>1, <1>2, KeepsOrRestarts

-----------------------------------------------------------------------------
(* Who is stamped failed. *)

\* A loop its parent has to stamp failed: a child it cancelled, or one that
\* returned an error.
Owed(c) ==
    /\ Kind[c] = "loop" /\ phase[c] # "idle"
    /\ Kept(c) => phase[c] = "done" /\ out[c] \in {"app", "fail"}
OwedBy(p) ==
    /\ fb[p] \in Seq(Children(p)) /\ fb[p] # <<>>
    /\ \A i \in 1 .. Len(fb[p]) : Owed(fb[p][i])
Owes == \A p \in Nodes : phase[p] = "stamping" => OwedBy(p)

\* A failed child is owed its stamp; it stays as it is while its parent decides.
LEMMA FailedIsOwed ==
    ASSUME GInv, NEW n \in Nodes, phase[n] # "done", NEW c \in Children(n), Returned(c),
           NEW result, Decide(n, result, FailedLoop(c)), UNCHANGED scope
    PROVE  phase'[n] = "stamping" => OwedBy(n)'
<1>1. c \in Nodes /\ c # n /\ phase'[c] = phase[c] /\ out'[c] = out[c]
    BY ParentOfChild DEF Decide, GInv, TypeOK, Returned
<1>2. fb'[n] = FailedLoop(c)
    BY DEF Decide, GInv, TypeOK
<1>3. CASE ~(Kind[c] = "loop" /\ out[c] \in {"app", "fail"})
    BY <1>3 DEF Decide, FailedLoop, GInv, TypeOK
<1>4. CASE Kind[c] = "loop" /\ out[c] \in {"app", "fail"}
  <2>1. fb'[n] = <<c>>
      BY <1>2, <1>4 DEF FailedLoop
  <2>2. Owed(c)'
      BY <1>1, <1>4 DEF Owed, Kept, Returned
  <2>3. /\ <<c>> \in Seq(Children(n)) /\ <<c>> # <<>> /\ Len(<<c>>) = 1 /\ <<c>>[1] = c
      OBVIOUS
  <2>4. \A i \in 1 .. Len(fb'[n]) : Owed(fb[n][i])'
      BY <2>1, <2>2, <2>3
  <2> QED
      BY <2>1, <2>3, <2>4 DEF OwedBy, Children, Range
<1> QED
    BY <1>3, <1>4

\* A RACE owes its losing loop a stamp, and a winning one that failed.
LEMMA RaceOwes ==
    ASSUME GInv, NEW n \in Nodes, RaceStep(n)
    PROVE  phase'[n] = "stamping" => OwedBy(n)'
<1>1. PICK winner, loser \in Children(n) :
        /\ winner # loser /\ Returned(winner)
        /\ Decide(n, out[winner],
                  (IF Kind[loser] = "loop" THEN <<loser>> ELSE <<>>) \o FailedLoop(winner))
        /\ scope' = [scope EXCEPT ![loser].life = IF @ = "live" THEN "doomed" ELSE "dropped"]
    BY DEF RaceStep
<1> DEFINE first == IF Kind[loser] = "loop" THEN <<loser>> ELSE <<>>
           second == FailedLoop(winner)
<1>2. Kind[n] = "race" /\ phase[n] = "exec"
    BY DEF RaceStep, Waiting
<1>3. /\ winner \in Nodes /\ loser \in Nodes /\ winner # n /\ loser # n
      /\ winner \in Spawned /\ loser \in Spawned /\ phase[loser] # "idle"
  <2>1. \A c \in Children(n) : c \in Nodes \ {Root} /\ Parent(c) = n
      BY ParentOfChild
  <2>2. \A c \in Children(n) : c # n
      BY <2>1, NoCycle, UpwardClosed
  <2> QED
      BY <1>1, <1>2, <2>1, <2>2, SpawnedNodes DEF GInv, AllStarted
<1>4. /\ phase'[winner] = "done" /\ phase'[loser] # "idle" /\ out'[winner] = out[winner]
      /\ fb'[n] = first \o second /\ (phase'[n] = "stamping" => first \o second # <<>>)
    BY <1>1, <1>2, <1>3 DEF Decide, GInv, TypeOK, Returned
<1>5. scope'[loser].life \in {"doomed", "dropped"}
  <2>1. scope[loser] \in [inst : Lineage, gen : Nat \ {0},
                              life : {"none", "live", "doomed", "ended", "dropped"}]
        /\ DOMAIN scope = Spawned
      BY <1>3 DEF GInv, TypeOK
  <2> QED
      BY <1>1, <1>3, <2>1
<1>6. first \in Seq(Children(n)) /\ \A i \in 1 .. Len(first) : Owed(loser)' /\ first[i] = loser
  <2>1. Kind[loser] = "loop" => Owed(loser)'
      BY <1>3, <1>4, <1>5, SpawnedNodes DEF Owed, Kept, Spawned
  <2> QED
      BY <2>1
<1>7. second \in Seq(Children(n)) /\ \A i \in 1 .. Len(second) : Owed(winner)' /\ second[i] = winner
  <2>1. Kind[winner] = "loop" /\ out[winner] \in {"app", "fail"} => Owed(winner)'
      BY <1>4 DEF Owed
  <2> QED
      BY <2>1 DEF FailedLoop
<1>8. /\ fb'[n] \in Seq(Children(n))
      /\ \A i \in 1 .. Len(fb'[n]) : \/ fb'[n][i] = loser /\ Owed(loser)'
                                     \/ fb'[n][i] = winner /\ Owed(winner)'
  <2> DEFINE C == Children(n)
  <2> HIDE DEF first, second, C
  <2>1. first \in Seq(C) /\ second \in Seq(C)
      BY <1>6, <1>7 DEF C
  <2>2. /\ first \o second \in Seq(C) /\ Len(first \o second) = Len(first) + Len(second)
        /\ Len(first) \in Nat /\ Len(second) \in Nat
        /\ \A i \in 1 .. Len(first) + Len(second) :
              (first \o second)[i] = IF i <= Len(first) THEN first[i] ELSE second[i - Len(first)]
      BY <2>1, ConcatProperties
  <2>3. ASSUME NEW i \in 1 .. Len(first) + Len(second)
        PROVE  \/ (first \o second)[i] = loser /\ Owed(loser)'
               \/ (first \o second)[i] = winner /\ Owed(winner)'
    <3>1. CASE i <= Len(first)
        BY <1>6, <2>2, <3>1
    <3>2. CASE ~(i <= Len(first))
      <4>1. i - Len(first) \in 1 .. Len(second)
          BY <2>2, <3>2
      <4> QED
          BY <1>7, <2>2, <3>2, <4>1
    <3> QED
        BY <3>1, <3>2
  <2> QED
      BY <1>4, <2>2, <2>3 DEF C
<1>9. \A i \in 1 .. Len(fb'[n]) : Owed(fb[n][i])'
    BY <1>8
<1> QED
    BY <1>4, <1>8, <1>9 DEF OwedBy, Children, Range

\* What is owed stays owed while the parent stamps.
LEMMA OwedStep ==
    ASSUME GInv, [SignalNext]_<<vars, sigvars>>, NEW p \in Nodes, phase[p] = "stamping",
           phase'[p] = "stamping", NEW c \in Children(p), Owed(c)
    PROVE  Owed(c)'
<1>1. c \in Nodes \ {Root} /\ Parent(c) = p /\ c \in Spawned
    BY ParentOfChild, SpawnedNodes DEF Owed
<1>2. CASE Keeps
  <2>1. phase'[c] # "idle" /\ (Kept(c)' => Kept(c))
      BY <1>1, <1>2 DEF Keeps, Owed, Kept, Spawned
  <2>2. phase[c] = "done" => phase'[c] = "done" /\ out'[c] = out[c]
      BY <1>1, <1>2 DEF Keeps, Decided
  <2> QED
      BY <2>1, <2>2 DEF Owed
<1>3. ASSUME NEW l \in Nodes, Kind[l] = "loop", phase[l] = "exec", ContinueAsNew(l) PROVE Owed(c)'
  <2>1. p # l /\ p \notin Below(l)
      BY <1>3 DEF ContinueAsNew
  <2>2. c \notin Below(l)
      BY <1>1, <2>1, BelowStep
  <2>3. scope'[c].life = scope[c].life /\ phase'[c] # "idle" /\ out'[c] = out[c]
        /\ (c # l => phase'[c] = phase[c])
      BY <1>1, <1>3, <2>2, Outside DEF ContinueAsNew, Owed
  <2> QED
      BY <1>1, <1>3, <2>3 DEF Owed, Kept, Spawned
<1> QED
    BY <1>2, <1>3, KeepsOrRestarts

\* How a step changes what a node owes.
LEMMA FbDoes ==
    ASSUME GInv, [SignalNext]_<<vars, sigvars>>, NEW p \in Nodes, phase'[p] = "stamping"
    PROVE  \/ phase[p] = "stamping" /\ fb'[p] = fb[p]
           \/ StampLoop(p)
           \/ OwedBy(p)'
<1> DEFINE Goal == \/ phase[p] = "stamping" /\ fb'[p] = fb[p]
                   \/ StampLoop(p)
                   \/ OwedBy(p)'
<1> HIDE DEF Goal
<1>1. ASSUME UNCHANGED <<phase, fb>> PROVE Goal
    BY <1>1 DEF Goal
<1>2. ASSUME NEW n \in Nodes, NEW kids, StartKids(n, kids), UNCHANGED fb PROVE Goal
    BY <1>2 DEF StartKids, Goal
<1>3. ASSUME NEW n \in Nodes, NEW result, Decide(n, result, <<>>) PROVE Goal
    BY <1>3 DEF Decide, Goal, GInv, TypeOK
<1>4. ASSUME NEW n \in Nodes, phase[n] # "done", NEW c \in Children(n), Returned(c),
             NEW result, Decide(n, result, FailedLoop(c)), UNCHANGED scope
      PROVE  Goal
  <2>1. CASE p = n
      BY <1>4, <2>1, FailedIsOwed DEF Goal
  <2>2. CASE p # n
      BY <1>4, <2>2 DEF Decide, Goal, GInv, TypeOK
  <2> QED
      BY <2>1, <2>2
<1>5. ASSUME NEW n \in Nodes, RaceStep(n) PROVE Goal
  <2>1. CASE p = n
      BY <1>5, <2>1, RaceOwes DEF Goal
  <2>2. CASE p # n
      BY <1>5, <2>2 DEF RaceStep, Decide, Goal, GInv, TypeOK
  <2> QED
      BY <2>1, <2>2
<1>6. ASSUME NEW l \in Nodes, ContinueAsNew(l) PROVE Goal
    BY <1>6 DEF ContinueAsNew, Goal
<1>7. ASSUME NEW n \in Nodes, Enter(n) \/ EnterAndReturn(n) \/ EnterIfRows(n) \/ LeafReturns(n)
      PROVE  Goal
    BY <1>2, <1>3, <1>7 DEF Enter, EnterAndReturn, EnterIfRows, LeafReturns
<1>8. ASSUME NEW n \in Nodes, ThenStep(n) \/ IfStep(n) \/ IfRowsStep(n) PROVE Goal
  <2>1. Kind[n] \in {"then", "if"} => Kids[n][1] \in Children(n) /\ Kids[n][2] \in Children(n)
      BY ChildrenByKind
  <2>2. Kind[n] = "if" => Kids[n][3] \in Children(n)
      BY ChildrenByKind
  <2>3. \/ \E kids : StartKids(n, kids) /\ UNCHANGED fb
        \/ \E result : Decide(n, result, <<>>)
        \/ phase[n] # "done" /\ \E c \in Children(n) : Returned(c) /\ Propagate(n, c)
      BY <1>8, <2>1, <2>2 DEF ThenStep, IfStep, IfRowsStep, Waiting
  <2> QED
      BY <1>2, <1>3, <1>4, <2>3 DEF Propagate
<1>9. ASSUME NEW n \in Nodes, JoinStep(n) PROVE Goal
  <2>1. \A c \in SelectedError(n) : c \in Children(n)
      BY DEF SelectedError, Children, Range
  <2>2. \/ \E result : Decide(n, result, <<>>)
        \/ phase[n] # "done" /\ \E c \in Children(n) : Returned(c) /\ Propagate(n, c)
      BY <1>9, <2>1 DEF JoinStep, Waiting
  <2> QED
      BY <1>3, <1>4, <2>2 DEF Propagate
<1>10. ASSUME NEW l \in Nodes, LoopBodyReturns(l) \/ LoopConditionReturns(l) PROVE Goal
  <2>1. phase[l] = "exec" /\ Kind[l] = "loop"
      BY <1>10 DEF LoopBodyReturns, LoopConditionReturns, Waiting
  <2>2. Body(l) \in Children(l) /\ (HasCondition(l) => Kids[l][2] \in Children(l))
      BY <2>1, ChildrenByKind DEF Body
  <2>3. \/ \E kids : StartKids(l, kids) /\ UNCHANGED fb
        \/ \E result : Decide(l, result, <<>>)
        \/ ContinueAsNew(l)
        \/ \E c \in Children(l) : /\ Returned(c) /\ UNCHANGED scope
                                  /\ \E result : Decide(l, result, FailedLoop(c))
      BY <1>10, <2>2 DEF LoopBodyReturns, LoopConditionReturns, NextIteration
  <2> QED
      BY <1>2, <1>3, <1>4, <1>6, <2>1, <2>3
<1>11. ASSUME NEW n \in Nodes, StampLoop(n) \/ Leave(n) PROVE Goal
    BY <1>11 DEF StampLoop, Leave, Goal, GInv, TypeOK
<1>12. ASSUME CancelInstance \/ LateWrite \/ \E s \in Spawned : Reap(s) PROVE Goal
    BY <1>1, <1>12 DEF CancelInstance, LateWrite, Reap
<1>13. ASSUME Next PROVE Goal
    BY <1>1, <1>5, <1>7, <1>8, <1>9, <1>10, <1>11, <1>12, <1>13 DEF Next, NodeStep, Settled, vars
<1>14. ASSUME ~Next PROVE Goal
    BY <1>1, <1>3, <1>14, SignalDoes DEF SignalNext, vars
<1> QED
    BY <1>13, <1>14 DEF Goal

\* So handlers stamp only what they owe.
LEMMA OwesStep ==
    ASSUME GInv, Owes, [SignalNext]_<<vars, sigvars>>
    PROVE  Owes'
<1> SUFFICES ASSUME NEW p \in Nodes, phase'[p] = "stamping" PROVE OwedBy(p)'
    BY DEF Owes
<1>1. CASE phase[p] = "stamping" /\ fb'[p] = fb[p]
  <2>1. OwedBy(p)
      BY <1>1 DEF Owes
  <2>2. \A i \in 1 .. Len(fb[p]) : fb[p][i] \in Children(p) /\ Owed(fb[p][i])
      BY <2>1 DEF OwedBy
  <2>3. \A c \in Children(p) : Owed(c) => Owed(c)'
      BY <1>1, OwedStep
  <2>4. \A i \in 1 .. Len(fb'[p]) : Owed(fb[p][i])'
      BY <1>1, <2>2, <2>3
  <2> QED
      BY <1>1, <2>1, <2>4 DEF OwedBy, Children, Range
<1>2. CASE StampLoop(p)
  <2>1. phase[p] = "stamping" /\ fb'[p] = Tail(fb[p]) /\ Len(fb[p]) # 1
      BY <1>2 DEF StampLoop, GInv, TypeOK
  <2>2. OwedBy(p)
      BY <2>1 DEF Owes
  <2>3. /\ fb[p] \in Seq(Children(p)) /\ fb[p] # <<>>
        /\ \A i \in 1 .. Len(fb[p]) : fb[p][i] \in Children(p) /\ Owed(fb[p][i])
      BY <2>2 DEF OwedBy
  <2>4. /\ Tail(fb[p]) \in Seq(Children(p)) /\ Len(Tail(fb[p])) = Len(fb[p]) - 1
        /\ Len(fb[p]) \in Nat /\ Len(fb[p]) # 0
        /\ \A i \in 1 .. Len(Tail(fb[p])) : Tail(fb[p])[i] = fb[p][i + 1]
      BY <2>3, HeadTailProperties, EmptySeq
  <2>5. Tail(fb[p]) # <<>>
    <3>1. Len(Tail(fb[p])) # 0
        BY <2>1, <2>4
    <3> QED
        BY <2>4, <3>1, EmptySeq
  <2>6. \A c \in Children(p) : Owed(c) => Owed(c)'
      BY <2>1, OwedStep
  <2>7. \A i \in 1 .. Len(fb'[p]) : Owed(fb[p][i])'
    <3> SUFFICES ASSUME NEW i \in 1 .. Len(fb'[p]) PROVE Owed(fb[p][i])'
        OBVIOUS
    <3>1. i + 1 \in 1 .. Len(fb[p]) /\ fb'[p][i] = fb[p][i + 1]
        BY <2>1, <2>4
    <3> QED
        BY <2>3, <2>6, <3>1
  <2> QED
      BY <2>1, <2>4, <2>5, <2>7 DEF OwedBy, Children, Range
<1> QED
    BY <1>1, <1>2, FbDoes

-----------------------------------------------------------------------------
(* Rows. *)

\* A node that does not leave "marking" or return in this step.
Rests(m) ==
    /\ phase'[m] \notin {"idle", "marking"} => phase[m] \notin {"idle", "marking"}
    /\ phase'[m] = "done" => phase[m] = "done"

\* Which steps write rows, and which leave writes in flight.
LEMMA RowsDo ==
    ASSUME GInv, [SignalNext]_<<vars, sigvars>>
    PROVE  \/ \E n \in Nodes : /\ phase[n] = "marking" /\ AwaitWrite(n) /\ late' = late
                               /\ phase'[n] # "done" /\ \A m \in Nodes \ {n} : Rests(m)
           \/ \E n \in Nodes : StampLoop(n) \/ Leave(n)
           \/ LateWrite
           \/ /\ rows' = rows /\ \A m \in Nodes : Rests(m)
              /\ \/ late' = late
                 \/ \E r \in Spawned : Reap(r)
                 \/ \E l \in Nodes : Kind[l] = "loop" /\ phase[l] = "exec" /\ ContinueAsNew(l)
<1> DEFINE Marks == \E n \in Nodes : /\ phase[n] = "marking" /\ AwaitWrite(n) /\ late' = late
                                     /\ phase'[n] # "done" /\ \A m \in Nodes \ {n} : Rests(m)
           Quiet == /\ rows' = rows /\ \A m \in Nodes : Rests(m)
                    /\ \/ late' = late
                       \/ \E r \in Spawned : Reap(r)
                       \/ \E l \in Nodes : Kind[l] = "loop" /\ phase[l] = "exec" /\ ContinueAsNew(l)
<1>1. ASSUME UNCHANGED <<phase, rows, late>> PROVE Quiet
    BY <1>1 DEF Rests
<1>2. ASSUME NEW n \in Nodes, NEW kids, StartKids(n, kids)
      PROVE  phase'[n] # "done" /\ \A m \in Nodes \ {n} : Rests(m)
    BY <1>2 DEF StartKids, Rests
<1>3. ASSUME NEW n \in Nodes, NEW result, NEW stamps, Decide(n, result, stamps)
      PROVE  phase'[n] # "done" /\ \A m \in Nodes \ {n} : Rests(m)
    BY <1>3 DEF Decide, Rests, GInv, TypeOK
<1>4. ASSUME NEW n \in Nodes, Enter(n) \/ EnterAndReturn(n) \/ EnterIfRows(n) PROVE Marks
  <2>1. phase[n] = "marking" /\ AwaitWrite(n) /\ late' = late
      BY <1>4 DEF Enter, EnterAndReturn, EnterIfRows, MarkRunning
  <2>2. (\E kids : StartKids(n, kids)) \/ (\E result, stamps : Decide(n, result, stamps))
      BY <1>4 DEF Enter, EnterAndReturn, EnterIfRows
  <2> QED
      BY <1>2, <1>3, <2>1, <2>2
<1>5. ASSUME NEW n \in Nodes, phase[n] = "exec", UNCHANGED <<rows, late>>,
             (\E kids : StartKids(n, kids)) \/ (\E result, stamps : Decide(n, result, stamps))
      PROVE  Quiet
  <2>1. phase'[n] # "done" /\ \A m \in Nodes \ {n} : Rests(m)
      BY <1>2, <1>3, <1>5
  <2>2. Rests(n)
      BY <1>5, <2>1 DEF Rests
  <2> QED
      BY <1>5, <2>1, <2>2
<1>6. ASSUME NEW n \in Nodes, LeafReturns(n) \/ ThenStep(n) \/ IfStep(n) \/ IfRowsStep(n)
                              \/ JoinStep(n) \/ RaceStep(n)
      PROVE  Quiet
  <2>1. phase[n] = "exec" /\ UNCHANGED <<rows, late>>
      BY <1>6 DEF LeafReturns, ThenStep, IfStep, IfRowsStep, JoinStep, RaceStep, Waiting
  <2>2. (\E kids : StartKids(n, kids)) \/ (\E result, stamps : Decide(n, result, stamps))
      BY <1>6 DEF LeafReturns, ThenStep, IfStep, IfRowsStep, JoinStep, RaceStep, Propagate
  <2> HIDE DEF Quiet
  <2> QED
      BY <1>5, <2>1, <2>2
<1>7. ASSUME NEW l \in Nodes, LoopBodyReturns(l) \/ LoopConditionReturns(l) PROVE Quiet
  <2>1. phase[l] = "exec" /\ Kind[l] = "loop" /\ rows' = rows
      BY <1>7 DEF LoopBodyReturns, LoopConditionReturns, Waiting
  <2>2. \/ ContinueAsNew(l)
        \/ /\ UNCHANGED late
           /\ (\E kids : StartKids(l, kids)) \/ (\E result, stamps : Decide(l, result, stamps))
      BY <1>7 DEF LoopBodyReturns, LoopConditionReturns, NextIteration
  <2>3. CASE ContinueAsNew(l)
    <3>1. \A m \in Nodes : Rests(m)
        BY <2>1, <2>3 DEF ContinueAsNew, Rests
    <3> QED
        BY <2>1, <2>3, <3>1
  <2> HIDE DEF Quiet
  <2> QED
      BY <1>5, <2>1, <2>2, <2>3 DEF Quiet
<1>8. ASSUME NEW r \in Spawned, Reap(r) PROVE Quiet
    BY <1>8 DEF Reap, Rests
<1>9. ASSUME CancelInstance PROVE Quiet
    BY <1>1, <1>9 DEF CancelInstance
<1>10. ASSUME NEW n \in Nodes, Waiting(n, "signal"), Decide(n, "ok", <<>>), UNCHANGED <<scope, rows, late>>
       PROVE  Quiet
    BY <1>5, <1>10 DEF Waiting
<1> HIDE DEF Quiet, Marks
<1>11. ASSUME Next PROVE Marks \/ (\E n \in Nodes : StampLoop(n) \/ Leave(n)) \/ LateWrite \/ Quiet
    BY <1>1, <1>4, <1>6, <1>7, <1>8, <1>9, <1>11 DEF Next, NodeStep, Settled, vars
<1>12. ASSUME ~Next PROVE Quiet
    BY <1>1, <1>10, <1>12, SignalDoes DEF SignalNext, vars
<1> QED
    BY <1>11, <1>12 DEF Quiet, Marks

\* What a step does to a node that goes on.
LEMMA GoesOn ==
    ASSUME GInv, [SignalNext]_<<vars, sigvars>>, NEW m \in Nodes, phase[m] # "idle",
           phase'[m] \notin {"idle", "marking"}
    PROVE  /\ Stamp(m)' = Stamp(m)
           /\ Honoured(m)' => Honoured(m)
           /\ phase[m] = "done" => out'[m] = out[m]
<1>1. Owner[m] \in Spawned /\ Owner[m] \in Nodes /\ (m = Owner[m] \/ m \in Below(Owner[m]))
    BY OwnerStep, BelowStep
<1>2. phase[Owner[m]] # "idle"
    BY <1>1, IdleBelow
<1>3. \A a \in Upward[m] \cap Spawned : phase[a] # "idle"
  <2> SUFFICES ASSUME NEW a \in Upward[m] \cap Spawned PROVE phase[a] # "idle"
      OBVIOUS
  <2>1. a \in Nodes /\ (a = m \/ m \in Below(a))
      BY SpawnedNodes, BelowStep
  <2> QED
      BY <2>1, IdleBelow
<1>4. CASE Keeps
  <2>1. Stamp(m)' = Stamp(m)
      BY <1>1, <1>2, <1>4 DEF Keeps, Stamp
  <2>2. Honoured(m)' => Honoured(m)
      BY <1>3, <1>4 DEF Keeps, Honoured, Upward, UpClosed, Spawned
  <2> QED
      BY <1>4, <2>1, <2>2 DEF Keeps, Decided
<1>5. ASSUME NEW l \in Nodes, Kind[l] = "loop", phase[l] = "exec", ContinueAsNew(l)
      PROVE  /\ Stamp(m)' = Stamp(m) /\ (Honoured(m)' => Honoured(m)) /\ out'[m] = out[m]
  <2>1. m \notin Below(l) /\ m # l
      BY <1>5 DEF ContinueAsNew
  <2>2. l \notin Upward[m]
      BY <1>5, <2>1, BelowStep
  <2>3. \A a \in Upward[m] \cap Spawned : a \notin Below(l) /\ a # l
    <3> SUFFICES ASSUME NEW a \in Upward[m] \cap Spawned PROVE a \notin Below(l) /\ a # l
        OBVIOUS
    <3>1. a \in Nodes /\ Upward[a] \subseteq Upward[m]
        BY SpawnedNodes, UpwardClosed
    <3> QED
        BY <2>2, <3>1, BelowStep
  <2>4. \A a \in Upward[m] \cap Spawned : /\ scope'[a].inst = scope[a].inst /\ scope'[a].gen = scope[a].gen
                                          /\ scope'[a].life = scope[a].life
      BY <1>5, <2>3, Outside
  <2>5. Stamp(m)' = Stamp(m)
      BY <1>1, <2>4, OwnerStep DEF Stamp
  <2>6. Honoured(m)' => Honoured(m)
      BY <2>4 DEF Honoured, Upward, UpClosed, Spawned
  <2> QED
      BY <1>5, <2>1, <2>5, <2>6 DEF ContinueAsNew
<1> QED
    BY <1>4, <1>5, KeepsOrRestarts

\* A write in flight that no step of its node can follow: its incarnation is
\* over, or its node is in a cancelled branch.
Adrift(n, w) ==
    \E g, h :
        /\ Built(Owner[n], g, h) /\ h[Owner[n]] = w.inst /\ g[Owner[n]] = w.gen
        /\ \A a \in Above(Owner[n]) : g[a] # 0
        /\ Past(Owner[n], g) \/ (Same(Owner[n], g, h) /\ phase[n] # "idle" /\ ~Honoured(n))

\* Rows carry stamps of their nodes; what is in flight is adrift; and the row of
\* a node that counts is the node's, from its first write to its last.
Unwritten == [status |-> "pending", stamp |-> NoStamp]
RowStamps == \A n \in Nodes : rows[n] = Unwritten \/ Stamped(n, rows[n].stamp)
LateWrites == \A w \in late : w.node \in Nodes /\ Adrift(w.node, w.stamp)
RowsFollow ==
    \A n \in Nodes \ LossyNodes : phase[n] \notin {"idle", "marking"} /\ Honoured(n) =>
        /\ rows[n].stamp = Stamp(n)
        /\ phase[n] = "done" => rows[n].status = Recorded(out[n])

DInv ==
    /\ DOMAIN rows = Nodes
    /\ Generations
    /\ Owes
    /\ RowStamps
    /\ LateWrites
    /\ RowsFollow

\* It stays adrift.
LEMMA AdriftStep ==
    ASSUME GInv, [SignalNext]_<<vars, sigvars>>, NEW n \in Nodes, NEW w, Adrift(n, w)
    PROVE  Adrift(n, w)' /\ Stamped(n, w)
<1> DEFINE o == Owner[n]
<1>1. PICK g, h : /\ Built(o, g, h) /\ h[o] = w.inst /\ g[o] = w.gen
                  /\ \A a \in Above(o) : g[a] # 0
                  /\ Past(o, g) \/ (Same(o, g, h) /\ phase[n] # "idle" /\ ~Honoured(n))
    BY DEF Adrift
<1>2. o \in Spawned /\ g \in [Above(o) -> Nat]
    BY <1>1, OwnerStep DEF Built
<1>3. Past(o, g)' \/ (Same(o, g, h)' /\ phase'[n] # "idle" /\ ~Honoured(n)')
    BY <1>1, <1>2, PastStep, PathStep
<1>4. Adrift(n, w)'
    BY <1>1, <1>3 DEF Adrift, Built, Above, Spawned, Lineage
<1>5. Stamped(n, w)
    BY <1>1 DEF Stamped
<1> QED
    BY <1>4, <1>5

\* The stamp a parent gives a loop child: the first generation of its current
\* instance.
LEMMA FirstStamp ==
    ASSUME GInv, Chain, NEW p \in Nodes, NEW c \in Children(p), Kind[c] = "loop", phase[c] # "idle",
           NEW w, w = [inst |-> subtree_instance(c), gen |-> 1]
    PROVE  /\ Stamped(c, w)
           /\ w = Stamp(c) \/ incoming_stamp_is_superseded(w, Stamp(c))
<1>1. c \in Nodes \ {Root} /\ c \in Spawned /\ Owner[c] = c
    BY ParentOfChild, SpawnedNodes, OwnerStep
<1>2. /\ c \in Above(c) /\ Built(c, NowG(c), NowH(c)) /\ Same(c, NowG(c), NowH(c))
      /\ \A a \in Above(c) : /\ NowG(c)[a] = scope[a].gen /\ NowH(c)[a] = scope[a].inst
                             /\ scope[a].gen \in Nat \ {0} /\ phase[a] # "idle"
    BY <1>1, Now
<1>3. w.inst = scope[c].inst /\ w.gen = 1 /\ Stamp(c) = [inst |-> scope[c].inst, gen |-> scope[c].gen]
    BY <1>1 DEF Chain, Stamp
<1> DEFINE g == [a \in Above(c) |-> IF a = c THEN 1 ELSE scope[a].gen]
           h == NowH(c)
<1>4. Built(c, g, h)
  <2>1. g \in [Above(c) -> Nat]
      BY <1>2
  <2>2. \A a \in Above(c) \ {Root} : Owner[Parent(a)] \in Above(c) /\ Owner[Parent(a)] # c
    <3> SUFFICES ASSUME NEW a \in Above(c) \ {Root}
                 PROVE  Owner[Parent(a)] \in Above(c) /\ Owner[Parent(a)] # c
        OBVIOUS
    <3>1. Owner[Parent(a)] \in Above(c) /\ a \in Spawned
        BY <1>1, AboveFacts
    <3>2. a \notin Above(Owner[Parent(a)])
        BY <3>1, AboveStep
    <3> QED
        BY <3>1, <3>2
  <2> QED
      BY <1>2, <2>1, <2>2 DEF Built
<1>5. \A a \in Above(c) : g[a] # 0 /\ scope[a].gen >= g[a]
    BY <1>2
<1>6. g[c] = w.gen /\ h[c] = w.inst
    BY <1>2, <1>3
<1>7. CASE scope[c].gen = 1
  <2>1. w = Stamp(c)
      BY <1>3, <1>7
  <2>2. Same(c, g, h)
      BY <1>2, <1>7 DEF Same
  <2> HIDE DEF g, h
  <2> QED
      BY <1>1, <1>4, <1>5, <1>6, <2>1, <2>2 DEF Stamped
<1>8. CASE scope[c].gen # 1
  <2>1. Past(c, g)
    <3>1. scope[c].gen > g[c] /\ Above(c) \subseteq Above(c)
        BY <1>2, <1>8
    <3> HIDE DEF g
    <3> QED
        BY <1>2, <1>5, <3>1 DEF Past
  <2> HIDE DEF g, h
  <2>2. Stamped(c, w)
      BY <1>1, <1>4, <1>5, <1>6, <2>1 DEF Stamped
  <2>3. incoming_stamp_is_superseded(w, Stamp(c))
      BY <1>1, <1>4, <1>6, <2>1, PastIsFenced
  <2> QED
      BY <2>2, <2>3
<1> QED
    BY <1>7, <1>8

\* What a handler writes carries a stamp of the node it is about, and that node
\* is the handler's own or a child of it.
LEMMA WriteIsStamped ==
    ASSUME GInv, Chain, Owes, NEW m \in Nodes, NEW w \in WritesOf(m)
    PROVE  /\ w.node \in Nodes /\ (w.node = m \/ w.node \in Children(m))
           /\ Stamped(w.node, w.stamp)
<1>1. CASE phase[m] \in {"marking", "ending"}
  <2>1. w.node = m /\ w.stamp = Stamp(m)
      BY <1>1 DEF WritesOf
  <2>2. /\ Built(Owner[m], NowG(Owner[m]), NowH(Owner[m]))
        /\ Same(Owner[m], NowG(Owner[m]), NowH(Owner[m]))
        /\ Stamp(m).inst = NowH(Owner[m])[Owner[m]] /\ Stamp(m).gen = NowG(Owner[m])[Owner[m]]
        /\ \A a \in Above(Owner[m]) : NowG(Owner[m])[a] # 0
      BY <1>1, Now
  <2> QED
      BY <1>1, <2>1, <2>2 DEF Stamped
<1>2. CASE phase[m] = "stamping"
  <2>1. OwedBy(m)
      BY <1>2 DEF Owes
  <2>2. Head(fb[m]) \in Children(m) /\ Owed(Head(fb[m]))
    <3>1. fb[m] \in Seq(Children(m)) /\ fb[m] # <<>> /\ \A i \in 1 .. Len(fb[m]) : Owed(fb[m][i])
        BY <2>1 DEF OwedBy
    <3>2. Len(fb[m]) \in Nat /\ Len(fb[m]) # 0 /\ Head(fb[m]) = fb[m][1] /\ Head(fb[m]) \in Children(m)
        BY <3>1, EmptySeq, HeadTailProperties
    <3> QED
        BY <3>1, <3>2
  <2>3. w.node = Head(fb[m]) /\ w.stamp = [inst |-> subtree_instance(Head(fb[m])), gen |-> 1]
      BY <1>2 DEF WritesOf
  <2>4. Kind[Head(fb[m])] = "loop" /\ phase[Head(fb[m])] # "idle"
      BY <2>2 DEF Owed
  <2>5. Stamped(w.node, w.stamp)
      BY <2>2, <2>3, <2>4, FirstStamp
  <2> QED
      BY <2>2, <2>3, <2>5, ParentOfChild
<1> QED
    BY <1>1, <1>2 DEF WritesOf

\* A stamped write is adrift once its node is in a cancelled branch, or below a
\* loop that has started its next generation.
LEMMA CutAdrift ==
    ASSUME GInv, [SignalNext]_<<vars, sigvars>>, NEW n \in Nodes, NEW w, Stamped(n, w),
           \/ ~Honoured(n)'
           \/ \E l \in Nodes : /\ Kind[l] = "loop" /\ phase[l] = "exec" /\ ContinueAsNew(l)
                               /\ n \in Below(l)
    PROVE  Adrift(n, w)'
<1> DEFINE o == Owner[n]
<1>1. PICK g, h : /\ Built(o, g, h) /\ h[o] = w.inst /\ g[o] = w.gen
                  /\ \A a \in Above(o) : g[a] # 0
                  /\ Past(o, g) \/ (Same(o, g, h) /\ phase[n] # "idle")
    BY DEF Stamped
<1>2. o \in Spawned /\ g \in [Above(o) -> Nat]
    BY <1>1, OwnerStep DEF Built
<1>3. ASSUME Same(o, g, h), phase[n] # "idle"
      PROVE  Past(o, g)' \/ (Same(o, g, h)' /\ phase'[n] # "idle" /\ ~Honoured(n)')
  <2>1. CASE ~Honoured(n)'
      BY <1>1, <1>3, <2>1, PathStep
  <2>2. ASSUME NEW l \in Nodes, Kind[l] = "loop", phase[l] = "exec", ContinueAsNew(l), n \in Below(l)
        PROVE  Past(o, g)'
    <3>1. l \in Above(o)
        BY <2>2, BelowStep, SpawnedNodes, OwnerStep DEF Above
    <3>2. \A b \in Above(l) : b \in Above(o)
        BY <1>2, <3>1, AboveFacts
    <3>3. \A b \in Above(l) : scope[b].gen >= g[b]
      <4>1. \A b \in Above(o) : scope[b].gen = g[b] /\ g[b] \in Nat
          BY <1>2, <1>3 DEF Same
      <4> QED
          BY <3>2, <4>1
    <3> QED
        BY <1>2, <2>2, <3>1, <3>3, RestartIsLater
  <2> QED
      BY <2>1, <2>2
<1>4. Past(o, g)' \/ (Same(o, g, h)' /\ phase'[n] # "idle" /\ ~Honoured(n)')
    BY <1>1, <1>2, <1>3, PastStep
<1> QED
    BY <1>1, <1>4 DEF Adrift, Built, Above, Spawned, Lineage

\* What the activity does to the rows.
LEMMA UpdateDoes ==
    ASSUME NEW w, DOMAIN rows = Nodes, update_node_status(w) \/ rows' = rows
    PROVE  /\ DOMAIN rows' = Nodes
           /\ \A m \in Nodes : rows'[m] = rows[m]
                               \/ (m = w.node /\ rows'[m] = [status |-> w.status, stamp |-> w.stamp])
           /\ w.node \in Nodes /\ incoming_stamp_is_superseded(w.stamp, rows[w.node].stamp) =>
                 rows'[w.node] = rows[w.node]
           /\ w.node \in Nodes /\ ~incoming_stamp_is_superseded(w.stamp, rows[w.node].stamp)
                 /\ update_node_status(w) =>
                 rows'[w.node] = [status |-> w.status, stamp |-> w.stamp]
BY DEF update_node_status

\* Rows keep to the stamps of their nodes.
LEMMA RowStampsStep ==
    ASSUME GInv, Chain, DInv, [SignalNext]_<<vars, sigvars>>
    PROVE  DOMAIN rows' = Nodes /\ RowStamps'
<1>0. DOMAIN rows = Nodes /\ Owes /\ RowStamps /\ LateWrites
    BY DEF DInv
<1>1. \A m \in Nodes : \A v : Stamped(m, v) => Stamped(m, v)'
    BY StampedStep
<1>2. ASSUME NEW w, w.node \in Nodes, Stamped(w.node, w.stamp), update_node_status(w) \/ rows' = rows
      PROVE  DOMAIN rows' = Nodes /\ RowStamps'
  <2>1. DOMAIN rows' = Nodes
      BY <1>0, <1>2, UpdateDoes
  <2>2. Stamped(w.node, w.stamp)'
      BY <1>2, StampedStep
  <2>3. \A m \in Nodes : rows'[m] = rows[m]
                         \/ (m = w.node /\ rows'[m] = [status |-> w.status, stamp |-> w.stamp])
      BY <1>0, <1>2, UpdateDoes
  <2>4. ASSUME NEW m \in Nodes PROVE rows'[m] = Unwritten \/ Stamped(m, rows[m].stamp)'
      BY <1>0, <1>1, <2>2, <2>3 DEF RowStamps
  <2> QED
      BY <2>1, <2>4 DEF RowStamps, Unwritten, NoStamp
<1>3. CASE rows' = rows
    BY <1>0, <1>1, <1>3 DEF RowStamps, Unwritten, NoStamp
<1>4. ASSUME NEW n \in Nodes, AwaitWrite(n) PROVE DOMAIN rows' = Nodes /\ RowStamps'
    BY <1>0, <1>2, <1>4, WriteIsStamped DEF AwaitWrite
<1>5. ASSUME LateWrite PROVE DOMAIN rows' = Nodes /\ RowStamps'
  <2>1. PICK w \in late : update_node_status(w) \/ rows' = rows
      BY <1>5 DEF LateWrite
  <2>2. w.node \in Nodes /\ Stamped(w.node, w.stamp)
      BY <1>0, <2>1, AdriftStep DEF LateWrites
  <2> QED
      BY <1>2, <2>1, <2>2
<1> QED
    BY <1>3, <1>4, <1>5, RowsDo DEF StampLoop, Leave

\* What is left in flight is adrift.
LEMMA LateWritesStep ==
    ASSUME GInv, Chain, DInv, [SignalNext]_<<vars, sigvars>>
    PROVE  LateWrites'
<1>0. Owes /\ LateWrites
    BY DEF DInv
<1>1. ASSUME NEW w \in late PROVE w.node \in Nodes /\ Adrift(w.node, w.stamp)'
    BY <1>0, AdriftStep DEF LateWrites
<1>2. CASE late' \subseteq late
    BY <1>1, <1>2 DEF LateWrites
<1>3. ASSUME NEW r \in Spawned, Reap(r) PROVE LateWrites'
  <2> SUFFICES ASSUME NEW w \in late', w \notin late PROVE w.node \in Nodes /\ Adrift(w.node, w.stamp)'
      BY <1>1 DEF LateWrites
  <2>1. PICK m \in Nodes : Owner[m] = r /\ w \in WritesOf(m)
      BY <1>3 DEF Reap
  <2>2. w.node \in Nodes /\ (w.node = m \/ w.node \in Children(m)) /\ Stamped(w.node, w.stamp)
      BY <1>0, <2>1, WriteIsStamped
  <2>3. r \in Upward[w.node]
    <3>1. r \in Upward[m]
        BY <2>1, OwnerStep
    <3>2. CASE w.node \in Children(m)
        BY <2>1, <2>2, <3>1, <3>2, ParentOfChild, UpwardStep
    <3> QED
        BY <2>2, <3>1, <3>2
  <2>4. scope'[r].life = "dropped"
    <3>1. scope[r] \in [inst : Lineage, gen : Nat \ {0},
                        life : {"none", "live", "doomed", "ended", "dropped"}]
        BY DEF GInv, TypeOK
    <3> QED
        BY <1>3, <3>1 DEF Reap
  <2>5. ~Honoured(w.node)'
      BY <2>3, <2>4 DEF Honoured, Upward, UpClosed, Spawned
  <2> QED
      BY <2>2, <2>5, CutAdrift
<1>4. ASSUME NEW l \in Nodes, Kind[l] = "loop", phase[l] = "exec", ContinueAsNew(l) PROVE LateWrites'
  <2> SUFFICES ASSUME NEW w \in late', w \notin late PROVE w.node \in Nodes /\ Adrift(w.node, w.stamp)'
      BY <1>1 DEF LateWrites
  <2>1. PICK m \in Below(l) : w \in WritesOf(m)
      BY <1>4 DEF ContinueAsNew
  <2>2. m \in Nodes
      BY <2>1 DEF Below
  <2>3. w.node \in Nodes /\ (w.node = m \/ w.node \in Children(m)) /\ Stamped(w.node, w.stamp)
      BY <1>0, <2>1, <2>2, WriteIsStamped
  <2>4. w.node \in Below(l)
      BY <2>1, <2>2, <2>3, ParentOfChild, BelowStep
  <2> QED
      BY <1>4, <2>3, <2>4, CutAdrift
<1> QED
    BY <1>2, <1>3, <1>4, RowsDo DEF StampLoop, Leave, LateWrite

\* The row of a node that goes on, and that nobody wrote, still follows it.
LEMMA FollowsOn ==
    ASSUME GInv, DInv, [SignalNext]_<<vars, sigvars>>, NEW m \in Nodes \ LossyNodes,
           phase[m] \notin {"idle", "marking"}, phase'[m] \notin {"idle", "marking"},
           Honoured(m)', phase'[m] = "done" => phase[m] = "done"
    PROVE  /\ Honoured(m) /\ rows[m].stamp = Stamp(m) /\ Stamp(m)' = Stamp(m)
           /\ rows'[m] = rows[m] =>
                 /\ rows'[m].stamp = Stamp(m)'
                 /\ phase'[m] = "done" => rows'[m].status = Recorded(out'[m])
<1>1. /\ Stamp(m)' = Stamp(m) /\ Honoured(m) /\ (phase[m] = "done" => out'[m] = out[m])
    BY GoesOn
<1>2. rows[m].stamp = Stamp(m) /\ (phase[m] = "done" => rows[m].status = Recorded(out[m]))
    BY <1>1 DEF DInv, RowsFollow
<1> QED
    BY <1>1, <1>2

\* The row of a node follows it.
LEMMA RowsFollowStep ==
    ASSUME GInv, Chain, DInv, [SignalNext]_<<vars, sigvars>>
    PROVE  RowsFollow'
<1> SUFFICES ASSUME NEW m \in Nodes \ LossyNodes,
                    phase'[m] \notin {"idle", "marking"}, Honoured(m)'
             PROVE  /\ rows'[m].stamp = Stamp(m)'
                    /\ phase'[m] = "done" => rows'[m].status = Recorded(out'[m])
    BY DEF RowsFollow
<1> DEFINE Goal == /\ rows'[m].stamp = Stamp(m)'
                   /\ phase'[m] = "done" => rows'[m].status = Recorded(out'[m])
<1>0. DOMAIN rows = Nodes /\ Owes /\ LateWrites /\ (rows[m].stamp = NoStamp \/ Stamped(m, rows[m].stamp))
    BY DEF DInv, RowStamps, Unwritten
<1>1. ASSUME rows'[m] = rows[m], Rests(m) PROVE Goal
  <2>1. phase[m] \notin {"idle", "marking"} /\ (phase'[m] = "done" => phase[m] = "done")
      BY <1>1 DEF Rests
  <2> QED
      BY <1>1, <2>1, FollowsOn
<1>2. ASSUME phase[m] # "idle", NEW w, w.node = m, w.stamp = Stamp(m), update_node_status(w)
      PROVE  rows'[m].stamp = Stamp(m)' /\ rows'[m].status = w.status
  <2>1. ~incoming_stamp_is_superseded(w.stamp, rows[m].stamp)
      BY <1>0, <1>2, CurrentPasses
  <2>2. rows'[m] = [status |-> w.status, stamp |-> w.stamp]
      BY <1>0, <1>2, <2>1, UpdateDoes
  <2>3. Stamp(m)' = Stamp(m)
      BY <1>2, GoesOn
  <2> QED
      BY <1>2, <2>2, <2>3
<1>3. ASSUME NEW n \in Nodes, phase[n] \in {"marking", "ending"}, AwaitWrite(n), m # n
      PROVE  rows'[m] = rows[m]
  <2>1. PICK w \in WritesOf(n) : update_node_status(w) \/ rows' = rows
      BY <1>3 DEF AwaitWrite
  <2>2. w.node = n
      BY <1>3, <2>1 DEF WritesOf
  <2> QED
      BY <1>0, <1>3, <2>1, <2>2, UpdateDoes
<1>4. ASSUME NEW n \in Nodes, phase[n] = "marking", AwaitWrite(n), phase'[n] # "done",
             \A k \in Nodes \ {n} : Rests(k)
      PROVE  Goal
  <2>1. CASE m = n
    <3>1. PICK w \in WritesOf(n) : update_node_status(w) \/ w.node \in LossyNodes
        BY <1>4 DEF AwaitWrite
    <3>2. w.node = m /\ w.stamp = Stamp(m)
        BY <1>4, <2>1, <3>1 DEF WritesOf
    <3>3. update_node_status(w)
        BY <3>1, <3>2
    <3>4. rows'[m].stamp = Stamp(m)'
        BY <1>2, <1>4, <2>1, <3>2, <3>3
    <3> QED
        BY <1>4, <2>1, <3>4
  <2>2. CASE m # n
      BY <1>1, <1>3, <1>4, <2>2
  <2> QED
      BY <2>1, <2>2
<1>5. ASSUME NEW n \in Nodes, Leave(n) PROVE Goal
  <2>0. /\ phase[n] = "ending" /\ AwaitWrite(n) /\ out' = out
        /\ \A k \in Nodes \ {n} : phase'[k] = phase[k]
      BY <1>5 DEF Leave, GInv, TypeOK
  <2>1. CASE m = n
    <3>1. PICK w \in WritesOf(n) : update_node_status(w) \/ w.node \in LossyNodes
        BY <2>0 DEF AwaitWrite
    <3>2. w.node = m /\ w.stamp = Stamp(m) /\ w.status = Recorded(out[m])
        BY <2>0, <2>1, <3>1 DEF WritesOf
    <3>3. update_node_status(w)
        BY <3>1, <3>2
    <3>4. rows'[m].stamp = Stamp(m)' /\ rows'[m].status = Recorded(out[m])
        BY <1>2, <2>0, <2>1, <3>2, <3>3
    <3> QED
        BY <2>0, <3>4
  <2>2. CASE m # n
    <3>1. Rests(m)
        BY <2>0, <2>2 DEF Rests
    <3> QED
        BY <1>1, <1>3, <2>0, <2>2, <3>1
  <2> QED
      BY <2>1, <2>2
<1>6. ASSUME NEW n \in Nodes, StampLoop(n) PROVE Goal
  <2>0. /\ phase[n] = "stamping" /\ AwaitWrite(n) /\ out' = out /\ OwedBy(n)
        /\ \A k \in Nodes : phase'[k] = phase[k] \/ (k = n /\ phase'[k] \in {"stamping", "ending"})
      BY <1>0, <1>6 DEF StampLoop, GInv, TypeOK, Owes
  <2>1. Rests(m) /\ phase[m] \notin {"idle", "marking"} /\ (phase'[m] = "done" => phase[m] = "done")
      BY <2>0 DEF Rests
  <2>2. Honoured(m) /\ rows[m].stamp = Stamp(m) /\ Stamp(m)' = Stamp(m)
      BY <2>1, FollowsOn
  <2>3. PICK w \in WritesOf(n) : update_node_status(w) \/ rows' = rows
      BY <2>0 DEF AwaitWrite
  <2> DEFINE c == Head(fb[n])
  <2>4. c \in Children(n) /\ Owed(c)
    <3>1. fb[n] \in Seq(Children(n)) /\ fb[n] # <<>> /\ \A i \in 1 .. Len(fb[n]) : Owed(fb[n][i])
        BY <2>0 DEF OwedBy
    <3>2. Len(fb[n]) \in Nat /\ Len(fb[n]) # 0 /\ Head(fb[n]) = fb[n][1] /\ Head(fb[n]) \in Children(n)
        BY <3>1, EmptySeq, HeadTailProperties
    <3> QED
        BY <3>1, <3>2
  <2>5. w.node = c /\ w.status = "failed" /\ w.stamp = [inst |-> subtree_instance(c), gen |-> 1]
      BY <2>0, <2>3 DEF WritesOf
  <2> HIDE DEF c
  <2>6. CASE m # c
      BY <1>0, <1>1, <2>1, <2>3, <2>5, <2>6, UpdateDoes
  <2>7. CASE m = c
    <3>1. Kind[m] = "loop" /\ phase[m] = "done" /\ out[m] \in {"app", "fail"}
      <4>1. Kind[m] = "loop" /\ m \in Spawned /\ m \in Upward[m]
          BY <2>4, <2>7, SpawnedNodes, UpwardClosed DEF Owed
      <4> QED
          BY <2>2, <2>4, <2>7, <4>1 DEF Owed, Kept, Honoured
    <3>2. w.stamp = Stamp(m) \/ incoming_stamp_is_superseded(w.stamp, Stamp(m))
        BY <2>4, <2>5, <2>7, <3>1, FirstStamp
    <3>3. Recorded(out'[m]) = "failed"
        BY <2>0, <3>1 DEF Recorded
    <3>4. CASE rows'[m] = rows[m]
        BY <1>1, <2>1, <3>4
    <3>5. CASE rows'[m] # rows[m]
      <4>1. rows'[m] = [status |-> w.status, stamp |-> w.stamp] /\ w.stamp = Stamp(m)
          BY <1>0, <2>2, <2>3, <2>5, <2>7, <3>2, <3>5, UpdateDoes
      <4> QED
          BY <2>2, <2>5, <3>3, <4>1
    <3> QED
        BY <3>4, <3>5
  <2> QED
      BY <2>6, <2>7
<1>7. ASSUME LateWrite PROVE Goal
  <2>0. phase' = phase
      BY <1>7 DEF LateWrite
  <2>1. Rests(m) /\ phase[m] \notin {"idle", "marking"} /\ (phase'[m] = "done" => phase[m] = "done")
      BY <2>0 DEF Rests
  <2>2. Honoured(m) /\ rows[m].stamp = Stamp(m)
      BY <2>1, FollowsOn
  <2>3. PICK w \in late : update_node_status(w) \/ rows' = rows
      BY <1>7 DEF LateWrite
  <2>4. CASE m # w.node
      BY <1>0, <1>1, <2>1, <2>3, <2>4, UpdateDoes
  <2>5. CASE m = w.node
    <3>1. PICK g, h : /\ Built(Owner[m], g, h) /\ h[Owner[m]] = w.stamp.inst /\ g[Owner[m]] = w.stamp.gen
                      /\ Past(Owner[m], g)
        BY <1>0, <2>2, <2>3, <2>5 DEF LateWrites, Adrift
    <3>2. incoming_stamp_is_superseded(w.stamp, Stamp(m))
        BY <2>1, <3>1, PastIsFenced
    <3>3. w.node \in Nodes /\ incoming_stamp_is_superseded(w.stamp, rows[w.node].stamp)
        BY <2>2, <2>5, <3>2
    <3>4. rows'[w.node] = rows[w.node]
        BY <1>0, <2>3, <3>3, UpdateDoes
    <3> QED
        BY <1>1, <2>1, <2>5, <3>4
  <2> QED
      BY <2>4, <2>5
<1>8. ASSUME rows' = rows, \A k \in Nodes : Rests(k) PROVE Goal
    BY <1>1, <1>8
<1> HIDE DEF Goal
<1>9. Goal
    BY <1>4, <1>5, <1>6, <1>7, <1>8, RowsDo
<1> QED
    BY <1>9 DEF Goal

\* The invariant of the rows.
LEMMA InitD == Init => DInv
<1> SUFFICES ASSUME Init PROVE DInv
    OBVIOUS
<1>1. DOMAIN rows = Nodes /\ late = {} /\ \A n \in Nodes : rows[n] = Unwritten
    BY DEF Init, Unwritten
<1>2. \A n \in Nodes : phase[n] \in {"idle", "marking"}
    BY DEF Init
<1>3. \A s \in Spawned : scope[s].gen = 1
    BY DEF Init
<1> QED
    BY <1>1, <1>2, <1>3 DEF DInv, Generations, Owes, RowStamps, LateWrites, RowsFollow

\* Every step keeps it.
LEMMA StepD == GInv /\ Chain /\ DInv /\ [SignalNext]_<<vars, sigvars>> => DInv'
<1> SUFFICES ASSUME GInv, Chain, DInv, [SignalNext]_<<vars, sigvars>> PROVE DInv'
    OBVIOUS
<1>1. Generations' /\ Owes'
    BY GenerationsStep, OwesStep DEF DInv
<1>2. DOMAIN rows' = Nodes /\ RowStamps' /\ LateWrites' /\ RowsFollow'
    BY RowStampsStep, LateWritesStep, RowsFollowStep
<1> QED
    BY <1>1, <1>2 DEF DInv

\* The rows follow their nodes through every interleaving of handlers, restarts,
\* cancellations and writes that land late.
THEOREM RowInvariance == SignalSpec => [](GInv /\ Chain /\ DInv)
<1>1. SignalInit => GInv /\ Chain /\ DInv
  <2>1. Init => Chain
      BY SpawnedNodes DEF Init, Chain
  <2> QED
      BY <2>1, InitG, InitD DEF SignalInit
<1> QED
    BY <1>1, StepG, StepChain, StepD, PTL DEF SignalSpec

\* df.instance_nodes() shows a returned node in a branch that counts with its
\* result.
ShownTruly(n) == Returned(n) /\ Honoured(n) => infer_status(n) = Recorded(out[n])

\* It does for every node whose own status writes are not lost, whoever else's
\* are.
LEMMA Truthful ==
    ASSUME GInv, Chain, DInv, NEW n \in Nodes \ LossyNodes
    PROVE  ShownTruly(n)
<1> SUFFICES ASSUME Returned(n), Honoured(n) PROVE infer_status(n) = Recorded(out[n])
    BY DEF ShownTruly
<1>1. rows[n].stamp = Stamp(n) /\ rows[n].status = Recorded(out[n]) /\ phase[n] # "idle"
    BY DEF Returned, DInv, RowsFollow
<1>2. Terminal(n)
    BY <1>1 DEF Terminal, Recorded
<1>3. ~Superseded(n)
  <2>1. \A m \in Nodes : ~Supersedes(rows[m].stamp, Stamp(n))
    <3> SUFFICES ASSUME NEW m \in Nodes PROVE ~Supersedes(rows[m].stamp, Stamp(n))
        OBVIOUS
    <3>1. rows[m].stamp = NoStamp \/ Stamped(m, rows[m].stamp)
        BY DEF DInv, RowStamps, Unwritten
    <3> QED
        BY <1>1, <3>1, NoneAhead
  <2> QED
      BY <1>1, <2>1 DEF Superseded, is_superseded, Supersedes
<1> QED
    BY <1>1, <1>2, <1>3 DEF infer_status

\* When no status write is lost, every node that returned in a branch that
\* counts is shown with its result: neither a write a cancelled branch or an
\* earlier generation left in flight nor a parent's failed-stamp replaces it,
\* and no row supersedes its stamp.
THEOREM DisplayIsTruthful ==
    ASSUME LossyNodes = {}
    PROVE  SignalSpec => []TruthfulDisplay
<1>1. GInv /\ Chain /\ DInv => TruthfulDisplay
  <2> SUFFICES ASSUME GInv, Chain, DInv PROVE TruthfulDisplay
      OBVIOUS
  <2>1. \A n \in Nodes : ShownTruly(n)
      BY Truthful
  <2> QED
      BY <2>1 DEF TruthfulDisplay, ShownTruly
<1> QED
    BY <1>1, RowInvariance, PTL

\* A row an earlier iteration left is superseded by the row of a loop above it.
LEMMA Unreached ==
    ASSUME \A l \in LossyNodes : Kind[l] # "loop", GInv, Chain, DInv, NEW n \in Nodes, NotReached(n)
    PROVE  infer_status(n) \notin {"completed", "failed"}
<1> SUFFICES ASSUME Terminal(n) PROVE Superseded(n)
    BY DEF infer_status, Terminal
<1>1. rows[n] # Unwritten
    BY DEF Terminal, Unwritten
<1>2. CASE Stamped(n, rows[n].stamp)
  <2>1. PICK b \in Ancestors[n] : /\ Kind[b] = "loop" /\ phase[b] # "idle"
                                  /\ Supersedes(Stamp(b), rows[n].stamp)
      BY <1>2, StaleIsSuperseded DEF DInv, NotReached
  <2>2. b \in Nodes /\ b \notin LossyNodes /\ phase[b] \notin {"idle", "marking"}
      BY <2>1, UpwardClosed DEF Ancestors, NotReached
  <2>3. Honoured(b)
    <3>1. Upward[b] \subseteq Upward[n]
        BY <2>1, UpwardClosed DEF Ancestors
    <3> QED
        BY <3>1 DEF Honoured, NotReached
  <2>4. rows[b].stamp = Stamp(b)
      BY <2>2, <2>3 DEF DInv, RowsFollow
  <2> QED
      BY <2>1, <2>2, <2>4 DEF Superseded, is_superseded, Supersedes
<1> QED
    BY <1>1, <1>2 DEF DInv, RowStamps

\* When no status write of a loop is lost, the result of an earlier iteration is
\* not shown for a node the current one has not reached.
THEOREM NoStaleDisplay ==
    ASSUME \A l \in LossyNodes : Kind[l] # "loop"
    PROVE  SignalSpec => []NoStaleResult
<1>1. GInv /\ Chain /\ DInv => NoStaleResult
    BY Unreached DEF NoStaleResult
<1> QED
    BY <1>1, RowInvariance, PTL

-----------------------------------------------------------------------------
(* The write fence is a strict order on the stamps of a node: whatever the *)
(* depth of the lineages, two writes never fence each other and fencing is *)
(* transitive, so the order in which writes land cannot matter to which of *)
(* them may survive.                                                       *)

Stamps == [inst : Seq([gen : Nat, node : Nodes]), gen : Nat]

\* The generation at a level both stamps agree on is the same.
LEMMA AgreedGeneration ==
    ASSUME NEW a \in Stamps, NEW b \in Stamps,
           NEW l \in Nat \ {0}, NEW k \in Nat, l < k,
           k <= Depth(a), k <= Depth(b), AgreeAbove(a, b, k)
    PROVE  GenAt(a, l) = GenAt(b, l)
<1>1. /\ l \in 1 .. (k - 1)
      /\ l <= Len(a.inst) /\ l <= Len(b.inst)
  BY DEF Depth, Stamps
<1> QED BY <1>1 DEF AgreeAbove, GenAt

\* Generations are natural numbers.
LEMMA GenAtType ==
    ASSUME NEW a \in Stamps, NEW l \in 1 .. Depth(a)
    PROVE  GenAt(a, l) \in Nat
<1>1. CASE l <= Len(a.inst)
  <2>1. a.inst \in Seq([gen : Nat, node : Nodes]) /\ l \in 1 .. Len(a.inst)
    BY <1>1 DEF Stamps, Depth
  <2>2. a.inst[l] \in [gen : Nat, node : Nodes]
    BY <2>1, ElementOfSeq, Zenon
  <2> QED BY <1>1, <2>2 DEF GenAt
<1>2. CASE ~(l <= Len(a.inst))
  BY <1>2 DEF GenAt, Stamps
<1> QED BY <1>1, <1>2

\* Two stamps never fence each other: of two writes to a row, in either
\* order, at least one is accepted after the other (incoming_stamp_is_superseded).
THEOREM FenceIsAsymmetric ==
    ASSUME NEW a \in Stamps, NEW b \in Stamps, incoming_stamp_is_superseded(a, b)
    PROVE  ~incoming_stamp_is_superseded(b, a)
<1> SUFFICES ASSUME incoming_stamp_is_superseded(b, a) PROVE FALSE
  OBVIOUS
<1>1. PICK l \in 1 .. Depth(a) :
        l <= Depth(b) /\ AgreeAbove(a, b, l) /\ GenAt(a, l) < GenAt(b, l)
  BY DEF incoming_stamp_is_superseded
<1>2. PICK k \in 1 .. Depth(b) :
        k <= Depth(a) /\ AgreeAbove(b, a, k) /\ GenAt(b, k) < GenAt(a, k)
  BY DEF incoming_stamp_is_superseded
<1>3. /\ Depth(a) \in Nat /\ Depth(b) \in Nat
      /\ l \in Nat \ {0} /\ k \in Nat \ {0}
  BY DEF Depth, Stamps
<1>4. l \in 1 .. Depth(b) /\ k \in 1 .. Depth(a)
  BY <1>1, <1>2, <1>3
<1>5. /\ GenAt(a, l) \in Nat /\ GenAt(b, l) \in Nat
      /\ GenAt(a, k) \in Nat /\ GenAt(b, k) \in Nat
  BY <1>4, GenAtType
<1>6. CASE l < k
  BY <1>1, <1>2, <1>3, <1>5, <1>6, AgreedGeneration
<1>7. CASE k < l
  BY <1>1, <1>2, <1>3, <1>5, <1>7, AgreedGeneration
<1>8. CASE l = k
  BY <1>1, <1>2, <1>5, <1>8
<1> QED BY <1>3, <1>6, <1>7, <1>8

\* Fencing is transitive, whatever the depths: a write fenced by a row is
\* fenced by every row that fences that one, so accepted writes never go back.
THEOREM FenceIsTransitive ==
    ASSUME NEW a \in Stamps, NEW b \in Stamps, NEW c \in Stamps,
           incoming_stamp_is_superseded(a, b), incoming_stamp_is_superseded(b, c)
    PROVE  incoming_stamp_is_superseded(a, c)
<1>1. PICK l \in 1 .. Depth(a) :
        l <= Depth(b) /\ AgreeAbove(a, b, l) /\ GenAt(a, l) < GenAt(b, l)
  BY DEF incoming_stamp_is_superseded
<1>2. PICK k \in 1 .. Depth(b) :
        k <= Depth(c) /\ AgreeAbove(b, c, k) /\ GenAt(b, k) < GenAt(c, k)
  BY DEF incoming_stamp_is_superseded
<1>3. /\ Depth(a) \in Nat /\ Depth(b) \in Nat /\ Depth(c) \in Nat
      /\ l \in Nat \ {0} /\ k \in Nat \ {0}
  BY DEF Depth, Stamps
<1>4. CASE l < k
  <2>1. GenAt(b, l) = GenAt(c, l)
    BY <1>2, <1>3, <1>4, AgreedGeneration
  <2>2. AgreeAbove(a, c, l)
    BY <1>1, <1>2, <1>3, <1>4 DEF AgreeAbove
  <2>3. l <= Depth(c)
    BY <1>2, <1>3, <1>4
  <2> QED BY <1>1, <2>1, <2>2, <2>3 DEF incoming_stamp_is_superseded
<1>5. CASE k < l
  <2>1. GenAt(a, k) = GenAt(b, k)
    BY <1>1, <1>3, <1>5, AgreedGeneration
  <2>2. AgreeAbove(a, c, k)
    BY <1>1, <1>2, <1>3, <1>5 DEF AgreeAbove
  <2>3. k \in 1 .. Depth(a)
    BY <1>3, <1>5
  <2> QED BY <1>2, <2>1, <2>2, <2>3 DEF incoming_stamp_is_superseded
<1>6. CASE l = k
  <2>1. AgreeAbove(a, c, l)
    BY <1>1, <1>2, <1>6 DEF AgreeAbove
  <2>2. l \in 1 .. Depth(b) /\ l \in 1 .. Depth(c)
    BY <1>1, <1>2, <1>3, <1>6
  <2>3. GenAt(a, l) \in Nat /\ GenAt(b, l) \in Nat /\ GenAt(c, l) \in Nat
    BY <2>2, GenAtType
  <2>4. GenAt(a, l) < GenAt(c, l)
    BY <1>1, <1>2, <1>6, <2>3
  <2> QED BY <1>2, <1>6, <2>1, <2>4 DEF incoming_stamp_is_superseded
<1> QED BY <1>3, <1>4, <1>5, <1>6

\* What the read path takes for superseded by a row, the write fence of that
\* row refuses: is_superseded never hides a result the fence would still accept.
THEOREM SupersededIsFenced ==
    ASSUME NEW a \in Stamps, NEW b \in Stamps, is_superseded(a, {b})
    PROVE  incoming_stamp_is_superseded(a, b)
<1>1. /\ Depth(b) <= Depth(a)
      /\ \A l \in 1 .. Len(b.inst) : b.inst[l] = a.inst[l]
      /\ b.gen > GenAt(a, Depth(b))
  BY DEF is_superseded
<1>2. Depth(b) \in Nat \ {0} /\ Depth(a) \in Nat /\ Len(b.inst) = Depth(b) - 1 /\ Len(b.inst) \in Nat
  BY DEF Depth, Stamps
<1>3. GenAt(b, Depth(b)) = b.gen
  BY <1>2 DEF GenAt
<1>4. AgreeAbove(a, b, Depth(b))
  BY <1>1, <1>2 DEF AgreeAbove
<1>5. Depth(b) \in 1 .. Depth(a) /\ b.gen \in Nat
  BY <1>1, <1>2 DEF Stamps
<1>6. GenAt(a, Depth(b)) \in Nat
  BY <1>5, GenAtType
<1> QED BY <1>1, <1>3, <1>4, <1>5, <1>6 DEF incoming_stamp_is_superseded
============================================================================
