-------------------------- MODULE Algorithms_proofs --------------------------
(***************************************************************************)
(* df.start() and df.list_instances(), for inputs of any size.             *)
(*                                                                         *)
(* The rows of a started instance form a tree, the one that was given.     *)
(* The pages of a listing are disjoint and leave out nothing that was      *)
(* there all the while.                                                    *)
(***************************************************************************)
EXTENDS GraphFlattening, InstanceListing, FiniteSetTheorems, SequenceTheorems, TLAPS

-----------------------------------------------------------------------------
(* Keyset pagination. *)

Row == [id : Ids, at : Nat, running : BOOLEAN]
Position == [at : Nat, id : Nat]
Rows == starting \cup listed

\* What the pages so far have.
Seen == UNION {got[i] : i \in DOMAIN got}

\* The order, from a cursor.
Beyond(c, r) == r.at < c.at \/ (r.at = c.at /\ r.id > c.id)

TypeOK ==
    /\ clock \in Nat /\ starting \subseteq Row /\ listed \subseteq Row /\ known \subseteq Ids
    /\ call \in {"first", "next", "info", "done"}
    /\ cursor \in {NoCursor} \cup Position /\ more \in {NoCursor} \cup Position
    /\ page \subseteq Row /\ got \in Seq(SUBSET Ids) /\ steady \subseteq Ids /\ gap \in BOOLEAN
    /\ IsFiniteSet(starting) /\ IsFiniteSet(listed)

\* The identifier is the key, and no row is from the future.
KeyInv ==
    /\ starting \cap listed = {}
    /\ \A r, s \in Rows : r.id = s.id => r = s
    /\ \A r \in Rows : r.at <= clock

\* Where the client is.  A gap ends the listing.
ClientInv ==
    /\ call \in {"first", "info", "next"} /\ cursor = NoCursor => got = <<>>
    /\ call = "first" => cursor = NoCursor
    /\ call = "next" => cursor # NoCursor
    /\ gap => call = "done"

\* An identifier on a page has no row beyond the page's cursor and never gets
\* one, although identifiers are used again: a new row has the time of now.
Behind(c, ids) ==
    /\ \A r \in Rows : r.id \in ids => ~Beyond(c, r)
    /\ \A id \in ids : ~Beyond(c, [id |-> id, at |-> clock])
SeenInv ==
    /\ \A i, j \in DOMAIN got : i # j => got[i] \cap got[j] = {}
    /\ call \in {"info", "next"} /\ cursor # NoCursor => Behind(cursor, Seen)

\* The page that was read: new rows, all before the next cursor.
PageInv ==
    call = "info" =>
        /\ IdsOf(page) \cap Seen = {}
        /\ more # NoCursor => Behind(more, Seen \cup IdsOf(page))

\* What was there all the while is on a page, or still is there, to be found.
Pending(r) ==
    /\ r.running /\ r.id \in known /\ AfterCursor(r)
    /\ call = "info" => r \in page \/ (more # NoCursor /\ Beyond(more, r))
SteadyInv ==
    /\ call \in {"info", "next"} =>
          \A id \in steady : id \in Seen \/ \E r \in listed : r.id = id /\ Pending(r)
    /\ call = "done" /\ ~gap => steady \subseteq Seen

LInv == TypeOK /\ KeyInv /\ ClientInv /\ SeenInv /\ PageInv /\ SteadyInv

\* Nothing is listed yet.
LEMMA InitL == ListInit => LInv
<1> SUFFICES ASSUME ListInit PROVE LInv
    OBVIOUS
<1>1. IsFiniteSet({})
    BY FS_EmptySet
<1>2. Seen = {} /\ DOMAIN got = {}
    BY DEF ListInit, Seen
<1>3. TypeOK
  <2>1. got \in Seq(SUBSET Ids)
      BY EmptySeq DEF ListInit
  <2> QED
      BY <1>1, <2>1 DEF ListInit, TypeOK
<1>4. KeyInv /\ ClientInv
    BY DEF ListInit, KeyInv, ClientInv, Rows
<1>5. SeenInv /\ PageInv /\ SteadyInv
    BY <1>2 DEF ListInit, SeenInv, PageInv, SteadyInv
<1> QED
    BY <1>3, <1>4, <1>5 DEF LInv

\* What the other sessions do, seen from the client.
LEMMA OthersL ==
    ASSUME LInv, UNCHANGED client, TypeOK', clock' >= clock,
           starting' \cap listed' = {}, \A r, s \in Rows' : r.id = s.id => r = s,
           \A r \in Rows' : r.at <= clock',
           \A r \in Rows' : r.at = clock \/ \E s \in Rows : s.id = r.id /\ s.at = r.at,
           steady' \subseteq steady,
           \A r \in listed : r.running /\ r.id \in known /\ r.id \in steady' =>
               r \in listed' /\ r.id \in known'
    PROVE  LInv'
<1> USE DEF LInv
<1>1. KeyInv' /\ ClientInv'
    BY DEF KeyInv, ClientInv, client
<1>2. Seen' = Seen
    BY DEF Seen, client
<1>3. ASSUME NEW c \in Position, NEW ids \in SUBSET Ids, Behind(c, ids) PROVE Behind(c, ids)'
  <2>1. ASSUME NEW r \in Rows', r.id \in ids PROVE ~Beyond(c, r)
    <3>1. CASE r.at = clock
      <4>1. ~Beyond(c, [id |-> r.id, at |-> clock])
          BY <1>3, <2>1 DEF Behind
      <4> QED
          BY <3>1, <4>1 DEF Beyond
    <3>2. CASE \E s \in Rows : s.id = r.id /\ s.at = r.at
        BY <1>3, <2>1, <3>2 DEF Behind, Beyond
    <3> QED
        BY <3>1, <3>2
  <2>2. ASSUME NEW id \in ids PROVE ~Beyond(c, [id |-> id, at |-> clock'])
    <3>1. ~Beyond(c, [id |-> id, at |-> clock])
        BY <1>3, <2>2 DEF Behind
    <3>2. clock \in Nat /\ clock' \in Nat /\ c.at \in Nat /\ id \in Nat /\ c.id \in Nat
        BY ListingAssumption DEF TypeOK, Position
    <3> QED
        BY <3>1, <3>2 DEF Beyond
  <2> QED
      BY <2>1, <2>2 DEF Behind, Beyond, Rows
<1>4. SeenInv' /\ PageInv'
  <2>1. Seen \in SUBSET Ids /\ Seen \cup IdsOf(page) \in SUBSET Ids
      BY DEF Seen, TypeOK, IdsOf, Row
  <2>2. cursor # NoCursor => cursor \in Position
      BY DEF TypeOK
  <2>3. more # NoCursor => more \in Position
      BY DEF TypeOK
  <2>4. call \in {"info", "next"} /\ cursor # NoCursor => Behind(cursor, Seen)'
      BY <1>2, <1>3, <2>1, <2>2 DEF SeenInv, client
  <2>5. call = "info" /\ more # NoCursor => Behind(more, Seen \cup IdsOf(page))'
      BY <1>2, <1>3, <2>1, <2>3 DEF PageInv, client
  <2> QED
      BY <1>2, <2>4, <2>5 DEF SeenInv, PageInv, client, IdsOf
<1>5. SteadyInv'
  <2>1. ASSUME call \in {"info", "next"}, NEW id \in steady', id \notin Seen
        PROVE  \E r \in listed' : r.id = id /\ Pending(r)'
    <3>1. PICK r \in listed : r.id = id /\ Pending(r)
        BY <2>1 DEF SteadyInv
    <3>2. r \in listed' /\ r.id \in known'
        BY <2>1, <3>1 DEF Pending
    <3> QED
        BY <3>1, <3>2 DEF Pending, client, AfterCursor
  <2> QED
      BY <1>2, <2>1 DEF SteadyInv, client
<1> QED
    BY <1>1, <1>4, <1>5

\* The steps of the other sessions keep the types.
LEMMA OthersTyped ==
    ASSUME TypeOK, UNCHANGED client, clock' \in Nat, starting' \subseteq Row, listed' \subseteq Row,
           known' \subseteq Ids, steady' \subseteq steady,
           IsFiniteSet(starting'), IsFiniteSet(listed')
    PROVE  TypeOK'
BY DEF TypeOK, client

\* A new row has an identifier no row has, and the time of now.
LEMMA BeginL == ASSUME LInv, NEW id \in Ids, BeginInstance(id) PROVE LInv'
<1> USE DEF LInv
<1> DEFINE new == [id |-> id, at |-> clock, running |-> TRUE]
<1>1. new \in Row /\ clock \in Nat
    BY DEF Row, TypeOK
<1>2. Rows' = Rows \cup {new} /\ \A r \in Rows : r.id # id
    BY DEF BeginInstance, Rows, IdsOf
<1>3. IsFiniteSet(starting')
    BY FS_AddElement DEF BeginInstance, TypeOK
<1>4. TypeOK'
    BY <1>1, <1>3, OthersTyped DEF BeginInstance, TypeOK
<1>5. UNCHANGED client /\ clock' = clock /\ steady' = steady /\ listed' = listed /\ known' = known
    BY DEF BeginInstance
<1>6. \A r, s \in Rows' : r.id = s.id => r = s
  <2>1. new.id = id
      OBVIOUS
  <2> QED
      BY <1>2, <2>1 DEF KeyInv
<1>9. starting' \cap listed' = {}
  <2>1. new \notin Rows
      BY <1>2
  <2> QED
      BY <1>5, <2>1 DEF BeginInstance, KeyInv, Rows
<1>7. \A r \in Rows' : r.at <= clock' /\ (r.at = clock \/ \E s \in Rows : s.id = r.id /\ s.at = r.at)
    BY <1>1, <1>2, <1>5 DEF KeyInv
<1>8. clock' >= clock
    BY <1>1, <1>5
<1> QED
    BY <1>4, <1>5, <1>6, <1>7, <1>8, <1>9, OthersL

\* Rows move, and nothing else.
LEMMA CommitL == ASSUME LInv, NEW row \in starting, CommitInstance(row) PROVE LInv'
<1> USE DEF LInv
<1>1. Rows' = Rows
    BY DEF CommitInstance, Rows
<1>2. IsFiniteSet(starting') /\ IsFiniteSet(listed')
  <2>1. IsFiniteSet(starting \ {row})
      BY FS_RemoveElement DEF TypeOK
  <2>2. IsFiniteSet(listed \cup {row})
      BY FS_AddElement DEF TypeOK
  <2> QED
      BY <2>1, <2>2 DEF CommitInstance
<1>3. TypeOK'
    BY <1>2, OthersTyped DEF CommitInstance, TypeOK
<1>4. clock \in Nat /\ clock' = clock /\ UNCHANGED client
    BY DEF CommitInstance, TypeOK
<1> QED
    BY <1>1, <1>3, <1>4, OthersL DEF CommitInstance, KeyInv

\* The rows stay as they are.
LEMMA LearnL == ASSUME LInv, NEW id \in Ids, LearnInstance(id) PROVE LInv'
<1> USE DEF LInv
<1>1. Rows' = Rows
    BY DEF LearnInstance, Rows
<1>2. TypeOK'
    BY OthersTyped DEF LearnInstance, TypeOK
<1>3. clock \in Nat /\ clock' = clock /\ UNCHANGED client
    BY DEF LearnInstance, TypeOK
<1> QED
    BY <1>1, <1>2, <1>3, OthersL DEF LearnInstance, KeyInv

\* What ends keeps its place, and is no longer expected.
LEMMA FinishL == ASSUME LInv, NEW row \in listed, FinishInstance(row) PROVE LInv'
<1> USE DEF LInv
<1> DEFINE ended == [row EXCEPT !.running = FALSE]
<1>1. row \in Row /\ ended \in Row /\ ended.id = row.id /\ ended.at = row.at
    BY DEF TypeOK, Row
<1>2. listed' = (listed \ {row}) \cup {ended}
    BY DEF FinishInstance
<1>3. IsFiniteSet(listed')
  <2>1. IsFiniteSet(listed \ {row})
      BY FS_RemoveElement DEF TypeOK
  <2> QED
      BY <1>2, <2>1, FS_AddElement
<1>4. TypeOK'
    BY <1>1, <1>3, OthersTyped DEF FinishInstance, TypeOK
<1>5. \A r \in Rows' : r = ended \/ (r \in Rows /\ r # row)
    BY <1>2 DEF FinishInstance, Rows, KeyInv
<1>6. \A r \in Rows : r.id = row.id => r = row
    BY DEF Rows, KeyInv
<1>7. UNCHANGED client /\ clock' = clock /\ clock \in Nat /\ starting' = starting /\ known' = known
      /\ steady' = steady \ {row.id}
    BY DEF FinishInstance, TypeOK
<1>8. starting' \cap listed' = {}
  <2>1. ended \in starting => ended = row
      BY <1>1, <1>6 DEF Rows
  <2> QED
      BY <1>2, <1>7, <2>1 DEF KeyInv, Rows
<1>9. \A r, s \in Rows' : r.id = s.id => r = s
    BY <1>1, <1>5, <1>6 DEF KeyInv
<1>10. \A r \in Rows' : r.at <= clock' /\ \E s \in Rows : s.id = r.id /\ s.at = r.at
    BY <1>1, <1>5, <1>7 DEF KeyInv, Rows
<1>11. \A r \in listed : r.id \in steady' => r \in listed'
    BY <1>2, <1>7
<1>12. clock' >= clock /\ steady' \subseteq steady
    BY <1>7
<1> QED
    BY <1>4, <1>7, <1>8, <1>9, <1>10, <1>11, <1>12, OthersL

\* Only what has ended goes; what is expected runs.
LEMMA RetireL == ASSUME LInv, NEW row \in listed, RetireInstance(row) PROVE LInv'
<1> USE DEF LInv
<1>1. UNCHANGED client /\ clock' = clock /\ clock \in Nat /\ starting' = starting /\ steady' = steady
      /\ known' \subseteq known /\ listed' \subseteq listed
    BY DEF RetireInstance, TypeOK
<1>2. IsFiniteSet(listed')
    BY <1>1, FS_Subset DEF TypeOK
<1>3. TypeOK'
    BY <1>1, <1>2, OthersTyped DEF TypeOK
<1>4. Rows' \subseteq Rows /\ starting' \cap listed' = {}
    BY <1>1 DEF Rows, KeyInv
<1>5. \A r \in listed : r.running /\ r.id \in known => r \in listed' /\ r.id \in known'
  <2>1. \A r \in listed : r.id = row.id => r = row
      BY DEF KeyInv, Rows
  <2> QED
      BY <2>1 DEF RetireInstance
<1>6. clock' >= clock
    BY <1>1
<1> QED
    BY <1>1, <1>3, <1>4, <1>5, <1>6, OthersL DEF KeyInv

\* Time passes.
LEMMA TickL == ASSUME LInv, Tick PROVE LInv'
<1> USE DEF LInv
<1>1. UNCHANGED client /\ clock' = clock + 1 /\ clock \in Nat /\ starting' = starting
      /\ steady' = steady /\ known' = known /\ listed' = listed /\ Rows' = Rows
    BY DEF Tick, TypeOK, Rows
<1>2. TypeOK'
    BY <1>1, OthersTyped DEF TypeOK
<1>3. \A r \in Rows : r.at \in Nat
    BY DEF Rows, TypeOK, Row
<1>4. clock' >= clock /\ \A r \in Rows' : r.at <= clock'
    BY <1>1, <1>3 DEF KeyInv
<1> QED
    BY <1>1, <1>2, <1>4, OthersL DEF KeyInv

\* The rows of a page come before all the others that were found.
LEMMA FirstComeFirst ==
    ASSUME NEW found, found \subseteq Row, IsFiniteSet(found), NEW n \in Nat,
           NEW r \in FirstRows(found, n), NEW s \in found \ FirstRows(found, n),
           \A a, b \in found : a.id = b.id => a = b
    PROVE  Before(r, s)
<1> DEFINE Ahead(t) == {u \in found : Before(u, t)}
<1>1. r \in found /\ Cardinality(Ahead(r)) < n /\ ~(Cardinality(Ahead(s)) < n)
    BY DEF FirstRows
<1>2. \A t \in found : t.at \in Nat /\ t.id \in Nat
    BY ListingAssumption DEF Row
<1>3. SUFFICES ASSUME ~Before(r, s) PROVE FALSE
    OBVIOUS
<1>4. r # s
    BY <1>1
<1>5. Before(s, r)
    BY <1>1, <1>2, <1>3, <1>4 DEF Before
<1>6. Ahead(s) \subseteq Ahead(r)
    BY <1>1, <1>2, <1>5 DEF Before
<1>7. IsFiniteSet(Ahead(r))
    BY FS_Subset
<1>8. Cardinality(Ahead(s)) <= Cardinality(Ahead(r))
    BY <1>6, <1>7, FS_Subset
<1>9. Cardinality(Ahead(s)) \in Nat /\ Cardinality(Ahead(r)) \in Nat
    BY <1>6, <1>7, FS_Subset, FS_CardinalityType
<1> QED
    BY <1>1, <1>8, <1>9

\* A page is read: it has nothing that was seen, and the next cursor leaves
\* behind it and all before it.  What it leaves out comes after that cursor.
LEMMA ReadL == ASSUME LInv, ReadPage PROVE LInv'
<1> USE DEF LInv
<1> DEFINE found == {r \in listed : r.running /\ AfterCursor(r)}
           top == FirstRows(found, LimitCount)
<1>1. /\ call \in {"first", "next"} /\ page' = top /\ call' = IF found = {} THEN "done" ELSE "info"
      /\ steady' = IF call = "first" THEN IdsOf({r \in listed : r.running}) \cap known ELSE steady
      /\ UNCHANGED <<others, cursor, got, gap>>
    BY DEF ReadPage
<1>2. \/ top = found /\ more' = NoCursor
      \/ /\ top # found
         /\ \E last \in top :
               /\ \A r \in top \ {last} : Before(r, last)
               /\ more' = encode_cursor(last)
    BY DEF ReadPage
<1>3. top \subseteq found /\ found \subseteq listed /\ listed \subseteq Rows
    BY DEF FirstRows, Rows
<1>4. \A r \in Rows : r \in Row /\ r.at \in Nat /\ r.id \in Nat /\ r.id \in Ids
    BY ListingAssumption DEF Rows, TypeOK, Row
<1>5. Seen' = Seen /\ Rows' = Rows /\ clock' = clock /\ known' = known /\ listed' = listed
    BY <1>1 DEF Seen, Rows, others
<1>6. \A r \in top : encode_cursor(r) \in Position /\ encode_cursor(r) # NoCursor
    BY <1>3, <1>4, ListingAssumption DEF encode_cursor, Position
<1>7. TypeOK'
  <2>1. more' \in {NoCursor} \cup Position
      BY <1>2, <1>6
  <2>2. steady' \subseteq Ids
      BY <1>1 DEF TypeOK
  <2>3. page' \subseteq Row /\ call' \in {"first", "next", "info", "done"}
      BY <1>1, <1>3, <1>4
  <2> QED
      BY <1>1, <2>1, <2>2, <2>3 DEF TypeOK, others
<1>8. KeyInv' /\ ClientInv'
    BY <1>1, <1>5 DEF KeyInv, ClientInv, others
<1>9. cursor = NoCursor => Seen = {}
    BY <1>1 DEF ClientInv, Seen
<1>10. cursor # NoCursor => cursor \in Position /\ Behind(cursor, Seen)
    BY <1>1 DEF TypeOK, ClientInv, SeenInv
<1>11. SeenInv'
    BY <1>1, <1>5, <1>10 DEF SeenInv, Behind
<1>12. \A r \in found : r.id \notin Seen
    BY <1>3, <1>9, <1>10 DEF Behind, AfterCursor, Beyond
<1>13. PageInv'
  <2>1. IdsOf(top) \cap Seen = {}
      BY <1>3, <1>12 DEF IdsOf
  <2>2. ASSUME more' # NoCursor PROVE Behind(more', Seen \cup IdsOf(top))
    <3>1. PICK last \in top :
              (\A r \in top \ {last} : Before(r, last)) /\ more' = encode_cursor(last)
        BY <1>2, <2>2
    <3>2. last \in Rows /\ last.at \in Nat /\ last.id \in Nat /\ more'.at = last.at /\ more'.id = last.id
        BY <1>3, <1>4, <3>1 DEF encode_cursor
    <3>3. \A t \in top : ~Beyond(more', t)
        BY <1>3, <1>4, <3>1, <3>2 DEF Beyond, Before
    <3>4. ASSUME NEW t, t.at \in Nat, t.id \in Nat, cursor # NoCursor, ~Beyond(cursor, t)
          PROVE  ~Beyond(more', t)
      <4>1. cursor.at \in Nat /\ cursor.id \in Nat
          BY <1>10, <3>4 DEF Position
      <4>2. Beyond(cursor, last)
          BY <1>3, <3>4 DEF AfterCursor, Beyond
      <4> QED
          BY <3>2, <3>4, <4>1, <4>2 DEF Beyond
    <3>5. ASSUME NEW r \in Rows, r.id \in Seen \cup IdsOf(top) PROVE ~Beyond(more', r)
      <4>1. CASE r.id \in Seen
          BY <1>4, <1>9, <1>10, <3>4, <4>1 DEF Behind
      <4>2. CASE r.id \in IdsOf(top)
        <5>1. r \in top
            BY <1>3, <4>2 DEF KeyInv, IdsOf
        <5> QED
            BY <3>3, <5>1
      <4> QED
          BY <3>5, <4>1, <4>2
    <3>6. ASSUME NEW id \in Seen \cup IdsOf(top) PROVE ~Beyond(more', [id |-> id, at |-> clock])
      <4>1. CASE id \in Seen
        <5>1. id \in Nat /\ clock \in Nat
          <6>1. PICK i \in DOMAIN got : id \in got[i]
              BY <4>1 DEF Seen
          <6>2. got[i] \in SUBSET Ids
              BY <6>1 DEF TypeOK
          <6> QED
              BY <6>1, <6>2, ListingAssumption DEF TypeOK
        <5>2. cursor # NoCursor /\ ~Beyond(cursor, [id |-> id, at |-> clock])
            BY <1>9, <1>10, <4>1 DEF Behind
        <5> QED
            BY <3>4, <5>1, <5>2
      <4>2. CASE id \in IdsOf(top)
        <5>1. PICK t \in top : t.id = id
            BY <4>2 DEF IdsOf
        <5>2. t.at <= clock /\ clock \in Nat /\ t.at \in Nat /\ t.id \in Nat
            BY <1>3, <1>4 DEF KeyInv, TypeOK
        <5> QED
            BY <3>2, <3>3, <5>1, <5>2 DEF Beyond
      <4> QED
          BY <3>6, <4>1, <4>2
    <3> QED
        BY <3>5, <3>6 DEF Behind
  <2> QED
      BY <1>1, <1>5, <2>1, <2>2 DEF PageInv, Behind
<1>14. ASSUME NEW id \in steady' PROVE id \in Seen \/ \E r \in found : r.id = id /\ r.id \in known
  <2>1. CASE call = "first"
    <3>1. PICK r \in listed : r.running /\ r.id = id /\ id \in known
        BY <1>1, <1>14, <2>1 DEF IdsOf
    <3> QED
        BY <2>1, <3>1 DEF ClientInv, AfterCursor
  <2>2. CASE call = "next"
      BY <1>1, <1>14, <2>2 DEF SteadyInv, Pending
  <2> QED
      BY <1>1, <2>1, <2>2
<1>15. ASSUME NEW r \in found, r \notin top PROVE more' # NoCursor /\ Beyond(more', r)
  <2>1. PICK last \in top : more' = encode_cursor(last)
      BY <1>2, <1>15
  <2>2. IsFiniteSet(found) /\ found \subseteq Row
      BY <1>3, <1>4, FS_Subset DEF TypeOK
  <2>3. Before(last, r)
      BY <1>3, <1>15, <2>1, <2>2, FirstComeFirst, ListingAssumption DEF KeyInv
  <2>4. r.at \in Nat /\ last.at \in Nat
      BY <1>3, <1>4
  <2> QED
      BY <1>6, <2>1, <2>3, <2>4 DEF Before, Beyond, encode_cursor
<1>16. SteadyInv'
  <2>1. CASE found = {}
      BY <1>1, <1>5, <1>14, <2>1 DEF SteadyInv
  <2>2. CASE found # {}
    <3>1. \A r \in found : r.id \in known => Pending(r)'
        BY <1>1, <1>5, <1>15 DEF Pending, AfterCursor
    <3> QED
        BY <1>1, <1>3, <1>5, <1>14, <2>2, <3>1 DEF SteadyInv
  <2> QED
      BY <2>1, <2>2
<1> QED
    BY <1>7, <1>8, <1>11, <1>13, <1>16

\* The page is returned and its cursor is the next one.
LEMMA FetchL == ASSUME LInv, NEW answered \in BOOLEAN, FetchInfo(answered) PROVE LInv'
<1> USE DEF LInv
<1> DEFINE info == fetch_instance_info_map(answered)
<1>1. /\ call = "info" /\ got' = Append(got, IdsOf(info)) /\ gap' = (gap \/ info = {})
      /\ call' = (IF info = {} \/ more = NoCursor THEN "done" ELSE "next")
      /\ cursor' = more /\ page' = {} /\ more' = NoCursor /\ UNCHANGED <<others, steady>>
    BY DEF FetchInfo
<1>2. info \subseteq page /\ IdsOf(info) \subseteq IdsOf(page) /\ IdsOf(page) \subseteq Ids
    BY DEF fetch_instance_info_map, IdsOf, TypeOK, Row
<1>3. /\ Len(got) \in Nat /\ DOMAIN got = 1..Len(got) /\ DOMAIN got' = 1..(Len(got) + 1)
      /\ got' \in Seq(SUBSET Ids) /\ got'[Len(got) + 1] = IdsOf(info)
      /\ \A i \in DOMAIN got : got'[i] = got[i]
  <2>1. got \in Seq(SUBSET Ids) /\ IdsOf(info) \in SUBSET Ids
      BY <1>2 DEF TypeOK
  <2> QED
      BY <1>1, <2>1
<1>4. Seen' = Seen \cup IdsOf(info)
  <2>1. \A i \in DOMAIN got : i \in DOMAIN got'
      BY <1>3
  <2>2. \A i \in DOMAIN got' : i \in DOMAIN got \/ i = Len(got) + 1
      BY <1>3
  <2>3. Len(got) + 1 \in DOMAIN got'
      BY <1>3
  <2> QED
      BY <1>3, <2>1, <2>2, <2>3, Zenon DEF Seen
<1>5. TypeOK'
    BY <1>1, <1>3 DEF TypeOK, others
<1>6. KeyInv' /\ ClientInv' /\ Rows' = Rows /\ clock' = clock /\ known' = known /\ listed' = listed
    BY <1>1 DEF KeyInv, ClientInv, Rows, others
<1>7. SeenInv'
  <2>1. \A i \in DOMAIN got : got[i] \cap IdsOf(info) = {}
      BY <1>1, <1>2 DEF PageInv, Seen
  <2>2. \A i, j \in DOMAIN got' : i # j => got'[i] \cap got'[j] = {}
      BY <1>3, <2>1 DEF SeenInv
  <2>3. call' = "next" => Behind(more, Seen \cup IdsOf(page))
      BY <1>1 DEF PageInv
  <2> QED
      BY <1>1, <1>2, <1>4, <1>6, <2>2, <2>3 DEF SeenInv, Behind
<1>8. PageInv'
    BY <1>1 DEF PageInv
<1>9. SteadyInv'
  <2>1. ASSUME info # {}, NEW id \in steady, id \notin Seen \cup IdsOf(info)
        PROVE  more # NoCursor /\ \E r \in listed : r.id = id /\ Pending(r) /\ Beyond(more, r)
    <3>1. PICK r \in listed : r.id = id /\ Pending(r)
        BY <1>1, <2>1 DEF SteadyInv
    <3>2. r \notin page
        BY <2>1, <3>1 DEF fetch_instance_info_map, Pending, IdsOf
    <3> QED
        BY <1>1, <3>1, <3>2 DEF Pending
  <2>2. CASE call' = "next"
    <3>1. ASSUME NEW r \in listed, Pending(r), Beyond(more, r) PROVE Pending(r)'
      <4>1. AfterCursor(r)'
        <5>1. r.at \in Nat /\ more.at \in Nat
            BY <1>1, <2>2 DEF TypeOK, Row, Position
        <5> QED
            BY <1>1, <3>1, <5>1 DEF AfterCursor, Beyond
      <4> QED
          BY <1>6, <2>2, <3>1, <4>1 DEF Pending
    <3> QED
        BY <1>1, <1>4, <1>6, <2>1, <2>2, <3>1 DEF SteadyInv
  <2>3. CASE call' = "done"
      BY <1>1, <1>4, <2>1, <2>3 DEF SteadyInv
  <2> QED
      BY <1>1, <2>2, <2>3
<1> QED
    BY <1>5, <1>6, <1>7, <1>8, <1>9

\* A stuttering step changes nothing.
LEMMA StutterL == ASSUME LInv, UNCHANGED listvars PROVE LInv'
<1> USE DEF LInv
<1>1. /\ UNCHANGED client /\ clock' = clock /\ clock \in Nat /\ starting' = starting
      /\ steady' = steady /\ known' = known /\ listed' = listed /\ Rows' = Rows
    BY DEF listvars, client, TypeOK, Rows
<1>2. TypeOK'
    BY <1>1, OthersTyped DEF TypeOK
<1> QED
    BY <1>1, <1>2, OthersL DEF KeyInv

\* The listing keeps its invariant: LInv is inductive.
THEOREM Invariance == ListSpec => []LInv
<1>1. ASSUME LInv, [ListNext]_listvars PROVE LInv'
    BY <1>1, BeginL, CommitL, LearnL, FinishL, RetireL, TickL, ReadL, FetchL, StutterL DEF ListNext
<1> QED
    BY <1>1, InitL, PTL DEF ListSpec

\* No instance is on two pages, and none that was there all the while is on
\* none: df.list_instances() pages through any number of instances, in pages
\* of any size, whatever happens between two calls.
THEOREM PagesComplete == ListSpec => []PagesAreComplete
<1>1. LInv => PagesAreComplete
    BY DEF LInv, SeenInv, SteadyInv, PagesAreComplete, Seen
<1> QED
    BY <1>1, Invariance, PTL

-----------------------------------------------------------------------------
(* Futures and their children. *)

\* F is a set of futures with all their children; K has the keys of their queries.
Futures(F, K) ==
    /\ Absent \notin F
    /\ \A q \in SUBSET (K \cup {"condition_node", "extra_nodes"}) : q \notin {Absent, Text}
    /\ F \subseteq [type : STRING, left : F \cup {Absent}, right : F \cup {Absent},
                    cond : F \cup {Absent}, extras : Seq(F),
                    query : {Absent, Text} \cup SUBSET K, name : STRING \cup {Absent}]

\* The numbers from n on.
From(s, n) == s \in Seq(Nat) /\ \A k \in 1 .. Len(s) : s[k] = n + k - 1

\* What two sequences hold, one after the other.
LEMMA Concatenated ==
    ASSUME NEW S, NEW s \in Seq(S), NEW t \in Seq(S)
    PROVE  /\ s \o t \in Seq(S) /\ Len(s \o t) = Len(s) + Len(t)
           /\ \A i \in 1 .. Len(s) : (s \o t)[i] = s[i]
           /\ \A i \in 1 .. Len(t) : (s \o t)[Len(s) + i] = t[i]
    OBVIOUS

\* Numbers, and those that follow.
LEMMA FromOn ==
    ASSUME NEW n \in Nat, NEW s, NEW t, From(s, n), From(t, n + Len(s))
    PROVE  From(s \o t, n) /\ Len(s \o t) = Len(s) + Len(t)
<1>1. s \in Seq(Nat) /\ t \in Seq(Nat)
    BY DEF From
<1>2. Len(s) \in Nat /\ Len(t) \in Nat
    BY <1>1
<1>3. /\ s \o t \in Seq(Nat) /\ Len(s \o t) = Len(s) + Len(t)
      /\ \A i \in 1 .. Len(s) : (s \o t)[i] = s[i]
      /\ \A i \in 1 .. Len(t) : (s \o t)[Len(s) + i] = t[i]
    BY <1>1, Concatenated
<1> DEFINE u == s \o t
<1> HIDE DEF u
<1>4. ASSUME NEW k \in 1 .. Len(u) PROVE u[k] = n + k - 1
  <2>1. CASE k <= Len(s)
      BY <2>1, <1>2, <1>3 DEF From, u
  <2>2. CASE k > Len(s)
    <3>1. k - Len(s) \in 1 .. Len(t) /\ k = Len(s) + (k - Len(s))
        BY <2>2, <1>2, <1>3 DEF u
    <3>2. u[k] = t[k - Len(s)]
        BY <3>1, <1>3 DEF u
    <3> QED
        BY <3>1, <3>2, <1>2 DEF From
  <2> QED
      BY <2>1, <2>2, <1>2, <1>3 DEF u
<1> QED
    BY <1>3, <1>4 DEF From, u

\* One number, or none.
LEMMA FromGiven ==
    ASSUME NEW n \in Nat, NEW x, x \in {n, Absent}
    PROVE  /\ From(Given(x), n)
           /\ Len(Given(x)) = IF x = Absent THEN 0 ELSE 1
    BY AbsentAssumption DEF From, Given

\* The children are futures, each where its role puts it.
LEMMA ChildrenOf ==
    ASSUME NEW F, NEW K, Futures(F, K), NEW f \in F
    PROVE  LET c == children(f)
               l == Len(Given(f.left))
               r == Len(Given(f.right))
           IN  /\ c \in Seq(F) /\ l \in {0, 1} /\ r \in {0, 1}
               /\ f.left # Absent => l = 1 /\ Len(c) >= 1 /\ c[1] = f.left
               /\ f.right # Absent => r = 1 /\ Len(c) >= l + 1 /\ c[l + 1] = f.right
               /\ f.type \in {"IF", "LOOP"} /\ f.cond # Absent =>
                    Len(c) = l + r + 1 /\ c[l + r + 1] = f.cond
               /\ f.type = "JOIN" =>
                    /\ Len(c) = l + r + Len(f.extras)
                    /\ \A i \in 1 .. Len(f.extras) : c[l + r + i] = f.extras[i]
               /\ f.type # "JOIN" /\ ~(f.type \in {"IF", "LOOP"} /\ f.cond # Absent) =>
                    Len(c) = l + r
<1> DEFINE A == Given(f.left)
           B == Given(f.right)
           C == IF f.type \in {"IF", "LOOP"} THEN Given(f.cond) ELSE <<>>
           E == IF f.type = "JOIN" THEN f.extras ELSE <<>>
<1>1. /\ f.left \in F \cup {Absent} /\ f.right \in F \cup {Absent} /\ f.cond \in F \cup {Absent}
      /\ f.extras \in Seq(F) /\ Absent \notin F
    BY DEF Futures
<1>2. /\ A \in Seq(F)
      /\ f.left # Absent => Len(A) = 1 /\ A[1] = f.left
      /\ f.left = Absent => Len(A) = 0
    BY <1>1 DEF Given
<1>3. /\ B \in Seq(F)
      /\ f.right # Absent => Len(B) = 1 /\ B[1] = f.right
      /\ f.right = Absent => Len(B) = 0
    BY <1>1 DEF Given
<1>4. /\ C \in Seq(F)
      /\ f.type \in {"IF", "LOOP"} /\ f.cond # Absent => Len(C) = 1 /\ C[1] = f.cond
      /\ ~(f.type \in {"IF", "LOOP"} /\ f.cond # Absent) => Len(C) = 0
    BY <1>1 DEF Given
<1>5. E \in Seq(F) /\ (f.type = "JOIN" => E = f.extras) /\ (f.type # "JOIN" => Len(E) = 0)
    BY <1>1
<1>6. children(f) = ((A \o B) \o C) \o E
    BY DEF children
<1> HIDE DEF A, B, C, E
<1> DEFINE AB == A \o B
           ABC == AB \o C
           c == ABC \o E
<1>7. /\ AB \in Seq(F) /\ Len(AB) = Len(A) + Len(B)
      /\ \A i \in 1 .. Len(A) : AB[i] = A[i]
      /\ \A i \in 1 .. Len(B) : AB[Len(A) + i] = B[i]
    BY <1>2, <1>3, Concatenated
<1> HIDE DEF AB
<1>8. /\ ABC \in Seq(F) /\ Len(ABC) = Len(AB) + Len(C)
      /\ \A i \in 1 .. Len(AB) : ABC[i] = AB[i]
      /\ \A i \in 1 .. Len(C) : ABC[Len(AB) + i] = C[i]
    BY <1>7, <1>4, Concatenated
<1> HIDE DEF ABC
<1>9. /\ c \in Seq(F) /\ Len(c) = Len(ABC) + Len(E)
      /\ \A i \in 1 .. Len(ABC) : c[i] = ABC[i]
      /\ \A i \in 1 .. Len(E) : c[Len(ABC) + i] = E[i]
  <2>1. ABC \in Seq(F) /\ E \in Seq(F)
      BY <1>8, <1>5
  <2> QED
      BY <2>1, Concatenated
<1> HIDE DEF c
<1>10. children(f) = c
    BY <1>6 DEF c, ABC, AB
<1>11. Len(A) \in {0, 1} /\ Len(B) \in {0, 1} /\ Len(E) \in Nat /\ Len(C) \in {0, 1}
    BY <1>2, <1>3, <1>4, <1>5
<1>12. f.left # Absent => Len(c) >= 1 /\ c[1] = f.left
    BY <1>2, <1>7, <1>8, <1>9, <1>11
<1>13. f.right # Absent => Len(c) >= Len(A) + 1 /\ c[Len(A) + 1] = f.right
    BY <1>3, <1>7, <1>8, <1>9, <1>11
<1>14. f.type \in {"IF", "LOOP"} /\ f.cond # Absent =>
            Len(c) = Len(A) + Len(B) + 1 /\ c[Len(A) + Len(B) + 1] = f.cond
  <2> HAVE f.type \in {"IF", "LOOP"} /\ f.cond # Absent
  <2>1. f.type # "JOIN"
      OBVIOUS
  <2>2. Len(E) = 0 /\ Len(C) = 1 /\ C[1] = f.cond
      BY <2>1, <1>4, <1>5
  <2>3. Len(ABC) = Len(A) + Len(B) + 1
      BY <2>2, <1>7, <1>8
  <2>4. ABC[Len(AB) + 1] = f.cond /\ Len(AB) + 1 \in 1 .. Len(ABC)
      BY <2>2, <2>3, <1>7, <1>8, <1>11
  <2> QED
      BY <2>2, <2>3, <2>4, <1>7, <1>9
<1>15. f.type = "JOIN" =>
            /\ Len(c) = Len(A) + Len(B) + Len(f.extras)
            /\ \A i \in 1 .. Len(f.extras) : c[Len(A) + Len(B) + i] = f.extras[i]
  <2> HAVE f.type = "JOIN"
  <2>1. Len(C) = 0 /\ E = f.extras
      BY <1>4, <1>5
  <2>2. Len(ABC) = Len(A) + Len(B)
      BY <2>1, <1>7, <1>8, <1>11
  <2> QED
      BY <2>1, <2>2, <1>9
<1>16. f.type # "JOIN" /\ ~(f.type \in {"IF", "LOOP"} /\ f.cond # Absent) =>
            Len(c) = Len(A) + Len(B)
  <2> HAVE f.type # "JOIN" /\ ~(f.type \in {"IF", "LOOP"} /\ f.cond # Absent)
  <2>1. Len(C) = 0 /\ Len(E) = 0
      BY <1>4, <1>5
  <2> QED
      BY <2>1, <1>7, <1>8, <1>9, <1>11
<1> QED
    BY <1>2, <1>3, <1>9, <1>10, <1>11, <1>12, <1>13, <1>14, <1>15, <1>16 DEF A, B

\* The rounds of flatten_graph that are not refused.
Sound(f) ==
    /\ f.type \in VALID_NODE_TYPES /\ validate_config_children(f)
    /\ f.query = Text => f.cond = Absent /\ f.extras = <<>>

\* A row.
NodeRow(K) ==
    [id : Nat, type : STRING, name : STRING \cup {Absent}, left : Nat \cup {Absent},
     right : Nat \cup {Absent}, cond : Nat \cup {Absent}, extras : Seq(Nat),
     query : {Absent, Text} \cup SUBSET (K \cup {"condition_node", "extra_nodes"})]

\* Queries as they are stored have the keys of the node's, and of its references.
LEMMA QueryOf ==
    ASSUME NEW F, NEW K, Futures(F, K), NEW f \in F, Sound(f),
           NEW ids \in SUBSET {"condition_node", "extra_nodes"},
           ids # {} => f.query # Text
    PROVE  /\ materialized_query(f, ids) \in
                    {Absent, Text} \cup SUBSET (K \cup {"condition_node", "extra_nodes"})
           /\ Settings(materialized_query(f, ids)) = Settings(f.query)
<1>1. f.query \in {Absent, Text} \cup SUBSET K
    BY DEF Futures
<1>2. CASE ids = {}
    BY <1>1, <1>2 DEF materialized_query
<1>3. CASE ids # {}
  <2> DEFINE q == IF f.query = Absent THEN {} ELSE f.query
  <2>1. q \in SUBSET K
      BY <1>1, <1>3
  <2>2. q \cup ids \in SUBSET (K \cup {"condition_node", "extra_nodes"})
      BY <2>1
  <2>3. q \cup ids \notin {Absent, Text}
      BY <2>2 DEF Futures
  <2>4. materialized_query(f, ids) = q \cup ids
      BY <1>3 DEF materialized_query
  <2>5. Settings(q \cup ids) = q \ {"condition_node", "extra_nodes"}
      BY <2>3 DEF Settings
  <2>6. Settings(f.query) = q \ {"condition_node", "extra_nodes"}
      BY <1>3 DEF Settings
  <2> QED
      BY <2>2, <2>4, <2>5, <2>6
<1> QED
    BY <1>2, <1>3

\* The row r of the future f names its children by the numbers from the next one on.
RowFor(K, r, f, id, next) ==
    LET left == Len(Given(f.left))
        right == Len(Given(f.right))
    IN  /\ r \in NodeRow(K) /\ r.id = id /\ r.type = f.type /\ r.name = f.name
        /\ Settings(r.query) = Settings(f.query)
        /\ From(References(r), next) /\ Len(References(r)) = Len(children(f))
        /\ r.left = IF f.left = Absent THEN Absent ELSE next
        /\ r.right = IF f.right = Absent THEN Absent ELSE next + left
        /\ r.cond = IF f.cond = Absent THEN Absent ELSE next + left + right
        /\ f.cond # Absent => f.type \in {"IF", "LOOP"}
        /\ f.extras # <<>> => f.type = "JOIN"
        /\ r.extras \in Seq(Nat) /\ Len(r.extras) = Len(f.extras)
        /\ \A i \in 1 .. Len(f.extras) : r.extras[i] = next + left + right + i - 1

\* Such is the row that materialization makes.
LEMMA MaterializedRow ==
    ASSUME NEW F, NEW K, Futures(F, K), NEW f \in F, Sound(f), NEW id \in Nat, NEW depth,
           NEW next \in Nat
    PROVE  RowFor(K, Materialized([node |-> f, id |-> id, depth |-> depth], next), f, id, next)
<1> DEFINE entry == [node |-> f, id |-> id, depth |-> depth]
           r == Materialized(entry, next)
           left == Len(Given(f.left))
           right == Len(Given(f.right))
           ids == (IF f.cond # Absent THEN {"condition_node"} ELSE {})
                    \cup (IF f.extras # <<>> THEN {"extra_nodes"} ELSE {})
<1>1. /\ f.left \in F \cup {Absent} /\ f.right \in F \cup {Absent} /\ f.cond \in F \cup {Absent}
      /\ f.extras \in Seq(F) /\ Absent \notin F /\ f.type \in STRING /\ f.name \in STRING \cup {Absent}
    BY DEF Futures
<1>2. left \in {0, 1} /\ right \in {0, 1}
    BY ChildrenOf
<1>3. /\ f.cond # Absent => f.type \in {"IF", "LOOP"}
      /\ f.extras # <<>> => f.type = "JOIN"
      /\ f.query = Text => f.cond = Absent /\ f.extras = <<>>
    BY DEF Sound, validate_config_children
<1> HIDE DEF left, right
<1>4. /\ r.id = id /\ r.type = f.type /\ r.name = f.name
      /\ r.left = IF f.left = Absent THEN Absent ELSE next
      /\ r.right = IF f.right = Absent THEN Absent ELSE next + left
      /\ r.cond = IF f.type \in {"IF", "LOOP"} /\ f.cond # Absent THEN next + left + right ELSE Absent
      /\ r.extras = IF f.type = "JOIN"
                    THEN [i \in DOMAIN f.extras |-> next + left + right + i - 1] ELSE <<>>
      /\ r.query = materialized_query(f, ids)
    BY DEF Materialized, left, right
<1>5. r = [id |-> r.id, type |-> r.type, name |-> r.name, left |-> r.left, right |-> r.right,
           cond |-> r.cond, extras |-> r.extras, query |-> r.query]
    BY DEF Materialized
<1> HIDE DEF r
<1>6. r.cond = IF f.cond = Absent THEN Absent ELSE next + left + right
    BY <1>3, <1>4
<1>7. /\ r.extras \in Seq(Nat) /\ Len(r.extras) = Len(f.extras)
      /\ \A i \in 1 .. Len(f.extras) : r.extras[i] = next + left + right + i - 1
  <2>1. CASE f.type = "JOIN"
    <3> DEFINE s == [i \in 1 .. Len(f.extras) |-> next + left + right + i - 1]
    <3>1. r.extras = s
        BY <2>1, <1>1, <1>4
    <3>2. \A i \in 1 .. Len(f.extras) : next + left + right + i - 1 \in Nat
        BY <1>1, <1>2
    <3>3. s \in Seq(Nat) /\ Len(s) = Len(f.extras)
        BY <3>2, <1>1
    <3> QED
        BY <3>1, <3>3
  <2>2. CASE f.type # "JOIN"
    <3>1. f.extras = <<>> /\ r.extras = <<>>
        BY <2>2, <1>3, <1>4
    <3> QED
        BY <3>1
  <2> QED
      BY <2>1, <2>2
<1>8. /\ r.query \in {Absent, Text} \cup SUBSET (K \cup {"condition_node", "extra_nodes"})
      /\ Settings(r.query) = Settings(f.query)
  <2>1. ids \in SUBSET {"condition_node", "extra_nodes"} /\ (ids # {} => f.query # Text)
      BY <1>3
  <2> HIDE DEF ids
  <2> QED
      BY <2>1, <1>4, QueryOf
<1>9. /\ next + left \in Nat /\ next + left + right \in Nat
      /\ r.left \in Nat \cup {Absent} /\ r.right \in Nat \cup {Absent} /\ r.cond \in Nat \cup {Absent}
    BY <1>2, <1>4, <1>6
<1>10. r \in NodeRow(K)
  <2>1. r.id \in Nat /\ r.type \in STRING /\ r.name \in STRING \cup {Absent}
      BY <1>1, <1>4
  <2> QED
      BY <1>5, <1>7, <1>8, <1>9, <2>1 DEF NodeRow
<1>11. From(References(r), next) /\ Len(References(r)) = Len(children(f))
  <2> DEFINE A == Given(r.left)
             B == Given(r.right)
             C == Given(r.cond)
             E == r.extras
  <2>1. From(A, next) /\ Len(A) = left
    <3>1. r.left \in {next, Absent} /\ (r.left = Absent <=> f.left = Absent)
        BY <1>4, AbsentAssumption
    <3>2. left = IF f.left = Absent THEN 0 ELSE 1
        BY DEF left, Given
    <3> QED
        BY <3>1, <3>2, FromGiven
  <2>2. From(B, next + left) /\ Len(B) = right
    <3>1. r.right \in {next + left, Absent} /\ (r.right = Absent <=> f.right = Absent)
        BY <1>4, <1>9, AbsentAssumption
    <3>2. right = IF f.right = Absent THEN 0 ELSE 1
        BY DEF right, Given
    <3> QED
        BY <3>1, <3>2, <1>9, FromGiven
  <2>3. From(C, next + left + right) /\ Len(C) = IF f.cond = Absent THEN 0 ELSE 1
    <3>1. r.cond \in {next + left + right, Absent} /\ (r.cond = Absent <=> f.cond = Absent)
        BY <1>6, <1>9, AbsentAssumption
    <3> QED
        BY <3>1, <1>9, FromGiven
  <2>4. From(E, next + left + right + Len(C))
    <3>1. CASE E = <<>>
        BY <3>1 DEF From
    <3>2. CASE E # <<>>
      <4>1. Len(E) # 0 /\ Len(E) = Len(f.extras)
          BY <3>2, <1>7, EmptySeq
      <4>2. f.extras # <<>>
          BY <4>1
      <4>3. Len(C) = 0
          BY <4>2, <1>3, <2>3
      <4> QED
          BY <4>1, <4>3, <1>7, <1>9 DEF From
    <3> QED
        BY <3>1, <3>2
  <2>5. References(r) = ((A \o B) \o C) \o E
      BY DEF References
  <2>6. Len(C) \in Nat
      BY <2>3
  <2> HIDE DEF A, B, C, E
  <2>7. From(A \o B, next) /\ Len(A \o B) = left + right
      BY <2>1, <2>2, FromOn
  <2>8. From((A \o B) \o C, next) /\ Len((A \o B) \o C) = left + right + Len(C)
    <3>1. next + Len(A \o B) = next + left + right
        BY <2>7, <1>2
    <3> QED
        BY <2>7, <3>1, <2>3, FromOn
  <2>9. From(((A \o B) \o C) \o E, next) /\ Len(((A \o B) \o C) \o E) = left + right + Len(C) + Len(E)
    <3> DEFINE ABC == (A \o B) \o C
    <3>1. From(ABC, next) /\ Len(ABC) = left + right + Len(C)
        BY <2>8
    <3> HIDE DEF ABC
    <3>2. next + Len(ABC) = next + left + right + Len(C)
        BY <3>1, <1>2, <2>6
    <3>3. From(ABC \o E, next) /\ Len(ABC \o E) = Len(ABC) + Len(E)
        BY <3>1, <3>2, <2>4, FromOn
    <3> QED
        BY <3>1, <3>3 DEF ABC
  <2>10. Len(children(f)) = left + right + Len(C) + Len(E)
    <3>1. /\ f.type \in {"IF", "LOOP"} /\ f.cond # Absent => Len(children(f)) = left + right + 1
          /\ f.type = "JOIN" => Len(children(f)) = left + right + Len(f.extras)
          /\ f.type # "JOIN" /\ ~(f.type \in {"IF", "LOOP"} /\ f.cond # Absent) =>
                Len(children(f)) = left + right
        BY ChildrenOf DEF left, right
    <3>2. Len(E) = Len(f.extras) /\ (f.extras = <<>> => Len(E) = 0) /\ Len(E) \in Nat
        BY <1>7 DEF E
    <3>3. CASE f.type = "JOIN"
      <4>1. f.cond = Absent
          BY ONLY <3>3, <1>3
      <4>2. Len(C) = 0
          BY ONLY <4>1, <2>3
      <4>3. Len(children(f)) = left + right + Len(E)
          BY ONLY <3>1, <3>2, <3>3
      <4>4. left + right + 0 + Len(E) = left + right + Len(E)
          BY ONLY <3>2, <1>2
      <4> QED
          BY ONLY <4>2, <4>3, <4>4
    <3>4. CASE f.type # "JOIN" /\ f.cond # Absent
      <4>1. Len(E) = 0 /\ Len(C) = 1 /\ f.type \in {"IF", "LOOP"}
          BY ONLY <3>2, <3>4, <1>3, <2>3
      <4> QED
          BY ONLY <3>1, <3>4, <4>1, <1>2
    <3>5. CASE f.type # "JOIN" /\ f.cond = Absent
      <4>1. Len(E) = 0 /\ Len(C) = 0
          BY ONLY <3>2, <3>5, <1>3, <2>3
      <4> QED
          BY ONLY <3>1, <3>5, <4>1, <1>2
    <3> QED
        BY ONLY <3>3, <3>4, <3>5
  <2> QED
      BY <2>5, <2>9, <2>10
<1> QED
    BY <1>3, <1>4, <1>6, <1>7, <1>8, <1>10, <1>11 DEF RowFor, r, left, right

-----------------------------------------------------------------------------
(* The invariant. *)

Entry(F) == [node : F, id : Nat, depth : Nat]

\* What has an identifier: the nodes, and what is on the stack.
Discovered == Len(nodes) + Len(pending)

FlattenTypes(F, K) ==
    /\ fut \in F /\ pending \in Seq(Entry(F)) /\ nodes \in Seq(NodeRow(K)) /\ rows \in Seq(NodeRow(K))
    /\ phase \in {"building", "flatten", "started", "failed", "unlucky"}

\* Before the loop, after it, and the rows so far.
Progress ==
    /\ phase = "building" => pending = <<>> /\ nodes = <<>>
    /\ pending # <<>> \/ phase = "building" => rows = <<>>
    /\ phase \in {"building", "flatten", "started"} =>
            /\ Len(rows) <= Len(nodes)
            /\ \A i \in 1 .. Len(rows) : rows[i] = nodes[i]
    /\ phase = "started" => pending = <<>> /\ Len(rows) = Len(nodes)

Kept == phase \in {"flatten", "started"}

\* Each number is the identifier of one node or entry; the root has the first.
Numbered ==
    /\ Discovered \in 1 .. MaxNodes
    /\ nodes = <<>> => Len(pending) = 1 /\ pending[1].id = 1
    /\ nodes # <<>> => nodes[1].id = 1
    /\ \A i \in 1 .. Len(nodes) : nodes[i].id \in 1 .. Discovered
    /\ \A i \in 1 .. Len(pending) : pending[i].id \in 1 .. Discovered
    /\ \A i, j \in 1 .. Len(nodes) : nodes[i].id = nodes[j].id => i = j
    /\ \A i, j \in 1 .. Len(pending) : pending[i].id = pending[j].id => i = j
    /\ \A i \in 1 .. Len(nodes), j \in 1 .. Len(pending) : nodes[i].id # pending[j].id
    /\ \A n \in 1 .. Discovered :
            \/ \E i \in 1 .. Len(nodes) : nodes[i].id = n
            \/ \E i \in 1 .. Len(pending) : pending[i].id = n

\* Of the node at i, what its row names.
Names(i) == References(nodes[i])

\* What a node names is neither itself nor before it; all but the root are named,
\* once.
Named ==
    /\ \A i \in 1 .. Len(nodes) : Names(i) \in Seq(Nat)
    /\ \A i \in 1 .. Len(nodes) : \A k \in 1 .. Len(Names(i)) :
            Names(i)[k] \in 2 .. Discovered /\ \A j \in 1 .. i : nodes[j].id # Names(i)[k]
    /\ \A n \in 2 .. Discovered :
            \E i \in 1 .. Len(nodes) : \E k \in 1 .. Len(Names(i)) : Names(i)[k] = n
    /\ \A i, j \in 1 .. Len(nodes) :
            \A k \in 1 .. Len(Names(i)), l \in 1 .. Len(Names(j)) :
                Names(i)[k] = Names(j)[l] => i = j /\ k = l

\* The row r is the future f, and the rows it names are its children, one level
\* below.
Shows(r, f, at, level) ==
    /\ r.type = f.type /\ r.name = f.name /\ Settings(r.query) = Settings(f.query)
    /\ IF f.left = Absent THEN r.left = Absent ELSE r.left \in Nat /\ at[r.left] = f.left
    /\ IF f.right = Absent THEN r.right = Absent ELSE r.right \in Nat /\ at[r.right] = f.right
    /\ IF f.cond = Absent THEN r.cond = Absent ELSE r.cond \in Nat /\ at[r.cond] = f.cond
    /\ Len(r.extras) = Len(f.extras)
    /\ \A i \in 1 .. Len(f.extras) : at[r.extras[i]] = f.extras[i]
    /\ \A k \in 1 .. Len(References(r)) : level[References(r)[k]] = level[r.id] + 1

\* What a row names has been discovered.
Within(r, d) ==
    /\ \A m \in {r.left, r.right, r.cond} : m = Absent \/ m \in 1 .. d
    /\ \A i \in 1 .. Len(r.extras) : r.extras[i] \in 1 .. d

\* at says which part of the future an identifier stands for, and level how far
\* below the root.
Pictured(at, level) ==
    /\ at[1] = fut /\ level[1] = 0
    /\ \A i \in 1 .. Len(nodes) :
            /\ level[nodes[i].id] \in 0 .. MaxDepth
            /\ Shows(nodes[i], at[nodes[i].id], at, level)
            /\ Within(nodes[i], Discovered)
    /\ \A i \in 1 .. Len(pending) :
            at[pending[i].id] = pending[i].node /\ level[pending[i].id] = pending[i].depth

FlattenInv(F, K) ==
    /\ FlattenTypes(F, K) /\ Progress
    /\ Kept => Numbered /\ Named /\ \E at, level : Pictured(at, level)

-----------------------------------------------------------------------------
(* One round of the loop. *)

\* The node at the end, and the children on the stack, the first one on top.
RoundTop(F, f, c) ==
    /\ f \in F /\ Sound(f) /\ c = children(f) /\ c \in Seq(F)
    /\ Len(pending) \in Nat \ {0} /\ pending[Len(pending)].node = f
    /\ pending[Len(pending)].depth \in 0 .. MaxDepth /\ pending[Len(pending)].id \in Nat
    /\ c # <<>> => Discovered + Len(c) <= MaxNodes
    /\ phase' = phase /\ phase = "flatten" /\ fut' = fut /\ rows' = rows
    /\ Len(nodes') = Len(nodes) + 1 /\ Len(pending') = Len(pending) - 1 + Len(c)
RoundNodes(K, f) ==
    /\ nodes' \in Seq(NodeRow(K))
    /\ \A i \in 1 .. Len(nodes) : nodes'[i] = nodes[i]
    /\ nodes'[Len(nodes) + 1] = Materialized(
            [node |-> f, id |-> pending[Len(pending)].id, depth |-> pending[Len(pending)].depth],
            Discovered + 1)
RoundStack(F, c) ==
    /\ pending' \in Seq(Entry(F))
    /\ \A i \in 1 .. Len(pending) - 1 : pending'[i] = pending[i]
    /\ \A i \in 1 .. Len(c) :
            pending'[Len(pending) - 1 + i] =
                [node |-> c[Len(c) - i + 1], id |-> Discovered + (Len(c) - i + 1),
                 depth |-> pending[Len(pending)].depth + 1]
Round(F, K, f, c) == RoundTop(F, f, c) /\ RoundNodes(K, f) /\ RoundStack(F, c)

\* What a round does when nothing is refused.
LEMMA RoundOf ==
    ASSUME NEW F, NEW K, Futures(F, K), FlattenTypes(F, K), FlattenStep,
           ~Refused(Last(pending), Discovered)
    PROVE  \E f, c : Round(F, K, f, c)
<1> DEFINE p == Len(pending)
           e == pending[p]
           f == e.node
           c == children(f)
           kids == [i \in 1 .. Len(c) |->
                      [node |-> c[i], id |-> Discovered + i, depth |-> e.depth + 1]]
<1>1. pending \in Seq(Entry(F)) /\ nodes \in Seq(NodeRow(K)) /\ pending # <<>>
    BY DEF FlattenTypes, FlattenStep
<1>2. p \in Nat \ {0} /\ e \in Entry(F) /\ Last(pending) = e /\ Len(nodes) \in Nat
    BY <1>1 DEF Last
<1>3. e = [node |-> f, id |-> e.id, depth |-> e.depth] /\ f \in F /\ e.id \in Nat /\ e.depth \in Nat
    BY <1>2 DEF Entry
<1>4. c \in Seq(F) /\ DOMAIN c = 1 .. Len(c) /\ Len(c) \in Nat
  <2>1. c \in Seq(F)
      BY <1>3, ChildrenOf
  <2> HIDE DEF c
  <2> QED
      BY <2>1
<1>5. Discovered \in Nat /\ Discovered = Len(nodes) + p
    BY <1>2 DEF Discovered
<1> HIDE DEF p, e, f, c
<1>6. ~Refused(e, Discovered)
    BY <1>2
<1>7. /\ e.depth \in 0 .. MaxDepth /\ Sound(f)
      /\ c # <<>> => Discovered + Len(c) <= MaxNodes
  <2>1. MaxDepth \in Nat /\ MaxNodes \in Nat
      BY LimitsAssumption
  <2>2. ~(e.depth > MaxDepth) /\ ~(c # <<>> /\ Discovered + Len(c) > MaxNodes)
      BY <1>6 DEF Refused, c, f
  <2>3. Sound(f)
      BY <1>6 DEF Refused, f, Sound
  <2> QED
      BY <2>1, <2>2, <2>3, <1>3, <1>4, <1>5
<1>8. /\ nodes' = Append(nodes, Materialized(e, Discovered + 1))
      /\ pending' = Front(pending) \o Reverse(kids)
      /\ phase' = phase /\ phase = "flatten" /\ UNCHANGED <<fut, rows>>
    BY <1>2, <1>4, <1>6 DEF FlattenStep, Discovered, c, f
<1>9. Materialized(e, Discovered + 1) \in NodeRow(K)
  <2>1. Discovered + 1 \in Nat
      BY <1>5
  <2> QED
      BY <1>3, <1>7, <2>1, MaterializedRow DEF RowFor
<1>10. /\ nodes' \in Seq(NodeRow(K)) /\ Len(nodes') = Len(nodes) + 1
       /\ \A i \in 1 .. Len(nodes) : nodes'[i] = nodes[i]
       /\ nodes'[Len(nodes) + 1] = Materialized(e, Discovered + 1)
    BY <1>1, <1>8, <1>9
<1>11. /\ Front(pending) \in Seq(Entry(F)) /\ Len(Front(pending)) = p - 1
       /\ \A i \in 1 .. p - 1 : Front(pending)[i] = pending[i]
  <2>1. Front(pending) = SubSeq(pending, 1, p - 1)
      BY DEF Front, p
  <2>2. p - 1 \in 0 .. Len(pending)
      BY <1>2 DEF p
  <2> QED
      BY <1>1, <2>1, <2>2, SubSeqProperties
<1>12. kids \in Seq(Entry(F)) /\ Len(kids) = Len(c)
  <2>1. \A i \in 1 .. Len(c) : [node |-> c[i], id |-> Discovered + i, depth |-> e.depth + 1] \in Entry(F)
      BY <1>3, <1>4, <1>5 DEF Entry
  <2> QED
      BY <2>1, <1>4
<1>13. /\ Reverse(kids) \in Seq(Entry(F)) /\ Len(Reverse(kids)) = Len(c)
       /\ \A i \in 1 .. Len(c) : Reverse(kids)[i] = kids[Len(c) - i + 1]
  <2> HIDE DEF kids
  <2>1. Reverse(kids) = [i \in 1 .. Len(c) |-> kids[(Len(c) - i) + 1]]
      BY <1>12 DEF Reverse
  <2>2. \A i \in 1 .. Len(c) : kids[(Len(c) - i) + 1] \in Entry(F)
      BY <1>12, <1>4
  <2> QED
      BY <2>1, <2>2, <1>4
<1>14. /\ pending' \in Seq(Entry(F)) /\ Len(pending') = p - 1 + Len(c)
       /\ \A i \in 1 .. p - 1 : pending'[i] = pending[i]
       /\ \A i \in 1 .. Len(c) : pending'[p - 1 + i] = kids[Len(c) - i + 1]
  <2> DEFINE front == Front(pending)
             top == Reverse(kids)
  <2> HIDE DEF front, top, kids
  <2>1. pending' = front \o top /\ front \in Seq(Entry(F)) /\ top \in Seq(Entry(F))
      BY <1>8, <1>11, <1>13 DEF front, top
  <2>2. /\ pending' \in Seq(Entry(F)) /\ Len(pending') = Len(front) + Len(top)
        /\ \A i \in 1 .. Len(front) : pending'[i] = front[i]
        /\ \A i \in 1 .. Len(top) : pending'[Len(front) + i] = top[i]
      BY <2>1, Concatenated
  <2> QED
      BY <2>2, <1>11, <1>13 DEF front, top
<1>15. \A i \in 1 .. Len(c) : kids[Len(c) - i + 1] =
            [node |-> c[Len(c) - i + 1], id |-> Discovered + (Len(c) - i + 1), depth |-> e.depth + 1]
    BY <1>4
<1> HIDE DEF kids
<1>16. Round(F, K, f, c)
  <2>1. nodes'[Len(nodes) + 1] = Materialized([node |-> f, id |-> e.id, depth |-> e.depth], Discovered + 1)
      BY <1>3, <1>10
  <2> QED
      BY <1>2, <1>3, <1>4, <1>7, <1>8, <1>10, <1>14, <1>15, <2>1 DEF Round, RoundTop, RoundNodes, RoundStack, p, e, f, c
<1> QED
    BY <1>16

\* After a round each number is still that of one node or entry.
LEMMA RoundNumbered ==
    ASSUME NEW F, NEW K, Futures(F, K), NEW f, NEW c, FlattenTypes(F, K), Numbered,
           Round(F, K, f, c)
    PROVE  Numbered'
<1> DEFINE n == Len(nodes)
           p == Len(pending)
           k == Len(c)
           d == Discovered
<1>1. n \in Nat /\ p \in Nat \ {0} /\ k \in Nat /\ d = n + p /\ MaxNodes \in Nat
    BY LimitsAssumption DEF Round, RoundTop, FlattenTypes, Discovered
<1>2. Len(nodes') = n + 1 /\ Len(pending') = p - 1 + k
    BY DEF Round, RoundTop
<1>3. Discovered' = d + k
    BY <1>1, <1>2 DEF Discovered
<1>4. \A i \in 1 .. n : nodes'[i] = nodes[i]
    BY DEF Round, RoundNodes
<1>5. nodes'[n + 1].id = pending[p].id
    BY DEF Round, RoundNodes, Materialized
<1>6. \A i \in 1 .. p - 1 : pending'[i] = pending[i]
    BY DEF Round, RoundStack
<1>7. \A i \in 1 .. k : pending'[p - 1 + i].id = d + (k - i + 1)
  <2>1. \A i \in 1 .. k : pending'[p - 1 + i] =
            [node |-> c[k - i + 1], id |-> d + (k - i + 1), depth |-> pending[p].depth + 1]
      BY DEF Round, RoundStack
  <2> TAKE i \in 1 .. k
  <2>2. PICK x, y, z : pending'[p - 1 + i] = [node |-> x, id |-> y, depth |-> z] /\ y = d + (k - i + 1)
      BY <2>1
  <2> QED
      BY <2>2
<1>8. d \in 1 .. MaxNodes /\ (k # 0 => d + k <= MaxNodes)
    BY DEF Round, RoundTop, Numbered
<1>9. /\ \A i \in 1 .. n : nodes[i].id \in 1 .. d
      /\ \A i \in 1 .. p : pending[i].id \in 1 .. d
      /\ \A i, j \in 1 .. n : nodes[i].id = nodes[j].id => i = j
      /\ \A i, j \in 1 .. p : pending[i].id = pending[j].id => i = j
      /\ \A i \in 1 .. n, j \in 1 .. p : nodes[i].id # pending[j].id
      /\ \A m \in 1 .. d : \/ \E i \in 1 .. n : nodes[i].id = m
                           \/ \E i \in 1 .. p : pending[i].id = m
    BY DEF Numbered
<1>10. nodes'[1].id = 1 /\ nodes' # <<>>
  <2>1. nodes' \in Seq(NodeRow(K)) /\ nodes \in Seq(NodeRow(K))
      BY DEF Round, RoundNodes, FlattenTypes
  <2>2. nodes' # <<>>
      BY <2>1, <1>1, <1>2
  <2>3. CASE nodes = <<>>
    <3>1. n = 0 /\ p = 1 /\ pending[1].id = 1
        BY <2>3 DEF Numbered
    <3> QED
        BY <2>2, <3>1, <1>5
  <2>4. CASE nodes # <<>>
    <3>1. n # 0 /\ nodes[1].id = 1
        BY <2>1, <2>4, EmptySeq DEF Numbered
    <3> QED
        BY <2>2, <3>1, <1>1, <1>4
  <2> QED
      BY <2>3, <2>4
<1> HIDE DEF n, p, k, d
<1>11. \A i \in 1 .. n + 1 : nodes'[i].id = IF i = n + 1 THEN pending[p].id ELSE nodes[i].id
    BY <1>1, <1>4, <1>5
<1>12. \A i \in 1 .. p - 1 + k :
            pending'[i].id = IF i < p THEN pending[i].id ELSE d + (k - (i - (p - 1)) + 1)
  <2> TAKE i \in 1 .. p - 1 + k
  <2>1. CASE i < p
      BY <2>1, <1>1, <1>6
  <2>2. CASE ~(i < p)
    <3>1. i - (p - 1) \in 1 .. k /\ p - 1 + (i - (p - 1)) = i
        BY <2>2, <1>1
    <3> QED
        BY <2>2, <3>1, <1>7
  <2> QED
      BY <2>1, <2>2
<1>13. \A i \in 1 .. n + 1 : nodes'[i].id \in 1 .. d
    BY <1>1, <1>9, <1>11
<1>14. \A i \in 1 .. p - 1 + k :
            \/ i < p /\ pending'[i].id = pending[i].id /\ pending'[i].id \in 1 .. d
            \/ i >= p /\ pending'[i].id = d + (k - (i - (p - 1)) + 1) /\ pending'[i].id \in d + 1 .. d + k
    BY <1>1, <1>9, <1>12, <1>8
<1>15. \A i, j \in 1 .. n + 1 : nodes'[i].id = nodes'[j].id => i = j
    BY <1>1, <1>9, <1>11
<1>16. \A i, j \in 1 .. p - 1 + k : pending'[i].id = pending'[j].id => i = j
    BY <1>1, <1>8, <1>9, <1>14
<1>17. \A i \in 1 .. n + 1, j \in 1 .. p - 1 + k : nodes'[i].id # pending'[j].id
  <2> TAKE i \in 1 .. n + 1, j \in 1 .. p - 1 + k
  <2>1. CASE j < p
      BY <2>1, <1>1, <1>9, <1>11, <1>14
  <2>2. CASE j >= p
      BY <2>2, <1>1, <1>8, <1>13, <1>14
  <2> QED
      BY <2>1, <2>2, <1>1
<1>18. \A m \in 1 .. d + k : \/ \E i \in 1 .. n + 1 : nodes'[i].id = m
                            \/ \E i \in 1 .. p - 1 + k : pending'[i].id = m
  <2> TAKE m \in 1 .. d + k
  <2>1. CASE m <= d
    <3>1. m \in 1 .. d
        BY <2>1, <1>8
    <3>2. CASE \E i \in 1 .. n : nodes[i].id = m
      <4>1. PICK i \in 1 .. n : nodes[i].id = m
          BY <3>2
      <4> QED
          BY <4>1, <1>1, <1>11
    <3>3. CASE \E i \in 1 .. p : pending[i].id = m
      <4>1. PICK i \in 1 .. p : pending[i].id = m
          BY <3>3
      <4>2. CASE i = p
        <5>1. n + 1 \in 1 .. n + 1 /\ nodes'[n + 1].id = m
            BY <4>1, <4>2, <1>1, <1>5 DEF p
        <5> QED
            BY <5>1
      <4>3. CASE i # p
        <5>1. i \in 1 .. p - 1 + k /\ pending'[i].id = m
            BY <4>1, <4>3, <1>1, <1>12
        <5> QED
            BY <5>1
      <4> QED
          BY <4>2, <4>3
    <3> QED
        BY <3>1, <3>2, <3>3, <1>9
  <2>2. CASE m > d
    <3> DEFINE i == p - 1 + (k - (m - d) + 1)
    <3>1. k - (m - d) + 1 \in 1 .. k /\ i \in 1 .. p - 1 + k
        BY <2>2, <1>1, <1>8
    <3>2. pending'[i].id = d + (k - (k - (m - d) + 1) + 1)
        BY <3>1, <1>7
    <3>3. pending'[i].id = m
        BY <3>2, <2>2, <1>1, <1>8
    <3> HIDE DEF i
    <3> QED
        BY <3>1, <3>3
  <2> QED
      BY <2>1, <2>2, <1>8, <1>1
<1>19. d + k \in 1 .. MaxNodes
    BY <1>1, <1>8
<1>20. \A i \in 1 .. n + 1 : nodes'[i].id \in 1 .. d + k
    BY <1>1, <1>8, <1>13
<1>21. \A i \in 1 .. p - 1 + k : pending'[i].id \in 1 .. d + k
    BY <1>1, <1>8, <1>14
<1> QED
    BY <1>2, <1>3, <1>10, <1>15, <1>16, <1>17, <1>18, <1>19, <1>20, <1>21 DEF Numbered

\* After a round every node and entry but the root is still named once.
LEMMA RoundNamed ==
    ASSUME NEW F, NEW K, Futures(F, K), NEW f, NEW c, FlattenTypes(F, K), Numbered, Named,
           Round(F, K, f, c)
    PROVE  Named'
<1> DEFINE n == Len(nodes)
           p == Len(pending)
           k == Len(c)
           d == Discovered
           new == References(nodes'[n + 1])
           Now(i) == References(nodes'[i])
<1>1. n \in Nat /\ p \in Nat \ {0} /\ k \in Nat /\ d = n + p /\ d \in Nat \ {0}
    BY DEF Round, RoundTop, FlattenTypes, Discovered
<1>2. Len(nodes') = n + 1 /\ Len(pending') = p - 1 + k
    BY DEF Round, RoundTop
<1>3. Discovered' = d + k
    BY <1>1, <1>2 DEF Discovered
<1>4. \A i \in 1 .. n : nodes'[i] = nodes[i]
    BY DEF Round, RoundNodes
<1>5. From(new, d + 1) /\ Len(new) = k /\ nodes'[n + 1].id = pending[p].id
  <2>1. d + 1 \in Nat /\ pending[p].id \in Nat /\ f \in F /\ Sound(f) /\ c = children(f)
      BY <1>1 DEF Round, RoundTop
  <2>2. nodes'[n + 1] = Materialized(
            [node |-> f, id |-> pending[p].id, depth |-> pending[p].depth], d + 1)
      BY DEF Round, RoundNodes
  <2>3. RowFor(K, nodes'[n + 1], f, pending[p].id, d + 1)
      BY <2>1, <2>2, MaterializedRow
  <2> QED
      BY <2>1, <2>3 DEF RowFor
<1>6. /\ \A i \in 1 .. n : Names(i) \in Seq(Nat)
      /\ \A i \in 1 .. n : \A x \in 1 .. Len(Names(i)) :
            Names(i)[x] \in 2 .. d /\ \A j \in 1 .. i : nodes[j].id # Names(i)[x]
      /\ \A m \in 2 .. d : \E i \in 1 .. n : \E x \in 1 .. Len(Names(i)) : Names(i)[x] = m
      /\ \A i, j \in 1 .. n : \A x \in 1 .. Len(Names(i)), y \in 1 .. Len(Names(j)) :
                Names(i)[x] = Names(j)[y] => i = j /\ x = y
    BY DEF Named
<1>7. /\ \A i \in 1 .. n : nodes[i].id \in 1 .. d
      /\ pending[p].id \in 1 .. d
    BY <1>1 DEF Numbered
<1>8. \A i \in 1 .. n : Now(i) = Names(i)
    BY <1>4 DEF Names
<1>9. Now(n + 1) = new
    OBVIOUS
<1>10. new \in Seq(Nat) /\ \A x \in 1 .. k : new[x] = d + x
  <2>1. new \in Seq(Nat) /\ \A x \in 1 .. k : new[x] = d + 1 + x - 1
      BY <1>5 DEF From
  <2> HIDE DEF new
  <2> QED
      BY <2>1, <1>1
<1> HIDE DEF n, p, k, d, new, Now
<1>11. \A i \in 1 .. n + 1 : Now(i) \in Seq(Nat)
  <2> TAKE i \in 1 .. n + 1
  <2>1. CASE i = n + 1
      BY <2>1, <1>9, <1>10
  <2>2. CASE i # n + 1
      BY <2>2, <1>1, <1>6, <1>8
  <2> QED
      BY <2>1, <2>2
<1>12. ASSUME NEW i \in 1 .. n + 1, NEW x \in 1 .. Len(Now(i))
       PROVE  Now(i)[x] \in 2 .. d + k /\ \A j \in 1 .. i : nodes'[j].id # Now(i)[x]
  <2>1. CASE i = n + 1
    <3>1. x \in 1 .. k /\ Now(i)[x] = d + x
        BY <2>1, <1>5, <1>9, <1>10
    <3>2. \A j \in 1 .. n + 1 : nodes'[j].id \in 1 .. d
        BY <1>1, <1>4, <1>5, <1>7
    <3> QED
        BY <2>1, <3>1, <3>2, <1>1
  <2>2. CASE i # n + 1
    <3>1. i \in 1 .. n
        BY <2>2, <1>1
    <3>2. x \in 1 .. Len(Names(i)) /\ Now(i)[x] = Names(i)[x]
        BY <3>1, <1>8
    <3>3. \A j \in 1 .. i : nodes'[j] = nodes[j]
        BY <3>1, <1>1, <1>4
    <3>4. Names(i)[x] \in 2 .. d /\ \A j \in 1 .. i : nodes[j].id # Names(i)[x]
        BY <3>1, <3>2, <1>6
    <3>5. Names(i)[x] \in 2 .. d + k
        BY <3>4, <1>1
    <3> QED
        BY <3>2, <3>3, <3>4, <3>5
  <2> QED
      BY <2>1, <2>2
<1>13. ASSUME NEW m \in 2 .. d + k
       PROVE  \E i \in 1 .. n + 1 : \E x \in 1 .. Len(Now(i)) : Now(i)[x] = m
  <2>1. CASE m <= d
    <3>1. m \in 2 .. d
        BY <2>1, <1>1
    <3>2. PICK i \in 1 .. n : \E x \in 1 .. Len(Names(i)) : Names(i)[x] = m
        BY <3>1, <1>6
    <3>3. i \in 1 .. n + 1 /\ Now(i) = Names(i)
        BY <1>1, <1>8
    <3> QED
        BY <3>2, <3>3
  <2>2. CASE m > d
    <3>1. m - d \in 1 .. k /\ d + (m - d) = m /\ n + 1 \in 1 .. n + 1
        BY <2>2, <1>1
    <3>2. m - d \in 1 .. Len(Now(n + 1)) /\ Now(n + 1)[m - d] = m
        BY <3>1, <1>5, <1>9, <1>10
    <3> QED
        BY <3>1, <3>2
  <2> QED
      BY <2>1, <2>2, <1>1
<1>14. ASSUME NEW i \in 1 .. n + 1, NEW j \in 1 .. n + 1, NEW x \in 1 .. Len(Now(i)),
              NEW y \in 1 .. Len(Now(j)), Now(i)[x] = Now(j)[y]
       PROVE  i = j /\ x = y
  <2> DEFINE old(q) == q \in 1 .. n
  <2>1. \A q \in 1 .. n + 1 : old(q) \/ q = n + 1
      BY <1>1
  <2>2. ASSUME NEW q \in 1 .. n + 1, NEW z \in 1 .. Len(Now(q))
        PROVE  /\ old(q) => z \in 1 .. Len(Names(q)) /\ Now(q)[z] = Names(q)[z] /\ Now(q)[z] \in 2 .. d
               /\ q = n + 1 => z \in 1 .. k /\ Now(q)[z] = d + z
      BY <1>5, <1>6, <1>8, <1>9, <1>10
  <2>3. CASE old(i) /\ old(j)
    <3>1. /\ i \in 1 .. n /\ x \in 1 .. Len(Names(i)) /\ Now(i)[x] = Names(i)[x]
          /\ j \in 1 .. n /\ y \in 1 .. Len(Names(j)) /\ Now(j)[y] = Names(j)[y]
        BY <2>2, <2>3
    <3>2. \A x1 \in 1 .. Len(Names(i)), y1 \in 1 .. Len(Names(j)) :
                Names(i)[x1] = Names(j)[y1] => i = j /\ x1 = y1
        BY <3>1, <1>6
    <3>3. Names(i)[x] = Names(j)[y]
        BY <3>1, <1>14
    <3> QED
        BY <3>1, <3>2, <3>3
  <2>4. CASE i = n + 1 /\ j = n + 1
      BY <2>2, <2>4, <1>1, <1>14
  <2>5. CASE old(i) /\ j = n + 1
    <3>1. Now(i)[x] \in 2 .. d /\ y \in 1 .. k /\ Now(j)[y] = d + y
        BY <2>2, <2>5
    <3> QED
        BY <3>1, <1>1, <1>14
  <2>6. CASE i = n + 1 /\ old(j)
    <3>1. Now(j)[y] \in 2 .. d /\ x \in 1 .. k /\ Now(i)[x] = d + x
        BY <2>2, <2>6
    <3> QED
        BY <3>1, <1>1, <1>14
  <2> QED
      BY <2>1, <2>3, <2>4, <2>5, <2>6
<1>15. /\ \A i \in 1 .. Len(nodes') : Now(i) \in Seq(Nat)
       /\ \A i \in 1 .. Len(nodes') : \A x \in 1 .. Len(Now(i)) :
            Now(i)[x] \in 2 .. Discovered' /\ \A j \in 1 .. i : nodes'[j].id # Now(i)[x]
       /\ \A m \in 2 .. Discovered' :
            \E i \in 1 .. Len(nodes') : \E x \in 1 .. Len(Now(i)) : Now(i)[x] = m
       /\ \A i, j \in 1 .. Len(nodes') : \A x \in 1 .. Len(Now(i)), y \in 1 .. Len(Now(j)) :
            Now(i)[x] = Now(j)[y] => i = j /\ x = y
  <2>1. Len(nodes') = n + 1 /\ Discovered' = d + k
      BY <1>2, <1>3
  <2> QED
      BY ONLY <2>1, <1>11, <1>12, <1>13, <1>14
<1> QED
    BY <1>15 DEF Named, Names, Now

\* at and level for the rows known so far are kept when they grow.
Grown(d, at, level, at1, level1) ==
    \A m \in 1 .. d : at1[m] = at[m] /\ level1[m] = level[m]

\* at and level for the k identifiers that follow.
Placed(d, c, depth, at1, level1) ==
    \A x \in 1 .. Len(c) : at1[d + x] = c[x] /\ level1[d + x] = depth + 1

\* More can be known of futures and levels.
LEMMA Grows ==
    ASSUME NEW d \in Nat, NEW F, NEW c \in Seq(F), NEW depth, NEW at, NEW level
    PROVE  \E at1, level1 : Grown(d, at, level, at1, level1) /\ Placed(d, c, depth, at1, level1)
<1> DEFINE at1 == [m \in Nat |-> IF m > d THEN c[m - d] ELSE at[m]]
           level1 == [m \in Nat |-> IF m > d THEN depth + 1 ELSE level[m]]
<1>1. \A m \in 1 .. d : m \in Nat /\ ~(m > d)
    OBVIOUS
<1>2. Len(c) \in Nat
    OBVIOUS
<1>3. \A x \in 1 .. Len(c) : d + x \in Nat /\ d + x > d /\ (d + x) - d = x
    BY <1>2
<1>4. Grown(d, at, level, at1, level1)
    BY <1>1 DEF Grown
<1>5. Placed(d, c, depth, at1, level1)
    BY <1>3 DEF Placed
<1> HIDE DEF at1, level1
<1> QED
    BY <1>4, <1>5

\* A row shows what it showed.
LEMMA ShowsStill ==
    ASSUME NEW d \in Nat, NEW k \in Nat, NEW at, NEW level, NEW at1, NEW level1,
           Grown(d, at, level, at1, level1), NEW r, NEW g, r.id \in 1 .. d,
           Shows(r, g, at, level), Within(r, d),
           \A x \in 1 .. Len(References(r)) : References(r)[x] \in 1 .. d
    PROVE  Shows(r, g, at1, level1) /\ Within(r, d + k)
<1>1. Within(r, d + k)
  <2>1. \A m \in 1 .. d : m \in 1 .. d + k
      OBVIOUS
  <2> QED
      BY <2>1 DEF Within
<1>2. /\ r.type = g.type /\ r.name = g.name /\ Settings(r.query) = Settings(g.query)
      /\ IF g.left = Absent THEN r.left = Absent ELSE r.left \in Nat /\ at[r.left] = g.left
      /\ IF g.right = Absent THEN r.right = Absent ELSE r.right \in Nat /\ at[r.right] = g.right
      /\ IF g.cond = Absent THEN r.cond = Absent ELSE r.cond \in Nat /\ at[r.cond] = g.cond
      /\ Len(r.extras) = Len(g.extras)
      /\ \A i \in 1 .. Len(g.extras) : at[r.extras[i]] = g.extras[i]
      /\ \A x \in 1 .. Len(References(r)) : level[References(r)[x]] = level[r.id] + 1
    BY DEF Shows
<1>3. /\ r.left = Absent \/ r.left \in 1 .. d
      /\ r.right = Absent \/ r.right \in 1 .. d
      /\ r.cond = Absent \/ r.cond \in 1 .. d
      /\ \A i \in 1 .. Len(r.extras) : r.extras[i] \in 1 .. d
    BY DEF Within
<1>4. \A m \in 1 .. d : at1[m] = at[m]
    BY DEF Grown
<1>5. \A x \in 1 .. Len(References(r)) : level1[References(r)[x]] = level1[r.id] + 1
    BY <1>2 DEF Grown
<1>6. IF g.left = Absent THEN r.left = Absent ELSE r.left \in Nat /\ at1[r.left] = g.left
    BY ONLY <1>2, <1>3, <1>4, AbsentAssumption
<1>7. IF g.right = Absent THEN r.right = Absent ELSE r.right \in Nat /\ at1[r.right] = g.right
    BY ONLY <1>2, <1>3, <1>4, AbsentAssumption
<1>8. IF g.cond = Absent THEN r.cond = Absent ELSE r.cond \in Nat /\ at1[r.cond] = g.cond
    BY ONLY <1>2, <1>3, <1>4, AbsentAssumption
<1>9. \A i \in 1 .. Len(g.extras) : at1[r.extras[i]] = g.extras[i]
    BY ONLY <1>2, <1>3, <1>4
<1> QED
    BY <1>1, <1>2, <1>5, <1>6, <1>7, <1>8, <1>9 DEF Shows

\* A new row shows the future it was made from.
LEMMA ShowsNew ==
    ASSUME NEW F, NEW K, Futures(F, K), NEW f \in F, NEW d \in Nat, NEW id, NEW r,
           RowFor(K, r, f, id, d + 1), NEW depth, NEW at1, NEW level1,
           Placed(d, children(f), depth, at1, level1), level1[id] = depth
    PROVE  Shows(r, f, at1, level1) /\ Within(r, d + Len(children(f)))
<1> DEFINE c == children(f)
           k == Len(c)
           left == Len(Given(f.left))
           right == Len(Given(f.right))
<1>1. /\ c \in Seq(F) /\ left \in {0, 1} /\ right \in {0, 1}
      /\ f.left # Absent => left = 1 /\ k >= 1 /\ c[1] = f.left
      /\ f.right # Absent => right = 1 /\ k >= left + 1 /\ c[left + 1] = f.right
      /\ f.type \in {"IF", "LOOP"} /\ f.cond # Absent =>
              k = left + right + 1 /\ c[left + right + 1] = f.cond
      /\ f.type = "JOIN" =>
              /\ k = left + right + Len(f.extras)
              /\ \A i \in 1 .. Len(f.extras) : c[left + right + i] = f.extras[i]
    BY ChildrenOf
<1>2. /\ r.id = id /\ r.type = f.type /\ r.name = f.name
      /\ Settings(r.query) = Settings(f.query)
      /\ From(References(r), d + 1) /\ Len(References(r)) = k
      /\ r.left = IF f.left = Absent THEN Absent ELSE d + 1
      /\ r.right = IF f.right = Absent THEN Absent ELSE d + 1 + left
      /\ r.cond = IF f.cond = Absent THEN Absent ELSE d + 1 + left + right
      /\ f.cond # Absent => f.type \in {"IF", "LOOP"}
      /\ f.extras # <<>> => f.type = "JOIN"
      /\ Len(r.extras) = Len(f.extras)
      /\ \A i \in 1 .. Len(f.extras) : r.extras[i] = d + 1 + left + right + i - 1
    BY DEF RowFor
<1>3. \A x \in 1 .. k : at1[d + x] = c[x] /\ level1[d + x] = depth + 1
    BY DEF Placed
<1>4. f.extras \in Seq(F)
    BY DEF Futures
<1> HIDE DEF c, left, right
<1>5. k \in Nat
    BY <1>1
<1> HIDE DEF k
<1>6. \A x \in 1 .. k : d + x \in 1 .. d + k /\ d + x \in Nat
    BY ONLY <1>5, d \in Nat
<1>7. IF f.left = Absent THEN r.left = Absent
      ELSE r.left \in Nat /\ r.left \in 1 .. d + k /\ at1[r.left] = f.left
  <2>1. CASE f.left # Absent
    <3>1. 1 \in 1 .. k
        BY ONLY <2>1, <1>1, <1>5
    <3> QED
        BY ONLY <2>1, <3>1, <1>1, <1>2, <1>3, <1>6
  <2> QED
      BY ONLY <2>1, <1>2
<1>8. IF f.right = Absent THEN r.right = Absent
      ELSE r.right \in Nat /\ r.right \in 1 .. d + k /\ at1[r.right] = f.right
  <2>1. CASE f.right # Absent
    <3>1. left + 1 \in 1 .. k /\ r.right = d + (left + 1)
        BY ONLY <2>1, <1>1, <1>2, <1>5, d \in Nat
    <3> QED
        BY ONLY <2>1, <3>1, <1>1, <1>3, <1>6
  <2> QED
      BY ONLY <2>1, <1>2
<1>9. IF f.cond = Absent THEN r.cond = Absent
      ELSE r.cond \in Nat /\ r.cond \in 1 .. d + k /\ at1[r.cond] = f.cond
  <2>1. CASE f.cond # Absent
    <3>1. k = left + right + 1 /\ c[left + right + 1] = f.cond /\ r.cond = d + 1 + left + right
        BY ONLY <2>1, <1>1, <1>2
    <3>2. left + right + 1 \in 1 .. k /\ r.cond = d + (left + right + 1)
        BY ONLY <3>1, <1>1, <1>5, d \in Nat
    <3> QED
        BY ONLY <2>1, <3>1, <3>2, <1>3, <1>6
  <2> QED
      BY ONLY <2>1, <1>2
<1>10. \A i \in 1 .. Len(f.extras) : r.extras[i] \in 1 .. d + k /\ at1[r.extras[i]] = f.extras[i]
  <2> SUFFICES ASSUME NEW i \in 1 .. Len(f.extras)
               PROVE  r.extras[i] \in 1 .. d + k /\ at1[r.extras[i]] = f.extras[i]
      OBVIOUS
  <2>1. f.type = "JOIN" /\ Len(f.extras) \in Nat
      BY <1>2, <1>4
  <2>2. c[left + right + i] = f.extras[i] /\ k = left + right + Len(f.extras)
      BY ONLY <2>1, <1>1, i \in 1 .. Len(f.extras)
  <2>3. left + right + i \in 1 .. k
      BY ONLY <2>1, <2>2, <1>1, <1>5, i \in 1 .. Len(f.extras)
  <2>4. r.extras[i] = d + 1 + left + right + i - 1
      BY ONLY <1>2, i \in 1 .. Len(f.extras)
  <2>5. r.extras[i] = d + (left + right + i)
      BY ONLY <2>1, <2>4, <1>1, d \in Nat, i \in 1 .. Len(f.extras)
  <2> QED
      BY ONLY <2>2, <2>3, <2>5, <1>3, <1>6
<1>11. \A x \in 1 .. Len(References(r)) : level1[References(r)[x]] = level1[r.id] + 1
  <2> SUFFICES ASSUME NEW x \in 1 .. k PROVE level1[References(r)[x]] = level1[r.id] + 1
      BY <1>2
  <2>1. References(r)[x] = d + 1 + x - 1
      BY <1>2 DEF From
  <2>2. References(r)[x] = d + x
      BY ONLY <2>1, <1>5, d \in Nat, x \in 1 .. k
  <2> QED
      BY <2>2, <1>2, <1>3
<1>12. Within(r, d + k)
    BY ONLY <1>2, <1>7, <1>8, <1>9, <1>10 DEF Within
<1>13. Shows(r, f, at1, level1)
    BY ONLY <1>2, <1>7, <1>8, <1>9, <1>10, <1>11 DEF Shows
<1> QED
    BY <1>12, <1>13 DEF c, k

\* The numbers of a round.
LEMMA RoundSizes ==
    ASSUME NEW F, NEW K, NEW f, NEW c, FlattenTypes(F, K), Numbered, Round(F, K, f, c)
    PROVE  /\ Len(nodes) \in Nat /\ Len(pending) \in Nat \ {0} /\ Len(c) \in Nat
           /\ Discovered \in Nat \ {0} /\ Discovered + 1 \in Nat /\ Discovered' = Discovered + Len(c)
           /\ Len(nodes') = Len(nodes) + 1 /\ Len(pending') = Len(pending) - 1 + Len(c)
           /\ f \in F /\ Sound(f) /\ c = children(f) /\ c \in Seq(F) /\ fut' = fut
           /\ pending[Len(pending)].node = f /\ pending[Len(pending)].depth \in 0 .. MaxDepth
           /\ pending[Len(pending)].id \in 1 .. Discovered /\ pending[Len(pending)].id \in Nat
<1>1. Len(nodes) \in Nat /\ Len(pending) \in Nat \ {0} /\ Len(c) \in Nat
    BY DEF Round, RoundTop, FlattenTypes
<1>2. Len(nodes') = Len(nodes) + 1 /\ Len(pending') = Len(pending) - 1 + Len(c)
    BY DEF Round, RoundTop
<1>3. Discovered \in Nat \ {0} /\ Discovered + 1 \in Nat /\ Discovered' = Discovered + Len(c)
    BY <1>1, <1>2 DEF Discovered
<1>4. /\ f \in F /\ Sound(f) /\ c = children(f) /\ c \in Seq(F) /\ fut' = fut
      /\ pending[Len(pending)].node = f /\ pending[Len(pending)].depth \in 0 .. MaxDepth
      /\ pending[Len(pending)].id \in Nat
    BY DEF Round, RoundTop
<1>5. pending[Len(pending)].id \in 1 .. Discovered
  <2>1. Len(pending) \in 1 .. Len(pending)
      BY <1>1
  <2> QED
      BY <2>1 DEF Numbered
<1> QED
    BY <1>1, <1>2, <1>3, <1>4, <1>5

\* After a round the rows still show the future.
LEMMA RoundPictured ==
    ASSUME NEW F, NEW K, Futures(F, K), NEW f, NEW c, FlattenTypes(F, K), Numbered, Named,
           Round(F, K, f, c), \E at, level : Pictured(at, level)
    PROVE  (\E at, level : Pictured(at, level))'
<1> DEFINE n == Len(nodes)
           p == Len(pending)
           e == pending[p]
           k == Len(c)
           d == Discovered
<1>1. /\ n \in Nat /\ p \in Nat \ {0} /\ k \in Nat /\ d \in Nat \ {0} /\ d + 1 \in Nat
      /\ Discovered' = d + k /\ Len(nodes') = n + 1 /\ Len(pending') = p - 1 + k
      /\ f \in F /\ Sound(f) /\ c = children(f) /\ c \in Seq(F) /\ fut' = fut
      /\ e.node = f /\ e.depth \in 0 .. MaxDepth /\ e.id \in 1 .. d /\ e.id \in Nat
    BY RoundSizes
<1>2. PICK at, level : Pictured(at, level)
    OBVIOUS
<1>3. \A i \in 1 .. n : nodes'[i] = nodes[i]
    BY DEF Round, RoundNodes
<1>4. nodes'[n + 1] = Materialized([node |-> f, id |-> e.id, depth |-> e.depth], d + 1)
    BY DEF Round, RoundNodes
<1>5. \A i \in 1 .. p - 1 : pending'[i] = pending[i]
    BY DEF Round, RoundStack
<1>6. \A i \in 1 .. k : pending'[p - 1 + i] =
            [node |-> c[k - i + 1], id |-> d + (k - i + 1), depth |-> e.depth + 1]
    BY DEF Round, RoundStack
<1>7. /\ \A i \in 1 .. n : nodes[i].id \in 1 .. d
      /\ \A i \in 1 .. p : pending[i].id \in 1 .. d
    BY DEF Numbered
<1>8. \A i \in 1 .. n : \A x \in 1 .. Len(References(nodes[i])) : References(nodes[i])[x] \in 2 .. d
    BY DEF Named, Names
<1>9. /\ at[1] = fut /\ level[1] = 0
      /\ \A i \in 1 .. n : /\ level[nodes[i].id] \in 0 .. MaxDepth
                           /\ Shows(nodes[i], at[nodes[i].id], at, level)
                           /\ Within(nodes[i], d)
      /\ \A i \in 1 .. p : at[pending[i].id] = pending[i].node /\ level[pending[i].id] = pending[i].depth
    BY <1>2 DEF Pictured
<1> HIDE DEF n, p, e, k, d
<1>10. PICK at1, level1 : Grown(d, at, level, at1, level1) /\ Placed(d, c, e.depth, at1, level1)
    BY <1>1, Grows
<1>11. \A m \in 1 .. d : at1[m] = at[m] /\ level1[m] = level[m]
    BY <1>10 DEF Grown
<1>12. at1[1] = fut' /\ level1[1] = 0
  <2>1. 1 \in 1 .. d
      BY ONLY <1>1
  <2> QED
      BY <2>1, <1>1, <1>9, <1>11
<1>13. ASSUME NEW i \in 1 .. n
       PROVE  /\ level1[nodes'[i].id] \in 0 .. MaxDepth /\ Within(nodes'[i], d + k)
              /\ Shows(nodes'[i], at1[nodes'[i].id], at1, level1)
  <2>1. /\ nodes'[i] = nodes[i] /\ nodes[i].id \in 1 .. d
        /\ level[nodes[i].id] \in 0 .. MaxDepth
        /\ Shows(nodes[i], at[nodes[i].id], at, level) /\ Within(nodes[i], d)
      BY <1>3, <1>7, <1>9
  <2>2. \A x \in 1 .. Len(References(nodes[i])) : References(nodes[i])[x] \in 1 .. d
    <3>1. \A y \in 2 .. d : y \in 1 .. d
        BY ONLY <1>1
    <3> QED
        BY <3>1, <1>8
  <2>3. at1[nodes[i].id] = at[nodes[i].id] /\ level1[nodes[i].id] = level[nodes[i].id]
      BY <2>1, <1>11
  <2>4. Shows(nodes[i], at[nodes[i].id], at1, level1) /\ Within(nodes[i], d + k)
    <3>1. d \in Nat /\ k \in Nat
        BY ONLY <1>1
    <3>2. Grown(d, at, level, at1, level1)
        BY <1>10
    <3> DEFINE r == nodes[i]
               g == at[r.id]
    <3>4. r.id \in 1 .. d /\ Within(r, d) /\ Shows(r, g, at, level)
        BY <2>1
    <3>5. \A x \in 1 .. Len(References(r)) : References(r)[x] \in 1 .. d
        BY <2>2
    <3> HIDE DEF r, g
    <3>6. Shows(r, g, at1, level1) /\ Within(r, d + k)
        BY ONLY <3>1, <3>2, <3>4, <3>5, ShowsStill
    <3> QED
        BY <3>6 DEF r, g
  <2> QED
      BY ONLY <2>1, <2>3, <2>4
<1>14. /\ level1[nodes'[n + 1].id] \in 0 .. MaxDepth /\ Within(nodes'[n + 1], d + k)
       /\ Shows(nodes'[n + 1], at1[nodes'[n + 1].id], at1, level1)
  <2>1. RowFor(K, nodes'[n + 1], f, e.id, d + 1)
      BY <1>1, <1>4, MaterializedRow
  <2>2. p \in 1 .. p
      BY ONLY <1>1
  <2>3. at1[e.id] = f /\ level1[e.id] = e.depth
      BY <2>2, <1>1, <1>9, <1>11 DEF e
  <2>4. nodes'[n + 1].id = e.id
      BY <2>1 DEF RowFor
  <2>5. Shows(nodes'[n + 1], f, at1, level1) /\ Within(nodes'[n + 1], d + k)
      BY <2>1, <2>3, <1>1, <1>10, ShowsNew DEF k
  <2> QED
      BY ONLY <2>3, <2>4, <2>5, <1>1
<1>15. ASSUME NEW i \in 1 .. p - 1 + k
       PROVE  at1[pending'[i].id] = pending'[i].node /\ level1[pending'[i].id] = pending'[i].depth
  <2>1. CASE i < p
    <3>1. i \in 1 .. p - 1 /\ i \in 1 .. p
        BY ONLY <2>1, <1>1, i \in 1 .. p - 1 + k
    <3> QED
        BY <3>1, <1>5, <1>7, <1>9, <1>11
  <2>2. CASE ~(i < p)
    <3> DEFINE x == k - (i - (p - 1)) + 1
    <3>1. i - (p - 1) \in 1 .. k /\ p - 1 + (i - (p - 1)) = i /\ x \in 1 .. k
        BY ONLY <2>2, <1>1, i \in 1 .. p - 1 + k
    <3>2. pending'[i] = [node |-> c[x], id |-> d + x, depth |-> e.depth + 1]
        BY <3>1, <1>6
    <3> HIDE DEF x
    <3>3. at1[d + x] = c[x] /\ level1[d + x] = e.depth + 1
        BY <3>1, <1>10 DEF Placed, k
    <3> QED
        BY <3>2, <3>3
  <2> QED
      BY <2>1, <2>2
<1>16. /\ \A i \in 1 .. Len(nodes') :
                /\ level1[nodes'[i].id] \in 0 .. MaxDepth
                /\ Shows(nodes'[i], at1[nodes'[i].id], at1, level1)
                /\ Within(nodes'[i], Discovered')
       /\ \A i \in 1 .. Len(pending') :
                at1[pending'[i].id] = pending'[i].node /\ level1[pending'[i].id] = pending'[i].depth
  <2>1. \A i \in 1 .. n + 1 : i \in 1 .. n \/ i = n + 1
      BY ONLY <1>1
  <2>2. Len(nodes') = n + 1 /\ Len(pending') = p - 1 + k /\ Discovered' = d + k
      BY <1>1
  <2> QED
      BY ONLY <2>1, <2>2, <1>13, <1>14, <1>15
<1>17. Pictured(at1, level1)'
    BY <1>12, <1>16 DEF Pictured
<1> QED
    BY <1>17

-----------------------------------------------------------------------------
(* The steps of df.start(). *)

\* A round that is refused, or has no identifiers, leaves nothing.
LEMMA NothingKept ==
    ASSUME NEW F, NEW K, FlattenTypes(F, K), phase' \in {"failed", "unlucky"},
           pending' = <<>>, nodes' = <<>>, UNCHANGED <<fut, rows>>
    PROVE  FlattenInv(F, K)'
<1>1. FlattenTypes(F, K)'
    BY DEF FlattenTypes
<1>2. Progress'
    BY DEF Progress
<1>3. ~Kept'
    BY DEF Kept
<1> QED
    BY <1>1, <1>2, <1>3 DEF FlattenInv

LEMMA StartKeeps ==
    ASSUME NEW F, NEW K, Futures(F, K), FlattenInv(F, K), Start
    PROVE  FlattenInv(F, K)'
<1>1. /\ fut \in F /\ nodes = <<>> /\ rows = <<>> /\ phase = "building"
      /\ nodes' = <<>> /\ rows' = <<>> /\ fut' = fut
      /\ phase' \in {"flatten", "failed"}
      /\ pending' = <<[node |-> fut, id |-> 1, depth |-> 0]>>
    BY DEF FlattenInv, FlattenTypes, Progress, Start
<1>2. /\ pending' \in Seq(Entry(F)) /\ Len(pending') = 1 /\ pending'[1].id = 1
      /\ pending'[1].node = fut /\ pending'[1].depth = 0
  <2>1. [node |-> fut, id |-> 1, depth |-> 0] \in Entry(F)
      BY <1>1 DEF Entry
  <2> QED
      BY <1>1, <2>1
<1>3. FlattenTypes(F, K)'
    BY <1>1, <1>2 DEF FlattenTypes
<1>4. Progress'
    BY <1>1 DEF Progress
<1>5. Len(nodes') = 0 /\ Discovered' = 1
    BY <1>1, <1>2 DEF Discovered
<1>6. Numbered'
  <2>1. 1 \in 1 .. MaxNodes
      BY LimitsAssumption
  <2>2. \A m \in 1 .. 1 : m = 1
      OBVIOUS
  <2> QED
      BY <2>1, <2>2, <1>1, <1>2, <1>5 DEF Numbered
<1>7. Named'
    BY <1>5 DEF Named
<1>8. (\E at, level : Pictured(at, level))'
  <2> DEFINE at == [m \in Nat |-> fut]
             level == [m \in Nat |-> 0]
  <2>1. at[1] = fut /\ level[1] = 0
      OBVIOUS
  <2> HIDE DEF at, level
  <2>2. \A i \in 1 .. Len(pending') : i = 1
      BY <1>2
  <2>3. PICK a, b : a[1] = fut /\ b[1] = 0
      BY <2>1
  <2>4. Pictured(a, b)'
      BY <2>2, <2>3, <1>1, <1>2, <1>5 DEF Pictured
  <2> QED
      BY <2>4
<1> QED
    BY <1>3, <1>4, <1>6, <1>7, <1>8 DEF FlattenInv

LEMMA StepKeeps ==
    ASSUME NEW F, NEW K, Futures(F, K), FlattenInv(F, K), FlattenStep
    PROVE  FlattenInv(F, K)'
<1>1. FlattenTypes(F, K) /\ Progress /\ phase = "flatten" /\ pending # <<>> /\ UNCHANGED <<fut, rows>>
    BY DEF FlattenInv, FlattenStep
<1>2. Numbered /\ Named /\ (\E at, level : Pictured(at, level))
    BY <1>1 DEF FlattenInv, Kept
<1>3. CASE Refused(Last(pending), Discovered)
  <2>1. phase' = "failed" /\ pending' = <<>> /\ nodes' = <<>>
      BY <1>3 DEF FlattenStep, Discovered
  <2> QED
      BY <2>1, <1>1, NothingKept
<1>4. CASE ~Refused(Last(pending), Discovered)
  <2>1. PICK f, c : Round(F, K, f, c)
      BY <1>1, <1>4, RoundOf
  <2>2. Numbered' /\ Named'
      BY <2>1, <1>1, <1>2, RoundNumbered, RoundNamed
  <2>3. (\E at, level : Pictured(at, level))'
      BY <2>1, <1>1, <1>2, RoundPictured
  <2>4. FlattenTypes(F, K)'
      BY <2>1, <1>1 DEF FlattenTypes, Round, RoundTop, RoundNodes, RoundStack
  <2>5. Progress'
    <3>1. rows = <<>> /\ rows' = <<>> /\ phase' = "flatten"
        BY <2>1, <1>1 DEF Progress, Round, RoundTop
    <3>2. Len(rows') = 0 /\ Len(nodes') \in Nat
        BY <3>1, <2>4 DEF FlattenTypes
    <3> QED
        BY <3>1, <3>2 DEF Progress
  <2> QED
      BY <2>2, <2>3, <2>4, <2>5 DEF FlattenInv
<1> QED
    BY <1>3, <1>4

LEMMA BatchKeeps ==
    ASSUME NEW F, NEW K, Futures(F, K), FlattenInv(F, K), InsertBatch
    PROVE  FlattenInv(F, K)'
<1> DEFINE n == Len(nodes)
           r == Len(rows)
           m == IF r + BatchSize < n THEN r + BatchSize ELSE n
           chunk == SubSeq(nodes, r + 1, m)
<1>1. /\ FlattenTypes(F, K) /\ phase = "flatten" /\ pending = <<>> /\ UNCHANGED <<fut, pending, nodes>>
      /\ rows' = rows \o chunk
      /\ phase' = IF Len(rows') = n THEN "started" ELSE "flatten"
    BY DEF FlattenInv, InsertBatch
<1>2. r <= n /\ \A i \in 1 .. r : rows[i] = nodes[i]
    BY <1>1 DEF FlattenInv, Progress
<1>3. nodes \in Seq(NodeRow(K)) /\ rows \in Seq(NodeRow(K)) /\ n \in Nat /\ r \in Nat /\ BatchSize \in Nat \ {0}
    BY <1>1, LimitsAssumption DEF FlattenTypes
<1> HIDE DEF n, r
<1>4. m \in r .. n /\ m \in Nat
    BY ONLY <1>2, <1>3
<1> HIDE DEF m
<1>5. /\ chunk \in Seq(NodeRow(K)) /\ Len(chunk) = m - r
      /\ \A i \in 1 .. m - r : chunk[i] = nodes[r + i]
  <2>1. r + 1 \in 1 .. n + 1 /\ m \in r .. n /\ (r + 1) - 1 = r /\ (m - (r + 1)) + 1 = m - r
        /\ m - r \in Nat
      BY ONLY <1>3, <1>4
  <2>2. \A i \in 1 .. m - r : r + i \in 1 .. n /\ (r + 1) + i - 1 = r + i
      BY ONLY <1>3, <1>4
  <2>3. chunk = [i \in 1 .. (m - (r + 1)) + 1 |-> nodes[(r + 1) + i - 1]]
      BY <2>1, <1>3
  <2>4. chunk = [i \in 1 .. m - r |-> nodes[r + i]]
      BY <2>1, <2>2, <2>3
  <2>5. \A i \in 1 .. m - r : nodes[r + i] \in NodeRow(K)
      BY <2>2, <1>3 DEF n
  <2> HIDE DEF chunk
  <2>6. PICK x \in Nat : x = m - r
      BY <2>1
  <2>7. chunk = [i \in 1 .. x |-> nodes[r + i]] /\ \A i \in 1 .. x : nodes[r + i] \in NodeRow(K)
      BY <2>4, <2>5, <2>6
  <2>8. chunk \in Seq(NodeRow(K)) /\ Len(chunk) = x /\ \A i \in 1 .. x : chunk[i] = nodes[r + i]
      BY ONLY <2>7, x \in Nat
  <2> QED
      BY <2>6, <2>8
<1> HIDE DEF chunk
<1>6. /\ rows' \in Seq(NodeRow(K)) /\ Len(rows') = r + Len(chunk)
      /\ \A i \in 1 .. r : rows'[i] = rows[i]
      /\ \A i \in 1 .. Len(chunk) : rows'[r + i] = chunk[i]
    BY <1>1, <1>3, <1>5, Concatenated DEF r
<1>7. Len(rows') = m
    BY ONLY <1>3, <1>4, <1>5, <1>6
<1>8. \A i \in 1 .. m : rows'[i] = nodes[i]
  <2> SUFFICES ASSUME NEW i \in 1 .. m PROVE rows'[i] = nodes[i]
      OBVIOUS
  <2>1. CASE i <= r
    <3>1. i \in 1 .. r
        BY ONLY <2>1, <1>3, <1>4, i \in 1 .. m
    <3> QED
        BY <3>1, <1>2, <1>6
  <2>2. CASE ~(i <= r)
    <3>1. i - r \in 1 .. m - r /\ r + (i - r) = i
        BY ONLY <2>2, <1>3, <1>4, i \in 1 .. m
    <3>2. rows'[r + (i - r)] = chunk[i - r] /\ chunk[i - r] = nodes[r + (i - r)]
        BY <3>1, <1>5, <1>6
    <3> QED
        BY <3>1, <3>2
  <2> QED
      BY <2>1, <2>2
<1>9. FlattenTypes(F, K)'
    BY <1>1, <1>6 DEF FlattenTypes
<1>10. Progress'
  <2>1. m <= n /\ nodes' = nodes /\ Len(nodes') = n /\ pending' = <<>> /\ phase' \in {"started", "flatten"}
      BY <1>1, <1>3, <1>4 DEF n
  <2>2. phase' = "started" => Len(rows') = n
      BY <1>1
  <2> QED
      BY <2>1, <2>2, <1>7, <1>8 DEF Progress
<1>11. Numbered /\ Named /\ (\E at, level : Pictured(at, level))
    BY <1>1 DEF FlattenInv, Kept
<1>12. Numbered' /\ Named'
    BY <1>1, <1>11 DEF Numbered, Named, Names, Discovered
<1>13. (\E at, level : Pictured(at, level))'
  <2>1. PICK at, level : Pictured(at, level)
      BY <1>11
  <2>2. Pictured(at, level)'
      BY <2>1, <1>1 DEF Pictured, Discovered
  <2> QED
      BY <2>2
<1> QED
    BY <1>9, <1>10, <1>12, <1>13 DEF FlattenInv

\* Every step of df.start() keeps the invariant.
LEMMA FlattenInductive ==
    ASSUME NEW F, NEW K, Futures(F, K), FlattenInv(F, K),
           [Start \/ FlattenStep \/ IdsExhausted \/ InsertBatch]_graphvars
    PROVE  FlattenInv(F, K)'
<1>1. CASE Start
    BY <1>1, StartKeeps
<1>2. CASE FlattenStep
    BY <1>2, StepKeeps
<1>3. CASE IdsExhausted
    BY <1>3, NothingKept DEF IdsExhausted, FlattenInv
<1>4. CASE InsertBatch
    BY <1>4, BatchKeeps
<1>5. CASE UNCHANGED graphvars
  <2>1. fut' = fut /\ phase' = phase /\ pending' = pending /\ nodes' = nodes /\ rows' = rows
      BY <1>5 DEF graphvars
  <2>2. FlattenTypes(F, K)' /\ Progress'
      BY <2>1 DEF FlattenInv, FlattenTypes, Progress
  <2>3. CASE Kept
    <3>1. Numbered /\ Named /\ (\E at, level : Pictured(at, level))
        BY <2>3 DEF FlattenInv
    <3>2. Numbered' /\ Named'
        BY <3>1, <2>1 DEF Numbered, Named, Names, Discovered
    <3>3. PICK at, level : Pictured(at, level)
        BY <3>1
    <3>4. Pictured(at, level)'
        BY <3>3, <2>1 DEF Pictured, Discovered
    <3> QED
        BY <3>2, <3>4, <2>2 DEF FlattenInv
  <2>4. CASE ~Kept
      BY <2>1, <2>2, <2>4 DEF FlattenInv, Kept
  <2> QED
      BY <2>3, <2>4
<1> QED
    BY <1>1, <1>2, <1>3, <1>4, <1>5

LEMMA FlattenHolds ==
    ASSUME NEW F, NEW K, Futures(F, K)
    PROVE  FlattenSpec(F) => []FlattenInv(F, K)
<1>1. fut \in F /\ phase = "building" /\ pending = <<>> /\ nodes = <<>> /\ rows = <<>>
        => FlattenInv(F, K)
  <2> HAVE fut \in F /\ phase = "building" /\ pending = <<>> /\ nodes = <<>> /\ rows = <<>>
  <2>1. FlattenTypes(F, K)
      BY DEF FlattenTypes
  <2>2. Progress
      BY DEF Progress
  <2>3. ~Kept
      BY DEF Kept
  <2> QED
      BY <2>1, <2>2, <2>3 DEF FlattenInv
<1>2. FlattenInv(F, K) /\ [Start \/ FlattenStep \/ IdsExhausted \/ InsertBatch]_graphvars
        => FlattenInv(F, K)'
    BY FlattenInductive
<1> QED
    BY <1>1, <1>2, PTL DEF FlattenSpec

\* What a started instance has.
LEMMA WhenStarted ==
    ASSUME NEW F, NEW K, FlattenInv(F, K), phase = "started"
    PROVE  /\ Numbered /\ Named /\ (\E at, level : Pictured(at, level))
           /\ nodes \in Seq(NodeRow(K)) /\ rows \in Seq(NodeRow(K))
           /\ Len(rows) = Len(nodes) /\ Discovered = Len(rows) /\ Len(rows) \in 1 .. MaxNodes
           /\ \A i \in 1 .. Len(rows) : rows[i] = nodes[i]
           /\ pending = <<>>
<1>1. Numbered /\ Named /\ (\E at, level : Pictured(at, level))
    BY DEF FlattenInv, Kept
<1>2. /\ pending = <<>> /\ Len(rows) = Len(nodes) /\ \A i \in 1 .. Len(rows) : rows[i] = nodes[i]
      /\ nodes \in Seq(NodeRow(K)) /\ rows \in Seq(NodeRow(K))
    BY DEF FlattenInv, Progress, FlattenTypes
<1>3. Discovered = Len(rows) /\ Len(rows) \in 1 .. MaxNodes
  <2>1. Len(pending) = 0 /\ Len(nodes) \in Nat
      BY <1>2
  <2>2. Discovered = Len(nodes)
      BY <2>1 DEF Discovered
  <2> QED
      BY <1>1, <1>2, <2>2 DEF Numbered
<1> QED
    BY <1>1, <1>2, <1>3

\* df.start() stores a tree: the rows of a started instance are within
\* MAX_GRAPH_NODES, no two share an identifier, each names rows after it, and all
\* but the root's are named once, by one row.
THEOREM FlattenedIsTree ==
    ASSUME NEW F, NEW K, Futures(F, K)
    PROVE  FlattenSpec(F) => []RowsFormTree
<1>1. FlattenInv(F, K) => RowsFormTree
  <2> SUFFICES ASSUME FlattenInv(F, K), phase = "started" PROVE RowsFormTree
      BY DEF RowsFormTree
  <2> DEFINE n == Len(rows)
             Ref(i) == References(rows[i])
  <2>1. /\ Numbered /\ Named /\ nodes \in Seq(NodeRow(K)) /\ rows \in Seq(NodeRow(K)) /\ pending = <<>>
        /\ Len(nodes) = n /\ Discovered = n /\ n \in 1 .. MaxNodes /\ DOMAIN rows = 1 .. n
        /\ \A i \in 1 .. n : rows[i] = nodes[i]
      BY WhenStarted
  <2>2. n \in Nat \ {0} /\ 1 \in 1 .. n
      BY <2>1
  <2>3. \A i \in 1 .. n : Ref(i) = Names(i) /\ Ref(i) \in Seq(Nat) /\ DOMAIN Ref(i) = 1 .. Len(Names(i))
    <3> TAKE i \in 1 .. n
    <3>1. Ref(i) = Names(i) /\ Names(i) \in Seq(Nat)
        BY <2>1 DEF Names, Named
    <3> QED
        BY <3>1
  <2>4. rows[1].id = 1
    <3>1. nodes # <<>>
        BY <2>1, <2>2
    <3> QED
        BY <3>1, <2>1, <2>2 DEF Numbered
  <2>5. /\ \A i, j \in 1 .. n : rows[i].id = rows[j].id => i = j
        /\ \A i \in 1 .. n : rows[i].id \in 1 .. n
    <3>1. /\ \A i, j \in 1 .. Len(nodes) : nodes[i].id = nodes[j].id => i = j
          /\ \A i \in 1 .. Len(nodes) : nodes[i].id \in 1 .. Discovered
        BY <2>1 DEF Numbered
    <3>2. /\ \A i, j \in 1 .. n : nodes[i].id = nodes[j].id => i = j
          /\ \A i \in 1 .. n : nodes[i].id \in 1 .. n
        BY <3>1, <2>1
    <3> HIDE DEF n
    <3> QED
        BY <3>2, <2>1
  <2>6. \A m \in 1 .. n : \E i \in 1 .. n : rows[i].id = m
    <3>1. Len(pending) = 0
        BY <2>1
    <3>2. \A m \in 1 .. Discovered : \/ \E i \in 1 .. Len(nodes) : nodes[i].id = m
                                     \/ \E i \in 1 .. Len(pending) : pending[i].id = m
        BY <2>1 DEF Numbered
    <3>3. \A i \in 1 .. Len(pending) : FALSE
        BY <3>1
    <3>4. \A m \in 1 .. n : \E i \in 1 .. n : nodes[i].id = m
        BY <3>2, <3>3, <2>1
    <3> HIDE DEF n
    <3> QED
        BY <3>4, <2>1
  <2>7. /\ \A i \in 1 .. n : \A x \in 1 .. Len(Names(i)) :
              Names(i)[x] \in 2 .. n /\ \A j \in 1 .. i : nodes[j].id # Names(i)[x]
        /\ \A m \in 2 .. n : \E i \in 1 .. n : \E x \in 1 .. Len(Names(i)) : Names(i)[x] = m
        /\ \A i, j \in 1 .. n : \A x \in 1 .. Len(Names(i)), y \in 1 .. Len(Names(j)) :
              Names(i)[x] = Names(j)[y] => i = j /\ x = y
      BY <2>1 DEF Named
  <2> HIDE DEF n, Ref
  <2>8. ASSUME NEW i \in 1 .. n, NEW x \in DOMAIN Ref(i)
        PROVE  \E j \in 1 .. n : j > i /\ rows[j].id = Ref(i)[x]
    <3>1. x \in 1 .. Len(Names(i)) /\ Ref(i) = Names(i)
        BY <2>3
    <3>2. Names(i)[x] \in 2 .. n /\ \A j \in 1 .. i : nodes[j].id # Names(i)[x]
        BY <3>1, <2>7
    <3>3. Names(i)[x] \in 1 .. n
        BY ONLY <3>2, <2>2
    <3>4. PICK j \in 1 .. n : rows[j].id = Names(i)[x]
        BY <3>3, <2>6
    <3>5. j \notin 1 .. i
        BY <3>2, <3>4, <2>1
    <3>6. j > i
        BY ONLY <3>5, <2>2, i \in 1 .. n, j \in 1 .. n
    <3> QED
        BY <3>1, <3>4, <3>6
  <2>9. ASSUME NEW j \in 1 .. n, j # 1
        PROVE  \E i \in 1 .. n : \E x \in DOMAIN Ref(i) : Ref(i)[x] = rows[j].id
    <3>1. rows[j].id \in 1 .. n /\ rows[j].id # 1
        BY <2>2, <2>4, <2>5, <2>9
    <3>2. rows[j].id \in 2 .. n
        BY ONLY <3>1, <2>2
    <3>3. PICK i \in 1 .. n : \E x \in 1 .. Len(Names(i)) : Names(i)[x] = rows[j].id
        BY <3>2, <2>7
    <3> QED
        BY <3>3, <2>3
  <2>10. ASSUME NEW i \in 1 .. n, NEW j \in 1 .. n, NEW x \in DOMAIN Ref(i), NEW y \in DOMAIN Ref(j),
                Ref(i)[x] = Ref(j)[y]
         PROVE  i = j /\ x = y
    <3>1. x \in 1 .. Len(Names(i)) /\ y \in 1 .. Len(Names(j)) /\ Ref(i) = Names(i) /\ Ref(j) = Names(j)
        BY <2>3
    <3>2. Names(i)[x] = Names(j)[y]
        BY <3>1, <2>10
    <3> QED
        BY ONLY <3>1, <3>2, <2>7, i \in 1 .. n, j \in 1 .. n
  <2>11. n \in 1 .. MaxNodes /\ DOMAIN rows = 1 .. n
      BY <2>1 DEF n
  <2>12. /\ Len(rows) \in 1 .. MaxNodes /\ rows[1].id = 1
         /\ \A i, j \in DOMAIN rows : rows[i].id = rows[j].id => i = j
         /\ \A i \in DOMAIN rows : \A x \in DOMAIN Ref(i) :
               \E j \in DOMAIN rows : j > i /\ rows[j].id = Ref(i)[x]
         /\ \A j \in DOMAIN rows : j # 1 =>
               \E i \in DOMAIN rows : \E x \in DOMAIN Ref(i) : Ref(i)[x] = rows[j].id
         /\ \A i, j \in DOMAIN rows : \A x \in DOMAIN Ref(i), y \in DOMAIN Ref(j) :
               Ref(i)[x] = Ref(j)[y] => i = j /\ x = y
    <3>1. Len(rows) \in 1 .. MaxNodes
        BY <2>1
    <3>2. \A i, j \in DOMAIN rows : rows[i].id = rows[j].id => i = j
        BY ONLY <2>5, <2>11
    <3>3. \A i \in DOMAIN rows : \A x \in DOMAIN Ref(i) :
             \E j \in DOMAIN rows : j > i /\ rows[j].id = Ref(i)[x]
        BY ONLY <2>8, <2>11, Zenon
    <3>4. \A j \in DOMAIN rows : j # 1 =>
             \E i \in DOMAIN rows : \E x \in DOMAIN Ref(i) : Ref(i)[x] = rows[j].id
        BY ONLY <2>9, <2>11, Zenon
    <3>5. \A i, j \in DOMAIN rows : \A x \in DOMAIN Ref(i), y \in DOMAIN Ref(j) :
             Ref(i)[x] = Ref(j)[y] => i = j /\ x = y
        BY ONLY <2>10, <2>11, Zenon
    <3> QED
        BY ONLY <3>1, <3>2, <3>3, <3>4, <3>5, <2>4, Zenon
  <2> QED
      BY <2>12 DEF RowsFormTree, Ref
<1> QED
    BY <1>1, FlattenHolds, PTL

\* The rows show the future that was given, the children of each row in their
\* roles, and at most MAX_GRAPH_DEPTH levels of them.
RowsShowFuture ==
    phase = "started" =>
        \E at, level :
            /\ at[1] = fut /\ level[1] = 0
            /\ \A i \in DOMAIN rows :
                  /\ level[rows[i].id] \in 0 .. MaxDepth
                  /\ Shows(rows[i], at[rows[i].id], at, level)

\* What the worker reads of a started instance is the graph the client gave to
\* df.start(): each identifier stands for one part of it, the root's for all, and a
\* row has the type, name, settings and children of the part it stands for.
THEOREM FlattenedIsGiven ==
    ASSUME NEW F, NEW K, Futures(F, K)
    PROVE  FlattenSpec(F) => []RowsShowFuture
<1>1. FlattenInv(F, K) => RowsShowFuture
  <2> SUFFICES ASSUME FlattenInv(F, K), phase = "started" PROVE RowsShowFuture
      BY DEF RowsShowFuture
  <2>1. /\ rows \in Seq(NodeRow(K)) /\ Len(rows) = Len(nodes)
        /\ \A i \in 1 .. Len(rows) : rows[i] = nodes[i]
        /\ \E at, level : Pictured(at, level)
      BY WhenStarted
  <2>2. DOMAIN rows = 1 .. Len(rows)
      BY <2>1
  <2>3. PICK at, level : Pictured(at, level)
      BY <2>1
  <2>4. /\ at[1] = fut /\ level[1] = 0
        /\ \A i \in DOMAIN rows :
              level[rows[i].id] \in 0 .. MaxDepth /\ Shows(rows[i], at[rows[i].id], at, level)
      BY <2>1, <2>2, <2>3 DEF Pictured
  <2> QED
      BY <2>4 DEF RowsShowFuture
<1> QED
    BY <1>1, FlattenHolds, PTL
=============================================================================
