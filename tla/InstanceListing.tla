--------------------------- MODULE InstanceListing ---------------------------
(***************************************************************************)
(* df.list_instances(status, limit, label, cursor): a client reads the     *)
(* instances page by page, newest first, while other sessions start        *)
(* instances, the worker finishes them and retention removes them.         *)
(*                                                                         *)
(* Every call reads df.instances in a snapshot of its own and then asks    *)
(* the engine about the rows of the page, over another connection; rows    *)
(* the engine does not know are left out.  The cursor is the position of   *)
(* the last row of the page.                                               *)
(***************************************************************************)
EXTENDS Naturals, FiniteSets, Sequences

CONSTANTS
    Ids,            \* instance identifiers, in their order; drawn at random
    NoCursor,
    LimitCount,     \* limit_count
    MaxTime         \* bound: ticks of the clock

ASSUME ListingAssumption ==
    /\ Ids \subseteq Nat /\ LimitCount \in Nat \ {0} /\ MaxTime \in Nat
    /\ NoCursor \notin [at : Nat, id : Nat]

VARIABLES
    clock,
    starting,   \* rows of transactions that are still open
    listed,     \* rows of df.instances
    known,      \* identifiers the engine knows
    call,       \* the client: "first", "next", "info", "done"
    cursor,     \* the cursor it passes
    page,       \* the rows of the page, without the extra one (ordered by Before)
    more,       \* the cursor of the page after it
    got,        \* the identifiers returned, page by page
    steady,     \* listed and known ever since the first page was read
    gap         \* a page came back empty although it had rows

listvars == <<clock, starting, listed, known, call, cursor, page, more, got, steady, gap>>
others == <<clock, starting, listed, known>>
client == <<call, cursor, page, more, got, gap>>

IdsOf(rs) == {r.id : r \in rs}

---------------------------------------------------------------------------
(* The other sessions and the worker. *)

\* df.start(): created_at is the time its transaction began.
BeginInstance(id) ==
    /\ id \notin IdsOf(starting \cup listed) \cup known
    /\ starting' = starting \cup {[id |-> id, at |-> clock, running |-> TRUE]}
    /\ UNCHANGED <<clock, listed, known, client, steady>>

\* Its transaction commits, whenever that is.
CommitInstance(row) ==
    /\ row \in starting
    /\ starting' = starting \ {row} /\ listed' = listed \cup {row}
    /\ UNCHANGED <<clock, known, client, steady>>

\* The engine learns of it, before or after.
LearnInstance(id) ==
    /\ id \in IdsOf(starting \cup listed) \ known
    /\ known' = known \cup {id}
    /\ UNCHANGED <<clock, starting, listed, client, steady>>

\* It ends: the status the client filters for is another one.
FinishInstance(row) ==
    /\ row \in listed /\ row.running
    /\ listed' = (listed \ {row}) \cup {[row EXCEPT !.running = FALSE]}
    /\ steady' = steady \ {row.id}
    /\ UNCHANGED <<clock, starting, known, client>>

\* Retention removes the engine's records, then the row.
RetireInstance(row) ==
    /\ row \in listed /\ ~row.running
    /\ IF row.id \in known
       THEN known' = known \ {row.id} /\ UNCHANGED listed
       ELSE listed' = listed \ {row} /\ UNCHANGED known
    /\ UNCHANGED <<clock, starting, client, steady>>

Tick ==
    /\ clock < MaxTime
    /\ clock' = clock + 1
    /\ UNCHANGED <<starting, listed, known, client, steady>>

---------------------------------------------------------------------------
(* One call. *)

\* The cursor: a version, the timestamp and the identifier of a row, as text.
encode_cursor(row) == [at |-> row.at, id |-> row.id]

\* What the engine knows of the page; nothing when the query fails.
fetch_instance_info_map(answered) ==
    {r \in page : answered /\ r.id \in known}

\* ORDER BY created_at DESC, id ASC.
Before(r, s) == r.at > s.at \/ (r.at = s.at /\ r.id < s.id)

\* Mutant: strictly older rows only.
OlderOnly(r) == cursor = NoCursor \/ r.at < cursor.at

\* The keyset condition.
AfterCursor(r) ==
    \/ cursor = NoCursor
    \/ r.at <= cursor.at /\ (r.at < cursor.at \/ (r.at = cursor.at /\ r.id > cursor.id))

\* LIMIT n: the rows that fewer than n rows come before.
FirstRows(found, n) == {r \in found : Cardinality({s \in found : Before(s, r)}) < n}

\* The query: one row more than the page, which tells whether there is another.
ReadPage ==
    /\ call \in {"first", "next"}
    /\ LET found == {r \in listed : r.running /\ AfterCursor(r)}
           top == FirstRows(found, LimitCount)
       IN  /\ page' = top
           /\ \/ top = found /\ more' = NoCursor
              \/ /\ top # found
                 /\ \E last \in top :
                       /\ \A r \in top \ {last} : Before(r, last)
                       /\ more' = encode_cursor(last)
           /\ call' = IF found = {} THEN "done" ELSE "info"
    /\ steady' = IF call = "first" THEN IdsOf({r \in listed : r.running}) \cap known ELSE steady
    /\ UNCHANGED <<others, cursor, got, gap>>

\* The rows the engine knows.  Every row carries next_cursor; without a row the
\* client has none.
FetchInfo(answered) ==
    /\ call = "info"
    /\ LET info == fetch_instance_info_map(answered)
       IN  /\ got' = Append(got, IdsOf(info))
           /\ gap' = (gap \/ info = {})
           /\ call' = IF info = {} \/ more = NoCursor THEN "done" ELSE "next"
    /\ cursor' = more
    /\ page' = {} /\ more' = NoCursor
    /\ UNCHANGED <<others, steady>>

---------------------------------------------------------------------------

ListInit ==
    /\ clock = 0 /\ starting = {} /\ listed = {} /\ known = {}
    /\ call = "first" /\ cursor = NoCursor /\ page = {} /\ more = NoCursor
    /\ got = <<>> /\ steady = {} /\ gap = FALSE

\* Until the client has what it asked for.
ListNext ==
    /\ call # "done"
    /\ \/ \E id \in Ids : BeginInstance(id) \/ LearnInstance(id)
       \/ \E row \in starting : CommitInstance(row)
       \/ \E row \in listed : FinishInstance(row) \/ RetireInstance(row)
       \/ Tick
       \/ ReadPage
       \/ \E answered \in BOOLEAN : FetchInfo(answered)

ListSpec == ListInit /\ [][ListNext]_listvars

\* No instance is returned on two pages.  And when the client reaches the last
\* page, every instance that was there all the while is on one: whichever
\* started, finished or went in between, and whatever shares its timestamp.
\* (Unless all rows of a page were left out: a limitation the code documents.)
PagesAreComplete ==
    /\ \A i, j \in DOMAIN got : i # j => got[i] \cap got[j] = {}
    /\ call = "done" /\ ~gap => steady \subseteq UNION {got[i] : i \in DOMAIN got}
=============================================================================
