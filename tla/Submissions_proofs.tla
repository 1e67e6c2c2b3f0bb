------------------------- MODULE Submissions_proofs -------------------------
(***************************************************************************)
(* Safety of Submissions for any number of identifiers, sessions,          *)
(* submissions and faults: the inductive invariant and what follows.       *)
(***************************************************************************)
EXTENDS Submissions, FiniteSetTheorems, TLAPS

\* A store either has nothing of an identifier or a numbered submission.
Shapes ==
    \A id \in Ids :
        /\ rows[id].owner = Nobody <=> rows[id].sub = 0
        /\ ledger[id].owner = Nobody <=> ledger[id].sub = 0
        /\ work[id].state = "none" <=> work[id].sub = 0
        /\ rows[id].status = "none" <=> rows[id].owner = Nobody
        /\ rows[id].status = "finished" => rows[id].owner = Committed
        /\ rows[id].aged =>
            rows[id].status \in {"cancelled", "finished"} /\ rows[id].owner = Committed

\* Numbers are handed out once, and to one identifier.
Numbers ==
    /\ \A id \in Ids : rows[id].sub < next /\ ledger[id].sub < next
    /\ \A id, other \in Ids :
        id # other =>
            /\ rows[id].sub = rows[other].sub => rows[id].sub = 0
            /\ ledger[id].sub = ledger[other].sub => ledger[id].sub = 0
            /\ rows[id].sub = ledger[other].sub => rows[id].sub = 0

\* An uncommitted ledger entry is the candidate of the session that reserved
\* it; the candidate's row is the session's own from the claim on.
Reservations ==
    /\ \A c \in Sessions, id \in Ids :
        /\ ledger[id].owner = c <=> id \in cand[c]
        /\ id \in cand[c] => stage[c] \in {"claim", "enqueue"}
        /\ id \in cand[c] /\ stage[c] = "claim" => rows[id].sub # ledger[id].sub
        /\ id \in cand[c] /\ stage[c] = "enqueue" =>
            rows[id].owner = c /\ rows[id].sub = ledger[id].sub /\ rows[id].status = "pending"
    /\ \A c \in Sessions : \A id, other \in cand[c] : id = other

\* A row and a committed entry of one identifier are of one submission.
RowsAgree ==
    \A id \in Ids :
        rows[id].owner # Nobody /\ ledger[id].owner = Committed => rows[id].sub = ledger[id].sub

\* The engine was told of a cancellation before the row was.
CancelKnown ==
    \A id \in Ids :
        /\ rows[id].status = "cancelled" /\ work[id].state = "queued" => work[id].cancelled
        /\ rows[id].status = "finished" => work[id].state # "queued"

\* What the maintenance pass has learnt still holds when it acts on it.
PassKnows ==
    /\ pc = "retire" => \A id \in todo :
        id \in Visible /\ rows[id].status \in {"cancelled", "finished"}
    /\ pc \in {"retire", "delete"} => \A id \in picked :
        /\ id \in Visible /\ rows[id].status \in {"cancelled", "finished"}
        /\ work[id].state # "running"
    /\ pc \in {"metadata", "uncharge"} => \A id \in picked :
        id \in Charged /\ work[id].sub = 0
    /\ pc = "uncharge" => \A id \in picked : rows[id].status # "finished"

\* The inductive invariant.
IInv ==
    /\ TypeOK
    /\ Shapes
    /\ Numbers
    /\ Reservations
    /\ WorkIsCharged
    /\ RowsAgree
    /\ CancelKnown
    /\ EvidenceOutlivesRow
    /\ PassKnows

\* The stores start empty.
LEMMA InitInv == Init => IInv
<1> USE OwnersAssumption, BoundsAssumption
<1> QED
    BY DEF Init, IInv, TypeOK, RowRecord, EntryRecord, WorkRecord, Shapes, Numbers,
           Reservations, WorkIsCharged, RowsAgree,
           CancelKnown, EvidenceOutlivesRow, PassKnows, NoRow, NoEntry, NoWork, Stages, Steps,
           Owners

\* What the actions change in a row leaves it a row.
LEMMA RowUpdates ==
    ASSUME NEW row \in RowRecord
    PROVE  /\ [row EXCEPT !.aged = TRUE] \in RowRecord
           /\ [row EXCEPT !.status = "finished"] \in RowRecord
           /\ [row EXCEPT !.status = "cancelled"] \in RowRecord
           /\ [row EXCEPT !.owner = Committed] \in RowRecord
BY DEF RowRecord, Owners

\* The same for a ledger entry.
LEMMA EntryUpdates ==
    ASSUME NEW entry \in EntryRecord
    PROVE  [entry EXCEPT !.owner = Committed] \in EntryRecord
BY DEF EntryRecord, Owners

\* The same for an engine record.
LEMMA WorkUpdates ==
    ASSUME NEW w \in WorkRecord
    PROVE  /\ [w EXCEPT !.aged = TRUE] \in WorkRecord
           /\ [w EXCEPT !.cancelled = TRUE] \in WorkRecord
           /\ \A st \in {"running", "Completed", "Failed"} : [w EXCEPT !.state = st] \in WorkRecord
BY DEF WorkRecord

\* Taking the quota lock and counting rows changes no store.
LEMMA BeginStartInv ==
    ASSUME IInv, NEW c \in Sessions, BeginStart(c)
    PROVE  IInv'
<1>1. TypeOK'
  <2>1. stage' \in [Sessions -> Stages]
      BY DEF BeginStart, IInv, TypeOK, Stages
  <2>2. seen' \in [Sessions -> SUBSET Ids]
      BY DEF BeginStart, IInv, TypeOK, Visible, Own
  <2>3. locker' \in Sessions \cup {Nobody}
      BY DEF BeginStart, IInv, TypeOK
  <2> QED
      BY <2>1, <2>2, <2>3 DEF BeginStart, pass, IInv, TypeOK
<1> USE OwnersAssumption, BoundsAssumption
        DEF IInv, BeginStart, Own, LimitsOn, calls, pass, Visible, Charged, NoRow, NoEntry, NoWork,
            Owners, Stages, Steps, TypeOK, RowRecord, EntryRecord, WorkRecord
<1>2. Shapes' /\ Numbers'
    BY DEF Shapes, Numbers, Reservations
<1>3. Reservations'
    BY DEF Shapes, Numbers, Reservations
<1>4. WorkIsCharged' /\ RowsAgree'
    BY DEF Shapes, Reservations, WorkIsCharged, RowsAgree, PassKnows
<1>5. CancelKnown' /\ EvidenceOutlivesRow'
    BY DEF Shapes, Reservations, WorkIsCharged, RowsAgree, CancelKnown,
           EvidenceOutlivesRow, PassKnows
<1>6. PassKnows'
    BY DEF Shapes, Reservations, WorkIsCharged, CancelKnown, PassKnows
<1> QED
    BY <1>1, <1>2, <1>3, <1>4, <1>5, <1>6

\* A df.start() that raises takes its reservation and its row along.
LEMMA UndoInv ==
    ASSUME IInv, NEW c \in Sessions, Undo(c)
    PROVE  IInv'
<1> USE OwnersAssumption, BoundsAssumption
        DEF IInv, Undo, calls, pass, Visible, Charged, NoRow, NoEntry, NoWork,
            Owners, Stages, Steps, TypeOK, RowRecord, EntryRecord, WorkRecord
<1>1. TypeOK'
    OBVIOUS
<1>2. Shapes' /\ Numbers'
    BY DEF Shapes, Numbers, Reservations
<1>3. Reservations'
    BY DEF Shapes, Numbers, Reservations
<1>4. WorkIsCharged' /\ RowsAgree'
    BY DEF Shapes, Reservations, WorkIsCharged, RowsAgree, PassKnows
<1>5. CancelKnown' /\ EvidenceOutlivesRow'
    BY DEF Shapes, Reservations, WorkIsCharged, RowsAgree, CancelKnown,
           EvidenceOutlivesRow, PassKnows
<1>6. PassKnows'
    BY DEF Shapes, Reservations, WorkIsCharged, CancelKnown, PassKnows
<1> QED
    BY <1>1, <1>2, <1>3, <1>4, <1>5, <1>6

\* The quota check passes, or raises.
LEMMA CheckLimitsInv ==
    ASSUME IInv, NEW c \in Sessions, CheckLimits(c)
    PROVE  IInv'
<1>1. CASE Undo(c)
    BY <1>1, UndoInv
<1>2. CASE /\ stage[c] = "counting"
           /\ stage' = [stage EXCEPT ![c] = "reserve"]
           /\ UNCHANGED <<cand, seen, locker, next, rows, ledger, work, pass>>
  <2> USE <1>2, OwnersAssumption, BoundsAssumption
          DEF IInv, pass, Visible, Charged, Owners, Stages, Steps
  <2>1. TypeOK'
      BY DEF TypeOK, RowRecord, EntryRecord, WorkRecord
  <2>2. Shapes' /\ Numbers' /\ Reservations'
      BY DEF TypeOK, RowRecord, EntryRecord, WorkRecord, Shapes, Numbers, Reservations
  <2>3. WorkIsCharged' /\ RowsAgree' /\ CancelKnown' /\ EvidenceOutlivesRow' /\ PassKnows'
      BY DEF WorkIsCharged, RowsAgree, CancelKnown, EvidenceOutlivesRow, PassKnows
  <2> QED
      BY <2>1, <2>2, <2>3
<1> QED
    BY <1>1, <1>2 DEF CheckLimits

\* Any statement of df.start() may raise.
LEMMA StartFailsInv ==
    ASSUME IInv, NEW c \in Sessions, StartFails(c)
    PROVE  IInv'
BY UndoInv DEF StartFails

\* A reservation gets a fresh number and an identifier without an entry.
LEMMA ReserveInv ==
    ASSUME IInv, NEW c \in Sessions, NEW id \in Ids, Reserve(c, id)
    PROVE  IInv'
<1> USE OwnersAssumption, BoundsAssumption
        DEF IInv, Reserve, calls, pass, Visible, Charged, NoRow, NoEntry, NoWork,
            Owners, Stages, Steps, TypeOK, RowRecord, EntryRecord, WorkRecord
<1>1. TypeOK'
    OBVIOUS
<1>2. Shapes' /\ Numbers'
    BY DEF Shapes, Numbers, Reservations
<1>3. Reservations'
    BY DEF Shapes, Numbers, Reservations
<1>4. WorkIsCharged' /\ RowsAgree'
    BY DEF Shapes, Reservations, WorkIsCharged, RowsAgree, PassKnows
<1>5. CancelKnown' /\ EvidenceOutlivesRow'
    BY DEF Shapes, Reservations, WorkIsCharged, RowsAgree, CancelKnown,
           EvidenceOutlivesRow, PassKnows
<1>6. PassKnows'
    BY DEF Shapes, Reservations, WorkIsCharged, CancelKnown, PassKnows
<1> QED
    BY <1>1, <1>2, <1>3, <1>4, <1>5, <1>6

\* The row is claimed under the number of the reservation, or is taken.
LEMMA ClaimInv ==
    ASSUME IInv, NEW c \in Sessions, NEW id \in Ids, Claim(c, id)
    PROVE  IInv'
<1> USE OwnersAssumption, BoundsAssumption
        DEF IInv, Visible, Charged, pass, NoEntry, Owners, Stages, Steps
<1>0. stage[c] = "claim" /\ id \in cand[c] /\ UNCHANGED <<seen, locker, next, work, pass>>
    BY DEF Claim
<1>1. CASE /\ rows[id].owner = Nobody
           /\ rows' = [rows EXCEPT ![id] = [sub |-> ledger[id].sub, owner |-> c,
                                            status |-> "pending", aged |-> FALSE]]
           /\ stage' = [stage EXCEPT ![c] = "enqueue"]
           /\ UNCHANGED <<cand, ledger>>
  <2>1. TypeOK'
      BY <1>0, <1>1 DEF TypeOK, RowRecord, EntryRecord
  <2>2. Shapes' /\ Numbers'
      BY <1>0, <1>1 DEF TypeOK, RowRecord, EntryRecord, Shapes, Numbers, Reservations
  <2>3. Reservations'
      BY <1>0, <1>1 DEF TypeOK, RowRecord, EntryRecord, Shapes, Numbers, Reservations
  <2>4. WorkIsCharged' /\ RowsAgree'
      BY <1>0, <1>1
      DEF TypeOK, RowRecord, EntryRecord, WorkRecord, Shapes, Reservations, WorkIsCharged,
          RowsAgree
  <2>5. CancelKnown' /\ EvidenceOutlivesRow'
      BY <1>0, <1>1
      DEF TypeOK, RowRecord, EntryRecord, WorkRecord, Shapes, Reservations, CancelKnown,
          EvidenceOutlivesRow
  <2>6. PassKnows'
      BY <1>0, <1>1 DEF TypeOK, RowRecord, EntryRecord, WorkRecord, Shapes, Reservations, PassKnows
  <2> QED
      BY <2>1, <2>2, <2>3, <2>4, <2>5, <2>6
<1>2. CASE /\ rows[id].owner \in {Committed, c}
           /\ ledger' = [ledger EXCEPT ![id] = NoEntry]
           /\ stage' = [stage EXCEPT ![c] = "reserve"]
           /\ cand' = [cand EXCEPT ![c] = {}]
           /\ UNCHANGED rows
  <2>1. TypeOK'
      BY <1>0, <1>2 DEF TypeOK, RowRecord, EntryRecord
  <2>2. Shapes' /\ Numbers'
      BY <1>0, <1>2 DEF TypeOK, RowRecord, EntryRecord, Shapes, Numbers, Reservations
  <2>3. Reservations'
      BY <1>0, <1>2 DEF TypeOK, RowRecord, EntryRecord, Shapes, Numbers, Reservations
  <2>4. WorkIsCharged' /\ RowsAgree'
      BY <1>0, <1>2
      DEF TypeOK, RowRecord, EntryRecord, WorkRecord, Shapes, Reservations, WorkIsCharged,
          RowsAgree
  <2>5. CancelKnown' /\ EvidenceOutlivesRow'
      BY <1>0, <1>2
      DEF TypeOK, RowRecord, EntryRecord, WorkRecord, Shapes, Reservations, CancelKnown,
          EvidenceOutlivesRow
  <2>6. PassKnows'
      BY <1>0, <1>2 DEF TypeOK, RowRecord, EntryRecord, WorkRecord, Shapes, Reservations, PassKnows
  <2> QED
      BY <2>1, <2>2, <2>3, <2>4, <2>5, <2>6
<1> QED
    BY <1>1, <1>2 DEF Claim

\* Entry and queue item appear together.
LEMMA EnqueueInv ==
    ASSUME IInv, NEW c \in Sessions, NEW id \in Ids, Enqueue(c, id)
    PROVE  IInv'
<1>1. TypeOK'
  <2>1. ledger[id] \in EntryRecord /\ ledger[id].sub \in 0 .. MaxSubs
      BY DEF IInv, TypeOK, EntryRecord
  <2>2. ledger' = [ledger EXCEPT ![id] = [ledger[id] EXCEPT !.owner = Committed]]
      BY DEF Enqueue, IInv, TypeOK
  <2>3. ledger' \in [Ids -> EntryRecord]
      BY <2>1, <2>2, EntryUpdates DEF IInv, TypeOK
  <2>4. [sub |-> ledger[id].sub, state |-> "queued", cancelled |-> FALSE, aged |-> FALSE]
            \in WorkRecord
      BY <2>1 DEF WorkRecord
  <2>5. work' \in [Ids -> WorkRecord]
      BY <2>4 DEF Enqueue, IInv, TypeOK
  <2> QED
      BY <2>3, <2>5 DEF Enqueue, pass, IInv, TypeOK, Stages
<1> USE OwnersAssumption, BoundsAssumption
        DEF IInv, Enqueue, calls, pass, Visible, Charged, NoRow, NoEntry, NoWork,
            Owners, Stages, Steps, TypeOK, RowRecord, EntryRecord, WorkRecord
<1>2. Shapes' /\ Numbers'
    BY DEF Shapes, Numbers, Reservations
<1>3. Reservations'
  <2>1. \A s \in Sessions : s # c => stage'[s] = stage[s] /\ cand'[s] = cand[s]
      OBVIOUS
  <2>2. cand'[c] = {}
      OBVIOUS
  <2>3. rows' = rows
      OBVIOUS
  <2>4. \A i \in Ids : i # id => ledger'[i] = ledger[i]
      OBVIOUS
  <2>5. ledger'[id].owner = Committed /\ ledger'[id].sub = ledger[id].sub
      OBVIOUS
  <2>6. id \in cand[c] /\ ledger[id].owner = c
      BY DEF Reservations
  <2>7. \A i \in cand[c] : i = id
      BY <2>6 DEF Reservations
  <2> QED
      BY <2>1, <2>2, <2>3, <2>4, <2>5, <2>6, <2>7 DEF Reservations
<1>4. WorkIsCharged' /\ RowsAgree'
    BY DEF Shapes, Reservations, WorkIsCharged, RowsAgree, PassKnows
<1>5. CancelKnown' /\ EvidenceOutlivesRow'
    BY DEF Shapes, Reservations, WorkIsCharged, RowsAgree, CancelKnown,
           EvidenceOutlivesRow, PassKnows
<1>6. PassKnows'
    BY DEF Shapes, Reservations, WorkIsCharged, CancelKnown, PassKnows
<1> QED
    BY <1>1, <1>2, <1>3, <1>4, <1>5, <1>6

\* The caller's rows become visible; none of them was being enqueued.
LEMMA CommitInv ==
    ASSUME IInv, NEW c \in Sessions, Commit(c)
    PROVE  IInv'
<1>1. TypeOK'
  <2>1. \A id \in Ids : rows[id] \in RowRecord /\ [rows[id] EXCEPT !.owner = Committed] \in RowRecord
      BY RowUpdates DEF IInv, TypeOK
  <2>2. rows' \in [Ids -> RowRecord]
      BY <2>1 DEF Commit
  <2> QED
      BY <2>2 DEF Commit, pass, IInv, TypeOK
<1> USE OwnersAssumption, BoundsAssumption
        DEF IInv, Commit, Own, calls, pass, Visible, Charged, NoRow, NoEntry, NoWork,
            Owners, Stages, Steps, TypeOK, RowRecord, EntryRecord, WorkRecord
<1>2. Shapes' /\ Numbers'
    BY DEF Shapes, Numbers, Reservations
<1>3. Reservations'
    BY DEF Shapes, Numbers, Reservations
<1>4. WorkIsCharged' /\ RowsAgree'
    BY DEF Shapes, Reservations, WorkIsCharged, RowsAgree, PassKnows
<1>5. CancelKnown' /\ EvidenceOutlivesRow'
    BY DEF Shapes, Reservations, WorkIsCharged, RowsAgree, CancelKnown,
           EvidenceOutlivesRow, PassKnows
<1>6. PassKnows'
    BY DEF Shapes, Reservations, WorkIsCharged, CancelKnown, PassKnows
<1> QED
    BY <1>1, <1>2, <1>3, <1>4, <1>5, <1>6

\* The caller's rows go; entries and work stay behind.
LEMMA RollbackInv ==
    ASSUME IInv, NEW c \in Sessions, Rollback(c)
    PROVE  IInv'
<1> USE OwnersAssumption, BoundsAssumption
        DEF IInv, Rollback, Own, calls, pass, Visible, Charged, NoRow, NoEntry, NoWork,
            Owners, Stages, Steps, TypeOK, RowRecord, EntryRecord, WorkRecord
<1>1. TypeOK'
    OBVIOUS
<1>2. Shapes' /\ Numbers'
    BY DEF Shapes, Numbers, Reservations
<1>3. Reservations'
    BY DEF Shapes, Numbers, Reservations
<1>4. WorkIsCharged' /\ RowsAgree'
    BY DEF Shapes, Reservations, WorkIsCharged, RowsAgree, PassKnows
<1>5. CancelKnown' /\ EvidenceOutlivesRow'
    BY DEF Shapes, Reservations, WorkIsCharged, RowsAgree, CancelKnown,
           EvidenceOutlivesRow, PassKnows
<1>6. PassKnows'
    BY DEF Shapes, Reservations, WorkIsCharged, CancelKnown, PassKnows
<1> QED
    BY <1>1, <1>2, <1>3, <1>4, <1>5, <1>6

\* df.cancel() reaches the engine before the row.
LEMMA CancelInv ==
    ASSUME IInv, NEW id \in Ids, Cancel(id)
    PROVE  IInv'
<1> USE OwnersAssumption, BoundsAssumption
        DEF IInv, Own, calls, pass, Visible, Charged, Owners, Stages, Steps
<1>0. /\ rows[id].status = "pending" /\ UNCHANGED <<calls, ledger, pass>>
      /\ \A c \in Sessions : rows[id].owner = c => stage[c] = "idle"
    BY DEF Cancel
<1>1. /\ work' \in [Ids -> WorkRecord]
      /\ \A i \in Ids : work'[i].sub = work[i].sub /\ work'[i].state = work[i].state
      /\ \A i \in Ids : i # id => work'[i] = work[i]
      /\ work[id].state = "queued" => work'[id].cancelled
  <2>1. CASE /\ work[id].state \in {"queued", "running"}
             /\ work' = [work EXCEPT ![id].cancelled = TRUE]
    <3>1. work' = [work EXCEPT ![id] = [work[id] EXCEPT !.cancelled = TRUE]]
        BY <2>1 DEF TypeOK
    <3>2. [work[id] EXCEPT !.cancelled = TRUE] \in WorkRecord
        BY WorkUpdates DEF TypeOK
    <3> QED
        BY <3>1, <3>2 DEF TypeOK, WorkRecord
  <2>2. CASE work[id].state \notin {"queued", "running"} /\ work' = work
      BY <2>2 DEF TypeOK
  <2> QED
      BY <2>1, <2>2 DEF Cancel
<1>2. /\ rows' \in [Ids -> RowRecord]
      /\ \A i \in Ids : /\ rows'[i].sub = rows[i].sub /\ rows'[i].owner = rows[i].owner
                        /\ rows'[i].aged = rows[i].aged
      /\ \A i \in Ids : i # id => rows'[i].status = rows[i].status
      /\ rows'[id].status \in {"pending", "cancelled"}
  <2>1. CASE rows' = [rows EXCEPT ![id].status = "cancelled"]
    <3>1. rows' = [rows EXCEPT ![id] = [rows[id] EXCEPT !.status = "cancelled"]]
        BY <2>1 DEF TypeOK
    <3>2. [rows[id] EXCEPT !.status = "cancelled"] \in RowRecord
        BY RowUpdates DEF TypeOK
    <3> QED
        BY <3>1, <3>2 DEF TypeOK, RowRecord
  <2>2. CASE rows' = rows
      BY <1>0, <2>2 DEF TypeOK
  <2> QED
      BY <2>1, <2>2 DEF Cancel
<1>3. TypeOK'
    BY <1>0, <1>1, <1>2 DEF TypeOK
<1>4. Shapes' /\ Numbers'
  <2>1. rows[id].owner # Nobody /\ ~rows[id].aged
      BY <1>0 DEF Shapes
  <2>2. Shapes'
      BY <1>0, <1>1, <1>2, <2>1 DEF Shapes
  <2>3. Numbers'
      BY <1>0, <1>2 DEF Numbers
  <2> QED
      BY <2>2, <2>3
<1>5. Reservations'
  <2>1. \A c \in Sessions : id \in cand[c] => stage[c] # "enqueue"
      BY <1>0 DEF Reservations
  <2>2. UNCHANGED <<stage, cand, ledger>>
      BY <1>0
  <2> QED
      BY <1>2, <2>1, <2>2 DEF Reservations
<1>6. WorkIsCharged' /\ RowsAgree'
    BY <1>0, <1>1, <1>2 DEF WorkIsCharged, RowsAgree
<1>7. CancelKnown' /\ EvidenceOutlivesRow'
    BY <1>0, <1>1, <1>2 DEF CancelKnown, EvidenceOutlivesRow
<1>8. PassKnows'
  <2>1. Visible' = Visible /\ Charged' = Charged
      BY <1>0, <1>2
  <2>2. \A i \in Ids : rows[i].status \in {"cancelled", "finished"} =>
            rows'[i].status = rows[i].status
      BY <1>0, <1>2
  <2>3. \A i \in Ids : rows[i].status # "finished" => rows'[i].status # "finished"
      BY <1>0, <1>2
  <2> QED
      BY <1>0, <1>1, <2>1, <2>2, <2>3 DEF TypeOK, PassKnows
<1> QED
    BY <1>3, <1>4, <1>5, <1>6, <1>7, <1>8

\* A cancelled start ends at its first turn.
LEMMA DispatchInv ==
    ASSUME IInv, NEW id \in Ids, Dispatch(id)
    PROVE  IInv'
<1>1. TypeOK'
  <2>1. work[id] \in WorkRecord
      BY DEF IInv, TypeOK
  <2>2. work' = [work EXCEPT ![id] = [work[id] EXCEPT !.state = IF work[id].cancelled THEN "Failed" ELSE "running"]]
      BY DEF Dispatch, IInv, TypeOK
  <2> QED
      BY <2>1, <2>2, WorkUpdates DEF Dispatch, calls, pass, IInv, TypeOK
<1> USE OwnersAssumption, BoundsAssumption
        DEF IInv, Dispatch, calls, pass, Visible, Charged, NoRow, NoEntry, NoWork,
            Owners, Stages, Steps, TypeOK, RowRecord, EntryRecord, WorkRecord
<1>2. Shapes' /\ Numbers'
    BY DEF Shapes, Numbers, Reservations
<1>3. Reservations'
    BY DEF Shapes, Numbers, Reservations
<1>4. WorkIsCharged' /\ RowsAgree'
    BY DEF Shapes, Reservations, WorkIsCharged, RowsAgree, PassKnows
<1>5. CancelKnown' /\ EvidenceOutlivesRow'
    BY DEF Shapes, Reservations, WorkIsCharged, RowsAgree, CancelKnown,
           EvidenceOutlivesRow, PassKnows
<1>6. PassKnows'
    BY DEF Shapes, Reservations, WorkIsCharged, CancelKnown, PassKnows
<1> QED
    BY <1>1, <1>2, <1>3, <1>4, <1>5, <1>6

\* Only a visible row of running work is finished.
LEMMA FinalizeInv ==
    ASSUME IInv, NEW id \in Ids, Finalize(id)
    PROVE  IInv'
<1>1. TypeOK'
  <2>1. rows[id] \in RowRecord
      BY DEF IInv, TypeOK
  <2>2. rows' = [rows EXCEPT ![id] = [rows[id] EXCEPT !.status = "finished"]]
      BY DEF Finalize, IInv, TypeOK
  <2> QED
      BY <2>1, <2>2, RowUpdates DEF Finalize, calls, pass, IInv, TypeOK
<1> USE OwnersAssumption, BoundsAssumption
        DEF IInv, Finalize, calls, pass, Visible, Charged, NoRow, NoEntry, NoWork,
            Owners, Stages, Steps, TypeOK, RowRecord, EntryRecord, WorkRecord
<1>2. Shapes' /\ Numbers'
    BY DEF Shapes, Numbers, Reservations
<1>3. Reservations'
    BY DEF Shapes, Numbers, Reservations
<1>4. WorkIsCharged' /\ RowsAgree'
    BY DEF Shapes, Reservations, WorkIsCharged, RowsAgree, PassKnows
<1>5. CancelKnown' /\ EvidenceOutlivesRow'
    BY DEF Shapes, Reservations, WorkIsCharged, RowsAgree, CancelKnown,
           EvidenceOutlivesRow, PassKnows
<1>6. PassKnows'
    BY DEF Shapes, Reservations, WorkIsCharged, CancelKnown, PassKnows
<1> QED
    BY <1>1, <1>2, <1>3, <1>4, <1>5, <1>6

\* Ending work keeps its entry.
LEMMA EndsInv ==
    ASSUME IInv, NEW id \in Ids, Ends(id)
    PROVE  IInv'
<1>1. TypeOK'
  <2>0. PICK end \in {"Completed", "Failed"} : work' = [work EXCEPT ![id].state = end]
      BY DEF Ends
  <2>1. work[id] \in WorkRecord
      BY DEF IInv, TypeOK
  <2>2. work' = [work EXCEPT ![id] = [work[id] EXCEPT !.state = end]]
      BY <2>0 DEF Ends, IInv, TypeOK
  <2> QED
      BY <2>1, <2>2, WorkUpdates DEF Ends, calls, pass, IInv, TypeOK
<1> USE OwnersAssumption, BoundsAssumption
        DEF IInv, Ends, calls, pass, Visible, Charged, NoRow, NoEntry, NoWork,
            Owners, Stages, Steps, TypeOK, RowRecord, EntryRecord, WorkRecord
<1>2. Shapes' /\ Numbers'
    BY DEF Shapes, Numbers, Reservations
<1>3. Reservations'
    BY DEF Shapes, Numbers, Reservations
<1>4. WorkIsCharged' /\ RowsAgree'
    BY DEF Shapes, Reservations, WorkIsCharged, RowsAgree, PassKnows
<1>5. CancelKnown' /\ EvidenceOutlivesRow'
    BY DEF Shapes, Reservations, WorkIsCharged, RowsAgree, CancelKnown,
           EvidenceOutlivesRow, PassKnows
<1>6. PassKnows'
    BY DEF Shapes, Reservations, WorkIsCharged, CancelKnown, PassKnows
<1> QED
    BY <1>1, <1>2, <1>3, <1>4, <1>5, <1>6

\* Only terminal committed rows expire.
LEMMA AgeRowInv ==
    ASSUME IInv, NEW id \in Ids, AgeRow(id)
    PROVE  IInv'
<1>1. TypeOK'
  <2>1. rows[id] \in RowRecord
      BY DEF IInv, TypeOK
  <2>2. rows' = [rows EXCEPT ![id] = [rows[id] EXCEPT !.aged = TRUE]]
      BY DEF AgeRow, IInv, TypeOK
  <2> QED
      BY <2>1, <2>2, RowUpdates DEF AgeRow, calls, pass, IInv, TypeOK
<1> USE OwnersAssumption, BoundsAssumption
        DEF IInv, AgeRow, calls, pass, Visible, Charged, NoRow, NoEntry, NoWork,
            Owners, Stages, Steps, TypeOK, RowRecord, EntryRecord, WorkRecord
<1>2. Shapes' /\ Numbers'
    BY DEF Shapes, Numbers, Reservations
<1>3. Reservations'
    BY DEF Shapes, Numbers, Reservations
<1>4. WorkIsCharged' /\ RowsAgree'
    BY DEF Shapes, Reservations, WorkIsCharged, RowsAgree, PassKnows
<1>5. CancelKnown' /\ EvidenceOutlivesRow'
    BY DEF Shapes, Reservations, WorkIsCharged, RowsAgree, CancelKnown,
           EvidenceOutlivesRow, PassKnows
<1>6. PassKnows'
    BY DEF Shapes, Reservations, WorkIsCharged, CancelKnown, PassKnows
<1> QED
    BY <1>1, <1>2, <1>3, <1>4, <1>5, <1>6

\* Time does not touch the stores.
LEMMA AgeWorkInv ==
    ASSUME IInv, NEW id \in Ids, AgeWork(id)
    PROVE  IInv'
<1>1. TypeOK'
  <2>1. work[id] \in WorkRecord
      BY DEF IInv, TypeOK
  <2>2. work' = [work EXCEPT ![id] = [work[id] EXCEPT !.aged = TRUE]]
      BY DEF AgeWork, IInv, TypeOK
  <2> QED
      BY <2>1, <2>2, WorkUpdates DEF AgeWork, calls, pass, IInv, TypeOK
<1> USE OwnersAssumption, BoundsAssumption
        DEF IInv, AgeWork, Ended, calls, pass, Visible, Charged, NoRow, NoEntry, NoWork,
            Owners, Stages, Steps, TypeOK, RowRecord, EntryRecord, WorkRecord
<1>2. Shapes' /\ Numbers'
    BY DEF Shapes, Numbers, Reservations
<1>3. Reservations'
    BY DEF Shapes, Numbers, Reservations
<1>4. WorkIsCharged' /\ RowsAgree'
    BY DEF Shapes, Reservations, WorkIsCharged, RowsAgree, PassKnows
<1>5. CancelKnown' /\ EvidenceOutlivesRow'
    BY DEF Shapes, Reservations, WorkIsCharged, RowsAgree, CancelKnown,
           EvidenceOutlivesRow, PassKnows
<1>6. PassKnows'
    BY DEF Shapes, Reservations, WorkIsCharged, CancelKnown, PassKnows
<1> QED
    BY <1>1, <1>2, <1>3, <1>4, <1>5, <1>6

\* Steps of the pass that only read leave everything but PassKnows as it is.
LEMMA StoresUntouched ==
    ASSUME IInv, UNCHANGED <<calls, rows, ledger, work>>
    PROVE  /\ Shapes' /\ Numbers' /\ Reservations'
           /\ WorkIsCharged' /\ RowsAgree' /\ CancelKnown' /\ EvidenceOutlivesRow'
BY DEF calls, IInv, Shapes, Numbers, Reservations, WorkIsCharged, RowsAgree, CancelKnown,
       EvidenceOutlivesRow, Charged

\* The page holds terminal committed rows.
LEMMA SelectExpiredInv ==
    ASSUME IInv, SelectExpired
    PROVE  IInv'
<1> USE BoundsAssumption DEF IInv, SelectExpired, Goto, calls, Visible, Charged, Steps
<1>1. TypeOK'
    BY DEF TypeOK
<1>2. PassKnows'
    BY DEF TypeOK, RowRecord, EntryRecord, WorkRecord, Shapes, PassKnows
<1> QED
    BY <1>1, <1>2, StoresUntouched

\* What is picked is not running, and will not be: it is terminal or absent.
LEMMA RetireOneInv ==
    ASSUME IInv, NEW id \in Ids, RetireOne(id)
    PROVE  IInv'
<1> USE OwnersAssumption, BoundsAssumption
        DEF IInv, RetireOne, Goto, Ended, calls, pass, Visible, Charged, NoRow, NoEntry, NoWork,
            Owners, Stages, Steps, TypeOK, RowRecord, EntryRecord, WorkRecord
<1>1. TypeOK'
    OBVIOUS
<1>2. Shapes' /\ Numbers'
    BY DEF Shapes, Numbers, Reservations
<1>3. Reservations'
    BY DEF Shapes, Numbers, Reservations
<1>4. WorkIsCharged' /\ RowsAgree'
    BY DEF Shapes, Reservations, WorkIsCharged, RowsAgree, PassKnows
<1>5. CancelKnown' /\ EvidenceOutlivesRow'
    BY DEF Shapes, Reservations, WorkIsCharged, RowsAgree, CancelKnown,
           EvidenceOutlivesRow, PassKnows
<1>6. PassKnows'
    BY DEF Shapes, Reservations, WorkIsCharged, CancelKnown, PassKnows
<1> QED
    BY <1>1, <1>2, <1>3, <1>4, <1>5, <1>6

\* The picked instances are handed on.
LEMMA RetireDoneInv ==
    ASSUME IInv, RetireDone
    PROVE  IInv'
<1> USE BoundsAssumption DEF IInv, RetireDone, Goto, calls, Visible, Charged, Steps
<1>1. TypeOK'
    BY DEF TypeOK
<1>2. PassKnows'
    BY DEF TypeOK, RowRecord, EntryRecord, WorkRecord, Shapes, PassKnows
<1> QED
    BY <1>1, <1>2, StoresUntouched

\* The rows of picked instances go.
LEMMA DeleteExpiredInv ==
    ASSUME IInv, DeleteExpired
    PROVE  IInv'
<1> USE OwnersAssumption, BoundsAssumption
        DEF IInv, DeleteExpired, Goto, calls, pass, Visible, Charged, NoRow, NoEntry, NoWork,
            Owners, Stages, Steps, TypeOK, RowRecord, EntryRecord, WorkRecord
<1>1. TypeOK'
    OBVIOUS
<1>2. Shapes' /\ Numbers'
    BY DEF Shapes, Numbers, Reservations
<1>3. Reservations'
    BY DEF Shapes, Numbers, Reservations
<1>4. WorkIsCharged' /\ RowsAgree'
    BY DEF Shapes, Reservations, WorkIsCharged, RowsAgree, PassKnows
<1>5. CancelKnown' /\ EvidenceOutlivesRow'
    BY DEF Shapes, Reservations, WorkIsCharged, RowsAgree, CancelKnown,
           EvidenceOutlivesRow, PassKnows
<1>6. PassKnows'
    BY DEF Shapes, Reservations, WorkIsCharged, CancelKnown, PassKnows
<1> QED
    BY <1>1, <1>2, <1>3, <1>4, <1>5, <1>6

\* Scanning the engine changes no store.
LEMMA OrphanCandidatesInv ==
    ASSUME IInv, OrphanCandidates
    PROVE  IInv'
<1> USE BoundsAssumption DEF IInv, OrphanCandidates, Goto, calls, Visible, Charged, Steps
<1>1. TypeOK'
    BY DEF TypeOK
<1>2. PassKnows'
    BY DEF TypeOK, RowRecord, EntryRecord, WorkRecord, Shapes, PassKnows
<1> QED
    BY <1>1, <1>2, StoresUntouched

\* The cross-check changes no store.
LEMMA SelectOrphansInv ==
    ASSUME IInv, SelectOrphans
    PROVE  IInv'
<1> USE BoundsAssumption DEF IInv, SelectOrphans, Goto, calls, Visible, Charged, Steps
<1>1. TypeOK'
    BY DEF TypeOK
<1>2. PassKnows'
    BY DEF TypeOK, RowRecord, EntryRecord, WorkRecord, Shapes, PassKnows
<1> QED
    BY <1>1, <1>2, StoresUntouched

\* Only ended engine records go.
LEMMA DeleteOrphansInv ==
    ASSUME IInv, DeleteOrphans
    PROVE  IInv'
<1> USE OwnersAssumption, BoundsAssumption
        DEF IInv, DeleteOrphans, Goto, Ended, calls, pass, Visible, Charged, NoRow, NoEntry, NoWork,
            Owners, Stages, Steps, TypeOK, RowRecord, EntryRecord, WorkRecord
<1>1. TypeOK'
    OBVIOUS
<1>2. Shapes' /\ Numbers'
    BY DEF Shapes, Numbers, Reservations
<1>3. Reservations'
    BY DEF Shapes, Numbers, Reservations
<1>4. WorkIsCharged' /\ RowsAgree'
    BY DEF Shapes, Reservations, WorkIsCharged, RowsAgree, PassKnows
<1>5. CancelKnown' /\ EvidenceOutlivesRow'
    BY DEF Shapes, Reservations, WorkIsCharged, RowsAgree, CancelKnown,
           EvidenceOutlivesRow, PassKnows
<1>6. PassKnows'
    BY DEF Shapes, Reservations, WorkIsCharged, CancelKnown, PassKnows
<1> QED
    BY <1>1, <1>2, <1>3, <1>4, <1>5, <1>6

\* An entry without work stays without work.
LEMMA ScanLedgerInv ==
    ASSUME IInv, ScanLedger
    PROVE  IInv'
<1> USE BoundsAssumption DEF IInv, ScanLedger, Goto, NoWorkLeft, calls, Visible, Charged, Steps
<1>1. TypeOK'
    BY DEF TypeOK
<1>2. PassKnows'
    BY DEF TypeOK, RowRecord, EntryRecord, WorkRecord, Shapes, PassKnows
<1> QED
    BY <1>1, <1>2, StoresUntouched

\* An entry without work and row gets no finished row.
LEMMA WithoutMetadataInv ==
    ASSUME IInv, WithoutMetadata
    PROVE  IInv'
<1> USE BoundsAssumption DEF IInv, WithoutMetadata, Goto, calls, Visible, Charged, Steps
<1>1. TypeOK'
    BY DEF TypeOK
<1>2. PassKnows'
    BY DEF TypeOK, RowRecord, EntryRecord, WorkRecord, Shapes, PassKnows
<1> QED
    BY <1>1, <1>2, StoresUntouched

\* The entry of nothing goes.
LEMMA UnchargeInv ==
    ASSUME IInv, Uncharge
    PROVE  IInv'
<1> USE OwnersAssumption, BoundsAssumption
        DEF IInv, Uncharge, Goto, NoWorkLeft, calls, pass, Visible, Charged, NoRow, NoEntry, NoWork,
            Owners, Stages, Steps, TypeOK, RowRecord, EntryRecord, WorkRecord
<1>1. TypeOK'
    OBVIOUS
<1>2. Shapes' /\ Numbers'
    BY DEF Shapes, Numbers, Reservations
<1>3. Reservations'
    BY DEF Shapes, Numbers, Reservations
<1>4. WorkIsCharged' /\ RowsAgree'
    BY DEF Shapes, Reservations, WorkIsCharged, RowsAgree, PassKnows
<1>5. CancelKnown' /\ EvidenceOutlivesRow'
    BY DEF Shapes, Reservations, WorkIsCharged, RowsAgree, CancelKnown,
           EvidenceOutlivesRow, PassKnows
<1>6. PassKnows'
    BY DEF Shapes, Reservations, WorkIsCharged, CancelKnown, PassKnows
<1> QED
    BY <1>1, <1>2, <1>3, <1>4, <1>5, <1>6

\* A failed step forgets what the pass has learnt.
LEMMA PassFaultInv ==
    ASSUME IInv, PassFault
    PROVE  IInv'
<1> USE BoundsAssumption DEF IInv, PassFault, calls, Visible, Charged, Steps
<1>1. TypeOK'
    BY DEF TypeOK
<1>2. PassKnows'
    BY DEF TypeOK, RowRecord, EntryRecord, WorkRecord, Shapes, PassKnows
<1> QED
    BY <1>1, <1>2, StoresUntouched

\* Every step, whoever takes it, preserves the inductive invariant.
LEMMA StepInv == IInv /\ [Next]_vars => IInv'
<1> SUFFICES ASSUME IInv, [Next]_vars PROVE IInv'
    OBVIOUS
<1>1. ASSUME NEW c \in Sessions, SessionStep(c) PROVE IInv'
  <2> USE <1>1
  <2>1. CASE BeginStart(c)
      BY <2>1, BeginStartInv
  <2>2. CASE CheckLimits(c)
      BY <2>2, CheckLimitsInv
  <2>3. CASE StartFails(c)
      BY <2>3, StartFailsInv
  <2>4. ASSUME NEW id \in Ids, Reserve(c, id) PROVE IInv'
      BY <2>4, ReserveInv
  <2>5. ASSUME NEW id \in Ids, Claim(c, id) PROVE IInv'
      BY <2>5, ClaimInv
  <2>6. ASSUME NEW id \in Ids, Enqueue(c, id) PROVE IInv'
      BY <2>6, EnqueueInv
  <2>7. CASE Commit(c)
      BY <2>7, CommitInv
  <2>8. CASE Rollback(c)
      BY <2>8, RollbackInv
  <2> QED
      BY <2>1, <2>2, <2>3, <2>4, <2>5, <2>6, <2>7, <2>8 DEF SessionStep
<1>2. ASSUME NEW id \in Ids, Cancel(id) \/ EngineStep(id) \/ AgeRow(id) \/ AgeWork(id)
      PROVE  IInv'
  <2> USE <1>2
  <2>1. CASE Cancel(id)
      BY <2>1, CancelInv
  <2>2. CASE Dispatch(id)
      BY <2>2, DispatchInv
  <2>3. CASE Finalize(id)
      BY <2>3, FinalizeInv
  <2>4. CASE Ends(id)
      BY <2>4, EndsInv
  <2>5. CASE AgeRow(id)
      BY <2>5, AgeRowInv
  <2>6. CASE AgeWork(id)
      BY <2>6, AgeWorkInv
  <2> QED
      BY <2>1, <2>2, <2>3, <2>4, <2>5, <2>6 DEF EngineStep
<1>3. CASE PassStep
  <2> USE <1>3
  <2>1. CASE SelectExpired
      BY <2>1, SelectExpiredInv
  <2>2. ASSUME NEW id \in Ids, RetireOne(id) PROVE IInv'
      BY <2>2, RetireOneInv
  <2>3. CASE RetireDone
      BY <2>3, RetireDoneInv
  <2>4. CASE DeleteExpired
      BY <2>4, DeleteExpiredInv
  <2>5. CASE OrphanCandidates
      BY <2>5, OrphanCandidatesInv
  <2>6. CASE SelectOrphans
      BY <2>6, SelectOrphansInv
  <2>7. CASE DeleteOrphans
      BY <2>7, DeleteOrphansInv
  <2>8. CASE ScanLedger
      BY <2>8, ScanLedgerInv
  <2>9. CASE WithoutMetadata
      BY <2>9, WithoutMetadataInv
  <2>10. CASE Uncharge
      BY <2>10, UnchargeInv
  <2> QED
      BY <2>1, <2>2, <2>3, <2>4, <2>5, <2>6, <2>7, <2>8, <2>9, <2>10 DEF PassStep
<1>4. CASE PassFault
    BY <1>4, PassFaultInv
<1>5. CASE UNCHANGED vars
    BY <1>5 DEF vars, calls, pass, IInv, TypeOK, Shapes, Numbers, Reservations, WorkIsCharged,
                RowsAgree, CancelKnown, EvidenceOutlivesRow, PassKnows, Visible, Charged
<1> QED
    BY <1>1, <1>2, <1>3, <1>4, <1>5 DEF Next

\* The inductive invariant holds in every reachable state.
THEOREM Invariance == Spec => []IInv
BY InitInv, StepInv, PTL DEF Spec

\* Types, for any number of identifiers, sessions, submissions and faults.
THEOREM TypesHold == Spec => []TypeOK
<1>1. IInv => TypeOK
    BY DEF IInv
<1> QED
    BY <1>1, Invariance, PTL

\* Engine work is always charged to the submission that enqueued it: the
\* ledger entry commits with the queue item and cleanup_submissions removes it
\* only when the engine has nothing left.
THEOREM WorkCharged == Spec => []WorkIsCharged
<1>1. IInv => WorkIsCharged
    BY DEF IInv
<1> QED
    BY <1>1, Invariance, PTL

\* A finished row keeps its ledger entry until the row itself is gone, although
\* the row is looked up long before the entry is deleted.
THEOREM EvidenceKept == Spec => []EvidenceOutlivesRow
<1>1. IInv => EvidenceOutlivesRow
    BY DEF IInv
<1> QED
    BY <1>1, Invariance, PTL

-----------------------------------------------------------------------------
(* Quotas. *)

Rowed == {id \in Ids : rows[id].sub # 0}

\* A session that is inside df.start(), or whose transaction has rows of it,
\* holds the quota lock.
LockKept == \A c \in Sessions : stage[c] # "idle" \/ Own(c) # {} => locker = c

\* While it does, every row is one it counted, or the one it has claimed.
RowsCounted ==
    \A c \in Sessions :
        /\ stage[c] \in {"counting", "reserve", "claim"} => Rowed \subseteq seen[c]
        /\ stage[c] = "enqueue" => Rowed \subseteq seen[c] \cup cand[c]

\* And there is room for one more until it has claimed one.
RoomLeft ==
    \A c \in Sessions :
        /\ MaxInstances > 0 /\ stage[c] \in {"reserve", "claim"} =>
              Cardinality(Requested(c)) < MaxInstances
        /\ MaxInstances > 0 /\ stage[c] = "enqueue" =>
              Cardinality(Requested(c) \cup cand[c]) <= MaxInstances
        /\ MaxConcurrent > 0 /\ stage[c] \in {"reserve", "claim", "enqueue"} =>
              Cardinality(ActiveWork) < MaxConcurrent

\* The invariant of the quotas, on top of IInv.
QInv == LimitsOn => LockKept /\ RowsCounted /\ RoomLeft /\ QuotasHold

\* A part of a finite set is within the bounds of the set.
LEMMA PartsFit ==
    ASSUME NEW S, IsFiniteSet(S), NEW T, T \subseteq S
    PROVE  /\ Cardinality(S) \in Nat /\ Cardinality(T) \in Nat
           /\ Cardinality(T) <= Cardinality(S)
<1>1. IsFiniteSet(T) /\ Cardinality(T) <= Cardinality(S)
    BY FS_Subset
<1> QED
    BY <1>1, FS_CardinalityType

\* Where there is room, one more fits.
LEMMA OneMore ==
    ASSUME NEW n \in Nat, NEW max \in Nat, NEW m \in {n, n + 1}
    PROVE  /\ n < max => m <= max
           /\ ~(n >= max) => n < max
OBVIOUS

\* The sets that are counted are sets of identifiers.
LEMMA Countable ==
    ASSUME TypeOK
    PROVE  /\ IsFiniteSet(ActiveWork) /\ IsFiniteSet(Charged \cup Rowed)
           /\ \A c \in Sessions :
                IsFiniteSet(Requested(c)) /\ IsFiniteSet(Requested(c) \cup cand[c])
<1>1. /\ ActiveWork \subseteq Ids /\ Charged \cup Rowed \subseteq Ids
      /\ \A c \in Sessions :
            Requested(c) \subseteq Ids /\ Requested(c) \cup cand[c] \subseteq Ids
    BY DEF TypeOK, Requested, ActiveWork, Charged, Rowed
<1> QED
    BY <1>1, FS_Subset, BoundsAssumption

\* The bounds as PartsFit needs them.
LEMMA Bounded ==
    ASSUME TypeOK, QInv, LimitsOn
    PROVE  /\ MaxInstances > 0 => Cardinality(Charged \cup Rowed) <= MaxInstances
           /\ MaxConcurrent > 0 => Cardinality(ActiveWork) <= MaxConcurrent
BY DEF QInv, QuotasHold, Rowed

\* Without new rows, charges and work, nothing is exceeded that was not before.
LEMMA FewerFit ==
    ASSUME TypeOK, QInv, UNCHANGED <<stage, cand, seen>>,
           LimitsOn => LockKept',
           Charged' \subseteq Charged, Rowed' \subseteq Rowed, ActiveWork' \subseteq ActiveWork
    PROVE  QInv'
<1> SUFFICES ASSUME LimitsOn PROVE RowsCounted' /\ RoomLeft' /\ QuotasHold'
    BY DEF QInv, LimitsOn
<1>1. RowsCounted'
    BY DEF QInv, RowsCounted
<1>2. Cardinality(ActiveWork') <= Cardinality(ActiveWork)
      /\ Cardinality(ActiveWork') \in Nat /\ Cardinality(ActiveWork) \in Nat
    BY Countable, PartsFit
<1>3. RoomLeft'
  <2> SUFFICES ASSUME NEW c \in Sessions
               PROVE  /\ MaxInstances > 0 /\ stage[c] \in {"reserve", "claim"} =>
                            Cardinality(Requested(c)') < MaxInstances
                      /\ MaxInstances > 0 /\ stage[c] = "enqueue" =>
                            Cardinality((Requested(c) \cup cand[c])') <= MaxInstances
                      /\ MaxConcurrent > 0 /\ stage[c] \in {"reserve", "claim", "enqueue"} =>
                            Cardinality(ActiveWork') < MaxConcurrent
      BY DEF RoomLeft
  <2>1. /\ Requested(c)' \subseteq Requested(c)
        /\ (Requested(c) \cup cand[c])' \subseteq Requested(c) \cup cand[c]
      BY DEF Requested
  <2>2. /\ Cardinality(Requested(c)') <= Cardinality(Requested(c))
        /\ Cardinality(Requested(c)) \in Nat /\ Cardinality(Requested(c)') \in Nat
      BY <2>1, Countable, PartsFit
  <2>3. /\ Cardinality((Requested(c) \cup cand[c])') <= Cardinality(Requested(c) \cup cand[c])
        /\ Cardinality(Requested(c) \cup cand[c]) \in Nat
        /\ Cardinality((Requested(c) \cup cand[c])') \in Nat
      BY <2>1, Countable, PartsFit
  <2> QED
      BY <1>2, <2>2, <2>3, BoundsAssumption DEF QInv, RoomLeft
<1>4. QuotasHold'
  <2>1. (Charged \cup Rowed)' \subseteq Charged \cup Rowed
      OBVIOUS
  <2>2. /\ Cardinality((Charged \cup Rowed)') <= Cardinality(Charged \cup Rowed)
        /\ Cardinality((Charged \cup Rowed)') \in Nat /\ Cardinality(Charged \cup Rowed) \in Nat
      BY <2>1, Countable, PartsFit
  <2> QED
      BY <1>2, <2>2, Bounded, BoundsAssumption DEF QuotasHold, Rowed
<1> QED
    BY <1>1, <1>3, <1>4

\* The lock excludes: where one session is inside df.start(), or its
\* transaction has rows, every other one is idle and has none.
LEMMA OthersIdle ==
    ASSUME QInv, LimitsOn, NEW c \in Sessions, locker \in {Nobody, c},
           NEW d \in Sessions, d # c
    PROVE  stage[d] = "idle" /\ Own(d) = {}
BY OwnersAssumption DEF QInv, LockKept

\* A caller inside df.start() holds the lock before and after its step, or
\* gives it up when it has nothing to protect; nobody else has anything at stake.
LEMMA CallerAlone ==
    ASSUME IInv, QInv, LimitsOn, NEW c \in Sessions, locker \in {Nobody, c},
           \A d \in Sessions : d # c => stage'[d] = stage[d] /\ Own(d)' \subseteq Own(d),
           locker' = c \/ (stage'[c] = "idle" /\ Own(c)' = {})
    PROVE  /\ LockKept'
           /\ \A d \in Sessions : d # c => stage'[d] = "idle"
           /\ Rowed \subseteq Visible \cup Own(c)
<1>1. \A d \in Sessions : d # c => stage[d] = "idle" /\ Own(d) = {}
    BY OthersIdle
<1>2. Rowed \subseteq Visible \cup Own(c)
    BY <1>1, OwnersAssumption
    DEF IInv, TypeOK, RowRecord, Owners, Shapes, Rowed, Visible, Own
<1>3. \A d \in Sessions : d # c => stage'[d] = "idle" /\ Own(d)' = {}
    BY <1>1
<1> QED
    BY <1>2, <1>3 DEF LockKept

\* The rows are counted under the lock, so all of them are seen.
LEMMA BeginStartQ ==
    ASSUME IInv, QInv, NEW c \in Sessions, BeginStart(c)
    PROVE  QInv'
<1> SUFFICES ASSUME LimitsOn PROVE LockKept' /\ RowsCounted' /\ RoomLeft' /\ QuotasHold'
    BY DEF QInv, LimitsOn
<1>1. /\ locker \in {Nobody, c} /\ locker' = c
      /\ seen' = [seen EXCEPT ![c] = Visible \cup Own(c)]
      /\ stage' = [stage EXCEPT ![c] = "counting"]
      /\ UNCHANGED <<rows, ledger, work, cand>>
    BY DEF BeginStart
<1>2. /\ LockKept' /\ \A d \in Sessions : d # c => stage'[d] = "idle"
      /\ Rowed \subseteq Visible \cup Own(c)
    BY <1>1, CallerAlone DEF Own, IInv, TypeOK
<1>3. stage'[c] = "counting" /\ seen'[c] = Visible \cup Own(c) /\ Rowed' = Rowed
    BY <1>1 DEF IInv, TypeOK, Rowed
<1>4. RowsCounted' /\ RoomLeft'
    BY <1>2, <1>3 DEF RowsCounted, RoomLeft
<1> QED
    BY <1>1, <1>2, <1>4 DEF QInv, QuotasHold, Charged, ActiveWork

\* A caller that raises leaves no row of this call; the lock goes with the last
\* row of its transaction.
LEMMA UndoQ ==
    ASSUME IInv, QInv, NEW c \in Sessions, Undo(c), stage[c] # "idle"
    PROVE  QInv'
<1> SUFFICES ASSUME LimitsOn PROVE LockKept' /\ RowsCounted' /\ RoomLeft' /\ QuotasHold'
    BY DEF QInv, LimitsOn
<1>1. locker = c /\ stage' = [stage EXCEPT ![c] = "idle"]
    BY DEF QInv, LockKept, Undo
<1>2. locker' = c \/ (stage'[c] = "idle" /\ Own(c)' = {})
    BY <1>1 DEF Undo, Own, IInv, TypeOK
<1>3. \A d \in Sessions : Own(d)' \subseteq Own(d)
    BY OwnersAssumption DEF Undo, Own, NoRow, IInv, TypeOK
<1>4. LockKept' /\ \A d \in Sessions : stage'[d] = "idle"
    BY <1>1, <1>2, <1>3, CallerAlone DEF IInv, TypeOK
<1>5. Charged' \subseteq Charged /\ Rowed' \subseteq Rowed /\ ActiveWork' = ActiveWork
    BY OwnersAssumption
    DEF Undo, Charged, Rowed, ActiveWork, NoEntry, NoRow, IInv, TypeOK
<1>6. Cardinality((Charged \cup Rowed)') <= Cardinality(Charged \cup Rowed)
      /\ Cardinality((Charged \cup Rowed)') \in Nat /\ Cardinality(Charged \cup Rowed) \in Nat
    BY <1>5, Countable, PartsFit DEF IInv
<1>7. QuotasHold'
    BY <1>5, <1>6, Bounded, BoundsAssumption DEF QuotasHold, Rowed, IInv
<1> QED
    BY <1>4, <1>7 DEF RowsCounted, RoomLeft

\* All unfinished work is charged, so the check counts all of it.
LEMMA CheckLimitsQ ==
    ASSUME IInv, QInv, NEW c \in Sessions, CheckLimits(c)
    PROVE  QInv'
<1>1. CASE Undo(c)
    BY <1>1, UndoQ DEF CheckLimits
<1>2. CASE /\ ~(MaxInstances > 0 /\ Cardinality(Requested(c)) >= MaxInstances)
           /\ ~(MaxConcurrent > 0 /\ Cardinality(Requested(c) \cap ActiveWork) >= MaxConcurrent)
           /\ stage' = [stage EXCEPT ![c] = "reserve"]
           /\ UNCHANGED <<cand, seen, locker, rows, ledger, work>>
  <2> SUFFICES ASSUME LimitsOn PROVE LockKept' /\ RowsCounted' /\ RoomLeft' /\ QuotasHold'
      BY DEF QInv, LimitsOn
  <2>1. stage[c] = "counting" /\ locker = c
      BY DEF CheckLimits, QInv, LockKept
  <2>2. LockKept' /\ \A d \in Sessions : d # c => stage'[d] = "idle"
      BY <1>2, <2>1, CallerAlone DEF IInv, TypeOK, Own
  <2>3. Requested(c) \cap ActiveWork = ActiveWork
      BY DEF IInv, Shapes, WorkIsCharged, ActiveWork, Charged, Requested
  <2>4. Cardinality(Requested(c)) \in Nat /\ Cardinality(ActiveWork) \in Nat
      BY Countable, FS_CardinalityType DEF IInv
  <2>5. /\ MaxInstances > 0 => Cardinality(Requested(c)) < MaxInstances
        /\ MaxConcurrent > 0 => Cardinality(ActiveWork) < MaxConcurrent
      BY <1>2, <2>3, <2>4, OneMore, BoundsAssumption
  <2>6. stage'[c] = "reserve"
      BY <1>2 DEF IInv, TypeOK
  <2>7. UNCHANGED <<Requested(c), ActiveWork, Charged, Rowed>>
      BY <1>2 DEF Requested, ActiveWork, Charged, Rowed
  <2>8. RowsCounted'
      BY <1>2, <2>1, <2>2, <2>6, <2>7 DEF QInv, RowsCounted
  <2>9. RoomLeft'
      BY <2>2, <2>5, <2>6, <2>7 DEF RoomLeft
  <2> QED
      BY <2>2, <2>7, <2>8, <2>9 DEF QInv, QuotasHold, Rowed
<1> QED
    BY <1>1, <1>2 DEF CheckLimits

\* An uncommitted reservation is not charged yet.
LEMMA ReserveQ ==
    ASSUME IInv, QInv, NEW c \in Sessions, NEW id \in Ids, Reserve(c, id)
    PROVE  QInv'
<1> SUFFICES ASSUME LimitsOn PROVE LockKept' /\ RowsCounted' /\ RoomLeft' /\ QuotasHold'
    BY DEF QInv, LimitsOn
<1>1. /\ stage[c] = "reserve" /\ locker = c
      /\ stage' = [stage EXCEPT ![c] = "claim"]
      /\ UNCHANGED <<seen, locker, rows, work>>
    BY DEF Reserve, QInv, LockKept
<1>2. LockKept' /\ \A d \in Sessions : d # c => stage'[d] = "idle"
    BY <1>1, CallerAlone DEF IInv, TypeOK, Own
<1>3. Charged' = Charged
    BY OwnersAssumption DEF Reserve, Charged, IInv, TypeOK
<1>4. UNCHANGED <<Requested(c), ActiveWork, Rowed>>
    BY <1>1, <1>3 DEF Requested, ActiveWork, Rowed
<1>5. stage'[c] = "claim"
    BY <1>1 DEF IInv, TypeOK
<1>6. RowsCounted' /\ RoomLeft'
    BY <1>1, <1>2, <1>4, <1>5 DEF QInv, RowsCounted, RoomLeft
<1> QED
    BY <1>2, <1>3, <1>4, <1>6 DEF QInv, QuotasHold, Rowed

\* The claimed row is one more than were counted.
LEMMA ClaimQ ==
    ASSUME IInv, QInv, NEW c \in Sessions, NEW id \in Ids, Claim(c, id)
    PROVE  QInv'
<1> SUFFICES ASSUME LimitsOn PROVE LockKept' /\ RowsCounted' /\ RoomLeft' /\ QuotasHold'
    BY DEF QInv, LimitsOn
<1>0. /\ stage[c] = "claim" /\ id \in cand[c] /\ locker = c
      /\ UNCHANGED <<seen, locker, work>>
    BY DEF Claim, QInv, LockKept
<1>1. cand[c] = {id} /\ ledger[id].owner = c
    BY <1>0 DEF IInv, Reservations
<1>2. CASE /\ rows' = [rows EXCEPT ![id] = [sub |-> ledger[id].sub, owner |-> c,
                                            status |-> "pending", aged |-> FALSE]]
           /\ stage' = [stage EXCEPT ![c] = "enqueue"]
           /\ UNCHANGED <<cand, ledger>>
  <2>1. LockKept' /\ \A d \in Sessions : d # c => stage'[d] = "idle"
      BY <1>0, <1>2, CallerAlone DEF IInv, TypeOK, Own
  <2>2. stage'[c] = "enqueue"
      BY <1>2 DEF IInv, TypeOK
  <2>3. Rowed' \subseteq Rowed \cup {id}
      BY <1>2 DEF Rowed, IInv, TypeOK
  <2>4. UNCHANGED <<Requested(c), ActiveWork, Charged, seen[c], cand[c]>>
      BY <1>0, <1>2 DEF Requested, ActiveWork, Charged
  <2>5. RowsCounted'
      BY <1>0, <1>1, <2>1, <2>2, <2>3, <2>4 DEF QInv, RowsCounted
  <2>6. MaxInstances > 0 => Cardinality(Requested(c) \cup {id}) <= MaxInstances
    <3>1. IsFiniteSet(Requested(c)) /\ Cardinality(Requested(c)) \in Nat
        BY Countable, FS_CardinalityType DEF IInv
    <3>2. Cardinality(Requested(c) \cup {id}) \in {Cardinality(Requested(c)),
                                                   Cardinality(Requested(c)) + 1}
        BY <3>1, FS_AddElement
    <3> QED
        BY <1>0, <3>1, <3>2, OneMore, BoundsAssumption DEF QInv, RoomLeft
  <2>7. RoomLeft'
      BY <1>0, <1>1, <2>1, <2>2, <2>4, <2>6 DEF QInv, RoomLeft
  <2>8. QuotasHold'
    <3>1. (Charged \cup Rowed)' \subseteq Requested(c) \cup {id}
        BY <1>0, <2>3, <2>4 DEF QInv, RowsCounted, Requested
    <3>2. /\ Cardinality((Charged \cup Rowed)') <= Cardinality(Requested(c) \cup {id})
          /\ Cardinality((Charged \cup Rowed)') \in Nat
          /\ Cardinality(Requested(c) \cup {id}) \in Nat
        BY <1>1, <3>1, Countable, PartsFit DEF IInv
    <3> QED
        BY <2>4, <2>6, <3>2, BoundsAssumption DEF QInv, QuotasHold, Rowed
  <2> QED
      BY <2>1, <2>5, <2>7, <2>8
<1>3. CASE /\ ledger' = [ledger EXCEPT ![id] = NoEntry]
           /\ stage' = [stage EXCEPT ![c] = "reserve"]
           /\ UNCHANGED rows
  <2>1. LockKept' /\ \A d \in Sessions : d # c => stage'[d] = "idle"
      BY <1>0, <1>3, CallerAlone DEF IInv, TypeOK, Own
  <2>2. stage'[c] = "reserve"
      BY <1>3 DEF IInv, TypeOK
  <2>3. Charged' = Charged
      BY <1>1, <1>3, OwnersAssumption DEF Charged, NoEntry, IInv, TypeOK
  <2>4. UNCHANGED <<Requested(c), ActiveWork, Rowed, seen[c]>>
      BY <1>0, <1>3, <2>3 DEF Requested, ActiveWork, Rowed
  <2>5. RowsCounted' /\ RoomLeft'
      BY <1>0, <2>1, <2>2, <2>4 DEF QInv, RowsCounted, RoomLeft
  <2> QED
      BY <2>1, <2>3, <2>4, <2>5 DEF QInv, QuotasHold, Rowed
<1> QED
    BY <1>2, <1>3 DEF Claim

\* The queued work is one more than was unfinished, the entry is the row's.
LEMMA EnqueueQ ==
    ASSUME IInv, QInv, NEW c \in Sessions, NEW id \in Ids, Enqueue(c, id)
    PROVE  QInv'
<1> SUFFICES ASSUME LimitsOn PROVE LockKept' /\ RowsCounted' /\ RoomLeft' /\ QuotasHold'
    BY DEF QInv, LimitsOn
<1>0. /\ stage[c] = "enqueue" /\ id \in cand[c] /\ locker = c
      /\ stage' = [stage EXCEPT ![c] = "idle"]
      /\ UNCHANGED <<locker, rows>>
    BY DEF Enqueue, QInv, LockKept
<1>1. cand[c] = {id} /\ id \in Rowed
    BY <1>0, OwnersAssumption DEF IInv, TypeOK, RowRecord, Reservations, Shapes, Rowed
<1>2. LockKept' /\ \A d \in Sessions : stage'[d] = "idle"
    BY <1>0, CallerAlone DEF IInv, TypeOK, Own
<1>3. RowsCounted' /\ RoomLeft'
    BY <1>2 DEF RowsCounted, RoomLeft
<1>4. Charged' \subseteq Charged \cup {id}
    BY DEF Enqueue, Charged, IInv, TypeOK
<1>5. ActiveWork' \subseteq ActiveWork \cup {id}
    BY DEF Enqueue, ActiveWork, IInv, TypeOK
<1>6. MaxInstances > 0 => Cardinality((Charged \cup Rowed)') <= MaxInstances
  <2>1. (Charged \cup Rowed)' \subseteq Charged \cup Rowed
      BY <1>0, <1>1, <1>4 DEF Rowed
  <2>2. /\ Cardinality((Charged \cup Rowed)') <= Cardinality(Charged \cup Rowed)
        /\ Cardinality((Charged \cup Rowed)') \in Nat /\ Cardinality(Charged \cup Rowed) \in Nat
      BY <2>1, Countable, PartsFit DEF IInv
  <2> QED
      BY <2>2, Bounded, BoundsAssumption DEF IInv
<1>7. MaxConcurrent > 0 => Cardinality(ActiveWork') <= MaxConcurrent
  <2>1. IsFiniteSet(ActiveWork) /\ Cardinality(ActiveWork) \in Nat
      BY Countable, FS_CardinalityType DEF IInv
  <2>2. /\ IsFiniteSet(ActiveWork \cup {id})
        /\ Cardinality(ActiveWork \cup {id}) \in {Cardinality(ActiveWork),
                                                  Cardinality(ActiveWork) + 1}
      BY <2>1, FS_AddElement
  <2>3. /\ Cardinality(ActiveWork') <= Cardinality(ActiveWork \cup {id})
        /\ Cardinality(ActiveWork') \in Nat
      BY <1>5, <2>2, PartsFit
  <2>4. MaxConcurrent > 0 => Cardinality(ActiveWork) < MaxConcurrent
      BY <1>0 DEF QInv, RoomLeft
  <2>5. MaxConcurrent > 0 => Cardinality(ActiveWork \cup {id}) <= MaxConcurrent
      BY <2>1, <2>2, <2>4, OneMore, BoundsAssumption
  <2> QED
      BY <2>1, <2>2, <2>3, <2>5, BoundsAssumption
<1> QED
    BY <1>2, <1>3, <1>6, <1>7 DEF QuotasHold, Rowed

\* A commit changes who owns the rows, not which there are.
LEMMA CommitQ ==
    ASSUME IInv, QInv, NEW c \in Sessions, Commit(c)
    PROVE  QInv'
<1>1. LimitsOn => LockKept'
  <2> SUFFICES ASSUME LimitsOn PROVE LockKept'
      OBVIOUS
  <2>1. locker = c
      BY DEF Commit, QInv, LockKept
  <2>2. Own(c)' = {} /\ \A d \in Sessions : Own(d)' \subseteq Own(d)
      BY OwnersAssumption DEF Commit, Own, IInv, TypeOK, RowRecord
  <2> QED
      BY <2>1, <2>2, CallerAlone DEF Commit
<1>2. Charged' = Charged /\ ActiveWork' = ActiveWork
    BY DEF Commit, Charged, ActiveWork
<1>3. Rowed' = Rowed
    BY DEF Commit, Rowed, IInv, TypeOK, RowRecord
<1> QED
    BY <1>1, <1>2, <1>3, FewerFit DEF Commit, IInv

\* A rollback removes rows; the lock is kept while one is left.
LEMMA RollbackQ ==
    ASSUME IInv, QInv, NEW c \in Sessions, Rollback(c)
    PROVE  QInv'
<1>0. PICK gone \in SUBSET Own(c) :
        /\ gone # {}
        /\ rows' = [id \in Ids |-> IF id \in gone THEN NoRow ELSE rows[id]]
        /\ locker' = IF locker = c /\ gone = Own(c) THEN Nobody ELSE locker
    BY DEF Rollback
<1>1. LimitsOn => LockKept'
  <2> SUFFICES ASSUME LimitsOn PROVE LockKept'
      OBVIOUS
  <2>1. locker = c
      BY <1>0 DEF QInv, LockKept
  <2>2. \A d \in Sessions : Own(d)' \subseteq Own(d)
      BY <1>0, OwnersAssumption DEF Own, NoRow, IInv, TypeOK
  <2>3. gone = Own(c) => Own(c)' = {}
      BY <1>0, OwnersAssumption DEF Own, NoRow, IInv, TypeOK
  <2> QED
      BY <1>0, <2>1, <2>2, <2>3, CallerAlone DEF Rollback
<1>2. Charged' = Charged /\ ActiveWork' = ActiveWork
    BY DEF Rollback, Charged, ActiveWork
<1>3. Rowed' \subseteq Rowed
    BY <1>0 DEF Rowed, NoRow, IInv, TypeOK
<1> QED
    BY <1>1, <1>2, <1>3, FewerFit DEF Rollback, IInv

\* Outside df.start() nothing is added.
LEMMA OthersQ ==
    ASSUME IInv, QInv, UNCHANGED calls,
           \A d \in Sessions : Own(d)' \subseteq Own(d),
           Charged' \subseteq Charged, Rowed' \subseteq Rowed, ActiveWork' \subseteq ActiveWork
    PROVE  QInv'
<1>1. LimitsOn => LockKept'
    BY DEF QInv, LockKept, calls
<1> QED
    BY <1>1, FewerFit DEF IInv, calls

\* Cancellation, the engine and time.
LEMMA EngineQ ==
    ASSUME IInv, QInv, NEW id \in Ids,
           Cancel(id) \/ EngineStep(id) \/ AgeRow(id) \/ AgeWork(id)
    PROVE  QInv'
<1>1. UNCHANGED <<calls, ledger>>
    BY DEF Cancel, EngineStep, Dispatch, Finalize, Ends, AgeRow, AgeWork
<1>2. \A i \in Ids : rows'[i].owner = rows[i].owner /\ rows'[i].sub = rows[i].sub
    BY DEF Cancel, EngineStep, Dispatch, Finalize, Ends, AgeRow, AgeWork, IInv, TypeOK, RowRecord
<1>3. ActiveWork' \subseteq ActiveWork
    BY DEF Cancel, EngineStep, Dispatch, Finalize, Ends, AgeRow, AgeWork, IInv, TypeOK,
           WorkRecord, ActiveWork
<1>4. Charged' = Charged /\ Rowed' = Rowed /\ \A d \in Sessions : Own(d)' = Own(d)
    BY <1>1, <1>2 DEF Charged, Rowed, Own
<1> QED
    BY <1>1, <1>3, <1>4, OthersQ

\* The maintenance pass only removes.
LEMMA PassQ ==
    ASSUME IInv, QInv, PassStep \/ PassFault
    PROVE  QInv'
<1> USE DEF PassStep, PassFault, SelectExpired, RetireOne, RetireDone, DeleteExpired,
            OrphanCandidates, SelectOrphans, DeleteOrphans, ScanLedger, WithoutMetadata, Uncharge
<1>1. UNCHANGED calls
    OBVIOUS
<1>2. \/ UNCHANGED rows
      \/ rows' = [id \in Ids |-> IF id \in picked \cap Visible THEN NoRow ELSE rows[id]]
    OBVIOUS
<1>3. \/ UNCHANGED ledger
      \/ ledger' = [id \in Ids |-> IF id \in picked \cap Charged /\ NoWorkLeft(id)
                                   THEN NoEntry ELSE ledger[id]]
    OBVIOUS
<1>4. \/ UNCHANGED work
      \/ \E id \in Ids : work' = [work EXCEPT ![id] = NoWork]
      \/ work' = [id \in Ids |-> IF id \in picked /\ Ended(id) /\ work[id].aged
                                 THEN NoWork ELSE work[id]]
    OBVIOUS
<1>5. Rowed' \subseteq Rowed /\ \A d \in Sessions : Own(d)' \subseteq Own(d)
    BY ONLY <1>2, IInv, OwnersAssumption DEF Rowed, Own, NoRow, IInv, TypeOK
<1>6. Charged' \subseteq Charged
    BY ONLY <1>3, IInv, OwnersAssumption DEF Charged, NoEntry, IInv, TypeOK
<1>7. ActiveWork' \subseteq ActiveWork
    BY ONLY <1>4, IInv DEF ActiveWork, NoWork, IInv, TypeOK
<1> QED
    BY <1>1, <1>5, <1>6, <1>7, OthersQ

\* No step exceeds a quota.
LEMMA StepQ == IInv /\ QInv /\ [Next]_vars => QInv'
<1> SUFFICES ASSUME IInv, QInv, [Next]_vars PROVE QInv'
    OBVIOUS
<1>1. ASSUME NEW c \in Sessions, SessionStep(c) PROVE QInv'
  <2>1. CASE BeginStart(c)
      BY <2>1, BeginStartQ
  <2>2. CASE CheckLimits(c)
      BY <2>2, CheckLimitsQ
  <2>3. CASE StartFails(c)
      BY <2>3, UndoQ DEF StartFails
  <2>4. ASSUME NEW id \in Ids, Reserve(c, id) PROVE QInv'
      BY <2>4, ReserveQ
  <2>5. ASSUME NEW id \in Ids, Claim(c, id) PROVE QInv'
      BY <2>5, ClaimQ
  <2>6. ASSUME NEW id \in Ids, Enqueue(c, id) PROVE QInv'
      BY <2>6, EnqueueQ
  <2>7. CASE Commit(c)
      BY <2>7, CommitQ
  <2>8. CASE Rollback(c)
      BY <2>8, RollbackQ
  <2> QED
      BY <1>1, <2>1, <2>2, <2>3, <2>4, <2>5, <2>6, <2>7, <2>8 DEF SessionStep
<1>2. CASE UNCHANGED vars
  <2>1. /\ UNCHANGED calls /\ \A d \in Sessions : Own(d)' = Own(d)
        /\ UNCHANGED <<Charged, Rowed, ActiveWork>>
      BY <1>2 DEF vars, Charged, Rowed, ActiveWork, Own
  <2> QED
      BY <2>1, OthersQ
<1> QED
    BY <1>1, <1>2, EngineQ, PassQ DEF Next

\* The quotas hold for any number of sessions and identifiers and any limits:
\* the lock taken before counting keeps what was counted true until the row is
\* claimed and its work is queued.
THEOREM QuotasAreKept == Spec => []QuotasHold
<1>1. Init => QInv
  <2>1. /\ Init => Charged = {} /\ Rowed = {} /\ ActiveWork = {}
        /\ Init => \A c \in Sessions : Own(c) = {} /\ stage[c] = "idle"
      BY OwnersAssumption
      DEF Init, Charged, Rowed, ActiveWork, Own, NoRow, NoEntry, NoWork
  <2>2. Init => QuotasHold
      BY <2>1, FS_EmptySet, BoundsAssumption DEF QuotasHold, Rowed
  <2> QED
      BY <2>1, <2>2 DEF QInv, LockKept, RowsCounted, RoomLeft
<1>2. IInv /\ QInv => QuotasHold
  <2> SUFFICES ASSUME IInv, QInv PROVE QuotasHold
      OBVIOUS
  <2>1. CASE LimitsOn
      BY <2>1 DEF QInv
  <2>2. CASE ~LimitsOn
      BY <2>2 DEF LimitsOn, QuotasHold
  <2> QED
      BY <2>1, <2>2
<1> QED
    BY <1>1, <1>2, StepQ, Invariance, PTL DEF Spec

---------------------------------------------------------------------------
(* Submissions implements SubmissionIds, and retention leaves running      *)
(* instances alone.                                                        *)

\* What a step does to what an identifier names, in terms of the three stores.
Stays(id) == Holder(id)' = Holder(id) /\ Phase(id)' = Phase(id)
Claims(id) ==
    /\ Holder(id) = 0 /\ Phase(id) = "free"
    /\ Holder(id)' \in Subs /\ Phase(id)' = "claimed"
    /\ \A other \in Ids : Holder(other) # Holder(id)'
Enqueues(id) == Holder(id)' = Holder(id) /\ Phase(id) = "claimed" /\ Phase(id)' = "active"
Retires(id) == Holder(id)' = Holder(id) /\ Phase(id) = "active" /\ Phase(id)' = "over"
Frees(id) == Phase(id) \in {"claimed", "over"} /\ Holder(id)' = 0 /\ Phase(id)' = "free"
IdStep(id) == Stays(id) \/ Claims(id) \/ Enqueues(id) \/ Retires(id) \/ Frees(id)

\* Steps of the identifier are steps of the abstract specification.
LEMMA IdStepRefines ==
    ASSUME \A id \in Ids : IdStep(id)
    PROVE  SI!Next
<1> SUFFICES ASSUME NEW id \in Ids PROVE SI!Step(id)
    BY DEF SI!Next
<1> DEFINE name == [i \in Ids |-> [sub |-> Holder(i), phase |-> Phase(i)]]
<1> USE DEF SI!Step, SI!Claimed, SI!Moves, SI!Released, SI!Free
<1>1. CASE Stays(id)
    BY <1>1 DEF Stays
<1>2. CASE Claims(id)
    BY <1>2 DEF Claims
<1>3. CASE Enqueues(id)
    BY <1>3 DEF Enqueues
<1>4. CASE Retires(id)
    BY <1>4 DEF Retires
<1>5. CASE Frees(id)
    BY <1>5 DEF Frees
<1> QED
    BY <1>1, <1>2, <1>3, <1>4, <1>5 DEF IdStep

\* An identifier whose owners and numbers do not change still names the same.
LEMMA Untouched ==
    ASSUME NEW id \in Ids,
           rows'[id].sub = rows[id].sub, work'[id].sub = work[id].sub,
           ledger'[id] = ledger[id]
    PROVE  Stays(id)
BY DEF Stays, Holder, Phase

\* df.start() gives up: the claimed identifier is free again.
LEMMA UndoSteps ==
    ASSUME IInv, NEW c \in Sessions, Undo(c), NEW id \in Ids
    PROVE  IdStep(id)
<1> USE OwnersAssumption DEF IInv, Undo
<1>1. CASE id \notin cand[c]
    BY <1>1, Untouched DEF Reservations, IdStep
<1>2. CASE id \in cand[c] /\ stage[c] = "claim"
    BY <1>2 DEF Reservations, IdStep, Stays, Holder, Phase, NoEntry
<1>3. CASE id \in cand[c] /\ stage[c] = "enqueue"
  <2>1. ledger[id].owner = c /\ rows[id].owner = c /\ rows[id].sub = ledger[id].sub
      BY <1>3 DEF Reservations
  <2>2. rows[id].sub # 0 /\ work[id].sub = 0
      BY <2>1 DEF Shapes, WorkIsCharged, Charged
  <2>3. Phase(id) = "claimed"
      BY <2>1, <2>2 DEF Phase, Holder
  <2>4. ledger'[id] = NoEntry /\ rows'[id] = NoRow
      BY <1>3, <2>1
  <2>5. Holder(id)' = 0 /\ Phase(id)' = "free"
      BY <2>4 DEF Holder, Phase, NoEntry, NoRow
  <2> QED
      BY <2>3, <2>5 DEF IdStep, Frees
<1> QED
    BY <1>1, <1>2, <1>3 DEF Reservations

\* A reservation names nothing yet: its number is fresh.
LEMMA ReserveSteps ==
    ASSUME IInv, NEW c \in Sessions, NEW res \in Ids, Reserve(c, res), NEW id \in Ids
    PROVE  IdStep(id)
<1> USE OwnersAssumption DEF IInv, Reserve
<1>1. CASE id # res
    BY <1>1, Untouched DEF TypeOK, IdStep
<1>2. CASE id = res
  <2>1. /\ ledger'[id] = [sub |-> next, owner |-> c]
        /\ ledger[id].owner = Nobody /\ rows' = rows /\ work' = work
      BY <1>2 DEF TypeOK
  <2>2. rows[id].sub # next
      BY BoundsAssumption DEF TypeOK, RowRecord, Numbers
  <2> QED
      BY <2>1, <2>2 DEF IdStep, Stays, Holder, Phase
<1> QED
    BY <1>1, <1>2

\* The row gives the free identifier its submission, or belongs to another one.
LEMMA ClaimSteps ==
    ASSUME IInv, NEW c \in Sessions, NEW res \in Ids, Claim(c, res), NEW id \in Ids
    PROVE  IdStep(id)
<1> USE OwnersAssumption DEF IInv
<1>0. /\ stage[c] = "claim" /\ res \in cand[c] /\ work' = work
      /\ ledger[res].owner = c /\ rows[res].sub # ledger[res].sub /\ work[res].sub = 0
    BY DEF Claim, Reservations, WorkIsCharged, Charged
<1>1. CASE id # res
    BY <1>1, Untouched DEF Claim, TypeOK, IdStep
<1>2. CASE id = res /\ rows[id].owner = Nobody
  <2>1. /\ rows'[id].sub = ledger[id].sub /\ rows'[id].owner = c
        /\ ledger' = ledger
      BY <1>2 DEF Claim, TypeOK
  <2>2. rows[id].sub = 0 /\ Holder(id) = 0 /\ Phase(id) = "free"
      BY <1>0, <1>2 DEF Shapes, Holder, Phase
  <2>3. ledger[id].sub \in Subs
      BY <1>0, <1>2, BoundsAssumption DEF Shapes, TypeOK, EntryRecord, Subs
  <2>4. Holder(id)' = ledger[id].sub /\ Phase(id)' = "claimed"
      BY <1>0, <1>2, <2>1, <2>3, BoundsAssumption DEF Holder, Phase, Subs
  <2>5. \A other \in Ids : Holder(other) # ledger[id].sub
      BY <2>2, <2>3, BoundsAssumption DEF Numbers, Holder, Subs
  <2> QED
      BY <2>2, <2>3, <2>4, <2>5 DEF IdStep, Claims
<1>3. CASE id = res /\ rows[id].owner # Nobody
  <2>1. rows' = rows /\ ledger'[id] = NoEntry
      BY <1>3 DEF Claim, TypeOK
  <2> QED
      BY <1>0, <1>3, <2>1 DEF IdStep, Stays, Holder, Phase, NoEntry
<1> QED
    BY <1>1, <1>2, <1>3

\* The claimed submission's work is enqueued.
LEMMA EnqueueSteps ==
    ASSUME IInv, NEW c \in Sessions, NEW res \in Ids, Enqueue(c, res), NEW id \in Ids
    PROVE  IdStep(id)
<1> USE OwnersAssumption DEF IInv
<1>1. CASE id # res
  <2>1. rows' = rows /\ ledger'[id] = ledger[id] /\ work'[id] = work[id]
      BY <1>1 DEF Enqueue, TypeOK
  <2> QED
      BY <2>1, Untouched DEF IdStep
<1>2. CASE id = res
  <2>1. ledger[id].owner = c /\ rows[id].sub = ledger[id].sub /\ ledger[id].sub # 0
      BY <1>2 DEF Enqueue, Reservations, Shapes
  <2>2. work[id].sub = 0
      BY <2>1 DEF WorkIsCharged, Charged
  <2>3. /\ ledger'[id].owner = Committed /\ ledger'[id].sub = ledger[id].sub
        /\ work'[id].sub = ledger[id].sub /\ rows' = rows
      BY <1>2, <2>2 DEF Enqueue, TypeOK, EntryRecord
  <2> QED
      BY <2>1, <2>2, <2>3 DEF IdStep, Enqueues, Holder, Phase
<1> QED
    BY <1>1, <1>2

\* A row that no session is enqueueing goes: its identifier stays with the
\* ledger entry, or is free.
LEMMA RowRemoved ==
    ASSUME IInv, NEW id \in Ids,
           rows'[id] = NoRow, ledger'[id] = ledger[id], work'[id] = work[id],
           \A c \in Sessions : id \in cand[c] /\ stage[c] = "enqueue" => rows[id].owner # c
    PROVE  IdStep(id)
<1> USE OwnersAssumption DEF IInv
<1>1. ledger[id].owner \in Sessions => ledger[id].sub # rows[id].sub
    BY DEF Reservations
<1>2. ledger[id].owner # Committed => work[id].sub = 0
    BY DEF WorkIsCharged, Charged
<1>3. CASE ledger[id].owner = Committed
    BY <1>3 DEF IdStep, Stays, Holder, Phase
<1>4. CASE ledger[id].owner # Committed /\ rows[id].sub = 0
  <2>1. Holder(id) = 0 /\ Phase(id) = "free"
      BY <1>4 DEF Holder, Phase
  <2>2. Holder(id)' = 0 /\ Phase(id)' = "free"
      BY <1>4 DEF Holder, Phase, NoRow
  <2> QED
      BY <2>1, <2>2 DEF IdStep, Stays
<1>5. CASE ledger[id].owner # Committed /\ rows[id].sub # 0
  <2>1. Phase(id) = "over"
      BY <1>1, <1>2, <1>5 DEF Holder, Phase
  <2>2. Holder(id)' = 0 /\ Phase(id)' = "free"
      BY <1>5 DEF Holder, Phase, NoRow
  <2> QED
      BY <2>1, <2>2 DEF IdStep, Frees
<1> QED
    BY <1>3, <1>4, <1>5

\* The engine's record goes: the work is over.
LEMMA WorkRemoved ==
    ASSUME IInv, NEW id \in Ids,
           work'[id] = NoWork, ledger'[id] = ledger[id], rows'[id] = rows[id]
    PROVE  IdStep(id)
<1> USE OwnersAssumption DEF IInv
<1>1. CASE work[id].sub = 0
    BY <1>1 DEF IdStep, Stays, Holder, Phase, NoWork
<1>2. CASE work[id].sub # 0
    BY <1>2 DEF WorkIsCharged, Charged, IdStep, Retires, Holder, Phase, NoWork
<1> QED
    BY <1>1, <1>2

\* Commit and rollback of the caller.
LEMMA TransactionSteps ==
    ASSUME IInv, NEW c \in Sessions, Commit(c) \/ Rollback(c), NEW id \in Ids
    PROVE  IdStep(id)
<1> USE OwnersAssumption DEF IInv
<1>1. CASE Commit(c)
    BY <1>1, Untouched DEF Commit, TypeOK, RowRecord, IdStep
<1>2. CASE Rollback(c)
  <2> PICK gone \in SUBSET Own(c) :
        rows' = [i \in Ids |-> IF i \in gone THEN NoRow ELSE rows[i]]
      BY <1>2 DEF Rollback
  <2>0. stage[c] = "idle" /\ ledger' = ledger /\ work' = work
      BY <1>2 DEF Rollback
  <2>1. CASE id \notin gone
      BY <2>0, <2>1, Untouched DEF IdStep
  <2>2. CASE id \in gone
    <3>1. rows'[id] = NoRow /\ rows[id].owner = c
        BY <2>2 DEF Own
    <3>2. \A s \in Sessions : id \in cand[s] /\ stage[s] = "enqueue" => rows[id].owner # s
        BY <2>0, <3>1
    <3> QED
        BY <2>0, <3>1, <3>2, RowRemoved
  <2> QED
      BY <2>1, <2>2
<1> QED
    BY <1>1, <1>2

\* Steps that neither move an owner nor hand out or remove a number.
LEMMA QuietSteps ==
    ASSUME IInv, NEW i \in Ids,
           Cancel(i) \/ EngineStep(i) \/ AgeRow(i) \/ AgeWork(i),
           NEW id \in Ids
    PROVE  /\ rows'[id].sub = rows[id].sub /\ rows'[id].owner = rows[id].owner
           /\ work'[id].sub = work[id].sub /\ ledger' = ledger
<1> USE DEF IInv, TypeOK, RowRecord, WorkRecord
<1>1. CASE Cancel(i)
  <2>1. rows'[id].sub = rows[id].sub /\ rows'[id].owner = rows[id].owner
      BY <1>1 DEF Cancel
  <2>2. work'[id].sub = work[id].sub
    <3>1. CASE work' = work
        BY <3>1
    <3>2. CASE work' = [work EXCEPT ![i].cancelled = TRUE]
        BY <3>2
    <3> QED
        BY <1>1, <3>1, <3>2 DEF Cancel
  <2> QED
      BY <1>1, <2>1, <2>2 DEF Cancel
<1>2. CASE Dispatch(i)
    BY <1>2 DEF Dispatch
<1>3. CASE Finalize(i)
    BY <1>3 DEF Finalize
<1>4. CASE Ends(i)
    BY <1>4 DEF Ends
<1>5. CASE AgeRow(i)
    BY <1>5 DEF AgeRow
<1>6. CASE AgeWork(i)
    BY <1>6 DEF AgeWork
<1> QED
    BY <1>1, <1>2, <1>3, <1>4, <1>5, <1>6 DEF EngineStep

\* The maintenance pass: engine record, row and ledger entry go in this order.
LEMMA PassSteps ==
    ASSUME IInv, PassStep \/ PassFault, NEW id \in Ids
    PROVE  IdStep(id)
<1> USE OwnersAssumption DEF IInv
<1>1. CASE UNCHANGED <<rows, ledger, work>>
    BY <1>1, Untouched DEF IdStep
<1>2. ASSUME NEW i \in Ids, RetireOne(i) PROVE IdStep(id)
  <2>1. rows' = rows /\ ledger' = ledger /\ (work'[id] = NoWork \/ work'[id] = work[id])
      BY <1>2 DEF RetireOne, TypeOK
  <2> QED
      BY <2>1, Untouched, WorkRemoved DEF IdStep
<1>3. CASE DeleteOrphans
  <2>1. rows' = rows /\ ledger' = ledger /\ (work'[id] = NoWork \/ work'[id] = work[id])
      BY <1>3 DEF DeleteOrphans
  <2> QED
      BY <2>1, Untouched, WorkRemoved DEF IdStep
<1>4. CASE DeleteExpired
  <2>1. CASE id \notin picked \cap Visible
      BY <1>4, <2>1, Untouched DEF DeleteExpired, IdStep
  <2>2. CASE id \in picked \cap Visible
    <3>1. rows[id].owner = Committed
        BY <2>2 DEF Visible
    <3>2. rows'[id] = NoRow /\ ledger' = ledger /\ work' = work
        BY <1>4, <2>2 DEF DeleteExpired
    <3> QED
        BY <3>1, <3>2, RowRemoved
  <2> QED
      BY <2>1, <2>2
<1>5. CASE Uncharge
  <2>0. rows' = rows /\ work' = work
      BY <1>5 DEF Uncharge
  <2>1. CASE ledger'[id] = ledger[id]
      BY <2>0, <2>1, Untouched DEF IdStep
  <2>2. CASE id \in picked \cap Charged /\ NoWorkLeft(id) /\ ledger'[id] = NoEntry
    <3>1. ledger[id].owner = Committed /\ ledger[id].sub # 0 /\ work[id].sub = 0
        BY <2>2 DEF Charged, NoWorkLeft, Shapes
    <3>2. Phase(id) = "over" /\ Holder(id) = ledger[id].sub
        BY <3>1 DEF Phase, Holder
    <3>3. Holder(id)' = rows[id].sub
        BY <2>0, <2>2 DEF Holder, NoEntry
    <3>4. Phase(id)' = IF rows[id].sub = 0 THEN "free" ELSE "over"
        BY <2>0, <2>2, <3>1, <3>3 DEF Phase, NoEntry
    <3>5. rows[id].sub # 0 => rows[id].sub = ledger[id].sub
        BY <3>1 DEF Shapes, RowsAgree
    <3> QED
        BY <3>2, <3>3, <3>4, <3>5 DEF IdStep, Stays, Frees
  <2> QED
      BY <1>5, <2>1, <2>2 DEF Uncharge
<1> QED
    BY <1>1, <1>2, <1>3, <1>4, <1>5
    DEF PassStep, PassFault, SelectExpired, RetireDone, OrphanCandidates, SelectOrphans,
        ScanLedger, WithoutMetadata

\* Every step of the stores is a step of every identifier.
LEMMA StepRefines ==
    ASSUME IInv, [Next]_vars, NEW id \in Ids
    PROVE  IdStep(id)
<1>1. ASSUME NEW c \in Sessions, SessionStep(c) PROVE IdStep(id)
  <2>1. CASE BeginStart(c)
      BY <2>1, Untouched DEF BeginStart, IdStep
  <2>2. CASE CheckLimits(c)
    <3>1. CASE Undo(c)
        BY <3>1, UndoSteps
    <3>2. CASE UNCHANGED <<rows, ledger, work>>
        BY <3>2, Untouched DEF IdStep
    <3> QED
        BY <2>2, <3>1, <3>2 DEF CheckLimits
  <2>3. CASE StartFails(c)
      BY <2>3, UndoSteps DEF StartFails
  <2>4. ASSUME NEW res \in Ids, Reserve(c, res) PROVE IdStep(id)
      BY <2>4, ReserveSteps
  <2>5. ASSUME NEW res \in Ids, Claim(c, res) PROVE IdStep(id)
      BY <2>5, ClaimSteps
  <2>6. ASSUME NEW res \in Ids, Enqueue(c, res) PROVE IdStep(id)
      BY <2>6, EnqueueSteps
  <2>7. CASE Commit(c) \/ Rollback(c)
      BY <2>7, TransactionSteps
  <2> QED
      BY <1>1, <2>1, <2>2, <2>3, <2>4, <2>5, <2>6, <2>7 DEF SessionStep
<1>2. ASSUME NEW i \in Ids, Cancel(i) \/ EngineStep(i) \/ AgeRow(i) \/ AgeWork(i)
      PROVE  IdStep(id)
    BY <1>2, QuietSteps, Untouched DEF IdStep
<1>3. CASE PassStep \/ PassFault
    BY <1>3, PassSteps
<1>4. CASE UNCHANGED vars
    BY <1>4, Untouched DEF vars, IdStep
<1> QED
    BY <1>1, <1>2, <1>3, <1>4 DEF Next

\* An identifier names one submission at a time and that submission is enqueued
\* at most once, for any number of callers, rollbacks, failed removals and
\* worker restarts: the three stores implement SubmissionIds.
THEOREM Refinement == Spec => IdNamesOneSubmission
<1>1. Init => SI!Init
    BY OwnersAssumption DEF Init, SI!Init, SI!Free, Holder, Phase, NoRow, NoEntry, NoWork
<1>2. IInv /\ [Next]_vars => SI!Next
    BY StepRefines, IdStepRefines
<1> QED
    BY <1>1, <1>2, Invariance, PTL DEF Spec, IdNamesOneSubmission, SI!Spec

\* delete_expired_instances takes a committed row away only from an instance
\* the engine does not run: what delete_instance answered still holds when the
\* rows of the page are deleted, in a later transaction.
THEOREM RunningRowsStay == Spec => NoRunningRowRemoved
<1> DEFINE Kept == \A id \in Ids : id \in Visible \ Visible' => work[id].state # "running"
<1>1. ASSUME IInv, [Next]_vars PROVE Kept
  <2> USE <1>1, OwnersAssumption DEF IInv, Visible
  <2>1. ASSUME NEW c \in Sessions, SessionStep(c) PROVE Kept
    <3>1. ASSUME Undo(c) PROVE Kept
        BY <3>1 DEF Undo, Reservations
    <3>2. CASE BeginStart(c) \/ CheckLimits(c) \/ StartFails(c)
        BY <3>1, <3>2 DEF BeginStart, CheckLimits, StartFails
    <3>3. ASSUME NEW id \in Ids, Reserve(c, id) \/ Claim(c, id) \/ Enqueue(c, id) PROVE Kept
        BY <3>3 DEF Reserve, Claim, Enqueue, TypeOK
    <3>4. CASE Commit(c) \/ Rollback(c)
        BY <3>4 DEF Commit, Rollback, Own, TypeOK, RowRecord
    <3> QED
        BY <2>1, <3>2, <3>3, <3>4 DEF SessionStep
  <2>2. ASSUME NEW i \in Ids, Cancel(i) \/ EngineStep(i) \/ AgeRow(i) \/ AgeWork(i) PROVE Kept
    <3>1. \A id \in Ids : rows'[id].owner = rows[id].owner
        BY <2>2, QuietSteps
    <3> QED
        BY <3>1
  <2>3. CASE DeleteExpired
      BY <2>3 DEF DeleteExpired, PassKnows
  <2>4. CASE rows' = rows
      BY <2>4
  <2> QED
      BY <2>1, <2>2, <2>3, <2>4
      DEF Next, PassStep, PassFault, SelectExpired, RetireOne, RetireDone, OrphanCandidates,
          SelectOrphans, DeleteOrphans, ScanLedger, WithoutMetadata, Uncharge, vars
<1>2. IInv /\ [Next]_vars => [Kept]_vars
    BY <1>1
<1> QED
    BY <1>2, Invariance, PTL DEF Spec, NoRunningRowRemoved
=============================================================================
