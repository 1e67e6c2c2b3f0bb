---------------------- MODULE OriginMaintenance_proofs ----------------------
(***************************************************************************)
(* Safety of the maintenance slices for any origins, records, page sizes   *)
(* and number of faults.                                                   *)
(***************************************************************************)
EXTENDS OriginMaintenance, TLAPS

\* The types of what the databases and the engine hold.
TypeOK ==
    /\ row \in [Records -> {"none", "open", "terminal"}]
    /\ work \in [Records -> {"none", "queued", "running", "Failed", "Completed"}]
    /\ state \in [Origins -> {"up", "down", "removed"}]
    /\ withdrawn \subseteq Records /\ cancelled \subseteq Records
    /\ ledger \subseteq Records /\ registered \subseteq Origins

\* A removed origin has no rows left.
RemovedAreEmpty == \A s \in Records : StateOf(s) = "removed" => row[s] = "none"

\* The ledger names every identifier that the engine or a database has: what
\* cleanup_submissions takes out is used by nobody.
LedgerCovers == \A s \in Records : work[s] # "none" \/ row[s] # "none" => s \in ledger

\* Work that completed has a terminal row for retention to take, or its origin
\* is removed, and the scans visit its database: the reclamation of orphans,
\* which asks for failed work only, leaves none of it behind.
CompletedIsCovered ==
    \A s \in Records : work[s] = "Completed" =>
        Scope[s] \in Known /\ (row[s] = "terminal" \/ StateOf(s) = "removed")

\* A cancellation is on its way to running work only.
CancelsRun == \A s \in cancelled : work[s] = "running"

\* A row is terminal when the engine has taken its work up, or will end it at
\* its first turn.
TerminalNeverStarts ==
    \A s \in Records : row[s] = "terminal" => work[s] # "queued" \/ s \in withdrawn

\* Engine first: a row leaves a database that is in place only when the engine
\* has nothing left of its instance, or only a start that is cancelled before
\* its first activity.
EngineFirst ==
    [][\A s \in Records : row[s] # "none" /\ row'[s] = "none" =>
          \/ work'[s] = "none" \/ (work'[s] = "queued" /\ s \in withdrawn')
          \/ StateOf(s)' = "removed"]_vars

\* The inductive invariant.
IInv ==
    /\ TypeOK
    /\ RemovedAreEmpty
    /\ LedgerCovers
    /\ CompletedIsCovered
    /\ CancelsRun
    /\ TerminalNeverStarts
    /\ OnlyRemovedAreCancelled

\* Nothing has been done; only started work is in the ledger.
LEMMA InitInv == Init => IInv
<1> SUFFICES ASSUME Init PROVE IInv
    OBVIOUS
<1>1. PICK used \in Uses : \E committed \in SUBSET used :
        /\ row = [s \in Records |-> IF s \in committed THEN "open" ELSE "none"]
        /\ work = [s \in Records |-> IF s \in used THEN "queued" ELSE "none"]
        /\ withdrawn \in SUBSET (used \ committed)
        /\ ledger = used
        /\ state = [o \in Origins |-> IF used \cap Of(o) # {} THEN "up" ELSE "removed"]
    BY DEF Init
<1>2. used \subseteq Records
    BY MaintenanceAssumption
<1> QED
    BY <1>1, <1>2, MaintenanceAssumption
    DEF Init, IInv, TypeOK, RemovedAreEmpty, LedgerCovers, CompletedIsCovered, CancelsRun,
        TerminalNeverStarts, OnlyRemovedAreCancelled, StateOf, Of

\* A page is of what is scanned.
LEMMA PageIsPart == \A S, after, n : Page(S, after, n) \subseteq S
BY DEF Page

\* What a step may do to rows and work and keep the invariant: delete ended
\* work, and rows whose work does not run.
LEMMA RetireKeeps ==
    ASSUME IInv, UNCHANGED <<withdrawn, cancelled, ledger, state, registered>>,
           NEW S, DeleteWork(S),
           NEW R, R \subseteq S, \A s \in R \cap Records : row[s] = "terminal" /\ work[s] # "running",
           row' = row \/ DeleteRows(R)
    PROVE  /\ IInv'
           /\ \A s \in Records : row[s] # "none" /\ row'[s] = "none" =>
                  work'[s] = "none" \/ (work'[s] = "queued" /\ s \in withdrawn')
<1> USE DEF IInv, TypeOK, DeleteWork, DeleteRows, Ended
<1>1. TypeOK'
    OBVIOUS
<1>2. RemovedAreEmpty' /\ LedgerCovers' /\ CompletedIsCovered' /\ TerminalNeverStarts'
    BY MaintenanceAssumption
    DEF RemovedAreEmpty, LedgerCovers, CompletedIsCovered, TerminalNeverStarts, StateOf, Known
<1>3. CancelsRun' /\ OnlyRemovedAreCancelled'
    BY MaintenanceAssumption DEF CancelsRun, OnlyRemovedAreCancelled, StateOf
<1>4. \A s \in Records : row[s] # "none" /\ row'[s] = "none" =>
        work'[s] = "none" \/ (work'[s] = "queued" /\ s \in withdrawn')
    BY DEF TerminalNeverStarts
<1> QED
    BY <1>1, <1>2, <1>3, <1>4

\* Steps that change neither rows nor engine work nor what is known of them.
LEMMA ProgressKeeps ==
    ASSUME IInv, UNCHANGED <<data, state, registered>>
    PROVE  IInv' /\ row' = row
BY DEF data, IInv, TypeOK, RemovedAreEmpty, LedgerCovers, CompletedIsCovered, CancelsRun,
       TerminalNeverStarts, OnlyRemovedAreCancelled, StateOf, Known

\* A row that goes, goes after the engine's record, or before a start that
\* will not run.
Outlived == \A s \in Records : row[s] # "none" /\ row'[s] = "none" =>
                \/ work'[s] = "none" \/ (work'[s] = "queued" /\ s \in withdrawn')
                \/ StateOf(s)' = "removed"

\* Expired rows of the control database, page by page.
LEMMA ControlScanInv ==
    ASSUME IInv, NEW f, NEW bad, ControlScan(f, bad)
    PROVE  IInv' /\ Outlived
<1> DEFINE page == Page(Expired(Control), cursor["control"], Batch)
           retired == {s \in page \ {bad} : work[s] # "running"}
<1>1. UNCHANGED <<withdrawn, cancelled, ledger, state, registered>>
    BY DEF ControlScan
<1>2. \/ UNCHANGED <<row, work>>
      \/ DeleteWork(retired) /\ (row' = row \/ DeleteRows(retired))
    BY DEF ControlScan
<1>3. \A s \in retired : row[s] = "terminal" /\ work[s] # "running"
    BY PageIsPart DEF Expired
<1> HIDE DEF retired
<1>4. CASE UNCHANGED <<row, work>>
    BY <1>1, <1>4, ProgressKeeps DEF data, Outlived
<1>5. CASE DeleteWork(retired) /\ (row' = row \/ DeleteRows(retired))
    BY <1>1, <1>3, <1>5, RetireKeeps DEF Outlived
<1> QED
    BY <1>2, <1>4, <1>5

\* Failed records of the control database.
LEMMA LegacyScanInv ==
    ASSUME IInv, NEW f, LegacyScan(f)
    PROVE  IInv' /\ Outlived
<1>1. UNCHANGED <<row, withdrawn, cancelled, ledger, state, registered>>
    BY DEF LegacyScan
<1>2. PICK S : DeleteWork(S)
    BY DEF LegacyScan
<1> DEFINE R == {}
<1>3. R \subseteq S /\ \A s \in R \cap Records : row[s] = "terminal" /\ work[s] # "running"
    OBVIOUS
<1> HIDE DEF R
<1> QED
    BY <1>1, <1>2, <1>3, RetireKeeps DEF Outlived

\* Expired rows of an origin.
LEMMA OriginScanInv ==
    ASSUME IInv, NEW f, NEW bad, OriginScan(f, bad)
    PROVE  IInv' /\ Outlived
<1>1. UNCHANGED <<withdrawn, cancelled, ledger, state, registered>>
    BY DEF OriginScan
<1>2. \/ UNCHANGED <<row, work>>
      \/ \E o, before : RetirePage(Page(Expired(o), before, Batch), f, bad)
    BY DEF OriginScan
<1>3. CASE UNCHANGED <<row, work>>
    BY <1>1, <1>3, ProgressKeeps DEF data, Outlived
<1>4. ASSUME NEW o, NEW before, RetirePage(Page(Expired(o), before, Batch), f, bad)
      PROVE  IInv' /\ Outlived
  <2> DEFINE page == Page(Expired(o), before, Batch)
             done == {s \in page : work[s] # "running" /\ (bad = 0 \/ s < bad)}
             half == {s \in page : f = "delete" /\ s = bad}
  <2>1. DeleteWork(done \cup half) /\ DeleteRows(done)
      BY <1>4 DEF RetirePage
  <2>2. \A s \in done : row[s] = "terminal" /\ work[s] # "running"
      BY PageIsPart DEF Expired
  <2> HIDE DEF done, half
  <2> QED
      BY <1>1, <2>1, <2>2, RetireKeeps DEF Outlived
<1> QED
    BY <1>2, <1>3, <1>4

\* Records of registered origins: only those of removed ones are cancelled.
LEMMA EngineScanInv ==
    ASSUME IInv, NEW f, EngineScan(f)
    PROVE  IInv' /\ Outlived
<1> DEFINE listed == {s \in Records : /\ Scope[s] \in registered
                                      /\ work[s] \in {"running", "Failed", "Completed"}}
           page == IF f = "read" THEN {} ELSE Page(listed, cursor["engine"], EngineBatch)
           gone == {s \in page : StateOf(s) # "up" /\ origin_is_removed(Scope[s], f = "ok")}
           ending == {s \in gone : work[s] = "running"}
<1>1. /\ UNCHANGED <<row, withdrawn, ledger, state, registered>>
      /\ cancelled' = cancelled \cup ending
    BY DEF EngineScan
<1>2. \E S : DeleteWork(S)
    BY DEF EngineScan
<1>3. \A s \in ending : s \in Records /\ work[s] = "running" /\ StateOf(s) = "removed"
    BY PageIsPart DEF origin_is_removed, StateOf
<1> HIDE DEF ending
<1>4. \A s \in Records : /\ work[s] = "running" => work'[s] = "running"
                         /\ work'[s] \in {work[s], "none"}
    BY <1>2 DEF DeleteWork, Ended
<1>5. work' \in [Records -> {"none", "queued", "running", "Failed", "Completed"}]
    BY <1>2 DEF DeleteWork, IInv, TypeOK
<1>6. TypeOK'
    BY <1>1, <1>3, <1>5 DEF IInv, TypeOK
<1>7. CancelsRun' /\ OnlyRemovedAreCancelled'
    BY <1>1, <1>3, <1>4 DEF IInv, TypeOK, CancelsRun, OnlyRemovedAreCancelled, StateOf
<1>8. RemovedAreEmpty' /\ LedgerCovers' /\ CompletedIsCovered' /\ TerminalNeverStarts'
    BY <1>1, <1>4
    DEF IInv, RemovedAreEmpty, LedgerCovers, CompletedIsCovered, TerminalNeverStarts, StateOf,
        Known
<1> QED
    BY <1>1, <1>6, <1>7, <1>8 DEF IInv, Outlived

\* A registration goes only when the engine has nothing of its origin.
LEMMA RegistrationScanInv ==
    ASSUME IInv, NEW f, RegistrationScan(f)
    PROVE  IInv' /\ Outlived
<1>1. UNCHANGED <<data, state>>
    BY DEF RegistrationScan
<1>2. registered' = registered \/ \E o : NoWork(o) /\ registered' = registered \ {o}
    BY DEF RegistrationScan, CleanRegistration
<1>3. CASE registered' = registered
    BY <1>1, <1>3, ProgressKeeps DEF data, Outlived
<1>4. ASSUME NEW o, NoWork(o), registered' = registered \ {o}
      PROVE  IInv' /\ Outlived
  <2>1. CompletedIsCovered'
      BY <1>1, <1>4 DEF IInv, CompletedIsCovered, NoWork, Of, Known, StateOf, data
  <2> QED
      BY <1>1, <1>4, <2>1
      DEF data, IInv, TypeOK, RemovedAreEmpty, LedgerCovers, CancelsRun, TerminalNeverStarts,
          OnlyRemovedAreCancelled, StateOf, Outlived
<1> QED
    BY <1>2, <1>3, <1>4

\* An entry goes only when neither the engine nor its database has it.
LEMMA SubmissionScanInv ==
    ASSUME IInv, NEW f, SubmissionScan(f)
    PROVE  IInv' /\ Outlived
<1>1. UNCHANGED <<row, work, withdrawn, cancelled, state, registered>> /\ ledger' \subseteq ledger
    BY DEF SubmissionScan
<1>2. \A s \in ledger \ ledger' :
        work[s] = "none" /\ (row[s] = "none" \/ StateOf(s) = "removed")
    BY DEF SubmissionScan
<1>3. LedgerCovers'
    BY <1>1, <1>2 DEF IInv, LedgerCovers, RemovedAreEmpty
<1> QED
    BY <1>1, <1>3
    DEF IInv, TypeOK, RemovedAreEmpty, CompletedIsCovered, CancelsRun, TerminalNeverStarts,
        OnlyRemovedAreCancelled, StateOf, Known, Outlived

\* The engine takes work up, registers its origin and ends it.
LEMMA EngineInv ==
    ASSUME IInv, NEW s \in Records,
           Dispatch(s) \/ register_origin(s) \/ End(s) \/ AdmissionGivesUp(s)
    PROVE  IInv' /\ Outlived
<1> USE DEF IInv, TypeOK, RemovedAreEmpty, LedgerCovers, CompletedIsCovered, CancelsRun,
            TerminalNeverStarts, OnlyRemovedAreCancelled, StateOf, Known, Outlived
<1>1. CASE Dispatch(s)
    BY <1>1 DEF Dispatch
<1>2. CASE register_origin(s)
    BY <1>2 DEF register_origin, data
<1>3. CASE End(s)
    BY <1>3 DEF End
<1>4. CASE AdmissionGivesUp(s)
    BY <1>4 DEF AdmissionGivesUp
<1> QED
    BY <1>1, <1>2, <1>3, <1>4

\* A row becomes terminal: finalized, or cancelled.
LEMMA TerminalInv ==
    ASSUME IInv, NEW s \in Records, Finalize(s) \/ \E commits \in BOOLEAN : cancel(s, commits)
    PROVE  IInv' /\ Outlived
<1> USE DEF IInv, TypeOK, RemovedAreEmpty, LedgerCovers, CompletedIsCovered, CancelsRun,
            TerminalNeverStarts, OnlyRemovedAreCancelled, StateOf, Known, Outlived
<1>1. CASE Finalize(s)
    BY <1>1 DEF Finalize
<1>2. ASSUME NEW commits \in BOOLEAN, cancel(s, commits) PROVE IInv' /\ Outlived
    BY <1>2 DEF cancel
<1> QED
    BY <1>1, <1>2

\* Removal takes the rows along and is for good.
LEMMA RemoveInv ==
    ASSUME IInv, NEW o \in Origins, Remove(o)
    PROVE  IInv' /\ Outlived
<1> USE MaintenanceAssumption DEF Remove, DeleteRows, Of, Control, IInv, TypeOK, StateOf
<1>1. TypeOK'
    OBVIOUS
<1>2. RemovedAreEmpty' /\ OnlyRemovedAreCancelled'
    BY DEF RemovedAreEmpty, OnlyRemovedAreCancelled
<1>3. LedgerCovers' /\ CompletedIsCovered' /\ CancelsRun' /\ TerminalNeverStarts'
    BY DEF LedgerCovers, CompletedIsCovered, CancelsRun, TerminalNeverStarts, Known
<1>4. Outlived
    BY DEF Outlived
<1> QED
    BY <1>1, <1>2, <1>3, <1>4

\* An outage comes and goes; it is no removal.
LEMMA OutageInv ==
    ASSUME IInv, NEW o \in Origins, Outage(o) \/ Recover(o)
    PROVE  IInv' /\ Outlived
<1>1. /\ UNCHANGED <<row, work, withdrawn, ledger, registered, cancelled>>
      /\ state[o] \in {"up", "down"}
      /\ \E next \in {"up", "down"} : state' = [state EXCEPT ![o] = next]
    BY DEF Outage, Recover, data
<1>2. TypeOK'
    BY <1>1 DEF IInv, TypeOK
<1>3. \A s \in Records : StateOf(s)' = "removed" <=> StateOf(s) = "removed"
    BY <1>1, MaintenanceAssumption DEF IInv, TypeOK, StateOf, Control
<1>4. RemovedAreEmpty' /\ OnlyRemovedAreCancelled'
    BY <1>1, <1>3 DEF IInv, TypeOK, RemovedAreEmpty, OnlyRemovedAreCancelled
<1>5. LedgerCovers' /\ CompletedIsCovered'
    BY <1>1, <1>3 DEF IInv, LedgerCovers, CompletedIsCovered, Known
<1>6. CancelsRun' /\ TerminalNeverStarts' /\ Outlived
    BY <1>1 DEF IInv, CancelsRun, TerminalNeverStarts, Outlived
<1> QED
    BY <1>2, <1>4, <1>5, <1>6 DEF IInv

\* Every step preserves the inductive invariant, and removes rows engine first.
LEMMA StepInv == IInv /\ [Next]_vars => IInv' /\ [Outlived]_vars
<1> SUFFICES ASSUME IInv, [Next]_vars PROVE IInv' /\ [Outlived]_vars
    OBVIOUS
<1>1. CASE UNCHANGED vars
    BY <1>1, ProgressKeeps DEF vars
<1>2. CASE BeginRound \/ Restart
    BY <1>2, ProgressKeeps DEF BeginRound, Restart, data, Outlived
<1>3. CASE SliceStep \/ SliceFault
    BY <1>2, <1>3, ControlScanInv, LegacyScanInv, OriginScanInv, EngineScanInv,
       RegistrationScanInv, SubmissionScanInv
    DEF SliceStep, SliceFault
<1> QED
    BY <1>1, <1>2, <1>3, EngineInv, TerminalInv, RemoveInv, OutageInv DEF Next

\* The inductive invariant holds in every reachable state.
THEOREM Invariance == Spec => []IInv
BY InitInv, StepInv, PTL DEF Spec

\* Running work is cancelled only when its origin is gone for good, for any
\* origins and any outages and failed probes between the scans.
THEOREM OnlyRemovedCancelled == Spec => []OnlyRemovedAreCancelled
<1>1. IInv => OnlyRemovedAreCancelled
    BY DEF IInv
<1> QED
    BY <1>1, Invariance, PTL

\* No entry is dropped from the ledger while the engine or a database has the
\* identifier, and completed work is where retention or removal finds it.
THEOREM NothingIsLost == Spec => [](LedgerCovers /\ CompletedIsCovered)
<1>1. IInv => LedgerCovers /\ CompletedIsCovered
    BY DEF IInv
<1> QED
    BY <1>1, Invariance, PTL

\* The sweeps of the control database and of the origins remove the engine's
\* record before the row, whatever fails between them; the one thing a row may
\* leave behind is a queued start that was cancelled and never runs.
THEOREM EngineGoesFirst == Spec => EngineFirst
<1>1. IInv /\ [Next]_vars =>
        [\A s \in Records : row[s] # "none" /\ row'[s] = "none" =>
            \/ work'[s] = "none" \/ (work'[s] = "queued" /\ s \in withdrawn')
            \/ StateOf(s)' = "removed"]_vars
    BY StepInv DEF Outlived
<1> QED
    BY <1>1, Invariance, PTL DEF Spec, EngineFirst
=============================================================================
