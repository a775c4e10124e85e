---------------------------- MODULE QualityGate ----------------------------
(***************************************************************************)
(* Quality: inspections captured on phones (perhaps offline, perhaps sent  *)
(* twice), the CAPAs that failures open, and logistics' projection of the  *)
(* latest result per purchase order, which gates the release of packages.  *)
(*                                                                         *)
(* Inspections are kept in the order they were committed; the events of    *)
(* inspection i are <<i, "recorded">> and, for a failure, <<i, "failed">>. *)
(***************************************************************************)
EXTENDS Naturals, Sequences, FiniteSets

CONSTANTS
  POs,        \* purchase orders
  Captures,   \* clientRequestIds of the captures on phones
  Recorders,  \* concurrent requests to InspectionService.record
  Users,      \* concurrent requests to CapaService
  InOrder     \* whether the bus hands events over in commit order

ASSUME GateAssumption == InOrder \in BOOLEAN

VARIABLES
  inspections, \* Inspection rows
  capa,        \* the status of the CAPA of each failed inspection
  closedBy,    \* Capa.closedByReinspectionRef
  recorder,    \* the capture a request is about to insert
  user,        \* what a CAPA request is about to write
  handled,     \* events logistics handled
  outcome      \* InspectionOutcome.lastResult per PO

requestVars == <<recorder, user>>
vars == <<inspections, capa, closedBy, recorder, user, handled, outcome>>

----------------------------------------------------------------------------
(* Grading: INSPECTION_THRESHOLDS and gradeInspection                      *)
CriticalFailAt == 0
MajorConditionalAt == 2

gradeInspection(critical, major) ==
  IF critical > CriticalFailAt THEN "fail"
  ELSE IF major > MajorConditionalAt THEN "conditional"
  ELSE "pass"

Results == {"pass", "conditional", "fail"}
Numbers == DOMAIN inspections
ResultOf(i) == inspections[i].result
Failed == {i \in Numbers : ResultOf(i) = "fail"}

\* The latest inspection of a PO that has one.
Of(po) == {i \in Numbers : inspections[i].po = po}
IsLatest(i) == i \in Numbers /\ \A j \in Of(inspections[i].po) : j <= i

----------------------------------------------------------------------------
Idle == [pc |-> "idle"]
Inspections == [capture : Captures, po : POs, result : Results]
RecordRequests == {Idle} \cup [pc : {"insert"}, capture : Captures]
CapaRequests ==
  {Idle} \cup [pc : {"draft"}, capa : Nat] \cup [pc : {"close"}, capa : Nat, against : Nat]

TypeOK ==
  /\ inspections \in Seq(Inspections)
  /\ capa \in [Failed -> {"open", "evidence_submitted", "closed"}]
  /\ closedBy \in [Failed -> {0} \cup Numbers]
  /\ recorder \in [Recorders -> RecordRequests]
  /\ user \in [Users -> CapaRequests]
  /\ \A u \in Users : user[u].pc # "idle" => user[u].capa \in Failed
  /\ \A u \in Users : user[u].pc = "close" => user[u].against \in Numbers
  /\ handled \subseteq (Numbers \X {"recorded"}) \cup (Failed \X {"failed"})
  /\ outcome \in [POs -> Results \cup {"none"}]

Init ==
  /\ inspections = <<>>
  /\ capa = [i \in {} |-> "open"]
  /\ closedBy = [i \in {} |-> 0]
  /\ recorder = [r \in Recorders |-> Idle]
  /\ user = [u \in Users |-> Idle]
  /\ handled = {}
  /\ outcome = [po \in POs |-> "none"]

----------------------------------------------------------------------------
(* InspectionService.record                                                *)

Recorded(k) == \E i \in Numbers : inspections[i].capture = k

\* The replay guard: a capture that is stored already returns its row.
RecordReads(r, k) ==
  /\ recorder[r] = Idle
  /\ ~Recorded(k)
  /\ recorder' = [recorder EXCEPT ![r] = [pc |-> "insert", capture |-> k]]
  /\ UNCHANGED <<inspections, capa, closedBy, user, handled, outcome>>

\* Mutant: the read is trusted, the column is not unique.
NotUnique(k) == FALSE

\* The UNIQUE clientRequestId makes a concurrent duplicate roll back.
Duplicate(k) == Recorded(k)

\* Only a failure opens a CAPA.
OpensCapa(result) == result = "fail"

\* One transaction: the inspection, the CAPA of a failure, and the events.
RecordCommits(r) ==
  LET k == recorder[r].capture IN
  /\ recorder[r].pc = "insert"
  /\ recorder' = [recorder EXCEPT ![r] = Idle]
  /\ \/ Duplicate(k) /\ UNCHANGED <<inspections, capa, closedBy>>
     \/ /\ ~Duplicate(k)
        /\ \E po \in POs, critical \in 0..1, major \in {2, 3} :
             LET result == gradeInspection(critical, major)
                 opened == IF OpensCapa(result) THEN {Len(inspections) + 1} ELSE {} IN
             /\ inspections' = Append(inspections, [capture |-> k, po |-> po, result |-> result])
             /\ capa' = [i \in Failed \cup opened |-> IF i \in opened THEN "open" ELSE capa[i]]
             /\ closedBy' = [i \in Failed \cup opened |-> IF i \in opened THEN 0 ELSE closedBy[i]]
  /\ UNCHANGED <<user, handled, outcome>>

----------------------------------------------------------------------------
(* CapaService                                                             *)

\* Both operations refuse a CAPA that is closed already.
StillOpen(i) == capa[i] # "closed"

DraftReads(u, i) ==
  /\ user[u] = Idle /\ StillOpen(i)
  /\ user' = [user EXCEPT ![u] = [pc |-> "draft", capa |-> i]]
  /\ UNCHANGED <<inspections, capa, closedBy, recorder, handled, outcome>>

\* draftCorrectiveAction writes the status it checked a moment ago.
DraftWrites(u) ==
  /\ user[u].pc = "draft"
  /\ capa' = [capa EXCEPT ![user[u].capa] = "evidence_submitted"]
  /\ user' = [user EXCEPT ![u] = Idle]
  /\ UNCHANGED <<inspections, closedBy, recorder, handled, outcome>>

\* close: against any other inspection that passed.
CloseReads(u, i, j) ==
  /\ user[u] = Idle /\ StillOpen(i)
  /\ j # i /\ ResultOf(j) = "pass"
  /\ user' = [user EXCEPT ![u] = [pc |-> "close", capa |-> i, against |-> j]]
  /\ UNCHANGED <<inspections, capa, closedBy, recorder, handled, outcome>>

CloseWrites(u) ==
  LET i == user[u].capa IN
  /\ user[u].pc = "close"
  /\ capa' = [capa EXCEPT ![i] = "closed"]
  /\ closedBy' = [closedBy EXCEPT ![i] = user[u].against]
  /\ user' = [user EXCEPT ![u] = Idle]
  /\ UNCHANGED <<inspections, recorder, handled, outcome>>

----------------------------------------------------------------------------
(* Logistics: QualityGateService                                           *)

\* Mutant: the failure branch returns before the events are emitted.
EventsOfPassed(i) == IF i \in Failed THEN {} ELSE {<<i, "recorded">>}

\* The events committed with an inspection.
EventsOf(i) == {<<i, "recorded">>} \cup (IF i \in Failed THEN {<<i, "failed">>} ELSE {})
Events == UNION {EventsOf(i) : i \in Numbers}
Earlier(e) ==
  {d \in Events : d[1] < e[1] \/ (d[1] = e[1] /\ d[2] = "recorded" /\ e[2] = "failed")}
Arrives(e) == e \in Events \ handled /\ (InOrder => Earlier(e) \subseteq handled)

\* Mutant: a pass does not clear a block.
KeepsBlock(po, result) == IF outcome[po] = "fail" THEN "fail" ELSE result

\* The latest event is authoritative: a pass clears a block, a failure sets it.
Authoritative(po, result) == result

\* handleInspectionRecorded: the row is overwritten.
HandleInspectionRecorded(i) ==
  LET po == inspections[i].po IN
  /\ Arrives(<<i, "recorded">>)
  /\ handled' = handled \cup {<<i, "recorded">>}
  /\ outcome' = [outcome EXCEPT ![po] = Authoritative(po, ResultOf(i))]
  /\ UNCHANGED <<inspections, capa, closedBy, requestVars>>

\* handleQualityFailed: the row is set to blocked.
HandleQualityFailed(i) ==
  /\ i \in Failed
  /\ Arrives(<<i, "failed">>)
  /\ handled' = handled \cup {<<i, "failed">>}
  /\ outcome' = [outcome EXCEPT ![inspections[i].po] = "fail"]
  /\ UNCHANGED <<inspections, capa, closedBy, requestVars>>

\* The gate of the QC release: assertReleasable.
Blocked(po) == outcome[po] = "fail"

----------------------------------------------------------------------------
RecordStep(r) == RecordCommits(r) \/ \E k \in Captures : RecordReads(r, k)
CapaStep(u) ==
  \/ DraftWrites(u) \/ CloseWrites(u)
  \/ \E i \in Failed : DraftReads(u, i) \/ \E j \in Numbers : CloseReads(u, i, j)
HandlerStep ==
  \E i \in Numbers : HandleInspectionRecorded(i) \/ HandleQualityFailed(i)

Next ==
  \/ \E r \in Recorders : RecordStep(r)
  \/ \E u \in Users : CapaStep(u)
  \/ HandlerStep

Spec == Init /\ [][Next]_vars

\* The bus delivers what was committed (EventPipeline: CommittedIsApplied).
FairSpec == Spec /\ WF_vars(HandlerStep)

----------------------------------------------------------------------------
(* Properties                                                              *)

\* A capture synced twice, even by two requests at once, is one inspection: it
\* opens one CAPA and publishes one failure (InspectionService, sync.ts).
CaptureOnce ==
  \A i, j \in Numbers : inspections[i].capture = inspections[j].capture => i = j

\* "The latest inspection is authoritative": once the events of a PO are
\* handled the gate shows the result of its latest inspection
\* (QualityGateService).
GateFollowsLatest ==
  \A i \in Numbers :
    LET po == inspections[i].po IN
    (IsLatest(i) /\ \A j \in Of(po) : EventsOf(j) \subseteq handled)
      => outcome[po] = ResultOf(i)

\* A closed CAPA is never reopened (CapaService's guards).  With two users the
\* code breaks this, so no run has it.
ClosedStaysClosed ==
  [][\A i \in Failed : capa[i] = "closed" => capa'[i] = "closed"]_vars

\* A failure that stays the latest word on its PO ends up blocking the release.
FailureBlocks ==
  \A i \in 1..Cardinality(Captures) :
    (IsLatest(i) /\ ResultOf(i) = "fail")
      ~> (~IsLatest(i) \/ Blocked(inspections[i].po))
============================================================================
