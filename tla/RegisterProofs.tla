--------------------------- MODULE RegisterProofs ---------------------------
(* Proofs about registers whose requests check a row they have read and    *)
(* write it later, about the two forms of object scope, and about sums     *)
(* over finite sets: what freight is divided into, what penalties take.    *)
(* Deals with suppliers: every transition once, and money only after an    *)
(* inspection that passed.  Bank accounts: a change applies with two       *)
(* approvers, none of them who asked.                                      *)
EXTENDS PlanRegister, CommandBoard, FreightBooks, SupplierScore,
        Academy, SupplierDeal, SupplierBank,
        Folds, FiniteSetTheorems, WellFoundedInduction, TLAPS

----------------------------------------------------------------------------
(* Object scope                                                            *)

\* The list of projects, quotations and orders selects exactly the rows that the read by
\* reference admits (trade/list-scope.ts against inScope), for every actor and row.
THEOREM TradeListMirrorsRead ==
  ASSUME NEW actor \in Actors, NEW row \in TradeRows
  PROVE  TradeScopeWhere(actor, row) <=> MayReadTrade(actor, row)
  BY ScopeAssumption
     DEF TradeScopeWhere, MayReadTrade, InScope, Scopable, ShipmentKey, Actors, TradeRows,
         Internal, Executives, Roles

\* The same of payments (finance/list-scope.ts), which carry no agent.
THEOREM PaymentListMirrorsRead ==
  ASSUME NEW actor \in Actors, NEW row \in PaymentRows
  PROVE  FinanceScopeWhere(actor, row) <=> MayReadPayment(actor, row)
  BY ScopeAssumption
     DEF FinanceScopeWhere, MayReadPayment, InScope, Scopable, ShipmentKey, Actors,
         PaymentRows, Internal, Executives, Roles

\* The same of shipments (logistics/list-scope.ts), which a partner reads by their own ref.
THEOREM ShipmentListMirrorsRead ==
  ASSUME NEW actor \in Actors, NEW row \in ShipmentRows
  PROVE  ShipmentScopeWhere(actor, row) <=> MayReadShipment(actor, row)
  BY ScopeAssumption
     DEF ShipmentScopeWhere, MayReadShipment, InScope, Scopable, ShipmentKey, Actors,
         ShipmentRows, Internal, Executives, Roles

\* The lists of tasks and grants (command-scope.ts) show what canSeeTask and canSeeGrant
\* admit, a task of no department and a manager of none included.
THEOREM CommandListsMirrorReads ==
  ASSUME NEW actor \in Actors, NEW task \in TaskRows, NEW profiles \in SUBSET Profiles,
         NEW owner \in ScopeUsers \cup {Unset}
  PROVE  LET managed == ManagedDepartments(actor, profiles)
         IN  /\ TaskScopeWhere(actor, task, managed) <=> CanSeeTask(actor, task, managed)
             /\ GrantScopeWhere(actor, owner) <=> CanSeeGrant(actor, owner)
  <1> DEFINE managed == ManagedDepartments(actor, profiles)
  <1>1. Unset \notin managed
    BY DEF ManagedDepartments
  <1> HIDE DEF managed
  <1>2. TaskScopeWhere(actor, task, managed) <=> CanSeeTask(actor, task, managed)
    BY <1>1 DEF TaskScopeWhere, CanSeeTask
  <1>3. GrantScopeWhere(actor, owner) <=> CanSeeGrant(actor, owner)
    BY ScopeAssumption DEF GrantScopeWhere, CanSeeGrant, Actors
  <1> QED BY <1>2, <1>3 DEF managed

----------------------------------------------------------------------------
(* The planning register                                                   *)

\* What a request has checked still keeps the rules when it is written: it carries every
\* field they relate, and a start is never taken back.
RequestsKeepRules ==
  \A c \in PlanCalls :
    /\ planCall[c].op = "initiative" =>
         /\ planCall[c].on \in Initiatives /\ planCall[c].write \in InitiativeFields
         /\ AssertRegisterRules(planCall[c].write)
         /\ initiative[planCall[c].on] # NoInitiative
         /\ planCall[c].write.attention = "runs" =>
              planCall[c].starts \/ initiative[planCall[c].on].started
    /\ planCall[c].op = "duty" => AssertRules(planCall[c].write)

PlanInv == PlanTypeOK /\ RegisterRules /\ RequestsKeepRules

LEMMA PlanInitInv == ASSUME PlanInit PROVE PlanInv
  BY DEF PlanInit, PlanInv, PlanTypeOK, RegisterRules, RequestsKeepRules, PlanRequests,
         NoPlanCall

\* A merge gives a row of the register.
LEMMA MergedInitiative ==
  ASSUME NEW f \in InitiativeFields, NEW input \in InitiativeFields, NEW given
  PROVE  Merged(f, given, input) \in InitiativeFields
  BY DEF Merged, Fields, InitiativeFields

LEMMA MergedDuty ==
  ASSUME NEW r \in Duty, NEW input \in Duty, NEW given
  PROVE  Merged(r, given, input) \in Duty
  BY DEF Merged, Fields, Duty

\* Answering a request leaves those of the others as they were.
LEMMA PlanAnsweredKeeps ==
  ASSUME PlanTypeOK, RequestsKeepRules, NEW c \in PlanCalls, PlanAnswered(c)
  PROVE  /\ planCall' \in [PlanCalls -> PlanRequests]
         /\ \A e \in PlanCalls : planCall'[e] = planCall[e] \/ planCall'[e] = NoPlanCall
  BY DEF PlanTypeOK, PlanAnswered, PlanRequests

LEMMA CreateInitiativeInv ==
  ASSUME PlanInv, NEW i \in Initiatives, NEW f \in InitiativeFields, CreateInitiative(i, f)
  PROVE  PlanInv'
  <1> USE DEF PlanInv, CreateInitiative
  <1>1. PlanTypeOK'
    BY DEF PlanTypeOK, Initiative
  <1>2. \A j \in Initiatives : j # i => initiative'[j] = initiative[j]
    BY DEF PlanTypeOK
  <1>3. initiative'[i] = [fields |-> f, started |-> f.attention = "runs"]
    BY DEF PlanTypeOK
  <1>4. RegisterRules'
    <2>1. initiative'[i].fields = f /\ (f.attention = "runs" => initiative'[i].started)
      <3> DEFINE runs == f.attention = "runs"
      <3>1. initiative'[i] = [fields |-> f, started |-> runs] /\ runs \in BOOLEAN
        BY <1>3
      <3> HIDE DEF runs
      <3>2. initiative'[i].fields = f /\ initiative'[i].started = runs
        BY <3>1
      <3> QED BY <3>2 DEF runs
    <2>2. AssertRegisterRules(f) /\ duty' = duty
      OBVIOUS
    <2>3. \A j \in Initiatives : initiative'[j] # NoInitiative =>
            /\ AssertRegisterRules(initiative'[j].fields)
            /\ initiative'[j].fields.attention = "runs" => initiative'[j].started
      <3> SUFFICES ASSUME NEW j \in Initiatives, initiative'[j] # NoInitiative
                   PROVE  /\ AssertRegisterRules(initiative'[j].fields)
                          /\ initiative'[j].fields.attention = "runs" => initiative'[j].started
        OBVIOUS
      <3>1. CASE j = i
        BY <3>1, <2>1, <2>2
      <3>2. CASE j # i
        BY <3>2, <1>2 DEF RegisterRules
      <3> QED BY <3>1, <3>2
    <2> QED BY <2>2, <2>3 DEF RegisterRules
  <1>5. initiative'[i] # NoInitiative
    BY <1>3 DEF NoInitiative, InitiativeFields
  <1>6. RequestsKeepRules'
    BY <1>2, <1>3, <1>5 DEF RequestsKeepRules
  <1> QED BY <1>1, <1>4, <1>6

LEMMA InitiativeReadsInv ==
  ASSUME PlanInv, NEW c \in PlanCalls, NEW i \in Initiatives, NEW given,
         NEW input \in InitiativeFields, InitiativeReads(c, i, given, input)
  PROVE  PlanInv'
  <1> DEFINE f == Merged(initiative[i].fields, given, input)
  <1>1. initiative[i] \in Initiative
    BY DEF PlanInv, PlanTypeOK, InitiativeReads
  <1>2. f \in InitiativeFields
    BY <1>1, MergedInitiative DEF Initiative
  <1>3. AssertRegisterRules(f)
    BY DEF InitiativeReads
  <1> HIDE DEF f
  <1>4. planCall' = [planCall EXCEPT ![c] =
            [op |-> "initiative", on |-> i, write |-> f,
             starts |-> f.attention = "runs" /\ ~initiative[i].started]]
    BY DEF InitiativeReads, f
  <1>5. UNCHANGED <<initiative, duty>> /\ initiative[i] # NoInitiative
    BY DEF InitiativeReads
  <1>6. PlanTypeOK'
    BY <1>2, <1>4, <1>5 DEF PlanInv, PlanTypeOK, PlanRequests
  <1>7. \A e \in PlanCalls : e # c => planCall'[e] = planCall[e]
    BY <1>4 DEF PlanInv, PlanTypeOK
  <1> DEFINE starts == f.attention = "runs" /\ ~initiative[i].started
  <1>8. /\ planCall'[c] = [op |-> "initiative", on |-> i, write |-> f, starts |-> starts]
        /\ starts \in BOOLEAN
    BY <1>4 DEF PlanInv, PlanTypeOK
  <1> HIDE DEF starts
  <1>9. initiative[i].started \in BOOLEAN
    BY <1>1 DEF Initiative
  <1>10. RequestsKeepRules'
    <2> SUFFICES ASSUME NEW e \in PlanCalls PROVE RequestsKeepRules!(e)'
      BY DEF RequestsKeepRules
    <2>1. CASE e # c
      BY <2>1, <1>5, <1>7 DEF PlanInv, RequestsKeepRules
    <2>2. CASE e = c
      <3>1. /\ planCall'[c].op = "initiative" /\ planCall'[c].on = i
            /\ planCall'[c].write = f
            /\ planCall'[c].starts = starts
        BY <1>8
      <3>2. planCall'[c].write.attention = "runs" =>
              planCall'[c].starts \/ initiative'[i].started
        BY <3>1, <1>5 DEF starts
      <3> QED BY <2>2, <3>1, <3>2, <1>2, <1>3, <1>5
    <2> QED BY <2>1, <2>2
  <1>11. RegisterRules'
    BY <1>5 DEF PlanInv, RegisterRules
  <1> QED BY <1>6, <1>10, <1>11 DEF PlanInv

LEMMA InitiativeWritesInv ==
  ASSUME PlanInv, NEW c \in PlanCalls, InitiativeWrites(c)
  PROVE  PlanInv'
  <1> DEFINE r == planCall[c]
  <1>1. /\ r \in [op : {"initiative"}, on : Initiatives, write : InitiativeFields,
                  starts : BOOLEAN]
        /\ AssertRegisterRules(r.write) /\ initiative[r.on] # NoInitiative
        /\ r.write.attention = "runs" => r.starts \/ initiative[r.on].started
    BY DEF PlanInv, PlanTypeOK, RequestsKeepRules, InitiativeWrites, PlanRequests, NoPlanCall
  <1>2. initiative[r.on] \in Initiative
    BY <1>1 DEF PlanInv, PlanTypeOK
  <1>3. /\ initiative' = [initiative EXCEPT ![r.on] =
             [fields |-> r.write, started |-> initiative[r.on].started \/ r.starts]]
        /\ PlanAnswered(c) /\ duty' = duty
    BY DEF InitiativeWrites
  <1> HIDE DEF r
  <1>4. /\ planCall' \in [PlanCalls -> PlanRequests]
        /\ \A e \in PlanCalls : planCall'[e] = planCall[e] \/ planCall'[e] = NoPlanCall
    BY <1>3, PlanAnsweredKeeps DEF PlanInv
  <1>5. initiative[r.on].started \in BOOLEAN /\ r.starts \in BOOLEAN /\ r.on \in Initiatives
    BY <1>1, <1>2 DEF Initiative
  <1>6. [fields |-> r.write, started |-> initiative[r.on].started \/ r.starts] \in Initiative
    BY <1>1, <1>5 DEF Initiative
  <1>7. PlanTypeOK'
    BY <1>3, <1>4, <1>5, <1>6 DEF PlanInv, PlanTypeOK
  <1>8. /\ initiative'[r.on]
             = [fields |-> r.write, started |-> initiative[r.on].started \/ r.starts]
        /\ \A j \in Initiatives : j # r.on => initiative'[j] = initiative[j]
    BY <1>3, <1>5 DEF PlanInv, PlanTypeOK
  <1>9. RegisterRules'
    BY <1>1, <1>3, <1>5, <1>8 DEF PlanInv, RegisterRules
  <1>10. initiative'[r.on] # NoInitiative
    BY <1>1, <1>8 DEF NoInitiative, InitiativeFields
  <1>11. \A j \in Initiatives :
           initiative[j] # NoInitiative =>
             /\ initiative'[j] # NoInitiative
             /\ initiative[j].started => initiative'[j].started
    BY <1>5, <1>8, <1>10
  <1>12. RequestsKeepRules'
    <2> SUFFICES ASSUME NEW e \in PlanCalls PROVE RequestsKeepRules!(e)'
      BY DEF RequestsKeepRules
    <2>1. CASE planCall'[e] = planCall[e]
      BY <2>1, <1>11 DEF PlanInv, RequestsKeepRules
    <2>2. CASE planCall'[e] = NoPlanCall
      BY <2>2 DEF NoPlanCall
    <2> QED BY <1>4, <2>1, <2>2
  <1> QED BY <1>7, <1>9, <1>12 DEF PlanInv

LEMMA CreateDutyInv ==
  ASSUME PlanInv, NEW d \in Duties, NEW r \in Duty, CreateDuty(d, r)
  PROVE  PlanInv'
  <1>1. PlanTypeOK'
    BY DEF PlanInv, PlanTypeOK, CreateDuty
  <1>2. RegisterRules'
    BY DEF PlanInv, PlanTypeOK, CreateDuty, RegisterRules
  <1>3. RequestsKeepRules'
    BY DEF PlanInv, CreateDuty, RequestsKeepRules
  <1> QED BY <1>1, <1>2, <1>3 DEF PlanInv

LEMMA DutyReadsInv ==
  ASSUME PlanInv, NEW c \in PlanCalls, NEW d \in Duties, NEW given,
         NEW input \in Duty, DutyReads(c, d, given, input)
  PROVE  PlanInv'
  <1> DEFINE r == Merged(duty[d], given, input)
  <1>1. r \in Duty
    BY MergedDuty DEF PlanInv, PlanTypeOK, DutyReads
  <1>2. AssertRules(r)
    BY DEF DutyReads
  <1> HIDE DEF r
  <1>3. /\ planCall' = [planCall EXCEPT ![c] = [op |-> "duty", on |-> d, write |-> r]]
        /\ UNCHANGED <<initiative, duty>>
    BY DEF DutyReads, r
  <1>4. PlanTypeOK'
    BY <1>1, <1>3 DEF PlanInv, PlanTypeOK, PlanRequests
  <1>5. /\ planCall'[c] = [op |-> "duty", on |-> d, write |-> r]
        /\ \A e \in PlanCalls : e # c => planCall'[e] = planCall[e]
    BY <1>3 DEF PlanInv, PlanTypeOK
  <1>6. RequestsKeepRules'
    BY <1>2, <1>3, <1>5 DEF PlanInv, RequestsKeepRules
  <1>7. RegisterRules'
    BY <1>3 DEF PlanInv, RegisterRules
  <1> QED BY <1>4, <1>6, <1>7 DEF PlanInv

LEMMA DutyWritesInv ==
  ASSUME PlanInv, NEW c \in PlanCalls, DutyWrites(c)
  PROVE  PlanInv'
  <1> DEFINE r == planCall[c]
  <1>1. r \in [op : {"duty"}, on : Duties, write : Duty] /\ AssertRules(r.write)
    BY DEF PlanInv, PlanTypeOK, RequestsKeepRules, DutyWrites, PlanRequests, NoPlanCall
  <1>2. /\ duty' = [duty EXCEPT ![r.on] = r.write]
        /\ PlanAnswered(c) /\ initiative' = initiative
    BY DEF DutyWrites, AllChecked
  <1> HIDE DEF r
  <1>3. /\ planCall' \in [PlanCalls -> PlanRequests]
        /\ \A e \in PlanCalls : planCall'[e] = planCall[e] \/ planCall'[e] = NoPlanCall
    BY <1>2, PlanAnsweredKeeps DEF PlanInv
  <1>4. PlanTypeOK'
    BY <1>1, <1>2, <1>3 DEF PlanInv, PlanTypeOK
  <1>5. RegisterRules'
    BY <1>1, <1>2 DEF PlanInv, PlanTypeOK, RegisterRules
  <1>6. RequestsKeepRules'
    BY <1>2, <1>3 DEF PlanInv, RequestsKeepRules, NoPlanCall
  <1> QED BY <1>4, <1>5, <1>6 DEF PlanInv

LEMMA PlanStepInv == ASSUME PlanInv, [PlanNext]_planVars PROVE PlanInv'
  <1>1. ASSUME NEW c \in PlanCalls, PlanCallFails(c) PROVE PlanInv'
    <2>1. /\ planCall' \in [PlanCalls -> PlanRequests]
          /\ \A e \in PlanCalls : planCall'[e] = planCall[e] \/ planCall'[e] = NoPlanCall
      BY <1>1, PlanAnsweredKeeps DEF PlanInv, PlanCallFails
    <2> QED BY <1>1, <2>1
            DEF PlanInv, PlanCallFails, PlanTypeOK, RegisterRules, RequestsKeepRules, NoPlanCall
  <1>2. CASE InitiativeNext
    BY <1>1, <1>2, CreateInitiativeInv, InitiativeReadsInv, InitiativeWritesInv
       DEF InitiativeNext
  <1>3. CASE DutyNext
    BY <1>1, <1>3, CreateDutyInv, DutyReadsInv, DutyWritesInv DEF DutyNext
  <1>4. CASE UNCHANGED planVars
    BY <1>4 DEF planVars, PlanInv, PlanTypeOK, RegisterRules, RequestsKeepRules
  <1> QED BY <1>2, <1>3, <1>4 DEF PlanNext

\* An initiative that runs has a next action and a start, one that is held has a date, an
\* approval has a clock, and what blocks others has a second name, under any number of
\* requests that cross.
THEOREM RulesHold == PlanSpec => []RegisterRules
  <1>1. PlanInit => PlanInv
    BY PlanInitInv
  <1>2. PlanInv /\ [PlanNext]_planVars => PlanInv'
    BY PlanStepInv
  <1>3. PlanInv => RegisterRules
    BY DEF PlanInv
  <1> QED BY <1>1, <1>2, <1>3, PTL DEF PlanSpec

----------------------------------------------------------------------------
(* Grants                                                                  *)

\* A grant has been in the status it has, and a request is for a stage whose way was open
\* when it was checked: stages are only ever added.
StagesKept ==
  \A g \in Grants :
    IF grant[g].status = "none" THEN stages[g] = {} ELSE grant[g].status \in stages[g]
RequestsFollow ==
  \A c \in GrantCalls :
    /\ grantCall[c] # NoGrantCall => grant[grantCall[c].on].status # "none"
    /\ grantCall[c].op = "advance" => Earlier[grantCall[c].to] \cap stages[grantCall[c].on] # {}

GrantInv == GrantTypeOK /\ StagesKept /\ RequestsFollow /\ NoStageSkipped

\* Every hop of the funnel leads to the stage after.
LEMMA HopsFollow ==
  ASSUME NEW s \in GrantStatuses, NEW to \in GRANT_TRANSITIONS[s]
  PROVE  s \in Earlier[to] /\ to \in GrantStatuses
  BY DEF GrantStatuses, GRANT_TRANSITIONS, Earlier

\* A request that is answered leaves the others as they were.
LEMMA GrantAnsweredKeeps ==
  ASSUME GrantTypeOK, NEW c \in GrantCalls, GrantAnswered(c)
  PROVE  /\ grantCall' \in [GrantCalls -> GrantRequests]
         /\ \A e \in GrantCalls : grantCall'[e] = grantCall[e] \/ grantCall'[e] = NoGrantCall
  BY DEF GrantTypeOK, GrantAnswered, GrantRequests

LEMMA GrantInitInv == ASSUME GrantInit PROVE GrantInv
  BY DEF GrantInit, GrantInv, GrantTypeOK, StagesKept, RequestsFollow, NoStageSkipped,
         GrantRows, Owners, GrantRequests, NoGrantCall

LEMMA CreateGrantInv ==
  ASSUME GrantInv, NEW g \in Grants, NEW a \in GrantActors, NEW owner \in Owners,
         CreateGrant(g, a, owner)
  PROVE  GrantInv'
  <1>1. /\ grant' = [grant EXCEPT ![g] = [status |-> "identified", owner |-> owner]]
        /\ stages' = [stages EXCEPT ![g] = {"identified"}]
        /\ grantCall' = grantCall /\ grant[g].status = "none"
    BY DEF CreateGrant
  <1>2. GrantTypeOK'
    BY <1>1 DEF GrantInv, GrantTypeOK, GrantRows, GrantStatuses
  <1>3. /\ grant'[g].status = "identified" /\ stages'[g] = {"identified"}
        /\ \A h \in Grants : h # g => grant'[h] = grant[h] /\ stages'[h] = stages[h]
    BY <1>1 DEF GrantInv, GrantTypeOK
  <1>4. StagesKept'
    BY <1>3 DEF GrantInv, StagesKept
  <1>5. NoStageSkipped'
    BY <1>3 DEF GrantInv, NoStageSkipped
  <1>6. \A c \in GrantCalls : grantCall[c] # NoGrantCall =>
          grantCall[c].on \in Grants /\ grantCall[c].on # g
    BY <1>1 DEF GrantInv, GrantTypeOK, RequestsFollow, GrantRequests
  <1>7. RequestsFollow'
    BY <1>1, <1>3, <1>6 DEF GrantInv, RequestsFollow, NoGrantCall
  <1> QED BY <1>2, <1>4, <1>5, <1>7 DEF GrantInv

\* What a request that has been checked will write.
Checked(c, g, r) ==
  /\ grantCall' = [grantCall EXCEPT ![c] = r]
  /\ r.on = g /\ grant[g].status # "none"
  /\ r.op = "advance" => r.to \in GRANT_TRANSITIONS[grant[g].status]

LEMMA GrantReadsInv ==
  ASSUME GrantInv, NEW c \in GrantCalls, NEW a \in GrantActors, NEW g \in Grants,
         \/ \E to \in GrantStatuses : AdvanceReads(c, a, g, to)
         \/ \E owner \in Owners : AssignReads(c, a, g, owner)
  PROVE  GrantInv'
  <1>1. PICK r \in GrantRequests : Checked(c, g, r)
    <2>1. ASSUME NEW to \in GrantStatuses, AdvanceReads(c, a, g, to) PROVE \E r \in GrantRequests : Checked(c, g, r)
      <3> DEFINE r == [op |-> "advance", on |-> g, to |-> to]
      <3>1. r \in GrantRequests
        BY DEF GrantRequests
      <3>2. r.on = g /\ r.op = "advance" /\ r.to = to
        OBVIOUS
      <3>3. /\ grantCall' = [grantCall EXCEPT ![c] = r] /\ grant[g].status # "none"
            /\ to \in GRANT_TRANSITIONS[grant[g].status]
        BY <2>1 DEF AdvanceReads, LegalHop, LoadWritable
      <3> HIDE DEF r
      <3>4. Checked(c, g, r)
        BY <3>2, <3>3 DEF Checked
      <3> QED BY <3>1, <3>4
    <2>2. ASSUME NEW owner \in Owners, AssignReads(c, a, g, owner) PROVE \E r \in GrantRequests : Checked(c, g, r)
      <3> DEFINE r == [op |-> "assign", on |-> g, to |-> owner]
      <3>1. r \in GrantRequests
        BY DEF GrantRequests
      <3>2. r.on = g /\ r.op = "assign"
        OBVIOUS
      <3>3. grantCall' = [grantCall EXCEPT ![c] = r] /\ grant[g].status # "none"
        BY <2>2 DEF AssignReads, LoadWritable
      <3> HIDE DEF r
      <3>4. Checked(c, g, r)
        BY <3>2, <3>3 DEF Checked
      <3> QED BY <3>1, <3>4
    <2> QED BY <2>1, <2>2
  <1>2. UNCHANGED <<grant, stages>>
    BY DEF AdvanceReads, AssignReads
  <1>3. /\ grantCall' \in [GrantCalls -> GrantRequests] /\ grantCall'[c] = r
        /\ \A e \in GrantCalls : e # c => grantCall'[e] = grantCall[e]
    BY <1>1 DEF Checked, GrantInv, GrantTypeOK
  <1>4. grant[g].status \in GrantStatuses /\ grant[g].status \in stages[g]
    BY <1>1 DEF Checked, GrantInv, GrantTypeOK, GrantRows, StagesKept
  <1>5. r.op = "advance" => Earlier[r.to] \cap stages[g] # {}
    BY <1>1, <1>4, HopsFollow DEF Checked
  <1>6. RequestsFollow'
    BY <1>1, <1>2, <1>3, <1>5 DEF Checked, GrantInv, RequestsFollow
  <1> QED BY <1>2, <1>3, <1>6 DEF GrantInv, GrantTypeOK, StagesKept, NoStageSkipped

LEMMA AdvanceWritesInv ==
  ASSUME GrantInv, NEW c \in GrantCalls, AdvanceWrites(c)
  PROVE  GrantInv'
  <1> DEFINE r == grantCall[c]
  <1>1. /\ r \in [op : {"advance"}, on : Grants, to : GrantStatuses]
        /\ grant[r.on].status # "none" /\ Earlier[r.to] \cap stages[r.on] # {}
    BY DEF GrantInv, GrantTypeOK, RequestsFollow, AdvanceWrites, GrantRequests, NoGrantCall
  <1>2. /\ grant' = [grant EXCEPT ![r.on].status = r.to]
        /\ stages' = [stages EXCEPT ![r.on] = stages[r.on] \cup {r.to}]
        /\ GrantAnswered(c)
    BY DEF AdvanceWrites
  <1> HIDE DEF r
  <1>3. /\ grantCall' \in [GrantCalls -> GrantRequests]
        /\ \A e \in GrantCalls : grantCall'[e] = grantCall[e] \/ grantCall'[e] = NoGrantCall
    BY <1>2, GrantAnsweredKeeps DEF GrantInv
  <1>4. GrantTypeOK'
    BY <1>1, <1>2, <1>3 DEF GrantInv, GrantTypeOK, GrantRows
  <1>5. /\ grant'[r.on].status = r.to /\ stages'[r.on] = stages[r.on] \cup {r.to}
        /\ \A h \in Grants : h # r.on => grant'[h] = grant[h] /\ stages'[h] = stages[h]
    BY <1>1, <1>2 DEF GrantInv, GrantTypeOK, GrantRows
  <1>6. r.to # "none"
    BY <1>1 DEF GrantStatuses
  <1>7. StagesKept'
    BY <1>5, <1>6 DEF GrantInv, StagesKept
  <1>8. NoStageSkipped'
    BY <1>1, <1>5 DEF GrantInv, NoStageSkipped
  <1>9. RequestsFollow'
    <2> SUFFICES ASSUME NEW e \in GrantCalls PROVE RequestsFollow!(e)'
      BY DEF RequestsFollow
    <2>1. CASE grantCall'[e] = NoGrantCall
      BY <2>1 DEF NoGrantCall
    <2>2. CASE grantCall'[e] = grantCall[e] /\ grantCall[e] # NoGrantCall
      <3>1. grantCall[e].on \in Grants
        BY <2>2 DEF GrantInv, GrantTypeOK, GrantRequests
      <3>2. grant'[grantCall[e].on].status # "none"
        BY <2>2, <3>1, <1>5, <1>6 DEF GrantInv, RequestsFollow
      <3>3. stages[grantCall[e].on] \subseteq stages'[grantCall[e].on]
        BY <3>1, <1>5
      <3>4. grantCall[e].op = "advance" =>
              Earlier[grantCall[e].to] \cap stages'[grantCall[e].on] # {}
        BY <3>3 DEF GrantInv, RequestsFollow
      <3> QED BY <2>2, <3>2, <3>4
    <2> QED BY <1>3, <2>1, <2>2
  <1> QED BY <1>4, <1>7, <1>8, <1>9 DEF GrantInv

LEMMA AssignWritesInv ==
  ASSUME GrantInv, NEW c \in GrantCalls, AssignWrites(c)
  PROVE  GrantInv'
  <1> DEFINE r == grantCall[c]
  <1>1. r \in [op : {"assign"}, on : Grants, to : Owners]
    BY DEF GrantInv, GrantTypeOK, AssignWrites, GrantRequests, NoGrantCall
  <1>2. /\ grant' = [grant EXCEPT ![r.on].owner = r.to]
        /\ stages' = stages /\ GrantAnswered(c)
    BY DEF AssignWrites
  <1> HIDE DEF r
  <1>3. /\ grantCall' \in [GrantCalls -> GrantRequests]
        /\ \A e \in GrantCalls : grantCall'[e] = grantCall[e] \/ grantCall'[e] = NoGrantCall
    BY <1>2, GrantAnsweredKeeps DEF GrantInv
  <1>4. GrantTypeOK'
    BY <1>1, <1>2, <1>3 DEF GrantInv, GrantTypeOK, GrantRows
  <1>5. \A h \in Grants : grant'[h].status = grant[h].status
    BY <1>1, <1>2 DEF GrantInv, GrantTypeOK, GrantRows
  <1>6. StagesKept' /\ NoStageSkipped'
    BY <1>2, <1>5 DEF GrantInv, StagesKept, NoStageSkipped
  <1>7. RequestsFollow'
    <2> SUFFICES ASSUME NEW e \in GrantCalls PROVE RequestsFollow!(e)'
      BY DEF RequestsFollow
    <2>1. CASE grantCall'[e] = NoGrantCall
      BY <2>1 DEF NoGrantCall
    <2>2. CASE grantCall'[e] = grantCall[e] /\ grantCall[e] # NoGrantCall
      <3>1. grantCall[e].on \in Grants
        BY <2>2 DEF GrantInv, GrantTypeOK, GrantRequests
      <3> QED BY <2>2, <3>1, <1>2, <1>5 DEF GrantInv, RequestsFollow
    <2> QED BY <1>3, <2>1, <2>2
  <1> QED BY <1>4, <1>6, <1>7 DEF GrantInv

LEMMA GrantStepInv == ASSUME GrantInv, [GrantNext]_grantVars PROVE GrantInv'
  <1>1. ASSUME NEW c \in GrantCalls, GrantCallFails(c) PROVE GrantInv'
    <2>1. /\ grantCall' \in [GrantCalls -> GrantRequests]
          /\ \A e \in GrantCalls : grantCall'[e] = grantCall[e] \/ grantCall'[e] = NoGrantCall
      BY <1>1, GrantAnsweredKeeps DEF GrantInv, GrantCallFails
    <2>2. UNCHANGED <<grant, stages>>
      BY <1>1 DEF GrantCallFails
    <2>3. GrantTypeOK' /\ StagesKept' /\ NoStageSkipped'
      BY <2>1, <2>2 DEF GrantInv, GrantTypeOK, StagesKept, NoStageSkipped
    <2>4. RequestsFollow'
      BY <2>1, <2>2 DEF GrantInv, RequestsFollow, NoGrantCall
    <2> QED BY <2>3, <2>4 DEF GrantInv
  <1>2. CASE GrantNext
    BY <1>1, <1>2, CreateGrantInv, GrantReadsInv, AdvanceWritesInv, AssignWritesInv
       DEF GrantNext
  <1>3. CASE UNCHANGED grantVars
    BY <1>3 DEF grantVars, GrantInv, GrantTypeOK, StagesKept, RequestsFollow, NoStageSkipped
  <1> QED BY <1>2, <1>3

\* However requests about a grant cross, it never reaches a stage of the funnel without
\* the stage before (grant.service.ts, GRANT_TRANSITIONS).
THEOREM StagesInOrder == GrantSpec => []NoStageSkipped
  <1>1. GrantInit => GrantInv
    BY GrantInitInv
  <1>2. GrantInv /\ [GrantNext]_grantVars => GrantInv'
    BY GrantStepInv
  <1>3. GrantInv => NoStageSkipped
    BY DEF GrantInv
  <1> QED BY <1>1, <1>2, <1>3, PTL DEF GrantSpec

----------------------------------------------------------------------------
(* Sums                                                                    *)

\* How far the numbers of some members are up from nothing, less how far down.
Units(f, S) == UNION {{x} \X (1 .. f[x]) : x \in S}
Count(f, S) == Cardinality(Units(f, S)) - Cardinality(Units([x \in S |-> -f[x]], S))

LEMMA UnitsOf ==
  ASSUME NEW S, IsFiniteSet(S), NEW f, \A x \in S : f[x] \in Int
  PROVE  /\ IsFiniteSet(Units(f, S)) /\ Cardinality(Units(f, S)) \in Nat
         /\ \A x \in S : Cardinality(Units(f, S)) =
              Cardinality(Units(f, S \ {x})) + IF f[x] > 0 THEN f[x] ELSE 0
  <1>1. \A x \in S : IsFiniteSet({x} \X (1 .. f[x]))
                     /\ Cardinality({x} \X (1 .. f[x])) = IF f[x] > 0 THEN f[x] ELSE 0
    <2> TAKE x \in S
    <2>1. f[x] \in Int /\ 1 \in Int
      OBVIOUS
    <2> PICK n : n = f[x]
      OBVIOUS
    <2>2. IsFiniteSet(1 .. n) /\ Cardinality(1 .. n) = IF 1 > n THEN 0 ELSE n - 1 + 1
      BY <2>1, FS_Interval
    <2>3. IsFiniteSet({x}) /\ Cardinality({x}) = 1
      BY FS_Singleton
    <2>4. IsFiniteSet({x} \X (1 .. n)) /\ Cardinality({x} \X (1 .. n)) = 1 * Cardinality(1 .. n)
      BY <2>2, <2>3, FS_Product
    <2> QED BY <2>1, <2>2, <2>4
  <1>2. ASSUME NEW T \in SUBSET S PROVE IsFiniteSet(Units(f, T)) /\ Cardinality(Units(f, T)) \in Nat
    <2> DEFINE cells == {{x} \X (1 .. f[x]) : x \in T}
    <2>1. IsFiniteSet(T)
      BY FS_Subset
    <2>2. IsFiniteSet(cells)
      <3> DEFINE cell == [x \in T |-> {x} \X (1 .. f[x])]
      <3>1. cell \in Surjection(T, cells)
        BY DEF Surjection
      <3> HIDE DEF cell, cells
      <3> QED BY <2>1, <3>1, FS_Surjection
    <2>3. \A c \in cells : IsFiniteSet(c)
      BY <1>1
    <2> HIDE DEF cells
    <2>4. IsFiniteSet(UNION cells)
      BY <2>2, <2>3, FS_UNION
    <2>5. Units(f, T) = UNION cells
      BY DEF Units, cells
    <2> QED BY <2>4, <2>5, FS_CardinalityType
  <1>3. ASSUME NEW x \in S
        PROVE  Cardinality(Units(f, S)) =
                 Cardinality(Units(f, S \ {x})) + IF f[x] > 0 THEN f[x] ELSE 0
    <2> DEFINE rest == Units(f, S \ {x})
               own == {x} \X (1 .. f[x])
    <2>1. Units(f, S) = rest \cup own /\ rest \cap own = {}
      BY DEF Units
    <2>2. IsFiniteSet(rest) /\ Cardinality(rest) \in Nat
      BY <1>2
    <2>3. IsFiniteSet(own) /\ Cardinality(own) = IF f[x] > 0 THEN f[x] ELSE 0
      BY <1>1
    <2> HIDE DEF rest, own
    <2>4. Cardinality(rest \cup own) = Cardinality(rest) + Cardinality(own) - Cardinality(rest \cap own)
      BY <2>2, <2>3, FS_Union
    <2>5. Cardinality(rest \cap own) = 0
      BY <2>1, FS_EmptySet
    <2>6. (IF f[x] > 0 THEN f[x] ELSE 0) \in Int
      OBVIOUS
    <2>7. Cardinality(rest \cup own) = Cardinality(rest) + IF f[x] > 0 THEN f[x] ELSE 0
      BY <2>2, <2>3, <2>4, <2>5, <2>6
    <2> QED BY <2>1, <2>7 DEF rest
  <1> QED BY <1>2, <1>3

LEMMA CountStep ==
  ASSUME NEW S, IsFiniteSet(S), NEW f, \A x \in S : f[x] \in Int
  PROVE  /\ Count(f, S) \in Int
         /\ Count(f, {}) = 0
         /\ \A x \in S : Count(f, S) = f[x] + Count(f, S \ {x})
  <1> DEFINE minus(T) == [x \in T |-> -f[x]]
  <1>1. \A T : Units(minus(S), T) = Units(minus(S), T)
    OBVIOUS
  <1>2. ASSUME NEW T \in SUBSET S PROVE Units(minus(T), T) = Units(minus(S), T)
    BY DEF Units
  <1>3. \A x \in S : minus(S)[x] \in Int /\ minus(S)[x] = -f[x]
    OBVIOUS
  <1> PICK g : g = minus(S)
    OBVIOUS
  <1> HIDE DEF minus
  <1>4. /\ Cardinality(Units(f, S)) \in Nat
        /\ \A x \in S : Cardinality(Units(f, S)) =
             Cardinality(Units(f, S \ {x})) + IF f[x] > 0 THEN f[x] ELSE 0
    BY UnitsOf
  <1>5. /\ Cardinality(Units(g, S)) \in Nat
        /\ \A x \in S : Cardinality(Units(g, S)) =
             Cardinality(Units(g, S \ {x})) + IF g[x] > 0 THEN g[x] ELSE 0
    BY <1>3, UnitsOf
  <1>6. ASSUME NEW T \in SUBSET S
        PROVE  /\ Count(f, T) = Cardinality(Units(f, T)) - Cardinality(Units(g, T))
               /\ Cardinality(Units(f, T)) \in Nat /\ Cardinality(Units(g, T)) \in Nat
    <2>1. IsFiniteSet(T)
      BY FS_Subset
    <2>2. Cardinality(Units(f, T)) \in Nat /\ Cardinality(Units(g, T)) \in Nat
      BY <2>1, <1>3, UnitsOf
    <2> QED BY <1>2, <2>2 DEF Count, minus
  <1>7. Count(f, {}) = 0
    <2>1. Units(f, {}) = {} /\ Units(g, {}) = {}
      BY DEF Units
    <2> QED BY <1>6, <2>1, FS_EmptySet
  <1>8. ASSUME NEW x \in S PROVE Count(f, S) = f[x] + Count(f, S \ {x})
    <2>1. S \ {x} \in SUBSET S /\ S \in SUBSET S /\ f[x] \in Int /\ g[x] = -f[x]
      BY <1>3
    <2> PICK a, b, v, w, r, s : /\ a = Cardinality(Units(f, S)) /\ b = Cardinality(Units(g, S))
                                /\ v = Cardinality(Units(f, S \ {x})) /\ w = Cardinality(Units(g, S \ {x}))
                                /\ r = f[x] /\ s = g[x]
      OBVIOUS
    <2>2. a \in Nat /\ b \in Nat /\ v \in Nat /\ w \in Nat /\ r \in Int /\ s = -r
      BY <1>6, <2>1
    <2>3. a = v + (IF r > 0 THEN r ELSE 0) /\ b = w + (IF s > 0 THEN s ELSE 0)
      BY <1>4, <1>5
    <2>4. Count(f, S) = a - b /\ Count(f, S \ {x}) = v - w
      BY <1>6, <2>1
    <2>5. a - b = r + (v - w)
      BY <2>2, <2>3
    <2> QED BY <2>4, <2>5
  <1> QED BY <1>6, <1>7, <1>8

LEMMA SumIsCount ==
  ASSUME NEW S, IsFiniteSet(S), NEW f, \A x \in S : f[x] \in Int
  PROVE  SumFunctionOnSet(f, S) = Count(f, S)
  <1> DEFINE Sums(g) == g = [T \in SUBSET S |->
               IF T = {} THEN 0 ELSE f[CHOOSE x \in T : TRUE] + g[T \ {CHOOSE x \in T : TRUE}]]
  <1>1. ASSUME NEW T \in SUBSET S
        PROVE  /\ IsFiniteSet(T) /\ Count(f, {}) = 0
               /\ \A y \in T : Count(f, T) = f[y] + Count(f, T \ {y})
    <2>1. IsFiniteSet(T)
      BY FS_Subset
    <2>2. \A x \in T : f[x] \in Int
      OBVIOUS
    <2> QED BY <2>1, <2>2, CountStep
  <1>2. Sums([T \in SUBSET S |-> Count(f, T)])
    <2> DEFINE g == [T \in SUBSET S |-> Count(f, T)]
    <2>1. ASSUME NEW T \in SUBSET S, T = {} PROVE g[T] = 0
      BY <1>1, <2>1
    <2>2. ASSUME NEW T \in SUBSET S, T # {}
          PROVE  g[T] = f[CHOOSE x \in T : TRUE] + g[T \ {CHOOSE x \in T : TRUE}]
      <3> PICK y : y = CHOOSE x \in T : TRUE
        OBVIOUS
      <3>1. y \in T
        BY <2>2
      <3>2. Count(f, T) = f[y] + Count(f, T \ {y})
        BY <1>1, <3>1
      <3> QED BY <3>1, <3>2
    <2>3. g = [T \in SUBSET S |->
               IF T = {} THEN 0 ELSE f[CHOOSE x \in T : TRUE] + g[T \ {CHOOSE x \in T : TRUE}]]
      BY <2>1, <2>2
    <2> QED BY <2>3
  <1>3. ASSUME NEW g, Sums(g) PROVE g[S] = Count(f, S)
    <2> DEFINE Wrong == {T \in SUBSET S : g[T] # Count(f, T)}
    <2>1. Wrong \subseteq FiniteSubsetsOf(S)
      BY <1>1 DEF FiniteSubsetsOf
    <2>2. Wrong = {}
      <3> SUFFICES ASSUME Wrong # {} PROVE FALSE
        OBVIOUS
      <3>1. IsWellFoundedOn(StrictSubsetOrdering(S), FiniteSubsetsOf(S))
        BY FS_StrictSubsetOrderingWellFounded
      <3>2. PICK T \in Wrong : \A R \in Wrong : <<R, T>> \notin StrictSubsetOrdering(S)
        <4> HIDE DEF Wrong
        <4> QED BY <2>1, <3>1, WFMin
      <3>3. CASE T = {}
        BY <1>1, <1>3, <3>2, <3>3
      <3>4. CASE T # {}
        <4> PICK y : y = CHOOSE x \in T : TRUE
          OBVIOUS
        <4>1. y \in T
          BY <3>4
        <4>2. g[T] = f[y] + g[T \ {y}]
          BY <1>3, <3>2, <3>4
        <4>3. Count(f, T) = f[y] + Count(f, T \ {y})
          BY <1>1, <3>2, <4>1
        <4>4. T \ {y} \notin Wrong
          <5>1. <<T \ {y}, T>> \in StrictSubsetOrdering(S)
            BY <3>2, <4>1 DEF StrictSubsetOrdering
          <5> QED BY <3>2, <5>1
        <4>5. g[T \ {y}] = Count(f, T \ {y})
          BY <3>2, <4>4
        <4> QED BY <3>2, <4>2, <4>3, <4>5
      <3> QED BY <3>3, <3>4
    <2> QED BY <2>2
  <1>4. SumFunctionOnSet(f, S) = (CHOOSE g : Sums(g))[S]
    BY DEF SumFunctionOnSet, FoldFunctionOnSet, MapThenFoldSet
  <1>5. Sums(CHOOSE g : Sums(g))
    <2> HIDE DEF Sums
    <2> QED BY <1>2
  <1> HIDE DEF Sums
  <1> QED BY <1>3, <1>4, <1>5

\* A sum over a finite set: it is nothing over no members, and any member can be taken
\* out first.
LEMMA SumStep ==
  ASSUME NEW S, IsFiniteSet(S), NEW f, \A x \in S : f[x] \in Int
  PROVE  /\ SumFunctionOnSet(f, S) \in Int
         /\ SumFunctionOnSet(f, {}) = 0
         /\ \A x \in S : SumFunctionOnSet(f, S) = f[x] + SumFunctionOnSet(f, S \ {x})
  <1>1. SumFunctionOnSet(f, S) = Count(f, S)
    BY SumIsCount
  <1>2. SumFunctionOnSet(f, {}) = Count(f, {})
    BY FS_EmptySet, SumIsCount
  <1>3. ASSUME NEW x \in S PROVE SumFunctionOnSet(f, S \ {x}) = Count(f, S \ {x})
    <2>1. IsFiniteSet(S \ {x}) /\ \A y \in S \ {x} : f[y] \in Int
      BY FS_Subset
    <2> QED BY <2>1, SumIsCount
  <1>4. /\ Count(f, S) \in Int /\ Count(f, {}) = 0
        /\ \A x \in S : Count(f, S) = f[x] + Count(f, S \ {x})
    BY CountStep
  <1> QED BY <1>1, <1>2, <1>3, <1>4

\* Only the numbers of the members matter.
LEMMA SameSum ==
  ASSUME NEW S, IsFiniteSet(S), NEW f, NEW g,
         \A x \in S : f[x] \in Int /\ g[x] = f[x]
  PROVE  SumFunctionOnSet(g, S) = SumFunctionOnSet(f, S)
  <1>1. Units(g, S) = Units(f, S)
    BY DEF Units
  <1>2. Units([x \in S |-> -g[x]], S) = Units([x \in S |-> -f[x]], S)
    BY DEF Units
  <1>3. Count(g, S) = Count(f, S)
    BY <1>1, <1>2 DEF Count
  <1>4. \A x \in S : g[x] \in Int
    OBVIOUS
  <1> QED BY <1>3, <1>4, SumIsCount

----------------------------------------------------------------------------
(* Freight                                                                 *)

\* Rows, without what they say of amounts: a row is known by its allocation.
RowsOK(rows) ==
  /\ rows = [o \in Aboard |-> rows[o]]
  /\ \A o \in Aboard : rows[o] = NoShare \/ rows[o].by \in 1..allocations
RowsIn(rows) == {o \in Aboard : rows[o] # NoShare}

HasOrders(c) == freightCall[c].pc \in {"delete", "insert"}
Inserting(c) == freightCall[c].pc = "insert"
OrdersOf(c) == freightCall[c].orders
Nested(A, B) == A \subseteq B \/ B \subseteq A

FreightShape ==
  /\ aboard \subseteq Aboard /\ allocations \in Nat
  /\ DOMAIN freightCall = FreightCalls
  /\ RowsOK(shares)
  /\ \A c \in FreightCalls :
       /\ HasOrders(c) => OrdersOf(c) \subseteq Aboard
       /\ Inserting(c) => freightCall[c].by \in 1..allocations /\ RowsOK(freightCall[c].seen)

\* Packages only leave: what was read later is aboard of what was read before.
OrdersNested ==
  \A c \in FreightCalls : HasOrders(c) =>
    /\ aboard \subseteq OrdersOf(c)
    /\ \A d \in FreightCalls : HasOrders(d) => Nested(OrdersOf(c), OrdersOf(d))
    /\ Nested(OrdersOf(c), RowsIn(shares))
RowsNested == RowsIn(shares) # {} => aboard \subseteq RowsIn(shares)

\* A transaction is the only one of its number, and has none of its rows in yet.
OwnNumber ==
  \A c \in FreightCalls : Inserting(c) =>
    /\ \A o \in RowsIn(shares) : shares[o].by # freightCall[c].by
    /\ \A d \in FreightCalls : Inserting(d) =>
         /\ c # d => freightCall[c].by # freightCall[d].by
         /\ \A o \in RowsIn(freightCall[d].seen) :
              freightCall[d].seen[o].by # freightCall[c].by

\* Of the rows there are a transaction has seen all or none.
AllOrNone ==
  \A c \in FreightCalls : Inserting(c) =>
    \/ \A o \in RowsIn(shares) : shares[o] = freightCall[c].seen[o]
    \/ \A o \in RowsIn(shares) : shares[o] # freightCall[c].seen[o]

FreightInv ==
  /\ FreightShape /\ OrdersNested /\ RowsNested /\ OwnNumber /\ AllOrNone /\ OneTransaction

LEMMA SharedAreRows == Shared = RowsIn(shares)
  BY DEF Shared, RowsIn

LEMMA FreightInitInv == ASSUME FreightInit PROVE FreightInv
  <1>1. /\ aboard = Aboard /\ allocations = 0 /\ shares = [o \in Aboard |-> NoShare]
        /\ freightCall = [c \in FreightCalls |-> NoFreightCall]
    BY DEF FreightInit
  <1>2. \A c \in FreightCalls : ~HasOrders(c) /\ ~Inserting(c)
    BY <1>1 DEF HasOrders, Inserting, NoFreightCall
  <1>3. RowsIn(shares) = {}
    BY <1>1 DEF RowsIn
  <1>4. FreightShape
    BY <1>1, <1>2 DEF FreightShape, RowsOK
  <1>5. OrdersNested /\ RowsNested /\ OwnNumber /\ AllOrNone
    BY <1>2, <1>3 DEF OrdersNested, RowsNested, OwnNumber, AllOrNone
  <1>6. OneTransaction
    BY <1>3, SharedAreRows DEF OneTransaction
  <1> QED BY <1>4, <1>5, <1>6 DEF FreightInv

LEMMA BookedElsewhereInv ==
  ASSUME FreightInv, NEW o \in Aboard, BookedElsewhere(o)
  PROVE  FreightInv'
  <1>1. aboard' \subseteq aboard /\ UNCHANGED <<shares, freightCall, allocations>>
    BY DEF BookedElsewhere
  <1>2. FreightShape'
    BY <1>1 DEF FreightInv, FreightShape, RowsOK, HasOrders, Inserting, OrdersOf
  <1>3. OrdersNested' /\ RowsNested'
    BY <1>1 DEF FreightInv, OrdersNested, RowsNested, RowsIn, HasOrders, OrdersOf
  <1>4. OwnNumber' /\ AllOrNone' /\ OneTransaction'
    BY <1>1 DEF FreightInv, OwnNumber, AllOrNone, OneTransaction, RowsIn, Shared, Inserting
  <1> QED BY <1>2, <1>3, <1>4 DEF FreightInv

LEMMA RecordBilledWeightInv ==
  ASSUME FreightInv, NEW amount, RecordBilledWeight(amount)
  PROVE  FreightInv'
  <1>1. UNCHANGED <<aboard, shares, freightCall, allocations>>
    BY DEF RecordBilledWeight
  <1>2. FreightShape' /\ OrdersNested' /\ RowsNested'
    BY <1>1 DEF FreightInv, FreightShape, OrdersNested, RowsNested, RowsOK, RowsIn,
                HasOrders, Inserting, OrdersOf
  <1>3. OwnNumber' /\ AllOrNone' /\ OneTransaction'
    BY <1>1 DEF FreightInv, OwnNumber, AllOrNone, OneTransaction, RowsIn, Shared, Inserting
  <1> QED BY <1>2, <1>3 DEF FreightInv

\* A request that has not read any orders yet, or is over, is of no consequence.
LEMMA QuietStep ==
  ASSUME FreightInv, NEW c \in FreightCalls, NEW r, r.pc \notin {"delete", "insert"},
         freightCall' = [freightCall EXCEPT ![c] = r], UNCHANGED <<aboard, shares, allocations>>
  PROVE  FreightInv'
  <1>0. DOMAIN freightCall = FreightCalls
    BY DEF FreightInv, FreightShape
  <1>1. /\ DOMAIN freightCall' = FreightCalls /\ freightCall'[c] = r
        /\ \A d \in FreightCalls : d # c => freightCall'[d] = freightCall[d]
    BY <1>0
  <1>2. ~HasOrders(c)' /\ ~Inserting(c)'
    BY <1>1 DEF HasOrders, Inserting
  <1>3. FreightShape'
    BY <1>1, <1>2 DEF FreightInv, FreightShape, RowsOK, HasOrders, Inserting, OrdersOf
  <1>4. \A d \in FreightCalls : HasOrders(d)' => HasOrders(d) /\ OrdersOf(d)' = OrdersOf(d)
    BY <1>1, <1>2 DEF HasOrders, OrdersOf
  <1>7. OrdersNested' /\ RowsNested'
    BY <1>4 DEF FreightInv, OrdersNested, RowsNested, RowsIn
  <1>5. OwnNumber' /\ AllOrNone'
    BY <1>1, <1>2 DEF FreightInv, OwnNumber, AllOrNone, RowsIn, Inserting
  <1>6. OneTransaction'
    BY DEF FreightInv, OneTransaction, Shared
  <1> QED BY <1>3, <1>5, <1>6, <1>7 DEF FreightInv

LEMMA ReadsPackagesInv ==
  ASSUME FreightInv, NEW c \in FreightCalls, ReadsPackages(c)
  PROVE  FreightInv'
  <1>1. PICK r : /\ r.pc = "delete" /\ r.orders = aboard
                 /\ freightCall' = [freightCall EXCEPT ![c] = r]
    BY DEF ReadsPackages
  <1>2. UNCHANGED <<aboard, shares, allocations>> /\ freightCall[c].pc = "packages"
    BY DEF ReadsPackages
  <1>3. /\ DOMAIN freightCall' = FreightCalls /\ freightCall'[c] = r
        /\ \A d \in FreightCalls : d # c => freightCall'[d] = freightCall[d]
    BY <1>1 DEF FreightInv, FreightShape
  <1>4. HasOrders(c)' /\ OrdersOf(c)' = aboard /\ ~Inserting(c)'
    BY <1>1, <1>3 DEF HasOrders, OrdersOf, Inserting
  <1>5. FreightShape'
    BY <1>2, <1>3, <1>4 DEF FreightInv, FreightShape, RowsOK, HasOrders, Inserting, OrdersOf
  <1>6. \A d \in FreightCalls : d # c =>
          (HasOrders(d)' <=> HasOrders(d)) /\ OrdersOf(d)' = OrdersOf(d)
    BY <1>3 DEF HasOrders, OrdersOf
  <1>7. Nested(aboard, RowsIn(shares))
    BY DEF FreightInv, RowsNested, Nested
  <1>8. OrdersNested' /\ RowsNested'
    BY <1>2, <1>4, <1>6, <1>7 DEF FreightInv, OrdersNested, RowsNested, RowsIn, Nested
  <1>9. OwnNumber' /\ AllOrNone'
    BY <1>2, <1>3, <1>4 DEF FreightInv, OwnNumber, AllOrNone, RowsIn, Inserting
  <1>10. OneTransaction'
    BY <1>2 DEF FreightInv, OneTransaction, Shared
  <1> QED BY <1>5, <1>8, <1>9, <1>10 DEF FreightInv

LEMMA DeletesRowsInv ==
  ASSUME FreightInv, NEW c \in FreightCalls, DeletesRows(c)
  PROVE  FreightInv'
  <1>1. PICK r : /\ r.pc = "insert" /\ r.orders = freightCall[c].orders
                 /\ r.seen = shares /\ r.by = allocations + 1
                 /\ freightCall' = [freightCall EXCEPT ![c] = r]
    BY DEF DeletesRows
  <1>2. /\ UNCHANGED <<aboard, shares>> /\ allocations' = allocations + 1
        /\ freightCall[c].pc = "delete" /\ allocations \in Nat
    BY DEF DeletesRows, FreightInv, FreightShape
  <1>3. /\ DOMAIN freightCall' = FreightCalls /\ freightCall'[c] = r
        /\ \A d \in FreightCalls : d # c => freightCall'[d] = freightCall[d]
    BY <1>1 DEF FreightInv, FreightShape
  <1>4. \A d \in FreightCalls :
          (HasOrders(d)' <=> HasOrders(d)) /\ OrdersOf(d)' = OrdersOf(d)
    BY <1>1, <1>2, <1>3 DEF HasOrders, OrdersOf
  <1>5. Inserting(c)' /\ freightCall'[c].by = allocations + 1 /\ freightCall'[c].seen = shares
    BY <1>1, <1>3 DEF Inserting
  <1>6. \A d \in FreightCalls : d # c =>
          (Inserting(d)' <=> Inserting(d)) /\ freightCall'[d] = freightCall[d]
    BY <1>3 DEF Inserting
  <1>7. 1..allocations \subseteq 1..allocations' /\ allocations + 1 \notin 1..allocations
        /\ allocations + 1 \in 1..allocations' /\ allocations' \in Nat
    BY <1>2
  <1>8. ASSUME NEW rows, RowsOK(rows) PROVE RowsOK(rows)'
    BY <1>7, <1>8 DEF RowsOK
  <1>9. FreightShape'
    <2>1. aboard' \subseteq Aboard /\ allocations' \in Nat /\ DOMAIN freightCall' = FreightCalls
      BY <1>2, <1>3, <1>7 DEF FreightInv, FreightShape
    <2>2. RowsOK(shares)'
      BY <1>2, <1>7 DEF FreightInv, FreightShape, RowsOK
    <2>3. ASSUME NEW d \in FreightCalls, Inserting(d)'
          PROVE  freightCall'[d].by \in 1..allocations' /\ RowsOK(freightCall[d].seen)'
      <3>1. CASE d = c
        BY <3>1, <1>5, <1>7, <2>2, <1>2 DEF RowsOK
      <3>2. CASE d # c
        BY <3>2, <2>3, <1>6, <1>7 DEF FreightInv, FreightShape, RowsOK
      <3> QED BY <3>1, <3>2
    <2> QED BY <2>1, <2>2, <2>3, <1>4 DEF FreightInv, FreightShape
  <1>10. OrdersNested' /\ RowsNested'
    BY <1>2, <1>4 DEF FreightInv, OrdersNested, RowsNested, RowsIn
  <1>11. \A o \in RowsIn(shares) : shares[o].by \in 1..allocations
    BY DEF FreightInv, FreightShape, RowsOK, RowsIn
  <1>12. \A d \in FreightCalls : Inserting(d) =>
           /\ freightCall[d].by \in 1..allocations
           /\ \A o \in RowsIn(freightCall[d].seen) : freightCall[d].seen[o].by \in 1..allocations
    BY DEF FreightInv, FreightShape, RowsOK, RowsIn
  <1>13. OwnNumber'
    BY <1>2, <1>5, <1>6, <1>7, <1>11, <1>12 DEF FreightInv, OwnNumber, RowsIn
  <1>14. AllOrNone'
    BY <1>2, <1>5, <1>6 DEF FreightInv, AllOrNone, RowsIn
  <1>15. OneTransaction'
    BY <1>2 DEF FreightInv, OneTransaction, Shared
  <1> QED BY <1>9, <1>10, <1>13, <1>14, <1>15 DEF FreightInv

LEMMA ReadsShipmentInv ==
  ASSUME FreightInv, NEW c \in FreightCalls, ReadsShipment(c)
  PROVE  FreightInv'
  <1>1. PICK r : r.pc = "packages" /\ freightCall' = [freightCall EXCEPT ![c] = r]
    BY DEF ReadsShipment
  <1>2. UNCHANGED <<aboard, shares, allocations>>
    BY DEF ReadsShipment
  <1> QED BY <1>1, <1>2, QuietStep

LEMMA FreightCallFailsInv ==
  ASSUME FreightInv, NEW c \in FreightCalls, FreightCallFails(c)
  PROVE  FreightInv'
  <1>1. NoFreightCall.pc \notin {"delete", "insert"}
    BY DEF NoFreightCall
  <1>2. /\ freightCall' = [freightCall EXCEPT ![c] = NoFreightCall]
        /\ UNCHANGED <<aboard, shares, allocations>>
    BY DEF FreightCallFails
  <1> QED BY <1>1, <1>2, QuietStep

\* What a commit leaves in the table: nothing, what was there, or its own rows only.
LEMMA CommitLeaves ==
  ASSUME FreightInv, NEW c \in FreightCalls, InsertsRows(c)
  PROVE  \/ RowsIn(shares)' = {}
         \/ shares' = shares
         \/ /\ RowsIn(shares)' = OrdersOf(c)
            /\ \A o \in OrdersOf(c) : shares'[o].by = freightCall[c].by
            /\ \E last \in OrdersOf(c) : \A o \in OrdersOf(c) :
                 /\ shares'[o].amount = Allocation(freightCall[c].paid, OrdersOf(c), last)[o]
                 /\ shares'[o].of = freightCall[c].paid
  <1> DEFINE left == Remaining(freightCall[c].seen)
             own == freightCall[c].orders
  <1>1. /\ Inserting(c) /\ HasOrders(c) /\ KeysFree(left, own)
        /\ OrdersOf(c) = own /\ own \subseteq Aboard
    BY DEF InsertsRows, Inserting, HasOrders, OrdersOf, FreightInv, FreightShape
  <1>2. PICK rows : /\ \A o \in own : rows[o].by = freightCall[c].by /\ rows[o] # NoShare
                    /\ own # {} => \E last \in own : \A o \in own :
                         /\ rows[o].amount = Allocation(freightCall[c].paid, own, last)[o]
                         /\ rows[o].of = freightCall[c].paid
                    /\ shares' = IF own = {} THEN left
                                 ELSE [o \in Aboard |-> IF o \in own THEN rows[o] ELSE left[o]]
    <2>1. CASE own = {}
      BY <2>1 DEF InsertsRows
    <2>2. CASE own # {}
      <3>1. PICK last \in own :
              shares' = [o \in Aboard |->
                IF o \in own
                THEN [by |-> freightCall[c].by,
                      amount |-> Allocation(freightCall[c].paid, own, last)[o],
                      of |-> freightCall[c].paid]
                ELSE left[o]]
        BY <2>2 DEF InsertsRows
      <3> DEFINE rows == [o \in own |->
                   [by |-> freightCall[c].by,
                    amount |-> Allocation(freightCall[c].paid, own, last)[o],
                    of |-> freightCall[c].paid]]
      <3>2. \A o \in own : rows[o].by = freightCall[c].by /\ rows[o] # NoShare
        BY <1>1 DEF NoShare, FreightInv, FreightShape
      <3>3. shares' = [o \in Aboard |-> IF o \in own THEN rows[o] ELSE left[o]]
        BY <3>1
      <3>4. \A o \in own : /\ rows[o].amount = Allocation(freightCall[c].paid, own, last)[o]
                           /\ rows[o].of = freightCall[c].paid
        OBVIOUS
      <3> HIDE DEF rows, own, left
      <3> QED BY <2>2, <3>2, <3>3, <3>4
    <2> QED BY <2>1, <2>2
  <1>3. shares = [o \in Aboard |-> shares[o]]
    BY DEF FreightInv, FreightShape, RowsOK
  <1>4. CASE \A o \in RowsIn(shares) : shares[o] = freightCall[c].seen[o]
    <2>1. \A o \in Aboard : left[o] = NoShare
      BY <1>4 DEF Remaining, RowsIn
    <2> HIDE DEF left, own
    <2> QED BY <1>1, <1>2, <2>1 DEF RowsIn
  <1>5. CASE \A o \in RowsIn(shares) : shares[o] # freightCall[c].seen[o]
    <2>1. left = shares
      BY <1>3, <1>5 DEF Remaining, RowsIn
    <2>2. own \cap RowsIn(shares) = {}
      BY <1>1, <2>1 DEF KeysFree, RowsIn
    <2>3. Nested(own, RowsIn(shares))
      BY <1>1 DEF FreightInv, OrdersNested
    <2>4. own = {} \/ RowsIn(shares) = {}
      BY <2>2, <2>3 DEF Nested
    <2>5. CASE own = {}
      BY <1>2, <2>1, <2>5
    <2>6. CASE RowsIn(shares) = {} /\ own # {}
      <3>1. \A o \in Aboard : left[o] = NoShare
        BY <2>1, <2>6 DEF RowsIn
      <3> HIDE DEF left, own
      <3> QED BY <1>1, <1>2, <3>1 DEF RowsIn
    <2> QED BY <2>4, <2>5, <2>6
  <1> QED BY <1>1, <1>4, <1>5 DEF FreightInv, AllOrNone

LEMMA InsertsRowsInv ==
  ASSUME FreightInv, NEW c \in FreightCalls, InsertsRows(c)
  PROVE  FreightInv'
  <1>1. /\ Inserting(c) /\ HasOrders(c) /\ OrdersOf(c) \subseteq Aboard
        /\ aboard \subseteq OrdersOf(c) /\ freightCall[c].by \in 1..allocations
    BY DEF InsertsRows, Inserting, HasOrders, FreightInv, FreightShape, OrdersNested
  <1>2. /\ UNCHANGED <<aboard, allocations>>
        /\ freightCall' = [freightCall EXCEPT ![c] = NoFreightCall]
    BY DEF InsertsRows
  <1>3. /\ DOMAIN freightCall' = FreightCalls /\ freightCall'[c] = NoFreightCall
        /\ \A d \in FreightCalls : d # c => freightCall'[d] = freightCall[d]
    BY <1>2 DEF FreightInv, FreightShape
  <1>4. ~HasOrders(c)' /\ ~Inserting(c)'
    BY <1>3 DEF HasOrders, Inserting, NoFreightCall
  <1>5. \A d \in FreightCalls : d # c =>
          /\ (HasOrders(d)' <=> HasOrders(d)) /\ OrdersOf(d)' = OrdersOf(d)
          /\ (Inserting(d)' <=> Inserting(d))
    BY <1>3 DEF HasOrders, OrdersOf, Inserting
  <1>6. shares' = [o \in Aboard |-> shares'[o]]
    BY DEF InsertsRows, Remaining
  <1>7. RowsIn(shares)' \subseteq Aboard
    BY DEF RowsIn
  <1>8. \/ RowsIn(shares)' = {}
        \/ shares' = shares
        \/ /\ RowsIn(shares)' = OrdersOf(c)
           /\ \A o \in OrdersOf(c) : shares'[o].by = freightCall[c].by
    BY CommitLeaves
  <1>9. RowsOK(shares)'
    BY <1>1, <1>2, <1>6, <1>8 DEF FreightInv, FreightShape, RowsOK, RowsIn
  <1>10. FreightShape'
    BY <1>2, <1>3, <1>4, <1>5, <1>9 DEF FreightInv, FreightShape, RowsOK, OrdersOf
  <1>11. OrdersNested'
    <2>1. \A d \in FreightCalls : HasOrders(d) => Nested(OrdersOf(d), RowsIn(shares)')
      BY <1>1, <1>8 DEF FreightInv, OrdersNested, Nested, RowsIn
    <2> HIDE DEF FreightInv
    <2> QED BY <1>2, <1>4, <1>5, <2>1 DEF FreightInv, OrdersNested
  <1>12. RowsNested'
    BY <1>1, <1>2, <1>8 DEF FreightInv, RowsNested, RowsIn
  <1>13. \A d \in FreightCalls : d # c /\ Inserting(d) =>
           /\ freightCall[d].by # freightCall[c].by
           /\ \A o \in RowsIn(freightCall[d].seen) : freightCall[d].seen[o].by # freightCall[c].by
    BY <1>1 DEF FreightInv, OwnNumber
  <1>14. OwnNumber'
    <2>1. ASSUME NEW d \in FreightCalls, d # c, Inserting(d), NEW o \in RowsIn(shares)'
          PROVE  shares'[o].by # freightCall[d].by
      BY <2>1, <1>8, <1>13 DEF FreightInv, OwnNumber, RowsIn
    <2>2. ASSUME NEW d \in FreightCalls, Inserting(d)', NEW e \in FreightCalls, Inserting(e)'
          PROVE  /\ d # e => freightCall'[d].by # freightCall'[e].by
                 /\ \A o \in RowsIn(freightCall'[e].seen) :
                      freightCall'[e].seen[o].by # freightCall'[d].by
      <3>1. d # c /\ e # c /\ Inserting(d) /\ Inserting(e)
        BY <2>2, <1>4, <1>5
      <3> QED BY <3>1, <1>3 DEF FreightInv, OwnNumber
    <2> QED BY <2>1, <2>2, <1>3, <1>4, <1>5 DEF OwnNumber, RowsIn
  <1>15. AllOrNone'
    <2> SUFFICES ASSUME NEW d \in FreightCalls, Inserting(d)'
                 PROVE  \/ \A o \in RowsIn(shares)' : shares'[o] = freightCall[d].seen[o]
                        \/ \A o \in RowsIn(shares)' : shares'[o] # freightCall[d].seen[o]
      BY <1>3, <1>4 DEF AllOrNone
    <2>1. d # c /\ Inserting(d)
      BY <1>4, <1>5
    <2>2. CASE shares' = shares
      BY <2>1, <2>2 DEF FreightInv, AllOrNone, RowsIn
    <2>3. CASE RowsIn(shares)' = {}
      BY <2>3
    <2>4. CASE /\ RowsIn(shares)' = OrdersOf(c)
               /\ \A o \in OrdersOf(c) : shares'[o].by = freightCall[c].by
      <3>1. ASSUME NEW o \in RowsIn(shares)' PROVE shares'[o] # freightCall[d].seen[o]
        <4>1. o \in Aboard /\ shares'[o] # NoShare
          BY DEF RowsIn
        <4>2. shares'[o].by = freightCall[c].by
          BY <2>4
        <4>3. o \in RowsIn(freightCall[d].seen) => freightCall[d].seen[o].by # freightCall[c].by
          BY <2>1, <1>13
        <4> QED BY <4>1, <4>2, <4>3 DEF RowsIn
      <3> QED BY <3>1
    <2> QED BY <1>8, <2>2, <2>3, <2>4
  <1>16. OneTransaction'
    BY <1>8 DEF FreightInv, OneTransaction, Shared, RowsIn
  <1> QED BY <1>10, <1>11, <1>12, <1>14, <1>15, <1>16 DEF FreightInv

LEMMA FreightStepInv == ASSUME FreightInv, [FreightNext]_freightVars PROVE FreightInv'
  <1>1. CASE FreightNext
    BY <1>1, BookedElsewhereInv, RecordBilledWeightInv, ReadsShipmentInv, ReadsPackagesInv,
       DeletesRowsInv, InsertsRowsInv, FreightCallFailsInv DEF FreightNext
  <1>2. CASE UNCHANGED freightVars
    <2>1. UNCHANGED <<aboard, shares, freightCall, allocations>>
      BY <1>2 DEF freightVars
    <2>2. FreightShape' /\ OrdersNested' /\ RowsNested'
      BY <2>1 DEF FreightInv, FreightShape, OrdersNested, RowsNested, RowsOK, RowsIn,
                  HasOrders, Inserting, OrdersOf
    <2>3. OwnNumber' /\ AllOrNone' /\ OneTransaction'
      BY <2>1 DEF FreightInv, OwnNumber, AllOrNone, OneTransaction, RowsIn, Shared, Inserting
    <2> QED BY <2>2, <2>3 DEF FreightInv
  <1> QED BY <1>1, <1>2

\* Numbers none of which is negative have such a sum.
LEMMA SumOfNaturals ==
  ASSUME NEW S, IsFiniteSet(S), NEW f, \A x \in S : f[x] \in Nat
  PROVE  SumFunctionOnSet(f, S) \in Nat
  <1>1. \A x \in S : f[x] \in Int
    OBVIOUS
  <1>2. Cardinality(Units(f, S)) \in Nat
    BY <1>1, UnitsOf
  <1>3. Units([x \in S |-> -f[x]], S) = {}
    <2>1. \A x \in S : 1 .. -f[x] = {}
      OBVIOUS
    <2> QED BY <2>1 DEF Units
  <1>4. Count(f, S) = Cardinality(Units(f, S)) - 0
    BY <1>3, FS_EmptySet DEF Count
  <1> QED BY <1>1, <1>2, <1>4, SumIsCount

\* However the parts are rounded, an allocation is whole numbers that sum to what it
\* divides: the last order takes what the others leave.
LEMMA AllocationExact ==
  ASSUME NEW orders \in SUBSET Aboard, NEW paid \in Int, NEW last \in orders
  PROVE  /\ \A o \in orders : Allocation(paid, orders, last)[o] \in Int
         /\ SumFunctionOnSet(Allocation(paid, orders, last), orders) = paid
  <1> DEFINE rest == orders \ {last}
             rounded == [o \in orders |-> ProRata(paid, o, orders)]
             a == [rounded EXCEPT ![last] = paid - SumFunctionOnSet(rounded, rest)]
  <1>1. IsFiniteSet(orders) /\ IsFiniteSet(rest)
    BY FreightAssumption, FS_Subset
  <1>2. \A o \in orders : RevenueTon[o] \in Nat /\ RevenueTon[o] > 0
    BY FreightAssumption
  <1>3. Tons(orders) \in Nat /\ Tons(orders) > 0
    <2>1. Tons(orders) = RevenueTon[last] + Tons(rest)
      <3>1. \A o \in orders : RevenueTon[o] \in Int
        BY <1>2
      <3>2. \A o \in orders : SumFunctionOnSet(RevenueTon, orders)
                                = RevenueTon[o] + SumFunctionOnSet(RevenueTon, orders \ {o})
        BY <1>1, <3>1, SumStep
      <3> QED BY <3>2 DEF Tons
    <2>2. Tons(rest) \in Nat
      <3>1. \A o \in rest : RevenueTon[o] \in Nat
        BY <1>2
      <3> HIDE DEF rest
      <3> QED BY <1>1, <3>1, SumOfNaturals DEF Tons
    <2> QED BY <1>2, <2>1, <2>2
  <1>4. \A o \in orders : rounded[o] \in Int
    <2> TAKE o \in orders
    <2> PICK t, r : t = Tons(orders) /\ r = RevenueTon[o]
      OBVIOUS
    <2>1. t \in Nat /\ t > 0 /\ r \in Nat
      BY <1>2, <1>3
    <2>2. 2 * paid * r + t \in Int /\ 2 * t \in Nat /\ 2 * t > 0
      BY <2>1
    <2> PICK n, d : n = 2 * paid * r + t /\ d = 2 * t
      OBVIOUS
    <2>3. n \div d \in Int
      BY <2>2
    <2> QED BY <2>3 DEF ProRata
  <1> HIDE DEF rounded
  <1>5. rounded = [o \in orders |-> rounded[o]]
    BY DEF rounded
  <1>6. SumFunctionOnSet(rounded, rest) \in Int
    <2>1. \A o \in rest : rounded[o] \in Int
      BY <1>4
    <2> HIDE DEF rest
    <2> QED BY <1>1, <2>1, SumStep
  <1>7. /\ a[last] = paid - SumFunctionOnSet(rounded, rest)
        /\ \A o \in rest : a[o] = rounded[o]
    BY <1>5
  <1>8. \A o \in orders : a[o] \in Int
    BY <1>4, <1>6, <1>7
  <1>9. Allocation(paid, orders, last) = a
    BY DEF Allocation, rounded
  <1> HIDE DEF a
  <1>10. SumFunctionOnSet(a, rest) = SumFunctionOnSet(rounded, rest)
    <2>1. \A o \in rest : rounded[o] \in Int /\ a[o] = rounded[o]
      BY <1>4, <1>7
    <2> HIDE DEF rest
    <2> QED BY <1>1, <2>1, SameSum
  <1>11. SumFunctionOnSet(a, orders) = a[last] + SumFunctionOnSet(a, rest)
    <2>1. \A o \in orders : SumFunctionOnSet(a, orders)
                              = a[o] + SumFunctionOnSet(a, orders \ {o})
      BY <1>1, <1>8, SumStep
    <2> QED BY <2>1
  <1>12. SumFunctionOnSet(a, orders) = paid
    BY <1>6, <1>7, <1>10, <1>11
  <1> QED BY <1>8, <1>9, <1>12

Amounts == [p \in Shared |-> shares[p].amount]

\* What a request has read of the bill is whole, and so is each row; the rows sum to the
\* bill their allocation read.
SumsUp ==
  /\ freightPaid \in Int
  /\ \A c \in FreightCalls :
       freightCall[c] # NoFreightCall => freightCall[c].paid \in Int
  /\ \A o \in Shared : shares[o].amount \in Int
  /\ \A o \in Shared : SumFunctionOnSet(Amounts, Shared) = shares[o].of

LEMMA SumsUpInit == ASSUME FreightInit PROVE SumsUp
  BY DEF FreightInit, SumsUp, Shared, Unpaid

\* A request that goes on with the bill it has read, or reads it.
LEMMA SumsUpQuiet ==
  ASSUME FreightInv, SumsUp, NEW c \in FreightCalls, NEW r,
         freightCall' = [freightCall EXCEPT ![c] = r], UNCHANGED <<freightPaid, shares>>,
         r # NoFreightCall =>
           r.paid = freightPaid \/ (freightCall[c] # NoFreightCall /\ r.paid = freightCall[c].paid)
  PROVE  SumsUp'
  <1>1. freightCall'[c] = r /\ \A d \in FreightCalls : d # c => freightCall'[d] = freightCall[d]
    BY DEF FreightInv, FreightShape
  <1>2. \A d \in FreightCalls :
          freightCall'[d] # NoFreightCall => freightCall'[d].paid \in Int
    BY <1>1 DEF SumsUp
  <1>3. Shared' = Shared /\ Amounts' = Amounts
    BY DEF Shared, Amounts
  <1> QED BY <1>2, <1>3 DEF SumsUp

LEMMA SumsUpInserts ==
  ASSUME FreightInv, SumsUp, NEW c \in FreightCalls, InsertsRows(c)
  PROVE  SumsUp'
  <1>1. /\ freightPaid' = freightPaid
        /\ freightCall' = [freightCall EXCEPT ![c] = NoFreightCall]
        /\ freightCall[c] # NoFreightCall
        /\ OrdersOf(c) \in SUBSET Aboard
    BY DEF InsertsRows, NoFreightCall, FreightInv, FreightShape, HasOrders, OrdersOf
  <1>2. \A d \in FreightCalls :
          freightCall'[d] # NoFreightCall => freightCall'[d] = freightCall[d]
    BY <1>1 DEF FreightInv, FreightShape
  <1>3. CASE RowsIn(shares)' = {}
    BY <1>1, <1>2, <1>3 DEF SumsUp, Shared, RowsIn
  <1>4. CASE shares' = shares
    BY <1>1, <1>2, <1>4 DEF SumsUp, Shared, Amounts
  <1>5. CASE /\ RowsIn(shares)' = OrdersOf(c)
             /\ \E last \in OrdersOf(c) : \A o \in OrdersOf(c) :
                  /\ shares'[o].amount = Allocation(freightCall[c].paid, OrdersOf(c), last)[o]
                  /\ shares'[o].of = freightCall[c].paid
    <2> PICK orders, paid : orders = OrdersOf(c) /\ paid = freightCall[c].paid
      OBVIOUS
    <2>1. orders \in SUBSET Aboard /\ paid \in Int /\ Shared' = orders
      BY <1>1, <1>5 DEF SumsUp, Shared, RowsIn
    <2>2. PICK last \in orders : \A o \in orders :
            /\ shares'[o].amount = Allocation(paid, orders, last)[o]
            /\ shares'[o].of = paid
      BY <1>5
    <2> PICK a : a = Allocation(paid, orders, last)
      OBVIOUS
    <2>3. (\A o \in orders : a[o] \in Int) /\ SumFunctionOnSet(a, orders) = paid
      BY <2>1, AllocationExact
    <2>4. \A o \in orders : Amounts'[o] = a[o]
      BY <2>1, <2>2 DEF Amounts
    <2>5. IsFiniteSet(orders)
      BY <2>1, FreightAssumption, FS_Subset
    <2>6. SumFunctionOnSet(Amounts', orders) = SumFunctionOnSet(a, orders)
      BY <2>3, <2>4, <2>5, SameSum
    <2>7. SumFunctionOnSet(Amounts, Shared)' = paid
      BY <2>1, <2>3, <2>6
    <2>8. \A o \in Shared' : shares'[o].amount \in Int /\ shares'[o].of = paid
      BY <2>1, <2>2, <2>3
    <2> QED BY <1>1, <1>2, <2>7, <2>8 DEF SumsUp
  <1> QED BY <1>3, <1>4, <1>5, CommitLeaves

LEMMA SumsUpStep ==
  ASSUME FreightInv, SumsUp, [FreightNext]_freightVars
  PROVE  SumsUp'
  <1>1. ASSUME NEW o \in Aboard, BookedElsewhere(o) PROVE SumsUp'
    BY <1>1 DEF BookedElsewhere, SumsUp, Shared, Amounts
  <1>2. ASSUME NEW amount \in 0..MaxFreight, RecordBilledWeight(amount) PROVE SumsUp'
    <2>1. freightPaid' \in Int
      BY <1>2, FreightAssumption DEF RecordBilledWeight
    <2> QED BY <1>2, <2>1 DEF RecordBilledWeight, SumsUp, Shared, Amounts
  <1>3. ASSUME NEW c \in FreightCalls,
               ReadsShipment(c) \/ ReadsPackages(c) \/ DeletesRows(c)
        PROVE  SumsUp'
    <2>1. UNCHANGED <<freightPaid, shares>>
      BY <1>3 DEF ReadsShipment, ReadsPackages, DeletesRows
    <2>2. \E r :
            /\ freightCall' = [freightCall EXCEPT ![c] = r]
            /\ \/ r.paid = freightPaid
               \/ freightCall[c] # NoFreightCall /\ r.paid = freightCall[c].paid
      <3>1. CASE ReadsShipment(c)
        <4> DEFINE r == [pc |-> "packages", paid |-> freightPaid]
        <4>1. freightCall' = [freightCall EXCEPT ![c] = r] /\ r.paid = freightPaid
          BY <3>1 DEF ReadsShipment
        <4> QED BY <4>1
      <3>2. CASE ReadsPackages(c)
        <4>1. freightCall[c] # NoFreightCall
          BY <3>2 DEF ReadsPackages, NoFreightCall
        <4> DEFINE r == [pc |-> "delete", paid |-> freightCall[c].paid, orders |-> aboard]
        <4>2. freightCall' = [freightCall EXCEPT ![c] = r] /\ r.paid = freightCall[c].paid
          BY <3>2 DEF ReadsPackages
        <4> QED BY <4>1, <4>2
      <3>3. CASE DeletesRows(c)
        <4>1. freightCall[c] # NoFreightCall
          BY <3>3 DEF DeletesRows, NoFreightCall
        <4> DEFINE r == [pc |-> "insert", paid |-> freightCall[c].paid,
                         orders |-> freightCall[c].orders, seen |-> shares,
                         by |-> allocations + 1]
        <4>2. freightCall' = [freightCall EXCEPT ![c] = r] /\ r.paid = freightCall[c].paid
          BY <3>3 DEF DeletesRows
        <4> QED BY <4>1, <4>2
      <3> QED BY <1>3, <3>1, <3>2, <3>3
    <2> QED BY <2>1, <2>2, SumsUpQuiet
  <1>4. ASSUME NEW c \in FreightCalls, FreightCallFails(c) PROVE SumsUp'
    BY <1>4, SumsUpQuiet DEF FreightCallFails
  <1>5. CASE UNCHANGED freightVars
    BY <1>5 DEF freightVars, SumsUp, Shared, Amounts
  <1> QED BY <1>1, <1>2, <1>3, <1>4, <1>5, SumsUpInserts DEF FreightNext

\* Whatever requests cross while packages leave and the bill is corrected, the rows of a
\* container are those of one allocation and sum exactly to the freight it read
\* (freight.service.ts, allocateFreight).
THEOREM SharesSumUp == FreightSpec => []OneAllocation
  <1>1. FreightInit => FreightInv /\ SumsUp
    BY FreightInitInv, SumsUpInit
  <1>2. FreightInv /\ SumsUp /\ [FreightNext]_freightVars => FreightInv' /\ SumsUp'
    BY FreightStepInv, SumsUpStep
  <1>3. FreightInv /\ SumsUp => OneAllocation
    BY DEF FreightInv, SumsUp, Amounts, OneAllocation
  <1> QED BY <1>1, <1>2, <1>3, PTL DEF FreightSpec

LEMMA FreightTypeStep == ASSUME FreightTypeOK, [FreightNext]_freightVars PROVE FreightTypeOK'
  <1>0. /\ aboard \subseteq Aboard /\ freightPaid \in 0..MaxFreight \cup {Unpaid}
        /\ shares \in Books /\ freightCall \in [FreightCalls -> FreightRequests]
        /\ allocations \in 0..MaxAllocations
    BY DEF FreightTypeOK
  <1>1. \A c \in FreightCalls :
          /\ freightCall[c].pc \in {"packages", "delete", "insert"} =>
               freightCall[c].paid \in 0..MaxFreight
          /\ freightCall[c].pc \in {"delete", "insert"} => freightCall[c].orders \subseteq Aboard
          /\ freightCall[c].pc = "insert" => freightCall[c].by \in 1..MaxAllocations
    BY <1>0 DEF FreightRequests, NoFreightCall
  <1>2. ASSUME NEW o \in Aboard, BookedElsewhere(o) PROVE FreightTypeOK'
    BY <1>0, <1>2 DEF BookedElsewhere, FreightTypeOK
  <1>3. ASSUME NEW amount \in 0..MaxFreight, RecordBilledWeight(amount) PROVE FreightTypeOK'
    BY <1>0, <1>3 DEF RecordBilledWeight, FreightTypeOK
  <1>4. ASSUME NEW c \in FreightCalls, ReadsShipment(c) PROVE FreightTypeOK'
    <2>1. [pc |-> "packages", paid |-> freightPaid] \in FreightRequests
      BY <1>0, <1>4 DEF ReadsShipment, FreightRequests, Unpaid
    <2> QED BY <1>0, <1>4, <2>1 DEF ReadsShipment, FreightTypeOK
  <1>5. ASSUME NEW c \in FreightCalls, ReadsPackages(c) PROVE FreightTypeOK'
    <2>1. [pc |-> "delete", paid |-> freightCall[c].paid, orders |-> aboard] \in FreightRequests
      BY <1>0, <1>1, <1>5 DEF ReadsPackages, FreightRequests
    <2> QED BY <1>0, <1>5, <2>1 DEF ReadsPackages, FreightTypeOK
  <1>6. ASSUME NEW c \in FreightCalls, DeletesRows(c) PROVE FreightTypeOK'
    <2> DEFINE r == [pc |-> "insert", paid |-> freightCall[c].paid,
                     orders |-> freightCall[c].orders, seen |-> shares, by |-> allocations + 1]
    <2>1. allocations + 1 \in 1..MaxAllocations /\ allocations + 1 \in 0..MaxAllocations
      BY <1>0, <1>6, FreightAssumption DEF DeletesRows
    <2>2. r \in FreightRequests
      BY <1>0, <1>1, <1>6, <2>1 DEF DeletesRows, FreightRequests
    <2>3. freightCall' = [freightCall EXCEPT ![c] = r]
      BY <1>6 DEF DeletesRows
    <2> HIDE DEF r
    <2> QED BY <1>0, <1>6, <2>1, <2>2, <2>3 DEF DeletesRows, FreightTypeOK
  <1>7. ASSUME NEW c \in FreightCalls, InsertsRows(c) PROVE FreightTypeOK'
    <2> DEFINE left == Remaining(freightCall[c].seen)
    <2> PICK orders, paid, by : /\ orders = freightCall[c].orders
                                /\ paid = freightCall[c].paid /\ by = freightCall[c].by
      OBVIOUS
    <2>1. orders \in SUBSET Aboard /\ paid \in 0..MaxFreight /\ by \in 1..MaxAllocations
      BY <1>1, <1>7 DEF InsertsRows
    <2>2. left \in Books
      BY <1>0 DEF Remaining, Books
    <2> HIDE DEF left
    <2>3. \/ shares' = left
          \/ \E last \in orders :
               shares' = [o \in Aboard |->
                 IF o \in orders
                 THEN [by |-> by, amount |-> Allocation(paid, orders, last)[o], of |-> paid]
                 ELSE left[o]]
      BY <1>7 DEF InsertsRows, left
    <2>4. ASSUME NEW last \in orders, NEW o \in orders
          PROVE  [by |-> by, amount |-> Allocation(paid, orders, last)[o], of |-> paid] \in Shares
      <3>1. paid \in Int
        BY <2>1
      <3>2. Allocation(paid, orders, last)[o] \in Int
        BY <2>1, <3>1, AllocationExact
      <3> QED BY <2>1, <3>2 DEF Shares
    <2>5. shares' \in Books
      BY <2>2, <2>3, <2>4 DEF Books
    <2>6. freightCall' \in [FreightCalls -> FreightRequests]
      BY <1>0, <1>7 DEF InsertsRows, FreightRequests
    <2> QED BY <1>0, <1>7, <2>5, <2>6 DEF InsertsRows, FreightTypeOK
  <1>8. ASSUME NEW c \in FreightCalls, FreightCallFails(c) PROVE FreightTypeOK'
    BY <1>0, <1>8 DEF FreightCallFails, FreightRequests, FreightTypeOK
  <1>9. CASE UNCHANGED freightVars
    BY <1>0, <1>9 DEF freightVars, FreightTypeOK
  <1> QED BY <1>2, <1>3, <1>4, <1>5, <1>6, <1>7, <1>8, <1>9 DEF FreightNext

\* Type correctness of the freight of a container (freight.service.ts): a row's amount is a
\* whole number whatever its last order takes.
THEOREM FreightTypeCorrect == FreightSpec => []FreightTypeOK
  <1>1. FreightInit => FreightTypeOK
    BY FreightAssumption
       DEF FreightInit, FreightTypeOK, Books, FreightRequests, Unpaid
  <1>2. FreightTypeOK /\ [FreightNext]_freightVars => FreightTypeOK'
    BY FreightTypeStep
  <1> QED BY <1>1, <1>2, PTL DEF FreightSpec

----------------------------------------------------------------------------
(* Scores                                                                  *)

ReceiptOf(c) == scoreCall[c].event
ScoreWriting(c) == scoreCall[c].pc = "write"

ScoreInv ==
  /\ DOMAIN scoreCall = ScoreCalls
  /\ \A c \in ScoreCalls : ScoreWriting(c) =>
       /\ ReceiptOf(c) \notin processed
       /\ \A d \in ScoreCalls \ {c} : ScoreWriting(d) => ReceiptOf(d) # ReceiptOf(c)
  /\ \A x \in scoreLedger : x.event \in processed
  /\ OneRowEach

LEMMA ScoreInitInv == ASSUME ScoreInit PROVE ScoreInv
  BY DEF ScoreInit, ScoreInv, OneRowEach, ScoreWriting, NoScoreCall

\* A step of a delivery that is then in no transaction, and writes nothing.
LEMMA ScoreQuietStep ==
  ASSUME ScoreInv, NEW c \in ScoreCalls, NEW r, r.pc # "write", ScoreStep(c, r),
         UNCHANGED <<processed, scoreLedger>>
  PROVE  ScoreInv'
  <1>1. /\ DOMAIN scoreCall' = ScoreCalls /\ scoreCall'[c] = r
        /\ \A d \in ScoreCalls : d # c => scoreCall'[d] = scoreCall[d]
    BY DEF ScoreInv, ScoreStep
  <1>2. \A d \in ScoreCalls : ScoreWriting(d)' => ScoreWriting(d) /\ ReceiptOf(d)' = ReceiptOf(d)
    BY <1>1 DEF ScoreWriting, ReceiptOf
  <1> QED BY <1>1, <1>2 DEF ScoreInv, OneRowEach

LEMMA ReceiptArrivesInv ==
  ASSUME ScoreInv, NEW c \in ScoreCalls, NEW e \in Receipts, ReceiptArrives(c, e)
  PROVE  ScoreInv'
  <1>1. PICK r : r.pc = "insert" /\ ScoreStep(c, r)
    BY DEF ReceiptArrives
  <1>2. UNCHANGED <<processed, scoreLedger>>
    BY DEF ReceiptArrives
  <1> QED BY <1>1, <1>2, ScoreQuietStep

LEMMA ScoreCallFailsInv ==
  ASSUME ScoreInv, NEW c \in ScoreCalls, ScoreCallFails(c)
  PROVE  ScoreInv'
  <1>1. NoScoreCall.pc # "write"
    BY DEF NoScoreCall
  <1>2. ScoreStep(c, NoScoreCall) /\ UNCHANGED <<processed, scoreLedger>>
    BY DEF ScoreCallFails
  <1> QED BY <1>1, <1>2, ScoreQuietStep

LEMMA ScoreReadsInv ==
  ASSUME ScoreInv, NEW c \in ScoreCalls, ScoreReads(c)
  PROVE  ScoreInv'
  <1>1. PICK r : /\ r.pc = "write" /\ r.event = ReceiptOf(c)
                 /\ scoreCall' = [scoreCall EXCEPT ![c] = r]
    BY DEF ScoreReads, ScoreStep, ReceiptOf
  <1>2. /\ UNCHANGED <<processed, scoreLedger>>
        /\ ReceiptOf(c) \notin processed
        /\ \A d \in ScoreCalls : ScoreWriting(d) => ReceiptOf(d) # ReceiptOf(c)
    BY DEF ScoreReads, Unprocessed, ReceiptOf, ScoreWriting
  <1>3. /\ DOMAIN scoreCall' = ScoreCalls /\ scoreCall'[c] = r
        /\ \A d \in ScoreCalls : d # c => scoreCall'[d] = scoreCall[d]
    BY <1>1 DEF ScoreInv
  <1>4. \A d \in ScoreCalls : ReceiptOf(d)' = ReceiptOf(d)
    BY <1>1, <1>3 DEF ReceiptOf
  <1>5. \A d \in ScoreCalls : d # c => (ScoreWriting(d)' <=> ScoreWriting(d))
    BY <1>3 DEF ScoreWriting
  <1> QED BY <1>2, <1>3, <1>4, <1>5 DEF ScoreInv, OneRowEach

LEMMA ScoreWritesInv ==
  ASSUME ScoreInv, NEW c \in ScoreCalls, ScoreWrites(c)
  PROVE  ScoreInv'
  <1>1. ScoreWriting(c) /\ ReceiptOf(c) \notin processed
    BY DEF ScoreWrites, ScoreInv, ScoreWriting
  <1>2. processed' = processed \cup {ReceiptOf(c)}
    BY DEF ScoreWrites, ReceiptOf
  <1>3. PICK row : row.event = ReceiptOf(c) /\ scoreLedger' \subseteq scoreLedger \cup {row}
    <2> DEFINE row == [event |-> scoreCall[c].event, previous |-> scoreCall[c].previous,
                       new |-> scoreCall[c].previous - Penalty[scoreCall[c].event]]
    <2>1. row.event = ReceiptOf(c)
      BY DEF ReceiptOf
    <2>2. scoreLedger' = scoreLedger \/ scoreLedger' = scoreLedger \cup {row}
      BY DEF ScoreWrites
    <2> HIDE DEF row
    <2> QED BY <2>1, <2>2
  <1>4. /\ DOMAIN scoreCall' = ScoreCalls /\ scoreCall'[c] = NoScoreCall
        /\ \A d \in ScoreCalls : d # c => scoreCall'[d] = scoreCall[d]
    BY DEF ScoreWrites, ScoreStep, ScoreInv
  <1>5. \A d \in ScoreCalls : ScoreWriting(d)' =>
          d # c /\ ScoreWriting(d) /\ ReceiptOf(d)' = ReceiptOf(d)
    BY <1>4 DEF ScoreWriting, ReceiptOf, NoScoreCall
  <1>6. OneRowEach' /\ \A x \in scoreLedger' : x.event \in processed'
    BY <1>1, <1>2, <1>3 DEF ScoreInv, OneRowEach
  <1> QED BY <1>1, <1>2, <1>4, <1>5, <1>6 DEF ScoreInv

LEMMA ScoreStepInv == ASSUME ScoreInv, [ScoreNext]_scoreVars PROVE ScoreInv'
  <1>1. CASE ScoreNext
    BY <1>1, ReceiptArrivesInv, ScoreReadsInv, ScoreWritesInv, ScoreCallFailsInv DEF ScoreNext
  <1>2. CASE UNCHANGED scoreVars
    BY <1>2 DEF scoreVars, ScoreInv, OneRowEach, ScoreWriting, ReceiptOf
  <1> QED BY <1>1, <1>2

\* The least the score may be: what the receipts processed take, each once.
Floor == StartScore - SumFunctionOnSet(Penalty, processed)

\* Neither the score nor what a delivery has read of it is under the floor.
OverFloor ==
  /\ processed \subseteq Receipts /\ score \in Int /\ score >= Floor
  /\ \A c \in ScoreCalls :
       /\ scoreCall[c] # NoScoreCall => ReceiptOf(c) \in Receipts
       /\ ScoreWriting(c) => scoreCall[c].previous \in Int /\ scoreCall[c].previous >= Floor

\* The floor as one more receipt is processed.
LEMMA FloorSinks ==
  ASSUME processed \subseteq Receipts, NEW e \in Receipts, e \notin processed
  PROVE  /\ Floor \in Int
         /\ processed' = processed \cup {e} => Floor' = Floor - Penalty[e]
  <1>1. \A T \in SUBSET Receipts : IsFiniteSet(T) /\ \A x \in T : Penalty[x] \in Int
    BY ScoreAssumption, FS_Subset
  <1>2. SumFunctionOnSet(Penalty, processed) \in Int
    BY <1>1, SumStep
  <1> DEFINE more == processed \cup {e}
  <1>3. more \in SUBSET Receipts /\ more \ {e} = processed
    OBVIOUS
  <1>4. SumFunctionOnSet(Penalty, more) = Penalty[e] + SumFunctionOnSet(Penalty, more \ {e})
    <2>1. IsFiniteSet(more) /\ \A x \in more : Penalty[x] \in Int
      BY <1>1, <1>3
    <2>2. \A x \in more : SumFunctionOnSet(Penalty, more)
                            = Penalty[x] + SumFunctionOnSet(Penalty, more \ {x})
      <3> HIDE DEF more
      <3> QED BY <2>1, SumStep
    <2> QED BY <2>2
  <1>5. Penalty[e] \in Int /\ StartScore \in Int
    BY ScoreAssumption
  <1> HIDE DEF more
  <1>6. ASSUME processed' = more PROVE Floor' = Floor - Penalty[e]
    <2>1. Floor' = StartScore - SumFunctionOnSet(Penalty, more)
      BY <1>6 DEF Floor
    <2> PICK s : s = SumFunctionOnSet(Penalty, processed)
      OBVIOUS
    <2>2. SumFunctionOnSet(Penalty, more) = Penalty[e] + s
      BY <1>3, <1>4
    <2>3. s \in Int /\ Floor = StartScore - s
      BY <1>2 DEF Floor
    <2> QED BY <1>5, <2>1, <2>2, <2>3
  <1>7. Floor \in Int
    BY <1>2, <1>5 DEF Floor
  <1> QED BY <1>6, <1>7 DEF more

LEMMA OverFloorInit == ASSUME ScoreInit PROVE OverFloor
  <1>1. SumFunctionOnSet(Penalty, {}) = 0
    <2>1. \A x \in {} : Penalty[x] \in Int
      OBVIOUS
    <2> QED BY <2>1, FS_EmptySet, SumStep
  <1> QED BY <1>1, ScoreAssumption
          DEF ScoreInit, OverFloor, Floor, NoScoreCall, ScoreWriting

\* A step that writes nothing, of a delivery that has read the score at most.
LEMMA OverFloorQuiet ==
  ASSUME ScoreInv, OverFloor, NEW c \in ScoreCalls, NEW r, ScoreStep(c, r),
         UNCHANGED <<score, processed>>,
         r # NoScoreCall => r.event \in Receipts,
         r.pc = "write" => r.previous = score
  PROVE  OverFloor'
  <1>1. scoreCall'[c] = r /\ \A d \in ScoreCalls : d # c => scoreCall'[d] = scoreCall[d]
    BY DEF ScoreInv, ScoreStep
  <1>2. Floor' = Floor
    BY DEF Floor
  <1>3. ASSUME NEW d \in ScoreCalls
        PROVE  /\ scoreCall'[d] # NoScoreCall => ReceiptOf(d)' \in Receipts
               /\ ScoreWriting(d)' =>
                    scoreCall'[d].previous \in Int /\ scoreCall'[d].previous >= Floor'
    <2>1. CASE d = c
      BY <2>1, <1>1, <1>2 DEF OverFloor, ReceiptOf, ScoreWriting
    <2>2. CASE d # c
      BY <2>2, <1>1, <1>2 DEF OverFloor, ReceiptOf, ScoreWriting
    <2> QED BY <2>1, <2>2
  <1> QED BY <1>2, <1>3 DEF OverFloor

LEMMA OverFloorWrites ==
  ASSUME ScoreInv, OverFloor, NEW c \in ScoreCalls, ScoreWrites(c)
  PROVE  OverFloor'
  <1>1. PICK e : e = ReceiptOf(c)
    OBVIOUS
  <1>2. PICK p : p = scoreCall[c].previous
    OBVIOUS
  <1>3. ScoreWriting(c) /\ scoreCall[c] # NoScoreCall
    BY DEF ScoreWrites, ScoreWriting, NoScoreCall
  <1>4. e \in Receipts /\ e \notin processed /\ p \in Int /\ p >= Floor
    BY <1>1, <1>2, <1>3 DEF ScoreInv, OverFloor
  <1>5. /\ processed' = processed \cup {e}
        /\ (score' = score \/ score' = p - Penalty[e])
        /\ scoreCall' = [scoreCall EXCEPT ![c] = NoScoreCall]
    BY <1>1, <1>2 DEF ScoreWrites, ScoreStep, ReceiptOf
  <1>6. Floor \in Int /\ Floor' = Floor - Penalty[e] /\ Penalty[e] \in Nat
    BY <1>4, <1>5, FloorSinks, ScoreAssumption DEF OverFloor
  <1>7. score' \in Int /\ score' >= Floor' /\ processed' \subseteq Receipts
    BY <1>4, <1>5, <1>6 DEF OverFloor
  <1>8. /\ scoreCall'[c] = NoScoreCall
        /\ \A d \in ScoreCalls : d # c => scoreCall'[d] = scoreCall[d]
    BY <1>5 DEF ScoreInv
  <1>9. ASSUME NEW d \in ScoreCalls
        PROVE  /\ scoreCall'[d] # NoScoreCall => ReceiptOf(d)' \in Receipts
               /\ ScoreWriting(d)' =>
                    scoreCall'[d].previous \in Int /\ scoreCall'[d].previous >= Floor'
    <2>1. CASE d = c
      BY <2>1, <1>8 DEF ScoreWriting, NoScoreCall
    <2>2. CASE d # c
      <3>1. scoreCall'[d] = scoreCall[d]
        BY <2>2, <1>8
      <3>2. ScoreWriting(d) =>
              scoreCall[d].previous \in Int /\ scoreCall[d].previous >= Floor
        BY DEF OverFloor
      <3>3. ScoreWriting(d) => scoreCall[d].previous >= Floor'
        BY <3>2, <1>6
      <3> QED BY <3>1, <3>2, <3>3 DEF OverFloor, ReceiptOf, ScoreWriting
    <2> QED BY <2>1, <2>2
  <1> QED BY <1>7, <1>9 DEF OverFloor

LEMMA OverFloorStep ==
  ASSUME ScoreInv, OverFloor, [ScoreNext]_scoreVars
  PROVE  OverFloor'
  <1>1. ASSUME NEW c \in ScoreCalls, NEW e \in Receipts, ReceiptArrives(c, e) PROVE OverFloor'
    <2> DEFINE r == [pc |-> "insert", event |-> e]
    <2>1. ScoreStep(c, r) /\ UNCHANGED <<score, processed>>
      BY <1>1 DEF ReceiptArrives
    <2>2. r.event \in Receipts /\ r.pc # "write"
      OBVIOUS
    <2> HIDE DEF r
    <2> QED BY <2>1, <2>2, OverFloorQuiet
  <1>2. ASSUME NEW c \in ScoreCalls, ScoreReads(c) PROVE OverFloor'
    <2> DEFINE r == [pc |-> "write", event |-> scoreCall[c].event, previous |-> score]
    <2>1. ScoreStep(c, r) /\ UNCHANGED <<score, processed>>
      BY <1>2 DEF ScoreReads
    <2>2. r.event \in Receipts /\ r.previous = score
      BY <1>2 DEF ScoreReads, OverFloor, ReceiptOf, NoScoreCall
    <2> HIDE DEF r
    <2> QED BY <2>1, <2>2, OverFloorQuiet
  <1>3. ASSUME NEW c \in ScoreCalls, ScoreCallFails(c) PROVE OverFloor'
    <2>1. ScoreStep(c, NoScoreCall) /\ UNCHANGED <<score, processed>>
      BY <1>3 DEF ScoreCallFails
    <2>2. NoScoreCall.pc # "write"
      BY DEF NoScoreCall
    <2> QED BY <2>1, <2>2, OverFloorQuiet
  <1>4. CASE UNCHANGED scoreVars
    BY <1>4 DEF scoreVars, OverFloor, Floor, ReceiptOf, ScoreWriting
  <1> QED BY <1>1, <1>2, <1>3, <1>4, OverFloorWrites DEF ScoreNext

\* However often a receipt is delivered, its transaction tried, or two of them cross, no
\* receipt costs its supplier twice: the score is never under what the receipts processed
\* take, each counted once, and the ledger has one row for each
\* (supplier-score.service.ts, handleWarehouseReceipt).
THEOREM NeverTwice == ScoreSpec => []NeverDoublePenalised
  <1>1. ScoreInit => ScoreInv /\ OverFloor
    BY ScoreInitInv, OverFloorInit
  <1>2. ScoreInv /\ OverFloor /\ [ScoreNext]_scoreVars => ScoreInv' /\ OverFloor'
    BY ScoreStepInv, OverFloorStep
  <1>3. ScoreInv /\ OverFloor => NeverDoublePenalised
    BY DEF ScoreInv, OverFloor, Floor, NeverDoublePenalised
  <1> QED BY <1>1, <1>2, <1>3, PTL DEF ScoreSpec

LEMMA ScoreTypeStep == ASSUME ScoreTypeOK, [ScoreNext]_scoreVars PROVE ScoreTypeOK'
  <1>0. /\ score \in Int /\ processed \subseteq Receipts
        /\ scoreLedger \subseteq [event : Receipts, previous : Int, new : Int]
        /\ scoreCall \in [ScoreCalls -> ScoreRequests]
    BY DEF ScoreTypeOK
  <1>1. \A c \in ScoreCalls :
          /\ scoreCall[c].pc \in {"insert", "write"} => scoreCall[c].event \in Receipts
          /\ scoreCall[c].pc = "write" => scoreCall[c].previous \in Int
    BY <1>0 DEF ScoreRequests, NoScoreCall
  <1>2. ASSUME NEW c \in ScoreCalls, NEW e \in Receipts, ReceiptArrives(c, e)
        PROVE  ScoreTypeOK'
    BY <1>0, <1>2 DEF ReceiptArrives, ScoreStep, ScoreRequests, ScoreTypeOK
  <1>3. ASSUME NEW c \in ScoreCalls, ScoreReads(c) PROVE ScoreTypeOK'
    <2>1. [pc |-> "write", event |-> scoreCall[c].event, previous |-> score] \in ScoreRequests
      BY <1>0, <1>1, <1>3 DEF ScoreReads, ScoreRequests
    <2> QED BY <1>0, <1>3, <2>1 DEF ScoreReads, ScoreStep, ScoreTypeOK
  <1>4. ASSUME NEW c \in ScoreCalls, ScoreWrites(c) PROVE ScoreTypeOK'
    <2> PICK e, p : e = scoreCall[c].event /\ p = scoreCall[c].previous
      OBVIOUS
    <2>1. e \in Receipts /\ p \in Int
      BY <1>1, <1>4 DEF ScoreWrites
    <2>2. p - Penalty[e] \in Int
      BY <2>1, ScoreAssumption
    <2>3. [event |-> e, previous |-> p, new |-> p - Penalty[e]]
            \in [event : Receipts, previous : Int, new : Int]
      BY <2>1, <2>2
    <2>4. /\ processed' = processed \cup {e}
          /\ \/ UNCHANGED <<score, scoreLedger>>
             \/ /\ score' = p - Penalty[e]
                /\ scoreLedger' = scoreLedger \cup
                     {[event |-> e, previous |-> p, new |-> p - Penalty[e]]}
          /\ scoreCall' = [scoreCall EXCEPT ![c] = NoScoreCall]
      BY <1>4 DEF ScoreWrites, ScoreStep
    <2>5. scoreCall' \in [ScoreCalls -> ScoreRequests]
      BY <1>0, <2>4 DEF ScoreRequests
    <2>6. score' \in Int /\ processed' \subseteq Receipts
      BY <1>0, <2>1, <2>2, <2>4
    <2>7. scoreLedger' \subseteq [event : Receipts, previous : Int, new : Int]
      BY <1>0, <2>3, <2>4
    <2> QED BY <2>5, <2>6, <2>7 DEF ScoreTypeOK
  <1>5. ASSUME NEW c \in ScoreCalls, ScoreCallFails(c) PROVE ScoreTypeOK'
    BY <1>0, <1>5 DEF ScoreCallFails, ScoreStep, ScoreRequests, ScoreTypeOK
  <1>6. CASE UNCHANGED scoreVars
    BY <1>0, <1>6 DEF scoreVars, ScoreTypeOK
  <1> QED BY <1>2, <1>3, <1>4, <1>5, <1>6 DEF ScoreNext

\* Type correctness of a supplier's score and its ledger (supplier-score.service.ts).
THEOREM ScoreTypeCorrect == ScoreSpec => []ScoreTypeOK
  <1>1. ScoreInit => ScoreTypeOK
    BY ScoreAssumption DEF ScoreInit, ScoreTypeOK, ScoreRequests
  <1>2. ScoreTypeOK /\ [ScoreNext]_scoreVars => ScoreTypeOK'
    BY ScoreTypeStep
  <1> QED BY <1>1, <1>2, PTL DEF ScoreSpec

----------------------------------------------------------------------------
(* Academy                                                                 *)

OpOf(c) == learnerCall[c].op
PcOf(c) == learnerCall[c].pc

\* What a request for a certificate has found out still holds when it goes on.
FoundHolds ==
  /\ completed \subseteq everCompleted /\ everCompleted \subseteq Core
  /\ shown \subseteq everShown /\ everShown \subseteq Core
  /\ \A c \in AcademyCalls :
       /\ OpOf(c) = "certificate" /\ PcOf(c) # "progress" => everCompleted \cup everShown = Core
       /\ OpOf(c) = "certificate" /\ PcOf(c) = "insert" => passed
  /\ certificates > 0 => passed /\ everCompleted \cup everShown = Core

\* As long as requests of a kind do not overlap, what one has counted stays counted.
OneAtATime ==
  ~disturbed =>
    /\ \A c \in AcademyCalls : \A d \in AcademyCalls \ {c} :
         OpOf(c) = OpOf(d) => OpOf(c) = "none"
    /\ \A c \in AcademyCalls :
         /\ OpOf(c) = "attempt" => attempts < MaxAttempts
         /\ OpOf(c) = "certificate" => certificates = 0
    /\ attempts <= MaxAttempts /\ certificates <= 1

AcademyInv ==
  /\ DOMAIN learnerCall = AcademyCalls /\ attempts \in Nat /\ certificates \in Nat
  /\ FoundHolds /\ OneAtATime

LEMMA AcademyInitInv == ASSUME AcademyInit PROVE AcademyInv
  BY AcademyAssumption
     DEF AcademyInit, AcademyInv, FoundHolds, OneAtATime, OpOf, PcOf, NoLearnerCall

\* A request that goes on: what it has found out holds, and it was alone or has raced.
LEMMA LearnerStepInv ==
  ASSUME AcademyInv, NEW c \in AcademyCalls, NEW op, NEW pc, LearnerStep(c, op, pc),
         UNCHANGED <<attempts, passed, certificates>>,
         op = "certificate" /\ pc # "progress" => everCompleted \cup everShown = Core,
         op = "certificate" /\ pc = "insert" => passed,
         ~disturbed /\ op = "attempt" => attempts < MaxAttempts,
         ~disturbed /\ op = "certificate" => certificates = 0
  PROVE  AcademyInv'
  <1>1. /\ DOMAIN learnerCall' = AcademyCalls
        /\ OpOf(c)' = op /\ PcOf(c)' = pc
        /\ \A d \in AcademyCalls : d # c => OpOf(d)' = OpOf(d) /\ PcOf(d)' = PcOf(d)
        /\ UNCHANGED <<progressVars, attempts, passed, certificates>>
    BY DEF LearnerStep, progressVars, AcademyInv, OpOf, PcOf
  <1>2. ~disturbed' => /\ ~disturbed
                         /\ \A d \in AcademyCalls \ {c} : OpOf(d) # op
    BY DEF LearnerStep, OpOf
  <1>3. FoundHolds'
    BY <1>1 DEF AcademyInv, FoundHolds, progressVars
  <1>4. OneAtATime'
    BY <1>1, <1>2 DEF AcademyInv, OneAtATime
  <1> QED BY <1>1, <1>3, <1>4 DEF AcademyInv

\* A request that is over leaves the others as they were.
LEMMA AnsweredCalls ==
  ASSUME AcademyInv, NEW c \in AcademyCalls, LearnerAnswered(c)
  PROVE  /\ DOMAIN learnerCall' = AcademyCalls
         /\ OpOf(c)' = "none"
         /\ \A d \in AcademyCalls : d # c => OpOf(d)' = OpOf(d) /\ PcOf(d)' = PcOf(d)
         /\ UNCHANGED progressVars
         /\ disturbed' <=> disturbed
  BY DEF LearnerAnswered, progressVars, AcademyInv, OpOf, PcOf, NoLearnerCall

LEMMA ToggleModuleInv ==
  ASSUME AcademyInv, NEW m \in Core, ToggleModule(m)
  PROVE  AcademyInv'
  <1>1. /\ completed' \subseteq everCompleted' /\ everCompleted \subseteq everCompleted'
        /\ everCompleted' \subseteq Core
    BY DEF ToggleModule, AcademyInv, FoundHolds, progressVars
  <1>2. UNCHANGED <<shown, everShown, attempts, passed, certificates, learnerCall, disturbed>>
    BY DEF ToggleModule
  <1>3. \A d \in AcademyCalls : OpOf(d)' = OpOf(d) /\ PcOf(d)' = PcOf(d)
    BY <1>2 DEF OpOf, PcOf
  <1>4. FoundHolds'
    BY <1>1, <1>2, <1>3 DEF AcademyInv, FoundHolds, progressVars
  <1>5. OneAtATime'
    BY <1>2, <1>3 DEF AcademyInv, OneAtATime
  <1> QED BY <1>2, <1>4, <1>5 DEF AcademyInv

LEMMA OthersShowInv ==
  ASSUME AcademyInv, NEW S \in SUBSET Core, OthersShow(S)
  PROVE  AcademyInv'
  <1>1. shown' = S /\ everShown' = everShown \cup S
    BY DEF OthersShow
  <1>2. UNCHANGED <<completed, everCompleted, attempts, passed, certificates, learnerCall, disturbed>>
    BY DEF OthersShow
  <1>3. \A d \in AcademyCalls : OpOf(d)' = OpOf(d) /\ PcOf(d)' = PcOf(d)
    BY <1>2 DEF OpOf, PcOf
  <1>4. FoundHolds'
    BY <1>1, <1>2, <1>3 DEF AcademyInv, FoundHolds, progressVars
  <1>5. OneAtATime'
    BY <1>2, <1>3 DEF AcademyInv, OneAtATime
  <1> QED BY <1>2, <1>4, <1>5 DEF AcademyInv

LEMMA OverlooksErrorInv ==
  ASSUME AcademyInv, NEW c \in AcademyCalls, OverlooksError(c)
  PROVE  AcademyInv'
  <1>1. PICK r : /\ r.op = "certificate" => r.pc = "progress"
                 /\ learnerCall' = [learnerCall EXCEPT ![c] = r]
    BY DEF OverlooksError
  <1>2. /\ UNCHANGED <<progressVars, attempts, passed, certificates>>
        /\ disturbed'
    BY DEF OverlooksError
  <1>3. /\ DOMAIN learnerCall' = AcademyCalls
        /\ OpOf(c)' = "certificate" => PcOf(c)' = "progress"
        /\ \A d \in AcademyCalls : d # c => OpOf(d)' = OpOf(d) /\ PcOf(d)' = PcOf(d)
    BY <1>1 DEF AcademyInv, OpOf, PcOf
  <1>4. FoundHolds'
    BY <1>2, <1>3 DEF AcademyInv, FoundHolds, progressVars
  <1>5. OneAtATime'
    BY <1>2 DEF OneAtATime
  <1> QED BY <1>2, <1>3, <1>4, <1>5 DEF AcademyInv

LEMMA CountsAttemptsInv ==
  ASSUME AcademyInv, NEW c \in AcademyCalls, CountsAttempts(c)
  PROVE  AcademyInv'
  <1>1. attempts < MaxAttempts
    BY AcademyAssumption DEF CountsAttempts, UsedUp, AcademyInv
  <1>2. LearnerStep(c, "attempt", "insert") /\ UNCHANGED <<attempts, passed, certificates>>
    BY DEF CountsAttempts
  <1> QED BY <1>1, <1>2, LearnerStepInv

LEMMA FindsNoCertificateInv ==
  ASSUME AcademyInv, NEW c \in AcademyCalls, FindsNoCertificate(c)
  PROVE  AcademyInv'
  <1>1. ~disturbed => certificates = 0
    BY DEF FindsNoCertificate, AcademyInv, OneAtATime
  <1>2. LearnerStep(c, "certificate", "progress") /\ UNCHANGED <<attempts, passed, certificates>>
    BY DEF FindsNoCertificate
  <1> QED BY <1>1, <1>2, LearnerStepInv

LEMMA FindsModulesInv ==
  ASSUME AcademyInv, NEW c \in AcademyCalls, FindsModules(c)
  PROVE  AcademyInv'
  <1>1. OpOf(c) = "certificate" /\ completed \cup shown = Core
    BY DEF FindsModules, OpOf
  <1>2. everCompleted \cup everShown = Core /\ (~disturbed => certificates = 0)
    BY <1>1 DEF AcademyInv, FoundHolds, OneAtATime
  <1>3. LearnerStep(c, "certificate", "attempts") /\ UNCHANGED <<attempts, passed, certificates>>
    BY DEF FindsModules
  <1> QED BY <1>2, <1>3, LearnerStepInv

LEMMA FindsPassInv ==
  ASSUME AcademyInv, NEW c \in AcademyCalls, FindsPass(c)
  PROVE  AcademyInv'
  <1>1. OpOf(c) = "certificate" /\ PcOf(c) = "attempts" /\ passed
    BY DEF FindsPass, OpOf, PcOf
  <1>2. everCompleted \cup everShown = Core /\ (~disturbed => certificates = 0)
    BY <1>1 DEF AcademyInv, FoundHolds, OneAtATime
  <1>3. LearnerStep(c, "certificate", "insert") /\ UNCHANGED <<attempts, passed, certificates>>
    BY DEF FindsPass
  <1> QED BY <1>1, <1>2, <1>3, LearnerStepInv

LEMMA InsertsAttemptInv ==
  ASSUME AcademyInv, NEW c \in AcademyCalls, NEW pass \in BOOLEAN, InsertsAttempt(c, pass)
  PROVE  AcademyInv'
  <1>1. OpOf(c) = "attempt" /\ LearnerAnswered(c)
    BY DEF InsertsAttempt, OpOf
  <1>2. attempts' = attempts + 1 /\ certificates' = certificates /\ (passed => passed')
    BY DEF InsertsAttempt
  <1>3. FoundHolds'
    BY <1>1, <1>2, AnsweredCalls DEF AcademyInv, FoundHolds, progressVars
  <1>4. OneAtATime'
    BY <1>1, <1>2, AnsweredCalls, AcademyAssumption DEF AcademyInv, OneAtATime
  <1>5. DOMAIN learnerCall' = AcademyCalls
    BY <1>1, AnsweredCalls
  <1> QED BY <1>2, <1>3, <1>4, <1>5 DEF AcademyInv

LEMMA InsertsCertificateInv ==
  ASSUME AcademyInv, NEW c \in AcademyCalls, InsertsCertificate(c)
  PROVE  AcademyInv'
  <1>1. OpOf(c) = "certificate" /\ PcOf(c) = "insert" /\ LearnerAnswered(c)
    BY DEF InsertsCertificate, OpOf, PcOf
  <1>2. certificates' = certificates + 1 /\ UNCHANGED <<attempts, passed>>
    BY DEF InsertsCertificate
  <1>3. passed /\ everCompleted \cup everShown = Core
    BY <1>1 DEF AcademyInv, FoundHolds, progressVars
  <1>4. FoundHolds'
    BY <1>1, <1>2, <1>3, AnsweredCalls DEF AcademyInv, FoundHolds, progressVars
  <1>5. OneAtATime'
    BY <1>1, <1>2, AnsweredCalls DEF AcademyInv, OneAtATime
  <1>6. DOMAIN learnerCall' = AcademyCalls
    BY <1>1, AnsweredCalls
  <1> QED BY <1>2, <1>4, <1>5, <1>6 DEF AcademyInv

LEMMA LearnerCallEndsInv ==
  ASSUME AcademyInv, NEW c \in AcademyCalls, LearnerCallEnds(c)
  PROVE  AcademyInv'
  <1>1. LearnerAnswered(c) /\ UNCHANGED <<attempts, passed, certificates>>
    BY DEF LearnerCallEnds
  <1>2. FoundHolds'
    BY <1>1, AnsweredCalls DEF AcademyInv, FoundHolds, progressVars
  <1>3. OneAtATime'
    BY <1>1, AnsweredCalls DEF AcademyInv, OneAtATime
  <1> QED BY <1>1, <1>2, <1>3, AnsweredCalls DEF AcademyInv

LEMMA AcademyStepInv == ASSUME AcademyInv, [AcademyNext]_academyVars PROVE AcademyInv'
  <1>1. CASE AcademyNext
    BY <1>1, ToggleModuleInv, OthersShowInv, OverlooksErrorInv, CountsAttemptsInv,
       InsertsAttemptInv, FindsNoCertificateInv, FindsModulesInv, FindsPassInv,
       InsertsCertificateInv, LearnerCallEndsInv
       DEF AcademyNext
  <1>2. CASE UNCHANGED academyVars
    <2>1. \A d \in AcademyCalls : OpOf(d)' = OpOf(d) /\ PcOf(d)' = PcOf(d)
      BY <1>2 DEF academyVars, OpOf, PcOf
    <2> QED BY <1>2, <2>1 DEF academyVars, progressVars, AcademyInv, FoundHolds, OneAtATime
  <1> QED BY <1>1, <1>2

\* A certificate is of a learner who passed, and of every required module somebody whose
\* progress the learner may read completed it, or the learner; as long as requests of a kind
\* do not overlap and queries answer there is one certificate and no attempt over the limit
\* (academy.functions.ts, submitFinalAttempt and issueMyCertificate).
THEOREM CertificateIsEarned == AcademySpec => []EarnedOnce
  <1>1. AcademyInit => AcademyInv
    BY AcademyInitInv
  <1>2. AcademyInv /\ [AcademyNext]_academyVars => AcademyInv'
    BY AcademyStepInv
  <1>3. AcademyInv => EarnedOnce
    BY DEF AcademyInv, FoundHolds, OneAtATime, EarnedOnce
  <1> QED BY <1>1, <1>2, <1>3, PTL DEF AcademySpec

LEMMA AcademyTypeStep == ASSUME AcademyTypeOK, [AcademyNext]_academyVars PROVE AcademyTypeOK'
  <1> DEFINE ShownOrToggled == \/ \E m \in Core : ToggleModule(m)
                               \/ \E S \in SUBSET Core : OthersShow(S)
  <1>0. /\ completed \subseteq Core /\ everCompleted \subseteq Core
        /\ shown \subseteq Core /\ everShown \subseteq Core
        /\ attempts \in Nat /\ certificates \in Nat
        /\ passed \in BOOLEAN /\ disturbed \in BOOLEAN
        /\ learnerCall \in [AcademyCalls -> LearnerRequests]
    BY DEF AcademyTypeOK
  <1>1. \A c \in AcademyCalls : \A r \in LearnerRequests :
          [learnerCall EXCEPT ![c] = r] \in [AcademyCalls -> LearnerRequests]
    BY <1>0
  <1>2. /\ [op |-> "attempt", pc |-> "insert"] \in LearnerRequests
        /\ \A pc \in {"progress", "attempts", "insert"} :
             [op |-> "certificate", pc |-> pc] \in LearnerRequests
        /\ NoLearnerCall \in LearnerRequests
    BY DEF LearnerRequests
  <1>3. learnerCall' \in [AcademyCalls -> LearnerRequests]
    <2>1. CASE ShownOrToggled
      BY <1>0, <2>1 DEF ToggleModule, OthersShow
    <2>2. ASSUME NEW c \in AcademyCalls, AcademyNext, ~ShownOrToggled
          PROVE  \E d \in AcademyCalls : \E r \in LearnerRequests :
                   learnerCall' = [learnerCall EXCEPT ![d] = r]
      BY <1>2, <2>2 DEF AcademyNext, OverlooksError, CountsAttempts, InsertsAttempt,
         FindsNoCertificate, FindsModules, FindsPass, InsertsCertificate, LearnerCallEnds,
         LearnerStep, LearnerAnswered
    <2>3. CASE UNCHANGED academyVars
      BY <1>0, <2>3 DEF academyVars, progressVars
    <2>4. CASE AcademyNext /\ ~ShownOrToggled
      <3>1. \E c \in AcademyCalls : TRUE
        BY <2>4 DEF AcademyNext
      <3> QED BY <1>1, <2>2, <2>4, <3>1
    <2> QED BY <1>0, <2>1, <2>3, <2>4
  <1>4. /\ completed' \subseteq Core /\ everCompleted' \subseteq Core
        /\ shown' \subseteq Core /\ everShown' \subseteq Core
    BY <1>0 DEF AcademyNext, academyVars, progressVars, ToggleModule, OthersShow,
       OverlooksError, CountsAttempts, InsertsAttempt, FindsNoCertificate, FindsModules, FindsPass, InsertsCertificate,
       LearnerCallEnds, LearnerStep, LearnerAnswered
  <1>5. attempts' \in Nat /\ certificates' \in Nat
    BY <1>0 DEF AcademyNext, academyVars, progressVars, ToggleModule, OthersShow,
       OverlooksError, CountsAttempts, InsertsAttempt, FindsNoCertificate, FindsModules, FindsPass, InsertsCertificate,
       LearnerCallEnds
  <1>6. passed' \in BOOLEAN
    <2>1. ASSUME NEW c \in AcademyCalls, NEW pass \in BOOLEAN, InsertsAttempt(c, pass)
          PROVE  passed' \in BOOLEAN
      BY <2>1 DEF InsertsAttempt
    <2>2. passed' = passed
          \/ \E c \in AcademyCalls : \E pass \in BOOLEAN : InsertsAttempt(c, pass)
      BY DEF AcademyNext, academyVars, progressVars, ToggleModule, OthersShow,
         OverlooksError, CountsAttempts, FindsNoCertificate, FindsModules, FindsPass, InsertsCertificate, LearnerCallEnds
    <2> QED BY <1>0, <2>1, <2>2
  <1>7. disturbed' \in BOOLEAN
    BY <1>0, Zenon DEF AcademyNext, academyVars, progressVars, ToggleModule, OthersShow,
       OverlooksError, CountsAttempts, InsertsAttempt, FindsNoCertificate, FindsModules, FindsPass, InsertsCertificate,
       LearnerCallEnds, LearnerStep, LearnerAnswered
  <1> QED BY <1>3, <1>4, <1>5, <1>6, <1>7 DEF AcademyTypeOK

\* Type correctness of a learner's progress, attempts and certificates
\* (academy.functions.ts).
THEOREM AcademyTypeCorrect == AcademySpec => []AcademyTypeOK
  <1>1. AcademyInit => AcademyTypeOK
    <2> SUFFICES ASSUME AcademyInit PROVE AcademyTypeOK
      OBVIOUS
    <2>1. passed \in BOOLEAN /\ disturbed \in BOOLEAN
      BY DEF AcademyInit
    <2>2. learnerCall \in [AcademyCalls -> LearnerRequests]
      BY DEF AcademyInit, LearnerRequests
    <2>3. attempts \in Nat /\ certificates \in Nat
      BY DEF AcademyInit
    <2>4. /\ completed \subseteq Core /\ everCompleted \subseteq Core
          /\ shown \subseteq Core /\ everShown \subseteq Core
      BY DEF AcademyInit
    <2> QED BY <2>1, <2>2, <2>3, <2>4 DEF AcademyTypeOK
  <1>2. AcademyTypeOK /\ [AcademyNext]_academyVars => AcademyTypeOK'
    BY AcademyTypeStep
  <1> QED BY <1>1, <1>2, PTL DEF AcademySpec
----------------------------------------------------------------------------
(* Deals with suppliers                                                    *)

\* What the ledger of a deal holds.
Has(d, kind) == \E n \in DOMAIN ledger : ledger[n].deal = d /\ ledger[n].kind = kind
HasPass(d) ==
  \E n \in DOMAIN ledger :
    ledger[n].deal = d /\ ledger[n].kind = "inspection_recorded" /\ ledger[n].result = "pass"

\* The rows of the deals, and the requests that act on what they read, never
\* claim more than the ledger holds.
RowsBacked ==
  \A d \in DealRefs :
    /\ Has(d, "reserved")
    /\ deals[d].result = "pass" => HasPass(d)
    /\ deals[d].status = "balance_due" => Has(d, "balance_due_marked")
RequestsBacked ==
  \A u \in DealUsers :
    /\ dealRequest[u].pc = "mark" => HasPass(dealRequest[u].deal)
    /\ dealRequest[u].pc = "confirm" => Has(dealRequest[u].deal, "balance_due_marked")

Backed == RowsBacked /\ RequestsBacked /\ TransitionOnce /\ MoneyFollowsInspection
DealInv == DealTypeOK /\ Backed

LEMMA DealInitInv == ASSUME DealInit PROVE DealInv
  <1>1. DealTypeOK
    BY DEF DealInit, DealTypeOK, DealRequests, Waiting, DealRefs
  <1>2. Backed
    BY DEF DealInit, Backed, RowsBacked, RequestsBacked, TransitionOnce,
           MoneyFollowsInspection, DealRefs, Waiting
  <1> QED BY <1>1, <1>2 DEF DealInv

----------------------------------------------------------------------------
\* What a request carries, by what it is about to do.
LEMMA DealRequestTypes ==
  ASSUME DealTypeOK, NEW u \in DealUsers
  PROVE  /\ dealRequest[u].pc = "decide" =>
              dealRequest[u].offer \in Offers /\ dealRequest[u].status \in {"accepted", "declined"}
         /\ dealRequest[u].pc = "reserve" =>
              dealRequest[u].offer \in Offers /\ dealRequest[u].key \in Keys
         /\ dealRequest[u].pc \in {"inspect", "mark", "confirm"} =>
              dealRequest[u].deal \in DealRefs /\ dealRequest[u].key \in Keys
         /\ dealRequest[u].pc = "inspect" => dealRequest[u].result \in InspectionResults
  BY DEF DealTypeOK, DealRequests, Waiting

\* A row, by its number.
LEMMA RowTypes ==
  ASSUME DealTypeOK, NEW d \in DealRefs
  PROVE  /\ deals[d] \in [offer : Offers, key : Keys, status : DealStatuses,
                          result : InspectionResults \cup {"none"}]
         /\ d \in Nat
  <1> DEFINE Rows == [offer : Offers, key : Keys, status : DealStatuses,
                      result : InspectionResults \cup {"none"}]
  <1>1. deals \in Seq(Rows)
    BY DEF DealTypeOK
  <1> HIDE DEF Rows
  <1>2. d \in 1 .. Len(deals) /\ deals[d] \in Rows /\ Len(deals) \in Nat
    BY <1>1 DEF DealRefs
  <1> QED BY <1>2 DEF Rows

\* A commit ends its request: the types of what is left.
LEMMA CommitTypes ==
  ASSUME DealTypeOK, NEW u \in DealUsers, Answered(u), UNCHANGED offer,
         deals' \in Seq([offer : Offers, key : Keys, status : DealStatuses,
                         result : InspectionResults \cup {"none"}]),
         ledger' \in Seq(Entry), DOMAIN deals \subseteq DOMAIN deals',
         \A n \in DOMAIN ledger' : ledger'[n].deal \in DOMAIN deals'
  PROVE  DealTypeOK'
  <1>1. dealRequest' \in [DealUsers -> DealRequests]
    BY DEF DealTypeOK, Answered, DealRequests
  <1>2. ASSUME NEW v \in DealUsers, dealRequest'[v].pc \in {"inspect", "mark", "confirm"}
        PROVE  dealRequest'[v].deal \in DealRefs'
    <2>1. v # u /\ dealRequest'[v] = dealRequest[v]
      BY <1>2 DEF DealTypeOK, Answered, Waiting
    <2> QED BY <1>2, <2>1 DEF DealTypeOK, DealRefs
  <1> QED BY <1>1, <1>2 DEF DealTypeOK, DealRefs

\* A commit that writes row d and appends an entry for a fresh key.
Writes(d, row, entry) ==
  /\ deals' = [deals EXCEPT ![d] = row]
  /\ ledger' = Append(ledger, entry)
  /\ ~Replayed(entry.key)

\* Entries are never removed or changed.
LEMMA LedgerGrows ==
  ASSUME DealTypeOK, NEW entry, ledger' = Append(ledger, entry)
  PROVE  /\ DOMAIN ledger' = DOMAIN ledger \cup {Len(ledger) + 1}
         /\ Len(ledger) \in Nat /\ DOMAIN ledger = 1 .. Len(ledger)
         /\ \A n \in DOMAIN ledger : ledger'[n] = ledger[n]
         /\ ledger'[Len(ledger) + 1] = entry
         /\ \A d, kind : Has(d, kind) => Has(d, kind)'
         /\ \A d : HasPass(d) => HasPass(d)'
  <1>1. /\ Len(ledger) \in Nat /\ DOMAIN ledger = 1 .. Len(ledger)
        /\ DOMAIN ledger' = DOMAIN ledger \cup {Len(ledger) + 1}
        /\ \A n \in DOMAIN ledger : ledger'[n] = ledger[n]
        /\ ledger'[Len(ledger) + 1] = entry
    BY DEF DealTypeOK
  <1>2. \A d, kind : Has(d, kind) => Has(d, kind)'
    BY <1>1 DEF Has
  <1>3. \A d : HasPass(d) => HasPass(d)'
    BY <1>1 DEF HasPass
  <1> QED BY <1>1, <1>2, <1>3

\* A new entry with a fresh key keeps the keys apart; one whose predecessors are
\* in the ledger keeps money behind the inspection.
LEMMA EntryAppended ==
  ASSUME DealTypeOK, TransitionOnce, MoneyFollowsInspection,
         NEW entry, ledger' = Append(ledger, entry), ~Replayed(entry.key),
         entry.kind = "balance_paid" => Has(entry.deal, "balance_due_marked"),
         entry.kind = "balance_due_marked" => HasPass(entry.deal),
         entry.kind # "reserved" => Has(entry.deal, "reserved")
  PROVE  TransitionOnce' /\ MoneyFollowsInspection'
  <1> DEFINE last == Len(ledger) + 1
  <1>0. /\ DOMAIN ledger' = DOMAIN ledger \cup {last}
        /\ Len(ledger) \in Nat /\ DOMAIN ledger = 1 .. Len(ledger)
        /\ \A n \in DOMAIN ledger : ledger'[n] = ledger[n]
        /\ ledger'[last] = entry
    BY LedgerGrows
  <1>1. TransitionOnce'
    BY <1>0 DEF TransitionOnce, Replayed
  <1>2. SUFFICES ASSUME NEW n \in DOMAIN ledger'
        PROVE  /\ ledger'[n].kind = "balance_paid" => Before(n, "balance_due_marked")' # {}
               /\ ledger'[n].kind = "balance_due_marked" =>
                    \E m \in Before(n, "inspection_recorded")' : ledger'[m].result = "pass"
               /\ ledger'[n].kind # "reserved" => Before(n, "reserved")' # {}
    BY <1>1 DEF MoneyFollowsInspection
  <1>3. CASE n \in DOMAIN ledger
    <2>1. n \in Nat /\ 1 .. (n - 1) \subseteq DOMAIN ledger
      BY <1>0, <1>3
    <2>2. \A kind : Before(n, kind)' = Before(n, kind)
      BY <1>0, <1>3, <2>1 DEF Before
    <2>3. \A m \in Before(n, "inspection_recorded") : ledger'[m] = ledger[m]
      BY <1>0, <2>1 DEF Before
    <2> QED BY ZenonT(40), <1>0, <1>3, <2>2, <2>3 DEF MoneyFollowsInspection
  <1>4. CASE n = last
    <2>1. 1 .. (n - 1) = DOMAIN ledger
      BY <1>0, <1>4
    <2>2. \A kind : Has(entry.deal, kind) => Before(n, kind)' # {}
      BY <1>0, <1>4, <2>1 DEF Has, Before
    <2>3. HasPass(entry.deal) => \E m \in Before(n, "inspection_recorded")' : ledger'[m].result = "pass"
      BY <1>0, <1>4, <2>1 DEF HasPass, Before
    <2> QED BY <1>0, <1>4, <2>2, <2>3
  <1> QED BY <1>0, <1>3, <1>4

\* A commit of a transition keeps the types and what is backed.
LEMMA TransitionStep ==
  ASSUME DealInv, NEW u \in DealUsers, NEW d \in DealRefs,
         dealRequest[u].deal = d, dealRequest[u].pc \in {"inspect", "mark", "confirm"},
         NEW row \in [offer : Offers, key : Keys, status : DealStatuses,
                      result : InspectionResults \cup {"none"}],
         NEW entry \in Entry, entry.deal = d, entry.key = dealRequest[u].key,
         Transition(u, d, row, entry),
         entry.kind = "balance_paid" => Has(d, "balance_due_marked"),
         entry.kind = "balance_due_marked" => HasPass(d),
         entry.kind # "reserved",
         row.result = "pass" =>
           deals[d].result = "pass" \/ (entry.kind = "inspection_recorded" /\ entry.result = "pass"),
         row.status = "balance_due" => entry.kind = "balance_due_marked"
  PROVE  DealInv'
  <1>0. DealTypeOK /\ RowsBacked /\ RequestsBacked /\ TransitionOnce /\ MoneyFollowsInspection
    BY DEF DealInv, Backed
  <1>1. /\ dealRequest'[u] = Waiting /\ UNCHANGED offer /\ Answered(u)
        /\ \A v \in DealUsers \ {u} : dealRequest'[v] = dealRequest[v]
        /\ dealRequest' \in [DealUsers -> DealRequests]
    BY <1>0 DEF Transition, Answered, DealTypeOK, DealRequests
  <1>2. CASE UNCHANGED <<deals, ledger>>
    <2>1. DealTypeOK'
      BY <1>0, <1>1, <1>2, CommitTypes DEF DealTypeOK, DealRefs
    <2>2. Backed'
      BY <1>0, <1>1, <1>2
        DEF Backed, RowsBacked, RequestsBacked, TransitionOnce, MoneyFollowsInspection, Before,
            DealRefs, Waiting, Has, HasPass
    <2> QED BY <2>1, <2>2 DEF DealInv
  <1>3. CASE Writes(d, row, entry)
    <2>1. /\ DOMAIN deals' = DOMAIN deals /\ deals'[d] = row
          /\ \A e \in DOMAIN deals \ {d} : deals'[e] = deals[e]
          /\ ledger' = Append(ledger, entry) /\ ~Replayed(entry.key)
      BY <1>0, <1>3 DEF Writes, DealTypeOK, DealRefs
    <2>2. /\ DOMAIN ledger' = DOMAIN ledger \cup {Len(ledger) + 1}
          /\ \A n \in DOMAIN ledger : ledger'[n] = ledger[n]
          /\ ledger'[Len(ledger) + 1] = entry
          /\ \A e, kind : Has(e, kind) => Has(e, kind)'
          /\ \A e : HasPass(e) => HasPass(e)'
      BY <1>0, <2>1, LedgerGrows
    <2>3. DealTypeOK'
      <3>1. deals' \in Seq([offer : Offers, key : Keys, status : DealStatuses,
                            result : InspectionResults \cup {"none"}])
        BY <1>0, <1>3 DEF Writes, DealTypeOK, DealRefs
      <3>2. ledger' \in Seq(Entry)
        BY <1>0, <2>1 DEF DealTypeOK
      <3>3. \A n \in DOMAIN ledger' : ledger'[n].deal \in DOMAIN deals'
        BY <1>0, <2>1, <2>2 DEF DealTypeOK, DealRefs
      <3> QED BY <1>0, <1>1, <2>1, <3>1, <3>2, <3>3, CommitTypes
    <2>4. TransitionOnce' /\ MoneyFollowsInspection'
      BY <1>0, <2>1, EntryAppended DEF RowsBacked
    <2>5. RowsBacked'
      <3>1. Has(d, entry.kind)'
        BY <2>2 DEF Has
      <3>2. entry.kind = "inspection_recorded" /\ entry.result = "pass" => HasPass(d)'
        BY <2>2 DEF HasPass
      <3> QED BY <1>0, <2>1, <2>2, <3>1, <3>2 DEF RowsBacked, DealRefs
    <2>6. RequestsBacked'
      BY <1>0, <1>1, <2>2 DEF RequestsBacked, Waiting
    <2> QED BY <2>3, <2>4, <2>5, <2>6 DEF DealInv, Backed
  <1> QED BY <1>2, <1>3 DEF Transition, Violates, Writes

\* A commit of reserve.
LEMMA ReserveStep ==
  ASSUME DealInv, NEW u \in DealUsers, Reserve(u)
  PROVE  DealInv'
  <1>0. DealTypeOK /\ RowsBacked /\ RequestsBacked /\ TransitionOnce /\ MoneyFollowsInspection
    BY DEF DealInv, Backed
  <1>1. /\ dealRequest'[u] = Waiting /\ UNCHANGED offer /\ Answered(u)
        /\ \A v \in DealUsers \ {u} : dealRequest'[v] = dealRequest[v]
        /\ dealRequest' \in [DealUsers -> DealRequests]
    BY <1>0 DEF Reserve, Answered, DealTypeOK, DealRequests
  <1>2. CASE UNCHANGED <<deals, ledger>>
    <2>1. DealTypeOK'
      BY <1>0, <1>1, <1>2, CommitTypes DEF DealTypeOK, DealRefs
    <2>2. Backed'
      BY <1>0, <1>1, <1>2
        DEF Backed, RowsBacked, RequestsBacked, TransitionOnce, MoneyFollowsInspection, Before,
            DealRefs, Waiting, Has, HasPass
    <2> QED BY <2>1, <2>2 DEF DealInv
  <1>3. CASE ~UNCHANGED <<deals, ledger>>
    <2> DEFINE k == dealRequest[u].key
               row == [offer |-> dealRequest[u].offer, key |-> k, status |-> "reserved",
                       result |-> "none"]
               entry == [deal |-> Len(deals) + 1, kind |-> "reserved", key |-> k]
    <2>1. deals' = Append(deals, row) /\ ledger' = Append(ledger, entry) /\ ~Replayed(entry.key)
      BY <1>3 DEF Reserve, Violates, NextRef
    <2>2. dealRequest[u].offer \in Offers /\ k \in Keys
      BY <1>0, DealRequestTypes DEF Reserve
    <2>3. /\ Len(deals) \in Nat /\ DOMAIN deals = 1 .. Len(deals)
          /\ DOMAIN deals' = DOMAIN deals \cup {Len(deals) + 1}
          /\ deals'[Len(deals) + 1] = row
          /\ \A e \in DOMAIN deals : deals'[e] = deals[e]
      BY <1>0, <2>1 DEF DealTypeOK
    <2>4. /\ DOMAIN ledger' = DOMAIN ledger \cup {Len(ledger) + 1}
          /\ \A n \in DOMAIN ledger : ledger'[n] = ledger[n]
          /\ ledger'[Len(ledger) + 1] = entry
          /\ \A e, kind : Has(e, kind) => Has(e, kind)'
          /\ \A e : HasPass(e) => HasPass(e)'
      BY <1>0, <2>1, LedgerGrows
    <2>5. DealTypeOK'
      <3>1. deals' \in Seq([offer : Offers, key : Keys, status : DealStatuses,
                            result : InspectionResults \cup {"none"}])
        BY <1>0, <2>1, <2>2 DEF DealTypeOK, DealStatuses
      <3>2. ledger' \in Seq(Entry)
        BY <1>0, <2>1, <2>2, <2>3 DEF DealTypeOK, Entry
      <3>3. \A n \in DOMAIN ledger' : ledger'[n].deal \in DOMAIN deals'
        BY <1>0, <2>3, <2>4 DEF DealTypeOK, DealRefs
      <3> QED BY <1>0, <1>1, <2>3, <3>1, <3>2, <3>3, CommitTypes
    <2>6. TransitionOnce' /\ MoneyFollowsInspection'
      BY <1>0, <2>1, EntryAppended
    <2>7. RowsBacked'
      <3>1. PICK d : d = Len(deals) + 1
        OBVIOUS
      <3>2. Has(d, "reserved")'
        BY <2>4, <3>1 DEF Has
      <3>3. /\ DealRefs' = DealRefs \cup {d} /\ deals'[d].result = "none"
            /\ deals'[d].status = "reserved"
        BY <2>3, <3>1 DEF DealRefs
      <3>4. \A e \in DealRefs : deals'[e] = deals[e]
        BY <2>3 DEF DealRefs
      <3> QED BY <1>0, <2>4, <3>2, <3>3, <3>4 DEF RowsBacked
    <2>8. RequestsBacked'
      BY <1>0, <1>1, <2>4 DEF RequestsBacked, Waiting
    <2> QED BY <2>5, <2>6, <2>7, <2>8 DEF DealInv, Backed
  <1> QED BY <1>2, <1>3

\* Reads, and the decision about an offer, leave deals and ledger alone.
LEMMA OtherStep ==
  ASSUME DealInv, NEW u \in DealUsers, DealReads(u) \/ DecideWrites(u)
  PROVE  DealInv'
  <1>0. DealTypeOK /\ RowsBacked /\ RequestsBacked /\ TransitionOnce /\ MoneyFollowsInspection
    BY DEF DealInv, Backed
  <1>1. UNCHANGED <<deals, ledger>>
    BY DEF DealReads, DecideWrites, DecideReads, ReserveReads, InspectReads, MarkReads, ConfirmReads
  <1>2. offer' \in [Offers -> {"submitted", "accepted", "declined"}]
    BY <1>0, DealRequestTypes DEF DealTypeOK, DealReads, DecideWrites, DecideReads, ReserveReads,
                              InspectReads, MarkReads, ConfirmReads
  <1>3. PICK r : dealRequest' = [dealRequest EXCEPT ![u] = r]
    BY DEF DealReads, DecideWrites, DecideReads, ReserveReads, InspectReads, MarkReads,
           ConfirmReads, Asks, Answered
  <1>4. /\ r \in DealRequests
        /\ r.pc \in {"inspect", "mark", "confirm"} => r.deal \in DealRefs
        /\ r.pc = "mark" => HasPass(r.deal)
        /\ r.pc = "confirm" => Has(r.deal, "balance_due_marked")
    <2>1. dealRequest'[u] = r
      BY <1>0, <1>3 DEF DealTypeOK
    <2>2. CASE DecideWrites(u)
      BY <2>1, <2>2, <1>0 DEF DecideWrites, Answered, Waiting, DealRequests, DealTypeOK
    <2>3. ASSUME NEW o \in Offers, NEW s \in {"accepted", "declined"}, DecideReads(u, o, s)
          PROVE  <1>4!1 /\ r.pc = "decide"
      BY <1>0, <2>1, <2>3 DEF DecideReads, Asks, DealRequests, DealTypeOK
    <2>4. ASSUME NEW o \in Offers, NEW k \in Keys, ReserveReads(u, o, k)
          PROVE  <1>4!1 /\ r.pc = "reserve"
      BY <1>0, <2>1, <2>4 DEF ReserveReads, Asks, DealRequests, DealTypeOK
    <2>5. ASSUME NEW d \in DealRefs, NEW k \in Keys, NEW result \in InspectionResults,
                 InspectReads(u, d, k, result)
          PROVE  <1>4!1 /\ r.pc = "inspect" /\ r.deal = d
      BY <1>0, <2>1, <2>5 DEF InspectReads, Asks, DealRequests, DealTypeOK, DealRefs
    <2>6. ASSUME NEW d \in DealRefs, NEW k \in Keys, MarkReads(u, d, k)
          PROVE  <1>4!1 /\ r.pc = "mark" /\ r.deal = d /\ HasPass(d)
      BY <1>0, <2>1, <2>6 DEF MarkReads, Passed, Asks, DealRequests, DealTypeOK, DealRefs, RowsBacked
    <2>7. ASSUME NEW d \in DealRefs, NEW k \in Keys, ConfirmReads(u, d, k)
          PROVE  <1>4!1 /\ r.pc = "confirm" /\ r.deal = d /\ Has(d, "balance_due_marked")
      BY <1>0, <2>1, <2>7 DEF ConfirmReads, Asks, DealRequests, DealTypeOK, DealRefs, RowsBacked
    <2> QED BY <2>2, <2>3, <2>4, <2>5, <2>6, <2>7 DEF DealReads
  <1>5. \A v \in DealUsers : dealRequest'[v] = IF v = u THEN r ELSE dealRequest[v]
    BY <1>0, <1>3 DEF DealTypeOK
  <1>6. DealTypeOK'
    BY <1>0, <1>1, <1>2, <1>3, <1>4, <1>5 DEF DealTypeOK, DealRefs
  <1>7. RowsBacked' /\ TransitionOnce' /\ MoneyFollowsInspection'
    BY <1>0, <1>1 DEF RowsBacked, TransitionOnce, MoneyFollowsInspection, Before, DealRefs, Has, HasPass
  <1>8. RequestsBacked'
    BY <1>0, <1>1, <1>4, <1>5 DEF RequestsBacked, Has, HasPass
  <1> QED BY <1>6, <1>7, <1>8 DEF DealInv, Backed

LEMMA DealStep ==
  ASSUME DealInv, [DealNext]_dealVars
  PROVE  DealInv'
  <1>0. DealTypeOK /\ RowsBacked /\ RequestsBacked
    BY DEF DealInv, Backed
  <1>1. ASSUME NEW u \in DealUsers, RecordInspectionResult(u) PROVE DealInv'
    <2> DEFINE r == dealRequest[u]
               row == [deals[r.deal] EXCEPT
                         !.status = IF r.result = "fail" THEN "inspection_failed" ELSE "inspected",
                         !.result = r.result]
               entry == [deal |-> r.deal, kind |-> "inspection_recorded", result |-> r.result,
                         key |-> r.key]
    <2>1. /\ r.deal \in DealRefs /\ r.key \in Keys /\ r.result \in InspectionResults
          /\ r.pc = "inspect" /\ Transition(u, r.deal, row, entry)
      BY <1>0, <1>1, DealRequestTypes DEF RecordInspectionResult
    <2>2. deals[r.deal] \in [offer : Offers, key : Keys, status : DealStatuses,
                             result : InspectionResults \cup {"none"}] /\ r.deal \in Nat
      BY <1>0, <2>1, RowTypes
    <2>3. /\ row \in [offer : Offers, key : Keys, status : DealStatuses,
                      result : InspectionResults \cup {"none"}]
          /\ row.result = r.result /\ row.status # "balance_due"
      BY <2>1, <2>2 DEF DealStatuses
    <2>4. entry \in Entry
      BY <2>1, <2>2 DEF Entry
    <2> HIDE DEF row
    <2> QED BY <2>1, <2>3, <2>4, TransitionStep
  <1>2. ASSUME NEW u \in DealUsers, MarkBalanceDue(u) PROVE DealInv'
    <2> DEFINE r == dealRequest[u]
               row == [deals[r.deal] EXCEPT !.status = "balance_due"]
               entry == [deal |-> r.deal, kind |-> "balance_due_marked", key |-> r.key]
    <2>1. /\ r.deal \in DealRefs /\ r.key \in Keys /\ HasPass(r.deal)
          /\ r.pc = "mark" /\ Transition(u, r.deal, row, entry)
      BY <1>0, <1>2, DealRequestTypes DEF MarkBalanceDue, RequestsBacked
    <2>2. deals[r.deal] \in [offer : Offers, key : Keys, status : DealStatuses,
                             result : InspectionResults \cup {"none"}] /\ r.deal \in Nat
      BY <1>0, <2>1, RowTypes
    <2>3. /\ row \in [offer : Offers, key : Keys, status : DealStatuses,
                      result : InspectionResults \cup {"none"}]
          /\ row.result = deals[r.deal].result
      BY <2>2 DEF DealStatuses
    <2>4. entry \in Entry
      BY <2>1, <2>2 DEF Entry
    <2> HIDE DEF row
    <2> QED BY <2>1, <2>3, <2>4, TransitionStep
  <1>3. ASSUME NEW u \in DealUsers, ConfirmBalancePaid(u) PROVE DealInv'
    <2> DEFINE r == dealRequest[u]
               row == [deals[r.deal] EXCEPT !.status = "paid"]
               entry == [deal |-> r.deal, kind |-> "balance_paid", key |-> r.key]
    <2>1. /\ r.deal \in DealRefs /\ r.key \in Keys /\ Has(r.deal, "balance_due_marked")
          /\ r.pc = "confirm" /\ Transition(u, r.deal, row, entry)
      BY <1>0, <1>3, DealRequestTypes DEF ConfirmBalancePaid, RequestsBacked
    <2>2. deals[r.deal] \in [offer : Offers, key : Keys, status : DealStatuses,
                             result : InspectionResults \cup {"none"}] /\ r.deal \in Nat
      BY <1>0, <2>1, RowTypes
    <2>3. /\ row \in [offer : Offers, key : Keys, status : DealStatuses,
                      result : InspectionResults \cup {"none"}]
          /\ row.result = deals[r.deal].result /\ row.status = "paid"
      BY <2>2 DEF DealStatuses
    <2>4. entry \in Entry
      BY <2>1, <2>2 DEF Entry
    <2> HIDE DEF row
    <2> QED BY <2>1, <2>3, <2>4, TransitionStep
  <1>4. CASE UNCHANGED dealVars
    BY <1>4 DEF dealVars, DealInv, DealTypeOK, Backed, RowsBacked, RequestsBacked, TransitionOnce,
                MoneyFollowsInspection, Before, DealRefs, Has, HasPass
  <1> QED BY <1>1, <1>2, <1>3, <1>4, ReserveStep, OtherStep DEF DealNext

----------------------------------------------------------------------------
\* The inductive invariant: rows and requests claim no more than the ledger
\* holds, and entries are only ever appended.
THEOREM LedgerInvariant == DealSpec => []DealInv
  <1>1. DealInit => DealInv
    BY DealInitInv
  <1>2. DealInv /\ [DealNext]_dealVars => DealInv'
    BY DealStep
  <1> QED BY <1>1, <1>2, PTL DEF DealSpec

\* A retried transition is applied once (withReplayGuard).
THEOREM OnceEach == DealSpec => []TransitionOnce
  <1>1. DealInv => TransitionOnce
    BY DEF DealInv, Backed
  <1> QED BY <1>1, LedgerInvariant, PTL

\* Money follows an inspection that passed (SupplierDealService).
THEOREM InspectedFirst == DealSpec => []MoneyFollowsInspection
  <1>1. DealInv => MoneyFollowsInspection
    BY DEF DealInv, Backed
  <1> QED BY <1>1, LedgerInvariant, PTL

----------------------------------------------------------------------------
(* Bank accounts                                                           *)

BankInv == BankTypeOK /\ ApprovalInv /\ ApproverInv /\ FourEyes

LEMMA BankInitInv == ASSUME BankInit PROVE BankInv
  <1> USE BankAssumption
  <1>1. BankTypeOK
    BY DEF BankInit, BankTypeOK, ApprovalSteps
  <1>2. ApprovalInv /\ ApproverInv /\ FourEyes
    BY DEF BankInit, ApprovalInv, ApproverInv, FourEyes, NoApproval
  <1> QED BY <1>1, <1>2 DEF BankInv

\* Approvals of a change are a finite set of people.
LEMMA ApproversFinite ==
  ASSUME BankTypeOK, NEW c \in Changes
  PROVE  IsFiniteSet(approvers[c]) /\ Cardinality(approvers[c]) \in Nat
  BY BankAssumption, FS_Subset, FS_CardinalityType DEF BankTypeOK

\* What a transaction that votes or commits carries.
LEMMA ApprovalTypes ==
  ASSUME BankTypeOK, NEW a \in Approvals
  PROVE  /\ approval[a].pc \in {"vote", "commit"} =>
              approval[a].change \in Changes /\ approval[a].by \in Finance
         /\ approval[a].pc = "commit" => approval[a].count \in Nat
         /\ approval[a].pc \in {"idle", "vote", "commit"}
  BY DEF BankTypeOK, ApprovalSteps, NoApproval

LEMMA BankTypeStep ==
  ASSUME BankTypeOK, [BankNext]_bankVars
  PROVE  BankTypeOK'
  <1> USE BankAssumption
  <1>1. ASSUME NEW c \in Changes, NEW u \in Finance, RequestChange(c, u) PROVE BankTypeOK'
    BY <1>1 DEF RequestChange, BankTypeOK
  <1>2. ASSUME NEW a \in Approvals, NEW c \in Changes, NEW u \in Finance, ReadApproval(a, c, u)
        PROVE  BankTypeOK'
    <2>1. [pc |-> "vote", change |-> c, by |-> u] \in ApprovalSteps
      BY DEF ApprovalSteps
    <2> QED BY <1>2, <2>1 DEF ReadApproval, BankTypeOK
  <1>3. ASSUME NEW a \in Approvals, Vote(a) PROVE BankTypeOK'
    <2>1. approval[a].change \in Changes /\ approval[a].by \in Finance
      BY <1>3, ApprovalTypes DEF Vote
    <2>2. SeenApprovals(approval[a].change) \in Nat
      BY <2>1, ApproversFinite DEF SeenApprovals
    <2>3. [pc |-> "commit", change |-> approval[a].change, by |-> approval[a].by,
           count |-> SeenApprovals(approval[a].change)] \in ApprovalSteps
      BY <2>1, <2>2 DEF ApprovalSteps
    <2>4. NoApproval \in ApprovalSteps
      BY DEF ApprovalSteps
    <2> QED BY <1>3, <2>3, <2>4 DEF Vote, BankTypeOK
  <1>4. ASSUME NEW a \in Approvals, CommitApproval(a) PROVE BankTypeOK'
    <2>1. approval[a].change \in Changes /\ approval[a].by \in Finance
      BY <1>4, ApprovalTypes DEF CommitApproval
    <2>2. NoApproval \in ApprovalSteps
      BY DEF ApprovalSteps
    <2> QED BY <1>4, <2>1, <2>2 DEF CommitApproval, BankTypeOK
  <1>5. CASE UNCHANGED bankVars
    BY <1>5 DEF bankVars, BankTypeOK
  <1> QED BY <1>1, <1>2, <1>3, <1>4, <1>5 DEF BankNext

\* Approvals are only ever added, so a count stays a lower bound.
LEMMA ApprovalStep ==
  ASSUME BankInv, [BankNext]_bankVars
  PROVE  ApprovalInv' /\ ApproverInv' /\ FourEyes'
  <1> USE BankAssumption
  <1>0. BankTypeOK /\ ApprovalInv /\ ApproverInv /\ FourEyes
    BY DEF BankInv
  <1>1. ASSUME NEW c \in Changes, NEW u \in Finance, RequestChange(c, u)
        PROVE  ApprovalInv' /\ ApproverInv' /\ FourEyes'
    <2>1. /\ approvers[c] = {} /\ changeStatus[c] = "none" /\ changeStatus'[c] # "none"
          /\ \A d \in Changes \ {c} : requestedBy'[d] = requestedBy[d] /\ changeStatus'[d] = changeStatus[d]
          /\ requestedBy'[c] = u /\ UNCHANGED <<approvers, account, approval>>
      BY <1>0, <1>1 DEF RequestChange, BankTypeOK, ApproverInv
    <2>2. \A a \in Approvals : approval[a].pc # "idle" =>
            approval[a].change \in Changes \ {c}
      BY <1>0, <2>1, ApprovalTypes DEF ApprovalInv
    <2>3. ApprovalInv'
      BY <1>0, <2>1, <2>2 DEF ApprovalInv
    <2>4. ApproverInv'
      BY <1>0, <2>1 DEF ApproverInv
    <2>5. \A s \in Suppliers : account[s] # NoChange => account[s] \in Changes \ {c}
      BY <1>0, <2>1 DEF FourEyes, BankTypeOK
    <2>6. FourEyes'
      BY <1>0, <2>1, <2>5 DEF FourEyes
    <2> QED BY <2>3, <2>4, <2>6
  <1>2. ASSUME NEW a \in Approvals, NEW c \in Changes, NEW u \in Finance, ReadApproval(a, c, u)
        PROVE  ApprovalInv' /\ ApproverInv' /\ FourEyes'
    <2>1. /\ approval'[a] = [pc |-> "vote", change |-> c, by |-> u]
          /\ \A b \in Approvals \ {a} : approval'[b] = approval[b]
          /\ u # requestedBy[c] /\ changeStatus[c] # "none"
          /\ UNCHANGED <<changeStatus, requestedBy, approvers, account>>
      BY <1>0, <1>2 DEF ReadApproval, MayApprove, BankTypeOK
    <2>2. ApprovalInv'
      BY <1>0, <2>1 DEF ApprovalInv
    <2> QED BY <1>0, <2>1, <2>2 DEF ApproverInv, FourEyes
  <1>3. ASSUME NEW a \in Approvals, Vote(a) PROVE ApprovalInv' /\ ApproverInv' /\ FourEyes'
    <2> DEFINE c == approval[a].change
    <2>1. c \in Changes /\ approval[a].by \in Finance
      BY <1>0, <1>3, ApprovalTypes DEF Vote
    <2>2. /\ \A b \in Approvals \ {a} : approval'[b] = approval[b]
          /\ UNCHANGED <<changeStatus, requestedBy, approvers, account>>
      BY <1>0, <1>3 DEF Vote, BankTypeOK
    <2>3. \/ approval'[a] = NoApproval
          \/ /\ approval[a].by \notin approvers[c]
             /\ \A b \in Approvals \ {a} :
                  ~(approval[b].pc = "commit" /\ approval[b].change = c
                    /\ approval[b].by = approval[a].by)
             /\ approval'[a] = [pc |-> "commit", change |-> c, by |-> approval[a].by,
                                count |-> Cardinality(approvers[c]) + 1]
      BY <1>0, <1>3 DEF Vote, AlreadyApproved, HeldByOther, SeenApprovals, BankTypeOK
    <2>4. Cardinality(approvers[c]) \in Nat
      BY <1>0, <2>1, ApproversFinite
    <2>5. approval[a].by # requestedBy[c] /\ changeStatus[c] # "none"
      BY <1>0, <1>3 DEF Vote, ApprovalInv
    <2>6. ApprovalInv'
      <3>1. CASE approval'[a] = NoApproval
        BY <1>0, <2>2, <3>1 DEF ApprovalInv, NoApproval
      <3>2. CASE approval'[a] # NoApproval
        BY <1>0, <2>2, <2>3, <2>4, <2>5, <3>2 DEF ApprovalInv
      <3> QED BY <3>1, <3>2
    <2> QED BY <1>0, <2>2, <2>6 DEF ApproverInv, FourEyes
  <1>4. ASSUME NEW a \in Approvals, CommitApproval(a)
        PROVE  ApprovalInv' /\ ApproverInv' /\ FourEyes'
    <2>1. PICK c \in Changes, u \in Finance :
            /\ c = approval[a].change /\ u = approval[a].by
            /\ u # requestedBy[c] /\ changeStatus[c] # "none" /\ u \notin approvers[c]
            /\ approval[a].count \in Nat /\ approval[a].count <= Cardinality(approvers[c]) + 1
      BY <1>0, <1>4, ApprovalTypes DEF CommitApproval, ApprovalInv
    <2>2. /\ \A b \in Approvals \ {a} : approval'[b] = approval[b]
          /\ approval'[a] = NoApproval /\ UNCHANGED requestedBy
          /\ approvers'[c] = approvers[c] \cup {u}
          /\ \A d \in Changes \ {c} : approvers'[d] = approvers[d] /\ changeStatus'[d] = changeStatus[d]
      BY <1>0, <1>4, <2>1 DEF CommitApproval, BankTypeOK
    <2>3. changeStatus'[c] # "none" /\ (changeStatus[c] = "applied" => changeStatus'[c] = "applied")
      BY <1>0, <1>4, <2>1 DEF CommitApproval, BankTypeOK
    <2>4. /\ Cardinality(approvers[c]) \in Nat
          /\ Cardinality(approvers'[c]) = Cardinality(approvers[c]) + 1
      BY ZenonT(40), <1>0, <2>1, <2>2, ApproversFinite, FS_AddElement
    <2>5. ApprovalInv'
      <3>1. ASSUME NEW b \in Approvals, b # a
            PROVE  /\ approval[b].pc # "idle" =>
                        approval[b].by # requestedBy[approval[b].change]
                        /\ changeStatus'[approval[b].change] # "none"
                   /\ approval[b].pc = "commit" =>
                        /\ approval[b].by \notin approvers'[approval[b].change]
                        /\ approval[b].count <= Cardinality(approvers'[approval[b].change]) + 1
        <4>1. CASE approval[b].pc # "idle" /\ approval[b].change = c
          BY <1>0, <1>4, <2>1, <2>2, <2>3, <2>4, <3>1, <4>1, ApprovalTypes
            DEF ApprovalInv, CommitApproval
        <4>2. CASE approval[b].pc # "idle" /\ approval[b].change # c
          BY <1>0, <2>2, <4>2, ApprovalTypes DEF ApprovalInv
        <4> QED BY <4>1, <4>2
      <3> QED BY <1>0, <2>2, <3>1 DEF ApprovalInv, NoApproval
    <2>6. ApproverInv'
      BY <1>0, <2>1, <2>2, <2>3 DEF ApproverInv
    <2>7. ASSUME NEW s \in Suppliers, account'[s] # NoChange
          PROVE  /\ SupplierOf[account'[s]] = s /\ changeStatus'[account'[s]] = "applied"
                 /\ Cardinality(approvers'[account'[s]]) >= REQUIRED_APPROVALS
                 /\ requestedBy'[account'[s]] \notin approvers'[account'[s]] \cup {Nobody}
      <3>1. CASE approval[a].count < REQUIRED_APPROVALS \/ SupplierOf[c] # s
        <4>1. account'[s] = account[s]
          BY <1>0, <1>4, <2>1, <3>1 DEF CommitApproval, BankTypeOK
        <4>2. CASE account[s] = c
          <5>1. /\ c # NoChange /\ SupplierOf[c] = s /\ changeStatus[c] = "applied"
                /\ Cardinality(approvers[c]) >= 2
            BY <1>0, <2>7, <4>1, <4>2 DEF FourEyes, REQUIRED_APPROVALS
          <5>2. requestedBy'[c] \notin approvers'[c] \cup {Nobody}
            BY <2>3, <2>6 DEF ApproverInv
          <5>3. Cardinality(approvers'[c]) >= REQUIRED_APPROVALS
            BY <2>4, <5>1 DEF REQUIRED_APPROVALS
          <5> QED BY <2>3, <4>1, <4>2, <5>1, <5>2, <5>3
        <4>3. CASE account[s] # c
          <5>1. account[s] \in Changes
            BY <1>0, <2>7, <4>1 DEF BankTypeOK
          <5> QED BY <1>0, <2>2, <2>7, <4>1, <4>3, <5>1 DEF FourEyes
        <4> QED BY <4>2, <4>3
      <3>2. CASE ~(approval[a].count < REQUIRED_APPROVALS) /\ SupplierOf[c] = s
        <4>1. account'[s] = c /\ changeStatus'[c] = "applied"
          BY <1>0, <1>4, <2>1, <3>2 DEF CommitApproval, BankTypeOK
        <4>2. Cardinality(approvers'[c]) >= REQUIRED_APPROVALS
          BY <2>1, <2>4, <3>2 DEF REQUIRED_APPROVALS
        <4>3. requestedBy'[c] \notin approvers'[c] \cup {Nobody}
          BY <1>0, <2>1, <2>2 DEF ApproverInv
        <4> QED BY <3>2, <4>1, <4>2, <4>3
      <3> QED BY <3>1, <3>2
    <2>8. FourEyes'
      BY <2>7 DEF FourEyes
    <2> QED BY <2>5, <2>6, <2>8
  <1>5. CASE UNCHANGED bankVars
    BY <1>0, <1>5 DEF bankVars, ApprovalInv, ApproverInv, FourEyes
  <1> QED BY <1>1, <1>2, <1>3, <1>4, <1>5 DEF BankNext

----------------------------------------------------------------------------
\* The inductive invariant: approvals only accumulate, and a transaction that
\* will commit counted no more of them than there will be.
THEOREM ApprovalInvariant == BankSpec => []BankInv
  <1>1. BankInit => BankInv
    BY BankInitInv
  <1>2. BankInv /\ [BankNext]_bankVars => BankInv'
    BY BankTypeStep, ApprovalStep DEF BankInv
  <1> QED BY <1>1, <1>2, PTL DEF BankSpec

\* Type correctness of SupplierBankService's rows and transactions.
THEOREM BankTypeCorrect == BankSpec => []BankTypeOK
  <1>1. BankInv => BankTypeOK
    BY DEF BankInv
  <1> QED BY <1>1, ApprovalInvariant, PTL

\* Dual control: no account is used that two people other than its requester
\* have not approved (SupplierBankService.approve).
THEOREM DualControl == BankSpec => []FourEyes
  <1>1. BankInv => FourEyes
    BY DEF BankInv
  <1> QED BY <1>1, ApprovalInvariant, PTL
============================================================================
