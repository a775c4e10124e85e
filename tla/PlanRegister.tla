---------------------------- MODULE PlanRegister ----------------------------
(***************************************************************************)
(* The planning register: initiatives and responsibilities.  Both have     *)
(* rules that relate fields a request may give one at a time, so that an   *)
(* update reads the row, merges what it was given into it, checks the      *)
(* rules on the result and later writes every field they are about.        *)
(* Names, kinds of work, dates beyond being set, and scope are left out.   *)
(***************************************************************************)
EXTENDS Naturals, FiniteSets

CONSTANTS
  Initiatives, Duties,   \* rows
  PlanCalls,             \* concurrent requests
  DutyPeople,            \* who may own or back up a duty
  NoBackup,
  MaxHours               \* bound of responseHours

ASSUME PlanAssumption == NoBackup \notin DutyPeople /\ MaxHours \in Nat

VARIABLES
  initiative,   \* the rows, NoInitiative before they are created
  duty,         \* the rows, NoDuty before they are created
  planCall      \* the row a request has merged and checked, and writes next

planVars == <<initiative, duty, planCall>>

Fields(row) == DOMAIN row

\* A request's fields over those of the row it read.
Merged(row, given, input) ==
  [f \in Fields(row) |-> IF f \in given THEN input[f] ELSE row[f]]

\* nextAction and reviewAt are there or not.
Attention == {"runs", "holds", "parked"}
InitiativeFields == [attention : Attention, nextAction : BOOLEAN, reviewAt : BOOLEAN]
Initiative == [fields : InitiativeFields, started : BOOLEAN]
NoInitiative == [fields |-> "none"]

\* No responseHours is 0: the rules refuse a clock of no hours.
Duty ==
  [kind : {"standing", "gate", "approval"}, owner : DutyPeople,
   backup : DutyPeople \cup {NoBackup}, hours : 0..MaxHours]
NoDuty == [kind |-> "none"]

NoPlanCall == [op |-> "idle"]
PlanRequests ==
  {NoPlanCall}
    \cup [op : {"initiative"}, on : Initiatives, write : InitiativeFields, starts : BOOLEAN]
    \cup [op : {"duty"}, on : Duties, write : Duty]

PlanTypeOK ==
  /\ initiative \in [Initiatives -> Initiative \cup {NoInitiative}]
  /\ duty \in [Duties -> Duty \cup {NoDuty}]
  /\ planCall \in [PlanCalls -> PlanRequests]

PlanInit ==
  /\ initiative = [i \in Initiatives |-> NoInitiative]
  /\ duty = [d \in Duties |-> NoDuty]
  /\ planCall = [c \in PlanCalls |-> NoPlanCall]

PlanAnswered(c) == planCall' = [planCall EXCEPT ![c] = NoPlanCall]

\* The database refuses a write, or the call dies before it.
PlanCallFails(c) ==
  /\ planCall[c] # NoPlanCall
  /\ PlanAnswered(c)
  /\ UNCHANGED <<initiative, duty>>

----------------------------------------------------------------------------
(* Initiatives                                                             *)

\* assertRegisterRules.
AssertRegisterRules(f) ==
  /\ f.attention = "runs" => f.nextAction
  /\ f.attention = "holds" => f.reviewAt

CreateInitiative(i, f) ==
  /\ initiative[i] = NoInitiative
  /\ AssertRegisterRules(f)
  /\ initiative' = [initiative EXCEPT ![i] = [fields |-> f, started |-> f.attention = "runs"]]
  /\ UNCHANGED <<duty, planCall>>

InitiativeReads(c, i, given, input) ==
  /\ planCall[c] = NoPlanCall /\ initiative[i] # NoInitiative
  /\ LET f == Merged(initiative[i].fields, given, input) IN
       /\ AssertRegisterRules(f)
       /\ planCall' = [planCall EXCEPT ![c] =
            [op |-> "initiative", on |-> i, write |-> f,
             starts |-> f.attention = "runs" /\ ~initiative[i].started]]
  /\ UNCHANGED <<initiative, duty>>

InitiativeWrites(c) ==
  /\ planCall[c].op = "initiative"
  /\ LET r == planCall[c] IN
       initiative' = [initiative EXCEPT ![r.on] =
         [fields |-> r.write, started |-> @.started \/ r.starts]]
  /\ PlanAnswered(c)
  /\ UNCHANGED duty

InitiativeNext ==
  \/ \E i \in Initiatives, f \in InitiativeFields : CreateInitiative(i, f)
  \/ \E c \in PlanCalls :
       \/ \E i \in Initiatives, input \in InitiativeFields :
            \E given \in SUBSET Fields(input) : InitiativeReads(c, i, given, input)
       \/ InitiativeWrites(c) \/ PlanCallFails(c)

----------------------------------------------------------------------------
(* Responsibilities                                                        *)

\* assertRules.
AssertRules(r) ==
  /\ r.kind = "approval" => r.hours # 0
  /\ r.kind # "standing" => r.backup # NoBackup /\ r.backup # r.owner

CreateDuty(d, r) ==
  /\ duty[d] = NoDuty
  /\ AssertRules(r)
  /\ duty' = [duty EXCEPT ![d] = r]
  /\ UNCHANGED <<initiative, planCall>>

DutyReads(c, d, given, input) ==
  /\ planCall[c] = NoPlanCall /\ duty[d] # NoDuty
  /\ LET r == Merged(duty[d], given, input) IN
       /\ AssertRules(r)
       /\ planCall' = [planCall EXCEPT ![c] = [op |-> "duty", on |-> d, write |-> r]]
  /\ UNCHANGED <<initiative, duty>>

\* Mutant: a change of owner does not carry the backup it was checked with.
OwnerAlone(row, checked) == [checked EXCEPT !.backup = row.backup]

\* What is written over a row: all the fields the rules relate, as they were checked.
AllChecked(row, checked) == checked

DutyWrites(c) ==
  /\ planCall[c].op = "duty"
  /\ LET r == planCall[c] IN duty' = [duty EXCEPT ![r.on] = AllChecked(@, r.write)]
  /\ PlanAnswered(c)
  /\ UNCHANGED initiative

DutyNext ==
  \/ \E d \in Duties, r \in Duty : CreateDuty(d, r)
  \/ \E c \in PlanCalls :
       \/ \E d \in Duties, input \in Duty :
            \E given \in SUBSET Fields(input) : DutyReads(c, d, given, input)
       \/ DutyWrites(c) \/ PlanCallFails(c)

PlanNext == InitiativeNext \/ DutyNext

PlanSpec == PlanInit /\ [][PlanNext]_planVars

----------------------------------------------------------------------------
(* Properties                                                              *)

\* Whatever requests cross, no initiative runs without a next action and a start or is
\* held without a date, no approval is without a clock, and no gate or approval has one
\* name against it: two updates that are each right leave a row that is.
RegisterRules ==
  /\ \A i \in Initiatives : initiative[i] # NoInitiative =>
       /\ AssertRegisterRules(initiative[i].fields)
       /\ initiative[i].fields.attention = "runs" => initiative[i].started
  /\ \A d \in Duties : duty[d] # NoDuty => AssertRules(duty[d])
============================================================================
