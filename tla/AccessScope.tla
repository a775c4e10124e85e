---------------------------- MODULE AccessScope ----------------------------
(***************************************************************************)
(* Object scope: which records an actor may read by reference, and which   *)
(* rows the list of them selects.  The two are written twice in the code,  *)
(* as a predicate on a record and as a filter of a query, and have to      *)
(* agree.  The gate by role comes before both and is left out.             *)
(***************************************************************************)
CONSTANTS
  ScopeUsers, ScopeCustomers, ScopeShipments, ScopeDepartments,
  Unset       \* null, or a key the record does not carry

ASSUME ScopeAssumption ==
  Unset \notin ScopeUsers \cup ScopeCustomers \cup ScopeShipments \cup ScopeDepartments

Executives == {"ceo", "venture_manager"}
Internal == Executives \cup {"finance", "china_sourcing", "china_warehouse", "front_office"}
Roles == Internal \cup {"sales_agent", "logistics_partner", "pending"}

Actors ==
  [role : Roles, userId : ScopeUsers,
   customerIds : SUBSET ScopeCustomers, shipmentRefs : SUBSET ScopeShipments]

\* What a record tells about its scope; most carry one or two of the keys.
Scopable(customer, agent, shipment, kind, ref) ==
  [customerId |-> customer, agentId |-> agent, shipmentRef |-> shipment,
   kind |-> kind, ref |-> ref]

ShipmentKey(obj) ==
  IF obj.shipmentRef # Unset THEN obj.shipmentRef
  ELSE IF obj.kind = "shipment" THEN obj.ref ELSE Unset

\* inScope, the rule of a read by reference.
InScope(actor, obj) ==
  \/ actor.role \in Internal
  \/ /\ actor.role = "sales_agent"
     /\ obj.agentId = actor.userId \/ obj.customerId \in actor.customerIds
  \/ /\ actor.role = "logistics_partner"
     /\ ShipmentKey(obj) \in actor.shipmentRefs

\* How a project, quotation or order, a payment and a shipment are read by reference.
MayReadTrade(actor, row) ==
  InScope(actor, Scopable(row.customerRef, row.agentId, Unset, Unset, Unset))
MayReadPayment(actor, row) ==
  InScope(actor, Scopable(row.customerRef, Unset, Unset, Unset, Unset))
MayReadShipment(actor, row) ==
  InScope(actor, Scopable(Unset, Unset, row.ref, "shipment", row.ref))

\* The rows their lists select.
TradeScopeWhere(actor, row) ==
  CASE actor.role \in Internal -> TRUE
    [] actor.role = "sales_agent" ->
         row.agentId = actor.userId \/ row.customerRef \in actor.customerIds
    [] OTHER -> FALSE
FinanceScopeWhere(actor, row) ==
  CASE actor.role \in Internal -> TRUE
    [] actor.role = "sales_agent" -> row.customerRef \in actor.customerIds
    [] OTHER -> FALSE
ShipmentScopeWhere(actor, row) ==
  CASE actor.role \in Internal -> TRUE
    [] actor.role = "logistics_partner" -> row.ref \in actor.shipmentRefs
    [] OTHER -> FALSE

TradeRows == [customerRef : ScopeCustomers, agentId : ScopeUsers \cup {Unset}]
PaymentRows == [customerRef : ScopeCustomers]
ShipmentRows == [ref : ScopeShipments]

----------------------------------------------------------------------------
(* The Command Center: tasks and grants                                    *)

\* The departments of an actor's reports; profiles is the EmployeeProfile table.
ManagedDepartments(actor, profiles) ==
  {p.department : p \in {q \in profiles : q.manager = actor.userId}} \ {Unset}

CanSeeTask(actor, task, managed) ==
  \/ actor.role \in Executives
  \/ task.assignee = actor.userId \/ task.creator = actor.userId
  \/ task.department # Unset /\ task.department \in managed

TaskScopeWhere(actor, task, managed) ==
  actor.role \notin Executives =>
    \/ task.assignee = actor.userId
    \/ task.creator = actor.userId
    \/ managed # {} /\ task.department \in managed

CanSeeGrant(actor, owner) ==
  actor.role \in Executives \/ (owner # Unset /\ owner = actor.userId)

GrantScopeWhere(actor, owner) == actor.role \notin Executives => owner = actor.userId

TaskRows ==
  [assignee : ScopeUsers, creator : ScopeUsers, department : ScopeDepartments \cup {Unset}]
Profiles ==
  [manager : ScopeUsers \cup {Unset}, department : ScopeDepartments \cup {Unset}]
============================================================================
