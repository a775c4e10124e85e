------------------------------- MODULE Cargo -------------------------------
(***************************************************************************)
(* Logistics: lots received in the warehouse, the commercial variance hold *)
(* and the QC release, destinations, the booking of packages on shipments, *)
(* and delivery.  The gates read packages and projections first and write  *)
(* in a later transaction, so requests of several users interleave.        *)
(***************************************************************************)
EXTENDS Naturals, FiniteSets

CONSTANTS
  Packages, Lots, Orders, POs, Destinations, Shipments,
  LotOf,     \* the lot of a package
  OrderOf,   \* the order of a lot
  POOf,      \* the purchase order of a lot
  Users,     \* concurrent warehouse, logistics and partner requests
  None       \* an unset reference

ASSUME CargoAssumption ==
  /\ LotOf \in [Packages -> Lots] /\ OrderOf \in [Lots -> Orders] /\ POOf \in [Lots -> POs]
  /\ None \notin Shipments /\ None \notin Destinations

VARIABLES
  receipt,      \* WarehouseReceipt per lot: none, clear or over the hard stop
  decided,      \* lots with a variance decision
  qcReleased, varianceHold, destination, shipmentRef, delivered, \* Package
  shipment,     \* Shipment.status
  container,    \* Shipment.destination
  paid,         \* OrderPaymentState: nothing, pre-loading or full payment
  blocked,      \* POs whose InspectionOutcome blocks the release
  request       \* what each user's request has read and is about to write

packageVars == <<qcReleased, varianceHold, destination, shipmentRef, delivered>>
lotVars == <<receipt, decided>>
shipmentVars == <<shipment, container>>
projectionVars == <<paid, blocked>>
vars == <<lotVars, packageVars, shipmentVars, projectionVars, request>>

Idle == [pc |-> "idle"]
PreLoading == 1
Full == 2
Received == {p \in Packages : receipt[LotOf[p]] # "none"}
OrderOfPackage(p) == OrderOf[LotOf[p]]
POOfPackage(p) == POOf[LotOf[p]]

Requests ==
  {Idle}
    \cup [pc : {"release"}, packages : SUBSET Packages]
    \cup [pc : {"book"}, packages : SUBSET Packages, destination : Destinations]
    \cup [pc : {"deliver"}, packages : SUBSET Packages, shipment : Shipments]

TypeOK ==
  /\ receipt \in [Lots -> {"none", "clear", "hard_stop"}]
  /\ decided \subseteq Lots
  /\ qcReleased \in SUBSET Packages
  /\ varianceHold \in SUBSET Packages
  /\ delivered \in SUBSET Packages
  /\ destination \in [Packages -> Destinations \cup {None}]
  /\ shipmentRef \in [Packages -> Shipments \cup {None}]
  /\ shipment \in [Shipments -> {"none", "planned", "delayed", "delivered"}]
  /\ container \in [Shipments -> Destinations \cup {None}]
  /\ paid \in [Orders -> 0..Full]
  /\ blocked \subseteq POs
  /\ request \in [Users -> Requests]
  /\ qcReleased \cup varianceHold \cup delivered \subseteq Received
  /\ \A p \in Packages : shipmentRef[p] # None => p \in Received

Init ==
  /\ receipt = [l \in Lots |-> "none"]
  /\ decided = {}
  /\ qcReleased = {} /\ varianceHold = {} /\ delivered = {}
  /\ destination = [p \in Packages |-> None]
  /\ shipmentRef = [p \in Packages |-> None]
  /\ shipment = [s \in Shipments |-> "none"]
  /\ container = [s \in Shipments |-> None]
  /\ paid = [o \in Orders |-> 0]
  /\ blocked = {}
  /\ request = [u \in Users |-> Idle]

----------------------------------------------------------------------------
(* ReceivingService                                                        *)

\* Beyond CBM_HARD_STOP every package of the lot is frozen.
Holds(l, status) == IF status = "hard_stop" THEN {p \in Packages : LotOf[p] = l} ELSE {}

\* receivePackages: once per lot (a replayed capture returns the stored receipt).
ReceivePackages(l) ==
  /\ receipt[l] = "none"
  /\ \E status \in {"clear", "hard_stop"} :
       /\ receipt' = [receipt EXCEPT ![l] = status]
       /\ varianceHold' = varianceHold \cup Holds(l, status)
  /\ UNCHANGED <<decided, qcReleased, destination, shipmentRef, delivered, shipmentVars,
                 projectionVars, request>>

\* resolveVariance: clears the commercial hold of the lot, and only that.
ResolveVariance(l) ==
  /\ receipt[l] # "none"
  /\ decided' = decided \cup {l}
  /\ varianceHold' = {p \in varianceHold : LotOf[p] # l}
  /\ UNCHANGED <<receipt, qcReleased, destination, shipmentRef, delivered, shipmentVars,
                 projectionVars, request>>

----------------------------------------------------------------------------
(* ReleaseService                                                          *)

\* Every operation on packages refuses an empty list (booking: explicitly,
\* delivery: at packages[0]) and unknown refs.
Known(P) == P # {} /\ P \subseteq Received

\* qcRelease, its reads: the packages exist and quality blocks none of their POs.
ReadRelease(u, P) ==
  /\ request[u] = Idle
  /\ Known(P)
  /\ \A p \in P : POOfPackage(p) \notin blocked
  /\ request' = [request EXCEPT ![u] = [pc |-> "release", packages |-> P]]
  /\ UNCHANGED <<lotVars, packageVars, shipmentVars, projectionVars>>

\* Mutant: releasing also clears the commercial hold (CF-014).
ClearsHold(P) == varianceHold \ P

\* varianceHold is intentionally not in the update.
KeepsHold(P) == varianceHold

QcRelease(u) ==
  LET P == request[u].packages IN
  /\ request[u].pc = "release"
  /\ qcReleased' = qcReleased \cup P
  /\ varianceHold' = KeepsHold(P)
  /\ request' = [request EXCEPT ![u] = Idle]
  /\ UNCHANGED <<lotVars, destination, shipmentRef, delivered, shipmentVars, projectionVars>>

\* allocateDestination: any package, at any time.
AllocateDestination(p, d) ==
  /\ p \in Received
  /\ destination' = [destination EXCEPT ![p] = d]
  /\ UNCHANGED <<lotVars, qcReleased, varianceHold, shipmentRef, delivered, shipmentVars,
                 projectionVars, request>>

----------------------------------------------------------------------------
(* ContainerService.createShipment                                         *)

\* Mutant: the QC precondition is taken for the whole release (CF-014).
NoVarianceGate(P) == P \subseteq qcReleased

\* The QC precondition and gate 1, on two separate fields.
QcAndVarianceGate(P) == P \subseteq qcReleased /\ P \cap varianceHold = {}

\* Gate 2: the pre-loading installment of every order behind the packages.
PaymentGate(P) == \A p \in P : paid[OrderOfPackage(p)] >= PreLoading

\* Gate 3: all packages are allocated, to one destination.
DestinationGate(P, d) == \A p \in P : destination[p] = d

ReadBooking(u, P, d) ==
  /\ request[u] = Idle
  /\ Known(P)
  /\ QcAndVarianceGate(P) /\ PaymentGate(P) /\ DestinationGate(P, d)
  /\ request' = [request EXCEPT ![u] = [pc |-> "book", packages |-> P, destination |-> d]]
  /\ UNCHANGED <<lotVars, packageVars, shipmentVars, projectionVars>>

\* The transaction: a new shipment, and its ref on the packages, whatever ref
\* they carried.
CreateShipment(u, s) ==
  LET r == request[u] IN
  /\ r.pc = "book"
  /\ shipment[s] = "none"
  /\ shipment' = [shipment EXCEPT ![s] = "planned"]
  /\ container' = [container EXCEPT ![s] = r.destination]
  /\ shipmentRef' = [p \in Packages |-> IF p \in r.packages THEN s ELSE shipmentRef[p]]
  /\ request' = [request EXCEPT ![u] = Idle]
  /\ UNCHANGED <<lotVars, qcReleased, varianceHold, destination, delivered, projectionVars>>

----------------------------------------------------------------------------
(* DeliveryService.deliver, TrackingService.delayShipment                  *)

\* CF-028: every order behind the packages is fully paid.
ReleaseGate(P) == \A p \in P : paid[OrderOfPackage(p)] = Full

\* The shipment exists and the packages exist; that the packages are on the
\* shipment is not checked.
ReadDelivery(u, s, P) ==
  /\ request[u] = Idle
  /\ shipment[s] # "none"
  /\ Known(P)
  /\ ReleaseGate(P)
  /\ request' = [request EXCEPT ![u] = [pc |-> "deliver", packages |-> P, shipment |-> s]]
  /\ UNCHANGED <<lotVars, packageVars, shipmentVars, projectionVars>>

Deliver(u) ==
  LET r == request[u] IN
  /\ r.pc = "deliver"
  /\ delivered' = delivered \cup r.packages
  /\ shipment' = [shipment EXCEPT ![r.shipment] = "delivered"]
  /\ request' = [request EXCEPT ![u] = Idle]
  /\ UNCHANGED <<lotVars, qcReleased, varianceHold, destination, shipmentRef, container,
                 projectionVars>>

\* delayShipment: whatever the status is.
DelayShipment(s) ==
  /\ shipment[s] # "none"
  /\ shipment' = [shipment EXCEPT ![s] = "delayed"]
  /\ UNCHANGED <<lotVars, packageVars, container, projectionVars, request>>

----------------------------------------------------------------------------
(* Projections: OrderPaymentService and QualityGateService.  Payments only *)
(* accumulate here; PaymentCorridor has the projection's own races.        *)

\* One payment can be both the pre-loading and the last one.
PaymentVerified(o) ==
  /\ \E level \in PreLoading..Full :
       /\ paid[o] < level
       /\ paid' = [paid EXCEPT ![o] = level]
  /\ UNCHANGED <<lotVars, packageVars, shipmentVars, blocked, request>>

InspectionHandled(po) ==
  /\ blocked' \in {blocked \cup {po}, blocked \ {po}}
  /\ UNCHANGED <<lotVars, packageVars, shipmentVars, paid, request>>

----------------------------------------------------------------------------
UserStep(u) ==
  \/ QcRelease(u) \/ Deliver(u)
  \/ \E s \in Shipments : CreateShipment(u, s)
  \/ \E P \in SUBSET Packages :
       \/ ReadRelease(u, P)
       \/ \E d \in Destinations : ReadBooking(u, P, d)
       \/ \E s \in Shipments : ReadDelivery(u, s, P)

\* Everything but the payments.
GoodsStep ==
  \/ \E u \in Users : UserStep(u)
  \/ \E l \in Lots : ReceivePackages(l) \/ ResolveVariance(l)
  \/ \E p \in Packages, d \in Destinations : AllocateDestination(p, d)
  \/ \E s \in Shipments : DelayShipment(s)
  \/ \E po \in POs : InspectionHandled(po)

Next == GoodsStep \/ \E o \in Orders : PaymentVerified(o)

Spec == Init /\ [][Next]_vars

----------------------------------------------------------------------------
(* Properties                                                              *)

\* CF-013, CF-014: the commercial hold of a lot over the hard stop is lifted by
\* a human decision and by nothing else, the QC release included.
HeldUntilDecided ==
  \A p \in Packages :
    receipt[LotOf[p]] = "hard_stop" /\ LotOf[p] \notin decided => p \in varianceHold

\* What sails passed every booking gate, though the gates were read before the
\* booking was written: released, not held, paid for loading and allocated.
SailsThroughGates ==
  \A p \in Packages :
    shipmentRef[p] # None =>
      /\ p \in qcReleased /\ p \notin varianceHold
      /\ paid[OrderOfPackage(p)] >= PreLoading
      /\ destination[p] # None

\* CF-028: goods are handed over only against full payment of their order.
DeliveredArePaid == \A p \in delivered : paid[OrderOfPackage(p)] = Full

\* What the proofs need besides: a request that will book or deliver stays
\* within the gates it read.
RequestInv ==
  \A u \in Users :
    /\ request[u].pc = "book" =>
         \A p \in request[u].packages :
           /\ p \in qcReleased /\ p \notin varianceHold
           /\ paid[OrderOfPackage(p)] >= PreLoading
           /\ destination[p] # None
    /\ request[u].pc = "deliver" =>
         \A p \in request[u].packages : paid[OrderOfPackage(p)] = Full
    /\ request[u].pc # "idle" => request[u].packages \subseteq Received
============================================================================
