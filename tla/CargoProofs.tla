---------------------------- MODULE CargoProofs ----------------------------
(* Proofs about the warehouse: no interleaving of requests takes a package *)
(* past a gate, and the commercial hold of a lot lasts until a human       *)
(* decides.  Whatever sets the projection of what was paid, as long as it  *)
(* only grows: OrderToDelivery takes the money finance has for it.         *)
EXTENDS Cargo, TLAPS

(* The warehouse and shipping                                              *)

\* What a request carries, by what it is about to do.
LEMMA CargoRequestTypes ==
  ASSUME TypeOK, NEW u \in Users
  PROVE  /\ request[u].pc = "release" => request[u].packages \in SUBSET Packages
         /\ request[u].pc = "book" =>
              /\ request[u].packages \in SUBSET Packages
              /\ request[u].destination \in Destinations
         /\ request[u].pc = "deliver" =>
              /\ request[u].packages \in SUBSET Packages
              /\ request[u].shipment \in Shipments
  BY DEF TypeOK, Requests, Idle

Gates == RequestInv /\ SailsThroughGates /\ DeliveredArePaid
CargoInv == TypeOK /\ Gates

LEMMA CargoInitInv == ASSUME Init PROVE CargoInv /\ HeldUntilDecided
  <1> USE CargoAssumption
  <1>1. TypeOK
    BY DEF Init, TypeOK, Requests, Idle, Received, Full
  <1>2. Gates
    BY DEF Init, Gates, RequestInv, SailsThroughGates, DeliveredArePaid, Idle
  <1>3. HeldUntilDecided
    BY DEF Init, HeldUntilDecided
  <1> QED BY <1>1, <1>2, <1>3 DEF CargoInv

----------------------------------------------------------------------------
(* Types                                                                   *)

\* Every step keeps the types; a request acts on packages that were received.
LEMMA CargoTypeStep ==
  ASSUME TypeOK, RequestInv, [Next]_vars
  PROVE  TypeOK'
  <1> USE CargoAssumption
  <1>0. Received \subseteq Packages /\ \A p \in Packages : LotOf[p] \in Lots /\ OrderOfPackage(p) \in Orders
    BY DEF Received, OrderOfPackage
  <1>1. ASSUME NEW l \in Lots, ReceivePackages(l) PROVE TypeOK'
    <2>1. Received \subseteq Received'
      BY <1>1 DEF ReceivePackages, Received, TypeOK
    <2>2. varianceHold' \in SUBSET Packages /\ varianceHold' \subseteq Received'
      BY <1>1, <2>1 DEF ReceivePackages, Holds, Received, TypeOK
    <2> QED BY <1>1, <2>1, <2>2
      DEF ReceivePackages, TypeOK, shipmentVars, projectionVars, Requests
  <1>2. ASSUME NEW l \in Lots, ResolveVariance(l) PROVE TypeOK'
    BY <1>2 DEF ResolveVariance, TypeOK, Received, shipmentVars, projectionVars
  <1>3. ASSUME NEW u \in Users, NEW P \in SUBSET Packages, ReadRelease(u, P) PROVE TypeOK'
    <2>1. [pc |-> "release", packages |-> P] \in Requests
      BY DEF Requests
    <2> QED BY <1>3, <2>1
      DEF ReadRelease, TypeOK, Received, lotVars, packageVars, shipmentVars, projectionVars
  <1>4. ASSUME NEW u \in Users, QcRelease(u) PROVE TypeOK'
    <2>1. request[u].packages \in SUBSET Packages /\ request[u].packages \subseteq Received
      BY <1>4, CargoRequestTypes DEF QcRelease, RequestInv
    <2>2. Idle \in Requests
      BY DEF Requests
    <2> QED BY <1>4, <2>1, <2>2
      DEF QcRelease, KeepsHold, TypeOK, Received, lotVars, shipmentVars, projectionVars
  <1>5. ASSUME NEW p \in Packages, NEW d \in Destinations, AllocateDestination(p, d) PROVE TypeOK'
    BY <1>5 DEF AllocateDestination, TypeOK, Received, lotVars, shipmentVars, projectionVars
  <1>6. ASSUME NEW u \in Users, NEW P \in SUBSET Packages, NEW d \in Destinations,
               ReadBooking(u, P, d)
        PROVE  TypeOK'
    <2>1. [pc |-> "book", packages |-> P, destination |-> d] \in Requests
      BY DEF Requests
    <2> QED BY <1>6, <2>1
      DEF ReadBooking, TypeOK, Received, lotVars, packageVars, shipmentVars, projectionVars
  <1>7. ASSUME NEW u \in Users, NEW s \in Shipments, CreateShipment(u, s) PROVE TypeOK'
    <2>1. /\ request[u].packages \in SUBSET Packages /\ request[u].packages \subseteq Received
          /\ request[u].destination \in Destinations
      BY <1>7, CargoRequestTypes DEF CreateShipment, RequestInv
    <2>2. Idle \in Requests
      BY DEF Requests
    <2> QED BY <1>7, <2>1, <2>2
      DEF CreateShipment, TypeOK, Received, lotVars, projectionVars
  <1>8. ASSUME NEW u \in Users, NEW s \in Shipments, NEW P \in SUBSET Packages,
               ReadDelivery(u, s, P)
        PROVE  TypeOK'
    <2>1. [pc |-> "deliver", packages |-> P, shipment |-> s] \in Requests
      BY DEF Requests
    <2> QED BY <1>8, <2>1
      DEF ReadDelivery, TypeOK, Received, lotVars, packageVars, shipmentVars, projectionVars
  <1>9. ASSUME NEW u \in Users, Deliver(u) PROVE TypeOK'
    <2>1. /\ request[u].packages \in SUBSET Packages /\ request[u].packages \subseteq Received
          /\ request[u].shipment \in Shipments
      BY <1>9, CargoRequestTypes DEF Deliver, RequestInv
    <2>2. Idle \in Requests
      BY DEF Requests
    <2> QED BY <1>9, <2>1, <2>2
      DEF Deliver, TypeOK, Received, lotVars, projectionVars
  <1>10. ASSUME NEW s \in Shipments, DelayShipment(s) PROVE TypeOK'
    BY <1>10 DEF DelayShipment, TypeOK, Received, lotVars, packageVars, projectionVars
  <1>11. ASSUME NEW o \in Orders, PaymentVerified(o) PROVE TypeOK'
    BY <1>11 DEF PaymentVerified, Full, TypeOK, Received, lotVars, packageVars, shipmentVars
  <1>12. ASSUME NEW po \in POs, InspectionHandled(po) PROVE TypeOK'
    BY <1>12 DEF InspectionHandled, TypeOK, Received, lotVars, packageVars, shipmentVars
  <1>13. CASE UNCHANGED vars
    BY <1>13 DEF vars, TypeOK, Received, lotVars, packageVars, shipmentVars, projectionVars
  <1> QED BY <1>1, <1>2, <1>3, <1>4, <1>5, <1>6, <1>7, <1>8, <1>9, <1>10, <1>11, <1>12, <1>13
    DEF Next, GoodsStep, UserStep

----------------------------------------------------------------------------
(* The gates                                                               *)

\* A step that leaves the release, the hold, the destinations and the payments
\* of every received package at least as good as they were keeps what the
\* requests have read true.
NoWorse ==
  /\ qcReleased \subseteq qcReleased'
  /\ varianceHold' \cap Received \subseteq varianceHold
  /\ \A p \in Packages :
       /\ destination[p] # None => destination'[p] # None
       /\ paid'[OrderOfPackage(p)] \in Nat
       /\ paid'[OrderOfPackage(p)] <= Full
       /\ paid[OrderOfPackage(p)] <= paid'[OrderOfPackage(p)]

\* Nothing any request or handler does makes a received package fail a gate it
\* passed: the flags the gates read only move towards open once goods are in.
LEMMA NeverWorse ==
  ASSUME TypeOK, RequestInv, [Next]_vars
  PROVE  NoWorse
  <1> USE CargoAssumption
  <1>0. \A p \in Packages :
          /\ LotOf[p] \in Lots /\ OrderOfPackage(p) \in Orders
          /\ paid[OrderOfPackage(p)] \in Nat /\ paid[OrderOfPackage(p)] <= Full
    BY DEF OrderOfPackage, TypeOK, Full
  <1>1. ASSUME NEW l \in Lots, ReceivePackages(l) PROVE NoWorse
    <2>1. varianceHold' \cap Received \subseteq varianceHold
      BY <1>1 DEF ReceivePackages, Holds, Received
    <2> QED BY <1>0, <1>1, <2>1 DEF ReceivePackages, NoWorse, projectionVars
  <1>2. ASSUME NEW l \in Lots, ResolveVariance(l) PROVE NoWorse
    BY <1>0, <1>2 DEF ResolveVariance, NoWorse, projectionVars
  <1>3. ASSUME NEW u \in Users, QcRelease(u) PROVE NoWorse
    BY <1>0, <1>3 DEF QcRelease, KeepsHold, NoWorse, projectionVars
  <1>4. ASSUME NEW p \in Packages, NEW d \in Destinations, AllocateDestination(p, d) PROVE NoWorse
    BY <1>0, <1>4 DEF AllocateDestination, NoWorse, projectionVars, TypeOK
  <1>5. ASSUME NEW o \in Orders, PaymentVerified(o) PROVE NoWorse
    BY <1>0, <1>5 DEF PaymentVerified, NoWorse, packageVars, TypeOK, Full
  <1>6. ASSUME UNCHANGED <<qcReleased, varianceHold, destination, paid>> PROVE NoWorse
    BY <1>0, <1>6 DEF NoWorse
  <1>7. CASE UNCHANGED vars
    BY <1>6, <1>7 DEF vars, packageVars, projectionVars
  <1>8. CASE Next
    BY <1>1, <1>2, <1>3, <1>4, <1>5, <1>6, <1>8
      DEF Next, GoodsStep, UserStep, ReadRelease, ReadBooking, ReadDelivery, CreateShipment, Deliver,
          DelayShipment, InspectionHandled, packageVars, projectionVars
  <1> QED BY <1>7, <1>8

\* The packages of a request that books passed every booking gate, those of one
\* that delivers are fully paid.
RequestOK(r) ==
  /\ r.pc = "book" =>
       \A p \in r.packages :
         /\ p \in qcReleased /\ p \notin varianceHold
         /\ paid[OrderOfPackage(p)] >= PreLoading
         /\ destination[p] # None
  /\ r.pc = "deliver" => \A p \in r.packages : paid[OrderOfPackage(p)] = Full
  /\ r.pc # "idle" => r.packages \subseteq Received

\* A request that is kept, or whose gates were read in this step, stays within
\* the gates.
LEMMA RequestStep ==
  ASSUME TypeOK, RequestInv, [Next]_vars
  PROVE  RequestInv'
  <1> USE CargoAssumption
  <1>0. NoWorse /\ TypeOK'
    BY NeverWorse, CargoTypeStep
  <1>1. Received \subseteq Received'
    BY DEF Next, GoodsStep, UserStep, vars, Received, ReceivePackages, ResolveVariance, ReadRelease,
           QcRelease, AllocateDestination, ReadBooking, CreateShipment, ReadDelivery, Deliver,
           DelayShipment, PaymentVerified, InspectionHandled, lotVars, TypeOK
  <1>2. SUFFICES ASSUME NEW v \in Users PROVE RequestOK(request[v])'
    BY <1>2 DEF RequestInv, RequestOK
  <1>3. RequestOK(request[v])
    BY DEF RequestInv, RequestOK
  <1>4. CASE request'[v] = request[v]
    <2>1. \A p \in request[v].packages : request[v].pc # "idle" => p \in Packages /\ p \in Received
      BY <1>3 DEF RequestOK, Received
    <2> QED BY <1>0, <1>1, <1>3, <1>4, <2>1 DEF RequestOK, NoWorse, Full, PreLoading, TypeOK, OrderOfPackage
  <1>5. CASE request'[v] # request[v]
    <2>1. CASE request'[v] = Idle
      BY <2>1 DEF RequestOK, Idle
    <2>2. ASSUME NEW P \in SUBSET Packages, ReadRelease(v, P) PROVE RequestOK(request[v])'
      <3>1. request'[v] = [pc |-> "release", packages |-> P] /\ P \subseteq Received
        BY <2>2 DEF ReadRelease, Known, TypeOK
      <3> QED BY <1>1, <3>1 DEF RequestOK
    <2>3. ASSUME NEW P \in SUBSET Packages, NEW d \in Destinations, ReadBooking(v, P, d)
          PROVE  RequestOK(request[v])'
      <3>1. request'[v] = [pc |-> "book", packages |-> P, destination |-> d] /\ P \subseteq Received
        BY <2>3 DEF ReadBooking, Known, TypeOK
      <3> QED BY <1>1, <2>3, <3>1
        DEF RequestOK, ReadBooking, QcAndVarianceGate, PaymentGate, DestinationGate,
            packageVars, projectionVars, OrderOfPackage
    <2>4. ASSUME NEW P \in SUBSET Packages, NEW s \in Shipments, ReadDelivery(v, s, P)
          PROVE  RequestOK(request[v])'
      <3>1. request'[v] = [pc |-> "deliver", packages |-> P, shipment |-> s] /\ P \subseteq Received
        BY <2>4 DEF ReadDelivery, Known, TypeOK
      <3> QED BY <1>1, <2>4, <3>1
        DEF RequestOK, ReadDelivery, ReleaseGate, projectionVars, OrderOfPackage
    <2>5. request'[v] = Idle \/ (\E P \in SUBSET Packages :
            \/ ReadRelease(v, P)
            \/ \E d \in Destinations : ReadBooking(v, P, d)
            \/ \E s \in Shipments : ReadDelivery(v, s, P))
      <3>1. request' # request
        BY <1>5
      <3>2. PICK u \in Users : UserStep(u)
        BY <3>1 DEF Next, GoodsStep, vars, ReceivePackages, ResolveVariance, AllocateDestination,
                    DelayShipment, PaymentVerified, InspectionHandled
      <3>3. \E r : request' = [request EXCEPT ![u] = r]
        BY <3>2 DEF UserStep, QcRelease, Deliver, CreateShipment, ReadRelease, ReadBooking, ReadDelivery
      <3>4. u = v
        BY <1>5, <3>3 DEF TypeOK
      <3> QED BY <3>2, <3>4 DEF UserStep, QcRelease, Deliver, CreateShipment, TypeOK
    <2> QED BY <2>1, <2>2, <2>3, <2>4, <2>5
  <1> QED BY <1>4, <1>5

\* What is on a shipment passed its gates when the request read them, and none of
\* them has closed since.
LEMMA SailsStep ==
  ASSUME TypeOK, RequestInv, SailsThroughGates, [Next]_vars
  PROVE  SailsThroughGates'
  <1> USE CargoAssumption
  <1>0. NoWorse /\ TypeOK'
    BY NeverWorse, CargoTypeStep
  <1>1. SUFFICES ASSUME NEW p \in Packages, shipmentRef'[p] # None
        PROVE  /\ p \in qcReleased' /\ p \notin varianceHold'
               /\ paid'[OrderOfPackage(p)] >= PreLoading
               /\ destination'[p] # None
    BY DEF SailsThroughGates, OrderOfPackage
  <1>2. CASE shipmentRef[p] # None
    BY <1>0, <1>2 DEF SailsThroughGates, NoWorse, TypeOK, PreLoading, Full, OrderOfPackage
  <1>3. CASE shipmentRef[p] = None
    <2>1. PICK u \in Users, s \in Shipments : CreateShipment(u, s)
      BY <1>1, <1>3 DEF Next, GoodsStep, UserStep, vars, packageVars, ReceivePackages, ResolveVariance,
           ReadRelease, QcRelease, AllocateDestination, ReadBooking, ReadDelivery, Deliver,
           DelayShipment, PaymentVerified, InspectionHandled
    <2>2. p \in request[u].packages
      BY <1>1, <1>3, <2>1 DEF CreateShipment
    <2> QED BY <2>1, <2>2 DEF CreateShipment, RequestInv, projectionVars, OrderOfPackage
  <1> QED BY <1>2, <1>3

\* A package is handed over when its order was fully paid, and payments are not
\* taken back.
LEMMA PaidStep ==
  ASSUME TypeOK, RequestInv, DeliveredArePaid, [Next]_vars
  PROVE  DeliveredArePaid'
  <1> USE CargoAssumption
  <1>0. NoWorse /\ TypeOK'
    BY NeverWorse, CargoTypeStep
  <1>1. SUFFICES ASSUME NEW p \in delivered' PROVE paid'[OrderOfPackage(p)] = Full
    BY DEF DeliveredArePaid, OrderOfPackage
  <1>2. p \in Packages
    BY <1>0 DEF TypeOK
  <1>3. CASE p \in delivered
    BY <1>0, <1>2, <1>3 DEF DeliveredArePaid, NoWorse, Full, OrderOfPackage
  <1>4. CASE p \notin delivered
    <2>1. PICK u \in Users : Deliver(u)
      BY <1>1, <1>4 DEF Next, GoodsStep, UserStep, vars, packageVars, ReceivePackages, ResolveVariance,
           ReadRelease, QcRelease, AllocateDestination, ReadBooking, ReadDelivery,
           CreateShipment, DelayShipment, PaymentVerified, InspectionHandled
    <2> QED BY <1>1, <1>4, <2>1 DEF Deliver, RequestInv, projectionVars, OrderOfPackage
  <1> QED BY <1>3, <1>4

\* The hold of a lot over the hard stop is only lifted with its decision.
LEMMA HeldStep ==
  ASSUME TypeOK, HeldUntilDecided, [Next]_vars
  PROVE  HeldUntilDecided'
  <1> USE CargoAssumption
  <1>0. \A p \in Packages : LotOf[p] \in Lots
    OBVIOUS
  <1>1. ASSUME NEW l \in Lots, ReceivePackages(l) PROVE HeldUntilDecided'
    BY <1>0, <1>1 DEF ReceivePackages, Holds, HeldUntilDecided, TypeOK
  <1>2. ASSUME NEW l \in Lots, ResolveVariance(l) PROVE HeldUntilDecided'
    BY <1>0, <1>2 DEF ResolveVariance, HeldUntilDecided, TypeOK
  <1>3. ASSUME UNCHANGED <<receipt, decided, varianceHold>> PROVE HeldUntilDecided'
    BY <1>3 DEF HeldUntilDecided
  <1>4. CASE UNCHANGED vars
    BY <1>3, <1>4 DEF vars, lotVars, packageVars
  <1>5. CASE Next
    BY <1>1, <1>2, <1>3, <1>5
      DEF Next, GoodsStep, UserStep, ReadRelease, QcRelease, KeepsHold, AllocateDestination, ReadBooking,
          CreateShipment, ReadDelivery, Deliver, DelayShipment, PaymentVerified,
          InspectionHandled, lotVars, packageVars
  <1> QED BY <1>4, <1>5

----------------------------------------------------------------------------
\* The inductive invariant: the types, what the requests have read, and the two
\* gates.
THEOREM GateInvariant == Spec => []CargoInv
  <1>1. Init => CargoInv
    BY CargoInitInv
  <1>2. CargoInv /\ [Next]_vars => CargoInv'
    BY CargoTypeStep, RequestStep, SailsStep, PaidStep DEF CargoInv, Gates
  <1> QED BY <1>1, <1>2, PTL DEF Spec

\* Type correctness (ReceivingService, ReleaseService, ContainerService,
\* DeliveryService).
THEOREM CargoTypeCorrect == Spec => []TypeOK
  <1>1. CargoInv => TypeOK
    BY DEF CargoInv
  <1> QED BY <1>1, GateInvariant, PTL

\* CF-013, CF-014: a lot over the hard stop stays frozen until a human decides.
THEOREM HoldsLast == Spec => []HeldUntilDecided
  <1>1. Init => HeldUntilDecided
    BY CargoInitInv
  <1>2. TypeOK /\ HeldUntilDecided /\ [Next]_vars => HeldUntilDecided'
    BY HeldStep
  <1> QED BY <1>1, <1>2, CargoTypeCorrect, PTL DEF Spec

\* No interleaving books a package past a gate (ContainerService.createShipment).
THEOREM GatesHold == Spec => []SailsThroughGates
  <1>1. CargoInv => SailsThroughGates
    BY DEF CargoInv, Gates
  <1> QED BY <1>1, GateInvariant, PTL

\* CF-028: nothing is handed over before full payment (DeliveryService.deliver).
THEOREM PaidFirst == Spec => []DeliveredArePaid
  <1>1. CargoInv => DeliveredArePaid
    BY DEF CargoInv, Gates
  <1> QED BY <1>1, GateInvariant, PTL
============================================================================
