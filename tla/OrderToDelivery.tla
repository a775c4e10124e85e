-------------------------- MODULE OrderToDelivery --------------------------
(***************************************************************************)
(* From the money of an order to its goods: PaymentCorridor and Cargo over *)
(* the projection that logistics keeps of what was paid (OrderPaymentState).*)
(* The corridor writes it from events that come late, in any order, and    *)
(* sometimes sets it back; the booking and delivery gates of the warehouse *)
(* read it, and act later.                                                 *)
(***************************************************************************)
EXTENDS PaymentCorridor

CONSTANTS Packages, Lots, POs, Destinations, Shipments, LotOf, OrderOf, POOf, Users, None

\* Every package has its lot, every lot its order and its purchase order.
ASSUME FlowAssumption ==
  /\ LotOf \in [Packages -> Lots] /\ OrderOf \in [Lots -> Orders] /\ POOf \in [Lots -> POs]
  /\ None \notin Shipments /\ None \notin Destinations

VARIABLES
  receipt, decided, qcReleased, varianceHold, destination, shipmentRef, delivered,
  shipment, container, blocked, request

goodsVars ==
  <<receipt, decided, qcReleased, varianceHold, destination, shipmentRef, delivered,
    shipment, container, blocked, request>>

\* What the gates of logistics read: isPreLoadingPaid and releaseEligibility.  (Full
\* payment also counts for the first here, which the code denies while the event of the
\* pre-loading installment is late.)
Shown ==
  [o \in Orders |-> IF Releasable(o) THEN 2 ELSE IF PreLoadingPaid(o) THEN 1 ELSE 0]

\* What finance has.
Held ==
  [o \in Orders |->
     IF settled[o] = Schedule(tier[o]) THEN 2 ELSE IF "pre_loading" \in settled[o] THEN 1 ELSE 0]

\* The warehouse as it is, its gates on the projection; and as it ought to be, with gates
\* on the money itself.
Warehouse == INSTANCE Cargo WITH paid <- Shown
Ideal == INSTANCE Cargo WITH paid <- Held

FlowInit == Init /\ Warehouse!Init

MoneyStep == Next /\ UNCHANGED goodsVars
GoodsStep == UNCHANGED vars /\ Warehouse!GoodsStep

FlowNext == MoneyStep \/ GoodsStep
flowVars == <<vars, goodsVars>>

FlowSpec == FlowInit /\ [][FlowNext]_flowVars

----------------------------------------------------------------------------
(* Properties                                                              *)

\* A clerk verified a payment of the full amount of the installment.
Covered(o, trigger) ==
  \E e \in verified :
    /\ e.order = o /\ e.trigger = trigger
    /\ target[e.payment] = [order |-> o, trigger |-> trigger, short |-> FALSE]

\* What sails is covered for loading, and of what was handed over (CF-028) every
\* installment of its order is covered, though the gates read a copy of the money's state,
\* before the booking or the delivery was written.
SailsPaidFor ==
  \A p \in Packages : shipmentRef[p] # None => Covered(OrderOf[LotOf[p]], "pre_loading")

HandedOverIsPaidFor ==
  \A p \in delivered :
    LET o == OrderOf[LotOf[p]] IN \A trigger \in Schedule(tier[o]) : Covered(o, trigger)

\* Whatever the copy misses, the warehouse does nothing that one with its gates on
\* finance's own invoices would not do.
GoodsFollowMoney == Ideal!Spec /\ []SailsPaidFor /\ []HandedOverIsPaidFor
============================================================================
