---------------------------- MODULE FreightBooks ----------------------------
(***************************************************************************)
(* The freight of one container: what the forwarder charged, and its       *)
(* allocation to the orders aboard, pro rata by revenue ton with the       *)
(* remainder to the last.  allocateFreight reads the shipment, reads the   *)
(* packages, and in a transaction deletes the rows it finds and inserts    *)
(* its own; the database is READ COMMITTED and has one row per shipment    *)
(* and order.  Another booking may take packages away, and never brings    *)
(* any: a shipment is given its packages when it is created.               *)
(***************************************************************************)
EXTENDS Integers, FiniteSets, Functions

CONSTANTS
  Aboard,         \* the orders loaded
  RevenueTon,     \* of each of them
  FreightCalls,   \* concurrent requests
  MaxFreight,     \* bound: what a forwarder charges
  MaxAllocations  \* bound: transactions

ASSUME FreightAssumption ==
  /\ IsFiniteSet(Aboard) /\ RevenueTon \in [Aboard -> Nat \ {0}]
  /\ MaxFreight \in Nat /\ MaxAllocations \in Nat

VARIABLES
  aboard,      \* the orders that have packages on the container
  freightPaid, \* freightPaidMinor, Unpaid before it is recorded
  shares,      \* the FreightAllocation rows, by order
  freightCall, \* how far each request is
  allocations  \* history: transactions begun, to tell rows of one from rows of another

freightVars == <<aboard, freightPaid, shares, freightCall, allocations>>

Unpaid == -1
NoShare == [by |-> 0]
Shares == [by : 1..MaxAllocations, amount : Int, of : 0..MaxFreight]
Books == [Aboard -> Shares \cup {NoShare}]
NoFreightCall == [pc |-> "idle"]
FreightRequests ==
  {NoFreightCall}
    \cup [pc : {"packages"}, paid : 0..MaxFreight]
    \cup [pc : {"delete"}, paid : 0..MaxFreight, orders : SUBSET Aboard]
    \cup [pc : {"insert"}, paid : 0..MaxFreight, orders : SUBSET Aboard,
          seen : Books, by : 1..MaxAllocations]

FreightTypeOK ==
  /\ aboard \subseteq Aboard
  /\ freightPaid \in 0..MaxFreight \cup {Unpaid}
  /\ shares \in Books
  /\ freightCall \in [FreightCalls -> FreightRequests]
  /\ allocations \in 0..MaxAllocations

FreightInit ==
  /\ aboard = Aboard /\ freightPaid = Unpaid /\ allocations = 0
  /\ shares = [o \in Aboard |-> NoShare]
  /\ freightCall = [c \in FreightCalls |-> NoFreightCall]

\* createShipment of another container, with packages of this one: it does not ask
\* whether they are booked.
BookedElsewhere(o) ==
  /\ o \in aboard
  /\ aboard' = aboard \ {o}
  /\ UNCHANGED <<freightPaid, shares, freightCall, allocations>>

\* recordBilledWeight, once or again.
RecordBilledWeight(amount) ==
  /\ freightPaid' = amount
  /\ UNCHANGED <<aboard, shares, freightCall, allocations>>

----------------------------------------------------------------------------
(* allocateFreight                                                         *)

ReadsShipment(c) ==
  /\ freightCall[c] = NoFreightCall /\ freightPaid # Unpaid
  /\ freightCall' = [freightCall EXCEPT ![c] = [pc |-> "packages", paid |-> freightPaid]]
  /\ UNCHANGED <<aboard, freightPaid, shares, allocations>>

ReadsPackages(c) ==
  /\ freightCall[c].pc = "packages"
  /\ freightCall' = [freightCall EXCEPT ![c] =
       [pc |-> "delete", paid |-> @.paid, orders |-> aboard]]
  /\ UNCHANGED <<aboard, freightPaid, shares, allocations>>

Tons(orders) == SumFunctionOnSet(RevenueTon, orders)

\* Math.round of an order's part of what was paid.
ProRata(paid, o, orders) ==
  (2 * paid * RevenueTon[o] + Tons(orders)) \div (2 * Tons(orders))

\* Mutant: the last order's part is rounded like the others.
AllRounded(paid, orders, last) == [o \in orders |-> ProRata(paid, o, orders)]

\* Whichever order comes last takes what the others leave.
Allocation(paid, orders, last) ==
  LET rounded == [o \in orders |-> ProRata(paid, o, orders)]
  IN  [rounded EXCEPT ![last] = paid - SumFunctionOnSet(rounded, orders \ {last})]

\* The transaction deletes the rows committed by now.
DeletesRows(c) ==
  /\ freightCall[c].pc = "delete" /\ allocations < MaxAllocations
  /\ allocations' = allocations + 1
  /\ freightCall' = [freightCall EXCEPT ![c] =
       [pc |-> "insert", paid |-> @.paid, orders |-> @.orders,
        seen |-> shares, by |-> allocations + 1]]
  /\ UNCHANGED <<aboard, freightPaid, shares>>

\* What is left of the rows once those a transaction has seen are gone.
Remaining(seen) == [o \in Aboard |-> IF shares[o] = seen[o] THEN NoShare ELSE shares[o]]

\* The unique key on shipment and order.
KeysFree(rows, orders) == \A o \in orders : rows[o] = NoShare

\* Its own rows are inserted and the transaction commits.
InsertsRows(c) ==
  /\ freightCall[c].pc = "insert"
  /\ LET r == freightCall[c]
         left == Remaining(r.seen)
     IN  /\ KeysFree(left, r.orders)
         /\ \/ r.orders = {} /\ shares' = left
            \/ \E last \in r.orders :
                 shares' = [o \in Aboard |->
                   IF o \in r.orders
                   THEN [by |-> r.by, amount |-> Allocation(r.paid, r.orders, last)[o],
                         of |-> r.paid]
                   ELSE left[o]]
  /\ freightCall' = [freightCall EXCEPT ![c] = NoFreightCall]
  /\ UNCHANGED <<aboard, freightPaid, allocations>>

\* A duplicate key or the database ends the transaction, or the call dies.
FreightCallFails(c) ==
  /\ freightCall[c] # NoFreightCall
  /\ freightCall' = [freightCall EXCEPT ![c] = NoFreightCall]
  /\ UNCHANGED <<aboard, freightPaid, shares, allocations>>

FreightNext ==
  \/ \E o \in Aboard : BookedElsewhere(o)
  \/ \E amount \in 0..MaxFreight : RecordBilledWeight(amount)
  \/ \E c \in FreightCalls :
       ReadsShipment(c) \/ ReadsPackages(c) \/ DeletesRows(c) \/ InsertsRows(c)
         \/ FreightCallFails(c)

FreightSpec == FreightInit /\ [][FreightNext]_freightVars

----------------------------------------------------------------------------
(* Properties                                                              *)

Shared == {o \in Aboard : shares[o] # NoShare}

\* The rows of two allocations are never mixed.
OneTransaction == \A o, p \in Shared : shares[o].by = shares[p].by

\* Whatever requests cross, with packages leaving and a corrected bill in between: the
\* rows of a container are those of one allocation and sum exactly to the freight it read.
OneAllocation ==
  /\ OneTransaction
  /\ \A o \in Shared :
       SumFunctionOnSet([p \in Shared |-> shares[p].amount], Shared) = shares[o].of
============================================================================
