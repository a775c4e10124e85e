---------------------------- MODULE SupplierDeal ----------------------------
(***************************************************************************)
(* Sourcing: a supplier's offer is accepted or declined, an accepted offer *)
(* is reserved as a deal, and the deal goes through inspection, balance    *)
(* due and paid.  Every transition carries a clientRequestId that a ledger *)
(* (SupplierDealEvent) keeps under a unique constraint, so that a retry    *)
(* over a bad connection is not applied again.                             *)
(*                                                                         *)
(* Each call reads first and writes in a later transaction.  A transition  *)
(* sent without a clientRequestId behaves as one with a fresh key.         *)
(***************************************************************************)
EXTENDS Naturals, Sequences, FiniteSets

CONSTANTS
  Offers,     \* supplier offers
  Keys,       \* clientRequestIds; one transition each bounds the ledger
  DealUsers   \* concurrent requests

VARIABLES
  offer,       \* SupplierOffer.status
  deals,       \* SupplierDeal rows, in the order they were created
  ledger,      \* SupplierDealEvent rows, in the order they were written
  dealRequest  \* what each request has read and is about to write

dealVars == <<offer, deals, ledger, dealRequest>>

DealStatuses == {"reserved", "inspected", "inspection_failed", "balance_due", "paid"}
InspectionResults == {"pass", "conditional", "fail"}

\* Balance due and paid; nothing in the code writes 'cancelled'.
NOT_YET_INSPECTABLE == {"balance_due", "paid"}

Waiting == [pc |-> "idle"]
DealRefs == DOMAIN deals
Entry == [deal : Nat, kind : {"reserved", "balance_due_marked", "balance_paid"}, key : Keys]
         \cup [deal : Nat, kind : {"inspection_recorded"}, result : InspectionResults, key : Keys]

DealRequests ==
  {Waiting}
    \cup [pc : {"decide"}, offer : Offers, status : {"accepted", "declined"}]
    \cup [pc : {"reserve"}, offer : Offers, key : Keys]
    \cup [pc : {"inspect"}, deal : Nat, key : Keys, result : InspectionResults]
    \cup [pc : {"mark", "confirm"}, deal : Nat, key : Keys]

DealTypeOK ==
  /\ offer \in [Offers -> {"submitted", "accepted", "declined"}]
  /\ deals \in Seq([offer : Offers, key : Keys, status : DealStatuses,
                    result : InspectionResults \cup {"none"}])
  /\ ledger \in Seq(Entry)
  /\ \A n \in DOMAIN ledger : ledger[n].deal \in DealRefs
  /\ dealRequest \in [DealUsers -> DealRequests]
  /\ \A u \in DealUsers :
       dealRequest[u].pc \in {"inspect", "mark", "confirm"} => dealRequest[u].deal \in DealRefs

DealInit ==
  /\ offer = [o \in Offers |-> "submitted"]
  /\ deals = <<>>
  /\ ledger = <<>>
  /\ dealRequest = [u \in DealUsers |-> Waiting]

----------------------------------------------------------------------------
\* A transaction ended: committed, or rolled back by a unique constraint.
Answered(u) == dealRequest' = [dealRequest EXCEPT ![u] = Waiting]
Asks(u, r) == dealRequest[u] = Waiting /\ dealRequest' = [dealRequest EXCEPT ![u] = r]

\* SupplierOfferService.decide: accept or decline an offer that is submitted.
DecideReads(u, o, status) ==
  /\ offer[o] = "submitted"
  /\ Asks(u, [pc |-> "decide", offer |-> o, status |-> status])
  /\ UNCHANGED <<offer, deals, ledger>>

DecideWrites(u) ==
  /\ dealRequest[u].pc = "decide"
  /\ offer' = [offer EXCEPT ![dealRequest[u].offer] = dealRequest[u].status]
  /\ Answered(u)
  /\ UNCHANGED <<deals, ledger>>

----------------------------------------------------------------------------
(* The replay guard                                                        *)

\* The lookup by clientRequestId, before the transaction.
Replayed(k) == \E n \in DOMAIN ledger : ledger[n].key = k

\* Mutant: the lookup is trusted, the column is not unique.
NoConstraint(k) == FALSE

\* The unique clientRequestId of the ledger, inside the transaction.
Violates(k) == Replayed(k)

\* The transaction of withReplayGuard: the row and its ledger entry, or neither.
Transition(u, d, row, entry) ==
  LET k == dealRequest[u].key IN
  /\ \/ Violates(k) /\ UNCHANGED <<deals, ledger>>
     \/ /\ ~Violates(k)
        /\ deals' = [deals EXCEPT ![d] = row]
        /\ ledger' = Append(ledger, entry)
  /\ Answered(u)
  /\ UNCHANGED offer

----------------------------------------------------------------------------
(* SupplierDealService                                                     *)

\* reserve: an accepted offer, and a clientRequestId without a deal.
ReserveReads(u, o, k) ==
  /\ offer[o] = "accepted"
  /\ \A d \in DealRefs : deals[d].key # k
  /\ Asks(u, [pc |-> "reserve", offer |-> o, key |-> k])
  /\ UNCHANGED <<offer, deals, ledger>>

\* The number of the next deal: count() + 1.
NextRef == Len(deals) + 1

\* The transaction inserts the deal and its ledger entry.
Reserve(u) ==
  LET r == dealRequest[u] IN
  /\ r.pc = "reserve"
  /\ \/ Violates(r.key) /\ UNCHANGED <<deals, ledger>>
     \/ /\ ~Violates(r.key)
        /\ deals' = Append(deals, [offer |-> r.offer, key |-> r.key, status |-> "reserved",
                                   result |-> "none"])
        /\ ledger' = Append(ledger, [deal |-> NextRef, kind |-> "reserved", key |-> r.key])
  /\ Answered(u)
  /\ UNCHANGED offer

\* recordInspectionResult: from reserved, or again after an inspection.
InspectReads(u, d, k, result) ==
  /\ deals[d].status \notin NOT_YET_INSPECTABLE
  /\ ~Replayed(k)
  /\ Asks(u, [pc |-> "inspect", deal |-> d, key |-> k, result |-> result])
  /\ UNCHANGED <<offer, deals, ledger>>

RecordInspectionResult(u) ==
  LET r == dealRequest[u] IN
  /\ r.pc = "inspect"
  /\ Transition(u, r.deal,
       [deals[r.deal] EXCEPT !.status = IF r.result = "fail" THEN "inspection_failed" ELSE "inspected",
                             !.result = r.result],
       [deal |-> r.deal, kind |-> "inspection_recorded", result |-> r.result, key |-> r.key])

\* Mutant: an inspection that did not fail is enough (it must be strictly a pass).
NotFailed(d) == deals[d].status = "inspected"

\* The gate of the balance: a passing inspection, not a conditional one.
Passed(d) == deals[d].status = "inspected" /\ deals[d].result = "pass"

MarkReads(u, d, k) ==
  /\ Passed(d)
  /\ ~Replayed(k)
  /\ Asks(u, [pc |-> "mark", deal |-> d, key |-> k])
  /\ UNCHANGED <<offer, deals, ledger>>

MarkBalanceDue(u) ==
  LET r == dealRequest[u] IN
  /\ r.pc = "mark"
  /\ Transition(u, r.deal, [deals[r.deal] EXCEPT !.status = "balance_due"],
                [deal |-> r.deal, kind |-> "balance_due_marked", key |-> r.key])

ConfirmReads(u, d, k) ==
  /\ deals[d].status = "balance_due"
  /\ ~Replayed(k)
  /\ Asks(u, [pc |-> "confirm", deal |-> d, key |-> k])
  /\ UNCHANGED <<offer, deals, ledger>>

ConfirmBalancePaid(u) ==
  LET r == dealRequest[u] IN
  /\ r.pc = "confirm"
  /\ Transition(u, r.deal, [deals[r.deal] EXCEPT !.status = "paid"],
                [deal |-> r.deal, kind |-> "balance_paid", key |-> r.key])

----------------------------------------------------------------------------
DealReads(u) ==
  \/ \E o \in Offers :
       \/ \E status \in {"accepted", "declined"} : DecideReads(u, o, status)
       \/ \E k \in Keys : ReserveReads(u, o, k)
  \/ \E d \in DealRefs, k \in Keys :
       \/ \E result \in InspectionResults : InspectReads(u, d, k, result)
       \/ MarkReads(u, d, k)
       \/ ConfirmReads(u, d, k)

DealNext ==
  \E u \in DealUsers :
    \/ DealReads(u)
    \/ DecideWrites(u) \/ Reserve(u) \/ RecordInspectionResult(u)
    \/ MarkBalanceDue(u) \/ ConfirmBalancePaid(u)

DealSpec == DealInit /\ [][DealNext]_dealVars

----------------------------------------------------------------------------
(* Properties                                                              *)

\* A retried transition is applied once, also when two retries race past the
\* lookup (SupplierDealService.withReplayGuard): no key is in the ledger twice.
TransitionOnce ==
  \A m, n \in DOMAIN ledger : ledger[m].key = ledger[n].key => m = n

Before(n, kind) ==
  {m \in 1 .. (n - 1) : ledger[m].deal = ledger[n].deal /\ ledger[m].kind = kind}

\* Money follows an inspection: in the ledger of a deal, a payment is preceded by
\* the approval of the balance and that by an inspection that passed
\* (SupplierDealService, its state diagram), in every interleaving.
MoneyFollowsInspection ==
  \A n \in DOMAIN ledger :
    /\ ledger[n].kind = "balance_paid" => Before(n, "balance_due_marked") # {}
    /\ ledger[n].kind = "balance_due_marked" =>
         \E m \in Before(n, "inspection_recorded") : ledger[m].result = "pass"
    /\ ledger[n].kind # "reserved" => Before(n, "reserved") # {}
============================================================================
