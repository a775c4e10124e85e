-------------------------- MODULE PaymentCorridor --------------------------
(***************************************************************************)
(* The money corridor: trade's orders, finance's invoices, payments and    *)
(* commission ledger, and logistics' projection of what was paid, joined   *)
(* by order.created, order.cancelled and payment.verified events.          *)
(*                                                                         *)
(* Services read and check outside their transaction and write inside it,  *)
(* and Postgres runs READ COMMITTED: a verification is therefore read,     *)
(* settle (row locks, uncommitted), recompute and commit, and other clerks *)
(* may act in between.  Events reach a consumer in any order, at most      *)
(* once, and perhaps never (EventDelivery); a handler that throws leaves   *)
(* no trace, so it is a step that is not enabled.                          *)
(***************************************************************************)
EXTENDS Naturals, FiniteSets

CONSTANTS
  Orders,      \* order refs
  Payments,    \* payment refs
  Clerks,      \* finance users holding payment:approve, acting concurrently
  Processes,   \* API processes running the logistics handler concurrently
  MaxCancels,  \* bound: cancellations of one order
  NoTarget     \* a payment not yet uploaded

ASSUME CorridorAssumption == MaxCancels \in Nat

VARIABLES
  order,         \* Order.status, "none" before creation
  tier,          \* Order.tier
  agent,         \* whether the order has an agent
  cancels,       \* order.cancelled events of the order so far
  cancelsSeen,   \* those finance handled
  reversing,     \* those finance is handling, and whether it read a commission to reverse
  tradePaid,     \* trade's own installments marked paid
  invoice,       \* Invoice.status, "none" until order.created is handled
  settled,       \* InvoiceInstallments settled
  accrued,       \* Invoice.commissionAccrued
  clawedBack,    \* Invoice.commissionClawedBack
  accruals,      \* accrual rows of the ledger
  clawbacks,     \* clawback rows of the ledger
  payment,       \* Payment.status, "none" before the proof is uploaded
  target,        \* what a payment is for, and whether it is short
  verified,      \* payment.verified events
  tradeSeen,     \* those trade handled
  logisticsSeen, \* those logistics handled
  paidTriggers,  \* OrderPaymentState.paidTriggers
  paidTenths,    \* OrderPaymentState.paidFraction, in tenths
  clerk,         \* what each clerk is doing
  handler        \* what each process's logistics handler is doing

orderVars == <<order, tier, agent, cancels, tradePaid, tradeSeen>>
invoiceVars ==
  <<invoice, settled, accrued, clawedBack, accruals, clawbacks, cancelsSeen, reversing>>
paymentVars == <<payment, target, verified>>
logisticsVars == <<logisticsSeen, paidTriggers, paidTenths, handler>>
vars == <<orderVars, invoiceVars, paymentVars, logisticsVars, clerk>>

----------------------------------------------------------------------------
(* Policy: PAYMENT_SCHEDULES and MIN_DEPOSIT, in tenths of the total.      *)
Triggers == {"confirmation", "pre_loading", "pre_release"}
Tiers == {"new", "established"}
FullyPaid == 10
MinDeposit == 3

Pct(t, trigger) ==
  IF t = "new"
  THEN IF trigger \in {"confirmation", "pre_loading"} THEN 5 ELSE 0
  ELSE IF trigger = "pre_loading" THEN 4 ELSE 3

Schedule(t) == {trigger \in Triggers : Pct(t, trigger) > 0}

\* splitInstallments: each part is rounded down, the last takes the remainder.
LastTrigger(t) == IF t = "new" THEN "pre_loading" ELSE "pre_release"
RoundedPart(t, trigger, total) == (total * Pct(t, trigger)) \div FullyPaid
InstallmentMinor(t, trigger, total) ==
  IF trigger = LastTrigger(t)
  THEN LET others == {x \in Schedule(t) : x # trigger}
           part(x) == IF x \in others THEN RoundedPart(t, x, total) ELSE 0
       IN  total - (part("confirmation") + part("pre_loading") + part("pre_release"))
  ELSE RoundedPart(t, trigger, total)

\* The paid fraction of a set of settled triggers.
Share(t, S, trigger) == IF trigger \in S THEN Pct(t, trigger) ELSE 0
Fraction(t, S) ==
  Share(t, S, "confirmation") + Share(t, S, "pre_loading") + Share(t, S, "pre_release")

----------------------------------------------------------------------------
(* States                                                                  *)
Targets == [order : Orders, trigger : Triggers, short : BOOLEAN]
VerifiedEvents ==
  [payment : Payments, by : Clerks, order : Orders, trigger : Triggers, tenths : 0..FullyPaid]

\* A clerk's request: its payment, the accrual decision it read, and the
\* settled triggers its transaction saw.
Idle == [pc |-> "idle"]
Requests ==
  {Idle}
    \cup [pc : {"verify", "settle"}, payment : Payments, accrue : BOOLEAN]
    \cup [pc : {"commit"}, payment : Payments, accrue : BOOLEAN, seen : SUBSET Triggers]
    \cup [pc : {"reject"}, payment : Payments]

\* A logistics handler inside its transaction: the event and the row it read.
Handlers ==
  {Idle} \cup [pc : {"write"}, event : VerifiedEvents, triggers : SUBSET Triggers,
               tenths : 0..FullyPaid]

\* A commission handler inside its transaction: the order.cancelled event, and whether
\* the invoice it read has a commission to reverse.
Reversals == [order : Orders, n : 1..MaxCancels, due : BOOLEAN]

TypeOK ==
  /\ order \in [Orders -> {"none", "awaiting_payment", "procurement_active", "cancelled"}]
  /\ tier \in [Orders -> Tiers]
  /\ agent \in [Orders -> BOOLEAN]
  /\ cancels \in [Orders -> 0..MaxCancels]
  /\ cancelsSeen \in [Orders -> SUBSET (1..MaxCancels)]
  /\ reversing \subseteq Reversals
  /\ tradePaid \in [Orders -> SUBSET Triggers]
  /\ invoice \in [Orders -> {"none", "issued", "part_paid", "paid"}]
  /\ settled \in [Orders -> SUBSET Triggers]
  /\ accrued \in [Orders -> BOOLEAN]
  /\ clawedBack \in [Orders -> BOOLEAN]
  /\ accruals \in [Orders -> Nat]
  /\ clawbacks \in [Orders -> Nat]
  /\ payment \in [Payments -> {"none", "pending_verification", "verified", "rejected"}]
  /\ target \in [Payments -> Targets \cup {NoTarget}]
  /\ \A p \in Payments : payment[p] # "none" => target[p] \in Targets
  /\ verified \subseteq VerifiedEvents
  /\ tradeSeen \subseteq verified
  /\ logisticsSeen \subseteq verified
  /\ paidTriggers \in [Orders -> SUBSET Triggers]
  /\ paidTenths \in [Orders -> 0..FullyPaid]
  /\ clerk \in [Clerks -> Requests]
  /\ handler \in [Processes -> Handlers]

Init ==
  /\ order = [o \in Orders |-> "none"]
  /\ tier \in [Orders -> Tiers]
  /\ agent \in [Orders -> BOOLEAN]
  /\ cancels = [o \in Orders |-> 0]
  /\ cancelsSeen = [o \in Orders |-> {}]
  /\ reversing = {}
  /\ tradePaid = [o \in Orders |-> {}]
  /\ invoice = [o \in Orders |-> "none"]
  /\ settled = [o \in Orders |-> {}]
  /\ accrued = [o \in Orders |-> FALSE]
  /\ clawedBack = [o \in Orders |-> FALSE]
  /\ accruals = [o \in Orders |-> 0]
  /\ clawbacks = [o \in Orders |-> 0]
  /\ payment = [p \in Payments |-> "none"]
  /\ target = [p \in Payments |-> NoTarget]
  /\ verified = {}
  /\ tradeSeen = {}
  /\ logisticsSeen = {}
  /\ paidTriggers = [o \in Orders |-> {}]
  /\ paidTenths = [o \in Orders |-> 0]
  /\ clerk = [c \in Clerks |-> Idle]
  /\ handler = [a \in Processes |-> Idle]

----------------------------------------------------------------------------
(* Trade: OrderService                                                     *)

\* create: the tier and the schedule follow from the customer's history; the
\* quotation is approved (the QuotationChain module) and order.created is
\* committed with the order.
CreateOrder(o) ==
  /\ order[o] = "none"
  /\ Pct(tier[o], "confirmation") >= MinDeposit
  /\ order' = [order EXCEPT ![o] = "awaiting_payment"]
  /\ UNCHANGED <<tier, agent, cancels, tradePaid, tradeSeen,
                 invoiceVars, paymentVars, logisticsVars, clerk>>

\* cancel: whatever the order's status is, and with a new event each time.
CancelOrder(o) ==
  /\ order[o] # "none"
  /\ cancels[o] < MaxCancels
  /\ order' = [order EXCEPT ![o] = "cancelled"]
  /\ cancels' = [cancels EXCEPT ![o] = @ + 1]
  /\ UNCHANGED <<tier, agent, tradePaid, tradeSeen,
                 invoiceVars, paymentVars, logisticsVars, clerk>>

\* Only the confirmation installment activates procurement.
Activate(e) ==
  order' = IF e.trigger = "confirmation"
           THEN [order EXCEPT ![e.order] = "procurement_active"]
           ELSE order

\* Mutant: only the confirmation installment is accepted.
ConfirmationDue(o) == (Schedule(tier[o]) \ tradePaid[o]) \cap {"confirmation"}

\* Trade's own installments still due.
TradeDue(o) == Schedule(tier[o]) \ tradePaid[o]

\* The installments marked paid after an event.
Mark(o, trigger) == tradePaid[o] \cup {trigger}

\* handlePaymentVerified: throws unless an installment with the trigger is due.
TradeHandlesVerified(e) ==
  /\ e \in verified \ tradeSeen
  /\ e.trigger \in TradeDue(e.order)
  /\ tradeSeen' = tradeSeen \cup {e}
  /\ tradePaid' = [tradePaid EXCEPT ![e.order] = Mark(e.order, e.trigger)]
  /\ Activate(e)
  /\ UNCHANGED <<tier, agent, cancels, invoiceVars, paymentVars, logisticsVars, clerk>>

----------------------------------------------------------------------------
(* Finance: InvoiceService, PaymentService, CommissionService              *)

\* InvoiceService.handleOrderCreated: the invoice and its installments.
FinanceHandlesCreated(o) ==
  /\ order[o] # "none"
  /\ invoice[o] = "none"
  /\ invoice' = [invoice EXCEPT ![o] = "issued"]
  /\ UNCHANGED <<orderVars, settled, accrued, clawedBack, accruals, clawbacks, cancelsSeen,
                 reversing, paymentVars, logisticsVars, clerk>>

\* PaymentService.uploadProof: captures a claim; no money moves.
UploadProof(p) ==
  /\ payment[p] = "none"
  /\ \E x \in Targets :
       /\ invoice[x.order] # "none"
       /\ target' = [target EXCEPT ![p] = x]
  /\ payment' = [payment EXCEPT ![p] = "pending_verification"]
  /\ UNCHANGED <<orderVars, invoiceVars, verified, logisticsVars, clerk>>

\* Mutant: the amount is not compared with the installment.
AnyAmount(p) == TRUE

\* CF-007: a short payment is refused, never booked in part.
CoversInstallment(p) == ~target[p].short

\* A payment is verified or rejected only while it awaits a decision.
AwaitsDecision(p) == payment[p] = "pending_verification"

\* Mutant: an installment is looked up by its trigger alone.
InSchedule(o) == Schedule(tier[o])

\* The installments still due.
Due(o) == Schedule(tier[o]) \ settled[o]

\* verify, before its transaction: payment, invoice and installment are read
\* and checked.  The accrual decision uses the invoice row read here.
ReadVerify(c, p) ==
  LET o == target[p].order
      trigger == target[p].trigger IN
  /\ clerk[c] = Idle
  /\ AwaitsDecision(p)
  /\ trigger \in Due(o)
  /\ CoversInstallment(p)
  /\ trigger = "confirmation" => Pct(tier[o], trigger) >= MinDeposit
  /\ clerk' = [clerk EXCEPT ![c] =
       [pc |-> "verify", payment |-> p,
        accrue |-> trigger = "confirmation" /\ agent[o] /\ ~accrued[o]]]
  /\ UNCHANGED <<orderVars, invoiceVars, paymentVars, logisticsVars>>

\* Transactions in progress hold the row locks of their installment and payment.
Locks(c, p) ==
  /\ clerk[c].pc \in {"settle", "commit"}
  /\ LET q == clerk[c].payment IN
       q = p \/ (target[q].order = target[p].order /\ target[q].trigger = target[p].trigger)
Free(p) == \A c \in Clerks : ~Locks(c, p)

\* The transaction updates its installment and payment rows, by primary key:
\* it waits for the locks and does not look at the status again.
Settle(c) ==
  LET r == clerk[c] IN
  /\ r.pc = "verify"
  /\ Free(r.payment)
  /\ clerk' = [clerk EXCEPT ![c] =
       [pc |-> "settle", payment |-> r.payment, accrue |-> r.accrue]]
  /\ UNCHANGED <<orderVars, invoiceVars, paymentVars, logisticsVars>>

\* Mutant: the recomputation reads outside the transaction, without its own.
SeesCommitted(o, trigger) == settled[o]

\* Mutant: every verification counts as full payment.
SeesSchedule(o, trigger) == Schedule(tier[o])

\* What the transaction's findMany sees: the committed installments and its own.
SeesSettled(o, trigger) == settled[o] \cup {trigger}

\* It reads all installments.
Recompute(c) ==
  LET r == clerk[c]
      x == target[r.payment] IN
  /\ r.pc = "settle"
  /\ clerk' = [clerk EXCEPT ![c] =
       [pc |-> "commit", payment |-> r.payment, accrue |-> r.accrue,
        seen |-> SeesSettled(x.order, x.trigger)]]
  /\ UNCHANGED <<orderVars, invoiceVars, paymentVars, logisticsVars>>

\* Mutant: the accrual row has no dedupeKey.
NoDedupe(o) == FALSE

\* The unique dedupeKey accrual:<order>.
AccrualExists(o) == accruals[o] > 0

\* The rest of the transaction: invoice status, accrual row and flag, and the
\* payment.verified event; a second accrual row makes it all roll back.
CommitVerify(c) ==
  LET r == clerk[c]
      p == r.payment
      o == target[p].order IN
  /\ r.pc = "commit"
  /\ clerk' = [clerk EXCEPT ![c] = Idle]
  /\ \/ /\ r.accrue /\ AccrualExists(o)
        /\ UNCHANGED <<invoiceVars, paymentVars>>
     \/ /\ ~(r.accrue /\ AccrualExists(o))
        /\ settled' = [settled EXCEPT ![o] = @ \cup {target[p].trigger}]
        /\ payment' = [payment EXCEPT ![p] = "verified"]
        /\ invoice' = [invoice EXCEPT ![o] =
             IF r.seen = Schedule(tier[o]) THEN "paid" ELSE "part_paid"]
        /\ accruals' = [accruals EXCEPT ![o] = IF r.accrue THEN @ + 1 ELSE @]
        /\ accrued' = [accrued EXCEPT ![o] = @ \/ r.accrue]
        /\ verified' = verified \cup
             {[payment |-> p, by |-> c, order |-> o, trigger |-> target[p].trigger,
               tenths |-> Fraction(tier[o], r.seen)]}
        /\ UNCHANGED <<clawedBack, clawbacks, cancelsSeen, reversing, target>>
  /\ UNCHANGED <<orderVars, logisticsVars>>

\* reject: the status is checked, then overwritten in a separate statement.
ReadReject(c, p) ==
  /\ clerk[c] = Idle
  /\ AwaitsDecision(p)
  /\ clerk' = [clerk EXCEPT ![c] = [pc |-> "reject", payment |-> p]]
  /\ UNCHANGED <<orderVars, invoiceVars, paymentVars, logisticsVars>>

CommitReject(c) ==
  /\ clerk[c].pc = "reject"
  /\ Free(clerk[c].payment)
  /\ payment' = [payment EXCEPT ![clerk[c].payment] = "rejected"]
  /\ clerk' = [clerk EXCEPT ![c] = Idle]
  /\ UNCHANGED <<orderVars, invoiceVars, target, verified, logisticsVars>>

\* Mutant: only the commission of a paid invoice is reversed.
UnlessPaid(o) == invoice[o] # "paid" \/ ~accrued[o] \/ clawedBack[o]

\* No invoice, no accrual, or a clawback already: a recorded no-op.
NothingToReverse(o) == invoice[o] = "none" \/ ~accrued[o] \/ clawedBack[o]

\* CommissionService.handleOrderCancelled claims the event (the unique eventId and
\* consumer) and reads the invoice, with no lock: a verification may commit meanwhile.
CancelReads(o) ==
  /\ \E n \in 1..cancels[o] \ cancelsSeen[o] :
       /\ \A r \in reversing : ~(r.order = o /\ r.n = n)
       /\ reversing' = reversing \cup {[order |-> o, n |-> n, due |-> ~NothingToReverse(o)]}
  /\ UNCHANGED <<orderVars, invoice, settled, accrued, clawedBack, accruals, clawbacks,
                 cancelsSeen, paymentVars, logisticsVars, clerk>>

\* It commits what it read asks for.  The unique dedupeKey clawback:<order> makes a second
\* clawback throw: the claim rolls back with it, and the event comes again.
CancelCommits(r) ==
  /\ reversing' = reversing \ {r}
  /\ \/ /\ r.due /\ clawbacks[r.order] > 0
        /\ UNCHANGED <<clawedBack, clawbacks, cancelsSeen>>
     \/ /\ r.due /\ clawbacks[r.order] = 0
        /\ clawbacks' = [clawbacks EXCEPT ![r.order] = @ + 1]
        /\ clawedBack' = [clawedBack EXCEPT ![r.order] = TRUE]
        /\ cancelsSeen' = [cancelsSeen EXCEPT ![r.order] = @ \cup {r.n}]
     \/ /\ ~r.due
        /\ cancelsSeen' = [cancelsSeen EXCEPT ![r.order] = @ \cup {r.n}]
        /\ UNCHANGED <<clawedBack, clawbacks>>
  /\ UNCHANGED <<orderVars, invoice, settled, accrued, accruals,
                 paymentVars, logisticsVars, clerk>>

----------------------------------------------------------------------------
(* Logistics: OrderPaymentService.handlePaymentVerified                    *)

\* The transaction claims the event and reads the projection row.
LogisticsReads(a, e) ==
  /\ handler[a] = Idle
  /\ e \in verified \ logisticsSeen
  /\ \A b \in Processes : handler[b] # Idle => handler[b].event # e
  /\ handler' = [handler EXCEPT ![a] =
       [pc |-> "write", event |-> e, triggers |-> paidTriggers[e.order],
        tenths |-> paidTenths[e.order]]]
  /\ UNCHANGED <<orderVars, invoiceVars, paymentVars, logisticsSeen, paidTriggers,
                 paidTenths, clerk>>

\* Math.max of what was read and what the event says.
Greatest(read, tenths) == IF tenths > read THEN tenths ELSE read

\* It writes the row from what it read, and commits.
LogisticsWrites(a) ==
  LET h == handler[a]
      o == h.event.order IN
  /\ h.pc = "write"
  /\ logisticsSeen' = logisticsSeen \cup {h.event}
  /\ paidTriggers' = [paidTriggers EXCEPT ![o] = h.triggers \cup {h.event.trigger}]
  /\ paidTenths' = [paidTenths EXCEPT ![o] = Greatest(h.tenths, h.event.tenths)]
  /\ handler' = [handler EXCEPT ![a] = Idle]
  /\ UNCHANGED <<orderVars, invoiceVars, paymentVars, clerk>>

\* Mutant: the last installment opens the release gate, whatever else is due.
LastIsPaid(o) == LastTrigger(tier[o]) \in paidTriggers[o]

\* isPreLoadingPaid and releaseEligibility, the gates built on the projection.
PreLoadingPaid(o) == "pre_loading" \in paidTriggers[o]
Releasable(o) == paidTenths[o] >= FullyPaid

----------------------------------------------------------------------------
ClerkStep(c) ==
  \/ \E p \in Payments : ReadVerify(c, p) \/ ReadReject(c, p)
  \/ Settle(c) \/ Recompute(c) \/ CommitVerify(c) \/ CommitReject(c)

HandlerStep ==
  \/ \E o \in Orders : FinanceHandlesCreated(o) \/ CancelReads(o)
  \/ \E r \in reversing : CancelCommits(r)
  \/ \E e \in verified : TradeHandlesVerified(e)
  \/ \E a \in Processes : LogisticsWrites(a) \/ \E e \in verified : LogisticsReads(a, e)

Next ==
  \/ \E o \in Orders : CreateOrder(o) \/ CancelOrder(o)
  \/ \E p \in Payments : UploadProof(p)
  \/ \E c \in Clerks : ClerkStep(c)
  \/ HandlerStep

Spec == Init /\ [][Next]_vars

\* A request or handler that is under way is resumed, and delivered events are
\* handled (EventPipeline: CommittedIsApplied).
Fairness ==
  /\ WF_vars(HandlerStep)
  /\ \A c \in Clerks : WF_vars(Settle(c) \/ Recompute(c) \/ CommitVerify(c) \/ CommitReject(c))
FairSpec == Spec /\ Fairness

----------------------------------------------------------------------------
(* Properties                                                              *)

\* CF-028: the release gate never opens early.  Logistics' projection reaches
\* full payment only when finance settled every installment of the schedule,
\* and its pre-loading gate only when that installment is settled.
ReleaseNeverEarly ==
  \A o \in Orders :
    /\ Releasable(o) => settled[o] = Schedule(tier[o])
    /\ PreLoadingPaid(o) => "pre_loading" \in settled[o]

\* CF-008/009: procurement is active only for an order whose confirmation
\* installment a finance clerk settled.
ProcurementNeedsDeposit ==
  \A o \in Orders : order[o] = "procurement_active" => "confirmation" \in settled[o]

\* Trade's copy of the schedule never runs ahead of finance's.
TradeFollowsFinance == \A o \in Orders : tradePaid[o] \subseteq settled[o]

\* CF-010, CF-030: one accrual per order, for a settled deposit and an agent;
\* at most one clawback, of an existing accrual; the flags tell the ledger.
LedgerSound ==
  \A o \in Orders :
    /\ accruals[o] <= 1 /\ clawbacks[o] <= accruals[o]
    /\ accrued[o] <=> accruals[o] = 1
    /\ clawedBack[o] <=> clawbacks[o] = 1
    /\ accruals[o] = 1 => agent[o] /\ "confirmation" \in settled[o]

\* Of an order's commission, a reversal is due as long as a cancellation is still to be
\* read, or was read with the commission there, or the clawback is booked.
ReversalDue(o) ==
  \/ \E n \in 1..cancels[o] \ cancelsSeen[o] :
       \A r \in reversing : r.order = o /\ r.n = n => r.due
  \/ clawbacks[o] = 1

\* A cancellation that finds the commission accrued, or comes after, is never lost: handled
\* late, twice at once or again after a rollback, and with the deposit being verified
\* beside it, the reversal stays due until it is booked.
ReversalNeverLost ==
  [][\A o \in Orders : accruals[o] = 1 /\ ReversalDue(o) => ReversalDue(o)']_vars

\* CF-007: every settled installment was covered in full by a payment for it.
SettledByFullPayment ==
  \A o \in Orders : \A trigger \in settled[o] :
    \E e \in verified :
      /\ e.order = o /\ e.trigger = trigger
      /\ target[e.payment] = [order |-> o, trigger |-> trigger, short |-> FALSE]

\* What finance settled bounds everything derived from it: a request that will
\* settle names a covered installment of the schedule, and what it saw, each
\* event, each logistics handler and the projection stay within the settled
\* installments and their fraction.
Backed(o, triggers, tenths) ==
  triggers \subseteq settled[o] /\ tenths <= Fraction(tier[o], settled[o])

SettlesFor(r, x) ==
  /\ x.trigger \in Schedule(tier[x.order])
  /\ ~x.short
  /\ r.accrue => agent[x.order] /\ x.trigger = "confirmation"
  /\ r.pc = "commit" => r.seen \subseteq settled[x.order] \cup {x.trigger}

RequestInv ==
  \A c \in Clerks :
    /\ clerk[c].pc # "idle" => payment[clerk[c].payment] # "none"
    /\ clerk[c].pc \in {"verify", "settle", "commit"} =>
         SettlesFor(clerk[c], target[clerk[c].payment])

EventInv == \A e \in verified : Backed(e.order, {e.trigger}, e.tenths)

HandlerInv ==
  \A a \in Processes :
    handler[a].pc = "write" =>
      /\ handler[a].event \in verified
      /\ Backed(handler[a].event.order, handler[a].triggers, handler[a].tenths)

ProjectionInv == \A o \in Orders : Backed(o, paidTriggers[o], paidTenths[o])

SettledInv == \A o \in Orders : settled[o] \subseteq Schedule(tier[o])

\* A commission that was read for reversal is there.
ReversalInv == \A r \in reversing : r.due => accrued[r.order]

CorridorInv ==
  /\ SettledInv /\ RequestInv /\ EventInv /\ HandlerInv /\ ProjectionInv
  /\ TradeFollowsFinance /\ ProcurementNeedsDeposit /\ LedgerSound /\ ReversalInv

\* Nothing is under way and every payment.verified event was handled.
Quiet ==
  /\ clerk = [c \in Clerks |-> Idle]
  /\ logisticsSeen = verified

\* The projection and the invoice catch up: when every installment is settled
\* and the events are handled, the invoice is paid and the gate is open.
FullPaymentReleases ==
  \A o \in Orders :
    Quiet /\ settled[o] = Schedule(tier[o]) => invoice[o] = "paid" /\ Releasable(o)

\* PaymentService.reject: "No installment is settled" by a rejected payment.
\* The code breaks this with two clerks, so no run has it.
RejectedSettledNothing ==
  \A p \in Payments : payment[p] = "rejected" => \A e \in verified : e.payment # p

\* verify: the installment "must still be due", so no two verifications settle
\* the same one.
SettledOnce ==
  \A d, e \in verified : d.order = e.order /\ d.trigger = e.trigger => d = e

\* A late or duplicate event never makes the projection go back.  The code
\* breaks this with two processes, so no run has it.
ProjectionNeverRegresses ==
  [][\A o \in Orders : paidTenths'[o] >= paidTenths[o]]_vars

\* The commission ledger: a cancellation claws the accrual back.  When the
\* cancellations are handled, a cancelled order keeps no commission.  The code
\* breaks this when the cancellation is read before the accrual commits, so no
\* run has it.
CancellationClawsBack ==
  \A o \in Orders :
    (order[o] = "cancelled" /\ cancelsSeen[o] = 1..cancels[o]) => clawbacks[o] = accruals[o]

\* A settled deposit reaches trade: the installment is eventually marked paid.
SettledReachesTrade ==
  \A o \in Orders, trigger \in Triggers :
    trigger \in settled[o] ~> trigger \in tradePaid[o]
============================================================================
