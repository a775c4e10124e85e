----------------------- MODULE PaymentCorridorProofs -----------------------
(***************************************************************************)
(* For any number of orders, payments, clerks and processes: the money     *)
(* gates never open early, the commission ledger is sound, and the goods   *)
(* follow the money.                                                       *)
(***************************************************************************)
EXTENDS OrderToDelivery, TLAPS

USE CorridorAssumption

IInv == TypeOK /\ CorridorInv

----------------------------------------------------------------------------
(* The amounts                                                             *)

\* splitInstallments: "parts sum EXACTLY to the total", whatever it is, and the
\* remainder never makes the last part smaller than its share, so that every
\* installment can be paid and the last one marks itself paid.
THEOREM PartsSumUp ==
  ASSUME NEW total \in Nat
  PROVE  /\ InstallmentMinor("new", "confirmation", total)
              + InstallmentMinor("new", "pre_loading", total) = total
         /\ InstallmentMinor("established", "confirmation", total)
              + InstallmentMinor("established", "pre_loading", total)
              + InstallmentMinor("established", "pre_release", total) = total
         /\ \A t \in Tiers : \A trigger \in Schedule(t) :
              InstallmentMinor(t, trigger, total) >= RoundedPart(t, trigger, total)
<1>1. /\ Schedule("new") = {"confirmation", "pre_loading"}
      /\ Schedule("established") = Triggers
  BY DEF Schedule, Triggers, Pct
<1>2. /\ InstallmentMinor("new", "confirmation", total) = (total * 5) \div 10
      /\ InstallmentMinor("new", "pre_loading", total) = total - (total * 5) \div 10
  BY <1>1 DEF InstallmentMinor, LastTrigger, RoundedPart, Pct, FullyPaid
<1>3. /\ InstallmentMinor("established", "confirmation", total) = (total * 3) \div 10
      /\ InstallmentMinor("established", "pre_loading", total) = (total * 4) \div 10
      /\ InstallmentMinor("established", "pre_release", total)
           = total - ((total * 3) \div 10 + (total * 4) \div 10)
  BY <1>1 DEF InstallmentMinor, LastTrigger, RoundedPart, Pct, FullyPaid, Triggers
<1>4. /\ RoundedPart("new", "confirmation", total) = (total * 5) \div 10
      /\ RoundedPart("new", "pre_loading", total) = (total * 5) \div 10
      /\ RoundedPart("established", "confirmation", total) = (total * 3) \div 10
      /\ RoundedPart("established", "pre_loading", total) = (total * 4) \div 10
      /\ RoundedPart("established", "pre_release", total) = (total * 3) \div 10
  BY DEF RoundedPart, Pct, FullyPaid
<1>5. ASSUME NEW t \in Tiers, NEW trigger \in Schedule(t)
      PROVE  InstallmentMinor(t, trigger, total) >= RoundedPart(t, trigger, total)
  <2>1. \/ t = "new" /\ trigger \in {"confirmation", "pre_loading"}
        \/ t = "established" /\ trigger \in Triggers
    BY <1>1, <1>5 DEF Tiers
  <2> QED BY <2>1, <1>2, <1>3, <1>4 DEF Triggers
<1> QED BY <1>2, <1>3, <1>5

----------------------------------------------------------------------------
(* The paid fraction                                                       *)

LEMMA FractionRange ==
  ASSUME NEW t \in Tiers, NEW S \in SUBSET Triggers
  PROVE  Fraction(t, S) \in 0..FullyPaid /\ Fraction(t, S) \in Nat
BY DEF Tiers, Triggers, FullyPaid, Fraction, Share, Pct

\* Settling more never lowers the fraction.
LEMMA FractionMonotone ==
  ASSUME NEW t \in Tiers, NEW S \in SUBSET Triggers, NEW T \in SUBSET Triggers, S \subseteq T
  PROVE  Fraction(t, S) <= Fraction(t, T)
BY DEF Tiers, Triggers, Fraction, Share, Pct

\* Full payment is the whole schedule.
LEMMA FullMeansAll ==
  ASSUME NEW t \in Tiers, NEW S \in SUBSET Triggers, S \subseteq Schedule(t),
         Fraction(t, S) >= FullyPaid
  PROVE  S = Schedule(t)
<1>1. ASSUME NEW trigger \in Schedule(t) PROVE trigger \in S
  <2>1. trigger \in Triggers /\ Pct(t, trigger) > 0
    BY <1>1 DEF Schedule
  <2>2. /\ Pct(t, "confirmation") + Pct(t, "pre_loading") + Pct(t, "pre_release") = FullyPaid
        /\ \A x \in Triggers : Pct(t, x) \in Nat
    BY DEF Tiers, Triggers, FullyPaid, Pct
  <2>3. CASE trigger \notin S
    <3>1. Share(t, S, trigger) = 0
      BY <2>3 DEF Share
    <3>2. \A x \in Triggers : Share(t, S, x) \in Nat /\ Share(t, S, x) <= Pct(t, x)
      BY <2>2 DEF Share
    <3>3. Fraction(t, S) < FullyPaid
      BY <2>1, <2>2, <3>1, <3>2 DEF Fraction, Triggers, FullyPaid
    <3>4. Fraction(t, S) \in Nat /\ FullyPaid \in Nat
      BY FractionRange DEF FullyPaid
    <3> QED BY <3>3, <3>4
  <2> QED BY <2>3
<1> QED BY <1>1

\* What is backed stays backed when an order settles more.
LEMMA BackedMonotone ==
  ASSUME NEW o \in Orders, NEW triggers \in SUBSET Triggers, NEW tenths \in Nat,
         TypeOK, tier' = tier, settled' \in [Orders -> SUBSET Triggers],
         settled[o] \subseteq settled'[o], Backed(o, triggers, tenths)
  PROVE  Backed(o, triggers, tenths)'
<1>1. Fraction(tier[o], settled[o]) <= Fraction(tier[o], settled'[o])
  BY FractionMonotone DEF TypeOK
<1>2. Fraction(tier[o], settled[o]) \in Nat /\ Fraction(tier[o], settled'[o]) \in Nat
  BY FractionRange DEF TypeOK
<1> QED BY <1>1, <1>2 DEF Backed

\* What a request under way is made of.
LEMMA RequestType ==
  ASSUME TypeOK, RequestInv, NEW c \in Clerks, clerk[c].pc # "idle"
  PROVE  /\ clerk[c].payment \in Payments
         /\ target[clerk[c].payment] \in Targets
         /\ clerk[c].pc \in {"verify", "settle", "commit"} => clerk[c].accrue \in BOOLEAN
         /\ clerk[c].pc = "commit" => clerk[c].seen \in SUBSET Triggers
<1>1. clerk[c] \in Requests
  BY DEF TypeOK
<1>2. clerk[c].payment \in Payments
  BY <1>1 DEF Requests, Idle
<1>3. target[clerk[c].payment] \in Targets
  BY <1>2 DEF TypeOK, RequestInv
<1>4. /\ clerk[c].pc \in {"verify", "settle", "commit"} => clerk[c].accrue \in BOOLEAN
      /\ clerk[c].pc = "commit" => clerk[c].seen \in SUBSET Triggers
  BY <1>1 DEF Requests, Idle
<1> QED BY <1>2, <1>3, <1>4

----------------------------------------------------------------------------
LEMMA InitIInv == Init => IInv
<1> SUFFICES ASSUME Init PROVE IInv
  OBVIOUS
<1>1. TypeOK
  BY DEF Init, TypeOK, Requests, Handlers, FullyPaid
<1>2. SettledInv /\ RequestInv /\ EventInv /\ HandlerInv
  BY DEF Init, SettledInv, RequestInv, EventInv, HandlerInv, Idle
<1>3. ProjectionInv
  <2>1. \A o \in Orders : Fraction(tier[o], {}) \in 0..FullyPaid
    BY FractionRange DEF Init
  <2> QED BY <2>1 DEF Init, ProjectionInv, Backed, FullyPaid
<1>4. TradeFollowsFinance /\ ProcurementNeedsDeposit /\ LedgerSound /\ ReversalInv
  BY DEF Init, TradeFollowsFinance, ProcurementNeedsDeposit, LedgerSound, ReversalInv
<1> QED BY <1>1, <1>2, <1>3, <1>4 DEF IInv, CorridorInv

----------------------------------------------------------------------------
(* Steps that settle nothing.                                              *)

\* Orders and trade: no step of theirs touches finance, clerks or logistics.
LEMMA TradeStep ==
  ASSUME IInv, NEW o \in Orders, CreateOrder(o) \/ CancelOrder(o)
  PROVE  IInv'
<1> USE DEF IInv, CorridorInv, CreateOrder, CancelOrder, invoiceVars, paymentVars, logisticsVars
<1>1. TypeOK'
  BY DEF TypeOK
<1>2. SettledInv' /\ RequestInv' /\ EventInv' /\ HandlerInv' /\ ProjectionInv'
  BY DEF SettledInv, RequestInv, SettlesFor, EventInv, HandlerInv, ProjectionInv, Backed
<1>3. TradeFollowsFinance' /\ LedgerSound' /\ ReversalInv'
  BY DEF TradeFollowsFinance, LedgerSound, ReversalInv
<1>4. ProcurementNeedsDeposit'
  BY DEF ProcurementNeedsDeposit, TypeOK
<1> QED BY <1>1, <1>2, <1>3, <1>4

LEMMA TradeHandlerStep ==
  ASSUME IInv, NEW e \in verified, TradeHandlesVerified(e)
  PROVE  IInv'
<1> USE DEF IInv, CorridorInv, TradeHandlesVerified, invoiceVars, paymentVars, logisticsVars
<1>1. e.order \in Orders /\ e.trigger \in Triggers
  BY DEF TypeOK, VerifiedEvents
<1>2. e.trigger \in settled[e.order]
  BY DEF EventInv, Backed
<1>3. TypeOK'
  <2>1. tradePaid' \in [Orders -> SUBSET Triggers]
    BY <1>1 DEF TypeOK, Mark
  <2>2. order' \in [Orders -> {"none", "awaiting_payment", "procurement_active", "cancelled"}]
    BY <1>1 DEF TypeOK, Activate
  <2> QED BY <2>1, <2>2 DEF TypeOK
<1>4. SettledInv' /\ RequestInv' /\ EventInv' /\ HandlerInv' /\ ProjectionInv'
  BY DEF SettledInv, RequestInv, SettlesFor, EventInv, HandlerInv, ProjectionInv, Backed
<1>5. TradeFollowsFinance'
  BY <1>1, <1>2 DEF TradeFollowsFinance, TypeOK, Mark
<1>6. ProcurementNeedsDeposit'
  BY <1>1, <1>2 DEF ProcurementNeedsDeposit, TypeOK, Activate
<1>7. LedgerSound' /\ ReversalInv'
  BY DEF LedgerSound, ReversalInv
<1> QED BY <1>3, <1>4, <1>5, <1>6, <1>7

\* Finance's steps before a commit, and its cancellation handler.
LEMMA InvoiceStep ==
  ASSUME IInv, NEW o \in Orders, FinanceHandlesCreated(o)
  PROVE  IInv'
<1> USE DEF IInv, CorridorInv, FinanceHandlesCreated, orderVars, paymentVars, logisticsVars
<1>1. TypeOK'
  BY DEF TypeOK
<1>2. SettledInv' /\ RequestInv' /\ EventInv' /\ HandlerInv' /\ ProjectionInv'
  BY DEF SettledInv, RequestInv, SettlesFor, EventInv, HandlerInv, ProjectionInv, Backed
<1>3. TradeFollowsFinance' /\ ProcurementNeedsDeposit' /\ LedgerSound' /\ ReversalInv'
  BY DEF TradeFollowsFinance, ProcurementNeedsDeposit, LedgerSound, ReversalInv
<1> QED BY <1>1, <1>2, <1>3

\* The reversal of a commission: what it read, and what it books.
LEMMA WhatIsRead ==
  ASSUME TypeOK, NEW o \in Orders, CancelReads(o)
  PROVE  \E r \in Reversals :
           /\ r.order = o /\ r.due = ~NothingToReverse(o)
           /\ reversing' = reversing \cup {r}
<1> DEFINE due == ~NothingToReverse(o)
<1>1. PICK n \in 1..cancels[o] : reversing' = reversing \cup {[order |-> o, n |-> n, due |-> due]}
  BY DEF CancelReads
<1>2. n \in 1..MaxCancels
  BY DEF TypeOK
<1>3. due \in BOOLEAN
  BY Zenon DEF NothingToReverse
<1> DEFINE r == [order |-> o, n |-> n, due |-> due]
<1> HIDE DEF due
<1>4. r \in Reversals
  BY <1>2, <1>3 DEF Reversals
<1>5. r.order = o /\ r.due = due
  BY Zenon
<1> HIDE DEF r
<1>6. reversing' = reversing \cup {r}
  BY <1>1 DEF r
<1> QED BY <1>4, <1>5, <1>6, Zenon DEF due

LEMMA CancelReadsStep ==
  ASSUME IInv, NEW o \in Orders, CancelReads(o)
  PROVE  IInv'
<1> USE DEF IInv, CorridorInv, CancelReads, orderVars, paymentVars, logisticsVars
<1>1. PICK r \in Reversals :
        /\ r.order = o /\ r.due = ~NothingToReverse(o)
        /\ reversing' = reversing \cup {r}
  BY WhatIsRead
<1>2. r.due => accrued[r.order]
  BY <1>1, Zenon DEF NothingToReverse
<1>3. TypeOK'
  BY <1>1 DEF TypeOK
<1>4. ReversalInv'
  BY <1>1, <1>2 DEF ReversalInv
<1>5. SettledInv' /\ RequestInv' /\ EventInv' /\ HandlerInv' /\ ProjectionInv'
  BY DEF SettledInv, RequestInv, SettlesFor, EventInv, HandlerInv, ProjectionInv, Backed
<1>6. TradeFollowsFinance' /\ ProcurementNeedsDeposit' /\ LedgerSound'
  BY DEF TradeFollowsFinance, ProcurementNeedsDeposit, LedgerSound
<1> QED BY <1>3, <1>4, <1>5, <1>6

LEMMA CancelCommitsStep ==
  ASSUME IInv, NEW r \in reversing, CancelCommits(r)
  PROVE  IInv'
<1> USE DEF IInv, CorridorInv, CancelCommits, orderVars, paymentVars, logisticsVars
<1> DEFINE o == r.order
<1>1. o \in Orders /\ r.n \in 1..MaxCancels
  BY DEF TypeOK, Reversals
<1>2. cancelsSeen' \in [Orders -> SUBSET (1..MaxCancels)]
  BY <1>1 DEF TypeOK
<1>3. /\ clawbacks' \in [Orders -> Nat] /\ clawedBack' \in [Orders -> BOOLEAN]
      /\ LedgerSound'
  <2>1. CASE UNCHANGED <<clawedBack, clawbacks>>
    BY <2>1 DEF TypeOK, LedgerSound
  <2>2. CASE ~UNCHANGED <<clawedBack, clawbacks>>
    <3>1. /\ clawbacks[o] = 0 /\ clawbacks' = [clawbacks EXCEPT ![o] = 1]
          /\ clawedBack' = [clawedBack EXCEPT ![o] = TRUE] /\ r.due
      BY <1>1, <2>2 DEF TypeOK
    <3>2. accrued[o] /\ accruals[o] = 1
      BY <1>1, <3>1 DEF ReversalInv, LedgerSound
    <3>3. clawbacks' \in [Orders -> Nat]
      BY <3>1 DEF TypeOK
    <3>4. clawedBack' \in [Orders -> BOOLEAN]
      BY <3>1, ZenonT(30) DEF TypeOK
    <3>5. ASSUME NEW u \in Orders PROVE clawbacks'[u] = IF u = o THEN 1 ELSE clawbacks[u]
      BY <3>1 DEF TypeOK
    <3>6. ASSUME NEW u \in Orders PROVE clawedBack'[u] <=> (u = o \/ clawedBack[u])
      BY <3>1, Zenon DEF TypeOK
    <3>7. LedgerSound'
      BY <3>2, <3>5, <3>6 DEF LedgerSound
    <3> QED BY <3>3, <3>4, <3>7
  <2> QED BY <2>1, <2>2
<1>4. TypeOK'
  BY <1>2, <1>3 DEF TypeOK
<1>5. SettledInv' /\ RequestInv' /\ EventInv' /\ HandlerInv' /\ ProjectionInv'
  BY DEF SettledInv, RequestInv, SettlesFor, EventInv, HandlerInv, ProjectionInv, Backed
<1>6. TradeFollowsFinance' /\ ProcurementNeedsDeposit' /\ ReversalInv'
  BY DEF TradeFollowsFinance, ProcurementNeedsDeposit, ReversalInv
<1> QED BY <1>3, <1>4, <1>5, <1>6

LEMMA UploadStep ==
  ASSUME IInv, NEW p \in Payments, UploadProof(p)
  PROVE  IInv'
<1> USE DEF IInv, CorridorInv, UploadProof, orderVars, invoiceVars, logisticsVars
<1>1. TypeOK'
  <2>1. PICK x \in Targets : target' = [target EXCEPT ![p] = x]
    OBVIOUS
  <2>2. target' \in [Payments -> Targets \cup {NoTarget}]
    BY <2>1 DEF TypeOK
  <2>3. \A q \in Payments : payment'[q] # "none" => target'[q] \in Targets
    BY <2>1 DEF TypeOK
  <2>4. payment' \in [Payments -> {"none", "pending_verification", "verified", "rejected"}]
    BY DEF TypeOK
  <2> QED BY <2>2, <2>3, <2>4 DEF TypeOK
<1>2. RequestInv'
  <2> SUFFICES ASSUME NEW c \in Clerks, clerk[c].pc # "idle"
               PROVE  /\ payment'[clerk[c].payment] # "none"
                      /\ clerk[c].pc \in {"verify", "settle", "commit"} =>
                           SettlesFor(clerk[c], target[clerk[c].payment])'
    BY DEF RequestInv
  <2>1. clerk[c].payment \in Payments
    BY RequestType
  <2>2. clerk[c].payment # p
    BY <2>1 DEF RequestInv
  <2>3. target'[clerk[c].payment] = target[clerk[c].payment]
    BY <2>1, <2>2 DEF TypeOK
  <2>4. payment'[clerk[c].payment] = payment[clerk[c].payment]
    BY <2>1, <2>2 DEF TypeOK
  <2> QED BY <2>3, <2>4 DEF RequestInv, SettlesFor
<1>3. SettledInv' /\ EventInv' /\ HandlerInv' /\ ProjectionInv'
  BY DEF SettledInv, EventInv, HandlerInv, ProjectionInv, Backed
<1>4. TradeFollowsFinance' /\ ProcurementNeedsDeposit' /\ LedgerSound' /\ ReversalInv'
  BY DEF TradeFollowsFinance, ProcurementNeedsDeposit, LedgerSound, ReversalInv
<1> QED BY <1>1, <1>2, <1>3, <1>4

----------------------------------------------------------------------------
(* Clerks                                                                  *)

\* A step that only changes one clerk's request, to a sound one.
LEMMA ClerkOnly ==
  ASSUME IInv, NEW c \in Clerks, NEW r \in Requests,
         clerk' = [clerk EXCEPT ![c] = r],
         UNCHANGED <<orderVars, invoiceVars, paymentVars, logisticsVars>>,
         r.pc # "idle" => payment[r.payment] # "none",
         r.pc \in {"verify", "settle", "commit"} => SettlesFor(r, target[r.payment])
  PROVE  IInv'
<1> USE DEF IInv, CorridorInv, orderVars, invoiceVars, paymentVars, logisticsVars
<1>1. TypeOK'
  BY DEF TypeOK
<1>2. RequestInv'
  BY DEF TypeOK, RequestInv, SettlesFor
<1>3. SettledInv' /\ EventInv' /\ HandlerInv' /\ ProjectionInv'
  BY DEF SettledInv, EventInv, HandlerInv, ProjectionInv, Backed
<1>4. TradeFollowsFinance' /\ ProcurementNeedsDeposit' /\ LedgerSound' /\ ReversalInv'
  BY DEF TradeFollowsFinance, ProcurementNeedsDeposit, LedgerSound, ReversalInv
<1> QED BY <1>1, <1>2, <1>3, <1>4

LEMMA ReadVerifyStep ==
  ASSUME IInv, NEW c \in Clerks, NEW p \in Payments, ReadVerify(c, p)
  PROVE  IInv'
<1> USE DEF IInv, CorridorInv
<1> DEFINE x == target[p]
           r == [pc |-> "verify", payment |-> p,
                 accrue |-> x.trigger = "confirmation" /\ agent[x.order] /\ ~accrued[x.order]]
<1>1. x \in Targets /\ payment[p] # "none"
  BY DEF ReadVerify, AwaitsDecision, TypeOK
<1>2. r.accrue \in BOOLEAN
  BY <1>1, Zenon DEF TypeOK, Targets
<1>3. r \in Requests
  BY <1>2 DEF Requests
<1>4. clerk' = [clerk EXCEPT ![c] = r]
  BY DEF ReadVerify
<1>5. SettlesFor(r, x)
  BY <1>1 DEF ReadVerify, SettlesFor, CoversInstallment, Due
<1>6. UNCHANGED <<orderVars, invoiceVars, paymentVars, logisticsVars>>
  BY DEF ReadVerify
<1> HIDE DEF IInv, CorridorInv
<1> QED BY <1>1, <1>3, <1>4, <1>5, <1>6, ClerkOnly

LEMMA SettleStep ==
  ASSUME IInv, NEW c \in Clerks, Settle(c)
  PROVE  IInv'
<1> DEFINE r == [pc |-> "settle", payment |-> clerk[c].payment, accrue |-> clerk[c].accrue]
<1>1. clerk[c].pc = "verify"
  BY DEF Settle
<1>2. /\ clerk[c].payment \in Payments /\ clerk[c].accrue \in BOOLEAN
      /\ payment[clerk[c].payment] # "none"
      /\ SettlesFor(clerk[c], target[clerk[c].payment])
  BY <1>1, RequestType DEF IInv, CorridorInv, RequestInv
<1>3. r \in Requests
  BY <1>2 DEF Requests
<1>4. SettlesFor(r, target[r.payment])
  BY <1>1, <1>2 DEF SettlesFor
<1>5. /\ clerk' = [clerk EXCEPT ![c] = r]
      /\ UNCHANGED <<orderVars, invoiceVars, paymentVars, logisticsVars>>
  BY DEF Settle
<1> QED BY <1>2, <1>3, <1>4, <1>5, ClerkOnly

LEMMA RecomputeStep ==
  ASSUME IInv, NEW c \in Clerks, Recompute(c)
  PROVE  IInv'
<1> DEFINE x == target[clerk[c].payment]
           r == [pc |-> "commit", payment |-> clerk[c].payment, accrue |-> clerk[c].accrue,
                 seen |-> settled[x.order] \cup {x.trigger}]
<1>1. clerk[c].pc = "settle"
  BY DEF Recompute
<1>2. /\ clerk[c].payment \in Payments /\ clerk[c].accrue \in BOOLEAN /\ x \in Targets
      /\ payment[clerk[c].payment] # "none"
      /\ SettlesFor(clerk[c], x)
  BY <1>1, RequestType DEF IInv, CorridorInv, RequestInv
<1>3. r.seen \in SUBSET Triggers
  BY <1>2 DEF IInv, TypeOK, Targets
<1>4. r \in Requests
  BY <1>2, <1>3 DEF Requests
<1>5. SettlesFor(r, x)
  BY <1>1, <1>2 DEF SettlesFor
<1>6. /\ clerk' = [clerk EXCEPT ![c] = r]
      /\ UNCHANGED <<orderVars, invoiceVars, paymentVars, logisticsVars>>
  BY DEF Recompute, SeesSettled
<1> QED BY <1>2, <1>4, <1>5, <1>6, ClerkOnly

LEMMA ReadRejectStep ==
  ASSUME IInv, NEW c \in Clerks, NEW p \in Payments, ReadReject(c, p)
  PROVE  IInv'
<1> DEFINE r == [pc |-> "reject", payment |-> p]
<1>1. r \in Requests /\ r.pc = "reject"
  BY DEF Requests
<1>2. payment[p] # "none"
  BY DEF ReadReject, AwaitsDecision
<1>3. /\ clerk' = [clerk EXCEPT ![c] = r]
      /\ UNCHANGED <<orderVars, invoiceVars, paymentVars, logisticsVars>>
  BY DEF ReadReject
<1> QED BY <1>1, <1>2, <1>3, ClerkOnly

LEMMA CommitRejectStep ==
  ASSUME IInv, NEW c \in Clerks, CommitReject(c)
  PROVE  IInv'
<1> USE DEF IInv, CorridorInv, CommitReject, orderVars, invoiceVars, logisticsVars
<1>1. clerk[c].payment \in Payments /\ payment[clerk[c].payment] # "none"
  BY RequestType DEF RequestInv
<1>2. TypeOK'
  <2>1. payment' \in [Payments -> {"none", "pending_verification", "verified", "rejected"}]
    BY <1>1 DEF TypeOK
  <2>2. clerk' \in [Clerks -> Requests]
    BY DEF TypeOK, Requests
  <2>3. \A q \in Payments : payment'[q] # "none" => target[q] \in Targets
    BY <1>1 DEF TypeOK
  <2> QED BY <2>1, <2>2, <2>3 DEF TypeOK
<1>3. RequestInv'
  <2>1. \A q \in Payments : payment[q] # "none" => payment'[q] # "none"
    BY <1>1 DEF TypeOK
  <2> SUFFICES ASSUME NEW b \in Clerks, clerk'[b].pc # "idle"
               PROVE  /\ payment'[clerk'[b].payment] # "none"
                      /\ clerk'[b].pc \in {"verify", "settle", "commit"} =>
                           SettlesFor(clerk[b], target[clerk[b].payment])' 
    BY DEF RequestInv
  <2>2. clerk'[b] = clerk[b] /\ clerk[b].pc # "idle"
    BY DEF TypeOK, Idle
  <2>3. clerk[b].payment \in Payments
    BY <2>2, RequestType
  <2> QED BY <2>1, <2>2, <2>3 DEF RequestInv, SettlesFor
<1>4. SettledInv' /\ EventInv' /\ HandlerInv' /\ ProjectionInv'
  BY DEF SettledInv, EventInv, HandlerInv, ProjectionInv, Backed
<1>5. TradeFollowsFinance' /\ ProcurementNeedsDeposit' /\ LedgerSound' /\ ReversalInv'
  BY DEF TradeFollowsFinance, ProcurementNeedsDeposit, LedgerSound, ReversalInv
<1> QED BY <1>2, <1>3, <1>4, <1>5

\* The step that settles: everything it derives is backed by what it settles.
LEMMA CommitVerifyStep ==
  ASSUME IInv, NEW c \in Clerks, CommitVerify(c)
  PROVE  IInv'
<1> DEFINE r == clerk[c]
           p == r.payment
           x == target[p]
           o == x.order
           e == [payment |-> p, by |-> c, order |-> o, trigger |-> x.trigger,
                 tenths |-> Fraction(tier[o], r.seen)]
<1>1. r.pc = "commit" /\ clerk' = [clerk EXCEPT ![c] = Idle]
  BY DEF CommitVerify
<1>2. /\ p \in Payments /\ x \in Targets /\ r.accrue \in BOOLEAN /\ r.seen \in SUBSET Triggers
      /\ SettlesFor(r, x)
  BY <1>1, RequestType DEF IInv, CorridorInv, RequestInv
<1>3. CASE r.accrue /\ AccrualExists(o)
  <2>1. UNCHANGED <<orderVars, invoiceVars, paymentVars, logisticsVars>>
    BY <1>3 DEF CommitVerify
  <2>2. Idle \in Requests /\ Idle.pc = "idle"
    BY DEF Requests, Idle
  <2> QED BY <1>1, <2>1, <2>2, ClerkOnly
<1>4. CASE ~(r.accrue /\ AccrualExists(o))
  <2>1. /\ settled' = [settled EXCEPT ![o] = @ \cup {x.trigger}]
        /\ payment' = [payment EXCEPT ![p] = "verified"]
        /\ invoice' = [invoice EXCEPT ![o] =
             IF r.seen = Schedule(tier[o]) THEN "paid" ELSE "part_paid"]
        /\ accruals' = [accruals EXCEPT ![o] = IF r.accrue THEN @ + 1 ELSE @]
        /\ accrued' = [accrued EXCEPT ![o] = @ \/ r.accrue]
        /\ verified' = verified \cup {e}
        /\ UNCHANGED <<clawedBack, clawbacks, cancelsSeen, reversing, target>>
    BY <1>4 DEF CommitVerify
  <2>2. UNCHANGED <<orderVars, logisticsVars>>
    BY DEF CommitVerify
  <2>a. PICK ev : ev = e
    OBVIOUS
  <2> HIDE DEF e
  <2>3. o \in Orders /\ x.trigger \in Triggers
    BY <1>2 DEF Targets
  <2>4. ev.order = o /\ ev.trigger = x.trigger /\ ev.tenths = Fraction(tier[o], r.seen)
    BY <2>a DEF e
  <2>5. /\ settled' \in [Orders -> SUBSET Triggers]
        /\ settled'[o] = settled[o] \cup {x.trigger}
        /\ \A u \in Orders : settled[u] \subseteq settled'[u]
    BY <2>1, <2>3 DEF IInv, TypeOK
  <2>6. Fraction(tier[o], r.seen) \in 0..FullyPaid
    BY <1>2, <2>3, FractionRange DEF IInv, TypeOK
  <2>7. ev \in VerifiedEvents /\ verified' = verified \cup {ev}
    BY <1>2, <2>1, <2>3, <2>6, <2>a DEF e, VerifiedEvents
  <2>8. TypeOK'
    <3>1. payment' \in [Payments -> {"none", "pending_verification", "verified", "rejected"}]
      BY <1>2, <2>1 DEF IInv, TypeOK
    <3>2. \A q \in Payments : payment'[q] # "none" => target'[q] \in Targets
      BY <1>2, <2>1 DEF IInv, TypeOK
    <3>3. invoice' \in [Orders -> {"none", "issued", "part_paid", "paid"}]
      BY <2>1, <2>3 DEF IInv, TypeOK
    <3>4. accruals' \in [Orders -> Nat]
      BY SMTT(20), <2>1, <2>3, <1>2 DEF IInv, TypeOK
    <3>5. accrued' \in [Orders -> BOOLEAN]
      <4>1. (accrued[o] \/ r.accrue) \in BOOLEAN
        BY Zenon
      <4> QED BY <2>1, <2>3, <4>1, Zenon DEF IInv, TypeOK
    <3>6. clerk' \in [Clerks -> Requests]
      BY <1>1 DEF IInv, TypeOK, Requests
    <3> QED BY <2>1, <2>2, <2>5, <2>7, <3>1, <3>2, <3>3, <3>4, <3>5, <3>6
            DEF IInv, TypeOK, orderVars, logisticsVars
  <2>9. SettledInv'
    <3>1. x.trigger \in Schedule(tier[o])
      BY <1>2 DEF SettlesFor
    <3> QED BY <2>1, <2>2, <2>3, <3>1 DEF SettledInv, IInv, CorridorInv, TypeOK, orderVars
  <2>10. RequestInv'
    <3> SUFFICES ASSUME NEW b \in Clerks, clerk'[b].pc # "idle"
                 PROVE  /\ payment'[clerk'[b].payment] # "none"
                        /\ clerk'[b].pc \in {"verify", "settle", "commit"} =>
                             SettlesFor(clerk[b], target[clerk[b].payment])'
      BY DEF RequestInv
    <3>1. clerk'[b] = clerk[b] /\ clerk[b].pc # "idle"
      BY <1>1 DEF IInv, TypeOK, Idle
    <3>2. clerk[b].payment \in Payments /\ target[clerk[b].payment] \in Targets
      BY <3>1, RequestType DEF IInv, CorridorInv
    <3>3. target[clerk[b].payment].order \in Orders
      BY <3>2 DEF Targets
    <3>4. payment'[clerk[b].payment] # "none"
      BY <1>2, <2>1, <3>1, <3>2 DEF IInv, TypeOK, CorridorInv, RequestInv
    <3>5. ASSUME clerk[b].pc \in {"verify", "settle", "commit"}
          PROVE  SettlesFor(clerk[b], target[clerk[b].payment])'
      <4>1. SettlesFor(clerk[b], target[clerk[b].payment])
        BY <3>1, <3>5 DEF IInv, CorridorInv, RequestInv
      <4> QED BY <4>1, <2>1, <2>2, <2>5, <3>1, <3>3 DEF SettlesFor, orderVars
    <3> QED BY <3>1, <3>4, <3>5
  <2>11. EventInv'
    <3>1. ASSUME NEW d \in verified PROVE Backed(d.order, {d.trigger}, d.tenths)'
      <4>1. d.order \in Orders /\ d.trigger \in Triggers /\ d.tenths \in Nat
        BY SMTT(20) DEF IInv, TypeOK, VerifiedEvents, FullyPaid
      <4> QED BY <4>1, <2>2, <2>5, BackedMonotone DEF IInv, CorridorInv, EventInv, orderVars
    <3>2. Backed(ev.order, {ev.trigger}, ev.tenths)'
      <4>1. r.seen \subseteq settled'[o]
        BY <1>1, <1>2, <2>5 DEF SettlesFor
      <4>2. settled'[o] \in SUBSET Triggers /\ tier[o] \in Tiers
        BY <2>3, <2>5 DEF IInv, TypeOK
      <4>3. Fraction(tier[o], r.seen) <= Fraction(tier[o], settled'[o])
        BY <1>2, <4>1, <4>2, FractionMonotone
      <4> QED BY <2>2, <2>3, <2>4, <2>5, <4>3 DEF Backed, orderVars
    <3> QED BY <2>7, <3>1, <3>2 DEF EventInv
  <2>12. HandlerInv'
    <3> SUFFICES ASSUME NEW a \in Processes, handler[a].pc = "write"
                 PROVE  /\ handler[a].event \in verified'
                        /\ Backed(handler[a].event.order, handler[a].triggers,
                                  handler[a].tenths)'
      BY <2>2 DEF HandlerInv, logisticsVars
    <3>1. /\ handler[a].event \in VerifiedEvents /\ handler[a].triggers \in SUBSET Triggers
          /\ handler[a].tenths \in Nat
      BY DEF IInv, TypeOK, Handlers, Idle, FullyPaid
    <3>2. handler[a].event.order \in Orders
      BY <3>1 DEF VerifiedEvents
    <3>3. /\ handler[a].event \in verified
          /\ Backed(handler[a].event.order, handler[a].triggers, handler[a].tenths)
      BY DEF IInv, CorridorInv, HandlerInv
    <3>4. handler[a].event \in verified'
      BY <2>1, <3>3
    <3>5. TypeOK /\ tier' = tier /\ handler' = handler
      BY <2>2 DEF IInv, orderVars, logisticsVars
    <3> QED BY <2>5, <3>1, <3>2, <3>3, <3>4, <3>5, BackedMonotone
  <2>13. ProjectionInv'
    <3> SUFFICES ASSUME NEW u \in Orders PROVE Backed(u, paidTriggers[u], paidTenths[u])'
      BY DEF ProjectionInv
    <3>1. paidTriggers[u] \in SUBSET Triggers /\ paidTenths[u] \in Nat
      BY SMTT(20) DEF IInv, TypeOK, FullyPaid
    <3>2. Backed(u, paidTriggers[u], paidTenths[u])
      BY DEF IInv, CorridorInv, ProjectionInv
    <3>3. TypeOK /\ tier' = tier /\ paidTriggers' = paidTriggers /\ paidTenths' = paidTenths
      BY <2>2 DEF IInv, orderVars, logisticsVars
    <3> QED BY <2>5, <3>1, <3>2, <3>3, BackedMonotone
  <2>14. TradeFollowsFinance' /\ ProcurementNeedsDeposit'
    BY <2>2, <2>5 DEF IInv, CorridorInv, TradeFollowsFinance, ProcurementNeedsDeposit, orderVars
  <2>15. LedgerSound'
    <3>1. CASE ~r.accrue
      <4>1. accruals' = accruals
        BY <2>1, <2>3, <3>1 DEF IInv, TypeOK
      <4>2. \A u \in Orders : accrued'[u] <=> accrued[u]
        BY <2>1, <2>3, <3>1, Zenon DEF IInv, TypeOK
      <4> QED BY <2>1, <2>2, <2>5, <4>1, <4>2 DEF IInv, CorridorInv, LedgerSound, orderVars
    <3>2. CASE r.accrue
      <4>1. agent[o] /\ x.trigger = "confirmation"
        BY <1>2, <3>2 DEF SettlesFor
      <4>2. accruals[o] = 0
        BY <1>4, <2>3, <3>2 DEF AccrualExists, IInv, TypeOK
      <4>3. accruals' = [accruals EXCEPT ![o] = 1]
        BY <2>1, <3>2, <4>2
      <4>4. \A u \in Orders : accrued'[u] <=> (u = o \/ accrued[u])
        BY <2>1, <2>3, <3>2, Zenon DEF IInv, TypeOK
      <4>5. \A u \in Orders : accruals'[u] = IF u = o THEN 1 ELSE accruals[u]
        BY <2>3, <4>3 DEF IInv, TypeOK
      <4>6. "confirmation" \in settled'[o]
        BY <2>5, <4>1
      <4>7. clawbacks[o] = 0
        BY <2>3, <4>2 DEF IInv, CorridorInv, LedgerSound, TypeOK
      <4>8. UNCHANGED <<clawbacks, clawedBack, agent>> /\ agent[o]
            /\ \A u \in Orders : settled[u] \subseteq settled'[u]
        BY <2>1, <2>2, <2>5, <4>1 DEF orderVars
      <4> QED BY <4>4, <4>5, <4>6, <4>7, <4>8 DEF IInv, CorridorInv, LedgerSound
    <3> QED BY <3>1, <3>2
  <2>16. ReversalInv'
    <3>1. \A u \in Orders : accrued[u] => accrued'[u]
      BY <2>1, <2>3, Zenon DEF IInv, TypeOK
    <3> QED BY <2>1, <3>1 DEF IInv, TypeOK, Reversals, CorridorInv, ReversalInv
  <2> QED BY <2>8, <2>9, <2>10, <2>11, <2>12, <2>13, <2>14, <2>15, <2>16 DEF IInv, CorridorInv
<1> QED BY <1>3, <1>4

----------------------------------------------------------------------------
(* Logistics                                                               *)

LEMMA LogisticsReadsStep ==
  ASSUME IInv, NEW a \in Processes, NEW e \in verified, LogisticsReads(a, e)
  PROVE  IInv'
<1> USE DEF LogisticsReads, orderVars, invoiceVars, paymentVars
<1> DEFINE h == [pc |-> "write", event |-> e, triggers |-> paidTriggers[e.order],
                 tenths |-> paidTenths[e.order]]
<1>1. e \in VerifiedEvents /\ e.order \in Orders
  BY DEF IInv, TypeOK, VerifiedEvents
<1>2. h \in Handlers
  BY <1>1 DEF Handlers, IInv, TypeOK
<1>3. handler' = [handler EXCEPT ![a] = h]
  OBVIOUS
<1>4. TypeOK'
  BY <1>2, <1>3 DEF IInv, TypeOK
<1>5. Backed(e.order, h.triggers, h.tenths)
  BY <1>1 DEF IInv, CorridorInv, ProjectionInv
<1>6. HandlerInv'
  BY <1>3, <1>5 DEF IInv, TypeOK, CorridorInv, HandlerInv, Backed
<1>7. SettledInv' /\ RequestInv' /\ EventInv' /\ ProjectionInv'
  BY DEF IInv, CorridorInv, SettledInv, RequestInv, SettlesFor, EventInv, ProjectionInv, Backed
<1>8. TradeFollowsFinance' /\ ProcurementNeedsDeposit' /\ LedgerSound' /\ ReversalInv'
  BY DEF IInv, CorridorInv, TradeFollowsFinance, ProcurementNeedsDeposit, LedgerSound, ReversalInv
<1> QED BY <1>4, <1>6, <1>7, <1>8 DEF IInv, CorridorInv

LEMMA LogisticsWritesStep ==
  ASSUME IInv, NEW a \in Processes, LogisticsWrites(a)
  PROVE  IInv'
<1> USE DEF LogisticsWrites, orderVars, invoiceVars, paymentVars
<1> DEFINE h == handler[a]
           o == h.event.order
<1>1. h.pc = "write" /\ h \in Handlers
  BY DEF IInv, TypeOK
<1>2. /\ h.event \in verified /\ h.event \in VerifiedEvents
      /\ h.triggers \in SUBSET Triggers /\ h.tenths \in 0..FullyPaid
      /\ Backed(o, h.triggers, h.tenths)
  BY <1>1 DEF Handlers, Idle, IInv, CorridorInv, HandlerInv
<1>3. o \in Orders /\ h.event.trigger \in Triggers /\ h.event.tenths \in 0..FullyPaid
  BY <1>2 DEF VerifiedEvents
<1>4. Backed(o, {h.event.trigger}, h.event.tenths)
  BY <1>2 DEF IInv, CorridorInv, EventInv
<1>5. /\ Backed(o, h.triggers \cup {h.event.trigger}, Greatest(h.tenths, h.event.tenths))
      /\ Greatest(h.tenths, h.event.tenths) \in 0..FullyPaid
  BY <1>2, <1>3, <1>4 DEF Backed, Greatest
<1>6. TypeOK'
  BY <1>2, <1>3, <1>5 DEF IInv, TypeOK, Handlers
<1>7. HandlerInv'
  BY DEF IInv, TypeOK, CorridorInv, HandlerInv, Idle, Backed
<1>8. ProjectionInv'
  BY <1>3, <1>5 DEF IInv, TypeOK, CorridorInv, ProjectionInv, Backed
<1>9. SettledInv' /\ RequestInv' /\ EventInv'
  BY DEF IInv, CorridorInv, SettledInv, RequestInv, SettlesFor, EventInv, Backed
<1>10. TradeFollowsFinance' /\ ProcurementNeedsDeposit' /\ LedgerSound' /\ ReversalInv'
  BY DEF IInv, CorridorInv, TradeFollowsFinance, ProcurementNeedsDeposit, LedgerSound, ReversalInv
<1> QED BY <1>6, <1>7, <1>8, <1>9, <1>10 DEF IInv, CorridorInv

----------------------------------------------------------------------------
LEMMA StutterStep == ASSUME IInv, UNCHANGED vars PROVE IInv'
<1> USE DEF vars, orderVars, invoiceVars, paymentVars, logisticsVars
<1>1. TypeOK'
  BY DEF IInv, TypeOK
<1>2. CorridorInv'
  BY DEF IInv, CorridorInv, SettledInv, RequestInv, SettlesFor, EventInv, HandlerInv,
         ProjectionInv, Backed, TradeFollowsFinance, ProcurementNeedsDeposit, LedgerSound,
         ReversalInv
<1> QED BY <1>1, <1>2 DEF IInv

LEMMA NextIInv == IInv /\ [Next]_vars => IInv'
<1> SUFFICES ASSUME IInv, [Next]_vars PROVE IInv'
  OBVIOUS
<1>1. ASSUME NEW o \in Orders, CreateOrder(o) \/ CancelOrder(o) PROVE IInv'
  BY <1>1, TradeStep
<1>2. ASSUME NEW p \in Payments, UploadProof(p) PROVE IInv'
  BY <1>2, UploadStep
<1>3. ASSUME NEW c \in Clerks, ClerkStep(c) PROVE IInv'
  BY <1>3, ReadVerifyStep, ReadRejectStep, SettleStep, RecomputeStep, CommitVerifyStep,
     CommitRejectStep DEF ClerkStep
<1>4. CASE HandlerStep
  BY <1>4, InvoiceStep, CancelReadsStep, CancelCommitsStep, TradeHandlerStep,
     LogisticsReadsStep, LogisticsWritesStep DEF HandlerStep
<1>5. CASE UNCHANGED vars
  BY <1>5, StutterStep
<1> QED BY <1>1, <1>2, <1>3, <1>4, <1>5 DEF Next

\* Every reachable state is well typed, for any number of actors.
THEOREM TypeCorrect == Spec => []TypeOK
<1>1. IInv => TypeOK
  BY DEF IInv
<1> QED BY InitIInv, NextIInv, <1>1, PTL DEF Spec

\* Everything derived from a settlement is bounded by what is settled.
THEOREM CorridorInvariant == Spec => []CorridorInv
<1>1. IInv => CorridorInv
  BY DEF IInv
<1> QED BY InitIInv, NextIInv, <1>1, PTL DEF Spec

LEMMA GatesFollow == ASSUME IInv PROVE ReleaseNeverEarly
<1> SUFFICES ASSUME NEW o \in Orders
             PROVE  /\ Releasable(o) => settled[o] = Schedule(tier[o])
                    /\ PreLoadingPaid(o) => "pre_loading" \in settled[o]
  BY DEF ReleaseNeverEarly
<1>1. Backed(o, paidTriggers[o], paidTenths[o]) /\ settled[o] \subseteq Schedule(tier[o])
  BY DEF IInv, CorridorInv, ProjectionInv, SettledInv
<1>2. /\ tier[o] \in Tiers /\ settled[o] \in SUBSET Triggers
      /\ Fraction(tier[o], settled[o]) \in Nat /\ paidTenths[o] \in Nat /\ FullyPaid \in Nat
  BY FractionRange DEF IInv, TypeOK, FullyPaid
<1>3. ASSUME Releasable(o) PROVE settled[o] = Schedule(tier[o])
  <2>1. Fraction(tier[o], settled[o]) >= FullyPaid
    BY <1>1, <1>2, <1>3 DEF Backed, Releasable
  <2> QED BY <1>1, <1>2, <2>1, FullMeansAll
<1>4. PreLoadingPaid(o) => "pre_loading" \in settled[o]
  BY <1>1 DEF Backed, PreLoadingPaid
<1> QED BY <1>3, <1>4

\* The release gate opens only for a schedule settled in full, and the booking
\* gate only for a settled pre-loading installment, whatever races or order of
\* events (order-payment.service.ts).
THEOREM NeverEarly == Spec => []ReleaseNeverEarly
BY InitIInv, NextIInv, GatesFollow, PTL DEF Spec

\* Procurement is active only behind a settled deposit (order.service.ts).
THEOREM DepositFirst == Spec => []ProcurementNeedsDeposit
<1>1. IInv => ProcurementNeedsDeposit
  BY DEF IInv, CorridorInv
<1> QED BY InitIInv, NextIInv, <1>1, PTL DEF Spec

\* One accrual and at most one clawback of it per order (commission.service.ts).
THEOREM SoundLedger == Spec => []LedgerSound
<1>1. IInv => LedgerSound
  BY DEF IInv, CorridorInv
<1> QED BY InitIInv, NextIInv, <1>1, PTL DEF Spec

----------------------------------------------------------------------------
(* What was settled, and by what                                           *)

LEMMA AlwaysIInv == Spec => []IInv
BY InitIInv, NextIInv, PTL DEF Spec

\* What a verification that is not rolled back does: what it settles, and its
\* event.
Books(c, p, o, trigger, e) ==
  /\ p = clerk[c].payment /\ payment[p] # "none" /\ clerk[c].pc = "commit"
  /\ target[p] = [order |-> o, trigger |-> trigger, short |-> FALSE]
  /\ trigger \in Schedule(tier[o])
  /\ e.payment = p /\ e.order = o /\ e.trigger = trigger
  /\ e.tenths = Fraction(tier[o], clerk[c].seen)
  /\ settled' = [settled EXCEPT ![o] = @ \cup {trigger}]
  /\ payment' = [payment EXCEPT ![p] = "verified"]
  /\ invoice' = [invoice EXCEPT ![o] =
       IF clerk[c].seen = Schedule(tier[o]) THEN "paid" ELSE "part_paid"]
  /\ verified' = verified \cup {e} /\ target' = target
  /\ UNCHANGED <<orderVars, logisticsVars>>

LEMMA CommitFacts ==
  ASSUME IInv, NEW c \in Clerks, CommitVerify(c)
  PROVE  \/ UNCHANGED <<invoiceVars, paymentVars, orderVars, logisticsVars>>
         \/ \E p \in Payments, o \in Orders, trigger \in Triggers, e \in VerifiedEvents :
              Books(c, p, o, trigger, e)
<1> DEFINE r == clerk[c]
           p == r.payment
           x == target[p]
           o == x.order
           e == [payment |-> p, by |-> c, order |-> o, trigger |-> x.trigger,
                 tenths |-> Fraction(tier[o], r.seen)]
<1>1. r.pc = "commit"
  BY DEF CommitVerify
<1>2. /\ p \in Payments /\ x \in Targets /\ r.seen \in SUBSET Triggers
      /\ SettlesFor(r, x) /\ payment[p] # "none"
  BY <1>1, RequestType DEF IInv, CorridorInv, RequestInv
<1>3. o \in Orders /\ x.trigger \in Triggers /\ x.trigger \in Schedule(tier[o])
  BY <1>2 DEF Targets, SettlesFor
<1>4. x = [order |-> o, trigger |-> x.trigger, short |-> FALSE]
  BY <1>2 DEF Targets, SettlesFor
<1>5. \/ UNCHANGED <<invoiceVars, paymentVars, orderVars, logisticsVars>>
      \/ /\ settled' = [settled EXCEPT ![o] = @ \cup {x.trigger}]
         /\ payment' = [payment EXCEPT ![p] = "verified"]
         /\ invoice' = [invoice EXCEPT ![o] =
              IF r.seen = Schedule(tier[o]) THEN "paid" ELSE "part_paid"]
         /\ verified' = verified \cup {e} /\ target' = target
         /\ UNCHANGED <<orderVars, logisticsVars>>
  BY DEF CommitVerify
<1>6. e \in VerifiedEvents
  <2>1. Fraction(tier[o], r.seen) \in 0..FullyPaid
    BY <1>2, <1>3, FractionRange DEF IInv, TypeOK
  <2> QED BY <1>2, <1>3, <2>1 DEF VerifiedEvents
<1>7. /\ e.payment = p /\ e.order = o /\ e.trigger = x.trigger
      /\ e.tenths = Fraction(tier[o], r.seen)
  OBVIOUS
<1>8. CASE UNCHANGED <<invoiceVars, paymentVars, orderVars, logisticsVars>>
  BY <1>8
<1>9. CASE ~UNCHANGED <<invoiceVars, paymentVars, orderVars, logisticsVars>>
  <2>1. Books(c, p, o, x.trigger, e)
    BY <1>1, <1>2, <1>3, <1>4, <1>5, <1>7, <1>9 DEF Books
  <2> HIDE DEF e, Books
  <2> QED BY <1>2, <1>3, <1>6, <2>1
<1> QED BY <1>8, <1>9

\* Every settled trigger has its event, and the payment of an event cannot be
\* uploaded anew.
BookedInv ==
  /\ SettledByFullPayment
  /\ \A e \in verified : payment[e.payment] # "none"

LEMMA BookedUpload ==
  ASSUME IInv, BookedInv, NEW p \in Payments, UploadProof(p)
  PROVE  BookedInv'
<1>1. UNCHANGED <<settled, verified>>
  BY DEF UploadProof, invoiceVars
<1>2. ASSUME NEW e \in verified
      PROVE  target'[e.payment] = target[e.payment] /\ payment'[e.payment] # "none"
  <2>1. e.payment \in Payments /\ e.payment # p
    BY DEF IInv, TypeOK, VerifiedEvents, BookedInv, UploadProof
  <2>2. PICK x \in Targets : target' = [target EXCEPT ![p] = x]
    BY DEF UploadProof
  <2>3. payment' = [payment EXCEPT ![p] = "pending_verification"]
    BY DEF UploadProof
  <2> QED BY <2>1, <2>2, <2>3 DEF IInv, TypeOK, BookedInv
<1> QED BY <1>1, <1>2 DEF BookedInv, SettledByFullPayment

LEMMA BookedCommit ==
  ASSUME IInv, BookedInv, NEW c \in Clerks, CommitVerify(c)
  PROVE  BookedInv'
<1>1. CASE UNCHANGED <<invoiceVars, paymentVars, orderVars, logisticsVars>>
  BY <1>1 DEF BookedInv, SettledByFullPayment, invoiceVars, paymentVars
<1>2. ASSUME NEW p \in Payments, NEW o \in Orders, NEW trigger \in Triggers,
             NEW e \in VerifiedEvents, Books(c, p, o, trigger, e)
      PROVE  BookedInv'
  <2>1. /\ target[p] = [order |-> o, trigger |-> trigger, short |-> FALSE]
        /\ e.payment = p /\ e.order = o /\ e.trigger = trigger
        /\ settled' = [settled EXCEPT ![o] = @ \cup {trigger}]
        /\ payment' = [payment EXCEPT ![p] = "verified"]
        /\ verified' = verified \cup {e} /\ target' = target
    BY <1>2 DEF Books
  <2>2. ASSUME NEW d \in verified' PROVE payment'[d.payment] # "none"
    BY <2>1 DEF IInv, TypeOK, VerifiedEvents, BookedInv
  <2>3. ASSUME NEW u \in Orders, NEW t \in settled'[u]
        PROVE  \E d \in verified' :
                 /\ d.order = u /\ d.trigger = t
                 /\ target'[d.payment] = [order |-> u, trigger |-> t, short |-> FALSE]
    <3>1. CASE u = o /\ t = trigger
      BY <2>1, <3>1
    <3>2. CASE ~(u = o /\ t = trigger)
      <4>1. t \in settled[u]
        BY <2>1, <2>3, <3>2 DEF IInv, TypeOK
      <4> QED BY <2>1, <4>1 DEF BookedInv, SettledByFullPayment
    <3> QED BY <3>1, <3>2
  <2> QED BY <2>2, <2>3 DEF BookedInv, SettledByFullPayment
<1> QED BY <1>1, <1>2, CommitFacts

LEMMA BookedStep == IInv /\ BookedInv /\ [Next]_vars => BookedInv'
<1> SUFFICES ASSUME IInv, BookedInv, [Next]_vars PROVE BookedInv'
  OBVIOUS
<1>1. ASSUME NEW p \in Payments, UploadProof(p) PROVE BookedInv'
  BY <1>1, BookedUpload
<1>2. ASSUME NEW c \in Clerks, CommitVerify(c) PROVE BookedInv'
  BY <1>2, BookedCommit
<1>3. ASSUME NEW c \in Clerks, CommitReject(c) PROVE BookedInv'
  <2>1. \A p \in Payments : payment'[p] # "none" \/ payment'[p] = payment[p]
    BY <1>3 DEF IInv, TypeOK, CommitReject
  <2>2. UNCHANGED <<settled, verified, target>>
    BY <1>3 DEF CommitReject, invoiceVars
  <2> QED BY <2>1, <2>2 DEF IInv, TypeOK, VerifiedEvents, BookedInv, SettledByFullPayment
<1>4. ASSUME UNCHANGED <<settled, verified, target, payment>> PROVE BookedInv'
  BY <1>4 DEF BookedInv, SettledByFullPayment
<1>5. CASE UNCHANGED vars
  BY <1>4, <1>5 DEF vars, invoiceVars, paymentVars
<1>6. ASSUME NEW o \in Orders, CreateOrder(o) \/ CancelOrder(o) PROVE BookedInv'
  BY <1>4, <1>6 DEF CreateOrder, CancelOrder, invoiceVars, paymentVars
<1>7. CASE HandlerStep
  BY <1>4, <1>7 DEF HandlerStep, FinanceHandlesCreated, CancelReads, CancelCommits,
     TradeHandlesVerified, LogisticsReads, LogisticsWrites, invoiceVars, paymentVars
<1>8. ASSUME NEW c \in Clerks, NEW p \in Payments, ReadVerify(c, p) \/ ReadReject(c, p)
      PROVE  BookedInv'
  BY <1>4, <1>8 DEF ReadVerify, ReadReject, invoiceVars, paymentVars
<1>9. ASSUME NEW c \in Clerks, Settle(c) \/ Recompute(c) PROVE BookedInv'
  BY <1>4, <1>9 DEF Settle, Recompute, invoiceVars, paymentVars
<1> QED BY <1>1, <1>2, <1>3, <1>5, <1>6, <1>7, <1>8, <1>9 DEF Next, ClerkStep

\* CF-007: every settled installment was covered in full by a verified payment
\* for it, however many clerks verify at once (payment.service.ts).
THEOREM FullySettled == Spec => []SettledByFullPayment
<1>1. Init => BookedInv
  BY DEF Init, BookedInv, SettledByFullPayment
<1>2. BookedInv => SettledByFullPayment
  BY DEF BookedInv
<1> QED BY AlwaysIInv, <1>1, BookedStep, <1>2, PTL DEF Spec

----------------------------------------------------------------------------
(* One clerk: nothing is settled twice                                     *)

\* The installment a verification is about is not settled yet, and what its
\* transaction saw is all there is.
Untouched(r) ==
  r.pc \in {"verify", "settle", "commit"} =>
    LET x == target[r.payment] IN
      /\ x.trigger \notin settled[x.order]
      /\ r.pc = "commit" => r.seen = settled[x.order] \cup {x.trigger}

\* The invoice is paid when everything is settled, and the latest event of an
\* order tells the fraction of all that is.
CaughtUp(o) ==
  /\ settled[o] = Schedule(tier[o]) => invoice[o] = "paid"
  /\ settled[o] # {} =>
       \E e \in verified : e.order = o /\ e.tenths = Fraction(tier[o], settled[o])

OneClerkInv ==
  /\ \A c \in Clerks : Untouched(clerk[c])
  /\ SettledOnce
  /\ \A o \in Orders : CaughtUp(o)

\* What none of a step's variables disturbs.
LEMMA OneClerkStutter ==
  ASSUME OneClerkInv, UNCHANGED <<tier, settled, verified, invoice, target, clerk>>
  PROVE  OneClerkInv'
BY DEF OneClerkInv, Untouched, SettledOnce, CaughtUp

\* A step of the clerk that books nothing.
LEMMA OneClerkOnly ==
  ASSUME IInv, OneClerkInv, NEW c \in Clerks, NEW r, clerk' = [clerk EXCEPT ![c] = r],
         UNCHANGED <<tier, settled, verified, invoice, target>>, Untouched(r)
  PROVE  OneClerkInv'
<1>1. \A b \in Clerks : clerk'[b] = r \/ clerk'[b] = clerk[b]
  BY DEF IInv, TypeOK
<1>2. SettledOnce' /\ \A o \in Orders : CaughtUp(o)'
  BY DEF OneClerkInv, SettledOnce, CaughtUp
<1>3. \A b \in Clerks : Untouched(clerk'[b])
  BY <1>1 DEF OneClerkInv
<1> QED BY <1>2, <1>3 DEF OneClerkInv, Untouched

LEMMA OneClerkReads ==
  ASSUME IInv, OneClerkInv, NEW c \in Clerks, NEW p \in Payments,
         ReadVerify(c, p) \/ ReadReject(c, p)
  PROVE  OneClerkInv'
<1>1. UNCHANGED <<tier, settled, verified, invoice, target>>
  BY DEF ReadVerify, ReadReject, orderVars, invoiceVars, paymentVars
<1>2. CASE ReadVerify(c, p)
  <2> DEFINE x == target[p]
             r == [pc |-> "verify", payment |-> p,
                   accrue |-> x.trigger = "confirmation" /\ agent[x.order] /\ ~accrued[x.order]]
  <2>1. Untouched(r)
    BY <1>2 DEF ReadVerify, Due, Untouched
  <2>2. clerk' = [clerk EXCEPT ![c] = r]
    BY <1>2 DEF ReadVerify
  <2> HIDE DEF r
  <2> QED BY <1>1, <2>1, <2>2, OneClerkOnly
<1>3. CASE ReadReject(c, p)
  <2> DEFINE r == [pc |-> "reject", payment |-> p]
  <2>1. Untouched(r)
    BY DEF Untouched
  <2>2. clerk' = [clerk EXCEPT ![c] = r]
    BY <1>3 DEF ReadReject
  <2> HIDE DEF r
  <2> QED BY <1>1, <2>1, <2>2, OneClerkOnly
<1> QED BY <1>2, <1>3

LEMMA OneClerkSettles ==
  ASSUME IInv, OneClerkInv, NEW c \in Clerks, Settle(c) \/ Recompute(c) \/ CommitReject(c)
  PROVE  OneClerkInv'
<1>1. UNCHANGED <<tier, settled, verified, invoice, target>>
  BY DEF Settle, Recompute, CommitReject, orderVars, invoiceVars, paymentVars
<1>2. Untouched(clerk[c])
  BY DEF OneClerkInv
<1>3. CASE Settle(c)
  <2> DEFINE r == [pc |-> "settle", payment |-> clerk[c].payment, accrue |-> clerk[c].accrue]
  <2>1. Untouched(r)
    BY <1>2, <1>3 DEF Settle, Untouched
  <2>2. clerk' = [clerk EXCEPT ![c] = r]
    BY <1>3 DEF Settle
  <2> HIDE DEF r
  <2> QED BY <1>1, <2>1, <2>2, OneClerkOnly
<1>4. CASE Recompute(c)
  <2> DEFINE x == target[clerk[c].payment]
             r == [pc |-> "commit", payment |-> clerk[c].payment, accrue |-> clerk[c].accrue,
                   seen |-> settled[x.order] \cup {x.trigger}]
  <2>1. Untouched(r)
    BY <1>2, <1>4 DEF Recompute, Untouched
  <2>2. clerk' = [clerk EXCEPT ![c] = r]
    BY <1>4 DEF Recompute, SeesSettled
  <2> HIDE DEF r
  <2> QED BY <1>1, <2>1, <2>2, OneClerkOnly
<1>5. CASE CommitReject(c)
  <2>1. Untouched(Idle) /\ clerk' = [clerk EXCEPT ![c] = Idle]
    BY <1>5 DEF CommitReject, Untouched, Idle
  <2> QED BY <1>1, <2>1, OneClerkOnly
<1> QED BY <1>3, <1>4, <1>5

LEMMA OneClerkCommits ==
  ASSUME \A b, c \in Clerks : b = c, IInv, OneClerkInv, NEW c \in Clerks, CommitVerify(c)
  PROVE  OneClerkInv'
<1>1. clerk' = [clerk EXCEPT ![c] = Idle]
  BY DEF CommitVerify
<1>2. \A b \in Clerks : Untouched(clerk[b])'
  <2>1. \A b \in Clerks : clerk'[b] = Idle
    BY <1>1 DEF IInv, TypeOK
  <2> QED BY <2>1 DEF Untouched, Idle
<1>3. CASE UNCHANGED <<invoiceVars, paymentVars, orderVars, logisticsVars>>
  BY <1>2, <1>3 DEF OneClerkInv, SettledOnce, CaughtUp, invoiceVars, paymentVars, orderVars
<1>4. ASSUME NEW p \in Payments, NEW o \in Orders, NEW trigger \in Triggers,
             NEW e \in VerifiedEvents, Books(c, p, o, trigger, e)
      PROVE  SettledOnce' /\ \A u \in Orders : CaughtUp(u)'
  <2>1. /\ trigger \notin settled[o]
        /\ clerk[c].seen = settled[o] \cup {trigger}
    BY <1>4 DEF OneClerkInv, Untouched, Books
  <2>2. /\ e.order = o /\ e.trigger = trigger /\ verified' = verified \cup {e}
        /\ tier' = tier
    BY <1>4 DEF Books, orderVars
  <2>3. \A u \in Orders : settled'[u] = IF u = o THEN clerk[c].seen ELSE settled[u]
    BY <1>4, <2>1 DEF Books, IInv, TypeOK
  <2>4. SettledOnce'
    <3>1. \A d \in verified : d.trigger \in settled[d.order]
      BY DEF IInv, CorridorInv, EventInv, Backed
    <3> QED BY <2>1, <2>2, <3>1 DEF OneClerkInv, SettledOnce
  <2>5. CaughtUp(o)'
    <3>1. invoice'[o] = IF clerk[c].seen = Schedule(tier[o]) THEN "paid" ELSE "part_paid"
      BY <1>4 DEF Books, IInv, TypeOK
    <3>2. e.tenths = Fraction(tier[o], settled'[o])
      BY <1>4, <2>3 DEF Books
    <3> QED BY <2>2, <2>3, <3>1, <3>2 DEF CaughtUp
  <2>6. ASSUME NEW u \in Orders, u # o PROVE CaughtUp(u)'
    <3>1. invoice'[u] = invoice[u]
      BY <1>4, <2>6 DEF Books, IInv, TypeOK
    <3> QED BY <2>2, <2>3, <2>6, <3>1 DEF CaughtUp, OneClerkInv
  <2> QED BY <2>4, <2>5, <2>6
<1> QED BY <1>2, <1>3, <1>4, CommitFacts DEF OneClerkInv

LEMMA OneClerkUpload ==
  ASSUME IInv, OneClerkInv, NEW p \in Payments, UploadProof(p)
  PROVE  OneClerkInv'
<1>1. UNCHANGED <<tier, settled, verified, invoice, clerk>>
  BY DEF UploadProof, orderVars, invoiceVars
<1>2. ASSUME NEW c \in Clerks PROVE Untouched(clerk[c])'
  <2>1. CASE clerk[c].pc = "idle"
    BY <1>1, <2>1 DEF Untouched
  <2>2. CASE clerk[c].pc # "idle"
    <3>1. clerk[c].payment \in Payments /\ clerk[c].payment # p
      BY <2>2, RequestType DEF IInv, CorridorInv, RequestInv, UploadProof
    <3>2. target'[clerk[c].payment] = target[clerk[c].payment]
      BY <3>1 DEF UploadProof, IInv, TypeOK
    <3> QED BY <1>1, <3>2 DEF OneClerkInv, Untouched
  <2> QED BY <2>1, <2>2
<1> QED BY <1>1, <1>2 DEF OneClerkInv, SettledOnce, CaughtUp

LEMMA OneClerkStep ==
  ASSUME \A b, c \in Clerks : b = c
  PROVE  IInv /\ OneClerkInv /\ [Next]_vars => OneClerkInv'
<1> SUFFICES ASSUME IInv, OneClerkInv, [Next]_vars PROVE OneClerkInv'
  OBVIOUS
<1>1. ASSUME NEW o \in Orders, CreateOrder(o) \/ CancelOrder(o) PROVE OneClerkInv'
  BY <1>1, OneClerkStutter DEF CreateOrder, CancelOrder, invoiceVars, paymentVars
<1>2. ASSUME NEW p \in Payments, UploadProof(p) PROVE OneClerkInv'
  BY <1>2, OneClerkUpload
<1>3. ASSUME NEW c \in Clerks, ClerkStep(c) PROVE OneClerkInv'
  BY <1>3, OneClerkReads, OneClerkSettles, OneClerkCommits DEF ClerkStep
<1>4. ASSUME NEW o \in Orders, FinanceHandlesCreated(o) PROVE OneClerkInv'
  <2>1. UNCHANGED <<tier, settled, verified, target, clerk>>
    BY <1>4 DEF FinanceHandlesCreated, orderVars, paymentVars
  <2>2. \A u \in Orders : invoice[u] = "paid" => invoice'[u] = "paid"
    BY <1>4 DEF FinanceHandlesCreated, IInv, TypeOK
  <2> QED BY <2>1, <2>2 DEF OneClerkInv, Untouched, SettledOnce, CaughtUp
<1>5. ASSUME (\E o \in Orders : CancelReads(o)) \/ (\E r \in reversing : CancelCommits(r))
      PROVE  OneClerkInv'
  BY <1>5, OneClerkStutter DEF CancelReads, CancelCommits, orderVars, paymentVars
<1>6. ASSUME NEW e \in verified, TradeHandlesVerified(e) PROVE OneClerkInv'
  BY <1>6, OneClerkStutter DEF TradeHandlesVerified, invoiceVars, paymentVars
<1>7. ASSUME NEW a \in Processes,
             LogisticsWrites(a) \/ \E e \in verified : LogisticsReads(a, e)
      PROVE  OneClerkInv'
  BY <1>7, OneClerkStutter DEF LogisticsWrites, LogisticsReads, orderVars, invoiceVars, paymentVars
<1>8. CASE UNCHANGED vars
  BY <1>8, OneClerkStutter DEF vars, orderVars, invoiceVars, paymentVars
<1> QED BY <1>1, <1>2, <1>3, <1>4, <1>5, <1>6, <1>7, <1>8 DEF Next, HandlerStep

LEMMA AlwaysOneClerkInv ==
  ASSUME \A b, c \in Clerks : b = c
  PROVE  Spec => []OneClerkInv
<1>1. Init => OneClerkInv
  <2> SUFFICES ASSUME Init PROVE OneClerkInv
    OBVIOUS
  <2>1. \A o \in Orders : tier[o] \in Tiers /\ settled[o] = {}
    BY DEF Init
  <2>2. \A t \in Tiers : Schedule(t) # {}
    <3>1. ASSUME NEW t \in Tiers PROVE "confirmation" \in Schedule(t)
      BY DEF Tiers, Schedule, Pct, Triggers
    <3> QED BY <3>1
  <2>3. \A o \in Orders : CaughtUp(o)
    BY <2>1, <2>2 DEF CaughtUp
  <2> QED BY <2>3 DEF Init, OneClerkInv, Untouched, SettledOnce, Idle
<1> QED BY AlwaysIInv, <1>1, OneClerkStep, PTL DEF Spec

\* No two verifications settle the same installment, when a single clerk takes
\* them one by one (payment.service.ts).  Two clerks can, which is why the
\* assumption is there.
THEOREM VerifiedOnce ==
  ASSUME \A b, c \in Clerks : b = c
  PROVE  Spec => []SettledOnce
<1>1. OneClerkInv => SettledOnce
  BY DEF OneClerkInv
<1> QED BY AlwaysOneClerkInv, <1>1, PTL

----------------------------------------------------------------------------
(* One process as well: full payment opens the gate                        *)

\* The projection is as the handler read it, and has what every handled event
\* says.
OneProcessInv ==
  /\ \A a \in Processes :
       handler[a].pc = "write" => handler[a].tenths = paidTenths[handler[a].event.order]
  /\ \A e \in logisticsSeen : paidTenths[e.order] >= e.tenths

LEMMA OneProcessStutter ==
  ASSUME OneProcessInv, UNCHANGED <<logisticsSeen, paidTenths, handler>>
  PROVE  OneProcessInv'
BY DEF OneProcessInv

LEMMA OneProcessReads ==
  ASSUME IInv, OneProcessInv, NEW a \in Processes, NEW e \in verified, LogisticsReads(a, e)
  PROVE  OneProcessInv'
<1> DEFINE h == [pc |-> "write", event |-> e, triggers |-> paidTriggers[e.order],
                 tenths |-> paidTenths[e.order]]
<1>1. handler' = [handler EXCEPT ![a] = h] /\ UNCHANGED <<logisticsSeen, paidTenths>>
  BY DEF LogisticsReads
<1>2. \A b \in Processes : handler'[b] = h \/ handler'[b] = handler[b]
  BY <1>1 DEF IInv, TypeOK
<1>3. h.tenths = paidTenths[h.event.order]
  OBVIOUS
<1> HIDE DEF h
<1> QED BY <1>1, <1>2, <1>3 DEF OneProcessInv

LEMMA OneProcessWrites ==
  ASSUME \A a, b \in Processes : a = b,
         IInv, OneProcessInv, NEW a \in Processes, LogisticsWrites(a)
  PROVE  OneProcessInv'
<1> DEFINE h == handler[a]
           o == h.event.order
<1>1. h.pc = "write" /\ h.tenths = paidTenths[o]
  BY DEF LogisticsWrites, OneProcessInv
<1>2. h.event \in verified /\ h.event \in VerifiedEvents
  BY <1>1 DEF IInv, CorridorInv, HandlerInv, TypeOK
<1>3. o \in Orders /\ h.event.tenths \in Nat /\ paidTenths[o] \in Nat
  BY SMTT(20), <1>2 DEF VerifiedEvents, IInv, TypeOK, FullyPaid
<1>4. /\ paidTenths' = [paidTenths EXCEPT ![o] = Greatest(paidTenths[o], h.event.tenths)]
      /\ logisticsSeen' = logisticsSeen \cup {h.event}
      /\ handler' = [handler EXCEPT ![a] = Idle]
  BY <1>1 DEF LogisticsWrites
<1>5. \A b \in Processes : handler'[b] = Idle
  BY <1>4 DEF IInv, TypeOK
<1>6. /\ paidTenths'[o] >= h.event.tenths
      /\ \A u \in Orders : paidTenths[u] \in Nat /\ paidTenths'[u] \in Nat /\ paidTenths'[u] >= paidTenths[u]
  <2>1. \A u \in Orders : paidTenths[u] \in Nat
    BY SMTT(20) DEF IInv, TypeOK, FullyPaid
  <2>2. \A u \in Orders :
          paidTenths'[u] = IF u = o THEN Greatest(paidTenths[o], h.event.tenths) ELSE paidTenths[u]
    BY <1>4 DEF IInv, TypeOK
  <2> QED BY <1>3, <2>1, <2>2 DEF Greatest
<1>7. \A e \in logisticsSeen : e.order \in Orders /\ e.tenths \in Nat
  <2>1. logisticsSeen \subseteq VerifiedEvents
    BY DEF IInv, TypeOK
  <2> QED BY <2>1 DEF VerifiedEvents, FullyPaid
<1> QED BY <1>4, <1>5, <1>6, <1>7 DEF OneProcessInv, Idle

LEMMA OneProcessStep ==
  ASSUME \A a, b \in Processes : a = b
  PROVE  IInv /\ OneProcessInv /\ [Next]_vars => OneProcessInv'
<1> SUFFICES ASSUME IInv, OneProcessInv, [Next]_vars PROVE OneProcessInv'
  OBVIOUS
<1>1. ASSUME NEW o \in Orders, CreateOrder(o) \/ CancelOrder(o) PROVE OneProcessInv'
  BY <1>1, OneProcessStutter DEF CreateOrder, CancelOrder, logisticsVars
<1>2. ASSUME NEW p \in Payments, UploadProof(p) PROVE OneProcessInv'
  BY <1>2, OneProcessStutter DEF UploadProof, logisticsVars
<1>3. ASSUME NEW c \in Clerks, ClerkStep(c) PROVE OneProcessInv'
  BY <1>3, OneProcessStutter DEF ClerkStep, ReadVerify, ReadReject, Settle, Recompute,
     CommitVerify, CommitReject, logisticsVars
<1>4. ASSUME \/ \E o \in Orders : FinanceHandlesCreated(o) \/ CancelReads(o)
             \/ \E r \in reversing : CancelCommits(r)
      PROVE  OneProcessInv'
  BY <1>4, OneProcessStutter DEF FinanceHandlesCreated, CancelReads, CancelCommits, logisticsVars
<1>5. ASSUME NEW e \in verified, TradeHandlesVerified(e) PROVE OneProcessInv'
  BY <1>5, OneProcessStutter DEF TradeHandlesVerified, logisticsVars
<1>6. ASSUME NEW a \in Processes,
             LogisticsWrites(a) \/ \E e \in verified : LogisticsReads(a, e)
      PROVE  OneProcessInv'
  BY <1>6, OneProcessReads, OneProcessWrites
<1>7. CASE UNCHANGED vars
  BY <1>7, OneProcessStutter DEF vars, logisticsVars
<1> QED BY <1>1, <1>2, <1>3, <1>4, <1>5, <1>6, <1>7 DEF Next, HandlerStep

LEMMA GateOpens ==
  ASSUME IInv, OneClerkInv, OneProcessInv
  PROVE  FullPaymentReleases
<1> SUFFICES ASSUME NEW o \in Orders, Quiet, settled[o] = Schedule(tier[o])
             PROVE  invoice[o] = "paid" /\ Releasable(o)
  BY DEF FullPaymentReleases
<1>1. tier[o] \in Tiers
  BY DEF IInv, TypeOK
<1>2. Fraction(tier[o], Schedule(tier[o])) = FullyPaid /\ Schedule(tier[o]) # {}
  BY <1>1 DEF Tiers, Triggers, Schedule, Pct, Fraction, Share, FullyPaid
<1>3. invoice[o] = "paid"
  BY DEF OneClerkInv, CaughtUp
<1>4. PICK e \in verified : e.order = o /\ e.tenths = FullyPaid
  BY <1>2 DEF OneClerkInv, CaughtUp
<1>5. paidTenths[o] >= FullyPaid
  BY <1>4 DEF Quiet, OneProcessInv
<1> QED BY <1>3, <1>5 DEF Releasable

\* When a single clerk verifies and a single process handles the events, a
\* schedule settled in full leaves the invoice paid and, once the events are
\* handled, the release gate open (payment.service.ts, order-payment.service.ts).
THEOREM PaidInFullReleases ==
  ASSUME \A b, c \in Clerks : b = c, \A a, b \in Processes : a = b
  PROVE  Spec => []FullPaymentReleases
<1>1. Init => OneProcessInv
  BY DEF Init, OneProcessInv, Idle
<1>2. Spec => []OneProcessInv
  BY AlwaysIInv, <1>1, OneProcessStep, PTL DEF Spec
<1> QED BY AlwaysIInv, AlwaysOneClerkInv, <1>2, GateOpens, PTL

\* A late or duplicate event never makes the projection of what was paid go
\* back, when a single process handles the events.
THEOREM NeverGoesBack ==
  ASSUME \A a, b \in Processes : a = b
  PROVE  Spec => ProjectionNeverRegresses
<1>1. Init => OneProcessInv
  BY DEF Init, OneProcessInv, Idle
<1>2. Spec => []OneProcessInv
  BY AlwaysIInv, <1>1, OneProcessStep, PTL DEF Spec
<1>3. ASSUME IInv, OneProcessInv, [Next]_vars
      PROVE  [\A o \in Orders : paidTenths'[o] >= paidTenths[o]]_vars
  <2>1. \A o \in Orders : paidTenths[o] \in Nat
    BY <1>3 DEF IInv, TypeOK, FullyPaid
  <2>2. ASSUME NEW a \in Processes, LogisticsWrites(a)
        PROVE  \A o \in Orders : paidTenths'[o] >= paidTenths[o]
    <3> DEFINE h == handler[a]
    <3>1. h.tenths = paidTenths[h.event.order] /\ h.pc = "write"
      BY <1>3, <2>2 DEF LogisticsWrites, OneProcessInv
    <3>2. h.event.tenths \in Nat
      <4>1. h.event \in VerifiedEvents
        BY <1>3, <3>1 DEF IInv, CorridorInv, HandlerInv, TypeOK
      <4> QED BY <4>1 DEF VerifiedEvents, FullyPaid
    <3>3. paidTenths' = [paidTenths EXCEPT ![h.event.order] = Greatest(h.tenths, h.event.tenths)]
      BY <2>2 DEF LogisticsWrites
    <3>4. ASSUME NEW o \in Orders
          PROVE  paidTenths'[o] = IF o = h.event.order THEN Greatest(paidTenths[o], h.event.tenths)
                                  ELSE paidTenths[o]
      BY <1>3, <3>1, <3>3 DEF IInv, TypeOK
    <3> QED BY <2>1, <3>2, <3>4 DEF Greatest
  <2>3. CASE UNCHANGED paidTenths
    BY <2>1, <2>3
  <2>4. (\E a \in Processes : LogisticsWrites(a)) \/ UNCHANGED paidTenths
    BY <1>3 DEF Next, HandlerStep, ClerkStep, CreateOrder, CancelOrder, UploadProof, ReadVerify,
       ReadReject, Settle, Recompute, CommitVerify, CommitReject, FinanceHandlesCreated,
       CancelReads, CancelCommits, TradeHandlesVerified, LogisticsReads, logisticsVars, vars
  <2> QED BY <2>2, <2>3, <2>4
<1> QED BY AlwaysIInv, <1>2, <1>3, PTL DEF Spec, ProjectionNeverRegresses

----------------------------------------------------------------------------
(* Cancellations                                                           *)

\* A commission was accrued by a verification, and that needs the invoice.
Invoiced == \A o \in Orders : accruals[o] > 0 => invoice[o] # "none"

LEMMA InvoicedStep == IInv /\ Invoiced /\ [Next]_vars => Invoiced'
<1> SUFFICES ASSUME IInv, Invoiced, [Next]_vars PROVE Invoiced'
  OBVIOUS
<1>1. CASE UNCHANGED <<invoice, accruals>>
  BY <1>1 DEF Invoiced
<1>2. ASSUME NEW o \in Orders, FinanceHandlesCreated(o) PROVE Invoiced'
  BY <1>2 DEF FinanceHandlesCreated, Invoiced, IInv, TypeOK
<1>3. ASSUME NEW c \in Clerks, CommitVerify(c) PROVE Invoiced'
  <2> DEFINE o == target[clerk[c].payment].order
  <2>1. CASE UNCHANGED invoiceVars
    BY <1>1, <2>1 DEF invoiceVars
  <2>2. CASE ~UNCHANGED invoiceVars
    <3>1. /\ invoice' = [invoice EXCEPT ![o] =
               IF clerk[c].seen = Schedule(tier[o]) THEN "paid" ELSE "part_paid"]
          /\ accruals' = [accruals EXCEPT ![o] = IF clerk[c].accrue THEN @ + 1 ELSE @]
      BY <1>3, <2>2 DEF CommitVerify
    <3>2. \A u \in Orders :
            /\ u = o => invoice'[u] # "none"
            /\ u # o => accruals'[u] = accruals[u] /\ invoice'[u] = invoice[u]
      BY <3>1 DEF IInv, TypeOK
    <3> QED BY <3>2 DEF Invoiced
  <2> QED BY <2>1, <2>2
<1> QED BY <1>1, <1>2, <1>3 DEF Next, HandlerStep, ClerkStep, CreateOrder, CancelOrder, UploadProof,
    ReadVerify, ReadReject, Settle, Recompute, CommitReject, CancelReads, CancelCommits,
    TradeHandlesVerified, LogisticsReads, LogisticsWrites, invoiceVars, vars

\* A step of the commission handler leaves what is due due, or books it.
LEMMA ReversalKept ==
  ASSUME IInv, Invoiced, NEW o \in Orders, accruals[o] = 1, ReversalDue(o), clawbacks[o] # 1,
         (\E u \in Orders : CancelReads(u)) \/ (\E r \in reversing : CancelCommits(r))
  PROVE  ReversalDue(o)'
<1>1. PICK n \in 1..cancels[o] \ cancelsSeen[o] :
        \A r \in reversing : r.order = o /\ r.n = n => r.due
  BY DEF ReversalDue
<1>2. ~NothingToReverse(o) /\ clawbacks[o] = 0
  <2>1. accrued[o] /\ ~clawedBack[o] /\ clawbacks[o] <= 1 /\ clawbacks[o] \in Nat
    BY DEF IInv, TypeOK, CorridorInv, LedgerSound
  <2>2. invoice[o] # "none"
    BY DEF Invoiced
  <2> QED BY <2>1, <2>2 DEF NothingToReverse
<1>3. ASSUME NEW u \in Orders, CancelReads(u) PROVE ReversalDue(o)'
  <2>1. PICK x \in Reversals :
          /\ x.order = u /\ x.due = ~NothingToReverse(u)
          /\ reversing' = reversing \cup {x}
    BY <1>3, WhatIsRead DEF IInv
  <2>2. x.order = o => x.due
    BY <1>2, <2>1, Zenon
  <2>3. \A r \in reversing' : r.order = o /\ r.n = n => r.due
    BY <1>1, <2>1, <2>2
  <2>4. UNCHANGED <<cancels, cancelsSeen>>
    BY <1>3 DEF CancelReads, orderVars
  <2> QED BY <1>1, <2>3, <2>4 DEF ReversalDue
<1>4. ASSUME NEW r \in reversing, CancelCommits(r) PROVE ReversalDue(o)'
  <2>1. r.order \in Orders /\ reversing' \subseteq reversing /\ cancels' = cancels
    BY <1>4 DEF CancelCommits, orderVars, IInv, TypeOK, Reversals
  <2>2. CASE r.order = o /\ r.n = n
    <3>1. clawbacks' = [clawbacks EXCEPT ![o] = @ + 1]
      BY <1>1, <1>2, <1>4, <2>2 DEF CancelCommits
    <3>2. clawbacks'[o] = 1
      BY <1>2, <3>1 DEF IInv, TypeOK
    <3> QED BY <3>2 DEF ReversalDue
  <2>3. CASE ~(r.order = o /\ r.n = n)
    <3>1. cancelsSeen' = cancelsSeen
            \/ cancelsSeen' = [cancelsSeen EXCEPT ![r.order] = @ \cup {r.n}]
      BY <1>4 DEF CancelCommits
    <3>2. n \notin cancelsSeen'[o]
      BY <1>1, <2>1, <2>3, <3>1 DEF IInv, TypeOK
    <3> QED BY <1>1, <2>1, <3>2 DEF ReversalDue
  <2> QED BY <2>2, <2>3
<1> QED BY <1>3, <1>4

\* Of a commission that is accrued, a reversal that is due stays due until it is booked
\* (commission.service.ts): the handler may read the invoice, and be overtaken by a
\* verification, by another cancellation or by a rollback, before it commits.
THEOREM Reverses == Spec => ReversalNeverLost
<1>1. Init => Invoiced
  BY DEF Init, Invoiced
<1>2. Spec => []Invoiced
  BY AlwaysIInv, <1>1, InvoicedStep, PTL DEF Spec
<1>3. ASSUME IInv, Invoiced, [Next]_vars
      PROVE  [\A o \in Orders : accruals[o] = 1 /\ ReversalDue(o) => ReversalDue(o)']_vars
  <2> SUFFICES ASSUME NEW o \in Orders, accruals[o] = 1, ReversalDue(o)
               PROVE  ReversalDue(o)'
    OBVIOUS
  <2>1. CASE (\E u \in Orders : CancelReads(u)) \/ (\E r \in reversing : CancelCommits(r))
    <3>1. CASE clawbacks[o] # 1
      BY <1>3, <2>1, <3>1, ReversalKept
    <3>2. CASE clawbacks[o] = 1
      <4>1. clawbacks'[o] = 1
        <5>1. CASE \E u \in Orders : CancelReads(u)
          BY <3>2, <5>1 DEF CancelReads
        <5>2. ASSUME NEW r \in reversing, CancelCommits(r) PROVE clawbacks'[o] = 1
          <6>1. r.order \in Orders
            BY <1>3, <5>2 DEF IInv, TypeOK, Reversals
          <6> QED BY <1>3, <3>2, <5>2, <6>1 DEF CancelCommits, IInv, TypeOK
        <5> QED BY <2>1, <5>1, <5>2
      <4> QED BY <4>1 DEF ReversalDue
    <3> QED BY <3>1, <3>2
  <2>2. ASSUME NEW u \in Orders, CancelOrder(u) PROVE ReversalDue(o)'
    <3>1. UNCHANGED <<cancelsSeen, reversing, clawbacks>>
      BY <2>2 DEF CancelOrder, invoiceVars
    <3>2. cancels[o] \in Nat /\ cancels'[o] \in Nat /\ cancels[o] <= cancels'[o]
      BY <1>3, <2>2 DEF CancelOrder, IInv, TypeOK
    <3> QED BY <3>1, <3>2 DEF ReversalDue
  <2>3. CASE UNCHANGED <<cancels, cancelsSeen, reversing, clawbacks>>
    BY <2>3 DEF ReversalDue
  <2>4. \/ (\E u \in Orders : CancelReads(u)) \/ (\E r \in reversing : CancelCommits(r))
        \/ \E u \in Orders : CancelOrder(u)
        \/ UNCHANGED <<cancels, cancelsSeen, reversing, clawbacks>>
    BY <1>3 DEF Next, HandlerStep, ClerkStep, CreateOrder, UploadProof, ReadVerify, ReadReject,
       Settle, Recompute, CommitVerify, CommitReject, FinanceHandlesCreated,
       TradeHandlesVerified, LogisticsReads, LogisticsWrites, orderVars, invoiceVars, vars
  <2> QED BY <2>1, <2>2, <2>3, <2>4
<1> QED BY AlwaysIInv, <1>2, <1>3, PTL DEF Spec, ReversalNeverLost

----------------------------------------------------------------------------
(* From the money to the goods                                             *)

\* Of the warehouse, the money moves nothing; of the money, the warehouse.
LEMMA FlowIsCorridor == FlowSpec => Spec
<1>1. FlowInit => Init
  BY DEF FlowInit
<1>2. [FlowNext]_flowVars => [Next]_vars
  BY DEF FlowNext, MoneyStep, GoodsStep, flowVars
<1> QED BY <1>1, <1>2, PTL DEF FlowSpec, Spec

\* The copy never says more than finance has.
LEMMA ShownIsHeld ==
  ASSUME IInv, NEW o \in Orders
  PROVE  Shown[o] \in 0..2 /\ Held[o] \in 0..2 /\ Shown[o] <= Held[o]
<1>1. ReleaseNeverEarly /\ tier[o] \in Tiers
  BY GatesFollow DEF IInv, TypeOK
<1> QED BY <1>1 DEF ReleaseNeverEarly, Shown, Held

\* Only a commit moves what finance has, for one order, and forwards.
LEMMA HeldGrows ==
  ASSUME IInv, [Next]_vars
  PROVE  \/ Held' = Held
         \/ \E o \in Orders, level \in 1..2 :
              Held[o] < level /\ Held' = [Held EXCEPT ![o] = level]
<1>1. CASE UNCHANGED <<tier, settled>>
  BY <1>1 DEF Held
<1>2. ASSUME NEW p \in Payments, NEW o \in Orders, NEW trigger \in Triggers,
             NEW e \in VerifiedEvents, NEW c \in Clerks, Books(c, p, o, trigger, e)
      PROVE  Held' = Held \/ \E level \in 1..2 :
               Held[o] < level /\ Held' = [Held EXCEPT ![o] = level]
  <2>1. /\ \A u \in Orders : settled'[u] = IF u = o THEN settled[o] \cup {trigger} ELSE settled[u]
        /\ tier' = tier /\ trigger \in Schedule(tier[o]) /\ settled[o] \subseteq Schedule(tier[o])
    BY <1>2 DEF Books, orderVars, IInv, TypeOK, CorridorInv, SettledInv
  <2> DEFINE Level(s) == IF s = Schedule(tier[o]) THEN 2 ELSE IF "pre_loading" \in s THEN 1 ELSE 0
             level == Level(settled[o] \cup {trigger})
  <2>2. Held' = [Held EXCEPT ![o] = level]
    BY <2>1 DEF Held
  <2>3. Held[o] = Level(settled[o])
    BY DEF Held
  <2>4. level = Held[o] \/ (level \in 1..2 /\ Held[o] < level)
    BY <2>1, <2>3
  <2>5. Held = [Held EXCEPT ![o] = Held[o]]
    BY DEF Held
  <2> HIDE DEF level
  <2> QED BY <2>2, <2>4, <2>5
<1>3. ASSUME NEW c \in Clerks, CommitVerify(c), ~UNCHANGED <<tier, settled>>
      PROVE  \E p \in Payments, o \in Orders, trigger \in Triggers, e \in VerifiedEvents :
               Books(c, p, o, trigger, e)
  BY <1>3, CommitFacts DEF invoiceVars, orderVars
<1>4. CASE ~UNCHANGED <<tier, settled>>
  <2>1. PICK c \in Clerks : CommitVerify(c)
    BY <1>4 DEF Next, HandlerStep, ClerkStep, CreateOrder, CancelOrder, UploadProof, ReadVerify,
       ReadReject, Settle, Recompute, CommitReject, FinanceHandlesCreated,
       CancelReads, CancelCommits, TradeHandlesVerified, LogisticsReads, LogisticsWrites,
       orderVars, invoiceVars, vars
  <2>2. PICK p \in Payments, o \in Orders, trigger \in Triggers, e \in VerifiedEvents :
          Books(c, p, o, trigger, e)
    BY <1>3, <1>4, <2>1
  <2> QED BY <1>2, <2>2
<1> QED BY <1>1, <1>4

\* Every step of the corridor is a payment of the ideal warehouse, or no step of it.
LEMMA MoneyIsIdeal ==
  ASSUME IInv, MoneyStep
  PROVE  [Ideal!Next]_Ideal!vars
<1>1. UNCHANGED goodsVars
  BY DEF MoneyStep
<1>2. CASE Held' = Held
  BY <1>1, <1>2 DEF goodsVars, Ideal!vars, Ideal!lotVars, Ideal!packageVars, Ideal!shipmentVars,
     Ideal!projectionVars
<1>3. ASSUME NEW o \in Orders, NEW level \in 1..2, Held[o] < level,
             Held' = [Held EXCEPT ![o] = level]
      PROVE  Ideal!PaymentVerified(o)
  BY <1>1, <1>3 DEF goodsVars, Ideal!PaymentVerified, Ideal!PreLoading, Ideal!Full, Ideal!lotVars,
     Ideal!packageVars, Ideal!shipmentVars
<1> QED BY <1>2, <1>3, HeldGrows DEF MoneyStep, Ideal!Next

\* Every step of the warehouse is one the ideal warehouse allows: a gate open on the copy
\* is open on the money.
LEMMA GoodsAreIdeal ==
  ASSUME IInv, GoodsStep
  PROVE  Ideal!GoodsStep
<1> USE DEF Warehouse!lotVars, Warehouse!packageVars, Warehouse!shipmentVars,
            Warehouse!projectionVars, Ideal!lotVars, Ideal!packageVars, Ideal!shipmentVars,
            Ideal!projectionVars, Warehouse!Idle, Ideal!Idle
<1>1. Held' = Held
  BY DEF GoodsStep, vars, orderVars, invoiceVars, Held
<1>2. \A p \in Packages :
        /\ Shown[OrderOf[LotOf[p]]] \in 0..2 /\ Held[OrderOf[LotOf[p]]] \in 0..2
        /\ Shown[OrderOf[LotOf[p]]] <= Held[OrderOf[LotOf[p]]]
  BY ShownIsHeld, FlowAssumption
<1>3. ASSUME NEW u \in Users, NEW P \in SUBSET Packages, NEW d \in Destinations,
             Warehouse!ReadBooking(u, P, d)
      PROVE  Ideal!ReadBooking(u, P, d)
  <2>1. Ideal!PaymentGate(P)
    BY <1>2, <1>3 DEF Warehouse!ReadBooking, Warehouse!PaymentGate, Warehouse!OrderOfPackage,
       Warehouse!PreLoading, Ideal!PaymentGate, Ideal!OrderOfPackage, Ideal!PreLoading
  <2> QED BY <1>1, <1>3, <2>1 DEF Warehouse!ReadBooking, Ideal!ReadBooking, Warehouse!Known,
      Ideal!Known, Warehouse!Received, Ideal!Received, Warehouse!QcAndVarianceGate,
      Ideal!QcAndVarianceGate, Warehouse!DestinationGate, Ideal!DestinationGate
<1>4. ASSUME NEW u \in Users, NEW P \in SUBSET Packages, NEW s \in Shipments,
             Warehouse!ReadDelivery(u, s, P)
      PROVE  Ideal!ReadDelivery(u, s, P)
  <2>1. Ideal!ReleaseGate(P)
    BY <1>2, <1>4 DEF Warehouse!ReadDelivery, Warehouse!ReleaseGate, Warehouse!OrderOfPackage,
       Warehouse!Full, Ideal!ReleaseGate, Ideal!OrderOfPackage, Ideal!Full
  <2> QED BY <1>1, <1>4, <2>1 DEF Warehouse!ReadDelivery, Ideal!ReadDelivery, Warehouse!Known,
      Ideal!Known, Warehouse!Received, Ideal!Received
<1>5. ASSUME NEW u \in Users, NEW P \in SUBSET Packages, Warehouse!ReadRelease(u, P)
      PROVE  Ideal!ReadRelease(u, P)
  BY <1>1, <1>5 DEF Warehouse!ReadRelease, Ideal!ReadRelease, Warehouse!Known, Ideal!Known,
     Warehouse!Received, Ideal!Received, Warehouse!POOfPackage, Ideal!POOfPackage
<1>6. ASSUME NEW u \in Users, Warehouse!UserStep(u) PROVE Ideal!UserStep(u)
  <2>1. Warehouse!QcRelease(u) => Ideal!QcRelease(u)
    BY <1>1 DEF Warehouse!QcRelease, Ideal!QcRelease, Warehouse!KeepsHold, Ideal!KeepsHold
  <2>2. Warehouse!Deliver(u) => Ideal!Deliver(u)
    BY <1>1 DEF Warehouse!Deliver, Ideal!Deliver
  <2>3. \A s \in Shipments : Warehouse!CreateShipment(u, s) => Ideal!CreateShipment(u, s)
    BY <1>1 DEF Warehouse!CreateShipment, Ideal!CreateShipment
  <2> QED BY <1>3, <1>4, <1>5, <1>6, <2>1, <2>2, <2>3 DEF Warehouse!UserStep, Ideal!UserStep
<1>7. \A l \in Lots :
        /\ Warehouse!ReceivePackages(l) => Ideal!ReceivePackages(l)
        /\ Warehouse!ResolveVariance(l) => Ideal!ResolveVariance(l)
  BY <1>1 DEF Warehouse!ReceivePackages, Ideal!ReceivePackages, Warehouse!Holds, Ideal!Holds,
     Warehouse!ResolveVariance, Ideal!ResolveVariance
<1>8. \A p \in Packages, d \in Destinations :
        Warehouse!AllocateDestination(p, d) => Ideal!AllocateDestination(p, d)
  BY <1>1 DEF Warehouse!AllocateDestination, Ideal!AllocateDestination, Warehouse!Received,
     Ideal!Received
<1>9. \A s \in Shipments : Warehouse!DelayShipment(s) => Ideal!DelayShipment(s)
  BY <1>1 DEF Warehouse!DelayShipment, Ideal!DelayShipment
<1>10. \A po \in POs : Warehouse!InspectionHandled(po) => Ideal!InspectionHandled(po)
  BY <1>1 DEF Warehouse!InspectionHandled, Ideal!InspectionHandled
<1> QED BY <1>6, <1>7, <1>8, <1>9, <1>10 DEF GoodsStep, Warehouse!GoodsStep, Ideal!GoodsStep

LEMMA FlowIInv == FlowSpec => []IInv
BY FlowIsCorridor, AlwaysIInv, PTL

\* Whatever late, crossing or lost events make of the copy that logistics keeps
\* (order-payment.service.ts), the warehouse does what it would with its gates on finance's
\* own invoices (container.service.ts, delivery.service.ts).
THEOREM GoodsFollow == FlowSpec => Ideal!Spec
<1>1. FlowInit => Ideal!Init
  <2> SUFFICES ASSUME FlowInit PROVE Ideal!Init
    OBVIOUS
  <2>1. \A o \in Orders : settled[o] # Schedule(tier[o])
    BY DEF FlowInit, Init, Tiers, Schedule, Pct, Triggers
  <2>2. Held = [o \in Orders |-> 0]
    BY <2>1 DEF Held, FlowInit, Init
  <2> QED BY <2>2 DEF FlowInit, Warehouse!Init, Ideal!Init, Warehouse!Idle, Ideal!Idle
<1>2. ASSUME IInv, [FlowNext]_flowVars PROVE [Ideal!Next]_Ideal!vars
  <2>1. CASE UNCHANGED flowVars
    <3>1. Held' = Held
      BY <2>1 DEF flowVars, vars, orderVars, invoiceVars, Held
    <3> QED BY <2>1, <3>1 DEF flowVars, goodsVars, Ideal!vars, Ideal!lotVars, Ideal!packageVars,
        Ideal!shipmentVars, Ideal!projectionVars
  <2>2. CASE MoneyStep
    BY <1>2, <2>2, MoneyIsIdeal
  <2>3. CASE GoodsStep
    BY <1>2, <2>3, GoodsAreIdeal DEF Ideal!Next
  <2> QED BY <1>2, <2>1, <2>2, <2>3 DEF FlowNext
<1> QED BY <1>1, <1>2, FlowIInv, PTL DEF FlowSpec, Ideal!Spec

----------------------------------------------------------------------------
(* What the theorems about the warehouse say of the money itself           *)
CP == INSTANCE CargoProofs WITH paid <- Held

\* The warehouse of the theorems is the ideal one.
LEMMA SameWarehouse == Ideal!Spec => CP!Spec
<1>1. Ideal!Init => CP!Init
  BY DEF Ideal!Init, CP!Init, Ideal!Idle, CP!Idle
<1>2. [Ideal!Next]_Ideal!vars => [CP!Next]_CP!vars
  BY DEF Ideal!Init, CP!Init, Ideal!Next, CP!Next, Ideal!GoodsStep, CP!GoodsStep, Ideal!UserStep,
     CP!UserStep, Ideal!PaymentVerified, CP!PaymentVerified, Ideal!InspectionHandled,
     CP!InspectionHandled, Ideal!DelayShipment, CP!DelayShipment, Ideal!Deliver, CP!Deliver,
     Ideal!ReadDelivery, CP!ReadDelivery, Ideal!ReleaseGate, CP!ReleaseGate,
     Ideal!CreateShipment, CP!CreateShipment, Ideal!ReadBooking, CP!ReadBooking,
     Ideal!DestinationGate, CP!DestinationGate, Ideal!PaymentGate, CP!PaymentGate,
     Ideal!QcAndVarianceGate, CP!QcAndVarianceGate, Ideal!AllocateDestination,
     CP!AllocateDestination, Ideal!QcRelease, CP!QcRelease, Ideal!KeepsHold, CP!KeepsHold,
     Ideal!ReadRelease, CP!ReadRelease, Ideal!Known, CP!Known, Ideal!ResolveVariance,
     CP!ResolveVariance, Ideal!ReceivePackages, CP!ReceivePackages, Ideal!Holds, CP!Holds,
     Ideal!Received, CP!Received, Ideal!OrderOfPackage, CP!OrderOfPackage, Ideal!POOfPackage,
     CP!POOfPackage, Ideal!PreLoading, CP!PreLoading, Ideal!Full, CP!Full, Ideal!Idle, CP!Idle,
     Ideal!vars, CP!vars, Ideal!projectionVars, CP!projectionVars, Ideal!shipmentVars,
     CP!shipmentVars, Ideal!lotVars, CP!lotVars, Ideal!packageVars, CP!packageVars
<1> QED BY <1>1, <1>2, PTL DEF Ideal!Spec, CP!Spec

LEMMA WarehouseAssumption == CP!CargoAssumption
BY FlowAssumption DEF CP!CargoAssumption

\* An order with the level of the money finance has is covered as far.
LEMMA HeldIsCovered ==
  ASSUME IInv, SettledByFullPayment, NEW o \in Orders
  PROVE  /\ Held[o] >= 1 => Covered(o, "pre_loading")
         /\ Held[o] = 2 => \A trigger \in Schedule(tier[o]) : Covered(o, trigger)
<1>1. tier[o] \in Tiers
  BY DEF IInv, TypeOK
<1>2. "pre_loading" \in Schedule(tier[o])
  BY <1>1 DEF Tiers, Schedule, Pct, Triggers
<1>3. \A trigger \in settled[o] : Covered(o, trigger)
  BY DEF SettledByFullPayment, Covered
<1>4. Held[o] = 2 => settled[o] = Schedule(tier[o])
  BY DEF Held
<1>5. Held[o] >= 1 => "pre_loading" \in settled[o]
  BY <1>2 DEF Held
<1> QED BY <1>3, <1>4, <1>5

\* CF-028 from end to end: what was handed over is covered, installment by installment, by
\* payments that clerks verified, and what sails is covered for loading.
LEMMA PaidForInOrder ==
  ASSUME IInv, SettledByFullPayment, CP!TypeOK, CP!SailsThroughGates, CP!DeliveredArePaid
  PROVE  SailsPaidFor /\ HandedOverIsPaidFor
<1>1. \A p \in Packages : OrderOf[LotOf[p]] \in Orders
  BY FlowAssumption
<1>2. SailsPaidFor
  BY <1>1, HeldIsCovered DEF CP!SailsThroughGates, CP!OrderOfPackage, CP!PreLoading, SailsPaidFor
<1>3. delivered \subseteq Packages
  BY DEF CP!TypeOK
<1>4. HandedOverIsPaidFor
  BY <1>1, <1>3, HeldIsCovered DEF CP!DeliveredArePaid, CP!OrderOfPackage, CP!Full,
     HandedOverIsPaidFor
<1> QED BY <1>2, <1>4

\* Together: the warehouse never gets ahead of the money, for any number of orders,
\* payments, clerks, processes, packages and users.
THEOREM MoneyThenGoods == FlowSpec => GoodsFollowMoney
<1>1. CP!Spec => []CP!TypeOK
  BY WarehouseAssumption, CP!CargoTypeCorrect
<1>2. CP!Spec => []CP!SailsThroughGates
  BY WarehouseAssumption, CP!GatesHold
<1>3. CP!Spec => []CP!DeliveredArePaid
  BY WarehouseAssumption, CP!PaidFirst
<1>4. FlowSpec => []SailsPaidFor /\ []HandedOverIsPaidFor
  BY <1>1, <1>2, <1>3, GoodsFollow, SameWarehouse, FlowIsCorridor, FlowIInv, FullySettled,
     PaidForInOrder, PTL
<1> QED BY <1>4, GoodsFollow DEF GoodsFollowMoney
============================================================================
