----------------------------- MODULE RideWallet -----------------------------
(***************************************************************************)
(* UZA Move, the wallet of one driver and the loan repaid from it: trips   *)
(* settled in cash or MoMo, the savings sweep, the commission owed, the    *)
(* automatic repayment, top-ups and cash-outs.  Every posting is           *)
(* one row-locked statement, idempotent by type and reference; what a call *)
(* posts was computed from reads other calls have overtaken since.  The    *)
(* outstanding sum of the loan, on which nothing decides, is left out.     *)
(***************************************************************************)
EXTENDS RideFare, FiniteSets

CONSTANTS
  Trips, TripFare,
  Rule,                        \* the driver's savings rule
  Installments, InstallmentAmount,  \* 1..n in the order they are due
  TopUps, TopUpAmount,
  CashOutAmount,
  AtCashOut, AtSettle,         \* the settlements that belong to no trip
  WalletCalls

\* What the savings rule wants of one fare.
Sweep == SavingsForFare(TripFare, Rule)

ASSUME WalletAssumption ==
  /\ IsFiniteSet(Trips)
  /\ TripFare \in Nat /\ Sweep \in Nat
  /\ Installments \subseteq Nat /\ InstallmentAmount \in Nat \ {0}
  /\ TopUpAmount \in Nat /\ CashOutAmount \in Nat \ {0}

VARIABLES
  balance, savings, owed,   \* wallets: balance, locked_savings, commission_owed
  ledger,                   \* the <<type, ref>> of the rows in wallet_transactions
  paidAmount,               \* loan_installments.paid_amount
  topUp,                    \* status of the MoMo rows of the top-ups
  walletCall,               \* what each call has read and does next
  taken,                    \* history: what was deducted for each installment
  disturbed                 \* history: two calls were in flight at once, or one died

wallet == <<balance, savings, owed, ledger>>
walletVars == <<wallet, paidAmount, topUp, walletCall, taken, disturbed>>

Free == [pc |-> "idle"]
Settlements == Trips \cup {AtCashOut, AtSettle}
PayMethods == {"cash", "momo"}
DueRows == [Installments -> 0..InstallmentAmount]

WalletRequests ==
  {Free}
    \cup [pc : {"credit", "commission", "sweep"}, trip : Trips, method : PayMethods]
    \cup [pc : {"swept"}, trip : Trips, method : PayMethods, amount : 1..Sweep]
    \cup [pc : {"owed"}, for : Settlements]
    \cup [pc : {"settle"}, for : Settlements, amount : Nat \ {0}]
    \cup [pc : {"balance", "payout", "loan"}]
    \cup [pc : {"due"}, paid : DueRows]
    \cup [pc : {"repay"}, next : Installments, paid : DueRows, savings : Nat]
    \cup [pc : {"mark"}, next : Installments, paid : DueRows, savings : Nat, take : 1..InstallmentAmount]
    \cup [pc : {"topup"}, ref : TopUps]

Postings ==
  {"trip_credit", "commission", "commission_owed", "savings_sweep", "commission_settled"} \X Settlements
    \cup {"loan_installment"} \X Installments \cup {"topup"} \X TopUps

\* The savings are never overdrawn: whatever overlaps, an installment is deducted
\* once, after the earlier ones, and out of savings read since then.
WalletTypeOK ==
  /\ balance \in Int /\ savings \in Nat /\ owed \in Int
  /\ ledger \subseteq Postings
  /\ paidAmount \in DueRows
  /\ topUp \in [TopUps -> {"none", "pending", "successful", "failed"}]
  /\ walletCall \in [WalletCalls -> WalletRequests]
  /\ taken \in [Installments -> Nat] /\ disturbed \in BOOLEAN

WalletInit ==
  /\ balance = 0 /\ savings = 0 /\ owed = 0 /\ ledger = {}
  /\ paidAmount = [i \in Installments |-> 0]
  /\ topUp = [p \in TopUps |-> "none"]
  /\ walletCall = [c \in WalletCalls |-> Free]
  /\ taken = [i \in Installments |-> 0] /\ disturbed = FALSE

\* A call begins, goes on, ends.
Begins(c, first) ==
  /\ walletCall[c] = Free
  /\ walletCall' = [walletCall EXCEPT ![c] = first]
  /\ disturbed' = (disturbed \/ \E d \in WalletCalls : walletCall[d] # Free)
GoesOn(c, next) == walletCall' = [walletCall EXCEPT ![c] = next] /\ UNCHANGED disturbed
Ends(c) == GoesOn(c, Free)

\* What moves on the three sub-accounts.
Moves(delta, savingsDelta, owedDelta) ==
  balance' = balance + delta /\ savings' = savings + savingsDelta /\ owed' = owed + owedDelta

\* Mutant: wallet_post takes every row for a new one.
NoReference(key) == FALSE

\* wallet_post's look-up of the row by its reference.
HasRow(key) == key \in ledger

WalletPost(key, delta, savingsDelta, owedDelta) ==
  IF HasRow(key) THEN UNCHANGED wallet
  ELSE ledger' = ledger \cup {key} /\ Moves(delta, savingsDelta, owedDelta)

----------------------------------------------------------------------------
(* applyTripLedger                                                         *)

\* A trip is settled in cash when it is completed, in MoMo when a collection succeeds;
\* RideTrip says when, and that it can be both, and more than once.
ApplyTripLedger(c, t, method) ==
  /\ Begins(c, [pc |-> "credit", trip |-> t, method |-> method])
  /\ UNCHANGED <<wallet, paidAmount, topUp, taken>>

CreditsTrip(c) ==
  /\ walletCall[c].pc = "credit"
  /\ LET t == walletCall[c].trip  method == walletCall[c].method IN
       /\ WalletPost(<<"trip_credit", t>>, IF method = "cash" THEN 0 ELSE TripFare, 0, 0)
       /\ GoesOn(c, [pc |-> "commission", trip |-> t, method |-> method])
  /\ UNCHANGED <<paidAmount, topUp, taken>>

TakesCommission(c) ==
  /\ walletCall[c].pc = "commission"
  /\ LET t == walletCall[c].trip  method == walletCall[c].method IN
       /\ IF method = "cash"
            THEN WalletPost(<<"commission_owed", t>>, 0, 0, CommissionOf(TripFare))
            ELSE WalletPost(<<"commission", t>>, -CommissionOf(TripFare), 0, 0)
       /\ GoesOn(c, [pc |-> "sweep", trip |-> t, method |-> method])
  /\ UNCHANGED <<paidAmount, topUp, taken>>

\* Only a MoMo inflow settles the commission owed; then the loan is repaid.
AfterSweep(t, method) == IF method = "cash" THEN [pc |-> "loan"] ELSE [pc |-> "owed", for |-> t]

\* No more than the wallet holds is swept.
Swept == AtMost(Sweep, AtLeast(0, balance))

SweepReads(c) ==
  /\ walletCall[c].pc = "sweep"
  /\ LET t == walletCall[c].trip  method == walletCall[c].method IN
       GoesOn(c, IF Swept > 0 THEN [pc |-> "swept", trip |-> t, method |-> method, amount |-> Swept]
                 ELSE AfterSweep(t, method))
  /\ UNCHANGED <<wallet, paidAmount, topUp, taken>>

SweepPosts(c) ==
  /\ walletCall[c].pc = "swept"
  /\ LET t == walletCall[c].trip  amount == walletCall[c].amount IN
       /\ WalletPost(<<"savings_sweep", t>>, -amount, amount, 0)
       /\ GoesOn(c, AfterSweep(t, walletCall[c].method))
  /\ UNCHANGED <<paidAmount, topUp, taken>>

----------------------------------------------------------------------------
(* settleOwed                                                              *)

AfterSettlement(ref) ==
  IF ref = AtCashOut THEN [pc |-> "balance"] ELSE IF ref = AtSettle THEN Free ELSE [pc |-> "loan"]

SettleOwedReads(c) ==
  /\ walletCall[c].pc = "owed"
  /\ LET ref == walletCall[c].for  take == AtMost(owed, balance) IN
       GoesOn(c, IF take > 0 THEN [pc |-> "settle", for |-> ref, amount |-> take] ELSE AfterSettlement(ref))
  /\ UNCHANGED <<wallet, paidAmount, topUp, taken>>

\* settleCommission's reference is the time: always a new row.
SettleOwedPosts(c) ==
  /\ walletCall[c].pc = "settle"
  /\ LET ref == walletCall[c].for  amount == walletCall[c].amount IN
       /\ IF ref = AtSettle
            THEN Moves(-amount, 0, -amount) /\ UNCHANGED ledger
            ELSE WalletPost(<<"commission_settled", ref>>, -amount, 0, -amount)
       /\ GoesOn(c, AfterSettlement(ref))
  /\ UNCHANGED <<paidAmount, topUp, taken>>

----------------------------------------------------------------------------
(* autoRepayLoan                                                           *)

Unpaid(paid) == {i \in Installments : paid[i] < InstallmentAmount}

\* The loan and its installments not paid, all due; then the wallet.
RepayReadsLoan(c) ==
  /\ walletCall[c].pc = "loan"
  /\ IF Unpaid(paidAmount) = {} THEN Ends(c)
     ELSE GoesOn(c, [pc |-> "due", paid |-> paidAmount])
  /\ UNCHANGED <<wallet, paidAmount, topUp, taken>>

First(S) == CHOOSE i \in S : \A j \in S : i <= j

RepayReadsWallet(c) ==
  /\ walletCall[c].pc = "due"
  /\ LET paid == walletCall[c].paid IN
       GoesOn(c, [pc |-> "repay", next |-> First(Unpaid(paid)), paid |-> paid, savings |-> savings])
  /\ UNCHANGED <<wallet, paidAmount, topUp, taken>>

\* What the row that was read says is left to pay.
Remaining(i, paid) == InstallmentAmount - paid[i]

\* One installment: deduct what the savings that were read allow.  wallet_post
\* answers with the wallet as it now is, which the next installment uses.
RepayTakes(c) ==
  /\ walletCall[c].pc = "repay"
  /\ LET r == walletCall[c]
         take == AtMost(Remaining(r.next, r.paid), r.savings)
     IN  IF take <= 0
           THEN Ends(c) /\ UNCHANGED <<wallet, taken>>
           ELSE /\ WalletPost(<<"loan_installment", r.next>>, 0, -take, 0)
                /\ taken' = IF HasRow(<<"loan_installment", r.next>>) THEN taken
                            ELSE [taken EXCEPT ![r.next] = @ + take]
                /\ GoesOn(c, [pc |-> "mark", next |-> r.next, paid |-> r.paid, take |-> take,
                              savings |-> AtLeast(0, savings')])
  /\ UNCHANGED <<paidAmount, topUp>>

\* The row is written from what was read of it; whether that fails is not looked at.
RepayMarks(c) ==
  /\ walletCall[c].pc = "mark"
  /\ LET r == walletCall[c]
         later == {i \in Unpaid(r.paid) : i > r.next}
     IN  /\ paidAmount' \in {paidAmount, [paidAmount EXCEPT ![r.next] = r.paid[r.next] + r.take]}
         /\ IF later = {} THEN Ends(c)
            ELSE GoesOn(c, [pc |-> "repay", next |-> First(later), paid |-> r.paid, savings |-> r.savings])
  /\ UNCHANGED <<wallet, topUp, taken>>

----------------------------------------------------------------------------
(* Cash-out, settlement, top-up                                            *)

CashOut(c) ==
  /\ Begins(c, [pc |-> "owed", for |-> AtCashOut])
  /\ UNCHANGED <<wallet, paidAmount, topUp, taken>>

\* Mutant: the amount is not compared with the balance.
AnyBalance == TRUE

\* The balance read after the settlement covers the amount.
Covered == balance >= CashOutAmount

CashOutReads(c) ==
  /\ walletCall[c].pc = "balance"
  /\ IF Covered THEN GoesOn(c, [pc |-> "payout"]) ELSE Ends(c)
  /\ UNCHANGED <<wallet, paidAmount, topUp, taken>>

\* The provider has been asked, under a reference of its own.
CashOutPosts(c) ==
  /\ walletCall[c].pc = "payout"
  /\ Moves(-CashOutAmount, 0, 0)
  /\ Ends(c)
  /\ UNCHANGED <<ledger, paidAmount, topUp, taken>>

SettleCommission(c) ==
  /\ owed > 0 /\ balance > 0
  /\ Begins(c, [pc |-> "owed", for |-> AtSettle])
  /\ UNCHANGED <<wallet, paidAmount, topUp, taken>>

TopUpWallet(p) ==
  /\ topUp[p] = "none"
  /\ topUp' = [topUp EXCEPT ![p] = "pending"]
  /\ UNCHANGED <<wallet, paidAmount, walletCall, taken, disturbed>>

\* settleMomoCollection: the first callback claims the row and then credits it.
TopUpCallback(c, p) ==
  /\ topUp[p] = "pending"
  /\ \/ topUp' = [topUp EXCEPT ![p] = "successful"] /\ Begins(c, [pc |-> "topup", ref |-> p])
     \/ topUp' = [topUp EXCEPT ![p] = "failed"] /\ UNCHANGED <<walletCall, disturbed>>
  /\ UNCHANGED <<wallet, paidAmount, taken>>

TopUpPosts(c) ==
  /\ walletCall[c].pc = "topup"
  /\ WalletPost(<<"topup", walletCall[c].ref>>, TopUpAmount, 0, 0)
  /\ Ends(c)
  /\ UNCHANGED <<paidAmount, topUp, taken>>

\* The server function dies between two statements.
WalletCallDies(c) ==
  /\ walletCall[c] # Free
  /\ walletCall' = [walletCall EXCEPT ![c] = Free] /\ disturbed' = TRUE
  /\ UNCHANGED <<wallet, paidAmount, topUp, taken>>

WalletNext ==
  \/ \E p \in TopUps : TopUpWallet(p)
  \/ \E c \in WalletCalls :
       \/ \E t \in Trips, method \in PayMethods : ApplyTripLedger(c, t, method)
       \/ CreditsTrip(c) \/ TakesCommission(c) \/ SweepReads(c) \/ SweepPosts(c)
       \/ SettleOwedReads(c) \/ SettleOwedPosts(c)
       \/ RepayReadsLoan(c) \/ RepayReadsWallet(c) \/ RepayTakes(c) \/ RepayMarks(c)
       \/ CashOut(c) \/ CashOutReads(c) \/ CashOutPosts(c) \/ SettleCommission(c)
       \/ \E p \in TopUps : TopUpCallback(c, p)
       \/ TopUpPosts(c)
       \/ WalletCallDies(c)

WalletSpec == WalletInit /\ [][WalletNext]_walletVars

----------------------------------------------------------------------------
(* Properties                                                              *)

\* A trip settled in cash and in MoMo costs two commissions; settled in cash first, the
\* fare is never credited, and the second is deducted from what is not there.
SettledTwice == {t \in Trips : <<"commission_owed", t>> \in ledger /\ <<"commission", t>> \in ledger}
DoubleCommission == Cardinality(SettledTwice) * CommissionOf(TripFare)

\* Calls that never overlap nor die leave a debt that is not overpaid and a wallet that is
\* overdrawn by no more than the second commission of trips settled twice: each of sweep,
\* settlement and cash-out takes what is there, a commission what its own call credited.
UndisturbedIsSolvent == ~disturbed => owed >= 0 /\ balance + DoubleCommission >= 0

\* autoRepayLoan of two trips settled at once, or of one that died half way: the savings
\* are never overdrawn, an installment costs no more than its amount and is recorded only
\* once it was deducted, and none is deducted before the earlier ones were.
RepaidInOrder ==
  /\ savings >= 0
  /\ \A i \in Installments :
       /\ taken[i] <= InstallmentAmount
       /\ paidAmount[i] > 0 => taken[i] > 0
       /\ taken[i] > 0 => \A j \in Installments : j < i => taken[j] > 0

\* "Pay any due loan installments out of locked savings": what an installment
\* records as paid has left the savings.  A second deduction of an installment
\* breaks this in the code, so no run has it.
PaidFromSavings == \A i \in Installments : paidAmount[i] <= taken[i]
============================================================================
