------------------------------ MODULE RideTrip ------------------------------
(***************************************************************************)
(* UZA Move, one trip: its dispatch to drivers, the claim, the ride, its   *)
(* cancellation with the fee, and its payment in cash or by mobile money   *)
(* (MoMo).  Server calls read rows and write them in later statements; no  *)
(* transaction spans two of them, so two calls interleave between any two  *)
(* steps and a call can die after any of them.  No property reads a clock, *)
(* so a window of time may be over at any moment; the checks on a driver's *)
(* approval, insurance and debt only narrow who of Drivers calls.          *)
(***************************************************************************)
EXTENDS RideFare, FiniteSets

CONSTANTS
  Drivers, Nobody,
  Collections,              \* the MoMo payments the rider is asked for
  RideCalls,                \* the server calls in flight
  Fare, Fee                 \* the quoted fare, the cancellation fee

ASSUME RideAssumption ==
  /\ Nobody \notin Drivers
  /\ Fare \in Nat /\ Fee \in Nat \ {0}

VARIABLES
  status, driver,           \* of the trip row
  offered, live,            \* who has the exclusive offer; its 25 s still run
  fare, commission,         \* final_fare (the quote while it is null), commission_amount
  payStatus,
  momo,                     \* status of each momo_transactions row
  posted, moved,            \* wallet_transactions of the trip: types posted, money moved by each
  call                      \* what each call has read and does next

\* commission_amount of the quote.
Commission == CommissionOf(Fare)

tripRow == <<status, driver, offered, live, fare, commission, payStatus>>
wallets == <<posted, moved>>
rideVars == <<tripRow, momo, wallets, call>>

Cancelled == {"cancelled_by_rider", "cancelled_by_driver", "no_show"}
Closed == {"completed"} \cup Cancelled
Statuses == {"requested", "accepted", "arriving", "started"} \cup Closed
Entries == {"trip_credit", "commission", "commission_owed", "cancellation_fee", "cancellation_payout"}

Waiting == [pc |-> "idle"]
RideRequests ==
  {Waiting}
    \cup [pc : {"offer"}, exclude : Drivers \cup {Nobody}]
    \cup [pc : {"accept"}, driver : Drivers]
    \cup [pc : {"status"}, to : {"arriving"} \cup Cancelled, fee : {0, Fee}]
    \cup [pc : {"charge", "compensate", "start", "force", "asked", "fail", "verify"}]
    \cup [pc : {"complete"}, cash : BOOLEAN, commission : {0, Commission}]
    \cup [pc : {"credit", "deduct"}, cash : BOOLEAN, fare : {0, Fare}, commission : {0, Commission}]

RideTypeOK ==
  /\ status \in Statuses /\ driver \in Drivers \cup {Nobody} /\ offered \in Drivers \cup {Nobody} /\ live \in BOOLEAN
  /\ fare \in {0, Fare} /\ commission \in {0, Commission}
  /\ payStatus \in {"pending", "paid", "failed", "cash_collected"}
  /\ momo \in [Collections -> {"none", "pending", "successful", "failed"}]
  /\ posted \subseteq Entries /\ moved \in [Entries -> Nat]
  /\ call \in [RideCalls -> RideRequests]

\* requestTrip has inserted the row and is about to offer it.
RideInit ==
  /\ status = "requested" /\ driver = Nobody /\ offered = Nobody /\ live = FALSE
  /\ fare = Fare /\ commission = Commission /\ payStatus = "pending"
  /\ momo = [p \in Collections |-> "none"]
  /\ posted = {} /\ moved = [e \in Entries |-> 0]
  /\ \E c0 \in RideCalls :
       call = [c \in RideCalls |-> IF c = c0 THEN [pc |-> "offer", exclude |-> Nobody] ELSE Waiting]

\* The call goes on to its next step.
Goes(c, next) == call' = [call EXCEPT ![c] = next]
Done(c) == Goes(c, Waiting)

\* wallet_post: one row per wallet, type and reference; a repeat moves nothing.
Post(entry, amount) ==
  /\ posted' = posted \cup {entry}
  /\ moved' = IF entry \in posted THEN moved ELSE [moved EXCEPT ![entry] = @ + amount]

----------------------------------------------------------------------------
(* Dispatch                                                                *)

\* offerToNearestDriver: a driver in good standing, or none near enough.
OfferToNearestDriver(c) ==
  /\ call[c].pc = "offer"
  /\ \/ \E d \in Drivers \ {call[c].exclude} :
          /\ IF status = "requested" THEN offered' = d /\ live' = TRUE
                                     ELSE UNCHANGED <<offered, live>>
     \/ UNCHANGED <<offered, live>>
  /\ Done(c)
  /\ UNCHANGED <<status, driver, fare, commission, payStatus, momo, wallets>>

\* expireStaleTrips (any moment may be 10 minutes after the request), at the head of listOpenTrips and opsOverview.
ExpireStaleTrips ==
  /\ status = "requested" /\ driver = Nobody
  /\ status' = "cancelled_by_rider" /\ fare' = 0 /\ commission' = 0
  /\ UNCHANGED <<driver, offered, live, payStatus, momo, wallets, call>>

\* listOpenTrips: a lapsed offer goes to somebody else.
ListOpenTrips(c) ==
  /\ call[c] = Waiting
  /\ status = "requested" /\ offered # Nobody /\ ~live
  /\ Goes(c, [pc |-> "offer", exclude |-> offered])
  /\ UNCHANGED <<tripRow, momo, wallets>>

OfferOpenTo(d) == offered \in {Nobody, d} \/ ~live

\* acceptTrip, its reads (once the trip is taken or closed, the claim matches nothing).
AcceptTripReads(c, d) ==
  /\ call[c] = Waiting
  /\ status = "requested" /\ OfferOpenTo(d)
  /\ Goes(c, [pc |-> "accept", driver |-> d])
  /\ UNCHANGED <<tripRow, momo, wallets>>

\* Mutant: the claim trusts what the driver's screen showed.
StillFreeWhenListed == status \notin Closed

\* The claim: the update matches only a requested trip.
StillFree == status = "requested"

AcceptTripClaims(c) ==
  /\ call[c].pc = "accept"
  /\ IF StillFree
       THEN /\ driver' = call[c].driver /\ status' = "accepted"
            /\ offered' = Nobody /\ live' = FALSE
       ELSE UNCHANGED <<driver, status, offered, live>>
  /\ Done(c)
  /\ UNCHANGED <<fare, commission, payStatus, momo, wallets>>

----------------------------------------------------------------------------
(* The ride and its cancellation                                           *)

\* cancellationFee: the rider at fault pays, within 120 s of the claim nothing.
CancellationFee(to) ==
  IF to \notin {"cancelled_by_rider", "no_show"} \/ driver = Nobody THEN {0}
  ELSE IF status = "arriving" THEN {Fee} ELSE {0, Fee}

\* setTripStatus, its reads: who may set what, and what it costs the rider.
SetTripStatusReads(c) ==
  /\ call[c] = Waiting
  /\ status \notin Closed
  /\ \E to \in {"arriving"} \cup Cancelled :
       /\ to # "arriving" => status # "started"
       /\ to # "cancelled_by_rider" => driver # Nobody
       /\ \E fee \in CancellationFee(to) : Goes(c, [pc |-> "status", to |-> to, fee |-> fee])
  /\ UNCHANGED <<tripRow, momo, wallets>>

\* Mutant: the driver is paid first.
CompensateFirst == [pc |-> "compensate"]

\* The rider is charged before the driver is paid.
ChargeFirst == [pc |-> "charge"]

\* The update names the trip only, whatever became of it since the reads.
SetTripStatusWrites(c) ==
  /\ call[c].pc = "status"
  /\ status' = call[c].to
  /\ IF call[c].to = "arriving" THEN UNCHANGED <<fare, commission>> ELSE fare' = 0 /\ commission' = 0
  /\ IF call[c].fee > 0 THEN Goes(c, ChargeFirst) ELSE Done(c)
  /\ UNCHANGED <<driver, offered, live, payStatus, momo, wallets>>

\* What the wallet holds is taken, the rest is owed: the fee in all.
ChargeRider(c) ==
  /\ call[c].pc = "charge"
  /\ Post("cancellation_fee", Fee)
  /\ Goes(c, [pc |-> "compensate"])
  /\ UNCHANGED <<tripRow, momo>>

CompensateDriver(c) ==
  /\ call[c].pc = "compensate"
  /\ Post("cancellation_payout", Fee)
  /\ Done(c)
  /\ UNCHANGED <<tripRow, momo>>

\* startTrip: the driver of the trip with the rider's PIN; the status is not read.
StartTripReads(c) ==
  /\ call[c] = Waiting /\ driver # Nobody
  /\ Goes(c, [pc |-> "start"])
  /\ UNCHANGED <<tripRow, momo, wallets>>

StartTripWrites(c) ==
  /\ call[c].pc = "start"
  /\ status' = "started"
  /\ Done(c)
  /\ UNCHANGED <<driver, offered, live, fare, commission, payStatus, momo, wallets>>

\* completeTrip: a completed trip is answered and left, any other is completed.
CompleteTripReads(c) ==
  /\ call[c] = Waiting /\ driver # Nobody /\ status # "completed"
  /\ \E cash \in BOOLEAN : Goes(c, [pc |-> "complete", cash |-> cash, commission |-> commission])
  /\ UNCHANGED <<tripRow, momo, wallets>>

\* Cash settles at once, MoMo waits for the callback.
CompleteTripWrites(c) ==
  /\ call[c].pc = "complete"
  /\ status' = "completed" /\ fare' = Fare /\ commission' = call[c].commission
  /\ payStatus' = IF call[c].cash THEN "cash_collected" ELSE "pending"
  /\ IF call[c].cash
       THEN Goes(c, [pc |-> "credit", cash |-> TRUE, fare |-> Fare, commission |-> call[c].commission])
       ELSE Done(c)
  /\ UNCHANGED <<driver, offered, live, momo, wallets>>

\* forceCancelTrip by the ops.
ForceCancelReads(c) ==
  /\ call[c] = Waiting /\ status \notin Closed
  /\ Goes(c, [pc |-> "force"])
  /\ UNCHANGED <<tripRow, momo, wallets>>

ForceCancelWrites(c) ==
  /\ call[c].pc = "force"
  /\ status' = "cancelled_by_rider" /\ fare' = 0 /\ commission' = 0
  /\ Done(c)
  /\ UNCHANGED <<driver, offered, live, payStatus, momo, wallets>>

----------------------------------------------------------------------------
(* Payment                                                                 *)

\* requestMomoPayment: the provider is asked, the row is inserted ...
AskMomo(c, p) ==
  /\ call[c] = Waiting /\ momo[p] = "none"
  /\ momo' = [momo EXCEPT ![p] = "pending"]
  /\ Goes(c, [pc |-> "asked"])
  /\ UNCHANGED <<tripRow, wallets>>

\* ... and the trip set to pending, whatever it was.
AwaitMomo(c) ==
  /\ call[c].pc = "asked"
  /\ payStatus' = "pending"
  /\ Done(c)
  /\ UNCHANGED <<status, driver, offered, live, fare, commission, momo, wallets>>

\* settleMomoCollection: the first callback claims the pending row, a repeat finds none.
MomoCallback(c, p) ==
  /\ call[c] = Waiting /\ momo[p] = "pending"
  /\ \E outcome \in {"successful", "failed"} :
       /\ momo' = [momo EXCEPT ![p] = outcome]
       /\ Goes(c, [pc |-> IF outcome = "successful" THEN "verify" ELSE "fail"])
  /\ UNCHANGED <<tripRow, wallets>>

\* Mutant: a failed collection also marks the trip paid.
PaidAnyway == "paid"

\* What a failed collection makes of the trip, a verified payment included.
FailedPayment == "failed"

MomoFails(c) ==
  /\ call[c].pc = "fail"
  /\ payStatus' = FailedPayment
  /\ Done(c)
  /\ UNCHANGED <<status, driver, offered, live, fare, commission, momo, wallets>>

\* The claim on the trip, then the ledger of its driver.
VerifyPayment(c) ==
  /\ call[c].pc = "verify"
  /\ payStatus' = "paid"
  /\ IF payStatus # "paid" /\ driver # Nobody
       THEN Goes(c, [pc |-> "credit", cash |-> FALSE, fare |-> fare, commission |-> commission])
       ELSE Done(c)
  /\ UNCHANGED <<status, driver, offered, live, fare, commission, momo, wallets>>

\* applyTripLedger: cash is in the driver's hand, its credit moves nothing ...
CreditDriver(c) ==
  /\ call[c].pc = "credit"
  /\ Post("trip_credit", IF call[c].cash THEN 0 ELSE call[c].fare)
  /\ Goes(c, [call[c] EXCEPT !.pc = "deduct"])
  /\ UNCHANGED <<tripRow, momo>>

\* ... and its commission is owed.
DeductCommission(c) ==
  /\ call[c].pc = "deduct"
  /\ Post(IF call[c].cash THEN "commission_owed" ELSE "commission", call[c].commission)
  /\ Done(c)
  /\ UNCHANGED <<tripRow, momo>>

----------------------------------------------------------------------------
(* The clock and the crashes                                               *)

OfferLapses ==
  /\ live /\ live' = FALSE
  /\ UNCHANGED <<status, driver, offered, fare, commission, payStatus, momo, wallets, call>>

\* The server function dies between two statements.
CallDies(c) ==
  /\ call[c] # Waiting
  /\ Done(c)
  /\ UNCHANGED <<tripRow, momo, wallets>>

\* What a call in flight does next.
CallStep(c) ==
  \/ OfferToNearestDriver(c) \/ ListOpenTrips(c)
  \/ \E d \in Drivers : AcceptTripReads(c, d)
  \/ AcceptTripClaims(c)
  \/ SetTripStatusReads(c) \/ SetTripStatusWrites(c) \/ ChargeRider(c) \/ CompensateDriver(c)
  \/ StartTripReads(c) \/ StartTripWrites(c)
  \/ CompleteTripReads(c) \/ CompleteTripWrites(c)
  \/ ForceCancelReads(c) \/ ForceCancelWrites(c)
  \/ \E p \in Collections : AskMomo(c, p) \/ MomoCallback(c, p)
  \/ AwaitMomo(c) \/ MomoFails(c) \/ VerifyPayment(c)
  \/ CreditDriver(c) \/ DeductCommission(c)
  \/ CallDies(c)

RideNext == ExpireStaleTrips \/ OfferLapses \/ \E c \in RideCalls : CallStep(c)

RideSpec == RideInit /\ [][RideNext]_rideVars

----------------------------------------------------------------------------
(* Properties                                                              *)

\* A trip goes to one driver: whatever two acceptTrip calls, a re-dispatch and
\* the expiry do at once, nobody takes it from the driver who claimed it.
ClaimedOnce == [][driver # Nobody => driver' = driver]_rideVars

\* "The driver never sees PAID until real money moved": a trip is paid, or its
\* fare credited, only after a collection of it succeeded; no timeout, no failed or
\* repeated callback and no crash between the claims does it.  And although a second
\* payment resets pay_status and can succeed too, the driver is credited one fare and
\* loses one commission: the ledger key stops the rest.
PaidOnceForMoney ==
  /\ payStatus = "paid" \/ moved["trip_credit"] > 0 => \E p \in Collections : momo[p] = "successful"
  /\ moved["trip_credit"] <= Fare /\ moved["commission"] <= Commission

\* "The rider pays, the driver keeps all of it": however many cancellations race or
\* die half way, the driver's compensation never exceeds what the rider was charged.
DriverKeepsTheFee == moved["cancellation_payout"] <= moved["cancellation_fee"]
============================================================================
