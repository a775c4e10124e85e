# UZA NEXUS OS: verification project

UZA Nexus is the operating layer of a trading company: a NestJS/Prisma API
(`src/backend/api`), an outbox publisher (`src/backend/worker`), PostgreSQL, a BullMQ queue on
Redis and a Next.js operator app. Modules of the API do not import each other: a module writes
an `OutboxEvent` in the transaction of its own rows, the publisher moves it to the queue, and
the API's consumer hands it to the modules that subscribed. Two more applications live beside
it, `uza-move` (rides, wallets, ads) and `empower-academy` (a course with a certificate): their
server functions talk to a hosted Supabase, a statement at a time.

This directory holds TLA+ modules of the parts where that arrangement, and PostgreSQL's READ
COMMITTED isolation, make correctness hard: nearly every service reads its rows and checks its
guards *outside* the transaction that writes, and the two applications have no transaction. TLC
checks small instances; TLAPS proves every safety property of the passing runs for every instance,
and four implementations of an abstract specification: the dispatcher, and the whole event pipeline,
of a bus that applies an event once; the pipeline, of its two parts; and the warehouse with a copy of
the payments, of a warehouse that looks at the money itself. `PROJECT.json` maps each definition to the lines
it stands for, and lists runs, mutants, theorems, findings and hazards.

Contents: [inventory](#inventory) · [modules](#modules-and-their-correspondence-to-the-code) ·
[runs](#runs) · [fairness](#fairness) · [proofs](#proofs) · [divergences](#divergences) ·
[modelling notes](#modelling-notes) · [plan](#plan).

## Inventory

Paths are under `src/backend/api/src/` unless they start with `src/`.

### Modelled

**Event outbox** (`platform/outbox/`, `src/backend/worker/src/main.ts`). State: `OutboxEvent`
rows (status, attempts, createdAt) and `ProcessedEvent` claims of the key `bus`; the jobs of the
queue. Operations: `enqueue`/`emit` (with the business rows), `drainOutbox` on a 1 s timer:
oldest pending rows, claim, `queue.add`, mark. Hard: the timer does not wait for the previous
pass, so passes overlap; each await may fail or be the last thing the process does. Correct when
no event is queued twice, no row waits for ever, and a published row was queued.

**Event dispatch** (`integration/`). State: BullMQ job (waiting, active, failed, attempts,
stalled count, lock), the `ProcessedEvent` claim of each consumer. Operations: take a job, run
every binding of the dispatch map, collect errors, fail the job if any. Hard: redelivery while an
earlier delivery is running, one binding failing after another committed, a process crash.
Correct when a consumer applies an event at most once, a job that is gone was applied by all its
consumers, and one failing consumer does not starve its siblings.

**Money corridor** (`trade/order`, `finance/payment`, `finance/invoice`, `finance/commission`,
`logistics/consumers/order-payment`). State: orders with installments, invoices with theirs,
payments (proof uploaded, verified, rejected), the commission ledger, logistics' projection of
the fraction paid. Operations: create and cancel an order, upload a proof, verify, reject, and
the handlers of `order.created`, `order.cancelled`, `payment.verified`. Hard: two finance clerks,
events in any order, handlers that refuse. Correct when no gate of procurement, booking or
release opens before the money is settled, the ledger has one accrual and at most one clawback,
and full payment opens the release.

**Quality** (`quality/`, `logistics/consumers/quality-gate`). State: inspections, CAPAs, the
`InspectionOutcome` projection. Operations: record (with an offline capture's clientRequestId),
draft and close a CAPA, two handlers. Hard: a capture synced twice, events reordered. Correct
when a capture is one inspection and the gate shows the latest one.

**Warehouse and shipping** (`logistics/warehouse`, `logistics/logistics`). State: receipts,
packages (qcReleased, varianceHold, destination, shipmentRef, delivery), shipments. Operations:
receive, decide a variance, release, allocate, book, delay, deliver. Hard: three booking gates
read first, written later. Correct when nothing sails past a gate, a hold lasts until it is
decided and nothing is handed over unpaid.

**Supplier deals** (`sourcing/offer`, `sourcing/deal`). State: offers, deals, an append-only
event ledger with a unique clientRequestId. Operations: accept, decline, reserve, record an
inspection, open the balance, confirm the payment. Hard: retries racing their first attempt,
transitions racing each other. Correct when no request is applied twice and money follows a
passed inspection.

**Supplier bank accounts** (`finance/supplier-bank`). State: change requests, approvals, the
account in use. Correct when an account in use had two approvers besides the requester.

**UZA ID** (`platform/uza-id`). State: people with two unique match keys and a merge tombstone,
links of other systems' accounts. Operations: resolve (link, national ID, phone, create), link,
merge. Hard: none of resolve runs in a transaction; merge reads before its own. Correct when a
link is never lost and an ID answers with the person it became.

**Signal intake** (`intake/`). State: signals; the watermark is derived from them. Operations:
sweep four sources, file each signal, type one in; triage runs ask a model about new signals;
people promote, dismiss and share. Hard: sweeps overlap, messages arrive while one runs, a person
decides while the model is asked. Correct when nothing is filed twice, nothing is skipped and
what a person decided stands.

**Quotations** (`trade/quotation`). State: versions of a quotation, each draft, approved or
superseded, with a cost ladder. Operations: build, revise, approve, close costs. Hard: all of
them read the row first. Correct when a line has one live version and no landed cost is lost.

**Weekly loop** (`umurimo/week`, `umurimo/blocker`). State: a person's plan and report of a week,
blockers. Operations: post minutes, confirm, report, raise and clear blockers. Hard: minutes are
posted again, corrected, while people confirm. Correct when a confirmed plan stays.

**Planning** (`planning/initiative`, `planning/responsibility`). State: rows whose fields are
bound by rules (what runs has a next action; an approval has a clock and a backup). Hard: two
updates each give one field of a rule. Correct when the row satisfies the rules all the same.

**Command** (`command/grant`, `command/task`, `list-scope.ts` of each
module, `src/backend/contracts/src/permissions.ts`). State: grants in a funnel; who
may see what. Correct when no stage is skipped, and a list shows exactly what a read allows.

**Freight** (`logistics/logistics/freight.service.ts`). State: the bill of a container, its
allocation to orders. Hard: two allocations at once, packages leaving. Correct when the rows are
those of one allocation and sum to the bill it read.

**Supplier score** (`sourcing/supplier/supplier-score.service.ts`). State: a score, a ledger of
penalties. Hard: receipts delivered twice and crossing. Correct when a receipt is penalised once.

**Readable refs** (`platform/ids`). `nextSequence` reads the newest ref as a string, adds one,
inserts. Correct when a creation that nobody races does not collide.

**uza-move** (`src/frontend/uza-move/src/lib`). State: trips, MoMo collections, a ledger keyed by
driver, type and reference (`wallet_post`, which locks the wallet's row), loan installments, ad
campaigns. Operations: dispatch, accept, start, complete, cancel, expire, pay, callbacks, sweep,
repay, settle, top up, cash out, serve and bill ads, the fare arithmetic. Hard: every server
function is several statements that others come between, and may die after any. Correct when a
trip has one driver, paid means money moved, a driver is credited once and never gets more of a
fee than the rider paid, a wallet is not overdrawn, and nobody is billed for what was not served.

**empower-academy** (`src/frontend/empower-academy/src/lib`). State: progress of a learner,
attempts at the final assessment, certificates, and the row policies that say whose progress a
query finds (`src/backend/supabase/empower-academy/migrations`). Hard: two devices, failed queries,
a query without a user. Correct when a certificate was earned: every module first, then a passed
attempt, within the attempts allowed.

### Not modelled

| part | why |
|---|---|
| `planning/` decisions, funding, memos, estate, reviews | registers of one status each; their races are of the kind `PlanRegister` and `CommandBoard` show, and those found by reading are under [divergences](#divergences) |
| `command/` tasks' state, departments, overview | a task's status is set freely; the rest only reads |
| `sourcing/` RFQs, purchase orders, supplier registration | as planning |
| `trade/customer`, `trade/project`, `trade/intake`, `quality/visit`, `logistics/` partners and consignees | inserts and reads with no rule that relates two of them |
| `finance/petty-cash`, `finance/claim`, `platform/lender-view` | annotations that no gate reads; see divergence 42 for the lender view |
| the wall terms of triage, classification, redaction | regular expressions over text |
| gate by role, masking, audit rows, authentication, portal | a lookup before and an append after an operation; every modelled call is an authorised one. Object scope *is* modelled (`AccessScope`) |
| advisors, notifications, HTTP, Prisma wiring, controllers, Empower bridge, seeds, scripts | input and output, no state of the register |
| pages and components of the three front ends, generated types | presentation and generated code: about four fifths of the repository's lines, where there is no protocol to state |
| `src/backend/supabase`, the rest of it | migrations of the two hosted databases: tables, policies, triggers. What the modelled functions rely on is modelled with them: `wallet_post` and the ledger's unique index (`RideWallet`, `RideTrip`), the policies of `module_progress` and the unique columns of `certificates` (`Academy`). The other policies are access rules of the pages |
| uza-move: ratings, vehicle offers, charging rewards, the admin pages | writes of one row; `rateTrip`'s recount is under divergences |
| empower-academy: curriculum, enrolment, verification of a certificate | content and reads |

## Modules and their correspondence to the code

| module | code | state and steps |
|---|---|---|
| `OutboxPublisher` | `outbox.service.ts`, `outbox-processor.ts`, `worker/src/main.ts` | a pass is `idle → claim → enqueue → mark/record`, one step per await; `PassFault` is a failed or interrupted await |
| `EventDispatch` | `dispatch-map.ts`, `event-consumer.service.ts`, handlers' guard | a worker's loop over the bindings; a handler is `ReadClaim` then `CommitWork`, or throws; `Stall` is BullMQ's stalled check |
| `EventPipeline` | both over one queue | `INSTANCE`s of the two, sharing `job` |
| `EventDelivery` | what the rest of the system relies on | committed events, applied at most once per subscriber, in no order |
| `PaymentCorridor` | order, payment, invoice, commission and order-payment services | `verify` is read → settle (row locks) → recompute → commit; the handlers of a cancellation, in finance, and of a verification, in logistics, are read → write |
| `QualityGate` | inspection, capa, quality-gate services | requests are read → commit; events carry the inspection's number |
| `OrderToDelivery` | the gates of `container.service.ts` and `delivery.service.ts` over `OrderPaymentState` | extends `PaymentCorridor`; `Cargo` twice: `Warehouse` with what logistics' projection shows for its payments, `Ideal` with what finance holds |
| `Cargo` | receiving, release, container, delivery, tracking services | a request is read (all gates) → write |
| `SupplierDeal` | offer and deal services | a transition is read → transaction; the ledger is a sequence |
| `SupplierBank` | supplier-bank service | approve is read → insert and count → apply and commit |
| `UzaId` | uza-id service | one step per query of resolve and merge |
| `Intake`, `SignalDesk` | intake service and its sources; triage, promotion, dismissal | a sweep is watermark → collect per source → look up → insert; a triage run takes a list, then writes each answer |
| `Quotation` | quotation service | revise, approve and close costs are read → write |
| `Week` | week and blocker services | posting minutes and confirming are read → write |
| `PlanRegister` | initiative and responsibility services | an update is read, merge and check → write of the fields it merged |
| `AccessScope` | `permissions.ts` of the contracts, the `list-scope.ts` of trade, finance and logistics, `command-scope.ts` | operators: the predicate of a read and the filter of a list |
| `CommandBoard` | grant service | read with scope and hop check → write |
| `FreightBooks` | freight service | shipment → packages → delete → insert and commit |
| `SupplierScore` | supplier-score service | claimed? → insert claim and read score → write both |
| `ReadableRefs` | `next-sequence.ts` | read newest → insert; the order of padded strings is computed, not assumed |
| `RideFare` | `pricing.ts` and the payout arithmetic | operators over integers |
| `RideTrip` | trips, dispatch, MoMo functions | one step per statement of each server function |
| `RideWallet` | wallet functions, `uza.server.ts`, `wallet_post` | the same, for trips settled in cash, by MoMo or both, sweeps, repayments, settlements, cash-outs, top-ups |
| `RideAds` | ads functions | serve and click are read → record, or fail to → bill |
| `Academy` | academy functions, policies of `module_progress` | progress, own and shown by others, attempts and the certificate, a step per query |
| `DesksMC`, `RidesMC`, other `…MC` | none | model values; the first two run several components at once |
| `…Proofs` | none | theorems, see [proofs](#proofs) |

The bus joins the others: `PaymentCorridor` and `QualityGate` take from `EventDelivery` that a
handler sees an event at most once, in any order, perhaps never; the pipeline run shows that the
publisher and dispatcher deliver this, and `Fairness` of the two rests on `CommittedIsApplied`.
`Cargo` alone takes the payments (`PaymentVerified`, which only accumulates) and the inspection
outcome (`InspectionHandled`, either value at any time) as inputs; in `OrderToDelivery` the payments
are the corridor's. `CommandBoard` extends `AccessScope`,
the ride modules extend `RideFare`.

`DesksMC` and `RidesMC` extend components that share no state. Their variable `focus` names the
one a behaviour is about; the others keep their initial state, so the run has the sum and not the
product of their states.

## Runs

| run | question | bounds |
|---|---|---|
| `publisher_faults` | are events queued at most once, none lost before the first fault, and all drained? | 2 overlapping passes, 2 events, batches of 1, 2 faults |
| `publisher_lost` (violation) | is a published row queued? | 1 pass, batches of 2: one fault is enough |
| `dispatch_redelivery` | does the dispatcher implement the abstract bus, drop nothing, starve no sibling and settle every job? | 1 event for 2 consumers, 2 workers, 3 attempts, 1 stall, 2 crashes |
| `pipeline_end_to_end` | do both together implement the bus, is what was published applied when nothing failed to be added, and is a committed event applied or dead-lettered? | 1 event, 2 passes, 2 workers, 2 attempts, 1 crash, no publisher fault |
| `order_to_delivery` | do the money gates and the ledger hold under every interleaving, and do goods move only as the money allows? (890 000 states, 3 minutes) | 1 order, 2 payments, 2 clerks, 2 processes, 1 cancellation, or 1 clerk and 2 cancellations; with goods: 1 package, 1 shipment, 1 user |
| `corridor_sequential` | does everything else hold with one clerk and one process? | 1 order without an agent, 3 payments (all installments), events in any order, 1 cancellation |
| `corridor_stuck` (violation) | does full payment release when two clerks verify? | 2 payments, 2 clerks |
| `quality_ordered` | one inspection per capture, the gate follows the latest, a failure blocks | 3 captures, 2 requests, 1 CAPA user, events in commit order |
| `quality_reordered` (violation) | does the gate follow the latest when the bus reorders? | 2 captures |
| `desks_registers` | the rules of fifteen registers in every interleaving (910 000 states, 2 minutes) | below |
| `rides` | trip, wallet and ads in every interleaving (2.4 million states, 3 minutes) | below |
| `refs_width` (violation) | are sequential writers of refs safe, as the comment says? | 1 writer, base 10, width 1, numbers to 11 |

What is checked in `desks_registers`: `HeldUntilDecided`, `SailsThroughGates` (Cargo),
`TransitionOnce`, `MoneyFollowsInspection` (deals), `FourEyes` (bank), `LinkFollowsPerson` (UZA
ID), `RefilesNothing` (intake), `PeopleDecide` (triage), `UndisturbedQuotes`, `CorrectionsStand`
(week), `RegisterRules` (planning), `NoStageSkipped` (grants), `OneAllocation` (freight),
`NeverDoublePenalised` (score), `SequentialCreatesSucceed` (refs), `EarnedOnce` (academy). In
`rides`: `ClaimedOnce`, `PaidOnceForMoney`, `DriverKeepsTheFee` (trip), `UndisturbedIsSolvent`,
`RepaidInOrder` (wallet), `NeverOverbilled` (ads). In `order_to_delivery`: `ReleaseNeverEarly`,
`LedgerSound`, `SettledByFullPayment`, `ReversalNeverLost` (money) and `GoodsFollowMoney`.

Some of these speak of the undisturbed case only, through a history variable (`quotesRaced`,
`weekRaced`, `contested`, `together`, `disturbed`). They are what the code does promise: with the
condition dropped TLC finds the race, which is then under [divergences](#divergences). For
quotations, the week, triage and refs the condition is that no other call held the same row (or
any creation, for refs) between the read and the write, so that stale state of any other origin
would still show; for the wallet, whose postings all meet in one balance, that no two calls overlap
and none dies half way; for the academy, that no two calls of one kind overlap and no query fails
unnoticed.

Why the bounds are enough. A race of these services needs two requests and one row they share;
what a third adds is another pair. Two passes and a batch smaller than the backlog make the batch
limit bite. Two workers make a job run twice at once; three attempts let it fail, be retried and
dead-letter. Three payments cover a whole schedule of three installments, and two a schedule of
two.

`order_to_delivery` also has a `focus`. A behaviour about the money has everything the corridor has
and one cancellation; one about the reversal has two of them, handled at once or again, with one
finance request at a time and an agent to pay; one about the goods has one finance request at a time, no cancellation and no agent to pay, so that
what is left to interleave is the settlement, its event, the two processes that copy it and the
warehouse's request: the two races of clerks are between rows of finance, which the gates do not
read, and the proof has no such bound.

In `desks_registers` the two requests are shared by all desks and interchangeable (`Sym`). Two
packages of two orders can be booked together, held apart and paid apart, and the destination is
one because a package has it or not (`CargoProofs` covers any number); four keys allow reserve,
inspect, mark and confirm with two of them racing; four people and two changes of one supplier
allow a requester, two approvers and a third that races; three accounts hold a shared phone, a
shared national ID and one holder known by both; two sweeps, a mail and a document overlap with a
signal typed in; three quotation rows allow a revision of a revision beside a second line; one
person with two texts of minutes and two of their own allow a re-post with and without change
around a confirmation; two signals and a page of one make a run miss one; numbers to 6 in base 2
and width 2 pass the width (4) with rows deleted below; one initiative and one duty, since rules
relate fields of one row; one grant, advanced by its owner and the CEO; two orders aboard, three
allocations, so that a third replaces rows of the first two; three receipts with penalties 1, 2
and none; two modules, two attempts, at most three rows of attempts or certificates, one more
than the rule allows. In `rides`: two drivers, two collections and two calls; two
installments; a cash-out of a trip's fare; an ad budget of two impressions and up to four served,
recorded or not. The wallet has two foci: two trips, of which the first may be settled in cash, by
MoMo or both and the second by MoMo, so that repayments of two trips meet (a second trip in cash
adds only what the first can owe); or one such trip beside a top-up. The proofs have neither
bound. `refs_width` takes width 1, where 10 follows 9
as 10000 follows 9999.

Bounds named in the models: `MaxFaults`, `MaxTime`, `MaxStalls`, `MaxCrashes`, `Attempts` (the
code's own), `MaxCancels`, `MaxPeople`, `MaxPerSweep` (the code's, 40), `MaxQuotes`,
`MaxBlockers`, `MaxPerRun`, `MaxNumber`, `Longest` (characters of a number: 3, and 2 in
`refs_width`), `MaxHours`, `MaxFreight`, `MaxAllocations`,
`MaxAttempts` (the code's), `MaxRows`, `MaxServed`, and the sizes of the sets. A bound on rows
stops a creation, never a step of a request under way that writes an existing row.

Deadlock is not checked: requests are finite in number or may stop being made, and the system may
then stand still.

## Fairness

- `OutboxPublisher`: weak fairness of each pass: `setInterval` keeps firing and the event loop
  resumes an awaiting pass. Faults are never forced.
- `EventDispatch`: weak fairness of a worker's step and of the stalled check for a job whose
  lock has no owner; strong fairness of taking a job, because BullMQ's wait list is first in,
  first out: jobs delivered again and again do not keep a waiting one from its turn. The
  pipeline has finitely many jobs and needs no strong fairness.
- `PaymentCorridor`, `QualityGate`: weak fairness of the event handlers, which is what
  `CommittedIsApplied` gives, and of requests that are under way. Nobody is forced to upload,
  verify, inspect or cancel. `SettledReachesTrade` holds with one clerk, where no handler refuses
  for ever; `FailureBlocks` ends in "or another inspection is the latest".
- The desks and the rides have no fairness: their properties are safety.

## Proofs

Each `…Proofs` module proves an inductive invariant by one step per action and derives from it
what the runs check on instances. The invariants say what a request *knows*: what it has read still
holds when it writes, or what it writes is safe although it does not.

The bus.
- `OutboxPublisherProofs`: `ClaimInv` and `NothingLost`. That an event is added at most once is not inductive: one
  must know that an added event is claimed and nobody holds it any more, that a held event is
  claimed and that it has one holder. The claim row (primary key) is what makes the holder unique.
  That no marked row is lost before the first fault needs more: a claim is then an event added or
  about to be, and a pass that marks a row does so because it is claimed (`ExactlyOnce`).
- `EventDispatchProofs`: `DispatchInv`: the claim and the work commit together; a worker's
  position in the loop says what became of the bindings before it; an attempt counts only after
  all bindings ran; a lock belongs to an active job. From it, that nothing is skipped (no silent
  drop, no starved sibling), and `Refinement`: every step is a step of `EventDelivery` or a stutter
  (`CommitWork` is `Apply`, the first `Deliver` is `Commit`).
- `EventPipelineProofs`: `PipelineRefines`: publisher and dispatcher over one queue implement the
  same abstract bus, now with the rows that business transactions committed as its committed events
  (`Enqueue` is `Commit`). `PipelineInv` follows an event through the system: what a pass read from
  the outbox, what Redis holds as a job and what a worker runs was committed.
  `PartsOfTheWhole`: the pipeline also implements the publisher and the dispatcher, each with the
  other's steps as stutters, except that the publisher's `queue.add` *is* the dispatcher's first
  delivery. Their theorems are then taken from their own proof modules through `INSTANCE`, and
  `NothingLostNorDoubled` joins them: a row published without a fault was added (publisher), and
  what was added and is gone was applied once by each subscriber (dispatcher). With
  `PipelineRefines` this is `BusDelivers`.

Money, trade and inspections.
- `PaymentCorridorProofs`: `CorridorInv`: whatever a request has read, an event carries, a handler
  holds or the projection shows is within what finance settled (`Backed`), which only grows.
  `ReleaseNeverEarly` follows because a fraction of 10/10 needs the whole schedule
  (`FullMeansAll`). This is why the gates stay shut under every race that delays them. `PartsSumUp`:
  the installments of an amount sum to it, and none is below its share. `BookedInv` gives
  `SettledByFullPayment` for any number of clerks: the payment that an event names is not uploaded
  anew, so the event of a settled installment goes on naming a payment of the full amount.
  Three theorems assume one clerk, or one process, because two break them (divergences 2, 4
  and 5): `VerifiedOnce`, where the one verification under way finds its installment unsettled
  (`Untouched`); `PaidInFullReleases`, whose `CaughtUp` is that the invoice is paid once all is
  settled and some event tells the whole fraction, and whose `OneProcessInv` is that the projection
  has what every handled event says; and `NeverGoesBack`, which no run has.
  `Reverses` (`ReversalNeverLost`): the handler of a cancellation reads the invoice without a lock
  and commits later, so an accrual may commit in between and stay (divergence 6). What is promised
  is that a reversal that is due (`ReversalDue`: a cancellation is still to be read, or was read
  with the commission there) stays due until the clawback is booked. It needs that an accrual has
  its invoice (`Invoiced`), so that a read that comes after it finds it, and that the handler whose
  clawback is refused rolls back, which leaves its event to come again.
- The same module, on `OrderToDelivery`: `GoodsFollow`. The projection is within what finance
  settled (`ShownIsHeld`, from `Backed`) and what is held grows (`HeldGrows`); so each step of the
  money is a payment or a stutter of the ideal warehouse, and each step of the real warehouse, whose
  gates open later or shut again, is one of the ideal's. `MoneyThenGoods` instantiates `CargoProofs`
  with the ideal warehouse: what sails or was handed over had its gates open on finance's own
  invoices, and by `FullySettled` a payment of the full amount lies behind each of the installments.
- `CargoProofs`: in the warehouse, a gate that was read open stays open: `NoWorse` says that no
  action withdraws a release, lowers a payment, takes a destination away or puts a hold on a
  received package, so what a request read still holds when it writes (`RequestInv`).
- `RegisterProofs`, on sourcing: of deals, that every row and every request claims no more than the append-only ledger holds (`RowsBacked`,
  `RequestsBacked`), which makes the ledger properties inductive. Of bank accounts, that the
  approvals a request counted belong to different people, none the requester.
- `DeskProofs`, on the quality gate: `CaptureOnce` from the unique column alone; `LatestRules` under
  the assumption `InOrder`, from "the handled events are a prefix" and "the projection shows the
  last of them".

The desks.
- `DeskProofs`, by desk. Triage: a signal somebody decided stands as they left it, and no run that
  listed it before is still asking about it, unless one had it in hand at that moment (`WordStands`).
  Intake: no step rewrites a signal that is filed, from the types and the unique key alone
  (`FiledOnce`). UZA ID: with one merger, the links a merge has listed are still the loser's when it
  moves them (`ListStands`), since nothing but a merge moves a link; the assumption is there because
  two mergers drop links (divergence 19). The week: of a person whose calls never overlapped, one is
  under way at most, and the plan is as it read it (`OneCallAbout`, `SeenHolds`). Quotations: the
  same of each row (`Calm`), and a count: a revision adds one live version and takes one, a build
  adds one live version and one line (a version is never above the number of its row, so that
  versions stay in their range). Refs: a creation that overlaps no other is the only one, and the number
  it computed is free, or has outgrown the width (`AloneIsFree`).
  The last needs that padded strings are ordered like their numbers as long as they fit
  (`StringsOrdered`) and that the newest of them exists (`LastExists`). Where a textbook would use
  induction, these proofs take a least or greatest element of a finite set of counterexamples
  (`LeastExists`, `GreatestExists`): so is `PowersGrow` proved of the recursive function `Room`.
- `RegisterProofs`: that the filters of four kinds of lists select what the read rule allows, for
  every actor and row; `PlanInv` (what a request is about to write, merged into the row as it is
  *now*, satisfies the rules: it writes every field a rule relates to those it was given);
  `GrantInv` (a request's target has its predecessor in the history of the grant, which only
  grows); `FreightInv` (packages only leave a container, so the orders of two requests are nested,
  and the unique key then lets one whole set of rows in or none); `ScoreInv` (the claim key gives
  one ledger row per receipt); `AcademyInv` (what a request found, modules that the learner
  completed or that were shown to them, and a pass, stays in the history, and undisturbed requests
  are one at a time).
  Two of them are about sums. `SharesSumUp`: the rows of an allocation sum to the bill it read,
  because the last order takes the remainder (`AllocationExact`) and rows stay as one transaction
  wrote them. `NeverTwice`: the score is never below its start less the penalty of every receipt
  processed, which is the bound `OverFloor` keeps although crossing receipts lose updates. The sum of
  the library is a fold, which the prover cannot unfold; the lemmas from `Units` to `SameSum` show
  that a sum of natural numbers counts the cells under its graph, and derive from counting how it
  grows by one element.

UZA Move.
- `RideProofs`: the arithmetic of the fare (a split loses no franc; a quote, a sweep and a
  settlement stay within what is there; a payout adds up), and of a trip: `LedgerInv` (a fee is
  posted before its payout, a credit at most once, because the ledger's key is type and reference),
  `Unclaimed` (a call that will claim the trip finds it without a driver: the claim is a
  conditional update), `MoneyInv` (paid, or about to credit a MoMo fare, implies a collection that
  succeeded); of ads, that what calls in flight will bill is covered by what they served, and
  that a call which bills by impressions saw budget left. Of the
  wallet: its types, which hold in every interleaving (no installment records more than its amount),
  and `SolventAlone`: calls which never overlap and never die half way overdraw a driver by second
  commissions alone (`DoubleCommission`: of a trip settled in cash and again by MoMo, whose fare
  is credited once and whose commission is owed and deducted, divergence 30). `SolventInv` is that
  what the call under way is about to take is there (`TakesWhatIsThere`), and that a trip that is
  credited has its commission, or a call that is about to take it (`CommissionFollows`): a callback
  that comes again would otherwise take a first commission from a balance without the fare. `InOrder` (`RepaidInOrder`) has no such condition:
  `TakenInv` says that an installment was deducted exactly when the ledger has its row, once
  because the row is unique, and that the rows of earlier installments are there, because a
  repayment goes on only after the deduction, and a repeated one finds the row.

Assumptions are the named `ASSUME`s of the component modules: functions have the domains their
names say, null references are not references, bounds are natural numbers, rates are at most the
whole, sets that are counted or summed over are finite. No theorem assumes a property of a model's
operators; those are lemmas. Types are proved for every component, and are not checked by runs; a type theorem
is listed where it says more than types.

Only model-checked:
- liveness (`PendingIsDrained`, `JobSettles`, `CommittedIsApplied`, `SettledReachesTrade`,
  `FailureBlocks`), because fairness and ENABLED are outside the prover;
- no other property of a passing run. Where a theorem has a hypothesis (one clerk or one process in
  `corridor_sequential`, events in order in `quality_ordered`, one merger in `desks_registers`), its
  run has it too, and the divergences say what happens without it.

## Divergences

Where the code does not do what its own words say, or two calls leave what neither meant. The
runs that end in a violation show four of them (bold); the others were found by giving TLC the
stated rule as an invariant (*TLC*), or by reading. Several rules that the code breaks stay in the
modules as definitions no run has: `RejectedSettledNothing`, `ProjectionNeverRegresses`,
`CancellationClawsBack`, `ClosedStaysClosed`, `ResolvedIsLive`, `NothingSkipped`,
`PaidFromSavings`. Adding one to the cfg of its module's run shows the trace.

Events and money:
1. **A published row may never have been queued** (`publisher_lost`). `processOutboxEvent`
   commits the claim before it adds the job, and a later pass takes the claim for success
   (`outbox-processor.ts:22`).
2. **Full payment may never release** (`corridor_stuck`). Two verifications of different
   installments each miss the other's under READ COMMITTED (`payment.service.ts:178`); the invoice
   stays `part_paid`.
3. A rejection overwrites a verification that commits in between: a rejected payment has settled
   an installment (`payment.service.ts:235`, `:243`). TLC: `RejectedSettledNothing`, two clerks.
4. Two verifications settle one installment twice (`payment.service.ts:122-123`, `:163`). TLC:
   `SettledOnce` with two clerks.
5. Two processes may write the projection from old reads, and it goes back
   (`order-payment.service.ts:41-45`). TLC: `ProjectionNeverRegresses` with two processes.
6. A cancellation handled before the deposit is verified, or before the invoice exists, claws
   nothing back, ever (`commission.service.ts:78`); nor does one whose handler has read the invoice
   (`:76`, no lock) when a verification commits the accrual, before the handler commits (`:133`).
   TLC: `CancellationClawsBack`. (What a cancellation finds accrued is taken back:
   `ReversalNeverLost`.) A confirmation
   handled after the cancellation makes procurement of the cancelled order active again
   (`order.service.ts:209`); no document says what should happen.

Quality and goods:

7. **The gate keeps an older result when events are reordered** (`quality_reordered`).
8. A CAPA draft that was read open reopens a CAPA closed since (`capa.service.ts:32-38`). TLC:
   `ClosedStaysClosed` with two users. Closing accepts any other passing inspection, one of
   another order or an earlier one too (`capa.service.ts:57-71`), and an open CAPA does not keep
   the warehouse from releasing (`inspection.service.ts:165-166`).
9. `qcRelease` reads the outcome before it writes, and never withdraws a release
   (`release.service.ts:63-65`).
10. `createShipment` takes packages that are on a shipment already (`container.service.ts:180`),
    though `release.service.ts:93-95` speaks of packages not yet on one. TLC.
11. `allocateDestination` also moves booked packages away from their container's destination
    (CF-018, `container.service.ts:127`, `release.service.ts:84`). TLC.
12. `deliver` does not ask whether the packages are on the shipment (`delivery.service.ts:60`);
    `delayShipment` sets `delayed` on a delivered one.
13. The remainder of a freight allocation goes to the last order: with four orders or more it can
    be negative by a minor unit. A corrected bill leaves the rows of the old one, although "the
    rows sum EXACTLY to freightPaidMinor" (`schema.prisma:1315`).

Sourcing and finance:

14. The balance of a deal can become due although its latest inspection did not pass, when the
    inspection is recorded between the read and the write (`supplier-deal.service.ts:200`, `:208`;
    the comment at `:38` calls `markBalanceDue` the gate). TLC. The *payment* still has a passed
    inspection before it (`MoneyFollowsInspection`).
15. Accept and decline of an offer race (`supplier-offer.service.ts:153`); an offer can have
    several deals; a unit cheaper than its booking fee gives a negative balance
    (`supplier-deal.service.ts:113`).
16. Two approvers of a bank change who count in their own transactions each see one approval and
    the change stays pending; a third who raced may apply an older change again
    (`supplier-bank.service.ts:85`). `FourEyes` holds in all of these traces.
17. Two crossing receipts leave two ledger rows with one `previousScore`, and the score lacks a
    penalty, although it "is only ever the running total these rows produce"
    (`schema.prisma:506`). TLC.

Registers:

18. A merged ID can answer with a person who was merged away: merge does not look at the winner's
    tombstone and `follow` goes one step (`uza-id.service.ts:194`, `:243`). TLC: `ResolvedIsLive`.
19. Two merges of one loser at once can drop its links (`uza-id.service.ts:199-207`). TLC:
    `LinkFollowsPerson` with two mergers. Filling a key, and giving the winner the keys read before
    the transaction, can overwrite a key set meanwhile (`:114-118`, `:218`).
20. Signals are skipped: the watermark is the time of the newest filing of any source, so what a
    full page, a failed source or a failed sweep left behind is older than it
    (`intake.service.ts:70`). TLC: `NothingSkipped`.
21. A triage run takes back what a person decided after it read the signal as new
    (`triage.service.ts:124`), and `dismiss` accepts a promoted signal. TLC.
22. Approving a quotation while it is revised makes a superseded version approved; two revisions
    leave two live versions (`quotation.service.ts:135`); two `closeCosts` lose one's actuals
    (`:166`). TLC.
23. Minutes posted while the person confirms turn the plan back into a draft, and overwrite the
    highlights of a report (`week.service.ts:115-116`). TLC.
24. **Refs stop at the width** (`refs_width`): after 9999 the newest string stays 9999 and every
    creation is given 10000 (`next-sequence.ts:84`).
25. A stale advance takes a closed grant back to rejected, although "a status cannot skip a stage
    or move backwards silently" (`grant.service.ts:48-49`). TLC. It never skips one
    (`NoStageSkipped`).
26. `decision.defer` has no guard against an answered decision (`decision.service.ts:111-128`),
    although its sibling says "was already answered — raise a new one instead".
27. Two clarifications of one lead create two requests; two `assignRole` calls leave two open
    assignments; two `markRead` of a memo lose one reader.

uza-move (under `src/frontend/uza-move/src/lib`):

28. `setTripStatus` reads the status and its update names the trip only, so a cancellation
    overtakes `startTrip` or `completeTrip`, although "A started or finished trip can never be
    cancelled — the money is already in play" (`trips.functions.ts:295`, `:322`). TLC. A trip
    cancelled and then completed has commission 0; `startTrip` restarts a closed one.
29. An exclusive offer (`dispatch.server.ts:4`) is broken when the offer moves on between the read
    and the claim of `acceptTrip`. TLC. The trip still has one driver (`ClaimedOnce`).
30. Cash collected, then MoMo (`trips.functions.ts:463`, `:483-513`): the credit is swallowed by the
    ledger key, and the commission is deducted beside the one that is owed, so the wallet is
    overdrawn with no overlap and no crash; `UndisturbedIsSolvent` bounds it by `DoubleCommission`.
    A rider may pay twice: the second collection succeeds too. TLC.
31. A crash between the claim and the credit, or between the credit and the commission, is never
    made up for: the retry sees "already paid". The same for a top-up.
32. A second cash-out's settlement is swallowed by its constant reference
    (`wallet.functions.ts:195`); racing cash-outs, sweeps and settlements overdraw the wallet
    (`:213`, `uza.server.ts:50-51`). TLC: `UndisturbedIsSolvent` without its condition.
33. The second deduction of a partly paid installment is no new ledger row, but is recorded as
    paid (`uza.server.ts:161`, `:188`). TLC: `PaidFromSavings`. A failed update of the installment is not looked at (`:191-204`):
    it was deducted and is not recorded as paid. Two repayments lose all but the last
    change of the loan's outstanding sum.
34. The debt of a cancellation fee is "cleared on next top-up" (`trips.functions.ts:350`); no
    top-up does.
35. `spent` of a campaign loses updates (`ads.functions.ts:228`); an impression or a click whose row
    could not be inserted is billed all the same (`:219-225`, `:270-281`: no error is looked at), so
    a campaign can be billed for more than its rows; an advertiser can resume a
    campaign that was never approved (`:159-176`), a click does not look at the budget. TLC.
36. `rateTrip` recounts a driver's rating by read, modify and write (`trips.functions.ts:532-581`);
    a tariff's minimum fare that is no multiple of the step is rounded below itself.

empower-academy:

37. The attempts exceed the maximum when two are submitted at once, or when counting them fails: a
    missing count is taken for 0 (`academy.functions.ts:112`). TLC: `EarnedOnce` without its
    condition.
38. A second certificate is issued by two requests at once, or when looking the first up fails. From
    then on the lookup of a single row fails, its error is not looked at, and every later call adds
    another and shows none. TLC.
39. Merging a device's progress ignores a failed write and then clears the device.
40. "Issues the certificate only when every core module is complete" (`academy.functions.ts:237`),
    but module progress is queried without the user (`:255-258`), and the row policies
    (`20260902110417_….sql:318-321`) show other learners' rows to staff, facilitators and sponsoring
    partners: their certificate can rest on modules others completed. TLC: `EarnedOnce` without
    `everShown`.

Elsewhere:

41. A merged person's lender consent stays with the loser.
42. Granting a lender's consent again clears when it was withdrawn, although "the record still
    shows that consent existed and when it ended".

## Modelling notes

- A handler or request that throws before its commit leaves no row, so it is a step that is not
  enabled, or an action that only ends the call; a unique violation aborts and the caller is
  answered.
- The trade handler is one step: its guard and its writes are in one transaction on rows only it
  writes. Logistics' handler is two, because its read is outside.
- Row locks matter in `verify` only: `Locks`/`Free` keep two transactions from the same rows.
  In `SupplierScore` the unique index plays the part: an insert waits for a transaction that holds
  the key.
- `recordPayout` is left out: it adds a payout row to the ledger without reading any, and no
  modelled step reads payouts.
- A transition of a deal without a clientRequestId is one with a key nobody else has. A
  reference number that collides aborts the transaction on the primary key.
- `UzaId`: the two reads of merge are one step, since a difference between them can only abort
  or is reached by an earlier read. `link` is one step: what its read guards, the unique column
  refuses.
- `Intake`: a source lists what is strictly newer than the watermark, Gmail what is not older in
  whole seconds; git and the transcripts are like the folder. A source that fails lists nothing.
- `Cargo`'s `paid` is what was settled, 1 at pre-loading and 2 in full. The projection that the
  gates read may lag behind it or go back (divergence 5), which only shuts a gate that could be
  open: `OrderToDelivery` has both, and `GoodsFollow` proves it. Its `Shown` lets full payment open
  the pre-loading gate as well, which the code does only once the event of that installment came.
- `Week`: writing the minutes is one step; owning a blocker is left out, no other step reads it.
- `AccessScope`: references are not empty strings, which the predicate takes for absent keys.
- `RideTrip`, `RideWallet`, `RideAds`: calls interleave between any two statements and may die
  after each. Times are left out: a window may be over at any moment. That a write fails, its
  `error` is not looked at and the call goes on is modelled where what follows depends on it: the
  rows and the spending of ads, the mark of an installment, and in `Academy` the two queries whose
  error counts as "none" (`OverlooksError`). In `RideTrip` it is not modelled.
- `Academy`: of the certificates' columns `certificate_id` is unique and `user_id` is not
  (`20260902110417_….sql:255`). `shown` is any set of modules at any time: roles, sponsorships and
  other learners' progress are not modelled; to a plain learner it is always empty.
- Amounts are fractions in tenths (payment schedules), small integers (rides, freight, scores) or
  left out; grades of an inspection come from its thresholds with small numbers of defects.

## Plan

Done: the bus, corridor, quality, warehouse, sourcing, UZA ID and intake first; then quotations,
the week, triage, planning, grants and object scope, freight, scores, refs, uza-move and the
academy, with their proofs; a theorem for each safety property of the passing runs.

What is left, in the order of what it would add:
1. A proof of `CancellationClawsBack`, which no run has, when events keep their order.
2. Decisions, funding and memos as further components of `DesksMC` behind `focus`; RFQ award and
   purchase orders; consent and lender disclosure in `UzaId`.
3. `order.create` reading the approved quotation, as a composition of `Quotation` and
   `PaymentCorridor`; the freight allocation after `OrderToDelivery`'s bookings; `QualityGate`'s
   projection as the inspection outcome of `Cargo`.
4. The margin ladder of a quotation, as functions over bounded amounts.
