-------------------------- MODULE OutboxPublisher --------------------------
(***************************************************************************)
(* The transactional outbox and its publisher: OutboxService.enqueue,      *)
(* drainOutbox, processOutboxEvent and the setInterval loop of the worker. *)
(*                                                                         *)
(* A pass is one call of drainOutbox.  setInterval does not wait for the   *)
(* previous pass, and the API process may run the same loop, so any number *)
(* of passes may be in flight.  Every await of a pass is a step boundary.  *)
(*                                                                         *)
(* The BullMQ queue is external; the publisher only sees queue.add, which  *)
(* does nothing when a job with the same jobId (= eventId) exists.         *)
(***************************************************************************)
EXTENDS Naturals, FiniteSets

CONSTANTS
  Events,      \* eventIds that may ever be written to the outbox
  Passes,      \* drainOutbox calls that may be in flight at the same time
  BatchSize,   \* the `take` of the findMany (100 in the code)
  MaxTime,     \* bound: createdAt timestamps are 1..MaxTime
  MaxFaults    \* bound: database errors, Redis errors and crashes

ASSUME PublisherAssumption ==
  /\ IsFiniteSet(Events)
  /\ BatchSize \in Nat \ {0}
  /\ MaxTime \in Nat \ {0}
  /\ MaxFaults \in Nat

VARIABLES
  row,        \* OutboxEvent.status per event; "none" before its transaction commits
  createdAt,  \* OutboxEvent.createdAt; events of one transaction share it
  attempts,   \* OutboxEvent.attempts
  claimed,    \* events with a ProcessedEvent row for 'outbox-publisher'
  pc,         \* where each pass is suspended
  batch,      \* rows of the pass's findMany result still ahead of it
  cur,        \* the row each pass is working on
  job,        \* BullMQ's view of each jobId
  adds,       \* history: queue.add calls that reached Redis
  faults      \* faults so far, bounded by MaxFaults

pubOnly == <<row, createdAt, attempts, claimed, pc, batch, cur, adds, faults>>
vars == <<pubOnly, job>>

NoEvent == "no event"
RowStatus == {"none", "pending", "published"}
JobStatus == {"absent", "waiting", "active", "failed"}
PassPC == {"idle", "claim", "enqueue", "mark", "record"}

\* Mutant: the query gives up on a row that failed once.
PendingUntried == {e \in Events : row[e] = "pending" /\ attempts[e] = 0}

\* where: { status: 'pending' }
Pending == {e \in Events : row[e] = "pending"}

TypeOK ==
  /\ row \in [Events -> RowStatus]
  /\ createdAt \in [Events -> 0..MaxTime]
  /\ attempts \in [Events -> Nat]
  /\ claimed \subseteq Events
  /\ pc \in [Passes -> PassPC]
  /\ batch \in [Passes -> SUBSET Events]
  /\ cur \in [Passes -> Events \cup {NoEvent}]
  /\ \A p \in Passes : pc[p] \in {"enqueue", "mark", "record"} => cur[p] \in Events
  /\ job \in [Events -> JobStatus]
  /\ adds \in [Events -> Nat]
  /\ faults \in 0..MaxFaults

Init ==
  /\ row = [e \in Events |-> "none"]
  /\ createdAt = [e \in Events |-> 0]
  /\ attempts = [e \in Events |-> 0]
  /\ claimed = {}
  /\ pc = [p \in Passes |-> "idle"]
  /\ batch = [p \in Passes |-> {}]
  /\ cur = [p \in Passes |-> NoEvent]
  /\ job = [e \in Events |-> "absent"]
  /\ adds = [e \in Events |-> 0]
  /\ faults = 0

----------------------------------------------------------------------------
(* Producer: a business transaction commits its event with its change.     *)
(* createdAt is taken inside the transaction, and transactions overlap: a  *)
(* row may appear with an older timestamp than, or the same one as, rows   *)
(* that are already visible.                                               *)
Enqueue(e) ==
  /\ row[e] = "none"
  /\ row' = [row EXCEPT ![e] = "pending"]
  /\ \E t \in 1..MaxTime : createdAt' = [createdAt EXCEPT ![e] = t]
  /\ UNCHANGED <<attempts, claimed, pc, batch, cur, job, adds, faults>>

----------------------------------------------------------------------------
(* drainOutbox                                                             *)

\* findMany(where pending, orderBy createdAt asc, take BatchSize): an oldest
\* part of the pending rows; the order among equal timestamps is open.
OldestBatch(B) ==
  /\ B \subseteq Pending
  /\ Cardinality(B) <= BatchSize
  /\ Cardinality(B) < BatchSize => B = Pending
  /\ \A e \in B, f \in Pending \ B : createdAt[e] <= createdAt[f]

\* The timer fires and the pass reads its batch.
StartPass(p) ==
  /\ pc[p] = "idle"
  /\ \E B \in SUBSET Pending :
       /\ OldestBatch(B)
       /\ B # {}
       /\ batch' = [batch EXCEPT ![p] = B]
  /\ pc' = [pc EXCEPT ![p] = "claim"]
  /\ UNCHANGED <<row, createdAt, attempts, claimed, cur, job, adds, faults>>

\* The loop moves on to the next row of the batch, or the pass ends.
NextRow(p) ==
  /\ pc' = [pc EXCEPT ![p] = IF batch[p] = {} THEN "idle" ELSE "claim"]
  /\ cur' = [cur EXCEPT ![p] = NoEvent]

\* The for loop takes the rows of a batch in createdAt order.
TakeRow(p, e) ==
  /\ pc[p] = "claim"
  /\ e \in batch[p]
  /\ \A f \in batch[p] : createdAt[e] <= createdAt[f]
  /\ batch' = [batch EXCEPT ![p] = @ \ {e}]
  /\ cur' = [cur EXCEPT ![p] = e]

\* Mutant: no unique constraint on (eventId, consumer).
NoUniqueClaim(e) == "enqueue"

\* processOutboxEvent inserts the ProcessedEvent row before the handler runs;
\* a unique violation means 'skipped', which drainOutbox treats as success.
AfterClaim(e) == IF e \in claimed THEN "mark" ELSE "enqueue"

\* One iteration of the loop up to the claim's commit.
Claim(p) ==
  /\ \E e \in Events :
       /\ TakeRow(p, e)
       /\ pc' = [pc EXCEPT ![p] = AfterClaim(e)]
       /\ claimed' = claimed \cup {e}
  /\ UNCHANGED <<row, createdAt, attempts, job, adds, faults>>

\* queue.add reached Redis.
AddJob(e) ==
  /\ job' = [job EXCEPT ![e] = IF @ = "absent" THEN "waiting" ELSE @]
  /\ adds' = [adds EXCEPT ![e] = @ + 1]

\* The handler: queue.add(envelope, {jobId: eventId}).
EnqueueToBus(p) ==
  /\ pc[p] = "enqueue"
  /\ AddJob(cur[p])
  /\ pc' = [pc EXCEPT ![p] = "mark"]
  /\ UNCHANGED <<row, createdAt, attempts, claimed, batch, cur, faults>>

\* outboxEvent.update status 'published'.
MarkPublished(p) ==
  /\ pc[p] = "mark"
  /\ row' = [row EXCEPT ![cur[p]] = "published"]
  /\ NextRow(p)
  /\ UNCHANGED <<createdAt, attempts, claimed, batch, job, adds, faults>>

\* The catch block: attempts + 1, lastError; the row keeps its status.
RecordFailure(p) ==
  /\ pc[p] = "record"
  /\ attempts' = [attempts EXCEPT ![cur[p]] = @ + 1]
  /\ NextRow(p)
  /\ UNCHANGED <<row, createdAt, claimed, batch, job, adds, faults>>

----------------------------------------------------------------------------
(* Faults                                                                  *)
Fault ==
  /\ faults < MaxFaults
  /\ faults' = faults + 1

\* The claim insert fails with something other than a unique violation.
ClaimFails(p) ==
  /\ Fault
  /\ \E e \in Events : TakeRow(p, e)
  /\ pc' = [pc EXCEPT ![p] = "record"]
  /\ UNCHANGED <<row, createdAt, attempts, claimed, job, adds>>

\* queue.add throws: before Redis stored the job, or after it.
EnqueueFails(p) ==
  /\ Fault
  /\ pc[p] = "enqueue"
  /\ AddJob(cur[p]) \/ UNCHANGED <<job, adds>>
  /\ pc' = [pc EXCEPT ![p] = "record"]
  /\ UNCHANGED <<row, createdAt, attempts, claimed, batch, cur>>

\* The update to 'published' throws; the same catch block records it.
MarkFails(p) ==
  /\ Fault
  /\ pc[p] = "mark"
  /\ pc' = [pc EXCEPT ![p] = "record"]
  /\ UNCHANGED <<row, createdAt, attempts, claimed, batch, cur, job, adds>>

\* The process dies, or the catch block's own update throws and drainOutbox
\* rejects: the pass is gone, and what it committed stays.
Crash(p) ==
  /\ Fault
  /\ pc[p] # "idle"
  /\ pc' = [pc EXCEPT ![p] = "idle"]
  /\ batch' = [batch EXCEPT ![p] = {}]
  /\ cur' = [cur EXCEPT ![p] = NoEvent]
  /\ UNCHANGED <<row, createdAt, attempts, claimed, job, adds>>

----------------------------------------------------------------------------
PassStep(p) ==
  StartPass(p) \/ Claim(p) \/ EnqueueToBus(p) \/ MarkPublished(p) \/ RecordFailure(p)

PassFault(p) ==
  ClaimFails(p) \/ EnqueueFails(p) \/ MarkFails(p) \/ Crash(p)

\* Steps of this component.
PublisherNext ==
  \/ \E e \in Events : Enqueue(e)
  \/ \E p \in Passes : PassStep(p) \/ PassFault(p)

\* The consumer of the queue, seen from here: it takes, retries, removes
\* (removeOnComplete) or dead-letters (removeOnFail: false) a job.
ConsumeJob(e) ==
  /\ job[e] \in {"waiting", "active"}
  /\ \E s \in JobStatus \ {job[e]} : job' = [job EXCEPT ![e] = s]
  /\ UNCHANGED pubOnly

Next == PublisherNext \/ \E e \in Events : ConsumeJob(e)

\* The timer keeps firing and the event loop resumes every suspended pass.
PublisherFairness == \A p \in Passes : WF_vars(PassStep(p))

Spec == Init /\ [][Next]_vars
FairSpec == Spec /\ PublisherFairness

----------------------------------------------------------------------------
(* Properties                                                              *)

\* A pass that is about to add e to the queue; the claim makes it the only one.
Holds(p, e) == pc[p] = "enqueue" /\ cur[p] = e

\* What drainOutbox and the worker say of a published row: it was enqueued.
\* A pass that merely skipped may mark the row while the pass that holds the
\* claim is still adding it; apart from that, 'published' means 'enqueued'.
PublishedWasEnqueued ==
  \A e \in Events :
    row[e] = "published" => adds[e] = 1 \/ \E p \in Passes : Holds(p, e)

\* The worker's promise (worker/src/main.ts): the claim guarantees that a
\* committed event is handed to the queue at most once, whatever passes
\* overlap, fail, crash or are retried; and until something fails, a row
\* that some pass skipped and marked is one that another pass enqueues.
EnqueuedOnce ==
  /\ \A e \in Events : adds[e] <= 1
  /\ faults = 0 => PublishedWasEnqueued

\* The inductive form: an event added is claimed and held by nobody, a held
\* event is claimed, and it has one holder.
ClaimInv ==
  /\ \A e \in Events : adds[e] <= 1
  /\ \A e \in Events : adds[e] = 1 => e \in claimed /\ \A p \in Passes : ~Holds(p, e)
  /\ \A e \in Events, p \in Passes : Holds(p, e) => e \in claimed
  /\ \A e \in Events, p, q \in Passes : Holds(p, e) /\ Holds(q, e) => p = q

\* Until something fails, a claim is an event added or about to be, and only a
\* claimed event is marked.
NothingLost ==
  faults = 0 =>
    /\ \A e \in claimed : adds[e] = 1 \/ \E p \in Passes : Holds(p, e)
    /\ \A e \in Events : row[e] = "published" => e \in claimed
    /\ \A p \in Passes : pc[p] = "mark" => cur[p] \in claimed

\* A row never waits for ever: whatever faults occur, later passes reach it
\* past the batch limit and mark it (drainOutbox's loop and catch).
PendingIsDrained ==
  \A e \in Events : row[e] = "pending" ~> row[e] = "published"
============================================================================
