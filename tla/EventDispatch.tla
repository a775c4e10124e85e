--------------------------- MODULE EventDispatch ---------------------------
(***************************************************************************)
(* The consumer side of the event bus: the BullMQ worker of                *)
(* EventConsumerService, dispatchEnvelope, and the claim protocol that     *)
(* every bound handler follows (read ProcessedEvent; then, in one          *)
(* transaction, insert the ProcessedEvent row and do the work).            *)
(*                                                                         *)
(* BullMQ is external: a job is locked by the worker that took it, retried *)
(* while attempts are left, removed on success, kept when exhausted, and   *)
(* given to another worker when its lock expires, even though the first    *)
(* worker may still be running it.                                         *)
(***************************************************************************)
EXTENDS Naturals, Sequences, FiniteSets

CONSTANTS
  Events,      \* eventIds
  Consumers,   \* ProcessedEvent consumer keys
  Bindings,    \* the dispatch map: each event's consumers, in binding order
  Workers,     \* API processes running the consumer
  Attempts,    \* EVENT_JOB_OPTS.attempts (5 in the code)
  MaxStalls,   \* BullMQ's maxStalledCount (1 by default)
  MaxCrashes   \* bound: crashes of API processes

None == "none"   \* no worker, no job

ASSUME DispatchAssumption ==
  /\ None \notin Workers
  /\ Bindings \in [Events -> Seq(Consumers)]
  /\ Attempts \in Nat \ {0}
  /\ MaxStalls \in Nat
  /\ MaxCrashes \in Nat

VARIABLES
  job,        \* status of each jobId in the queue
  made,       \* attemptsMade of each job
  stalls,     \* how often each job's lock expired
  owner,      \* the worker whose lock a job is under
  delivered,  \* history: events some queue.add brought to the queue
  pc,         \* where each worker is suspended
  wjob,       \* the job each worker runs
  next,       \* the binding each worker has reached
  failed,     \* whether a binding of this run failed
  processed,  \* ProcessedEvent rows
  applied,    \* how often each handler's work was committed
  threw,      \* history: handlers that threw of their own accord
  crashes     \* crashes so far, bounded by MaxCrashes

workerVars == <<pc, wjob, next, failed>>
handlerVars == <<processed, applied, threw>>
queueVars == <<made, stalls, owner>>
dispatchOnly == <<queueVars, workerVars, handlerVars, crashes>>
vars == <<job, delivered, dispatchOnly>>

Deliveries == Events \X Consumers
Subscribers(e) == {Bindings[e][i] : i \in DOMAIN Bindings[e]}

TypeOK ==
  /\ job \in [Events -> {"absent", "waiting", "active", "failed"}]
  /\ made \in [Events -> 0..Attempts]
  /\ stalls \in [Events -> 0..MaxStalls + 1]
  /\ owner \in [Events -> Workers \cup {None}]
  /\ delivered \subseteq Events
  /\ pc \in [Workers -> {"idle", "read", "work"}]
  /\ wjob \in [Workers -> Events \cup {None}]
  /\ next \in [Workers -> Nat]
  /\ failed \in [Workers -> BOOLEAN]
  /\ processed \subseteq Deliveries
  /\ applied \in [Deliveries -> Nat]
  /\ threw \subseteq Deliveries
  /\ crashes \in 0..MaxCrashes
  /\ \A w \in Workers : pc[w] # "idle" => wjob[w] \in Events

Init ==
  /\ job = [e \in Events |-> "absent"]
  /\ made = [e \in Events |-> 0]
  /\ stalls = [e \in Events |-> 0]
  /\ owner = [e \in Events |-> None]
  /\ delivered = {}
  /\ pc = [w \in Workers |-> "idle"]
  /\ wjob = [w \in Workers |-> None]
  /\ next = [w \in Workers |-> 1]
  /\ failed = [w \in Workers |-> FALSE]
  /\ processed = {}
  /\ applied = [d \in Deliveries |-> 0]
  /\ threw = {}
  /\ crashes = 0

----------------------------------------------------------------------------
(* The queue                                                               *)

\* queue.add with jobId = eventId.  The publisher may call it again for an
\* event: it is ignored while a job of that id exists, and starts a new job
\* once the old one was removed.
Deliver(e) ==
  /\ job[e] = "absent"
  /\ job' = [job EXCEPT ![e] = "waiting"]
  /\ delivered' = delivered \cup {e}
  /\ UNCHANGED dispatchOnly

\* Only waiting jobs are handed out.
Available(e) == job[e] = "waiting"

\* An idle worker takes a waiting job under its lock.
TakeJob(w, e) ==
  /\ pc[w] = "idle"
  /\ Available(e)
  /\ job' = [job EXCEPT ![e] = "active"]
  /\ owner' = [owner EXCEPT ![e] = w]
  /\ pc' = [pc EXCEPT ![w] = "read"]
  /\ wjob' = [wjob EXCEPT ![w] = e]
  /\ next' = [next EXCEPT ![w] = 1]
  /\ failed' = [failed EXCEPT ![w] = FALSE]
  /\ UNCHANGED <<made, stalls, delivered, handlerVars, crashes>>

\* The lock of an active job expires: BullMQ puts it back, or fails it when
\* it stalled more than maxStalledCount times.
Stall(e) ==
  /\ job[e] = "active"
  /\ stalls' = [stalls EXCEPT ![e] = @ + 1]
  /\ job' = [job EXCEPT ![e] = IF stalls[e] < MaxStalls THEN "waiting" ELSE "failed"]
  /\ owner' = [owner EXCEPT ![e] = None]
  /\ UNCHANGED <<made, delivered, workerVars, handlerVars, crashes>>

\* No worker that holds the job's lock is running it.
Orphaned(e) == ~ \E w \in Workers : owner[e] = w /\ pc[w] # "idle" /\ wjob[w] = e

----------------------------------------------------------------------------
(* dispatchEnvelope: the for loop over the bindings                        *)

\* The loop has a binding to run, and which delivery that is.
Bound(w) == next[w] \in DOMAIN Bindings[wjob[w]]
Current(w) == <<wjob[w], Bindings[wjob[w]][next[w]]>>

\* Mutant: a failure is not collected.
FailureIgnored(w, ok) ==
  /\ pc' = [pc EXCEPT ![w] = "read"]
  /\ next' = [next EXCEPT ![w] = @ + 1]
  /\ UNCHANGED <<wjob, failed>>

\* The outcome is collected and the loop goes on.
NextBinding(w, ok) ==
  /\ pc' = [pc EXCEPT ![w] = "read"]
  /\ next' = [next EXCEPT ![w] = @ + 1]
  /\ failed' = [failed EXCEPT ![w] = @ \/ ~ok]
  /\ UNCHANGED wjob

\* The handler looks for its ProcessedEvent row, outside the transaction.
ReadClaim(w) ==
  /\ pc[w] = "read"
  /\ Bound(w)
  /\ \/ /\ Current(w) \in processed
        /\ NextBinding(w, TRUE)
     \/ /\ Current(w) \notin processed
        /\ pc' = [pc EXCEPT ![w] = "work"]
        /\ UNCHANGED <<wjob, next, failed>>
  /\ UNCHANGED <<job, delivered, queueVars, handlerVars, crashes>>

\* Mutant: the handler trusts the row it read outside the transaction.
TrustsRead(w) == FALSE

\* The unique constraint on (eventId, consumer).
UniqueViolation(w) == Current(w) \in processed

\* The transaction: claim and work commit together, unless another delivery
\* of the event inserted the row since, in which case all of it rolls back.
CommitWork(w) ==
  /\ pc[w] = "work"
  /\ \/ /\ UniqueViolation(w)
        /\ NextBinding(w, FALSE)
        /\ UNCHANGED <<processed, applied>>
     \/ /\ ~UniqueViolation(w)
        /\ processed' = processed \cup {Current(w)}
        /\ applied' = [applied EXCEPT ![Current(w)] = @ + 1]
        /\ NextBinding(w, TRUE)
  /\ UNCHANGED <<job, delivered, queueVars, threw, crashes>>

\* The handler throws (an aggregate that is not there yet, a database error):
\* its transaction rolls back and the loop goes on to the next binding.
HandlerThrows(w) ==
  /\ pc[w] = "work"
  /\ threw' = threw \cup {Current(w)}
  /\ NextBinding(w, FALSE)
  /\ UNCHANGED <<job, delivered, queueVars, processed, applied, crashes>>

\* Mutant: a retry that starts counting afresh.
AttemptNotCounted(e) == UNCHANGED made

\* BullMQ's retry policy under EVENT_JOB_OPTS.attempts.
AttemptsLeft(e) == made[e] + 1 < Attempts
CountAttempt(e) == made' = [made EXCEPT ![e] = @ + 1]

\* The end of the loop: EventDispatchError fails the attempt, otherwise the
\* job is done.  A worker that lost the lock changes nothing.
FinishJob(w) ==
  LET e == wjob[w] IN
  /\ pc[w] = "read"
  /\ ~Bound(w)
  /\ pc' = [pc EXCEPT ![w] = "idle"]
  /\ wjob' = [wjob EXCEPT ![w] = None]
  /\ \/ /\ owner[e] # w
        /\ UNCHANGED <<job, queueVars>>
     \/ /\ owner[e] = w /\ ~failed[w]
        /\ job' = [job EXCEPT ![e] = "absent"]
        /\ made' = [made EXCEPT ![e] = 0]
        /\ stalls' = [stalls EXCEPT ![e] = 0]
        /\ owner' = [owner EXCEPT ![e] = None]
     \/ /\ owner[e] = w /\ failed[w]
        /\ CountAttempt(e)
        /\ job' = [job EXCEPT ![e] = IF AttemptsLeft(e) THEN "waiting" ELSE "failed"]
        /\ owner' = [owner EXCEPT ![e] = None]
        /\ UNCHANGED stalls
  /\ UNCHANGED <<delivered, next, failed, handlerVars, crashes>>

\* The API process dies; the job stays active until its lock expires.
WorkerCrash(w) ==
  /\ crashes < MaxCrashes
  /\ pc[w] # "idle"
  /\ crashes' = crashes + 1
  /\ pc' = [pc EXCEPT ![w] = "idle"]
  /\ wjob' = [wjob EXCEPT ![w] = None]
  /\ UNCHANGED <<job, delivered, queueVars, next, failed, handlerVars>>

----------------------------------------------------------------------------
\* What an uninterrupted worker does.
WorkerStep(w) ==
  \/ \E e \in Events : TakeJob(w, e)
  \/ ReadClaim(w) \/ CommitWork(w) \/ HandlerThrows(w) \/ FinishJob(w)

\* Steps of this component; Deliver is the publisher's.
DispatchNext ==
  \/ \E w \in Workers : WorkerStep(w) \/ WorkerCrash(w)
  \/ \E e \in Events : Stall(e)

Next == DispatchNext \/ \E e \in Events : Deliver(e)

\* A worker runs while it has work, the wait list is first in first out (other
\* jobs delivered again and again do not keep a waiting one from being taken),
\* and BullMQ's stalled check recovers a job whose worker is gone.
DispatchFairness ==
  /\ \A w \in Workers : WF_vars(WorkerStep(w))
  /\ \A e \in Events : SF_vars(\E w \in Workers : TakeJob(w, e))
  /\ \A e \in Events : WF_vars(Stall(e) /\ Orphaned(e))

Spec == Init /\ [][Next]_vars
FairSpec == Spec /\ DispatchFairness

----------------------------------------------------------------------------
(* Properties                                                              *)

\* dispatch-map.ts, worker/src/main.ts: a redelivered job, a retry or two
\* workers on one job never run a handler's work twice.
AppliedAtMostOnce == \A d \in Deliveries : applied[d] <= 1

\* event-bus.constants.ts: "a failure is never silently dropped".  An event
\* that reached the queue and has no job left was applied by every consumer
\* bound to it, however many attempts, stalls and crashes it took.
NeverSilentlyDropped ==
  \A e \in delivered :
    job[e] = "absent" => \A c \in Subscribers(e) : <<e, c>> \in processed

\* dispatchEnvelope's comment: a fault in one consumer does not starve its
\* siblings.  When the attempts of a job are used up, every binding has either
\* done its work or thrown on its own account.
SiblingsNotStarved ==
  \A e \in Events :
    made[e] = Attempts =>
      \A c \in Subscribers(e) : <<e, c>> \in processed \cup threw

\* What a job that is gone, or out of attempts, has behind it: no failure is dropped
\* and none keeps a sibling from its turn.
EveryBindingTried == NeverSilentlyDropped /\ SiblingsNotStarved

\* The retry policy ends: a job that entered the queue is applied by all its
\* consumers or is kept in the failed set.
JobSettles ==
  \A e \in Events :
    job[e] = "waiting" ~>
      (job[e] = "failed" \/ \A c \in Subscribers(e) : <<e, c>> \in processed)

\* The abstract bus, with the events brought to the queue as the committed ones.
Delivery == INSTANCE EventDelivery WITH committed <- delivered

DeliveryRefined == Delivery!Spec

----------------------------------------------------------------------------
(* The inductive invariant behind the safety properties                    *)

\* Claim and work commit together.
ClaimsMatchWork == \A d \in Deliveries : applied[d] = IF d \in processed THEN 1 ELSE 0

\* A worker's position in the loop says what became of the bindings it passed.
LoopInv ==
  \A w \in Workers :
    pc[w] # "idle" =>
      /\ wjob[w] \in delivered
      /\ next[w] >= 1
      /\ pc[w] = "work" => Bound(w)
      /\ \A i \in DOMAIN Bindings[wjob[w]] :
           i < next[w] =>
             /\ <<wjob[w], Bindings[wjob[w]][i]>> \in processed \cup threw
             /\ ~failed[w] => <<wjob[w], Bindings[wjob[w]][i]>> \in processed

\* An attempt counts only after it went through all bindings, and only a job
\* that was delivered is in the queue.
QueueInv ==
  /\ \A e \in Events : job[e] # "absent" => e \in delivered
  /\ \A e \in Events :
       made[e] > 0 => \A c \in Subscribers(e) : <<e, c>> \in processed \cup threw

\* A lock belongs to an active job, a job that may still run has attempts
\* left, and a job that is gone left no counters behind.
LockInv ==
  \A e \in Events :
    /\ job[e] \in {"waiting", "active"} => made[e] < Attempts /\ stalls[e] <= MaxStalls
    /\ owner[e] # None => job[e] = "active"
    /\ job[e] = "absent" => made[e] = 0 /\ stalls[e] = 0

DispatchInv ==
  ClaimsMatchWork /\ LoopInv /\ QueueInv /\ LockInv /\ NeverSilentlyDropped
============================================================================
