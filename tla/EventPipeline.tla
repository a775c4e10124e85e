--------------------------- MODULE EventPipeline ---------------------------
(***************************************************************************)
(* The whole event bus: OutboxPublisher and EventDispatch over one queue.  *)
(* The publisher's queue.add is the dispatcher's Deliver, and what the     *)
(* workers do to a job is what the publisher sees as ConsumeJob.           *)
(***************************************************************************)
EXTENDS Naturals, Sequences, FiniteSets

CONSTANTS
  Events, Consumers, Bindings,
  Passes, BatchSize, MaxTime, MaxFaults,
  Workers, Attempts, MaxStalls, MaxCrashes

\* None, of EventDispatch, is no worker.
ASSUME PipelineAssumption ==
  /\ IsFiniteSet(Events) /\ Bindings \in [Events -> Seq(Consumers)]
  /\ BatchSize \in Nat \ {0} /\ MaxTime \in Nat \ {0} /\ MaxFaults \in Nat
  /\ "none" \notin Workers
  /\ Attempts \in Nat \ {0} /\ MaxStalls \in Nat /\ MaxCrashes \in Nat

VARIABLES
  row, createdAt, attempts, claimed, passPC, batch, cur, adds, faults,
  job,
  made, stalls, owner, pc, wjob, next, failed, processed, applied, threw, crashes

\* The publisher; its program counter is passPC here.
P == INSTANCE OutboxPublisher WITH pc <- passPC

\* The dispatcher; an event was delivered once queue.add reached Redis for it.
D == INSTANCE EventDispatch WITH delivered <- {e \in Events : adds[e] > 0}

\* What business transactions and modules see of both.
Delivery == INSTANCE EventDelivery
              WITH committed <- {e \in Events : row[e] # "none"}

publisherVars == <<row, createdAt, attempts, claimed, passPC, batch, cur, adds, faults>>
dispatchVars ==
  <<made, stalls, owner, pc, wjob, next, failed, processed, applied, threw, crashes>>
vars == <<job, publisherVars, dispatchVars>>

Init == P!Init /\ D!Init

PublisherStep == P!PublisherNext /\ UNCHANGED dispatchVars
DispatchStep == UNCHANGED publisherVars /\ D!DispatchNext

Next == PublisherStep \/ DispatchStep

Fairness ==
  /\ \A p \in Passes : WF_vars(P!PassStep(p) /\ UNCHANGED dispatchVars)
  /\ \A w \in Workers : WF_vars(UNCHANGED publisherVars /\ D!WorkerStep(w))
  /\ \A e \in Events : WF_vars(UNCHANGED publisherVars /\ D!Stall(e) /\ D!Orphaned(e))

Spec == Init /\ [][Next]_vars
FairSpec == Spec /\ Fairness

----------------------------------------------------------------------------
(* Properties                                                              *)

\* End to end, when the publisher meets no fault: a committed event is applied
\* by every subscribed consumer or kept as a dead letter, through handler
\* failures, lost locks and crashes of the API process.
CommittedIsApplied ==
  \A e \in Events :
    row[e] = "pending" ~>
      (job[e] = "failed" \/ \A c \in D!Subscribers(e) : <<e, c>> \in processed)

\* As long as the publisher meets no fault, a row it calls published is an event
\* handed over, or being handed over by the pass that claimed it: when the job is gone,
\* every subscribed consumer applied it once, whatever workers stalled or died.
PublishedIsApplied ==
  \A e \in Events :
    faults = 0 /\ row[e] = "published" /\ job[e] = "absent" /\ (\A p \in Passes : ~P!Holds(p, e)) =>
      \A c \in D!Subscribers(e) : applied[<<e, c>>] = 1

\* The bus keeps its promise to the business transactions: nothing is applied
\* that did not commit, nothing twice, and nothing that was published is lost.
BusDelivers == Delivery!Spec /\ []PublishedIsApplied
============================================================================
