------------------------- MODULE EventPipelineProofs -----------------------
(* Proofs about the whole event bus: for every set of events, any number   *)
(* of passes and API processes and any faults, publisher and dispatcher    *)
(* together take the steps of the abstract bus and no others.              *)
EXTENDS EventPipeline, TLAPS

Committed == {e \in Events : row[e] # "none"}

\* What a pass took, what Redis stores and what a worker runs was committed.
PassesHoldCommitted ==
  \A p \in Passes :
    /\ batch[p] \subseteq Committed
    /\ passPC[p] \in {"enqueue", "mark", "record"} => cur[p] \in Committed

JobsAreCommitted == \A e \in Events : job[e] # "absent" => e \in Committed

WorkersRunCommitted ==
  \A w \in Workers :
    /\ pc[w] # "idle" => wjob[w] \in Committed
    /\ pc[w] = "work" => D!Bound(w)

\* Work is committed with its claim, so there is no more of it than claims.
WorkIsClaimed == \A d \in D!Deliveries : applied[d] = IF d \in processed THEN 1 ELSE 0

PipelineTypeOK ==
  /\ row \in [Events -> P!RowStatus]
  /\ passPC \in [Passes -> P!PassPC]
  /\ batch \in [Passes -> SUBSET Events]
  /\ DOMAIN cur = Passes
  /\ job \in [Events -> P!JobStatus]
  /\ pc \in [Workers -> {"idle", "read", "work"}]
  /\ DOMAIN wjob = Workers
  /\ next \in [Workers -> Nat]
  /\ processed \subseteq D!Deliveries
  /\ applied \in [D!Deliveries -> Nat]

PipelineInv ==
  /\ PipelineTypeOK
  /\ PassesHoldCommitted
  /\ JobsAreCommitted
  /\ WorkersRunCommitted
  /\ WorkIsClaimed

----------------------------------------------------------------------------
LEMMA PipelineInitInv == ASSUME Init PROVE PipelineInv
  <1>1. PipelineTypeOK
    BY DEF Init, P!Init, D!Init, PipelineTypeOK, P!RowStatus, P!PassPC, P!JobStatus, D!Deliveries
  <1>2. /\ \A p \in Passes : passPC[p] = "idle" /\ batch[p] = {}
        /\ \A e \in Events : job[e] = "absent"
        /\ \A w \in Workers : pc[w] = "idle"
        /\ \A d \in D!Deliveries : applied[d] = 0 /\ d \notin processed
    BY DEF Init, P!Init, D!Init, D!Deliveries
  <1> QED BY <1>1, <1>2 DEF PipelineInv, PassesHoldCommitted, JobsAreCommitted,
        WorkersRunCommitted, WorkIsClaimed

\* Steps of the publisher

\* A committed event stays committed.
LEMMA StaysCommitted ==
  ASSUME PipelineTypeOK, PublisherStep
  PROVE  Committed \subseteq Committed'
  <1>1. ASSUME NEW e \in Events, P!Enqueue(e) PROVE Committed \subseteq Committed'
    BY <1>1 DEF P!Enqueue, Committed, PipelineTypeOK
  <1>2. ASSUME NEW p \in Passes, P!MarkPublished(p) PROVE Committed \subseteq Committed'
    BY <1>2 DEF P!MarkPublished, Committed, PipelineTypeOK
  <1>3. ASSUME NEW p \in Passes, P!PassStep(p) \/ P!PassFault(p), ~P!MarkPublished(p)
        PROVE  UNCHANGED row
    BY <1>3 DEF P!PassStep, P!PassFault, P!StartPass, P!Claim, P!EnqueueToBus, P!RecordFailure,
         P!ClaimFails, P!EnqueueFails, P!MarkFails, P!Crash
  <1> QED BY <1>1, <1>2, <1>3 DEF PublisherStep, P!PublisherNext, Committed

LEMMA PublisherTypeStep ==
  ASSUME PipelineTypeOK, PublisherStep
  PROVE  PipelineTypeOK'
  <1> USE DEF P!RowStatus, P!PassPC, P!JobStatus
  <1>1. UNCHANGED <<pc, wjob, next, processed, applied>>
    BY DEF PublisherStep, dispatchVars
  <1>2. ASSUME NEW e \in Events, P!Enqueue(e) PROVE PipelineTypeOK'
    BY <1>1, <1>2 DEF P!Enqueue, PipelineTypeOK
  <1>3. ASSUME NEW p \in Passes, P!PassStep(p) PROVE PipelineTypeOK'
    <2>1. CASE P!StartPass(p)
      BY <2>1, <1>1 DEF P!StartPass, P!Pending, PipelineTypeOK
    <2>2. CASE P!Claim(p)
      BY <2>2, <1>1 DEF P!Claim, P!TakeRow, P!AfterClaim, PipelineTypeOK
    <2>3. CASE P!EnqueueToBus(p)
      BY <2>3, <1>1 DEF P!EnqueueToBus, P!AddJob, PipelineTypeOK
    <2>4. CASE P!MarkPublished(p)
      BY <2>4, <1>1 DEF P!MarkPublished, P!NextRow, PipelineTypeOK
    <2>5. CASE P!RecordFailure(p)
      BY <2>5, <1>1 DEF P!RecordFailure, P!NextRow, PipelineTypeOK
    <2> QED BY <1>3, <2>1, <2>2, <2>3, <2>4, <2>5 DEF P!PassStep
  <1>4. ASSUME NEW p \in Passes, P!PassFault(p) PROVE PipelineTypeOK'
    <2>1. CASE P!ClaimFails(p)
      BY <2>1, <1>1 DEF P!ClaimFails, P!TakeRow, PipelineTypeOK
    <2>2. CASE P!EnqueueFails(p)
      BY <2>2, <1>1 DEF P!EnqueueFails, P!AddJob, PipelineTypeOK
    <2>3. CASE P!MarkFails(p)
      BY <2>3, <1>1 DEF P!MarkFails, PipelineTypeOK
    <2>4. CASE P!Crash(p)
      BY <2>4, <1>1 DEF P!Crash, PipelineTypeOK
    <2> QED BY <1>4, <2>1, <2>2, <2>3, <2>4 DEF P!PassFault
  <1> QED BY <1>2, <1>3, <1>4 DEF PublisherStep, P!PublisherNext

\* A pass reads pending rows, works on one of its batch, and adds that one.
LEMMA PassesStep ==
  ASSUME PipelineTypeOK, PassesHoldCommitted, PublisherStep
  PROVE  PassesHoldCommitted'
  <1>0. Committed \subseteq Committed'
    BY StaysCommitted
  <1> USE DEF P!PassPC
  <1>1. ASSUME NEW e \in Events, P!Enqueue(e) PROVE PassesHoldCommitted'
    BY <1>0, <1>1 DEF P!Enqueue, PassesHoldCommitted
  <1>2. ASSUME NEW p \in Passes, P!StartPass(p) PROVE PassesHoldCommitted'
    <2>1. P!Pending \subseteq Committed
      BY DEF P!Pending, Committed
    <2> QED BY <2>1, <1>0, <1>2 DEF P!StartPass, PassesHoldCommitted, PipelineTypeOK
  <1>3. ASSUME NEW p \in Passes, NEW e \in Events, P!TakeRow(p, e),
               \E there \in P!PassPC : passPC' = [passPC EXCEPT ![p] = there]
        PROVE  PassesHoldCommitted'
    <2>1. e \in Committed
      BY <1>3 DEF P!TakeRow, PassesHoldCommitted
    <2> QED BY <2>1, <1>0, <1>3 DEF P!TakeRow, PassesHoldCommitted, PipelineTypeOK
  <1>4. ASSUME NEW p \in Passes, P!NextRow(p), UNCHANGED batch PROVE PassesHoldCommitted'
    BY <1>0, <1>4 DEF P!NextRow, PassesHoldCommitted, PipelineTypeOK
  <1>5. ASSUME NEW p \in Passes, UNCHANGED <<batch, cur>>, passPC[p] \in {"enqueue", "mark"},
               \E there \in P!PassPC : passPC' = [passPC EXCEPT ![p] = there]
        PROVE  PassesHoldCommitted'
    BY <1>0, <1>5 DEF PassesHoldCommitted, PipelineTypeOK
  <1>6. ASSUME NEW p \in Passes, P!Crash(p) PROVE PassesHoldCommitted'
    BY <1>0, <1>6 DEF P!Crash, PassesHoldCommitted, PipelineTypeOK
  <1>7. ASSUME NEW p \in Passes, P!PassStep(p) \/ P!PassFault(p) PROVE PassesHoldCommitted'
    <2>1. CASE P!Claim(p)
      BY <2>1, <1>3 DEF P!Claim, P!AfterClaim
    <2>2. CASE P!ClaimFails(p)
      BY <2>2, <1>3 DEF P!ClaimFails
    <2>3. CASE P!MarkPublished(p) \/ P!RecordFailure(p)
      BY <2>3, <1>4 DEF P!MarkPublished, P!RecordFailure
    <2>4. CASE P!EnqueueToBus(p) \/ P!EnqueueFails(p) \/ P!MarkFails(p)
      BY <2>4, <1>5 DEF P!EnqueueToBus, P!EnqueueFails, P!MarkFails
    <2> QED BY <1>7, <1>2, <1>6, <2>1, <2>2, <2>3, <2>4 DEF P!PassStep, P!PassFault
  <1> QED BY <1>1, <1>7 DEF PublisherStep, P!PublisherNext

LEMMA PublisherInvStep ==
  ASSUME PipelineInv, PublisherStep
  PROVE  PipelineInv'
  <1> USE DEF PipelineInv
  <1>1. /\ PipelineTypeOK' /\ PassesHoldCommitted' /\ Committed \subseteq Committed'
        /\ UNCHANGED <<pc, wjob, next, processed, applied>>
    BY PublisherTypeStep, PassesStep, StaysCommitted DEF PublisherStep, dispatchVars
  <1>2. UNCHANGED job \/ \E p \in Passes : passPC[p] = "enqueue" /\ P!AddJob(cur[p])
    BY DEF PublisherStep, P!PublisherNext, P!Enqueue, P!PassStep, P!PassFault, P!StartPass, P!Claim,
       P!EnqueueToBus, P!MarkPublished, P!RecordFailure, P!ClaimFails, P!EnqueueFails,
       P!MarkFails, P!Crash
  <1>3. JobsAreCommitted'
    <2>1. CASE UNCHANGED job
      BY <2>1, <1>1 DEF JobsAreCommitted
    <2>2. ASSUME NEW p \in Passes, passPC[p] = "enqueue", P!AddJob(cur[p])
          PROVE  JobsAreCommitted'
      <3>1. cur[p] \in Committed
        BY <2>2 DEF PassesHoldCommitted
      <3> QED BY <3>1, <2>2, <1>1 DEF P!AddJob, JobsAreCommitted, PipelineTypeOK
    <2> QED BY <1>2, <2>1, <2>2
  <1>4. WorkersRunCommitted'
    BY <1>1 DEF WorkersRunCommitted, D!Bound
  <1>5. WorkIsClaimed'
    BY <1>1 DEF WorkIsClaimed
  <1> QED BY <1>1, <1>3, <1>4, <1>5

\* Steps of the dispatcher

\* The binding a worker has reached is one of the event's subscribers.
LEMMA BindingReached ==
  ASSUME PipelineInv, NEW w \in Workers, pc[w] # "idle", D!Bound(w)
  PROVE  /\ D!Current(w) \in D!Deliveries
         /\ Bindings[wjob[w]][next[w]] \in D!Subscribers(wjob[w])
  <1>1. wjob[w] \in Events
    BY DEF PipelineInv, WorkersRunCommitted, Committed
  <1>2. Bindings[wjob[w]] \in Seq(Consumers)
    BY <1>1, PipelineAssumption
  <1> QED BY <1>1, <1>2 DEF D!Bound, D!Current, D!Deliveries, D!Subscribers

\* A first claim is a first application.
LEMMA FirstClaim ==
  ASSUME PipelineTypeOK, WorkIsClaimed, NEW d \in D!Deliveries, d \notin processed,
         processed' = processed \cup {d},
         applied' = [applied EXCEPT ![d] = @ + 1]
  PROVE  /\ applied[d] = 0
         /\ applied' = [applied EXCEPT ![d] = 1]
         /\ WorkIsClaimed'
         /\ processed' \subseteq D!Deliveries
         /\ applied' \in [D!Deliveries -> Nat]
  <1>1. applied[d] = 0
    BY DEF WorkIsClaimed
  <1>2. applied' = [applied EXCEPT ![d] = 1]
    BY <1>1
  <1>3. D!Deliveries' = D!Deliveries
    BY DEF D!Deliveries
  <1> QED BY <1>1, <1>2, <1>3 DEF PipelineTypeOK, WorkIsClaimed

\* What the queue and the workers do changes neither rows nor passes.
LEMMA DispatchLeaves ==
  ASSUME PipelineInv, DispatchStep
  PROVE  /\ UNCHANGED <<row, passPC, batch, cur>>
         /\ Committed' = Committed /\ PassesHoldCommitted'
  BY DEF DispatchStep, publisherVars, PipelineInv, Committed, PassesHoldCommitted

\* A job is taken, put back, removed, kept or dead-lettered; its worker is done.
LEMMA QueueInvStep ==
  ASSUME PipelineInv, DispatchStep,
         \/ \E w \in Workers, e \in Events : D!TakeJob(w, e)
         \/ \E w \in Workers : D!FinishJob(w) \/ D!WorkerCrash(w)
         \/ \E e \in Events : D!Stall(e)
  PROVE  PipelineInv'
  <1> USE DEF PipelineInv, P!JobStatus
  <1>1. /\ UNCHANGED <<row, passPC, batch, cur, processed, applied>>
        /\ Committed' = Committed /\ PassesHoldCommitted'
    BY DispatchLeaves DEF D!TakeJob, D!FinishJob, D!WorkerCrash, D!Stall, D!handlerVars
  <1>2. WorkIsClaimed'
    BY <1>1 DEF WorkIsClaimed
  <1>3. ASSUME NEW w \in Workers, NEW e \in Events, D!TakeJob(w, e) PROVE PipelineInv'
    <2>1. e \in Committed
      BY <1>3 DEF D!TakeJob, D!Available, JobsAreCommitted
    <2>2. PipelineTypeOK'
      BY <1>1, <1>3 DEF D!TakeJob, PipelineTypeOK
    <2>3. JobsAreCommitted' /\ WorkersRunCommitted'
      BY <1>1, <1>3, <2>1 DEF D!TakeJob, PipelineTypeOK, JobsAreCommitted, WorkersRunCommitted, D!Bound
    <2> QED BY <1>1, <1>2, <2>2, <2>3
  <1>4. ASSUME NEW w \in Workers, D!FinishJob(w) PROVE PipelineInv'
    <2>1. wjob[w] \in Committed /\ pc[w] = "read"
      BY <1>4 DEF D!FinishJob, WorkersRunCommitted
    <2>2. UNCHANGED job \/ \E s \in P!JobStatus : job' = [job EXCEPT ![wjob[w]] = s]
      BY <1>4 DEF D!FinishJob
    <2>3. /\ pc' = [pc EXCEPT ![w] = "idle"] /\ UNCHANGED next
          /\ wjob' = [wjob EXCEPT ![w] = "none"]
      BY <1>4 DEF D!FinishJob, D!None
    <2>4. PipelineTypeOK'
      BY <1>1, <2>2, <2>3 DEF PipelineTypeOK
    <2>5. JobsAreCommitted' /\ WorkersRunCommitted'
      BY <1>1, <2>1, <2>2, <2>3 DEF PipelineTypeOK, JobsAreCommitted, WorkersRunCommitted, D!Bound
    <2> QED BY <1>1, <1>2, <2>4, <2>5
  <1>5. ASSUME NEW w \in Workers, D!WorkerCrash(w) PROVE PipelineInv'
    <2>1. PipelineTypeOK'
      BY <1>1, <1>5 DEF D!WorkerCrash, PipelineTypeOK
    <2>2. JobsAreCommitted' /\ WorkersRunCommitted'
      BY <1>1, <1>5 DEF D!WorkerCrash, PipelineTypeOK, JobsAreCommitted, WorkersRunCommitted, D!Bound
    <2> QED BY <1>1, <1>2, <2>1, <2>2
  <1>6. ASSUME NEW e \in Events, D!Stall(e) PROVE PipelineInv'
    <2>1. PipelineTypeOK'
      BY <1>1, <1>6 DEF D!Stall, D!workerVars, PipelineTypeOK
    <2>2. JobsAreCommitted' /\ WorkersRunCommitted'
      BY <1>1, <1>6 DEF D!Stall, D!workerVars, PipelineTypeOK, JobsAreCommitted,
         WorkersRunCommitted, D!Bound
    <2> QED BY <1>1, <1>2, <2>1, <2>2
  <1> QED BY <1>3, <1>4, <1>5, <1>6

\* One binding of the loop.
LEMMA BindingInvStep ==
  ASSUME PipelineInv, DispatchStep, NEW w \in Workers,
         D!ReadClaim(w) \/ D!CommitWork(w) \/ D!HandlerThrows(w)
  PROVE  PipelineInv'
  <1> USE DEF PipelineInv
  <1>1. /\ UNCHANGED <<row, passPC, batch, cur>>
        /\ Committed' = Committed /\ PassesHoldCommitted'
    BY DispatchLeaves
  <1>2. /\ pc[w] # "idle" /\ D!Bound(w) /\ UNCHANGED <<job, wjob>>
        /\ \/ pc' = [pc EXCEPT ![w] = "work"] /\ UNCHANGED next
           \/ pc' = [pc EXCEPT ![w] = "read"] /\ next' = [next EXCEPT ![w] = @ + 1]
    BY DEF D!ReadClaim, D!CommitWork, D!HandlerThrows, D!NextBinding, WorkersRunCommitted
  <1>3. D!Current(w) \in D!Deliveries
    BY <1>2, BindingReached
  <1>4. /\ processed' \subseteq D!Deliveries /\ applied' \in [D!Deliveries -> Nat]
        /\ WorkIsClaimed'
    <2>1. CASE UNCHANGED <<processed, applied>>
      BY <2>1 DEF WorkIsClaimed, PipelineTypeOK
    <2>2. CASE /\ D!Current(w) \notin processed
               /\ processed' = processed \cup {D!Current(w)}
               /\ applied' = [applied EXCEPT ![D!Current(w)] = @ + 1]
      BY <2>2, <1>3, FirstClaim
    <2> QED BY <2>1, <2>2 DEF D!ReadClaim, D!CommitWork, D!UniqueViolation, D!HandlerThrows,
          D!handlerVars
  <1>5. PipelineTypeOK'
    <2>1. pc' \in [Workers -> {"idle", "read", "work"}] /\ next' \in [Workers -> Nat]
      <3>1. CASE pc' = [pc EXCEPT ![w] = "work"] /\ UNCHANGED next
        BY <3>1 DEF PipelineTypeOK
      <3>2. CASE pc' = [pc EXCEPT ![w] = "read"] /\ next' = [next EXCEPT ![w] = @ + 1]
        BY <3>2 DEF PipelineTypeOK
      <3> QED BY <1>2, <3>1, <3>2
    <2>2. D!Deliveries' = D!Deliveries /\ P!RowStatus' = P!RowStatus /\ P!PassPC' = P!PassPC
          /\ P!JobStatus' = P!JobStatus
      BY DEF D!Deliveries, P!RowStatus, P!PassPC, P!JobStatus
    <2> QED BY <1>1, <1>2, <1>4, <2>1, <2>2 DEF PipelineTypeOK
  <1>6. JobsAreCommitted' /\ WorkersRunCommitted'
    BY <1>1, <1>2 DEF PipelineTypeOK, JobsAreCommitted, WorkersRunCommitted, D!Bound
  <1> QED BY <1>1, <1>4, <1>5, <1>6

LEMMA PipelineInvariant == Spec => []PipelineInv
  <1>1. PipelineInv /\ [Next]_vars => PipelineInv'
    <2> SUFFICES ASSUME PipelineInv, [Next]_vars PROVE PipelineInv'
      OBVIOUS
    <2>1. CASE PublisherStep
      BY <2>1, PublisherInvStep
    <2>2. CASE DispatchStep
      <3>1. ASSUME NEW w \in Workers, D!WorkerStep(w) \/ D!WorkerCrash(w) PROVE PipelineInv'
        <4>1. CASE D!ReadClaim(w) \/ D!CommitWork(w) \/ D!HandlerThrows(w)
          BY <2>2, <4>1, BindingInvStep
        <4>2. ASSUME NEW e \in Events, D!TakeJob(w, e) PROVE PipelineInv'
          BY <2>2, <4>2, QueueInvStep
        <4>3. CASE D!FinishJob(w) \/ D!WorkerCrash(w)
          BY <2>2, <4>3, QueueInvStep
        <4> QED BY <3>1, <4>1, <4>2, <4>3 DEF D!WorkerStep
      <3> QED BY <2>2, <3>1, QueueInvStep DEF DispatchStep, D!DispatchNext
    <2>3. CASE UNCHANGED vars
      BY <2>3 DEF vars, publisherVars, dispatchVars, PipelineInv, PipelineTypeOK, Committed,
         PassesHoldCommitted, JobsAreCommitted, WorkersRunCommitted, WorkIsClaimed, D!Bound,
         D!Deliveries
    <2> QED BY <2>1, <2>2, <2>3 DEF Next
  <1> QED BY <1>1, PipelineInitInv, PTL DEF Spec

----------------------------------------------------------------------------
\* Each step of the bus is a commit, an application or a stutter of the
\* abstract bus.
LEMMA PipelineStepRefines ==
  ASSUME PipelineInv, [Next]_vars
  PROVE  [Delivery!Next]_(Delivery!vars)
  <1> USE DEF Delivery!vars
  <1>1. ASSUME NEW e \in Events, P!Enqueue(e), UNCHANGED applied
        PROVE  [Delivery!Next]_(Delivery!vars)
    <2>1. e \notin Committed /\ Committed' = Committed \cup {e}
      BY <1>1 DEF P!Enqueue, Committed, PipelineInv, PipelineTypeOK
    <2>2. Delivery!Commit(e)
      BY <1>1, <2>1 DEF Delivery!Commit, Committed
    <2> QED BY <2>2 DEF Delivery!Next
  <1>2. CASE PublisherStep
    <2>1. UNCHANGED applied
      BY <1>2 DEF PublisherStep, dispatchVars
    <2>2. ASSUME NEW p \in Passes, P!MarkPublished(p) PROVE Committed' = Committed
      <3>1. cur[p] \in Committed /\ row' = [row EXCEPT ![cur[p]] = "published"]
        BY <2>2 DEF P!MarkPublished, PipelineInv, PassesHoldCommitted
      <3> QED BY <3>1 DEF Committed, PipelineInv, PipelineTypeOK
    <2>3. ASSUME NEW p \in Passes, P!PassStep(p) \/ P!PassFault(p), ~P!MarkPublished(p)
          PROVE  Committed' = Committed
      BY <2>3 DEF P!PassStep, P!PassFault, P!StartPass, P!Claim, P!EnqueueToBus, P!RecordFailure,
           P!ClaimFails, P!EnqueueFails, P!MarkFails, P!Crash, Committed
    <2> QED BY <1>1, <1>2, <2>1, <2>2, <2>3 DEF PublisherStep, P!PublisherNext, Committed
  <1>3. CASE DispatchStep
    <2>1. Committed' = Committed
      BY <1>3, DispatchLeaves
    <2>2. ASSUME NEW w \in Workers, D!CommitWork(w), D!Current(w) \notin processed
          PROVE  Delivery!Next
      <3> DEFINE e == wjob[w]
                 c == Bindings[e][next[w]]
      <3>1. /\ e \in Committed /\ D!Bound(w) /\ pc[w] # "idle"
        BY <2>2 DEF D!CommitWork, PipelineInv, WorkersRunCommitted
      <3>2. /\ D!Current(w) = <<e, c>> /\ <<e, c>> \in D!Deliveries
            /\ c \in D!Subscribers(e)
        BY <3>1, BindingReached DEF D!Current
      <3>3. applied[<<e, c>>] = 0 /\ applied' = [applied EXCEPT ![<<e, c>>] = 1]
        BY <2>2, <3>2, FirstClaim DEF D!CommitWork, D!UniqueViolation, PipelineInv
      <3>4. Delivery!Apply(e, c)
        BY <2>1, <3>1, <3>2, <3>3 DEF Delivery!Apply, Delivery!Subscribers, D!Subscribers, Committed
      <3> QED BY <3>2, <3>4 DEF Delivery!Next, D!Deliveries
    <2>3. ASSUME NEW w \in Workers, D!WorkerStep(w) \/ D!WorkerCrash(w),
                 ~(D!CommitWork(w) /\ D!Current(w) \notin processed)
          PROVE  UNCHANGED applied
      BY <2>3 DEF D!WorkerStep, D!WorkerCrash, D!TakeJob, D!ReadClaim, D!CommitWork,
           D!UniqueViolation, D!HandlerThrows, D!FinishJob, D!handlerVars
    <2>4. ASSUME NEW e \in Events, D!Stall(e) PROVE UNCHANGED applied
      BY <2>4 DEF D!Stall, D!handlerVars
    <2>5. CASE UNCHANGED applied
      BY <2>1, <2>5 DEF Committed
    <2> QED BY <1>3, <2>2, <2>3, <2>4, <2>5 DEF DispatchStep, D!DispatchNext, D!WorkerStep
  <1>4. CASE UNCHANGED vars
    BY <1>4 DEF vars, publisherVars, dispatchVars
  <1> QED BY <1>2, <1>3, <1>4 DEF Next

\* dispatch-map.ts, outbox.service.ts: publisher and dispatcher together
\* implement the abstract bus.  A consumer applies an event only after the
\* transaction that wrote it committed, only if it is bound to it, and at most
\* once, whatever passes, redeliveries, lost locks and crashes come between.
THEOREM PipelineRefines == Spec => Delivery!Spec
  <1>1. Init => Delivery!Init
    BY DEF Init, P!Init, D!Init, Delivery!Init, D!Deliveries
  <1> QED BY <1>1, PipelineStepRefines, PipelineInvariant, PTL DEF Spec, Delivery!Spec
----------------------------------------------------------------------------
(* The parts inside the whole: the publisher and the dispatcher of the     *)
(* pipeline are the ones their own theorems are about.                     *)

\* Only the job of a worker that is running it is under a lock.
LocksAreActive ==
  /\ job \in [Events -> P!JobStatus] /\ owner \in [Events -> Workers \cup {D!None}]
  /\ \A e \in Events : job[e] # "absent" => adds[e] > 0
  /\ adds \in [Events -> Nat]
  /\ \A e \in Events : owner[e] # D!None => job[e] = "active"

\* What a publisher's step does to the queue.
LEMMA PublisherAdds ==
  ASSUME PipelineInv, LocksAreActive, PublisherStep
  PROVE  \/ UNCHANGED <<job, adds>>
         \/ \E e \in Events : P!AddJob(e)
  <1>1. ASSUME NEW p \in Passes, P!EnqueueToBus(p) \/ P!EnqueueFails(p)
        PROVE  UNCHANGED <<job, adds>> \/ \E e \in Events : P!AddJob(e)
    <2>1. cur[p] \in Events
      BY <1>1 DEF P!EnqueueToBus, P!EnqueueFails, PipelineInv, PassesHoldCommitted, Committed
    <2> QED BY <1>1, <2>1 DEF P!EnqueueToBus, P!EnqueueFails
  <1>2. ASSUME NEW p \in Passes,
               \/ P!StartPass(p) \/ P!Claim(p) \/ P!MarkPublished(p) \/ P!RecordFailure(p)
               \/ P!ClaimFails(p) \/ P!MarkFails(p) \/ P!Crash(p)
        PROVE  UNCHANGED <<job, adds>>
    BY <1>2 DEF P!StartPass, P!Claim, P!MarkPublished, P!RecordFailure, P!ClaimFails,
                P!MarkFails, P!Crash
  <1>3. ASSUME NEW e \in Events, P!Enqueue(e) PROVE UNCHANGED <<job, adds>>
    BY <1>3 DEF P!Enqueue
  <1> QED BY <1>1, <1>2, <1>3 DEF PublisherStep, P!PublisherNext, P!PassStep, P!PassFault

\* A new job is one the queue did not have; an event the queue has was added before.
LEMMA AddsAreDeliveries ==
  ASSUME LocksAreActive, NEW e \in Events, P!AddJob(e), UNCHANGED dispatchVars
  PROVE  LocksAreActive' /\ [D!Next]_(D!vars)
  <1> USE DEF P!JobStatus
  <1>1. \A f \in Events : adds'[f] > 0 <=> f = e \/ adds[f] > 0
    BY DEF P!AddJob, LocksAreActive
  <1>2. adds' \in [Events -> Nat] /\ UNCHANGED owner
    BY DEF P!AddJob, LocksAreActive, dispatchVars
  <1>3. CASE job[e] = "absent"
    <2>1. job' = [job EXCEPT ![e] = "waiting"]
      BY <1>3 DEF P!AddJob, LocksAreActive
    <2>2. D!Deliver(e)
      BY <1>1, <1>3, <2>1 DEF D!Deliver, dispatchVars, D!dispatchOnly, D!queueVars, D!workerVars, D!handlerVars
    <2> QED BY <1>1, <1>2, <1>3, <2>1, <2>2 DEF LocksAreActive, D!Next
  <1>4. CASE job[e] # "absent"
    <2>1. UNCHANGED job
      BY <1>4 DEF P!AddJob, LocksAreActive
    <2>2. {f \in Events : adds'[f] > 0} = {f \in Events : adds[f] > 0}
      BY <1>1, <1>4 DEF LocksAreActive
    <2>3. UNCHANGED D!vars
      BY <2>1, <2>2 DEF dispatchVars, D!vars, D!dispatchOnly, D!queueVars, D!workerVars, D!handlerVars
    <2> QED BY <1>1, <1>2, <2>1, <2>3 DEF LocksAreActive
  <1> QED BY <1>3, <1>4

\* A worker touches the jobs that wait or are active only.
LEMMA WorkersConsume ==
  ASSUME PipelineInv, LocksAreActive, DispatchStep
  PROVE  LocksAreActive' /\ [P!Next]_(P!vars)
  <1> USE DEF P!JobStatus
  <1>0. /\ UNCHANGED <<adds, P!pubOnly>>
    BY DEF DispatchStep, publisherVars, P!pubOnly
  <1>1. ASSUME NEW e \in Events, job[e] \in {"waiting", "active"},
               NEW s \in P!JobStatus, job' = [job EXCEPT ![e] = s],
               NEW o \in Workers \cup {D!None}, owner' = [owner EXCEPT ![e] = o],
               o # D!None => s = "active"
        PROVE  LocksAreActive' /\ [P!Next]_(P!vars)
    <2>1. LocksAreActive'
      BY <1>0, <1>1 DEF LocksAreActive
    <2>2. P!ConsumeJob(e) \/ UNCHANGED job
      BY <1>0, <1>1 DEF P!ConsumeJob, LocksAreActive
    <2> QED BY <1>0, <2>1, <2>2 DEF P!Next, P!vars
  <1>2. ASSUME UNCHANGED <<job, owner>> PROVE LocksAreActive' /\ [P!Next]_(P!vars)
    BY <1>0, <1>2 DEF LocksAreActive, P!vars
  <1>3. ASSUME NEW w \in Workers, NEW e \in Events, D!TakeJob(w, e)
        PROVE  LocksAreActive' /\ [P!Next]_(P!vars)
    BY <1>1, <1>3 DEF D!TakeJob, D!Available
  <1>4. ASSUME NEW w \in Workers, D!FinishJob(w) PROVE LocksAreActive' /\ [P!Next]_(P!vars)
    <2>1. wjob[w] \in Events
      BY <1>4 DEF D!FinishJob, PipelineInv, WorkersRunCommitted, Committed
    <2>2. CASE owner[wjob[w]] # w
      BY <1>2, <1>4, <2>2 DEF D!FinishJob, D!queueVars
    <2>3. CASE owner[wjob[w]] = w
      <3>1. job[wjob[w]] = "active"
        BY <2>1, <2>3, PipelineAssumption DEF LocksAreActive, D!None
      <3>2. \E s \in P!JobStatus : job' = [job EXCEPT ![wjob[w]] = s]
        BY <1>4, <2>3 DEF D!FinishJob
      <3>3. owner' = [owner EXCEPT ![wjob[w]] = D!None]
        BY <1>4, <2>3 DEF D!FinishJob
      <3> QED BY <1>1, <2>1, <3>1, <3>2, <3>3
    <2> QED BY <2>2, <2>3
  <1>5. ASSUME NEW e \in Events, D!Stall(e) PROVE LocksAreActive' /\ [P!Next]_(P!vars)
    <2>1. \E s \in P!JobStatus : job' = [job EXCEPT ![e] = s]
      BY <1>5 DEF D!Stall
    <2> QED BY <1>1, <1>5, <2>1 DEF D!Stall
  <1>6. ASSUME NEW w \in Workers,
               D!ReadClaim(w) \/ D!CommitWork(w) \/ D!HandlerThrows(w) \/ D!WorkerCrash(w)
        PROVE  LocksAreActive' /\ [P!Next]_(P!vars)
    BY <1>2, <1>6 DEF D!ReadClaim, D!CommitWork, D!HandlerThrows, D!WorkerCrash, D!queueVars
  <1> QED BY <1>3, <1>4, <1>5, <1>6 DEF DispatchStep, D!DispatchNext, D!WorkerStep

\* Over one queue, the publisher and the dispatcher each take their own steps: what one
\* does is a step that the other's specification allows its environment.
LEMMA PartsOfTheWhole == Spec => P!Spec /\ D!Spec
  <1>1. Init => LocksAreActive
    BY DEF Init, P!Init, D!Init, LocksAreActive, P!JobStatus, D!None
  <1>2. PipelineInv /\ LocksAreActive /\ [Next]_vars =>
          LocksAreActive' /\ [P!Next]_(P!vars) /\ [D!Next]_(D!vars)
    <2> SUFFICES ASSUME PipelineInv, LocksAreActive, [Next]_vars
                 PROVE  LocksAreActive' /\ [P!Next]_(P!vars) /\ [D!Next]_(D!vars)
      OBVIOUS
    <2>1. CASE PublisherStep
      <3>1. [P!Next]_(P!vars)
        BY <2>1 DEF PublisherStep, P!Next
      <3>2. CASE UNCHANGED <<job, adds>>
        <4>1. UNCHANGED D!vars
          BY <2>1, <3>2 DEF PublisherStep, dispatchVars, D!vars, D!dispatchOnly, D!queueVars,
                            D!workerVars, D!handlerVars
        <4>2. LocksAreActive'
          BY <2>1, <3>2 DEF PublisherStep, dispatchVars, LocksAreActive
        <4> QED BY <3>1, <4>1, <4>2
      <3>3. ASSUME NEW e \in Events, P!AddJob(e) PROVE LocksAreActive' /\ [D!Next]_(D!vars)
        BY <2>1, <3>3, AddsAreDeliveries DEF PublisherStep
      <3> QED BY <2>1, <3>1, <3>2, <3>3, PublisherAdds
    <2>2. CASE DispatchStep
      <3>1. [D!Next]_(D!vars)
        BY <2>2 DEF DispatchStep, D!Next
      <3> QED BY <2>2, <3>1, WorkersConsume
    <2>3. CASE UNCHANGED vars
      BY <2>3 DEF vars, publisherVars, dispatchVars, LocksAreActive, P!vars, P!pubOnly, D!vars,
                  D!dispatchOnly, D!queueVars, D!workerVars, D!handlerVars
    <2> QED BY <2>1, <2>2, <2>3 DEF Next
  <1>3. Init => P!Init /\ D!Init
    BY DEF Init
  <1> QED BY <1>1, <1>2, <1>3, PipelineInvariant, PTL DEF Spec, P!Spec, D!Spec

\* The theorems about each part.
PP == INSTANCE OutboxPublisherProofs WITH pc <- passPC
DD == INSTANCE EventDispatchProofs WITH delivered <- {e \in Events : adds[e] > 0}

LEMMA SamePublisher == P!Spec => PP!Spec
  <1>1. P!Init => PP!Init
    BY DEF P!Init, PP!Init, P!NoEvent, PP!NoEvent
  <1>2. [P!Next]_(P!vars) => [PP!Next]_(PP!vars)
    BY DEF P!Next, PP!Next, P!vars, PP!vars, P!pubOnly, PP!pubOnly, P!PublisherNext,
       PP!PublisherNext, P!PassStep, PP!PassStep, P!PassFault, PP!PassFault, P!Enqueue, PP!Enqueue,
       P!StartPass, PP!StartPass, P!OldestBatch, PP!OldestBatch, P!Pending, PP!Pending, P!Claim,
       PP!Claim, P!TakeRow, PP!TakeRow, P!AfterClaim, PP!AfterClaim, P!EnqueueToBus,
       PP!EnqueueToBus, P!AddJob, PP!AddJob, P!MarkPublished, PP!MarkPublished, P!NextRow,
       PP!NextRow, P!NoEvent, PP!NoEvent, P!RecordFailure, PP!RecordFailure, P!ClaimFails,
       PP!ClaimFails, P!Fault, PP!Fault, P!EnqueueFails, PP!EnqueueFails, P!MarkFails,
       PP!MarkFails, P!Crash, PP!Crash, P!ConsumeJob, PP!ConsumeJob, P!JobStatus, PP!JobStatus,
       P!Cardinality, PP!Cardinality
  <1> QED BY <1>1, <1>2, PTL DEF P!Spec, PP!Spec

LEMMA SameDispatcher == D!Spec => DD!Spec
  <1>1. D!Init => DD!Init
    BY DEF D!Init, DD!Init, D!None, DD!None, D!Deliveries, DD!Deliveries
  <1>2. [D!Next]_(D!vars) => [DD!Next]_(DD!vars)
    BY DEF D!Next, DD!Next, D!vars, DD!vars, D!dispatchOnly, DD!dispatchOnly, D!queueVars,
       DD!queueVars, D!workerVars, DD!workerVars, D!handlerVars, DD!handlerVars, D!DispatchNext,
       DD!DispatchNext, D!WorkerStep, DD!WorkerStep, D!WorkerCrash, DD!WorkerCrash, D!Stall,
       DD!Stall, D!Deliver, DD!Deliver, D!TakeJob, DD!TakeJob, D!Available, DD!Available,
       D!ReadClaim, DD!ReadClaim, D!CommitWork, DD!CommitWork, D!HandlerThrows, DD!HandlerThrows,
       D!FinishJob, DD!FinishJob, D!UniqueViolation, DD!UniqueViolation, D!Bound, DD!Bound,
       D!Current, DD!Current, D!NextBinding, DD!NextBinding, D!AttemptsLeft, DD!AttemptsLeft,
       D!CountAttempt, DD!CountAttempt, D!None, DD!None
  <1> QED BY <1>1, <1>2, PTL DEF D!Spec, DD!Spec

LEMMA PublisherParameters == PP!PublisherAssumption
  BY PipelineAssumption DEF PP!PublisherAssumption, IsFiniteSet, PP!IsFiniteSet

LEMMA DispatcherParameters == DD!DispatchAssumption
  BY PipelineAssumption DEF DD!DispatchAssumption, DD!None

\* drainOutbox, event-bus.constants.ts: from the publisher's mark to the consumers'
\* work.  A published event was added once; and once its job is gone, the dispatcher's
\* promise holds for it.
LEMMA PublishedReached ==
  ASSUME PP!TypeOK, PP!EnqueuedOnce, DD!IInv
  PROVE  PublishedIsApplied
  <1> SUFFICES ASSUME NEW e \in Events, faults = 0, row[e] = "published", job[e] = "absent",
                      \A p \in Passes : ~P!Holds(p, e), NEW c \in D!Subscribers(e)
               PROVE  applied[<<e, c>>] = 1
    BY DEF PublishedIsApplied
  <1>1. \A p \in Passes : ~PP!Holds(p, e)
    BY DEF P!Holds, PP!Holds
  <1>2. adds[e] = 1
    BY <1>1 DEF PP!EnqueuedOnce, PP!PublishedWasEnqueued
  <1>3. c \in DD!Subscribers(e)
    BY DEF D!Subscribers, DD!Subscribers
  <1>4. e \in {f \in Events : adds[f] > 0}
    BY <1>2
  <1>5. <<e, c>> \in processed
    BY <1>3, <1>4 DEF DD!IInv, DD!DispatchInv, DD!NeverSilentlyDropped
  <1>6. <<e, c>> \in DD!Deliveries
    BY <1>5 DEF DD!IInv, DD!TypeOK
  <1> QED BY <1>5, <1>6 DEF DD!IInv, DD!DispatchInv, DD!ClaimsMatchWork

\* For every dispatch map, any number of passes, workers, retries, stalls and crashes: the
\* bus applies only what committed, nothing twice, and loses nothing that it published.
THEOREM NothingLostNorDoubled == Spec => BusDelivers
  <1>1. PP!Spec => []PP!TypeOK
    BY PublisherParameters, PP!TypeCorrect
  <1>2. PP!Spec => []PP!EnqueuedOnce
    BY PublisherParameters, PP!ExactlyOnce
  <1>3. DD!Spec => []DD!IInv
    BY DispatcherParameters, DD!DispatchInvariant
  <1>4. Spec => []PublishedIsApplied
    BY <1>1, <1>2, <1>3, PartsOfTheWhole, SamePublisher, SameDispatcher, PublishedReached, PTL
  <1> QED BY <1>4, PipelineRefines DEF BusDelivers
============================================================================
