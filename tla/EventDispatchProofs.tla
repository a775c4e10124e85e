------------------------ MODULE EventDispatchProofs ------------------------
(***************************************************************************)
(* For every dispatch map, any number of API processes and any limits on   *)
(* attempts, stalls and crashes: at-most-once application, no silent drop, *)
(* no starved sibling, and the refinement of the abstract bus.             *)
(***************************************************************************)
EXTENDS EventDispatch, TLAPS

USE DispatchAssumption

IInv == TypeOK /\ DispatchInv

\* Facts about the loop position of a running worker.
LEMMA CurrentBinding ==
  ASSUME TypeOK, NEW w \in Workers, pc[w] # "idle", Bound(w)
  PROVE  /\ Current(w) \in Deliveries
         /\ Bindings[wjob[w]][next[w]] \in Subscribers(wjob[w])
BY DEF TypeOK, Bound, Current, Deliveries, Subscribers

\* A worker that has left the loop has passed every binding of its job.
LEMMA LoopPassedAll ==
  ASSUME TypeOK, LoopInv, NEW w \in Workers, pc[w] # "idle", ~Bound(w),
         NEW c \in Subscribers(wjob[w])
  PROVE  /\ <<wjob[w], c>> \in processed \cup threw
         /\ ~failed[w] => <<wjob[w], c>> \in processed
<1> DEFINE b == Bindings[wjob[w]]
<1>1. b \in Seq(Consumers)
  BY DEF TypeOK
<1>2. PICK i \in DOMAIN b : c = b[i]
  BY DEF Subscribers
<1>3. DOMAIN b = 1..Len(b) /\ Len(b) \in Nat
  BY <1>1
<1>4. next[w] \in Nat /\ next[w] >= 1 /\ next[w] \notin 1..Len(b)
  BY <1>3 DEF Bound, LoopInv, TypeOK
<1>5. i < next[w]
  BY <1>2, <1>3, <1>4
<1> QED BY <1>2, <1>5 DEF LoopInv

\* Claim and work in one transaction: a first claim is a first application.
LEMMA FirstClaim ==
  ASSUME TypeOK, ClaimsMatchWork, NEW d \in Deliveries, d \notin processed,
         processed' = processed \cup {d},
         applied' = [applied EXCEPT ![d] = applied[d] + 1]
  PROVE  /\ applied[d] = 0
         /\ applied' = [applied EXCEPT ![d] = 1]
         /\ ClaimsMatchWork'
         /\ processed' \subseteq Deliveries
         /\ applied' \in [Deliveries -> Nat]
<1>1. applied[d] = 0
  BY DEF ClaimsMatchWork
<1>2. applied' = [applied EXCEPT ![d] = 1]
  BY <1>1
<1>3. applied' \in [Deliveries -> Nat]
  BY <1>2 DEF TypeOK
<1>4. ClaimsMatchWork'
  BY <1>2 DEF ClaimsMatchWork, TypeOK
<1> QED BY <1>1, <1>2, <1>3, <1>4 DEF TypeOK

----------------------------------------------------------------------------
\* The initial state satisfies the invariant.
LEMMA InitIInv == Init => IInv
<1> SUFFICES ASSUME Init PROVE IInv
  OBVIOUS
<1>1. TypeOK
  BY DEF Init, TypeOK
<1>2. DispatchInv
  BY DEF Init, DispatchInv, ClaimsMatchWork, LoopInv, QueueInv, LockInv,
         NeverSilentlyDropped
<1> QED BY <1>1, <1>2 DEF IInv

\* Steps of the queue alone: no worker, claim or handler changes.
LEMMA QueueStep ==
  ASSUME IInv, NEW e \in Events, Deliver(e) \/ Stall(e)
  PROVE  IInv'
<1> USE DEF IInv, DispatchInv
<1>1. CASE Deliver(e)
  <2> USE <1>1 DEF Deliver, dispatchOnly, queueVars, workerVars, handlerVars
  <2>1. TypeOK'
    BY DEF TypeOK
  <2>2. ClaimsMatchWork'
    BY DEF ClaimsMatchWork
  <2>3. LoopInv'
    BY DEF LoopInv, Bound
  <2>4. QueueInv' /\ LockInv'
    BY DEF QueueInv, LockInv, TypeOK, Subscribers
  <2>5. NeverSilentlyDropped'
    BY DEF NeverSilentlyDropped, TypeOK, Subscribers
  <2> QED BY <2>1, <2>2, <2>3, <2>4, <2>5
<1>2. CASE Stall(e)
  <2> USE <1>2 DEF Stall, workerVars, handlerVars
  <2>0. stalls[e] \in 0..MaxStalls
    BY DEF LockInv, TypeOK
  <2>1. TypeOK'
    <3>1. stalls' \in [Events -> 0..MaxStalls + 1]
      BY <2>0 DEF TypeOK
    <3>2. job' \in [Events -> {"absent", "waiting", "active", "failed"}]
      BY DEF TypeOK
    <3>3. owner' \in [Events -> Workers \cup {None}]
      BY DEF TypeOK
    <3> QED BY <3>1, <3>2, <3>3 DEF TypeOK
  <2>2. ClaimsMatchWork'
    BY DEF ClaimsMatchWork
  <2>3. LoopInv'
    BY DEF LoopInv, Bound
  <2>4. QueueInv' /\ LockInv'
    BY DEF QueueInv, LockInv, TypeOK, Subscribers
  <2>5. NeverSilentlyDropped'
    BY DEF NeverSilentlyDropped, TypeOK, Subscribers
  <2> QED BY <2>1, <2>2, <2>3, <2>4, <2>5
<1> QED BY <1>1, <1>2

\* A worker takes a job, or dies.
LEMMA TakeOrCrashStep ==
  ASSUME IInv, NEW w \in Workers, (\E e \in Events : TakeJob(w, e)) \/ WorkerCrash(w)
  PROVE  IInv'
<1> USE DEF IInv, DispatchInv
<1>1. ASSUME NEW e \in Events, TakeJob(w, e) PROVE IInv'
  <2> USE <1>1 DEF TakeJob, Available, handlerVars
  <2>1. TypeOK'
    BY DEF TypeOK
  <2>2. ClaimsMatchWork'
    BY DEF ClaimsMatchWork
  <2>3. LoopInv'
    <3>1. e \in delivered
      BY DEF QueueInv
    <3>2. Bindings[e] \in Seq(Consumers)
      OBVIOUS
    <3>3. \A i \in DOMAIN Bindings[e] : ~(i < 1)
      BY <3>2
    <3> QED BY <3>1, <3>3 DEF LoopInv, TypeOK, Bound
  <2>4. QueueInv' /\ LockInv'
    BY DEF QueueInv, LockInv, TypeOK, Subscribers
  <2>5. NeverSilentlyDropped'
    BY DEF NeverSilentlyDropped, TypeOK, Subscribers
  <2> QED BY <2>1, <2>2, <2>3, <2>4, <2>5
<1>2. CASE WorkerCrash(w)
  <2> USE <1>2 DEF WorkerCrash, queueVars, handlerVars
  <2>1. TypeOK'
    BY DEF TypeOK
  <2>2. ClaimsMatchWork'
    BY DEF ClaimsMatchWork
  <2>3. LoopInv'
    BY DEF LoopInv, TypeOK, Bound
  <2>4. QueueInv' /\ LockInv'
    BY DEF QueueInv, LockInv, Subscribers
  <2>5. NeverSilentlyDropped'
    BY DEF NeverSilentlyDropped, Subscribers
  <2> QED BY <2>1, <2>2, <2>3, <2>4, <2>5
<1> QED BY <1>1, <1>2

\* One binding of the loop: the claim was read, the work committed or rolled
\* back, or the handler threw.  Only claims, work and this worker change.
LEMMA BindingStep ==
  ASSUME IInv, NEW w \in Workers, ReadClaim(w) \/ CommitWork(w) \/ HandlerThrows(w)
  PROVE  IInv'
<1> USE DEF IInv, DispatchInv
<1> DEFINE d == Current(w)
<1>1. /\ pc[w] # "idle" /\ Bound(w)
      /\ UNCHANGED <<job, delivered, made, stalls, owner, crashes, wjob>>
  BY DEF ReadClaim, CommitWork, UniqueViolation, HandlerThrows, NextBinding, LoopInv, queueVars
<1>2. d \in Deliveries /\ wjob[w] \in Events
  BY <1>1, CurrentBinding DEF TypeOK
<1>3. processed \subseteq processed' /\ threw \subseteq threw'
  BY DEF ReadClaim, CommitWork, UniqueViolation, HandlerThrows, handlerVars
<1>6. \/ /\ pc' = [pc EXCEPT ![w] = "work"] /\ UNCHANGED <<next, failed>>
      \/ \E ok \in BOOLEAN :
           /\ NextBinding(w, ok)
           /\ d \in (processed \cup threw)'
           /\ ok => d \in processed'
  BY DEF ReadClaim, CommitWork, UniqueViolation, HandlerThrows, handlerVars
<1>4. TypeOK'
  <2>1. /\ pc' \in [Workers -> {"idle", "read", "work"}]
        /\ next' \in [Workers -> Nat]
        /\ failed' \in [Workers -> BOOLEAN]
        /\ \A v \in Workers : pc'[v] # "idle" => wjob'[v] \in Events
    <3>1. CASE pc' = [pc EXCEPT ![w] = "work"] /\ UNCHANGED <<next, failed>>
      BY <3>1, <1>1, <1>2 DEF TypeOK
    <3>2. ASSUME NEW ok \in BOOLEAN, NextBinding(w, ok)
          PROVE  /\ pc' \in [Workers -> {"idle", "read", "work"}]
                 /\ next' \in [Workers -> Nat]
                 /\ failed' \in [Workers -> BOOLEAN]
                 /\ \A v \in Workers : pc'[v] # "idle" => wjob'[v] \in Events
      <4>1. failed' \in [Workers -> BOOLEAN]
        BY <3>2, Zenon DEF NextBinding, TypeOK
      <4> QED BY <3>2, <4>1, <1>1, <1>2 DEF NextBinding, TypeOK
    <3> QED BY <3>1, <3>2, <1>6
  <2>2. /\ processed' \subseteq Deliveries /\ threw' \subseteq Deliveries
        /\ applied' \in [Deliveries -> Nat]
    <3>1. CASE ReadClaim(w)
      BY <3>1 DEF ReadClaim, handlerVars, TypeOK
    <3>2. CASE CommitWork(w)
      <4>1. UNCHANGED threw
        BY <3>2 DEF CommitWork, UniqueViolation
      <4> QED BY <3>2, <4>1, <1>2, FirstClaim DEF CommitWork, UniqueViolation, TypeOK
    <3>3. CASE HandlerThrows(w)
      BY <3>3, <1>2 DEF HandlerThrows, TypeOK
    <3> QED BY <3>1, <3>2, <3>3
  <2> QED BY <2>1, <2>2, <1>1 DEF TypeOK
<1>5. ClaimsMatchWork'
  <2>1. CASE CommitWork(w)
    BY <2>1, <1>2, FirstClaim DEF CommitWork, UniqueViolation, ClaimsMatchWork
  <2>2. CASE ReadClaim(w) \/ HandlerThrows(w)
    BY <2>2 DEF ReadClaim, HandlerThrows, handlerVars, ClaimsMatchWork
  <2> QED BY <2>1, <2>2
<1>7. LoopInv'
  <2> SUFFICES ASSUME NEW v \in Workers, pc'[v] # "idle"
               PROVE  /\ wjob'[v] \in delivered'
                      /\ next'[v] >= 1
                      /\ pc'[v] = "work" => Bound(v)'
                      /\ \A i \in DOMAIN Bindings[wjob[v]] :
                           i < next'[v] =>
                             /\ <<wjob[v], Bindings[wjob[v]][i]>> \in (processed \cup threw)'
                             /\ ~failed'[v] => <<wjob[v], Bindings[wjob[v]][i]>> \in processed'
    BY <1>1 DEF LoopInv
  <2>1. CASE v # w
    <3>1. pc'[v] = pc[v] /\ next'[v] = next[v] /\ failed'[v] = failed[v]
      BY <1>6, <2>1 DEF NextBinding, TypeOK
    <3> QED BY <3>1, <1>1, <1>3 DEF LoopInv, Bound
  <2>2. CASE v = w /\ pc' = [pc EXCEPT ![w] = "work"] /\ UNCHANGED <<next, failed>>
    BY <2>2, <1>1, <1>3 DEF LoopInv, Bound, TypeOK
  <2>3. ASSUME v = w, NEW ok \in BOOLEAN, NextBinding(w, ok),
               d \in (processed \cup threw)', ok => d \in processed'
        PROVE  /\ wjob'[v] \in delivered'
               /\ next'[v] >= 1
               /\ pc'[v] = "work" => Bound(v)'
               /\ \A i \in DOMAIN Bindings[wjob[v]] :
                    i < next'[v] =>
                      /\ <<wjob[v], Bindings[wjob[v]][i]>> \in (processed \cup threw)'
                      /\ ~failed'[v] => <<wjob[v], Bindings[wjob[v]][i]>> \in processed'
    <3>1. next'[w] = next[w] + 1 /\ pc'[w] = "read" /\ failed'[w] = (failed[w] \/ ~ok)
      BY <2>3 DEF NextBinding, TypeOK
    <3>2. ASSUME NEW i \in DOMAIN Bindings[wjob[w]], i < next'[w]
          PROVE  /\ <<wjob[w], Bindings[wjob[w]][i]>> \in (processed \cup threw)'
                 /\ ~failed'[w] => <<wjob[w], Bindings[wjob[w]][i]>> \in processed'
      <4>1. Bindings[wjob[w]] \in Seq(Consumers)
        BY <1>2
      <4>2. i \in Nat /\ next[w] \in Nat
        BY <4>1 DEF TypeOK
      <4>3. CASE i = next[w]
        BY <4>3, <3>1, <2>3 DEF Current
      <4>4. CASE i < next[w]
        BY <4>4, <3>1, <1>1, <1>3 DEF LoopInv
      <4> QED BY <4>2, <4>3, <4>4, <3>1, <3>2
    <3> QED BY <2>3, <3>1, <3>2, <1>1 DEF LoopInv, TypeOK
  <2> QED BY <2>1, <2>2, <2>3, <1>6
<1>8. QueueInv' /\ LockInv' /\ NeverSilentlyDropped'
  BY <1>1, <1>3 DEF QueueInv, LockInv, NeverSilentlyDropped, Subscribers
<1> QED BY <1>4, <1>5, <1>7, <1>8

\* The end of an attempt.
LEMMA FinishStep ==
  ASSUME IInv, NEW w \in Workers, FinishJob(w)
  PROVE  IInv'
<1> USE DEF IInv, DispatchInv
<1> DEFINE e == wjob[w]
<1>1. /\ pc[w] # "idle" /\ ~Bound(w) /\ e \in Events /\ e \in delivered
      /\ UNCHANGED <<delivered, next, failed, processed, applied, threw, crashes>>
  BY DEF FinishJob, handlerVars, LoopInv, TypeOK
<1>2. /\ pc' = [pc EXCEPT ![w] = "idle"]
      /\ wjob' = [wjob EXCEPT ![w] = None]
  BY DEF FinishJob
<1>3. \A c \in Subscribers(e) :
        /\ <<e, c>> \in processed \cup threw
        /\ ~failed[w] => <<e, c>> \in processed
  BY <1>1, LoopPassedAll
<1>4. ClaimsMatchWork' /\ LoopInv'
  BY <1>1, <1>2 DEF ClaimsMatchWork, LoopInv, TypeOK, Bound
<1>5. CASE owner[e] # w
  <2>1. UNCHANGED <<job, made, stalls, owner>>
    BY <1>5 DEF FinishJob, queueVars
  <2>2. TypeOK'
    BY <1>1, <1>2, <2>1 DEF TypeOK
  <2>3. QueueInv' /\ LockInv' /\ NeverSilentlyDropped'
    BY <1>1, <2>1 DEF QueueInv, LockInv, NeverSilentlyDropped, Subscribers
  <2> QED BY <1>4, <2>2, <2>3
<1>6. CASE owner[e] = w /\ ~failed[w]
  <2>1. /\ job' = [job EXCEPT ![e] = "absent"]
        /\ made' = [made EXCEPT ![e] = 0]
        /\ stalls' = [stalls EXCEPT ![e] = 0]
        /\ owner' = [owner EXCEPT ![e] = None]
    BY <1>6 DEF FinishJob
  <2>2. TypeOK'
    BY <1>1, <1>2, <2>1 DEF TypeOK
  <2>3. QueueInv' /\ LockInv'
    BY <1>1, <2>1 DEF QueueInv, LockInv, TypeOK, Subscribers
  <2>4. NeverSilentlyDropped'
    BY <1>1, <1>3, <1>6, <2>1 DEF NeverSilentlyDropped, TypeOK, Subscribers
  <2> QED BY <1>4, <2>2, <2>3, <2>4
<1>7. CASE owner[e] = w /\ failed[w]
  <2>1. /\ made' = [made EXCEPT ![e] = made[e] + 1]
        /\ job' = [job EXCEPT ![e] = IF made[e] + 1 < Attempts THEN "waiting" ELSE "failed"]
        /\ owner' = [owner EXCEPT ![e] = None]
        /\ UNCHANGED stalls
    BY <1>7 DEF FinishJob, CountAttempt, AttemptsLeft
  <2>2. job[e] = "active" /\ made[e] < Attempts /\ stalls[e] <= MaxStalls
    BY <1>1, <1>7 DEF LockInv
  <2>3. TypeOK'
    BY <1>1, <1>2, <2>1, <2>2 DEF TypeOK
  <2>4. QueueInv'
    BY SMTT(20), <1>1, <1>3, <2>1 DEF QueueInv, TypeOK, Subscribers
  <2>5. LockInv'
    BY <1>1, <2>1, <2>2 DEF LockInv, TypeOK
  <2>6. NeverSilentlyDropped'
    BY <1>1, <2>1 DEF NeverSilentlyDropped, TypeOK, Subscribers
  <2> QED BY <1>4, <2>3, <2>4, <2>5, <2>6
<1> QED BY <1>5, <1>6, <1>7

\* The inductive invariant holds in every reachable state.
THEOREM DispatchInvariant == Spec => []IInv
<1>1. IInv /\ [Next]_vars => IInv'
  <2> SUFFICES ASSUME IInv, [Next]_vars PROVE IInv'
    OBVIOUS
  <2>1. ASSUME NEW w \in Workers, WorkerStep(w) \/ WorkerCrash(w) PROVE IInv'
    BY <2>1, TakeOrCrashStep, BindingStep, FinishStep DEF WorkerStep
  <2>2. ASSUME NEW e \in Events, Stall(e) \/ Deliver(e) PROVE IInv'
    BY <2>2, QueueStep
  <2>3. CASE UNCHANGED vars
    BY <2>3 DEF vars, dispatchOnly, queueVars, workerVars, handlerVars, IInv,
         TypeOK, DispatchInv, ClaimsMatchWork, LoopInv, Bound, QueueInv, LockInv,
         NeverSilentlyDropped, Subscribers
  <2> QED BY <2>1, <2>2, <2>3 DEF Next, DispatchNext
<1> QED BY <1>1, InitIInv, PTL DEF Spec

\* Every reachable state is well typed.
THEOREM TypeCorrect == Spec => []TypeOK
<1>1. IInv => TypeOK
  BY DEF IInv
<1> QED BY <1>1, DispatchInvariant, PTL

\* dispatch-map.ts: no redelivery, retry or stalled lock makes a consumer
\* commit its work for an event twice.
THEOREM AtMostOnce == Spec => []AppliedAtMostOnce
<1>1. IInv => AppliedAtMostOnce
  BY DEF IInv, DispatchInv, ClaimsMatchWork, AppliedAtMostOnce
<1> QED BY <1>1, DispatchInvariant, PTL

\* event-bus.constants.ts, dispatchEnvelope: an event whose job is gone was applied
\* everywhere, and a job whose attempts are used up left no binding untried.
THEOREM NothingSkipped == Spec => []EveryBindingTried
<1>1. IInv => EveryBindingTried
  BY DEF IInv, DispatchInv, QueueInv, SiblingsNotStarved, EveryBindingTried
<1> QED BY <1>1, DispatchInvariant, PTL

----------------------------------------------------------------------------
\* Each step of the dispatcher is a commit, an application or a stutter of
\* the abstract bus.
LEMMA StepRefines ==
  ASSUME IInv, [Next]_vars
  PROVE  [Delivery!Next]_(Delivery!vars)
<1> USE DEF Delivery!vars
<1>1. ASSUME NEW e \in Events, Deliver(e) PROVE [Delivery!Next]_(Delivery!vars)
  <2>1. UNCHANGED applied
    BY <1>1 DEF Deliver, dispatchOnly, handlerVars
  <2>2. CASE e \in delivered
    BY <1>1, <2>1, <2>2 DEF Deliver
  <2>3. CASE e \notin delivered
    BY <1>1, <2>1, <2>3 DEF Deliver, Delivery!Next, Delivery!Commit
  <2> QED BY <2>2, <2>3
<1>2. ASSUME NEW w \in Workers, CommitWork(w) PROVE [Delivery!Next]_(Delivery!vars)
  <2>1. pc[w] # "idle" /\ Bound(w) /\ UNCHANGED delivered /\ wjob[w] \in delivered
    BY <1>2 DEF CommitWork, UniqueViolation, IInv, DispatchInv, LoopInv
  <2>2. CASE Current(w) \in processed
    BY <1>2, <2>1, <2>2 DEF CommitWork, UniqueViolation
  <2>3. CASE Current(w) \notin processed
    <3> DEFINE e == wjob[w]
               c == Bindings[e][next[w]]
    <3>1. e \in Events /\ c \in Consumers /\ c \in Subscribers(e)
      BY <2>1, CurrentBinding DEF IInv, TypeOK, Bound
    <3>2. applied[<<e, c>>] = 0 /\ applied' = [applied EXCEPT ![<<e, c>>] = 1]
      <4>1. Current(w) = <<e, c>> /\ Current(w) \in Deliveries
        BY <2>1, CurrentBinding DEF Current, IInv
      <4> QED BY <1>2, <2>3, <4>1, FirstClaim DEF CommitWork, UniqueViolation, IInv, DispatchInv
    <3>3. Delivery!Apply(e, c)
      BY <2>1, <3>1, <3>2 DEF Delivery!Apply, Delivery!Subscribers, Subscribers
    <3> QED BY <3>1, <3>3 DEF Delivery!Next
  <2> QED BY <2>2, <2>3
<1>3. ASSUME NEW w \in Workers, (\E e \in Events : TakeJob(w, e)) \/ ReadClaim(w)
               \/ HandlerThrows(w) \/ FinishJob(w) \/ WorkerCrash(w)
      PROVE  UNCHANGED <<delivered, applied>>
  BY <1>3 DEF TakeJob, Available, ReadClaim, HandlerThrows, FinishJob, WorkerCrash, handlerVars
<1>4. ASSUME NEW e \in Events, Stall(e) PROVE UNCHANGED <<delivered, applied>>
  BY <1>4 DEF Stall, handlerVars
<1>5. CASE UNCHANGED vars
  BY <1>5 DEF vars, dispatchOnly, handlerVars
<1>6. CASE Next
  <2>1. CASE \E e \in Events : Deliver(e)
    BY <2>1, <1>1
  <2>2. CASE DispatchNext
    BY <2>2, <1>2, <1>3, <1>4 DEF DispatchNext, WorkerStep
  <2> QED BY <1>6, <2>1, <2>2 DEF Next
<1> QED BY <1>5, <1>6

\* The dispatcher implements the abstract bus: an event is applied only after
\* it was delivered, by its subscribers, and at most once by each.
THEOREM Refinement == Spec => DeliveryRefined
<1>1. Init => Delivery!Init
  BY DEF Init, Delivery!Init, Deliveries
<1> QED BY <1>1, StepRefines, DispatchInvariant, PTL
    DEF Spec, DeliveryRefined, Delivery!Spec
============================================================================
