----------------------- MODULE OutboxPublisherProofs -----------------------
(***************************************************************************)
(* For every set of events, any number of overlapping passes, any batch    *)
(* size and any number of faults: the types, and the at-most-once promise  *)
(* of the publisher.  ClaimInv is inductive: the claim row outlives every  *)
(* pass, so the pass that inserted it is the only one that ever reaches    *)
(* queue.add for the event.                                                *)
(***************************************************************************)
EXTENDS OutboxPublisher, TLAPS

USE PublisherAssumption

\* Every reachable state has the shape of the outbox tables, the passes and
\* the queue described by TypeOK.
THEOREM TypeCorrect == Spec => []TypeOK
<1>1. Init => TypeOK
  BY DEF Init, TypeOK, RowStatus, JobStatus, PassPC
<1>2. TypeOK /\ [Next]_vars => TypeOK'
  <2> SUFFICES ASSUME TypeOK, [Next]_vars PROVE TypeOK'
    OBVIOUS
  <2> USE DEF TypeOK, RowStatus, JobStatus, PassPC
  <2>1. ASSUME NEW e \in Events, Enqueue(e) PROVE TypeOK'
    BY <2>1 DEF Enqueue
  <2>2. ASSUME NEW p \in Passes, PassStep(p) PROVE TypeOK'
    <3>1. CASE StartPass(p)
      BY <3>1 DEF StartPass, Pending
    <3>2. CASE Claim(p)
      BY <3>2 DEF Claim, TakeRow, AfterClaim
    <3>3. CASE EnqueueToBus(p)
      BY <3>3 DEF EnqueueToBus, AddJob
    <3>4. CASE MarkPublished(p)
      BY <3>4 DEF MarkPublished, NextRow
    <3>5. CASE RecordFailure(p)
      BY <3>5 DEF RecordFailure, NextRow
    <3> QED BY <2>2, <3>1, <3>2, <3>3, <3>4, <3>5 DEF PassStep
  <2>3. ASSUME NEW p \in Passes, PassFault(p) PROVE TypeOK'
    <3>1. CASE ClaimFails(p)
      BY <3>1 DEF ClaimFails, Fault, TakeRow
    <3>2. CASE EnqueueFails(p)
      BY <3>2 DEF EnqueueFails, Fault, AddJob
    <3>3. CASE MarkFails(p)
      BY <3>3 DEF MarkFails, Fault
    <3>4. CASE Crash(p)
      BY <3>4 DEF Crash, Fault
    <3> QED BY <2>3, <3>1, <3>2, <3>3, <3>4 DEF PassFault
  <2>4. ASSUME NEW e \in Events, ConsumeJob(e) PROVE TypeOK'
    BY <2>4 DEF ConsumeJob, pubOnly
  <2>5. CASE UNCHANGED vars
    BY <2>5 DEF vars, pubOnly
  <2> QED BY <2>1, <2>2, <2>3, <2>4, <2>5 DEF Next, PublisherNext
<1> QED BY <1>1, <1>2, PTL DEF Spec

----------------------------------------------------------------------------
\* Only a pass at queue.add holds an event; moving a pass anywhere else, and
\* leaving claims and adds alone, keeps the claim invariant.
LEMMA QuietStep ==
  ASSUME TypeOK, ClaimInv, NEW p \in Passes,
         UNCHANGED adds, claimed \subseteq claimed',
         pc' \in [Passes -> PassPC],
         \A q \in Passes : q # p => pc'[q] = pc[q] /\ cur'[q] = cur[q],
         pc'[p] # "enqueue"
  PROVE  ClaimInv'
BY DEF ClaimInv, Holds, TypeOK

\* The handler of the claim's owner: the one place where adds grows.
LEMMA AddStep ==
  ASSUME TypeOK, ClaimInv, NEW p \in Passes,
         pc[p] = "enqueue", AddJob(cur[p]),
         UNCHANGED <<claimed, cur>>,
         \E s \in {"mark", "record"} : pc' = [pc EXCEPT ![p] = s]
  PROVE  ClaimInv'
<1> DEFINE e == cur[p]
<1>1. Holds(p, e) /\ e \in Events /\ e \in claimed
  BY DEF Holds, ClaimInv, TypeOK
<1>2. adds[e] = 0
  BY <1>1 DEF ClaimInv, TypeOK
<1>3. adds' = [adds EXCEPT ![e] = 1]
  BY <1>1, <1>2 DEF AddJob, TypeOK
<1>4. \A q \in Passes, f \in Events : Holds(q, f)' => q # p /\ Holds(q, f)
  BY DEF Holds, TypeOK
<1>5. \A q \in Passes : ~Holds(q, e)'
  BY <1>1, <1>4 DEF ClaimInv
<1> QED BY <1>1, <1>3, <1>4, <1>5 DEF ClaimInv, TypeOK

\* The claim step: the unique constraint lets one pass through per event.
LEMMA ClaimStep ==
  ASSUME TypeOK, ClaimInv, NEW p \in Passes, Claim(p)
  PROVE  ClaimInv'
<1>1. PICK e \in Events :
        /\ TakeRow(p, e)
        /\ pc' = [pc EXCEPT ![p] = AfterClaim(e)]
        /\ claimed' = claimed \cup {e}
  BY DEF Claim
<1>2. UNCHANGED adds
  BY DEF Claim
<1>3. cur' = [cur EXCEPT ![p] = e]
  BY <1>1 DEF TakeRow
<1>4. CASE e \in claimed
  <2>1. pc' = [pc EXCEPT ![p] = "mark"]
    BY <1>1, <1>4 DEF AfterClaim
  <2> QED BY <1>1, <1>2, <1>3, <2>1, QuietStep DEF TypeOK, PassPC
<1>5. CASE e \notin claimed
  <2>1. \A q \in Passes : ~Holds(q, e)
    BY <1>5 DEF ClaimInv
  <2>2. \A q \in Passes, f \in Events :
          Holds(q, f)' => (q = p /\ f = e) \/ (q # p /\ Holds(q, f))
    BY <1>1, <1>3 DEF Holds, TypeOK
  <2>3. adds[e] # 1
    BY <1>5 DEF ClaimInv
  <2> QED BY <1>1, <1>2, <2>1, <2>2, <2>3 DEF ClaimInv
<1> QED BY <1>4, <1>5

\* ClaimInv holds in every reachable state.
THEOREM ClaimInvariant == Spec => []ClaimInv
<1>1. Init => ClaimInv
  BY DEF Init, ClaimInv, Holds
<1>2. TypeOK /\ TypeOK' /\ ClaimInv /\ [Next]_vars => ClaimInv'
  <2> SUFFICES ASSUME TypeOK, TypeOK', ClaimInv, [Next]_vars PROVE ClaimInv'
    OBVIOUS
  <2>1. ASSUME NEW e \in Events, Enqueue(e) PROVE ClaimInv'
    BY <2>1 DEF Enqueue, ClaimInv, Holds
  <2>2. ASSUME NEW p \in Passes, PassStep(p) PROVE ClaimInv'
    <3>1. CASE StartPass(p)
      <4>1. UNCHANGED <<adds, claimed, cur>> /\ pc' = [pc EXCEPT ![p] = "claim"]
        BY <3>1 DEF StartPass
      <4> QED BY <4>1, QuietStep DEF TypeOK, PassPC
    <3>2. CASE Claim(p)
      BY <3>2, ClaimStep
    <3>3. CASE EnqueueToBus(p)
      BY <3>3, AddStep DEF EnqueueToBus
    <3>4. CASE MarkPublished(p)
      BY <3>4, QuietStep DEF MarkPublished, NextRow, TypeOK, PassPC
    <3>5. CASE RecordFailure(p)
      BY <3>5, QuietStep DEF RecordFailure, NextRow, TypeOK, PassPC
    <3> QED BY <2>2, <3>1, <3>2, <3>3, <3>4, <3>5 DEF PassStep
  <2>3. ASSUME NEW p \in Passes, PassFault(p) PROVE ClaimInv'
    <3>1. CASE ClaimFails(p)
      BY <3>1, QuietStep DEF ClaimFails, TakeRow, TypeOK, PassPC
    <3>2. CASE EnqueueFails(p)
      <4>1. CASE AddJob(cur[p])
        BY <3>2, <4>1, AddStep DEF EnqueueFails
      <4>2. CASE UNCHANGED <<job, adds>>
        BY <3>2, <4>2, QuietStep DEF EnqueueFails, TypeOK, PassPC
      <4> QED BY <3>2, <4>1, <4>2 DEF EnqueueFails
    <3>3. CASE MarkFails(p)
      BY <3>3, QuietStep DEF MarkFails, TypeOK, PassPC
    <3>4. CASE Crash(p)
      BY <3>4, QuietStep DEF Crash, TypeOK, PassPC
    <3> QED BY <2>3, <3>1, <3>2, <3>3, <3>4 DEF PassFault
  <2>4. ASSUME NEW e \in Events, ConsumeJob(e) PROVE ClaimInv'
    BY <2>4 DEF ConsumeJob, pubOnly, ClaimInv, Holds
  <2>5. CASE UNCHANGED vars
    BY <2>5 DEF vars, pubOnly, ClaimInv, Holds
  <2> QED BY <2>1, <2>2, <2>3, <2>4, <2>5 DEF Next, PublisherNext
<1> QED BY <1>1, <1>2, TypeCorrect, PTL DEF Spec

----------------------------------------------------------------------------
\* A step without a fault loses no claim: a pass leaves queue.add only by adding
\* the event it holds.
LEMMA LosesNothing ==
  ASSUME TypeOK, ClaimInv, NothingLost, [Next]_vars
  PROVE  NothingLost'
<1> SUFFICES ASSUME faults' = 0 PROVE NothingLost'
  BY DEF NothingLost
\* A step of a pass that holds nothing, and claims and adds nothing.
<1>h. ASSUME NEW p \in Passes, pc[p] # "enqueue", UNCHANGED <<adds, claimed>>, faults = 0,
             \A q \in Passes : q # p => pc'[q] = pc[q] /\ cur'[q] = cur[q],
             pc'[p] # "mark",
             \A e \in Events : row'[e] = "published" => e \in claimed
      PROVE  NothingLost'
  <2>1. \A q \in Passes, e \in Events : Holds(q, e) => Holds(q, e)'
    BY <1>h DEF Holds
  <2>2. \A e \in claimed : adds[e] = 1 \/ \E q \in Passes : Holds(q, e)
    BY <1>h DEF NothingLost
  <2>3. claimed \subseteq Events
    BY DEF TypeOK
  <2>4. \A e \in claimed' : adds'[e] = 1 \/ \E q \in Passes : Holds(q, e)'
    BY <1>h, <2>1, <2>2, <2>3
  <2>5. \A q \in Passes : pc'[q] = "mark" => cur'[q] \in claimed'
    BY <1>h DEF NothingLost
  <2> QED BY <1>h, <2>4, <2>5 DEF NothingLost
<1>1. ASSUME NEW e \in Events, Enqueue(e) PROVE NothingLost'
  BY <1>1 DEF Enqueue, NothingLost, Holds, TypeOK
<1>2. ASSUME NEW p \in Passes, StartPass(p) \/ RecordFailure(p) PROVE NothingLost'
  <2>1. /\ pc[p] \in {"idle", "record"} /\ UNCHANGED <<adds, claimed, faults, row>>
        /\ \A q \in Passes : q # p => pc'[q] = pc[q] /\ cur'[q] = cur[q]
        /\ pc'[p] \in {"idle", "claim"}
    BY <1>2 DEF StartPass, RecordFailure, NextRow, TypeOK
  <2> QED BY <1>h, <2>1 DEF NothingLost
<1>3. ASSUME NEW p \in Passes, MarkPublished(p) PROVE NothingLost'
  <2>1. /\ pc[p] = "mark" /\ UNCHANGED <<adds, claimed, faults>>
        /\ row' = [row EXCEPT ![cur[p]] = "published"]
        /\ \A q \in Passes : q # p => pc'[q] = pc[q] /\ cur'[q] = cur[q]
        /\ pc'[p] \in {"idle", "claim"}
    BY <1>3 DEF MarkPublished, NextRow, TypeOK
  <2>2. cur[p] \in claimed /\ \A e \in Events : row[e] = "published" => e \in claimed
    BY <2>1 DEF NothingLost
  <2>3. \A e \in Events : row'[e] = "published" => e \in claimed
    BY <2>1, <2>2 DEF TypeOK
  <2> QED BY <1>h, <2>1, <2>3
<1>4. ASSUME NEW p \in Passes, Claim(p) PROVE NothingLost'
  <2>1. PICK e \in Events :
          /\ TakeRow(p, e)
          /\ pc' = [pc EXCEPT ![p] = AfterClaim(e)]
          /\ claimed' = claimed \cup {e}
    BY <1>4 DEF Claim
  <2>2. cur' = [cur EXCEPT ![p] = e] /\ pc[p] = "claim" /\ UNCHANGED <<row, adds, faults>>
    BY <1>4, <2>1 DEF TakeRow, Claim
  <2>3. \A q \in Passes, f \in Events : Holds(q, f) => Holds(q, f)'
    BY <2>1, <2>2 DEF Holds, TypeOK
  <2>4. e \in claimed \/ Holds(p, e)'
    BY <2>1, <2>2 DEF Holds, AfterClaim, TypeOK
  <2>5. \A f \in claimed : f \in Events /\ (adds[f] = 1 \/ \E q \in Passes : Holds(q, f))
    BY <2>2 DEF NothingLost, TypeOK
  <2>6. \A f \in claimed' : adds'[f] = 1 \/ \E q \in Passes : Holds(q, f)'
    BY <2>1, <2>2, <2>3, <2>4, <2>5
  <2>7. \A q \in Passes : pc'[q] = "mark" => cur'[q] \in claimed'
    BY <2>1, <2>2 DEF NothingLost, TypeOK
  <2> QED BY <2>1, <2>2, <2>6, <2>7 DEF NothingLost
<1>5. ASSUME NEW p \in Passes, EnqueueToBus(p) PROVE NothingLost'
  <2>1. /\ pc[p] = "enqueue" /\ cur[p] \in Events /\ Holds(p, cur[p])
        /\ adds' = [adds EXCEPT ![cur[p]] = @ + 1] /\ pc' = [pc EXCEPT ![p] = "mark"]
        /\ UNCHANGED <<row, claimed, cur, faults>>
    BY <1>5 DEF EnqueueToBus, AddJob, Holds, TypeOK
  <2>2. adds[cur[p]] = 0 /\ cur[p] \in claimed
    BY <2>1 DEF ClaimInv, TypeOK
  <2>3. \A f \in claimed : f \in Events /\ (adds[f] = 1 \/ \E q \in Passes : Holds(q, f))
    BY <2>1 DEF NothingLost, TypeOK
  <2>4. \A q \in Passes, f \in Events : Holds(q, f) /\ f # cur[p] => Holds(q, f)'
    BY <2>1 DEF Holds, TypeOK
  <2>5. \A f \in claimed' : adds'[f] = 1 \/ \E q \in Passes : Holds(q, f)'
    BY <2>1, <2>2, <2>3, <2>4 DEF TypeOK
  <2>6. \A q \in Passes : pc'[q] = "mark" => cur'[q] \in claimed'
    BY <2>1, <2>2 DEF NothingLost, TypeOK
  <2> QED BY <2>1, <2>5, <2>6 DEF NothingLost
<1>6. ASSUME NEW p \in Passes, PassFault(p) PROVE NothingLost'
  BY <1>6 DEF PassFault, ClaimFails, EnqueueFails, MarkFails, Crash, Fault, TypeOK
<1>7. ASSUME UNCHANGED vars \/ \E e \in Events : ConsumeJob(e) PROVE NothingLost'
  BY <1>7 DEF ConsumeJob, vars, pubOnly, NothingLost, Holds
<1> QED BY <1>1, <1>2, <1>3, <1>4, <1>5, <1>6, <1>7 DEF Next, PublisherNext, PassStep

\* NothingLost holds in every reachable state.
LEMMA NothingIsLost == Spec => []NothingLost
<1>1. Init => NothingLost
  BY DEF Init, NothingLost, Holds
<1>2. TypeOK /\ ClaimInv /\ NothingLost /\ [Next]_vars => NothingLost'
  BY LosesNothing
<1> QED BY <1>1, <1>2, TypeCorrect, ClaimInvariant, PTL DEF Spec

\* worker/src/main.ts, drainOutbox: however many passes overlap, fail or crash, an
\* event is handed to the queue at most once; and until something fails, a published
\* row is one that was handed over or is about to be.
THEOREM ExactlyOnce == Spec => []EnqueuedOnce
<1>1. TypeOK /\ ClaimInv /\ NothingLost => EnqueuedOnce
  BY DEF TypeOK, ClaimInv, NothingLost, EnqueuedOnce, PublishedWasEnqueued
<1> QED BY <1>1, TypeCorrect, ClaimInvariant, NothingIsLost, PTL
============================================================================
