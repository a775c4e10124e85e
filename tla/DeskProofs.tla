----------------------------- MODULE DeskProofs -----------------------------
(* Proofs about the desks where people file, capture and decide: triage    *)
(* proposes and a person decides, sweeps re-file nothing, a link follows   *)
(* its person through merges, a person's own words outlive the minutes, a  *)
(* project keeps one live quote, one creation at a time takes a free ref,  *)
(* a capture becomes one inspection, and with events in commit order the   *)
(* release gate follows the latest one.                                    *)
EXTENDS QualityGate, SignalDesk, Intake, UzaId, Week, Quotation, ReadableRefs, FiniteSetTheorems,
        WellFoundedInduction, TLAPS

----------------------------------------------------------------------------
(* The signal desk                                                         *)

\* A signal somebody decided is no longer new, so that no run takes it; and
\* unless a run had it in hand then, it stands as they left it.
WordStands(s) ==
  word[s] # "none" =>
    /\ signal[s] \in DeskStatuses \ {"new"}
    /\ s \notin contested =>
         /\ signal[s] = word[s]
         /\ \A r \in TriageRuns : s \notin asking[r]

DeskInv == DeskTypeOK /\ \A s \in DeskSignals : WordStands(s)

LEMMA DeskInitInv == ASSUME DeskInit PROVE DeskInv
  BY DEF DeskInit, DeskInv, DeskTypeOK, WordStands

LEMMA DeskTypeStep == ASSUME DeskTypeOK, [DeskNext]_deskVars PROVE DeskTypeOK'
  <1> USE DEF DeskTypeOK, DeskStatuses
  <1>1. ASSUME NEW s \in DeskSignals, FileSignal(s) PROVE DeskTypeOK'
    BY <1>1 DEF FileSignal
  <1>2. ASSUME NEW s \in DeskSignals, Dismiss(s) PROVE DeskTypeOK'
    BY <1>2 DEF Dismiss, Decide
  <1>3. ASSUME NEW s \in DeskSignals, Share(s) PROVE DeskTypeOK'
    BY <1>3 DEF Share
  <1>4. ASSUME NEW c \in Promoters, NEW s \in DeskSignals, PromoteReads(c, s) PROVE DeskTypeOK'
    BY <1>4 DEF PromoteReads
  <1>5. ASSUME NEW r \in TriageRuns, NEW s \in DeskSignals, TriageWrites(r, s) \/ TriageSkips(r, s)
        PROVE  DeskTypeOK'
    BY <1>5 DEF TriageWrites, TriageSkips, Heard
  <1>6. ASSUME NEW r \in TriageRuns, TriageStarts(r) PROVE DeskTypeOK'
    BY <1>6 DEF TriageStarts, NewSignals
  <1>7. ASSUME NEW c \in Promoters, PromoteWrites(c) PROVE DeskTypeOK'
    BY <1>7 DEF PromoteWrites, Decide
  <1>8. CASE UNCHANGED deskVars
    BY <1>8 DEF deskVars
  <1> QED BY <1>1, <1>2, <1>3, <1>4, <1>5, <1>6, <1>7, <1>8 DEF DeskNext

\* What a person decides stands from then on.
LEMMA DecideStands ==
  ASSUME DeskInv, NEW t \in DeskSignals, NEW status \in {"dismissed", "promoted"}, Decide(t, status)
  PROVE  \A s \in DeskSignals : WordStands(s)'
  <1> TAKE s \in DeskSignals
  <1>1. CASE s = t
    BY <1>1 DEF Decide, DeskInv, DeskTypeOK, DeskStatuses, WordStands
  <1>2. CASE s # t
    BY <1>2 DEF Decide, DeskInv, DeskTypeOK, WordStands
  <1> QED BY <1>1, <1>2

LEMMA WordStep ==
  ASSUME DeskInv, [DeskNext]_deskVars
  PROVE  \A s \in DeskSignals : WordStands(s)'
  <1> DEFINE Stand == \A s \in DeskSignals : WordStands(s)
  <1>0. DeskTypeOK /\ Stand
    BY DEF DeskInv
  <1>1. ASSUME NEW t \in DeskSignals, FileSignal(t) PROVE Stand'
    BY <1>0, <1>1 DEF FileSignal, WordStands, DeskTypeOK, DeskStatuses
  <1>2. ASSUME NEW t \in DeskSignals, Dismiss(t) PROVE Stand'
    BY <1>2, DecideStands DEF Dismiss
  <1>3. ASSUME UNCHANGED <<signal, asking, word, contested>> PROVE Stand'
    BY <1>0, <1>3 DEF WordStands
  <1>4. ASSUME NEW r \in TriageRuns, NEW t \in DeskSignals, TriageWrites(r, t) \/ TriageSkips(r, t)
        PROVE  Stand'
    <2>1. t \in asking[r] /\ signal'[t] \in {signal[t], "dismissed", "triaged"}
      BY <1>0, <1>4 DEF TriageWrites, TriageSkips, DeskTypeOK, DeskStatuses
    <2>2. \A q \in TriageRuns : asking'[q] \subseteq asking[q]
      BY <1>0, <1>4 DEF TriageWrites, TriageSkips, Heard, DeskTypeOK
    <2>3. TAKE s \in DeskSignals
    <2>4. CASE s = t
      BY <1>0, <1>4, <2>1, <2>2, <2>4
        DEF TriageWrites, TriageSkips, WordStands, DeskTypeOK, DeskStatuses
    <2>5. CASE s # t
      BY <1>0, <1>4, <2>2, <2>5 DEF TriageWrites, TriageSkips, WordStands, DeskTypeOK
    <2> QED BY <2>4, <2>5
  <1>5. ASSUME NEW r \in TriageRuns, TriageStarts(r) PROVE Stand'
    <2>1. \A q \in TriageRuns : asking'[q] \subseteq asking[q] \cup NewSignals
      BY <1>0, <1>5 DEF TriageStarts, DeskTypeOK
    <2> QED BY <1>0, <1>5, <2>1 DEF TriageStarts, NewSignals, WordStands
  <1>6. ASSUME NEW c \in Promoters, PromoteWrites(c) PROVE Stand'
    <2>1. PICK s \in DeskSignals : Decide(s, "promoted")
      BY <1>0, <1>6 DEF PromoteWrites, DeskTypeOK
    <2> QED BY <2>1, DecideStands
  <1>7. CASE UNCHANGED deskVars
    BY <1>3, <1>7 DEF deskVars
  <1> QED
    BY <1>1, <1>2, <1>3, <1>4, <1>5, <1>6, <1>7 DEF DeskNext, Share, PromoteReads

\* Triage proposes, and a person acts (TriageService.run): no run undoes what
\* somebody decided of a signal, unless it had read the signal as new before and
\* was still to write its answer (contested); for any number of signals, runs
\* and promotions.
THEOREM PeopleHaveTheWord == DeskSpec => []PeopleDecide
  <1>1. DeskInit => DeskInv
    BY DeskInitInv
  <1>2. DeskInv /\ [DeskNext]_deskVars => DeskInv'
    BY DeskTypeStep, WordStep DEF DeskInv
  <1>3. DeskInv => PeopleDecide
    BY DEF DeskInv, WordStands, PeopleDecide
  <1> QED BY <1>1, <1>2, <1>3, PTL DEF DeskSpec
----------------------------------------------------------------------------
(* Numbers                                                                 *)

\* A set of numbers that is not empty has a least one.
LEMMA LeastExists ==
  ASSUME NEW T \in SUBSET Nat, T # {}
  PROVE  \E n \in T : \A m \in T : n <= m
  <1> DEFINE below(n) == 0..(n - 1)
             Family == {below(n) : n \in T}
  <1>1. Family \subseteq FiniteSubsetsOf(Nat) /\ Family # {}
    <2>1. ASSUME NEW n \in T PROVE below(n) \in FiniteSubsetsOf(Nat)
      <3>1. n - 1 \in Int /\ 0 \in Int
        OBVIOUS
      <3>2. IsFiniteSet(below(n))
        BY <3>1, FS_Interval
      <3> QED BY <3>2 DEF FiniteSubsetsOf
    <2> QED BY <2>1
  <1>2. IsWellFoundedOn(StrictSubsetOrdering(Nat), FiniteSubsetsOf(Nat))
    BY FS_StrictSubsetOrderingWellFounded
  <1>3. PICK x \in Family : \A y \in Family : <<y, x>> \notin StrictSubsetOrdering(Nat)
    <2> HIDE DEF Family
    <2> QED BY <1>1, <1>2, WFMin
  <1>4. PICK n \in T : x = below(n)
    BY <1>3
  <1>5. ASSUME NEW m \in T, m < n PROVE FALSE
    <2>1. below(m) \in Family /\ below(m) \in SUBSET Nat /\ below(n) \in SUBSET Nat
      OBVIOUS
    <2>2. below(m) \subseteq below(n) /\ m \in below(n) /\ m \notin below(m)
      BY <1>5
    <2>3. <<below(m), x>> \in StrictSubsetOrdering(Nat)
      BY <1>4, <2>1, <2>2 DEF StrictSubsetOrdering
    <2> QED BY <1>3, <2>1, <2>3
  <1> QED BY <1>4, <1>5

\* A bounded one has a greatest: what its members lack to the bound has a least.
LEMMA GreatestExists ==
  ASSUME NEW b \in Nat, NEW T \in SUBSET (0..b), T # {}
  PROVE  \E n \in T : \A m \in T : n >= m
  <1> DEFINE Lacks == {k \in 0..b : b - k \in T}
  <1>1. ASSUME NEW m \in T PROVE m \in 0..b /\ b - m \in Lacks
    <2>1. m \in 0..b /\ b - m \in 0..b /\ b - (b - m) = m
      OBVIOUS
    <2> QED BY <2>1
  <1>2. \A k \in Lacks : k \in 0..b /\ k \in Nat /\ b - k \in T
    OBVIOUS
  <1> HIDE DEF Lacks
  <1>3. PICK k \in Lacks : \A j \in Lacks : k <= j
    <2>1. Lacks \in SUBSET Nat /\ Lacks # {}
      BY <1>1, <1>2
    <2> QED BY <2>1, LeastExists
  <1>4. ASSUME NEW m \in T PROVE b - k >= m
    <2>1. k <= b - m
      BY <1>1, <1>3
    <2> QED BY <1>1, <1>2, <1>3, <2>1
  <1> QED BY <1>2, <1>3, <1>4

----------------------------------------------------------------------------
(* The intake                                                              *)

LEMMA WatermarkType == ASSUME IntakeTypeOK PROVE Watermark \in 0..MaxTime
  <1> DEFINE T == {capturedAt[i] : i \in Signals} \cup {0}
  <1>1. T \in SUBSET (0..MaxTime) /\ T # {} /\ MaxTime \in Nat
    BY IntakeAssumption DEF IntakeTypeOK
  <1>2. \E n \in T : \A m \in T : n >= m
    <2> HIDE DEF T
    <2> QED BY <1>1, GreatestExists
  <1>3. Watermark \in T
    BY <1>2 DEF Watermark, Max
  <1> QED BY <1>1, <1>3

LEMMA FiledCounted ==
  Cardinality(Signals) \in Nat /\ Cardinality(Filed) \in 0..Cardinality(Signals)
  <1>1. IsFiniteSet(Signals)
    BY IntakeAssumption, FS_Union DEF Signals
  <1>2. Filed \in SUBSET Signals
    BY DEF Filed
  <1>3. IsFiniteSet(Filed) /\ Cardinality(Filed) <= Cardinality(Signals)
    BY <1>1, <1>2, FS_Subset
  <1> QED BY <1>1, <1>3, FS_CardinalityType

LEMMA IntakeInitTypes == ASSUME IntakeInit PROVE IntakeTypeOK
  <1>1. IsFiniteSet(Signals) /\ Cardinality(Signals) \in Nat
    BY IntakeAssumption, FS_Union, FS_CardinalityType DEF Signals
  <1>2. Resting \in SweepStates
    BY <1>1, IntakeAssumption DEF Resting, SweepStates
  <1> QED BY <1>2, IntakeAssumption DEF IntakeInit, IntakeTypeOK, Resting

\* A sweep keeps its type when its fields do.
LEMMA SweepTyped ==
  ASSUME IntakeTypeOK, UNCHANGED <<now, occurred>>, capturedAt' \in [Signals -> 0..MaxTime],
         NEW w \in Sweeps, NEW r \in SweepStates, sweep' = [sweep EXCEPT ![w] = r],
         r.left \subseteq IF r.pc = "insert" THEN Messages ELSE Sources
  PROVE  IntakeTypeOK'
  BY DEF IntakeTypeOK

LEMMA IntakeTypeStep == ASSUME IntakeTypeOK, [IntakeNext]_intakeVars PROVE IntakeTypeOK'
  <1> USE IntakeAssumption
  <1>0. Resting \in SweepStates
    BY FiledCounted DEF Resting, SweepStates
  <1>1. CASE Tick
    BY <1>1 DEF Tick, IntakeTypeOK
  <1>2. ASSUME NEW m \in Messages, Occur(m) PROVE IntakeTypeOK'
    BY <1>2 DEF Occur, IntakeTypeOK
  <1>3. ASSUME NEW n \in Notes, Add(n) PROVE IntakeTypeOK'
    BY <1>3 DEF Add, IntakeTypeOK, Signals
  <1>4. ASSUME NEW w \in Sweeps, Start(w) PROVE IntakeTypeOK'
    <2> DEFINE r == [pc |-> "collect", since |-> Watermark, left |-> Sources, batch |-> {}, seen |-> 0]
    <2>1. r \in SweepStates
      BY WatermarkType, FiledCounted DEF SweepStates
    <2>2. sweep' = [sweep EXCEPT ![w] = r] /\ UNCHANGED signalVars
      BY <1>4 DEF Start
    <2> HIDE DEF r
    <2>3. r.left \subseteq Sources /\ r.pc = "collect"
      BY DEF r
    <2> QED BY <2>1, <2>2, <2>3, SweepTyped DEF signalVars, IntakeTypeOK
  <1>5. ASSUME NEW w \in Sweeps, NEW s \in Sources, Collect(w, s) PROVE IntakeTypeOK'
    <2>1. PICK got \in SUBSET Messages :
            sweep' = [sweep EXCEPT ![w] = [sweep[w] EXCEPT
              !.batch = @ \cup got, !.left = @ \ {s},
              !.pc = IF sweep[w].left = {s} THEN "record" ELSE "collect"]]
      BY ZenonT(40), <1>5 DEF Collect, IntakeTypeOK
    <2>2. sweep[w] \in SweepStates /\ sweep[w].pc = "collect" /\ sweep[w].left \subseteq Sources
      BY <1>5 DEF Collect, IntakeTypeOK
    <2>3. PICK r : r = [sweep[w] EXCEPT
              !.batch = @ \cup got, !.left = @ \ {s},
              !.pc = IF sweep[w].left = {s} THEN "record" ELSE "collect"]
      OBVIOUS
    <2>4. r \in SweepStates /\ r.left \subseteq Sources /\ r.pc # "insert"
      BY <2>2, <2>3 DEF SweepStates
    <2> QED BY <1>5, <2>1, <2>3, <2>4, SweepTyped DEF Collect, signalVars, IntakeTypeOK
  <1>6. ASSUME NEW w \in Sweeps, NEW m \in Messages, Check(w, m) PROVE IntakeTypeOK'
    <2>2. sweep[w] \in SweepStates /\ sweep[w].pc = "record" /\ sweep[w].left \subseteq Sources
      BY <1>6 DEF Check, IntakeTypeOK
    <2>3. PICK r : r = IF capturedAt[m] # 0
                       THEN [sweep[w] EXCEPT !.batch = @ \ {m}]
                       ELSE [sweep[w] EXCEPT !.pc = "insert", !.left = {m}, !.seen = Cardinality(Filed)]
      OBVIOUS
    <2>4. sweep' = [sweep EXCEPT ![w] = r]
      BY <1>6, <2>2, <2>3 DEF Check
    <2>5. r \in SweepStates /\ r.left \subseteq IF r.pc = "insert" THEN Messages ELSE Sources
      BY <2>2, <2>3, FiledCounted DEF SweepStates
    <2> QED BY <1>6, <2>4, <2>5, SweepTyped DEF Check, signalVars, IntakeTypeOK
  <1>7. ASSUME NEW w \in Sweeps, Insert(w) PROVE IntakeTypeOK'
    <2>1. PICK m \in sweep[w].left :
            \/ /\ Refused(m) \/ Cardinality(Filed) # sweep[w].seen
               /\ sweep' = [sweep EXCEPT ![w] = Resting]
               /\ UNCHANGED capturedAt
            \/ /\ ~Refused(m)
               /\ capturedAt' = [capturedAt EXCEPT ![m] = now]
               /\ sweep' = [sweep EXCEPT ![w].pc = "record", ![w].left = {},
                                         ![w].batch = @ \ {m}]
      BY <1>7, Zenon DEF Insert
    <2>2. sweep[w] \in SweepStates /\ m \in Messages /\ UNCHANGED <<now, occurred>>
      BY <1>7, <2>1 DEF Insert, IntakeTypeOK
    <2>3. capturedAt' \in [Signals -> 0..MaxTime]
      BY <2>1, <2>2 DEF IntakeTypeOK, Signals
    <2>4. CASE sweep' = [sweep EXCEPT ![w] = Resting]
      BY <1>0, <2>2, <2>3, <2>4, SweepTyped DEF Resting
    <2>5. CASE sweep' = [sweep EXCEPT ![w].pc = "record", ![w].left = {}, ![w].batch = @ \ {m}]
      <3>1. PICK r : r = [sweep[w] EXCEPT !.pc = "record", !.left = {}, !.batch = @ \ {m}]
        OBVIOUS
      <3>2. r \in SweepStates /\ r.left = {} /\ r.pc = "record"
        BY <2>2, <3>1 DEF SweepStates
      <3>3. sweep' = [sweep EXCEPT ![w] = r]
        BY <2>2, <2>5, <3>1 DEF SweepStates, IntakeTypeOK
      <3> QED BY <2>2, <2>3, <3>2, <3>3, SweepTyped
    <2> QED BY <2>1, <2>4, <2>5
  <1>8. ASSUME NEW w \in Sweeps, Finish(w) PROVE IntakeTypeOK'
    BY <1>0, <1>8, SweepTyped DEF Finish, Resting, signalVars, IntakeTypeOK
  <1>9. CASE UNCHANGED intakeVars
    BY <1>9 DEF intakeVars, IntakeTypeOK
  <1> QED BY <1>1, <1>2, <1>3, <1>4, <1>5, <1>6, <1>7, <1>8, <1>9 DEF IntakeNext

\* Type correctness of the intake (SignalService.sweep): watermarks are
\* instants of the past, sweeps file messages of the sources.
THEOREM IntakeTypeCorrect == IntakeSpec => []IntakeTypeOK
  <1>1. IntakeInit => IntakeTypeOK
    BY IntakeInitTypes
  <1>2. IntakeTypeOK /\ [IntakeNext]_intakeVars => IntakeTypeOK'
    BY IntakeTypeStep
  <1> QED BY <1>1, <1>2, PTL DEF IntakeSpec

\* Overlapping sweeps re-file nothing (SignalService.sweep): for any sources,
\* messages and number of sweeps, no step writes a row that exists.
THEOREM FiledOnce == IntakeSpec => RefilesNothing
  <1> DEFINE Kept == \A i \in Signals : capturedAt[i] # 0 => capturedAt'[i] = capturedAt[i]
  <1>1. ASSUME IntakeTypeOK, [IntakeNext]_intakeVars PROVE Kept
    <2>1. ASSUME NEW n \in Notes, Add(n) PROVE Kept
      BY <1>1, <2>1 DEF Add, IntakeTypeOK, Signals
    <2>2. ASSUME NEW w \in Sweeps, Insert(w) PROVE Kept
      BY <1>1, <2>2 DEF Insert, Refused, IntakeTypeOK, Signals
    <2>3. ASSUME UNCHANGED capturedAt PROVE Kept
      BY <2>3
    <2> QED
      BY <1>1, <2>1, <2>2, <2>3
        DEF IntakeNext, intakeVars, Tick, Occur, Start, Collect, Check, Finish, signalVars
  <1>2. ASSUME IntakeTypeOK, [IntakeNext]_intakeVars PROVE [Kept]_intakeVars
    BY <1>1, <1>2
  <1> QED BY <1>2, IntakeTypeCorrect, PTL DEF IntakeSpec, RefilesNothing

----------------------------------------------------------------------------
(* The UZA ID                                                              *)

\* What a caller's request is about exists: the person it found, and the two
\* people of a merge, who are not the same.
CallsOnRegistered ==
  \A s \in Staff :
    /\ call[s].pc \in {"attach", "fill"} => call[s].person \in Registered
    /\ call[s].pc \in {"list", "move"} =>
         /\ call[s].loser \in Registered /\ call[s].winner \in Registered
         /\ call[s].loser # call[s].winner

\* The links a merge has listed are still the loser's when it moves them.
ListStands ==
  \A s \in Mergers : call[s].pc = "move" =>
    \A a \in call[s].accounts : linked[a] = call[s].loser

UzaInv == UzaTypeOK /\ CallsOnRegistered

\* What a request carries, by what it is about to do.
LEMMA CallTypes ==
  ASSUME UzaTypeOK, NEW s \in Staff
  PROVE  /\ call[s].pc \in {"phone", "create"} => call[s].account \in Accounts
         /\ call[s].pc \in {"attach", "fill"} =>
              call[s] \in [pc : {"attach", "fill"}, account : Accounts, person : People,
                           nid : NationalIds \cup {NoKey}, phone : Phones \cup {NoKey}]
         /\ call[s].pc \in {"list", "move"} =>
              call[s] \in [pc : {"list", "move"}, loser : People, winner : People,
                           accounts : SUBSET Accounts,
                           nid : NationalIds \cup {NoKey}, phone : Phones \cup {NoKey}]
  BY DEF UzaTypeOK, Calls, Quiet

LEMMA UzaInitInv == ASSUME UzaInit PROVE UzaInv /\ ListStands
  BY UzaAssumption
    DEF UzaInit, UzaInv, UzaTypeOK, CallsOnRegistered, ListStands, Calls, Quiet, People

\* A caller goes on to another request, and the rows stay.
LEMMA CallSteps ==
  ASSUME UzaInv, NEW s \in Staff, NEW r \in Calls, call' = [call EXCEPT ![s] = r], UNCHANGED rows,
         r.pc \in {"attach", "fill"} => r.person \in Registered,
         r.pc \in {"list", "move"} =>
           r.loser \in Registered /\ r.winner \in Registered /\ r.loser # r.winner
  PROVE  UzaInv'
  BY DEF UzaInv, UzaTypeOK, CallsOnRegistered, rows, Registered

\* The rows are written, and the caller returns.
LEMMA CallReturns ==
  ASSUME UzaInv, UzaTypeOK', NEW s \in Staff, Return(s), issued <= issued'
  PROVE  UzaInv'
  BY DEF UzaInv, UzaTypeOK, CallsOnRegistered, Return, Quiet, Registered

LEMMA MatchedInv ==
  ASSUME UzaInv, NEW s \in Staff, NEW a \in Accounts, NEW p \in Registered, Matched(s, a, p),
         UNCHANGED rows
  PROVE  UzaInv'
  <1> DEFINE r == [pc |-> "attach", account |-> a, person |-> p,
                   nid |-> IF nid[p] = NoKey THEN NidOf[a] ELSE NoKey,
                   phone |-> IF phone[p] = NoKey THEN PhoneOf[a] ELSE NoKey]
  <1>1. p \in People
    BY UzaAssumption DEF UzaInv, UzaTypeOK, Registered, People
  <1>2. r \in Calls /\ r.pc = "attach" /\ r.person = p
    BY <1>1, UzaAssumption DEF Calls
  <1>3. call' = [call EXCEPT ![s] = r]
    BY DEF Matched
  <1> HIDE DEF r
  <1> QED BY <1>2, <1>3, CallSteps

LEMMA ResolveInv ==
  ASSUME UzaInv, NEW s \in Staff, NEW a \in Accounts, Resolve(s, a) PROVE UzaInv'
  <1>1. CASE \E p \in Registered : Matched(s, a, p)
    BY <1>1, MatchedInv DEF Resolve
  <1>2. CASE call' = [call EXCEPT ![s] = [pc |-> "phone", account |-> a]]
    <2>1. PICK r : r = [pc |-> "phone", account |-> a]
      OBVIOUS
    <2>2. r \in Calls /\ r.pc = "phone"
      BY <2>1 DEF Calls
    <2> QED BY <1>2, <2>1, <2>2, CallSteps DEF Resolve
  <1> QED BY <1>1, <1>2 DEF Resolve

LEMMA LookUpPhoneInv == ASSUME UzaInv, NEW s \in Staff, LookUpPhone(s) PROVE UzaInv'
  <1> PICK a : a = call[s].account
    OBVIOUS
  <1>0. a \in Accounts
    BY CallTypes DEF LookUpPhone, UzaInv
  <1>1. CASE \E p \in Registered : Matched(s, a, p)
    BY <1>0, <1>1, MatchedInv DEF LookUpPhone
  <1>2. CASE call' = [call EXCEPT ![s] = [pc |-> "create", account |-> a]]
    <2>1. PICK r : r = [pc |-> "create", account |-> a]
      OBVIOUS
    <2>2. r \in Calls /\ r.pc = "create"
      BY <1>0, <2>1 DEF Calls
    <2> QED BY <1>2, <2>1, <2>2, CallSteps DEF LookUpPhone
  <1> QED BY <1>1, <1>2 DEF LookUpPhone

LEMMA AttachInv == ASSUME UzaInv, NEW s \in Staff, Attach(s) PROVE UzaInv'
  <1> PICK a, p : a = call[s].account /\ p = call[s].person
    OBVIOUS
  <1>0. a \in Accounts /\ p \in Registered
    BY CallTypes DEF Attach, UzaInv, CallsOnRegistered
  <1>1. linked' \in [Accounts -> Registered \cup {NoPerson}]
    BY <1>0 DEF Attach, UzaInv, UzaTypeOK
  <1>2. CASE Return(s)
    <2>1. UzaTypeOK'
      BY <1>1, <1>2 DEF Attach, UzaInv, UzaTypeOK, Return, Calls, Registered
    <2> QED BY <1>2, <2>1, CallReturns DEF Attach, UzaInv, UzaTypeOK
  <1>3. CASE call' = [call EXCEPT ![s].pc = "fill"]
    <2>1. PICK r : r = [call[s] EXCEPT !.pc = "fill"]
      OBVIOUS
    <2>2. r \in Calls /\ r.pc = "fill" /\ r.person = p
      BY <2>1, CallTypes DEF Attach, UzaInv, Calls
    <2>3. call' = [call EXCEPT ![s] = r]
      BY <1>3, <2>1 DEF UzaInv, UzaTypeOK
    <2>4. UzaTypeOK'
      BY <1>1, <2>2, <2>3 DEF Attach, UzaInv, UzaTypeOK, Registered
    <2>5. CallsOnRegistered'
      BY <1>0, <2>2, <2>3 DEF Attach, UzaInv, UzaTypeOK, CallsOnRegistered, Registered
    <2> QED BY <2>4, <2>5 DEF UzaInv
  <1> QED BY <1>2, <1>3 DEF Attach

LEMMA FillInv == ASSUME UzaInv, NEW s \in Staff, Fill(s) PROVE UzaInv'
  <1>1. call[s].person \in People
        /\ call[s].nid \in NationalIds \cup {NoKey} /\ call[s].phone \in Phones \cup {NoKey}
    BY CallTypes DEF Fill, UzaInv
  <1>2. nid' \in [People -> NationalIds \cup {NoKey}] /\ phone' \in [People -> Phones \cup {NoKey}]
    BY <1>1 DEF Fill, UzaInv, UzaTypeOK, Or
  <1>3. UzaTypeOK'
    BY <1>2 DEF Fill, UzaInv, UzaTypeOK, Return, Calls, Registered
  <1> QED BY <1>3, CallReturns DEF Fill, UzaInv, UzaTypeOK

LEMMA CreateInv == ASSUME UzaInv, NEW s \in Staff, Create(s) PROVE UzaInv'
  <1> PICK a : a = call[s].account
    OBVIOUS
  <1>0. a \in Accounts
    BY CallTypes DEF Create, UzaInv
  <1>1. CASE UNCHANGED <<issued, nid, phone, linked>>
    <2>1. UzaTypeOK'
      BY <1>1 DEF Create, UzaInv, UzaTypeOK, Return, Calls, Registered
    <2> QED BY <1>1, <2>1, CallReturns DEF Create, UzaInv, UzaTypeOK
  <1>2. CASE /\ issued + 1 \in People
             /\ issued' = issued + 1
             /\ nid' = [nid EXCEPT ![issued + 1] = NidOf[a]]
             /\ phone' = [phone EXCEPT ![issued + 1] = PhoneOf[a]]
             /\ linked' = [linked EXCEPT ![a] = issued + 1]
    <2>1. issued' \in 0..MaxPeople /\ issued <= issued'
          /\ Registered \subseteq Registered' /\ issued + 1 \in Registered'
      BY <1>2, UzaAssumption DEF UzaInv, UzaTypeOK, People, Registered
    <2>2. nid' \in [People -> NationalIds \cup {NoKey}] /\ phone' \in [People -> Phones \cup {NoKey}]
      BY <1>0, <1>2, UzaAssumption DEF UzaInv, UzaTypeOK
    <2>3. linked' \in [Accounts -> Registered' \cup {NoPerson}]
          /\ mergedInto' \in [People -> Registered' \cup {NoPerson}]
      BY <1>0, <1>2, <2>1 DEF Create, UzaInv, UzaTypeOK
    <2>4. call' \in [Staff -> Calls]
      BY DEF Create, UzaInv, UzaTypeOK, Return, Calls
    <2>5. UzaTypeOK'
      BY <2>1, <2>2, <2>3, <2>4 DEF UzaTypeOK
    <2> QED BY <2>1, <2>5, CallReturns DEF Create
  <1> QED BY <1>1, <1>2 DEF Create

LEMMA LinkInv ==
  ASSUME UzaInv, NEW s \in Staff, NEW p \in Registered, NEW a \in Accounts, Link(s, p, a)
  PROVE  UzaInv'
  BY DEF Link, UzaInv, UzaTypeOK, CallsOnRegistered, Registered

LEMMA MergeInv ==
  ASSUME UzaInv, NEW s \in Mergers, NEW loser \in Registered, NEW winner \in Registered,
         Merge(s, loser, winner)
  PROVE  UzaInv'
  <1>1. PICK r : r = [pc |-> "list", loser |-> loser, winner |-> winner, accounts |-> {},
                      nid |-> Or(nid[winner], nid[loser]), phone |-> Or(phone[winner], phone[loser])]
    OBVIOUS
  <1>2. s \in Staff /\ loser \in People /\ winner \in People
    BY UzaAssumption DEF UzaInv, UzaTypeOK, Registered, People
  <1>3. r \in Calls /\ r.pc = "list" /\ r.loser = loser /\ r.winner = winner
    BY <1>1, <1>2 DEF UzaInv, UzaTypeOK, Calls, Or
  <1>4. call' = [call EXCEPT ![s] = r]
    BY <1>1 DEF Merge
  <1> QED BY <1>2, <1>3, <1>4, CallSteps DEF Merge

LEMMA ListLinksInv == ASSUME UzaInv, NEW s \in Mergers, ListLinks(s) PROVE UzaInv'
  <1>0. s \in Staff
    BY UzaAssumption
  <1>1. PICK listed \in SUBSET Accounts : listed = {a \in Accounts : linked[a] = call[s].loser}
    OBVIOUS
  <1>2. PICK r : r = [call[s] EXCEPT !.pc = "move", !.accounts = listed]
    OBVIOUS
  <1>3. /\ r \in Calls /\ r.pc = "move" /\ r.loser = call[s].loser /\ r.winner = call[s].winner
        /\ r.accounts = listed
    BY <1>0, <1>2, CallTypes DEF ListLinks, UzaInv, Calls
  <1>4. call' = [call EXCEPT ![s] = r]
    BY <1>0, <1>1, <1>2 DEF ListLinks, UzaInv, UzaTypeOK
  <1> QED BY ZenonT(40), <1>0, <1>3, <1>4, CallSteps DEF ListLinks, UzaInv, CallsOnRegistered

LEMMA MoveLinksInv == ASSUME UzaInv, NEW s \in Mergers, MoveLinks(s) PROVE UzaInv'
  <1>0. s \in Staff
    BY UzaAssumption
  <1> PICK loser, winner, listed :
        loser = call[s].loser /\ winner = call[s].winner /\ listed = call[s].accounts
    OBVIOUS
  <1>1. /\ loser \in Registered /\ winner \in Registered /\ loser \in People /\ winner \in People
        /\ call[s].nid \in NationalIds \cup {NoKey} /\ call[s].phone \in Phones \cup {NoKey}
    BY <1>0, CallTypes DEF MoveLinks, UzaInv, CallsOnRegistered
  <1>2. nid' \in [People -> NationalIds \cup {NoKey}] /\ phone' \in [People -> Phones \cup {NoKey}]
    BY <1>1 DEF MoveLinks, UzaInv, UzaTypeOK
  <1>3. linked' \in [Accounts -> Registered \cup {NoPerson}]
        /\ mergedInto' \in [People -> Registered \cup {NoPerson}]
    BY <1>1 DEF MoveLinks, UzaInv, UzaTypeOK, Moved
  <1>4. UzaTypeOK'
    BY <1>2, <1>3 DEF MoveLinks, UzaInv, UzaTypeOK, Return, Calls, Registered
  <1> QED BY <1>0, <1>4, CallReturns DEF MoveLinks, UzaInv, UzaTypeOK

LEMMA UzaStepInv == ASSUME UzaInv, [UzaNext]_uzaVars PROVE UzaInv'
  <1>1. CASE UNCHANGED uzaVars
    BY <1>1 DEF uzaVars, UzaInv, UzaTypeOK, CallsOnRegistered, Registered
  <1> QED
    BY <1>1, ResolveInv, LookUpPhoneInv, AttachInv, FillInv, CreateInv, LinkInv, MergeInv,
       ListLinksInv, MoveLinksInv
      DEF UzaNext

\* Type correctness of the UZA ID (UzaIdService): links and merges name people
\* who exist.
THEOREM UzaTypeCorrect == UzaSpec => []UzaTypeOK
  <1>1. UzaInit => UzaInv
    BY UzaInitInv
  <1>2. UzaInv /\ [UzaNext]_uzaVars => UzaInv'
    BY UzaStepInv
  <1>3. UzaInv => UzaTypeOK
    BY DEF UzaInv
  <1> QED BY <1>1, <1>2, <1>3, PTL DEF UzaSpec

\* Nobody but a merge writes a link that is there.
LEMMA LinksOnlyMove ==
  ASSUME UzaInv, [UzaNext]_uzaVars, ~ \E s \in Mergers : MoveLinks(s)
  PROVE  \A a \in Accounts : linked[a] # NoPerson => linked'[a] = linked[a]
  <1> DEFINE Kept == \A a \in Accounts : linked[a] # NoPerson => linked'[a] = linked[a]
  <1>0. linked \in [Accounts -> Registered \cup {NoPerson}]
    BY DEF UzaInv, UzaTypeOK
  <1>1. ASSUME UNCHANGED linked PROVE Kept
    BY <1>1
  <1>2. ASSUME NEW s \in Staff, Attach(s) PROVE Kept
    BY <1>0, <1>2 DEF Attach
  <1>3. ASSUME NEW s \in Staff, Create(s) PROVE Kept
    BY <1>0, <1>3 DEF Create
  <1>4. ASSUME NEW s \in Staff, NEW p \in Registered, NEW a \in Accounts, Link(s, p, a) PROVE Kept
    BY <1>0, <1>4 DEF Link
  <1> QED
    BY <1>1, <1>2, <1>3, <1>4
      DEF UzaNext, uzaVars, rows, Resolve, LookUpPhone, Fill, Merge, ListLinks

\* With one merge at a time, what it has listed waits for it.
LEMMA ListStandsStep ==
  ASSUME UzaInv, ListStands, \A s, t \in Mergers : s = t, [UzaNext]_uzaVars
  PROVE  ListStands'
  <1>0. UzaTypeOK /\ UzaInv' /\ Mergers \subseteq Staff
    BY UzaStepInv, UzaAssumption DEF UzaInv
  <1> SUFFICES ASSUME NEW s \in Mergers, call'[s].pc = "move", NEW a \in call'[s].accounts
               PROVE  linked'[a] = call'[s].loser
    BY DEF ListStands
  <1>1. CASE ListLinks(s)
    <2>1. call'[s].loser = call[s].loser /\ call'[s].accounts = {b \in Accounts : linked[b] = call[s].loser}
      BY <1>0, <1>1, CallTypes DEF ListLinks, UzaTypeOK
    <2> QED BY <1>1, <2>1 DEF ListLinks, rows
  <1>2. CASE call'[s] = call[s]
    <2>1. linked[a] = call[s].loser /\ a \in Accounts /\ call[s].loser \in Registered
      BY <1>0, <1>2, CallTypes DEF ListStands, UzaInv, CallsOnRegistered
    <2>2. linked[a] # NoPerson
      BY <2>1 DEF Registered, NoPerson
    <2>3. ~ \E t \in Mergers : MoveLinks(t)
      <3>1. ASSUME MoveLinks(s) PROVE FALSE
        BY <1>0, <1>2, <3>1 DEF MoveLinks, Return, UzaTypeOK, Quiet
      <3> QED BY <3>1
    <2> QED BY <1>2, <2>1, <2>2, <2>3, LinksOnlyMove
  <1>3. CASE ~ListLinks(s) /\ call'[s] # call[s]
    <2>1. PICK t \in Staff :
            \/ \E b \in Accounts : Resolve(t, b)
            \/ LookUpPhone(t) \/ Attach(t) \/ Fill(t) \/ Create(t)
            \/ t \in Mergers /\ (MoveLinks(t) \/ \E l, w \in Registered : Merge(t, l, w))
      BY <1>0, <1>3 DEF UzaNext, uzaVars, Link
    <2>2. ASSUME NEW b \in Accounts, Resolve(t, b) PROVE FALSE
      BY <1>0, <1>3, <2>2 DEF Resolve, Matched, UzaTypeOK
    <2>3. ASSUME LookUpPhone(t) PROVE FALSE
      BY <1>0, <1>3, <2>3 DEF LookUpPhone, Matched, UzaTypeOK
    <2>4. ASSUME Attach(t) PROVE FALSE
      BY <1>0, <1>3, <2>4, CallTypes DEF Attach, Return, Quiet, UzaTypeOK
    <2>5. ASSUME Fill(t) \/ Create(t) \/ MoveLinks(t) PROVE FALSE
      BY <1>0, <1>3, <2>5 DEF Fill, Create, MoveLinks, Return, Quiet, UzaTypeOK
    <2>6. ASSUME NEW l \in Registered, NEW w \in Registered, Merge(t, l, w) PROVE FALSE
      BY <1>0, <1>3, <2>6 DEF Merge, UzaTypeOK
    <2> QED BY <2>1, <2>2, <2>3, <2>4, <2>5, <2>6
  <1> QED BY <1>1, <1>2, <1>3

\* With one merge at a time and any number of people, accounts and concurrent
\* resolves, a linked account follows its person: the link is never dropped,
\* and moves only to whom that person was merged into (UzaIdService.merge).
THEOREM LinksFollow ==
  ASSUME \A s, t \in Mergers : s = t
  PROVE  UzaSpec => LinkFollowsPerson
  <1> DEFINE Follows ==
        \A a \in Accounts :
          linked[a] # NoPerson =>
            \/ linked'[a] = linked[a]
            \/ linked'[a] # NoPerson /\ mergedInto'[linked[a]] = linked'[a]
             Stands == UzaInv /\ ListStands
  <1>1. UzaInit => Stands
    BY UzaInitInv
  <1>2. Stands /\ [UzaNext]_uzaVars => Stands'
    BY UzaStepInv, ListStandsStep
  <1>3. Stands /\ [UzaNext]_uzaVars => Follows
    <2> SUFFICES ASSUME Stands, [UzaNext]_uzaVars PROVE Follows
      OBVIOUS
    <2>1. CASE ~ \E s \in Mergers : MoveLinks(s)
      BY <2>1, LinksOnlyMove
    <2>2. ASSUME NEW s \in Mergers, MoveLinks(s) PROVE Follows
      <3> PICK loser, winner, listed :
            loser = call[s].loser /\ winner = call[s].winner /\ listed = call[s].accounts
        OBVIOUS
      <3>1. /\ loser \in People /\ winner \in People /\ loser # winner
            /\ winner # NoPerson
            /\ \A a \in listed : linked[a] = loser
        BY <2>2, CallTypes, UzaAssumption
          DEF MoveLinks, UzaInv, CallsOnRegistered, ListStands, People, NoPerson
      <3>2. CASE UNCHANGED linked
        BY <3>2
      <3>3. CASE linked' = Moved(listed, winner) /\ mergedInto' = [mergedInto EXCEPT ![loser] = winner]
        BY <3>1, <3>3 DEF Moved, UzaInv, UzaTypeOK
      <3> QED BY <2>2, <3>2, <3>3 DEF MoveLinks
    <2> QED BY <2>1, <2>2
  <1>4. Stands /\ [UzaNext]_uzaVars => [Follows]_uzaVars
    BY <1>3
  <1> HIDE DEF Stands, Follows
  <1>5. UzaSpec => [][Follows]_uzaVars
    BY <1>1, <1>2, <1>4, PTL DEF UzaSpec
  <1> QED BY <1>5 DEF Follows, LinkFollowsPerson

----------------------------------------------------------------------------
(* The weekly loop                                                         *)

\* Of a person whose calls never overlapped, at most one is under way, and the
\* plan is still as it read it.
OneCallAbout(p) ==
  p \notin weekRaced =>
    \A c, d \in WeekCalls :
      (/\ weekCall[c] # NoWeekCall /\ weekCall[c].of = p
       /\ weekCall[d] # NoWeekCall /\ weekCall[d].of = p) => c = d
SeenHolds(p) ==
  p \notin weekRaced =>
    \A c \in WeekCalls :
      (weekCall[c].op \in {"minutes", "confirm"} /\ weekCall[c].of = p) =>
        weekCall[c].seen = plan[p].status

WeekInv ==
  /\ WeekTypeOK
  /\ CorrectionsStand
  /\ \A p \in Staffers : OneCallAbout(p) /\ SeenHolds(p)

\* What a call carries, by what it is about to do.
LEMMA WeekCallTypes ==
  ASSUME WeekTypeOK, NEW c \in WeekCalls
  PROVE  /\ weekCall[c] # NoWeekCall => weekCall[c].of \in Staffers
         /\ weekCall[c].op = "minutes" =>
              weekCall[c] \in [op : {"minutes"}, of : Staffers, seen : {"none", "draft", "active"},
                               text : MinuteTexts \cup {NoText}, shipped : BOOLEAN, blocked : BOOLEAN]
         /\ weekCall[c].op = "confirm" =>
              weekCall[c] \in [op : {"confirm"}, of : Staffers, seen : {"none", "draft", "active"},
                               text : OwnTexts]
         /\ weekCall[c].op = "report" => weekCall[c].of \in Staffers
         /\ weekCall[c].op \in {"minutes", "confirm", "report"} => weekCall[c] # NoWeekCall
  BY DEF WeekTypeOK, WeekRequests, NoWeekCall

LEMMA WeekInitInv == ASSUME WeekInit PROVE WeekInv
  <1>1. WeekTypeOK
    BY WeekAssumption DEF WeekInit, WeekTypeOK, WeekRequests, NoWeekPlan, Texts
  <1>2. CorrectionsStand
    BY DEF WeekInit, CorrectionsStand, NoDuplicates, ConfirmedIsKept
  <1>3. \A p \in Staffers : OneCallAbout(p) /\ SeenHolds(p)
    BY DEF WeekInit, OneCallAbout, SeenHolds, NoWeekCall
  <1> QED BY <1>1, <1>2, <1>3 DEF WeekInv

\* A call reads the plan as it is; when another about the person is under way,
\* the person is one of those whose calls overlapped.
LEMMA ReadsPlanInv ==
  ASSUME WeekInv, NEW c \in WeekCalls, NEW r \in WeekRequests \ {NoWeekCall}, ReadsPlan(c, r),
         r.of \in Staffers,
         r.op \in {"minutes", "confirm"} => r.seen = plan[r.of].status
  PROVE  WeekInv'
  <1>1. WeekTypeOK'
    BY DEF ReadsPlan, WeekInv, WeekTypeOK
  <1>2. weekRaced \subseteq weekRaced' /\ weekCall \in [WeekCalls -> WeekRequests]
    BY DEF ReadsPlan, WeekInv, WeekTypeOK
  <1>3. CorrectionsStand'
    BY <1>2 DEF ReadsPlan, WeekInv, CorrectionsStand, NoDuplicates, ConfirmedIsKept
  <1>4. ASSUME NEW p \in Staffers PROVE OneCallAbout(p)' /\ SeenHolds(p)'
    <2>1. OneCallAbout(p)'
      BY <1>2 DEF ReadsPlan, WeekInv, OneCallAbout
    <2>2. SeenHolds(p)'
      BY <1>2 DEF ReadsPlan, WeekInv, SeenHolds
    <2> QED BY <2>1, <2>2
  <1> QED BY <1>1, <1>3, <1>4 DEF WeekInv

\* A call ends: what is left of the others.
LEMMA WeekAnsweredKeeps ==
  ASSUME WeekInv, NEW c \in WeekCalls, weekCall[c] # NoWeekCall, WeekAnswered(c),
         UNCHANGED weekRaced,
         \A q \in Staffers : q # weekCall[c].of => plan'[q] = plan[q]
  PROVE  \A p \in Staffers : OneCallAbout(p)' /\ SeenHolds(p)'
  <1> TAKE p \in Staffers
  <1>1. weekCall \in [WeekCalls -> WeekRequests]
    BY DEF WeekInv, WeekTypeOK
  <1>2. \A d \in WeekCalls : weekCall'[d] = IF d = c THEN NoWeekCall ELSE weekCall[d]
    BY <1>1 DEF WeekAnswered
  <1>3. OneCallAbout(p)'
    BY <1>2 DEF WeekInv, OneCallAbout
  <1>4. SeenHolds(p)'
    <2> SUFFICES ASSUME p \notin weekRaced, NEW d \in WeekCalls,
                        weekCall'[d].op \in {"minutes", "confirm"}, weekCall'[d].of = p
                 PROVE  weekCall'[d].seen = plan'[p].status
      BY DEF SeenHolds
    <2>1. d # c /\ weekCall'[d] = weekCall[d] /\ weekCall[d] # NoWeekCall
      BY <1>2 DEF NoWeekCall
    <2>2. weekCall[c].of # p
      BY <2>1 DEF WeekInv, OneCallAbout
    <2> QED BY <2>1, <2>2 DEF WeekInv, SeenHolds
  <1> QED BY <1>3, <1>4

LEMMA MinutesWriteInv ==
  ASSUME WeekInv, NEW c \in WeekCalls, MinutesWrite(c) PROVE WeekInv'
  <1> PICK r : r = weekCall[c]
    OBVIOUS
  <1> PICK p : p = r.of
    OBVIOUS
  <1>0. /\ weekCall[c] # NoWeekCall /\ p \in Staffers /\ r.text \in Texts
        /\ r.seen \in {"none", "draft", "active"} /\ r.op = "minutes" /\ WeekTypeOK
    BY WeekCallTypes DEF MinutesWrite, WeekInv, Texts
  <1>1. plan' \in {[plan EXCEPT ![p] = [status |-> "draft", text |-> r.text]],
                   [plan EXCEPT ![p].text = r.text], plan}
    BY <1>0 DEF MinutesWrite, StillProposed
  <1>2. plan' \in [Staffers -> [status : {"none", "draft", "active"}, text : Texts]]
    BY <1>0, <1>1 DEF WeekTypeOK
  <1>3. raised' \in [Staffers -> [minutes : 0..MaxBlockers, hand : 0..MaxBlockers]]
        /\ \A q \in Staffers : NoDuplicates(q)'
    <2>1. CASE raised' = raised
      BY <1>0, <2>1 DEF WeekInv, WeekTypeOK, CorrectionsStand, NoDuplicates
    <2>2. CASE ~AlreadyRaised(p) /\ raised' = [raised EXCEPT ![p].minutes = @ + 1]
      <3>1. raised[p].minutes = 0
        BY <1>0, <2>2, WeekAssumption DEF AlreadyRaised, WeekTypeOK
      <3>2. raised' = [raised EXCEPT ![p].minutes = 1]
        BY <1>0, <2>2, <3>1 DEF WeekTypeOK
      <3> QED BY <1>0, <3>2, WeekAssumption DEF WeekInv, WeekTypeOK, CorrectionsStand, NoDuplicates
    <2> QED BY <2>1, <2>2 DEF MinutesWrite
  <1>4. WeekTypeOK'
    <2>1. report' \in [Staffers -> {"none", "minutes", "self"}]
      BY <1>0 DEF MinutesWrite, WeekTypeOK
    <2>2. weekCall' \in [WeekCalls -> WeekRequests]
      BY <1>0 DEF MinutesWrite, WeekAnswered, WeekTypeOK, WeekRequests
    <2> QED BY <1>0, <1>2, <1>3, <2>1, <2>2 DEF MinutesWrite, WeekTypeOK
  <1>5. \A q \in Staffers : q # p => plan'[q] = plan[q]
    BY <1>0, <1>1 DEF WeekTypeOK
  <1>6. ASSUME NEW q \in Staffers, q \notin weekRaced PROVE ConfirmedIsKept(q)'
    <2>1. CASE q # p
      BY <1>5, <1>6, <2>1 DEF MinutesWrite, WeekInv, CorrectionsStand, ConfirmedIsKept
    <2>2. CASE q = p
      <3>1. r.seen = plan[p].status /\ ConfirmedIsKept(p)
        BY <1>0, <1>6, <2>2 DEF WeekInv, SeenHolds, CorrectionsStand
      <3>2. agreed[p] # NoText => plan' = plan
        BY <1>0, <3>1 DEF ConfirmedIsKept, MinutesWrite, StillProposed
      <3> QED BY <2>2, <3>1, <3>2 DEF MinutesWrite, ConfirmedIsKept
    <2> QED BY <2>1, <2>2
  <1>7. CorrectionsStand'
    BY <1>3, <1>6 DEF MinutesWrite, CorrectionsStand
  <1> QED
    BY <1>0, <1>4, <1>5, <1>7, WeekAnsweredKeeps DEF MinutesWrite, WeekInv

LEMMA ConfirmWeekWritesInv ==
  ASSUME WeekInv, NEW c \in WeekCalls, ConfirmWeekWrites(c) PROVE WeekInv'
  <1> PICK r : r = weekCall[c]
    OBVIOUS
  <1> PICK p : p = r.of
    OBVIOUS
  <1>0. /\ weekCall[c] # NoWeekCall /\ p \in Staffers /\ r.text \in Texts /\ WeekTypeOK
    BY WeekCallTypes DEF ConfirmWeekWrites, WeekInv, Texts
  <1>1. /\ plan' = [plan EXCEPT ![p] = [status |-> "active", text |-> r.text]]
        /\ agreed' = [agreed EXCEPT ![p] = r.text]
    BY DEF ConfirmWeekWrites
  <1>2. WeekTypeOK'
    BY <1>0, <1>1 DEF ConfirmWeekWrites, WeekAnswered, WeekTypeOK, WeekRequests
  <1>3. CorrectionsStand'
    BY <1>0, <1>1 DEF ConfirmWeekWrites, WeekInv, WeekTypeOK, CorrectionsStand, NoDuplicates,
                      ConfirmedIsKept
  <1>4. \A q \in Staffers : q # p => plan'[q] = plan[q]
    BY <1>0, <1>1 DEF WeekTypeOK
  <1> QED
    BY <1>0, <1>2, <1>3, <1>4, WeekAnsweredKeeps DEF ConfirmWeekWrites, WeekInv

\* The rest of the writes leave the plans alone.
LEMMA ReportWritesInv ==
  ASSUME WeekInv, NEW c \in WeekCalls, ReportWrites(c) PROVE WeekInv'
  <1>0. weekCall[c] # NoWeekCall /\ weekCall[c].of \in Staffers /\ WeekTypeOK
    BY WeekCallTypes DEF ReportWrites, WeekInv
  <1>1. WeekTypeOK'
    BY <1>0 DEF ReportWrites, WeekAnswered, WeekTypeOK, WeekRequests
  <1>2. CorrectionsStand'
    BY DEF ReportWrites, WeekInv, CorrectionsStand, NoDuplicates, ConfirmedIsKept
  <1> QED BY <1>0, <1>1, <1>2, WeekAnsweredKeeps DEF ReportWrites, WeekInv

LEMMA WeekCallFailsInv ==
  ASSUME WeekInv, NEW c \in WeekCalls, WeekCallFails(c) PROVE WeekInv'
  <1>1. WeekTypeOK'
    BY DEF WeekCallFails, WeekAnswered, WeekInv, WeekTypeOK, WeekRequests
  <1>2. CorrectionsStand'
    BY DEF WeekCallFails, WeekInv, CorrectionsStand, NoDuplicates, ConfirmedIsKept
  <1> QED BY <1>1, <1>2, WeekAnsweredKeeps DEF WeekCallFails, WeekInv

LEMMA BlockersInv ==
  ASSUME WeekInv, UNCHANGED <<plan, report, weekCall, agreed, weekRaced>>, NEW p \in Staffers,
         RaiseBlocker(p) \/ \E by \in {"minutes", "hand"} : ClearBlocker(p, by)
  PROVE  WeekInv'
  <1>1. raised' \in [Staffers -> [minutes : 0..MaxBlockers, hand : 0..MaxBlockers]]
        /\ \A q \in Staffers : raised'[q].minutes <= raised[q].minutes
    <2>1. CASE RaiseBlocker(p)
      BY <2>1, WeekAssumption DEF RaiseBlocker, WeekInv, WeekTypeOK
    <2>2. CASE ClearBlocker(p, "minutes")
      BY <2>2, WeekAssumption DEF ClearBlocker, WeekInv, WeekTypeOK
    <2>3. CASE ClearBlocker(p, "hand")
      BY <2>3, WeekAssumption DEF ClearBlocker, WeekInv, WeekTypeOK
    <2> QED BY <2>1, <2>2, <2>3
  <1>2. WeekTypeOK'
    BY <1>1 DEF WeekInv, WeekTypeOK
  <1>3. \A q \in Staffers : NoDuplicates(q)'
    BY <1>1, WeekAssumption DEF WeekInv, WeekTypeOK, CorrectionsStand, NoDuplicates
  <1>4. CorrectionsStand'
    BY <1>3 DEF WeekInv, CorrectionsStand, ConfirmedIsKept
  <1> QED BY <1>2, <1>4 DEF WeekInv, OneCallAbout, SeenHolds

LEMMA WeekStepInv == ASSUME WeekInv, [WeekNext]_weekVars PROVE WeekInv'
  <1>0. WeekTypeOK
    BY DEF WeekInv
  <1>1. ASSUME NEW c \in WeekCalls, NEW p \in Staffers, MinutesRead(c, p) PROVE WeekInv'
    <2>1. PICK text \in MinuteTexts \cup {NoText}, shipped \in BOOLEAN, blocked \in BOOLEAN :
            ReadsPlan(c, [op |-> "minutes", of |-> p, seen |-> plan[p].status,
                          text |-> text, shipped |-> shipped, blocked |-> blocked])
      BY <1>1 DEF MinutesRead
    <2>2. PICK r : r = [op |-> "minutes", of |-> p, seen |-> plan[p].status,
                        text |-> text, shipped |-> shipped, blocked |-> blocked]
      OBVIOUS
    <2>3. r \in WeekRequests \ {NoWeekCall} /\ r.of = p /\ r.seen = plan[p].status
      BY <1>0, <2>2 DEF WeekRequests, NoWeekCall, WeekTypeOK
    <2> QED BY <2>1, <2>2, <2>3, ReadsPlanInv
  <1>2. ASSUME NEW c \in WeekCalls, NEW p \in Staffers, ConfirmWeekReads(c, p) PROVE WeekInv'
    <2>1. PICK text \in OwnTexts :
            ReadsPlan(c, [op |-> "confirm", of |-> p, seen |-> plan[p].status, text |-> text])
      BY <1>2 DEF ConfirmWeekReads
    <2>2. PICK r : r = [op |-> "confirm", of |-> p, seen |-> plan[p].status, text |-> text]
      OBVIOUS
    <2>3. r \in WeekRequests \ {NoWeekCall} /\ r.of = p /\ r.seen = plan[p].status
      BY <1>0, <2>2 DEF WeekRequests, NoWeekCall, WeekTypeOK
    <2> QED BY <2>1, <2>2, <2>3, ReadsPlanInv
  <1>3. ASSUME NEW c \in WeekCalls, NEW p \in Staffers, ReportReads(c, p) PROVE WeekInv'
    <2>1. PICK r : r = [op |-> "report", of |-> p]
      OBVIOUS
    <2>2. r \in WeekRequests \ {NoWeekCall} /\ r.of = p /\ r.op = "report"
      BY <2>1 DEF WeekRequests, NoWeekCall
    <2> QED BY <1>3, <2>1, <2>2, ReadsPlanInv DEF ReportReads
  <1>4. ASSUME NEW p \in Staffers, RaiseBlocker(p) \/ \E by \in {"minutes", "hand"} : ClearBlocker(p, by)
        PROVE  WeekInv'
    BY <1>4, BlockersInv DEF RaiseBlocker, ClearBlocker
  <1>5. CASE UNCHANGED weekVars
    BY <1>5 DEF weekVars, WeekInv, WeekTypeOK, CorrectionsStand, NoDuplicates, ConfirmedIsKept,
                OneCallAbout, SeenHolds
  <1> QED
    BY <1>1, <1>2, <1>3, <1>4, <1>5, MinutesWriteInv, ConfirmWeekWritesInv, ReportWritesInv,
       WeekCallFailsInv
      DEF WeekNext

\* The meeting does not undo somebody's own correction (RhythmService.ingestMinutes),
\* for any number of people, texts and concurrent calls: what a person confirmed
\* stands unless calls about them overlapped, and no blocker is open twice.
THEOREM OwnWordsStand == WeekSpec => []CorrectionsStand
  <1>1. WeekInit => WeekInv
    BY WeekInitInv
  <1>2. WeekInv /\ [WeekNext]_weekVars => WeekInv'
    BY WeekStepInv
  <1>3. WeekInv => CorrectionsStand
    BY DEF WeekInv
  <1> QED BY <1>1, <1>2, <1>3, PTL DEF WeekSpec

----------------------------------------------------------------------------
(* Quotations                                                              *)

\* A version is not above the number of its row, and calls are about rows.
VersionsFit == \A q \in QuoteRefs : quotes[q].version <= q
CallsOnRows == \A c \in QuoteCalls : quoteCall[c] # NoQuoteCall => quoteCall[c].on \in QuoteRefs

\* As long as no two calls about a quotation overlapped, what each has read of
\* it is still so.
OneCallEach ==
  \A c, d \in QuoteCalls :
    (/\ quoteCall[c] # NoQuoteCall /\ quoteCall[d] # NoQuoteCall
     /\ quoteCall[c].on = quoteCall[d].on) => c = d
ReadStands ==
  \A c \in QuoteCalls :
    /\ quoteCall[c].op \in {"revise", "approve"} => NotSuperseded(quoteCall[c].on)
    /\ quoteCall[c].op = "close" => quoteCall[c].current

Calm == OneCallEach /\ ReadStands /\ OneLiveEach /\ ~actualsLost
QuoteShape == QuotationTypeOK /\ VersionsFit /\ CallsOnRows
QuoteInv == QuoteShape /\ (~quotesRaced => Calm)

Live == {q \in QuoteRefs : NotSuperseded(q)}
FirstVersions == {q \in QuoteRefs : quotes[q].version = 1}

LEMMA QuoteTypes ==
  ASSUME QuoteShape
  PROVE  /\ Len(quotes) \in Nat
         /\ \A q \in QuoteRefs : quotes[q] \in QuoteRows /\ q \in Nat /\ q <= Len(quotes)
         /\ \A c \in QuoteCalls :
              /\ quoteCall[c].op \in {"revise", "approve", "close"} => quoteCall[c] # NoQuoteCall
              /\ quoteCall[c] # NoQuoteCall => quoteCall[c].op \in {"revise", "approve", "close"}
  <1>1. quotes \in Seq(QuoteRows) /\ Len(quotes) \in Nat
    BY DEF QuoteShape, QuotationTypeOK
  <1>2. \A q \in QuoteRefs : quotes[q] \in QuoteRows
    BY <1>1 DEF QuoteRefs
  <1> QED
    BY <1>1, <1>2 DEF QuoteShape, QuotationTypeOK, QuoteRefs, QuoteRequests, NoQuoteCall

LEMMA RowsFinite ==
  ASSUME QuoteShape
  PROVE  /\ IsFiniteSet(Live) /\ IsFiniteSet(FirstVersions)
         /\ Cardinality(Live) \in Nat /\ Cardinality(FirstVersions) \in Nat
  <1>1. Len(quotes) \in Int /\ 1 \in Int
    BY QuoteTypes
  <1>2. IsFiniteSet(1..Len(quotes))
    BY <1>1, FS_Interval
  <1>3. Live \in SUBSET (1..Len(quotes)) /\ FirstVersions \in SUBSET (1..Len(quotes))
    BY DEF Live, FirstVersions, QuoteRefs
  <1> QED BY <1>2, <1>3, FS_Subset, FS_CardinalityType

LEMMA QuoteInitInv == ASSUME QuotationInit PROVE QuoteInv
  <1>1. quotes = <<>> /\ Len(quotes) = 0 /\ QuoteRefs = {}
    BY DEF QuotationInit, QuoteRefs
  <1>2. QuotationTypeOK
    <2>1. quotes \in Seq(QuoteRows) /\ Len(quotes) <= MaxQuotes
      BY <1>1, QuotationAssumption
    <2>2. quoteCall \in [QuoteCalls -> QuoteRequests]
      BY DEF QuotationInit, QuoteRequests
    <2>3. actualsLost \in BOOLEAN /\ quotesRaced \in BOOLEAN
      BY DEF QuotationInit
    <2> QED BY <2>1, <2>2, <2>3 DEF QuotationTypeOK
  <1>3. VersionsFit /\ CallsOnRows /\ OneCallEach /\ ReadStands /\ ~actualsLost
    BY <1>1 DEF QuotationInit, VersionsFit, CallsOnRows, OneCallEach, ReadStands, NoQuoteCall
  <1>4. OneLiveEach
    BY <1>1 DEF OneLiveEach
  <1> QED BY <1>2, <1>3, <1>4 DEF QuoteInv, QuoteShape, Calm

\* A call reads a row that is there.
LEMMA ReadsQuoteInv ==
  ASSUME QuoteInv, NEW c \in QuoteCalls, NEW q \in QuoteRefs, NEW r \in QuoteRequests,
         r # NoQuoteCall, r.on = q, ReadsQuote(c, r),
         r.op \in {"revise", "approve"} => NotSuperseded(q),
         r.op = "close" => r.current
  PROVE  QuoteInv'
  <1>0. QuoteShape /\ quoteCall \in [QuoteCalls -> QuoteRequests] /\ quotesRaced \in BOOLEAN
    BY DEF QuoteInv, QuoteShape, QuotationTypeOK
  <1>1. \A d \in QuoteCalls : quoteCall'[d] = IF d = c THEN r ELSE quoteCall[d]
    BY <1>0 DEF ReadsQuote
  <1>2. quotesRaced' \in BOOLEAN /\ quotes' = quotes /\ actualsLost' = actualsLost
    BY <1>0 DEF ReadsQuote
  <1>3. QuotationTypeOK'
    BY <1>0, <1>2 DEF ReadsQuote, QuoteShape, QuotationTypeOK, QuoteRows
  <1>4. VersionsFit' /\ CallsOnRows'
    BY <1>0, <1>1, <1>2 DEF QuoteShape, VersionsFit, CallsOnRows, QuoteRefs
  <1>5. ASSUME ~quotesRaced' PROVE Calm'
    <2>1. Calm /\ \A d \in QuoteCalls : quoteCall[d] # NoQuoteCall => quoteCall[d].on # q
      BY <1>5 DEF ReadsQuote, QuoteInv
    <2>2. OneCallEach'
      BY <1>1, <2>1 DEF Calm, OneCallEach
    <2>3. \A p \in QuoteRefs : NotSuperseded(p)' <=> NotSuperseded(p)
      BY <1>2 DEF NotSuperseded
    <2>4. ReadStands'
      <3>1. ASSUME NEW d \in QuoteCalls, quoteCall'[d].op \in {"revise", "approve"}
            PROVE  NotSuperseded(quoteCall[d].on)'
        BY <1>1, <1>2, <2>1, <3>1 DEF Calm, ReadStands, NotSuperseded
      <3>2. ASSUME NEW d \in QuoteCalls, quoteCall'[d].op = "close" PROVE quoteCall'[d].current
        <4>1. CASE d = c
          BY <1>1, <3>2, <4>1
        <4>2. CASE d # c
          BY <1>1, <2>1, <3>2, <4>2 DEF Calm, ReadStands
        <4> QED BY <4>1, <4>2
      <3> QED BY <3>1, <3>2 DEF ReadStands
    <2>5. OneLiveEach' /\ ~actualsLost'
      BY <1>2, <2>1 DEF Calm, OneLiveEach, QuoteRefs, NotSuperseded
    <2> QED BY <2>2, <2>4, <2>5 DEF Calm
  <1> QED BY <1>3, <1>4, <1>5 DEF QuoteInv, QuoteShape

LEMMA BuildQuotationInv == ASSUME QuoteInv, BuildQuotation PROVE QuoteInv'
  <1>0. QuoteShape /\ quotes \in Seq(QuoteRows) /\ Len(quotes) \in Nat
    BY DEF QuoteInv, QuoteShape, QuotationTypeOK
  <1> PICK n : n = Len(quotes) + 1
    OBVIOUS
  <1>1. n \in 1..MaxQuotes /\ Draft(1) \in QuoteRows
    BY <1>0, QuotationAssumption DEF BuildQuotation, Draft, QuoteRows, QuoteStatuses
  <1>2. /\ quotes' \in Seq(QuoteRows) /\ Len(quotes') = n
        /\ QuoteRefs' = QuoteRefs \cup {n} /\ n \notin QuoteRefs
        /\ quotes'[n] = Draft(1) /\ \A q \in QuoteRefs : quotes'[q] = quotes[q]
    BY <1>0, <1>1 DEF BuildQuotation, QuoteRefs
  <1>3. QuotationTypeOK'
    <2>1. Len(quotes') <= MaxQuotes
      BY <1>1, <1>2
    <2> QED BY <1>0, <1>2, <2>1 DEF BuildQuotation, QuoteShape, QuotationTypeOK, QuoteRequests
  <1>4. VersionsFit' /\ CallsOnRows'
    <2>1. VersionsFit /\ CallsOnRows /\ 1 <= n /\ Draft(1).version = 1
      BY <1>0, <1>1 DEF QuoteShape, Draft
    <2>2. \A q \in QuoteRefs' : quotes'[q].version <= q
      BY <1>2, <2>1 DEF VersionsFit
    <2> QED BY <1>2, <2>1, <2>2 DEF BuildQuotation, VersionsFit, CallsOnRows
  <1>5. ASSUME Calm PROVE Calm'
    <2>1. Live' = Live \cup {n} /\ n \notin Live
      BY <1>2 DEF Live, NotSuperseded, Draft
    <2>2. FirstVersions' = FirstVersions \cup {n} /\ n \notin FirstVersions
      BY <1>2 DEF FirstVersions, Draft
    <2>3. Cardinality(Live') = Cardinality(FirstVersions')
      <3>1. Cardinality(Live') = Cardinality(Live) + 1
        BY <1>0, <2>1, RowsFinite, FS_AddElement
      <3>2. Cardinality(FirstVersions') = Cardinality(FirstVersions) + 1
        BY <1>0, <2>2, RowsFinite, FS_AddElement
      <3>3. Cardinality(Live) = Cardinality(FirstVersions)
        BY <1>5 DEF Calm, OneLiveEach, Live, FirstVersions
      <3> QED BY <3>1, <3>2, <3>3
    <2>4. OneLiveEach'
      BY <2>3 DEF OneLiveEach, Live, FirstVersions
    <2>5. ReadStands' /\ OneCallEach' /\ ~actualsLost'
      BY <1>0, <1>2, <1>5, QuoteTypes
        DEF BuildQuotation, Calm, ReadStands, OneCallEach, NotSuperseded, QuoteShape, CallsOnRows
    <2> QED BY <2>4, <2>5 DEF Calm
  <1> QED BY <1>3, <1>4, <1>5 DEF BuildQuotation, QuoteInv, QuoteShape

\* A call ends, and the rows that other calls hold are as they were: what is left of a calm.
LEMMA QuoteAnsweredKeeps ==
  ASSUME QuoteShape, Calm, NEW c \in QuoteCalls, quoteCall[c] # NoQuoteCall, QuoteAnswered(c),
         QuoteRefs \subseteq QuoteRefs',
         \A q \in QuoteRefs : q # quoteCall[c].on => quotes'[q] = quotes[q]
  PROVE  OneCallEach' /\ ReadStands'
  <1>0. quoteCall \in [QuoteCalls -> QuoteRequests] /\ CallsOnRows
    BY DEF QuoteShape, QuotationTypeOK
  <1>1. \A d \in QuoteCalls : quoteCall'[d] = IF d = c THEN NoQuoteCall ELSE quoteCall[d]
    BY <1>0 DEF QuoteAnswered
  <1>2. OneCallEach'
    BY <1>1 DEF Calm, OneCallEach
  <1>3. ASSUME NEW d \in QuoteCalls, quoteCall'[d].op \in {"revise", "approve", "close"}
        PROVE  d # c /\ quoteCall'[d] = quoteCall[d] /\ quoteCall[d] # NoQuoteCall
    BY <1>1, <1>3 DEF NoQuoteCall
  <1>4. ASSUME NEW d \in QuoteCalls, quoteCall'[d].op \in {"revise", "approve"}
        PROVE  NotSuperseded(quoteCall[d].on)'
    <2>1. d # c /\ quoteCall'[d] = quoteCall[d] /\ quoteCall[d] # NoQuoteCall
      BY <1>3, <1>4
    <2>2. quoteCall[d].on \in QuoteRefs /\ quoteCall[d].on # quoteCall[c].on
      BY <1>0, <2>1 DEF CallsOnRows, Calm, OneCallEach
    <2>3. NotSuperseded(quoteCall[d].on)
      BY <1>4, <2>1 DEF Calm, ReadStands
    <2> QED BY <2>1, <2>2, <2>3 DEF NotSuperseded
  <1>5. ASSUME NEW d \in QuoteCalls, quoteCall'[d].op = "close" PROVE quoteCall'[d].current
    BY <1>3, <1>5 DEF Calm, ReadStands
  <1> QED BY <1>2, <1>4, <1>5 DEF ReadStands

LEMMA ReviseWritesInv == ASSUME QuoteInv, NEW c \in QuoteCalls, ReviseWrites(c) PROVE QuoteInv'
  <1> PICK q, n : q = quoteCall[c].on /\ n = Len(quotes) + 1
    OBVIOUS
  <1>0. /\ QuoteShape /\ quotes \in Seq(QuoteRows) /\ Len(quotes) \in Nat
        /\ quoteCall[c] # NoQuoteCall /\ q \in QuoteRefs
    BY QuoteTypes DEF ReviseWrites, QuoteInv, QuoteShape, QuotationTypeOK, CallsOnRows
  <1>1. n \in 1..MaxQuotes /\ quotes[q] \in QuoteRows /\ quotes[q].version <= q /\ q \in Nat
        /\ q <= Len(quotes)
    BY <1>0, QuotationAssumption, QuoteTypes DEF ReviseWrites, QuoteShape, VersionsFit
  <1> DEFINE old == [quotes EXCEPT ![q].status = "superseded", ![q].heir = n]
             new == Draft(quotes[q].version + 1)
  <1>2. /\ new \in QuoteRows /\ new.version = quotes[q].version + 1 /\ new.version # 1
        /\ new.version <= n /\ new.status = "draft"
    <2>1. quotes[q].version \in 1..MaxQuotes
      BY <1>1 DEF QuoteRows
    <2>2. quotes[q].version + 1 \in 1..MaxQuotes /\ quotes[q].version + 1 <= n
          /\ quotes[q].version + 1 # 1
      BY SMTT(20), <1>0, <1>1, <2>1, QuotationAssumption
    <2> QED BY <2>2, QuotationAssumption DEF Draft, QuoteRows, QuoteStatuses
  <1>3. /\ old \in Seq(QuoteRows) /\ Len(old) = Len(quotes)
        /\ old[q].version = quotes[q].version /\ old[q].status = "superseded"
        /\ \A p \in QuoteRefs : p # q => old[p] = quotes[p]
    <2>1. PICK row : row = [quotes[q] EXCEPT !.status = "superseded", !.heir = n]
      OBVIOUS
    <2>2. row \in QuoteRows /\ row.version = quotes[q].version /\ row.status = "superseded"
      <3>1. n \in 0..MaxQuotes
        BY <1>1
      <3> QED BY <1>1, <2>1, <3>1 DEF QuoteRows, QuoteStatuses
    <2>3. old = [quotes EXCEPT ![q] = row]
      BY <1>0, <2>1 DEF QuoteRefs
    <2> HIDE DEF old
    <2> QED BY <1>0, <2>2, <2>3 DEF QuoteRefs
  <1>4. quotes' = Append(old, new)
    BY DEF ReviseWrites
  <1> HIDE DEF old, new
  <1>5. /\ quotes' \in Seq(QuoteRows) /\ Len(quotes') = n
        /\ QuoteRefs' = QuoteRefs \cup {n} /\ n \notin QuoteRefs
        /\ quotes'[n] = new /\ \A p \in QuoteRefs : quotes'[p] = old[p]
    BY <1>0, <1>1, <1>2, <1>3, <1>4 DEF QuoteRefs
  <1>6. QuotationTypeOK'
    <2>1. Len(quotes') <= MaxQuotes
      BY <1>1, <1>5
    <2>2. quoteCall' \in [QuoteCalls -> QuoteRequests]
      BY <1>0 DEF ReviseWrites, QuoteAnswered, QuoteShape, QuotationTypeOK, QuoteRequests
    <2> QED BY <1>0, <1>5, <2>1, <2>2 DEF ReviseWrites, QuoteShape, QuotationTypeOK
  <1>7. VersionsFit'
    <2>1. \A p \in QuoteRefs : quotes[p].version <= p
      BY <1>0 DEF QuoteShape, VersionsFit
    <2>2. \A p \in QuoteRefs : old[p].version = quotes[p].version
      BY <1>3
    <2> QED BY <1>2, <1>5, <2>1, <2>2 DEF VersionsFit
  <1>8. CallsOnRows'
    BY <1>0, <1>5 DEF ReviseWrites, QuoteAnswered, QuoteShape, QuotationTypeOK, CallsOnRows
  <1>9. ASSUME Calm PROVE Calm'
    <2>1. NotSuperseded(q)
      BY <1>9 DEF ReviseWrites, Calm, ReadStands
    <2>2. /\ Live' = (Live \ {q}) \cup {n} /\ q \in Live /\ n \notin Live
          /\ FirstVersions' = FirstVersions
      <3>1. n # q
        BY <1>0, <1>5
      <3>2. \A p \in QuoteRefs : NotSuperseded(p)' <=> (p # q /\ NotSuperseded(p))
        BY <1>3, <1>5 DEF NotSuperseded
      <3>3. NotSuperseded(n)'
        BY <1>2, <1>5 DEF NotSuperseded
      <3>4. \A p \in QuoteRefs : quotes'[p].version = quotes[p].version
        BY <1>3, <1>5
      <3>5. Live' = (Live \ {q}) \cup {n} /\ q \in Live /\ n \notin Live
        BY <1>0, <1>5, <2>1, <3>1, <3>2, <3>3 DEF Live
      <3>6. FirstVersions' = FirstVersions
        BY <1>2, <1>5, <3>4 DEF FirstVersions
      <3> QED BY <3>5, <3>6
    <2>3. Cardinality(Live') = Cardinality(Live)
      <3>1. IsFiniteSet(Live) /\ Cardinality(Live) \in Nat
        BY <1>0, RowsFinite
      <3>2. IsFiniteSet(Live \ {q}) /\ Cardinality(Live \ {q}) = Cardinality(Live) - 1
        BY <2>2, <3>1, FS_RemoveElement
      <3>3. n \notin Live \ {q}
        BY <2>2
      <3>4. Cardinality((Live \ {q}) \cup {n}) = Cardinality(Live \ {q}) + 1
        BY <3>2, <3>3, FS_AddElement
      <3> QED BY <2>2, <3>1, <3>2, <3>4
    <2>4. OneLiveEach'
      BY <1>9, <2>2, <2>3 DEF Calm, OneLiveEach, Live, FirstVersions
    <2>5. OneCallEach' /\ ReadStands'
      BY <1>0, <1>3, <1>5, <1>9, QuoteAnsweredKeeps DEF ReviseWrites
    <2> QED BY <1>9, <2>4, <2>5 DEF ReviseWrites, Calm
  <1> QED BY <1>6, <1>7, <1>8, <1>9 DEF ReviseWrites, QuoteInv, QuoteShape

LEMMA ApproveWritesInv == ASSUME QuoteInv, NEW c \in QuoteCalls, ApproveWrites(c) PROVE QuoteInv'
  <1> PICK q : q = quoteCall[c].on
    OBVIOUS
  <1>0. /\ QuoteShape /\ quotes \in Seq(QuoteRows) /\ Len(quotes) \in Nat
        /\ quoteCall[c] # NoQuoteCall /\ q \in QuoteRefs /\ quotes[q] \in QuoteRows
    BY QuoteTypes DEF ApproveWrites, QuoteInv, QuoteShape, QuotationTypeOK, CallsOnRows
  <1>1. /\ quotes' \in Seq(QuoteRows) /\ Len(quotes') = Len(quotes)
        /\ quotes'[q].version = quotes[q].version /\ quotes'[q].status = "approved"
        /\ \A p \in QuoteRefs : p # q => quotes'[p] = quotes[p]
    <2>1. PICK row : row = [quotes[q] EXCEPT !.status = "approved"]
      OBVIOUS
    <2>2. row \in QuoteRows /\ row.version = quotes[q].version /\ row.status = "approved"
      BY <1>0, <2>1 DEF QuoteRows, QuoteStatuses
    <2>3. quotes' = [quotes EXCEPT ![q] = row]
      BY <1>0, <2>1 DEF ApproveWrites, QuoteRefs
    <2> QED BY <1>0, <2>2, <2>3 DEF QuoteRefs
  <1>2. QuoteRefs' = QuoteRefs /\ \A p \in QuoteRefs : quotes'[p].version = quotes[p].version
    BY <1>1 DEF QuoteRefs
  <1>3. QuotationTypeOK'
    <2>1. Len(quotes') <= MaxQuotes
      BY <1>0, <1>1 DEF QuoteShape, QuotationTypeOK
    <2>2. quoteCall' \in [QuoteCalls -> QuoteRequests]
      BY <1>0 DEF ApproveWrites, QuoteAnswered, QuoteShape, QuotationTypeOK, QuoteRequests
    <2> QED BY <1>0, <1>1, <2>1, <2>2 DEF ApproveWrites, QuoteShape, QuotationTypeOK
  <1>4. VersionsFit' /\ CallsOnRows'
    BY <1>0, <1>2
      DEF ApproveWrites, QuoteAnswered, QuoteShape, QuotationTypeOK, VersionsFit, CallsOnRows
  <1>5. ASSUME Calm PROVE Calm'
    <2>1. \A p \in QuoteRefs : NotSuperseded(p)' <=> NotSuperseded(p)
      BY <1>1, <1>5 DEF ApproveWrites, Calm, ReadStands, NotSuperseded
    <2>2. OneLiveEach'
      <3>1. Live' = Live /\ FirstVersions' = FirstVersions
        BY <1>2, <2>1 DEF Live, FirstVersions
      <3> QED BY <1>5, <3>1 DEF Calm, OneLiveEach, Live, FirstVersions
    <2>3. OneCallEach' /\ ReadStands'
      BY <1>0, <1>1, <1>2, <1>5, QuoteAnsweredKeeps DEF ApproveWrites
    <2> QED BY <1>5, <2>2, <2>3 DEF ApproveWrites, Calm
  <1> QED BY <1>3, <1>4, <1>5 DEF ApproveWrites, QuoteInv, QuoteShape

\* The ladder a call writes back is the one of the row, or an older one.
LEMMA CloseCostsWritesInv ==
  ASSUME QuoteInv, NEW c \in QuoteCalls, CloseCostsWrites(c) PROVE QuoteInv'
  <1>0. QuoteShape /\ quoteCall[c] # NoQuoteCall /\ quoteCall \in [QuoteCalls -> QuoteRequests]
    BY QuoteTypes DEF CloseCostsWrites, QuoteInv, QuoteShape, QuotationTypeOK
  <1>1. actualsLost' \in BOOLEAN
    BY DEF CloseCostsWrites
  <1>2. ASSUME NEW d \in QuoteCalls
        PROVE  /\ quoteCall'[d] \in QuoteRequests
               /\ quoteCall'[d] # NoQuoteCall =>
                    d # c /\ quoteCall[d] # NoQuoteCall /\ quoteCall'[d].on = quoteCall[d].on
                    /\ quoteCall'[d].op = quoteCall[d].op
    <2>1. CASE d = c
      BY <2>1 DEF CloseCostsWrites, QuoteRequests
    <2>2. CASE d # c /\ quoteCall[d].op = "close" /\ quoteCall[d].on = quoteCall[c].on
      <3>1. quoteCall'[d] = [quoteCall[d] EXCEPT !.current = FALSE]
        BY <2>2 DEF CloseCostsWrites
      <3>2. quoteCall[d] \in [op : {"close"}, on : 1..MaxQuotes, current : BOOLEAN]
        BY <1>0, <2>2 DEF QuoteRequests, NoQuoteCall
      <3> QED BY <1>0, <2>2, <3>1, <3>2, QuoteTypes DEF QuoteRequests, NoQuoteCall
    <2>3. CASE d # c /\ ~(quoteCall[d].op = "close" /\ quoteCall[d].on = quoteCall[c].on)
      BY <1>0, <2>3 DEF CloseCostsWrites
    <2> QED BY <2>1, <2>2, <2>3
  <1>3. quoteCall' \in [QuoteCalls -> QuoteRequests]
    BY <1>2 DEF CloseCostsWrites
  <1>4. QuotationTypeOK'
    BY <1>0, <1>1, <1>3 DEF CloseCostsWrites, QuoteShape, QuotationTypeOK, QuoteRows
  <1>5. VersionsFit' /\ CallsOnRows'
    BY <1>0, <1>2 DEF CloseCostsWrites, QuoteShape, VersionsFit, CallsOnRows, QuoteRefs
  <1>6. ASSUME Calm PROVE Calm'
    <2>1. ~actualsLost'
      BY <1>6 DEF CloseCostsWrites, Calm, ReadStands
    <2>2. OneCallEach'
      BY <1>2, <1>6 DEF Calm, OneCallEach
    <2>3. OneLiveEach'
      BY <1>6 DEF CloseCostsWrites, Calm, OneLiveEach, QuoteRefs, NotSuperseded
    <2>4. ASSUME NEW d \in QuoteCalls, quoteCall'[d].op \in {"revise", "approve", "close"}
          PROVE  quoteCall'[d] = quoteCall[d]
      <3>1. d # c /\ quoteCall[d] # NoQuoteCall
        BY <1>2, <2>4 DEF NoQuoteCall
      <3>2. quoteCall[d].on # quoteCall[c].on
        BY <1>0, <1>6, <3>1 DEF Calm, OneCallEach
      <3> QED BY <3>1, <3>2 DEF CloseCostsWrites
    <2>5. ASSUME NEW d \in QuoteCalls, quoteCall'[d].op \in {"revise", "approve"}
          PROVE  NotSuperseded(quoteCall[d].on)'
      BY <1>6, <2>4, <2>5 DEF CloseCostsWrites, Calm, ReadStands, NotSuperseded
    <2>6. ASSUME NEW d \in QuoteCalls, quoteCall'[d].op = "close" PROVE quoteCall'[d].current
      BY <1>6, <2>4, <2>6 DEF Calm, ReadStands
    <2>7. ReadStands'
      BY <2>5, <2>6 DEF ReadStands
    <2> QED BY <2>1, <2>2, <2>3, <2>7 DEF Calm
  <1> QED BY <1>4, <1>5, <1>6 DEF CloseCostsWrites, QuoteInv, QuoteShape

LEMMA QuoteCallFailsInv == ASSUME QuoteInv, NEW c \in QuoteCalls, QuoteCallFails(c) PROVE QuoteInv'
  <1>0. QuoteShape /\ quoteCall[c] # NoQuoteCall /\ quoteCall \in [QuoteCalls -> QuoteRequests]
    BY DEF QuoteCallFails, QuoteInv, QuoteShape, QuotationTypeOK
  <1>1. quoteCall' \in [QuoteCalls -> QuoteRequests]
    BY <1>0 DEF QuoteCallFails, QuoteAnswered, QuoteRequests
  <1>2. QuoteShape'
    BY <1>0, <1>1
      DEF QuoteCallFails, QuoteAnswered, QuoteShape, QuotationTypeOK, QuoteRows, VersionsFit,
          CallsOnRows, QuoteRefs
  <1>3. ASSUME Calm PROVE Calm'
    <2>1. OneCallEach' /\ ReadStands'
      BY <1>0, <1>3, QuoteAnsweredKeeps DEF QuoteCallFails, QuoteRefs
    <2>2. OneLiveEach' /\ ~actualsLost'
      BY <1>3 DEF QuoteCallFails, Calm, OneLiveEach, QuoteRefs, NotSuperseded
    <2> QED BY <2>1, <2>2 DEF Calm
  <1> QED BY <1>2, <1>3 DEF QuoteCallFails, QuoteInv

LEMMA QuoteStepInv == ASSUME QuoteInv, [QuotationNext]_quoteVars PROVE QuoteInv'
  <1>0. QuoteShape
    BY DEF QuoteInv
  <1>1. ASSUME NEW c \in QuoteCalls, NEW q \in QuoteRefs, ReviseReads(c, q) PROVE QuoteInv'
    <2>1. PICK r : r = [op |-> "revise", on |-> q]
      OBVIOUS
    <2>2. r \in QuoteRequests /\ r # NoQuoteCall /\ r.on = q /\ r.op = "revise"
      BY <1>0, <2>1, QuoteTypes, QuotationAssumption
        DEF QuoteShape, QuotationTypeOK, QuoteRefs, QuoteRequests, NoQuoteCall
    <2> QED BY <1>1, <2>1, <2>2, ReadsQuoteInv DEF ReviseReads
  <1>2. ASSUME NEW c \in QuoteCalls, NEW q \in QuoteRefs, ApproveReads(c, q) PROVE QuoteInv'
    <2>1. PICK r : r = [op |-> "approve", on |-> q]
      OBVIOUS
    <2>2. r \in QuoteRequests /\ r # NoQuoteCall /\ r.on = q /\ r.op = "approve"
      BY <1>0, <2>1, QuoteTypes, QuotationAssumption
        DEF QuoteShape, QuotationTypeOK, QuoteRefs, QuoteRequests, NoQuoteCall
    <2> QED BY <1>2, <2>1, <2>2, ReadsQuoteInv DEF ApproveReads
  <1>3. ASSUME NEW c \in QuoteCalls, NEW q \in QuoteRefs, CloseCostsReads(c, q) PROVE QuoteInv'
    <2>1. PICK r : r = [op |-> "close", on |-> q, current |-> TRUE]
      OBVIOUS
    <2>2. q \in 1..MaxQuotes
      BY <1>0, QuoteTypes, QuotationAssumption DEF QuoteShape, QuotationTypeOK, QuoteRefs
    <2>3. r \in QuoteRequests /\ r # NoQuoteCall /\ r.on = q /\ r.op = "close"
      BY <2>1, <2>2 DEF QuoteRequests, NoQuoteCall
    <2>4. r.current
      BY <2>1
    <2> QED BY <1>3, <2>1, <2>3, <2>4, ReadsQuoteInv DEF CloseCostsReads
  <1>4. CASE UNCHANGED quoteVars
    BY <1>4 DEF quoteVars, QuoteInv, QuoteShape, QuotationTypeOK, QuoteRows, VersionsFit,
                CallsOnRows, QuoteRefs, Calm, OneCallEach, ReadStands, OneLiveEach, NotSuperseded
  <1> QED
    BY <1>1, <1>2, <1>3, <1>4, BuildQuotationInv, ReviseWritesInv, ApproveWritesInv,
       CloseCostsWritesInv, QuoteCallFailsInv
      DEF QuotationNext

\* As long as no two requests about one quotation overlap, every line of
\* quotations has one live version and no actual is lost (QuotationService),
\* for any number of quotations, revisions and calls.
THEOREM QuotesKeepOneLive == QuotationSpec => []UndisturbedQuotes
  <1>1. QuotationInit => QuoteInv
    BY QuoteInitInv
  <1>2. QuoteInv /\ [QuotationNext]_quoteVars => QuoteInv'
    BY QuoteStepInv
  <1>3. QuoteInv => UndisturbedQuotes
    BY DEF QuoteInv, Calm, UndisturbedQuotes
  <1> QED BY <1>1, <1>2, <1>3, PTL DEF QuotationSpec

----------------------------------------------------------------------------
(* Readable refs                                                           *)

\* Rooms are the powers of the base, and grow.
LEMMA PowersGrow ==
  \A k \in 0..Longest : Room[k] \in Nat \ {0} /\ (k > 0 => Room[k - 1] < Room[k])
  <1> DEFINE Powers(f, n) ==
               f = [k \in 0..n |-> IF k = 0 THEN 1 ELSE Base * f[k - 1]]
             Without == {n \in 0..Longest : ~\E f : Powers(f, n)}
  <1>1. Without = {}
    <2> SUFFICES ASSUME Without # {} PROVE FALSE
      OBVIOUS
    <2>1. Without \in SUBSET Nat
      OBVIOUS
    <2>2. PICK n \in Without : \A m \in Without : n <= m
      <3> HIDE DEF Without
      <3> QED BY <2>1, LeastExists
    <2>3. n \in 0..Longest /\ ~\E f : Powers(f, n)
      BY <2>2
    <2>4. CASE n = 0
      <3> DEFINE f == [k \in 0..n |-> 1]
      <3>1. \A k \in 0..n : k = 0
        BY <2>4
      <3>2. Powers(f, n)
        BY <3>1
      <3> QED BY <2>3, <3>2
    <2>5. CASE n # 0
      <3>1. n - 1 \in 0..Longest /\ n - 1 < n /\ n \in Nat
        BY <2>3, <2>5, RefAssumption
      <3>2. n - 1 \notin Without
        BY <2>2, <3>1
      <3>3. PICK f : Powers(f, n - 1)
        BY <3>1, <3>2
      <3> DEFINE g == [k \in 0..n |-> IF k = n THEN Base * f[n - 1] ELSE f[k]]
      <3>4. ASSUME NEW k \in 0..n
            PROVE  g[k] = IF k = 0 THEN 1 ELSE Base * g[k - 1]
        <4>1. CASE k = n
          BY <2>5, <3>1, <4>1
        <4>2. CASE k # n
          <5>1. k \in 0..(n - 1) /\ g[k] = f[k]
            BY <3>1, <4>2
          <5>2. f[k] = IF k = 0 THEN 1 ELSE Base * f[k - 1]
            BY <3>3, <5>1
          <5>3. k # 0 => k - 1 \in 0..n /\ k - 1 # n /\ g[k - 1] = f[k - 1]
            BY <3>1, <5>1
          <5> QED BY <5>1, <5>2, <5>3
        <4> QED BY <4>1, <4>2
      <3>5. g = [k \in 0..n |-> g[k]]
        OBVIOUS
      <3> HIDE DEF g
      <3>6. g = [k \in 0..n |-> IF k = 0 THEN 1 ELSE Base * g[k - 1]]
        BY <3>4, <3>5
      <3> QED BY <2>3, <3>6
    <2> QED BY <2>4, <2>5
  <1>2. Powers(Room, Longest)
    <2>1. Longest \in 0..Longest
      BY RefAssumption
    <2>2. \E f : Powers(f, Longest)
      BY <1>1, <2>1
    <2>3. Room = CHOOSE f : Powers(f, Longest)
      BY DEF Room
    <2> HIDE DEF Powers
    <2> QED BY <2>2, <2>3
  <1>3. \A k \in 0..Longest : Room[k] = IF k = 0 THEN 1 ELSE Base * Room[k - 1]
    BY <1>2
  <1> HIDE DEF Without, Powers
  <1> DEFINE Odd == {k \in 0..Longest : Room[k] \notin Nat \ {0}}
  <1>4. Odd = {}
    <2> SUFFICES ASSUME Odd # {} PROVE FALSE
      OBVIOUS
    <2>1. Odd \in SUBSET Nat
      OBVIOUS
    <2>2. PICK k \in Odd : \A j \in Odd : k <= j
      <3> HIDE DEF Odd
      <3> QED BY <2>1, LeastExists
    <2>3. k # 0
      BY <1>3, <2>2
    <2>4. k - 1 \in 0..Longest /\ k - 1 < k
      BY <2>2, <2>3, RefAssumption
    <2>5. Room[k - 1] \in Nat \ {0}
      BY <2>2, <2>4
    <2>6. Room[k] = Base * Room[k - 1]
      BY <1>3, <2>2, <2>3
    <2> PICK r : r = Room[k - 1]
      OBVIOUS
    <2>7. Base * r \in Nat \ {0}
      BY <2>5, RefAssumption
    <2> QED BY <2>2, <2>6, <2>7
  <1>5. ASSUME NEW k \in 0..Longest, k > 0 PROVE Room[k - 1] < Room[k]
    <2>1. k - 1 \in 0..Longest
      BY <1>5, RefAssumption
    <2> PICK r : r = Room[k - 1]
      OBVIOUS
    <2>2. r \in Nat \ {0}
      BY <1>4, <2>1
    <2>3. Room[k] = Base * r
      BY <1>3, <1>5
    <2>4. r < Base * r
      BY <2>2, RefAssumption
    <2> QED BY <2>3, <2>4
  <1> QED BY <1>4, <1>5

\* More characters have room for more numbers.
LEMMA RoomGrows ==
  ASSUME NEW i \in 0..Longest, NEW j \in 0..Longest, i <= j
  PROVE  Room[i] <= Room[j]
  <1> DEFINE Smaller == {k \in 0..Longest : i <= k /\ Room[k] < Room[i]}
  <1>1. \A k \in 0..Longest : Room[k] \in Nat \ {0} /\ (k > 0 => Room[k - 1] < Room[k])
    BY PowersGrow
  <1>2. Smaller = {}
    <2> SUFFICES ASSUME Smaller # {} PROVE FALSE
      OBVIOUS
    <2>0. Smaller \in SUBSET Nat
      BY RefAssumption
    <2>1. PICK k \in Smaller : \A l \in Smaller : k <= l
      <3> HIDE DEF Smaller
      <3> QED BY <2>0, LeastExists
    <2>2. k \in 0..Longest /\ i < k /\ Room[k] < Room[i]
      BY <2>1, <1>1
    <2>3. k - 1 \in 0..Longest /\ i <= k - 1 /\ (k - 1) + 1 = k /\ k - 1 < k
      BY <2>2, RefAssumption
    <2>4. Room[k - 1] < Room[k] /\ Room[k - 1] \in Nat
      BY <2>3, <1>1
    <2>5. k - 1 \in Smaller
      BY <1>1, <2>2, <2>3, <2>4
    <2> QED BY <2>1, <2>3, <2>5
  <1> HIDE DEF Smaller
  <1>3. j \notin Smaller
    BY <1>2
  <1> QED BY <1>1, <1>3 DEF Smaller

RefNumbers == 1..MaxNumber

\* Every number that is written has its characters, and those that fit have the width.
LEMMA CharactersOfNumber ==
  ASSUME NEW n \in RefNumbers
  PROVE  /\ Characters(n) \in Width..Longest
         /\ n < Room[Width] => Characters(n) = Width
  <1> USE RefAssumption
  <1> DEFINE Long == {k \in Width..Longest : n < Room[k]}
  <1>1. Longest \in Long /\ Long \in SUBSET Nat
    BY PowersGrow DEF RefNumbers
  <1>2. PICK k \in Long : \A l \in Long : k <= l
    <2> HIDE DEF Long
    <2> QED BY <1>1, LeastExists
  <1>3. k = Width \/ n >= Room[k - 1]
    <2> SUFFICES ASSUME k # Width PROVE n >= Room[k - 1]
      OBVIOUS
    <2>1. k - 1 \in Width..Longest /\ k - 1 < k /\ k - 1 \in 0..Longest
      BY <1>2
    <2>2. k - 1 \notin Long
      BY <1>2, <2>1
    <2> QED BY <2>1, <2>2, PowersGrow DEF RefNumbers
  <1>4. /\ Characters(n) \in Width..Longest
        /\ n < Room[Characters(n)]
        /\ Characters(n) = Width \/ n >= Room[Characters(n) - 1]
    BY <1>2, <1>3 DEF Characters
  <1>5. ASSUME n < Room[Width], Characters(n) # Width PROVE FALSE
    <2> PICK c : c = Characters(n)
      OBVIOUS
    <2>1. c - 1 \in 0..Longest /\ Width \in 0..Longest /\ Width <= c - 1 /\ n >= Room[c - 1]
      BY <1>4, <1>5
    <2>2. Room[Width] <= Room[c - 1] /\ Room[Width] \in Nat /\ Room[c - 1] \in Nat
      BY <2>1, RoomGrows, PowersGrow
    <2> QED BY <1>5, <2>1, <2>2 DEF RefNumbers
  <1> QED BY <1>4, <1>5

\* A number is filled up with characters there are.
LEMMA FilledIs ==
  ASSUME NEW n \in RefNumbers
  PROVE  /\ Longest - Characters(n) \in 0..Longest
         /\ Room[Longest - Characters(n)] \in Nat \ {0}
         /\ Filled(n) \in Nat
         /\ Characters(n) \in Nat
  <1>1. Characters(n) \in Width..Longest
    BY CharactersOfNumber
  <1>2. Longest - Characters(n) \in 0..Longest /\ Characters(n) \in Nat
    BY <1>1, RefAssumption
  <1>3. Room[Longest - Characters(n)] \in Nat \ {0}
    BY <1>2, PowersGrow
  <1>4. Filled(n) \in Nat
    <2>1. \A a, b \in Nat : a * b \in Nat
      OBVIOUS
    <2>2. n \in Nat
      BY DEF RefNumbers
    <2> QED BY <1>3, <2>1, <2>2 DEF Filled
  <1> QED BY <1>2, <1>3, <1>4

\* Of two numbers of as many characters the smaller sorts before the other.
LEMMA SameCharacters ==
  ASSUME NEW m \in RefNumbers, NEW n \in RefNumbers, Characters(m) = Characters(n), m < n
  PROVE  Filled(m) < Filled(n)
  <1>1. \A a, b \in Nat, r \in Nat \ {0} : a < b => a * r < b * r
    OBVIOUS
  <1>2. Room[Longest - Characters(n)] \in Nat \ {0}
    BY FilledIs
  <1>3. m \in Nat /\ n \in Nat
    BY DEF RefNumbers
  <1> QED BY <1>1, <1>2, <1>3 DEF Filled

\* The order of strings is total, and no number is before itself by way of others.
LEMMA StringsOrdered ==
  /\ \A m, n \in RefNumbers : m # n => SortsBefore(m, n) \/ SortsBefore(n, m)
  /\ \A n \in RefNumbers : ~SortsBefore(n, n)
  /\ \A l, m, n \in RefNumbers : SortsBefore(l, m) /\ SortsBefore(m, n) => SortsBefore(l, n)
  <1>1. \A n \in RefNumbers : Filled(n) \in Nat /\ Characters(n) \in Nat
    BY FilledIs
  <1>2. \A m, n \in RefNumbers : Characters(m) = Characters(n) /\ Filled(m) = Filled(n) => m = n
    <2> SUFFICES ASSUME NEW m \in RefNumbers, NEW n \in RefNumbers, Characters(m) = Characters(n),
                        Filled(m) = Filled(n), m # n
                 PROVE  FALSE
      OBVIOUS
    <2>1. m < n \/ n < m
      BY DEF RefNumbers
    <2>2. Filled(m) < Filled(n) \/ Filled(n) < Filled(m)
      BY <2>1, SameCharacters
    <2> QED BY <1>1, <2>2
  <1>3. \A m, n \in RefNumbers : m # n => SortsBefore(m, n) \/ SortsBefore(n, m)
    BY <1>1, <1>2 DEF SortsBefore
  <1>4. \A n \in RefNumbers : ~SortsBefore(n, n)
    BY <1>1 DEF SortsBefore
  <1>5. \A l, m, n \in RefNumbers : SortsBefore(l, m) /\ SortsBefore(m, n) => SortsBefore(l, n)
    BY <1>1 DEF SortsBefore
  <1> QED BY <1>3, <1>4, <1>5

\* Some rows have a last one: that with the fewest after it has none.
LEMMA LastExists ==
  ASSUME NEW S \in SUBSET RefNumbers, S # {}
  PROVE  \E n \in S : \A m \in S \ {n} : SortsBefore(m, n)
  <1> DEFINE after(n) == {m \in S : SortsBefore(n, m)}
             Family == {after(n) : n \in S}
  <1>1. IsFiniteSet(S)
    <2>1. IsFiniteSet(RefNumbers)
      BY FS_Interval, RefAssumption DEF RefNumbers
    <2> QED BY <2>1, FS_Subset
  <1>2. Family \subseteq FiniteSubsetsOf(S) /\ Family # {}
    <2>1. ASSUME NEW n \in S PROVE after(n) \in SUBSET S /\ IsFiniteSet(after(n))
      BY <1>1, FS_Subset
    <2> QED BY <2>1 DEF FiniteSubsetsOf
  <1>3. PICK x \in Family : \A y \in Family : <<y, x>> \notin StrictSubsetOrdering(S)
    <2>1. IsWellFoundedOn(StrictSubsetOrdering(S), FiniteSubsetsOf(S))
      BY FS_StrictSubsetOrderingWellFounded
    <2> HIDE DEF Family
    <2> QED BY <1>2, <2>1, WFMin
  <1>4. PICK n \in S : x = after(n)
    BY <1>3
  <1>5. ASSUME NEW m \in S, SortsBefore(n, m) PROVE FALSE
    <2>1. after(m) \in Family /\ after(m) \in SUBSET S /\ after(n) \in SUBSET S
      OBVIOUS
    <2>2. after(m) \subseteq after(n) /\ m \in after(n) /\ m \notin after(m)
      BY <1>5, StringsOrdered
    <2>3. <<after(m), x>> \in StrictSubsetOrdering(S)
      BY <1>4, <2>1, <2>2 DEF StrictSubsetOrdering
    <2> QED BY <1>3, <2>1, <2>3
  <1> QED BY <1>5, StringsOrdered

\* The next number, and when a row has it already: when it has outgrown the width.
LEMMA NextIsFree ==
  ASSUME RefsTypeOK
  PROVE  /\ NextSequence \in 1..MaxNumber + 1
         /\ NextSequence \in refs => NextSequence >= Room[Width]
  <1>0. refs \in SUBSET RefNumbers /\ MaxNumber \in Nat /\ Room[Width] \in Nat
    BY RefAssumption, PowersGrow DEF RefsTypeOK, RefNumbers
  <1>1. CASE refs = {}
    BY <1>0, <1>1 DEF NextSequence
  <1>2. CASE refs # {}
    <2>1. PICK last : /\ last \in refs /\ \A m \in refs \ {last} : SortsBefore(m, last)
                      /\ NextSequence = 1 + last
      BY <1>0, <1>2, LastExists DEF NextSequence
    <2>2. last \in RefNumbers /\ last \in Nat /\ 1 + last \in 1..MaxNumber + 1
      BY <1>0, <2>1 DEF RefNumbers
    <2>3. ASSUME 1 + last \in refs, 1 + last < Room[Width] PROVE FALSE
      <3> PICK n : n = 1 + last
        OBVIOUS
      <3>1. n \in RefNumbers /\ n # last /\ last < n /\ last < Room[Width]
        BY <1>0, <2>2, <2>3
      <3>2. SortsBefore(n, last)
        BY <2>1, <2>3, <3>1
      <3>3. Characters(n) = Characters(last)
        BY <2>2, <2>3, <3>1, CharactersOfNumber
      <3>4. Filled(last) < Filled(n) /\ Filled(last) \in Nat /\ Filled(n) \in Nat
            /\ Characters(n) \in Nat
        BY <2>2, <3>1, <3>3, SameCharacters, FilledIs
      <3> QED BY <3>2, <3>3, <3>4 DEF SortsBefore
    <2> QED BY <1>0, <2>1, <2>2, <2>3
  <1> QED BY <1>1, <1>2

\* A creation that overlaps no other is the only one under way; what it is about
\* to write is taken only if it has outgrown the width.
AloneIsFree ==
  \A c \in Creating \ together :
    /\ Creating = {c}
    /\ numbered[c] \in refs => numbered[c] >= Room[Width]

RefsInv == RefsTypeOK /\ together \subseteq Creating /\ AloneIsFree

LEMMA RefsInitInv == ASSUME RefsInit PROVE RefsInv
  <1>1. RefsTypeOK
    BY RefAssumption DEF RefsInit, RefsTypeOK
  <1> QED BY <1>1 DEF RefsInit, RefsInv, AloneIsFree, Creating

LEMMA ReadsNewestInv == ASSUME RefsInv, NEW c \in Creators, ReadsNewest(c) PROVE RefsInv'
  <1> PICK next : next = NextSequence
    OBVIOUS
  <1>0. RefsTypeOK /\ next \in 1..MaxNumber + 1 /\ next # 0 /\ (next \in refs => next >= Room[Width])
    BY NextIsFree, RefAssumption DEF RefsInv
  <1>1. numbered' = [numbered EXCEPT ![c] = next] /\ numbered[c] = 0
    BY DEF ReadsNewest
  <1>2. RefsTypeOK'
    BY <1>0, <1>1, RefAssumption DEF ReadsNewest, RefsTypeOK, Creating
  <1>3. Creating' = Creating \cup {c} /\ c \notin Creating
    BY <1>0, <1>1 DEF RefsTypeOK, Creating
  <1>4. CASE Creating = {}
    BY <1>0, <1>1, <1>2, <1>3, <1>4 DEF ReadsNewest, RefsInv, AloneIsFree, RefsTypeOK
  <1>5. CASE Creating # {}
    <2>1. together' = together \cup Creating \cup {c}
      BY <1>5 DEF ReadsNewest
    <2> QED BY <1>2, <1>3, <2>1 DEF RefsInv, AloneIsFree
  <1> QED BY <1>4, <1>5

LEMMA InsertsRowInv == ASSUME RefsInv, NEW c \in Creators, InsertsRow(c) PROVE RefsInv'
  <1>0. RefsTypeOK /\ c \in Creating
    <2>1. numbered[c] # 0
      BY RefAssumption DEF InsertsRow
    <2> QED BY <2>1 DEF RefsInv, Creating
  <1>1. RefsTypeOK'
    <2>1. refs' \subseteq 1..MaxNumber /\ together' \subseteq Creators
      BY <1>0 DEF InsertsRow, RefsTypeOK
    <2>2. 0 \in 0..MaxNumber + 1
      BY RefAssumption
    <2>3. numbered' \in [Creators -> 0..MaxNumber + 1]
      BY <1>0, <2>2 DEF InsertsRow, RefsTypeOK
    <2> QED BY <2>1, <2>3 DEF RefsTypeOK
  <1>2. Creating' = Creating \ {c}
    BY <1>0 DEF InsertsRow, RefsTypeOK, Creating
  <1>3. together' = together \ {c}
    BY DEF InsertsRow
  <1>4. Creating' \ together' = {}
    BY <1>0, <1>2, <1>3 DEF RefsInv, AloneIsFree
  <1> QED BY <1>1, <1>2, <1>3, <1>4 DEF RefsInv, AloneIsFree

LEMMA RefsStepInv == ASSUME RefsInv, [RefsNext]_refVars PROVE RefsInv'
  <1>1. ASSUME NEW n \in refs, DeletesRow(n) PROVE RefsInv'
    BY <1>1 DEF DeletesRow, RefsInv, RefsTypeOK, AloneIsFree, Creating
  <1>2. CASE UNCHANGED refVars
    BY <1>2 DEF refVars, RefsInv, RefsTypeOK, AloneIsFree, Creating
  <1> QED BY <1>1, <1>2, ReadsNewestInv, InsertsRowInv DEF RefsNext

\* Sequential writers are safe as long as the numbers fit their width
\* (nextSequence), for any base, width and number of creations, whatever is deleted.
THEOREM SequentialIsSafe == RefsSpec => []SequentialCreatesSucceed
  <1>1. RefsInit => RefsInv
    BY RefsInitInv
  <1>2. RefsInv /\ [RefsNext]_refVars => RefsInv'
    BY RefsStepInv
  <1>3. RefsInv => SequentialCreatesSucceed
    <2> SUFFICES ASSUME RefsInv, NEW c \in Creating \ together, AllFit, numbered[c] \in refs
                 PROVE  FALSE
      BY DEF SequentialCreatesSucceed
    <2>1. Width \in 0..Longest
      BY RefAssumption
    <2>2. Room[Width] \in Nat
      BY <2>1, PowersGrow
    <2>3. numbered[c] >= Room[Width] /\ numbered[c] \in 1..Room[Width] - 1
      BY DEF RefsInv, AloneIsFree, AllFit
    <2> QED BY <2>2, <2>3
  <1> QED BY <1>1, <1>2, <1>3, PTL DEF RefsSpec

----------------------------------------------------------------------------
(* Inspections and the release gate                                        *)

\* What an insert or a CAPA request carries.
LEMMA InspectionRequestTypes ==
  ASSUME TypeOK
  PROVE  /\ \A r \in Recorders : recorder[r].pc = "insert" => recorder[r].capture \in Captures
         /\ \A u \in Users : user[u].pc \in {"draft", "close"} => user[u].capa \in Failed
         /\ \A u \in Users : user[u].pc = "close" => user[u].against \in Numbers
  BY DEF TypeOK, RecordRequests, Idle

\* The rows, by their number.
LEMMA InspectionRows ==
  ASSUME inspections \in Seq(Inspections)
  PROVE  /\ Len(inspections) \in Nat /\ Numbers = 1 .. Len(inspections)
         /\ \A i \in Numbers :
              /\ inspections[i] \in Inspections
              /\ inspections[i].po \in POs /\ ResultOf(i) \in Results
  <1>1. /\ Len(inspections) \in Nat /\ Numbers = 1 .. Len(inspections)
        /\ \A i \in Numbers : inspections[i] \in Inspections
    BY DEF Numbers
  <1> QED BY <1>1 DEF Inspections, ResultOf

\* A capture that is stored: one row more, the others as they were, and one more
\* failure exactly when the result is one.
Stored(k, row) ==
  /\ inspections' = Append(inspections, row)
  /\ row \in Inspections /\ row.capture = k /\ ~Recorded(k)
  /\ capa' = [i \in Failed' |-> IF i \in Failed THEN capa[i] ELSE "open"]
  /\ closedBy' = [i \in Failed' |-> IF i \in Failed THEN closedBy[i] ELSE 0]

\* What Stored says about the numbers.
LEMMA StoredRows ==
  ASSUME TypeOK, NEW k, NEW row \in Inspections, inspections' = Append(inspections, row)
  PROVE  /\ inspections' \in Seq(Inspections)
         /\ Numbers' = Numbers \cup {Len(inspections) + 1}
         /\ Len(inspections) + 1 \notin Numbers
         /\ \A i \in Numbers : inspections'[i] = inspections[i]
         /\ inspections'[Len(inspections) + 1] = row
         /\ Failed' = Failed \cup (IF row.result = "fail" THEN {Len(inspections) + 1} ELSE {})
  <1>1. Len(inspections) \in Nat /\ Numbers = 1 .. Len(inspections)
    BY InspectionRows DEF TypeOK
  <1>2. /\ inspections' \in Seq(Inspections)
        /\ Numbers' = Numbers \cup {Len(inspections) + 1}
        /\ Len(inspections) + 1 \notin Numbers
        /\ \A i \in Numbers : inspections'[i] = inspections[i]
        /\ inspections'[Len(inspections) + 1] = row
    BY <1>1 DEF TypeOK, Numbers
  <1>3. Failed' = {i \in Numbers' : inspections'[i].result = "fail"}
    BY DEF Failed, ResultOf, Numbers
  <1>4. Failed' = Failed \cup (IF row.result = "fail" THEN {Len(inspections) + 1} ELSE {})
    BY <1>2, <1>3 DEF Failed, ResultOf
  <1> QED BY <1>2, <1>4

\* A commit of record is a stored capture, or a rolled back duplicate.
LEMMA CommitStores ==
  ASSUME TypeOK, NEW r \in Recorders, RecordCommits(r)
  PROVE  \/ UNCHANGED <<inspections, capa, closedBy>>
         \/ \E row \in Inspections : Stored(recorder[r].capture, row)
  <1> DEFINE k == recorder[r].capture
  <1>1. k \in Captures
    BY InspectionRequestTypes DEF RecordCommits
  <1>2. SUFFICES ASSUME ~UNCHANGED <<inspections, capa, closedBy>>
        PROVE  \E row \in Inspections : Stored(k, row)
    OBVIOUS
  <1>3. PICK po \in POs, critical \in 0..1, major \in {2, 3} :
          LET result == gradeInspection(critical, major)
              opened == IF OpensCapa(result) THEN {Len(inspections) + 1} ELSE {} IN
          /\ inspections' = Append(inspections, [capture |-> k, po |-> po, result |-> result])
          /\ capa' = [i \in Failed \cup opened |-> IF i \in opened THEN "open" ELSE capa[i]]
          /\ closedBy' = [i \in Failed \cup opened |-> IF i \in opened THEN 0 ELSE closedBy[i]]
    BY <1>2 DEF RecordCommits
  <1> DEFINE result == gradeInspection(critical, major)
             row == [capture |-> k, po |-> po, result |-> result]
             opened == IF OpensCapa(result) THEN {Len(inspections) + 1} ELSE {}
  <1>4. result \in Results
    BY DEF gradeInspection, Results
  <1>5. row \in Inspections
    BY <1>1, <1>4 DEF Inspections
  <1> HIDE DEF result
  <1>6. /\ inspections' = Append(inspections, row)
        /\ capa' = [i \in Failed \cup opened |-> IF i \in opened THEN "open" ELSE capa[i]]
        /\ closedBy' = [i \in Failed \cup opened |-> IF i \in opened THEN 0 ELSE closedBy[i]]
    BY <1>3 DEF result
  <1>7. row.result = result /\ row.capture = k
    OBVIOUS
  <1>8. Failed' = Failed \cup opened /\ opened \cap Failed = {}
    BY <1>5, <1>6, <1>7, StoredRows DEF OpensCapa, Failed
  <1>9. ~Recorded(k)
    BY <1>2 DEF RecordCommits, Duplicate
  <1>10. capa' = [i \in Failed' |-> IF i \in Failed THEN capa[i] ELSE "open"]
    BY <1>6, <1>8
  <1>11. closedBy' = [i \in Failed' |-> IF i \in Failed THEN closedBy[i] ELSE 0]
    BY <1>6, <1>8
  <1> QED BY <1>5, <1>6, <1>7, <1>9, <1>10, <1>11 DEF Stored

----------------------------------------------------------------------------
\* Every step keeps the types.
LEMMA InspectionTypeStep ==
  ASSUME TypeOK, [Next]_vars
  PROVE  TypeOK'
  <1>1. ASSUME NEW r \in Recorders, RecordStep(r) PROVE TypeOK'
    <2>1. CASE \E k \in Captures : RecordReads(r, k)
      BY <2>1 DEF RecordReads, TypeOK, RecordRequests, Failed, Numbers, ResultOf
    <2>2. CASE RecordCommits(r)
      <3>1. recorder' \in [Recorders -> RecordRequests] /\ UNCHANGED <<user, handled, outcome>>
        BY <2>2 DEF RecordCommits, TypeOK, RecordRequests
      <3>2. CASE UNCHANGED <<inspections, capa, closedBy>>
        BY <3>1, <3>2 DEF TypeOK, Failed, Numbers, ResultOf
      <3>3. CASE \E row \in Inspections : Stored(recorder[r].capture, row)
        <4>1. PICK row \in Inspections : Stored(recorder[r].capture, row)
          BY <3>3
        <4>2. inspections' \in Seq(Inspections) /\ Numbers \subseteq Numbers' /\ Failed \subseteq Failed'
          BY <4>1, StoredRows DEF Stored
        <4>3. capa' \in [Failed' -> {"open", "evidence_submitted", "closed"}]
          BY <4>1 DEF Stored, TypeOK
        <4>4. closedBy' \in [Failed' -> {0} \cup Numbers']
          BY <4>1, <4>2 DEF Stored, TypeOK
        <4> QED BY <3>1, <4>2, <4>3, <4>4 DEF TypeOK
      <3> QED BY <2>2, <3>2, <3>3, CommitStores
    <2> QED BY <1>1, <2>1, <2>2 DEF RecordStep
  <1>2. ASSUME NEW u \in Users, CapaStep(u) PROVE TypeOK'
    <2>1. Failed \subseteq Numbers /\ Numbers \subseteq Nat
      BY InspectionRows DEF Failed, TypeOK
    <2>2. CASE DraftWrites(u)
      BY <2>2, InspectionRequestTypes DEF DraftWrites, TypeOK, CapaRequests, Idle, Failed, Numbers, ResultOf
    <2>3. CASE CloseWrites(u)
      BY <2>3, InspectionRequestTypes DEF CloseWrites, TypeOK, CapaRequests, Idle, Failed, Numbers, ResultOf
    <2>4. ASSUME NEW i \in Failed, DraftReads(u, i) PROVE TypeOK'
      <3>1. [pc |-> "draft", capa |-> i] \in CapaRequests
        BY <2>1 DEF CapaRequests
      <3> QED BY <2>4, <3>1 DEF DraftReads, TypeOK, Failed, Numbers, ResultOf
    <2>5. ASSUME NEW i \in Failed, NEW j \in Numbers, CloseReads(u, i, j) PROVE TypeOK'
      <3>1. [pc |-> "close", capa |-> i, against |-> j] \in CapaRequests
        BY <2>1 DEF CapaRequests
      <3> QED BY <2>5, <3>1 DEF CloseReads, TypeOK, Failed, Numbers, ResultOf
    <2> QED BY <1>2, <2>2, <2>3, <2>4, <2>5 DEF CapaStep
  <1>3. ASSUME NEW i \in Numbers, HandleInspectionRecorded(i) PROVE TypeOK'
    <2>1. inspections[i].po \in POs /\ ResultOf(i) \in Results
      BY InspectionRows DEF TypeOK
    <2> QED BY <1>3, <2>1
      DEF HandleInspectionRecorded, Authoritative, TypeOK, requestVars, Failed, Numbers, ResultOf
  <1>4. ASSUME NEW i \in Numbers, HandleQualityFailed(i) PROVE TypeOK'
    BY <1>4, InspectionRows DEF HandleQualityFailed, TypeOK, requestVars, Failed, Numbers, ResultOf, Results
  <1>5. CASE UNCHANGED vars
    BY <1>5 DEF vars, TypeOK, Failed, Numbers, ResultOf
  <1> QED BY <1>1, <1>2, <1>3, <1>4, <1>5 DEF Next, HandlerStep

\* Type correctness of inspections, CAPAs and the projection.
THEOREM InspectionTypeCorrect == Spec => []TypeOK
  <1>1. Init => TypeOK
    BY DEF Init, TypeOK, RecordRequests, CapaRequests, Idle, Failed, Numbers
  <1>2. TypeOK /\ [Next]_vars => TypeOK'
    BY InspectionTypeStep
  <1> QED BY <1>1, <1>2, PTL DEF Spec

----------------------------------------------------------------------------
\* Only a commit of record writes an inspection, and it stores a capture.
LEMMA InspectionsStep ==
  ASSUME TypeOK, [Next]_vars
  PROVE  \/ UNCHANGED inspections
         \/ /\ \E k \in Captures, row \in Inspections : Stored(k, row)
            /\ UNCHANGED <<handled, outcome>>
  <1>1. ASSUME NEW r \in Recorders, RecordCommits(r)
        PROVE  \/ UNCHANGED inspections
               \/ /\ \E k \in Captures, row \in Inspections : Stored(k, row)
                  /\ UNCHANGED <<handled, outcome>>
    BY <1>1, CommitStores, InspectionRequestTypes DEF RecordCommits
  <1>2. CASE UNCHANGED vars
    BY <1>2 DEF vars
  <1> QED BY <1>1, <1>2
    DEF Next, RecordStep, CapaStep, HandlerStep, RecordReads, DraftReads, DraftWrites, CloseReads,
        CloseWrites, HandleInspectionRecorded, HandleQualityFailed

LEMMA CaptureStep ==
  ASSUME TypeOK, CaptureOnce, [Next]_vars
  PROVE  CaptureOnce'
  <1>1. CASE UNCHANGED inspections
    BY <1>1 DEF CaptureOnce, Numbers
  <1>2. ASSUME NEW k \in Captures, NEW row \in Inspections, Stored(k, row) PROVE CaptureOnce'
    <2>1. /\ Numbers' = Numbers \cup {Len(inspections) + 1}
          /\ \A i \in Numbers : inspections'[i] = inspections[i]
          /\ inspections'[Len(inspections) + 1] = row
      BY <1>2, StoredRows DEF Stored
    <2>2. \A i \in Numbers : inspections[i].capture # row.capture
      BY <1>2 DEF Stored, Recorded
    <2> QED BY <2>1, <2>2 DEF CaptureOnce
  <1> QED BY <1>1, <1>2, InspectionsStep

\* A capture becomes one inspection, however often and concurrently it is synced.
THEOREM OneInspection == Spec => []CaptureOnce
  <1>1. Init => CaptureOnce
    BY DEF Init, CaptureOnce, Numbers
  <1>2. TypeOK /\ CaptureOnce /\ [Next]_vars => CaptureOnce'
    BY CaptureStep
  <1> QED BY <1>1, <1>2, InspectionTypeCorrect, PTL DEF Spec

----------------------------------------------------------------------------
(* The gate, when the bus keeps the commit order                           *)

\* Logistics handled a prefix of what quality committed.
PrefixHandled ==
  /\ \A i, j \in Numbers : i < j /\ <<j, "recorded">> \in handled =>
       <<i, "recorded">> \in handled /\ (i \in Failed => <<i, "failed">> \in handled)
  /\ \A i, j \in Numbers : i < j /\ <<j, "failed">> \in handled =>
       <<i, "recorded">> \in handled /\ (i \in Failed => <<i, "failed">> \in handled)
  /\ \A i \in Numbers : <<i, "failed">> \in handled => <<i, "recorded">> \in handled

\* The projection shows the last inspection of the PO that logistics handled.
ShowsLastHandled ==
  \A i \in Numbers :
    /\ <<i, "recorded">> \in handled
    /\ \A j \in Numbers : inspections[j].po = inspections[i].po /\ i < j =>
         <<j, "recorded">> \notin handled
    => outcome[inspections[i].po] = ResultOf(i)

OrderInv == PrefixHandled /\ ShowsLastHandled

\* An event that arrives in order finds the events before it handled.
LEMMA ArrivesInOrder ==
  ASSUME TypeOK, InOrder, NEW i \in Numbers
  PROVE  /\ Arrives(<<i, "recorded">>) =>
              /\ <<i, "recorded">> \notin handled
              /\ \A j \in Numbers : j < i =>
                   <<j, "recorded">> \in handled /\ (j \in Failed => <<j, "failed">> \in handled)
         /\ (i \in Failed /\ Arrives(<<i, "failed">>)) =>
              /\ <<i, "failed">> \notin handled /\ <<i, "recorded">> \in handled
              /\ \A j \in Numbers : j < i =>
                   <<j, "recorded">> \in handled /\ (j \in Failed => <<j, "failed">> \in handled)
  <1>1. \A j \in Numbers : <<j, "recorded">> \in Events /\ (j \in Failed => <<j, "failed">> \in Events)
    BY DEF Events, EventsOf
  <1>2. \A d \in Events, e \in Events : d[1] < e[1] => d \in Earlier(e)
    BY DEF Earlier
  <1>3. i \in Failed => <<i, "recorded">> \in Earlier(<<i, "failed">>)
    BY <1>1 DEF Earlier
  <1>4. ASSUME NEW j \in Numbers, NEW kind \in {"recorded", "failed"}, j < i, <<i, kind>> \in Events
        PROVE  /\ <<j, "recorded">> \in Earlier(<<i, kind>>)
               /\ j \in Failed => <<j, "failed">> \in Earlier(<<i, kind>>)
    BY <1>1, <1>2, <1>4
  <1> QED BY <1>1, <1>3, <1>4 DEF Arrives

LEMMA InspectionOrderStep ==
  ASSUME TypeOK, InOrder, OrderInv, [Next]_vars
  PROVE  OrderInv'
  <1>0. /\ Len(inspections) \in Nat /\ Numbers = 1 .. Len(inspections)
        /\ \A i \in Numbers : inspections[i].po \in POs
    BY InspectionRows DEF TypeOK
  <1>1. ASSUME NEW k \in Captures, NEW row \in Inspections, Stored(k, row),
               UNCHANGED <<handled, outcome>>
        PROVE  OrderInv'
    <2> DEFINE new == Len(inspections) + 1
    <2>1. /\ Numbers' = Numbers \cup {new} /\ new \notin Numbers
          /\ \A i \in Numbers : inspections'[i] = inspections[i]
          /\ \A i \in Numbers : i \in Failed' <=> i \in Failed
      BY <1>1, StoredRows DEF Stored
    <2>2. <<new, "recorded">> \notin handled /\ <<new, "failed">> \notin handled
      BY <2>1 DEF TypeOK, Failed
    <2>3. \A i \in Numbers : ~(new < i)
      BY <1>0
    <2> HIDE DEF new
    <2>4. PrefixHandled'
      BY <1>1, <2>1, <2>2, <2>3 DEF OrderInv, PrefixHandled
    <2>5. ShowsLastHandled'
      BY <1>1, <2>1, <2>2 DEF OrderInv, ShowsLastHandled, ResultOf
    <2> QED BY <2>4, <2>5 DEF OrderInv
  <1>2. ASSUME NEW i \in Numbers, HandleInspectionRecorded(i) PROVE OrderInv'
    <2>1. /\ <<i, "recorded">> \notin handled
          /\ \A j \in Numbers : j < i =>
               <<j, "recorded">> \in handled /\ (j \in Failed => <<j, "failed">> \in handled)
          /\ UNCHANGED inspections /\ handled' = handled \cup {<<i, "recorded">>}
      BY <1>2, ArrivesInOrder DEF HandleInspectionRecorded
    <2>2. outcome' = [outcome EXCEPT ![inspections[i].po] = ResultOf(i)]
      BY <1>2 DEF HandleInspectionRecorded, Authoritative
    <2>3. Numbers' = Numbers /\ Failed' = Failed
      BY <2>1 DEF Numbers, Failed, ResultOf
    <2>4. PrefixHandled'
      BY <1>0, <2>1, <2>3 DEF OrderInv, PrefixHandled
    <2>5. \A j \in Numbers : i < j => <<j, "recorded">> \notin handled
      BY <2>1 DEF OrderInv, PrefixHandled
    <2>6. ASSUME NEW j \in Numbers, <<j, "recorded">> \in handled',
                 \A l \in Numbers : inspections[l].po = inspections[j].po /\ j < l =>
                   <<l, "recorded">> \notin handled'
          PROVE  outcome'[inspections[j].po] = ResultOf(j)
      <3>1. CASE j = i
        BY <1>0, <2>2, <3>1 DEF TypeOK
      <3>2. CASE j # i
        <4>1. <<j, "recorded">> \in handled /\ j < i
          BY <1>0, <2>1, <2>5, <2>6, <3>2
        <4>2. inspections[j].po # inspections[i].po
          BY <2>1, <2>6, <4>1
        <4> QED BY <1>0, <2>1, <2>2, <2>6, <4>1, <4>2 DEF OrderInv, ShowsLastHandled, TypeOK
      <3> QED BY <3>1, <3>2
    <2>7. ShowsLastHandled'
      BY <2>1, <2>3, <2>6 DEF ShowsLastHandled, ResultOf
    <2> QED BY <2>4, <2>7 DEF OrderInv
  <1>3. ASSUME NEW i \in Numbers, HandleQualityFailed(i) PROVE OrderInv'
    <2>1. /\ i \in Failed /\ <<i, "failed">> \notin handled /\ <<i, "recorded">> \in handled
          /\ \A j \in Numbers : j < i =>
               <<j, "recorded">> \in handled /\ (j \in Failed => <<j, "failed">> \in handled)
          /\ UNCHANGED inspections /\ handled' = handled \cup {<<i, "failed">>}
          /\ outcome' = [outcome EXCEPT ![inspections[i].po] = "fail"]
      BY <1>3, ArrivesInOrder DEF HandleQualityFailed
    <2>2. Numbers' = Numbers /\ Failed' = Failed
      BY <2>1 DEF Numbers, Failed, ResultOf
    <2>3. PrefixHandled'
      BY <1>0, <2>1, <2>2 DEF OrderInv, PrefixHandled
    <2>4. \A j \in Numbers : i < j => <<j, "recorded">> \notin handled
      BY <2>1 DEF OrderInv, PrefixHandled
    <2>5. ASSUME NEW j \in Numbers, <<j, "recorded">> \in handled',
                 \A l \in Numbers : inspections[l].po = inspections[j].po /\ j < l =>
                   <<l, "recorded">> \notin handled'
          PROVE  outcome'[inspections[j].po] = ResultOf(j)
      <3>1. <<j, "recorded">> \in handled
        BY <2>1, <2>5
      <3>2. CASE j = i
        BY <1>0, <2>1, <3>2 DEF TypeOK, Failed
      <3>3. CASE j # i
        <4>1. j < i
          BY <1>0, <2>4, <3>1, <3>3
        <4>2. inspections[j].po # inspections[i].po
          BY <2>1, <2>5, <4>1
        <4> QED BY <1>0, <2>1, <2>5, <3>1, <4>2 DEF OrderInv, ShowsLastHandled, TypeOK
      <3> QED BY <3>2, <3>3
    <2>6. ShowsLastHandled'
      BY <2>1, <2>2, <2>5 DEF ShowsLastHandled, ResultOf
    <2> QED BY <2>3, <2>6 DEF OrderInv
  <1>4. CASE UNCHANGED <<inspections, handled, outcome>>
    BY <1>4 DEF OrderInv, PrefixHandled, ShowsLastHandled, Numbers, Failed, ResultOf
  <1>5. CASE UNCHANGED inspections
    <2>1. CASE UNCHANGED <<handled, outcome>>
      BY <1>4, <1>5, <2>1
    <2>2. CASE ~UNCHANGED <<handled, outcome>>
      <3>1. HandlerStep
        BY <2>2 DEF Next, vars, RecordStep, CapaStep, RecordReads, RecordCommits, DraftReads,
                    DraftWrites, CloseReads, CloseWrites
      <3> QED BY <1>2, <1>3, <3>1 DEF HandlerStep
    <2> QED BY <2>1, <2>2
  <1> QED BY <1>1, <1>5, InspectionsStep

\* "The latest inspection is authoritative", provided the bus hands events over
\* in the order they were committed in (QualityGateService).
THEOREM LatestRules == InOrder /\ Spec => []GateFollowsLatest
  <1>1. Init => OrderInv
    BY DEF Init, OrderInv, PrefixHandled, ShowsLastHandled, Numbers
  <1>2. InOrder /\ TypeOK /\ OrderInv /\ [Next]_vars => OrderInv'
    BY InspectionOrderStep
  <1>3. TypeOK /\ OrderInv => GateFollowsLatest
    <2>1. SUFFICES ASSUME TypeOK, OrderInv, NEW i \in Numbers, IsLatest(i),
                          \A j \in Of(inspections[i].po) : EventsOf(j) \subseteq handled
          PROVE  outcome[inspections[i].po] = ResultOf(i)
      BY DEF GateFollowsLatest
    <2>2. /\ Numbers \subseteq Nat
          /\ \A j \in Numbers : inspections[j].po = inspections[i].po => j <= i
      BY <2>1, InspectionRows DEF IsLatest, Of, TypeOK
    <2>3. <<i, "recorded">> \in handled
      BY <2>1 DEF Of, EventsOf
    <2>4. \A j \in Numbers : ~(inspections[j].po = inspections[i].po /\ i < j)
      <3>1. ASSUME NEW j \in Numbers, inspections[j].po = inspections[i].po PROVE ~(i < j)
        <4>1. j \in Nat /\ i \in Nat /\ j <= i
          BY <2>2, <3>1
        <4> QED BY <4>1
      <3> QED BY <3>1
    <2>5. ShowsLastHandled
      BY <2>1 DEF OrderInv
    <2> QED BY <2>3, <2>4, <2>5 DEF ShowsLastHandled
  <1>4. CASE InOrder
    BY <1>1, <1>2, <1>3, <1>4, InspectionTypeCorrect, PTL DEF Spec
  <1>5. CASE ~InOrder
    BY <1>5
  <1> QED BY <1>4, <1>5
=============================================================================
