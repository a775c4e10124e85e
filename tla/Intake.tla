------------------------------ MODULE Intake -------------------------------
(***************************************************************************)
(* Sweeps of the signal intake: each reads every source since the instant  *)
(* of the newest Signal row and files what it got, row by row, while       *)
(* messages keep arriving and people type signals in.                      *)
(***************************************************************************)
EXTENDS Naturals, FiniteSets, FiniteSetsExt

CONSTANTS
  Messages,    \* what the sources will hold
  SourceOf,    \* the source of a message
  Mail,        \* the source that lists a bounded page: Gmail
  MaxPerSweep, \* GmailSource.MAX_PER_SWEEP
  Notes,       \* signals people type in
  Sweeps,      \* concurrent calls of sweep
  MaxTime      \* bound on the clock

Sources == {SourceOf[m] : m \in Messages}

ASSUME IntakeAssumption ==
  /\ MaxPerSweep \in Nat \ {0} /\ MaxTime \in Nat \ {0}
  /\ IsFiniteSet(Messages) /\ IsFiniteSet(Notes) /\ Messages \cap Notes = {}

VARIABLES
  now,
  occurred,    \* when a message appeared in its source, 0 before it does
  capturedAt,  \* Signal.capturedAt, 0 before the row exists
  sweep        \* what each sweep has read and not filed yet

intakeVars == <<now, occurred, capturedAt, sweep>>
signalVars == <<now, occurred, capturedAt>>

Signals == Messages \cup Notes
Filed == {i \in Signals : capturedAt[i] # 0}
SweepStates ==
  [pc : {"resting", "collect", "record", "insert"}, since : 0..MaxTime,
   left : SUBSET (Sources \cup Messages), batch : SUBSET Messages, seen : 0..Cardinality(Signals)]
Resting == [pc |-> "resting", since |-> 0, left |-> {}, batch |-> {}, seen |-> 0]

IntakeTypeOK ==
  /\ now \in 1..MaxTime
  /\ occurred \in [Messages -> 0..MaxTime]
  /\ capturedAt \in [Signals -> 0..MaxTime]
  /\ sweep \in [Sweeps -> SweepStates]
  /\ \A w \in Sweeps : sweep[w].left \subseteq IF sweep[w].pc = "insert" THEN Messages ELSE Sources

IntakeInit ==
  /\ now = 1
  /\ occurred = [m \in Messages |-> 0]
  /\ capturedAt = [i \in Signals |-> 0]
  /\ sweep = [w \in Sweeps |-> Resting]

\* The newest capturedAt of all rows, or the cold start, before all of this.
Watermark == Max({capturedAt[i] : i \in Signals} \cup {0})

\* What a source has for a sweep: Gmail's whole seconds include the instant itself.
Lists(m, since) ==
  /\ occurred[m] # 0
  /\ IF SourceOf[m] = Mail THEN occurred[m] >= since ELSE occurred[m] > since

Tick ==
  /\ now < MaxTime
  /\ now' = now + 1
  /\ UNCHANGED <<occurred, capturedAt, sweep>>

Occur(m) ==
  /\ occurred[m] = 0
  /\ occurred' = [occurred EXCEPT ![m] = now]
  /\ UNCHANGED <<now, capturedAt, sweep>>

Start(w) ==
  /\ sweep[w].pc = "resting"
  /\ sweep' = [sweep EXCEPT ![w] =
       [pc |-> "collect", since |-> Watermark, left |-> Sources, batch |-> {}, seen |-> 0]]
  /\ UNCHANGED signalVars

\* collect of one source: everything since, or a page of it, or nothing at all
\* when the source fails.
Collect(w, s) ==
  /\ sweep[w].pc = "collect"
  /\ s \in sweep[w].left
  /\ LET found == {m \in Messages : SourceOf[m] = s /\ Lists(m, sweep[w].since)} IN
       \E got \in SUBSET found :
         /\ \/ got = {}
            \/ s # Mail /\ got = found
            \/ s = Mail /\ Cardinality(got) = Min({MaxPerSweep, Cardinality(found)})
         /\ sweep' = [sweep EXCEPT ![w].batch = @ \cup got,
                                   ![w].left = @ \ {s},
                                   ![w].pc = IF sweep[w].left = {s} THEN "record" ELSE "collect"]
  /\ UNCHANGED signalVars

\* record: a signal that is filed already is passed over; the ref of another
\* is the next of the rows seen.
Check(w, m) ==
  /\ sweep[w].pc = "record"
  /\ m \in sweep[w].batch
  /\ sweep' = IF capturedAt[m] # 0
              THEN [sweep EXCEPT ![w].batch = @ \ {m}]
              ELSE [sweep EXCEPT ![w].pc = "insert", ![w].left = {m},
                                 ![w].seen = Cardinality(Filed)]
  /\ UNCHANGED signalVars

\* Mutant: the row is upserted.
Upserted(m) == FALSE

\* The unique (source, externalId).
Refused(m) == capturedAt[m] # 0

\* The row.  When another call filed the signal meanwhile, or took the ref, the
\* unique column refuses it and the error ends the sweep with its batch.
Insert(w) ==
  /\ sweep[w].pc = "insert"
  /\ \E m \in sweep[w].left :
       \/ /\ Refused(m) \/ Cardinality(Filed) # sweep[w].seen
          /\ sweep' = [sweep EXCEPT ![w] = Resting]
          /\ UNCHANGED capturedAt
       \/ /\ ~Refused(m)
          /\ capturedAt' = [capturedAt EXCEPT ![m] = now]
          /\ sweep' = [sweep EXCEPT ![w].pc = "record", ![w].left = {},
                                    ![w].batch = @ \ {m}]
  /\ UNCHANGED <<now, occurred>>

Finish(w) ==
  /\ sweep[w].pc = "record"
  /\ sweep[w].batch = {}
  /\ sweep' = [sweep EXCEPT ![w] = Resting]
  /\ UNCHANGED signalVars

\* add: a signal typed in is a row like the others.
Add(n) ==
  /\ capturedAt[n] = 0
  /\ capturedAt' = [capturedAt EXCEPT ![n] = now]
  /\ UNCHANGED <<now, occurred, sweep>>

IntakeNext ==
  \/ Tick
  \/ \E m \in Messages : Occur(m)
  \/ \E n \in Notes : Add(n)
  \/ \E w \in Sweeps :
       \/ Start(w) \/ Insert(w) \/ Finish(w)
       \/ \E s \in Sources : Collect(w, s)
       \/ \E m \in Messages : Check(w, m)

IntakeSpec == IntakeInit /\ [][IntakeNext]_intakeVars

----------------------------------------------------------------------------
(* Properties                                                              *)

\* Overlapping sweeps re-file nothing (sweep): a row that exists keeps the
\* instant of its capture, and with it the place of the watermark.
RefilesNothing ==
  [][\A i \in Signals : capturedAt[i] # 0 => capturedAt'[i] = capturedAt[i]]_intakeVars

\* A sweep under way will still file m.
InHand(m) ==
  \E w \in Sweeps :
    \/ m \in sweep[w].batch
    \/ sweep[w].pc = "collect" /\ SourceOf[m] \in sweep[w].left /\ Lists(m, sweep[w].since)

\* A backlog is drained over several sweeps (GmailSource): a message that no
\* sweep has filed or is about to file is listed again by the next one.  A full
\* page breaks this in the code, so no run has it.
NothingSkipped ==
  \A m \in Messages :
    (occurred[m] # 0 /\ capturedAt[m] = 0) => (InHand(m) \/ Lists(m, Watermark))
============================================================================
