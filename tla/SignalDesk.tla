----------------------------- MODULE SignalDesk -----------------------------
(***************************************************************************)
(* What becomes of a filed signal: runs of the triage ask the model about  *)
(* new ones and write down its answer; people promote, dismiss and share.  *)
(***************************************************************************)
EXTENDS Naturals, FiniteSets

CONSTANTS
  DeskSignals,
  MaxPerRun,    \* TriageService.MAX_PER_RUN
  TriageRuns,   \* concurrent runs: the scheduler's and those people ask for
  Promoters     \* concurrent calls of promote

ASSUME DeskAssumption == MaxPerRun \in Nat \ {0}

VARIABLES
  signal,       \* Signal.status, "none" before it is filed
  lane,         \* Signal.lane
  asking,       \* the signals each run has read and not been through
  promoting,    \* the signals each call of promote has read
  word,         \* history: the last status a person gave it
  contested     \* history: signals decided while a run had them in hand

deskVars == <<signal, lane, asking, promoting, word, contested>>

DeskStatuses == {"new", "triaged", "dismissed", "promoted"}

DeskTypeOK ==
  /\ signal \in [DeskSignals -> {"none"} \cup DeskStatuses]
  /\ lane \in [DeskSignals -> {"private", "shared"}]
  /\ asking \in [TriageRuns -> SUBSET DeskSignals]
  /\ promoting \in [Promoters -> SUBSET DeskSignals]
  /\ word \in [DeskSignals -> {"none", "dismissed", "promoted"}]
  /\ contested \subseteq DeskSignals

DeskInit ==
  /\ signal = [s \in DeskSignals |-> "none"]
  /\ lane \in [DeskSignals -> {"private", "shared"}]
  /\ asking = [r \in TriageRuns |-> {}]
  /\ promoting = [c \in Promoters |-> {}]
  /\ word = [s \in DeskSignals |-> "none"]
  /\ contested = {}

\* record and add: a row that is new.
FileSignal(s) ==
  /\ signal[s] = "none"
  /\ signal' = [signal EXCEPT ![s] = "new"]
  /\ UNCHANGED <<lane, asking, promoting, word, contested>>

\* Mutant: a run takes what is still in the queue, triaged before or dismissed.
InQueue == {s \in DeskSignals : signal[s] \in DeskStatuses \ {"promoted"}}

\* The signals a run may take.
NewSignals == {s \in DeskSignals : signal[s] = "new"}

\* run: a bounded number of the new signals (the oldest: which, is left open).
TriageStarts(r) ==
  /\ asking[r] = {}
  /\ \E batch \in SUBSET NewSignals :
       /\ Cardinality(batch) \in 1..MaxPerRun
       /\ Cardinality(batch) = MaxPerRun \/ batch = NewSignals
       /\ asking' = [asking EXCEPT ![r] = batch]
  /\ UNCHANGED <<signal, lane, promoting, word, contested>>

Heard(r, s) == asking' = [asking EXCEPT ![r] = @ \ {s}]

\* The model's answer is written on the signal, whatever became of it.
TriageWrites(r, s) ==
  /\ s \in asking[r]
  /\ \E noise \in BOOLEAN :
       signal' = [signal EXCEPT ![s] = IF noise THEN "dismissed" ELSE "triaged"]
  /\ Heard(r, s)
  /\ UNCHANGED <<lane, promoting, word, contested>>

\* No answer, or an error: the signal is skipped; the process may also die.
TriageSkips(r, s) ==
  /\ s \in asking[r]
  /\ Heard(r, s)
  /\ UNCHANGED <<signal, lane, promoting, word, contested>>

\* A person's decision about a signal.
Decide(s, status) ==
  /\ signal' = [signal EXCEPT ![s] = status]
  /\ word' = [word EXCEPT ![s] = status]
  /\ contested' = IF \E r \in TriageRuns : s \in asking[r]
                  THEN contested \cup {s} ELSE contested
  /\ UNCHANGED <<lane, asking>>

\* promote: refused when it was promoted already.
PromoteReads(c, s) ==
  /\ promoting[c] = {} /\ signal[s] \notin {"none", "promoted"}
  /\ promoting' = [promoting EXCEPT ![c] = {s}]
  /\ UNCHANGED <<signal, lane, asking, word, contested>>

PromoteWrites(c) ==
  \E s \in promoting[c] :
    /\ Decide(s, "promoted")
    /\ promoting' = [promoting EXCEPT ![c] = {}]

\* dismiss: any signal, one that was promoted included.
Dismiss(s) ==
  /\ signal[s] # "none"
  /\ Decide(s, "dismissed")
  /\ UNCHANGED promoting

\* share: there is no way back.
Share(s) ==
  /\ signal[s] # "none" /\ lane[s] = "private"
  /\ lane' = [lane EXCEPT ![s] = "shared"]
  /\ UNCHANGED <<signal, asking, promoting, word, contested>>

DeskNext ==
  \/ \E s \in DeskSignals :
       \/ FileSignal(s) \/ Dismiss(s) \/ Share(s)
       \/ \E c \in Promoters : PromoteReads(c, s)
       \/ \E r \in TriageRuns : TriageWrites(r, s) \/ TriageSkips(r, s)
  \/ \E r \in TriageRuns : TriageStarts(r)
  \/ \E c \in Promoters : PromoteWrites(c)

DeskSpec == DeskInit /\ [][DeskNext]_deskVars

----------------------------------------------------------------------------
(* Properties                                                              *)

\* Triage proposes, and a person acts: what people decided about a signal is
\* never taken back by a run, except by one that had read it before as new.
PeopleDecide ==
  \A s \in DeskSignals :
    (word[s] # "none" /\ s \notin contested) => signal[s] = word[s]
=============================================================================
