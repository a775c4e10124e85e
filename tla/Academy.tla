------------------------------ MODULE Academy ------------------------------
(***************************************************************************)
(* Empower Academy: one learner's modules, attempts at the final           *)
(* assessment, and certificate.  Server functions query and insert over    *)
(* HTTP, a statement at a time and in no transaction, and the learner may  *)
(* be at two devices, or try again while a request still runs.             *)
(* Questions and names are left out; a device's own progress, kept while   *)
(* signed out, counts once it is in the account.                           *)
(***************************************************************************)
EXTENDS Naturals, FiniteSets

CONSTANTS
  Core,            \* the required modules
  AcademyCalls,    \* requests at a time
  MaxAttempts,     \* assessments.max_attempts
  MaxRows          \* bound: attempts, and certificates

ASSUME AcademyAssumption == MaxAttempts \in Nat /\ MaxRows \in Nat

VARIABLES
  completed,     \* the learner's module_progress rows with a completed_at
  shown,         \* modules that such rows of others name, as far as the row policies let
                 \* the learner read them: none but to staff and to sponsoring partners
  attempts,      \* assessment_attempts rows
  passed,        \* one of them passed
  certificates,  \* certificates rows
  learnerCall,   \* how far each request is
  everCompleted, \* history: modules that have been completed
  everShown,     \* history: modules that have been shown
  disturbed      \* history: two requests of one kind were under way at once, or one did
                 \* not look at the error of its query

progressVars == <<completed, shown, everCompleted, everShown>>
academyVars == <<progressVars, attempts, passed, certificates, learnerCall, disturbed>>

NoLearnerCall == [op |-> "none", pc |-> "idle"]
LearnerRequests ==
  {NoLearnerCall}
    \cup [op : {"attempt"}, pc : {"insert"}]
    \cup [op : {"certificate"}, pc : {"progress", "attempts", "insert"}]

AcademyTypeOK ==
  /\ completed \subseteq Core /\ everCompleted \subseteq Core
  /\ shown \subseteq Core /\ everShown \subseteq Core
  /\ attempts \in Nat /\ certificates \in Nat
  /\ passed \in BOOLEAN /\ disturbed \in BOOLEAN
  /\ learnerCall \in [AcademyCalls -> LearnerRequests]

AcademyInit ==
  /\ completed = {} /\ everCompleted = {} /\ shown = {} /\ everShown = {}
  /\ attempts = 0 /\ passed = FALSE /\ certificates = 0
  /\ disturbed = FALSE
  /\ learnerCall = [c \in AcademyCalls |-> NoLearnerCall]

\* toggle: a module is marked as completed, or no longer.
ToggleModule(m) ==
  /\ completed' = IF m \in completed THEN completed \ {m} ELSE completed \cup {m}
  /\ everCompleted' = everCompleted \cup {m}
  /\ UNCHANGED <<shown, everShown, attempts, passed, certificates, learnerCall, disturbed>>

\* Other learners complete modules, roles and sponsorships come and go: what the policies
\* of module_progress show the learner of others changes.
OthersShow(S) ==
  /\ shown' = S
  /\ everShown' = everShown \cup S
  /\ UNCHANGED <<completed, everCompleted, attempts, passed, certificates, learnerCall,
                 disturbed>>

LearnerStep(c, op, pc) ==
  /\ learnerCall' = [learnerCall EXCEPT ![c] = [op |-> op, pc |-> pc]]
  /\ disturbed' = (disturbed \/ \E d \in AcademyCalls \ {c} : learnerCall[d].op = op)
  /\ UNCHANGED progressVars

LearnerAnswered(c) ==
  /\ learnerCall' = [learnerCall EXCEPT ![c] = NoLearnerCall]
  /\ UNCHANGED <<progressVars, disturbed>>

\* The query of the attempts used, or of the certificate, fails and its error is not
\* looked at: the request goes on as if there were none.
OverlooksError(c) ==
  /\ learnerCall[c] = NoLearnerCall
  /\ \E r \in {[op |-> "attempt", pc |-> "insert"], [op |-> "certificate", pc |-> "progress"]} :
       learnerCall' = [learnerCall EXCEPT ![c] = r]
  /\ disturbed' = TRUE
  /\ UNCHANGED <<progressVars, attempts, passed, certificates>>

----------------------------------------------------------------------------
(* submitFinalAttempt                                                      *)

\* Mutant: one attempt more than there are.
UsedUpLate(n) == n > MaxAttempts

UsedUp(n) == n >= MaxAttempts

CountsAttempts(c) ==
  /\ learnerCall[c] = NoLearnerCall /\ ~UsedUp(attempts)
  /\ LearnerStep(c, "attempt", "insert")
  /\ UNCHANGED <<attempts, passed, certificates>>

\* The answers are graded and the attempt inserted; its answers follow, and whether
\* they arrive is not looked at.
InsertsAttempt(c, pass) ==
  /\ learnerCall[c].op = "attempt" /\ attempts < MaxRows
  /\ attempts' = attempts + 1 /\ passed' = (passed \/ pass)
  /\ LearnerAnswered(c)
  /\ UNCHANGED certificates

----------------------------------------------------------------------------
(* issueMyCertificate                                                      *)

\* maybeSingle answers with the certificate if there is exactly one: of several it
\* makes an error, which is not looked at.
FindsNoCertificate(c) ==
  /\ learnerCall[c] = NoLearnerCall /\ certificates # 1
  /\ LearnerStep(c, "certificate", "progress")
  /\ UNCHANGED <<attempts, passed, certificates>>

\* The query of module_progress names no user: it finds every row the learner may read.
FindsModules(c) ==
  /\ learnerCall[c] = [op |-> "certificate", pc |-> "progress"]
  /\ completed \cup shown = Core
  /\ LearnerStep(c, "certificate", "attempts")
  /\ UNCHANGED <<attempts, passed, certificates>>

FindsPass(c) ==
  /\ learnerCall[c] = [op |-> "certificate", pc |-> "attempts"] /\ passed
  /\ LearnerStep(c, "certificate", "insert")
  /\ UNCHANGED <<attempts, passed, certificates>>

\* A number that is taken is drawn again.
InsertsCertificate(c) ==
  /\ learnerCall[c] = [op |-> "certificate", pc |-> "insert"]
  /\ certificates < MaxRows
  /\ certificates' = certificates + 1
  /\ LearnerAnswered(c)
  /\ UNCHANGED <<attempts, passed>>

\* Refused where a condition above does not hold, failed, or never answered.
LearnerCallEnds(c) ==
  /\ learnerCall[c] # NoLearnerCall
  /\ LearnerAnswered(c)
  /\ UNCHANGED <<attempts, passed, certificates>>

AcademyNext ==
  \/ \E m \in Core : ToggleModule(m)
  \/ \E S \in SUBSET Core : OthersShow(S)
  \/ \E c \in AcademyCalls :
       \/ OverlooksError(c) \/ CountsAttempts(c)
       \/ \E pass \in BOOLEAN : InsertsAttempt(c, pass)
       \/ FindsNoCertificate(c) \/ FindsModules(c) \/ FindsPass(c) \/ InsertsCertificate(c)
       \/ LearnerCallEnds(c)

AcademySpec == AcademyInit /\ [][AcademyNext]_academyVars

----------------------------------------------------------------------------
(* Properties                                                              *)

\* A certificate is of a learner who passed, and each of its required modules was completed
\* by the learner or by somebody whose progress they could read, though the conditions are
\* read one after the other: by the learner, to whom nobody's was shown.  As long as no two
\* requests of a kind overlap and the two queries answer, whatever requests are broken off
\* and tried again, there is one certificate and no attempt over the limit.
EarnedOnce ==
  /\ certificates > 0 => passed /\ everCompleted \cup everShown = Core
  /\ ~disturbed => attempts <= MaxAttempts /\ certificates <= 1
============================================================================
