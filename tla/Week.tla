-------------------------------- MODULE Week --------------------------------
(***************************************************************************)
(* The weekly loop of a person: the minutes of the meeting propose a plan, *)
(* the person confirms it and files the report, blockers are raised and    *)
(* cleared.  One week; what a text says is a model value.                  *)
(***************************************************************************)
EXTENDS Naturals, FiniteSets

CONSTANTS
  Staffers,
  MinuteTexts, \* objectives a meeting gives someone
  OwnTexts,    \* objectives people write themselves
  NoText,      \* no objectives
  WeekCalls,   \* concurrent calls
  MaxBlockers  \* bound: blockers of a person

ASSUME WeekAssumption == MaxBlockers \in Nat \ {0}

Texts == MinuteTexts \cup OwnTexts \cup {NoText}

VARIABLES
  plan,        \* Plan.status and objectives, "none" before the row
  report,      \* whose words are in WeeklyReport.highlights
  raised,      \* open blockers, by who raised them: the minutes or by hand
  weekCall,
  agreed,      \* history: the objectives the person last confirmed
  weekRaced    \* history: people two of whose calls overlapped

weekVars == <<plan, report, raised, weekCall, agreed, weekRaced>>

NoWeekCall == [op |-> "idle"]
NoWeekPlan == [status |-> "none", text |-> NoText]
WeekRequests ==
  {NoWeekCall}
    \cup [op : {"minutes"}, of : Staffers, seen : {"none", "draft", "active"},
          text : MinuteTexts \cup {NoText}, shipped : BOOLEAN, blocked : BOOLEAN]
    \cup [op : {"confirm"}, of : Staffers, seen : {"none", "draft", "active"}, text : OwnTexts]
    \cup [op : {"report"}, of : Staffers]

WeekTypeOK ==
  /\ plan \in [Staffers -> [status : {"none", "draft", "active"}, text : Texts]]
  /\ report \in [Staffers -> {"none", "minutes", "self"}]
  /\ raised \in [Staffers -> [minutes : 0..MaxBlockers, hand : 0..MaxBlockers]]
  /\ weekCall \in [WeekCalls -> WeekRequests]
  /\ agreed \in [Staffers -> Texts]
  /\ weekRaced \subseteq Staffers

WeekInit ==
  /\ plan = [p \in Staffers |-> NoWeekPlan]
  /\ report = [p \in Staffers |-> "none"]
  /\ raised = [p \in Staffers |-> [minutes |-> 0, hand |-> 0]]
  /\ weekCall = [c \in WeekCalls |-> NoWeekCall]
  /\ agreed = [p \in Staffers |-> NoText]
  /\ weekRaced = {}

\* A call reads the plan of a person; another that is under way is a race.
ReadsPlan(c, r) ==
  /\ weekCall[c] = NoWeekCall
  /\ weekCall' = [weekCall EXCEPT ![c] = r]
  /\ weekRaced' = IF \E d \in WeekCalls : weekCall[d] # NoWeekCall /\ weekCall[d].of = r.of
                  THEN weekRaced \cup {r.of} ELSE weekRaced
  /\ UNCHANGED <<plan, report, raised, agreed>>

\* ingestMinutes: the transaction of one entry.
MinutesRead(c, p) ==
  \E text \in MinuteTexts \cup {NoText}, shipped \in BOOLEAN, blocked \in BOOLEAN :
    ReadsPlan(c, [op |-> "minutes", of |-> p, seen |-> plan[p].status,
                  text |-> text, shipped |-> shipped, blocked |-> blocked])

\* confirmWeek, with at least one objective.
ConfirmWeekReads(c, p) ==
  \E text \in OwnTexts :
    ReadsPlan(c, [op |-> "confirm", of |-> p, seen |-> plan[p].status, text |-> text])

\* fileReport: only on a plan.
ReportReads(c, p) ==
  /\ plan[p].status # "none"
  /\ ReadsPlan(c, [op |-> "report", of |-> p])

WeekAnswered(c) == weekCall' = [weekCall EXCEPT ![c] = NoWeekCall]

\* The unique (owner, level, period) refuses a second plan.
PlanTaken(c) == weekCall[c].seen = "none" /\ plan[weekCall[c].of].status # "none"

\* Mutant: a re-post gives the objectives of the meeting to any plan.
Overwritten(c) == weekCall[c].seen # "none"

\* Objectives the person confirmed are not overwritten by a re-post.
StillProposed(c) == weekCall[c].seen = "draft"

\* An open blocker of the same summary under the same report.
AlreadyRaised(p) == raised[p].minutes > 0

\* The rest of the transaction, one step: writing the report, which a blocked
\* entry always does, makes another posting wait for this one to commit.  The
\* plan, the report (its highlights only when the entry has some), the blocker.
MinutesWrite(c) ==
  /\ weekCall[c].op = "minutes" /\ ~PlanTaken(c)
  /\ LET r == weekCall[c]
         p == r.of
     IN
       /\ plan' = CASE r.seen = "none" -> [plan EXCEPT ![p] = [status |-> "draft", text |-> r.text]]
                    [] StillProposed(c) -> [plan EXCEPT ![p].text = r.text]
                    [] OTHER -> plan
       /\ report' = IF r.shipped \/ report[p] = "none" THEN [report EXCEPT ![p] = "minutes"] ELSE report
       /\ raised' = IF r.blocked /\ ~AlreadyRaised(p)
                    THEN [raised EXCEPT ![p].minutes = @ + 1] ELSE raised
  /\ WeekAnswered(c)
  /\ UNCHANGED <<agreed, weekRaced>>

\* Confirming makes the plan active, whatever it is by now.
ConfirmWeekWrites(c) ==
  /\ weekCall[c].op = "confirm" /\ ~PlanTaken(c)
  /\ LET r == weekCall[c] IN
       /\ plan' = [plan EXCEPT ![r.of] = [status |-> "active", text |-> r.text]]
       /\ agreed' = [agreed EXCEPT ![r.of] = r.text]
  /\ WeekAnswered(c)
  /\ UNCHANGED <<report, raised, weekRaced>>

ReportWrites(c) ==
  /\ weekCall[c].op = "report"
  /\ report' = [report EXCEPT ![weekCall[c].of] = "self"]
  /\ WeekAnswered(c)
  /\ UNCHANGED <<plan, raised, agreed, weekRaced>>

\* The row is refused, or the call dies: its transaction leaves nothing.
WeekCallFails(c) ==
  /\ weekCall[c] # NoWeekCall
  /\ WeekAnswered(c)
  /\ UNCHANGED <<plan, report, raised, agreed, weekRaced>>

\* raise: a blocker by hand under the report, whatever there is already.
RaiseBlocker(p) ==
  /\ report[p] # "none" /\ raised[p].hand < MaxBlockers
  /\ raised' = [raised EXCEPT ![p].hand = @ + 1]
  /\ UNCHANGED <<plan, report, weekCall, agreed, weekRaced>>

\* clear: an open one; one that is cleared stays as it is.
ClearBlocker(p, by) ==
  /\ raised[p][by] > 0
  /\ raised' = [raised EXCEPT ![p][by] = @ - 1]
  /\ UNCHANGED <<plan, report, weekCall, agreed, weekRaced>>

WeekNext ==
  \/ \E p \in Staffers :
       \/ RaiseBlocker(p)
       \/ \E by \in {"minutes", "hand"} : ClearBlocker(p, by)
       \/ \E c \in WeekCalls : MinutesRead(c, p) \/ ConfirmWeekReads(c, p) \/ ReportReads(c, p)
  \/ \E c \in WeekCalls :
       MinutesWrite(c) \/ ConfirmWeekWrites(c) \/ ReportWrites(c) \/ WeekCallFails(c)

WeekSpec == WeekInit /\ [][WeekNext]_weekVars

----------------------------------------------------------------------------
(* Properties                                                              *)

\* The plan of a person who confirmed one is active and says what they wrote.
ConfirmedIsKept(p) ==
  agreed[p] # NoText => plan[p] = [status |-> "active", text |-> agreed[p]]

\* Re-posting a corrected set updates rather than duplicates: the minutes have
\* one open blocker of a summary, whatever else overlaps.
NoDuplicates(p) == raised[p].minutes <= 1

\* The meeting does not undo somebody's own correction, unless its minutes were
\* being posted while the person confirmed; and it never repeats a blocker.
CorrectionsStand ==
  \A p \in Staffers : NoDuplicates(p) /\ (p \notin weekRaced => ConfirmedIsKept(p))
=============================================================================
