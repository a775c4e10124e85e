---------------------------- MODULE CommandBoard ----------------------------
(***************************************************************************)
(* The grant pipeline of the Command Center.  A request loads the grant,   *)
(* checks that its actor may see it and, to advance it, that the status it *)
(* read allows the hop; the update comes later and writes the row whatever *)
(* it is by then.  Amounts, deadlines and notes are left out.              *)
(***************************************************************************)
EXTENDS AccessScope

CONSTANTS
  Grants,       \* rows
  GrantActors,  \* who asks
  GrantCalls    \* concurrent requests

ASSUME GrantAssumption == GrantActors \subseteq Actors

VARIABLES
  grant,        \* the rows, "none" before they are created
  grantCall,    \* what each request has checked and writes next
  stages        \* history: the statuses each grant has had

grantVars == <<grant, grantCall, stages>>

GrantStatuses == {"identified", "preparing", "submitted", "awarded", "rejected", "closed"}
GRANT_TRANSITIONS ==
  [identified |-> {"preparing"}, preparing |-> {"submitted"},
   submitted |-> {"awarded", "rejected"},
   awarded |-> {"closed"}, rejected |-> {"closed"}, closed |-> {}]

Owners == {a.userId : a \in GrantActors} \cup {Unset}
NoGrantCall == [op |-> "idle"]
GrantRows == [status : GrantStatuses \cup {"none"}, owner : Owners]
GrantRequests ==
  {NoGrantCall}
    \cup [op : {"advance"}, on : Grants, to : GrantStatuses]
    \cup [op : {"assign"}, on : Grants, to : Owners]

GrantTypeOK ==
  /\ grant \in [Grants -> GrantRows]
  /\ grantCall \in [GrantCalls -> GrantRequests]
  /\ stages \in [Grants -> SUBSET GrantStatuses]

GrantInit ==
  /\ grant = [g \in Grants |-> [status |-> "none", owner |-> Unset]]
  /\ grantCall = [c \in GrantCalls |-> NoGrantCall]
  /\ stages = [g \in Grants |-> {}]

\* create: by an executive, with or without an owner.
CreateGrant(g, a, owner) ==
  /\ grant[g].status = "none" /\ a.role \in Executives
  /\ grant' = [grant EXCEPT ![g] = [status |-> "identified", owner |-> owner]]
  /\ stages' = [stages EXCEPT ![g] = {"identified"}]
  /\ UNCHANGED grantCall

\* loadWritable: an internal role, and a grant the actor may see.
LoadWritable(a, g) ==
  /\ a.role \in Internal
  /\ grant[g].status # "none" /\ CanSeeGrant(a, grant[g].owner)

\* Mutant: any status but the one it has.
Elsewhere(g, to) == to # grant[g].status

\* advanceStatus: a hop the funnel has.
LegalHop(g, to) == to \in GRANT_TRANSITIONS[grant[g].status]

AdvanceReads(c, a, g, to) ==
  /\ grantCall[c] = NoGrantCall
  /\ LoadWritable(a, g) /\ LegalHop(g, to)
  /\ grantCall' = [grantCall EXCEPT ![c] = [op |-> "advance", on |-> g, to |-> to]]
  /\ UNCHANGED <<grant, stages>>

\* update: of what it may set, the owner is the field that decides who sees the row.
AssignReads(c, a, g, owner) ==
  /\ grantCall[c] = NoGrantCall
  /\ LoadWritable(a, g)
  /\ grantCall' = [grantCall EXCEPT ![c] = [op |-> "assign", on |-> g, to |-> owner]]
  /\ UNCHANGED <<grant, stages>>

GrantAnswered(c) == grantCall' = [grantCall EXCEPT ![c] = NoGrantCall]

AdvanceWrites(c) ==
  /\ grantCall[c].op = "advance"
  /\ grant' = [grant EXCEPT ![grantCall[c].on].status = grantCall[c].to]
  /\ stages' = [stages EXCEPT ![grantCall[c].on] = @ \cup {grantCall[c].to}]
  /\ GrantAnswered(c)

AssignWrites(c) ==
  /\ grantCall[c].op = "assign"
  /\ grant' = [grant EXCEPT ![grantCall[c].on].owner = grantCall[c].to]
  /\ GrantAnswered(c)
  /\ UNCHANGED stages

GrantCallFails(c) ==
  /\ grantCall[c] # NoGrantCall
  /\ GrantAnswered(c)
  /\ UNCHANGED <<grant, stages>>

GrantNext ==
  \/ \E g \in Grants, a \in GrantActors, owner \in Owners : CreateGrant(g, a, owner)
  \/ \E c \in GrantCalls :
       \/ \E g \in Grants, a \in GrantActors :
            \/ \E to \in GrantStatuses : AdvanceReads(c, a, g, to)
            \/ \E owner \in Owners : AssignReads(c, a, g, owner)
       \/ AdvanceWrites(c) \/ AssignWrites(c) \/ GrantCallFails(c)

GrantSpec == GrantInit /\ [][GrantNext]_grantVars

----------------------------------------------------------------------------
(* Properties                                                              *)

\* The funnel, stage by stage: what a grant must have been before.
Earlier ==
  [identified |-> {}, preparing |-> {"identified"}, submitted |-> {"preparing"},
   awarded |-> {"submitted"}, rejected |-> {"submitted"}, closed |-> {"awarded", "rejected"}]

\* No grant is in a stage it was not brought to through the stages before it, whatever
\* requests cross: a stale one may repeat a stage, it never skips one.
NoStageSkipped ==
  \A g \in Grants : \A s \in stages[g] :
    s # "identified" => Earlier[s] \cap stages[g] # {}
============================================================================
