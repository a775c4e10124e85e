---------------------------- MODULE SupplierBank ----------------------------
(***************************************************************************)
(* Finance: changes of a supplier's bank account under dual control.  A    *)
(* change applies when its second distinct approver, none of them its      *)
(* requester, commits an approval.                                         *)
(*                                                                         *)
(* The database is READ COMMITTED: the transaction of an approval inserts  *)
(* its row, counts the committed rows and its own, and commits.            *)
(***************************************************************************)
EXTENDS Naturals, FiniteSets

CONSTANTS
  Changes,     \* refs of bank change requests
  Suppliers,
  SupplierOf,  \* the supplier of a change
  Finance,     \* users who may request and approve
  Approvals,   \* concurrent requests to approve
  Nobody, NoChange

ASSUME BankAssumption ==
  /\ SupplierOf \in [Changes -> Suppliers]
  /\ IsFiniteSet(Finance)
  /\ Nobody \notin Finance /\ NoChange \notin Changes

REQUIRED_APPROVALS == 2

VARIABLES
  changeStatus,  \* SupplierBankChangeRequest.status
  requestedBy,
  approvers,     \* committed SupplierBankChangeApproval rows per change
  account,       \* the change whose details the supplier's account has
  approval       \* the transaction of each request to approve

bankVars == <<changeStatus, requestedBy, approvers, account, approval>>

NoApproval == [pc |-> "idle"]

ApprovalSteps ==
  {NoApproval}
    \cup [pc : {"vote"}, change : Changes, by : Finance]
    \cup [pc : {"commit"}, change : Changes, by : Finance, count : Nat]

BankTypeOK ==
  /\ changeStatus \in [Changes -> {"none", "pending_dual_approval", "applied"}]
  /\ requestedBy \in [Changes -> Finance \cup {Nobody}]
  /\ approvers \in [Changes -> SUBSET Finance]
  /\ account \in [Suppliers -> Changes \cup {NoChange}]
  /\ approval \in [Approvals -> ApprovalSteps]

BankInit ==
  /\ changeStatus = [c \in Changes |-> "none"]
  /\ requestedBy = [c \in Changes |-> Nobody]
  /\ approvers = [c \in Changes |-> {}]
  /\ account = [s \in Suppliers |-> NoChange]
  /\ approval = [a \in Approvals |-> NoApproval]

----------------------------------------------------------------------------
\* requestChange: a proposal, pending.
RequestChange(c, u) ==
  /\ changeStatus[c] = "none"
  /\ changeStatus' = [changeStatus EXCEPT ![c] = "pending_dual_approval"]
  /\ requestedBy' = [requestedBy EXCEPT ![c] = u]
  /\ UNCHANGED <<approvers, account, approval>>

\* Mutant: anyone with the permission may approve, the requester too.
AnyApprover(c, u) == TRUE

\* Four eyes: the requester is not one of the approvers.
MayApprove(c, u) == u # requestedBy[c]

\* approve, its reads.
ReadApproval(a, c, u) ==
  /\ approval[a] = NoApproval
  /\ changeStatus[c] = "pending_dual_approval"
  /\ MayApprove(c, u)
  /\ approval' = [approval EXCEPT ![a] = [pc |-> "vote", change |-> c, by |-> u]]
  /\ UNCHANGED <<changeStatus, requestedBy, approvers, account>>

\* The unique (requestRef, approverId).
AlreadyApproved(c, u) == u \in approvers[c]

\* An insert of the same key waits for the transaction that holds it.
HeldByOther(a, c, u) ==
  \E b \in Approvals \ {a} :
    approval[b].pc = "commit" /\ approval[b].change = c /\ approval[b].by = u

\* The approvals the transaction sees: the committed ones and its own.
SeenApprovals(c) == Cardinality(approvers[c]) + 1

Vote(a) ==
  LET v == approval[a] IN
  /\ v.pc = "vote"
  /\ \/ /\ AlreadyApproved(v.change, v.by)
        /\ approval' = [approval EXCEPT ![a] = NoApproval]
     \/ /\ ~AlreadyApproved(v.change, v.by) /\ ~HeldByOther(a, v.change, v.by)
        /\ approval' = [approval EXCEPT ![a] =
             [pc |-> "commit", change |-> v.change, by |-> v.by,
              count |-> SeenApprovals(v.change)]]
  /\ UNCHANGED <<changeStatus, requestedBy, approvers, account>>

\* The commit: the approval, and at the second one the account and the status.
CommitApproval(a) ==
  LET v == approval[a] IN
  /\ v.pc = "commit"
  /\ approvers' = [approvers EXCEPT ![v.change] = @ \cup {v.by}]
  /\ IF v.count < REQUIRED_APPROVALS
       THEN UNCHANGED <<account, changeStatus>>
       ELSE /\ account' = [account EXCEPT ![SupplierOf[v.change]] = v.change]
            /\ changeStatus' = [changeStatus EXCEPT ![v.change] = "applied"]
  /\ approval' = [approval EXCEPT ![a] = NoApproval]
  /\ UNCHANGED requestedBy

----------------------------------------------------------------------------
BankNext ==
  \/ \E c \in Changes, u \in Finance : RequestChange(c, u)
  \/ \E a \in Approvals :
       \/ \E c \in Changes, u \in Finance : ReadApproval(a, c, u)
       \/ Vote(a)
       \/ CommitApproval(a)

BankSpec == BankInit /\ [][BankNext]_bankVars

----------------------------------------------------------------------------
\* Dual control: the details a supplier is paid to come from a change that two
\* people approved, neither of them its requester, whatever approvals race
\* (SupplierBankService.approve).
FourEyes ==
  \A s \in Suppliers :
    LET c == account[s] IN
    c # NoChange =>
      /\ SupplierOf[c] = s /\ changeStatus[c] = "applied"
      /\ Cardinality(approvers[c]) >= REQUIRED_APPROVALS
      /\ requestedBy[c] \notin approvers[c] \cup {Nobody}

\* What the proof needs: a transaction that will commit counted no more
\* approvals than there will be, and its approver is not counted yet.
ApprovalInv ==
  \A a \in Approvals :
    LET v == approval[a] IN
    /\ v.pc # "idle" => v.by # requestedBy[v.change] /\ changeStatus[v.change] # "none"
    /\ v.pc = "commit" =>
         v.by \notin approvers[v.change] /\ v.count <= Cardinality(approvers[v.change]) + 1
    /\ \A b \in Approvals \ {a} :
         (v.pc = "commit" /\ approval[b].pc = "commit" /\ approval[b].change = v.change)
           => approval[b].by # v.by

\* Only a requested change has approvals, and never its requester's.
ApproverInv ==
  \A c \in Changes :
    /\ requestedBy[c] \notin approvers[c]
    /\ changeStatus[c] # "none" => requestedBy[c] # Nobody
    /\ changeStatus[c] = "none" => approvers[c] = {}
============================================================================
