----------------------------- MODULE ProposalWorkflow -----------------------------
(***************************************************************************)
(* The approval workflow of one proposal: WorkflowService                  *)
(* (src/src/proposals/workflow.service.ts) over the tables proposals,      *)
(* proposal_approvals and proposal_status_history.                         *)
(*                                                                         *)
(* A handler is split the way its transaction is: a guard over what it     *)
(* reads first, and a "Writes" operator for everything from its first      *)
(* UPDATE or INSERT on.  Here the two are one step, so the requests on a   *)
(* proposal come one at a time; ConcurrentReview takes them apart.         *)
(*                                                                         *)
(* Left out: texts, timestamps, comments, e-mails, the audit log, the      *)
(* project's members, budget items and first document, and who recorded a  *)
(* decision.  Department checks and role lookups are folded into the       *)
(* constant Approvers; form contents and their validation into the choice  *)
(* of a valid form.                                                        *)
(*                                                                         *)
(* A definition marked "Fault" is no part of the model: it is the          *)
(* definition after it with a mistake, which the properties must notice.   *)
(***************************************************************************)
EXTENDS Naturals, Sequences, FiniteSets

CONSTANTS
    Users,
    Creator,        \* proposals.created_by
    Rules,          \* rows proposal_approvals can get: one per routing rule of the program
    Matchings,      \* sets of rules whose branch conditions hold for one proposal
    StepOrder,      \* proposal_approvals.step_order
    StepType,       \* proposal_approvals.step_type
    Approvers,      \* users resolveApprover lets act on the step
    VoteThreshold,  \* proposal_approvals.vote_threshold, 0 for NULL
    VoteStrategy,   \* proposal_approvals.vote_threshold_strategy
    MaxHistory      \* bound: no submission once the history has this many rows

Decisions  == {"Pending", "Accepted", "Rejected", "Needs_Revision"}
Outcomes   == Decisions \ {"Pending"}
Statuses   == {"Draft", "Under_Review", "Needs_Revision", "Approved"}
StepTypes  == {"APPROVAL", "VOTE", "FORM"}
Strategies == {"MAJORITY", "ALL", "NUMBER"}

ASSUME CreatorAssumption == Creator \in Users

ASSUME RulesAssumption ==
    /\ StepOrder \in [Rules -> Nat \ {0}]
    /\ StepType \in [Rules -> StepTypes]
    /\ Approvers \in [Rules -> SUBSET Users]
    /\ VoteThreshold \in [Rules -> Nat]
    /\ VoteStrategy \in [Rules -> Strategies]

\* db/schema/routing.ts:42: only one branch of a condition group holds for a proposal,
\* so no two steps of one proposal share an order.
ASSUME MatchingsAssumption ==
    /\ Matchings \subseteq SUBSET Rules
    /\ \A M \in Matchings : \A r, s \in M : StepOrder[r] = StepOrder[s] => r = s

ASSUME MaxHistoryAssumption == MaxHistory \in Nat

VARIABLES
    status,             \* proposals.current_status
    isEditable,         \* proposals.is_editable
    workspaceUnlocked,  \* proposals.workspace_unlocked
    currentStepOrder,   \* proposals.current_step_order, 0 for NULL
    projects,           \* how many projects were created from the proposal
    steps,              \* the rows in proposal_approvals
    decision,           \* their decision
    active,             \* the rows with is_active set
    votes,              \* their vote_json, "none" for a user without a vote
    history             \* proposal_status_history, oldest row first

proposalVars == <<status, isEditable, workspaceUnlocked, currentStepOrder, projects>>
vars == <<proposalVars, steps, decision, active, votes, history>>

NoVotes == [u \in Users |-> "none"]

-----------------------------------------------------------------------------
(* Reading the tables. *)

\* The rows of S with the least step_order.
Earliest(S) == {r \in S : \A s \in S : StepOrder[r] <= StepOrder[s]}

\* The rejected or sent back row with the greatest step_order, the one to resume from.
LastIncomplete ==
    LET incomplete == {r \in steps : decision[r] \in {"Rejected", "Needs_Revision"}}
    IN  {r \in incomplete : \A s \in incomplete : StepOrder[s] <= StepOrder[r]}

Voters(ballots) == {u \in DOMAIN ballots : ballots[u] # "none"}
VotesFor(ballots, d) == {u \in DOMAIN ballots : ballots[u] = d}

\* checkVoteThreshold: the strategy is not looked at.
ThresholdMet(r, ballots) == Cardinality(Voters(ballots)) >= VoteThreshold[r]

\* The outcome once the threshold is met: votes for a revision count for neither side.
VoteOutcome(r, ballots) ==
    LET approvals  == Cardinality(VotesFor(ballots, "Accepted"))
        rejections == Cardinality(VotesFor(ballots, "Rejected"))
        lost == IF VoteStrategy[r] = "MAJORITY" THEN rejections >= approvals
                                                ELSE rejections > 0
    IN  IF lost THEN "Rejected" ELSE "Accepted"

-----------------------------------------------------------------------------
(* What the handlers write.  "old" is the status the handler read first. *)

\* proposalStatusHistory insert.
Record(old, new) == history' = Append(history, [old |-> old, new |-> new])

\* generateApprovalStepsFromRules: insert the matching rows, activate the first.
GenerateSteps ==
    \E M \in Matchings \ {{}} :
        /\ M \cap steps = {}
        /\ steps' = steps \cup M
        /\ active' = active \cup Earliest(M)
        /\ UNCHANGED <<decision, votes>>

\* Fault: the row that is resumed keeps its old decision.
ResumeWithoutReset(r) ==
    /\ active' = {r}
    /\ votes' = [votes EXCEPT ![r] = NoVotes]
    /\ UNCHANGED <<steps, decision>>

\* Fault: the review starts again from nothing.
ResumeFromScratch(r) ==
    /\ active' = {r}
    /\ decision' = [s \in Rules |-> "Pending"]
    /\ votes' = [votes EXCEPT ![r] = NoVotes]
    /\ UNCHANGED steps

\* resumeWorkflowFromLastIncompleteStep: reset the row r and leave it the only active one.
ResumeFrom(r) ==
    /\ active' = {r}
    /\ decision' = [decision EXCEPT ![r] = "Pending"]
    /\ votes' = [votes EXCEPT ![r] = NoVotes]
    /\ UNCHANGED steps

\* Fault: the proposal stays editable under review.
SubmitWithoutLock(old) ==
    /\ status' = "Under_Review"
    /\ currentStepOrder' = 1
    /\ Record(old, "Under_Review")
    /\ UNCHANGED <<isEditable, workspaceUnlocked, projects>>

\* submitProposal, after the rows are generated or one of them is reset.
SubmitWrites(old) ==
    /\ status' = "Under_Review"
    /\ isEditable' = FALSE
    /\ currentStepOrder' = 1
    /\ Record(old, "Under_Review")
    /\ UNCHANGED <<workspaceUnlocked, projects>>

\* Fault: no project is created.
CompleteWithoutProject(r) ==
    /\ active' = active \ {r}
    /\ status' = "Approved"
    /\ isEditable' = FALSE
    /\ workspaceUnlocked' = TRUE
    /\ currentStepOrder' = 0
    /\ Record(status, "Approved")
    /\ UNCHANGED projects

\* completeWorkflow and createProjectFromApprovedProposal.
CompleteWorkflow(r) ==
    /\ active' = active \ {r}
    /\ status' = "Approved"
    /\ isEditable' = FALSE
    /\ workspaceUnlocked' = TRUE
    /\ currentStepOrder' = 0
    /\ projects' = projects + 1
    /\ Record(status, "Approved")

\* Fault: the next row is not activated.
ActivateNone(r, n) ==
    /\ active' = active \ {r}
    /\ currentStepOrder' = StepOrder[n]
    /\ UNCHANGED <<status, isEditable, workspaceUnlocked, projects, history>>

\* advanceWorkflow when a pending row n is left.
ActivateNext(r, n) ==
    /\ active' = (active \ {r}) \cup {n}
    /\ currentStepOrder' = StepOrder[n]
    /\ UNCHANGED <<status, isEditable, workspaceUnlocked, projects, history>>

\* Fault: the pending rows are not sorted.
AcceptInAnyOrder(r) ==
    LET pending == {s \in steps \ {r} : decision[s] = "Pending"}
    IN  /\ decision' = [decision EXCEPT ![r] = "Accepted"]
        /\ \/ pending = {} /\ CompleteWorkflow(r)
           \/ \E n \in pending : ActivateNext(r, n)
        /\ UNCHANGED steps

\* acceptStep: the row r is accepted and the workflow advances.
AcceptWrites(r) ==
    LET pending == {s \in steps \ {r} : decision[s] = "Pending"}
    IN  /\ decision' = [decision EXCEPT ![r] = "Accepted"]
        /\ \/ pending = {} /\ CompleteWorkflow(r)
           \/ \E n \in Earliest(pending) : ActivateNext(r, n)
        /\ UNCHANGED steps

\* transitionStep: rejectStep and requestRevision.
TransitionWrites(old, r, d, newStatus, editable) ==
    /\ decision' = [decision EXCEPT ![r] = d]
    /\ active' = {s \in active \ {r} : decision[s] # "Pending"}
    /\ status' = newStatus
    /\ isEditable' = editable
    /\ currentStepOrder' = 0
    /\ Record(old, newStatus)
    /\ UNCHANGED <<workspaceUnlocked, projects, steps>>

\* Fault: the row is left undecided.
RejectUndecided(old, r) ==
    /\ active' = {}
    /\ status' = "Needs_Revision"
    /\ isEditable' = TRUE
    /\ currentStepOrder' = 0
    /\ Record(old, "Needs_Revision")
    /\ UNCHANGED <<workspaceUnlocked, projects, steps, decision>>

\* Fault: the history is not written.
RejectUnrecorded(old, r) ==
    /\ decision' = [decision EXCEPT ![r] = "Rejected"]
    /\ active' = {}
    /\ status' = "Needs_Revision"
    /\ isEditable' = TRUE
    /\ currentStepOrder' = 0
    /\ UNCHANGED <<workspaceUnlocked, projects, steps, history>>

\* handleRejection: whatever was asked for, the row is recorded as rejected.
HandleRejection(old, r) ==
    /\ decision' = [decision EXCEPT ![r] = "Rejected"]
    /\ active' = {}
    /\ status' = "Needs_Revision"
    /\ isEditable' = TRUE
    /\ currentStepOrder' = 0
    /\ Record(old, "Needs_Revision")
    /\ UNCHANGED <<workspaceUnlocked, projects, steps>>

\* handleApprovalStep and handleFormStep, once the input is validated.
DecisionWrites(old, r, d) ==
    \/ d = "Accepted" /\ AcceptWrites(r)
    \/ d # "Accepted" /\ HandleRejection(old, r)

\* handleVoteStep: the ballots read with the step, with one vote added, overwrite the row's.
VoteWrites(old, r, ballots) ==
    /\ votes' = [votes EXCEPT ![r] = ballots]
    /\ \/ /\ ~ThresholdMet(r, ballots)
          /\ UNCHANGED <<proposalVars, steps, decision, active, history>>
       \/ /\ ThresholdMet(r, ballots)
          /\ DecisionWrites(old, r, VoteOutcome(r, ballots))

-----------------------------------------------------------------------------
(* The requests: what they check, and then what they write. *)

\* Fault: anybody may submit.
AnybodyCanSubmit(u) == status \in {"Draft", "Needs_Revision"} /\ Len(history) < MaxHistory

\* POST /proposals/:id/submit
CanSubmit(u) ==
    /\ u = Creator
    /\ status \in {"Draft", "Needs_Revision"}
    /\ Len(history) < MaxHistory

SubmitProposal(u) ==
    /\ CanSubmit(u)
    /\ \/ steps = {} /\ GenerateSteps
       \/ \E r \in LastIncomplete : ResumeFrom(r)
    /\ SubmitWrites(status)

\* Fault: anybody may approve.
AnybodyCanApprove(u, r) == r \in active /\ u \in Users

\* POST /proposals/:id/approve: getProposalWithActiveStep and validateApproverAuthority.
\* findFirst picks any active row; neither its type nor its decision is looked at.
CanApprove(u, r) == r \in active /\ u \in Approvers[r]

AcceptStep(u) ==
    \E r \in Rules : CanApprove(u, r) /\ AcceptWrites(r) /\ UNCHANGED votes

\* Fault: a rejected proposal gets a status the workflow does not know.
RejectForGood(u) ==
    \E r \in Rules :
        /\ CanApprove(u, r)
        /\ TransitionWrites(status, r, "Rejected", "Rejected", FALSE)
        /\ UNCHANGED votes

\* POST /proposals/:id/reject
RejectStep(u) ==
    \E r \in Rules :
        /\ CanApprove(u, r)
        /\ TransitionWrites(status, r, "Rejected", "Draft", FALSE)
        /\ UNCHANGED votes

\* POST /proposals/:id/request-revision
RequestRevision(u) ==
    \E r \in Rules :
        /\ CanApprove(u, r)
        /\ TransitionWrites(status, r, "Needs_Revision", "Needs_Revision", TRUE)
        /\ UNCHANGED votes

\* POST /proposals/:id/action: canUserActOnStep.
CanAct(u, r) ==
    /\ CanApprove(u, r)
    /\ decision[r] = "Pending"
    /\ StepType[r] = "VOTE" => votes[r][u] = "none"

HandleApprovalOrForm(u) ==
    \E r \in Rules, d \in Outcomes :
        /\ CanAct(u, r)
        /\ StepType[r] \in {"APPROVAL", "FORM"}
        /\ DecisionWrites(status, r, d)
        /\ UNCHANGED votes

\* A row without a threshold makes the handler throw.
HandleVote(u) ==
    \E r \in Rules, d \in Outcomes :
        /\ CanAct(u, r)
        /\ StepType[r] = "VOTE"
        /\ VoteThreshold[r] > 0
        /\ VoteWrites(status, r, [votes[r] EXCEPT ![u] = d])

Review(u) ==
    \/ AcceptStep(u)
    \/ RejectStep(u)
    \/ RequestRevision(u)
    \/ HandleApprovalOrForm(u)
    \/ HandleVote(u)

Next == \E u \in Users : SubmitProposal(u) \/ Review(u)

\* proposals.service create: a draft with no approval rows.
Init ==
    /\ status = "Draft"
    /\ isEditable = TRUE
    /\ workspaceUnlocked = FALSE
    /\ currentStepOrder = 0
    /\ projects = 0
    /\ steps = {}
    /\ decision = [r \in Rules |-> "Pending"]
    /\ active = {}
    /\ votes = [r \in Rules |-> NoVotes]
    /\ history = <<>>

Spec == Init /\ [][Next]_vars

\* Reviewers keep answering: while somebody may act on the active step, somebody does.
FairSpec == Spec /\ WF_vars(\E u \in Users : Review(u))
=============================================================================
