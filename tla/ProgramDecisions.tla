----------------------------- MODULE ProgramDecisions -----------------------------
(***************************************************************************)
(* The other writers of a proposal's status: the decision endpoints of the *)
(* undergraduate and postgraduate modules (src/src/undergrad, src/src/pg)  *)
(* and the scheduling of a defence (proposals.service.ts).  They do not    *)
(* call WorkflowService.  A decision is made of UPDATEs and INSERTs that   *)
(* are not in one transaction, so the server can stop between two of them  *)
(* and requests of the workflow can come between them.                     *)
(*                                                                         *)
(* Left out: notifications, the audit log, the status of the budget        *)
(* request.  Bound: one decision is in progress at a time.                 *)
(***************************************************************************)
EXTENDS ProposalWorkflow

CONSTANTS
    Program,          \* proposals.proposal_program: "UG", "PG" or "GENERAL"
    CoordinatorRows,  \* the rules with approver_role COORDINATOR
    Deciders          \* the users with the permission PROPOSAL_APPROVE

VARIABLE deciding   \* the decision in progress and the next of its writes

decisionVars == <<vars, deciding>>

NoDecision == [next |-> "none"]
Decide(r, d) == [next |-> "approval row", row |-> r, outcome |-> d, old |-> status]
Continue(write) == deciding' = [deciding EXCEPT !.next = write]

-----------------------------------------------------------------------------
\* UndergradService.makeDecision: any pending row of the coordinator, active or not.
ReceiveUndergradDecision(u) ==
    /\ deciding = NoDecision
    /\ Program = "UG"
    /\ u \in Deciders
    /\ \E r \in steps \cap CoordinatorRows, d \in Outcomes :
        /\ decision[r] = "Pending"
        /\ deciding' = Decide(r, d)
    /\ UNCHANGED vars

\* PgService.makeDecision: any pending row of the caller's role.
ReceivePgDecision(u) ==
    /\ deciding = NoDecision
    /\ Program = "PG"
    /\ u \in Deciders
    /\ \E r \in steps, d \in Outcomes :
        /\ decision[r] = "Pending"
        /\ u \in Approvers[r]
        /\ deciding' = Decide(r, d)
    /\ UNCHANGED vars

\* The undergraduate coordinator is taken for the final approver.  findNextRole of the
\* postgraduate repository looks up the rule of the caller's own role, so there always is one.
StatusAfter(d) ==
    CASE d = "Rejected"       -> "Rejected"
      [] d = "Needs_Revision" -> "Needs_Revision"
      [] OTHER                -> IF Program = "UG" THEN "Approved" ELSE "Under_Review"

\* Only the undergraduate flow keeps the flag when it does not set it.
UnlockedAfter(d) ==
    IF Program = "UG" THEN workspaceUnlocked \/ d = "Accepted" ELSE d = "Needs_Revision"

\* updateApprovalDecision: is_active is left as it is.
StampApprovalRow ==
    /\ deciding.next = "approval row"
    /\ decision' = [decision EXCEPT ![deciding.row] = deciding.outcome]
    /\ Continue("status")
    /\ UNCHANGED <<proposalVars, steps, active, votes, history>>

\* updateProposalStatus and updateProposalAndBudgetStatus: is_editable and
\* current_step_order are left as they are, and no project is created.
WriteStatus ==
    /\ deciding.next = "status"
    /\ status' = StatusAfter(deciding.outcome)
    /\ workspaceUnlocked' = UnlockedAfter(deciding.outcome)
    /\ Continue("history")
    /\ UNCHANGED <<isEditable, currentStepOrder, projects, steps, decision, active, votes, history>>

\* insertStatusHistory
WriteHistory ==
    /\ deciding.next = "history"
    /\ Record(deciding.old, StatusAfter(deciding.outcome))
    /\ deciding' = NoDecision
    /\ UNCHANGED <<proposalVars, steps, decision, active, votes>>

\* The server stops: what was written stays.
StopDeciding ==
    /\ deciding # NoDecision
    /\ deciding' = NoDecision
    /\ UNCHANGED vars

\* scheduleProposalDefence: whatever the status, and without a row in the history.
ScheduleProposalDefence ==
    /\ status' = "Under_Review"
    /\ UNCHANGED <<isEditable, workspaceUnlocked, currentStepOrder, projects, steps,
                   decision, active, votes, history, deciding>>

DecisionsNext ==
    \/ Next /\ UNCHANGED deciding
    \/ \E u \in Users : ReceiveUndergradDecision(u) \/ ReceivePgDecision(u)
    \/ StampApprovalRow
    \/ WriteStatus
    \/ WriteHistory
    \/ StopDeciding
    \/ ScheduleProposalDefence

DecisionsInit == Init /\ deciding = NoDecision

DecisionsSpec == DecisionsInit /\ [][DecisionsNext]_decisionVars

-----------------------------------------------------------------------------
(* What docs/workflow-overview.md promises and these writers break. *)

\* Invariant 5 (line 26), "workspaceUnlocked = true only when proposal status is Approved":
\* so it is not when a revision was asked for, yet that is when the postgraduate decision
\* sets it.
ClosedDuringRevision == status = "Needs_Revision" => ~workspaceUnlocked

\* Invariant 4 (line 25), an approved proposal "must not have active steps": the
\* undergraduate decision approves the proposal and leaves the step active.
ApprovedIsFinished == status = "Approved" => active = {}
=============================================================================
