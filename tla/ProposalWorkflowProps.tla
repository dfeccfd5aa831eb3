-------------------------- MODULE ProposalWorkflowProps --------------------------
(***************************************************************************)
(* What must hold of ProposalWorkflow.  The numbered invariants are those  *)
(* of docs/workflow-overview.md.                                           *)
(***************************************************************************)
EXTENDS ProposalWorkflow

\* Every variable keeps its type.
TypeOK ==
    /\ status \in Statuses
    /\ isEditable \in BOOLEAN
    /\ workspaceUnlocked \in BOOLEAN
    /\ currentStepOrder \in Nat
    /\ projects \in Nat
    /\ steps \in SUBSET Rules
    /\ decision \in [Rules -> Decisions]
    /\ active \in SUBSET Rules
    /\ votes \in [Rules -> [Users -> Outcomes \cup {"none"}]]
    /\ history \in Seq([old : Statuses, new : Statuses])

\* Invariants 1 to 4: a proposal under review has exactly one active step and that step is
\* pending; a proposal that is not under review has none.  acceptStep, transitionStep and
\* resumeWorkflowFromLastIncompleteStep each move the flag with several UPDATEs.
ActiveStepDiscipline ==
    /\ active \subseteq steps
    /\ \A r, s \in active : r = s
    /\ \A r \in active : decision[r] = "Pending"
    /\ status = "Under_Review" <=> active # {}

\* Reviews are granted in step order: what comes before the active step, or before the step
\* a sent back proposal will resume from, is accepted, and nothing after it is decided.
\* advanceWorkflow looks for a pending row, resume for a rejected one; this is why they agree.
ReviewInOrder ==
    \A r \in steps : decision[r] # "Accepted" /\ (r \in active \/ decision[r] # "Pending") =>
        \A s \in steps :
            /\ StepOrder[s] < StepOrder[r] => decision[s] = "Accepted"
            /\ StepOrder[s] > StepOrder[r] => decision[s] = "Pending"

\* Invariants 5 and 6, and data-model.md "proposals 1:1 projects": the project exists, once,
\* and the workspace is open, exactly when every step was accepted; editing needs a draft or
\* a requested revision.
ProjectExactlyWhenApproved ==
    /\ projects = (IF status = "Approved" THEN 1 ELSE 0)
    /\ workspaceUnlocked <=> status = "Approved"
    /\ status = "Approved" => steps # {} /\ \A r \in steps : decision[r] = "Accepted"
    /\ isEditable => status \in {"Draft", "Needs_Revision"}

\* "Every status transition must be written to proposal_status_history": the rows form a
\* chain that starts at Draft and ends at the current status.
HistoryIsAChain ==
    /\ history = <<>> => status = "Draft"
    /\ history # <<>> => history[1].old = "Draft" /\ history[Len(history)].new = status
    /\ \A i \in 1..(Len(history) - 1) : history[i].new = history[i + 1].old

\* A sent back proposal can always be submitted again: there is a step to resume from,
\* so resumeWorkflowFromLastIncompleteStep does not throw.
ResubmissionPossible ==
    status \in {"Draft", "Needs_Revision"} /\ steps # {} => LastIncomplete # {}

\* An accepted step keeps its decision, whatever happens after ("keep prior approvals"), and
\* a vote once cast is only ever wiped together with all others of its step.
KeepsGranted ==
    /\ \A r \in Rules : decision[r] = "Accepted" => decision'[r] = "Accepted"
    /\ \A r \in Rules : \/ votes'[r] = NoVotes
                        \/ \A u \in Users : votes[r][u] # "none" => votes'[r][u] = votes[r][u]

GrantedIsKept == [][KeepsGranted]_vars

\* A review ends: while reviewers answer, a proposal under review is approved or comes back.
ReviewEnds == status = "Under_Review" ~> status # "Under_Review"

\* The refinement of ReviewLifecycle.
Accepted == {r \in steps : decision[r] = "Accepted"}

Phase ==
    CASE status = "Under_Review" -> "Review"
      [] status = "Approved"     -> "Done"
      [] OTHER                   -> "Authoring"

Lifecycle == INSTANCE ReviewLifecycle WITH
    phase     <- Phase,
    required  <- steps,
    granted   <- Accepted,
    delivered <- projects

\* The workflow delivers what ReviewLifecycle promises.
ImplementsLifecycle == Lifecycle!Spec
=============================================================================
