----------------------------- MODULE ConcurrentReview -----------------------------
(***************************************************************************)
(* ProposalWorkflow with requests that overlap.  Each handler is one       *)
(* PostgreSQL transaction, but at READ COMMITTED and without SELECT ... FOR *)
(* UPDATE: what it reads and checks at its start can be out of date when   *)
(* it writes.  A request is two steps: Receive reads and checks, Commit    *)
(* makes the writes of ProposalWorkflow with what was read.                *)
(*                                                                         *)
(* A commit is one step.  Two reviews of the same row do come one after    *)
(* the other, because the first UPDATE of each locks that row; two commits *)
(* on different rows may mix further than they do here.                    *)
(*                                                                         *)
(* The proposal's author may also edit it (ProposalsService.updateProposal, *)
(* src/src/proposals/proposals.service.ts), which checks the status first  *)
(* in the same way.                                                        *)
(*                                                                         *)
(* A definition marked "Fault" is no part of the model: it is the          *)
(* definition after it with a mistake, which the properties must notice.   *)
(***************************************************************************)
EXTENDS ProposalWorkflow

CONSTANTS
    Requests,   \* requests that can be in progress together
    Sender      \* who sends each of them

ASSUME SenderAssumption == Sender \in [Requests -> Users]

VARIABLES
    request,    \* what each request is about to do
    content     \* the proposal's text, which an edit turns over

reviewVars == <<vars, request, content>>

Operations == {"none", "submit", "resubmit", "edit", "approve", "reject",
               "revise", "decide", "vote"}

\* A request that has been checked: the operation, the status it read, and, if it has them,
\* the approval row, that row's votes with its own added, and the answer.
Idle == [op |-> "none"]
Checked(operation) == [op |-> operation, old |-> status]
CheckedOn(operation, r, ballots, d) ==
    [op |-> operation, old |-> status, row |-> r, ballots |-> ballots, answer |-> d]

-----------------------------------------------------------------------------
(* The first half: the handler reads the tables and passes its checks. *)

ReadForSubmit(u, q) ==
    /\ CanSubmit(u)
    /\ \/ steps = {} /\ request' = [request EXCEPT ![q] = Checked("submit")]
       \/ \E r \in LastIncomplete :
            request' = [request EXCEPT ![q] = CheckedOn("resubmit", r, NoVotes, "none")]

\* The three endpoints that answer for the active row without looking at its type.
ReadForApproval(u, q) ==
    \E r \in Rules, operation \in {"approve", "reject", "revise"} :
        /\ CanApprove(u, r)
        /\ request' = [request EXCEPT ![q] = CheckedOn(operation, r, NoVotes, "none")]

ReadForDecision(u, q) ==
    \E r \in Rules, d \in Outcomes :
        /\ CanAct(u, r)
        /\ StepType[r] \in {"APPROVAL", "FORM"}
        /\ request' = [request EXCEPT ![q] = CheckedOn("decide", r, NoVotes, d)]

ReadForVote(u, q) ==
    \E r \in Rules, d \in Outcomes :
        /\ CanAct(u, r)
        /\ StepType[r] = "VOTE"
        /\ VoteThreshold[r] > 0
        /\ request' = [request EXCEPT
                        ![q] = CheckedOn("vote", r, [votes[r] EXCEPT ![u] = d], d)]

\* Fault: the status is not looked at.
ReadForEditAnytime(u, q) ==
    /\ u = Creator
    /\ request' = [request EXCEPT ![q] = Checked("edit")]

\* updateProposal looks at the status, not at is_editable.
ReadForEdit(u, q) ==
    /\ u = Creator
    /\ status \in {"Draft", "Needs_Revision"}
    /\ request' = [request EXCEPT ![q] = Checked("edit")]

Receive(q) ==
    /\ request[q] = Idle
    /\ \/ ReadForSubmit(Sender[q], q)
       \/ ReadForApproval(Sender[q], q)
       \/ ReadForDecision(Sender[q], q)
       \/ ReadForVote(Sender[q], q)
       \/ ReadForEdit(Sender[q], q)
    /\ UNCHANGED <<vars, content>>

-----------------------------------------------------------------------------
(* The second half: the writes, and the end of the transaction. *)

CommitSubmit(q) ==
    /\ request[q].op = "submit"
    /\ GenerateSteps
    /\ SubmitWrites(request[q].old)
    /\ UNCHANGED content

CommitResubmit(q) ==
    /\ request[q].op = "resubmit"
    /\ ResumeFrom(request[q].row)
    /\ SubmitWrites(request[q].old)
    /\ UNCHANGED content

CommitApprove(q) ==
    /\ request[q].op = "approve"
    /\ AcceptWrites(request[q].row)
    /\ UNCHANGED <<votes, content>>

CommitReject(q) ==
    /\ request[q].op = "reject"
    /\ TransitionWrites(request[q].old, request[q].row, "Rejected", "Draft", FALSE)
    /\ UNCHANGED <<votes, content>>

CommitRevision(q) ==
    /\ request[q].op = "revise"
    /\ TransitionWrites(request[q].old, request[q].row, "Needs_Revision", "Needs_Revision", TRUE)
    /\ UNCHANGED <<votes, content>>

CommitDecision(q) ==
    /\ request[q].op = "decide"
    /\ DecisionWrites(request[q].old, request[q].row, request[q].answer)
    /\ UNCHANGED <<votes, content>>

CommitVote(q) ==
    /\ request[q].op = "vote"
    /\ VoteWrites(request[q].old, request[q].row, request[q].ballots)
    /\ UNCHANGED content

CommitEdit(q) ==
    /\ request[q].op = "edit"
    /\ content' = 1 - content
    /\ UNCHANGED vars

Commit(q) ==
    /\ \/ CommitSubmit(q)
       \/ CommitResubmit(q)
       \/ CommitApprove(q)
       \/ CommitReject(q)
       \/ CommitRevision(q)
       \/ CommitDecision(q)
       \/ CommitVote(q)
       \/ CommitEdit(q)
    /\ request' = [request EXCEPT ![q] = Idle]

\* Fault: without a transaction the first UPDATE of acceptStep stays.
AbortHalfway(q) ==
    /\ request[q].op = "approve"
    /\ decision' = [decision EXCEPT ![request[q].row] = "Accepted"]
    /\ request' = [request EXCEPT ![q] = Idle]
    /\ UNCHANGED <<proposalVars, steps, active, votes, history, content>>

\* The server or the connection fails before the commit: the transaction is rolled back.
Abort(q) ==
    /\ request[q] # Idle
    /\ request' = [request EXCEPT ![q] = Idle]
    /\ UNCHANGED <<vars, content>>

ReviewNext == \E q \in Requests : Receive(q) \/ Commit(q) \/ Abort(q)

ReviewInit ==
    /\ Init
    /\ request = [q \in Requests |-> Idle]
    /\ content = 0

ReviewSpec == ReviewInit /\ [][ReviewNext]_reviewVars

-----------------------------------------------------------------------------
(* What the documents promise and overlapping requests break. *)

\* docs/data-model.md:64, "proposals 1:1 projects": a proposal gives rise to one project.
\* createProjectFromApprovedProposal does not look whether the proposal has one already.
AtMostOneProject == projects <= 1

\* docs/data-model.md:69, "One active step max per proposal": nothing in the schema or in
\* generateApprovalStepsFromRules keeps two submissions from each inserting a chain.
AtMostOneActiveStep == \A r, s \in active : r = s
=============================================================================
