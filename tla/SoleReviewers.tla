------------------------------- MODULE SoleReviewers -------------------------------
(***************************************************************************)
(* When overlapping requests are harmless.  Nothing in the code makes the  *)
(* requests on a proposal take turns; the workflow itself does, as long as *)
(* nobody has two requests in progress and every step has one person who   *)
(* may answer it.  Then what a request has checked is still so when it     *)
(* commits, and ConcurrentReview behaves like ProposalWorkflow.            *)
(***************************************************************************)
EXTENDS ConcurrentReview

ASSUME OneRequestEach == \A p, q \in Requests : Sender[p] = Sender[q] => p = q

ASSUME OneReviewerEach == \A r \in Rules : \A u, v \in Approvers[r] : u = v

\* What the sender u of a checked request had checked, said of the present state: u may still
\* do it, and the status and the votes that were read have not changed.
StillHolds(u, req) ==
    /\ req.op \in {"submit", "resubmit"} => CanSubmit(u)
    /\ req.op = "submit" => steps = {}
    /\ req.op = "resubmit" => req.row \in LastIncomplete
    /\ req.op \in {"approve", "reject", "revise"} => CanApprove(u, req.row)
    /\ req.op \in {"decide", "vote"} => CanAct(u, req.row)
    /\ req.op = "decide" => StepType[req.row] \in {"APPROVAL", "FORM"}
    /\ req.op = "vote" => /\ StepType[req.row] = "VOTE"
                          /\ VoteThreshold[req.row] > 0
                          /\ req.ballots = [votes[req.row] EXCEPT ![u] = req.answer]
    /\ req.op = "edit" => u = Creator /\ status \in {"Draft", "Needs_Revision"}
    /\ req.op # "none" => req.old = status

\* No handler of workflow.service.ts or updateProposal writes from a stale read.
SnapshotsCurrent == \A q \in Requests : StillHolds(Sender[q], request[q])

\* At most one transaction is between its checks and its commit, so a commit meets no other
\* and taking it as one step loses nothing.
OneWriter == \A p, q \in Requests : request[p] # Idle /\ request[q] # Idle => p = q

\* The text the reviewers see is the text that was submitted: updateProposal never commits
\* while the proposal is under review or approved.
FrozenUnderReview ==
    [][content' # content => status \in {"Draft", "Needs_Revision"}]_reviewVars

\* The requests are serialisable: forget those in progress and what is left is a behaviour
\* of ProposalWorkflow, where each request is one step.
Serialisable == Spec
=============================================================================
