---------------------------- MODULE SoleReviewersProofs ----------------------------
(***************************************************************************)
(* Overlapping requests are serialisable when everybody has one request in *)
(* progress at most and every step one reviewer.                           *)
(*                                                                         *)
(* The invariant is the serial one (IInv) with SnapshotsCurrent: by        *)
(* ActiveStepDiscipline the proposal is either with its author or at one   *)
(* step, so there is one person whose checks can pass, and while that      *)
(* person's request is in progress nobody else can make it stale.          *)
(***************************************************************************)
EXTENDS SoleReviewers, ProposalWorkflowProofs

WellFormed(req) ==
    /\ req # Idle => req.op # "none"
    /\ req.op \in {"resubmit", "approve", "reject", "revise", "decide", "vote"} => req.row \in Rules
    /\ req.op \in {"decide", "vote"} => req.answer \in Outcomes
    /\ req.op \in Operations

RequestsWellFormed ==
    /\ request = [q \in Requests |-> request[q]]
    /\ \A q \in Requests : WellFormed(request[q])

ReviewIInv ==
    /\ IInv
    /\ RequestsWellFormed
    /\ SnapshotsCurrent

-----------------------------------------------------------------------------
\* Two requests in progress would have the same sender, and a sender has only one.
LEMMA OnlyOneWriter == ReviewIInv => OneWriter
<1> SUFFICES ASSUME ReviewIInv, NEW p \in Requests, NEW q \in Requests,
                    request[p] # Idle, request[q] # Idle
             PROVE  p = q
  BY DEF OneWriter
<1>1. /\ StillHolds(Sender[p], request[p])
      /\ StillHolds(Sender[q], request[q])
      /\ request[p].op \in Operations \ {"none"}
      /\ request[q].op \in Operations \ {"none"}
  BY DEF ReviewIInv, SnapshotsCurrent, RequestsWellFormed, WellFormed
<1> DEFINE Authors == {"submit", "resubmit", "edit"}
<1>2. ASSUME NEW t \in Requests, StillHolds(Sender[t], request[t]), request[t].op \in Authors
      PROVE  Sender[t] = Creator /\ status \in {"Draft", "Needs_Revision"}
  BY <1>2 DEF StillHolds, CanSubmit
<1>3. ASSUME NEW t \in Requests, StillHolds(Sender[t], request[t]), request[t].op \in Operations \ (Authors \cup {"none"})
      PROVE  request[t].row \in active /\ Sender[t] \in Approvers[request[t].row]
  BY <1>3 DEF StillHolds, CanAct, CanApprove, Operations
<1>4. /\ status = "Under_Review" <=> active # {}
      /\ \A r, s \in active : r = s
      /\ active \subseteq Rules
  BY DEF ReviewIInv, IInv, ActiveStepDiscipline, TypeOK
<1>5. Sender[p] = Sender[q]
  <2>1. CASE request[p].op \in Authors /\ request[q].op \in Authors
    BY <2>1, <1>1, <1>2
  <2>2. CASE request[p].op \notin Authors /\ request[q].op \notin Authors
    BY <2>2, <1>1, <1>3, <1>4, OneReviewerEach
  <2>3. CASE request[p].op \in Authors /\ request[q].op \notin Authors
    BY <2>3, <1>1, <1>2, <1>3, <1>4
  <2>4. CASE request[p].op \notin Authors /\ request[q].op \in Authors
    BY <2>4, <1>1, <1>2, <1>3, <1>4
  <2> QED BY <2>1, <2>2, <2>3, <2>4
<1> QED BY <1>5, OneRequestEach

\* Putting a sound snapshot in one place disturbs no other, as nothing else changes.
LEMMA SnapshotKeepsSnapshots ==
    ASSUME ReviewIInv, NEW q \in Requests, NEW new, UNCHANGED vars,
           request' = [request EXCEPT ![q] = new],
           WellFormed(new), StillHolds(Sender[q], new)
    PROVE  RequestsWellFormed' /\ SnapshotsCurrent'
<1>1. /\ \A p \in Requests : StillHolds(Sender[p], request[p])
      /\ RequestsWellFormed
  BY DEF ReviewIInv, SnapshotsCurrent
<1>2. /\ request'[q] = new
      /\ \A p \in Requests : p # q => request'[p] = request[p]
      /\ request' = [p \in Requests |-> request'[p]]
  BY <1>1 DEF RequestsWellFormed
<1>3. RequestsWellFormed'
  BY <1>1, <1>2 DEF RequestsWellFormed, WellFormed
<1>4. ASSUME NEW p \in Requests PROVE StillHolds(Sender[p], request'[p])
  BY <1>1, <1>2
<1>5. ASSUME NEW p \in Requests PROVE StillHolds(Sender[p], request[p])'
  BY <1>4 DEF StillHolds, CanSubmit, CanApprove, CanAct, LastIncomplete, vars, proposalVars
<1> QED BY <1>3, <1>5 DEF SnapshotsCurrent

\* Receiving a request takes a snapshot that is sound, being fresh.
LEMMA ReceiveKeepsSnapshots ==
    ASSUME ReviewIInv, NEW q \in Requests, Receive(q)
    PROVE  RequestsWellFormed' /\ SnapshotsCurrent'
<1> DEFINE u == Sender[q]
<1>1. UNCHANGED vars
  BY DEF Receive
<1> DEFINE Sound(new) == /\ request' = [request EXCEPT ![q] = new]
                         /\ WellFormed(new)
                         /\ StillHolds(u, new)
<1>2. CASE ReadForSubmit(u, q)
  <2>1. steps \subseteq Rules
    BY DEF ReviewIInv, IInv, TypeOK
  <2>2. CASE steps = {} /\ request' = [request EXCEPT ![q] = Checked("submit")]
    <3>1. Sound(Checked("submit"))
      BY <1>2, <2>2 DEF ReadForSubmit, Checked, WellFormed, StillHolds, Operations
    <3> QED BY <3>1, <1>1, SnapshotKeepsSnapshots
  <2>3. ASSUME NEW r \in LastIncomplete,
               request' = [request EXCEPT ![q] = CheckedOn("resubmit", r, NoVotes, "none")]
        PROVE  RequestsWellFormed' /\ SnapshotsCurrent'
    <3>1. r \in Rules
      BY <2>1 DEF LastIncomplete
    <3>2. Sound(CheckedOn("resubmit", r, NoVotes, "none"))
      BY <1>2, <2>3, <3>1 DEF ReadForSubmit, CheckedOn, WellFormed, StillHolds, Operations
    <3> QED BY <3>2, <1>1, SnapshotKeepsSnapshots
  <2> QED BY <1>2, <2>2, <2>3 DEF ReadForSubmit
<1>3. CASE ReadForApproval(u, q)
  <2>1. PICK r \in Rules, operation \in {"approve", "reject", "revise"} :
            /\ CanApprove(u, r)
            /\ request' = [request EXCEPT ![q] = CheckedOn(operation, r, NoVotes, "none")]
    BY <1>3 DEF ReadForApproval
  <2>2. Sound(CheckedOn(operation, r, NoVotes, "none"))
    BY <2>1 DEF CheckedOn, WellFormed, StillHolds, Operations
  <2> QED BY <2>2, <1>1, SnapshotKeepsSnapshots
<1>4. CASE ReadForDecision(u, q)
  <2>1. PICK r \in Rules, d \in Outcomes :
            /\ CanAct(u, r)
            /\ StepType[r] \in {"APPROVAL", "FORM"}
            /\ request' = [request EXCEPT ![q] = CheckedOn("decide", r, NoVotes, d)]
    BY <1>4 DEF ReadForDecision
  <2>2. Sound(CheckedOn("decide", r, NoVotes, d))
    BY <2>1 DEF CheckedOn, WellFormed, StillHolds, Operations
  <2> QED BY <2>2, <1>1, SnapshotKeepsSnapshots
<1>5. CASE ReadForVote(u, q)
  <2>1. PICK r \in Rules, d \in Outcomes :
            /\ CanAct(u, r)
            /\ StepType[r] = "VOTE"
            /\ VoteThreshold[r] > 0
            /\ request' = [request EXCEPT ![q] = CheckedOn("vote", r, [votes[r] EXCEPT ![u] = d], d)]
    BY <1>5 DEF ReadForVote
  <2>2. Sound(CheckedOn("vote", r, [votes[r] EXCEPT ![u] = d], d))
    BY <2>1 DEF CheckedOn, WellFormed, StillHolds, Operations
  <2> QED BY <2>2, <1>1, SnapshotKeepsSnapshots
<1>6. CASE ReadForEdit(u, q)
  <2>1. Sound(Checked("edit"))
    BY <1>6 DEF ReadForEdit, Checked, WellFormed, StillHolds, Operations
  <2> QED BY <2>1, <1>1, SnapshotKeepsSnapshots
<1> QED BY <1>2, <1>3, <1>4, <1>5, <1>6 DEF Receive

\* When the only request in progress ends, there is no snapshot left to be stale.
LEMMA EndKeepsSnapshots ==
    ASSUME ReviewIInv, NEW q \in Requests, request[q] # Idle,
           request' = [request EXCEPT ![q] = Idle]
    PROVE  RequestsWellFormed' /\ SnapshotsCurrent'
<1>1. OneWriter /\ RequestsWellFormed
  BY OnlyOneWriter DEF ReviewIInv
<1>2. request' = [p \in Requests |-> Idle]
  BY <1>1 DEF OneWriter, RequestsWellFormed
<1>3. RequestsWellFormed'
  <2>1. WellFormed([op |-> "none"])
    BY DEF WellFormed, Idle, Operations
  <2> QED BY <1>2, <2>1 DEF RequestsWellFormed, WellFormed, Idle
<1>4. SnapshotsCurrent'
  BY <1>2 DEF SnapshotsCurrent, StillHolds, Idle
<1> QED BY <1>3, <1>4

\* With a current snapshot the writes of a request are those of the same request received now.
LEMMA CommitIsAStep ==
    ASSUME ReviewIInv, NEW q \in Requests, Commit(q)
    PROVE  [Next]_vars /\ request[q] # Idle
<1> DEFINE u == Sender[q]
           r == request[q].row
<1>1. /\ StillHolds(u, request[q])
      /\ u \in Users
      /\ request[q].op \in {"resubmit", "approve", "reject", "revise", "decide", "vote"} => r \in Rules
      /\ request[q].op \in {"decide", "vote"} => request[q].answer \in Outcomes
  BY SenderAssumption DEF ReviewIInv, SnapshotsCurrent, RequestsWellFormed, WellFormed
<1>2. request[q] # Idle
  <2>1. request[q].op # "none"
    BY Zenon DEF Commit, CommitSubmit, CommitResubmit, CommitApprove, CommitReject,
                 CommitRevision, CommitDecision, CommitVote, CommitEdit
  <2> QED BY <2>1 DEF Idle
<1>3. ASSUME SubmitProposal(u) \/ Review(u) PROVE Next
  BY <1>3, <1>1 DEF Next
<1>4. CASE CommitSubmit(q)
  BY <1>1, <1>2, <1>3, <1>4 DEF CommitSubmit, SubmitProposal, StillHolds
<1>5. CASE CommitResubmit(q)
  BY <1>1, <1>2, <1>3, <1>5 DEF CommitResubmit, SubmitProposal, StillHolds
<1>6. CASE CommitApprove(q)
  BY <1>1, <1>2, <1>3, <1>6 DEF CommitApprove, AcceptStep, Review, StillHolds
<1>7. CASE CommitReject(q)
  BY <1>1, <1>2, <1>3, <1>7 DEF CommitReject, RejectStep, Review, StillHolds
<1>8. CASE CommitRevision(q)
  BY <1>1, <1>2, <1>3, <1>8 DEF CommitRevision, RequestRevision, Review, StillHolds
<1>9. CASE CommitDecision(q)
  BY <1>1, <1>2, <1>3, <1>9 DEF CommitDecision, HandleApprovalOrForm, Review, StillHolds
<1>10. CASE CommitVote(q)
  BY <1>1, <1>2, <1>3, <1>10 DEF CommitVote, HandleVote, Review, StillHolds
<1>11. CASE CommitEdit(q)
  BY <1>2, <1>11 DEF CommitEdit
<1> QED BY <1>2, <1>4, <1>5, <1>6, <1>7, <1>8, <1>9, <1>10, <1>11 DEF Commit

\* The author's edits commit only while the author may edit.
LEMMA EditsWhenAllowed ==
    ASSUME ReviewIInv, NEW q \in Requests, Commit(q), content' # content
    PROVE  status \in {"Draft", "Needs_Revision"}
<1>1. request[q].op = "edit"
  BY Zenon DEF Commit, CommitSubmit, CommitResubmit, CommitApprove, CommitReject,
               CommitRevision, CommitDecision, CommitVote, CommitEdit
<1> QED BY <1>1 DEF ReviewIInv, SnapshotsCurrent, StillHolds

\* Every step keeps the invariant, is a step of ProposalWorkflow or leaves its variables
\* alone, and does not touch a text under review.
LEMMA ReviewStep ==
    ASSUME ReviewIInv, [ReviewNext]_reviewVars
    PROVE  /\ ReviewIInv'
           /\ [Next]_vars
           /\ content' # content => status \in {"Draft", "Needs_Revision"}
<1>1. CASE UNCHANGED reviewVars
  <2>1. UNCHANGED vars /\ UNCHANGED request /\ UNCHANGED content
    BY <1>1 DEF reviewVars
  <2>2. IInv'
    BY <2>1, NextPreserves DEF ReviewIInv
  <2>3. RequestsWellFormed'
    BY <2>1 DEF ReviewIInv, RequestsWellFormed, WellFormed
  <2>4. SnapshotsCurrent'
    BY <2>1 DEF ReviewIInv, SnapshotsCurrent, StillHolds, CanSubmit, CanApprove, CanAct,
                LastIncomplete, vars, proposalVars
  <2> QED BY <2>1, <2>2, <2>3, <2>4 DEF ReviewIInv
<1>2. ASSUME NEW q \in Requests, Receive(q)
      PROVE  /\ ReviewIInv'
             /\ [Next]_vars
             /\ content' = content
  <2>1. UNCHANGED vars /\ content' = content
    BY <1>2 DEF Receive
  <2>2. IInv'
    BY <2>1, NextPreserves DEF ReviewIInv
  <2> QED BY <1>2, <2>1, <2>2, ReceiveKeepsSnapshots DEF ReviewIInv
<1>3. ASSUME NEW q \in Requests, Commit(q)
      PROVE  /\ ReviewIInv'
             /\ [Next]_vars
             /\ content' # content => status \in {"Draft", "Needs_Revision"}
  <2>1. [Next]_vars /\ request[q] # Idle
    BY <1>3, CommitIsAStep
  <2>2. IInv'
    BY <2>1, NextPreserves DEF ReviewIInv
  <2>3. request' = [request EXCEPT ![q] = Idle]
    BY <1>3 DEF Commit
  <2>4. RequestsWellFormed' /\ SnapshotsCurrent'
    BY <2>1, <2>3, EndKeepsSnapshots
  <2> QED BY <1>3, <2>1, <2>2, <2>4, EditsWhenAllowed DEF ReviewIInv
<1>4. ASSUME NEW q \in Requests, Abort(q)
      PROVE  /\ ReviewIInv'
             /\ [Next]_vars
             /\ content' = content
  <2>1. /\ UNCHANGED vars /\ content' = content
        /\ request[q] # Idle
        /\ request' = [request EXCEPT ![q] = Idle]
    BY <1>4 DEF Abort
  <2>2. IInv'
    BY <2>1, NextPreserves DEF ReviewIInv
  <2>3. RequestsWellFormed' /\ SnapshotsCurrent'
    BY <2>1, EndKeepsSnapshots
  <2> QED BY <2>1, <2>2, <2>3 DEF ReviewIInv
<1> QED BY <1>1, <1>2, <1>3, <1>4 DEF ReviewNext

\* At first no request is in progress.
LEMMA ReviewInitHolds == ReviewInit => ReviewIInv
<1> SUFFICES ASSUME ReviewInit PROVE ReviewIInv
  OBVIOUS
<1>1. IInv
  BY InitHolds DEF ReviewInit
<1>2. WellFormed([op |-> "none"])
  BY DEF WellFormed, Idle, Operations
<1>3. RequestsWellFormed
  BY <1>2 DEF ReviewInit, RequestsWellFormed, Idle
<1>4. SnapshotsCurrent
  BY DEF ReviewInit, SnapshotsCurrent, StillHolds, Idle
<1> QED BY <1>1, <1>3, <1>4 DEF ReviewIInv

\* The strengthened invariant holds throughout.
THEOREM ReviewInvariance == ReviewSpec => []ReviewIInv
<1>1. ReviewInit => ReviewIInv
  BY ReviewInitHolds
<1>2. ReviewIInv /\ [ReviewNext]_reviewVars => ReviewIInv'
  BY ReviewStep
<1> QED BY <1>1, <1>2, PTL DEF ReviewSpec

\* No handler writes from a stale read, for any rules and any number of users.
THEOREM NoStaleWrites == ReviewSpec => []SnapshotsCurrent
<1>1. ReviewIInv => SnapshotsCurrent
  BY DEF ReviewIInv
<1> QED BY <1>1, ReviewInvariance, PTL

\* At most one transaction is between its checks and its commit.
THEOREM WritersTakeTurns == ReviewSpec => []OneWriter
<1>1. ReviewIInv => OneWriter
  BY OnlyOneWriter
<1> QED BY <1>1, ReviewInvariance, PTL

\* updateProposal changes no text that is under review or approved.
THEOREM TextIsFrozen == ReviewSpec => FrozenUnderReview
<1>1. ReviewIInv /\ [ReviewNext]_reviewVars =>
          [content' # content => status \in {"Draft", "Needs_Revision"}]_reviewVars
  BY ReviewStep
<1> QED BY <1>1, ReviewInvariance, PTL DEF ReviewSpec, FrozenUnderReview

\* The overlapping requests behave like requests that come one at a time, so whatever is
\* proved of ProposalWorkflow holds of them.
THEOREM RequestsAreSerialisable == ReviewSpec => Serialisable
<1>1. ReviewInit => Init
  BY DEF ReviewInit
<1>2. ReviewIInv /\ [ReviewNext]_reviewVars => [Next]_vars
  BY ReviewStep
<1> QED BY <1>1, <1>2, ReviewInvariance, PTL DEF ReviewSpec, Serialisable, Spec

\* In particular a proposal gives rise to one project, and the active step stays unique,
\* although requests overlap.
THEOREM OverlapKeepsTheDocumentedInvariants ==
    ReviewSpec => [](ActiveStepDiscipline /\ ProjectExactlyWhenApproved)
<1>1. IInv => ActiveStepDiscipline /\ ProjectExactlyWhenApproved
  BY DEF IInv
<1> QED BY <1>1, Invariance, RequestsAreSerialisable, PTL DEF Serialisable
=============================================================================
