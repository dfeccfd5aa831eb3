------------------------------- MODULE Evaluations -------------------------------
(***************************************************************************)
(* The scores of one proposal, which has two ways in:                      *)
(*   - EvaluationsService.submitScores writes a batch row by row in a      *)
(*     transaction, in the batch's order; a row that is there keeps its    *)
(*     evaluator and its project;                                          *)
(*   - ProposalsService.submitEvaluationScore writes each row by a         *)
(*     statement of its own, all of them at once, and takes over evaluator *)
(*     and, when the proposal it read had one, project.                    *)
(* Both insert on conflict do update: whoever comes to a row that an open  *)
(* transaction has written waits for it; of two transactions that wait for *)
(* each other Postgres aborts one.  Neither looks at what the list says:   *)
(* "Validation removed: The frontend calculates group vs individual        *)
(* distributions natively and sends explicit duplicate scores for each     *)
(* student".  "trouble" of this module: "parallel" lets statements of the  *)
(* second kind overlap others or fail.                                     *)
(*                                                                         *)
(* Left out: feedback, names, scores of who is no student of the proposal, *)
(* which the lists do not show, and what a rubric says of itself but its   *)
(* phase, which neither route reads; that a rubric must exist, those       *)
(* looked at do.                                                           *)
(*                                                                         *)
(* A definition marked "Fault" is no part of the model: it is the          *)
(* definition after it with a mistake, which the properties must notice.   *)
(***************************************************************************)
EXTENDS Naturals, Sequences, SequencesExt, FiniteSets

CONSTANTS
    Rubrics,
    ProjectRubrics, \* those whose phase is PROJECT
    Students,       \* members of the proposal with role PI or MEMBER
    Evaluators,
    Points,
    Batches,        \* bound: the dto.scores looked at, which may be any list of Entries
    MaxSubmits,     \* bound: lists submitted
    ScoreTroubles   \* the sets of mishaps to look at

Cells == Rubrics \X Students
Entries == [cell : Cells, points : Points]

ASSUME EvaluationsAssumption ==
    /\ ProjectRubrics \subseteq Rubrics
    /\ "none" \notin Evaluators
    /\ Batches \subseteq Seq(Entries)
ASSUME StudentsAssumption == IsFiniteSet(Students) /\ Students # {}    \* the PI is one

VARIABLES
    scores,     \* evaluation_scores by rubric and student; NoScore for no row
    standing,   \* proposals.current_status: "decided" for Approved and Rejected, else "open"
    project,    \* the project of proposals.project_id: "none", "running" or "closed"
    submit,     \* the lists being written
    submits,    \* lists submitted
    uneven,     \* rubrics of which some list did not score all the students, and alike
    trouble     \* the mishaps

evaluationVars == <<scores, standing, project, submit, submits, uneven, trouble>>
proposalVars == <<standing, project>>

NoScore == [points |-> 0, by |-> "none", project |-> FALSE]
NotSubmitting == [at |-> "idle", project |-> FALSE, left |-> <<>>, written |-> <<>>]

\* Nothing asks a list to score a rubric for all the students, or alike.
OfRubric(X, r) == {x \in X : x.cell[1] = r}
Whole(X, r) == \E n \in Points : OfRubric(X, r) = [cell : {r} \X Students, points : {n}]
Uneven(b) == {r \in Rubrics : OfRubric(Range(b), r) # {} /\ ~Whole(Range(b), r)}

\* The rows of each rubric are together.
ByRubric(b) ==
    \A i, j, k \in DOMAIN b :
        i < j /\ j < k /\ b[i].cell[1] = b[k].cell[1] => b[j].cell[1] = b[i].cell[1]

-----------------------------------------------------------------------------
(* What an evaluator is asked for. *)

\* enrichWithMembersAndRubrics: rubrics for which a student has no score of this evaluator's.
MissingRubrics(e, rubrics) ==
    {r \in rubrics : \E s \in Students : scores[r, s].by # e}

\* The evaluator has the role that lists this program, or is a member as EVALUATOR.
GetProposals(e) == IF standing = "open" THEN MissingRubrics(e, Rubrics \ ProjectRubrics) ELSE {}
GetProjects(e) == IF project = "running" THEN MissingRubrics(e, Rubrics) ELSE {}

-----------------------------------------------------------------------------

CellsOf(entries) == {x.cell : x \in Range(entries)}
Locked(cell) == \E e \in Evaluators : cell \in CellsOf(submit[e].written)
Parallel(e) == submit[e].at = "upsert"
Alone(e) == \A f \in Evaluators \ {e} : submit[f] = NotSubmitting

Begin(e, b, at) ==
    /\ submits < MaxSubmits
    /\ submit[e] = NotSubmitting
    /\ "parallel" \in trouble \/ (~\E f \in Evaluators : Parallel(f))
    /\ submits' = submits + 1
    /\ uneven' = uneven \cup Uneven(b)
    /\ submit' = [submit EXCEPT ![e] =
           [at |-> at, project |-> project # "none", left |-> b, written |-> <<>>]]
    /\ UNCHANGED <<scores, proposalVars, trouble>>

\* The list is grouped by rubric: those that are not so are written like those that are.
SubmitScores(e, b) == ByRubric(b) /\ Begin(e, b, "insert")

SubmitEvaluationScore(e, b) ==
    /\ "parallel" \in trouble \/ Alone(e)
    /\ Begin(e, b, "upsert")

\* onConflictDoUpdate of the transaction
Scored(x, e) ==
    IF scores[x.cell] # NoScore THEN [scores[x.cell] EXCEPT !.points = x.points]
    ELSE [points |-> x.points, by |-> e, project |-> submit[e].project]

\* Fault: without the transaction, each row is committed at once.
InsertScoreAtOnce(e) ==
    LET q == submit[e]
    IN  /\ q.at = "insert" /\ q.left # <<>>
        /\ ~Locked(Head(q.left).cell)
        /\ scores' = [scores EXCEPT ![Head(q.left).cell] = Scored(Head(q.left), e)]
        /\ submit' = [submit EXCEPT ![e].left = Tail(@)]
        /\ UNCHANGED <<proposalVars, submits, uneven, trouble>>

\* The row is locked; others see it when the transaction commits.
InsertScore(e) ==
    LET q == submit[e]
        cell == Head(q.left).cell
    IN  /\ q.at = "insert" /\ q.left # <<>>
        /\ Locked(cell) => cell \in CellsOf(q.written)
        /\ submit' = [submit EXCEPT ![e].left = Tail(@), ![e].written = Append(@, Head(q.left))]
        /\ UNCHANGED <<scores, proposalVars, submits, uneven, trouble>>

\* Of the rows that it wrote twice, the last.
CommitScores(e) ==
    LET w == submit[e].written
        last(c) == CHOOSE i \in DOMAIN w :
                       w[i].cell = c /\ \A j \in DOMAIN w : w[j].cell = c => j <= i
    IN  /\ submit[e].at = "insert" /\ submit[e].left = <<>>
        /\ scores' = [c \in Cells |-> IF c \in CellsOf(w) THEN Scored(w[last(c)], e) ELSE scores[c]]
        /\ submit' = [submit EXCEPT ![e] = NotSubmitting]
        /\ UNCHANGED <<proposalVars, submits, uneven, trouble>>

\* A deadlock's victim, a failure, or the server stops.
AbortScores(e) ==
    /\ submit[e].at = "insert"
    /\ submit' = [submit EXCEPT ![e] = NotSubmitting]
    /\ UNCHANGED <<scores, proposalVars, submits, uneven, trouble>>

\* upsertEvaluationScore: any of those left, as they run on connections of their own.
UpsertEvaluationScore(e) ==
    LET q == submit[e]
    IN  /\ Parallel(e)
        /\ \E i \in DOMAIN q.left :
            LET x == q.left[i]
            IN  /\ ~Locked(x.cell)
                /\ scores' = [scores EXCEPT ![x.cell] =
                       [points |-> x.points, by |-> e, project |-> q.project \/ @.project]]
                /\ submit' = [submit EXCEPT ![e].left = RemoveAt(@, i)]
        /\ UNCHANGED <<proposalVars, submits, uneven, trouble>>

\* All are there, or one of them failed.
EndUpserts(e) ==
    /\ Parallel(e)
    /\ submit[e].left = <<>> \/ "parallel" \in trouble
    /\ submit' = [submit EXCEPT ![e] = NotSubmitting]
    /\ UNCHANGED <<scores, proposalVars, submits, uneven, trouble>>

-----------------------------------------------------------------------------
(* What becomes of the proposal meanwhile; of other modules. *)

\* createProjectFromApprovedProposal and the update after it
Approve ==
    /\ project = "none"
    /\ project' = "running"
    /\ standing' = "decided"
    /\ UNCHANGED <<scores, submit, submits, uneven, trouble>>

\* The decision of a program, Approved or Rejected, writes the status alone: no project is made.
MakeDecision ==
    /\ project = "none"
    /\ standing' = "decided"
    /\ UNCHANGED <<scores, project, submit, submits, uneven, trouble>>

\* A revision, a submission, or a defence that is scheduled, whatever the status was.
Reopen ==
    /\ standing' = "open"
    /\ UNCHANGED <<scores, project, submit, submits, uneven, trouble>>

\* terminateProject: the stage is "Rejected"; none is ever "Completed".
CloseProject ==
    /\ project = "running"
    /\ project' = "closed"
    /\ UNCHANGED <<scores, standing, submit, submits, uneven, trouble>>

EvaluationsInit ==
    /\ scores = [c \in Cells |-> NoScore]
    /\ standing = "open"
    /\ project = "none"
    /\ submit = [e \in Evaluators |-> NotSubmitting]
    /\ submits = 0
    /\ uneven = {}
    /\ trouble \in ScoreTroubles

EvaluationsNext ==
    \/ Approve
    \/ MakeDecision
    \/ Reopen
    \/ CloseProject
    \/ \E e \in Evaluators :
        \/ \E b \in Batches : SubmitScores(e, b) \/ SubmitEvaluationScore(e, b)
        \/ InsertScore(e)
        \/ CommitScores(e)
        \/ AbortScores(e)
        \/ UpsertEvaluationScore(e)
        \/ EndUpserts(e)

EvaluationsSpec == EvaluationsInit /\ [][EvaluationsNext]_evaluationVars
=============================================================================
