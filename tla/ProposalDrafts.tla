----------------------------- MODULE ProposalDrafts -----------------------------
(***************************************************************************)
(* Proposals, the files they are made of and the steps that review them:   *)
(* ProposalsService create, updateProposal and scheduleProposalDefence     *)
(* with FilesService.                                                      *)
(*                                                                         *)
(* create and updateProposal are two steps here: what they read, and what  *)
(* they write.  updateProposal reads the proposal and attaches the file    *)
(* outside its transaction, so that it has a third step in between, which  *)
(* commits by itself.  The requests in progress are those of Editors;      *)
(* "mishaps" says what may go wrong: "overlap" lets anything happen        *)
(* between the steps of a request, "fail" lets a request fail between      *)
(* them, "defence" lets a defence be scheduled.                            *)
(*                                                                         *)
(* Reviewing is only what it does to the steps: ProposalWorkflow has it in *)
(* full.  Left out: texts, the budget's items (their sum is drawn at       *)
(* once), who is asking (only the creator comes this far), storage,        *)
(* presigned URLs, the audit log, and deleteFile and cleanupOldTempFiles,  *)
(* which nothing calls.                                                    *)
(*                                                                         *)
(* A definition marked "Fault" is no part of the model: it is the          *)
(* definition after it with a mistake, which the properties must notice.   *)
(***************************************************************************)
EXTENDS Routing, FiniteSets

CONSTANTS
    Proposals,
    Files,
    Editors,        \* requests of creators that can be in progress together
    Applications,   \* the programs and budgets that proposals are made for
    MaxVersions,    \* bound: no request that makes a version begins beyond this many
    DraftMishaps    \* the sets of mishaps to look at

ASSUME ApplicationsAssumption == Applications \subseteq Programs \X Nat
ASSUME FilesAssumption == "none" \notin Files

VARIABLES
    proposal,   \* proposals: status, program, budget_amount, current_version_id (0 for NULL)
    steps,      \* proposal_approvals
    active,     \* those with is_active set
    accepted,   \* those with decision Accepted
    returned,   \* those with decision Rejected or Needs_Revision
    versions,   \* proposal_versions, ids in the order of insertion
    files,      \* files: status, and what resource_id says
    request,    \* creators' requests in progress
    mishaps

routeVars == <<steps, active, accepted, returned>>
draftVars == <<proposal, routeVars, versions, files, request, mishaps>>

Idle == [at |-> "idle", proposal |-> "none", file |-> "none", current |-> 0]
NoProposal == [status |-> "none", program |-> "none", budget |-> 0, current |-> 0]
Editable == {"Draft", "Needs_Revision"}

Alone == "overlap" \in mishaps \/ \A e \in Editors : request[e] = Idle
VersionBound ==
    Cardinality(versions) + Cardinality({e \in Editors : request[e] # Idle}) < MaxVersions

Begin(e, at, p, f) ==
    /\ Alone
    /\ request[e] = Idle
    /\ request' = [request EXCEPT ![e] =
           [at |-> at, proposal |-> p, file |-> f, current |-> proposal[p].current]]
Goto(e, at) == request' = [request EXCEPT ![e].at = at]
End(e) == request' = [request EXCEPT ![e] = Idle]

SetStatus(p, s) == proposal' = [proposal EXCEPT ![p].status = s]
Attached(f, owner) == IF f = "none" THEN files
                      ELSE [files EXCEPT ![f] = [status |-> "ATTACHED", owner |-> owner]]

-----------------------------------------------------------------------------
(* Files. *)

\* initiateUpload, initiateGuestUpload, uploadTempFile: a row that is nobody's yet.
Upload(f) ==
    /\ files[f].status = "none"
    /\ files' = [files EXCEPT ![f] = [status |-> "TEMP", owner |-> "none"]]
    /\ UNCHANGED <<proposal, routeVars, versions, request, mishaps>>

\* attachFile, what it checks first.
Attachable(f) == files[f].status = "TEMP"

\* getProposalByIdDetailed shows the file of the current version.
DetailedFile(p) == {v.file : v \in {w \in versions : w.id = proposal[p].current}} \ {"none"}

-----------------------------------------------------------------------------
(* POST /proposals *)

Create(e, p, f) ==
    /\ VersionBound
    /\ proposal[p].status = "none"
    /\ \A d \in Editors : request[d].proposal # p   \* each creation makes a proposal of its own
    /\ f # "none" => Attachable(f)
    /\ Begin(e, "create", p, f)
    /\ UNCHANGED <<proposal, routeVars, versions, files, mishaps>>

\* The proposal, its first version and the file, in one transaction.
CommitCreate(e) ==
    LET p == request[e].proposal
        id == Cardinality(versions) + 1
    IN  /\ request[e].at = "create"
        /\ \E a \in Applications :
               proposal' = [proposal EXCEPT ![p] =
                   [status |-> "Draft", program |-> a[1], budget |-> a[2], current |-> id]]
        /\ versions' = versions \cup {[id |-> id, number |-> 1, proposal |-> p,
                                       file |-> request[e].file]}
        /\ files' = Attached(request[e].file, p)
        /\ End(e)
        /\ UNCHANGED <<routeVars, mishaps>>

-----------------------------------------------------------------------------
(* PATCH /proposals/:id *)

\* updateProposal: the status is read before anything is written, and not again.
UpdateProposal(e, p, f) ==
    /\ VersionBound
    /\ proposal[p].status \in Editable
    /\ f # "none" => files[f].status # "none"
    /\ Begin(e, IF f = "none" THEN "text" ELSE "file", p, f)
    /\ UNCHANGED <<proposal, routeVars, versions, files, mishaps>>

\* Fault: the file's status is not looked at.
CheckFileLightly(e) ==
    LET q == request[e]
        same == \E v \in versions : v.id = q.current /\ v.file = q.file
    IN  /\ q.at = "file"
        /\ Goto(e, IF same THEN "write" ELSE "attach")
        /\ UNCHANGED <<proposal, routeVars, versions, files, mishaps>>

\* A file that is the current version's is not attached again; another must be TEMP.
CheckFile(e) ==
    LET q == request[e]
        same == \E v \in versions : v.id = q.current /\ v.file = q.file
    IN  /\ q.at = "file"
        /\ \/ same /\ Goto(e, "write")
           \/ ~same /\ Attachable(q.file) /\ Goto(e, "attach")
           \/ ~same /\ ~Attachable(q.file) /\ End(e)
        /\ UNCHANGED <<proposal, routeVars, versions, files, mishaps>>

\* attachFile is not given the transaction: it is committed whatever becomes of that.
AttachToProposal(e) ==
    /\ request[e].at = "attach"
    /\ files' = Attached(request[e].file, request[e].proposal)
    /\ Goto(e, "write")
    /\ UNCHANGED <<proposal, routeVars, versions, mishaps>>

\* A second version has the number 2, and so have all after it.
CommitUpdate(e) ==
    LET q == request[e]
        id == Cardinality(versions) + 1
    IN  /\ q.at = "write"
        /\ versions' = versions \cup {[id |-> id, number |-> IF q.current = 0 THEN 1 ELSE 2,
                                       proposal |-> q.proposal, file |-> q.file]}
        /\ proposal' = [proposal EXCEPT ![q.proposal].current = id]
        /\ End(e)
        /\ UNCHANGED <<routeVars, files, mishaps>>

\* Only the title, the abstract or the research area.
CommitText(e) ==
    /\ request[e].at = "text"
    /\ End(e)
    /\ UNCHANGED <<proposal, routeVars, versions, files, mishaps>>

\* A statement fails or the server stops; the transaction, if one is open, is rolled back.
FailRequest(e) ==
    /\ "fail" \in mishaps
    /\ request[e] # Idle
    /\ End(e)
    /\ UNCHANGED <<proposal, routeVars, versions, files, mishaps>>

-----------------------------------------------------------------------------
(* Submitting, reviewing, scheduling a defence. *)

\* submitProposal: steps are generated once, and resumed from then on.
Submit(p) ==
    /\ Alone
    /\ proposal[p].status \in Editable
    /\ \/ /\ steps[p] = {}
          /\ LET generated == ApprovalSteps(proposal[p].program, proposal[p].budget)
             IN  /\ steps' = [steps EXCEPT ![p] = generated]
                 /\ active' = [active EXCEPT ![p] = FirstOf(generated)]
          /\ UNCHANGED returned
       \/ \E r \in returned[p] :
              /\ \A s \in returned[p] : s.stepOrder <= r.stepOrder
              /\ active' = [active EXCEPT ![p] = {r}]
              /\ returned' = [returned EXCEPT ![p] = @ \ {r}]
              /\ UNCHANGED steps
    /\ SetStatus(p, "Under_Review")
    /\ UNCHANGED <<accepted, versions, files, request, mishaps>>

Pending(p) == steps[p] \ (accepted[p] \cup returned[p])

\* Fault: what comes next is not activated.
AcceptOnly(p) ==
    /\ Alone
    /\ \E r \in active[p] :
        /\ accepted' = [accepted EXCEPT ![p] = @ \cup {r}]
        /\ returned' = [returned EXCEPT ![p] = @ \ {r}]
        /\ active' = [active EXCEPT ![p] = @ \ {r}]
        /\ IF Pending(p) \ {r} = {} THEN SetStatus(p, "Approved") ELSE UNCHANGED proposal
    /\ UNCHANGED <<steps, versions, files, request, mishaps>>

\* acceptStep, advanceWorkflow, completeWorkflow.
Accept(p) ==
    /\ Alone
    /\ \E r \in active[p] :
        /\ accepted' = [accepted EXCEPT ![p] = @ \cup {r}]
        /\ returned' = [returned EXCEPT ![p] = @ \ {r}]
        /\ \/ /\ Pending(p) \ {r} = {}
              /\ SetStatus(p, "Approved")
              /\ active' = [active EXCEPT ![p] = @ \ {r}]
           \/ \E n \in FirstOf(Pending(p) \ {r}) :
              /\ active' = [active EXCEPT ![p] = (@ \ {r}) \cup {n}]
              /\ UNCHANGED proposal
    /\ UNCHANGED <<steps, versions, files, request, mishaps>>

\* rejectStep to Draft; requestRevision and handleRejection to Needs_Revision.
Return(p) ==
    /\ Alone
    /\ \E r \in active[p], s \in Editable :
        /\ returned' = [returned EXCEPT ![p] = @ \cup {r}]
        /\ active' = [active EXCEPT ![p] = {}]
        /\ SetStatus(p, s)
    /\ UNCHANGED <<steps, accepted, versions, files, request, mishaps>>

\* scheduleProposalDefence: whatever the status was.
ScheduleDefence(p) ==
    /\ Alone
    /\ "defence" \in mishaps
    /\ proposal[p].status # "none"
    /\ SetStatus(p, "Under_Review")
    /\ UNCHANGED <<routeVars, versions, files, request, mishaps>>

-----------------------------------------------------------------------------

\* The proposals of the seed that are not promoted to projects: they have steps from the start,
\* the draft too, and no version and no file.
SeededProposals ==
    {NoProposal,
     [status |-> "Draft", program |-> "GENERAL", budget |-> 250000, current |-> 0],
     [status |-> "Under_Review", program |-> "PG", budget |-> 0, current |-> 0]}

DraftInit ==
    /\ proposal \in [Proposals -> SeededProposals]
    /\ steps = [p \in Proposals |-> IF proposal[p] = NoProposal THEN {}
                                    ELSE SeedSteps(proposal[p].program, proposal[p].budget)]
    /\ active = [p \in Proposals |-> FirstOf(steps[p])]
    /\ accepted = [p \in Proposals |-> {}]
    /\ returned = [p \in Proposals |-> {}]
    /\ versions = {}
    /\ files = [f \in Files |-> [status |-> "none", owner |-> "none"]]
    /\ request = [e \in Editors |-> Idle]
    /\ mishaps \in DraftMishaps

EditStep(e) ==
    \/ \E p \in Proposals, f \in Files \cup {"none"} : Create(e, p, f) \/ UpdateProposal(e, p, f)
    \/ CommitCreate(e)
    \/ CheckFile(e)
    \/ AttachToProposal(e)
    \/ CommitUpdate(e)
    \/ CommitText(e)
    \/ FailRequest(e)

DraftNext ==
    \/ \E f \in Files : Upload(f)
    \/ \E e \in Editors : EditStep(e)
    \/ \E p \in Proposals : Submit(p) \/ Accept(p) \/ Return(p) \/ ScheduleDefence(p)

DraftSpec == DraftInit /\ [][DraftNext]_draftVars
=============================================================================
