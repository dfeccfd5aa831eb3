------------------------------ MODULE DraftingProps ------------------------------
(***************************************************************************)
(* What holds of proposals before and besides their review: drafts and     *)
(* their files, the team, and who may decide.                              *)
(***************************************************************************)
EXTENDS ProposalDrafts, ProposalTeam, AccessControl

-----------------------------------------------------------------------------
(* Routing. *)

\* One row for each order, the last one and only that final.
IsRoute(rules) ==
    /\ {r.stepOrder : r \in rules} = 1..3
    /\ \A r, s \in rules : r.stepOrder = s.stepOrder => r = s
    /\ \A r \in rules : r.isFinal <=> r.stepOrder = 3

\* Whatever its program and budget, a proposal that has approval steps has one for each order,
\* one of the two branches of the budget, never both and never none, and exactly the last is
\* final (schema/routing.ts: "Only ONE branch per conditionGroup should evaluate true").
StepsAreARoute ==
    \A p \in Proposals : steps[p] # {} => IsRoute(steps[p])

\* A proposal under review waits for somebody, and one that is sent back can be submitted
\* again, as long as no defence is scheduled: scheduling one calls any proposal "Under_Review".
\* The seeded draft already has its steps and cannot be submitted; the API makes no such draft.
ReviewGoesOn ==
    "defence" \notin mishaps =>
        \A p \in Proposals :
            /\ proposal[p].status = "Under_Review" => active[p] # {}
            /\ proposal[p].status \in Editable =>
                   steps[p] = {} \/ returned[p] # {} \/ active[p] # {}

\* A version's file belongs to the version's proposal, and so does the file that a proposal's
\* details show, unless two requests took the same file at once; and a file that was attached
\* is in a version once the request is over, unless updateProposal failed after attaching it,
\* which its transaction does not undo.
FilesFollowVersions ==
    /\ "overlap" \notin mishaps =>
           /\ \A v \in versions : v.file # "none" =>
                  files[v.file] = [status |-> "ATTACHED", owner |-> v.proposal]
           /\ \A p \in Proposals : \A f \in DetailedFile(p) :
                  files[f] = [status |-> "ATTACHED", owner |-> p]
    /\ "fail" \notin mishaps =>
           \A f \in Files : files[f].status = "ATTACHED" =>
               \/ \E v \in versions : v.file = f
               \/ \E e \in Editors : request[e].file = f /\ request[e].at = "write"

-----------------------------------------------------------------------------
(* The team. *)

\* proposal-members.service.ts: "One user can only have ONE role per proposal".
OneRoleEach(users) == \A u \in users : RowsOf(u) <= 1

OneAdvisor(users) == Cardinality(users \cap MembersWith("ADVISOR")) <= 1

\* If requests on the team do not overlap, and the proposal was not created with several
\* advisors, there is one at most (proposals.repository.ts: "one advisor max per proposal");
\* and if none names a user twice nobody has two roles, however many advisors there are, so that
\* the approval, which copies the team under a key that allows one row per user, cannot fail for
\* it.  The route that assigns an advisor to an undergraduate's proposal breaks both, but only
\* for the users it was called with.
TeamIsSound ==
    "overlap" \notin went =>
        /\ "advisors" \notin went => OneAdvisor(People \ assigned)
        /\ "repeat" \notin went => OneRoleEach(People \ assigned)

-----------------------------------------------------------------------------
(* Who decides and who sees. *)

\* Whoever would be asked to decide a step of a proposal finds the proposal in GET /proposals,
\* unless it is an evaluator who is no member of the proposal.
DecidersSee ==
    \A r \in PendingApprovals :
        (r.approverRole = "EVALUATOR" => belongs) => r.program \in GetProposals

\* The tables of AbilityFactory and of the guard agree: a permission opens the routes that need
\* it.  BUDGET_APPROVE and BUDGET_REJECT open nothing but together with BUDGET_MANAGE.
GrantsWork ==
    \A p \in UserPermissions :
        \/ AccessGuard(p)
        \/ p \in {"BUDGET_APPROVE", "BUDGET_REJECT"} /\ "BUDGET_MANAGE" \notin UserPermissions

\* Whatever the administrator did to roles and their permissions, what a user is asked to do
\* the user can see (as long as some role gives PROPOSAL_READ) and what was granted works.
AccessFits ==
    /\ "PROPOSAL_READ" \in UserPermissions => DecidersSee
    /\ GrantsWork
=============================================================================
