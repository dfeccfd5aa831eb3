------------------------------- MODULE MCDrafting -------------------------------
(***************************************************************************)
(* An instance of ProposalDrafts, of ProposalTeam and of AccessControl.    *)
(* They write different tables, so a behaviour exercises one of them and   *)
(* leaves the others in an initial state.                                  *)
(***************************************************************************)
EXTENDS DraftingProps, TLC

VARIABLE part   \* the one that is exercised

\* For each clause of FilesFollowVersions and ReviewGoesOn the most that may go wrong.
WorstDrafts == {{"fail"}, {"overlap"}, {"defence"}}

\* For each clause of TeamIsSound the most that may go wrong.
WorstTeams == {{"fail", "advisors"}, {"fail", "repeat"}, {"undergrad"}}

OneMember == [u \in People |-> IF u = Author THEN "PI" ELSE "none"]

SomeGrants == {{}, {"PROPOSAL_READ"}, {"BUDGET_APPROVE"}, {"BUDGET_MANAGE", "BUDGET_REJECT"},
               {"PROPOSAL_READ", "PROPOSAL_MANAGE_MEMBERS"}}

Alike == Permutations(Proposals) \cup Permutations(Files) \cup Permutations(Editors)

Borders == {<<"GENERAL", 499999>>, <<"GENERAL", 500000>>}

Init ==
    /\ part \in {"drafts", "team", "access"}
    /\ DraftInit
    /\ Cardinality({p \in Proposals : proposal[p] # NoProposal}) <= 1
    /\ part # "drafts" => mishaps = {"fail"} /\ \A p \in Proposals : proposal[p] = NoProposal
    /\ AccessInit
    /\ part # "access" => held = {"RAD"} /\ belongs /\ heads
    /\ part # "team" => went = {"undergrad"} /\ rows = NewTeam(OneMember, NoList, {})
    /\ TeamInit

Next ==
    \/ part = "drafts" /\ DraftNext /\ UNCHANGED <<part, teamVars, accessVars>>
    \/ part = "team" /\ TeamNext /\ UNCHANGED <<part, draftVars, accessVars>>
    \/ part = "access" /\ AccessNext /\ UNCHANGED <<part, draftVars, teamVars>>

Spec == Init /\ [][Next]_<<part, draftVars, teamVars, accessVars>>
=============================================================================
