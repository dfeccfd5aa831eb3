---------------------------- MODULE MCProposalWorkflow ----------------------------
(***************************************************************************)
(* A program with three rules in a row, the last one a vote or a form      *)
(* depending on the branch, as the seeded GENERAL flow has it: two voters  *)
(* of three decide.                                                        *)
(***************************************************************************)
EXTENDS ProposalWorkflowProps

CONSTANTS author, a, b, c

MCUsers == {author, a, b, c}
MCRules == {"screen", "assess", "council", "memo"}
MCMatchings == {{"screen", "assess", "council"}, {"screen", "assess", "memo"}}
MCStepOrder == [r \in MCRules |->
    CASE r = "screen" -> 1 [] r = "assess" -> 2 [] OTHER -> 3]
MCStepType == [r \in MCRules |->
    CASE r = "council" -> "VOTE" [] r = "assess" -> "VOTE" [] r = "memo" -> "FORM"
      [] OTHER -> "APPROVAL"]
MCApprovers == [r \in MCRules |->
    CASE r = "council" -> {a, b, c} [] r = "assess" -> {a, b} [] OTHER -> {a}]
MCVoteThreshold == [r \in MCRules |-> IF MCStepType[r] = "VOTE" THEN 2 ELSE 0]
MCVoteStrategy == [r \in MCRules |-> IF r = "assess" THEN "ALL" ELSE "MAJORITY"]
=============================================================================
