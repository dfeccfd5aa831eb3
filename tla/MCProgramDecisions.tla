---------------------------- MODULE MCProgramDecisions ----------------------------
(***************************************************************************)
(* A program of three steps; the coordinator has the first and the last,   *)
(* as in the seeded UG flow.                                               *)
(***************************************************************************)
EXTENDS ProgramDecisions

CONSTANTS author, coordinator, evaluator

MCUsers == {author, coordinator, evaluator}
MCRules == {"screen", "evaluate", "finish"}
MCMatchings == {MCRules}
MCCoordinatorRows == {"screen", "finish"}
MCDeciders == {coordinator}
MCStepOrder == [r \in MCRules |-> CASE r = "screen" -> 1 [] r = "evaluate" -> 2 [] OTHER -> 3]
MCStepType == [r \in MCRules |-> "APPROVAL"]
MCApprovers == [r \in MCRules |-> IF r = "evaluate" THEN {evaluator} ELSE {coordinator}]
MCVoteThreshold == [r \in MCRules |-> 0]
MCVoteStrategy == [r \in MCRules |-> "NUMBER"]
=============================================================================
