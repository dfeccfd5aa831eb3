--------------------------------- MODULE MCOverlap ---------------------------------
(***************************************************************************)
(* Two steps that either of two reviewers may answer; everybody may have a *)
(* request in progress, the author two.  Each step has a second row that a *)
(* second chain can insert.                                                *)
(***************************************************************************)
EXTENDS ConcurrentReview

CONSTANTS author, a, b

MCUsers == {author, a, b}
MCRequests == 1..4
MCSender == [q \in MCRequests |-> CASE q = 1 -> a [] q = 2 -> b [] OTHER -> author]
MCRules == {"screen", "screen again", "memo", "memo again"}
MCMatchings == {{"screen", "memo"}, {"screen again", "memo again"}}
MCStepOrder == [r \in MCRules |-> IF r \in {"screen", "screen again"} THEN 1 ELSE 2]
MCStepType == [r \in MCRules |-> IF MCStepOrder[r] = 1 THEN "APPROVAL" ELSE "FORM"]
MCApprovers == [r \in MCRules |-> {a, b}]
MCVoteThreshold == [r \in MCRules |-> 0]
MCVoteStrategy == [r \in MCRules |-> "NUMBER"]
=============================================================================
