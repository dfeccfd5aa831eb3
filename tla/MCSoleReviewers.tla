------------------------------ MODULE MCSoleReviewers ------------------------------
(***************************************************************************)
(* Three steps, each with one reviewer; the author reviews the form.       *)
(* Everybody may have one request in progress at any time.                 *)
(***************************************************************************)
EXTENDS SoleReviewers

CONSTANTS author, a, b

MCUsers == {author, a, b}
MCSender == [q \in MCUsers |-> q]
MCRules == {"screen", "assess", "council", "memo"}
MCMatchings == {{"screen", "assess", "council"}, {"screen", "assess", "memo"}}
MCStepOrder == [r \in MCRules |->
    CASE r = "screen" -> 1 [] r = "assess" -> 2 [] OTHER -> 3]
MCStepType == [r \in MCRules |->
    CASE r = "council" -> "VOTE" [] r = "memo" -> "FORM" [] OTHER -> "APPROVAL"]
MCApprovers == [r \in MCRules |-> 
    CASE r = "assess" -> {b} [] r = "memo" -> {author} [] OTHER -> {a}]
MCVoteThreshold == [r \in MCRules |-> IF r = "council" THEN 1 ELSE 0]
MCVoteStrategy == [r \in MCRules |-> "NUMBER"]
=============================================================================
