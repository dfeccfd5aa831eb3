----------------------------- MODULE ReviewLifecycle -----------------------------
(***************************************************************************)
(* What the proposal workflow promises, with no routing rules, rows, flags *)
(* or votes: a proposal is with its author, in review, or done.  Reviews   *)
(* are granted one at a time, in step order, and a granted review is never *)
(* asked for again.  Being sent back costs the author no granted review.   *)
(* The project is delivered once, at the moment the last review is         *)
(* granted, and never before.  ProposalWorkflow implements this module.    *)
(***************************************************************************)
EXTENDS Naturals

CONSTANTS
    Rules,       \* the reviews that can be asked for
    Matchings,   \* the sets of reviews one proposal can need
    StepOrder    \* the order in which they are granted

VARIABLES
    phase,       \* where the proposal is: "Authoring", "Review" or "Done"
    required,    \* the reviews this proposal needs, {} until it is first submitted
    granted,     \* the reviews already granted
    delivered    \* how many projects came out of the proposal

vars == <<phase, required, granted, delivered>>

Init ==
    /\ phase = "Authoring"
    /\ required = {}
    /\ granted = {}
    /\ delivered = 0

\* The first submission fixes the reviews the proposal needs.
Enter ==
    /\ phase = "Authoring"
    /\ required = {}
    /\ phase' = "Review"
    /\ \E M \in Matchings \ {{}} : required' = M
    /\ UNCHANGED <<granted, delivered>>

\* Later submissions ask only for what is still missing.
Reenter ==
    /\ phase = "Authoring"
    /\ required # {}
    /\ phase' = "Review"
    /\ UNCHANGED <<required, granted, delivered>>

\* A review is granted once all earlier ones are; the last one delivers the project.
Grant(r) ==
    /\ phase = "Review"
    /\ r \in required \ granted
    /\ \A s \in required : StepOrder[s] < StepOrder[r] => s \in granted
    /\ granted' = granted \cup {r}
    /\ IF granted' = required
       THEN phase' = "Done" /\ delivered' = delivered + 1
       ELSE UNCHANGED <<phase, delivered>>
    /\ UNCHANGED required

SendBack ==
    /\ phase = "Review"
    /\ phase' = "Authoring"
    /\ UNCHANGED <<required, granted, delivered>>

Next == Enter \/ Reenter \/ SendBack \/ \E r \in Rules : Grant(r)

Spec == Init /\ [][Next]_vars
=============================================================================
