---------------------------- MODULE MCCollaboration ----------------------------
(***************************************************************************)
(* An instance of Documents and of LiveDocument.  They write different     *)
(* columns, so a behaviour exercises one of them and leaves the other in   *)
(* its initial state; interleaving both would add nothing.                 *)
(***************************************************************************)
EXTENDS DocumentsProps, LiveDocumentProps

VARIABLE part   \* the one that is exercised

\* Two sockets of one user, as in two tabs.
SameUser == [s \in Sockets |-> "user"]

\* A socket with two calls, and one whose calls come one after the other.
FirstTwice == [c \in Calls |-> IF c = 3 THEN 2 ELSE 1]

\* For each property of LiveDocumentProps the most that may go wrong, and the second server.
Worst ==
    {{"overlap", "fail", "hurry"},           \* ExactPresence
     {"overlap", "fail", "hurry", "burst"},  \* NoGhosts
     {"late"},                               \* SessionsHoldDocument
     {"drop", "fail", "burst", "hurry"},     \* EvictionLosesNothing, EditsAreStored
     {"provider"}}

\* For ContentIsInHistory, for KeepsHistory, and for all of PruningIsSafe.
Late == {{"overtake"}, {"linger"}, {}}

OtherServer == {{"provider"}}

Init ==
    /\ part \in {"documents", "live"}
    /\ DocumentInit
    /\ LiveInit({"old"})
    /\ part = "documents" => mishaps = {"late"}     \* whichever: they are about the other part
    /\ part = "live" => setbacks = {"linger"}

Next ==
    \/ part = "documents" /\ DocumentNext /\ UNCHANGED <<part, liveVars>>
    \/ part = "live" /\ LiveNext /\ UNCHANGED <<part, documentVars>>

Spec == Init /\ [][Next]_<<part, documentVars, liveVars>> /\ DocumentFairness /\ LiveFairness
=============================================================================
