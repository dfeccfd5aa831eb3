----------------------------- MODULE DocumentsProps -----------------------------
(***************************************************************************)
(* What holds of Documents while one operation on a document is in         *)
(* progress at a time (it may fail or stop anywhere), with any number of   *)
(* prunings in the background.                                             *)
(***************************************************************************)
EXTENDS Documents

\* Nothing in the code makes the operations on a document take turns.
OneAtATime == \A a, b \in Slots : a = b

\* Every variable keeps its type.
DocumentTypes ==
    /\ document \in [content : Texts, version : Nat]
    /\ \A v \in versions : v \in [id : Nat, number : Nat, content : Texts, action : Actions]
    /\ made \in Nat
    /\ pending \in Contents \cup {"none"}
    /\ latest \in Contents \cup {"none"}
    /\ failed \in BOOLEAN

\* What the document shows is in its history, whatever failed between inserting a version and
\* updating the document, and whatever is pruned meanwhile: a reader can always go back to it.
\* If an autosave fails after its insert while a pruning still goes on, that may delete what the
\* retry, which finds the content saved already, is about to show.
ContentIsInHistory ==
    "linger" \notin setbacks => document.content \in {v.content : v \in versions}

\* The foreign key would make a pruning fail that selects the current version, and the error,
\* which nobody catches, stop the server.  That needs an autosave which overtook the pruning:
\* then the current version is newer than all it has read.  Saves, restores, other prunings and
\* an autosave between its two writes are no danger.
PruningIsSafe ==
    "linger" \notin setbacks =>
        \A p \in Prunings : pruning[p].at = "delete" =>
            \A v \in Pruned(p) : v.id = document.version =>
                "overtake" \in setbacks /\ \A id \in pruning[p].keep : id < v.id

\* documents.repository.ts:155: what is not an autosave is never deleted, and of the autosaves
\* the most recent ones never, as long as none is made between reading and deleting.
KeepsHistory ==
    [][/\ versions \ versions' \subseteq Autosaves
       /\ "overtake" \notin setbacks => (versions \ versions') \cap Recent = {}]_documentVars

\* The latest version by number, which saving compares with, is the latest by time, which
\* pruning goes by: numbers grow with time although versions are deleted in between.
NumbersFollowTime ==
    \A v, w \in versions : v.id < w.id => v.number < w.number

\* The last update that was received reaches the document, unless something fails or a newer
\* one comes: the queue, its timer and the flush lose nothing by themselves.
LatestLands ==
    \A c \in Contents : latest = c /\ ~failed ~> latest # c \/ failed
=============================================================================
