------------------------------- MODULE Documents -------------------------------
(***************************************************************************)
(* The document of one project's workspace and its versions                *)
(* (src/src/documents), saved through the API or by the debounced autosave *)
(* of live collaboration (CollaborationPersistenceService).                *)
(*                                                                         *)
(* saveDocument, restoreVersion and importMarkdown open a transaction and  *)
(* do not use it: the repository runs every statement on the pool, so each *)
(* commits by itself and the operation can stop after any of them.  An     *)
(* operation is therefore one step per statement; the operations in        *)
(* progress at one time are those of Slots.  The document itself is made   *)
(* with its project, in the transaction that approves the proposal, and    *)
(* never deleted, so createWorkspace always finds that there is one.       *)
(*                                                                         *)
(* After an autosave its old versions are pruned in the background: nobody *)
(* waits for that, so operations go on and other prunings begin between    *)
(* its reads and its delete.                                               *)
(*                                                                         *)
(* Contents are compared by a hash of their JSON.  Equal hashes mean equal *)
(* contents, but not the other way round: what is read back from a jsonb   *)
(* column can have its keys in another order.                              *)
(*                                                                         *)
(* Left out: who saves (only members of the project come this far, and     *)
(* nothing removes a member), names, validation, and rendering to Markdown *)
(* and PDF.                                                                *)
(*                                                                         *)
(* A definition marked "Fault" is no part of the model: it is the          *)
(* definition after it with a mistake, which the properties must notice.   *)
(***************************************************************************)
EXTENDS Naturals, FiniteSets

CONSTANTS
    Slots,         \* operations that can be in progress together
    Prunings,      \* bound: prunings that can be in progress together
    Contents,      \* what can be written in a document
    KeepRecent,    \* how many autosaves pruning keeps, 30 in the code
    MaxVersions,   \* bound: no operation begins when this many versions may have been made
    Delays         \* the combinations of setbacks to start from

\* The version that is shown and one that is about to be.
ASSUME KeepRecentAssumption == KeepRecent \in Nat /\ KeepRecent >= 2
ASSUME MaxVersionsAssumption == MaxVersions \in Nat
ASSUME ContentsAssumption == Contents \cap {"none", "blank"} = {}

(***************************************************************************)
(* What happens while a pruning takes its time:                            *)
(* overtake  an autosave is inserted after the pruning has read what to    *)
(*           keep, and before it deletes the rest                          *)
(* linger    a statement of an operation fails during a pruning            *)
(***************************************************************************)
Setbacks == {"overtake", "linger"}

ASSUME DelaysAssumption == Delays \subseteq SUBSET Setbacks

\* source_action, as far as pruning tells: initial, save, import and restore are all "named".
Actions == {"named", "autosave"}
Texts == Contents \cup {"blank"}

VARIABLES
    setbacks,    \* which of them can happen, never changed
    document,    \* the row in documents: current_content and current_version_id
    versions,    \* document_versions; ids in the order of created_at
    made,        \* how many versions were ever inserted, and the last id
    job,         \* the operations in progress
    pruning,     \* the calls of pruneAutosaveVersions in progress
    pending,     \* the queued autosave of CollaborationPersistenceService
    latest,      \* the last update that was received, until the document shows it
    failed       \* whether, since then, an operation failed or the server stopped

tableVars == <<document, versions, made>>
queueVars == <<pending, latest, failed>>
documentVars == <<setbacks, tableVars, job, pruning, queueVars>>

Idle == [at |-> "idle", action |-> "none", content |-> "none", number |-> 0, id |-> 0]
NoPruning == [at |-> "idle", keep |-> {}]

-----------------------------------------------------------------------------
(* Reading document_versions. *)

\* findLatestVersionByDocumentId: the greatest number, not the last inserted.
LatestVersions == {v \in versions : \A w \in versions : w.number <= v.number}

Autosaves == {v \in versions : v.action = "autosave"}

\* The most recent autosaves by created_at.
Recent == {v \in Autosaves : Cardinality({w \in Autosaves : w.id > v.id}) < KeepRecent}

\* getNextVersionNumber: MAX and one.
NextVersionNumber ==
    1 + CHOOSE n \in {v.number : v \in versions} : \A w \in versions : w.number <= n

\* The bound: versions made, and those that operations in progress and the queue may still make.
Undecided == {a \in Slots : job[a].at \in {"read", "number", "insert"}}
Room == made + Cardinality(Undecided) + (IF pending = "none" THEN 0 ELSE 1) < MaxVersions

Goto(a, at) == job' = [job EXCEPT ![a].at = at]
Begin(a, at, action, c) ==
    /\ job[a] = Idle
    /\ job' = [job EXCEPT ![a] = [Idle EXCEPT !.at = at, !.action = action, !.content = c]]
End(a) == job' = [job EXCEPT ![a] = Idle]

-----------------------------------------------------------------------------
(* Beginning an operation. *)

SaveDocument(a) ==
    /\ Room
    /\ \E c \in Contents : Begin(a, "read", "named", c)
    /\ UNCHANGED <<setbacks, tableVars, pruning, queueVars>>

ImportMarkdown(a) ==
    /\ Room
    /\ \E c \in Contents : Begin(a, "read", "named", c)
    /\ UNCHANGED <<setbacks, tableVars, pruning, queueVars>>

\* restoreVersion.  A version whose hash is that of the document's content is left alone; the
\* content is hashed as it was read back, so even the current one may be restored.
RestoreVersion(a) ==
    /\ Room
    /\ \E v \in versions : Begin(a, "number", "named", v.content)
    /\ UNCHANGED <<setbacks, tableVars, pruning, queueVars>>

\* Fault: an update that comes while one is queued is not taken over.
RecordFirst(c) ==
    pending' = IF pending = "none" THEN c ELSE pending

\* recordUpdate: the last update replaces what is queued, and sets the timer anew.
RecordUpdate(c) ==
    pending' = c

\* collab:update from a member who has joined.
OnUpdate(c) ==
    /\ Room
    /\ RecordUpdate(c)
    /\ latest' = c
    /\ failed' = FALSE
    /\ UNCHANGED <<setbacks, tableVars, job, pruning>>

\* Fault: dequeued first, and looked up then.
FlushDequeued(a) ==
    /\ pending # "none"
    /\ pending' = "none"
    /\ Begin(a, "read", "autosave", "none")
    /\ UNCHANGED <<setbacks, tableVars, pruning, latest, failed>>

\* flush, by the timer or because a client leaves: dequeue, then save as an autosave.
Flush(a) ==
    /\ pending # "none"
    /\ pending' = "none"
    /\ Begin(a, "read", "autosave", pending)
    /\ UNCHANGED <<setbacks, tableVars, pruning, latest, failed>>

-----------------------------------------------------------------------------
(* The statements of an operation. *)

\* saveDocument and importMarkdown: content with the hash of the latest version's makes no new one.
CompareWithLatest(a) ==
    /\ job[a].at = "read"
    /\ \/ Goto(a, "number")
       \/ /\ \E v \in LatestVersions : v.content = job[a].content
          /\ Goto(a, "touch")
    /\ UNCHANGED <<setbacks, tableVars, pruning, queueVars>>

Show(c, id) ==
    /\ document' = [content |-> c, version |-> id]
    /\ latest' = IF latest = c THEN "none" ELSE latest

TouchDocument(a) ==
    /\ job[a].at = "touch"
    /\ Show(job[a].content, document.version)
    /\ End(a)
    /\ UNCHANGED <<setbacks, versions, made, pruning, pending, failed>>

ReadNumber(a) ==
    /\ job[a].at = "number"
    /\ job' = [job EXCEPT ![a].at = "insert", ![a].number = NextVersionNumber]
    /\ UNCHANGED <<setbacks, tableVars, pruning, queueVars>>

\* Fault: the document is updated and the version left for later.
ShowBeforeInsert(a) ==
    /\ job[a].at = "insert"
    /\ Show(job[a].content, document.version)
    /\ End(a)
    /\ UNCHANGED <<setbacks, versions, made, pruning, pending, failed>>

\* Fault: content that the history has already is moved to its end, with the number it had.
MoveVersion(a) ==
    /\ job[a].at = "insert"
    /\ LET same == {v \in versions : v.content = job[a].content}
           number == IF same = {} THEN job[a].number ELSE (CHOOSE v \in same : TRUE).number
       IN  versions' = (versions \ same) \cup {[id |-> made + 1, number |-> number,
                                                content |-> job[a].content, action |-> job[a].action]}
    /\ made' = made + 1
    /\ job' = [job EXCEPT ![a].at = "update", ![a].id = made + 1]
    /\ UNCHANGED <<setbacks, document, pruning, queueVars>>

\* createDocumentVersion, under the unique key on the number.
InsertVersion(a) ==
    /\ job[a].at = "insert"
    /\ \A v \in versions : v.number # job[a].number
    /\ job[a].action = "autosave" /\ "overtake" \notin setbacks =>
           \A p \in Prunings : pruning[p].at # "delete"
    /\ versions' = versions \cup {[id |-> made + 1, number |-> job[a].number,
                                   content |-> job[a].content, action |-> job[a].action]}
    /\ made' = made + 1
    /\ job' = [job EXCEPT ![a].at = "update", ![a].id = made + 1]
    /\ UNCHANGED <<setbacks, document, pruning, queueVars>>

\* updateDocument, under the foreign key on the version; an autosave then starts a pruning.
UpdateDocument(a) ==
    /\ job[a].at = "update"
    /\ \E v \in versions : v.id = job[a].id
    /\ Show(job[a].content, job[a].id)
    /\ End(a)
    /\ IF job[a].action = "autosave"
       THEN \E p \in Prunings :
               pruning[p].at = "idle" /\ pruning' = [pruning EXCEPT ![p].at = "read"]
       ELSE UNCHANGED pruning
    /\ UNCHANGED <<setbacks, versions, made, pending, failed>>

-----------------------------------------------------------------------------
(* pruneAutosaveVersions, in the background. *)

\* Fault: only the autosaves kept by the day are kept.
KeepOldOnly(p) ==
    /\ pruning[p].at = "read"
    /\ \E old \in SUBSET (Autosaves \ Recent) :
        pruning' = [pruning EXCEPT ![p] = [at |-> "delete", keep |-> {v.id : v \in old}]]
    /\ UNCHANGED <<setbacks, tableVars, job, queueVars>>

\* What to keep: the recent ones and of the old ones some (by the day).
ReadRecent(p) ==
    /\ pruning[p].at = "read"
    /\ \E old \in SUBSET (Autosaves \ Recent) :
        pruning' = [pruning EXCEPT ![p] = [at |-> "delete", keep |-> {v.id : v \in Recent \cup old}]]
    /\ UNCHANGED <<setbacks, tableVars, job, queueVars>>

\* The rows that are deleted: the autosaves that are not on the list, unless it is empty.
Pruned(p) == {v \in Autosaves : pruning[p].keep # {} /\ v.id \notin pruning[p].keep}

\* Fault: every kind of version is pruned.
DeleteAll(p) ==
    /\ pruning[p].at = "delete"
    /\ \A v \in versions : v.id = document.version => v.id \in pruning[p].keep
    /\ versions' = {v \in versions : v.id \in pruning[p].keep}
    /\ pruning' = [pruning EXCEPT ![p] = NoPruning]
    /\ UNCHANGED <<setbacks, document, made, job, queueVars>>

\* The delete, when the foreign key current_version_id allows it.
DeleteOthers(p) ==
    /\ pruning[p].at = "delete"
    /\ \A v \in Pruned(p) : v.id # document.version
    /\ versions' = versions \ Pruned(p)
    /\ pruning' = [pruning EXCEPT ![p] = NoPruning]
    /\ UNCHANGED <<setbacks, document, made, job, queueVars>>

-----------------------------------------------------------------------------
(* Failures. *)

\* The unique or the foreign key forbids the statement.
Forbidden(a) ==
    \/ job[a].at = "insert" /\ \E v \in versions : v.number = job[a].number
    \/ job[a].at = "update" /\ ~\E v \in versions : v.id = job[a].id

\* A statement fails, by a key or because the connection does.  A flush queues what it had
\* again, whatever was queued since; anything else answers with an error.
Fail(a) ==
    /\ job[a].at \in {"read", "touch", "number", "insert", "update"}
    /\ \/ "linger" \in setbacks
       \/ \A p \in Prunings : pruning[p] = NoPruning
       \/ Forbidden(a)
    /\ job[a].action = "autosave" /\ job[a].at \in {"touch", "update"} => Room \/ Forbidden(a)
    /\ IF job[a].action = "autosave" THEN RecordUpdate(job[a].content) ELSE UNCHANGED pending
    /\ failed' = TRUE
    /\ End(a)
    /\ UNCHANGED <<setbacks, tableVars, pruning, latest>>

\* Whatever was going on ends, and nothing is flushed: main.ts does not enable shutdown hooks.
Halt ==
    /\ job' = [a \in Slots |-> Idle]
    /\ pruning' = [p \in Prunings |-> NoPruning]
    /\ pending' = "none"
    /\ failed' = TRUE
    /\ UNCHANGED <<setbacks, tableVars, latest>>

\* The server stops, for whatever reason.
Stop ==
    /\ \/ pending # "none"
       \/ \E a \in Slots : job[a] # Idle
       \/ \E p \in Prunings : pruning[p] # NoPruning
    /\ Halt

\* The foreign key forbids the delete.  Nobody catches the error, which stops Node.
RefuseDelete(p) ==
    /\ pruning[p].at = "delete"
    /\ \E v \in Pruned(p) : v.id = document.version
    /\ Halt

-----------------------------------------------------------------------------
Statement(a) ==
    \/ CompareWithLatest(a)
    \/ TouchDocument(a)
    \/ ReadNumber(a)
    \/ InsertVersion(a)
    \/ UpdateDocument(a)

Request(a) == SaveDocument(a) \/ ImportMarkdown(a) \/ RestoreVersion(a)

Prune(p) == ReadRecent(p) \/ DeleteOthers(p) \/ RefuseDelete(p)

DocumentNext ==
    \/ \E a \in Slots : Request(a) \/ Flush(a) \/ Statement(a) \/ Fail(a)
    \/ \E p \in Prunings : Prune(p)
    \/ \E c \in Contents : OnUpdate(c)
    \/ Stop

\* What createProjectFromApprovedProposal leaves.
DocumentInit ==
    /\ setbacks \in Delays
    /\ document = [content |-> "blank", version |-> 1]
    /\ versions = {[id |-> 1, number |-> 1, content |-> "blank", action |-> "named"]}
    /\ made = 1
    /\ job = [a \in Slots |-> Idle]
    /\ pruning = [p \in Prunings |-> NoPruning]
    /\ pending = "none"
    /\ latest = "none"
    /\ failed = FALSE

DocumentSpec == DocumentInit /\ [][DocumentNext]_documentVars

\* A statement that was sent is answered, with an error if it is forbidden, and the timer of the
\* queue goes off.  That a flush waits for a free slot is the model's doing, so it gets its turn.
DocumentFairness ==
    /\ \A a \in Slots : /\ WF_documentVars(Statement(a) \/ (Forbidden(a) /\ Fail(a)))
                       /\ SF_documentVars(Flush(a))
    /\ \A p \in Prunings : WF_documentVars(Prune(p))
=============================================================================
