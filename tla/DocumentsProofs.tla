---------------------------- MODULE DocumentsProofs ----------------------------
(***************************************************************************)
(* The history of a document, for any contents, any number of versions and *)
(* any number of autosaves kept.                                           *)
(*                                                                         *)
(* Types hold, and the most recent autosaves are kept, however many        *)
(* operations are in progress.  The rest needs that there is one at a      *)
(* time, beside any number of prunings in the background: then what an     *)
(* operation has read is still so when it writes, and during a pruning     *)
(* nothing is newer than the version that is shown but the one about to    *)
(* be.  Both are among the two most recent, so a pruning that reads now    *)
(* keeps them, and one that has read is no danger to what is newer than    *)
(* all it read, unless it is overtaken.                                    *)
(***************************************************************************)
EXTENDS DocumentsProps, WellFoundedInduction, FiniteSetTheorems, TLAPS

-----------------------------------------------------------------------------
(* Numbers and ids. *)

Row == [id : Nat, number : Nat, content : Texts, action : Actions]

\* A set of natural numbers has a least one.
LEMMA LeastNumber ==
    ASSUME NEW S \in SUBSET Nat, S # {}
    PROVE  \E x \in S : \A y \in S : x <= y
<1>1. PICK x \in S : \A y \in S : ~(<<y, x>> \in OpToRel(<, Nat))
  BY NatLessThanWellFounded, WFMin
<1>2. \A y \in S : ~(y < x)
  BY <1>1 DEF OpToRel
<1> QED BY <1>2

\* And, if it is bounded, a greatest.
LEMMA GreatestNumber ==
    ASSUME NEW S \in SUBSET Nat, S # {}, NEW bound \in Nat, \A x \in S : x <= bound
    PROVE  \E x \in S : \A y \in S : y <= x
<1> DEFINE below == {bound - x : x \in S}
<1>1. below \in SUBSET Nat /\ below # {}
  <2>1. \A x \in S : bound - x \in Nat /\ bound - x \in below
    OBVIOUS
  <2> QED BY <2>1
<1>2. PICK least \in below : \A z \in below : least <= z
  BY <1>1, LeastNumber
<1>3. PICK x \in S : least = bound - x
  BY <1>2
<1>4. ASSUME NEW y \in S PROVE y <= x
  <2>1. bound - x <= bound - y
    BY <1>2, <1>3
  <2> QED BY <2>1
<1> QED BY <1>4

\* getNextVersionNumber is above all numbers there are, and exceeds none by more than it must.
LEMMA NextIsAbove ==
    ASSUME versions \subseteq Row, versions # {}, NEW bound \in Nat,
           \A v \in versions : v.number <= bound
    PROVE  /\ NextVersionNumber \in Nat
           /\ NextVersionNumber <= bound + 1
           /\ \A v \in versions : v.number < NextVersionNumber
<1> DEFINE numbers == {v.number : v \in versions}
           top == CHOOSE n \in numbers : \A w \in versions : w.number <= n
<1>1. numbers \in SUBSET Nat /\ numbers # {} /\ \A n \in numbers : n <= bound
  BY DEF Row
<1>2. \E n \in numbers : \A m \in numbers : m <= n
  BY <1>1, GreatestNumber
<1>3. \E n \in numbers : \A w \in versions : w.number <= n
  BY <1>2
<1>4. top \in numbers /\ \A w \in versions : w.number <= top
  BY <1>3
<1>5. NextVersionNumber = 1 + top
  BY DEF NextVersionNumber
<1>6. \A v \in versions : v.number \in Nat
  BY DEF Row
<1> HIDE DEF top, numbers
<1> QED BY <1>1, <1>4, <1>5, <1>6

-----------------------------------------------------------------------------
(* Types, whatever overlaps. *)

Stages == {"idle", "read", "touch", "number", "insert", "update"}
Job == [at : Stages, action : Actions \cup {"none"}, content : Texts \cup {"none"},
        number : Nat, id : Nat]
Pruning == [at : {"idle", "read", "delete"}, keep : SUBSET Nat]

\* An operation in progress has an action and a content, which an autosave was sent.
HasContent(j) ==
    /\ j.at # "idle" => j.action \in Actions /\ j.content \in Texts
    /\ j.action = "autosave" => j.content \in Contents

\* The version the document refers to exists: the foreign key of the code.
CurrentExists == \E v \in versions : v.id = document.version

\* Numbers and ids do not run ahead of the versions made.
NumbersBounded ==
    /\ \A v \in versions : v.number <= made /\ v.id <= made
    /\ \A a \in Slots : job[a].at = "insert" => job[a].number <= made + 1

DocumentTypeInv ==
    /\ DocumentTypes
    /\ versions \subseteq Row /\ IsFiniteSet(versions)
    /\ job \in [Slots -> Job]
    /\ pruning \in [Prunings -> Pruning]
    /\ \A a \in Slots : HasContent(job[a])
    /\ CurrentExists
    /\ NumbersBounded

\* What beginning an operation does.
LEMMA BeginTypes ==
    ASSUME DocumentTypeInv, NEW a \in Slots, NEW at \in {"read", "number"},
           NEW action \in Actions, NEW c \in Texts, action = "autosave" => c \in Contents,
           Begin(a, at, action, c)
    PROVE  /\ job' \in [Slots -> Job]
           /\ \A b \in Slots : HasContent(job'[b])
           /\ \A b \in Slots : job'[b].at = "insert" => job[b].at = "insert" /\ job'[b] = job[b]
<1> DEFINE new == [Idle EXCEPT !.at = at, !.action = action, !.content = c]
<1>1. job' = [job EXCEPT ![a] = new]
  BY DEF Begin
<1>2. new \in Job /\ HasContent(new) /\ new.at # "insert"
  BY DEF Idle, Job, Stages, HasContent
<1> HIDE DEF new
<1> QED BY <1>1, <1>2 DEF DocumentTypeInv

\* What a statement does to its own operation.
LEMMA GoOn ==
    ASSUME DocumentTypeInv, NEW a \in Slots, NEW new,
           job' = [job EXCEPT ![a] = new], new \in Job, HasContent(new)
    PROVE  /\ job' \in [Slots -> Job]
           /\ \A b \in Slots : HasContent(job'[b])
           /\ job'[a] = new
           /\ \A b \in Slots : b # a => job'[b] = job[b]
BY DEF DocumentTypeInv

LEMMA IdleIsJob == Idle \in Job /\ HasContent(Idle) /\ Idle.at = "idle"
BY DEF Idle, Job, Stages, HasContent

LEMMA NoPruningIsPruning == NoPruning \in Pruning /\ NoPruning.at = "idle" /\ NoPruning.keep = {}
BY DEF NoPruning, Pruning

\* A statement that leaves the tables alone and goes on with its own operation.
LEMMA TablesStay ==
    ASSUME DocumentTypeInv, NEW a \in Slots, NEW new,
           job' = [job EXCEPT ![a] = new], new \in Job, HasContent(new),
           new.at = "insert" => new.number <= made + 1,
           UNCHANGED <<tableVars, pruning>>,
           pending' \in Contents \cup {"none"}, latest' \in Contents \cup {"none"},
           failed' \in BOOLEAN
    PROVE  DocumentTypeInv'
<1>1. /\ job' \in [Slots -> Job]
      /\ \A b \in Slots : HasContent(job'[b])
      /\ job'[a] = new
      /\ \A b \in Slots : b # a => job'[b] = job[b]
  BY GoOn
<1> QED BY <1>1 DEF DocumentTypeInv, DocumentTypes, CurrentExists, NumbersBounded, tableVars

\* A statement that shows what an operation has.
LEMMA ShowTypes ==
    ASSUME DocumentTypeInv, NEW c \in Texts, NEW id \in Nat, Show(c, id)
    PROVE  /\ document' \in [content : Texts, version : Nat]
           /\ document'.version = id
           /\ latest' \in Contents \cup {"none"}
BY DEF DocumentTypeInv, DocumentTypes, Show

LEMMA TypesInit == DocumentInit => DocumentTypeInv
<1> SUFFICES ASSUME DocumentInit PROVE DocumentTypeInv
  OBVIOUS
<1>1. versions \subseteq Row /\ IsFiniteSet(versions)
  <2>1. [id |-> 1, number |-> 1, content |-> "blank", action |-> "named"] \in Row
    BY DEF Row, Texts, Actions
  <2> QED BY <2>1, FS_Singleton DEF DocumentInit
<1>1a. DocumentTypes
  <2>1. document \in [content : Texts, version : Nat]
    BY DEF DocumentInit, Texts
  <2> QED BY <2>1, <1>1 DEF DocumentInit, DocumentTypes, Row
<1>2. job \in [Slots -> Job] /\ \A a \in Slots : HasContent(job[a]) /\ job[a].at = "idle"
  BY IdleIsJob DEF DocumentInit
<1>3. CurrentExists /\ \A v \in versions : v.number <= made /\ v.id <= made
  BY DEF DocumentInit, CurrentExists
<1>4. pruning \in [Prunings -> Pruning]
  BY NoPruningIsPruning DEF DocumentInit
<1> QED BY <1>1, <1>1a, <1>2, <1>3, <1>4 DEF DocumentTypeInv, NumbersBounded

\* Operations begin with contents that there are.
LEMMA RequestTypes ==
    ASSUME DocumentTypeInv, NEW a \in Slots, Request(a) \/ Flush(a)
    PROVE  DocumentTypeInv'
<1>1. ASSUME NEW at \in {"read", "number"}, NEW action \in Actions, NEW c \in Texts,
             action = "autosave" => c \in Contents,
             Begin(a, at, action, c), UNCHANGED <<tableVars, pruning, latest, failed>>,
             pending' \in Contents \cup {"none"}
      PROVE  DocumentTypeInv'
  <2>1. /\ job' \in [Slots -> Job]
        /\ \A b \in Slots : HasContent(job'[b])
        /\ \A b \in Slots : job'[b].at = "insert" => job[b].at = "insert" /\ job'[b] = job[b]
    BY <1>1, BeginTypes
  <2> QED BY <1>1, <2>1 DEF DocumentTypeInv, DocumentTypes, CurrentExists, NumbersBounded, tableVars
<1>2. pending \in Contents \cup {"none"} /\ Contents \subseteq Texts
  BY DEF DocumentTypeInv, DocumentTypes, Texts
<1>3. {"named", "autosave"} \subseteq Actions
  BY DEF Actions
<1>4. CASE SaveDocument(a)
  BY <1>4, <1>1, <1>2, <1>3 DEF SaveDocument, queueVars
<1>5. CASE ImportMarkdown(a)
  BY <1>5, <1>1, <1>2, <1>3 DEF ImportMarkdown, queueVars
<1>6. CASE RestoreVersion(a)
  <2>1. PICK v \in versions : Begin(a, "number", "named", v.content)
    BY <1>6 DEF RestoreVersion
  <2>2. v.content \in Texts
    BY DEF DocumentTypeInv, Row
  <2>3. UNCHANGED <<tableVars, pruning, queueVars>>
    BY <1>6 DEF RestoreVersion
  <2> QED BY <2>1, <2>2, <2>3, <1>1, <1>2, <1>3 DEF queueVars
<1>7. CASE Flush(a)
  BY <1>7, <1>1, <1>2, <1>3 DEF Flush
<1> QED BY <1>4, <1>5, <1>6, <1>7 DEF Request

\* Statements pass on what their operation has.
LEMMA StatementTypes ==
    ASSUME DocumentTypeInv, NEW a \in Slots, Statement(a)
    PROVE  DocumentTypeInv'
<1> DEFINE j == job[a]
<1>1. /\ j \in Job /\ HasContent(j)
      /\ versions \subseteq Row /\ made \in Nat
      /\ document \in [content : Texts, version : Nat]
      /\ latest \in Contents \cup {"none"} /\ pending \in Contents \cup {"none"}
      /\ failed \in BOOLEAN
      /\ job \in [Slots -> Job]
  BY DEF DocumentTypeInv, DocumentTypes
<1>2. ASSUME NEW at \in Stages, j.at # "idle", at # "insert"
      PROVE  [j EXCEPT !.at = at] \in Job /\ HasContent([j EXCEPT !.at = at])
  BY <1>1, <1>2 DEF Job, HasContent
<1>3. CASE CompareWithLatest(a)
  <2>1. PICK at \in {"touch", "number"} : job' = [job EXCEPT ![a].at = at]
    BY <1>3 DEF CompareWithLatest, Goto
  <2>2. job' = [job EXCEPT ![a] = [j EXCEPT !.at = at]]
    BY <2>1
  <2>3. [j EXCEPT !.at = at].at = at
    BY <1>1 DEF Job
  <2> HIDE DEF j
  <2>4. j.at = "read" /\ UNCHANGED <<tableVars, pruning, queueVars>>
    BY <1>3 DEF CompareWithLatest, j
  <2> QED BY <2>1, <2>2, <2>3, <2>4, <1>1, <1>2, TablesStay DEF Stages, queueVars
<1>4. CASE TouchDocument(a)
  <2>1. j.at = "touch" /\ Show(j.content, document.version) /\ job' = [job EXCEPT ![a] = Idle]
        /\ UNCHANGED <<versions, made, pruning, pending, failed>>
    BY <1>4 DEF TouchDocument, End
  <2>2. /\ document' \in [content : Texts, version : Nat]
        /\ document'.version = document.version
        /\ latest' \in Contents \cup {"none"}
    BY <2>1, <1>1, ShowTypes DEF HasContent
  <2>3. /\ job' \in [Slots -> Job]
        /\ \A b \in Slots : HasContent(job'[b])
        /\ job'[a] = Idle
        /\ \A b \in Slots : b # a => job'[b] = job[b]
    BY <2>1, GoOn, IdleIsJob
  <2> QED BY <2>1, <2>2, <2>3, IdleIsJob
          DEF DocumentTypeInv, DocumentTypes, CurrentExists, NumbersBounded
<1>5. CASE ReadNumber(a)
  <2> DEFINE new == [j EXCEPT !.at = "insert", !.number = NextVersionNumber]
  <2>1. job' = [job EXCEPT ![a] = new] /\ j.at = "number" /\ UNCHANGED <<tableVars, pruning, queueVars>>
    BY <1>5 DEF ReadNumber
  <2>2. NextVersionNumber \in Nat /\ NextVersionNumber <= made + 1
    BY <1>1, NextIsAbove DEF DocumentTypeInv, CurrentExists, NumbersBounded
  <2>3. new \in Job /\ HasContent(new) /\ new.number <= made + 1
    BY <1>1, <2>1, <2>2 DEF Job, Stages, HasContent
  <2> HIDE DEF new
  <2> QED BY <2>1, <2>3, <1>1, TablesStay DEF queueVars
<1>6. CASE InsertVersion(a)
  <2> DEFINE new == [j EXCEPT !.at = "update", !.id = made + 1]
             row == [id |-> made + 1, number |-> j.number, content |-> j.content,
                     action |-> j.action]
  <2>1. /\ job' = [job EXCEPT ![a] = new] /\ j.at = "insert"
        /\ versions' = versions \cup {row} /\ made' = made + 1
        /\ UNCHANGED <<document, pruning, queueVars>>
    BY <1>6 DEF InsertVersion
  <2>2. new \in Job /\ HasContent(new) /\ new.at # "insert"
    <3>0. made + 1 \in Nat /\ "update" \in Stages /\ j \in Job
      BY <1>1 DEF Stages
    <3>1. new \in Job
      BY <3>0 DEF Job
    <3>2. new.at = "update" /\ new.action = j.action /\ new.content = j.content
      BY <1>1 DEF Job
    <3> QED BY <3>1, <3>2, <2>1, <1>1 DEF HasContent
  <2>3. row \in Row /\ row.number <= made + 1 /\ row.id = made + 1
    BY <1>1, <2>1 DEF Job, Row, HasContent, DocumentTypeInv, NumbersBounded
  <2> HIDE DEF new, row, j
  <2>4. /\ job' \in [Slots -> Job]
        /\ \A b \in Slots : HasContent(job'[b])
        /\ job'[a] = new
        /\ \A b \in Slots : b # a => job'[b] = job[b]
    BY <2>1, <2>2, GoOn
  <2>5. versions' \subseteq Row /\ made' \in Nat /\ DocumentTypes'
    BY <1>1, <2>1, <2>3 DEF DocumentTypes, Row, queueVars
  <2>5a. IsFiniteSet(versions') /\ pruning' \in [Prunings -> Pruning]
    BY <2>1, FS_AddElement DEF DocumentTypeInv
  <2>6. \A v \in versions' : v.number <= made' /\ v.id <= made'
    BY <1>1, <2>1, <2>3 DEF Row, DocumentTypeInv, NumbersBounded
  <2>7. ASSUME NEW b \in Slots, job'[b].at = "insert" PROVE job'[b].number <= made' + 1
    <3>1. job'[b] = job[b] /\ job[b].number <= made + 1 /\ job[b].number \in Nat
      BY <1>1, <2>2, <2>4, <2>7 DEF DocumentTypeInv, NumbersBounded, Job
    <3> QED BY <3>1, <2>1, <1>1
  <2>8. CurrentExists'
    BY <2>1 DEF DocumentTypeInv, CurrentExists
  <2> QED BY <2>4, <2>5, <2>5a, <2>6, <2>7, <2>8 DEF DocumentTypeInv, NumbersBounded
<1>7. CASE UpdateDocument(a)
  <2>1. /\ j.at = "update" /\ Show(j.content, j.id)
        /\ \E v \in versions : v.id = j.id
        /\ UNCHANGED <<versions, made, pending, failed>>
    BY <1>7 DEF UpdateDocument
  <2>2. /\ document' \in [content : Texts, version : Nat]
        /\ document'.version = j.id
        /\ latest' \in Contents \cup {"none"}
    BY <2>1, <1>1, ShowTypes DEF HasContent, Job
  <2>3. /\ job' \in [Slots -> Job]
        /\ \A b \in Slots : HasContent(job'[b])
        /\ job'[a] = Idle
        /\ \A b \in Slots : b # a => job'[b] = job[b]
    BY <1>7, GoOn, IdleIsJob DEF UpdateDocument, End
  <2>4. pruning' \in [Prunings -> Pruning]
    BY <1>7 DEF UpdateDocument, DocumentTypeInv, Pruning
  <2> QED BY <2>1, <2>2, <2>3, <2>4, IdleIsJob
          DEF DocumentTypeInv, DocumentTypes, CurrentExists, NumbersBounded
<1> QED BY <1>3, <1>4, <1>5, <1>6, <1>7 DEF Statement

\* What a halt leaves.
LEMMA HaltTypes ==
    ASSUME DocumentTypeInv, Halt
    PROVE  DocumentTypeInv'
<1>1. job' = [a \in Slots |-> Idle] /\ pruning' = [p \in Prunings |-> NoPruning]
  BY DEF Halt
<1>2. job' \in [Slots -> Job] /\ \A a \in Slots : HasContent(job'[a]) /\ job'[a].at = "idle"
  BY <1>1, IdleIsJob
<1>3. pruning' \in [Prunings -> Pruning]
  BY <1>1, NoPruningIsPruning
<1> QED BY <1>2, <1>3 DEF Halt, tableVars, DocumentTypeInv, DocumentTypes, CurrentExists,
                          NumbersBounded

\* Prunings read ids, and do not delete the current version.
LEMMA PruneTypes ==
    ASSUME DocumentTypeInv, NEW p \in Prunings, Prune(p)
    PROVE  DocumentTypeInv'
<1>1. CASE ReadRecent(p)
  <2>1. PICK old \in SUBSET (Autosaves \ Recent) :
          pruning' = [pruning EXCEPT ![p] = [at |-> "delete",
                                             keep |-> {v.id : v \in Recent \cup old}]]
    BY <1>1 DEF ReadRecent
  <2> DEFINE ids == {v.id : v \in Recent \cup old}
  <2>2. ids \subseteq Nat
    <3>1. Recent \cup old \subseteq versions
      BY DEF Recent, Autosaves
    <3>2. \A v \in Recent \cup old : v.id \in Nat
      BY <3>1 DEF DocumentTypeInv, Row
    <3> QED BY <3>2
  <2>3. [at |-> "delete", keep |-> ids] \in Pruning
    BY <2>2 DEF Pruning
  <2> HIDE DEF ids
  <2>4. pruning' \in [Prunings -> Pruning]
    BY <2>1, <2>3 DEF DocumentTypeInv, ids
  <2>5. UNCHANGED <<setbacks, tableVars, job, queueVars>>
    BY <1>1 DEF ReadRecent
  <2> QED BY <2>4, <2>5 DEF tableVars, queueVars, DocumentTypeInv, DocumentTypes, CurrentExists,
                            NumbersBounded
<1>2. CASE DeleteOthers(p)
  <2>1. /\ versions' = versions \ Pruned(p)
        /\ \A v \in Pruned(p) : v.id # document.version
        /\ pruning' = [pruning EXCEPT ![p] = NoPruning]
        /\ UNCHANGED <<document, made, job, queueVars>>
    BY <1>2 DEF DeleteOthers
  <2>2. IsFiniteSet(versions') /\ versions' \subseteq Row
    BY <2>1, FS_Subset DEF DocumentTypeInv
  <2>3. pruning' \in [Prunings -> Pruning]
    BY <2>1, NoPruningIsPruning DEF DocumentTypeInv
  <2>4. CurrentExists'
    BY <2>1 DEF DocumentTypeInv, CurrentExists
  <2> QED BY <2>1, <2>2, <2>3, <2>4 DEF DocumentTypeInv, DocumentTypes, NumbersBounded, queueVars
<1>3. CASE RefuseDelete(p)
  BY <1>3, HaltTypes DEF RefuseDelete
<1> QED BY <1>1, <1>2, <1>3 DEF Prune

\* Every variable of a document and its history keeps its type, for any number of operations
\* in progress, and so the greatest number there is always exists.
THEOREM DocumentsKeepTypes == DocumentSpec => []DocumentTypeInv
<1>1. DocumentTypeInv /\ [DocumentNext]_documentVars => DocumentTypeInv'
  <2> SUFFICES ASSUME DocumentTypeInv, [DocumentNext]_documentVars PROVE DocumentTypeInv'
    OBVIOUS
  <2>1. ASSUME NEW a \in Slots, Fail(a) PROVE DocumentTypeInv'
    <3>1. pending' \in Contents \cup {"none"}
      BY <2>1 DEF Fail, RecordUpdate, DocumentTypeInv, DocumentTypes, HasContent
    <3>2. /\ job' = [job EXCEPT ![a] = Idle]
          /\ UNCHANGED <<tableVars, pruning, latest>>
          /\ failed' = TRUE
      BY <2>1 DEF Fail, End
    <3> QED BY <3>1, <3>2, IdleIsJob, TablesStay DEF DocumentTypeInv, DocumentTypes
  <2>2. ASSUME NEW c \in Contents, OnUpdate(c) PROVE DocumentTypeInv'
    BY <2>2 DEF OnUpdate, RecordUpdate, tableVars, DocumentTypeInv, DocumentTypes, CurrentExists,
                NumbersBounded
  <2>3. CASE Stop
    BY <2>3, HaltTypes DEF Stop
  <2>4. CASE UNCHANGED documentVars
    BY <2>4 DEF documentVars, tableVars, queueVars, DocumentTypeInv, DocumentTypes, CurrentExists,
                NumbersBounded
  <2> QED BY <2>1, <2>2, <2>3, <2>4, RequestTypes, StatementTypes, PruneTypes DEF DocumentNext
<1> QED BY <1>1, TypesInit, PTL DEF DocumentSpec

\* Its first conjunct is the type invariant that the run checks.
THEOREM DocumentTypesHold == DocumentSpec => []DocumentTypes
<1>1. DocumentTypeInv => DocumentTypes
  BY DEF DocumentTypeInv
<1> QED BY <1>1, DocumentsKeepTypes, PTL

-----------------------------------------------------------------------------
(* The most recent autosaves, however many operations are in progress. *)

\* Rank: how many autosaves are newer.
Newer(v) == {w \in Autosaves : w.id > v.id}

LEMMA RecentByRank ==
    ASSUME DocumentTypeInv, NEW v \in Autosaves
    PROVE  /\ v \in versions /\ v.id \in Nat
           /\ IsFiniteSet(Newer(v)) /\ Cardinality(Newer(v)) \in Nat
           /\ v \in Recent <=> Cardinality(Newer(v)) < KeepRecent
<1>1. v \in versions /\ v.id \in Nat /\ Newer(v) \in SUBSET versions
  BY DEF Autosaves, Newer, DocumentTypeInv, Row
<1>2. IsFiniteSet(Newer(v))
  BY <1>1, FS_Subset DEF DocumentTypeInv
<1> QED BY <1>1, <1>2, FS_CardinalityType DEF Recent, Newer

\* Deleting others leaves the most recent ones what they are: of the rest even the newest has
\* enough recent ones above it.
LEMMA DeletingOthers ==
    ASSUME DocumentTypeInv, DocumentTypeInv', NEW gone, gone \cap Recent = {},
           versions' = versions \ gone
    PROVE  Recent' = Recent
<1>1. Autosaves' = Autosaves \ gone
  BY DEF Autosaves
<1>2. ASSUME NEW v \in Autosaves' PROVE Newer(v)' \in SUBSET Newer(v)
  BY <1>1 DEF Newer
<1>3. ASSUME NEW v \in Recent PROVE v \in Recent'
  <2>1. v \in Autosaves /\ v \in Autosaves'
    BY <1>1 DEF Recent
  <2>2. Cardinality(Newer(v)') <= Cardinality(Newer(v)) /\ Cardinality(Newer(v)') \in Nat
    BY <2>1, <1>2, RecentByRank, FS_Subset, FS_CardinalityType
  <2>3. Cardinality(Newer(v)') < KeepRecent
    BY <2>1, <2>2, RecentByRank, KeepRecentAssumption
  <2> QED BY <2>1, <2>3 DEF Recent, Newer
<1>4. ASSUME NEW v \in Recent', v \notin Recent PROVE FALSE
  <2>1. v \in Autosaves /\ v \in Autosaves'
    BY <1>1, <1>4 DEF Recent
  <2> DEFINE rest == {w \in Autosaves : w \notin Recent}
             ids == {w.id : w \in rest}
  <2>2. IsFiniteSet(versions) /\ rest \in SUBSET versions /\ \A w \in rest : w.id \in Nat
    BY RecentByRank DEF DocumentTypeInv
  <2>3. \E u \in rest : \A w \in rest : w.id <= u.id
    <3>1. ids \in SUBSET Nat /\ ids # {}
      BY <2>1, <2>2, <1>4
    <3>2. made \in Nat /\ \A n \in ids : n <= made
      BY <2>2 DEF DocumentTypeInv, DocumentTypes, NumbersBounded
    <3>3. PICK n \in ids : \A m \in ids : m <= n
      BY <3>1, <3>2, GreatestNumber
    <3> QED BY <3>3
  <2>4. PICK u \in rest : \A w \in rest : w.id <= u.id
    BY <2>3
  <2>5. Newer(u) \in SUBSET (Newer(v)')
    <3> SUFFICES ASSUME NEW w \in Newer(u) PROVE w \in Newer(v)'
      OBVIOUS
    <3>1. w \in Autosaves /\ w.id > u.id /\ w.id \in Nat /\ u.id \in Nat /\ v.id \in Nat
      BY <2>1, RecentByRank DEF Newer
    <3>2. w \in Recent /\ v.id <= u.id
      BY <3>1, <2>1, <2>4, <1>4
    <3>3. w \in Autosaves' /\ w.id > v.id
      BY <3>1, <3>2, <1>1
    <3> QED BY <3>3 DEF Newer
  <2>6. Cardinality(Newer(u)) <= Cardinality(Newer(v)')
    <3>1. IsFiniteSet(Newer(v)')
      BY <2>1, <1>2, RecentByRank, FS_Subset
    <3> QED BY <3>1, <2>5, FS_Subset
  <2>7. ~(Cardinality(Newer(u)) < KeepRecent) /\ Cardinality(Newer(u)) \in Nat
    BY RecentByRank
  <2>8. Cardinality(Newer(v)') < KeepRecent
    BY <1>4 DEF Recent, Newer
  <2>9. Cardinality(Newer(v)') \in Nat
    BY <2>1, <1>2, RecentByRank, FS_Subset, FS_CardinalityType
  <2> QED BY <2>6, <2>7, <2>8, <2>9, KeepRecentAssumption
<1>5. Recent' \subseteq Autosaves' /\ Autosaves' \subseteq Autosaves
  BY <1>1 DEF Recent
<1> QED BY <1>3, <1>4, <1>5

\* Unless an autosave overtakes it, a pruning that is about to delete has read which the most
\* recent ones are.
RecentAreKept ==
    "overtake" \notin setbacks =>
        \A p \in Prunings : pruning[p].at = "delete" =>
            \A v \in Recent : v.id \in pruning[p].keep

\* So nothing recent is selected.
LEMMA SelectedAreOld ==
    ASSUME RecentAreKept, "overtake" \notin setbacks,
           NEW p \in Prunings, pruning[p].at = "delete"
    PROVE  Pruned(p) \cap Recent = {}
BY DEF RecentAreKept, Pruned

LEMMA RecentAreKeptStep ==
    ASSUME DocumentTypeInv, DocumentTypeInv', RecentAreKept, [DocumentNext]_documentVars
    PROVE  RecentAreKept'
<1> SUFFICES ASSUME "overtake" \notin setbacks',
                    NEW p \in Prunings, pruning'[p].at = "delete",
                    NEW v \in Recent'
             PROVE  v.id \in pruning'[p].keep
  BY DEF RecentAreKept
<1> USE DEF DocumentTypeInv
<1>1. setbacks' = setbacks
  BY DEF DocumentNext, Request, SaveDocument, ImportMarkdown, RestoreVersion, Flush, Statement,
         CompareWithLatest, TouchDocument, ReadNumber, InsertVersion, UpdateDocument, Fail, Prune,
         ReadRecent, DeleteOthers, RefuseDelete, Halt, OnUpdate, Stop, documentVars
<1>2. ASSUME versions' = versions, pruning'[p] = pruning[p] PROVE v.id \in pruning'[p].keep
  <2>1. Recent' = Recent
    BY <1>2 DEF Recent, Autosaves
  <2> QED BY <1>1, <1>2, <2>1 DEF RecentAreKept
<1>3. ASSUME NEW a \in Slots, Request(a) \/ Flush(a) \/ Fail(a) PROVE v.id \in pruning'[p].keep
  BY <1>2, <1>3 DEF Request, SaveDocument, ImportMarkdown, RestoreVersion, Flush, Fail, tableVars
<1>4. ASSUME NEW a \in Slots, CompareWithLatest(a) \/ TouchDocument(a) \/ ReadNumber(a)
      PROVE  v.id \in pruning'[p].keep
  BY <1>2, <1>4 DEF CompareWithLatest, TouchDocument, ReadNumber, tableVars
<1>5. ASSUME NEW a \in Slots, UpdateDocument(a) PROVE v.id \in pruning'[p].keep
  <2>1. pruning'[p] = pruning[p]
    <3>1. CASE \E q \in Prunings : pruning' = [pruning EXCEPT ![q].at = "read"]
      <4>1. PICK q \in Prunings : pruning' = [pruning EXCEPT ![q].at = "read"]
        BY <3>1
      <4>2. pruning'[q].at = "read"
        BY <4>1 DEF Pruning
      <4> QED BY <4>1, <4>2
    <3> QED BY <3>1, <1>5 DEF UpdateDocument
  <2> QED BY <1>2, <1>5, <2>1 DEF UpdateDocument
<1>6. ASSUME NEW a \in Slots, InsertVersion(a) PROVE v.id \in pruning'[p].keep
  <2>1. /\ pruning' = pruning
        /\ versions' = versions \cup {[id |-> made + 1, number |-> job[a].number,
                                       content |-> job[a].content, action |-> job[a].action]}
    BY <1>6 DEF InsertVersion
  <2>2. job[a].action # "autosave"
    BY <1>1, <1>6, <2>1 DEF InsertVersion
  <2>3. Autosaves' = Autosaves
    BY <2>1, <2>2 DEF Autosaves
  <2>4. Recent' = Recent
    BY <2>3 DEF Recent
  <2> QED BY <1>1, <2>1, <2>4 DEF RecentAreKept
<1>7. ASSUME NEW q \in Prunings, ReadRecent(q) PROVE v.id \in pruning'[p].keep
  <2>1. UNCHANGED versions /\ Recent' = Recent
    BY <1>7 DEF ReadRecent, tableVars, Recent, Autosaves
  <2>2. PICK old \in SUBSET (Autosaves \ Recent) :
          pruning' = [pruning EXCEPT ![q] = [at |-> "delete",
                                             keep |-> {w.id : w \in Recent \cup old}]]
    BY <1>7 DEF ReadRecent
  <2>3. CASE p = q
    <3>1. pruning'[p].keep = {w.id : w \in Recent \cup old}
      BY <2>2, <2>3
    <3> QED BY <3>1, <2>1
  <2>4. CASE p # q
    BY <1>2, <2>1, <2>2, <2>4
  <2> QED BY <2>3, <2>4
<1>8. ASSUME NEW q \in Prunings, DeleteOthers(q) PROVE v.id \in pruning'[p].keep
  <2>1. /\ pruning[q].at = "delete" /\ versions' = versions \ Pruned(q)
        /\ pruning' = [pruning EXCEPT ![q] = NoPruning]
    BY <1>8 DEF DeleteOthers
  <2>2. Recent' = Recent
    BY <1>1, <2>1, SelectedAreOld, DeletingOthers
  <2>3. pruning'[p] = pruning[p]
    BY <2>1, NoPruningIsPruning
  <2> QED BY <1>1, <2>2, <2>3 DEF RecentAreKept
<1>9. CASE Halt
  BY <1>9, NoPruningIsPruning DEF Halt
<1>10. ASSUME NEW c \in Contents, OnUpdate(c) PROVE v.id \in pruning'[p].keep
  BY <1>2, <1>10 DEF OnUpdate, tableVars
<1>11. CASE UNCHANGED documentVars
  BY <1>2, <1>11 DEF documentVars, tableVars
<1> QED BY <1>3, <1>4, <1>5, <1>6, <1>7, <1>8, <1>9, <1>10, <1>11
        DEF DocumentNext, Statement, Prune, RefuseDelete, Stop

LEMMA RecentAreKeptInit == DocumentInit => RecentAreKept
BY NoPruningIsPruning DEF DocumentInit, RecentAreKept

LEMMA RecentAreKeptHolds == DocumentSpec => []RecentAreKept
<1>1. DocumentTypeInv /\ DocumentTypeInv' /\ RecentAreKept /\ [DocumentNext]_documentVars
      => RecentAreKept'
  BY RecentAreKeptStep
<1> QED BY <1>1, DocumentsKeepTypes, RecentAreKeptInit, PTL DEF DocumentSpec

\* Nothing but autosaves is ever deleted, and, however many operations and prunings are in
\* progress, none of the most recent ones unless one was made after the pruning had read them.
THEOREM HistoryIsKept == DocumentSpec => KeepsHistory
<1> DEFINE Keeps == /\ versions \ versions' \subseteq Autosaves
                    /\ "overtake" \notin setbacks => (versions \ versions') \cap Recent = {}
<1>1. RecentAreKept /\ [DocumentNext]_documentVars => [Keeps]_documentVars
  <2> SUFFICES ASSUME RecentAreKept, DocumentNext PROVE Keeps
    OBVIOUS
  <2>1. ASSUME NEW p \in Prunings, DeleteOthers(p) PROVE Keeps
    <3>1. pruning[p].at = "delete" /\ versions \ versions' \subseteq Pruned(p)
      BY <2>1 DEF DeleteOthers
    <3>2. Pruned(p) \subseteq Autosaves
      BY DEF Pruned
    <3> QED BY <3>1, <3>2, SelectedAreOld
  <2>2. ASSUME versions \subseteq versions' PROVE Keeps
    BY <2>2
  <2>3. ASSUME NEW a \in Slots, Statement(a) PROVE versions \subseteq versions'
    BY <2>3 DEF Statement, CompareWithLatest, TouchDocument, ReadNumber, InsertVersion,
                UpdateDocument, tableVars
  <2>4. ASSUME NEW a \in Slots, Request(a) \/ Flush(a) \/ Fail(a) PROVE versions \subseteq versions'
    BY <2>4 DEF Request, SaveDocument, ImportMarkdown, RestoreVersion, Flush, Fail, tableVars
  <2>5. ASSUME NEW p \in Prunings, ReadRecent(p) \/ RefuseDelete(p) PROVE versions \subseteq versions'
    BY <2>5 DEF ReadRecent, RefuseDelete, Halt, tableVars
  <2>6. ASSUME (\E c \in Contents : OnUpdate(c)) \/ Stop PROVE versions \subseteq versions'
    BY <2>6 DEF OnUpdate, Stop, Halt, tableVars
  <2> HIDE DEF Keeps
  <2> QED BY <2>1, <2>2, <2>3, <2>4, <2>5, <2>6 DEF DocumentNext, Prune
<1> QED BY <1>1, RecentAreKeptHolds, PTL DEF DocumentSpec, KeepsHistory

-----------------------------------------------------------------------------
(* One operation at a time: numbers. *)

\* Ids are given once, in the order of time.
IdsAreOnce ==
    /\ \A v, w \in versions : v.id = w.id => v = w
    /\ \A p \in Prunings : \A id \in pruning[p].keep : id <= made

\* What an operation has found out, or done, is still so.  Its version can have been pruned.
JobFits(a) ==
    /\ job[a].at = "insert" => \A v \in versions : v.number < job[a].number
    /\ job[a].at = "update" =>
           /\ job[a].id = made
           /\ \A v \in versions : v.id = made => v.content = job[a].content

NumberInv ==
    /\ DocumentTypeInv
    /\ IdsAreOnce
    /\ NumbersFollowTime
    /\ \A a \in Slots : JobFits(a)

LEMMA NumberInit == DocumentInit => NumberInv
<1> SUFFICES ASSUME DocumentInit PROVE NumberInv
  OBVIOUS
<1>1. \A v \in versions : v.id = 1 /\ v.number = 1 /\ v = [id |-> 1, number |-> 1,
                                                          content |-> "blank", action |-> "named"]
  BY DEF DocumentInit
<1>2. IdsAreOnce /\ NumbersFollowTime
  BY <1>1, NoPruningIsPruning DEF DocumentInit, IdsAreOnce, NumbersFollowTime
<1>3. \A a \in Slots : job[a].at = "idle"
  BY IdleIsJob DEF DocumentInit
<1>4. \A a \in Slots : JobFits(a)
  BY <1>3 DEF JobFits
<1> QED BY <1>2, <1>4, TypesInit DEF NumberInv

\* When the one operation there is goes on and nothing is inserted, it is enough to look at it.
LEMMA OnlyTheJobMoves ==
    ASSUME OneAtATime, NumberInv, DocumentTypeInv', UNCHANGED made, versions' \subseteq versions,
           \A p \in Prunings : pruning'[p].keep \subseteq pruning[p].keep \cup {v.id : v \in versions},
           NEW a \in Slots, JobFits(a)'
    PROVE  NumberInv'
<1>1. \A b \in Slots : b = a
  BY DEF OneAtATime
<1>2. \A p \in Prunings : \A id \in pruning'[p].keep : id <= made'
  BY DEF NumberInv, IdsAreOnce, DocumentTypeInv, NumbersBounded
<1>3. IdsAreOnce' /\ NumbersFollowTime'
  BY <1>2 DEF NumberInv, IdsAreOnce, NumbersFollowTime
<1> QED BY <1>1, <1>3 DEF NumberInv

\* A version gets the next id and a number above all.
LEMMA InsertKeepsNumbers ==
    ASSUME OneAtATime, NumberInv, DocumentTypeInv', NEW a \in Slots, InsertVersion(a)
    PROVE  NumberInv'
<1> DEFINE row == [id |-> made + 1, number |-> job[a].number, content |-> job[a].content,
                   action |-> job[a].action]
<1>1. /\ job' = [job EXCEPT ![a].at = "update", ![a].id = made + 1]
      /\ job[a].at = "insert"
      /\ versions' = versions \cup {row} /\ made' = made + 1
      /\ UNCHANGED pruning
  BY DEF InsertVersion
<1>2. /\ versions \subseteq Row /\ made \in Nat /\ job \in [Slots -> Job]
      /\ pruning \in [Prunings -> Pruning]
      /\ \A v \in versions : v.id \in Nat /\ v.number \in Nat /\ v.id <= made
  BY DEF NumberInv, DocumentTypeInv, DocumentTypes, NumbersBounded, Row
<1>3. \A v \in versions : v.number < job[a].number
  BY <1>1 DEF NumberInv, JobFits
<1>4. row.id = made + 1 /\ row.number = job[a].number /\ row.content = job[a].content
  OBVIOUS
<1> HIDE DEF row
<1>5. IdsAreOnce'
  <2>1. \A p \in Prunings : \A id \in pruning'[p].keep : id <= made'
    BY <1>1, <1>2 DEF NumberInv, IdsAreOnce, Pruning
  <2>2. \A v, w \in versions' : v.id = w.id => v = w
    BY <1>1, <1>2, <1>4 DEF NumberInv, IdsAreOnce
  <2> QED BY <2>1, <2>2 DEF IdsAreOnce
<1>6. NumbersFollowTime'
  <2>1. \A v \in versions : v.id < row.id /\ ~(row.id < v.id) /\ v.number < row.number
    BY <1>2, <1>3, <1>4
  <2>2. ~(row.id < row.id)
    BY <1>2, <1>4
  <2> QED BY <1>1, <2>1, <2>2 DEF NumberInv, NumbersFollowTime
<1>7. JobFits(a)'
  <2>1. job'[a].at = "update" /\ job'[a].content = job[a].content /\ job'[a].id = made + 1
    BY <1>1, <1>2 DEF Job
  <2>2. \A v \in versions' : v.id = made + 1 => v.content = job[a].content
    BY <1>1, <1>2, <1>4
  <2> QED BY <2>1, <2>2, <1>1 DEF JobFits
<1>8. \A b \in Slots : JobFits(b)'
  BY <1>7 DEF OneAtATime
<1> QED BY <1>5, <1>6, <1>8 DEF NumberInv

LEMMA NumberStep ==
    ASSUME OneAtATime, NumberInv, DocumentTypeInv', [DocumentNext]_documentVars
    PROVE  NumberInv'
<1>1. /\ job \in [Slots -> Job] /\ job' \in [Slots -> Job] /\ Idle.at = "idle"
      /\ \A a \in Slots : job[a] \in Job
      /\ pruning \in [Prunings -> Pruning]
  BY IdleIsJob DEF NumberInv, DocumentTypeInv
<1>2. ASSUME NEW a \in Slots, JobFits(a)', UNCHANGED <<versions, made, pruning>> PROVE NumberInv'
  BY <1>2, OnlyTheJobMoves
<1>3. ASSUME NEW a \in Slots, Request(a) \/ Flush(a) PROVE NumberInv'
  <2>1. ASSUME NEW at \in {"read", "number"}, NEW action, NEW c, Begin(a, at, action, c)
        PROVE  job'[a].at \in {"read", "number"}
    <3>1. job'[a] = [Idle EXCEPT !.at = at, !.action = action, !.content = c]
      BY <1>1, <2>1 DEF Begin
    <3> QED BY <3>1 DEF Idle
  <2>2. job'[a].at \in {"read", "number"} /\ UNCHANGED <<tableVars, pruning>>
    BY <1>3, <2>1 DEF Request, SaveDocument, ImportMarkdown, RestoreVersion, Flush
  <2> QED BY <2>2, <1>2 DEF JobFits, tableVars
<1>4. ASSUME NEW a \in Slots, CompareWithLatest(a) PROVE NumberInv'
  <2>1. job'[a].at \in {"touch", "number"}
    BY <1>1, <1>4 DEF CompareWithLatest, Goto, Job
  <2> QED BY <2>1, <1>2, <1>4 DEF CompareWithLatest, JobFits, tableVars
<1>5. ASSUME NEW a \in Slots, ReadNumber(a) PROVE NumberInv'
  <2>1. job'[a].at = "insert" /\ job'[a].number = NextVersionNumber
    BY <1>1, <1>5 DEF ReadNumber, Job
  <2>2. \A v \in versions : v.number < NextVersionNumber
    BY NextIsAbove DEF NumberInv, DocumentTypeInv, CurrentExists, NumbersBounded, DocumentTypes
  <2> QED BY <2>1, <2>2, <1>2, <1>5 DEF ReadNumber, JobFits, tableVars
<1>6. ASSUME NEW a \in Slots, job' = [job EXCEPT ![a] = Idle], UNCHANGED <<versions, made>>,
             \A p \in Prunings : pruning'[p].keep \subseteq pruning[p].keep
      PROVE  NumberInv'
  <2>1. JobFits(a)'
    BY <1>1, <1>6 DEF JobFits
  <2> QED BY <2>1, <1>6, OnlyTheJobMoves
<1>7. ASSUME NEW a \in Slots, TouchDocument(a) \/ UpdateDocument(a) \/ Fail(a) PROVE NumberInv'
  <2>1. \A p \in Prunings : pruning'[p].keep = pruning[p].keep
    BY <1>1, <1>7 DEF TouchDocument, UpdateDocument, Fail, Pruning
  <2> QED BY <2>1, <1>6, <1>7 DEF TouchDocument, UpdateDocument, Fail, End, tableVars
<1>8. ASSUME UNCHANGED <<job, made>>, versions' \subseteq versions,
             \A p \in Prunings :
                 pruning'[p].keep \subseteq pruning[p].keep \cup {v.id : v \in versions}
      PROVE  NumberInv'
  <2>1. \A a \in Slots : JobFits(a)'
    BY <1>8 DEF NumberInv, JobFits
  <2>2. CASE Slots = {}
    BY <1>8, <2>2 DEF NumberInv, IdsAreOnce, NumbersFollowTime, DocumentTypeInv, NumbersBounded
  <2>3. CASE Slots # {}
    BY <1>8, <2>1, <2>3, OnlyTheJobMoves
  <2> QED BY <2>2, <2>3
<1>9. ASSUME NEW p \in Prunings, ReadRecent(p) PROVE NumberInv'
  <2>1. PICK old \in SUBSET (Autosaves \ Recent) :
          pruning' = [pruning EXCEPT ![p] = [at |-> "delete",
                                             keep |-> {v.id : v \in Recent \cup old}]]
    BY <1>9 DEF ReadRecent
  <2>2. {v.id : v \in Recent \cup old} \subseteq {v.id : v \in versions}
    BY DEF Recent, Autosaves
  <2>3. \A q \in Prunings : pruning'[q].keep \subseteq pruning[q].keep \cup {v.id : v \in versions}
    <3> TAKE q \in Prunings
    <3>1. CASE q = p
      BY <1>1, <2>1, <2>2, <3>1
    <3>2. CASE q # p
      BY <1>1, <2>1, <3>2
    <3> QED BY <3>1, <3>2
  <2> QED BY <2>3, <1>8, <1>9 DEF ReadRecent, tableVars
<1>10. ASSUME NEW p \in Prunings, DeleteOthers(p) PROVE NumberInv'
  <2>1. \A q \in Prunings : pruning'[q].keep \subseteq pruning[q].keep
    BY <1>1, <1>10, NoPruningIsPruning DEF DeleteOthers
  <2> QED BY <2>1, <1>8, <1>10 DEF DeleteOthers
<1>11. CASE Halt
  <2>1. \A q \in Prunings : pruning'[q].keep = {}
    BY <1>11, NoPruningIsPruning DEF Halt
  <2>2. \A a \in Slots : JobFits(a)'
    BY <1>1, <1>11 DEF Halt, JobFits
  <2>3. IdsAreOnce' /\ NumbersFollowTime'
    BY <2>1, <1>11 DEF Halt, tableVars, NumberInv, IdsAreOnce, NumbersFollowTime
  <2> QED BY <2>2, <2>3 DEF NumberInv
<1>12. ASSUME NEW c \in Contents, OnUpdate(c) PROVE NumberInv'
  BY <1>8, <1>12 DEF OnUpdate, tableVars
<1>13. CASE UNCHANGED documentVars
  BY <1>8, <1>13 DEF documentVars, tableVars
<1> QED BY <1>3, <1>4, <1>5, <1>7, <1>9, <1>10, <1>11, <1>12, <1>13, InsertKeepsNumbers
        DEF DocumentNext, Statement, Prune, RefuseDelete, Stop

\* With one operation at a time NumberInv is inductive, whatever fails and is pruned.
LEMMA NumberHolds ==
    ASSUME OneAtATime
    PROVE  DocumentSpec => []NumberInv
<1>1. NumberInv /\ DocumentTypeInv' /\ [DocumentNext]_documentVars => NumberInv'
  BY NumberStep
<1> QED BY <1>1, DocumentsKeepTypes, NumberInit, PTL DEF DocumentSpec

\* MAX + 1 gives numbers in the order of time, although versions are deleted in between.
THEOREM NumbersGrowWithTime ==
    ASSUME OneAtATime
    PROVE  DocumentSpec => []NumbersFollowTime
<1>1. NumberInv => NumbersFollowTime
  BY DEF NumberInv
<1>2. DocumentSpec => []NumberInv
  BY NumberHolds
<1> QED BY <1>1, <1>2, PTL

-----------------------------------------------------------------------------
(* One operation at a time: what the document shows, while prunings go on in the background. *)

Busy == \E p \in Prunings : pruning[p] # NoPruning

\* The version at id shows the document's content.  Only one that is about to be shown is newer.
ShowsCurrent ==
    /\ \E v \in versions : v.id = document.version /\ v.content = document.content
    /\ \A w \in versions : w.id > document.version =>
           \E a \in Slots : job[a].at = "update" /\ job[a].id = w.id

\* A save that makes no version has found its content in the newest.
TouchFits(a) ==
    job[a].at = "touch" =>
        \E v \in versions : v.content = job[a].content /\ \A w \in versions : w.id <= v.id

\* What is shown, and what is about to be.
ShownSoon == {document.version} \cup {job[a].id : a \in {b \in Slots : job[b].at = "update"}}

\* The list of a pruning has them, or was made before they were.
ListFits(p) ==
    pruning[p].at = "delete" =>
        \A v \in Autosaves : v.id \in ShownSoon =>
            v.id \in pruning[p].keep \/ \A id \in pruning[p].keep : id < v.id

ShownInv ==
    "linger" \notin setbacks =>
        /\ ContentIsInHistory
        /\ Busy => ShowsCurrent
        /\ \A a \in Slots : TouchFits(a)
        /\ \A p \in Prunings : ListFits(p)

LEMMA SetbacksStay == [DocumentNext]_documentVars => setbacks' = setbacks
BY DEF DocumentNext, Request, SaveDocument, ImportMarkdown, RestoreVersion, Flush, Statement,
       CompareWithLatest, TouchDocument, ReadNumber, InsertVersion, UpdateDocument, Fail, Prune,
       ReadRecent, DeleteOthers, RefuseDelete, Halt, OnUpdate, Stop, documentVars

\* During a pruning a version that is shown, or about to be, is among the most recent: besides
\* itself there is at most the one about to be shown.
LEMMA ShownIsRecent ==
    ASSUME OneAtATime, NumberInv, ShowsCurrent, NEW v \in Autosaves, v.id \in ShownSoon
    PROVE  v \in Recent
<1>1. /\ \A w \in versions : w.id \in Nat /\ w.id <= made
      /\ made \in Nat /\ document.version \in Nat
      /\ v \in versions /\ Newer(v) \subseteq versions
      /\ \A w \in Newer(v) : w.id > v.id
      /\ \A w, u \in versions : w.id = u.id => w = u
  BY DEF NumberInv, DocumentTypeInv, DocumentTypes, NumbersBounded, Row, Autosaves, Newer,
         IdsAreOnce
<1>2. \A w \in Newer(v) : w.id = made
  <2> TAKE w \in Newer(v)
  <2>1. CASE v.id = document.version
    <3>1. PICK a \in Slots : job[a].at = "update" /\ job[a].id = w.id
      BY <1>1, <2>1 DEF ShowsCurrent
    <3> QED BY <3>1 DEF NumberInv, JobFits
  <2>2. CASE \E a \in Slots : job[a].at = "update" /\ v.id = job[a].id
    <3>1. v.id = made
      BY <2>2 DEF NumberInv, JobFits
    <3> QED BY <1>1, <3>1
  <2> QED BY <2>1, <2>2 DEF ShownSoon
<1>3. \A w, u \in Newer(v) : w = u
  BY <1>1, <1>2
<1>4. Cardinality(Newer(v)) <= 1
  <2>1. CASE Newer(v) = {}
    BY <2>1, FS_EmptySet
  <2>2. CASE Newer(v) # {}
    <3>1. PICK w \in Newer(v) : TRUE
      BY <2>2
    <3>2. Newer(v) = {w}
      BY <1>3, <3>1
    <3> QED BY <3>2, FS_Singleton
  <2> QED BY <2>1, <2>2
<1>5. DocumentTypeInv
  BY DEF NumberInv
<1> QED BY <1>4, <1>5, RecentByRank, KeepRecentAssumption

LEMMA ShownInit == DocumentInit => ShownInv
<1> SUFFICES ASSUME DocumentInit PROVE ShownInv
  OBVIOUS
<1>1. ContentIsInHistory
  BY DEF DocumentInit, ContentIsInHistory
<1>2. ~Busy
  BY DEF DocumentInit, Busy
<1>3. \A a \in Slots : job[a].at = "idle"
  BY IdleIsJob DEF DocumentInit
<1>4. \A p \in Prunings : pruning[p].at = "idle"
  BY NoPruningIsPruning DEF DocumentInit
<1> QED BY <1>1, <1>2, <1>3, <1>4 DEF ShownInv, TouchFits, ListFits

\* When the tables stay and nothing is about to be shown that was not.
LEMMA TablesStayShown ==
    ASSUME ShownInv, UNCHANGED <<tableVars, pruning, setbacks>>,
           NEW a \in Slots, OneAtATime, TouchFits(a)',
           job'[a].at # "update", Busy => job[a].at # "update"
    PROVE  ShownInv'
<1> SUFFICES ASSUME "linger" \notin setbacks PROVE ShownInv'
  BY DEF ShownInv
<1>1. ContentIsInHistory'
  BY DEF ShownInv, ContentIsInHistory, tableVars
<1>2. \A b \in Slots : b = a
  BY DEF OneAtATime
<1>3. ShownSoon' \subseteq ShownSoon
  BY <1>2 DEF ShownSoon, tableVars
<1>4. (Busy => ShowsCurrent)'
  BY <1>2 DEF Busy, ShowsCurrent, ShownInv, tableVars
<1>5. \A p \in Prunings : ListFits(p)'
  BY <1>3 DEF ShownInv, ListFits, Autosaves, tableVars
<1> QED BY <1>1, <1>2, <1>4, <1>5 DEF ShownInv

\* The halt of the server leaves the tables.
LEMMA HaltShown ==
    ASSUME NumberInv, ShownInv, Halt
    PROVE  ShownInv'
<1>1. ~Busy'
  BY DEF Halt, Busy
<1>2. \A a \in Slots : job'[a].at = "idle"
  BY IdleIsJob DEF Halt
<1>3. \A p \in Prunings : pruning'[p].at = "idle"
  BY NoPruningIsPruning DEF Halt
<1>4. ContentIsInHistory'
  BY DEF Halt, tableVars, ShownInv, ContentIsInHistory
<1> QED BY <1>1, <1>2, <1>3, <1>4 DEF ShownInv, TouchFits, ListFits, Halt

\* A failure comes when nothing is pruned, or because what it was to show has been pruned.
LEMMA FailShown ==
    ASSUME OneAtATime, NumberInv, ShownInv, NEW a \in Slots, Fail(a)
    PROVE  ShownInv'
<1> SUFFICES ASSUME "linger" \notin setbacks PROVE ShownInv'
  BY DEF ShownInv, Fail
<1>1. /\ UNCHANGED <<setbacks, document, versions, made, pruning>>
      /\ job' = [job EXCEPT ![a] = Idle] /\ job \in [Slots -> Job]
      /\ \A b \in Slots : b = a
  BY DEF Fail, End, tableVars, NumberInv, DocumentTypeInv, OneAtATime
<1>2. \A b \in Slots : job'[b].at = "idle"
  BY <1>1, IdleIsJob
<1>3. ContentIsInHistory'
  BY <1>1 DEF ShownInv, ContentIsInHistory
<1>4. (Busy => ShowsCurrent)'
  <2> SUFFICES ASSUME Busy PROVE ShowsCurrent'
    BY <1>1 DEF Busy
  <2>1. ShowsCurrent /\ Forbidden(a)
    BY DEF ShownInv, Fail, Busy
  <2>2. \A w \in versions : ~(job[a].at = "update" /\ job[a].id = w.id)
    BY <2>1 DEF Forbidden, NumberInv, JobFits
  <2>3. \A w \in versions : ~(w.id > document.version)
    BY <1>1, <2>1, <2>2 DEF ShowsCurrent
  <2> QED BY <1>1, <2>1, <2>3 DEF ShowsCurrent
<1>5. ShownSoon' \subseteq ShownSoon
  BY <1>1, <1>2 DEF ShownSoon
<1>6. \A p \in Prunings : ListFits(p)'
  BY <1>1, <1>5 DEF ShownInv, ListFits, Autosaves
<1> QED BY <1>2, <1>3, <1>4, <1>6 DEF ShownInv, TouchFits

\* A version that is inserted is newer than what every pruning has read.
LEMMA InsertShown ==
    ASSUME OneAtATime, NumberInv, ShownInv, NEW a \in Slots, InsertVersion(a)
    PROVE  ShownInv'
<1> SUFFICES ASSUME "linger" \notin setbacks PROVE ShownInv'
  BY DEF ShownInv, InsertVersion
<1> DEFINE row == [id |-> made + 1, number |-> job[a].number, content |-> job[a].content,
                   action |-> job[a].action]
<1>1. /\ job' = [job EXCEPT ![a].at = "update", ![a].id = made + 1]
      /\ job[a].at = "insert"
      /\ versions' = versions \cup {row} /\ made' = made + 1
      /\ UNCHANGED <<document, pruning, setbacks>>
  BY DEF InsertVersion
<1>2. row.id = made + 1
  OBVIOUS
<1> HIDE DEF row
<1>3. /\ job \in [Slots -> Job] /\ made \in Nat /\ document.version \in Nat
      /\ pruning \in [Prunings -> Pruning]
      /\ \A b \in Slots : b = a
      /\ \A v \in versions : v.id \in Nat /\ v.id <= made
  BY DEF NumberInv, DocumentTypeInv, DocumentTypes, NumbersBounded, OneAtATime, Row
<1>4. job'[a].at = "update" /\ job'[a].id = made + 1
  BY <1>1, <1>3 DEF Job
<1>5. ContentIsInHistory'
  BY <1>1 DEF ShownInv, ContentIsInHistory
<1>6. (Busy => ShowsCurrent)'
  <2> SUFFICES ASSUME Busy PROVE ShowsCurrent'
    BY <1>1 DEF Busy
  <2>1. ShowsCurrent
    BY DEF ShownInv
  <2>2. \A w \in versions : ~(w.id > document.version)
    BY <1>1, <1>3, <2>1 DEF ShowsCurrent
  <2>3. \A w \in versions' : w.id > document.version => w.id = made + 1
    BY <1>1, <1>2, <2>2
  <2> QED BY <1>1, <1>4, <2>1, <2>3 DEF ShowsCurrent
<1>7. ASSUME NEW p \in Prunings PROVE ListFits(p)'
  <2> SUFFICES ASSUME pruning[p].at = "delete", NEW v \in Autosaves', v.id \in ShownSoon'
               PROVE  v.id \in pruning[p].keep \/ \A id \in pruning[p].keep : id < v.id
    BY <1>1 DEF ListFits
  <2>1. \A id \in pruning[p].keep : id \in Nat /\ id <= made
    BY <1>3 DEF NumberInv, IdsAreOnce, Pruning
  <2>2. v.id = document.version \/ v.id = made + 1
    BY <1>1, <1>3, <1>4 DEF ShownSoon
  <2>3. CASE v = row
    BY <1>2, <1>3, <2>1, <2>3
  <2>4. CASE v # row
    <3>1. v \in Autosaves /\ v.id \in Nat /\ v.id <= made
      BY <1>1, <1>3, <2>4 DEF Autosaves
    <3>2. v.id \in ShownSoon
      BY <1>3, <2>2, <3>1 DEF ShownSoon
    <3> QED BY <3>1, <3>2 DEF ShownInv, ListFits
  <2> QED BY <2>3, <2>4
<1>8. \A b \in Slots : TouchFits(b)'
  BY <1>3, <1>4 DEF TouchFits
<1> QED BY <1>5, <1>6, <1>7, <1>8 DEF ShownInv

\* Showing leaves nothing newer than what is shown.
LEMMA UpdateShown ==
    ASSUME OneAtATime, NumberInv, ShownInv, NEW a \in Slots, UpdateDocument(a)
    PROVE  ShownInv'
<1> SUFFICES ASSUME "linger" \notin setbacks PROVE ShownInv'
  BY DEF ShownInv, UpdateDocument
<1>1. /\ job[a].at = "update" /\ job' = [job EXCEPT ![a] = Idle]
      /\ UNCHANGED <<versions, made, setbacks>>
      /\ document' = [content |-> job[a].content, version |-> job[a].id]
  BY DEF UpdateDocument, Show, End
<1>2. PICK v \in versions : v.id = job[a].id /\ v.content = job[a].content /\ job[a].id = made
  BY <1>1 DEF UpdateDocument, NumberInv, JobFits
<1>3. /\ job \in [Slots -> Job] /\ made \in Nat
      /\ \A b \in Slots : b = a
      /\ \A w \in versions : w.id \in Nat /\ w.id <= made
      /\ pruning \in [Prunings -> Pruning]
  BY DEF NumberInv, DocumentTypeInv, DocumentTypes, NumbersBounded, OneAtATime, Row
<1>4. \A b \in Slots : job'[b].at = "idle"
  BY <1>1, <1>3, IdleIsJob
<1>5. ContentIsInHistory'
  BY <1>1, <1>2 DEF ContentIsInHistory
<1>6. ShowsCurrent'
  BY <1>1, <1>2, <1>3 DEF ShowsCurrent
<1>7. ShownSoon' \subseteq ShownSoon
  BY <1>1, <1>4 DEF ShownSoon
<1>8. \A p \in Prunings : pruning'[p].at = "delete" => pruning'[p] = pruning[p]
  <2>1. CASE UNCHANGED pruning
    BY <2>1
  <2>2. CASE \E q \in Prunings : pruning' = [pruning EXCEPT ![q].at = "read"]
    <3>1. PICK q \in Prunings : pruning' = [pruning EXCEPT ![q].at = "read"]
      BY <2>2
    <3>2. pruning'[q].at = "read" /\ \A p \in Prunings : p # q => pruning'[p] = pruning[p]
      BY <1>3, <3>1 DEF Pruning
    <3> QED BY <3>2
  <2> QED BY <2>1, <2>2 DEF UpdateDocument
<1>9. \A p \in Prunings : ListFits(p)'
  BY <1>1, <1>7, <1>8 DEF ShownInv, ListFits, Autosaves
<1> QED BY <1>4, <1>5, <1>6, <1>9 DEF ShownInv, TouchFits

\* During a pruning the newest version is the one that is shown.
LEMMA TouchShown ==
    ASSUME OneAtATime, NumberInv, ShownInv, NEW a \in Slots, TouchDocument(a)
    PROVE  ShownInv'
<1> SUFFICES ASSUME "linger" \notin setbacks PROVE ShownInv'
  BY DEF ShownInv, TouchDocument
<1>1. /\ job[a].at = "touch" /\ job' = [job EXCEPT ![a] = Idle]
      /\ UNCHANGED <<versions, made, setbacks, pruning>>
      /\ document' = [content |-> job[a].content, version |-> document.version]
  BY DEF TouchDocument, Show, End
<1>2. /\ job \in [Slots -> Job] /\ document.version \in Nat
      /\ \A b \in Slots : b = a
      /\ \A w, u \in versions : w.id = u.id => w = u
      /\ \A w \in versions : w.id \in Nat
  BY DEF NumberInv, DocumentTypeInv, DocumentTypes, OneAtATime, IdsAreOnce, Row
<1>3. PICK v \in versions : v.content = job[a].content /\ \A w \in versions : w.id <= v.id
  BY <1>1 DEF ShownInv, TouchFits
<1>4. \A b \in Slots : job'[b].at = "idle"
  BY <1>1, <1>2, IdleIsJob
<1>5. ContentIsInHistory'
  BY <1>1, <1>3 DEF ContentIsInHistory
<1>6. (Busy => ShowsCurrent)'
  <2> SUFFICES ASSUME Busy PROVE ShowsCurrent'
    BY <1>1 DEF Busy
  <2>1. ShowsCurrent
    BY DEF ShownInv
  <2>2. \A w \in versions : ~(w.id > document.version)
    BY <1>1, <1>2, <2>1 DEF ShowsCurrent
  <2>3. v.id = document.version
    BY <1>2, <1>3, <2>1, <2>2 DEF ShowsCurrent
  <2> QED BY <1>1, <1>3, <2>2, <2>3 DEF ShowsCurrent
<1>7. ShownSoon' \subseteq ShownSoon
  BY <1>1, <1>4 DEF ShownSoon
<1>8. \A p \in Prunings : ListFits(p)'
  BY <1>1, <1>7 DEF ShownInv, ListFits, Autosaves
<1> QED BY <1>4, <1>5, <1>6, <1>8 DEF ShownInv, TouchFits

\* The list of a pruning has what is shown and what is about to be.
LEMMA ReadShown ==
    ASSUME OneAtATime, NumberInv, ShownInv, NEW p \in Prunings, ReadRecent(p)
    PROVE  ShownInv'
<1> SUFFICES ASSUME "linger" \notin setbacks PROVE ShownInv'
  BY DEF ShownInv, ReadRecent
<1>1. PICK old \in SUBSET (Autosaves \ Recent) :
        pruning' = [pruning EXCEPT ![p] = [at |-> "delete",
                                           keep |-> {v.id : v \in Recent \cup old}]]
  BY DEF ReadRecent
<1>2. /\ UNCHANGED <<setbacks, document, versions, made, job>> /\ pruning[p].at = "read"
      /\ pruning \in [Prunings -> Pruning]
  BY DEF ReadRecent, tableVars, NumberInv, DocumentTypeInv
<1>3. Busy
  BY <1>2, NoPruningIsPruning DEF Busy
<1>4. ShowsCurrent
  BY <1>3 DEF ShownInv
<1>5. ContentIsInHistory' /\ ShowsCurrent' /\ \A a \in Slots : TouchFits(a)'
  BY <1>2, <1>4 DEF ShownInv, ContentIsInHistory, ShowsCurrent, TouchFits
<1>6. ASSUME NEW q \in Prunings PROVE ListFits(q)'
  <2>1. Autosaves' = Autosaves /\ ShownSoon' = ShownSoon
    BY <1>2 DEF Autosaves, ShownSoon
  <2>2. CASE q = p
    <3>1. pruning'[q].keep = {v.id : v \in Recent \cup old}
      BY <1>1, <1>2, <2>2
    <3>2. \A v \in Autosaves : v.id \in ShownSoon => v.id \in pruning'[q].keep
      BY <1>4, <3>1, ShownIsRecent
    <3> QED BY <2>1, <3>2 DEF ListFits
  <2>3. CASE q # p
    <3>1. pruning'[q] = pruning[q]
      BY <1>1, <1>2, <2>3
    <3> QED BY <2>1, <3>1 DEF ShownInv, ListFits
  <2> QED BY <2>2, <2>3
<1> QED BY <1>5, <1>6 DEF ShownInv

\* Deleting leaves what is shown, which the foreign key would see to anyway.
LEMMA DeleteShown ==
    ASSUME OneAtATime, NumberInv, ShownInv, NEW p \in Prunings, DeleteOthers(p)
    PROVE  ShownInv'
<1> SUFFICES ASSUME "linger" \notin setbacks PROVE ShownInv'
  BY DEF ShownInv, DeleteOthers
<1>1. /\ pruning[p].at = "delete" /\ versions' = versions \ Pruned(p)
      /\ \A v \in Pruned(p) : v.id # document.version
      /\ pruning' = [pruning EXCEPT ![p] = NoPruning]
      /\ UNCHANGED <<setbacks, document, made, job>>
  BY DEF DeleteOthers
<1>2. /\ pruning \in [Prunings -> Pruning] /\ document.version \in Nat
      /\ \A a, b \in Slots : a = b
      /\ \A w \in versions : w.id \in Nat
  BY DEF NumberInv, DocumentTypeInv, DocumentTypes, OneAtATime, Row
<1>3. ShowsCurrent
  BY <1>1, NoPruningIsPruning DEF Busy, ShownInv
<1>4. PICK v \in versions : v.id = document.version /\ v.content = document.content
  BY <1>3 DEF ShowsCurrent
<1>5. v \in versions'
  BY <1>1, <1>4
<1>6. ContentIsInHistory' /\ ShowsCurrent'
  BY <1>1, <1>3, <1>4, <1>5 DEF ContentIsInHistory, ShowsCurrent
<1>7. ASSUME NEW a \in Slots PROVE TouchFits(a)'
  <2> SUFFICES ASSUME job[a].at = "touch" PROVE TouchFits(a)'
    BY <1>1 DEF TouchFits
  <2>1. PICK u \in versions : u.content = job[a].content /\ \A w \in versions : w.id <= u.id
    BY DEF ShownInv, TouchFits
  <2>2. \A w \in versions : ~(w.id > document.version)
    BY <1>2, <1>3 DEF ShowsCurrent
  <2>3. u.id = document.version
    BY <1>2, <1>4, <2>1, <2>2
  <2>4. u \in versions'
    BY <1>1, <2>1, <2>3
  <2> QED BY <1>1, <2>1, <2>4 DEF TouchFits
<1>8. ASSUME NEW q \in Prunings PROVE ListFits(q)'
  <2>1. Autosaves' \subseteq Autosaves /\ ShownSoon' = ShownSoon
    BY <1>1 DEF Autosaves, ShownSoon
  <2>2. pruning'[q].at = "delete" => pruning'[q] = pruning[q]
    BY <1>1, <1>2, NoPruningIsPruning
  <2> QED BY <2>1, <2>2 DEF ShownInv, ListFits
<1> QED BY <1>6, <1>7, <1>8 DEF ShownInv

LEMMA ShownStep ==
    ASSUME OneAtATime, NumberInv, NumberInv', ShownInv, [DocumentNext]_documentVars
    PROVE  ShownInv'
<1>1. /\ job \in [Slots -> Job] /\ \A a \in Slots : job[a] \in Job
      /\ setbacks' = setbacks
  BY SetbacksStay DEF NumberInv, DocumentTypeInv
<1>2. ASSUME NEW a \in Slots, Request(a) \/ Flush(a) PROVE ShownInv'
  <2>1. ASSUME NEW at \in {"read", "number"}, NEW action, NEW c, Begin(a, at, action, c)
        PROVE  job'[a].at \in {"read", "number"} /\ job[a].at = "idle"
    <3>1. job'[a] = [Idle EXCEPT !.at = at, !.action = action, !.content = c] /\ job[a] = Idle
      BY <1>1, <2>1 DEF Begin
    <3> QED BY <3>1 DEF Idle
  <2>2. /\ job'[a].at \in {"read", "number"} /\ job[a].at = "idle"
        /\ UNCHANGED <<tableVars, pruning>>
    BY <1>2, <2>1 DEF Request, SaveDocument, ImportMarkdown, RestoreVersion, Flush
  <2> QED BY <1>1, <2>2, TablesStayShown DEF TouchFits
<1>3. ASSUME NEW a \in Slots, CompareWithLatest(a) PROVE ShownInv'
  <2>1. /\ job[a].at = "read" /\ UNCHANGED <<tableVars, pruning>>
        /\ job'[a].at \in {"touch", "number"} /\ job'[a].content = job[a].content
        /\ job'[a].at = "touch" => \E v \in LatestVersions : v.content = job[a].content
    BY <1>1, <1>3 DEF CompareWithLatest, Goto, Job
  <2>2. \A v \in LatestVersions : v \in versions /\ \A w \in versions : w.id <= v.id
    <3> TAKE v \in LatestVersions
    <3> SUFFICES ASSUME NEW w \in versions PROVE v \in versions /\ w.id <= v.id
      BY DEF LatestVersions
    <3>1. /\ v \in versions /\ v.id \in Nat /\ w.id \in Nat /\ v.number \in Nat
          /\ w.number \in Nat /\ w.number <= v.number
          /\ v.id < w.id => v.number < w.number
      BY DEF LatestVersions, NumberInv, NumbersFollowTime, DocumentTypeInv, Row
    <3> QED BY <3>1
  <2>3. TouchFits(a)'
    BY <2>1, <2>2 DEF TouchFits, tableVars
  <2> QED BY <1>1, <2>1, <2>3, TablesStayShown
<1>4. ASSUME NEW a \in Slots, ReadNumber(a) PROVE ShownInv'
  <2>1. job[a].at = "number" /\ job'[a].at = "insert" /\ UNCHANGED <<tableVars, pruning>>
    BY <1>1, <1>4 DEF ReadNumber, Job
  <2> QED BY <1>1, <2>1, TablesStayShown DEF TouchFits
<1>5. ASSUME UNCHANGED <<tableVars, pruning, job>> PROVE ShownInv'
  BY <1>1, <1>5 DEF tableVars, ShownInv, ContentIsInHistory, Busy, ShowsCurrent, TouchFits, ListFits,
              ShownSoon, Autosaves
<1>6. ASSUME NEW c \in Contents, OnUpdate(c) PROVE ShownInv'
  BY <1>5, <1>6 DEF OnUpdate
<1>7. CASE UNCHANGED documentVars
  BY <1>5, <1>7 DEF documentVars
<1> QED BY <1>2, <1>3, <1>4, <1>6, <1>7, InsertShown, TouchShown, UpdateShown, FailShown, ReadShown,
           DeleteShown, HaltShown DEF DocumentNext, Statement, Prune, RefuseDelete, Stop

LEMMA ShownHolds ==
    ASSUME OneAtATime
    PROVE  DocumentSpec => [](NumberInv /\ ShownInv /\ RecentAreKept)
<1>1. NumberInv /\ NumberInv' /\ ShownInv /\ [DocumentNext]_documentVars => ShownInv'
  BY ShownStep
<1>2. DocumentSpec => []NumberInv
  BY NumberHolds
<1> QED BY <1>1, <1>2, ShownInit, RecentAreKeptHolds, PTL DEF DocumentSpec

\* Whatever fails or stops between inserting a version and updating the document, and whatever
\* prunings delete, begun at any time and interleaved with all that follows, a version with the
\* content that the document shows is there, as long as no operation fails during a pruning.
THEOREM ShownIsInHistory ==
    ASSUME OneAtATime
    PROVE  DocumentSpec => []ContentIsInHistory
<1>1. ShownInv => ContentIsInHistory
  BY DEF ShownInv, ContentIsInHistory
<1>2. DocumentSpec => [](NumberInv /\ ShownInv /\ RecentAreKept)
  BY ShownHolds
<1> QED BY <1>1, <1>2, PTL

\* pruneAutosaveVersions, which nobody waits for, does not run into the foreign key
\* current_version_id unless a newer autosave overtook it.
THEOREM PruningSparesTheCurrent ==
    ASSUME OneAtATime
    PROVE  DocumentSpec => []PruningIsSafe
<1>1. NumberInv /\ ShownInv /\ RecentAreKept => PruningIsSafe
  <2> SUFFICES ASSUME NumberInv, ShownInv, RecentAreKept, "linger" \notin setbacks,
                      NEW p \in Prunings, pruning[p].at = "delete",
                      NEW v \in Pruned(p), v.id = document.version
               PROVE  "overtake" \in setbacks /\ \A id \in pruning[p].keep : id < v.id
    BY DEF PruningIsSafe
  <2>1. v \in Autosaves /\ v.id \notin pruning[p].keep /\ v.id \in ShownSoon
    BY DEF Pruned, ShownSoon
  <2>2. \A id \in pruning[p].keep : id < v.id
    BY <2>1 DEF ShownInv, ListFits
  <2>3. Busy
    BY NoPruningIsPruning DEF Busy
  <2>4. v \in Recent
    BY <2>1, <2>3, ShownIsRecent DEF ShownInv
  <2> QED BY <2>1, <2>2, <2>4 DEF RecentAreKept
<1>2. DocumentSpec => [](NumberInv /\ ShownInv /\ RecentAreKept)
  BY ShownHolds
<1> QED BY <1>1, <1>2, PTL
=============================================================================
