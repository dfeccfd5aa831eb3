# CRMP backend: a TLA+ verification project

CRMP is a research-management backend (NestJS, Drizzle, PostgreSQL). Researchers write
proposals; committees review them step by step; an approved proposal becomes a project with
a workspace of documents and a budget that finance pays out in requests. All paths below are
relative to `src/`, so the program itself is under `src/src/` and its documents under
`src/docs/`.

Two facts about the program shape everything here.

- Requests are served concurrently, and the only thing between them is PostgreSQL at its
  default isolation level, READ COMMITTED. No code takes a row lock before it decides (there
  is no `SELECT ... FOR UPDATE`), and updates carry no condition on what was read. What a
  handler has checked may be out of date when it writes.
- There are few unique keys to fall back on. `proposal_approvals`, `proposals.project_id`,
  `disbursement_requests` and `proposal_members` have none.

So the project asks three kinds of question: is the protocol right when requests come one at
a time; under which assumptions is it right when they overlap; and what goes wrong when those
assumptions fail.

## 1. Inventory

### Modelled

**Proposal approval workflow** (`proposals/workflow.service.ts`). State: a proposal's status
and flags, one row of `proposal_approvals` per step with decision, `is_active` and votes, and
`proposal_status_history`. Operations: submit (the first time generating the steps from the
routing rules, afterwards resuming from the step that sent the proposal back), approve,
reject, request-revision, and action with its three kinds: approval, vote and form. Approving
the last step creates the project, its members and its budget items, and opens the workspace.
Hard: several endpoints answer the same step by different rules; a decision is several
UPDATEs; a proposal goes back and forth any number of times; reviewers race. Correct when at
most one step is active, and only under review; when reviews are granted in order and never
lost; when the project is created once and only at the end; when the history is complete; and
when a proposal is never stuck.

**Overlapping workflow transactions** (the same, and `updateProposal` in
`proposals/proposals.service.ts`). Correct when overlapping requests behave as if they came
one after the other, and when the text does not change under the reviewers.

**Undergraduate and postgraduate decisions** (`undergrad/`, `pg/`,
`pg/utils/decision-utils.ts`, and `scheduleProposalDefence`). A second set of writers of the
same tables that does not call the workflow service. A decision is three statements with no
transaction around them. Correct when they keep the workflow's documented invariants.

**Disbursement** (`budget/`). State: the project's budget items (available, reserved, paid),
the requests for payment with status, items, sequence number and clearance document, and the
files' TEMP/ATTACHED status. Operations: the PI submits and resubmits (uploading files in the
middle of the operation); finance pays, returns or rejects. Hard: every check is made before
the transaction that relies on it, often before an upload. Correct when no item is locked for
ever, no item is paid twice, requests are numbered without gaps (the clearance gate depends
on the number), and what is settled stays so.

**Routing rules** (`db/seed.ts`, `evaluateCondition` and `generateApprovalStepsFromRules` of
the workflow service, and the seed script's own evaluation). Which rules apply to a proposal
depends on its program and, for one step, on its budget. Hard: the border of the two branches,
and two evaluations that treat what they do not know in opposite ways. Correct when each
proposal gets one row for each order.

**Drafts, versions and files** (`proposals.service.ts`, `files/`). Creators make proposals and
edit them; each edit with a file makes a version. The file is attached inside the transaction
but not on it. Correct when files belong to the proposals of their versions and a proposal
under review has somebody to wait for.

**Team** (`proposal-members.service.ts`, `undergrad.service.ts`). Rows of `proposal_members`
without a unique key, written by check-then-insert; approval copies them under a key that
allows a user once; a new proposal's own list of members is checked for its PI and its creator
only. Correct when one user has one role and there is one advisor.

**Access control** (`access-control/`). Roles and permissions that administrators change, two
tables that translate permissions, roles that the code asks for by name. Correct when what is
granted opens its routes, and who must decide sees the proposal.

**Documents and versions** (`documents/`, `collaboration.persistence.service.ts`). One document
per project, a version for each save with number MAX + 1, a queue of debounced autosaves, and
pruning of old autosaves, which is started after an autosave and not awaited. The services open
transactions and do not use them. Correct when the history contains what the document shows,
pruning deletes only what it may whatever it comes between, and the last update lands.

**Live collaboration** (`collaboration/`). Y documents in memory, referenced by sessions, written
by a timer and on eviction, and a second server with documents of its own over the same column.
The gateway starts a handler for each message as it arrives, so one socket may have several in
progress. Correct when presence counts are exact, a document in use stays in memory, and no edit
is lost.

**Tasks** (`tasks/`). A board with an activity log that should tell the same story as the rows.

**Chat and real time** (`chat/`, `realtime/`). Direct chats found or created; messages with
pages and unread marks by time; sockets, rooms and who is online, kept in memory across awaits.

**Evaluations** (`evaluations/`, and two routes of `proposals/`). Scores under one unique key,
written in a transaction by one route and in parallel by another, in whatever list the client
sends; two lists that tell an evaluator what is left to do.

**Projects and their public pages** (`projects/`). An upload stores an object, a row and two
columns; assets can also be given as URLs; a project is published, defended, terminated.

**Accounts** (`auth/`, `users/`). Registration, invitations, tokens, suspension, deletion of
roles. Check-then-write under unique keys.

**Connection pool** (`db/db.service.ts`). Ten connections, first come first served, with no
timeout; some transactions need a second connection while they hold one.

**Mail queue** (`queues/mail/`, `mail/`). Jobs with attempts; a mail is sent, or given up.

### Not modelled

| Component | Why |
|---|---|
| Funded proposals | `app.module.ts` does not import the module: not reachable |
| AI assistant, ML service | calls to external models, input and output only |
| Rendering of documents | conversion between text formats; no state |
| Departments, audit log | tables others read; an append-only log that nothing reads to decide |
| Comments on proposals, notifications | single inserts, and single emissions to a socket |
| Queries, searches, dashboards | they change nothing; those that decide something (what an evaluator must do, what a page of the chat shows, which proposals a role sees) are modelled |
| `deleteFile`, `cleanupOldTempFiles`, `createOrGetDm`, `updateProposalAdvisor` | nothing calls them |
| `createWorkspace` of a document beyond its check | the document is made with the project and never deleted, so the check always ends it |

The components meet in the database: the workflow creates the project that the budget,
documents, tasks and chats hang on; approval copies the team; the decision endpoints write the
workflow's rows; the budget reads the items the workflow inserted and calls the files service.
They meet in two more places that the models have: the connection pool, and the mail queue,
into which the workflow, registration and invitations put jobs when their own work is done.

`PROJECT.json` lists the components in full, and under `hazards` the places where the code
can go wrong in a way tests would hardly reach, with the properties that watch them.

## 2. Modules

    ReviewLifecycle        what a review promises: the abstract specification
      ^ implements
    ProposalWorkflow       the handlers, one request at a time
      |- ProposalWorkflowProps    properties;    MCProposalWorkflow  an instance
      |    `- ProposalWorkflowProofs
      |- ConcurrentReview         the handlers as read and commit;  MCOverlap  an instance
      |    `- SoleReviewers       the assumptions that make overlap harmless; MCSoleReviewers
      |         `- SoleReviewersProofs
      `- ProgramDecisions         the other writers of the status;  MCProgramDecisions

    Disbursement           the PI's and finance's operations as check and commit
      `- DisbursementProps        properties;    MCDisbursement  an instance
           `- DisbursementProofs

    Documents - DocumentsProps - DocumentsProofs              \
    LiveDocument - LiveDocumentProps - LiveDocumentProofs     /  MCCollaboration  an instance of both

    Routing                the seeded rules and the choice of steps
      |- ProposalDrafts           \
      |- AccessControl             }  DraftingProps;  MCDrafting  an instance
    ProposalTeam                  /     `- DraftingProofs

    Tasks, Evaluations, ProjectPage, Accounts, MailQueue  \
    Chat - Realtime                                        }  ProjectRoomProps;  MCProjectRoom
    ConnectionPool                                        /     `- ProjectRoomProofs
      `- ConnectionPoolProofs

A definition marked *Fault* in a comment is not part of any specification. It is the
definition that follows it with a plausible mistake in it; replacing the one by the other
makes a property fail, which shows that the property depends on that piece of the code.
`PROJECT.json` pairs each property with such a replacement under `mutants`, and under `map`
gives the source lines of every definition.

### ProposalWorkflow

| Variable | Code |
|---|---|
| `status`, `isEditable`, `workspaceUnlocked`, `currentStepOrder` | columns of `proposals`; 0 stands for a NULL step order |
| `projects` | number of projects created from the proposal |
| `steps`, `decision`, `active`, `votes` | rows of `proposal_approvals`: which exist, `decision`, `is_active`, `vote_json` |
| `history` | `proposal_status_history`, oldest first |

| Action | Code |
|---|---|
| `SubmitProposal` | `submitProposal`: `GenerateSteps` or `ResumeFrom`, then `SubmitWrites` |
| `AcceptStep` | `acceptStep`: `AcceptWrites`, that is `ActivateNext` or `CompleteWorkflow` |
| `RejectStep`, `RequestRevision` | `transitionStep` with its two sets of arguments |
| `HandleApprovalOrForm`, `HandleVote` | `submitAction`: `handleApprovalStep`, `handleFormStep`, `handleVoteStep` |

Each handler is a guard (`CanSubmit`, `CanApprove`, `CanAct`) and a "Writes" operator, so that
ConcurrentReview can use the same operators in two separate steps.

Peculiarities of the code that the model keeps: approve, reject and request-revision answer
*any* active row and ignore its type and its votes; a vote's strategy plays no part in
deciding when the vote ends; votes for a revision count for neither side; an action that asks
for a revision is recorded as a rejection; `reject` sets the status to Draft but leaves
`is_editable` false; a resubmission writes `current_step_order = 1` wherever it resumes.

Abstracted: texts, dates, comments, mails and the audit log are dropped; role and department
lookups are the constant `Approvers`; which branches of the routing rules hold for a proposal
is a choice of a set in `Matchings`; validating a form is the choice of a valid one.

Assumption on the constants (`MatchingsAssumption`): the rules that apply to one proposal have
different step orders. `db/schema/routing.ts:42` says only one branch of a group holds for a
proposal. The proofs use it; ConcurrentReview's counterexamples do not depend on it.

### ReviewLifecycle

A proposal is with its author, in review or done; reviews are granted in order; a granted
review is never asked for again; the project is delivered with the last grant. No rows, flags
or votes. The refinement maps `required` to the rows that exist, `granted` to the accepted
ones and `delivered` to `projects`. Votes that do not end a step are stuttering.

### ConcurrentReview and SoleReviewers

`Receive(q)` reads the proposal and the active row and passes the checks of one endpoint;
`Commit(q)` makes that endpoint's writes with *what was read*: the row, the old status for
the history, the ballots. `Abort(q)` is a failure between the two, which rolls back. A commit
is one step. Two commits on the same row take turns in the database anyway, because each
starts by updating that row; and where `OneWriter` holds there is never a second one. Where it
does not hold, commits could mix further than the model shows, so this module proves nothing
about that case; its counterexamples are real, for they need no mixing.

SoleReviewers adds two assumptions: nobody has two requests in progress on one proposal
(`OneRequestEach`), and each step has one person who may answer it (`OneReviewerEach`). Neither
is enforced by the code. Under them the review itself makes requests take turns: at any
moment there is one person whose turn it is. Where a department has two coordinators, or a
vote has two voters, the second assumption fails; the run `two_projects` shows what follows.

### ProgramDecisions

The decision endpoints as they run: read, `StampApprovalRow`, `WriteStatus`, `WriteHistory`,
each a step that requests of the workflow (`Next` of ProposalWorkflow) can come between, or
after which the server can stop (`StopDeciding`). `ScheduleProposalDefence` sets the status
regardless. Bound: one decision in progress at a time.

### Disbursement

An operation is a check (`ReceiveSubmit`, `ReceiveResubmit`, `ReceiveVerdict`) that puts what
was decided into `job[a]`, and a commit that writes without checking again. A submission has a
third step, `AttachDocument`, after its transaction. `Abort` ends an operation at any point.
`Submitters` and `Officers` are the operations that may be in progress together; `OneOfEach`
says there is at most one of each kind, and the properties that need it say so. `payments`
counts how often an item was paid for; no table holds that number, but the paid requests and
their items determine it.

### How faults are modelled outside the workflow

The remaining modules share a convention. A request is the sequence of its statements, or of
its steps between awaits where the state is in memory, because that is where others can come
in. A variable (`mishaps`, `went`, `wrong`, `amiss`, `trouble`, `faults`, `snags`) is chosen at
the start and limits the behaviour: it says which kinds of trouble may happen in it. (`Tasks`
also notes there that a failure has happened.) A property then
names the kinds it does *not* survive, clause by clause, and the instance gives for each clause
the most that may go wrong under it. So `"overlap" \notin went => OneAdvisor(...)` claims
that failures, stops and sequences of any length do not produce a second advisor, and admits
that overlapping requests do.

The MC modules put modules that write different tables into one run; a behaviour exercises one
part and leaves the others in an initial state, which loses nothing as they share no variable.

### Documents

| Variable | Code |
|---|---|
| `document` | the row of `documents`: `current_content`, `current_version_id` |
| `versions`, `made` | `document_versions`, and the last id |
| `job` | operations in progress, a step per statement |
| `pruning` | calls of `pruneAutosaveVersions` in progress, which nobody waits for |
| `setbacks` | what may happen while a pruning takes its time |
| `pending` | the queued autosave, with its timer |
| `latest`, `failed` | the last update received, and whether anything failed since: for the properties |

`SaveDocument`, `RestoreVersion`, `ImportMarkdown` begin an operation; `OnUpdate` queues an
autosave and `Flush` begins it; then `CompareWithLatest`, `TouchDocument` (the same content) or
`ReadNumber`, `InsertVersion` and `UpdateDocument`, which for an autosave starts a pruning. A
pruning is `ReadRecent` (what to keep), then `DeleteOthers`, or `RefuseDelete` where the foreign
key of the current version forbids the delete: nobody catches that rejection, and Node stops.
Operations go on, and other prunings begin, between those two steps. `Fail` ends an operation
anywhere; `Stop` is the server stopping, which loses the queue. A failed flush queues its content
again. Contents are compared by a hash of JSON that was read back from a `jsonb` column, so equal
contents may compare as different; the model lets `CompareWithLatest` and `RestoreVersion` do so.

Two setbacks are kept apart because properties depend on them. *overtake*: an autosave is inserted
between a pruning's read and its delete, so that a newer autosave, perhaps the current version,
is not on the list of what to keep. *linger*: a statement fails while a pruning is in progress.
The properties that do not survive one of them say so. Bounds: one operation at a time (`Slots`)
and two prunings beside it, pruning keeps 2 instead of 30 (at least two are needed: the version
shown and the one about to be), four versions.

### LiveDocument

A call (`Calls`) is one message of a socket in its handler; `stage`, `message` and `loaded` are
where it waits and with what. `joined`, `count` are the gateway's sessions and presence; `entry`
the cached document with its references and timer; `ydoc` and `inside` the y-websocket server;
`writing` states under way to `stored`, the column `yjs_state`. A Y document is the set of edits
merged into it. The actions follow the awaits: `Join`, then `Enter` or `LeaveToJoin` and `Rejoin`,
then `ReadState` and `SetEntry`, are one `collab:join`; `SendEdit` and `ApplyEdit` one update;
`Leave` and `Left` one `collab:leave`; `Disconnect` and `Dropped` the end of a connection; `Evict`
and `Persist` the timers.

Calls of one socket overlap: edits are sent without waiting for anything, and nothing in the
gateway makes a join or a leave wait for the one before. Whether *clients* wait is a mishap that
the properties name. *burst*: a client joins or leaves again before the answer to its last join or
leave. *hurry*: it does so after `collab:joined` but before the sync message that ends the join.
*drop*: its connection breaks in between. With *burst* two leaves both read `client.data.collab`
before the awaited flush and both count down and release (`collaboration.gateway.ts:457-481`), so
`ExactPresence` and `SessionsHoldDocument` are claimed of clients that wait; `NoGhosts` (nobody is
shown who is gone) and `EvictionLosesNothing` are claimed of all. The other mishaps: *overlap* (two
loads at a time), *late* (a write lands after a later read or write), *fail* (a load fails) and
*provider* (somebody uses the second server). Bounds: two sockets of one user, three calls, two of
them of one socket; counts up to three.

### Routing, ProposalDrafts, ProposalTeam, AccessControl

`Routing` has the rules of the seed and both evaluations of their conditions as plain operators.
`ProposalDrafts` uses them: `Create`, `UpdateProposal` and the steps of their transactions,
`Submit`, and the review reduced to what it does to rows (`Accept`, `Return`), since
ProposalWorkflow has it in full. The seeded proposals are initial states: one of them is a draft
that already has steps. `ProposalTeam` counts rows, as nothing stops a user from having two, and
begins with every list of members that `validateMembers` lets through: with any roles (*advisors*
says that several are advisors) and with users named twice (*repeat*). `AddMembers`,
`AssignAdvisor`, `AssignEvaluators`, `AssignUndergradAdvisor` check, and `Clear` and `Insert`
write. `AccessControl` has the permissions that matter for proposals and budgets, the two tables
as they are written, and every change an administrator can make to roles.

### Tasks, Evaluations, ProjectPage, Accounts

Each has the rows of its tables, the requests in progress (`working`, `submit`, `visit`,
`joining` and `changing`) and one action per statement.

`Tasks` has what writes. Assignees and priorities are recorded in the activity as the status is
and are left out, as is the summary, which only reads (and fails, see Observations).

In `Evaluations`, a transaction holds the rows it has written (`Locked`) and others wait; one of
two that wait for each other is aborted. `Batches` may be any set of lists of scores, as the
services look at nothing in them; `uneven` notes the rubrics that some list did not score for all
the students alike, of which nothing can be claimed. `standing` is what the proposal's status means
for the evaluators' list, `project` what its project means for the other one: `MakeDecision` sets
the status without a project, as the program decisions do, `Approve` makes the project,
`CloseProject` terminates it.

In `Accounts` an administrator is `Authorised` by the role SYSTEM_ADMIN, and any role may be
deleted, that one too. The checks of `Register` and `AcceptInvitation` are separated from
`MakeAccount` by the hashing of the password; a unique key may refuse there.

### Chat and Realtime

Times have two ticks to a millisecond, because messages are stored in microseconds and a page's
cursor went through a JavaScript `Date`. `GetPage` shows what the query returns; `pages` collects
what a user who pages back has seen. `Realtime` has a socket's handler (`handler`), the table of
active users, the room, and what each client has been told.

### ConnectionPool

`phase` says whether a request waits for its connection (`begin`), has it (`in`), waits for or
has a second one (`inner`, in `extra` when it has) or has given the second back (`last`);
`queue` is the pool's line. `nested` are the requests that take a second one, of which
`saveDocument` is the most frequent.

### MailQueue

`mail` is what a request wants sent and what that request answered; `job` is the job in Redis:
attempts made, times started over, mails sent. An attempt ends in `SendEmail` (accepted, with or
without the answer arriving) or `HandlerFails`; `Retry` puts the job back; `StopServer` stalls
the job in progress, which Bull starts over once.

## 3. Runs

| Run | Kind | Question and answer |
|---|---|---|
| `workflow` | pass | One request at a time: are the six documented invariants kept, reviews ordered and never lost, resubmission possible, the lifecycle implemented, and does a review end? Yes. |
| `sole_reviewers` | pass | With one reviewer per step and overlapping requests: does anything write from a stale read, or is the text changed under review? No; the system is serialisable. |
| `disbursement` | pass | PI and finance overlap, each doing one thing at a time: are items ever stranded, numbers wrong, documents missing, settled requests reopened? No. |
| `collaboration` | pass | With one operation on a document at a time, which may fail or stop anywhere, and prunings in the background: does the history contain what is shown, is pruning safe, does the last update land? With sessions that come and go and several calls of a socket in progress: are presence and references exact, is an edit ever lost? Yes, unless an autosave overtakes a pruning or fails during one; yes, for clients that wait for answers; no. |
| `drafting` | pass | Are approval steps always a route, files where their versions are, roles and advisors single, permissions usable? Yes, each under the conditions its property names. |
| `project_room` | pass | Do tasks, scores, pages, accounts, chats and presence add up, and do waiting requests and mails end? Yes, each under the conditions its property names. |
| `two_projects` | violation | Two reviewers answer the last step together: two projects. |
| `two_active_steps` | violation | Two first submissions together: two chains of steps, two active. |
| `early_unlock` | violation | A postgraduate decision for a revision opens the workspace. |
| `unfinished_approval` | violation | An undergraduate decision approves the proposal with a step still active. |
| `paid_twice` | violation | A returned request frees its items and is resubmitted without them; an item is paid twice. |
| `other_server` | violation | With clients on the y-websocket server as well, an edit is lost. |

The six violations are disagreements between the code and the repository's own documents or
comments; `PROJECT.json` quotes the lines under `findings`. Invariants that hold of
ProposalWorkflow and fail in ProgramDecisions or ConcurrentReview fail because of the extra
writers or the overlap, not because of the model of the workflow.

**Bounds.**

- `workflow` has three steps in a row with two alternatives for the last, so a proposal can have a
  vote or a form there; two votes with two and three voters and both kinds of strategy;
  `MaxHistory = 5` limits submissions, and so how often a proposal goes back: a submission needs
  fewer than five history rows, which admits three submissions (rows 1, 3 and 5), enough to be
  sent back at one step, resumed, sent back at a later or the same one, and resumed again. 6,775
  states. The theorems remove the bounds (any rules, users, votes and `MaxHistory`), so the bound
  only matters for the liveness property.
- `sole_reviewers` has three users with a request each; the author is also a reviewer, and votes,
  forms and approvals all occur. 1,598 states, few because the assumptions leave only one request
  at a time with something to do; again the theorems are general.
- `disbursement` has two items, so a request can hold one, the other or both, and three requests,
  so one can be returned while another is made and a third comes after; a PI and an officer whose
  operations overlap. 1,348,226 states.
- `collaboration` has two contents, so that a save can bring back an earlier one; four versions,
  two of which pruning keeps, so that autosaves are pruned while others stay; two prunings in the
  background of each other and of the operation; and two sockets of one user with two calls of the
  first in progress, which is where presence and references can go wrong. 356,294 states, two
  minutes.
- `drafting` has budgets on both sides of the border and just at it, two proposals, two files, two
  editors and three versions, so a file can be wanted by two proposals and a proposal edited after
  coming back; three people with at most two rows each, in every team a new proposal may name; two
  changes by the administrator. 1,682,622 states, less than three minutes.
- `project_room` has for each part two of what can meet: two users (three sockets, so one of them
  has two clients), two tasks, two evaluators with two students and five lists (two whole ones in
  opposite orders, one that tells the students apart, two that leave one out, one of these with a
  student twice), two clients of the page, two people for one address written in two ways, four
  requests for three connections, one mail whose server stops twice. 627,847 states, three and a
  half minutes; what is safe of it is also proved for every size.

The violation runs have the smallest instances that show the behaviour. Deadlock is not checked:
an approved proposal, and a project all of whose items are paid, have nothing left to do, and the
bounds stop the rest.

**Fairness.** Four liveness properties rest on it.

- `ReviewEnds` (`workflow`): weak fairness of "somebody answers the active step". It is an
  assumption about people, as nothing in the code reminds or times out a reviewer. It does not
  say which endpoint they use or how they vote. It depends on there being someone who may answer,
  and in a vote on the threshold not being out of reach of the voters (both hold of the instance;
  the code checks neither). The author need never resubmit.
- `LatestLands` (`collaboration`): a statement that can run does (`WF(Statement)`): the database
  answers. The flush is strongly fair (`SF(Flush)`): in the model it waits for a free slot, and
  other saves take the slot again and again; in the code nothing makes it wait but its timer,
  which new updates postpone by no more than `maxFlushIntervalMs` in all.
- `EditsAreStored` (`collaboration`): timers fire and writes land (`WF(Writes)`), and a handler that
  was called runs on (`WF(Handler)`). No client is assumed to do anything.
- `WorkEnds` (`project_room`), for the pool: the pool serves its line (`WF(Grant)`) and a request
  that has what it needs goes on (`WF(Advance)`). Nobody need begin. For mails: a job that can be
  tried, or tried again, is (`WF(JobStep)`), which is what Bull's timers and workers do. That the
  mail server ever accepts is not assumed: a mail may also end by being given up.

## 4. Theorems

All proofs are checked by TLAPS for every value of the constants that satisfies the named
assumptions.

**ProposalWorkflowProofs.** The inductive invariant `IInv` is the type invariant, the four
invariants of the run, and `StepShape`, which says what they leave out: rows of one proposal
have different orders, a rule without a row has no decision, a proposal without rows is a
draft, and a proposal that was sent back has a step that was rejected or sent back. Without
the last, `ReviewInOrder` alone would not say that resuming finds anything; without the first,
"the earliest pending step" could be two steps and `ActiveStepDiscipline` would fail in one
transition. The core of the argument is in two lemmas: `AroundTheActiveStep` (all before it is
accepted, all after it pending) and `AroundTheIncompleteStep` (the same of the step a sent back
proposal resumes from). From `Invariance` follow `TypeCorrect`, `OneActiveStep`,
`OrderedReview`, `OneProject`, `CompleteHistory`, `AlwaysResumable`; from the same invariant
the action property `NothingGrantedIsLost` and the refinement `WorkflowImplementsLifecycle`.

**SoleReviewersProofs.** `ReviewIInv` adds to `IInv` that requests in progress are well formed
and that what each has checked still holds (`StillHolds`). A request in progress belongs to the
person whose turn it is, so there is only one (`OnlyOneWriter`), so nobody can invalidate what
it checked, so its commit is a step of ProposalWorkflow (`CommitIsAStep`). Hence
`NoStaleWrites`, `WritersTakeTurns`, `TextIsFrozen`, `RequestsAreSerialisable` and, from the
first module's theorems, `OverlapKeepsTheDocumentedInvariants`.

**DisbursementProofs.** In two layers. `SafeInv` (types, the operations in progress refer to
rows that exist, `ReservedIsOpen`) is inductive with no assumption on how many operations
overlap: `DisbursementTypes`, `NoItemIsStranded`. `OrderlyInv` adds that what an operation has
checked still holds (`JobsOrderly`) and is inductive under `OneOfEach`: `RequestsAreNumbered`,
`NoMoneyWithoutClearance`, `PaidItemsAreAccountedFor`, `NothingSettledReopens`. The reason it
works: the PI's checks are about requests finance cannot touch (RETURNED ones, or the count)
and the other way round.

**DraftingProofs.** `RouteIsRoute` is about plain operators: for any program and any budget the
rules that `RouteOf` selects have the orders 1 to 3 once each, and only the last is final;
`StepsOfRoute` says that the two evaluations of conditions, although they disagree on what they
do not know, select just these. `ProposalsHaveARoute` (`StepsAreARoute`) then needs `RouteInv`: a
proposal that can be submitted has a program and a budget (`MadeBeforeUse`), which is why
nothing is asked of the status `none`. It holds for any proposals, files, editors and mishaps.

The other parts of `drafting` have an invariant each. `ReviewAlwaysGoesOn` (`ReviewGoesOn`):
`ReviewInv` adds that two requests do not make the same proposal and that one not yet made has no
steps. `FilesAlwaysFollow` (`FilesFollowVersions`): `FilesInv` has two parts. Without overlap
(`FilesFit`), there is one request at a time, which finds the file and the current version as it
read them, and the files of versions belong to the versions' proposals; without failures
(`FilesKept`), an attached file is in a version or about to be. `TeamHolds` (`TeamIsSound`):
`TeamFits` says of the one request there may be that those it is about to insert have no row, or
only the one that it clears first (so nobody has two roles, however many advisors a new proposal
named), and, where it named at most one, that an advisor is inserted when there is no other.
`AccessHolds` (`AccessFits`) needs an invariant of its own only for types: the rest follows from the
tables (`DecidersAlwaysSee`, `GrantsAlwaysWork`), whatever the administrator grants.

**DocumentsProofs.** In three layers. `DocumentTypeInv` and `RecentAreKept` (a list of what to
keep has all that are among the most recent autosaves now, unless an autosave overtook it) are
inductive with any number of operations and prunings at once: `DocumentTypesHold` and the action
property `HistoryIsKept`. The next two need `OneAtATime`, which the code does not enforce, but
allow any number of prunings. `NumberInv` says that ids are used once, that numbers follow ids and
are below what an operation is about to insert (`JobFits`): `NumbersGrowWithTime`, although the
rows that made it true may be gone. `ShownInv` is about what a pruning may meet: while one is in
progress the version shown is the latest or the one before the one about to be shown
(`ShowsCurrent`), an operation that makes no version found its content in the newest one
(`TouchFits`), and of the autosaves that a list leaves out only one newer than all it has can be
the version shown, or the next (`ListFits`). It is broken by a statement that fails during a
pruning, hence *linger*; with it hold `ShownIsInHistory` and `PruningSparesTheCurrent`.

**LiveDocumentProofs.** `TypedInv` says what each stage of a call carries. `GhostInv` (no socket
drops while it joins) says that who joins or leaves is online and that nobody is counted more often
than there are sockets; `TurnInv` (and clients wait for the answer) that a call that leaves has a
session to end, and no other call of its socket does; `PresenceHolds` follows from both.
`ReferenceInv` (and loads neither overlap nor fail, and nobody hurries) counts the references to
the cached document: `ReferencesHold`. `EditInv` (loads do not overlap, no write is late and the
second server is not used; any burst, drop or failure) says where an edit may be on its way from
the server's memory to the column (`EditsAreSomewhere`), so that evicting the document loses
nothing, even one that is still used: `EditsHold`.

**ProjectRoomProofs.** Five parts that share no variable.

- `PageStaysSound`: `PageInv` adds that an upload in progress was stored, and recorded before it
  is placed, and that who writes URLs or schedules a defence may.
- `AccountsStaySound`: unique keys are what `OneEach` rests on, since checks come before the
  hashing of the password and others in between. `InvitationsFit` adds that an account made by an
  invitation has its address, as has the request about to make one; so a second request for the
  invitation meets the key. `AdministratorsFit` adds that an administrator who changes another's
  status is active and not the one changed, so one remains while the role exists. It is proved of
  both halves of the module together, which TLC explores one at a time.
- `ScoresAlwaysAddUp`, of any lists: the claim is about the rubrics outside `uneven`
  (`EvenRubrics`), and the inductive step about *half-written* ones. While statements run in
  parallel, the rows of such a rubric were alike before and will be alike again (`HalfWritten`):
  each has its new content or is still to be written. Writing twice is harmless, as the new
  content is a function of the old that is idempotent. For transactions, the entries written and
  left are about all the students alike or none (`Transactions`), so that a commit, which takes
  the last entry of each row, keeps rows alike whatever other transactions did in between and
  whatever else is in the list. What becomes of the proposal changes only which list it is in.
- `TasksAlwaysAddUp`: `FeedFits` says how far the request in progress has come with its task's
  activity: the activity tells (`Tells`) the status that was read before the update until the
  change is recorded. `Appended` says what one more record does to what an activity tells; the
  proof needs no induction over sequences because `Tells` speaks of the positions in the activity.
- `ChatAlwaysIsSound` is one theorem of three invariants. `DmInv`: alone, what a request has
  looked for is still not there when it adds members, and a chat it made has just those it added.
  `GroupInv`: no two messages have the same time; what was got is at or after the cursor, so no
  message comes twice, even with overlap; and alone, each message from before the first page was
  got, or shares its millisecond with the end of a page, or is before the cursor (`GotOrToCome`).
  `PageOf` is the lemma about `Newest`: a page has no gap, and is all there is if that is not too
  much. A message being sent is later than anything read (`SentLast`), which makes it unread
  (`NewIsUnread`, the action part of the property). `PresenceInv`: who is present is among the
  active sockets, so a user goes offline with the last of them.

**ConnectionPoolProofs.** `PoolInv` says who is in line (whoever waits, once, and nobody who has
been served), who may have a second connection, and that no more connections are in use than
there are (`WithinPool`, by counting: `OneMore`, `OneLess`). `NobodyWaitsForEver`: if everybody who
holds a connection waited for a second one, each of them would be one of `nested` and none would
have it yet, so the connections in use would be fewer than the pool has. This is the safety half
of `WorkEnds`, for any number of requests and any size of pool; that `Cardinality(nested) <
PoolSize` cannot be dropped shows in the instance, where three nested requests and three
connections block.

**Only model-checked.** The liveness properties (`ReviewEnds`, `LatestLands`, `EditsAreStored`,
`WorkEnds`), because liveness under fairness is out of the prover's reach (as is ENABLED); and the
violation runs, which are counterexamples. Every invariant and action property of a passing run is
also a theorem. Induction over data and RECURSIVE operators are out of reach too: no module here
declares one, and the activity of tasks, which once was filtered with `SelectSeq`, is kept by task
so that nothing needs to be.

**Assumptions.** Besides `MatchingsAssumption`, the named assumptions on the constants say that
sets of people, sockets and students are finite (`PeopleAssumption`, `FiniteAssumption`,
`StudentsAssumption`; a proposal has at least its PI as a student), that names used for "no value"
are not names of anything (`TasksAssumption`, `RolesAssumption`, `ChatAssumption`), that what is
granted exists (`GrantsAssumption`), that bounds are numbers, and that pruning keeps at least two
autosaves (`KeepRecentAssumption`; 30 in the code). Three assumptions are about who does what at
once, and the code guarantees none of them: that a document has one operation at a time
(`OneAtATime`), that the PI and finance have one each (`OneOfEach`), and those of `SoleReviewers`
(`OneRequestEach`, `OneReviewerEach`). What the mishaps in a property's clauses exclude is the
property's own statement. Where the first two are needed the theorem names them as a hypothesis.

## 5. Observations

Met while modelling, without a property of their own:

- `chat.repository.ts:383` relies on an order ("first one is latest due to ordering") that its query
  does not ask for, so the last message in the sidebar may be any.
- `updateProjectAssets` ignores the file ids of its DTO; files replaced on a page stay ATTACHED.
- `sendProposalStatusEmail` (`workflow.service.ts:774`) looks the creator up outside its `try`: when
  that fails after the commit, the request answers with an error although the decision stands.
- Mails about one proposal can arrive in another order than its decisions, because a retried
  job comes after later ones.
- `isSameFile` lets a version refer to a file again; `nextVersionNumber` is 2 for the third version
  and all later ones.
- `validateMembers` accepts several ADVISORs in the list of a new proposal, and
  `proposals.repository.ts:482` says "one advisor max per proposal"; `assignAdvisor` then clears all
  of them.
- `getMemberWorkload` interpolates a JavaScript array into `= ANY(${assigneeIds})`
  (`tasks.repository.ts:303`), which becomes a list of parameters and no array, so that the summary
  of tasks fails as soon as one has an assignee.
- The header of `workflow.service.ts` (lines 36 to 41) says that rejecting a step sets Rejected;
  `transitionStep` is called with Draft, and so does the model. (Rejected is what the program
  decisions set.)
- An undergraduate decision that approves a proposal makes no project, so the evaluators have it in
  neither of their lists.
- A score that an evaluator submits for a row somebody else wrote stays the other's in
  `submitScores`, so the list goes on asking for it.
- Two `collab:leave` of one socket in a burst count its user down twice and release the document
  twice; a leave that comes while the document is still loading releases nothing, and the reference
  stays.
- "The 30 most recent autosave versions unconditionally" (`documents.repository.ts:157`): an
  autosave made between a pruning's read and its delete is deleted, or, if it is the current
  version, makes the delete fail, which nobody catches.
- `deleteRole` protects no role: an administrator can delete the one that makes administrators.
- `terminateProject` says "Rejected stage means it cannot be edited or disbursed", and nothing reads
  `project_stage` before editing or paying.

## 6. Plan

1. Theorems about the mail queue: the safety half of `WorkEnds` (no more mails than attempts and
   stops).
2. An abstract specification of a document (its text is one that was typed, and in the end the
   last one), implemented by Documents; and of a live document, as the set of its edits.
3. Documents with two operations at a time: which of its properties survive.
4. Comments and notifications, if they come to have more than one statement.
