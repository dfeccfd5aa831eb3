------------------------------ MODULE ProposalTeam ------------------------------
(***************************************************************************)
(* The rows of proposal_members of one proposal, as ProposalsService       *)
(* create, ProposalMembersService and UndergradService write them, and the *)
(* project_members that approval copies them to.                           *)
(*                                                                         *)
(* Only approval is one transaction.  The requests on members read the     *)
(* rows first and write one statement at a time afterwards; those in       *)
(* progress are those of Managers.  "mishaps" of this module: "overlap"    *)
(* lets anything happen between the statements of a request, "fail" lets   *)
(* it end there, "repeat" lets a request name one user twice: lists are    *)
(* not searched for repetitions, nor is the advisor of a new proposal      *)
(* looked for among its members; "advisors" lets a new proposal name       *)
(* several advisors, as its list of members may give any role;             *)
(* "undergrad" says that the program of the proposal is UG, which opens    *)
(* one more route.                                                         *)
(*                                                                         *)
(* Left out: who is asking, whether users exist and what their account's   *)
(* roles are, e-mails, reading.  "MEMBER" stands for "SUPERVISOR" too,     *)
(* which no request tells from it.                                         *)
(*                                                                         *)
(* A definition marked "Fault" is no part of the model: it is the          *)
(* definition after it with a mistake, which the properties must notice.   *)
(***************************************************************************)
EXTENDS Naturals, FiniteSets

CONSTANTS
    People,
    Author,         \* created_by
    Managers,       \* requests on members that can be in progress together
    MaxRows,        \* bound: rows one user has at the most
    TeamMishaps     \* the sets of mishaps to look at

ASSUME PeopleAssumption == IsFiniteSet(People) /\ Author \in People

MemberRoles == {"PI", "MEMBER", "ADVISOR", "EVALUATOR"}

VARIABLES
    rows,       \* how many rows a user has with a role: there is no unique key
    project,    \* project_members, <<user, role>>; {} until the proposal is approved
    task,       \* the requests in progress
    assigned,   \* evaluator_assignments: advisors of an undergraduate's proposal
    went        \* the mishaps

teamVars == <<rows, project, task, assigned, went>>

NoTask == [at |-> "idle", role |-> "none", users |-> {}, twice |-> {}]
Nobody == [u \in People |-> [r \in MemberRoles |-> 0]]

RolesOf(u) == {r \in MemberRoles : rows[u][r] > 0}
RowsOf(u) == rows[u]["PI"] + rows[u]["MEMBER"] + rows[u]["ADVISOR"] + rows[u]["EVALUATOR"]
MembersWith(r) == {u \in People : rows[u][r] > 0}

Free == "overlap" \in went \/ \A m \in Managers : task[m] = NoTask

\* A list of users with those in "twice" repeated.
Repeats(users) == IF "repeat" \in went THEN SUBSET users ELSE {{}}

Ask(m, at, role, users, twice) ==
    /\ Free
    /\ task[m] = NoTask
    /\ task' = [task EXCEPT ![m] = [at |-> at, role |-> role, users |-> users, twice |-> twice]]
Close(m) == task' = [task EXCEPT ![m] = NoTask]

-----------------------------------------------------------------------------

\* The members of a new proposal: the roles that the list gives, and gives a second time.
Lists == [People -> MemberRoles \cup {"none"}]
NoList == [u \in People |-> "none"]
Listed(list, r) == {u \in People : list[u] = r}

\* validateMembers: exactly one entry is a PI's, and one the creator's; nothing else is asked.
ValidMembers(list, again) ==
    /\ Cardinality(Listed(list, "PI")) + Cardinality(Listed(again, "PI")) = 1
    /\ Author \notin Listed(list, "none")

\* The rows of a new proposal; the advisor is added to those of the list unseen.
NewTeam(list, again, advisor) ==
    LET one(b) == IF b THEN 1 ELSE 0
    IN  [u \in People |-> [r \in MemberRoles |->
            one(list[u] = r) + one(again[u] = r) + one(r = "ADVISOR" /\ u \in advisor)]]

\* Fault: only plain members are looked for.
AddPlainMembers(m, users, twice) ==
    LET new == users \ MembersWith("MEMBER")
    IN  /\ new # {}
        /\ Ask(m, "insert", "MEMBER", new, twice \cap new)
        /\ UNCHANGED <<rows, project, assigned, went>>

\* addMembers: those who have a role already are skipped.
AddMembers(m, users, twice) ==
    LET new == {u \in users : RolesOf(u) = {}}
    IN  /\ new # {}
        /\ Ask(m, "insert", "MEMBER", new, twice \cap new)
        /\ UNCHANGED <<rows, project, assigned, went>>

\* removeMembers: whatever their role, the PI too.
RemoveMembers(users) ==
    /\ Free
    /\ \E u \in users : RolesOf(u) # {}
    /\ rows' = [u \in People |-> IF u \in users THEN Nobody[u] ELSE rows[u]]
    /\ UNCHANGED <<project, task, assigned, went>>

\* assignAdvisor: find() returns some row of the user.
AssignAdvisor(m, u) ==
    /\ RolesOf(u) = {} \/ "ADVISOR" \in RolesOf(u)
    /\ Ask(m, "clear", "ADVISOR", {u}, {})
    /\ UNCHANGED <<rows, project, assigned, went>>

\* assignEvaluators: evaluators are skipped, anybody else with a role is refused.
AssignEvaluators(m, users, twice) ==
    LET new == users \ MembersWith("EVALUATOR")
    IN  /\ new # {}
        /\ \A u \in new : RolesOf(u) = {}
        /\ Ask(m, "insert", "EVALUATOR", new, twice \cap new)
        /\ UNCHANGED <<rows, project, assigned, went>>

\* assignAdvisor of UndergradService: only its own table is asked, and neither the user's
\* other rows nor the advisor there is.
AssignUndergradAdvisor(m, u) ==
    /\ "undergrad" \in went
    /\ u \notin assigned
    /\ Ask(m, "insert", "ADVISOR", {u}, {})
    /\ assigned' = assigned \cup {u}
    /\ UNCHANGED <<rows, project, went>>

\* clearMembersWithRole
Clear(m) ==
    /\ task[m].at = "clear"
    /\ rows' = [u \in People |-> [rows[u] EXCEPT ![task[m].role] = 0]]
    /\ task' = [task EXCEPT ![m].at = "insert"]
    /\ UNCHANGED <<project, assigned, went>>

\* addProposalMembers
Insert(m) ==
    LET t == task[m]
        more(u) == IF u \notin t.users THEN 0 ELSE IF u \in t.twice THEN 2 ELSE 1
    IN  /\ t.at = "insert"
        /\ rows' = [u \in People |-> [rows[u] EXCEPT ![t.role] = @ + more(u)]]
        /\ \A u \in t.users : RowsOf(u) + more(u) <= MaxRows
        /\ Close(m)
        /\ UNCHANGED <<project, assigned, went>>

\* A statement fails or the server stops.
Break(m) ==
    /\ "fail" \in went
    /\ task[m] # NoTask
    /\ Close(m)
    /\ UNCHANGED <<rows, project, assigned, went>>

\* createProjectFromApprovedProposal: project_members has the key (project, user), so that
\* a user with two rows makes the approval fail.
CopyMembers ==
    /\ Free
    /\ project = {}
    /\ \A u \in People : RowsOf(u) <= 1
    /\ project' = {m \in People \X MemberRoles : rows[m[1]][m[2]] > 0}
    /\ project' # {}
    /\ UNCHANGED <<rows, task, assigned, went>>

TeamInit ==
    /\ went \in TeamMishaps
    /\ \E list \in Lists, again \in Lists, advisor \in SUBSET People :
        /\ ValidMembers(list, again)
        /\ Cardinality(advisor) <= 1
        /\ "repeat" \notin went => again = NoList /\ advisor \subseteq Listed(list, "none")
        /\ "advisors" \notin went =>
               \A u, v \in Listed(list, "ADVISOR") \cup Listed(again, "ADVISOR") \cup advisor : u = v
        /\ rows = NewTeam(list, again, advisor)
    /\ \A u \in People : RowsOf(u) <= MaxRows
    /\ project = {}
    /\ assigned = {}
    /\ task = [m \in Managers |-> NoTask]

TeamNext ==
    \/ \E m \in Managers :
        \/ \E users \in SUBSET People : \E twice \in Repeats(users) :
               AddMembers(m, users, twice) \/ AssignEvaluators(m, users, twice)
        \/ \E u \in People : AssignAdvisor(m, u) \/ AssignUndergradAdvisor(m, u)
        \/ Clear(m)
        \/ Insert(m)
        \/ Break(m)
    \/ \E users \in SUBSET People : RemoveMembers(users)
    \/ CopyMembers

TeamSpec == TeamInit /\ [][TeamNext]_teamVars
=============================================================================
