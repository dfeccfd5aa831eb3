----------------------------- MODULE AccessControl -----------------------------
(***************************************************************************)
(* Roles, their permissions and what they let one user do and see:         *)
(* AccessService and UsersService, which change them, AbilityFactory and   *)
(* AccessGuard, which are asked on every request, and the conditions of    *)
(* GET /proposals, against ProposalsService resolveApprover.               *)
(*                                                                         *)
(* Roles are told apart by their names, which the administrator may        *)
(* change.  Permissions that are only looked up and concern nothing else   *)
(* in this module are left out, and so are SQL, paging and the filters of  *)
(* the query, which only narrow what is seen.  GET /projects sees by the   *)
(* same rules with "Project" for "Proposal" (buildProjectReadRules).       *)
(*                                                                         *)
(* A definition marked "Fault" is no part of the model: it is the          *)
(* definition after it with a mistake, which the properties must notice.   *)
(***************************************************************************)
EXTENDS Routing, FiniteSets

CONSTANTS
    SeedRoles,      \* names of the seeded roles to look at
    NewNames,       \* names the administrator may think of
    Grants,         \* sets of permissions a role may be given
    MaxChanges,     \* bound: changes the administrator makes
    MaxRoles        \* bound: roles the user is given at once

Permissions == {"PROPOSAL_READ", "PROPOSAL_ADD_MEMBER", "PROPOSAL_MANAGE_MEMBERS",
                "PROPOSAL_ASSIGN_EVALUATOR", "PROPOSAL_APPROVE", "PROPOSAL_UPDATE",
                "BUDGET_VIEW", "BUDGET_MANAGE", "BUDGET_APPROVE", "BUDGET_REJECT"}

ASSUME GrantsAssumption == Grants \subseteq SUBSET Permissions

VARIABLES
    roles,      \* roles: id to name, "none" for a role that is not there
    granted,    \* role_permissions, by id
    held,       \* user_roles of the user: ids
    belongs,    \* whether the user is a member of the proposal
    heads,      \* whether the user coordinates the proposal's department
    changes     \* how many changes were made

accessVars == <<roles, granted, held, belongs, heads, changes>>

\* RolePermissions of role-permissions.ts, as far as Permissions go.
RolePermissions(name) ==
    {"PROPOSAL_READ"}
    \cup (IF name \in {"STUDENT", "FACULTY"}
          THEN {"PROPOSAL_ADD_MEMBER", "PROPOSAL_UPDATE", "BUDGET_VIEW", "BUDGET_MANAGE"} ELSE {})
    \cup (IF name = "COORDINATOR" THEN {"PROPOSAL_UPDATE"} ELSE {})
    \cup (IF name \in {"COORDINATOR", "RAD"} THEN {"PROPOSAL_ASSIGN_EVALUATOR"} ELSE {})
    \cup (IF name \in {"COORDINATOR", "DGC_MEMBER", "ADRPM", "PG_OFFICE", "RAD", "VPRTT",
                       "AC_MEMBER"} THEN {"PROPOSAL_APPROVE"} ELSE {})
    \cup (IF name = "RAD" THEN {"BUDGET_VIEW"} ELSE {})
    \cup (IF name = "FINANCE"
          THEN {"BUDGET_VIEW", "BUDGET_MANAGE", "BUDGET_APPROVE", "BUDGET_REJECT"} ELSE {})

\* A role's id is the name it was made with.
Ids == SeedRoles \cup NewNames
RoleNames == {roles[i] : i \in held} \ {"none"}

\* getUserPermissions
UserPermissions == UNION {granted[i] : i \in held}

-----------------------------------------------------------------------------
(* Routes: what a permission allows, and what a route that needs it asks for. *)

\* mapPermissionsToCaslRules of AbilityFactory; BUDGET_APPROVE and BUDGET_REJECT are missing.
AbilityRules(permission) ==
    CASE permission = "PROPOSAL_ADD_MEMBER" -> {<<"addMember", "Proposal">>}
      [] permission = "PROPOSAL_MANAGE_MEMBERS" ->
            {"addMember", "removeMember", "updateMemberRole"} \X {"Proposal"}
      [] permission = "PROPOSAL_ASSIGN_EVALUATOR" -> {<<"assignEvaluator", "Proposal">>}
      [] permission = "PROPOSAL_APPROVE" -> {<<"approve", "Proposal">>}
      [] permission = "PROPOSAL_UPDATE" -> {<<"update", "Proposal">>}
      [] permission = "PROPOSAL_READ" -> {<<"read", "Proposal">>}
      [] permission = "BUDGET_VIEW" -> {<<"read", "Budget">>}
      [] permission = "BUDGET_MANAGE" -> {<<"manage", "Budget">>}
      [] OTHER -> {}

\* PERMISSION_TO_CASL_RULES, a table of its own.
RouteRules(permission) ==
    CASE permission = "PROPOSAL_ADD_MEMBER" -> {<<"addMember", "Proposal">>}
      [] permission = "PROPOSAL_MANAGE_MEMBERS" ->
            {"addMember", "removeMember", "updateMemberRole"} \X {"Proposal"}
      [] permission = "PROPOSAL_ASSIGN_EVALUATOR" -> {<<"assignEvaluator", "Proposal">>}
      [] permission = "PROPOSAL_APPROVE" -> {<<"approve", "Proposal">>}
      [] permission = "PROPOSAL_UPDATE" -> {<<"update", "Proposal">>}
      [] permission = "PROPOSAL_READ" -> {<<"read", "Proposal">>}
      [] permission = "BUDGET_VIEW" -> {<<"read", "Budget">>}
      [] permission = "BUDGET_MANAGE" -> {<<"manage", "Budget">>}
      [] permission = "BUDGET_APPROVE" -> {<<"approve", "Budget">>}
      [] permission = "BUDGET_REJECT" -> {<<"reject", "Budget">>}

\* ability.can of CASL: "manage" is any action.
AbilityCan(rule) ==
    \E p \in UserPermissions : AbilityRules(p) \cap {rule, <<"manage", rule[2]>>} # {}

\* canActivate: one of the route's rules is enough.
AccessGuard(permission) == \E rule \in RouteRules(permission) : AbilityCan(rule)

-----------------------------------------------------------------------------
(* Seeing proposals. *)

MemberOnly == [programs |-> Programs, member |-> TRUE]
Program(programs) == [programs |-> programs, member |-> FALSE]
Everything == Program(Programs)

\* Fault: the ADRPM sees postgraduate proposals only.
ProgramRulesADRPM(name) ==
    CASE name = "COORDINATOR" -> {Program({"UG"}), MemberOnly}
      [] name \in {"DGC_MEMBER", "PG_OFFICE", "ADRPM"} -> {Program({"PG"}), MemberOnly}
      [] name \in {"RAD", "AC_MEMBER", "VPRTT"} -> {Program({"GENERAL"}), MemberOnly}
      [] name \in {"STUDENT", "FACULTY", "ADVISOR", "EVALUATOR", "EXTERNAL_EXPERT"} -> {MemberOnly}
      [] OTHER -> {}

\* What one role adds to the rules.
ProgramRules(name) ==
    CASE name = "COORDINATOR" -> {Program({"UG"}), MemberOnly}
      [] name \in {"DGC_MEMBER", "PG_OFFICE"} -> {Program({"PG"}), MemberOnly}
      [] name = "ADRPM" -> {Program({"PG", "GENERAL"}), MemberOnly}
      [] name \in {"RAD", "AC_MEMBER", "VPRTT"} -> {Program({"GENERAL"}), MemberOnly}
      [] name \in {"STUDENT", "FACULTY", "ADVISOR", "EVALUATOR", "EXTERNAL_EXPERT"} -> {MemberOnly}
      [] OTHER -> {}

\* buildProposalReadRules
ReadRules ==
    LET some == UNION {ProgramRules(n) : n \in RoleNames}
    IN  IF "SYSTEM_ADMIN" \in RoleNames THEN {Everything}
        ELSE IF some = {} THEN {MemberOnly} ELSE some

\* buildProposalAuthorizationWhere: without a rule to read, 1 = 0.
Sees(program) ==
    /\ "PROPOSAL_READ" \in UserPermissions
    /\ \E rule \in ReadRules : program \in rule.programs /\ (rule.member => belongs)

\* getProposals: of which programs the user is shown the proposal.
GetProposals == {p \in Programs : Sees(p)}

\* resolveApprover: a coordinator must be the department's.
ResolveApprover(role) == role \in RoleNames /\ (role = "COORDINATOR" => heads)

\* getPendingApprovals: the steps the user is asked to decide when they are active.
PendingApprovals == {r \in RoutingRules : ResolveApprover(r.approverRole)}

-----------------------------------------------------------------------------
(* What the administrator changes. *)

Change ==
    /\ changes < MaxChanges
    /\ changes' = changes + 1
    /\ UNCHANGED <<belongs, heads>>

Named(name) == \E i \in Ids : roles[i] = name

\* createRole: without permissions.
CreateRole(name) ==
    /\ Change
    /\ roles[name] = "none"
    /\ ~Named(name)
    /\ roles' = [roles EXCEPT ![name] = name]
    /\ UNCHANGED <<granted, held>>

UpdateRole(i, name) ==
    /\ Change
    /\ roles[i] # "none"
    /\ ~Named(name)
    /\ roles' = [roles EXCEPT ![i] = name]
    /\ UNCHANGED <<granted, held>>

\* deleteRole: user_roles and role_permissions go with it.
DeleteRole(i) ==
    /\ Change
    /\ roles[i] # "none"
    /\ roles' = [roles EXCEPT ![i] = "none"]
    /\ granted' = [granted EXCEPT ![i] = {}]
    /\ held' = held \ {i}

ReplaceRolePermissions(i, permissions) ==
    /\ Change
    /\ roles[i] # "none"
    /\ granted' = [granted EXCEPT ![i] = permissions]
    /\ UNCHANGED <<roles, held>>

\* replaceUserRoles: ids that do not exist are left out.
ReplaceUserRoles(ids) ==
    /\ Change
    /\ held' = {i \in ids : roles[i] # "none"}
    /\ UNCHANGED <<roles, granted>>

\* The seeded roles, and a user who registered as a student or has any one role.
AccessInit ==
    /\ roles = [i \in Ids |-> IF i \in SeedRoles THEN i ELSE "none"]
    /\ granted = [i \in Ids |-> IF i \in SeedRoles THEN RolePermissions(i) ELSE {}]
    /\ held \in {{i} : i \in SeedRoles}
    /\ belongs \in BOOLEAN
    /\ heads \in BOOLEAN
    /\ changes = 0

AccessNext ==
    \/ \E i \in Ids :
        \/ CreateRole(i)
        \/ \E name \in Ids : UpdateRole(i, name)
        \/ DeleteRole(i)
        \/ \E grants \in Grants : ReplaceRolePermissions(i, grants)
    \/ \E ids \in SUBSET Ids : Cardinality(ids) <= MaxRoles /\ ReplaceUserRoles(ids)

AccessSpec == AccessInit /\ [][AccessNext]_accessVars
=============================================================================
