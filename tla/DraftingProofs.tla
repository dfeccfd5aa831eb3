---------------------------- MODULE DraftingProofs ----------------------------
(***************************************************************************)
(* Every program and every budget has one route of approval steps, and a   *)
(* proposal keeps the route it was given; requests, files and versions fit *)
(* together, so that a review goes on; users have one role and proposals   *)
(* one advisor; what is granted can be used.                               *)
(***************************************************************************)
EXTENDS DraftingProps, FiniteSetTheorems, TLAPS

\* A budget condition holds on one side of the limit only.
LEMMA BranchesExclude ==
    ASSUME NEW budget \in Nat
    PROVE  /\ EvaluateCondition(LowBudget, Context(budget)) <=> budget < 500000
           /\ EvaluateCondition(HighBudget, Context(budget)) <=> ~(budget < 500000)
           /\ SeedCondition(LowBudget, Context(budget)) <=> budget < 500000
           /\ SeedCondition(HighBudget, Context(budget)) <=> ~(budget < 500000)
           /\ SeedCondition(NoCondition, Context(budget))
           /\ LowBudget # NoCondition /\ HighBudget # NoCondition
<1>1. DOMAIN Context(budget) = {"budgetAmount"} /\ Context(budget)["budgetAmount"] = budget
  BY DEF Context
<1>2. /\ LowBudget.operator = "lt" /\ LowBudget.field = "budgetAmount" /\ LowBudget.value = 500000
      /\ HighBudget.operator = "gte" /\ HighBudget.field = "budgetAmount" /\ HighBudget.value = 500000
      /\ NoCondition.field = "none"
  BY DEF LowBudget, HighBudget, NoCondition
<1>3. /\ Compare("lt", budget, 500000) <=> budget < 500000
      /\ Compare("gte", budget, 500000) <=> ~(budget < 500000)
  BY DEF Compare
<1> QED BY <1>1, <1>2, <1>3 DEF EvaluateCondition, SeedCondition, Operators

\* The rules that the steps of a proposal are made of.
RouteOf(program, budget) ==
    {r \in RoutingRules :
        /\ r.program = program
        /\ r.condition \in {NoCondition, IF budget < 500000 THEN LowBudget ELSE HighBudget}}

LEMMA RulesHaveConditions ==
    \A r \in RoutingRules : r.condition \in {NoCondition, LowBudget, HighBudget}
BY DEF RoutingRules, Rule

\* Both evaluations of conditions, the service's and the seed script's, select the same rules.
LEMMA StepsOfRoute ==
    ASSUME NEW program, NEW budget \in Nat
    PROVE  /\ ApprovalSteps(program, budget) = RouteOf(program, budget)
           /\ SeedSteps(program, budget) = RouteOf(program, budget)
<1>1. LowBudget # HighBudget
  BY DEF LowBudget, HighBudget
<1> QED BY <1>1, BranchesExclude, RulesHaveConditions DEF ApprovalSteps, SeedSteps, RouteOf

LEMMA ThreeInOrder ==
    ASSUME NEW r, NEW s, NEW t,
           r.stepOrder = 1, s.stepOrder = 2, t.stepOrder = 3,
           r.isFinal = FALSE, s.isFinal = FALSE, t.isFinal = TRUE
    PROVE  IsRoute({r, s, t})
<1>1. {x.stepOrder : x \in {r, s, t}} = 1..3
  <2>1. {x.stepOrder : x \in {r, s, t}} = {1, 2, 3}
    OBVIOUS
  <2>2. {1, 2, 3} = 1..3
    OBVIOUS
  <2> QED BY <2>1, <2>2
<1>2. \A x, y \in {r, s, t} : x.stepOrder = y.stepOrder => x = y
  OBVIOUS
<1>3. \A x \in {r, s, t} : x.isFinal <=> x.stepOrder = 3
  OBVIOUS
<1> QED BY <1>1, <1>2, <1>3 DEF IsRoute

LEMMA RouteIsRoute ==
    ASSUME NEW program \in Programs, NEW budget \in Nat
    PROVE  IsRoute(RouteOf(program, budget)) /\ RouteOf(program, budget) \subseteq RoutingRules
<1>0. LowBudget # NoCondition /\ HighBudget # NoCondition /\ LowBudget # HighBudget
  BY DEF LowBudget, HighBudget, NoCondition
<1> DEFINE UG1 == Rule("UG", 1, "COORDINATOR", "APPROVAL", NoCondition, FALSE)
           UG2 == Rule("UG", 2, "EVALUATOR", "APPROVAL", NoCondition, FALSE)
           UG3 == Rule("UG", 3, "COORDINATOR", "APPROVAL", NoCondition, TRUE)
           PG1 == Rule("PG", 1, "DGC_MEMBER", "FORM", NoCondition, FALSE)
           PG2 == Rule("PG", 2, "ADRPM", "APPROVAL", NoCondition, FALSE)
           PG3 == Rule("PG", 3, "PG_OFFICE", "APPROVAL", NoCondition, TRUE)
           G1 == Rule("GENERAL", 1, "RAD", "APPROVAL", NoCondition, FALSE)
           G2 == Rule("GENERAL", 2, "ADRPM", "APPROVAL", NoCondition, FALSE)
           Low == Rule("GENERAL", 3, "VPRTT", "FORM", LowBudget, TRUE)
           High == Rule("GENERAL", 3, "AC_MEMBER", "VOTE", HighBudget, TRUE)
<1>1. RoutingRules = {UG1, UG2, UG3, PG1, PG2, PG3, G1, G2, Low, High}
  BY DEF RoutingRules
<1>2. /\ \A r \in {UG1, UG2, UG3} : r.program = "UG" /\ r.condition = NoCondition
      /\ \A r \in {PG1, PG2, PG3} : r.program = "PG" /\ r.condition = NoCondition
      /\ \A r \in {G1, G2, Low, High} : r.program = "GENERAL"
      /\ \A r \in {G1, G2} : r.condition = NoCondition
      /\ Low.condition = LowBudget /\ High.condition = HighBudget
  BY DEF Rule
<1>3. /\ \A r \in {UG1, PG1, G1} : r.stepOrder = 1 /\ r.isFinal = FALSE
      /\ \A r \in {UG2, PG2, G2} : r.stepOrder = 2 /\ r.isFinal = FALSE
      /\ \A r \in {UG3, PG3, Low, High} : r.stepOrder = 3 /\ r.isFinal = TRUE
  BY DEF Rule
<1> HIDE DEF UG1, UG2, UG3, PG1, PG2, PG3, G1, G2, Low, High
<1>4. CASE program = "UG"
  <2>1. RouteOf(program, budget) = {UG1, UG2, UG3}
    BY <1>4, <1>1, <1>2 DEF RouteOf
  <2> QED BY <2>1, <1>1, <1>3, ThreeInOrder
<1>5. CASE program = "PG"
  <2>1. RouteOf(program, budget) = {PG1, PG2, PG3}
    BY <1>5, <1>1, <1>2 DEF RouteOf
  <2> QED BY <2>1, <1>1, <1>3, ThreeInOrder
<1>6. CASE program = "GENERAL" /\ budget < 500000
  <2>1. RouteOf(program, budget) = {G1, G2, Low}
    BY <1>0, <1>6, <1>1, <1>2 DEF RouteOf
  <2> QED BY <2>1, <1>1, <1>3, ThreeInOrder
<1>7. CASE program = "GENERAL" /\ ~(budget < 500000)
  <2>1. RouteOf(program, budget) = {G1, G2, High}
    BY <1>0, <1>7, <1>1, <1>2 DEF RouteOf
  <2> QED BY <2>1, <1>1, <1>3, ThreeInOrder
<1> QED BY <1>4, <1>5, <1>6, <1>7 DEF Programs

-----------------------------------------------------------------------------
(* A proposal that may get steps is one that a route can be found for, and *)
(* the steps it has, if it has any, are such a route.                      *)

Made(p) == proposal[p].program \in Programs /\ proposal[p].budget \in Nat

IsRow(s) == s = [status |-> s.status, program |-> s.program, budget |-> s.budget,
                 current |-> s.current]

MadeBeforeUse ==
    /\ proposal = [p \in Proposals |-> proposal[p]]
    /\ active = [p \in Proposals |-> active[p]]
    /\ \A p \in Proposals : IsRow(proposal[p])
    /\ \A p \in Proposals : Made(p) \/ (proposal[p].status = "none" /\ active[p] = {})

RouteInv ==
    /\ MadeBeforeUse
    /\ steps = [p \in Proposals |-> steps[p]]
    /\ StepsAreARoute

\* What an action does to one proposal that has been made.
LEMMA OtherProposalsStay ==
    ASSUME RouteInv, NEW p \in Proposals, Made(p), NEW s, NEW a,
           SetStatus(p, s) \/ UNCHANGED proposal,
           active' = [active EXCEPT ![p] = a]
    PROVE  MadeBeforeUse'
<1>1. /\ proposal' = [q \in Proposals |-> proposal'[q]]
      /\ Made(p)' /\ IsRow(proposal'[p])
      /\ \A q \in Proposals : q # p => proposal'[q] = proposal[q]
  <2>1. CASE UNCHANGED proposal
    BY <2>1 DEF RouteInv, MadeBeforeUse, Made
  <2>2. CASE SetStatus(p, s)
    <3>1. /\ proposal' = [q \in Proposals |-> proposal'[q]]
          /\ \A q \in Proposals : q # p => proposal'[q] = proposal[q]
          /\ proposal'[p] = [proposal[p] EXCEPT !.status = s]
      BY <2>2 DEF RouteInv, MadeBeforeUse, SetStatus
    <3>2. /\ proposal'[p].program = proposal[p].program
          /\ proposal'[p].budget = proposal[p].budget
          /\ IsRow(proposal'[p])
      BY <3>1 DEF RouteInv, MadeBeforeUse, IsRow
    <3> QED BY <3>1, <3>2 DEF Made
  <2> QED BY <2>1, <2>2
<1>2. /\ active' = [q \in Proposals |-> active'[q]]
      /\ \A q \in Proposals : q # p => active'[q] = active[q]
  BY DEF RouteInv, MadeBeforeUse
<1> QED BY <1>1, <1>2 DEF RouteInv, MadeBeforeUse, Made

LEMMA RouteStart == DraftInit => RouteInv
<1> SUFFICES ASSUME DraftInit PROVE RouteInv
  OBVIOUS
<1>1. \A p \in Proposals : proposal[p] \in SeededProposals
  BY DEF DraftInit
<1>2. \A s \in SeededProposals : s # NoProposal => s.program \in Programs /\ s.budget \in Nat
  BY DEF SeededProposals, Programs
<1>3. NoProposal.status = "none"
  BY DEF NoProposal
<1>4. MadeBeforeUse
  <2>1. \A p \in Proposals : proposal[p] = NoProposal => active[p] = {}
    BY DEF DraftInit, FirstOf
  <2>2. \A s \in SeededProposals : IsRow(s)
    BY DEF SeededProposals, NoProposal, IsRow
  <2> QED BY <2>1, <2>2, <1>1, <1>2, <1>3 DEF DraftInit, MadeBeforeUse, Made
<1>5. steps = [p \in Proposals |-> steps[p]]
  BY DEF DraftInit
<1>6. ASSUME NEW p \in Proposals, steps[p] # {} PROVE IsRoute(steps[p])
  <2>1. proposal[p] # NoProposal /\ steps[p] = SeedSteps(proposal[p].program, proposal[p].budget)
    BY <1>6 DEF DraftInit
  <2> QED BY <2>1, <1>1, <1>2, StepsOfRoute, RouteIsRoute
<1> QED BY <1>4, <1>5, <1>6 DEF RouteInv, StepsAreARoute

LEMMA RouteStep == RouteInv /\ [DraftNext]_draftVars => RouteInv'
<1> SUFFICES ASSUME RouteInv, [DraftNext]_draftVars PROVE RouteInv'
  OBVIOUS
<1>1. ASSUME UNCHANGED <<proposal, active, steps>> PROVE RouteInv'
  BY <1>1 DEF RouteInv, MadeBeforeUse, Made, StepsAreARoute
<1>2. ASSUME MadeBeforeUse', UNCHANGED steps PROVE RouteInv'
  BY <1>2 DEF RouteInv, StepsAreARoute
<1>3. ASSUME NEW f \in Files, Upload(f) PROVE RouteInv'
  BY <1>3, <1>1 DEF Upload, routeVars
<1>4. ASSUME NEW e \in Editors, EditStep(e) PROVE RouteInv'
  <2>1. CASE \E p \in Proposals, f \in Files \cup {"none"} : Create(e, p, f) \/ UpdateProposal(e, p, f)
    BY <2>1, <1>1 DEF Create, UpdateProposal, routeVars
  <2>2. CASE CommitCreate(e)
    <3> DEFINE made(a) == [status |-> "Draft", program |-> a[1], budget |-> a[2],
                           current |-> Cardinality(versions) + 1]
    <3>1. PICK a \in Applications : proposal' = [proposal EXCEPT ![request[e].proposal] = made(a)]
      BY <2>2 DEF CommitCreate
    <3>2. made(a).program \in Programs /\ made(a).budget \in Nat
      BY ApplicationsAssumption
    <3>3. UNCHANGED <<steps, active>>
      BY <2>2 DEF CommitCreate, routeVars
    <3>4. IsRow(made(a)) /\ made(a).status = "Draft"
      BY DEF IsRow
    <3> HIDE DEF made
    <3>5. MadeBeforeUse'
      BY <3>1, <3>2, <3>3, <3>4 DEF RouteInv, MadeBeforeUse, Made
    <3> QED BY <3>3, <3>5, <1>2
  <2>3. CASE CheckFile(e)
    BY <2>3, <1>1 DEF CheckFile, routeVars
  <2>4. CASE AttachToProposal(e)
    BY <2>4, <1>1 DEF AttachToProposal, routeVars
  <2>5. CASE CommitUpdate(e)
    <3> DEFINE p == request[e].proposal
               id == Cardinality(versions) + 1
    <3>1. UNCHANGED <<steps, active>>
      BY <2>5 DEF CommitUpdate, routeVars
    <3>2. proposal' = [proposal EXCEPT ![p].current = id]
      BY <2>5 DEF CommitUpdate
    <3>3. /\ proposal' = [q \in Proposals |-> proposal'[q]]
          /\ \A q \in Proposals : q # p => proposal'[q] = proposal[q]
          /\ p \in Proposals => proposal'[p] = [proposal[p] EXCEPT !.current = id]
      BY <3>2 DEF RouteInv, MadeBeforeUse
    <3> HIDE DEF p, id
    <3>4. ASSUME p \in Proposals
          PROVE  /\ proposal'[p].status = proposal[p].status
                 /\ proposal'[p].program = proposal[p].program
                 /\ proposal'[p].budget = proposal[p].budget
                 /\ IsRow(proposal'[p])
      BY <3>3, <3>4 DEF RouteInv, MadeBeforeUse, IsRow
    <3>5. MadeBeforeUse'
      BY <3>1, <3>3, <3>4 DEF RouteInv, MadeBeforeUse, Made
    <3> QED BY <3>1, <3>5, <1>2
  <2>6. CASE CommitText(e)
    BY <2>6, <1>1 DEF CommitText, routeVars
  <2>7. CASE FailRequest(e)
    BY <2>7, <1>1 DEF FailRequest, routeVars
  <2> QED BY <1>4, <2>1, <2>2, <2>3, <2>4, <2>5, <2>6, <2>7 DEF EditStep
<1>5. ASSUME NEW p \in Proposals, Submit(p) PROVE RouteInv'
  <2>1. proposal[p].status \in Editable /\ SetStatus(p, "Under_Review")
    BY <1>5 DEF Submit
  <2>2. Made(p)
    BY <2>1 DEF RouteInv, MadeBeforeUse, Editable
  <2>3. PICK a : active' = [active EXCEPT ![p] = a]
    BY <1>5 DEF Submit
  <2>4. MadeBeforeUse'
    BY <2>1, <2>2, <2>3, OtherProposalsStay
  <2>5. CASE steps' = [steps EXCEPT ![p] = ApprovalSteps(proposal[p].program, proposal[p].budget)]
    <3>1. IsRoute(ApprovalSteps(proposal[p].program, proposal[p].budget))
      BY <2>2, StepsOfRoute, RouteIsRoute DEF Made
    <3> QED BY <2>4, <2>5, <3>1 DEF RouteInv, StepsAreARoute
  <2> QED BY <1>5, <2>4, <2>5, <1>2 DEF Submit
<1>6. ASSUME NEW p \in Proposals, Accept(p) PROVE RouteInv'
  <2>1. Made(p)
    BY <1>6 DEF Accept, RouteInv, MadeBeforeUse
  <2>2. SetStatus(p, "Approved") \/ UNCHANGED proposal
    BY <1>6 DEF Accept
  <2>3. PICK a : active' = [active EXCEPT ![p] = a]
    BY <1>6 DEF Accept
  <2>4. MadeBeforeUse'
    BY <2>1, <2>2, <2>3, OtherProposalsStay
  <2> QED BY <1>6, <2>4, <1>2 DEF Accept
<1>7. ASSUME NEW p \in Proposals, Return(p) PROVE RouteInv'
  <2>1. Made(p)
    BY <1>7 DEF Return, RouteInv, MadeBeforeUse
  <2>2. PICK s : SetStatus(p, s)
    BY <1>7 DEF Return
  <2>3. active' = [active EXCEPT ![p] = {}]
    BY <1>7 DEF Return
  <2>4. MadeBeforeUse'
    BY <2>1, <2>2, <2>3, OtherProposalsStay
  <2> QED BY <1>7, <2>4, <1>2 DEF Return
<1>8. ASSUME NEW p \in Proposals, ScheduleDefence(p) PROVE RouteInv'
  <2>1. Made(p)
    BY <1>8 DEF ScheduleDefence, RouteInv, MadeBeforeUse
  <2>2. SetStatus(p, "Under_Review") /\ UNCHANGED <<steps, active>>
    BY <1>8 DEF ScheduleDefence, routeVars
  <2>3. active' = [active EXCEPT ![p] = active[p]]
    BY <2>2 DEF RouteInv, MadeBeforeUse
  <2>4. MadeBeforeUse'
    BY <2>1, <2>2, <2>3, OtherProposalsStay
  <2> QED BY <2>2, <2>4, <1>2
<1>9. CASE UNCHANGED draftVars
  BY <1>9, <1>1 DEF draftVars, routeVars
<1> QED BY <1>3, <1>4, <1>5, <1>6, <1>7, <1>8, <1>9 DEF DraftNext

\* The application of which a proposal is made never changes, and its steps are chosen once:
\* what they are is a route whatever the budget is, at the limit too.
THEOREM ProposalsHaveARoute == DraftSpec => []StepsAreARoute
<1>1. RouteInv => StepsAreARoute
  BY DEF RouteInv
<1> QED BY <1>1, RouteStart, RouteStep, PTL DEF DraftSpec

-----------------------------------------------------------------------------
(* Requests and files. *)

Row == [id : Nat, number : Nat, proposal : Proposals \cup {"none"}, file : Files \cup {"none"}]
Request == [at : {"idle", "create", "text", "file", "attach", "write"},
            proposal : Proposals \cup {"none"}, file : Files \cup {"none"}, current : Nat]
FileRow == [status : {"none", "TEMP", "ATTACHED"}, owner : Proposals \cup {"none"}]

\* The ids of versions number the rows, and the current version of a proposal is one of its own.
DraftTypes ==
    /\ files \in [Files -> FileRow]
    /\ request \in [Editors -> Request]
    /\ \A e \in Editors : request[e].at # "idle" => request[e].proposal \in Proposals
    /\ \A e \in Editors : request[e].at \in {"file", "attach", "write"} => request[e].file \in Files
    /\ IsFiniteSet(versions) /\ versions \subseteq Row
    /\ \A v \in versions : v.id <= Cardinality(versions)
    /\ \A p \in Proposals : proposal[p].current \in 0..Cardinality(versions)
    /\ \A v \in versions, p \in Proposals : v.id = proposal[p].current => v.proposal = p

LEMMA IdleRequest == Idle \in Request /\ Idle.at = "idle" /\ Idle.file = "none"
BY DEF Idle, Request

\* What the rows of the proposals and of the files keep when one of them is changed.
LEMMA StatusKeepsRest ==
    ASSUME RouteInv, NEW p \in Proposals, NEW s, SetStatus(p, s)
    PROVE  /\ \A q \in Proposals : proposal'[q].current = proposal[q].current
           /\ \A q \in Proposals \ {p} : proposal'[q] = proposal[q]
           /\ proposal'[p].status = s
<1>1. proposal' = [proposal EXCEPT ![p] = [proposal[p] EXCEPT !.status = s]]
  BY DEF SetStatus
<1>2. /\ [proposal[p] EXCEPT !.status = s].current = proposal[p].current
      /\ [proposal[p] EXCEPT !.status = s].status = s
  BY DEF RouteInv, MadeBeforeUse, IsRow
<1> QED BY <1>1, <1>2 DEF RouteInv, MadeBeforeUse

LEMMA AttachedFiles ==
    ASSUME DraftTypes, NEW f \in Files \cup {"none"}, NEW p \in Proposals
    PROVE  /\ Attached(f, p) \in [Files -> FileRow]
           /\ \A g \in Files : Attached(f, p)[g] =
                  IF g = f THEN [status |-> "ATTACHED", owner |-> p] ELSE files[g]
<1>1. [status |-> "ATTACHED", owner |-> p] \in FileRow
  BY DEF FileRow
<1> QED BY <1>1, FilesAssumption DEF DraftTypes, Attached

\* A version that is inserted has the next id.
LEMMA NewVersion ==
    ASSUME DraftTypes, NEW v \in Row, v.id = Cardinality(versions) + 1
    PROVE  /\ IsFiniteSet(versions \cup {v})
           /\ Cardinality(versions \cup {v}) = Cardinality(versions) + 1
           /\ Cardinality(versions) \in Nat
<1>1. Cardinality(versions) \in Nat
  BY FS_CardinalityType DEF DraftTypes
<1>2. v \notin versions
  BY <1>1 DEF DraftTypes
<1> QED BY <1>1, <1>2, FS_AddElement DEF DraftTypes

\* Rows of versions and of proposals, when a version becomes the current one.
LEMMA VersionStep ==
    ASSUME DraftTypes, NEW v \in Row, v.id = Cardinality(versions) + 1, v.proposal \in Proposals,
           versions' = versions \cup {v},
           proposal'[v.proposal].current = v.id,
           \A p \in Proposals \ {v.proposal} : proposal'[p].current = proposal[p].current,
           files' \in [Files -> FileRow],
           request' \in [Editors -> Request],
           \A e \in Editors : request'[e] = request[e] \/ request'[e] = Idle
    PROVE  DraftTypes'
<1>1. /\ IsFiniteSet(versions') /\ Cardinality(versions') = Cardinality(versions) + 1
      /\ Cardinality(versions) \in Nat
  BY NewVersion
<1>2. versions' \subseteq Row
  BY DEF DraftTypes
<1>3. \A w \in versions' : w.id \in Nat /\ w.id <= Cardinality(versions')
  BY <1>1, <1>2 DEF DraftTypes, Row
<1>4. \A p \in Proposals : proposal'[p].current \in 0..Cardinality(versions')
  BY <1>1 DEF DraftTypes
<1>5. ASSUME NEW w \in versions', NEW p \in Proposals, w.id = proposal'[p].current
      PROVE  w.proposal = p
  <2>1. CASE p = v.proposal
    BY <1>1, <1>5, <2>1 DEF DraftTypes
  <2>2. CASE p # v.proposal
    <3>1. proposal'[p].current <= Cardinality(versions)
      BY <1>1, <2>2 DEF DraftTypes
    <3>2. w # v
      BY <1>1, <1>5, <3>1
    <3> QED BY <1>5, <2>2, <3>2 DEF DraftTypes
  <2> QED BY <2>1, <2>2
<1>6. \A e \in Editors : request'[e].at # "idle" => request'[e].proposal \in Proposals
  BY IdleRequest DEF DraftTypes
<1>7. \A e \in Editors : request'[e].at \in {"file", "attach", "write"} => request'[e].file \in Files
  BY IdleRequest DEF DraftTypes
<1> QED BY <1>1, <1>2, <1>3, <1>4, <1>5, <1>6, <1>7 DEF DraftTypes

\* Nothing of this changes but a request.
LEMMA RequestStep ==
    ASSUME DraftTypes, UNCHANGED <<proposal, versions>>, files' \in [Files -> FileRow],
           NEW e \in Editors, NEW q \in Request, request' = [request EXCEPT ![e] = q],
           q.at # "idle" => q.proposal \in Proposals,
           q.at \in {"file", "attach", "write"} => q.file \in Files
    PROVE  DraftTypes'
BY DEF DraftTypes

LEMMA GotoGoes ==
    ASSUME DraftTypes, NEW e \in Editors, NEW at \in {"attach", "write"}, Goto(e, at)
    PROVE  /\ request' = [request EXCEPT ![e] = [request[e] EXCEPT !.at = at]]
           /\ [request[e] EXCEPT !.at = at] \in Request
           /\ [request[e] EXCEPT !.at = at].at = at
           /\ [request[e] EXCEPT !.at = at].proposal = request[e].proposal
           /\ [request[e] EXCEPT !.at = at].file = request[e].file
           /\ [request[e] EXCEPT !.at = at].current = request[e].current
<1>1. request[e] \in Request
  BY DEF DraftTypes
<1> QED BY <1>1 DEF Goto, Request

\* The request that begins.
LEMMA BeginBegins ==
    ASSUME DraftTypes, NEW e \in Editors, NEW at \in {"create", "text", "file"},
           NEW p \in Proposals, NEW f \in Files \cup {"none"}, Begin(e, at, p, f)
    PROVE  \E q \in Request :
               /\ request' = [request EXCEPT ![e] = q]
               /\ q = [at |-> at, proposal |-> p, file |-> f, current |-> proposal[p].current]
<1>1. proposal[p].current \in Nat
  BY FS_CardinalityType DEF DraftTypes
<1> QED BY <1>1 DEF Begin, Request

LEMMA DraftTypesStep ==
    RouteInv /\ DraftTypes /\ [DraftNext]_draftVars => DraftTypes'
<1> SUFFICES ASSUME RouteInv, DraftTypes, [DraftNext]_draftVars PROVE DraftTypes'
  OBVIOUS
<1>1. ASSUME NEW f \in Files, Upload(f) PROVE DraftTypes'
  <2>1. [status |-> "TEMP", owner |-> "none"] \in FileRow
    BY DEF FileRow
  <2> QED BY <1>1, <2>1 DEF Upload, DraftTypes
<1>2. ASSUME NEW e \in Editors, EditStep(e) PROVE DraftTypes'
  <2>1. ASSUME NEW p \in Proposals, NEW f \in Files \cup {"none"},
               Create(e, p, f) \/ UpdateProposal(e, p, f)
        PROVE  DraftTypes'
    <3>1. PICK at \in {"create", "text", "file"} :
              Begin(e, at, p, f) /\ (at = "file" => f # "none")
      BY <2>1 DEF Create, UpdateProposal
    <3>2. UNCHANGED <<proposal, versions, files>>
      BY <2>1 DEF Create, UpdateProposal
    <3>3. PICK q \in Request :
              /\ request' = [request EXCEPT ![e] = q]
              /\ q = [at |-> at, proposal |-> p, file |-> f, current |-> proposal[p].current]
      BY <3>1, BeginBegins
    <3>4. q.at = at /\ q.proposal = p /\ q.file = f
      BY <3>3
    <3>5. files' \in [Files -> FileRow]
      BY <3>2 DEF DraftTypes
    <3>6. q.at \in {"file", "attach", "write"} => q.file \in Files
      BY <3>1, <3>4
    <3> QED BY <3>2, <3>3, <3>4, <3>5, <3>6, RequestStep
  <2>2. CASE CommitCreate(e)
    <3> DEFINE v == [id |-> Cardinality(versions) + 1, number |-> 1,
                     proposal |-> request[e].proposal, file |-> request[e].file]
    <3>1. /\ request[e].proposal \in Proposals /\ request[e].file \in Files \cup {"none"}
          /\ Cardinality(versions) + 1 \in Nat
      BY <2>2, FS_CardinalityType DEF CommitCreate, DraftTypes, Request
    <3>2. v \in Row /\ v.id = Cardinality(versions) + 1 /\ v.proposal = request[e].proposal
      BY <3>1 DEF Row
    <3>3. PICK a \in Applications : proposal' = [proposal EXCEPT ![request[e].proposal] =
              [status |-> "Draft", program |-> a[1], budget |-> a[2],
               current |-> Cardinality(versions) + 1]]
      BY <2>2 DEF CommitCreate
    <3>4. /\ proposal'[request[e].proposal].current = Cardinality(versions) + 1
          /\ \A p \in Proposals \ {request[e].proposal} : proposal'[p] = proposal[p]
      BY <3>1, <3>3 DEF RouteInv, MadeBeforeUse
    <3>5. versions' = versions \cup {v} /\ files' = Attached(request[e].file, request[e].proposal)
      BY <2>2 DEF CommitCreate
    <3>6. files' \in [Files -> FileRow]
      BY <3>1, <3>5, AttachedFiles
    <3>7. request' = [request EXCEPT ![e] = Idle]
      BY <2>2 DEF CommitCreate, End
    <3>8. /\ request' \in [Editors -> Request]
          /\ \A d \in Editors : request'[d] = request[d] \/ request'[d] = Idle
      BY <3>7, IdleRequest DEF DraftTypes
    <3> HIDE DEF v
    <3> QED BY <3>1, <3>2, <3>4, <3>5, <3>6, <3>8, VersionStep
  <2>3. CASE CheckFile(e)
    <3>1. UNCHANGED <<proposal, versions, files>> /\ request[e].at = "file"
      BY <2>3 DEF CheckFile
    <3>2. files' \in [Files -> FileRow] /\ request[e].proposal \in Proposals /\ request[e].file \in Files
      BY <3>1 DEF DraftTypes
    <3>3. CASE End(e)
      BY <3>1, <3>2, <3>3, IdleRequest, RequestStep DEF End
    <3>4. ASSUME NEW at \in {"attach", "write"}, Goto(e, at) PROVE DraftTypes'
      BY <3>1, <3>2, <3>4, GotoGoes, RequestStep
    <3> QED BY <2>3, <3>3, <3>4 DEF CheckFile
  <2>4. CASE AttachToProposal(e)
    <3>1. request[e].proposal \in Proposals /\ request[e].file \in Files
      BY <2>4 DEF AttachToProposal, DraftTypes
    <3>2. files' \in [Files -> FileRow] /\ UNCHANGED <<proposal, versions>> /\ Goto(e, "write")
      BY <2>4, <3>1, AttachedFiles DEF AttachToProposal
    <3> QED BY <3>1, <3>2, GotoGoes, RequestStep
  <2>5. CASE CommitUpdate(e)
    <3> DEFINE v == [id |-> Cardinality(versions) + 1,
                     number |-> IF request[e].current = 0 THEN 1 ELSE 2,
                     proposal |-> request[e].proposal, file |-> request[e].file]
               p == request[e].proposal
    <3>1. p \in Proposals /\ request[e].file \in Files /\ Cardinality(versions) + 1 \in Nat
      BY <2>5, FS_CardinalityType DEF CommitUpdate, DraftTypes
    <3>2. v \in Row /\ v.id = Cardinality(versions) + 1 /\ v.proposal = p
      BY <3>1 DEF Row
    <3>3. proposal' = [proposal EXCEPT ![p] = [proposal[p] EXCEPT !.current = Cardinality(versions) + 1]]
      BY <2>5 DEF CommitUpdate
    <3>4. [proposal[p] EXCEPT !.current = Cardinality(versions) + 1].current = Cardinality(versions) + 1
      BY <3>1 DEF RouteInv, MadeBeforeUse, IsRow
    <3>5. /\ proposal'[p].current = Cardinality(versions) + 1
          /\ \A q \in Proposals \ {p} : proposal'[q] = proposal[q]
      BY <3>1, <3>3, <3>4 DEF RouteInv, MadeBeforeUse
    <3>6. versions' = versions \cup {v} /\ files' \in [Files -> FileRow]
      BY <2>5 DEF CommitUpdate, DraftTypes
    <3>7. request' = [request EXCEPT ![e] = Idle]
      BY <2>5 DEF CommitUpdate, End
    <3>8. /\ request' \in [Editors -> Request]
          /\ \A d \in Editors : request'[d] = request[d] \/ request'[d] = Idle
      BY <3>7, IdleRequest DEF DraftTypes
    <3> HIDE DEF v, p
    <3> QED BY <3>1, <3>2, <3>5, <3>6, <3>8, VersionStep
  <2>6. CASE CommitText(e) \/ FailRequest(e)
    <3>1. UNCHANGED <<proposal, versions, files>> /\ request' = [request EXCEPT ![e] = Idle]
      BY <2>6 DEF CommitText, FailRequest, End
    <3>2. files' \in [Files -> FileRow]
      BY <3>1 DEF DraftTypes
    <3> QED BY <3>1, <3>2, IdleRequest, RequestStep
  <2> QED BY <1>2, <2>1, <2>2, <2>3, <2>4, <2>5, <2>6 DEF EditStep
<1>3. ASSUME NEW p \in Proposals, Submit(p) \/ Accept(p) \/ Return(p) \/ ScheduleDefence(p)
      PROVE  DraftTypes'
  <2>1. UNCHANGED <<versions, files, request>>
    BY <1>3 DEF Submit, Accept, Return, ScheduleDefence
  <2>2. UNCHANGED proposal \/ \E s : SetStatus(p, s)
    BY <1>3 DEF Submit, Accept, Return, ScheduleDefence
  <2>3. \A q \in Proposals : proposal'[q].current = proposal[q].current
    BY <2>2, StatusKeepsRest
  <2> QED BY <2>1, <2>3 DEF DraftTypes
<1>4. CASE UNCHANGED draftVars
  BY <1>4 DEF draftVars, DraftTypes
<1> QED BY <1>1, <1>2, <1>3, <1>4 DEF DraftNext

LEMMA DraftTypesStart == DraftInit => DraftTypes
<1> SUFFICES ASSUME DraftInit PROVE DraftTypes
  OBVIOUS
<1>1. [status |-> "none", owner |-> "none"] \in FileRow
  BY DEF FileRow
<1>2. versions = {} /\ IsFiniteSet(versions) /\ Cardinality(versions) = 0
  BY FS_EmptySet DEF DraftInit
<1>3. \A p \in Proposals : proposal[p].current = 0
  BY DEF DraftInit, SeededProposals, NoProposal
<1> QED BY <1>1, <1>2, <1>3, IdleRequest DEF DraftInit, DraftTypes

-----------------------------------------------------------------------------
(* Reviewing goes on. *)

\* A proposal that is being created is there for nobody else, and it has no steps; with that,
\* ReviewGoesOn holds of the next state.
ReviewInv ==
    /\ returned = [p \in Proposals |-> returned[p]]
    /\ \A p \in Proposals : proposal[p].status = "none" => steps[p] = {} /\ active[p] = {}
    /\ \A e \in Editors : request[e].at = "create" => proposal[request[e].proposal].status = "none"
    /\ \A d, e \in Editors :
           request[d].at = "create" /\ request[e].at = "create" /\ request[d].proposal = request[e].proposal
               => d = e
    /\ ReviewGoesOn

\* What ReviewGoesOn says of one proposal.
Goes(p) ==
    /\ proposal[p].status = "Under_Review" => active[p] # {}
    /\ proposal[p].status \in Editable => steps[p] = {} \/ returned[p] # {} \/ active[p] # {}

LEMMA RouteHasFirst ==
    ASSUME NEW rules, IsRoute(rules)
    PROVE  FirstOf(rules) # {}
<1>1. {r.stepOrder : r \in rules} = 1..3
  BY DEF IsRoute
<1>2. 1 \in {r.stepOrder : r \in rules} /\ \A s \in rules : s.stepOrder \in 1..3
  BY <1>1
<1>3. PICK r \in rules : r.stepOrder = 1
  BY <1>2
<1>4. \A s \in rules : r.stepOrder <= s.stepOrder
  BY <1>2, <1>3
<1> QED BY <1>3, <1>4 DEF FirstOf

\* A step about one proposal that exists, and about no request.
LEMMA ReviewOfOne ==
    ASSUME RouteInv, ReviewInv, NEW p \in Proposals, proposal[p].status # "none",
           proposal'[p].status # "none",
           \A q \in Proposals \ {p} : proposal'[q] = proposal[q] /\ steps'[q] = steps[q],
           \A q \in Proposals \ {p} : active'[q] = active[q] /\ returned'[q] = returned[q],
           returned' = [q \in Proposals |-> returned'[q]],
           UNCHANGED <<request, mishaps>>,
           \A e \in Editors : request[e].at # "idle" => request[e].proposal \in Proposals,
           "defence" \notin mishaps => Goes(p)'
    PROVE  ReviewInv'
<1>1. \A q \in Proposals : proposal'[q].status = "none" => steps'[q] = {} /\ active'[q] = {}
  BY DEF ReviewInv
<1>2. \A e \in Editors : request[e].at = "create" => request[e].proposal \in Proposals \ {p}
  BY DEF ReviewInv
<1>3. \A e \in Editors : request'[e].at = "create" => proposal'[request'[e].proposal].status = "none"
  BY <1>2 DEF ReviewInv
<1>4. ReviewGoesOn'
  BY DEF ReviewInv, ReviewGoesOn, Goes
<1> QED BY <1>1, <1>3, <1>4 DEF ReviewInv

LEMMA ReviewStep ==
    RouteInv /\ RouteInv' /\ DraftTypes /\ ReviewInv /\ [DraftNext]_draftVars => ReviewInv'
<1> SUFFICES ASSUME RouteInv, RouteInv', DraftTypes, ReviewInv, [DraftNext]_draftVars PROVE ReviewInv'
  OBVIOUS
<1> USE DEF routeVars
<1>0. /\ \A e \in Editors : request[e].at # "idle" => request[e].proposal \in Proposals
      /\ \A p \in Proposals : proposal[p].status # "none" => Made(p)
  BY DEF DraftTypes, RouteInv, MadeBeforeUse
<1>1. ASSUME NEW e \in Editors, NEW q, request' = [request EXCEPT ![e] = q], q.at # "create",
             UNCHANGED <<routeVars, mishaps>>,
             \A p \in Proposals : proposal'[p].status = proposal[p].status
      PROVE  ReviewInv'
  <2>1. \A d \in Editors : request'[d] = IF d = e THEN q ELSE request[d]
    BY <1>1 DEF DraftTypes
  <2>2. \A d \in Editors : request'[d].at = "create" =>
            d # e /\ request'[d] = request[d] /\ request[d].proposal \in Proposals
    BY <1>0, <1>1, <2>1
  <2>3. /\ returned' = [p \in Proposals |-> returned'[p]]
        /\ \A p \in Proposals : proposal'[p].status = "none" => steps'[p] = {} /\ active'[p] = {}
    BY <1>1 DEF ReviewInv
  <2>4. \A d \in Editors : request'[d].at = "create" => proposal'[request'[d].proposal].status = "none"
    BY <1>1, <2>2 DEF ReviewInv
  <2>5. ReviewGoesOn'
    BY <1>1 DEF ReviewInv, ReviewGoesOn
  <2> QED BY <2>2, <2>3, <2>4, <2>5 DEF ReviewInv
<1>2. ASSUME NEW f \in Files, Upload(f) PROVE ReviewInv'
  BY <1>2 DEF Upload, ReviewInv, ReviewGoesOn
<1>3. ASSUME NEW e \in Editors, EditStep(e) PROVE ReviewInv'
  <2>1. ASSUME NEW p \in Proposals, NEW f \in Files \cup {"none"}, Create(e, p, f) PROVE ReviewInv'
    <3>1. /\ Begin(e, "create", p, f) /\ UNCHANGED <<proposal, routeVars, mishaps>>
          /\ proposal[p].status = "none" /\ \A d \in Editors : request[d].proposal # p
      BY <2>1 DEF Create
    <3>2. PICK q \in Request :
              /\ request' = [request EXCEPT ![e] = q]
              /\ q = [at |-> "create", proposal |-> p, file |-> f, current |-> proposal[p].current]
      BY <3>1, BeginBegins
    <3>3. q.proposal = p
      BY <3>2
    <3>4. \A d \in Editors : request'[d] = IF d = e THEN q ELSE request[d]
      BY <3>2 DEF DraftTypes
    <3> QED BY <3>1, <3>3, <3>4 DEF ReviewInv, ReviewGoesOn
  <2>2. ASSUME NEW p \in Proposals, NEW f \in Files \cup {"none"}, UpdateProposal(e, p, f)
        PROVE  ReviewInv'
    <3>1. PICK at \in {"text", "file"} : Begin(e, at, p, f)
      BY <2>2 DEF UpdateProposal
    <3>2. PICK q \in Request :
              /\ request' = [request EXCEPT ![e] = q]
              /\ q = [at |-> at, proposal |-> p, file |-> f, current |-> proposal[p].current]
      BY <3>1, BeginBegins
    <3>3. q.at # "create"
      BY <3>2
    <3>4. UNCHANGED <<proposal, routeVars, mishaps>>
      BY <2>2 DEF UpdateProposal
    <3> QED BY <1>1, <3>2, <3>3, <3>4
  <2>3. CASE CommitCreate(e)
    <3> DEFINE p == request[e].proposal
    <3>1. p \in Proposals /\ proposal[p].status = "none" /\ steps[p] = {}
      BY <1>0, <2>3 DEF CommitCreate, ReviewInv
    <3>2. PICK a \in Applications : proposal' = [proposal EXCEPT ![p] =
              [status |-> "Draft", program |-> a[1], budget |-> a[2],
               current |-> Cardinality(versions) + 1]]
      BY <2>3 DEF CommitCreate
    <3>3. /\ proposal'[p].status = "Draft"
          /\ \A q \in Proposals \ {p} : proposal'[q] = proposal[q]
      BY <3>1, <3>2 DEF RouteInv, MadeBeforeUse
    <3>4. /\ \A d \in Editors : request'[d] = IF d = e THEN Idle ELSE request[d]
          /\ UNCHANGED <<routeVars, mishaps>>
      BY <2>3 DEF CommitCreate, End, DraftTypes
    <3>5. \A d \in Editors : request'[d].at = "create" =>
              /\ request'[d] = request[d] /\ d # e
              /\ request[d].proposal \in Proposals \ {p}
      BY <1>0, <2>3, <3>4, IdleRequest DEF CommitCreate, ReviewInv
    <3>6. \A d \in Editors : request'[d].at = "create" => proposal'[request'[d].proposal].status = "none"
      BY <3>3, <3>5 DEF ReviewInv
    <3>7. ReviewGoesOn'
      BY <3>1, <3>3, <3>4 DEF ReviewInv, ReviewGoesOn
    <3>8. \A q \in Proposals : proposal'[q].status = "none" => steps'[q] = {} /\ active'[q] = {}
      BY <3>3, <3>4 DEF ReviewInv
    <3> HIDE DEF p
    <3> QED BY <3>4, <3>5, <3>6, <3>7, <3>8 DEF ReviewInv
  <2>4. CASE CheckFile(e)
    <3>1. UNCHANGED <<proposal, routeVars, mishaps>>
      BY <2>4 DEF CheckFile
    <3>2. CASE End(e)
      BY <1>1, <3>1, <3>2, IdleRequest DEF End
    <3>3. ASSUME NEW at \in {"attach", "write"}, Goto(e, at) PROVE ReviewInv'
      BY <1>1, <3>1, <3>3, GotoGoes
    <3> QED BY <2>4, <3>2, <3>3 DEF CheckFile
  <2>5. CASE AttachToProposal(e)
    BY <1>1, <2>5, GotoGoes DEF AttachToProposal
  <2>6. CASE CommitUpdate(e)
    <3> DEFINE p == request[e].proposal
               row == [proposal[p] EXCEPT !.current = Cardinality(versions) + 1]
    <3>1. p \in Proposals
      BY <1>0, <2>6 DEF CommitUpdate
    <3>2. proposal' = [proposal EXCEPT ![p] = row]
      BY <2>6 DEF CommitUpdate
    <3>3. row.status = proposal[p].status
      BY <3>1 DEF RouteInv, MadeBeforeUse, IsRow
    <3> HIDE DEF p, row
    <3>4. \A q \in Proposals : proposal'[q].status = proposal[q].status
      BY <3>1, <3>2, <3>3 DEF RouteInv, MadeBeforeUse
    <3> QED BY <1>1, <2>6, <3>4, IdleRequest DEF CommitUpdate, End
  <2>7. CASE CommitText(e) \/ FailRequest(e)
    BY <1>1, <2>7, IdleRequest DEF CommitText, FailRequest, End
  <2> QED BY <1>3, <2>1, <2>2, <2>3, <2>4, <2>5, <2>6, <2>7 DEF EditStep
<1>4. ASSUME NEW p \in Proposals, Submit(p) PROVE ReviewInv'
  <2>1. /\ proposal[p].status \in Editable /\ SetStatus(p, "Under_Review")
        /\ UNCHANGED <<request, mishaps>>
    BY <1>4 DEF Submit
  <2>2. /\ proposal'[p].status = "Under_Review" /\ proposal[p].status # "none"
        /\ \A q \in Proposals \ {p} : proposal'[q] = proposal[q]
    BY <2>1, StatusKeepsRest DEF Editable
  <2>3. ASSUME steps' = [steps EXCEPT ![p] = ApprovalSteps(proposal[p].program, proposal[p].budget)],
               active' = [active EXCEPT ![p] = FirstOf(ApprovalSteps(proposal[p].program, proposal[p].budget))],
               UNCHANGED returned
        PROVE  ReviewInv'
    <3>1. IsRoute(ApprovalSteps(proposal[p].program, proposal[p].budget))
      BY <1>0, <2>2, StepsOfRoute, RouteIsRoute DEF Made
    <3>2. active'[p] # {}
      BY <2>3, <3>1, RouteHasFirst DEF RouteInv, MadeBeforeUse
    <3>3. \A q \in Proposals \ {p} :
              steps'[q] = steps[q] /\ active'[q] = active[q] /\ returned'[q] = returned[q]
      BY <2>3 DEF RouteInv, MadeBeforeUse
    <3>4. returned' = [q \in Proposals |-> returned'[q]]
      BY <2>3 DEF ReviewInv
    <3> QED BY <1>0, <2>1, <2>2, <3>2, <3>3, <3>4, ReviewOfOne DEF Goes, Editable
  <2>4. ASSUME NEW r \in returned[p], active' = [active EXCEPT ![p] = {r}],
               returned' = [returned EXCEPT ![p] = @ \ {r}], UNCHANGED steps
        PROVE  ReviewInv'
    <3>1. active'[p] # {}
      BY <2>4 DEF RouteInv, MadeBeforeUse
    <3>2. \A q \in Proposals \ {p} :
              steps'[q] = steps[q] /\ active'[q] = active[q] /\ returned'[q] = returned[q]
      BY <2>4 DEF RouteInv, MadeBeforeUse, ReviewInv
    <3>3. returned' = [q \in Proposals |-> returned'[q]]
      BY <2>4 DEF ReviewInv
    <3> QED BY <1>0, <2>1, <2>2, <3>1, <3>2, <3>3, ReviewOfOne DEF Goes, Editable
  <2> QED BY <1>4, <2>3, <2>4 DEF Submit
<1>5. ASSUME NEW p \in Proposals, Accept(p) PROVE ReviewInv'
  <2>1. PICK r \in active[p] :
            /\ returned' = [returned EXCEPT ![p] = @ \ {r}]
            /\ \/ SetStatus(p, "Approved") /\ active' = [active EXCEPT ![p] = @ \ {r}]
               \/ \E n : active' = [active EXCEPT ![p] = (@ \ {r}) \cup {n}] /\ UNCHANGED proposal
    BY <1>5 DEF Accept
  <2>2. UNCHANGED <<steps, request, mishaps>>
    BY <1>5 DEF Accept
  <2>3. proposal[p].status # "none"
    <3>1. active[p] # {}
      BY <2>1
    <3> QED BY <3>1 DEF ReviewInv
  <2>4. \A q \in Proposals \ {p} :
            steps'[q] = steps[q] /\ active'[q] = active[q] /\ returned'[q] = returned[q]
    BY <2>1, <2>2 DEF RouteInv, MadeBeforeUse, ReviewInv
  <2>5. returned' = [q \in Proposals |-> returned'[q]]
    BY <2>1 DEF ReviewInv
  <2>6. CASE SetStatus(p, "Approved")
    <3>1. /\ proposal'[p].status = "Approved"
          /\ \A q \in Proposals \ {p} : proposal'[q] = proposal[q]
      BY <2>6, StatusKeepsRest
    <3> QED BY <1>0, <2>2, <2>3, <2>4, <2>5, <3>1, ReviewOfOne DEF Goes, Editable
  <2>7. ASSUME NEW n, active' = [active EXCEPT ![p] = (@ \ {r}) \cup {n}], UNCHANGED proposal
        PROVE  ReviewInv'
    <3>1. active'[p] # {}
      BY <2>7 DEF RouteInv, MadeBeforeUse
    <3> QED BY <1>0, <2>2, <2>3, <2>4, <2>5, <2>7, <3>1, ReviewOfOne DEF Goes
  <2> QED BY <2>1, <2>6, <2>7
<1>6. ASSUME NEW p \in Proposals, Return(p) PROVE ReviewInv'
  <2>1. PICK r \in active[p], s \in Editable :
            /\ returned' = [returned EXCEPT ![p] = @ \cup {r}]
            /\ active' = [active EXCEPT ![p] = {}]
            /\ SetStatus(p, s)
    BY <1>6 DEF Return
  <2>2. UNCHANGED <<steps, request, mishaps>>
    BY <1>6 DEF Return
  <2>3. proposal[p].status # "none"
    <3>1. active[p] # {}
      BY <2>1
    <3> QED BY <3>1 DEF ReviewInv
  <2>4. /\ proposal'[p].status = s
        /\ \A q \in Proposals \ {p} : proposal'[q] = proposal[q]
    BY <2>1, StatusKeepsRest
  <2>5. \A q \in Proposals \ {p} :
            steps'[q] = steps[q] /\ active'[q] = active[q] /\ returned'[q] = returned[q]
    BY <2>1, <2>2 DEF RouteInv, MadeBeforeUse, ReviewInv
  <2>6. returned' = [q \in Proposals |-> returned'[q]] /\ returned'[p] # {}
    BY <2>1 DEF ReviewInv
  <2> QED BY <1>0, <2>2, <2>3, <2>4, <2>5, <2>6, ReviewOfOne DEF Goes, Editable
<1>7. ASSUME NEW p \in Proposals, ScheduleDefence(p) PROVE ReviewInv'
  <2>1. /\ "defence" \in mishaps /\ proposal[p].status # "none" /\ SetStatus(p, "Under_Review")
        /\ UNCHANGED <<routeVars, request, mishaps>>
    BY <1>7 DEF ScheduleDefence
  <2>2. /\ proposal'[p].status = "Under_Review"
        /\ \A q \in Proposals \ {p} : proposal'[q] = proposal[q]
    BY <2>1, StatusKeepsRest
  <2>3. returned' = [q \in Proposals |-> returned'[q]]
    BY <2>1 DEF ReviewInv
  <2> QED BY <1>0, <2>1, <2>2, <2>3, ReviewOfOne
<1>8. CASE UNCHANGED draftVars
  BY <1>8 DEF draftVars, ReviewInv, ReviewGoesOn
<1> QED BY <1>2, <1>3, <1>4, <1>5, <1>6, <1>7, <1>8 DEF DraftNext

LEMMA ReviewStart == DraftInit => ReviewInv
<1> SUFFICES ASSUME DraftInit PROVE ReviewInv
  OBVIOUS
<1>1. \A p \in Proposals : proposal[p] \in SeededProposals
  BY DEF DraftInit
<1>2. /\ \A s \in SeededProposals : s # NoProposal => s.program \in Programs /\ s.budget \in Nat
      /\ \A s \in SeededProposals : s # NoProposal => s.status # "none"
      /\ NoProposal.status = "none"
  BY DEF SeededProposals, Programs, NoProposal
<1>3. \A p \in Proposals : proposal[p] # NoProposal => active[p] # {}
  <2> SUFFICES ASSUME NEW p \in Proposals, proposal[p] # NoProposal PROVE active[p] # {}
    OBVIOUS
  <2>1. steps[p] = SeedSteps(proposal[p].program, proposal[p].budget) /\ active[p] = FirstOf(steps[p])
    BY DEF DraftInit
  <2>2. IsRoute(steps[p])
    BY <1>1, <1>2, <2>1, StepsOfRoute, RouteIsRoute
  <2> QED BY <2>1, <2>2, RouteHasFirst
<1>4. \A p \in Proposals : proposal[p] = NoProposal => steps[p] = {} /\ active[p] = {}
  BY DEF DraftInit, FirstOf
<1>5. \A e \in Editors : request[e].at = "idle"
  BY IdleRequest DEF DraftInit
<1>6. ReviewGoesOn
  BY <1>2, <1>3 DEF ReviewGoesOn, Editable
<1>7. returned = [p \in Proposals |-> returned[p]]
  BY DEF DraftInit
<1> QED BY <1>1, <1>2, <1>4, <1>5, <1>6, <1>7 DEF ReviewInv

\* A proposal under review waits for somebody and one that was sent back can be submitted again,
\* however creators' requests overlap and fail, unless a defence is scheduled, which sets the
\* status whatever it was.
THEOREM ReviewAlwaysGoesOn == DraftSpec => []ReviewGoesOn
<1>1. ReviewInv => ReviewGoesOn
  BY DEF ReviewInv
<1> QED BY <1>1, RouteStart, RouteStep, DraftTypesStart, DraftTypesStep, ReviewStart, ReviewStep, PTL
        DEF DraftSpec

-----------------------------------------------------------------------------
(* Files follow versions. *)

Owned(f, p) == files[f] = [status |-> "ATTACHED", owner |-> p]

\* What a request that is alone knows of its file.
Knows(q) ==
    /\ q.at \in {"create", "attach"} /\ q.file # "none" => Attachable(q.file)
    /\ q.at \in {"file", "attach", "write"} => q.current = proposal[q.proposal].current
    /\ q.at = "write" => Owned(q.file, q.proposal)

OneEditor == \A d, e \in Editors : request[d] # Idle /\ request[e] # Idle => d = e

\* The files of versions are their proposals', and a request finds the file as it left it.
FilesFit ==
    /\ OneEditor
    /\ \A e \in Editors : Knows(request[e])
    /\ \A v \in versions : v.file # "none" => Owned(v.file, v.proposal)

\* A file is attached for a version that is there or about to be.
FilesKept ==
    \A f \in Files : files[f].status = "ATTACHED" =>
        \/ \E v \in versions : v.file = f
        \/ \E e \in Editors : request[e].file = f /\ request[e].at = "write"

FilesInv == ("overlap" \notin mishaps => FilesFit) /\ ("fail" \notin mishaps => FilesKept)

\* A request that begins does so alone.
LEMMA FilesBegin ==
    ASSUME DraftTypes, FilesFit, "overlap" \notin mishaps, NEW e \in Editors,
           NEW at \in {"create", "text", "file"}, NEW p \in Proposals, NEW f \in Files \cup {"none"},
           Begin(e, at, p, f), at = "create" /\ f # "none" => Attachable(f),
           UNCHANGED <<proposal, versions, files>>
    PROVE  FilesFit'
<1>1. \A d \in Editors : request[d] = Idle
  BY DEF Begin, Alone
<1>2. PICK q \in Request :
          /\ request' = [request EXCEPT ![e] = q]
          /\ q = [at |-> at, proposal |-> p, file |-> f, current |-> proposal[p].current]
  BY BeginBegins
<1>3. q.at = at /\ q.proposal = p /\ q.file = f /\ q.current = proposal[p].current
  BY <1>2
<1>4. \A d \in Editors : request'[d] = IF d = e THEN q ELSE Idle
  BY <1>1, <1>2 DEF DraftTypes
<1>5. OneEditor'
  BY <1>4 DEF OneEditor
<1>6. Knows(q)'
  BY <1>3 DEF Knows, Attachable
<1>7. Knows(Idle)'
  BY IdleRequest DEF Knows
<1>8. \A d \in Editors : Knows(request[d])'
  BY <1>4, <1>6, <1>7
<1> QED BY <1>5, <1>8 DEF FilesFit, Owned

\* A request goes on, or ends.
LEMMA FilesGoOn ==
    ASSUME DraftTypes, FilesFit, NEW e \in Editors, request[e] # Idle,
           NEW q, request' = [request EXCEPT ![e] = q], Knows(q)',
           \A v \in versions' : v.file # "none" => Owned(v.file, v.proposal)'
    PROVE  FilesFit'
<1>1. \A d \in Editors \ {e} : request'[d] = request[d] /\ request[d] = Idle
  BY DEF DraftTypes, FilesFit, OneEditor
<1>2. request'[e] = q
  BY DEF DraftTypes
<1>3. OneEditor'
  BY <1>1 DEF OneEditor
<1>4. Knows(Idle)'
  BY IdleRequest DEF Knows
<1>5. \A d \in Editors : Knows(request[d])'
  BY <1>1, <1>2, <1>4
<1> QED BY <1>3, <1>5 DEF FilesFit

\* The version that a commit inserts has the file and the proposal of its request.
LEMMA VersionAdded ==
    ASSUME NEW e \in Editors, CommitCreate(e) \/ CommitUpdate(e)
    PROVE  \E v : /\ versions' = versions \cup {v}
                  /\ v.file = request[e].file /\ v.proposal = request[e].proposal
<1> DEFINE v(n) == [id |-> Cardinality(versions) + 1, number |-> n,
                    proposal |-> request[e].proposal, file |-> request[e].file]
<1>1. \E n : versions' = versions \cup {v(n)}
  BY DEF CommitCreate, CommitUpdate
<1>2. \A n : v(n).file = request[e].file /\ v(n).proposal = request[e].proposal
  OBVIOUS
<1> HIDE DEF v
<1> QED BY <1>1, <1>2

\* A request that goes on keeps what it holds.
LEMMA GotoKeeps ==
    ASSUME DraftTypes, NEW e \in Editors, NEW at \in {"attach", "write"}, Goto(e, at)
    PROVE  \E new \in Request :
               /\ request' = [request EXCEPT ![e] = new]
               /\ new.at = at /\ new.proposal = request[e].proposal
               /\ new.file = request[e].file /\ new.current = request[e].current
BY GotoGoes

LEMMA NotIdle ==
    \A e \in Editors : request[e].at # "idle" => request[e] # Idle
BY IdleRequest

LEMMA FilesFitStep ==
    ASSUME RouteInv, DraftTypes, DraftTypes', FilesFit, "overlap" \notin mishaps, DraftNext
    PROVE  FilesFit'
<1>0. /\ \A e \in Editors : Knows(request[e])
      /\ \A v \in versions : v.file # "none" => Owned(v.file, v.proposal)
      /\ \A v \in versions : v.file \in Files \cup {"none"}
      /\ Knows(Idle)'
  BY IdleRequest DEF FilesFit, DraftTypes, Row, Knows
<1>1. ASSUME NEW f \in Files, Upload(f) PROVE FilesFit'
  <2>1. \A g \in Files : g # f => files'[g] = files[g]
    BY <1>1 DEF Upload, DraftTypes
  <2>2. files[f].status = "none" /\ UNCHANGED <<proposal, versions, request>>
    BY <1>1 DEF Upload
  <2>3. ASSUME NEW g \in Files, Attachable(g) PROVE Attachable(g)'
    BY <2>1, <2>2, <2>3 DEF Attachable
  <2>4. ASSUME NEW g \in Files, NEW p, Owned(g, p) PROVE Owned(g, p)'
    BY <2>1, <2>2, <2>4 DEF Owned
  <2>5. \A e \in Editors : Knows(request[e])'
    <3> SUFFICES ASSUME NEW e \in Editors PROVE Knows(request[e])'
      OBVIOUS
    <3>1. request[e].file \in Files \cup {"none"} /\ (request[e].at = "write" => request[e].file \in Files)
      BY DEF DraftTypes, Request
    <3> QED BY <1>0, <2>2, <2>3, <2>4, <3>1 DEF Knows
  <2>6. \A v \in versions : v.file # "none" => Owned(v.file, v.proposal)'
    BY <1>0, <2>4
  <2> QED BY <2>2, <2>5, <2>6 DEF FilesFit, OneEditor
<1>2. ASSUME NEW e \in Editors, EditStep(e) PROVE FilesFit'
  <2> DEFINE q == request[e]
  <2>0. /\ Knows(q) /\ q \in Request
        /\ q.at # "idle" => q.proposal \in Proposals
        /\ q.at \in {"file", "attach", "write"} => q.file \in Files
    BY <1>0 DEF DraftTypes
  <2>1. ASSUME NEW p \in Proposals, NEW f \in Files \cup {"none"},
               Create(e, p, f) \/ UpdateProposal(e, p, f)
        PROVE  FilesFit'
    <3>1. PICK at \in {"create", "text", "file"} :
              Begin(e, at, p, f) /\ (at = "create" /\ f # "none" => Attachable(f))
      BY <2>1 DEF Create, UpdateProposal
    <3>2. UNCHANGED <<proposal, versions, files>>
      BY <2>1 DEF Create, UpdateProposal
    <3> QED BY <3>1, <3>2, FilesBegin
  <2>2. CASE CommitCreate(e)
    <3>1. /\ q.at = "create" /\ q.proposal \in Proposals /\ q.file \in Files \cup {"none"}
          /\ files' = Attached(q.file, q.proposal) /\ request' = [request EXCEPT ![e] = Idle]
      BY <2>0, <2>2 DEF CommitCreate, End, Request
    <3>2. PICK v : /\ versions' = versions \cup {v}
                   /\ v.file = q.file /\ v.proposal = q.proposal
      BY <2>2, VersionAdded
    <3>3. \A g \in Files : files'[g] = IF g = q.file THEN [status |-> "ATTACHED", owner |-> q.proposal]
                                       ELSE files[g]
      BY <3>1, AttachedFiles
    <3>4. q.file # "none" => Attachable(q.file)
      BY <2>0, <3>1 DEF Knows
    <3>5. ASSUME NEW w \in versions, w.file # "none" PROVE Owned(w.file, w.proposal)'
      <4>1. w.file \in Files /\ Owned(w.file, w.proposal)
        BY <1>0, <3>5
      <4>2. files[w.file].status = "ATTACHED"
        BY <4>1 DEF Owned
      <4>3. w.file # q.file
        BY <3>4, <3>5, <4>1, <4>2 DEF Attachable
      <4> QED BY <1>0, <4>3, <3>3, <3>5, <4>1 DEF Owned
    <3>6. v.file # "none" => Owned(v.file, v.proposal)'
      BY <3>1, <3>2, <3>3 DEF Owned
    <3>7. \A w \in versions' : w.file # "none" => Owned(w.file, w.proposal)'
      BY <3>2, <3>5, <3>6
    <3>8. q # Idle
      BY <3>1, NotIdle
    <3> QED BY <1>0, <3>1, <3>7, <3>8, FilesGoOn
  <2>3. CASE CheckFile(e)
    <3>1. q.at = "file" /\ UNCHANGED <<proposal, versions, files>> /\ q # Idle
      BY <2>3, NotIdle DEF CheckFile
    <3>2. \A w \in versions' : w.file # "none" => Owned(w.file, w.proposal)'
      BY <1>0, <3>1 DEF Owned
    <3>3. CASE End(e)
      BY <1>0, <3>1, <3>2, <3>3, FilesGoOn DEF End
    <3>4. CASE Goto(e, "write") /\ \E v \in versions : v.id = q.current /\ v.file = q.file
      <4>1. q.current = proposal[q.proposal].current /\ q.proposal \in Proposals /\ q.file \in Files
        BY <2>0, <3>1 DEF Knows
      <4>2. Owned(q.file, q.proposal)
        BY <1>0, <3>4, <4>1, FilesAssumption DEF DraftTypes
      <4>3. PICK new \in Request :
                /\ request' = [request EXCEPT ![e] = new]
                /\ new.at = "write" /\ new.proposal = q.proposal
                /\ new.file = q.file /\ new.current = q.current
        BY <3>4, GotoKeeps
      <4>4. Knows(new)'
        BY <3>1, <4>1, <4>2, <4>3 DEF Knows, Owned
      <4> QED BY <3>1, <3>2, <4>3, <4>4, FilesGoOn
    <3>5. CASE Goto(e, "attach") /\ Attachable(q.file)
      <4>1. q.current = proposal[q.proposal].current
        BY <2>0, <3>1 DEF Knows
      <4>2. PICK new \in Request :
                /\ request' = [request EXCEPT ![e] = new]
                /\ new.at = "attach" /\ new.proposal = q.proposal
                /\ new.file = q.file /\ new.current = q.current
        BY <3>5, GotoKeeps
      <4>3. Knows(new)'
        BY <3>1, <3>5, <4>1, <4>2 DEF Knows, Attachable
      <4> QED BY <3>1, <3>2, <4>2, <4>3, FilesGoOn
    <3> QED BY <2>3, <3>3, <3>4, <3>5 DEF CheckFile
  <2>4. CASE AttachToProposal(e)
    <3>1. /\ q.at = "attach" /\ q.proposal \in Proposals /\ q.file \in Files /\ q # Idle
          /\ files' = Attached(q.file, q.proposal) /\ Goto(e, "write")
          /\ UNCHANGED <<proposal, versions>>
      BY <2>0, <2>4, NotIdle DEF AttachToProposal
    <3>2. \A g \in Files : files'[g] = IF g = q.file THEN [status |-> "ATTACHED", owner |-> q.proposal]
                                       ELSE files[g]
      BY <3>1, AttachedFiles
    <3>3. q.current = proposal[q.proposal].current /\ Attachable(q.file)
      BY <2>0, <3>1, FilesAssumption DEF Knows
    <3>4. ASSUME NEW w \in versions, w.file # "none" PROVE Owned(w.file, w.proposal)'
      <4>1. w.file \in Files /\ Owned(w.file, w.proposal)
        BY <1>0, <3>4
      <4>2. files[w.file].status = "ATTACHED"
        BY <4>1 DEF Owned
      <4>3. w.file # q.file
        BY <3>3, <3>4, <4>1, <4>2 DEF Attachable
      <4> QED BY <1>0, <4>3, <3>2, <3>4, <4>1 DEF Owned
    <3>5. PICK new \in Request :
              /\ request' = [request EXCEPT ![e] = new]
              /\ new.at = "write" /\ new.proposal = q.proposal
              /\ new.file = q.file /\ new.current = q.current
      BY <3>1, GotoKeeps
    <3>6. Knows(new)'
      BY <3>1, <3>2, <3>3, <3>5 DEF Knows, Owned
    <3> QED BY <3>1, <3>4, <3>5, <3>6, FilesGoOn
  <2>5. CASE CommitUpdate(e)
    <3>1. /\ q.at = "write" /\ q # Idle /\ Owned(q.file, q.proposal)
          /\ request' = [request EXCEPT ![e] = Idle] /\ UNCHANGED files
      BY <2>0, <2>5, NotIdle DEF CommitUpdate, End, Knows
    <3>2. PICK v : /\ versions' = versions \cup {v}
                   /\ v.file = q.file /\ v.proposal = q.proposal
      BY <2>5, VersionAdded
    <3>3. \A w \in versions' : w.file # "none" => Owned(w.file, w.proposal)'
      BY <1>0, <3>1, <3>2 DEF Owned
    <3> QED BY <1>0, <3>1, <3>3, FilesGoOn
  <2>6. CASE CommitText(e) \/ FailRequest(e)
    <3>1. /\ request[e] # Idle /\ request' = [request EXCEPT ![e] = Idle]
          /\ UNCHANGED <<files, versions>>
      BY <2>6, NotIdle DEF CommitText, FailRequest, End
    <3>2. \A w \in versions' : w.file # "none" => Owned(w.file, w.proposal)'
      BY <1>0, <3>1 DEF Owned
    <3> QED BY <1>0, <3>1, <3>2, FilesGoOn
  <2> QED BY <1>2, <2>1, <2>2, <2>3, <2>4, <2>5, <2>6 DEF EditStep
<1>3. ASSUME NEW p \in Proposals, Submit(p) \/ Accept(p) \/ Return(p) \/ ScheduleDefence(p)
      PROVE  FilesFit'
  <2>1. UNCHANGED <<versions, files, request>>
    BY <1>3 DEF Submit, Accept, Return, ScheduleDefence
  <2>2. UNCHANGED proposal \/ \E s : SetStatus(p, s)
    BY <1>3 DEF Submit, Accept, Return, ScheduleDefence
  <2>3. \A s \in Proposals : proposal'[s].current = proposal[s].current
    BY <2>2, StatusKeepsRest
  <2>4. ASSUME NEW e \in Editors PROVE Knows(request[e])'
    BY <1>0, <2>1, <2>3 DEF Knows, DraftTypes, Attachable, Owned
  <2> QED BY <2>1, <2>4 DEF FilesFit, OneEditor, Owned
<1> QED BY <1>1, <1>2, <1>3 DEF DraftNext

LEMMA FilesKeptStep ==
    ASSUME DraftTypes, FilesKept, "fail" \notin mishaps, DraftNext
    PROVE  FilesKept'
<1>1. ASSUME NEW f \in Files, Upload(f) PROVE FilesKept'
  <2>1. \A g \in Files : files'[g].status = "ATTACHED" => files[g].status = "ATTACHED"
    BY <1>1 DEF Upload, DraftTypes
  <2> QED BY <1>1, <2>1 DEF Upload, FilesKept
<1>2. ASSUME NEW e \in Editors, EditStep(e) PROVE FilesKept'
  <2>1. ASSUME UNCHANGED files, versions \subseteq versions',
               \A d \in Editors \ {e} : request'[d] = request[d],
               request[e].at = "write" => \E v \in versions' : v.file = request[e].file
        PROVE  FilesKept'
    BY <2>1 DEF FilesKept
  <2>2. ASSUME NEW p \in Proposals, NEW f \in Files \cup {"none"},
               Create(e, p, f) \/ UpdateProposal(e, p, f)
        PROVE  FilesKept'
    <3>1. PICK at : Begin(e, at, p, f)
      BY <2>2 DEF Create, UpdateProposal
    <3>2. /\ UNCHANGED <<versions, files>> /\ request[e].at = "idle"
          /\ \A d \in Editors \ {e} : request'[d] = request[d]
      BY <2>2, <3>1, IdleRequest DEF Create, UpdateProposal, Begin, DraftTypes
    <3> QED BY <2>1, <3>2
  <2>3. CASE CommitCreate(e)
    <3>1. /\ request[e].at = "create"
          /\ request[e].proposal \in Proposals /\ request[e].file \in Files \cup {"none"}
          /\ files' = Attached(request[e].file, request[e].proposal)
          /\ \A d \in Editors \ {e} : request'[d] = request[d]
      BY <2>3 DEF CommitCreate, End, DraftTypes, Request
    <3>2. PICK v : versions' = versions \cup {v} /\ v.file = request[e].file
      BY <2>3, VersionAdded
    <3>3. \A g \in Files : g # request[e].file => files'[g] = files[g]
      BY <3>1 DEF Attached, DraftTypes
    <3> QED BY <3>1, <3>2, <3>3 DEF FilesKept
  <2>4. CASE CheckFile(e)
    <3>1. /\ UNCHANGED <<versions, files>> /\ request[e].at = "file"
          /\ \A d \in Editors \ {e} : request'[d] = request[d]
      BY <2>4 DEF CheckFile, Goto, End, DraftTypes
    <3> QED BY <2>1, <3>1
  <2>5. CASE AttachToProposal(e)
    <3>1. /\ request[e].at = "attach"
          /\ request[e].proposal \in Proposals /\ request[e].file \in Files
          /\ files' = Attached(request[e].file, request[e].proposal)
          /\ versions' = versions /\ Goto(e, "write")
      BY <2>5 DEF AttachToProposal, DraftTypes
    <3>2. \A g \in Files : g # request[e].file => files'[g] = files[g]
      BY <3>1 DEF Attached, DraftTypes
    <3>3. /\ request'[e].at = "write" /\ request'[e].file = request[e].file
          /\ \A d \in Editors \ {e} : request'[d] = request[d]
      BY <3>1, GotoGoes DEF DraftTypes
    <3> QED BY <3>1, <3>2, <3>3 DEF FilesKept
  <2>6. CASE CommitUpdate(e)
    <3>1. PICK v : versions' = versions \cup {v} /\ v.file = request[e].file
      BY <2>6, VersionAdded
    <3>2. UNCHANGED files /\ \A d \in Editors \ {e} : request'[d] = request[d]
      BY <2>6 DEF CommitUpdate, End, DraftTypes
    <3> QED BY <2>1, <3>1, <3>2
  <2>7. CASE CommitText(e)
    <3>1. /\ UNCHANGED <<versions, files>> /\ request[e].at = "text"
          /\ \A d \in Editors \ {e} : request'[d] = request[d]
      BY <2>7 DEF CommitText, End, DraftTypes
    <3> QED BY <2>1, <3>1
  <2>8. CASE FailRequest(e)
    BY <2>8 DEF FailRequest
  <2> QED BY <1>2, <2>2, <2>3, <2>4, <2>5, <2>6, <2>7, <2>8 DEF EditStep
<1>3. ASSUME NEW p \in Proposals, Submit(p) \/ Accept(p) \/ Return(p) \/ ScheduleDefence(p)
      PROVE  FilesKept'
  BY <1>3 DEF Submit, Accept, Return, ScheduleDefence, FilesKept
<1> QED BY <1>1, <1>2, <1>3 DEF DraftNext

LEMMA FilesStep ==
    RouteInv /\ DraftTypes /\ DraftTypes' /\ FilesInv /\ [DraftNext]_draftVars => FilesInv'
<1> SUFFICES ASSUME RouteInv, DraftTypes, DraftTypes', FilesInv, [DraftNext]_draftVars PROVE FilesInv'
  OBVIOUS
<1>1. CASE UNCHANGED draftVars
  BY <1>1 DEF draftVars, FilesInv, FilesFit, FilesKept, OneEditor, Knows, Owned, Attachable
<1>2. CASE DraftNext
  <2>1. mishaps' = mishaps
    BY <1>2 DEF DraftNext, Upload, EditStep, Create, UpdateProposal, CommitCreate, CheckFile,
      AttachToProposal, CommitUpdate, CommitText, FailRequest, Submit, Accept, Return, ScheduleDefence
  <2> QED BY <1>2, <2>1, FilesFitStep, FilesKeptStep DEF FilesInv
<1> QED BY <1>1, <1>2

LEMMA FilesStart == DraftInit => FilesInv
<1> SUFFICES ASSUME DraftInit PROVE FilesInv
  OBVIOUS
<1>1. /\ versions = {}
      /\ \A e \in Editors : request[e] = Idle
      /\ \A f \in Files : files[f].status = "none"
  BY DEF DraftInit
<1> QED BY <1>1, IdleRequest DEF FilesInv, FilesFit, FilesKept, OneEditor, Knows

\* The file of a version, and the one that a proposal's details show, are the proposal's, unless
\* two requests take one file at once; and a file that was attached is in a version when the
\* request is over, unless the request fails after attaching it outside its transaction.
THEOREM FilesAlwaysFollow == DraftSpec => []FilesFollowVersions
<1>1. DraftTypes /\ FilesInv => FilesFollowVersions
  <2> SUFFICES ASSUME DraftTypes, FilesInv PROVE FilesFollowVersions
    OBVIOUS
  <2>1. ASSUME "overlap" \notin mishaps, NEW p \in Proposals, NEW f \in DetailedFile(p)
        PROVE  Owned(f, p)
    <3>1. PICK v \in versions : v.id = proposal[p].current /\ v.file = f /\ f # "none"
      BY DEF DetailedFile
    <3> QED BY <2>1, <3>1 DEF DraftTypes, FilesInv, FilesFit
  <2> QED BY <2>1 DEF FilesFollowVersions, FilesInv, FilesFit, FilesKept, Owned
<1> QED BY <1>1, RouteStart, RouteStep, DraftTypesStart, DraftTypesStep, FilesStart, FilesStep, PTL
        DEF DraftSpec

-----------------------------------------------------------------------------
(* The team. *)

Task == [at : {"idle", "clear", "insert"}, role : MemberRoles \cup {"none"},
         users : SUBSET People, twice : SUBSET People]

TeamTypes ==
    /\ rows \in [People -> [MemberRoles -> Nat]]
    /\ task \in [Managers -> Task]
    /\ assigned \subseteq People
    /\ \A m \in Managers : task[m].at # "idle" => task[m].role \in MemberRoles

OneRequest == \A m, n \in Managers : task[m] # NoTask /\ task[n] # NoTask => m = n

Advisors == MembersWith("ADVISOR") \ assigned

\* An advisor's row is inserted when there is no other, unless by the route that does not look.
OneAdvisorComes ==
    /\ \A u, v \in Advisors : u = v
    /\ \A m \in Managers : task[m].at # "idle" /\ task[m].role = "ADVISOR" =>
           /\ \E u \in People : task[m].users = {u}
           /\ task[m].at = "insert" => Advisors = {} \/ task[m].users \subseteq assigned

\* A row is inserted for who has none, and the advisors' rows are deleted when the one who will
\* be advisor may have one.
OneRoleComes ==
    /\ OneRoleEach(People \ assigned)
    /\ \A m \in Managers :
        /\ task[m].twice = {}
        /\ task[m].at = "insert" => \A u \in task[m].users \ assigned : RowsOf(u) = 0
        /\ task[m].at = "clear" =>
               \A u \in task[m].users \ assigned : RowsOf(u) = rows[u][task[m].role]

\* The requests with which rows may come, when they do not overlap.
TeamFits ==
    /\ OneRequest
    /\ "advisors" \notin went => OneAdvisorComes
    /\ "repeat" \notin went => OneRoleComes

TeamInv == TeamTypes /\ ("overlap" \notin went => TeamFits)

LEMMA IdleTask == NoTask \in Task /\ NoTask.at = "idle" /\ NoTask.twice = {} /\ NoTask.users = {}
BY DEF NoTask, Task

LEMMA RowsAreNumbers ==
    ASSUME TeamTypes, NEW u \in People
    PROVE  /\ \A r \in MemberRoles : rows[u][r] \in Nat /\ rows[u][r] <= RowsOf(u)
           /\ RowsOf(u) \in Nat
           /\ RowsOf(u) = 0 <=> RolesOf(u) = {}
<1>1. \A r \in MemberRoles : rows[u][r] \in Nat
  BY DEF TeamTypes
<1>2. MemberRoles = {"PI", "MEMBER", "ADVISOR", "EVALUATOR"}
  BY DEF MemberRoles
<1>3. /\ rows[u]["PI"] \in Nat /\ rows[u]["MEMBER"] \in Nat
      /\ rows[u]["ADVISOR"] \in Nat /\ rows[u]["EVALUATOR"] \in Nat
  BY <1>1, <1>2
<1>4. \A a, b, c, d \in Nat :
          /\ a + b + c + d \in Nat
          /\ a <= a + b + c + d /\ b <= a + b + c + d /\ c <= a + b + c + d /\ d <= a + b + c + d
  OBVIOUS
<1>5. RowsOf(u) = rows[u]["PI"] + rows[u]["MEMBER"] + rows[u]["ADVISOR"] + rows[u]["EVALUATOR"]
  BY DEF RowsOf
<1>6. RowsOf(u) \in Nat /\ \A r \in MemberRoles : rows[u][r] <= RowsOf(u)
  BY <1>2, <1>3, <1>4, <1>5
<1>7. RowsOf(u) = 0 => RolesOf(u) = {}
  BY <1>1, <1>6 DEF RolesOf
<1>8. RolesOf(u) = {} => RowsOf(u) = 0
  BY <1>2, <1>3, <1>5 DEF RolesOf
<1> QED BY <1>1, <1>6, <1>7, <1>8

\* A user who has an advisor's row and no other role has advisor's rows only.
LEMMA OnlyAdvisor ==
    ASSUME TeamTypes, NEW u \in People, RowsOf(u) <= 1, rows[u]["ADVISOR"] > 0
    PROVE  RowsOf(u) = rows[u]["ADVISOR"]
BY DEF TeamTypes, MemberRoles, RowsOf

\* addProposalMembers adds its rows to those there are.
LEMMA InsertAdds ==
    ASSUME TeamTypes, NEW m \in Managers, Insert(m), NEW u \in People
    PROVE  /\ \A r \in MemberRoles :
                  rows'[u][r] = rows[u][r] + (IF r # task[m].role \/ u \notin task[m].users THEN 0
                                              ELSE IF u \in task[m].twice THEN 2 ELSE 1)
           /\ RowsOf(u)' = RowsOf(u) + (IF u \notin task[m].users THEN 0
                                        ELSE IF u \in task[m].twice THEN 2 ELSE 1)
<1> DEFINE more == IF u \notin task[m].users THEN 0 ELSE IF u \in task[m].twice THEN 2 ELSE 1
<1>1. rows'[u] = [rows[u] EXCEPT ![task[m].role] = @ + more]
  BY DEF Insert
<1>2. task[m].role \in MemberRoles /\ rows[u] \in [MemberRoles -> Nat] /\ more \in Nat
  BY DEF TeamTypes, Insert
<1> HIDE DEF more
<1>3. \A r \in MemberRoles : rows'[u][r] = rows[u][r] + (IF r # task[m].role THEN 0 ELSE more)
  BY <1>1, <1>2
<1>4. RowsOf(u)' = RowsOf(u) + more
  BY <1>2, <1>3 DEF RowsOf, MemberRoles
<1> QED BY <1>2, <1>3, <1>4 DEF more

LEMMA ClearClears ==
    ASSUME TeamTypes, NEW m \in Managers, Clear(m), NEW u \in People
    PROVE  rows'[u] = [rows[u] EXCEPT ![task[m].role] = 0]
BY DEF Clear, TeamTypes

\* What a request asks for when it begins.
LEMMA AskTypes ==
    ASSUME TeamTypes, UNCHANGED rows, assigned' \subseteq People,
           NEW m \in Managers, NEW at \in {"clear", "insert"}, NEW role \in MemberRoles,
           NEW users \in SUBSET People, NEW twice \in SUBSET People,
           Ask(m, at, role, users, twice)
    PROVE  TeamTypes'
<1>1. [at |-> at, role |-> role, users |-> users, twice |-> twice] \in Task
  BY DEF Task
<1> QED BY <1>1 DEF Ask, TeamTypes

LEMMA TeamTypesStep == TeamTypes /\ [TeamNext]_teamVars => TeamTypes'
<1> SUFFICES ASSUME TeamTypes, [TeamNext]_teamVars PROVE TeamTypes'
  OBVIOUS
<1>2. {"PI", "MEMBER", "ADVISOR", "EVALUATOR"} = MemberRoles
  BY DEF MemberRoles
<1>3. ASSUME NEW m \in Managers, NEW users \in SUBSET People, NEW twice \in Repeats(users),
             AddMembers(m, users, twice) \/ AssignEvaluators(m, users, twice)
      PROVE  TeamTypes'
  <2>1. PICK new \in SUBSET People, role \in {"MEMBER", "EVALUATOR"} :
            Ask(m, "insert", role, new, twice \cap new)
    BY <1>3 DEF AddMembers, AssignEvaluators
  <2>3. twice \cap new \in SUBSET People /\ role \in MemberRoles
    BY <1>2
  <2>2. UNCHANGED <<rows, assigned>>
    BY <1>3 DEF AddMembers, AssignEvaluators
  <2>4. assigned' \subseteq People
    BY <2>2 DEF TeamTypes
  <2> QED BY <2>1, <2>2, <2>3, <2>4, AskTypes
<1>4. ASSUME NEW m \in Managers, NEW u \in People, AssignAdvisor(m, u) PROVE TeamTypes'
  <2>1. Ask(m, "clear", "ADVISOR", {u}, {}) /\ UNCHANGED <<rows, assigned>>
    BY <1>4 DEF AssignAdvisor
  <2>2. assigned' \subseteq People
    BY <2>1 DEF TeamTypes
  <2> QED BY <1>2, <2>1, <2>2, AskTypes
<1>5. ASSUME NEW m \in Managers, NEW u \in People, AssignUndergradAdvisor(m, u) PROVE TeamTypes'
  <2>1. Ask(m, "insert", "ADVISOR", {u}, {}) /\ UNCHANGED rows
    BY <1>5 DEF AssignUndergradAdvisor
  <2>2. assigned' \subseteq People
    BY <1>5 DEF AssignUndergradAdvisor, TeamTypes
  <2> QED BY <1>2, <2>1, <2>2, AskTypes
<1>6. ASSUME NEW m \in Managers, Clear(m) PROVE TeamTypes'
  <2>1. rows' \in [People -> [MemberRoles -> Nat]]
    BY <1>6 DEF Clear, TeamTypes
  <2>2. task[m] \in Task /\ [task[m] EXCEPT !.at = "insert"] \in Task
    BY DEF TeamTypes, Task
  <2>3. task' = [task EXCEPT ![m] = [task[m] EXCEPT !.at = "insert"]]
    BY <1>6 DEF Clear
  <2>4. task'[m].role = task[m].role /\ task[m].role \in MemberRoles
    BY <1>6, <2>3 DEF Clear, TeamTypes, Task
  <2> QED BY <1>6, <2>1, <2>2, <2>3, <2>4 DEF Clear, TeamTypes
<1>7. ASSUME NEW m \in Managers, Insert(m) PROVE TeamTypes'
  <2>1. rows' \in [People -> [MemberRoles -> Nat]]
    BY <1>7 DEF Insert, TeamTypes
  <2> QED BY <1>7, <2>1, IdleTask DEF Insert, Close, TeamTypes
<1>8. ASSUME NEW m \in Managers, Break(m) PROVE TeamTypes'
  BY <1>8, IdleTask DEF Break, Close, TeamTypes
<1>9. ASSUME NEW users \in SUBSET People, RemoveMembers(users) PROVE TeamTypes'
  <2>1. Nobody \in [People -> [MemberRoles -> Nat]]
    BY DEF Nobody
  <2> QED BY <1>9, <2>1 DEF RemoveMembers, TeamTypes
<1>10. CASE CopyMembers \/ UNCHANGED teamVars
  BY <1>10 DEF CopyMembers, teamVars, TeamTypes
<1> QED BY <1>3, <1>4, <1>5, <1>6, <1>7, <1>8, <1>9, <1>10 DEF TeamNext

\* A request begins when there is no other; what it finds it takes with it.
LEMMA AskStep ==
    ASSUME TeamTypes, TeamTypes', TeamFits, "overlap" \notin went, UNCHANGED <<rows, went>>,
           assigned \subseteq assigned',
           NEW m \in Managers, NEW at \in {"clear", "insert"}, NEW role \in MemberRoles,
           NEW users \in SUBSET People, NEW twice \in SUBSET People,
           Ask(m, at, role, users, twice),
           role = "ADVISOR" =>
               /\ \E u \in People : users = {u}
               /\ at = "insert" => users \subseteq assigned',
           "repeat" \notin went =>
               /\ twice = {}
               /\ at = "insert" => \A u \in users \ assigned' : RowsOf(u) = 0
               /\ at = "clear" => \A u \in users \ assigned' : RowsOf(u) = rows[u][role]
    PROVE  TeamFits'
<1> DEFINE new == [at |-> at, role |-> role, users |-> users, twice |-> twice]
<1>1. \A n \in Managers : task[n] = NoTask
  BY DEF Ask, Free
<1>2. task' = [n \in Managers |-> IF n = m THEN new ELSE NoTask]
  BY <1>1 DEF Ask, TeamTypes
<1>3. /\ new.at = at /\ new.role = role /\ new.users = users /\ new.twice = twice
      /\ NoTask.at = "idle" /\ NoTask.twice = {}
  BY IdleTask
<1> HIDE DEF new
<1>4. OneRequest'
  BY <1>2 DEF OneRequest
<1>5. ASSUME "advisors" \notin went PROVE OneAdvisorComes'
  <2>1. Advisors' \subseteq Advisors
    BY DEF Advisors, MembersWith
  <2>2. \A u, v \in Advisors' : u = v
    BY <1>5, <2>1 DEF TeamFits, OneAdvisorComes
  <2> QED BY <1>2, <1>3, <2>2 DEF OneAdvisorComes
<1>6. ASSUME "repeat" \notin went PROVE OneRoleComes'
  <2>1. \A u : RowsOf(u)' = RowsOf(u)
    BY DEF RowsOf
  <2>2. OneRoleEach(People \ assigned)'
    BY <1>6, <2>1 DEF TeamFits, OneRoleComes, OneRoleEach
  <2>3. ASSUME NEW n \in Managers
        PROVE  /\ task'[n].twice = {}
               /\ task'[n].at = "insert" => \A u \in task'[n].users \ assigned' : RowsOf(u)' = 0
               /\ task'[n].at = "clear" =>
                      \A u \in task'[n].users \ assigned' : RowsOf(u)' = rows'[u][task'[n].role]
    BY <1>2, <1>3, <1>6, <2>1
  <2> QED BY <2>2, <2>3 DEF OneRoleComes
<1> QED BY <1>4, <1>5, <1>6 DEF TeamFits

\* A request ends, and neither it nor another is in progress.
LEMMA CloseStep ==
    ASSUME TeamTypes, TeamFits, UNCHANGED <<went, assigned>>, NEW m \in Managers, task[m] # NoTask,
           Close(m), "advisors" \notin went => \A u, v \in Advisors' : u = v,
           "repeat" \notin went => \A u \in People \ assigned : RowsOf(u)' <= 1
    PROVE  TeamFits'
<1>1. \A n \in Managers : task'[n] = NoTask
  BY DEF Close, TeamTypes, TeamFits, OneRequest
<1>2. OneRequest' /\ ("advisors" \notin went => OneAdvisorComes')
  BY <1>1, IdleTask DEF OneRequest, OneAdvisorComes
<1>3. ASSUME "repeat" \notin went PROVE OneRoleComes'
  BY <1>1, <1>3, IdleTask DEF OneRoleComes, OneRoleEach
<1> QED BY <1>2, <1>3 DEF TeamFits

LEMMA TeamRequestStep ==
    ASSUME TeamTypes, TeamTypes', TeamFits, "overlap" \notin went, NEW m \in Managers,
           \/ \E users \in SUBSET People : \E twice \in Repeats(users) :
                  AddMembers(m, users, twice) \/ AssignEvaluators(m, users, twice)
           \/ \E u \in People : AssignAdvisor(m, u) \/ AssignUndergradAdvisor(m, u)
    PROVE  TeamFits'
<1>0. /\ MemberRoles = {"PI", "MEMBER", "ADVISOR", "EVALUATOR"}
      /\ \A u \in People : RowsOf(u) = 0 <=> RolesOf(u) = {}
  BY RowsAreNumbers DEF MemberRoles
<1>1. ASSUME NEW users \in SUBSET People, NEW twice \in Repeats(users),
             AddMembers(m, users, twice) \/ AssignEvaluators(m, users, twice)
      PROVE  TeamFits'
  <2>1. PICK new \in SUBSET People, role \in {"MEMBER", "EVALUATOR"} :
            /\ Ask(m, "insert", role, new, twice \cap new)
            /\ \A u \in new : RolesOf(u) = {}
    BY <1>1 DEF AddMembers, AssignEvaluators
  <2>2. UNCHANGED <<rows, assigned, went>>
    BY <1>1 DEF AddMembers, AssignEvaluators
  <2>3. twice \cap new \in SUBSET People /\ role \in MemberRoles /\ role # "ADVISOR"
    BY <1>0
  <2>4. "repeat" \notin went => twice \cap new = {}
    BY DEF Repeats
  <2>5. \A u \in new : RowsOf(u) = 0
    BY <1>0, <2>1
  <2> QED BY <2>1, <2>2, <2>3, <2>4, <2>5, AskStep
<1>2. ASSUME NEW u \in People, AssignAdvisor(m, u) PROVE TeamFits'
  <2>1. /\ Ask(m, "clear", "ADVISOR", {u}, {})
        /\ UNCHANGED <<rows, assigned, went>>
        /\ RolesOf(u) = {} \/ "ADVISOR" \in RolesOf(u)
    BY <1>2 DEF AssignAdvisor
  <2>2. ASSUME "repeat" \notin went, u \notin assigned PROVE RowsOf(u) = rows[u]["ADVISOR"]
    <3>1. CASE RolesOf(u) = {}
      BY <1>0, <3>1, RowsAreNumbers DEF RolesOf
    <3>2. CASE "ADVISOR" \in RolesOf(u)
      <4>1. RowsOf(u) <= 1
        BY <2>2 DEF TeamFits, OneRoleComes, OneRoleEach
      <4> QED BY <3>2, <4>1, OnlyAdvisor DEF RolesOf
    <3> QED BY <2>1, <3>1, <3>2
  <2> QED BY <1>0, <2>1, <2>2, AskStep
<1>3. ASSUME NEW u \in People, AssignUndergradAdvisor(m, u) PROVE TeamFits'
  <2>1. /\ Ask(m, "insert", "ADVISOR", {u}, {})
        /\ UNCHANGED <<rows, went>>
        /\ assigned' = assigned \cup {u}
    BY <1>3 DEF AssignUndergradAdvisor
  <2> QED BY <1>0, <2>1, AskStep
<1> QED BY <1>1, <1>2, <1>3

LEMMA ClearStep ==
    ASSUME TeamTypes, TeamTypes', TeamFits, NEW m \in Managers, Clear(m)
    PROVE  TeamFits'
<1> DEFINE t == task[m]
<1>1. /\ t.at = "clear" /\ t.role \in MemberRoles /\ t # NoTask
      /\ UNCHANGED <<assigned, went>>
  BY IdleTask DEF Clear, TeamTypes
<1>2. task' = [task EXCEPT ![m] = [t EXCEPT !.at = "insert"]]
  BY <1>1 DEF Clear
<1>3. /\ task'[m].at = "insert" /\ task'[m].role = t.role
      /\ task'[m].users = t.users /\ task'[m].twice = t.twice
  BY <1>2 DEF TeamTypes, Task
<1>4. \A n \in Managers \ {m} : task'[n] = task[n] /\ task[n] = NoTask
  BY <1>1, <1>2 DEF TeamTypes, TeamFits, OneRequest
<1> HIDE DEF t
<1>5. OneRequest'
  BY <1>4 DEF OneRequest
<1>6. /\ Advisors' \subseteq Advisors
      /\ t.role = "ADVISOR" => Advisors' = {}
  <2>1. \A u \in People : rows'[u]["ADVISOR"] = IF t.role = "ADVISOR" THEN 0 ELSE rows[u]["ADVISOR"]
    BY <1>1, ClearClears DEF TeamTypes, MemberRoles, t
  <2> QED BY <1>1, <2>1 DEF Advisors, MembersWith
<1>7. ASSUME "advisors" \notin went PROVE OneAdvisorComes'
  <2>1. \A u, v \in Advisors' : u = v
    BY <1>6, <1>7 DEF TeamFits, OneAdvisorComes
  <2>2. t.role = "ADVISOR" => \E u \in People : t.users = {u}
    BY <1>1, <1>7 DEF TeamFits, OneAdvisorComes, t
  <2> QED BY <1>3, <1>4, <1>6, <2>1, <2>2, IdleTask DEF OneAdvisorComes
<1>8. ASSUME "repeat" \notin went PROVE OneRoleComes'
  <2>1. ASSUME NEW u \in People
        PROVE  RowsOf(u)' <= RowsOf(u) /\ (RowsOf(u) = rows[u][t.role] => RowsOf(u)' = 0)
    <3>1. rows'[u] = [rows[u] EXCEPT ![t.role] = 0] /\ rows[u] \in [MemberRoles -> Nat]
      BY ClearClears DEF TeamTypes, t
    <3>2. \A r \in MemberRoles : rows'[u][r] = IF r = t.role THEN 0 ELSE rows[u][r]
      BY <3>1
    <3>3. /\ rows[u]["PI"] \in Nat /\ rows[u]["MEMBER"] \in Nat
          /\ rows[u]["ADVISOR"] \in Nat /\ rows[u]["EVALUATOR"] \in Nat
      BY <3>1 DEF MemberRoles
    <3>4. /\ rows'[u]["PI"] = IF t.role = "PI" THEN 0 ELSE rows[u]["PI"]
          /\ rows'[u]["MEMBER"] = IF t.role = "MEMBER" THEN 0 ELSE rows[u]["MEMBER"]
          /\ rows'[u]["ADVISOR"] = IF t.role = "ADVISOR" THEN 0 ELSE rows[u]["ADVISOR"]
          /\ rows'[u]["EVALUATOR"] = IF t.role = "EVALUATOR" THEN 0 ELSE rows[u]["EVALUATOR"]
      BY <3>2 DEF MemberRoles
    <3>5. t.role \in {"PI", "MEMBER", "ADVISOR", "EVALUATOR"}
      BY <1>1 DEF MemberRoles
    <3>6. RowsOf(u) = rows[u]["PI"] + rows[u]["MEMBER"] + rows[u]["ADVISOR"] + rows[u]["EVALUATOR"]
      BY DEF RowsOf
    <3>7. RowsOf(u)' = rows'[u]["PI"] + rows'[u]["MEMBER"] + rows'[u]["ADVISOR"] + rows'[u]["EVALUATOR"]
      BY DEF RowsOf
    <3>8. CASE t.role = "PI"
      BY <3>3, <3>4, <3>6, <3>7, <3>8
    <3>9. CASE t.role = "MEMBER"
      BY <3>3, <3>4, <3>6, <3>7, <3>9
    <3>10. CASE t.role = "ADVISOR"
      BY <3>3, <3>4, <3>6, <3>7, <3>10
    <3>11. CASE t.role = "EVALUATOR"
      BY <3>3, <3>4, <3>6, <3>7, <3>11
    <3> QED BY <3>5, <3>8, <3>9, <3>10, <3>11
  <2>2. \A u \in People : RowsOf(u)' \in Nat /\ RowsOf(u) \in Nat
    BY RowsAreNumbers, <2>1 DEF TeamTypes, RowsOf, MemberRoles
  <2>3. OneRoleEach(People \ assigned)'
    <3>1. OneRoleEach(People \ assigned)
      BY <1>8 DEF TeamFits, OneRoleComes
    <3> QED BY <1>1, <2>1, <2>2, <3>1 DEF OneRoleEach
  <2>4. t.twice = {} /\ \A u \in t.users \ assigned : RowsOf(u) = rows[u][t.role]
    BY <1>1, <1>8 DEF TeamFits, OneRoleComes, t
  <2>5. t.users \subseteq People
    BY DEF TeamTypes, Task, t
  <2>6. \A u \in t.users \ assigned : RowsOf(u)' = 0
    BY <2>1, <2>4, <2>5
  <2> QED BY <1>1, <1>3, <1>4, <2>3, <2>4, <2>6, IdleTask DEF OneRoleComes
<1> QED BY <1>1, <1>5, <1>7, <1>8 DEF TeamFits

LEMMA InsertStep ==
    ASSUME TeamTypes, TeamTypes', TeamFits, NEW m \in Managers, Insert(m)
    PROVE  TeamFits'
<1> DEFINE t == task[m]
<1>1. t.at = "insert" /\ t # NoTask /\ UNCHANGED <<went, assigned>> /\ Close(m)
  BY IdleTask DEF Insert
<1>2. ASSUME "advisors" \notin went PROVE \A u, v \in Advisors' : u = v
  <2>1. \A u \in People : u \notin t.users \/ t.role # "ADVISOR" => rows'[u]["ADVISOR"] = rows[u]["ADVISOR"]
    BY InsertAdds DEF TeamTypes, MemberRoles
  <2>2. \A u, v \in Advisors : u = v
    BY <1>2 DEF TeamFits, OneAdvisorComes
  <2>3. CASE t.role # "ADVISOR"
    <3>1. Advisors' = Advisors
      BY <1>1, <2>1, <2>3 DEF Advisors, MembersWith
    <3> QED BY <2>2, <3>1
  <2>4. CASE t.role = "ADVISOR" /\ t.users \subseteq assigned
    <3>1. Advisors' = Advisors
      BY <1>1, <2>1, <2>4 DEF Advisors, MembersWith
    <3> QED BY <2>2, <3>1
  <2>5. CASE t.role = "ADVISOR" /\ Advisors = {}
    <3>1. PICK w \in People : t.users = {w}
      BY <1>1, <1>2, <2>5 DEF TeamFits, OneAdvisorComes
    <3>2. Advisors' \subseteq {w}
      BY <1>1, <2>1, <2>5, <3>1 DEF Advisors, MembersWith
    <3> QED BY <3>2
  <2> QED BY <1>1, <1>2, <2>3, <2>4, <2>5 DEF TeamFits, OneAdvisorComes
<1>3. ASSUME "repeat" \notin went, NEW u \in People \ assigned PROVE RowsOf(u)' <= 1
  <2>1. RowsOf(u) <= 1 /\ RowsOf(u) \in Nat /\ t.twice = {} /\ (u \in t.users => RowsOf(u) = 0)
    BY <1>1, <1>3, RowsAreNumbers DEF TeamFits, OneRoleComes, OneRoleEach
  <2> QED BY <2>1, InsertAdds
<1> QED BY <1>1, <1>2, <1>3, CloseStep

LEMMA TeamStep == TeamInv /\ [TeamNext]_teamVars => TeamInv'
<1> SUFFICES ASSUME TeamInv, [TeamNext]_teamVars PROVE TeamInv'
  OBVIOUS
<1>1. TeamTypes /\ TeamTypes'
  BY TeamTypesStep DEF TeamInv
<1>2. SUFFICES ASSUME "overlap" \notin went' PROVE TeamFits'
  BY <1>1 DEF TeamInv, TeamFits
<1>3. went' = went
  BY DEF TeamNext, AddMembers, AssignEvaluators, AssignAdvisor, AssignUndergradAdvisor, Clear, Insert,
    Break, RemoveMembers, CopyMembers, teamVars
<1>4. "overlap" \notin went /\ TeamFits
  BY <1>2, <1>3 DEF TeamInv, TeamFits
<1>5. ASSUME NEW m \in Managers, Break(m) PROVE TeamFits'
  <2>1. Advisors' = Advisors /\ \A u : RowsOf(u)' = RowsOf(u)
    BY <1>5 DEF Break, Advisors, MembersWith, RowsOf
  <2>2. /\ "advisors" \notin went => \A u, v \in Advisors' : u = v
        /\ "repeat" \notin went => \A u \in People \ assigned : RowsOf(u)' <= 1
    BY <1>4, <2>1 DEF TeamFits, OneAdvisorComes, OneRoleComes, OneRoleEach
  <2> QED BY <1>1, <1>4, <1>5, <2>2, CloseStep DEF Break
<1>6. ASSUME NEW users \in SUBSET People, RemoveMembers(users) PROVE TeamFits'
  <2>1. /\ \A m \in Managers : task[m] = NoTask
        /\ UNCHANGED <<task, assigned, went>>
        /\ \A u \in People : rows'[u] = IF u \in users THEN Nobody[u] ELSE rows[u]
    BY <1>4, <1>6 DEF RemoveMembers, Free
  <2>2. \A u \in users : Nobody[u] = [r \in MemberRoles |-> 0]
    BY DEF Nobody
  <2>3. Advisors' \subseteq Advisors
    BY <2>1, <2>2 DEF Advisors, MembersWith, MemberRoles
  <2>4. ASSUME NEW u \in People PROVE RowsOf(u)' = IF u \in users THEN 0 ELSE RowsOf(u)
    BY <2>1, <2>2 DEF RowsOf, MemberRoles
  <2>5. OneRequest' /\ ("advisors" \notin went => OneAdvisorComes')
    BY <1>4, <2>1, <2>3, IdleTask DEF TeamFits, OneRequest, OneAdvisorComes
  <2>6. "repeat" \notin went => OneRoleComes'
    BY <1>4, <2>1, <2>4, IdleTask DEF TeamFits, OneRoleComes, OneRoleEach
  <2> QED BY <2>1, <2>5, <2>6 DEF TeamFits
<1>7. CASE CopyMembers \/ UNCHANGED teamVars
  <2>1. UNCHANGED <<rows, task, assigned, went>>
    BY <1>7 DEF CopyMembers, teamVars
  <2> QED BY <1>4, <2>1 DEF TeamFits, OneRequest, OneAdvisorComes, OneRoleComes, OneRoleEach,
        Advisors, MembersWith, RowsOf
<1> QED BY <1>1, <1>4, <1>5, <1>6, <1>7, TeamRequestStep, ClearStep, InsertStep DEF TeamNext

\* At most one of a set of at most one.
LEMMA AtMostOne ==
    ASSUME NEW S \in SUBSET People
    PROVE  Cardinality(S) <= 1 <=> \A u, v \in S : u = v
<1>1. IsFiniteSet(S) /\ Cardinality(S) \in Nat
  BY PeopleAssumption, FS_Subset, FS_CardinalityType
<1>2. ASSUME Cardinality(S) <= 1 PROVE \A u, v \in S : u = v
  <2>1. Cardinality(S) = 0 \/ Cardinality(S) = 1
    BY <1>1, <1>2
  <2>2. S = {} \/ \E x : S = {x}
    BY <1>1, <2>1, FS_EmptySet, FS_Singleton
  <2> QED BY <2>2
<1>3. ASSUME \A u, v \in S : u = v PROVE Cardinality(S) <= 1
  <2>1. CASE S = {}
    BY <1>1, <2>1, FS_EmptySet
  <2>2. CASE S # {}
    <3>1. PICK x : S = {x}
      BY <1>3, <2>2
    <3> QED BY <3>1, FS_Singleton
  <2> QED BY <2>1, <2>2
<1> QED BY <1>2, <1>3

LEMMA TeamStart == TeamInit => TeamInv
<1> SUFFICES ASSUME TeamInit PROVE TeamInv
  OBVIOUS
<1>1. PICK list \in Lists, again \in Lists, advisor \in SUBSET People :
          /\ ValidMembers(list, again)
          /\ "repeat" \notin went => again = NoList /\ advisor \subseteq Listed(list, "none")
          /\ "advisors" \notin went =>
                 \A u, v \in Listed(list, "ADVISOR") \cup Listed(again, "ADVISOR") \cup advisor : u = v
          /\ rows = NewTeam(list, again, advisor)
  BY DEF TeamInit
<1> DEFINE one(b) == IF b THEN 1 ELSE 0
<1>2. \A u \in People : \A r \in MemberRoles :
          rows[u][r] = one(list[u] = r) + one(again[u] = r) + one(r = "ADVISOR" /\ u \in advisor)
  BY <1>1 DEF NewTeam
<1>3. rows \in [People -> [MemberRoles -> Nat]]
  BY <1>1 DEF NewTeam
<1>4. assigned = {} /\ task = [m \in Managers |-> NoTask]
  BY DEF TeamInit
<1>5. TeamTypes
  BY <1>3, <1>4, IdleTask DEF TeamTypes
<1>6. OneRequest
  BY <1>4 DEF OneRequest
<1>7. ASSUME "advisors" \notin went PROVE OneAdvisorComes
  <2>1. ASSUME NEW u \in Advisors
        PROVE  u \in Listed(list, "ADVISOR") \cup Listed(again, "ADVISOR") \cup advisor
    BY <1>2, <2>1 DEF Advisors, MembersWith, MemberRoles, Listed
  <2>2. \A u, v \in Advisors : u = v
    BY <1>1, <1>7, <2>1
  <2> QED BY <1>4, <2>2, IdleTask DEF OneAdvisorComes
<1>8. ASSUME "repeat" \notin went PROVE OneRoleComes
  <2>1. ASSUME NEW u \in People PROVE RowsOf(u) <= 1
    <3>1. again[u] = "none" /\ (u \in advisor => list[u] = "none")
      BY <1>1, <1>8 DEF NoList, Listed
    <3>2. \A r \in MemberRoles : rows[u][r] = one(list[u] = r) + one(r = "ADVISOR" /\ u \in advisor)
      BY <1>2, <3>1 DEF MemberRoles
    <3> QED BY <3>1, <3>2 DEF RowsOf, MemberRoles
  <2> QED BY <1>4, <2>1, IdleTask DEF OneRoleComes, OneRoleEach
<1> QED BY <1>5, <1>6, <1>7, <1>8 DEF TeamInv, TeamFits

\* If requests on the team do not overlap there is one advisor at most, unless the proposal came
\* with several (its list of members may give any role), and if none names a user twice nobody
\* has two roles (proposal-members.service.ts: "One user can only have ONE role per proposal"),
\* wherever requests stop between their statements and however many advisors there are; but for
\* the users that the undergraduates' route was called with, which asks neither.
THEOREM TeamHolds == TeamSpec => []TeamIsSound
<1>1. TeamInv => TeamIsSound
  <2> SUFFICES ASSUME TeamInv, "overlap" \notin went
               PROVE  /\ "advisors" \notin went => OneAdvisor(People \ assigned)
                      /\ "repeat" \notin went => OneRoleEach(People \ assigned)
    BY DEF TeamIsSound
  <2>1. (People \ assigned) \cap MembersWith("ADVISOR") = Advisors /\ Advisors \subseteq People
    BY DEF Advisors, MembersWith
  <2>2. "advisors" \notin went => \A u, v \in Advisors : u = v
    BY DEF TeamInv, TeamFits, OneAdvisorComes
  <2>3. "advisors" \notin went => OneAdvisor(People \ assigned)
    BY <2>1, <2>2, AtMostOne DEF OneAdvisor
  <2> QED BY <2>3 DEF TeamInv, TeamFits, OneRoleComes
<1> QED BY <1>1, TeamStart, TeamStep, PTL DEF TeamSpec

-----------------------------------------------------------------------------
(* Access. *)

AccessTypes ==
    /\ granted \in [Ids -> SUBSET Permissions]
    /\ held \subseteq Ids

\* Every step's approver has a rule that shows the step's program to it; an evaluator's shows
\* only proposals it is a member of.
LEMMA ApproversHaveRules ==
    \A r \in RoutingRules :
        \E rule \in ProgramRules(r.approverRole) :
            /\ r.program \in rule.programs
            /\ rule.member => r.approverRole = "EVALUATOR"
<1>1. \A r \in RoutingRules :
          <<r.program, r.approverRole>> \in
              {<<"UG", "COORDINATOR">>, <<"UG", "EVALUATOR">>, <<"PG", "DGC_MEMBER">>,
               <<"PG", "ADRPM">>, <<"PG", "PG_OFFICE">>, <<"GENERAL", "RAD">>,
               <<"GENERAL", "ADRPM">>, <<"GENERAL", "VPRTT">>, <<"GENERAL", "AC_MEMBER">>}
  BY DEF RoutingRules, Rule
<1>2. /\ \A s : Program(s).programs = s /\ Program(s).member = FALSE
      /\ MemberOnly.programs = {"UG", "PG", "GENERAL"}
  BY DEF Program, MemberOnly, Programs
<1>3. /\ Program({"UG"}) \in ProgramRules("COORDINATOR")
      /\ MemberOnly \in ProgramRules("EVALUATOR")
      /\ Program({"PG"}) \in ProgramRules("DGC_MEMBER")
      /\ Program({"PG"}) \in ProgramRules("PG_OFFICE")
      /\ Program({"PG", "GENERAL"}) \in ProgramRules("ADRPM")
      /\ Program({"GENERAL"}) \in ProgramRules("RAD")
      /\ Program({"GENERAL"}) \in ProgramRules("VPRTT")
      /\ Program({"GENERAL"}) \in ProgramRules("AC_MEMBER")
  BY DEF ProgramRules
<1>4. SUFFICES ASSUME NEW r \in RoutingRules
               PROVE  \E rule \in ProgramRules(r.approverRole) :
                          /\ r.program \in rule.programs
                          /\ rule.member => r.approverRole = "EVALUATOR"
  OBVIOUS
<1>5. CASE r.approverRole = "EVALUATOR"
  BY <1>1, <1>2, <1>3, <1>5
<1>6. CASE r.approverRole = "COORDINATOR"
  BY <1>1, <1>2, <1>3, <1>6
<1>7. CASE r.approverRole \in {"DGC_MEMBER", "PG_OFFICE", "ADRPM"}
  BY <1>1, <1>2, <1>3, <1>7
<1>8. CASE r.approverRole \in {"RAD", "VPRTT", "AC_MEMBER"}
  BY <1>1, <1>2, <1>3, <1>8
<1> QED BY <1>1, <1>5, <1>6, <1>7, <1>8

\* Whatever roles a user holds, and whatever they are called.
LEMMA DecidersAlwaysSee == "PROPOSAL_READ" \in UserPermissions => DecidersSee
<1> SUFFICES ASSUME "PROPOSAL_READ" \in UserPermissions,
                    NEW r \in PendingApprovals, r.approverRole = "EVALUATOR" => belongs
             PROVE  r.program \in GetProposals
  BY DEF DecidersSee
<1>1. r \in RoutingRules /\ r.approverRole \in RoleNames
  BY DEF PendingApprovals, ResolveApprover
<1>2. r.program \in Programs
  BY <1>1 DEF RoutingRules, Rule, Programs
<1>3. PICK rule \in ProgramRules(r.approverRole) :
          r.program \in rule.programs /\ (rule.member => belongs)
  BY <1>1, ApproversHaveRules
<1>4. \E q \in ReadRules : r.program \in q.programs /\ (q.member => belongs)
  <2>1. CASE "SYSTEM_ADMIN" \in RoleNames
    BY <1>2, <2>1 DEF ReadRules, Everything, Program
  <2>2. CASE "SYSTEM_ADMIN" \notin RoleNames
    <3>1. rule \in UNION {ProgramRules(n) : n \in RoleNames}
      BY <1>1
    <3>2. rule \in ReadRules
      BY <2>2, <3>1 DEF ReadRules
    <3> QED BY <1>3, <3>2
  <2> QED BY <2>1, <2>2
<1> QED BY <1>2, <1>4 DEF GetProposals, Sees

\* The two tables of rules fit, but for the decisions on a budget.
LEMMA TablesFit ==
    \A p \in Permissions :
        IF p \in {"BUDGET_APPROVE", "BUDGET_REJECT"}
        THEN \E rule \in RouteRules(p) : <<"manage", rule[2]>> \in AbilityRules("BUDGET_MANAGE")
        ELSE \E rule \in RouteRules(p) : rule \in AbilityRules(p)
<1>1. /\ <<"approve", "Budget">> \in RouteRules("BUDGET_APPROVE")
      /\ <<"reject", "Budget">> \in RouteRules("BUDGET_REJECT")
      /\ <<"manage", "Budget">> \in AbilityRules("BUDGET_MANAGE")
  BY DEF RouteRules, AbilityRules
<1>2. ASSUME NEW p \in Permissions \ {"BUDGET_APPROVE", "BUDGET_REJECT", "PROPOSAL_MANAGE_MEMBERS"}
      PROVE  \E rule \in RouteRules(p) : rule \in AbilityRules(p)
  BY DEF Permissions, RouteRules, AbilityRules
<1>3. /\ <<"addMember", "Proposal">> \in RouteRules("PROPOSAL_MANAGE_MEMBERS")
      /\ <<"addMember", "Proposal">> \in AbilityRules("PROPOSAL_MANAGE_MEMBERS")
  BY DEF RouteRules, AbilityRules
<1> QED BY <1>1, <1>2, <1>3

LEMMA GrantsAlwaysWork == UserPermissions \subseteq Permissions => GrantsWork
<1> SUFFICES ASSUME NEW p \in UserPermissions, p \in Permissions,
                    p \in {"BUDGET_APPROVE", "BUDGET_REJECT"} => "BUDGET_MANAGE" \in UserPermissions
             PROVE  AccessGuard(p)
  BY DEF GrantsWork
<1>1. \E rule \in RouteRules(p) :
          \E q \in UserPermissions : AbilityRules(q) \cap {rule, <<"manage", rule[2]>>} # {}
  BY TablesFit
<1> QED BY <1>1 DEF AccessGuard, AbilityCan

LEMMA PermissionsAreKnown == AccessTypes => UserPermissions \subseteq Permissions
BY DEF AccessTypes, UserPermissions

LEMMA AccessStart == AccessInit => AccessTypes
<1>1. \A name : RolePermissions(name) \subseteq Permissions
  BY DEF RolePermissions, Permissions
<1>2. \A s : s \in SeedRoles => s \in Ids
  BY DEF Ids
<1> QED BY <1>1, <1>2 DEF AccessInit, AccessTypes

LEMMA AccessStep == AccessTypes /\ [AccessNext]_accessVars => AccessTypes'
<1> SUFFICES ASSUME AccessTypes, [AccessNext]_accessVars PROVE AccessTypes'
  OBVIOUS
<1> USE DEF AccessTypes
<1>1. ASSUME NEW i \in Ids, CreateRole(i) PROVE AccessTypes'
  BY <1>1 DEF CreateRole
<1>2. ASSUME NEW i \in Ids, NEW name \in Ids, UpdateRole(i, name) PROVE AccessTypes'
  BY <1>2 DEF UpdateRole
<1>3. ASSUME NEW i \in Ids, DeleteRole(i) PROVE AccessTypes'
  BY <1>3 DEF DeleteRole
<1>4. ASSUME NEW i \in Ids, NEW grants \in Grants, ReplaceRolePermissions(i, grants) PROVE AccessTypes'
  BY <1>4, GrantsAssumption DEF ReplaceRolePermissions
<1>5. ASSUME NEW ids \in SUBSET Ids, ReplaceUserRoles(ids) PROVE AccessTypes'
  BY <1>5 DEF ReplaceUserRoles
<1>6. CASE UNCHANGED accessVars
  BY <1>6 DEF accessVars
<1> QED BY <1>1, <1>2, <1>3, <1>4, <1>5, <1>6 DEF AccessNext

\* However the administrator makes, renames and deletes roles and changes what they may do and
\* who has them: what a user is asked to decide the user finds (resolveApprover against
\* buildProposalReadRules), and a permission opens its routes (AbilityFactory against the
\* guard's table), but for the decisions on a budget.
THEOREM AccessHolds == AccessSpec => []AccessFits
<1>1. AccessTypes => AccessFits
  BY DecidersAlwaysSee, GrantsAlwaysWork, PermissionsAreKnown DEF AccessFits
<1> QED BY <1>1, AccessStart, AccessStep, PTL DEF AccessSpec
=============================================================================
