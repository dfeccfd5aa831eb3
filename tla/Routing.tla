-------------------------------- MODULE Routing --------------------------------
(***************************************************************************)
(* The routing rules of db/seed.ts and how the approval steps of a         *)
(* proposal are picked from them: once by WorkflowService when the         *)
(* proposal is first submitted, once by the seed script itself, which has  *)
(* its own evaluation of branch conditions.  Nothing else in reachable     *)
(* code writes routing_rules.                                              *)
(*                                                                         *)
(* Left out: labels, form schemas and vote thresholds; conditions on the   *)
(* degree or the program, which no rule has.                               *)
(*                                                                         *)
(* A definition marked "Fault" is no part of the model: it is the          *)
(* definition after it with a mistake, which the properties must notice.   *)
(***************************************************************************)
EXTENDS Naturals

Programs == {"UG", "PG", "GENERAL"}

Operators == {"gt", "lt", "gte", "lte", "eq", "neq", "in"}

\* branch_condition_json of a linear step.
NoCondition == [field |-> "none", operator |-> "none", value |-> 0]

\* Fault: the border belongs to both branches.
UpToLimit == [field |-> "budgetAmount", operator |-> "lte", value |-> 500000]

LowBudget == [field |-> "budgetAmount", operator |-> "lt", value |-> 500000]

HighBudget == [field |-> "budgetAmount", operator |-> "gte", value |-> 500000]

Rule(program, order, role, type, condition, final) ==
    [program |-> program, stepOrder |-> order, approverRole |-> role, stepType |-> type,
     condition |-> condition, isFinal |-> final]

RoutingRules == {
    Rule("PG", 1, "DGC_MEMBER", "FORM", NoCondition, FALSE),
    Rule("PG", 2, "ADRPM", "APPROVAL", NoCondition, FALSE),
    Rule("PG", 3, "PG_OFFICE", "APPROVAL", NoCondition, TRUE),
    Rule("UG", 1, "COORDINATOR", "APPROVAL", NoCondition, FALSE),
    Rule("UG", 2, "EVALUATOR", "APPROVAL", NoCondition, FALSE),
    Rule("UG", 3, "COORDINATOR", "APPROVAL", NoCondition, TRUE),
    Rule("GENERAL", 1, "RAD", "APPROVAL", NoCondition, FALSE),
    Rule("GENERAL", 2, "ADRPM", "APPROVAL", NoCondition, FALSE),
    Rule("GENERAL", 3, "VPRTT", "FORM", LowBudget, TRUE),
    Rule("GENERAL", 3, "AC_MEMBER", "VOTE", HighBudget, TRUE)}

Context(budget) == [budgetAmount |-> budget]

Compare(operator, left, right) ==
    \/ operator = "gt"  /\ left > right
    \/ operator = "gte" /\ left >= right
    \/ operator = "lt"  /\ left < right
    \/ operator = "lte" /\ left <= right
    \/ operator = "eq"  /\ left = right
    \/ operator = "neq" /\ left # right

\* evaluateCondition of WorkflowService: what it cannot read or does not know is false.
EvaluateCondition(condition, context) ==
    /\ condition.operator \in Operators
    /\ condition.field \in DOMAIN context
    /\ Compare(condition.operator, context[condition.field], condition.value)

\* generateApprovalStepsFromRules: the rows whose condition holds; some always does.
ApprovalSteps(program, budget) ==
    {r \in RoutingRules :
        /\ r.program = program
        /\ r.condition = NoCondition \/ EvaluateCondition(r.condition, Context(budget))}

\* evaluateCondition of the seed script: what it does not know is true.
SeedCondition(condition, context) ==
    \/ condition.field \notin DOMAIN context
    \/ condition.operator \notin Operators
    \/ Compare(condition.operator, context[condition.field], condition.value)

SeedSteps(program, budget) ==
    {r \in RoutingRules :
        r.program = program /\ SeedCondition(r.condition, Context(budget))}

\* The rows of the least step order, the ones that are activated first.
FirstOf(steps) == {r \in steps : \A s \in steps : r.stepOrder <= s.stepOrder}
=============================================================================
