------------------------- MODULE ProposalWorkflowProofs -------------------------
(***************************************************************************)
(* Proofs about ProposalWorkflow, for any users, rules, branches, orders,  *)
(* approvers, thresholds and history bound.                                *)
(*                                                                         *)
(* ActiveStepDiscipline, ReviewInOrder and ProjectExactlyWhenApproved are  *)
(* not inductive one by one: that the row after an accepted one is the     *)
(* only candidate to activate needs the order, the order needs the active  *)
(* row to be unique, and both need the facts of StepShape about rows that  *)
(* do not exist yet and rows that were sent back.                          *)
(***************************************************************************)
EXTENDS ProposalWorkflowProps, WellFoundedInduction, TLAPS

\* What the other invariants need to know of the rows.
StepShape ==
    /\ \A r, s \in steps : StepOrder[r] = StepOrder[s] => r = s
    /\ \A r \in Rules \ steps : decision[r] = "Pending"
    /\ steps = {} => status = "Draft"
    /\ status \in {"Draft", "Needs_Revision"} /\ steps # {} =>
          \E r \in steps : decision[r] \in {"Rejected", "Needs_Revision"}

IInv ==
    /\ TypeOK
    /\ ActiveStepDiscipline
    /\ ReviewInOrder
    /\ ProjectExactlyWhenApproved
    /\ HistoryIsAChain
    /\ StepShape

-----------------------------------------------------------------------------
\* A non-empty set of rules has an earliest one: sortedRules[0] in
\* generateApprovalStepsFromRules exists.
LEMMA EarliestExists ==
    ASSUME NEW M \in SUBSET Rules, M # {}
    PROVE  Earliest(M) # {}
<1> DEFINE orders == {StepOrder[r] : r \in M}
<1>1. orders \subseteq Nat /\ orders # {}
  BY RulesAssumption
<1>2. IsWellFoundedOn(OpToRel(<, Nat), Nat)
  BY NatLessThanWellFounded
<1>3. PICK x \in orders : \A y \in orders : ~(<<y, x>> \in OpToRel(<, Nat))
  <2> HIDE DEF orders
  <2> QED BY <1>1, <1>2, WFMin
<1>4. \A y \in orders : x <= y
  <2>1. OpToRel(<, Nat) = {p \in Nat \X Nat : p[1] < p[2]}
    BY DEF OpToRel
  <2>2. \A y \in orders : <<y, x>> \notin {p \in Nat \X Nat : p[1] < p[2]}
    <3> HIDE DEF orders
    <3> QED BY <1>3, <2>1, Zenon
  <2>3. SUFFICES ASSUME NEW y \in orders PROVE x <= y
    OBVIOUS
  <2> HIDE DEF orders
  <2>4. y \in Nat /\ x \in Nat
    BY <1>1
  <2>5. ~(y < x)
    BY <2>2, <2>4
  <2> QED BY <2>4, <2>5
<1>5. PICK r \in M : x = StepOrder[r]
  OBVIOUS
<1>6. r \in Earliest(M)
  BY <1>4, <1>5 DEF Earliest
<1> QED BY <1>6

-----------------------------------------------------------------------------
(* The status history. *)

\* A new history row that starts at the current status and ends at the next one
\* continues the chain.
LEMMA RecordKeepsChain ==
    ASSUME TypeOK, HistoryIsAChain,
           NEW new \in Statuses,
           Record(status, new), status' = new
    PROVE  HistoryIsAChain' /\ history' \in Seq([old : Statuses, new : Statuses])
<1> DEFINE row == [old |-> status, new |-> new]
<1>1. row \in [old : Statuses, new : Statuses]
  BY DEF TypeOK
<1>2. history' = Append(history, row)
  BY DEF Record
<1>3. /\ history' \in Seq([old : Statuses, new : Statuses])
      /\ Len(history') = Len(history) + 1
      /\ history'[Len(history')] = row
      /\ \A i \in 1..Len(history) : history'[i] = history[i]
  <2> HIDE DEF row
  <2> QED BY <1>1, <1>2 DEF TypeOK
<1>4. history' # <<>>
  BY <1>1, <1>2 DEF TypeOK
<1>5. history'[1].old = "Draft"
  <2>1. CASE history = <<>>
    BY <2>1, <1>3 DEF HistoryIsAChain
  <2>2. CASE history # <<>>
    <3>1. 1 \in 1..Len(history)
      BY <2>2 DEF TypeOK
    <3> QED BY <2>2, <3>1, <1>3 DEF HistoryIsAChain
  <2> QED BY <2>1, <2>2
<1>6. history'[Len(history')].new = new
  BY <1>3
<1>7. ASSUME NEW i \in 1..(Len(history') - 1)
      PROVE  history'[i].new = history'[i + 1].old
  <2>1. i \in 1..Len(history) /\ Len(history) \in Nat
    BY <1>3 DEF TypeOK
  <2>2. CASE i = Len(history)
    <3>1. history'[i + 1] = row /\ history # <<>>
      BY <1>3, <2>1, <2>2
    <3>2. history'[i] = history[Len(history)]
      BY <1>3, <2>1, <2>2
    <3> QED BY <3>1, <3>2 DEF HistoryIsAChain
  <2>3. CASE i # Len(history)
    <3>1. i \in 1..(Len(history) - 1) /\ i + 1 \in 1..Len(history)
      BY <2>1, <2>3
    <3> QED BY <3>1, <1>3 DEF HistoryIsAChain
  <2> QED BY <2>2, <2>3
<1> QED BY <1>3, <1>4, <1>5, <1>6, <1>7 DEF HistoryIsAChain

\* Nothing recorded and no transition: the chain stands.
LEMMA StutterKeepsChain ==
    ASSUME HistoryIsAChain, UNCHANGED <<history, status>>
    PROVE  HistoryIsAChain'
BY DEF HistoryIsAChain

-----------------------------------------------------------------------------
(* Facts about one state. *)

\* While a step is active, it is the only one, the rows before it are accepted
\* and the rows after it are pending.
LEMMA AroundTheActiveStep ==
    ASSUME IInv, NEW r \in active
    PROVE  /\ r \in steps /\ r \in Rules /\ decision[r] = "Pending"
           /\ status = "Under_Review" /\ projects = 0 /\ ~workspaceUnlocked
           /\ active = {r}
           /\ \A s \in steps \ {r} :
                 \/ StepOrder[s] < StepOrder[r] /\ decision[s] = "Accepted"
                 \/ StepOrder[s] > StepOrder[r] /\ decision[s] = "Pending"
<1>1. /\ r \in steps /\ r \in Rules /\ decision[r] = "Pending"
      /\ status = "Under_Review"
  BY DEF IInv, TypeOK, ActiveStepDiscipline
<1>2. projects = 0 /\ ~workspaceUnlocked
  BY <1>1 DEF IInv, TypeOK, ProjectExactlyWhenApproved
<1>3. active = {r}
  BY <1>1 DEF IInv, TypeOK, ActiveStepDiscipline, StepShape
<1>4. ASSUME NEW s \in steps \ {r}
      PROVE  \/ StepOrder[s] < StepOrder[r] /\ decision[s] = "Accepted"
             \/ StepOrder[s] > StepOrder[r] /\ decision[s] = "Pending"
  <2>1. StepOrder[s] # StepOrder[r]
    BY <1>1, <1>4 DEF IInv, StepShape
  <2>2. StepOrder[s] \in Nat /\ StepOrder[r] \in Nat
    BY <1>1, <1>4, RulesAssumption DEF IInv, TypeOK
  <2> QED BY <1>1, <2>1, <2>2 DEF IInv, ReviewInOrder
<1> QED BY <1>1, <1>2, <1>3, <1>4

\* A sent back proposal has one rejected row, the rows before it are accepted,
\* the rows after it pending: it is the row to resume from.
LEMMA AroundTheIncompleteStep ==
    ASSUME IInv, NEW r \in steps, decision[r] \in {"Rejected", "Needs_Revision"}
    PROVE  /\ r \in Rules
           /\ \A s \in steps \ {r} :
                 \/ StepOrder[s] < StepOrder[r] /\ decision[s] = "Accepted"
                 \/ StepOrder[s] > StepOrder[r] /\ decision[s] = "Pending"
<1>1. r \in Rules /\ decision[r] # "Accepted" /\ decision[r] # "Pending"
  BY DEF IInv, TypeOK
<1>2. ASSUME NEW s \in steps \ {r}
      PROVE  \/ StepOrder[s] < StepOrder[r] /\ decision[s] = "Accepted"
             \/ StepOrder[s] > StepOrder[r] /\ decision[s] = "Pending"
  <2>1. StepOrder[s] # StepOrder[r]
    BY <1>1, <1>2 DEF IInv, StepShape
  <2>2. StepOrder[s] \in Nat /\ StepOrder[r] \in Nat
    BY <1>1, <1>2, RulesAssumption DEF IInv, TypeOK
  <2> QED BY <1>1, <2>1, <2>2 DEF IInv, ReviewInOrder
<1> QED BY <1>1, <1>2

\* Whenever the author may submit again, there is a row to resume from.
LEMMA IncompleteStepExists ==
    ASSUME IInv
    PROVE  ResubmissionPossible
<1> SUFFICES ASSUME status \in {"Draft", "Needs_Revision"}, steps # {}
             PROVE  LastIncomplete # {}
  BY DEF ResubmissionPossible
<1>1. PICK r \in steps : decision[r] \in {"Rejected", "Needs_Revision"}
  BY DEF IInv, StepShape
<1>2. StepOrder[r] \in Nat
  BY RulesAssumption DEF IInv, TypeOK
<1>3. \A s \in steps : decision[s] \in {"Rejected", "Needs_Revision"} => s = r
  BY <1>1, AroundTheIncompleteStep
<1>4. r \in LastIncomplete
  BY <1>1, <1>2, <1>3 DEF LastIncomplete
<1> QED BY <1>4

-----------------------------------------------------------------------------
(* Each handler preserves the invariant. *)

\* A draft that was just created satisfies the invariant.
LEMMA InitHolds == Init => IInv
<1> SUFFICES ASSUME Init PROVE IInv
  OBVIOUS
<1>1. TypeOK
  <2>1. history \in Seq([old : Statuses, new : Statuses])
    BY DEF Init
  <2>2. votes \in [Rules -> [Users -> Outcomes \cup {"none"}]]
    BY DEF Init, NoVotes
  <2> QED BY <2>1, <2>2 DEF Init, TypeOK, Statuses, Decisions
<1>2. ActiveStepDiscipline /\ ReviewInOrder /\ ProjectExactlyWhenApproved /\ StepShape
  BY DEF Init, ActiveStepDiscipline, ReviewInOrder, ProjectExactlyWhenApproved,
         StepShape
<1>3. HistoryIsAChain
  BY DEF Init, HistoryIsAChain
<1> QED BY <1>1, <1>2, <1>3 DEF IInv

\* The first submission: the inserted rows are pending and the earliest is active.
LEMMA FirstSubmissionPreserves ==
    ASSUME IInv, NEW u \in Users, CanSubmit(u), steps = {},
           GenerateSteps, SubmitWrites(status)
    PROVE  IInv'
<1> PICK M \in Matchings \ {{}} :
        /\ steps' = M
        /\ active' = active \cup Earliest(M)
        /\ UNCHANGED <<decision, votes>>
  BY DEF GenerateSteps
<1>1. M \in SUBSET Rules /\ M # {}
      /\ \A r, s \in M : StepOrder[r] = StepOrder[s] => r = s
  BY MatchingsAssumption
<1>2. PICK first \in M : \A s \in M : StepOrder[first] <= StepOrder[s]
  <2>1. Earliest(M) # {}
    BY <1>1, EarliestExists
  <2> QED BY <2>1 DEF Earliest
<1>3. active' = {first}
  <2>1. Earliest(M) = {first}
    BY <1>1, <1>2, RulesAssumption DEF Earliest
  <2>2. active = {}
    BY DEF IInv, ActiveStepDiscipline
  <2> QED BY <2>1, <2>2
<1>4. \A r \in Rules : decision'[r] = "Pending"
  BY DEF IInv, StepShape
<1>5. status = "Draft" /\ status' = "Under_Review" /\ ~isEditable'
      /\ projects' = 0 /\ ~workspaceUnlocked'
  BY DEF SubmitWrites, IInv, StepShape, ProjectExactlyWhenApproved, TypeOK
<1>6. HistoryIsAChain' /\ history' \in Seq([old : Statuses, new : Statuses])
  BY RecordKeepsChain DEF SubmitWrites, IInv, Statuses
<1>7. TypeOK'
  <2> QED BY <1>1, <1>3, <1>6 DEF IInv, TypeOK, SubmitWrites, Statuses
<1>8. ActiveStepDiscipline'
  BY <1>1, <1>3, <1>4, <1>5 DEF ActiveStepDiscipline
<1>9. ReviewInOrder'
  BY <1>1, <1>2, <1>3, <1>4, RulesAssumption DEF ReviewInOrder
<1>10. ProjectExactlyWhenApproved' /\ StepShape'
  BY <1>1, <1>3, <1>4, <1>5 DEF ProjectExactlyWhenApproved, StepShape
<1> QED BY <1>6, <1>7, <1>8, <1>9, <1>10 DEF IInv

\* A resubmission: the one sent back row is pending and active again.
LEMMA ResumePreserves ==
    ASSUME IInv, NEW u \in Users, CanSubmit(u),
           NEW r \in LastIncomplete, ResumeFrom(r), SubmitWrites(status)
    PROVE  IInv'
<1>1. r \in steps /\ r \in Rules /\ decision[r] \in {"Rejected", "Needs_Revision"}
  BY DEF LastIncomplete, IInv, TypeOK
<1>2. \A s \in steps \ {r} :
         \/ StepOrder[s] < StepOrder[r] /\ decision[s] = "Accepted"
         \/ StepOrder[s] > StepOrder[r] /\ decision[s] = "Pending"
  BY <1>1, AroundTheIncompleteStep
<1>3. /\ active' = {r}
      /\ decision' = [decision EXCEPT ![r] = "Pending"]
      /\ steps' = steps
  BY DEF ResumeFrom
<1>4. decision'[r] = "Pending" /\ \A s \in Rules \ {r} : decision'[s] = decision[s]
  BY <1>1, <1>3 DEF IInv, TypeOK
<1>5. status' = "Under_Review" /\ ~isEditable' /\ projects' = 0 /\ ~workspaceUnlocked'
  BY DEF CanSubmit, SubmitWrites, IInv, ProjectExactlyWhenApproved, TypeOK
<1>6. HistoryIsAChain' /\ history' \in Seq([old : Statuses, new : Statuses])
  BY RecordKeepsChain DEF SubmitWrites, IInv, Statuses
<1>7. TypeOK'
  <2>1. votes' \in [Rules -> [Users -> Outcomes \cup {"none"}]]
    BY DEF ResumeFrom, NoVotes, IInv, TypeOK
  <2>2. decision' \in [Rules -> Decisions]
    BY DEF ResumeFrom, IInv, TypeOK, Decisions
  <2> QED BY <1>1, <1>3, <1>6, <2>1, <2>2 DEF IInv, TypeOK, SubmitWrites, Statuses
<1>8. ActiveStepDiscipline'
  BY <1>1, <1>3, <1>4, <1>5 DEF ActiveStepDiscipline, IInv, TypeOK
<1>9. ReviewInOrder'
  <2> SUFFICES ASSUME NEW q \in steps', decision'[q] # "Accepted",
                      q \in active' \/ decision'[q] # "Pending",
                      NEW s \in steps'
               PROVE  /\ StepOrder[s] < StepOrder[q] => decision'[s] = "Accepted"
                      /\ StepOrder[s] > StepOrder[q] => decision'[s] = "Pending"
    BY DEF ReviewInOrder
  <2>0. q \in Rules /\ s \in Rules /\ StepOrder[s] \in Nat /\ StepOrder[q] \in Nat
    BY <1>3, RulesAssumption DEF IInv, TypeOK
  <2>1. q = r
    BY <1>2, <1>3, <1>4, <2>0
  <2> QED BY <1>1, <1>2, <1>3, <1>4, <2>0, <2>1
<1>10. ProjectExactlyWhenApproved' /\ StepShape'
  <2>1. \A s \in Rules \ steps : s # r
    BY <1>1
  <2> QED BY <1>1, <1>3, <1>4, <1>5, <2>1 DEF ProjectExactlyWhenApproved, StepShape, IInv
<1> QED BY <1>6, <1>7, <1>8, <1>9, <1>10 DEF IInv

\* An accepted step: the next pending row becomes active or, if there is none, the
\* proposal is approved and gets its project.
LEMMA AcceptPreserves ==
    ASSUME IInv, NEW r \in active, AcceptWrites(r),
           votes' \in [Rules -> [Users -> Outcomes \cup {"none"}]]
    PROVE  IInv'
<1> DEFINE pending == {s \in steps \ {r} : decision[s] = "Pending"}
<1>1. /\ r \in steps /\ r \in Rules /\ decision[r] = "Pending" /\ active = {r}
      /\ status = "Under_Review" /\ projects = 0 /\ ~workspaceUnlocked
      /\ \A s \in steps \ {r} :
            \/ StepOrder[s] < StepOrder[r] /\ decision[s] = "Accepted"
            \/ StepOrder[s] > StepOrder[r] /\ decision[s] = "Pending"
  BY AroundTheActiveStep
<1>2. /\ decision' = [decision EXCEPT ![r] = "Accepted"]
      /\ steps' = steps
      /\ \/ pending = {} /\ CompleteWorkflow(r)
         \/ \E n \in Earliest(pending) : ActivateNext(r, n)
  BY DEF AcceptWrites
<1>3. decision'[r] = "Accepted" /\ \A s \in Rules \ {r} : decision'[s] = decision[s]
  BY <1>1, <1>2 DEF IInv, TypeOK
<1>4. decision' \in [Rules -> Decisions] /\ steps \in SUBSET Rules
  BY <1>2 DEF IInv, TypeOK, Decisions
<1>5. CASE pending = {} /\ CompleteWorkflow(r)
  <2>1. \A s \in steps : decision'[s] = "Accepted"
    BY <1>1, <1>3, <1>4, <1>5
  <2>2. /\ active' = {} /\ status' = "Approved" /\ ~isEditable' /\ workspaceUnlocked'
        /\ projects' = 1 /\ currentStepOrder' = 0
    BY <1>1, <1>5 DEF CompleteWorkflow
  <2>3. HistoryIsAChain' /\ history' \in Seq([old : Statuses, new : Statuses])
    BY <1>5, RecordKeepsChain DEF CompleteWorkflow, IInv, Statuses
  <2>4. TypeOK'
    <3>1. projects' \in Nat /\ currentStepOrder' \in Nat /\ active' \in SUBSET Rules
      BY <2>2
    <3>2. status' \in Statuses /\ isEditable' \in BOOLEAN /\ workspaceUnlocked' \in BOOLEAN
      BY <1>5 DEF CompleteWorkflow, Statuses
    <3> QED BY <1>2, <1>4, <2>3, <3>1, <3>2 DEF TypeOK
  <2>5. ActiveStepDiscipline' /\ ReviewInOrder' /\ ProjectExactlyWhenApproved' /\ StepShape'
    BY <1>1, <1>2, <1>3, <2>1, <2>2
    DEF IInv, ActiveStepDiscipline, ReviewInOrder, ProjectExactlyWhenApproved, StepShape
  <2> QED BY <2>3, <2>4, <2>5 DEF IInv
<1>6. ASSUME NEW n \in Earliest(pending), ActivateNext(r, n)
      PROVE  IInv'
  <2>1. /\ n \in steps /\ n \in Rules /\ n # r /\ decision[n] = "Pending"
        /\ \A s \in pending : StepOrder[n] <= StepOrder[s]
    BY <1>4 DEF Earliest
  <2>2. /\ active' = {n} /\ decision'[n] = "Pending"
        /\ UNCHANGED <<status, isEditable, workspaceUnlocked, projects, history>>
    BY <1>1, <1>3, <1>6, <2>1 DEF ActivateNext
  <2>3. HistoryIsAChain'
    BY <2>2, StutterKeepsChain DEF IInv
  <2>4. TypeOK'
    BY <1>2, <1>4, <1>6, <2>1, <2>2, RulesAssumption DEF IInv, TypeOK, ActivateNext
  <2>5. ActiveStepDiscipline'
    BY <1>1, <1>2, <2>1, <2>2 DEF IInv, ActiveStepDiscipline
  <2>6. ReviewInOrder'
    <3> SUFFICES ASSUME NEW q \in steps, decision'[q] # "Accepted",
                        q \in active' \/ decision'[q] # "Pending",
                        NEW s \in steps
                 PROVE  /\ StepOrder[s] < StepOrder[q] => decision'[s] = "Accepted"
                        /\ StepOrder[s] > StepOrder[q] => decision'[s] = "Pending"
      BY <1>2 DEF ReviewInOrder
    <3>1. /\ StepOrder[s] \in Nat /\ StepOrder[n] \in Nat /\ StepOrder[r] \in Nat
          /\ s \in Rules /\ q \in Rules
      BY <1>1, <1>4, <2>1, RulesAssumption
    <3>2. q = n
      BY <1>1, <1>3, <2>2, <3>1
    <3>3. CASE s = r \/ s = n
      BY <1>1, <1>3, <2>1, <3>1, <3>2, <3>3
    <3>4. CASE s # r /\ s # n
      <4>1. decision'[s] = decision[s]
        BY <1>3, <3>1, <3>4
      <4>2. CASE decision[s] = "Pending"
        BY <1>1, <2>1, <3>1, <3>2, <3>4, <4>1, <4>2 DEF IInv, StepShape
      <4>3. CASE decision[s] # "Pending"
        BY <1>1, <2>1, <3>1, <3>2, <3>4, <4>1, <4>3
      <4> QED BY <4>2, <4>3
    <3> QED BY <3>3, <3>4
  <2>7. ProjectExactlyWhenApproved' /\ StepShape'
    BY <1>1, <1>2, <1>3, <2>2 DEF IInv, ProjectExactlyWhenApproved, StepShape
  <2> QED BY <2>3, <2>4, <2>5, <2>6, <2>7 DEF IInv
<1> QED BY <1>2, <1>5, <1>6

\* A step sent back, by transitionStep or by handleRejection: no step is active, the row
\* is the one incomplete row and the author gets the proposal back.
LEMMA SendBackPreserves ==
    ASSUME IInv, NEW r \in active,
           NEW d \in {"Rejected", "Needs_Revision"},
           NEW s2 \in {"Draft", "Needs_Revision"},
           decision' = [decision EXCEPT ![r] = d], active' = {}, steps' = steps,
           status' = s2, isEditable' \in BOOLEAN, currentStepOrder' = 0,
           UNCHANGED <<projects, workspaceUnlocked>>, Record(status, s2),
           votes' \in [Rules -> [Users -> Outcomes \cup {"none"}]]
    PROVE  IInv'
<1>1. /\ r \in steps /\ r \in Rules /\ decision[r] = "Pending" /\ active = {r}
      /\ status = "Under_Review" /\ projects = 0 /\ ~workspaceUnlocked
      /\ \A s \in steps \ {r} :
            \/ StepOrder[s] < StepOrder[r] /\ decision[s] = "Accepted"
            \/ StepOrder[s] > StepOrder[r] /\ decision[s] = "Pending"
  BY AroundTheActiveStep
<1>2. decision'[r] = d /\ \A s \in Rules \ {r} : decision'[s] = decision[s]
  BY <1>1 DEF IInv, TypeOK
<1>3. HistoryIsAChain' /\ history' \in Seq([old : Statuses, new : Statuses])
  BY RecordKeepsChain DEF IInv, Statuses
<1>4. TypeOK'
  BY <1>1, <1>3 DEF IInv, TypeOK, Decisions, Statuses
<1>5. ActiveStepDiscipline' /\ ProjectExactlyWhenApproved'
  BY <1>1 DEF ActiveStepDiscipline, ProjectExactlyWhenApproved
<1>6. ReviewInOrder'
  <2> SUFFICES ASSUME NEW q \in steps, decision'[q] # "Accepted", decision'[q] # "Pending",
                      NEW s \in steps
               PROVE  /\ StepOrder[s] < StepOrder[q] => decision'[s] = "Accepted"
                      /\ StepOrder[s] > StepOrder[q] => decision'[s] = "Pending"
    BY DEF ReviewInOrder
  <2>1. s \in Rules /\ q \in Rules /\ StepOrder[s] \in Nat /\ StepOrder[q] \in Nat
    BY RulesAssumption DEF IInv, TypeOK
  <2>2. q = r
    BY <1>1, <1>2, <2>1
  <2> QED BY <1>1, <1>2, <2>1, <2>2
<1>7. StepShape'
  BY <1>1, <1>2 DEF IInv, StepShape
<1> QED BY <1>3, <1>4, <1>5, <1>6, <1>7 DEF IInv

\* transitionStep leaves no step active: the one active row is the row it decides.
LEMMA TransitionPreserves ==
    ASSUME IInv, NEW r \in active,
           NEW d \in {"Rejected", "Needs_Revision"},
           NEW s2 \in {"Draft", "Needs_Revision"}, NEW e \in BOOLEAN,
           TransitionWrites(status, r, d, s2, e), UNCHANGED votes
    PROVE  IInv'
<1>1. active' = {}
  BY AroundTheActiveStep DEF TransitionWrites
<1> QED
  BY <1>1, SendBackPreserves DEF TransitionWrites, IInv, TypeOK

\* Whatever handleApprovalStep or handleFormStep decides keeps the invariant.
LEMMA DecisionPreserves ==
    ASSUME IInv, NEW r \in active, NEW d \in Outcomes,
           DecisionWrites(status, r, d),
           votes' \in [Rules -> [Users -> Outcomes \cup {"none"}]]
    PROVE  IInv'
<1>1. CASE AcceptWrites(r)
  BY <1>1, AcceptPreserves
<1>2. CASE HandleRejection(status, r)
  BY <1>2, SendBackPreserves DEF HandleRejection
<1> QED BY <1>1, <1>2 DEF DecisionWrites

\* A vote: the ballots grow by one and, below the threshold, nothing else changes.
LEMMA VotePreserves ==
    ASSUME IInv, NEW u \in Users, NEW r \in active, NEW d \in Outcomes,
           VoteWrites(status, r, [votes[r] EXCEPT ![u] = d])
    PROVE  IInv'
<1> DEFINE ballots == [votes[r] EXCEPT ![u] = d]
<1>1. votes' \in [Rules -> [Users -> Outcomes \cup {"none"}]]
  BY DEF VoteWrites, IInv, TypeOK
<1>2. CASE UNCHANGED <<proposalVars, steps, decision, active, history>>
  <2>1. UNCHANGED <<status, isEditable, workspaceUnlocked, currentStepOrder, projects>>
        /\ UNCHANGED <<steps, decision, active, history>>
    BY <1>2 DEF proposalVars
  <2> QED BY <1>1, <2>1 DEF IInv, TypeOK, ActiveStepDiscipline, ReviewInOrder,
             ProjectExactlyWhenApproved, HistoryIsAChain, StepShape
<1>3. CASE DecisionWrites(status, r, VoteOutcome(r, ballots))
  <2>1. VoteOutcome(r, ballots) \in Outcomes
    BY DEF VoteOutcome, Outcomes, Decisions
  <2> QED BY <1>1, <1>3, <2>1, DecisionPreserves
<1> QED BY <1>2, <1>3 DEF VoteWrites

\* No request breaks the invariant.
LEMMA NextPreserves == IInv /\ [Next]_vars => IInv'
<1> SUFFICES ASSUME IInv, [Next]_vars PROVE IInv'
  OBVIOUS
<1>1. votes \in [Rules -> [Users -> Outcomes \cup {"none"}]]
  BY DEF IInv, TypeOK
<1>2. CASE UNCHANGED vars
  BY <1>2 DEF vars, proposalVars, IInv, TypeOK, ActiveStepDiscipline, ReviewInOrder,
         ProjectExactlyWhenApproved, HistoryIsAChain, StepShape
<1>3. ASSUME NEW u \in Users, SubmitProposal(u) PROVE IInv'
  BY <1>3, FirstSubmissionPreserves, ResumePreserves DEF SubmitProposal
<1>4. ASSUME NEW u \in Users, AcceptStep(u) PROVE IInv'
  BY <1>1, <1>4, AcceptPreserves DEF AcceptStep, CanApprove
<1>5. ASSUME NEW u \in Users, RejectStep(u) PROVE IInv'
  BY <1>5, TransitionPreserves DEF RejectStep, CanApprove
<1>6. ASSUME NEW u \in Users, RequestRevision(u) PROVE IInv'
  BY <1>6, TransitionPreserves DEF RequestRevision, CanApprove
<1>7. ASSUME NEW u \in Users, HandleApprovalOrForm(u) PROVE IInv'
  BY <1>1, <1>7, DecisionPreserves DEF HandleApprovalOrForm, CanAct, CanApprove
<1>8. ASSUME NEW u \in Users, HandleVote(u) PROVE IInv'
  BY <1>8, VotePreserves DEF HandleVote, CanAct, CanApprove
<1> QED BY <1>2, <1>3, <1>4, <1>5, <1>6, <1>7, <1>8 DEF Next, Review

-----------------------------------------------------------------------------
(* The theorems. *)

\* Every reachable state satisfies the inductive invariant.
THEOREM Invariance == Spec => []IInv
<1>1. Init => IInv
  BY InitHolds
<1>2. IInv /\ [Next]_vars => IInv'
  BY NextPreserves
<1> QED BY <1>1, <1>2, PTL DEF Spec

\* Every variable keeps its type.
THEOREM TypeCorrect == Spec => []TypeOK
<1>1. IInv => TypeOK
  BY DEF IInv
<1> QED BY <1>1, Invariance, PTL

\* Invariants 1 to 4 of docs/workflow-overview.md: one pending active step exactly while
\* the proposal is under review.
THEOREM OneActiveStep == Spec => []ActiveStepDiscipline
<1>1. IInv => ActiveStepDiscipline
  BY DEF IInv
<1> QED BY <1>1, Invariance, PTL

\* Reviews are granted in step order.
THEOREM OrderedReview == Spec => []ReviewInOrder
<1>1. IInv => ReviewInOrder
  BY DEF IInv
<1> QED BY <1>1, Invariance, PTL

\* One project and an open workspace exactly when every step was accepted.
THEOREM OneProject == Spec => []ProjectExactlyWhenApproved
<1>1. IInv => ProjectExactlyWhenApproved
  BY DEF IInv
<1> QED BY <1>1, Invariance, PTL

\* The status history is complete and in order.
THEOREM CompleteHistory == Spec => []HistoryIsAChain
<1>1. IInv => HistoryIsAChain
  BY DEF IInv
<1> QED BY <1>1, Invariance, PTL

\* A sent back proposal can be submitted again.
THEOREM AlwaysResumable == Spec => []ResubmissionPossible
<1>1. IInv => ResubmissionPossible
  BY IncompleteStepExists
<1> QED BY <1>1, Invariance, PTL

-----------------------------------------------------------------------------
(* What a step may never do. *)

\* The row a submission resumes from, and the row a reviewer decides, is not accepted yet.
LEMMA DecisionsKept ==
    ASSUME IInv, Next
    PROVE  \A s \in Rules : decision[s] = "Accepted" => decision'[s] = "Accepted"
<1> SUFFICES ASSUME NEW s \in Rules, decision[s] = "Accepted"
             PROVE  decision'[s] = "Accepted"
  OBVIOUS
<1>1. \A r \in active : r \in Rules /\ r # s
  BY DEF IInv, TypeOK, ActiveStepDiscipline
<1>2. \A r \in LastIncomplete : r \in Rules /\ r # s
  BY DEF LastIncomplete, IInv, TypeOK
<1>3. ASSUME NEW r \in active, NEW d \in Outcomes, DecisionWrites(status, r, d)
      PROVE  decision'[s] = "Accepted"
  BY <1>1, <1>3 DEF DecisionWrites, AcceptWrites, HandleRejection, IInv, TypeOK
<1>4. ASSUME NEW u \in Users, SubmitProposal(u) PROVE decision'[s] = "Accepted"
  BY <1>2, <1>4 DEF SubmitProposal, GenerateSteps, ResumeFrom, IInv, TypeOK
<1>5. ASSUME NEW u \in Users, AcceptStep(u) PROVE decision'[s] = "Accepted"
  BY <1>1, <1>5 DEF AcceptStep, CanApprove, AcceptWrites, IInv, TypeOK
<1>6. ASSUME NEW u \in Users, RejectStep(u) \/ RequestRevision(u)
      PROVE  decision'[s] = "Accepted"
  BY <1>1, <1>6 DEF RejectStep, RequestRevision, CanApprove, TransitionWrites, IInv, TypeOK
<1>7. ASSUME NEW u \in Users, HandleApprovalOrForm(u) PROVE decision'[s] = "Accepted"
  BY <1>3, <1>7 DEF HandleApprovalOrForm, CanAct, CanApprove
<1>8. ASSUME NEW u \in Users, HandleVote(u) PROVE decision'[s] = "Accepted"
  <2>1. PICK r \in Rules, d \in Outcomes :
            r \in active /\ VoteWrites(status, r, [votes[r] EXCEPT ![u] = d])
    BY <1>8 DEF HandleVote, CanAct, CanApprove
  <2>2. VoteOutcome(r, [votes[r] EXCEPT ![u] = d]) \in Outcomes
    BY DEF VoteOutcome, Outcomes, Decisions
  <2> QED BY <1>3, <2>1, <2>2 DEF VoteWrites
<1> QED BY <1>4, <1>5, <1>6, <1>7, <1>8 DEF Next, Review

\* A vote is cast once: canUserActOnStep lets nobody overwrite one, only a resubmission
\* wipes the row's ballots.
LEMMA VotesKept ==
    ASSUME IInv, Next
    PROVE  \A r \in Rules : \/ votes'[r] = NoVotes
                            \/ \A u \in Users : votes[r][u] # "none" => votes'[r][u] = votes[r][u]
<1>1. CASE UNCHANGED votes
  BY <1>1
<1>2. ASSUME NEW u \in Users, SubmitProposal(u), ~UNCHANGED votes
      PROVE  \A r \in Rules : votes'[r] = NoVotes \/ votes'[r] = votes[r]
  BY <1>2 DEF SubmitProposal, GenerateSteps, ResumeFrom, IInv, TypeOK
<1>3. ASSUME NEW u \in Users, HandleVote(u), NEW r \in Rules, NEW w \in Users,
             votes[r][w] # "none"
      PROVE  votes'[r][w] = votes[r][w]
  <2>1. PICK q \in Rules, d \in Outcomes :
            /\ StepType[q] = "VOTE" /\ votes[q][u] = "none"
            /\ votes' = [votes EXCEPT ![q] = [votes[q] EXCEPT ![u] = d]]
    BY <1>3 DEF HandleVote, CanAct, VoteWrites
  <2> QED BY <1>3, <2>1 DEF IInv, TypeOK
<1> QED
  BY <1>1, <1>2, <1>3
  DEF Next, Review, AcceptStep, RejectStep, RequestRevision, HandleApprovalOrForm

\* Approvals and votes already given are never taken back.
THEOREM NothingGrantedIsLost == Spec => GrantedIsKept
<1>1. IInv /\ [Next]_vars => [KeepsGranted]_vars
  BY DecisionsKept, VotesKept DEF KeepsGranted
<1> QED BY <1>1, Invariance, PTL DEF Spec, GrantedIsKept

-----------------------------------------------------------------------------
(* ProposalWorkflow implements ReviewLifecycle. *)

\* A draft is with its author and needs no reviews yet.
LEMMA InitRefines == Init => Lifecycle!Init
BY DEF Init, Lifecycle!Init, Phase, Accepted

\* A submission enters or re-enters the review.
LEMMA SubmitRefines ==
    ASSUME IInv, NEW u \in Users, SubmitProposal(u)
    PROVE  Lifecycle!Enter \/ Lifecycle!Reenter
<1>1. /\ Phase = "Authoring" /\ Phase' = "Review" /\ UNCHANGED projects
  BY DEF SubmitProposal, CanSubmit, SubmitWrites, Phase
<1>2. CASE steps = {} /\ GenerateSteps
  <2>1. steps' \in Matchings \ {{}}
    BY <1>2 DEF GenerateSteps
  <2>2. Accepted = {} /\ Accepted' = {}
    BY <1>2, <2>1, MatchingsAssumption DEF GenerateSteps, Accepted, IInv, StepShape
  <2> QED BY <1>1, <1>2, <2>1, <2>2 DEF Lifecycle!Enter
<1>3. ASSUME NEW r \in LastIncomplete, ResumeFrom(r)
      PROVE  Lifecycle!Reenter
  <2>1. r \in steps /\ decision[r] # "Accepted" /\ steps' = steps
    BY <1>3 DEF LastIncomplete, ResumeFrom
  <2>2. Accepted' = Accepted
    BY <1>3, <2>1 DEF Accepted, ResumeFrom, IInv, TypeOK
  <2> QED BY <1>1, <2>1, <2>2 DEF Lifecycle!Reenter
<1> QED BY <1>2, <1>3 DEF SubmitProposal

\* An accepted step is a granted review, and the last one delivers the project.
LEMMA AcceptRefines ==
    ASSUME IInv, NEW r \in active, AcceptWrites(r)
    PROVE  Lifecycle!Grant(r)
<1> DEFINE pending == {s \in steps \ {r} : decision[s] = "Pending"}
<1>1. /\ r \in steps /\ r \in Rules /\ decision[r] = "Pending"
      /\ status = "Under_Review"
      /\ \A s \in steps \ {r} :
            \/ StepOrder[s] < StepOrder[r] /\ decision[s] = "Accepted"
            \/ StepOrder[s] > StepOrder[r] /\ decision[s] = "Pending"
  BY AroundTheActiveStep
<1>2. \A s \in steps : StepOrder[s] \in Nat
  BY RulesAssumption DEF IInv, TypeOK
<1>3. Accepted' = Accepted \cup {r} /\ steps' = steps
  BY <1>1 DEF AcceptWrites, Accepted, IInv, TypeOK
<1>4. Phase = "Review" /\ r \in steps \ Accepted
  BY <1>1 DEF Phase, Accepted
<1>5. \A s \in steps : StepOrder[s] < StepOrder[r] => s \in Accepted
  BY <1>1, <1>2 DEF Accepted
<1>6. CASE pending = {} /\ CompleteWorkflow(r)
  <2>1. Accepted' = steps
    BY <1>1, <1>3, <1>6 DEF Accepted, IInv, TypeOK
  <2>2. Phase' = "Done" /\ projects' = projects + 1
    BY <1>6 DEF CompleteWorkflow, Phase
  <2> QED BY <1>3, <1>4, <1>5, <2>1, <2>2 DEF Lifecycle!Grant
<1>7. ASSUME NEW n \in Earliest(pending), ActivateNext(r, n)
      PROVE  Lifecycle!Grant(r)
  <2>1. n \in steps /\ n # r /\ decision[n] = "Pending"
    BY DEF Earliest
  <2>2. Accepted' # steps
    BY <1>3, <2>1 DEF Accepted
  <2>3. UNCHANGED <<Phase, projects>>
    BY <1>7 DEF ActivateNext, Phase
  <2> QED BY <1>3, <1>4, <1>5, <2>2, <2>3 DEF Lifecycle!Grant
<1> QED BY <1>6, <1>7 DEF AcceptWrites

\* A step that is not accepted sends the proposal back to its author.
LEMMA SendBackRefines ==
    ASSUME IInv, NEW r \in active, NEW d \in {"Rejected", "Needs_Revision"},
           decision' = [decision EXCEPT ![r] = d],
           status' \in {"Draft", "Needs_Revision"}, UNCHANGED <<steps, projects>>
    PROVE  Lifecycle!SendBack
<1>1. r \in Rules /\ decision[r] = "Pending" /\ status = "Under_Review"
  BY AroundTheActiveStep
<1>2. Accepted' = Accepted
  BY <1>1 DEF Accepted, IInv, TypeOK
<1>3. Phase = "Review" /\ Phase' = "Authoring"
  BY <1>1 DEF Phase
<1> QED BY <1>2, <1>3 DEF Lifecycle!SendBack

\* A decision grants the active review or sends the proposal back.
LEMMA DecisionRefines ==
    ASSUME IInv, NEW r \in active, NEW d \in Outcomes, DecisionWrites(status, r, d)
    PROVE  Lifecycle!Next
<1>1. r \in Rules
  BY AroundTheActiveStep
<1>2. CASE AcceptWrites(r)
  BY <1>1, <1>2, AcceptRefines DEF Lifecycle!Next
<1>3. CASE HandleRejection(status, r)
  BY <1>3, SendBackRefines DEF HandleRejection, Lifecycle!Next
<1> QED BY <1>2, <1>3 DEF DecisionWrites

\* Every step of the workflow is a step of the life cycle or, for a vote below the
\* threshold, no step at all.
LEMMA StepRefines == IInv /\ [Next]_vars => [Lifecycle!Next]_(Lifecycle!vars)
<1> SUFFICES ASSUME IInv, [Next]_vars
             PROVE  Lifecycle!Next \/ UNCHANGED Lifecycle!vars
  OBVIOUS
<1>1. CASE UNCHANGED <<steps, decision, status, projects>>
  BY <1>1 DEF Lifecycle!vars, Phase, Accepted
<1>2. ASSUME NEW u \in Users, SubmitProposal(u) PROVE Lifecycle!Next
  BY <1>2, SubmitRefines DEF Lifecycle!Next
<1>3. ASSUME NEW u \in Users, AcceptStep(u) PROVE Lifecycle!Next
  BY <1>3, AcceptRefines DEF AcceptStep, CanApprove, Lifecycle!Next
<1>4. ASSUME NEW u \in Users, RejectStep(u) PROVE Lifecycle!Next
  BY <1>4, SendBackRefines DEF RejectStep, CanApprove, TransitionWrites, Lifecycle!Next
<1>5. ASSUME NEW u \in Users, RequestRevision(u) PROVE Lifecycle!Next
  BY <1>5, SendBackRefines DEF RequestRevision, CanApprove, TransitionWrites, Lifecycle!Next
<1>6. ASSUME NEW u \in Users, HandleApprovalOrForm(u) PROVE Lifecycle!Next
  BY <1>6, DecisionRefines DEF HandleApprovalOrForm, CanAct, CanApprove
<1>7. ASSUME NEW u \in Users, HandleVote(u)
      PROVE  Lifecycle!Next \/ UNCHANGED <<steps, decision, status, projects>>
  <2>1. PICK r \in Rules, d \in Outcomes :
            r \in active /\ VoteWrites(status, r, [votes[r] EXCEPT ![u] = d])
    BY <1>7 DEF HandleVote, CanAct, CanApprove
  <2>2. VoteOutcome(r, [votes[r] EXCEPT ![u] = d]) \in Outcomes
    BY DEF VoteOutcome, Outcomes, Decisions
  <2> QED BY <2>1, <2>2, DecisionRefines DEF VoteWrites, proposalVars
<1> QED
  BY <1>1, <1>2, <1>3, <1>4, <1>5, <1>6, <1>7 DEF Next, Review, vars, proposalVars

\* The workflow is an implementation of the review life cycle.
THEOREM WorkflowImplementsLifecycle == Spec => ImplementsLifecycle
<1>1. Init => Lifecycle!Init
  BY InitRefines
<1>2. IInv /\ [Next]_vars => [Lifecycle!Next]_(Lifecycle!vars)
  BY StepRefines
<1> QED BY <1>1, <1>2, Invariance, PTL DEF Spec, ImplementsLifecycle, Lifecycle!Spec

=============================================================================
