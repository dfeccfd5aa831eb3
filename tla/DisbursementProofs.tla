--------------------------- MODULE DisbursementProofs ---------------------------
(***************************************************************************)
(* Proofs about Disbursement, for any items, number of requests and        *)
(* actors.  SafeInv holds however many operations overlap and gives the    *)
(* types and ReservedIsOpen.  OrderlyInv holds when the PI and finance     *)
(* each do one thing at a time: then what an operation checked of its      *)
(* request, its number and its document is still so when it commits.       *)
(***************************************************************************)
EXTENDS DisbursementProps, TLAPS

Actors == Submitters \cup Officers
Verdicts == {"PAID", "RETURNED", "REJECTED"}

Jobs ==
    {Idle}
    \cup [op : {"submit"}, items : SUBSET Items, sequence : Nat, document : BOOLEAN]
    \cup [op : {"attach"}, request : Requests]
    \cup [op : {"resubmit"}, request : Requests]
    \cup [op : {"verdict"}, request : Requests, verdict : Verdicts]

\* The rows with a status are the rows that were made, also those operations work on.
RowsAreMade ==
    /\ \A r \in Requests : r \in Made <=> requestStatus[r] # "none"
    /\ \A a \in Actors : job[a].op \in {"resubmit", "verdict"} =>
          requestStatus[job[a].request] # "none"

SafeInv ==
    /\ TypeOK
    /\ job \in [Actors -> Jobs]
    /\ RowsAreMade
    /\ ReservedIsOpen

-----------------------------------------------------------------------------
\* What the operation in progress says of its fields.
LEMMA JobFields ==
    ASSUME NEW j \in Jobs
    PROVE  /\ j.op = "submit" => j.items \in SUBSET Items /\ j.sequence \in Nat
                                 /\ j.document \in BOOLEAN
           /\ j.op \in {"attach", "resubmit", "verdict"} => j.request \in Requests
           /\ j.op = "verdict" => j.verdict \in Verdicts
BY DEF Jobs, Idle

\* Nothing is requested and every item is available at first.
LEMMA SafeInit == Init => SafeInv
<1> SUFFICES ASSUME Init PROVE SafeInv
  OBVIOUS
<1> USE DEF Init
<1>1. TypeOK
  BY MaxRequestsAssumption DEF TypeOK, RequestStatuses, ItemStatuses
<1>2. job \in [Actors -> Jobs]
  BY DEF Actors, Jobs
<1>3. RowsAreMade
  BY MaxRequestsAssumption DEF RowsAreMade, Made, Requests, Actors, Idle
<1>4. ReservedIsOpen
  BY DEF ReservedIsOpen
<1> QED BY <1>1, <1>2, <1>3, <1>4 DEF SafeInv

\* Replacing one operation by one that is on a made row, or on none, keeps the jobs in order.
LEMMA JobReplaced ==
    ASSUME SafeInv, NEW a \in Actors, NEW j \in Jobs, job' = [job EXCEPT ![a] = j],
           \A r \in Requests : requestStatus[r] # "none" => requestStatus'[r] # "none",
           j.op \in {"resubmit", "verdict"} => requestStatus'[j.request] # "none"
    PROVE  /\ job' \in [Actors -> Jobs]
           /\ \A b \in Actors : job'[b].op \in {"resubmit", "verdict"} =>
                 requestStatus'[job'[b].request] # "none"
<1>1. job \in [Actors -> Jobs]
  BY DEF SafeInv
<1>2. job' \in [Actors -> Jobs]
  BY <1>1
<1>3. ASSUME NEW b \in Actors, job'[b].op \in {"resubmit", "verdict"}
      PROVE  requestStatus'[job'[b].request] # "none"
  <2>1. CASE b = a
    BY <1>1, <1>3, <2>1
  <2>2. CASE b # a
    <3>1. job'[b] = job[b]
      BY <1>1, <2>2
    <3>2. job[b].request \in Requests /\ requestStatus[job[b].request] # "none"
      BY <1>1, <1>3, <3>1, JobFields DEF SafeInv, RowsAreMade
    <3> QED BY <3>1, <3>2
  <2> QED BY <2>1, <2>2
<1> QED BY <1>2, <1>3

\* A step that only replaces an operation keeps the invariant.
LEMMA OnlyJobChanges ==
    ASSUME SafeInv, NEW a \in Actors, NEW j \in Jobs, job' = [job EXCEPT ![a] = j],
           UNCHANGED <<requestVars, itemStatus, payments>>,
           j.op \in {"resubmit", "verdict"} => requestStatus[j.request] # "none"
    PROVE  SafeInv'
<1>1. UNCHANGED <<made, requestStatus, requestItems, sequence, clearance, attached,
                  itemStatus, payments>>
  BY DEF requestVars
<1>2. /\ job' \in [Actors -> Jobs]
      /\ \A b \in Actors : job'[b].op \in {"resubmit", "verdict"} =>
            requestStatus'[job'[b].request] # "none"
  BY <1>1, JobReplaced
<1>3. TypeOK' /\ ReservedIsOpen'
  BY <1>1 DEF SafeInv, TypeOK, ReservedIsOpen
<1>4. RowsAreMade'
  BY <1>1, <1>2 DEF SafeInv, RowsAreMade, Made
<1> QED BY <1>2, <1>3, <1>4 DEF SafeInv

-----------------------------------------------------------------------------
\* The checks of PiBudgetService and FinanceBudgetService, and giving up, write nothing.
LEMMA ChecksKeepSafe ==
    ASSUME SafeInv, NEW a \in Actors,
           ReceiveSubmit(a) \/ ReceiveResubmit(a) \/ ReceiveVerdict(a) \/ Abort(a)
    PROVE  SafeInv'
<1>1. CASE ReceiveSubmit(a)
  <2>1. PICK S \in (SUBSET Items) \ {{}}, document \in BOOLEAN :
          /\ Start(a, [op |-> "submit", items |-> S, sequence |-> NextSequence,
                       document |-> document])
          /\ UNCHANGED <<requestVars, itemStatus, payments>>
    BY <1>1 DEF ReceiveSubmit
  <2>2. NextSequence \in Nat
    BY DEF NextSequence, SafeInv, TypeOK
  <2>3. [op |-> "submit", items |-> S, sequence |-> NextSequence, document |-> document]
          \in Jobs
    BY <2>2 DEF Jobs
  <2> QED BY <2>1, <2>3, OnlyJobChanges DEF Start
<1>2. CASE ReceiveResubmit(a)
  <2>1. PICK r \in Requests :
          /\ requestStatus[r] = "RETURNED"
          /\ Start(a, [op |-> "resubmit", request |-> r])
          /\ UNCHANGED <<requestVars, itemStatus, payments>>
    BY <1>2 DEF ReceiveResubmit
  <2>2. [op |-> "resubmit", request |-> r] \in Jobs
    BY DEF Jobs
  <2> QED BY <2>1, <2>2, OnlyJobChanges DEF Start
<1>3. CASE ReceiveVerdict(a)
  <2>1. PICK r \in Requests, verdict \in Verdicts :
          /\ requestStatus[r] \in Open
          /\ Start(a, [op |-> "verdict", request |-> r, verdict |-> verdict])
          /\ UNCHANGED <<requestVars, itemStatus, payments>>
    BY <1>3 DEF ReceiveVerdict, Verdicts
  <2>2. [op |-> "verdict", request |-> r, verdict |-> verdict] \in Jobs
    BY DEF Jobs
  <2>3. requestStatus[r] # "none"
    BY <2>1 DEF Open
  <2> QED BY <2>1, <2>2, <2>3, OnlyJobChanges DEF Start
<1>4. CASE Abort(a)
  BY <1>4, OnlyJobChanges DEF Abort, Finish, Jobs, Idle
<1> QED BY <1>1, <1>2, <1>3, <1>4

\* createDisbursementRequest makes the next row and reserves the items with it.
LEMMA SubmitKeepsSafe ==
    ASSUME SafeInv, NEW a \in Actors, CommitSubmit(a)
    PROVE  SafeInv'
<1> DEFINE r == made + 1
           j == IF job[a].document THEN [op |-> "attach", request |-> r] ELSE Idle
<1>1. /\ job[a].op = "submit" /\ r \in Requests /\ made' = r
      /\ requestStatus' = [requestStatus EXCEPT ![r] = "PENDING"]
      /\ requestItems' = [requestItems EXCEPT ![r] = job[a].items]
      /\ sequence' = [sequence EXCEPT ![r] = job[a].sequence]
      /\ clearance' = [clearance EXCEPT ![r] = IF job[a].document THEN "submitted" ELSE "none"]
      /\ itemStatus' = [i \in Items |->
                          IF i \in job[a].items THEN "PENDING_DISBURSEMENT" ELSE itemStatus[i]]
      /\ job' = [job EXCEPT ![a] = j]
      /\ UNCHANGED <<attached, payments>>
  BY DEF CommitSubmit, Finish
<1>2. /\ job[a].items \in SUBSET Items
      /\ job[a].sequence \in Nat
      /\ job[a].document \in BOOLEAN
  BY <1>1, JobFields DEF SafeInv
<1>3. made \in Nat /\ r \in Requests /\ r <= MaxRequests /\ requestStatus[r] = "none"
  BY <1>1, MaxRequestsAssumption DEF SafeInv, TypeOK, RowsAreMade, Made, Requests
<1> HIDE DEF r, j
<1>4. TypeOK'
  <2>1. made' \in 0..MaxRequests
    BY <1>1, <1>3, MaxRequestsAssumption DEF r
  <2>2. requestStatus' \in [Requests -> RequestStatuses]
    BY <1>1 DEF SafeInv, TypeOK, RequestStatuses
  <2>3. requestItems' \in [Requests -> SUBSET Items] /\ sequence' \in [Requests -> Nat]
    BY <1>1, <1>2 DEF SafeInv, TypeOK
  <2>4. clearance' \in [Requests -> {"none", "submitted", "corrected"}]
    BY <1>1 DEF SafeInv, TypeOK
  <2>5. itemStatus' \in [Items -> ItemStatuses]
    BY <1>1 DEF SafeInv, TypeOK, ItemStatuses
  <2> QED BY <1>1, <2>1, <2>2, <2>3, <2>4, <2>5 DEF SafeInv, TypeOK
<1>5. j \in Jobs /\ j.op \notin {"resubmit", "verdict"}
  BY <1>3 DEF j, Jobs, Idle
<1>6. \A s \in Requests : requestStatus'[s] = IF s = r THEN "PENDING" ELSE requestStatus[s]
  BY <1>1 DEF SafeInv, TypeOK
<1>7. /\ job' \in [Actors -> Jobs]
      /\ \A b \in Actors : job'[b].op \in {"resubmit", "verdict"} =>
            requestStatus'[job'[b].request] # "none"
  <2>1. \A s \in Requests : requestStatus[s] # "none" => requestStatus'[s] # "none"
    BY <1>6
  <2>2. job' = [job EXCEPT ![a] = j]
    BY <1>1
  <2> QED BY <1>5, <2>1, <2>2, JobReplaced
<1>8. \A s \in Requests : s \in Made' <=> s \in Made \/ s = r
  BY <1>1, <1>3 DEF Made, r, Requests
<1>9. RowsAreMade'
  BY <1>6, <1>7, <1>8 DEF SafeInv, RowsAreMade
<1>10. ReservedIsOpen'
  <2> SUFFICES ASSUME NEW i \in Items, itemStatus'[i] = "PENDING_DISBURSEMENT"
               PROVE  \E s \in Requests : requestStatus'[s] \in Open /\ i \in requestItems'[s]
    BY DEF ReservedIsOpen
  <2>1. CASE i \in job[a].items
    BY <1>1, <1>3, <1>6, <2>1 DEF Open, SafeInv, TypeOK
  <2>2. CASE i \notin job[a].items
    <3>1. PICK s \in Requests : requestStatus[s] \in Open /\ i \in requestItems[s]
      BY <1>1, <2>2 DEF SafeInv, ReservedIsOpen
    <3>2. s # r
      BY <1>3, <3>1 DEF Open
    <3> QED BY <1>1, <1>6, <3>1, <3>2 DEF SafeInv, TypeOK
  <2> QED BY <2>1, <2>2
<1> QED BY <1>4, <1>7, <1>9, <1>10 DEF SafeInv

\* attachFile touches the file only.
LEMMA AttachKeepsSafe ==
    ASSUME SafeInv, NEW a \in Actors, AttachDocument(a)
    PROVE  SafeInv'
<1>1. /\ job[a].op = "attach"
      /\ attached' = attached \cup {job[a].request}
      /\ job' = [job EXCEPT ![a] = Idle]
      /\ UNCHANGED <<made, requestStatus, requestItems, sequence, clearance, itemStatus, payments>>
  BY DEF AttachDocument, Finish
<1>2. TypeOK'
  BY <1>1, JobFields DEF SafeInv, TypeOK
<1>3. /\ job' \in [Actors -> Jobs]
      /\ \A b \in Actors : job'[b].op \in {"resubmit", "verdict"} =>
            requestStatus'[job'[b].request] # "none"
  <2>1. Idle \in Jobs /\ Idle.op \notin {"resubmit", "verdict"}
    BY DEF Jobs, Idle
  <2> QED BY <1>1, <2>1, JobReplaced
<1>4. RowsAreMade' /\ ReservedIsOpen'
  BY <1>1, <1>3 DEF SafeInv, RowsAreMade, ReservedIsOpen, Made
<1> QED BY <1>2, <1>3, <1>4 DEF SafeInv

\* resubmitDisbursementRequest opens a request again: no reservation loses its request.
LEMMA ResubmitKeepsSafe ==
    ASSUME SafeInv, NEW a \in Actors, CommitResubmit(a)
    PROVE  SafeInv'
<1> DEFINE r == job[a].request
<1>1. /\ job[a].op = "resubmit"
      /\ requestStatus' = [requestStatus EXCEPT ![r] = "RESUBMITTED"]
      /\ clearance' = [clearance EXCEPT ![r] = "corrected"]
      /\ job' = [job EXCEPT ![a] = Idle]
      /\ UNCHANGED <<made, requestItems, sequence, attached, itemStatus, payments>>
  BY DEF CommitResubmit, Finish
<1>2. r \in Requests /\ requestStatus[r] # "none"
  BY <1>1, JobFields DEF SafeInv, RowsAreMade
<1> HIDE DEF r
<1>3. \A s \in Requests : requestStatus'[s] = IF s = r THEN "RESUBMITTED" ELSE requestStatus[s]
  BY <1>1 DEF SafeInv, TypeOK
<1>4. TypeOK'
  <2>1. requestStatus' \in [Requests -> RequestStatuses]
    BY <1>1 DEF SafeInv, TypeOK, RequestStatuses
  <2>2. clearance' \in [Requests -> {"none", "submitted", "corrected"}]
    BY <1>1 DEF SafeInv, TypeOK
  <2> QED BY <1>1, <2>1, <2>2 DEF SafeInv, TypeOK
<1>5. /\ job' \in [Actors -> Jobs]
      /\ \A b \in Actors : job'[b].op \in {"resubmit", "verdict"} =>
            requestStatus'[job'[b].request] # "none"
  <2>1. Idle \in Jobs /\ Idle.op \notin {"resubmit", "verdict"}
    BY DEF Jobs, Idle
  <2>2. \A s \in Requests : requestStatus[s] # "none" => requestStatus'[s] # "none"
    BY <1>3
  <2>3. job' = [job EXCEPT ![a] = Idle]
    BY <1>1
  <2> QED BY <2>1, <2>2, <2>3, JobReplaced
<1>6. RowsAreMade'
  BY <1>1, <1>2, <1>3, <1>5 DEF SafeInv, RowsAreMade, Made
<1>7. ReservedIsOpen'
  <2>1. \A s \in Requests : requestStatus[s] \in Open => requestStatus'[s] \in Open
    BY <1>3 DEF Open
  <2> QED BY <1>1, <2>1 DEF SafeInv, ReservedIsOpen
<1> QED BY <1>4, <1>5, <1>6, <1>7 DEF SafeInv

\* What the verdicts share: a settled request keeps no item reserved.
LEMMA SettleKeepsSafe ==
    ASSUME SafeInv, NEW f \in Actors, NEW verdict \in Verdicts,
           NEW newItemStatus \in {"AVAILABLE", "PAID"}, Settle(f, verdict, newItemStatus),
           payments' \in [Items -> Nat]
    PROVE  SafeInv'
<1> DEFINE r == job[f].request
<1>1. /\ job[f].op = "verdict"
      /\ requestStatus' = [requestStatus EXCEPT ![r] = verdict]
      /\ itemStatus' = [i \in Items |->
                          IF i \in requestItems[r] THEN newItemStatus ELSE itemStatus[i]]
      /\ job' = [job EXCEPT ![f] = Idle]
      /\ UNCHANGED <<made, requestItems, sequence, clearance, attached>>
  BY DEF Settle, Finish
<1>2. r \in Requests /\ requestStatus[r] # "none"
  BY <1>1, JobFields DEF SafeInv, RowsAreMade
<1> HIDE DEF r
<1>3. \A s \in Requests : requestStatus'[s] = IF s = r THEN verdict ELSE requestStatus[s]
  BY <1>1 DEF SafeInv, TypeOK
<1>4. TypeOK'
  <2>1. requestStatus' \in [Requests -> RequestStatuses]
    BY <1>1 DEF SafeInv, TypeOK, RequestStatuses, Verdicts
  <2>2. itemStatus' \in [Items -> ItemStatuses]
    BY <1>1 DEF SafeInv, TypeOK, ItemStatuses
  <2> QED BY <1>1, <2>1, <2>2 DEF SafeInv, TypeOK
<1>5. /\ job' \in [Actors -> Jobs]
      /\ \A b \in Actors : job'[b].op \in {"resubmit", "verdict"} =>
            requestStatus'[job'[b].request] # "none"
  <2>1. Idle \in Jobs /\ Idle.op \notin {"resubmit", "verdict"}
    BY DEF Jobs, Idle
  <2>2. \A s \in Requests : requestStatus[s] # "none" => requestStatus'[s] # "none"
    BY <1>3 DEF Verdicts
  <2>3. job' = [job EXCEPT ![f] = Idle]
    BY <1>1
  <2> QED BY <2>1, <2>2, <2>3, JobReplaced
<1>6. RowsAreMade'
  BY <1>1, <1>2, <1>3, <1>5 DEF SafeInv, RowsAreMade, Made, Verdicts
<1>7. ReservedIsOpen'
  <2> SUFFICES ASSUME NEW i \in Items, itemStatus'[i] = "PENDING_DISBURSEMENT"
               PROVE  \E s \in Requests : requestStatus'[s] \in Open /\ i \in requestItems'[s]
    BY DEF ReservedIsOpen
  <2>1. i \notin requestItems[r] /\ itemStatus[i] = "PENDING_DISBURSEMENT"
    BY <1>1
  <2>2. PICK s \in Requests : requestStatus[s] \in Open /\ i \in requestItems[s]
    BY <2>1 DEF SafeInv, ReservedIsOpen
  <2>3. s # r
    BY <2>1, <2>2
  <2> QED BY <1>1, <1>3, <2>2, <2>3
<1> QED BY <1>4, <1>5, <1>6, <1>7 DEF SafeInv

\* The three verdicts are the shared transaction, and only a payment counts as one.
LEMMA VerdictsAreSettled ==
    ASSUME SafeInv, NEW f \in Actors,
           ApproveDisbursement(f) \/ ReturnDisbursement(f) \/ RejectDisbursement(f)
    PROVE  /\ payments' \in [Items -> Nat]
           /\ \/ Settle(f, "PAID", "PAID")
              \/ Settle(f, "RETURNED", "AVAILABLE")
              \/ Settle(f, "REJECTED", "AVAILABLE")
BY DEF ApproveDisbursement, ReturnDisbursement, RejectDisbursement, SafeInv, TypeOK

\* SafeInv is inductive.
LEMMA SafeStep == SafeInv /\ [Next]_vars => SafeInv'
<1> SUFFICES ASSUME SafeInv, [Next]_vars PROVE SafeInv'
  OBVIOUS
<1>1. ASSUME NEW a \in Submitters, PiStep(a) PROVE SafeInv'
  <2>1. a \in Actors
    BY DEF Actors
  <2> QED BY <1>1, <2>1, ChecksKeepSafe, SubmitKeepsSafe, AttachKeepsSafe, ResubmitKeepsSafe
          DEF PiStep
<1>2. ASSUME NEW f \in Officers, FinanceStep(f) PROVE SafeInv'
  <2>1. f \in Actors
    BY DEF Actors
  <2>2. CASE ReceiveVerdict(f)
    BY <2>1, <2>2, ChecksKeepSafe
  <2>3. CASE ApproveDisbursement(f) \/ ReturnDisbursement(f) \/ RejectDisbursement(f)
    <3>1. "PAID" \in Verdicts /\ "RETURNED" \in Verdicts /\ "REJECTED" \in Verdicts
      BY DEF Verdicts
    <3> QED BY <2>1, <2>3, <3>1, VerdictsAreSettled, SettleKeepsSafe
  <2> QED BY <1>2, <2>2, <2>3 DEF FinanceStep
<1>3. ASSUME NEW a \in Actors, Abort(a) PROVE SafeInv'
  BY <1>3, ChecksKeepSafe
<1>4. CASE UNCHANGED vars
  BY <1>4 DEF vars, requestVars, SafeInv, TypeOK, RowsAreMade, ReservedIsOpen, Made
<1> QED BY <1>1, <1>2, <1>3, <1>4 DEF Next, Actors

\* The inductive invariant holds however many operations overlap.
THEOREM Safety == Spec => []SafeInv
BY SafeInit, SafeStep, PTL DEF Spec

\* Every variable keeps its type.
THEOREM DisbursementTypes == Spec => []TypeOK
<1>1. SafeInv => TypeOK
  BY DEF SafeInv
<1> QED BY <1>1, Safety, PTL

\* No item stays reserved without a request that finance can settle, however many
\* submissions, resubmissions and verdicts overlap.
THEOREM NoItemIsStranded == Spec => []ReservedIsOpen
<1>1. SafeInv => ReservedIsOpen
  BY DEF SafeInv
<1> QED BY <1>1, Safety, PTL

-----------------------------------------------------------------------------
(* One thing at a time: what was checked is still so. *)

\* The number and the document of a submission, the status of a request being resubmitted
\* or settled, and who does what.
JobsOrderly ==
    /\ \A a \in Submitters : job[a].op # "verdict"
    /\ \A f \in Officers : job[f].op \in {"idle", "verdict"}
    /\ \A a \in Submitters : job[a].op = "submit" =>
          job[a].sequence = made + 1 /\ (made + 1 > 1 => job[a].document)
    /\ \A a \in Submitters : job[a].op = "resubmit" =>
          requestStatus[job[a].request] = "RETURNED"
    /\ \A f \in Officers : job[f].op = "verdict" => requestStatus[job[f].request] \in Open

\* ClearanceGate, said of each request.
Accounted == \A r \in Made : r > 1 => clearance[r] # "none"

OrderlyInv ==
    /\ SafeInv
    /\ JobsOrderly
    /\ NumberedInOrder
    /\ Accounted
    /\ PaidItemHasPayment

\* When the PI's operation changes, finance's does not.
LEMMA SubmitterMoves ==
    ASSUME OneOfEach, SafeInv, NEW a \in Submitters, NEW j, job' = [job EXCEPT ![a] = j]
    PROVE  /\ \A b \in Submitters : job'[b] = j
           /\ \A f \in Officers : job'[f] = job[f]
<1>1. job \in [Actors -> Jobs] /\ a \in Actors
  BY DEF SafeInv, Actors
<1>2. \A f \in Officers : f # a /\ f \in Actors
  BY ActorsAssumption DEF Actors
<1> QED BY <1>1, <1>2 DEF OneOfEach

\* And the other way round.
LEMMA OfficerMoves ==
    ASSUME OneOfEach, SafeInv, NEW f \in Officers, NEW j, job' = [job EXCEPT ![f] = j]
    PROVE  /\ \A g \in Officers : job'[g] = j
           /\ \A a \in Submitters : job'[a] = job[a]
<1>1. job \in [Actors -> Jobs] /\ f \in Actors
  BY DEF SafeInv, Actors
<1>2. \A a \in Submitters : a # f /\ a \in Actors
  BY ActorsAssumption DEF Actors
<1> QED BY <1>1, <1>2 DEF OneOfEach

\* There are no requests at first.
LEMMA OrderlyInit == Init => OrderlyInv
<1> SUFFICES ASSUME Init PROVE OrderlyInv
  OBVIOUS
<1>1. JobsOrderly
  BY DEF Init, JobsOrderly, Idle
<1>2. NumberedInOrder /\ Accounted
  BY DEF Init, NumberedInOrder, Accounted, Made
<1>3. PaidItemHasPayment
  BY DEF Init, PaidItemHasPayment
<1> QED BY <1>1, <1>2, <1>3, SafeInit DEF OrderlyInv

\* What the checks of a request found is what JobsOrderly says of it.
LEMMA ChecksKeepOrder ==
    ASSUME OneOfEach, OrderlyInv, SafeInv',
           \/ \E a \in Submitters : ReceiveSubmit(a) \/ ReceiveResubmit(a)
           \/ \E f \in Officers : ReceiveVerdict(f)
           \/ \E a \in Actors : Abort(a)
    PROVE  OrderlyInv'
<1>1. UNCHANGED <<made, requestStatus, requestItems, sequence, clearance, itemStatus>>
  BY DEF ReceiveSubmit, ReceiveResubmit, ReceiveVerdict, Abort, requestVars
<1>2. (NumberedInOrder /\ Accounted /\ PaidItemHasPayment)'
  BY <1>1 DEF OrderlyInv, NumberedInOrder, Accounted, PaidItemHasPayment, Made
<1>3. ASSUME NEW a \in Submitters, ReceiveSubmit(a) PROVE JobsOrderly'
  <2>1. PICK S \in (SUBSET Items) \ {{}}, document \in BOOLEAN :
          /\ NeedsClearance(NextSequence) => document
          /\ job' = [job EXCEPT ![a] = [op |-> "submit", items |-> S,
                                        sequence |-> NextSequence, document |-> document]]
    BY <1>3 DEF ReceiveSubmit, Start
  <2> DEFINE j == [op |-> "submit", items |-> S, sequence |-> NextSequence,
                   document |-> document]
  <2>2. j.op = "submit" /\ j.sequence = made + 1 /\ (made + 1 > 1 => j.document)
    BY <2>1 DEF NeedsClearance, NextSequence
  <2>3. (\A b \in Submitters : job'[b] = j) /\ (\A f \in Officers : job'[f] = job[f])
    BY <2>1, SubmitterMoves DEF OrderlyInv
  <2> HIDE DEF j
  <2> QED BY <1>1, <2>2, <2>3 DEF OrderlyInv, JobsOrderly
<1>4. ASSUME NEW a \in Submitters, ReceiveResubmit(a) PROVE JobsOrderly'
  <2>1. PICK r \in Requests :
          /\ requestStatus[r] = "RETURNED"
          /\ job' = [job EXCEPT ![a] = [op |-> "resubmit", request |-> r]]
    BY <1>4 DEF ReceiveResubmit, Start
  <2>2. /\ \A b \in Submitters : job'[b] = [op |-> "resubmit", request |-> r]
        /\ \A f \in Officers : job'[f] = job[f]
    BY <2>1, SubmitterMoves DEF OrderlyInv
  <2> QED BY <1>1, <2>1, <2>2 DEF OrderlyInv, JobsOrderly
<1>5. ASSUME NEW f \in Officers, ReceiveVerdict(f) PROVE JobsOrderly'
  <2>1. PICK r \in Requests, verdict \in Verdicts :
          /\ requestStatus[r] \in Open
          /\ job' = [job EXCEPT ![f] = [op |-> "verdict", request |-> r, verdict |-> verdict]]
    BY <1>5 DEF ReceiveVerdict, Start, Verdicts
  <2>2. /\ \A g \in Officers : job'[g] = [op |-> "verdict", request |-> r, verdict |-> verdict]
        /\ \A a \in Submitters : job'[a] = job[a]
    BY <2>1, OfficerMoves DEF OrderlyInv
  <2> QED BY <1>1, <2>1, <2>2 DEF OrderlyInv, JobsOrderly
<1>6. ASSUME NEW a \in Actors, Abort(a) PROVE JobsOrderly'
  <2>1. job' = [job EXCEPT ![a] = Idle]
    BY <1>6 DEF Abort, Finish
  <2>2. CASE a \in Submitters
    <3>1. (\A b \in Submitters : job'[b] = Idle) /\ (\A f \in Officers : job'[f] = job[f])
      BY <2>1, <2>2, SubmitterMoves DEF OrderlyInv
    <3> QED BY <1>1, <3>1 DEF OrderlyInv, JobsOrderly, Idle
  <2>3. CASE a \in Officers
    <3>1. (\A g \in Officers : job'[g] = Idle) /\ (\A b \in Submitters : job'[b] = job[b])
      BY <2>1, <2>3, OfficerMoves DEF OrderlyInv
    <3> QED BY <1>1, <3>1 DEF OrderlyInv, JobsOrderly, Idle
  <2> QED BY <2>2, <2>3 DEF Actors
<1> QED BY <1>2, <1>3, <1>4, <1>5, <1>6 DEF OrderlyInv

\* The new request has the next number and, unless it is the first, a document.
LEMMA SubmitKeepsOrder ==
    ASSUME OneOfEach, OrderlyInv, SafeInv', NEW a \in Submitters, CommitSubmit(a)
    PROVE  OrderlyInv'
<1> DEFINE r == made + 1
           j == IF job[a].document THEN [op |-> "attach", request |-> r] ELSE Idle
<1>1. /\ job[a].op = "submit" /\ r \in Requests /\ made' = r
      /\ requestStatus' = [requestStatus EXCEPT ![r] = "PENDING"]
      /\ requestItems' = [requestItems EXCEPT ![r] = job[a].items]
      /\ sequence' = [sequence EXCEPT ![r] = job[a].sequence]
      /\ clearance' = [clearance EXCEPT ![r] = IF job[a].document THEN "submitted" ELSE "none"]
      /\ itemStatus' = [i \in Items |->
                          IF i \in job[a].items THEN "PENDING_DISBURSEMENT" ELSE itemStatus[i]]
      /\ job' = [job EXCEPT ![a] = j]
  BY DEF CommitSubmit, Finish
<1>2. job[a].sequence = r /\ (r > 1 => job[a].document)
  BY <1>1 DEF OrderlyInv, JobsOrderly
<1>3. made \in Nat /\ requestStatus[r] = "none"
  BY <1>1 DEF OrderlyInv, SafeInv, TypeOK, RowsAreMade, Made
<1>4. \A s \in Made' : s \in Requests /\ (s \in Made \/ s = r)
  BY <1>1, <1>3, MaxRequestsAssumption DEF Made, Requests, SafeInv, TypeOK
<1>5. j.op \in {"idle", "attach"}
  BY DEF Idle
<1> HIDE DEF r, j
<1>6. \A s \in Requests : s # r =>
        /\ requestStatus'[s] = requestStatus[s] /\ requestItems'[s] = requestItems[s]
        /\ sequence'[s] = sequence[s] /\ clearance'[s] = clearance[s]
  BY <1>1 DEF OrderlyInv, SafeInv, TypeOK
<1>7. JobsOrderly'
  <2>1. (\A b \in Submitters : job'[b] = j) /\ (\A f \in Officers : job'[f] = job[f])
    BY <1>1, SubmitterMoves DEF OrderlyInv
  <2>2. ASSUME NEW f \in Officers, job[f].op = "verdict"
        PROVE  requestStatus'[job[f].request] \in Open
    <3>1. job[f].request \in Requests /\ requestStatus[job[f].request] \in Open
      BY <2>2, JobFields DEF OrderlyInv, SafeInv, JobsOrderly, Actors
    <3> QED BY <1>3, <1>6, <3>1 DEF Open
  <2> QED BY <1>5, <2>1, <2>2 DEF OrderlyInv, JobsOrderly
<1>8. NumberedInOrder'
  BY <1>1, <1>2, <1>4, <1>6 DEF OrderlyInv, SafeInv, TypeOK, NumberedInOrder
<1>9. Accounted'
  BY <1>1, <1>2, <1>4, <1>6 DEF OrderlyInv, SafeInv, TypeOK, Accounted
<1>10. PaidItemHasPayment'
  <2> SUFFICES ASSUME NEW i \in Items, itemStatus'[i] = "PAID"
               PROVE  \E s \in Requests : requestStatus'[s] = "PAID" /\ i \in requestItems'[s]
    BY DEF PaidItemHasPayment
  <2>1. itemStatus[i] = "PAID"
    BY <1>1
  <2>2. PICK s \in Requests : requestStatus[s] = "PAID" /\ i \in requestItems[s]
    BY <2>1 DEF OrderlyInv, PaidItemHasPayment
  <2> QED BY <1>3, <1>6, <2>2
<1> QED BY <1>7, <1>8, <1>9, <1>10 DEF OrderlyInv

\* Attaching the document changes nothing that the invariant speaks of.
LEMMA AttachKeepsOrder ==
    ASSUME OneOfEach, OrderlyInv, SafeInv', NEW a \in Submitters, AttachDocument(a)
    PROVE  OrderlyInv'
<1>1. /\ job' = [job EXCEPT ![a] = Idle]
      /\ UNCHANGED <<made, requestStatus, requestItems, sequence, clearance, itemStatus>>
  BY DEF AttachDocument, Finish
<1>2. (\A b \in Submitters : job'[b] = Idle) /\ (\A f \in Officers : job'[f] = job[f])
  BY <1>1, SubmitterMoves DEF OrderlyInv
<1>3. JobsOrderly'
  BY <1>1, <1>2 DEF OrderlyInv, JobsOrderly, Idle
<1> QED BY <1>1, <1>3 DEF OrderlyInv, NumberedInOrder, Accounted, PaidItemHasPayment, Made

\* Only a returned request is resubmitted, so no payment is forgotten.
LEMMA ResubmitKeepsOrder ==
    ASSUME OneOfEach, OrderlyInv, SafeInv', NEW a \in Submitters, CommitResubmit(a)
    PROVE  OrderlyInv'
<1> DEFINE r == job[a].request
<1>1. /\ job[a].op = "resubmit"
      /\ requestStatus' = [requestStatus EXCEPT ![r] = "RESUBMITTED"]
      /\ clearance' = [clearance EXCEPT ![r] = "corrected"]
      /\ job' = [job EXCEPT ![a] = Idle]
      /\ UNCHANGED <<made, requestItems, sequence, itemStatus>>
  BY DEF CommitResubmit, Finish
<1>2. requestStatus[r] = "RETURNED"
  BY <1>1 DEF OrderlyInv, JobsOrderly
<1> HIDE DEF r
<1>3. \A s \in Requests : requestStatus'[s] = IF s = r THEN "RESUBMITTED" ELSE requestStatus[s]
  BY <1>1 DEF OrderlyInv, SafeInv, TypeOK
<1>4. JobsOrderly'
  <2>1. (\A b \in Submitters : job'[b] = Idle) /\ (\A f \in Officers : job'[f] = job[f])
    BY <1>1, SubmitterMoves DEF OrderlyInv
  <2>2. ASSUME NEW f \in Officers, job[f].op = "verdict"
        PROVE  requestStatus'[job[f].request] \in Open
    <3>1. job[f].request \in Requests /\ requestStatus[job[f].request] \in Open
      BY <2>2, JobFields DEF OrderlyInv, SafeInv, JobsOrderly, Actors
    <3> QED BY <1>3, <3>1 DEF Open
  <2> QED BY <2>1, <2>2 DEF OrderlyInv, JobsOrderly, Idle
<1>5. NumberedInOrder'
  BY <1>1 DEF OrderlyInv, NumberedInOrder, Made
<1>6. Accounted'
  <2>1. \A s \in Made : s \in Requests
    BY MaxRequestsAssumption DEF OrderlyInv, SafeInv, TypeOK, Made, Requests
  <2> QED BY <1>1, <2>1 DEF OrderlyInv, SafeInv, TypeOK, Accounted, Made
<1>7. PaidItemHasPayment'
  BY <1>1, <1>2, <1>3 DEF OrderlyInv, PaidItemHasPayment
<1> QED BY <1>4, <1>5, <1>6, <1>7 DEF OrderlyInv

\* Only an open request is settled, so the items paid with others keep their payment.
LEMMA SettleKeepsOrder ==
    ASSUME OneOfEach, OrderlyInv, SafeInv', NEW f \in Officers, NEW verdict, NEW newItemStatus,
           Settle(f, verdict, newItemStatus),
           newItemStatus = "PAID" => verdict = "PAID"
    PROVE  OrderlyInv' /\ requestStatus[job[f].request] \in Open
<1> DEFINE r == job[f].request
<1>1. /\ job[f].op = "verdict"
      /\ requestStatus' = [requestStatus EXCEPT ![r] = verdict]
      /\ itemStatus' = [i \in Items |->
                          IF i \in requestItems[r] THEN newItemStatus ELSE itemStatus[i]]
      /\ job' = [job EXCEPT ![f] = Idle]
      /\ UNCHANGED <<made, requestItems, sequence, clearance>>
  BY DEF Settle, Finish
<1>2. r \in Requests /\ requestStatus[r] \in Open
  BY <1>1, JobFields DEF OrderlyInv, SafeInv, JobsOrderly, Actors
<1> HIDE DEF r
<1>3. \A s \in Requests : requestStatus'[s] = IF s = r THEN verdict ELSE requestStatus[s]
  BY <1>1 DEF OrderlyInv, SafeInv, TypeOK
<1>4. JobsOrderly'
  <2>1. (\A g \in Officers : job'[g] = Idle) /\ (\A a \in Submitters : job'[a] = job[a])
    BY <1>1, OfficerMoves DEF OrderlyInv
  <2>2. ASSUME NEW a \in Submitters, job[a].op = "resubmit"
        PROVE  requestStatus'[job[a].request] = "RETURNED"
    <3>1. job[a].request \in Requests /\ requestStatus[job[a].request] = "RETURNED"
      BY <2>2, JobFields DEF OrderlyInv, SafeInv, JobsOrderly, Actors
    <3> QED BY <1>2, <1>3, <3>1 DEF Open
  <2> QED BY <1>1, <2>1, <2>2 DEF OrderlyInv, JobsOrderly, Idle
<1>5. (NumberedInOrder /\ Accounted)'
  BY <1>1 DEF OrderlyInv, NumberedInOrder, Accounted, Made
<1>6. PaidItemHasPayment'
  <2> SUFFICES ASSUME NEW i \in Items, itemStatus'[i] = "PAID"
               PROVE  \E s \in Requests : requestStatus'[s] = "PAID" /\ i \in requestItems'[s]
    BY DEF PaidItemHasPayment
  <2>1. CASE i \in requestItems[r]
    BY <1>1, <1>2, <1>3, <2>1
  <2>2. CASE i \notin requestItems[r]
    <3>1. PICK s \in Requests : requestStatus[s] = "PAID" /\ i \in requestItems[s]
      BY <1>1, <2>2 DEF OrderlyInv, PaidItemHasPayment
    <3> QED BY <1>1, <1>3, <2>2, <3>1
  <2> QED BY <2>1, <2>2
<1> QED BY <1>2, <1>4, <1>5, <1>6 DEF OrderlyInv, r

\* OrderlyInv is inductive when nobody does two things at a time.
LEMMA OrderlyStep ==
    ASSUME OneOfEach
    PROVE  OrderlyInv /\ [Next]_vars => OrderlyInv'
<1> SUFFICES ASSUME OrderlyInv, [Next]_vars PROVE OrderlyInv'
  OBVIOUS
<1>1. SafeInv'
  BY SafeStep DEF OrderlyInv
<1>2. ASSUME NEW a \in Submitters, PiStep(a) PROVE OrderlyInv'
  BY <1>1, <1>2, ChecksKeepOrder, SubmitKeepsOrder, AttachKeepsOrder, ResubmitKeepsOrder
     DEF PiStep
<1>3. ASSUME NEW f \in Officers, FinanceStep(f) PROVE OrderlyInv'
  <2>1. CASE ReceiveVerdict(f)
    BY <1>1, <2>1, ChecksKeepOrder
  <2>2. CASE ApproveDisbursement(f) \/ ReturnDisbursement(f) \/ RejectDisbursement(f)
    BY <1>1, <2>2, SettleKeepsOrder
       DEF ApproveDisbursement, ReturnDisbursement, RejectDisbursement
  <2> QED BY <1>3, <2>1, <2>2 DEF FinanceStep
<1>4. ASSUME NEW a \in Actors, Abort(a) PROVE OrderlyInv'
  BY <1>1, <1>4, ChecksKeepOrder
<1>5. CASE UNCHANGED vars
  BY <1>1, <1>5 DEF vars, requestVars, OrderlyInv, JobsOrderly, NumberedInOrder, Accounted,
                    PaidItemHasPayment, Made
<1> QED BY <1>2, <1>3, <1>4, <1>5 DEF Next, Actors

\* The inductive invariant of orderly operation.
THEOREM Orderliness ==
    ASSUME OneOfEach
    PROVE  Spec => []OrderlyInv
<1>1. OrderlyInv /\ [Next]_vars => OrderlyInv'
  BY OrderlyStep
<1> QED BY <1>1, OrderlyInit, PTL DEF Spec

\* One operation at a time each: the count taken before the upload numbers the requests.
THEOREM RequestsAreNumbered ==
    ASSUME OneOfEach
    PROVE  Spec => []NumberedInOrder
<1>1. OrderlyInv => NumberedInOrder
  BY DEF OrderlyInv
<1>2. Spec => []OrderlyInv
  BY Orderliness
<1> QED BY <1>1, <1>2, PTL

\* One operation at a time each: only the first request goes without a document.
THEOREM NoMoneyWithoutClearance ==
    ASSUME OneOfEach
    PROVE  Spec => []ClearanceGate
<1>1. OrderlyInv => ClearanceGate
  BY DEF OrderlyInv, SafeInv, TypeOK, Accounted, ClearanceGate, Made
<1>2. Spec => []OrderlyInv
  BY Orderliness
<1> QED BY <1>1, <1>2, PTL

\* One operation at a time each: a paid item has a request that is still marked paid.
THEOREM PaidItemsAreAccountedFor ==
    ASSUME OneOfEach
    PROVE  Spec => []PaidItemHasPayment
<1>1. OrderlyInv => PaidItemHasPayment
  BY DEF OrderlyInv
<1>2. Spec => []OrderlyInv
  BY Orderliness
<1> QED BY <1>1, <1>2, PTL

\* One operation at a time each: a paid or rejected request stays so.
THEOREM NothingSettledReopens ==
    ASSUME OneOfEach
    PROVE  Spec => SettledIsFinal
<1> DEFINE Final == \A r \in Requests : requestStatus[r] \in {"PAID", "REJECTED"} =>
                      requestStatus'[r] = requestStatus[r]
<1>1. OrderlyInv /\ [Next]_vars => [Final]_vars
  <2> SUFFICES ASSUME OrderlyInv, Next PROVE Final
    OBVIOUS
  <2>1. SafeInv' /\ requestStatus \in [Requests -> RequestStatuses]
    BY SafeStep DEF OrderlyInv, SafeInv, TypeOK
  <2>2. ASSUME NEW a \in Submitters, CommitSubmit(a) PROVE Final
    <3>1. requestStatus' = [requestStatus EXCEPT ![made + 1] = "PENDING"]
      BY <2>2 DEF CommitSubmit
    <3>2. made + 1 \notin Made /\ made + 1 \in Requests
      BY <2>2 DEF CommitSubmit, Made, OrderlyInv, SafeInv, TypeOK
    <3>3. requestStatus[made + 1] = "none"
      BY <3>2 DEF OrderlyInv, SafeInv, RowsAreMade
    <3> QED BY <2>1, <3>1, <3>3
  <2>3. ASSUME NEW a \in Submitters, CommitResubmit(a) PROVE Final
    <3>1. requestStatus[job[a].request] = "RETURNED"
      BY <2>3 DEF CommitResubmit, OrderlyInv, JobsOrderly
    <3> QED BY <2>1, <2>3, <3>1 DEF CommitResubmit
  <2>4. ASSUME NEW f \in Officers, NEW verdict, NEW newItemStatus,
               Settle(f, verdict, newItemStatus)
        PROVE  Final
    <3>1. requestStatus[job[f].request] \in Open
      BY <2>4 DEF Settle, OrderlyInv, JobsOrderly
    <3> QED BY <2>1, <2>4, <3>1 DEF Settle, Open
  <2>5. ASSUME UNCHANGED requestStatus PROVE Final
    BY <2>5
  <2> HIDE DEF Final
  <2>6. ASSUME NEW a \in Submitters, PiStep(a) PROVE Final
    BY <2>2, <2>3, <2>5, <2>6
       DEF PiStep, ReceiveSubmit, AttachDocument, ReceiveResubmit, requestVars
  <2>7. ASSUME NEW f \in Officers, FinanceStep(f) PROVE Final
    BY <2>4, <2>5, <2>7 DEF FinanceStep, ReceiveVerdict, ApproveDisbursement,
                            ReturnDisbursement, RejectDisbursement, requestVars
  <2>8. ASSUME NEW a \in Actors, Abort(a) PROVE Final
    BY <2>5, <2>8 DEF Abort, requestVars
  <2> QED BY <2>6, <2>7, <2>8 DEF Next, Actors
<1>2. Spec => []OrderlyInv
  BY Orderliness
<1> QED BY <1>1, <1>2, PTL DEF Spec, SettledIsFinal
=============================================================================
