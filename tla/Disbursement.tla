------------------------------- MODULE Disbursement -------------------------------
(***************************************************************************)
(* How an approved project's budget items are paid out                     *)
(* (src/src/budget/services and src/src/budget/repositories): the PI       *)
(* requests payment of some items, finance pays, returns or rejects the    *)
(* request, the PI resubmits a returned one with a new clearance document. *)
(*                                                                         *)
(* Every operation checks first, outside any transaction, then (the PI's   *)
(* after uploading a file) writes in one transaction that checks nothing   *)
(* again.  So an operation is two steps, and the operations in progress at *)
(* one time are those of Submitters and Officers.                          *)
(*                                                                         *)
(* One project with one PI.  Left out: amounts, texts, bank numbers, the   *)
(* stored bytes.  The two checks of a submission, the count and the items, *)
(* are one step.                                                           *)
(*                                                                         *)
(* A definition marked "Fault" is no part of the model: it is the          *)
(* definition after it with a mistake, which the properties must notice.   *)
(***************************************************************************)
EXTENDS Naturals

CONSTANTS
    Items,        \* project_budget_items of the project
    MaxRequests,  \* bound: how many requests are made
    Submitters,   \* operations the PI can have in progress together
    Officers      \* operations finance can have in progress together

ASSUME MaxRequestsAssumption == MaxRequests \in Nat
ASSUME ActorsAssumption == Submitters \cap Officers = {}

Requests == 1..MaxRequests
RequestStatuses == {"none", "PENDING", "RETURNED", "RESUBMITTED", "PAID", "REJECTED"}
ItemStatuses == {"AVAILABLE", "PENDING_DISBURSEMENT", "PAID"}
Open == {"PENDING", "RESUBMITTED"}

VARIABLES
    made,            \* how many rows disbursement_requests has; they are 1..made
    requestStatus,   \* disbursement_requests.status, "none" without a row
    requestItems,    \* disbursement_request_items
    sequence,        \* disbursement_requests.request_sequence
    clearance,       \* whose document clearance_file_id names: the submission's, a correction's
    attached,        \* requests whose submitted document has file status ATTACHED, not TEMP
    itemStatus,      \* project_budget_items.status
    payments,        \* how often each item was paid for
    job              \* what each operation in progress is about to do

requestVars == <<made, requestStatus, requestItems, sequence, clearance, attached>>
vars == <<requestVars, itemStatus, payments, job>>

Made == 1..made
Idle == [op |-> "idle"]

\* Fault: the count is taken for the number.
CountSoFar == made

\* getDisbursementRequestCount and one.
NextSequence == made + 1

\* Fault: the second request is let through as well.
NeedsClearanceLate(n) == n > 2

\* From its second request on a project must account for the money it had.
NeedsClearance(n) == n > 1

Start(a, j) == job[a] = Idle /\ job' = [job EXCEPT ![a] = j]
Finish(a, j) == job' = [job EXCEPT ![a] = j]

-----------------------------------------------------------------------------
(* The PI: PiBudgetService. *)

\* submitRequest: the count, the clearance gate and validateAndFetchItemsForRequest.
ReceiveSubmit(a) ==
    \E S \in (SUBSET Items) \ {{}}, document \in BOOLEAN :
        LET n == NextSequence IN
        /\ NeedsClearance(n) => document
        /\ \A r \in Requests : requestStatus[r] # "RETURNED"
        /\ \A i \in S : itemStatus[i] = "AVAILABLE"
        /\ Start(a, [op |-> "submit", items |-> S, sequence |-> n, document |-> document])
        /\ UNCHANGED <<requestVars, itemStatus, payments>>

\* createDisbursementRequest; the document is attached in a later step.
CommitSubmit(a) ==
    LET r == made + 1 IN
    /\ job[a].op = "submit"
    /\ r \in Requests
    /\ made' = r
    /\ requestStatus' = [requestStatus EXCEPT ![r] = "PENDING"]
    /\ requestItems' = [requestItems EXCEPT ![r] = job[a].items]
    /\ sequence' = [sequence EXCEPT ![r] = job[a].sequence]
    /\ clearance' = [clearance EXCEPT ![r] = IF job[a].document THEN "submitted" ELSE "none"]
    /\ itemStatus' = [i \in Items |->
                        IF i \in job[a].items THEN "PENDING_DISBURSEMENT" ELSE itemStatus[i]]
    /\ Finish(a, IF job[a].document THEN [op |-> "attach", request |-> r] ELSE Idle)
    /\ UNCHANGED <<attached, payments>>

\* FilesService.attachFile, called by submitRequest once the request is committed.
AttachDocument(a) ==
    /\ job[a].op = "attach"
    /\ attached' = attached \cup {job[a].request}
    /\ Finish(a, Idle)
    /\ UNCHANGED <<made, requestStatus, requestItems, sequence, clearance, itemStatus, payments>>

\* Fault: any request can be resubmitted.
ReceiveResubmitOfAny(a) ==
    \E r \in Made :
        /\ Start(a, [op |-> "resubmit", request |-> r])
        /\ UNCHANGED <<requestVars, itemStatus, payments>>

\* validateResubmission
ReceiveResubmit(a) ==
    \E r \in Requests :
        /\ requestStatus[r] = "RETURNED"
        /\ Start(a, [op |-> "resubmit", request |-> r])
        /\ UNCHANGED <<requestVars, itemStatus, payments>>

\* resubmitDisbursementRequest: the items are not reserved again, the document not attached.
CommitResubmit(a) ==
    /\ job[a].op = "resubmit"
    /\ requestStatus' = [requestStatus EXCEPT ![job[a].request] = "RESUBMITTED"]
    /\ clearance' = [clearance EXCEPT ![job[a].request] = "corrected"]
    /\ Finish(a, Idle)
    /\ UNCHANGED <<made, requestItems, sequence, attached, itemStatus, payments>>

-----------------------------------------------------------------------------
(* Finance: FinanceBudgetService. *)

\* Fault: the request's status is not looked at.
ReceiveVerdictOnAny(f) ==
    \E r \in Made, verdict \in {"PAID", "RETURNED", "REJECTED"} :
        /\ NeedsClearance(sequence[r]) => clearance[r] # "none"
        /\ Start(f, [op |-> "verdict", request |-> r, verdict |-> verdict])
        /\ UNCHANGED <<requestVars, itemStatus, payments>>

\* validateForFinanceAction, the same check for all three verdicts.
ReceiveVerdict(f) ==
    \E r \in Requests, verdict \in {"PAID", "RETURNED", "REJECTED"} :
        /\ requestStatus[r] \in Open
        /\ NeedsClearance(sequence[r]) => clearance[r] # "none"
        /\ Start(f, [op |-> "verdict", request |-> r, verdict |-> verdict])
        /\ UNCHANGED <<requestVars, itemStatus, payments>>

\* What the three transactions share: the request's status, and its items'.
Settle(f, verdict, newItemStatus) ==
    LET r == job[f].request IN
    /\ job[f].op = "verdict"
    /\ job[f].verdict = verdict
    /\ requestStatus' = [requestStatus EXCEPT ![r] = verdict]
    /\ itemStatus' = [i \in Items |->
                        IF i \in requestItems[r] THEN newItemStatus ELSE itemStatus[i]]
    /\ Finish(f, Idle)
    /\ UNCHANGED <<made, requestItems, sequence, clearance, attached>>

ApproveDisbursement(f) ==
    /\ Settle(f, "PAID", "PAID")
    /\ payments' = [i \in Items |->
                      IF i \in requestItems[job[f].request] THEN payments[i] + 1 ELSE payments[i]]

\* Faults: the items stay reserved, or get the status of the request.
ReturnReserved(f) == Settle(f, "RETURNED", "PENDING_DISBURSEMENT") /\ UNCHANGED payments
ReturnItems(f) == Settle(f, "RETURNED", "RETURNED") /\ UNCHANGED payments

ReturnDisbursement(f) == Settle(f, "RETURNED", "AVAILABLE") /\ UNCHANGED payments

RejectDisbursement(f) == Settle(f, "REJECTED", "AVAILABLE") /\ UNCHANGED payments

\* The server stops, or an upload or a transaction fails, and the operation ends there.
Abort(a) ==
    /\ job[a] # Idle
    /\ Finish(a, Idle)
    /\ UNCHANGED <<requestVars, itemStatus, payments>>

-----------------------------------------------------------------------------
PiStep(a) ==
    \/ ReceiveSubmit(a)
    \/ CommitSubmit(a)
    \/ AttachDocument(a)
    \/ ReceiveResubmit(a)
    \/ CommitResubmit(a)

FinanceStep(f) ==
    \/ ReceiveVerdict(f)
    \/ ApproveDisbursement(f)
    \/ ReturnDisbursement(f)
    \/ RejectDisbursement(f)

Next ==
    \/ \E a \in Submitters : PiStep(a)
    \/ \E f \in Officers : FinanceStep(f)
    \/ \E a \in Submitters \cup Officers : Abort(a)

\* createProjectFromApprovedProposal seeds the items.
Init ==
    /\ made = 0
    /\ requestStatus = [r \in Requests |-> "none"]
    /\ requestItems = [r \in Requests |-> {}]
    /\ sequence = [r \in Requests |-> 0]
    /\ clearance = [r \in Requests |-> "none"]
    /\ attached = {}
    /\ itemStatus = [i \in Items |-> "AVAILABLE"]
    /\ payments = [i \in Items |-> 0]
    /\ job = [a \in Submitters \cup Officers |-> Idle]

Spec == Init /\ [][Next]_vars
=============================================================================
