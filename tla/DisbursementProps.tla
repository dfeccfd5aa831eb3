----------------------------- MODULE DisbursementProps -----------------------------
(***************************************************************************)
(* What holds of Disbursement, and one thing that should and does not.     *)
(***************************************************************************)
EXTENDS Disbursement

\* The PI and finance each do one thing at a time (they may still overlap).  Nothing in the
\* code ensures it; properties that need it say so.
OneOfEach ==
    /\ \A a, b \in Submitters : a = b
    /\ \A f, g \in Officers : f = g

\* Every variable keeps its type.
TypeOK ==
    /\ made \in 0..MaxRequests
    /\ requestStatus \in [Requests -> RequestStatuses]
    /\ requestItems \in [Requests -> SUBSET Items]
    /\ sequence \in [Requests -> Nat]
    /\ clearance \in [Requests -> {"none", "submitted", "corrected"}]
    /\ attached \in SUBSET Requests
    /\ itemStatus \in [Items -> ItemStatuses]
    /\ payments \in [Items -> Nat]

\* No item is locked for ever: an item that is reserved is reserved by a request that finance
\* can still settle.  Return, reject and pay free or use the items with the request, and a
\* submission reserves them with it; this holds for any number of operations in progress.
ReservedIsOpen ==
    \A i \in Items : itemStatus[i] = "PENDING_DISBURSEMENT" =>
        \E r \in Requests : requestStatus[r] \in Open /\ i \in requestItems[r]

\* An item marked paid was paid for by a request that is still marked paid.  Needs OneOfEach:
\* with two resubmissions in progress a paid request can become RESUBMITTED.
PaidItemHasPayment ==
    \A i \in Items : itemStatus[i] = "PAID" =>
        \E r \in Requests : requestStatus[r] = "PAID" /\ i \in requestItems[r]

\* The requests are numbered 1, 2, ... without gap or repetition, although the number is a
\* COUNT(*) taken before the upload.  Needs OneOfEach.
NumberedInOrder == \A r \in Made : sequence[r] = r

\* The clearance gate: only the first request of a project ever goes without a document.  Needs
\* OneOfEach: two submissions that both count no request before them both pass it.
ClearanceGate == \A r, s \in Made : clearance[r] = "none" /\ clearance[s] = "none" => r = s

\* A paid or rejected request stays so: no handler of the PI or of finance brings it back.
\* Needs OneOfEach: with two officers a paid request can be returned.
SettledIsFinal ==
    [][\A r \in Requests : requestStatus[r] \in {"PAID", "REJECTED"} =>
          requestStatus'[r] = requestStatus[r]]_vars

\* budget.repository.ts:250, requests may be made in parallel "as long as budget is
\* available": an item's budget is spent once.  It is not so, for a returned request gives
\* its items back and takes them no more when it is resubmitted.
PaidOnce == \A i \in Items : payments[i] <= 1
=============================================================================
