SPECIFICATION Spec
CONSTANTS
    pi = pi
    officer = officer
    equipment = equipment
    travel = travel
    Items <- MCItems
    Submitters <- MCSubmitters
    Officers <- MCOfficers
    MaxRequests = 3
INVARIANTS
    TypeOK
    ReservedIsOpen
    PaidItemHasPayment
    NumberedInOrder
    ClearanceGate
PROPERTY SettledIsFinal
\* when every item is paid and every request settled there is nothing left to do
CHECK_DEADLOCK FALSE
