SPECIFICATION Spec
CONSTANTS
    pi = pi
    officer = officer
    equipment = equipment
    travel = travel
    Items <- MCItems
    Submitters <- MCSubmitters
    Officers <- MCOfficers
    MaxRequests = 3
INVARIANT PaidOnce
CHECK_DEADLOCK FALSE
