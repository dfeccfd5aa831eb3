SPECIFICATION ReviewSpec
CONSTANTS
    author = author
    a = a
    b = b
    Creator <- author
    Users <- MCUsers
    Requests <- MCRequests
    Sender <- MCSender
    Rules <- MCRules
    Matchings <- MCMatchings
    StepOrder <- MCStepOrder
    StepType <- MCStepType
    Approvers <- MCApprovers
    VoteThreshold <- MCVoteThreshold
    VoteStrategy <- MCVoteStrategy
    MaxHistory = 5
INVARIANT AtMostOneProject
CHECK_DEADLOCK FALSE
