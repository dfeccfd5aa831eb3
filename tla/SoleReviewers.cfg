SPECIFICATION ReviewSpec
CONSTANTS
    author = author
    a = a
    b = b
    Creator <- author
    Users <- MCUsers
    Requests <- MCUsers
    Sender <- MCSender
    Rules <- MCRules
    Matchings <- MCMatchings
    StepOrder <- MCStepOrder
    StepType <- MCStepType
    Approvers <- MCApprovers
    VoteThreshold <- MCVoteThreshold
    VoteStrategy <- MCVoteStrategy
    MaxHistory = 5
INVARIANTS
    SnapshotsCurrent
    OneWriter
PROPERTIES
    FrozenUnderReview
    Serialisable
\* an approved proposal has nothing left to do
CHECK_DEADLOCK FALSE
