SPECIFICATION FairSpec
CONSTANTS
    author = author
    a = a
    b = b
    c = c
    Creator <- author
    Users <- MCUsers
    Rules <- MCRules
    Matchings <- MCMatchings
    StepOrder <- MCStepOrder
    StepType <- MCStepType
    Approvers <- MCApprovers
    VoteThreshold <- MCVoteThreshold
    VoteStrategy <- MCVoteStrategy
    MaxHistory = 5
INVARIANTS
    TypeOK
    ActiveStepDiscipline
    ReviewInOrder
    ProjectExactlyWhenApproved
    HistoryIsAChain
    ResubmissionPossible
PROPERTIES
    GrantedIsKept
    ReviewEnds
    ImplementsLifecycle
\* an approved proposal has nothing left to do
CHECK_DEADLOCK FALSE
