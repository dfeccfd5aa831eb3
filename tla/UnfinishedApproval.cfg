SPECIFICATION DecisionsSpec
CONSTANTS
    author = author
    coordinator = coordinator
    evaluator = evaluator
    Creator <- author
    Program = "UG"
    Users <- MCUsers
    CoordinatorRows <- MCCoordinatorRows
    Deciders <- MCDeciders
    Rules <- MCRules
    Matchings <- MCMatchings
    StepOrder <- MCStepOrder
    StepType <- MCStepType
    Approvers <- MCApprovers
    VoteThreshold <- MCVoteThreshold
    VoteStrategy <- MCVoteStrategy
    MaxHistory = 4
INVARIANT ApprovedIsFinished
CHECK_DEADLOCK FALSE
