SPECIFICATION Spec
CONSTANTS
    Slots = {1}
    Prunings = {1, 2}
    Delays <- Late
    Contents = {"a", "b"}
    KeepRecent = 2
    MaxVersions = 4
    Sockets = {1, 2}
    Users = {"user"}
    userOf <- SameUser
    Calls = {1, 2, 3}
    socketOf <- FirstTwice
    Providers = {"provider"}
    Edits = {"old", "new"}
    Cases <- Worst
    MaxCount = 3
INVARIANTS
    DocumentTypes
    ContentIsInHistory
    PruningIsSafe
    NumbersFollowTime
    PresenceIsExact
    SessionsHoldDocument
    EvictionLosesNothing
PROPERTIES
    KeepsHistory
    LatestLands
    EditsAreStored
\* Everybody may have left, or the bound on the versions may be reached.
CHECK_DEADLOCK FALSE
