SPECIFICATION Spec
CONSTANTS
    Slots = {1}
    Prunings = {1, 2}
    Delays <- Late
    Contents = {"a", "b"}
    KeepRecent = 2
    MaxVersions = 0
    Sockets = {1, 2}
    Users = {"user"}
    userOf <- SameUser
    Calls = {1, 2, 3}
    socketOf <- FirstTwice
    Providers = {"provider"}
    Edits = {"old", "new"}
    Cases <- OtherServer
    MaxCount = 3
INVARIANT
    NothingIsLost
CHECK_DEADLOCK FALSE
