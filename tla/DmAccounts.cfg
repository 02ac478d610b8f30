SPECIFICATION AccountsSpec
CONSTANTS
    AccNames = {n1, n2}
    AccProfiles = {0}
    AccOpen = 5
    AccLater = 1
    Acc12Leaves <- Leaves12
    Acc12Objects <- Objects12
    Acc12Deleted <- Deleted12
    Acc12Rank <- Rank12
    Acc11Leaves <- Leaves11
    Acc11Objects <- Objects11
    Acc11Deleted = {"Addr", "AuthScheme"}
    Acc11Rank <- Rank11
    SyncNames = {"n1"}
    SyncTasks = {"d1", "d2"}
    SyncProfiles = {1}
    SyncProviders <- ProvidersDS
    SyncMime <- MimeDS
    SyncLeaves = {"Addr", "PortNbr"}
    SyncTaskLeaves = {"CTType", "RDBURI"}
    SyncObjects <- ObjectsDS
    SyncOpen = 3
INVARIANTS NothingLost AnsweredOnce 
PROPERTY LockHolds
