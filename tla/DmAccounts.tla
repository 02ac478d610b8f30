------------------------------ MODULE DmAccounts ------------------------------
(***************************************************************************)
(* The adapters of the accounts of servers: the DM accounts of OMA DM 1.2  *)
(* (A12) and 1.1.2 (A11) and the data synchronization profiles (DS), each  *)
(* alone with the engine, and what the server relies on.                   *)
(***************************************************************************)
EXTENDS DmRun

CONSTANTS
    AccNames, AccProfiles, AccOpen, AccLater,                   \* those of DmAcc12 and DmAcc11
    Acc12Leaves, Acc12Objects, Acc12Deleted, Acc12Rank,         \* those of DmAcc12
    Acc11Leaves, Acc11Objects, Acc11Deleted, Acc11Rank,         \* those of DmAcc11
    SyncNames, SyncTasks, SyncProfiles, SyncProviders,          \* those of DmDs
    SyncMime, SyncLeaves, SyncTaskLeaves, SyncObjects, SyncOpen

A12 == INSTANCE DmAcc12 WITH
    Names <- AccNames, Profiles <- AccProfiles, Leaves <- Acc12Leaves, Objects <- Acc12Objects,
    Deleted <- Acc12Deleted, Rank <- Acc12Rank, MaxOpen <- AccOpen, MaxLater <- AccLater
A11 == INSTANCE DmAcc11 WITH
    Names <- AccNames, Profiles <- AccProfiles, Leaves <- Acc11Leaves, Objects <- Acc11Objects,
    Deleted <- Acc11Deleted, Rank <- Acc11Rank, MaxOpen <- AccOpen, MaxPorts <- AccLater
DS == INSTANCE DmDs WITH
    Names <- SyncNames, Tasks <- SyncTasks, Profiles <- SyncProfiles, Providers <- SyncProviders,
    Mime <- SyncMime, Leaves <- SyncLeaves, TaskLeaves <- SyncTaskLeaves,
    Objects <- SyncObjects, MaxOpen <- SyncOpen

\* Names of tasks are not empty; the server uses leaves that are in the DDF, and
\* those are the ones that stand for an item of the profile.
ASSUME SyncTasksAssumption == "" \notin SyncTasks
ASSUME SyncLeavesAssumption ==
    SyncLeaves \cup SyncTaskLeaves \subseteq DOMAIN DS!Access \cap DOMAIN DS!GetDSField

AccountsInit ==
    \/ adapter = "A12" /\ A12!Init
    \/ adapter = "A11" /\ A11!Init
    \/ adapter = "DS" /\ DS!Init
AccountsNext ==
    /\ UNCHANGED adapter
    /\ \/ adapter = "A12" /\ A12!Next
       \/ adapter = "A11" /\ A11!Next
       \/ adapter = "DS" /\ DS!Next

AccountsSpec == AccountsInit /\ [][AccountsNext]_runVars

-------------------------------------------------------------------------------
\* No command is lost: what is unanswered is in a buffer that later calls work
\* on.  The exceptions are the code's: a lock of a new profile (A12) is never
\* answered, and of two ports that wait (DS) only the last one is.
NothingLost ==
    CASE adapter = "A12" -> A12!Held \subseteq open /\ open \subseteq A12!Held \cup A12!LockRefs
      [] adapter = "A11" -> open = A11!Held
      [] adapter = "DS" -> DS!Held \subseteq open /\ open \subseteq DS!Held \cup DS!Dropped

\* What the server was told is stored is what a Get returns.
Stored ==
    \A k \in DOMAIN told :
        CASE adapter = "A12" -> A12!Kept(k[1], k[2])
          [] adapter = "A11" -> A11!Kept(k[1], k[2])
          [] adapter = "DS" -> DS!Kept(k[1], k[2])

\* A server does not change what the lock of a profile covers.
LockHolds ==
    [][adapter = "A12" =>
          \A p \in DOMAIN db :
              db[p].locked => \/ p \in DOMAIN db' /\ A12!Covered(db'[p]) = A12!Covered(db[p])
                              \/ A12!UserDeletes]_runVars

\* "If buffering used, commands must be executed before returning this function."
\* (NSmlDmSettingsAdapter12.cpp:1205)
Completed == [][(adapter = "A12" /\ A12!Complete) => open' = {}]_runVars
===============================================================================
