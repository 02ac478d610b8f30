----------------------------- MODULE DmServices -----------------------------
(***************************************************************************)
(* The adapters of the settings of services, mailboxes (EM), multimedia    *)
(* messages (MM) and destinations of the network (BM), each alone with the *)
(* engine, and what the rest of the device and the server rely on.         *)
(***************************************************************************)
EXTENDS DmRun

CONSTANTS
    MailNames, MailIds, MailLeaves, MailObjects, MailOpen,  \* those of DmEmail
    MmsLeaves, MmsObjects, MmsPoints, MmsOpen,              \* those of DmMms
    BmNames, BmIds, BmLeaves, BmObjects, BmPoints, BmOpen   \* those of DmBm

\* The message store numbers its mailboxes.
ASSUME MailIdsAssumption == MailIds \subseteq Nat

\* The bound on what waits for an answer is a number.
ASSUME BmOpenAssumption == BmOpen \in Nat

EM == INSTANCE DmEmail WITH
    Names <- MailNames, Ids <- MailIds, Leaves <- MailLeaves, Objects <- MailObjects,
    MaxOpen <- MailOpen
MM == INSTANCE DmMms WITH
    Leaves <- MmsLeaves, Objects <- MmsObjects, Points <- MmsPoints, MaxOpen <- MmsOpen
BM == INSTANCE DmBm WITH
    Names <- BmNames, Ids <- BmIds, Leaves <- BmLeaves, Objects <- BmObjects,
    Points <- BmPoints, MaxOpen <- BmOpen

ServicesInit ==
    \/ adapter = "EM" /\ EM!Init
    \/ adapter = "MM" /\ MM!Init
    \/ adapter = "BM" /\ BM!Init
ServicesNext ==
    /\ UNCHANGED adapter
    /\ \/ adapter = "EM" /\ EM!Next
       \/ adapter = "MM" /\ MM!Next
       \/ adapter = "BM" /\ BM!Next

ServicesSpec == ServicesInit /\ [][ServicesNext]_runVars

-----------------------------------------------------------------------------
\* No command is lost: what is unanswered is in a buffer that later calls work on.
NothingLost ==
    open = CASE adapter = "EM" -> EM!Held [] adapter = "MM" -> MM!Held [] adapter = "BM" -> BM!Held

\* What the server was told is stored is what a Get returns, as long as nobody
\* but the server changes it.
Stored ==
    \A k \in DOMAIN told :
        CASE adapter = "EM" -> EM!Kept(k[1], k[2])
          [] adapter = "MM" -> MM!Kept(k[1], k[2])
          [] adapter = "BM" -> BM!Kept(k[1], k[2])

\* As long as there is a mailbox for sending, one is the default.
DefaultExists ==
    adapter = "EM" => (DOMAIN db.acc # {} => db.default \in DOMAIN db.acc)

\* An access point that was protected is protected after every command, also one
\* that had to lift the protection in order to write.
StaysProtected ==
    [][adapter = "MM" => \A p \in DOMAIN db.wap : db'.wap[p].locked = db.wap[p].locked]_runVars

\* A destination keeps the one it embeds when a command to embed another fails.
EmbeddingIsReplaced ==
    [][adapter = "BM" =>
          \A i \in DOMAIN db \cap DOMAIN db' :
              db[i].embedded # NoLuid /\ db'[i].embedded = NoLuid =>
                  \/ db[i].embedded \notin DOMAIN db'
                  \/ BM!Delete
                  \/ \E r \in open : r.op = "unset"]_runVars
=============================================================================
