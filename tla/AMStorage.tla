------------------------------ MODULE AMStorage ------------------------------
(***************************************************************************)
(* CDeliveryComponentStorage (server/src/amstorage.cpp): the deployment    *)
(* components the Application Management server keeps in memory, and what  *)
(* it writes of them to the central repository.                            *)
(*                                                                         *)
(* An operation changes the memory at once (the server is one thread and   *)
(* nothing else runs before it returns) and leaves in `todo' the           *)
(* repository writes it makes, executed one at a time in the code's order. *)
(* The server may die between any two of them: killed, panicked, or        *)
(* through its shutdown timer, which calls HbApplication::exit(0) and      *)
(* never runs the destructor of the storage.  The repository is another    *)
(* process and keeps every write it acknowledged.                          *)
(*                                                                         *)
(* Abstracted: the order of the id list (nothing here depends on it), the  *)
(* status node (module AMInstaller), payloads and names.  Write errors     *)
(* are not modelled.                                                       *)
(***************************************************************************)
EXTENDS Integers, FiniteSets, Sequences

CONSTANTS
  UserIds,        \* the user ids a management client may choose
  StaticUserId,   \* the predefined node name (KAMDownloadPredefinedNode)
  Certs,          \* the certificates a management session may present
  NoCert,         \* a session that added no trust
  MaxId           \* bound: the greatest internal id ever handed out

ASSUME UserIdsAssumption ==
  /\ UserIds \subseteq [name : STRING, tail : Seq(Nat)]
  /\ StaticUserId \in [name : STRING, tail : Seq(Nat)]
ASSUME CertsAssumption == NoCert \notin Certs
ASSUME MaxIdAssumption == MaxId \in Nat \ {0}

VARIABLES
  \* the central repository and amcerts.dat: they outlive the server
  keyNextId,      \* KNextIdKey
  keyLength,      \* KIdListLengthKey, in ids
  keyList,        \* KIdListKey
  recs,           \* the record stored under each component's own key
  certFile,       \* amcerts.dat
  \* the memory of the server process
  up,             \* the process runs and its storage is constructed
  nextId,         \* iNextId
  ids,            \* iComponentIds
  mem,            \* iComponents
  certs,          \* iCertificates
  todo,           \* the writes the current operation has still to make
  job             \* the component it is about and the record it writes

repository == <<keyNextId, keyLength, keyList, recs, certFile>>
memory == <<up, nextId, ids, mem, certs>>
vars == <<repository, memory, todo, job>>

-----------------------------------------------------------------------------
(* Types *)

Ids == 1..MaxId
NoOwner == -1
States == {"None", "Delivered", "Inactive", "Active", "Download", "Delete"}
Deployed == {"Active", "Inactive"}

\* A user id: what the client chose, then the internal ids appended to it.
UserId == [name : STRING, tail : Seq(Nat)]

\* iOwner is an index into iCertificates, counted from 0.
Component == [state : States, oldState : States,
              userId : UserId, owner : Int]

NoJob == [id |-> 0, rec |-> [state |-> "None", oldState |-> "None",
                             userId |-> StaticUserId, owner |-> NoOwner]]

Empty == [i \in {} |-> NoJob.rec]

\* The repository calls, in the order every operation makes them: NextKey,
\* CDeploymentComponent::PersistL of a new component, its DestroyL, the two
\* calls of PersistStateL, and PersistL of a component that exists.
Writes == {"key", "create", "destroy", "length", "list", "save"}
Rank == [key |-> 1, create |-> 2, destroy |-> 3,
         length |-> 4, list |-> 5, save |-> 6]

TypeOK ==
  /\ keyNextId \in 1..MaxId+1
  /\ keyLength \in Nat
  /\ keyList \subseteq Ids
  /\ DOMAIN recs \subseteq Ids /\ \A i \in DOMAIN recs : recs[i] \in Component
  /\ certFile \in Seq(Certs)
  /\ up \in BOOLEAN
  /\ nextId \in 1..MaxId+1
  /\ ids \subseteq Ids
  /\ DOMAIN mem \subseteq Ids /\ \A i \in DOMAIN mem : mem[i] \in Component
  /\ certs \in Seq(Certs)
  /\ todo \subseteq Writes
  /\ job \in [id : Ids \cup {0}, rec : Component]
  /\ todo # {} => job.id \in Ids

Init ==
  /\ keyNextId = 1 /\ keyLength = 0 /\ keyList = {} /\ recs = Empty
  /\ certFile = << >>
  /\ up = TRUE /\ nextId = 1 /\ ids = {} /\ mem = Empty /\ certs = << >>
  /\ todo = {} /\ job = NoJob

-----------------------------------------------------------------------------
(* Helpers *)

Ready == up /\ todo = {}

\* SetState: the state left behind is the one reported to the DM adapter.
WithState(c, s) == [c EXCEPT !.oldState = c.state, !.state = s]

Suffixed(u, i) == [u EXCEPT !.tail = Append(@, i)]

\* Mutant of Deduplicated: components that are installed but inactive are
\* not compared.
DeduplicatedAgainstActive(i, c) ==
  IF \E j \in ids \ {i} : mem[j].state = "Active" /\ mem[j].userId = c.userId
    THEN [c EXCEPT !.userId = Suffixed(@, i)]
    ELSE c

\* CheckForDuplicateNodesInDeployedL: the id is appended at most once, and
\* the result is not compared again.
Deduplicated(i, c) ==
  IF \E j \in ids \ {i} : /\ mem[j].state \in Deployed
                          /\ mem[j].userId = c.userId
    THEN [c EXCEPT !.userId = Suffixed(@, i)]
    ELSE c

\* Change component i in memory to c, then UpdateL: its record is written.
Store(i, c) ==
  /\ mem' = [mem EXCEPT ![i] = c]
  /\ job' = [id |-> i, rec |-> c]
  /\ todo' = {"save"}
  /\ UNCHANGED <<repository, up, nextId, ids, certs>>

\* The place of certificate c in iCertificates, counted from 0: where
\* FindByValue finds it, or else where NewComponentL appends it.
OwnerIndex(c) ==
  IF c = NoCert THEN NoOwner
  ELSE IF \E k \in 1..Len(certs) : certs[k] = c
    THEN (CHOOSE k \in 1..Len(certs) : certs[k] = c) - 1
    ELSE Len(certs)

-----------------------------------------------------------------------------
(* The operations of the storage *)

\* NewComponentL: the record `saved' is written under the next id, and the
\* component stays in memory as `kept'.
Create(saved, kept, c) ==
  /\ Ready /\ nextId <= MaxId
  /\ nextId' = nextId + 1
  /\ certs' = IF saved.owner = Len(certs) THEN Append(certs, c) ELSE certs
  /\ mem' = [i \in DOMAIN mem \cup {nextId} |->
               IF i = nextId THEN kept ELSE mem[i]]
  /\ ids' = ids \cup {nextId}
  /\ job' = [id |-> nextId, rec |-> saved]
  /\ todo' = {"key", "create", "length", "list"}
  /\ UNCHANGED <<repository, up>>

\* Deliver2L asks for Delivered, DownloadL for Download, in a session that
\* presented certificate c.
NewComponentL(s, u, c) ==
  LET new == [state |-> s, oldState |-> "None", userId |-> u,
              owner |-> OwnerIndex(c)]
  IN Create(new, new, c)

\* StateChangeComponentIdsCountL adds a preinstalled application, saves it,
\* then calls CheckForDuplicateNodesInDeployedL and does not save it again.
NewPreinstalled(u) ==
  LET new == [state |-> "Active", oldState |-> "None", userId |-> u,
              owner |-> NoOwner]
  IN Create(new, Deduplicated(nextId, new), NoCert)

\* UpdateL after a handler changed nothing this module keeps.
UpdateL(i) == Ready /\ i \in DOMAIN mem /\ Store(i, mem[i])

\* SuccessStatusUpdateL of the component's download, whose SetStatusNode
\* writes the record.  A component that bears the predefined node name gets
\* its internal id appended, if the feature is on.  No state is refused.
Delivered(i) ==
  /\ Ready /\ i \in DOMAIN mem
  /\ \E staticnodeenabled \in BOOLEAN :
       LET u == mem[i].userId
           v == IF u = StaticUserId /\ staticnodeenabled
                  THEN Suffixed(u, i) ELSE u
       IN Store(i, [WithState(mem[i], "Delivered") EXCEPT !.userId = v])

InstalledL(i) ==
  /\ Ready /\ i \in DOMAIN mem
  /\ Store(i, WithState(Deduplicated(i, mem[i]), "Active"))

ActivateL(i) ==
  Ready /\ i \in DOMAIN mem /\ Store(i, WithState(mem[i], "Active"))

DeactivateL(i) ==
  Ready /\ i \in DOMAIN mem /\ Store(i, WithState(mem[i], "Inactive"))

\* FullUpdateL marks the component it replaced.
SetDeploymentComponentState(i) ==
  /\ Ready /\ i \in DOMAIN mem /\ mem[i].state \in Deployed
  /\ Store(i, WithState(mem[i], "Delete"))

\* Mutant of StateChangedL: the acknowledgement stays in memory.
StateChangedUnsaved(i) ==
  /\ Ready /\ i \in DOMAIN mem
  /\ mem' = [mem EXCEPT ![i].oldState = "None"]
  /\ UNCHANGED <<repository, up, nextId, ids, certs, todo, job>>

StateChangedL(i) ==
  Ready /\ i \in DOMAIN mem /\ Store(i, [mem[i] EXCEPT !.oldState = "None"])

\* RemoveL, of a state RemoveInternalL accepts.
RemoveL(i) ==
  /\ Ready /\ i \in DOMAIN mem
  /\ mem[i].state \in {"Delivered", "Download"} \cup Deployed
  /\ mem' = [j \in DOMAIN mem \ {i} |-> mem[j]]
  /\ ids' = ids \ {i}
  /\ job' = [NoJob EXCEPT !.id = i]
  /\ todo' = {"destroy", "length", "list"}
  /\ UNCHANGED <<repository, up, nextId, certs>>

\* ComponentL of an id that is not in memory: the record, if there is one,
\* joins iComponents but not iComponentIds.
LoadComponentL(i) ==
  /\ Ready /\ i \in DOMAIN recs \ DOMAIN mem
  /\ mem' = [j \in DOMAIN mem \cup {i} |->
               IF j = i THEN recs[i] ELSE mem[j]]
  /\ UNCHANGED <<repository, up, nextId, ids, certs, todo, job>>

-----------------------------------------------------------------------------
(* The repository writes *)

\* w is the next write of the operation.
Due(w) == up /\ w \in todo /\ \A x \in todo : Rank[w] <= Rank[x]
Done(w) ==
  /\ todo' = todo \ {w}
  /\ job' = IF todo = {w} THEN NoJob ELSE job
  /\ UNCHANGED <<memory, certFile>>

\* Mutant of WriteKey: the counter moves in memory only.
WriteKeyForgotten ==
  Due("key") /\ Done("key") /\ UNCHANGED <<keyNextId, keyLength, keyList, recs>>

WriteKey ==
  /\ Due("key") /\ keyNextId' = nextId /\ Done("key")
  /\ UNCHANGED <<keyLength, keyList, recs>>

WriteRecord(w) ==
  /\ Due(w) /\ Done(w)
  /\ recs' = [i \in DOMAIN recs \cup {job.id} |->
                IF i = job.id THEN job.rec ELSE recs[i]]
  /\ UNCHANGED <<keyNextId, keyLength, keyList>>

DestroyL ==
  /\ Due("destroy") /\ Done("destroy")
  /\ recs' = [i \in DOMAIN recs \ {job.id} |-> recs[i]]
  /\ UNCHANGED <<keyNextId, keyLength, keyList>>

\* Mutants of WriteLength: the length before a component joined the list, and
\* the length of the list that is already stored.
WriteLengthBeforeChange ==
  /\ Due("length") /\ keyLength' = Cardinality(ids) - 1 /\ Done("length")
  /\ UNCHANGED <<keyNextId, keyList, recs>>
WriteLengthOfStoredList ==
  /\ Due("length") /\ keyLength' = Cardinality(keyList) /\ Done("length")
  /\ UNCHANGED <<keyNextId, keyList, recs>>

WriteLength ==
  /\ Due("length") /\ keyLength' = Cardinality(ids) /\ Done("length")
  /\ UNCHANGED <<keyNextId, keyList, recs>>

WriteList ==
  /\ Due("list") /\ keyList' = ids /\ Done("list")
  /\ UNCHANGED <<keyNextId, keyLength, recs>>

-----------------------------------------------------------------------------
(* Death and start of the server *)

\* The process ends: todo and job keep what it did not get to.
Crash ==
  /\ up /\ up' = FALSE
  /\ nextId' = 1 /\ ids' = {} /\ mem' = Empty /\ certs' = << >>
  /\ UNCHANGED <<repository, todo, job>>

\* What ConstructL needs: the list fits in the buffer of the recorded length
\* (CRepository::Get fails otherwise) and every listed id has its record.
Loadable == Cardinality(keyList) <= keyLength /\ keyList \subseteq DOMAIN recs

\* Mutant of Start: components whose download did not finish are not loaded.
StartWithoutDownloads ==
  /\ ~up /\ Loadable
  /\ up' = TRUE
  /\ nextId' = keyNextId
  /\ ids' = {i \in keyList : recs[i].state # "Download"}
  /\ mem' = [i \in keyList |-> recs[i]]
  /\ certs' = certFile
  /\ todo' = {} /\ job' = NoJob
  /\ UNCHANGED repository

\* LoadCertsL, the next id and LoadComponentsL.
Start ==
  /\ ~up /\ Loadable
  /\ up' = TRUE
  /\ nextId' = keyNextId
  /\ ids' = keyList
  /\ mem' = [i \in keyList |-> recs[i]]
  /\ certs' = certFile
  /\ todo' = {} /\ job' = NoJob
  /\ UNCHANGED repository

\* The storage the download dialog makes for itself (showInstalltoDialog,
\* defaultDriveChanged): it loads the repository, saves the component whose
\* download it shows, and its destructor writes back the certificates it read.
SecondStorage(i) ==
  /\ Ready /\ Loadable /\ i \in DOMAIN mem
  /\ recs' = [j \in DOMAIN recs \cup {i} |-> IF j = i THEN mem[i] ELSE recs[j]]
  /\ certFile' = certFile
  /\ UNCHANGED <<keyNextId, keyLength, keyList, memory, todo, job>>

Operation(i) ==
  \/ UpdateL(i) \/ Delivered(i) \/ InstalledL(i) \/ ActivateL(i)
  \/ DeactivateL(i) \/ SetDeploymentComponentState(i) \/ StateChangedL(i)
  \/ RemoveL(i) \/ LoadComponentL(i) \/ SecondStorage(i)

Write ==
  \/ WriteKey \/ WriteRecord("create") \/ DestroyL \/ WriteLength
  \/ WriteList \/ WriteRecord("save")

Next ==
  \/ \E s \in {"Delivered", "Download"}, u \in UserIds, c \in Certs \cup {NoCert} :
       NewComponentL(s, u, c)
  \/ \E u \in UserIds : NewPreinstalled(u)
  \/ \E i \in Ids : Operation(i)
  \/ Write
  \/ Crash
  \/ Start

Spec == Init /\ [][Next]_vars

-----------------------------------------------------------------------------
(* Safety *)

\* Between two operations the repository holds what the memory holds, except
\* for the rename of a preinstalled application, which is not saved: only a
\* user id can be behind (PersistL, PersistStateL, NextKey).
RepositoryMirrorsMemory ==
  Ready =>
    /\ keyNextId = nextId /\ keyList = ids /\ keyLength >= Cardinality(ids)
    /\ DOMAIN mem \subseteq DOMAIN recs
    /\ \A i \in DOMAIN mem :
         mem[i] = [recs[i] EXCEPT !.userId = mem[i].userId]

\* The id NextKey hands out belongs to no record, not even one that a death
\* inside NewComponentL left without an entry in the list.
NextIdIsFresh ==
  Ready => \A i \in DOMAIN recs \cup keyList \cup DOMAIN mem : i < nextId

\* A server can always start again, unless it died inside RemoveL after the
\* record was deleted and before the shorter list was written.
UnloadableOnlyInsideRemoval ==
  Loadable \/ ("list" \in todo /\ {"create", "destroy"} \cap todo = {}
               /\ job.id \in keyList \ DOMAIN recs)

\* A component stays in the stored list until an operation removes it, across
\* any number of deaths.
ListedUntilRemoved ==
  [][\A i \in keyList \ keyList' : up /\ job.id = i /\ i \notin ids]_vars

\* InstalledL gives no component the user id of another deployed one, unless
\* a client chose a user id that ends in an internal id
\* (CheckForDuplicateNodesInDeployedL looks once and does not look again).
InstallKeepsUserIdsApart ==
  [][\A i \in DOMAIN mem : InstalledL(i) =>
       \A j \in ids \ {i} :
         /\ mem[j].state \in Deployed
         /\ mem'[i].userId = mem[j].userId
         => mem'[i].userId.tail # << >> /\ mem'[i].userId \in UserIds]_vars

\* iOwner: "TCertInfo index in CAMStorage::iCertificates"
\* (inc/AMDeploymentComponent.h).
OwnerIsACertificateIndex ==
  Ready => \A i \in ids : mem[i].owner < Len(certs)
=============================================================================
