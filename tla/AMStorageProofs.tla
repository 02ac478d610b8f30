--------------------------- MODULE AMStorageProofs ---------------------------
(***************************************************************************)
(* Proofs about AMStorage for every set of user ids and certificates and   *)
(* every bound on the ids: type correctness, and the invariants and action *)
(* properties its runs check on two components.                            *)
(***************************************************************************)
EXTENDS AMStorage, FiniteSetTheorems, TLAPS

(* The inductive invariant                                                 *)

\* The operations in progress, by what they have still to write.
Programs == {{}, {"save"},
             {"key", "create", "length", "list"}, {"create", "length", "list"},
             {"destroy", "length", "list"}, {"length", "list"}, {"list"}}

\* Every id the repository knows was taken from the counter it holds.
KnownIds ==
  /\ \A i \in DOMAIN recs \cup keyList : i < keyNextId
  /\ "key" \in todo => job.id = keyNextId

\* A user id is what a client chose, or ends in the component's own id.
OwnUserId(i, u) ==
  \/ u \in UserIds
  \/ u.tail # << >> /\ u.tail[Len(u.tail)] = i

UserIdsTraceable ==
  /\ \A i \in DOMAIN recs : OwnUserId(i, recs[i].userId)
  /\ \A i \in DOMAIN mem : OwnUserId(i, mem[i].userId)
  /\ todo \cap {"create", "save"} # {} => OwnUserId(job.id, job.rec.userId)

\* c is what record r says, its user id aside.
SavedAs(r, c) == c = [r EXCEPT !.userId = c.userId]

RunningCounter ==
  /\ nextId = IF "key" \in todo THEN keyNextId + 1 ELSE keyNextId
  /\ \A i \in DOMAIN mem : i < nextId
  /\ ids \subseteq DOMAIN mem

RunningList ==
  IF "list" \in todo
    THEN \/ keyList = ids \ {job.id} /\ job.id \in ids
         \/ /\ ids = keyList \ {job.id}
            /\ job.id \notin DOMAIN mem /\ "create" \notin todo
            /\ "destroy" \in todo \/ job.id \notin DOMAIN recs
    ELSE keyList = ids

RunningLength ==
  keyLength >= IF "length" \in todo THEN Cardinality(keyList)
                                    ELSE Cardinality(ids)

\* What is in memory is in the repository, but for the component whose record
\* the operation has still to write.
RunningRecords ==
  /\ \A i \in DOMAIN mem :
       IF i = job.id /\ todo \cap {"create", "save"} # {}
         THEN SavedAs(job.rec, mem[i])
         ELSE i \in DOMAIN recs /\ SavedAs(recs[i], mem[i])
  /\ todo \cap {"create", "save"} # {} => job.id \in DOMAIN mem
  /\ "destroy" \in todo => job.id \notin ids /\ keyList \subseteq DOMAIN recs

Running == RunningCounter /\ RunningList /\ RunningLength /\ RunningRecords

Inv ==
  /\ TypeOK /\ todo \in Programs
  /\ KnownIds /\ UserIdsTraceable
  /\ UnloadableOnlyInsideRemoval
  /\ up => Running

-----------------------------------------------------------------------------
(* Type correctness *)

USE DEF Ids, States, Deployed, UserId, Component, Writes

\* The owner index is an integer, and only a certificate that iCertificates
\* does not hold yet gets the index one past its end.
LEMMA OwnerIndexRange ==
  ASSUME certs \in Seq(Certs), NEW c \in Certs \cup {NoCert}
  PROVE  /\ OwnerIndex(c) \in Int
         /\ OwnerIndex(c) = Len(certs) => c \in Certs
<1>1. CASE c = NoCert
  BY <1>1 DEF OwnerIndex, NoOwner
<1>2. CASE c # NoCert /\ \E k \in 1..Len(certs) : certs[k] = c
  <2> DEFINE k == CHOOSE k \in 1..Len(certs) : certs[k] = c
  <2>1. k \in 1..Len(certs)
    BY <1>2
  <2>2. OwnerIndex(c) = k - 1
    BY <1>2 DEF OwnerIndex
  <2> HIDE DEF k
  <2> QED
    BY <1>2, <2>1, <2>2
<1>3. CASE c # NoCert /\ ~\E k \in 1..Len(certs) : certs[k] = c
  BY <1>3 DEF OwnerIndex
<1> QED
  BY <1>1, <1>2, <1>3

\* Appending an internal id to a user id gives a user id that ends in it.
LEMMA SuffixedType ==
  ASSUME NEW u \in UserId, NEW i \in Ids
  PROVE  /\ Suffixed(u, i) \in UserId
         /\ OwnUserId(i, Suffixed(u, i))
<1>1. Append(u.tail, i) \in Seq(Nat) /\ Append(u.tail, i) # << >>
      /\ Append(u.tail, i)[Len(Append(u.tail, i))] = i
  BY MaxIdAssumption
<1>2. ASSUME NEW t \in Seq(Nat)
      PROVE  [u EXCEPT !.tail = t] \in UserId /\ [u EXCEPT !.tail = t].tail = t
  OBVIOUS
<1> QED
  BY <1>1, <1>2 DEF Suffixed, OwnUserId

\* CheckForDuplicateNodesInDeployedL changes the user id only.
LEMMA DeduplicatedType ==
  ASSUME NEW i \in Ids, NEW c \in Component
  PROVE  /\ Deduplicated(i, c) \in Component
         /\ SavedAs(c, Deduplicated(i, c))
         /\ OwnUserId(i, c.userId) => OwnUserId(i, Deduplicated(i, c).userId)
         /\ \/ Deduplicated(i, c) = c
            \/ Deduplicated(i, c) = [c EXCEPT !.userId = Suffixed(c.userId, i)]
<1>1. c.userId \in UserId
  OBVIOUS
<1>2. Suffixed(c.userId, i) \in UserId /\ OwnUserId(i, Suffixed(c.userId, i))
  BY <1>1, SuffixedType
<1>3. \/ Deduplicated(i, c) = c
      \/ Deduplicated(i, c) = [c EXCEPT !.userId = Suffixed(c.userId, i)]
  BY DEF Deduplicated
<1> QED
  BY <1>2, <1>3 DEF SavedAs

LEMMA EmptyDomain == DOMAIN Empty = {}
  BY DEF Empty

\* Any set of internal ids is finite.
LEMMA IdSetsFinite ==
  ASSUME NEW S \in SUBSET Ids
  PROVE  IsFiniteSet(S) /\ Cardinality(S) \in Nat
<1>1. IsFiniteSet(1..MaxId)
  BY FS_Interval, MaxIdAssumption
<1> QED
  BY <1>1, FS_Subset, FS_CardinalityType

LEMMA TypeInit == Init => TypeOK
  BY UserIdsAssumption, MaxIdAssumption, EmptyDomain
     DEF Init, TypeOK, NoJob, NoOwner

\* Store keeps the types when the component it stores is well typed.
LEMMA StoreType ==
  ASSUME TypeOK, NEW i \in DOMAIN mem, NEW c \in Component, Store(i, c)
  PROVE  TypeOK'
  BY DEF TypeOK, Store, repository

\* Every step keeps the types.
LEMMA TypeStep ==
  ASSUME TypeOK, [Next]_vars
  PROVE  TypeOK'
<1> USE MaxIdAssumption
<1>0. NoJob \in [id : Ids \cup {0}, rec : Component]
  BY UserIdsAssumption DEF NoJob, NoOwner
<1>1. ASSUME NEW saved \in Component, NEW kept \in Component,
             NEW c \in Certs \cup {NoCert}, saved.owner = Len(certs) => c \in Certs,
             Create(saved, kept, c)
      PROVE  TypeOK'
  <2>1. nextId \in Ids /\ nextId' \in 1..MaxId+1
    BY <1>1, SMTT(40) DEF TypeOK, Create
  <2>2. certs' \in Seq(Certs)
    BY <1>1 DEF TypeOK, Create
  <2>3. DOMAIN mem' \subseteq Ids /\ \A i \in DOMAIN mem' : mem'[i] \in Component
    BY <1>1, <2>1, SMTT(40) DEF TypeOK, Create
  <2>4. ids' \subseteq Ids
    BY <1>1, <2>1 DEF TypeOK, Create
  <2>5. /\ job' \in [id : Ids \cup {0}, rec : Component] /\ todo' \subseteq Writes
        /\ job'.id \in Ids
    BY <1>1, <2>1 DEF TypeOK, Create
  <2> QED
    BY <1>1, <2>1, <2>2, <2>3, <2>4, <2>5 DEF TypeOK, Create, repository
<1>2. ASSUME NEW s \in {"Delivered", "Download"}, NEW u \in UserIds,
             NEW c \in Certs \cup {NoCert}, NewComponentL(s, u, c)
      PROVE  TypeOK'
  <2> DEFINE new == [state |-> s, oldState |-> "None", userId |-> u,
                     owner |-> OwnerIndex(c)]
  <2>1. certs \in Seq(Certs)
    BY DEF TypeOK
  <2>2. new \in Component /\ (new.owner = Len(certs) => c \in Certs)
    BY <2>1, OwnerIndexRange, UserIdsAssumption
  <2>3. Create(new, new, c)
    BY <1>2 DEF NewComponentL
  <2> QED
    BY <1>1, <2>2, <2>3
<1>3. ASSUME NEW u \in UserIds, NewPreinstalled(u)
      PROVE  TypeOK'
  <2> DEFINE new == [state |-> "Active", oldState |-> "None", userId |-> u,
                     owner |-> NoOwner]
  <2>1. new \in Component /\ new.owner # Len(certs)
    BY UserIdsAssumption DEF TypeOK, NoOwner
  <2>2. Create(new, Deduplicated(nextId, new), NoCert)
    BY <1>3 DEF NewPreinstalled
  <2>3. nextId \in Ids
    BY <2>2 DEF Create, TypeOK
  <2>4. Deduplicated(nextId, new) \in Component
    BY <2>1, <2>3, DeduplicatedType
  <2> QED
    BY <1>1, <2>1, <2>2, <2>4
<1>4. ASSUME NEW i \in Ids, Operation(i)
      PROVE  TypeOK'
  <2>1. \A j \in DOMAIN mem : mem[j] \in Component /\ j \in Ids
    BY DEF TypeOK
  <2>2. CASE UpdateL(i)
    BY <2>1, <2>2, StoreType DEF UpdateL
  <2>3. CASE Delivered(i)
    <3>1. PICK e \in BOOLEAN :
            Store(i, [WithState(mem[i], "Delivered") EXCEPT !.userId =
                        IF mem[i].userId = StaticUserId /\ e
                          THEN Suffixed(mem[i].userId, i) ELSE mem[i].userId])
      BY <2>3 DEF Delivered
    <3>2. i \in DOMAIN mem /\ mem[i] \in Component /\ mem[i].userId \in UserId
      BY <2>1, <2>3 DEF Delivered
    <3>3. Suffixed(mem[i].userId, i) \in UserId
      BY <3>2, SuffixedType
    <3> QED
      BY <3>1, <3>2, <3>3, StoreType DEF WithState
  <2>4. CASE InstalledL(i)
    <3>1. i \in DOMAIN mem /\ Deduplicated(i, mem[i]) \in Component
      BY <2>1, <2>4, DeduplicatedType DEF InstalledL
    <3>2. WithState(Deduplicated(i, mem[i]), "Active") \in Component
      BY <3>1 DEF WithState
    <3> QED
      BY <2>4, <3>1, <3>2, StoreType DEF InstalledL
  <2>5. CASE ActivateL(i)
    BY <2>1, <2>5, StoreType DEF ActivateL, WithState
  <2>6. CASE DeactivateL(i)
    BY <2>1, <2>6, StoreType DEF DeactivateL, WithState
  <2>7. CASE SetDeploymentComponentState(i)
    BY <2>1, <2>7, StoreType DEF SetDeploymentComponentState, WithState
  <2>8. CASE StateChangedL(i)
    BY <2>1, <2>8, StoreType DEF StateChangedL
  <2>9. CASE RemoveL(i)
    BY <1>0, <2>9 DEF TypeOK, RemoveL, repository
  <2>10. CASE LoadComponentL(i)
    BY <2>10 DEF TypeOK, LoadComponentL, repository
  <2>11. CASE SecondStorage(i)
    BY <2>11 DEF TypeOK, SecondStorage, memory
  <2> QED
    BY <1>4, <2>2, <2>3, <2>4, <2>5, <2>6, <2>7, <2>8, <2>9, <2>10, <2>11
       DEF Operation
<1>5. ASSUME Write PROVE TypeOK'
  <2>1. CASE WriteKey
    BY <1>0, <2>1 DEF TypeOK, WriteKey, Done, memory
  <2>2. ASSUME NEW w \in {"create", "save"}, WriteRecord(w) PROVE TypeOK'
    <3>1. w \in todo /\ job.id \in Ids /\ job.rec \in Component
      BY <2>2 DEF TypeOK, WriteRecord, Due
    <3>2. /\ DOMAIN recs' \subseteq Ids
          /\ \A i \in DOMAIN recs' : recs'[i] \in Component
      BY <2>2, <3>1 DEF TypeOK, WriteRecord
    <3>3. /\ job' \in [id : Ids \cup {0}, rec : Component] /\ todo' \subseteq Writes
          /\ todo' # {} => job'.id \in Ids
      BY <1>0, <2>2, <3>1 DEF TypeOK, WriteRecord, Done
    <3> QED
      BY <2>2, <3>2, <3>3 DEF TypeOK, WriteRecord, Done, memory
  <2>3. CASE DestroyL
    <3>1. /\ DOMAIN recs' \subseteq Ids
          /\ \A i \in DOMAIN recs' : recs'[i] \in Component
      BY <2>3 DEF TypeOK, DestroyL
    <3>2. /\ job' \in [id : Ids \cup {0}, rec : Component] /\ todo' \subseteq Writes
          /\ todo' # {} => job'.id \in Ids
      BY <1>0, <2>3 DEF TypeOK, DestroyL, Done
    <3> QED
      BY <2>3, <3>1, <3>2 DEF TypeOK, DestroyL, Done, memory
  <2>4. CASE WriteLength
    <3>1. Cardinality(ids) \in Nat
      BY IdSetsFinite DEF TypeOK
    <3> QED
      BY <1>0, <2>4, <3>1 DEF TypeOK, WriteLength, Done, memory
  <2>5. CASE WriteList
    BY <1>0, <2>5 DEF TypeOK, WriteList, Done, memory
  <2> QED
    BY <1>5, <2>1, <2>2, <2>3, <2>4, <2>5 DEF Write
<1>6. CASE Crash
  <2>1. certs' \in Seq(Certs) /\ nextId' \in 1..MaxId+1
    BY <1>6 DEF Crash
  <2>2. DOMAIN mem' = {}
    BY <1>6, EmptyDomain DEF Crash
  <2> QED
    BY <1>6, <2>1, <2>2 DEF TypeOK, Crash, repository
<1>7. CASE Start
  BY <1>0, <1>7 DEF TypeOK, Start, Loadable, repository
<1>8. CASE UNCHANGED vars
  BY <1>8 DEF TypeOK, vars, repository, memory
<1> QED
  BY <1>2, <1>3, <1>4, <1>5, <1>6, <1>7, <1>8 DEF Next

\* Type correctness of the storage and of what it leaves in the repository.
THEOREM TypeCorrect == Spec => []TypeOK
<1>1. TypeOK /\ [Next]_vars => TypeOK'
  BY TypeStep
<1> QED
  BY TypeInit, <1>1, PTL DEF Spec

-----------------------------------------------------------------------------
(* The inductive invariant: one lemma per kind of step *)

LEMMA InvInit == Init => Inv
<1> SUFFICES ASSUME Init PROVE Inv
  OBVIOUS
<1>1. TypeOK /\ todo = {} /\ DOMAIN recs = {} /\ DOMAIN mem = {}
  BY TypeInit, EmptyDomain DEF Init
<1>2. Cardinality({}) = 0
  BY FS_EmptySet
<1> QED
  BY <1>1, <1>2 DEF Init, Inv, Programs, KnownIds, UserIdsTraceable,
     UnloadableOnlyInsideRemoval, Loadable, Running, RunningCounter, RunningList,
     RunningLength, RunningRecords

\* NewComponentL takes the next id, which nothing in the repository has.
LEMMA InvCreate ==
  ASSUME Inv, TypeOK',
         NEW saved \in Component, NEW kept \in Component, NEW c,
         OwnUserId(nextId, saved.userId), OwnUserId(nextId, kept.userId),
         SavedAs(saved, kept),
         Create(saved, kept, c)
  PROVE  Inv'
<1>1. /\ up /\ todo = {} /\ nextId = keyNextId /\ nextId \in Ids
      /\ keyList = ids /\ ids \subseteq DOMAIN mem
      /\ \A i \in DOMAIN mem : i \in Ids /\ i < nextId
  BY DEF Inv, Create, Ready, Running, RunningCounter, RunningList, TypeOK
<1>2. /\ job'.id = nextId /\ job'.rec = saved
      /\ todo' = {"key", "create", "length", "list"} /\ up'
      /\ nextId' = nextId + 1 /\ ids' = ids \cup {nextId}
      /\ UNCHANGED repository
  BY <1>1 DEF Create
<1>3. /\ DOMAIN mem' = DOMAIN mem \cup {nextId}
      /\ \A i \in DOMAIN mem : mem'[i] = mem[i]
      /\ mem'[nextId] = kept
  BY <1>1 DEF Create
<1>4. nextId \notin ids
  BY <1>1
<1>5. KnownIds'
  BY <1>1, <1>2 DEF Inv, KnownIds, repository
<1>6. UserIdsTraceable'
  BY <1>2, <1>3 DEF Inv, UserIdsTraceable, repository, OwnUserId
<1>7. UnloadableOnlyInsideRemoval'
  BY <1>1, <1>2 DEF Inv, UnloadableOnlyInsideRemoval, Loadable, repository
<1>8. RunningCounter' /\ RunningList'
  <2>1. RunningCounter'
    BY <1>1, <1>2, <1>3 DEF RunningCounter, repository
  <2>2. keyList' = ids' \ {job'.id} /\ job'.id \in ids'
    BY <1>1, <1>2, <1>4 DEF repository
  <2> QED
    BY <1>2, <2>1, <2>2 DEF RunningList
<1>9. RunningLength'
  BY <1>1, <1>2 DEF Inv, Running, RunningLength, repository
<1>10. RunningRecords'
  <2>1. \A i \in DOMAIN mem : i \in DOMAIN recs /\ SavedAs(recs[i], mem[i])
    BY <1>1 DEF Inv, Running, RunningRecords
  <2> QED
    BY <1>1, <1>2, <1>3, <2>1 DEF RunningRecords, repository, SavedAs
<1> QED
  BY <1>2, <1>5, <1>6, <1>7, <1>8, <1>9, <1>10 DEF Inv, Programs, Running

\* UpdateL and the operations that change one component and call it.
LEMMA InvStore ==
  ASSUME Inv, TypeOK', Ready, NEW i \in DOMAIN mem, NEW c \in Component,
         OwnUserId(i, c.userId), Store(i, c)
  PROVE  Inv'
<1>1. /\ up /\ todo = {} /\ up' /\ todo' = {"save"}
      /\ job'.id = i /\ job'.rec = c
      /\ UNCHANGED <<repository, nextId, ids>>
  BY DEF Ready, Store
<1>2. /\ DOMAIN mem' = DOMAIN mem
      /\ mem'[i] = c
      /\ \A j \in DOMAIN mem \ {i} : mem'[j] = mem[j]
  BY DEF Store
<1>3. KnownIds'
  BY <1>1 DEF Inv, KnownIds, repository
<1>4. UserIdsTraceable'
  BY <1>1, <1>2 DEF Inv, UserIdsTraceable, repository, OwnUserId
<1>5. UnloadableOnlyInsideRemoval'
  BY <1>1 DEF Inv, UnloadableOnlyInsideRemoval, Loadable, repository
<1>6. RunningCounter' /\ RunningList' /\ RunningLength'
  BY <1>1, <1>2 DEF Inv, Running, RunningCounter, RunningList, RunningLength,
     repository
<1>7. RunningRecords'
  BY <1>1, <1>2 DEF Inv, Running, RunningRecords, repository, SavedAs
<1> QED
  BY <1>1, <1>3, <1>4, <1>5, <1>6, <1>7 DEF Inv, Programs, Running

LEMMA InvRemove ==
  ASSUME Inv, TypeOK', NEW i \in Ids, RemoveL(i)
  PROVE  Inv'
<1>1. /\ up /\ todo = {} /\ up' /\ todo' = {"destroy", "length", "list"}
      /\ i \in DOMAIN mem /\ job'.id = i /\ ids' = ids \ {i}
      /\ UNCHANGED <<repository, nextId>>
  BY DEF RemoveL, Ready, NoJob
<1>2. DOMAIN mem' = DOMAIN mem \ {i} /\ \A j \in DOMAIN mem' : mem'[j] = mem[j]
  BY DEF RemoveL
<1>3. keyList = ids /\ keyLength >= Cardinality(keyList)
  BY <1>1 DEF Inv, Running, RunningList, RunningLength
<1>4. keyList \subseteq DOMAIN recs
  BY <1>1 DEF Inv, UnloadableOnlyInsideRemoval, Loadable
<1>5. KnownIds'
  BY <1>1 DEF Inv, KnownIds, repository
<1>6. UserIdsTraceable'
  BY <1>1, <1>2 DEF Inv, UserIdsTraceable, repository
<1>7. UnloadableOnlyInsideRemoval'
  BY <1>1, <1>3, <1>4 DEF UnloadableOnlyInsideRemoval, Loadable, repository
<1>8. RunningCounter'
  BY <1>1, <1>2 DEF Inv, Running, RunningCounter, repository
<1>9. RunningList' /\ RunningLength'
  BY <1>1, <1>2, <1>3 DEF RunningList, RunningLength, repository
<1>10. RunningRecords'
  BY <1>1, <1>2, <1>3, <1>4 DEF Inv, Running, RunningRecords, repository, SavedAs
<1> QED
  BY <1>1, <1>5, <1>6, <1>7, <1>8, <1>9, <1>10 DEF Inv, Programs, Running

LEMMA InvLoadComponent ==
  ASSUME Inv, TypeOK', NEW i \in Ids, LoadComponentL(i)
  PROVE  Inv'
<1>1. /\ up /\ todo = {} /\ up' /\ todo' = {} /\ i \in DOMAIN recs \ DOMAIN mem
      /\ UNCHANGED <<repository, nextId, ids, job>>
  BY DEF LoadComponentL, Ready
<1>2. /\ DOMAIN mem' = DOMAIN mem \cup {i} /\ mem'[i] = recs[i]
      /\ \A j \in DOMAIN mem : mem'[j] = mem[j]
  BY <1>1 DEF LoadComponentL
<1>3. i < nextId
  BY <1>1 DEF Inv, KnownIds, Running, RunningCounter
<1>4. recs[i] \in Component
  BY <1>1 DEF Inv, TypeOK
<1>5. KnownIds' /\ UnloadableOnlyInsideRemoval'
  BY <1>1 DEF Inv, KnownIds, UnloadableOnlyInsideRemoval, Loadable, repository
<1>6. UserIdsTraceable'
  BY <1>1, <1>2 DEF Inv, UserIdsTraceable, repository, OwnUserId
<1>7. RunningCounter' /\ RunningList' /\ RunningLength'
  BY <1>1, <1>2, <1>3 DEF Inv, Running, RunningCounter, RunningList,
     RunningLength, repository
<1>8. RunningRecords'
  BY <1>1, <1>2, <1>4 DEF Inv, Running, RunningRecords, repository, SavedAs
<1> QED
  BY <1>1, <1>5, <1>6, <1>7, <1>8 DEF Inv, Programs, Running

LEMMA InvSecondStorage ==
  ASSUME Inv, TypeOK', NEW i \in Ids, SecondStorage(i)
  PROVE  Inv'
<1>1. /\ up /\ todo = {} /\ i \in DOMAIN mem
      /\ UNCHANGED <<keyNextId, keyLength, keyList, memory, todo, job>>
  BY DEF SecondStorage, Ready
<1>2. /\ DOMAIN recs' = DOMAIN recs \cup {i} /\ recs'[i] = mem[i]
      /\ \A j \in DOMAIN recs \ {i} : recs'[j] = recs[j]
  BY DEF SecondStorage
<1>3. i < keyNextId /\ mem[i] \in Component
  BY <1>1 DEF Inv, Running, RunningCounter, TypeOK
<1>4. KnownIds' /\ UnloadableOnlyInsideRemoval'
  BY <1>1, <1>2, <1>3 DEF Inv, KnownIds, UnloadableOnlyInsideRemoval, Loadable
<1>5. UserIdsTraceable'
  BY <1>1, <1>2 DEF Inv, UserIdsTraceable, memory, OwnUserId
<1>6. RunningCounter' /\ RunningList' /\ RunningLength'
  BY <1>1 DEF Inv, Running, RunningCounter, RunningList, RunningLength, memory
<1>7. RunningRecords'
  BY <1>1, <1>2, <1>3 DEF Inv, Running, RunningRecords, memory, SavedAs
<1> QED
  BY <1>1, <1>4, <1>5, <1>6, <1>7 DEF Inv, Programs, Running, memory

\* The write that is due tells how far the operation has got.
LEMMA DueProgram ==
  ASSUME Inv, NEW w, Due(w)
  PROVE  /\ up
         /\ w = "key" => todo = {"key", "create", "length", "list"}
         /\ w = "create" => todo = {"create", "length", "list"}
         /\ w = "destroy" => todo = {"destroy", "length", "list"}
         /\ w = "length" => todo = {"length", "list"}
         /\ w = "list" => todo = {"list"}
         /\ w = "save" => todo = {"save"}
BY DEF Inv, Programs, Due, Rank

LEMMA InvWriteKey ==
  ASSUME Inv, TypeOK', WriteKey
  PROVE  Inv'
<1>1. todo = {"key", "create", "length", "list"} /\ up
  BY DueProgram DEF WriteKey
<1>2. /\ todo' = {"create", "length", "list"} /\ keyNextId' = nextId
      /\ UNCHANGED <<keyLength, keyList, recs, memory, job>>
  BY <1>1 DEF WriteKey, Done
<1>3. nextId = keyNextId + 1 /\ nextId' = nextId
  BY <1>1, <1>2 DEF Inv, Running, RunningCounter, memory
<1>4. KnownIds'
  <2>1. \A i \in DOMAIN recs \cup keyList : i \in Ids /\ i < keyNextId
    BY DEF Inv, KnownIds, TypeOK
  <2>2. keyNextId \in Int /\ keyNextId' = keyNextId + 1
    BY <1>2, <1>3 DEF Inv, TypeOK
  <2> QED
    BY <1>2, <2>1, <2>2 DEF KnownIds
<1>5. UserIdsTraceable' /\ UnloadableOnlyInsideRemoval'
  BY <1>1, <1>2 DEF Inv, UserIdsTraceable, UnloadableOnlyInsideRemoval,
     Loadable, memory
<1>6. RunningCounter' /\ RunningList' /\ RunningLength' /\ RunningRecords'
  BY <1>1, <1>2, <1>3 DEF Inv, Running, RunningCounter, RunningList,
     RunningLength, RunningRecords, memory
<1> QED
  BY <1>2, <1>4, <1>5, <1>6 DEF Inv, Programs, Running

\* The record of a new component, or of one that changed.
LEMMA InvWriteRecord ==
  ASSUME Inv, TypeOK', NEW w \in {"create", "save"}, WriteRecord(w)
  PROVE  Inv'
<1>1. /\ up /\ w \in todo /\ todo \in {{"save"}, {"create", "length", "list"}}
      /\ todo' = todo \ {w}
      /\ todo' \in {{}, {"length", "list"}}
      /\ job' = IF todo = {w} THEN NoJob ELSE job
      /\ UNCHANGED <<keyNextId, keyLength, keyList, memory>>
  BY DueProgram DEF WriteRecord, Done, Due
<1>2. /\ DOMAIN recs' = DOMAIN recs \cup {job.id} /\ recs'[job.id] = job.rec
      /\ \A i \in DOMAIN recs \ {job.id} : recs'[i] = recs[i]
  BY DEF WriteRecord
<1>3. /\ job.id \in DOMAIN mem /\ job.id < keyNextId
      /\ SavedAs(job.rec, mem[job.id])
      /\ OwnUserId(job.id, job.rec.userId)
  BY <1>1 DEF Inv, Running, RunningRecords, RunningCounter, UserIdsTraceable
<1>4. Loadable
  BY <1>1 DEF Inv, UnloadableOnlyInsideRemoval
<1>5. KnownIds'
  BY <1>1, <1>2, <1>3 DEF Inv, KnownIds
<1>6. UserIdsTraceable'
  BY <1>1, <1>2, <1>3 DEF Inv, UserIdsTraceable, memory, OwnUserId
<1>7. UnloadableOnlyInsideRemoval'
  BY <1>1, <1>2, <1>4 DEF UnloadableOnlyInsideRemoval, Loadable
<1>8. RunningCounter'
  BY <1>1 DEF Inv, Running, RunningCounter, memory
<1>9. RunningList'
  <2>1. CASE todo = {"save"}
    BY <1>1, <2>1 DEF Inv, Running, RunningList, memory
  <2>2. CASE todo = {"create", "length", "list"}
    <3>1. job' = job
      BY <1>1, <2>2
    <3> QED
      BY <1>1, <2>2, <3>1 DEF Inv, Running, RunningList, memory
  <2> QED
    BY <1>1, <2>1, <2>2
<1>10. RunningLength'
  BY <1>1 DEF Inv, Running, RunningLength, memory
<1>11. RunningRecords'
  BY <1>1, <1>2, <1>3 DEF Inv, Running, RunningRecords, memory, SavedAs
<1> QED
  BY <1>1, <1>5, <1>6, <1>7, <1>8, <1>9, <1>10, <1>11
     DEF Inv, Programs, Running, memory

\* The record goes first: from here to the list write nobody can start.
LEMMA InvDestroy ==
  ASSUME Inv, TypeOK', DestroyL
  PROVE  Inv'
<1>1. /\ up /\ todo = {"destroy", "length", "list"} /\ todo' = {"length", "list"}
      /\ UNCHANGED <<keyNextId, keyLength, keyList, memory, job>>
  BY DueProgram DEF DestroyL, Done
<1>2. /\ DOMAIN recs' = DOMAIN recs \ {job.id}
      /\ \A i \in DOMAIN recs' : recs'[i] = recs[i]
  BY DEF DestroyL
<1>3. /\ job.id \notin ids /\ job.id \notin DOMAIN mem
      /\ ids = keyList \ {job.id} /\ keyList \subseteq DOMAIN recs
  BY <1>1 DEF Inv, Running, RunningRecords, RunningList
<1>4. KnownIds' /\ UserIdsTraceable'
  BY <1>1, <1>2 DEF Inv, KnownIds, UserIdsTraceable, memory
<1>5. UnloadableOnlyInsideRemoval'
  BY <1>1, <1>2, <1>3 DEF Inv, UnloadableOnlyInsideRemoval, Loadable
<1>6. RunningCounter' /\ RunningList' /\ RunningLength'
  BY <1>1, <1>2, <1>3 DEF Inv, Running, RunningCounter, RunningList,
     RunningLength, memory
<1>7. RunningRecords'
  BY <1>1, <1>2, <1>3 DEF Inv, Running, RunningRecords, memory
<1> QED
  BY <1>1, <1>4, <1>5, <1>6, <1>7 DEF Inv, Programs, Running, memory

LEMMA InvWriteLength ==
  ASSUME Inv, TypeOK', WriteLength
  PROVE  Inv'
<1>1. /\ up /\ todo = {"length", "list"} /\ todo' = {"list"}
      /\ keyLength' = Cardinality(ids)
      /\ UNCHANGED <<keyNextId, keyList, recs, memory, job>>
  BY DueProgram DEF WriteLength, Done
<1>2. Cardinality(ids) \in Nat
  BY IdSetsFinite DEF Inv, TypeOK
<1>3. UnloadableOnlyInsideRemoval'
  <2>1. CASE job.id \in ids /\ keyList = ids \ {job.id}
    <3>1. Cardinality(keyList) <= Cardinality(ids)
      BY <2>1, IdSetsFinite, FS_Subset DEF Inv, TypeOK
    <3>2. keyList \subseteq DOMAIN recs
      BY <1>1, <2>1 DEF Inv, UnloadableOnlyInsideRemoval, Loadable
    <3> QED
      BY <1>1, <3>1, <3>2 DEF UnloadableOnlyInsideRemoval, Loadable
  <2>2. CASE job.id \in keyList /\ job.id \notin DOMAIN recs
    BY <1>1, <2>2 DEF UnloadableOnlyInsideRemoval
  <2>3. CASE job.id \notin keyList /\ ids = keyList
    BY <1>1, <1>2, <2>3 DEF Inv, UnloadableOnlyInsideRemoval, Loadable
  <2> QED
    BY <1>1, <2>1, <2>2, <2>3 DEF Inv, Running, RunningList
<1>4. KnownIds' /\ UserIdsTraceable'
  BY <1>1 DEF Inv, KnownIds, UserIdsTraceable, memory
<1>5. RunningCounter' /\ RunningList' /\ RunningRecords'
  BY <1>1 DEF Inv, Running, RunningCounter, RunningList, RunningRecords, memory
<1>6. RunningLength'
  BY <1>1, <1>2 DEF RunningLength, memory
<1> QED
  BY <1>1, <1>3, <1>4, <1>5, <1>6 DEF Inv, Programs, Running, memory

LEMMA InvWriteList ==
  ASSUME Inv, TypeOK', WriteList
  PROVE  Inv'
<1>1. /\ up /\ todo = {"list"} /\ todo' = {} /\ keyList' = ids
      /\ UNCHANGED <<keyNextId, keyLength, recs, memory>>
  BY DueProgram DEF WriteList, Done
<1>2. /\ ids \subseteq DOMAIN recs /\ \A i \in ids : i < keyNextId
      /\ keyLength >= Cardinality(ids)
  BY <1>1 DEF Inv, Running, RunningCounter, RunningRecords, RunningLength
<1>3. KnownIds' /\ UserIdsTraceable'
  BY <1>1, <1>2 DEF Inv, KnownIds, UserIdsTraceable, memory
<1>4. Cardinality(ids) \in Nat /\ keyLength \in Nat
  BY IdSetsFinite DEF Inv, TypeOK
<1>5. UnloadableOnlyInsideRemoval'
  BY <1>1, <1>2, <1>4 DEF UnloadableOnlyInsideRemoval, Loadable
<1>6. RunningCounter' /\ RunningList' /\ RunningLength' /\ RunningRecords'
  BY <1>1, <1>2 DEF Inv, Running, RunningCounter, RunningList, RunningLength,
     RunningRecords, memory
<1> QED
  BY <1>1, <1>3, <1>5, <1>6 DEF Inv, Programs, Running, memory

LEMMA InvCrash ==
  ASSUME Inv, TypeOK', Crash
  PROVE  Inv'
<1>1. ~up' /\ DOMAIN mem' = {} /\ UNCHANGED <<repository, todo, job>>
  BY EmptyDomain DEF Crash
<1> QED
  BY <1>1 DEF Inv, KnownIds, UserIdsTraceable, UnloadableOnlyInsideRemoval,
     Loadable, repository

\* A start that succeeds finds the repository in order.
LEMMA InvStart ==
  ASSUME Inv, TypeOK', Start
  PROVE  Inv'
<1>1. /\ up' /\ todo' = {} /\ nextId' = keyNextId /\ ids' = keyList
      /\ UNCHANGED repository /\ Loadable
  BY DEF Start
<1>2. DOMAIN mem' = keyList /\ \A i \in keyList : mem'[i] = recs[i]
  BY DEF Start
<1>3. Cardinality(keyList) \in Nat /\ keyLength \in Nat
  BY IdSetsFinite DEF Inv, TypeOK
<1>4. KnownIds' /\ UnloadableOnlyInsideRemoval'
  BY <1>1 DEF Inv, KnownIds, UnloadableOnlyInsideRemoval, Loadable, repository
<1>5. UserIdsTraceable'
  BY <1>1, <1>2 DEF Inv, UserIdsTraceable, Loadable, repository
<1>6. RunningCounter' /\ RunningList' /\ RunningLength'
  BY <1>1, <1>2, <1>3 DEF Inv, KnownIds, Loadable, RunningCounter, RunningList,
     RunningLength, repository
<1>7. RunningRecords'
  BY <1>1, <1>2 DEF Inv, TypeOK, Loadable, RunningRecords, repository, SavedAs
<1> QED
  BY <1>1, <1>4, <1>5, <1>6, <1>7 DEF Inv, Programs, Running

-----------------------------------------------------------------------------
(* The theorems *)

\* Every operation leaves the component it stores with a traceable user id.
LEMMA InvOperation ==
  ASSUME Inv, TypeOK', NEW i \in Ids, Operation(i)
  PROVE  Inv'
<1>1. \A j \in DOMAIN mem : /\ mem[j] \in Component /\ mem[j].userId \in UserId
                            /\ OwnUserId(j, mem[j].userId)
  BY DEF Inv, TypeOK, UserIdsTraceable
<1>2. CASE UpdateL(i)
  BY <1>1, <1>2, InvStore DEF UpdateL
<1>3. CASE Delivered(i)
  <2>1. PICK e \in BOOLEAN :
          Store(i, [WithState(mem[i], "Delivered") EXCEPT !.userId =
                      IF mem[i].userId = StaticUserId /\ e
                        THEN Suffixed(mem[i].userId, i) ELSE mem[i].userId])
    BY <1>3 DEF Delivered
  <2> DEFINE v == IF mem[i].userId = StaticUserId /\ e
                    THEN Suffixed(mem[i].userId, i) ELSE mem[i].userId
             c == [WithState(mem[i], "Delivered") EXCEPT !.userId = v]
  <2>2. Ready /\ i \in DOMAIN mem
    BY <1>3 DEF Delivered
  <2>3. v \in UserId /\ OwnUserId(i, v)
    BY <1>1, <2>2, SuffixedType
  <2>4. Store(i, c)
    BY <2>1
  <2> HIDE DEF v
  <2>5. c \in Component /\ c.userId = v
    BY <1>1, <2>2, <2>3 DEF WithState
  <2> HIDE DEF c
  <2> QED
    BY <2>2, <2>3, <2>4, <2>5, InvStore
<1>4. CASE InstalledL(i)
  <2> DEFINE d == Deduplicated(i, mem[i])
  <2>1. i \in DOMAIN mem /\ Ready
    BY <1>4 DEF InstalledL
  <2>2. d \in Component /\ OwnUserId(i, d.userId)
    BY <1>1, <2>1, DeduplicatedType
  <2>3. Store(i, WithState(d, "Active"))
    BY <1>4 DEF InstalledL
  <2> HIDE DEF d
  <2>4. /\ WithState(d, "Active") \in Component
        /\ WithState(d, "Active").userId = d.userId
    BY <2>2 DEF WithState
  <2> QED
    BY <2>1, <2>2, <2>3, <2>4, InvStore
<1>5. ASSUME NEW s \in States, Ready, i \in DOMAIN mem,
             Store(i, WithState(mem[i], s))
      PROVE  Inv'
  <2>1. /\ WithState(mem[i], s) \in Component
        /\ WithState(mem[i], s).userId = mem[i].userId
    BY <1>1, <1>5 DEF WithState
  <2> QED
    BY <1>1, <1>5, <2>1, InvStore
<1>6. CASE StateChangedL(i)
  <2>1. /\ [mem[i] EXCEPT !.oldState = "None"] \in Component
        /\ [mem[i] EXCEPT !.oldState = "None"].userId = mem[i].userId
    BY <1>1, <1>6 DEF StateChangedL
  <2> QED
    BY <1>1, <1>6, <2>1, InvStore DEF StateChangedL
<1> QED
  BY <1>2, <1>3, <1>4, <1>5, <1>6, InvRemove, InvLoadComponent, InvSecondStorage
     DEF Operation, ActivateL, DeactivateL, SetDeploymentComponentState

LEMMA InvStep ==
  ASSUME Inv, [Next]_vars
  PROVE  Inv'
<1>1. TypeOK'
  BY TypeStep DEF Inv
<1>2. ASSUME NEW s \in {"Delivered", "Download"}, NEW u \in UserIds,
             NEW c \in Certs \cup {NoCert}, NewComponentL(s, u, c)
      PROVE  Inv'
  <2> DEFINE new == [state |-> s, oldState |-> "None", userId |-> u,
                     owner |-> OwnerIndex(c)]
  <2>1. certs \in Seq(Certs)
    BY DEF Inv, TypeOK
  <2>2. new \in Component /\ OwnUserId(nextId, new.userId) /\ SavedAs(new, new)
    BY <2>1, OwnerIndexRange, UserIdsAssumption DEF OwnUserId, SavedAs
  <2>3. Create(new, new, c)
    BY <1>2 DEF NewComponentL
  <2> HIDE DEF new
  <2> QED
    BY <1>1, <2>2, <2>3, InvCreate
<1>3. ASSUME NEW u \in UserIds, NewPreinstalled(u)
      PROVE  Inv'
  <2> DEFINE new == [state |-> "Active", oldState |-> "None", userId |-> u,
                     owner |-> NoOwner]
  <2>1. new \in Component /\ OwnUserId(nextId, new.userId)
    BY UserIdsAssumption DEF NoOwner, OwnUserId
  <2>2. Create(new, Deduplicated(nextId, new), NoCert)
    BY <1>3 DEF NewPreinstalled
  <2>3. nextId \in Ids
    BY <2>2 DEF Create, Inv, TypeOK
  <2> HIDE DEF new
  <2>4. /\ Deduplicated(nextId, new) \in Component
        /\ SavedAs(new, Deduplicated(nextId, new))
        /\ OwnUserId(nextId, Deduplicated(nextId, new).userId)
    BY <2>1, <2>3, DeduplicatedType
  <2> QED
    BY <1>1, <2>1, <2>2, <2>4, InvCreate
<1>4. ASSUME Write PROVE Inv'
  BY <1>1, <1>4, InvWriteKey, InvWriteRecord, InvDestroy, InvWriteLength,
     InvWriteList DEF Write
<1>5. CASE UNCHANGED vars
  BY <1>5, SMTT(40) DEF vars, repository, memory, Inv, TypeOK, KnownIds, UserIdsTraceable,
     UnloadableOnlyInsideRemoval, Loadable, Running, RunningCounter,
     RunningList, RunningLength, RunningRecords
<1> QED
  BY <1>1, <1>2, <1>3, <1>4, <1>5, InvOperation, InvCrash, InvStart DEF Next

THEOREM InvAlways == Spec => []Inv
<1>1. Inv /\ [Next]_vars => Inv'
  BY InvStep
<1> QED
  BY InvInit, <1>1, PTL DEF Spec

\* Between operations the repository holds what the server has in memory, up
\* to the unsaved rename of a preinstalled application.
THEOREM MirrorAlways == Spec => []RepositoryMirrorsMemory
<1>1. Inv => RepositoryMirrorsMemory
  BY DEF Inv, Running, RunningCounter, RunningList, RunningLength,
     RunningRecords, RepositoryMirrorsMemory, Ready, SavedAs
<1> QED
  BY InvAlways, <1>1, PTL

\* No component ever takes an id that a record, a list entry or a component in
\* memory already has, whatever operations died on the way.
THEOREM FreshIdsAlways == Spec => []NextIdIsFresh
<1>1. Inv => NextIdIsFresh
  BY DEF Inv, KnownIds, Running, RunningCounter, NextIdIsFresh, Ready
<1> QED
  BY InvAlways, <1>1, PTL

\* The store can be loaded unless the server died inside RemoveL.
THEOREM UnloadableOnlyInsideRemovalAlways ==
  Spec => []UnloadableOnlyInsideRemoval
<1>1. Inv => UnloadableOnlyInsideRemoval
  BY DEF Inv
<1> QED
  BY InvAlways, <1>1, PTL

\* No death of the server loses a listed component.
THEOREM ListedUntilRemovedAlways == Spec => ListedUntilRemoved
<1>1. ASSUME Inv, [Next]_vars, NEW i \in keyList \ keyList'
      PROVE  up /\ job.id = i /\ i \notin ids
  <2>1. WriteList
    BY <1>1 DEF Next, Operation, UpdateL, Delivered, InstalledL, ActivateL,
       DeactivateL, SetDeploymentComponentState, StateChangedL, RemoveL,
       LoadComponentL, SecondStorage, Store, NewComponentL, NewPreinstalled,
       Create, Write, WriteKey, WriteRecord, DestroyL, WriteLength, Crash,
       Start, vars, repository
  <2>2. up /\ todo = {"list"} /\ keyList' = ids
    BY <1>1, <2>1, DueProgram DEF WriteList
  <2> QED
    BY <1>1, <2>2 DEF Inv, Running, RunningList
<1>2. Inv /\ [Next]_vars =>
        [\A i \in keyList \ keyList' : up /\ job.id = i /\ i \notin ids]_vars
  BY <1>1
<1> QED
  BY InvAlways, <1>2, PTL DEF Spec, ListedUntilRemoved

\* InstalledL keeps the user ids of deployed components apart, but for ids the
\* clients themselves ended in an internal id.
THEOREM InstallKeepsUserIdsApartAlways == Spec => InstallKeepsUserIdsApart
<1> DEFINE Apart(i, j) ==
      /\ mem[j].state \in Deployed
      /\ mem'[i].userId = mem[j].userId
      => mem'[i].userId.tail # << >> /\ mem'[i].userId \in UserIds
<1>1. ASSUME Inv, NEW i \in DOMAIN mem, InstalledL(i), NEW j \in ids \ {i}
      PROVE  Apart(i, j)
  <2>1. /\ i \in Ids /\ mem[i] \in Component /\ mem[i].userId \in UserId
        /\ j \in DOMAIN mem /\ OwnUserId(j, mem[j].userId)
        /\ up /\ todo = {}
    BY <1>1 DEF Inv, TypeOK, InstalledL, Ready, Running, RunningCounter,
       UserIdsTraceable
  <2>2. mem'[i].userId = Deduplicated(i, mem[i]).userId
    <3>1. Deduplicated(i, mem[i]) \in Component
      BY <2>1, DeduplicatedType
    <3>2. WithState(Deduplicated(i, mem[i]), "Active").userId
            = Deduplicated(i, mem[i]).userId
      BY <3>1 DEF WithState
    <3>3. mem'[i] = WithState(Deduplicated(i, mem[i]), "Active")
      BY <1>1 DEF InstalledL, Store
    <3> QED
      BY <3>2, <3>3
  <2>3. CASE \E k \in ids \ {i} : /\ mem[k].state \in Deployed
                                  /\ mem[k].userId = mem[i].userId
    <3>1. mem'[i].userId = Suffixed(mem[i].userId, i)
      BY <2>1, <2>2, <2>3 DEF Deduplicated
    <3>2. /\ Append(mem[i].userId.tail, i) # << >>
          /\ Append(mem[i].userId.tail, i)[Len(Append(mem[i].userId.tail, i))] = i
      <4> DEFINE t == mem[i].userId.tail
      <4>1. t \in Seq(Nat) /\ i \in Nat
        BY <2>1, MaxIdAssumption
      <4> HIDE DEF t
      <4>2. Append(t, i) # << >> /\ Append(t, i)[Len(Append(t, i))] = i
        BY <4>1
      <4> QED
        BY <4>2 DEF t
    <3>3. mem'[i].userId.tail = Append(mem[i].userId.tail, i)
      BY <2>1, <3>1 DEF Suffixed, UserId
    <3>4. /\ mem'[i].userId.tail # << >>
          /\ mem'[i].userId.tail[Len(mem'[i].userId.tail)] = i
      BY <3>2, <3>3
    <3>5. ASSUME mem'[i].userId = mem[j].userId
          PROVE  mem'[i].userId \in UserIds
      <4>1. OwnUserId(j, mem'[i].userId)
        BY <2>1, <3>5
      <4>2. j # i
        OBVIOUS
      <4> QED
        BY <3>4, <4>1, <4>2 DEF OwnUserId
    <3> QED
      BY <3>4, <3>5
  <2>4. CASE ~\E k \in ids \ {i} : /\ mem[k].state \in Deployed
                                   /\ mem[k].userId = mem[i].userId
    <3>1. mem'[i].userId = mem[i].userId
      BY <2>2, <2>4 DEF Deduplicated
    <3> QED
      BY <1>1, <2>4, <3>1
  <2> QED
    BY <2>3, <2>4
<1>2. Inv /\ [Next]_vars =>
        [\A i \in DOMAIN mem : InstalledL(i) =>
           \A j \in ids \ {i} : Apart(i, j)]_vars
  BY <1>1
<1> QED
  BY InvAlways, <1>2, PTL DEF Spec, InstallKeepsUserIdsApart
=============================================================================
